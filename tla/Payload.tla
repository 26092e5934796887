------------------------------- MODULE Payload -------------------------------
(***************************************************************************)
(* proto/proto.go on an HTTP payload that has been put together: looking   *)
(* up, setting and deleting headers and parameters of the path.            *)
(*                                                                         *)
(* A payload is the sequence of its lines.  A line is a title, a blank     *)
(* line, a field "name: value" ended by CRLF, or something else; a field   *)
(* may also stand in the body, where the code looks as well.  The names of *)
(* fields are taken to be in one case.  A path is what comes before the    *)
(* question mark, and its parameters.                                      *)
(***************************************************************************)
EXTENDS Integers, Sequences, SequencesExt

Blank == [kind |-> "blank"]
Field(name, value) == [kind |-> "field", name |-> name, value |-> value]
Other(content) == [kind |-> "other", content |-> content]
Request(method, path) == [kind |-> "request", method |-> method, path |-> path]

HasRequestTitle(payload) == payload # <<>> /\ payload[1].kind = "request"

HasTitle(payload) == payload # <<>> /\ payload[1].kind \in {"request", "response"}

First(indices) == IF indices = {} THEN 0 ELSE Min(indices)

\* The line behind which the body starts, 0 if there is none: the second of two
\* ends of line in a row.
MIMEHeadersEndPos(payload) == First({i \in 2 .. Len(payload) : payload[i] = Blank})

Headers(payload) == SubSeq(payload, 1, MIMEHeadersEndPos(payload))

Body(payload) ==
    IF MIMEHeadersEndPos(payload) = 0 THEN <<>>
    ELSE SubSeq(payload, MIMEHeadersEndPos(payload) + 1, Len(payload))

\* The line of a header, 0 if there is none.  The search goes on into the body.
header(payload, name) ==
    First({i \in (IF HasTitle(payload) THEN 2 ELSE 1) .. Len(payload) :
              payload[i].kind = "field" /\ payload[i].name = name})

NoValue == ""

Header(payload, name) ==
    LET i == header(payload, name) IN IF i = 0 THEN NoValue ELSE payload[i].value

\* Mutant: the header is put behind the empty line.
AddHeader_Behind(payload, name, value) ==
    IF MIMEHeadersEndPos(payload) = 0 THEN payload
    ELSE InsertAt(payload, MIMEHeadersEndPos(payload) + 1, Field(name, value))

\* In front of the second line, if the first one ends.
AddHeader(payload, name, value) ==
    IF Len(payload) > 1 \/ HasTitle(payload) THEN InsertAt(payload, 2, Field(name, value)) ELSE payload

\* Mutant: a header that is there stays as it is.
SetHeader_Keeps(payload, name, value) ==
    IF header(payload, name) # 0 THEN payload ELSE AddHeader(payload, name, value)

SetHeader(payload, name, value) ==
    LET i == header(payload, name)
    IN IF i = 0 THEN AddHeader(payload, name, value) ELSE [payload EXCEPT ![i] = Field(name, value)]

DeleteHeader(payload, name) ==
    LET i == header(payload, name) IN IF i = 0 THEN payload ELSE RemoveAt(payload, i)

\* The place of a parameter, 0 if there is none: one after an ampersand is found
\* before one after the question mark.
ParamAt(path, name) ==
    LET places == {i \in DOMAIN path.params : path.params[i].name = name}
    IN IF places \ {1} # {} THEN Min(places \ {1}) ELSE First(places)

ParamOf(path, name) ==
    LET i == ParamAt(path, name) IN IF i = 0 THEN NoValue ELSE path.params[i].value

PathParam(payload, name) == ParamOf(payload[1].path, name)

SetPath(payload, path) == [payload EXCEPT ![1].path = path]

SetPathParam(payload, name, value) ==
    LET path == payload[1].path
        i == ParamAt(path, name)
        param == [name |-> name, value |-> value]
    IN SetPath(payload, [path EXCEPT !.params = IF i = 0 THEN Append(@, param) ELSE [@ EXCEPT ![i] = param]])
=============================================================================
