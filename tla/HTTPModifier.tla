---------------------------- MODULE HTTPModifier ----------------------------
(***************************************************************************)
(* What CopyMulty does to a payload between reading and writing it:        *)
(* Rewrite of core/http_modifier.go, for requests, and PrettifyHTTP of     *)
(* core/http_prettifier.go.                                                *)
(*                                                                         *)
(* A regular expression is the set of what it matches: whole paths, with   *)
(* their query, or values.  A rewriting of paths is a function from those  *)
(* it matches to what it makes of them.  The content of a body is a        *)
(* sequence of units, and an encoding a unit around some: chunks, all of   *)
(* them or cut off, and gzip, whole, cut off, or not gzip at all.          *)
(***************************************************************************)
EXTENDS Payload, FiniteSets, Folds

CONSTANTS
    Configs,     \* configurations of the modifier, see Config
    Payloads,    \* payloads that are read
    Hash(_),     \* of a value: its FNV hash modulo 100
    Basic,       \* values of Authorization that start with "Basic "
    Infinity     \* what the machine makes of an infinite float as an uint32

\* The options, each a sequence but for the last: set headers and parameters, filters,
\* rewritings, and whether there is a prettifier.
Options == {"methods", "headers", "params", "allow", "disallow", "allowHeader", "disallowHeader",
            "basicAuth", "headerHash", "paramHash", "rewriteURL", "rewriteHeader", "prettify"}

IsSequence(s) == s \in Seq(ToSet(s))

\* A path has its parameters in a sequence.
IsPath(path) == path = [base |-> path.base, params |-> path.params] /\ IsSequence(path.params)

\* A payload is a sequence of lines, and so is what is in its encodings.
WellFormed(p) ==
    /\ IsSequence(p)
    /\ HasRequestTitle(p) =>
          p[1] = Request(p[1].method, p[1].path) /\ IsPath(p[1].path)
    /\ \A i \in DOMAIN p : p[i].kind \in {"chunked", "gzip"} =>
          /\ IsSequence(p[i].content)
          /\ \A j \in DOMAIN p[i].content :
                p[i].content[j].kind = "gzip" => IsSequence(p[i].content[j].content)

ASSUME ModifierAssumption ==
    /\ \A config \in Configs :
          /\ DOMAIN config = Options
          /\ \A option \in Options \ {"prettify"} : IsSequence(config[option])
          /\ \A f \in ToSet(config.rewriteURL) : \A path \in DOMAIN f : IsPath(f[path])
    /\ \A p \in Payloads : WellFormed(p)
    /\ Infinity \in Nat

VARIABLES
    config,      \* settings, for good
    original,    \* the payload that was read
    payload,     \* msg.Data
    step         \* what has been done with it
modifierVars == <<config, original, payload, step>>

-----------------------------------------------------------------------------
(* The settings of the hash filters *)

\* Set of HTTPHashFilters: "n%", or the deprecated "num/den", becomes an uint32; of a
\* negative number it makes one above all hashes; but for rounding of the fraction.
Percent(f) ==
    CASE f.form = "percent" -> IF f.num < 0 THEN 100 ELSE f.num
      [] f.form = "fraction" /\ f.den # 0 -> (f.num * 100) \div f.den
      [] f.form = "fraction" /\ f.den = 0 -> Infinity

-----------------------------------------------------------------------------
(* Rewrite *)

SetHeaders(p) == FoldLeft(LAMBDA q, h : SetHeader(q, h.name, h.value), p, config.headers)

SetParams(p) == FoldLeft(LAMBDA q, param : SetPathParam(q, param.name, param.value), p, config.params)

Bound(f, value) == Hash(value) >= Percent(f)

\* One of the filters, each of which may be empty, drops the request.  A filter on
\* a header that is missing drops it only if it is to be allowed.
Dropped(p) ==
    LET path == p[1].path
        is(f) == Header(p, f.name)
    IN \/ config.methods # <<>> /\ p[1].method \notin ToSet(config.methods)
       \/ config.allow # <<>> /\ \A i \in DOMAIN config.allow : path \notin config.allow[i]
       \/ \E i \in DOMAIN config.disallow : path \in config.disallow[i]
       \/ \E f \in ToSet(config.allowHeader) : is(f) = NoValue \/ is(f) \notin f.regexp
       \/ \E f \in ToSet(config.disallowHeader) : is(f) # NoValue /\ is(f) \in f.regexp
       \/ \E regexp \in ToSet(config.basicAuth) :
             LET value == Header(p, "Authorization")
             IN value \in Basic /\ value \notin regexp
       \/ \E f \in ToSet(config.headerHash) : is(f) # NoValue /\ Bound(f, is(f))
       \/ \E f \in ToSet(config.paramHash) :
             ParamAt(path, f.name) # 0 /\ Bound(f, PathParam(p, f.name))

\* The first rewriting that matches makes a new path of the whole one: parameters
\* set before may be changed by it, or be gone.
RewriteURL(p) ==
    LET path == p[1].path
        i == First({j \in DOMAIN config.rewriteURL : path \in DOMAIN config.rewriteURL[j]})
    IN IF i = 0 THEN p ELSE SetPath(p, config.rewriteURL[i][path])

\* Every rewriting that matches, up to one whose header is missing.
RewriteHeaders(p) ==
    LET one(at, f) ==
            LET value == Header(at.p, f.name)
            IN CASE at.stop \/ value = NoValue -> [at EXCEPT !.stop = TRUE]
                 [] ~at.stop /\ value # NoValue /\ value \in f.src ->
                        [at EXCEPT !.p = SetHeader(@, f.name, f.target)]
                 [] OTHER -> at
    IN FoldLeft(one, [p |-> p, stop |-> FALSE], config.rewriteHeader).p

Rewrite(p) ==
    IF ~HasRequestTitle(p) THEN p
    ELSE LET set == SetParams(SetHeaders(p))
         IN IF Dropped(set) THEN <<>> ELSE RewriteHeaders(RewriteURL(set))

-----------------------------------------------------------------------------
(* PrettifyHTTP *)

Chunked(content, whole) == [kind |-> "chunked", content |-> content, whole |-> whole]
Gzip(content, whole) == [kind |-> "gzip", content |-> content, whole |-> whole]

IsEncoded(content, kind) == content # <<>> /\ content[1].kind = kind

\* Reading chunks: what there is of them, nothing if it is no chunks; an error at the
\* end is ignored.
Dechunked(content) == IF IsEncoded(content, "chunked") THEN content[1].content ELSE <<>>

\* Mutant: the length stays what it was.
Decoded_OldLength(headers, encoding, content) == DeleteHeader(headers, encoding)

\* The headers after an encoding has been undone.
Decoded(headers, encoding, content) ==
    SetHeader(DeleteHeader(headers, encoding), "Content-Length", ToString(Len(content)))

Remnant == Other("remnant")

\* The headers are changed where they are in memory.  If the gzip then turns out to
\* be cut off, what is returned is the payload with these changes in it.
PrettifyHTTP(p) ==
    LET chunked == Header(p, "Transfer-Encoding") = "chunked"
        gzip == Header(p, "Content-Encoding") = "gzip"
        content == IF chunked THEN Dechunked(Body(p)) ELSE Body(p)
        headers == IF chunked THEN Decoded(Headers(p), "Transfer-Encoding", content) ELSE Headers(p)
    IN CASE ~(chunked \/ gzip) \/ MIMEHeadersEndPos(p) = 0 -> p
         [] ~gzip /\ chunked /\ MIMEHeadersEndPos(p) # 0 -> headers \o content
         [] gzip /\ MIMEHeadersEndPos(p) # 0 ->
              IF ~IsEncoded(content, "gzip") THEN <<>>
              ELSE IF ~content[1].whole
              THEN IF chunked THEN headers \o <<Remnant>> \o Body(p) ELSE p
              ELSE Decoded(headers, "Content-Encoding", content[1].content) \o content[1].content

-----------------------------------------------------------------------------
(* The emitter *)

ModifierInit ==
    /\ config \in Configs
    /\ original \in Payloads
    /\ payload = original
    /\ step = "read"

\* A payload of length zero is not written.
Becomes(new, next) ==
    /\ payload' = new
    /\ step' = IF new = <<>> THEN "dropped" ELSE next
    /\ UNCHANGED <<config, original>>

Modify == step = "read" /\ Becomes(Rewrite(payload), "modified")

Prettify ==
    /\ step = "modified"
    /\ Becomes(IF config.prettify THEN PrettifyHTTP(payload) ELSE payload, "written")

ModifierSpec == ModifierInit /\ [][Modify \/ Prettify]_modifierVars

-----------------------------------------------------------------------------
(* Properties *)

Rewritten == {f.name : f \in ToSet(config.rewriteHeader)}

\* Names the code looks for.
LookedFor == {h.name : h \in ToSet(config.headers)} \cup Rewritten
             \cup IF config.prettify THEN {"Transfer-Encoding", "Content-Encoding"} ELSE {}

\* The code finds one of them in the body, the headers having none.
FoundInBody == \E name \in LookedFor : header(Headers(original), name) = 0 /\ header(original, name) # 0

\* The prettifier undoes chunks around gzip that is cut off.
CutGzip == /\ config.prettify
           /\ IsEncoded(Body(original), "chunked")
           /\ LET content == Dechunked(Body(original))
              IN IsEncoded(content, "gzip") /\ ~content[1].whole

\* The settings that count: the last one of a name.
Final(settings) == {settings[i] : i \in {i \in DOMAIN settings :
                      \A j \in DOMAIN settings : settings[j].name = settings[i].name => j <= i}}

\* Headers the prettifier sets or deletes.
Prettified == IF config.prettify THEN {"Transfer-Encoding", "Content-Encoding", "Content-Length"} ELSE {}

ParamsSet(path) == \A param \in Final(config.params) : ParamOf(path, param.name) = param.value

\* A request is written with every header that is set, but for those that are
\* rewritten and those the prettifier changes; and with a path that has every
\* parameter that is set, or that a rewriting has made of one that had them.
SettingsHold ==
    (step = "written" /\ HasRequestTitle(original) /\ ~FoundInBody) =>
        /\ \A h \in Final(config.headers) : h.name \notin Rewritten \cup Prettified => Header(payload, h.name) = h.value
        /\ \/ ParamsSet(payload[1].path)
           \/ \E f \in ToSet(config.rewriteURL) : \E path \in DOMAIN f :
                 ParamsSet(path) /\ payload[1].path = f[path]

\* The body is written as it was read, or decoded; but for fields in it that are
\* taken for headers, and gzip that is cut off inside of chunks.
BodyKept ==
    (step = "written" /\ ~FoundInBody /\ ~CutGzip) =>
        LET body == Body(original)
            chunks == IF IsEncoded(body, "chunked") THEN Dechunked(body) ELSE body
        IN Body(payload) \in {body, chunks} \cup
                {chunks[1].content : i \in {i \in {1} : IsEncoded(chunks, "gzip") /\ config.prettify}}

\* The body is chunks if the headers say so, and else as long as they say.
Framed(p) ==
    IF Header(Headers(p), "Transfer-Encoding") = "chunked" THEN IsEncoded(Body(p), "chunked")
    ELSE Header(Headers(p), "Content-Length") \in {NoValue, ToString(Len(Body(p)))}

\* A payload whose headers tell the extent of its body does so when it is written,
\* with the same exceptions.
KeepsFraming == (Framed(original) /\ ~FoundInBody /\ ~CutGzip) => (step = "written" => Framed(payload))
=============================================================================
