--------------------------- MODULE MC_HTTPModifier ---------------------------
\* Configurations that set and rewrite, and configurations that filter; payloads with
\* headers and parameters there, missing and doubled, and bodies of every encoding.
EXTENDS HTTPModifier

HashOf(value) == IF value = "1" THEN 20 ELSE 70

Set(name, value) == [name |-> name, value |-> value]
None == [option \in Options |-> IF option = "prettify" THEN FALSE ELSE <<>>]

Path(base, params) == [base |-> base, params |-> params]

\* The paths requests come with, and what setting parameters makes of them.
MCPaths == {Path(base, params) : base \in {"/a", "/b"},
               params \in {<<>>, <<Set("p", "1"), Set("q", "2")>>, <<Set("q", "2"), Set("p", "3"), Set("p", "1")>>,
                          <<Set("p", "2"), Set("q", "1")>>, <<Set("q", "1"), Set("p", "2"), Set("p", "1")>>}}

\* Regular expressions on the front of the path and on its query.
On(base) == {path \in MCPaths : path.base = base}
Asks(param) == {path \in MCPaths : param \in ToSet(path.params)}

To(base, regexp) == [path \in regexp |-> [path EXCEPT !.base = base]]
Unasked(regexp) == [path \in regexp |-> [path EXCEPT !.params = <<>>]]

Setters ==
    {[None EXCEPT !.headers = headers, !.params = params, !.rewriteURL = url, !.rewriteHeader = rewriting,
                  !.prettify = pretty] :
        headers \in {<<>>, <<Set("A", "1")>>, <<Set("B", "1"), Set("A", "1"), Set("B", "2")>>},
        params \in {<<>>, <<Set("p", "1"), Set("q", "1"), Set("p", "2")>>},
        url \in {<<>>, <<To("/c", On("/b")), To("/d", MCPaths)>>,
                <<[path \in On("/b") \cap Asks(Set("p", "2")) |-> Path("/b", <<Set("p", "3")>>)],
                  Unasked(Asks(Set("q", "1")))>>},
        rewriting \in {<<>>, <<[name |-> "B", src |-> {"1"}, target |-> "2"],
                            [name |-> "A", src |-> {"1", "2"}, target |-> "3"]>>},
        pretty \in BOOLEAN}

Filter(name, regexp) == [name |-> name, regexp |-> regexp]
Share(name, form, num, den) == [name |-> name, form |-> form, num |-> num, den |-> den]

Filtering ==
    {[None EXCEPT !.methods = methods, !.allow = allow, !.disallow = disallow, !.allowHeader = headers,
                  !.disallowHeader = refused] :
        methods \in {<<>>, <<"POST">>},
        allow \in {<<>>, <<{}, On("/a")>>},
        disallow \in {<<>>, <<On("/b"), Asks(Set("p", "3"))>>},
        headers \in {<<>>, <<Filter("A", {"1"})>>},
        refused \in {<<>>, <<Filter("A", {"2"})>>}}

Sharing ==
    {[None EXCEPT !.basicAuth = auth, !.headerHash = hash, !.paramHash = hash] :
        auth \in {<<>>, <<{"Basic good"}>>},
        hash \in {<<>>, <<Share("p", "percent", 50, 1)>>, <<Share("A", "fraction", 1, 2)>>,
                  <<Share("A", "percent", -1, 1), Share("p", "fraction", 1, 0)>>}}

MCConfigs == Setters \cup Filtering \cup Sharing

Titles == {Request("POST", Path("/a", <<>>)), Request("GET", Path("/b", <<Set("p", "1"), Set("q", "2")>>)),
           Request("POST", Path("/a", <<Set("q", "2"), Set("p", "3"), Set("p", "1")>>)),
           [kind |-> "response"]}

Plain == <<Other("x"), Field("A", "1")>>
Length(n) == Field("Content-Length", ToString(n))
Chunks == Field("Transfer-Encoding", "chunked")
Zipped == Field("Content-Encoding", "gzip")

\* What follows the title.
Rests ==
    {<<Blank>>, <<Length(2), Blank>> \o Plain, <<Field("A", "1"), Length(2), Blank>> \o Plain,
     <<Length(1), Field("B", "1"), Field("A", "2"), Blank, Other("x")>>,
     <<Field("Authorization", "Basic bad"), Blank>>, <<Field("Authorization", "Basic good"), Blank>>,
     <<Chunks, Field("A", "1"), Blank, Chunked(Plain, TRUE)>>, <<Chunks, Blank, Chunked(<<Other("x")>>, FALSE)>>,
     <<Length(1), Zipped, Blank, Gzip(<<Other("x"), Other("y")>>, TRUE)>>,
     <<Zipped, Length(1), Blank, Gzip(<<Other("x")>>, FALSE)>>, <<Zipped, Blank>>,
     <<Chunks, Zipped, Blank, Chunked(<<Gzip(<<Other("x"), Other("y")>>, TRUE)>>, TRUE)>>,
     <<Zipped, Chunks, Blank, Chunked(<<Gzip(<<Other("x")>>, FALSE)>>, FALSE)>>,
     <<Length(2), Blank, Field("A", "2"), Chunks>>}

\* A payload without a title, and one whose headers do not end, come too.
MCPayloads == {<<title>> \o rest : title \in Titles, rest \in Rests} \cup
              {<<Field("A", "1"), Chunks, Blank, Chunked(Plain, TRUE)>>, <<Other("x")>>,
               <<Request("POST", Path("/a", <<>>)), Chunks, Field("A", "1")>>}
=============================================================================
