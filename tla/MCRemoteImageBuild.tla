------------------------ MODULE MCRemoteImageBuild ------------------------
(* Two builds of two images that share a layer; and, before them, contexts  *)
(* of one image.  The builds share the backend and the cache, and nothing   *)
(* of a context, which is a file in the work directory of one of them: the  *)
(* two are checked side by side.                                            *)
EXTENDS RemoteImageBuild, BuildContext, TLC

CONSTANTS b1, b2, shared, own1, app, web

MCNeeds == (app :> {shared, own1}) @@ (web :> {shared})

-----------------------------------------------------------------------------
MCBlocks ==
    [x |-> 1, y |-> 1, long |-> 3, all |-> 1, dir |-> 1, some |-> 1, bad |-> 1,
     star |-> 1, deny |-> 1, again |-> 1]

MCGlobs == ("*" :> {"a", "b", "d"}) @@ ("**" :> {"a", "b", "d"})

Line(words) == [kind |-> "text", words |-> words, more |-> FALSE]
Comment(words) == [Line(words) EXCEPT !.kind = "comment"]
Copy == <<"COPY">>
To == <<"/", "x">>

MCInstructions ==
    [all  |-> << Comment(<<Copy, <<"a">>, To>>), Line(<<Copy, <<>>, To>>) >>,
     dir  |-> << Line(<<Copy, <<"--", "from">>, <<"a">>, To>>), Line(<<Copy, <<"/", "d">>, <<"/">>, To>>) >>,
     some |-> << [Line(<<<<"ADD">>, <<"d", "d", "a">>>>) EXCEPT !.more = TRUE], Line(<<<<"b">>, To>>) >>,
     star |-> << Line(<<Copy, <<"*">>, <<"://", "a">>, To>>), Line(<<Copy, <<"d", "**">>, To>>) >>,
     bad  |-> << Line(<<Copy, <<"..", "a">>, To>>) >>]
    @@ [d \in DOMAIN MCBlocks |-> <<>>]

Deny(path) == [path |-> path, negate |-> FALSE]
Allow(path) == [path |-> path, negate |-> TRUE]

MCRules ==
    [deny  |-> << Deny(<<"d">>), Deny(<<"*">>), Allow(<<"b">>) >>,
     again |-> << Deny(<<"d", "d">>), Allow(<<"d", "d", "a">>) >>]
    @@ [d \in DOMAIN MCBlocks |-> <<>>]

(* Names are compared as bytes: "." before "D", before "a".                 *)
MCOrder ==
    << <<>>, Dockerignore, Cache, Append(Cache, "a"), Dockerfile, <<"a">>, <<"b">>, <<"d">>, <<"d", "b">>,
       <<"d", "d">>, <<"d", "d", "a">> >>
MCRank == [p \in ToSet(MCOrder) |-> CHOOSE k \in DOMAIN MCOrder : MCOrder[k] = p]

Node(k, d) == [kind |-> k, data |-> d]
MCNodes ==
    {Node("file", d) : d \in {"y", "long", "dir", "again"}}
    \union {Node("directory", "x"), Node("link", "x"), Node("socket", "x")}

MCTree(file, ignore) ==
    [p \in {<<>>, <<"d">>, <<"d", "d">>, Cache} |-> Node("directory", "x")]
    @@ [p \in {<<"a">>, <<"d", "b">>, <<"d", "d", "a">>, Append(Cache, "a")} |-> Node("file", "x")]
    @@ (Dockerfile :> Node("file", file))
    @@ IF ignore = "none" THEN <<"b">> :> Node("link", "x") ELSE Dockerignore :> Node("file", ignore)

MCContexts ==
    {[tree |-> MCTree(f, i), path |-> Dockerfile, inline |-> {}, linked |-> FALSE] :
        f \in {"all", "dir", "some", "star", "bad"}, i \in {"none", "deny", "again"}}
    \union
    {[tree |-> MCTree("dir", "none"), path |-> Dockerfile, inline |-> {"all"}, linked |-> l] : l \in BOOLEAN}

-----------------------------------------------------------------------------
NoContext ==
    /\ at = "none" /\ entry = Nothing /\ tree = Nothing /\ text = "" /\ selectors = {} /\ rules = <<>>
    /\ toList = {} /\ pending = {} /\ header = Nothing /\ out = Nothing /\ written = 0
    /\ touched = {} /\ edits = 0

MCInit == Init /\ (ContextInit \/ NoContext)

MCNext ==
    \/ at = "none" /\ Next /\ UNCHANGED contextVars
    \/ ContextNext /\ UNCHANGED vars

MCSpec == MCInit /\ [][MCNext]_<<vars, contextVars>>
=============================================================================
