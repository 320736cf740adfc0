----------------------------- MODULE MCArchive -----------------------------
(* Containers of up to three entries, over the destinations an extraction   *)
(* can meet, and containers that are at the limits.                         *)
EXTENDS Archive

MCMaxInt == 7
MCBytes == [x |-> 1, yy |-> 2]

Entry(n, t, m, l, d) ==
    [name |-> n, type |-> t, mode |-> m, link |-> l, data |-> d, size |-> 1, whole |-> TRUE]
D(n, m) == Entry(n, "directory", m, <<>>, "none")
F(n, m) == Entry(n, "regular", m, <<>>, "x")
H(n, l) == Entry(n, "hardlink", "open", l, "none")
S(n, l) == Entry(n, "symlink", "open", l, "none")

MCPool ==
    { D(<<".">>, "closed"), D(<<"d">>, "closed"), D(<<"d", "e">>, "open"),
      F(<<"a">>, "closed"), F(<<"d", "a">>, "open"),
      F(<<"a\\b">>, "open"), [F(<<"b">>, "open") EXCEPT !.whole = FALSE],
      H(<<"h">>, <<"d", ".", "a">>), H(<<"d", "h">>, <<"a">>),
      S(<<"d", "s">>, <<"..">>), S(<<"e">>, <<"d", "s", "..">>), S(<<"d", "a">>, <<"..", "d">>) }

(* Entries that may not be extracted.                                       *)
MCRefused ==
    { F(<<"/", "a">>, "open"), F(<<"d", "..", "..", "a">>, "open"), F(<<".">>, "open"),
      [F(<<"c">>, "open") EXCEPT !.type = "other"], H(<<"h">>, <<"..", "a">>),
      S(<<"d", "a">>, <<"x", "..", "..", "..">>), S(<<"e">>, <<"/", "x">>) }

MCSized(n, size) == [F(<<n>>, "open") EXCEPT !.size = size]

MCArchives ==
    { [format |-> "tar", bytes |-> 2, entries |-> s] :
        s \in {t \in SeqOf(MCPool, 3) : t # <<>> /\ IsInjective(t)} }
    \union
    UNION { { [format |-> f, bytes |-> 2, entries |-> <<e, r>>],
              [format |-> f, bytes |-> 2, entries |-> <<r, e>>] } :
              f \in {"tar", "zip"}, e \in {F(<<"a">>, "open"), D(<<"d">>, "open")},
              r \in {x \in MCRefused : x.type # "hardlink"} }
    \union
    { [format |-> "tar", bytes |-> 2, entries |-> <<F(<<"a">>, "open"), x>>] : x \in MCRefused }
    \union
    { [format |-> f, bytes |-> b, entries |-> <<MCSized("a", i), MCSized("b", j)>>] :
        f \in {"zip"}, b \in {1, 2, 3, 6, 7}, i, j \in {0, 1, 6, 7, 8, 15} }

MCSources ==
    { [format |-> f, files |-> s] :
        f \in {"tar", "zip"},
        s \in { << [name |-> <<n>>, type |-> "directory", mode |-> m, data |-> "x", walked |-> "x"],
                   [name |-> <<n, k>>, type |-> t, mode |-> m, data |-> "x", walked |-> "x"],
                   [name |-> <<"z">>, type |-> "regular", mode |-> "open", data |-> "yy", walked |-> "yy"] >> :
                n \in {"a", "d"}, k \in {"b", "a\\b"}, t \in {"regular", "directory", "symlink"},
                m \in {"open", "closed"} } }

Root(m) == <<>> :> [kind |-> "directory", mode |-> m, ino |-> <<>>, to |-> <<>>]
(* A new directory, and one with a hard link, a link that goes up, but not  *)
(* out, and a file in it.                                                   *)
MCTrees ==
    { [tree |-> Root("open"), disk |-> <<>>],
      [tree |-> Root("open") @@ <<"a">> :> File(<<"h">>) @@ <<"h">> :> File(<<"h">>)
                @@ <<"d">> :> NewDirectory @@ <<"d", "e">> :> Link(<<"..", "d", "s">>),
       disk |-> <<"h">> :> [data |-> "old", mode |-> "open"]] }

MCLimits ==
    { [input |-> 7, entries |-> 3, file |-> 7, total |-> 7, path |-> 3],
      [input |-> 2, entries |-> 2, file |-> 6, total |-> 6, path |-> 2],
      [input |-> 6, entries |-> 1, file |-> 1, total |-> 7, path |-> 3] }

MCSelections == {All, {<<"a">>}, {<<"d", "a">>, <<"h">>}}
=============================================================================
