------------------------------ MODULE MCManifest ------------------------------
(* Projects and documents for TLC, in one run: either a project is built or a   *)
(* document is edited.                                                          *)
EXTENDS ManifestBuild, ManifestDocument

(* Projects: a valid one with up to three lines or blocks added before, between *)
(* and after its fields, and texts of build directives.                         *)

Line(kind, key, val, act) == [kind |-> kind, key |-> key, val |-> val, ind |-> 0, act |-> act]
Control(act)        == <<Line("control", "", "", act)>>
Trailing(key, val, act) == <<Line("tail", key, val, act)>>
Around(key, val)    == <<Line("around", key, val, "none")>>
Build(act, key)     == <<Line("directive", key, "", act)>>
Note                == <<Line("note", "", "", "none")>>

Ids == <<Field("package", "p"), Field("version", "1")>>
App  == <<Field("application", "map"), Child("subdomain", "s")>>

Locales == <<Field("locales", "map"), Child("en", "l")>>

Branching == {Control("open"), Control("else"), Control("close"),
              <<Field("usage", "a")>>, <<Field("name", "n")>>}

(* A block that the comment after a field divides. *)
Turned == Control("open") \o Trailing("version", "2", "else") \o <<Field("usage", "a")>> \o Control("close")

Mixed == {Control("open"), Control("chain"), Control("close"), Note, Locales,
          <<Field("usage", "a")>>, <<Field("min_os_version", "m")>>, <<Field("version", "2")>>,
          <<Field("name", "expr")>>, Around("name", "n"), Around("version", "2"),
          Trailing("name", "n", "open"), Trailing("", "", "close"), Turned, <<Child("image", "embed")>>}

(* Any n of a pool, one after the other. *)
RECURSIVE Rows(_, _)
Rows(pool, n) == IF n = 0 THEN {<<>>} ELSE {e \o row : e \in pool, row \in Rows(pool, n - 1)}

Inserted(pool, n) ==
    UNION {{a \o Ids \o b \o App \o c : a \in Rows(pool, i), b \in Rows(pool, j - i), c \in Rows(pool, n - j)}
             : <<i, j>> \in {<<k, m>> \in (0..n) \X (0..n) : k <= m}}

(* A block that begins or ends between the application and its subdomain, or   *)
(* around the first line of the application.                                  *)
Cuts    == {<<>>} \union {Control(a) : a \in {"open", "else", "close"}}
Image   == <<Child("image", "i")>>
Firsts  == {<<>>, Image, <<[Around("image", "i")[1] EXCEPT !.ind = 1]>>} \union
           {b \o Image \o e : b \in Cuts, e \in Cuts \ {<<>>}}
Divided == {b \o Ids \o <<App[1]>> \o m \o <<App[2]>> \o e : b \in Cuts, m \in Cuts, e \in Cuts}
           \union {Ids \o <<App[1]>> \o m \o <<App[2]>> \o e : m \in Firsts, e \in Cuts}

(* Values that are no strings, and fields that cannot be decoded. *)
Texts(id, version, name, subdomain) ==
    <<Field("package", id), Field("version", version), Field("name", name),
      Field("application", "map"), Child("subdomain", subdomain)>>
Kinds == {"s", "number", "map"}
Odds  == {Field("services", "a"), Field("services", "map"), Field("locales", "l"), Field("min_os_version", "number")}
Typed ==
    {Texts(i, v, "n", s) : i \in Kinds, v \in Kinds, s \in Kinds}
    \union {Texts("p", v, n, "s") \o <<o>> : v \in Kinds, n \in Kinds, o \in Odds}
    \union {t \o Control("open") \o Control("close") :
               t \in {Texts("p", v, n, s) : v \in Kinds, n \in Kinds, s \in Kinds}}
    \union {Ids \o <<Field("application", v)>> : v \in {"a", "map"}}
    \union {Ids \o App \o Image, Ids \o App \o <<Child("image", "map")>>}
    \union {Ids \o App \o <<Field("services", "map"), Child("web", v)>> : v \in {"map", "a"}}

Plain0 == [package |-> NoFile, holds |-> {}, includes |-> <<>>, override |-> <<>>, version |-> "",
           forceV2 |-> FALSE, images |-> FALSE, strict |-> TRUE, text |-> Ids \o App]

PackageFile == <<Field("package", "q"), Field("version", "3"), Field("min_os_version", "m")>>
Marked      == [PackageFile EXCEPT ![3] = Field("name", "expr")]

Requests ==
    { Plain0,
      [Plain0 EXCEPT !.forceV2 = TRUE],
      [Plain0 EXCEPT !.version = "9"],
      [Plain0 EXCEPT !.override = [name |-> "other", version |-> "8"], !.version = "9"],
      [Plain0 EXCEPT !.override = [name |-> ""]],
      [Plain0 EXCEPT !.package = PackageFile, !.version = "9", !.strict = FALSE],
      [Plain0 EXCEPT !.package = <<Field("name", "n")>>, !.override = [name |-> ""], !.strict = FALSE],
      [Plain0 EXCEPT !.images = TRUE] }

Overrides == {<<>>, [name |-> "number"], [locales |-> "l"], [locales |-> "map"], [version |-> "number"],
              [services |-> "map"], [services |-> "a", name |-> "n"], [services |-> ""],
              [version |-> "8", package |-> "r"], [name |-> "map"]}
Packages  == {NoFile, PackageFile, <<Field("package", "q"), Field("version", "number"), Field("name", "number")>>,
              PackageFile \o <<Field("services", "map"), Child("db", "map")>>}
Kinded    == {[Plain0 EXCEPT !.override = o, !.package = f, !.version = v] :
                o \in Overrides, f \in Packages, v \in {""}}
             \union {[Plain0 EXCEPT !.package = f, !.version = "9"] : f \in Packages}

Odd == { [Plain0 EXCEPT !.package = Marked],
         [Plain0 EXCEPT !.package = Marked, !.override = [package |-> "expr"]] }

(* Each request with each text, as sets of records that TLC need not sort. *)
With(requests, texts) ==
    UNION {[text : texts, package : {r.package}, holds : {r.holds}, includes : {r.includes}, override : {r.override},
            version : {r.version}, forceV2 : {r.forceV2}, images : {r.images}, strict : {r.strict}] : r \in requests}

Directives == {Build("if", "a"), Build("if", "b"), Build("else", ""), Build("end", ""), <<Field("x", "1")>>}
OddDirectives == Directives \union
    {Build("if", "bad"), Build("include", "f"), Build("include", "g"), Build("include", "h"), Build("when", "a")}

Files == [f |-> <<Field("y", "1"), Field("z", "2")>>, g |-> Build("if", "a")]

Sequence(pool, n) == UNION {Rows(pool, k) : k \in 1..n}

DirectiveTexts ==
    Sequence(OddDirectives, 3) \union Sequence(Directives, 4)
    \union {Build("if", c) \o t \o Build("end", "") : c \in {"a", "b"}, t \in Sequence(Directives, 4)}

MCProjects ==
    With({Plain0}, Divided) \union With(Kinded, Typed)
    \union With(Requests, UNION {Inserted(Mixed, n) : n \in 0..2})
    \union With(Odd, Inserted(Mixed, 1))
    \union With({r \in Requests : r.package = NoFile /\ ~r.images /\ r.override = <<>>}, Inserted(Branching, 3))
    \union With({[Plain0 EXCEPT !.holds = {"a"}, !.includes = Files]}, DirectiveTexts)

OneProject == With({[Plain0 EXCEPT !.forceV2 = TRUE]}, Inserted(Mixed, 2))

-----------------------------------------------------------------------------
(* Documents: three fields, each a scalar, a mapping with one field or an        *)
(* alias, with at least one alias; names of anchors may be used twice.          *)
DScalar(a)   == [kind |-> "scalar", anchor |-> a]
DAlias(n)    == [kind |-> "alias", name |-> n]
DMap(a, c)   == [kind |-> "map", anchor |-> a, child |-> c]
Leafs  == {DScalar(""), DScalar("y"), DAlias("x"), DAlias("y")}
Shapes == {DScalar(""), DScalar("x"), DAlias("x"), DAlias("y")} \union {DMap(a, c) : a \in {"", "x"}, c \in Leafs}

NodeOf(shape, val, kid) ==
    [kind |-> shape.kind, val |-> IF shape.kind = "alias" THEN shape.name ELSE IF shape.kind="map" THEN "map" ELSE val,
     anchor |-> IF shape.kind = "alias" THEN "" ELSE shape.anchor,
     alias |-> 0, kids |-> IF shape.kind = "map" THEN <<<<"c", kid>>>> ELSE <<>>]

Heap(keys, shapes) ==
    LET raw == [id \in {1} \union {10 * k : k \in DOMAIN keys} \union {10 * k + 1 : k \in {j \in DOMAIN keys : shapes[j].kind = "map"}} |->
                  IF id = 1 THEN [kind |-> "map", val |-> "map", anchor |-> "", alias |-> 0,
                                  kids |-> [k \in DOMAIN keys |-> <<keys[k], 10 * k>>]]
                  ELSE IF id % 10 = 0 THEN NodeOf(shapes[id \div 10], keys[id \div 10], id + 1)
                  ELSE NodeOf(shapes[id \div 10].child, "c of " \o keys[id \div 10], 0)]
    IN  [id \in DOMAIN raw |-> IF raw[id].kind = "alias" THEN [raw[id] EXCEPT !.alias = Named(raw, 1, id)] ELSE raw[id]]

Good(h) == \A id \in DOMAIN h : h[id].kind = "alias" => h[id].alias # 0 /\ id \notin ToSet(Nodes(h, h[id].alias))

(* Each field in each place, and each two in both orders. *)
Orders == LET k == StaticOrder \o <<"routes">>
          IN  {<<k[1], k[2], k[3]>>, <<k[2], k[3], k[1]>>, <<k[3], k[1], k[2]>>}
Docs == {h \in {Heap(o, s) : o \in Orders, s \in [1..3 -> Shapes]} : Good(h) /\ \E id \in DOMAIN h : IsAlias(h, id)}
NoDocuments == {}

MCLocalNames == <<"lpk_local_1", "lpk_local_2", "lpk_local_3", "lpk_local_4">>

-----------------------------------------------------------------------------
MCInit ==
    \/ /\ BuildInit
       /\ heap = <<>> /\ docRoot = NoRoot /\ splitRoot = NoRoot /\ edits = 0 /\ last = [op |-> "none"]
    \/ /\ DocInit
       /\ project = Plain0 /\ phase = "none" /\ processed = <<>> /\ templated = FALSE
       /\ values = [n \in Names |-> ""] /\ document = <<>> /\ package = NoFile
       /\ staging = None /\ lpk = None

MCNext ==
    \/ BuildNext /\ UNCHANGED docVars
    \/ DocNext /\ UNCHANGED buildVars

MCSpec == MCInit /\ [][MCNext]_<<buildVars, docVars>>
=============================================================================
