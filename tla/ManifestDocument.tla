--------------------------- MODULE ManifestDocument ---------------------------
(***************************************************************************)
(* manifest.Document: a tree of YAML nodes in which an alias points at the  *)
(* node it stands for, edited by Set and Delete and divided by              *)
(* SplitEffective (document.go, package_info.go).  An edit may take the     *)
(* node away that an alias points at; localizeAliases then puts a copy of    *)
(* it in the place of the alias.  What is written is text, in which an alias *)
(* has only a name and stands for the last anchor of that name before it.    *)
(*                                                                         *)
(* A node is [kind, val, anchor, alias, kids]; kids is a sequence of keys    *)
(* and node identities.  Nodes that leave the tree stay in the heap.         *)
(***************************************************************************)
EXTENDS Integers, SequencesExt

CONSTANTS Documents,    \* heaps of well-formed documents with root 1
          MaxEdits,
          LocalNames    \* lpk_local_1, lpk_local_2, ... as far as they are needed

VARIABLES heap, docRoot, splitRoot, edits, last

docVars == <<heap, docRoot, splitRoot, edits, last>>

NoRoot == 0

IsNode(n) == DOMAIN n = {"kind", "val", "anchor", "alias", "kids"}

StaticOrder == <<"version", "name">>

KidIds(h, id) == [k \in DOMAIN h[id].kids |-> h[id].kids[k][2]]

(* collectSyntaxNodes: the nodes of a tree in the order of its text.        *)
RECURSIVE Nodes(_, _)
Nodes(h, id) == <<id>> \o FlattenSeq([k \in DOMAIN h[id].kids |-> Nodes(h, h[id].kids[k][2])])

(* The nodes a copy of a node needs, those its aliases point at included.   *)
RECURSIVE Closure(_, _)
Closure(h, ids) ==
    LET more == ids \union UNION {ToSet(KidIds(h, i)) : i \in ids}
                    \union {h[i].alias : i \in {j \in ids : h[j].kind = "alias"}}
    IN  IF more = ids THEN ids ELSE Closure(h, more)

-----------------------------------------------------------------------------
(* localizeAliases                                                          *)

IsAlias(h, id) == h[id].kind = "alias"

External(h, root) ==
    LET nodes == Nodes(h, root)
    IN  SelectSeq(nodes, LAMBDA id : IsAlias(h, id) /\ h[id].alias \notin ToSet(nodes))

Anchors(h, root) == {h[id].anchor : id \in ToSet(Nodes(h, root))} \ {""}

NextAnchor(used) == LocalNames[Min({k \in DOMAIN LocalNames : LocalNames[k] \notin used})]

(* cloneNodeInto: the alias becomes a copy of its target; what that reaches   *)
(* is copied to new nodes.                                                  *)
Copied(h, at, target) ==
    LET others == SetToSeq(Closure(h, {target}) \ {target})
        base   == Max(DOMAIN h)
        new    == [i \in Closure(h, {target}) |->
                      IF i = target THEN at ELSE base + (CHOOSE k \in DOMAIN others : others[k] = i)]
        image(i) == [h[i] EXCEPT !.alias = IF h[i].kind = "alias" THEN new[@] ELSE @,
                                 !.kids = [k \in DOMAIN @ |-> <<@[k][1], new[@[k][2]]>>]]
        source(j) == CHOOSE i \in DOMAIN new : new[i] = j
    IN  [j \in DOMAIN h \union {new[i] : i \in DOMAIN new} |->
            IF \E i \in DOMAIN new : new[i] = j THEN image(source(j)) ELSE h[j]]

(* renameLocalAnchors, in some order, and the anchor of the copy itself.    *)
Renamed(r, id) ==
    LET name == r.heap[id].anchor
        free == IF name \in r.used THEN NextAnchor(r.used) ELSE name
    IN  IF name = "" THEN r
        ELSE [heap |-> [r.heap EXCEPT ![id].anchor = free], used |-> r.used \union {free}]

(* synchronizeAliasValues.                                                  *)
Synchronized(h, at) ==
    [id \in DOMAIN h |-> IF id \in ToSet(Nodes(h, at)) /\ IsAlias(h, id)
                         THEN [h[id] EXCEPT !.val = h[h[id].alias].anchor] ELSE h[id]]

Localize1(r, at) ==
    LET target == r.heap[at].alias
        done   == {p \in r.localized : p[1] = target}
        first  == (CHOOSE p \in done : TRUE)[2]
        copy   == Copied(r.heap, at, target)
        named  == FoldLeft(Renamed, [heap |-> copy, used |-> r.used], Nodes(copy, at))
    IN  IF done # {}
        THEN [r EXCEPT !.heap[at] = [kind |-> "alias", val |-> r.heap[first].anchor, anchor |-> "",
                                     alias |-> first, kids |-> <<>>]]
        ELSE [heap      |-> Synchronized(named.heap, at),
              used      |-> named.used,
              localized |-> r.localized \union {<<target, at>>}]

RECURSIVE LocalizeAliases(_, _)
LocalizeAliases(h, root) ==
    LET external == External(h, root)
    IN  IF external = <<>> THEN h
        ELSE LocalizeAliases(
               FoldLeft(Localize1, [heap |-> h, used |-> Anchors(h, root), localized |-> {}], external).heap,
               root)

-----------------------------------------------------------------------------
(* Paths                                                                    *)

KidAt(h, id, key) == {k \in DOMAIN h[id].kids : h[id].kids[k][1] = key}

(* lookupNode: through mappings, never through an alias.                    *)
LookupNode(h, root, path) ==
    FoldLeft(LAMBDA id, key :
               IF id = NoRoot \/ h[id].kind # "map" \/ KidAt(h, id, key) = {} THEN NoRoot
               ELSE h[id].kids[CHOOSE k \in KidAt(h, id, key) : TRUE][2],
             root, path)

Scalar(val) == [kind |-> "scalar", val |-> val, anchor |-> "", alias |-> NoRoot, kids |-> <<>>]

DocInit ==
    /\ heap \in Documents
    /\ docRoot = 1 /\ splitRoot = NoRoot
    /\ edits = 0 /\ last = [op |-> "none"]

Edit(op, path, val) ==
    /\ edits < MaxEdits /\ edits' = edits + 1
    /\ last' = [op |-> op, path |-> path, val |-> val]

(* Set at an existing key replaces the node in its place and keeps its       *)
(* anchor; a new key is appended to its mapping.                            *)
SetAt(path, val) ==
    LET parent == LookupNode(heap, docRoot, Front(path))
        old    == LookupNode(heap, docRoot, path)
        fresh  == Max(DOMAIN heap) + 1
    IN  /\ splitRoot = NoRoot
        /\ parent # NoRoot /\ heap[parent].kind = "map"
        /\ heap' = LocalizeAliases(
             IF old # NoRoot
             THEN [heap EXCEPT ![old] = [Scalar(val) EXCEPT !.anchor = heap[old].anchor]]
             ELSE [id \in DOMAIN heap \union {fresh} |->
                     IF id = fresh THEN Scalar(val)
                     ELSE IF id = parent THEN [heap[id] EXCEPT !.kids = Append(@, <<Last(path), fresh>>)]
                     ELSE heap[id]],
             docRoot)
        /\ Edit("set", path, val)
        /\ UNCHANGED <<docRoot, splitRoot>>

Detach(h, parent, key) == [h EXCEPT ![parent].kids = SelectSeq(@, LAMBDA kid : kid[1] # key)]

(* Mutant of Tidy: Delete takes the pair out and nothing else. *)
TidyNothing(h, root) == h

Tidy(h, root) == LocalizeAliases(h, root)

DeleteAt(path) ==
    LET parent == LookupNode(heap, docRoot, Front(path))
    IN  /\ splitRoot = NoRoot
        /\ LookupNode(heap, docRoot, path) # NoRoot
        /\ heap' = Tidy(Detach(heap, parent, Last(path)), docRoot)
        /\ Edit("delete", path, "")
        /\ UNCHANGED <<docRoot, splitRoot>>

(* SplitEffective: the static fields move to a new mapping, in the order of   *)
(* StaticPackageFields; both documents are localized.                       *)
SplitDocument ==
    LET new   == Max(DOMAIN heap) + 1
        moved == FlattenSeq([k \in DOMAIN StaticOrder |->
                    SelectSeq(heap[docRoot].kids, LAMBDA kid : kid[1] = StaticOrder[k])])
        kept  == SelectSeq(heap[docRoot].kids, LAMBDA kid : kid[1] \notin ToSet(StaticOrder))
        apart == [id \in DOMAIN heap \union {new} |->
                    IF id = new THEN [Scalar("map") EXCEPT !.kind = "map", !.kids = moved]
                    ELSE IF id = docRoot THEN [heap[id] EXCEPT !.kids = kept]
                    ELSE heap[id]]
    IN  /\ splitRoot = NoRoot /\ docRoot # NoRoot /\ moved # <<>>
        /\ heap' = LocalizeAliases(LocalizeAliases(apart, docRoot), new)
        /\ splitRoot' = new
        /\ Edit("split", <<>>, "")
        /\ UNCHANGED docRoot

Keys == ToSet(StaticOrder) \union {"routes"}
Paths == {<<k>> : k \in Keys} \union {<<k, "c">> : k \in {"name", "routes"}}

DocNext ==
    \/ \E path \in Paths : SetAt(path, "new") \/ DeleteAt(path)
    \/ SplitDocument

-----------------------------------------------------------------------------
(* What a text means: each way down it, by names                            *)

(* The node that the alias at a place of a text stands for.                 *)
Named(h, root, at) ==
    LET nodes  == Nodes(h, root)
        place  == CHOOSE p \in DOMAIN nodes : nodes[p] = at
        before == {p \in 1..place-1 : h[nodes[p]].anchor # "" /\ h[nodes[p]].anchor = h[at].val}
    IN  IF before = {} THEN NoRoot ELSE nodes[Max(before)]

(* Every way from a node: its path, the value at its end, the nodes that are  *)
(* at its end and all nodes and pairs it goes through.                      *)
RECURSIVE Ways(_, _, _)
Ways(h, root, id) ==
    LET here == [path |-> <<>>, val |-> h[id].val, at |-> {id}, nodes |-> {id}, edges |-> {}]
        down(kid) == {[w EXCEPT !.path = <<kid[1]>> \o @, !.nodes = @ \union {id},
                                !.edges = @ \union {<<id, kid[1]>>}] : w \in Ways(h, root, kid[2])}
    IN  IF id = NoRoot THEN {[path |-> <<>>, val |-> "dangling", at |-> {}, nodes |-> {}, edges |-> {}]}
        ELSE IF IsAlias(h, id)
        THEN {[w EXCEPT !.nodes = @ \union {id}, !.at = IF w.path = <<>> THEN @ \union {id} ELSE @]
                : w \in Ways(h, root, Named(h, root, id))}
        ELSE {here} \union UNION {down(kid) : kid \in ToSet(h[id].kids)}

Meaning(ways) == {<<w.path, w.val>> : w \in ways}

(* What is expected of an edit of a document with these ways.               *)
Expected(ways, edit) ==
    LET parent == LookupNode(heap, docRoot, Front(edit.path))
        old    == LookupNode(heap, docRoot, edit.path)
        cut    == {w \in ways : <<parent, Last(edit.path)>> \in w.edges}
        at(id) == {w.path : w \in {v \in ways : id \in v.at}}
    IN  IF edit.op = "delete" THEN Meaning(ways \ cut)
        ELSE IF old = NoRoot
        THEN Meaning(ways) \union {<<Append(p, Last(edit.path)), edit.val>> : p \in at(parent)}
        ELSE Meaning({w \in ways : old \notin w.nodes})
             \union {<<p, edit.val>> : p \in at(old)}

IsStaticWay(w) == w.path # <<>> /\ w.path[1] \in ToSet(StaticOrder)

(* Moved fields change their order: an alias may get ahead of its anchor.    *)
Overtakes ==
    LET field(k) == LookupNode(heap, docRoot, <<StaticOrder[k]>>)
    IN  \E j, k \in DOMAIN StaticOrder : j < k /\ field(j) # NoRoot /\ field(k) # NoRoot
          /\ \E id \in ToSet(Nodes(heap, field(j))) :
               IsAlias(heap, id) /\ heap[id].alias \in ToSet(Nodes(heap, field(k)))

EditAsMeant ==
    LET ways == Ways(heap, docRoot, docRoot)
        says(root) == Meaning(Ways(heap', root, root))
    IN  edits' > edits =>
          IF last'.op # "split" THEN says(docRoot') = Expected(ways, last')
          ELSE ~Overtakes =>
                 /\ says(docRoot') = Meaning({w \in ways : ~IsStaticWay(w)})
                 /\ says(splitRoot') \ {<<<<>>, "map">>} = Meaning({w \in ways : IsStaticWay(w)})

(* An edit of a document changes what its text says at the path it names,     *)
(* and nowhere else: when a node goes that aliases point at they keep its     *)
(* value, and no name comes to stand for another node.                      *)
EditsAsMeant == [][EditAsMeant]_docVars
=============================================================================
