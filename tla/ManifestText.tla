---------------------------- MODULE ManifestText ----------------------------
(***************************************************************************)
(* The text of a manifest as package manifest reads it: build directives   *)
(* (preprocess.go), Go template actions projected into comments and        *)
(* markers (template.go), and the facts taken from the projection          *)
(* (summary.go).                                                           *)
(*                                                                         *)
(* A text is a sequence of lines [kind, key, val, ind, act]:               *)
(*   field      key: val, at indentation ind; val "expr" holds an          *)
(*              expression {{ .X }}, "map" has the lines below it, "number" *)
(*              is a scalar that YAML does not read as a string (1.0), ""  *)
(*              none                                                       *)
(*   control    one action on a line of its own: open (if, with, range),   *)
(*              else, chain (else if, else with) or close (end)            *)
(*   around     {{ if .X }}key: val{{ end }} on one line                   *)
(*   tail       a field, or a bare comment when key is "", and after it a  *)
(*              comment with an action: key: val # {{ if .X }}             *)
(*   note       a comment                                                  *)
(*   directive  #@build act key: if, else, end, include or a word that is  *)
(*              no directive; key is the condition or the file             *)
(* Pipelines are never evaluated here: which branches a template takes is  *)
(* chosen by the references below.                                         *)
(***************************************************************************)
EXTENDS Integers, SequencesExt

Acts == {"open", "else", "chain", "close"}

ManifestLine ==
    {l \in [kind : {"field", "control", "around", "tail", "note", "directive"},
            key : STRING, val : STRING, ind : {0, 1}, act : STRING] :
       l.kind \in {"control", "tail"} => l.act \in Acts}

HasKey(line) == line.kind \in {"field", "around", "tail"} /\ line.key # ""

Top(stack) == Last(stack)

-----------------------------------------------------------------------------
(* preprocess.go                                                            *)

(* A condition that cannot be parsed is an error in any branch.             *)
IsCondition(name) == name # "bad"

(* Mutant of ElseActive: the else of a block in a branch that is not taken. *)
ElseActiveAlways(top) == ~top.cond

ElseActive(top) == top.parent /\ ~top.cond

(* One line of processManifestText.                                         *)
(*   run.stack   the frames that are open, below them one that is active    *)
PreprocessLine(run, line, holds, files) ==
    LET active  == Top(run.stack).active
        failed  == [run EXCEPT !.ok = FALSE]
        open(c) == [run EXCEPT !.stack = Append(@, [parent |-> active, cond |-> c, else |-> FALSE,
                                                    active |-> active /\ c])]
        top     == Top(run.stack)
    IN  CASE ~run.ok -> run
          [] run.ok /\ line.kind # "directive" ->
               IF active THEN [run EXCEPT !.out = Append(@, line)] ELSE run
          [] run.ok /\ line.kind = "directive" /\ line.act = "if" ->
               IF IsCondition(line.key) THEN open(line.key \in holds) ELSE failed
          [] run.ok /\ line.kind = "directive" /\ line.act = "else" ->
               IF Len(run.stack) = 1 \/ top.else THEN failed
               ELSE [run EXCEPT !.stack =
                       Append(Front(@), [top EXCEPT !.else = TRUE, !.active = ElseActive(top)])]
          [] run.ok /\ line.kind = "directive" /\ line.act = "end" ->
               IF Len(run.stack) = 1 THEN failed ELSE [run EXCEPT !.stack = Front(@)]
          [] run.ok /\ line.kind = "directive" /\ line.act = "include" ->
               IF ~active THEN run
               ELSE IF /\ line.key \in DOMAIN files
                       /\ \A l \in ToSet(files[line.key]) : l.kind # "directive"
               THEN [run EXCEPT !.out = @ \o files[line.key]]
               ELSE failed
          [] OTHER -> failed

Bottom == [parent |-> TRUE, cond |-> TRUE, else |-> FALSE, active |-> TRUE]

(* processManifestText: the text, or an error; a frame must not stay open.  *)
Preprocess(text, holds, files) ==
    LET end == FoldLeft(LAMBDA run, line : PreprocessLine(run, line, holds, files),
                        [ok |-> TRUE, stack |-> <<Bottom>>, out |-> <<>>], text)
    IN  [ok |-> end.ok /\ Len(end.stack) = 1, out |-> end.out]

-----------------------------------------------------------------------------
(* template.go                                                              *)

(* Analyze checks the structure of all actions, wherever they are: open      *)
(* holds for each open block whether its else was seen.                     *)
Structure(r, act) ==
    CASE ~r.ok -> r
      [] r.ok /\ act = "open" -> [r EXCEPT !.open = Append(@, FALSE)]
      [] r.ok /\ act \in {"else", "chain"} ->
           IF r.open = <<>> \/ Last(r.open) THEN [r EXCEPT !.ok = FALSE]
           ELSE IF act = "else" THEN [r EXCEPT !.open = Append(Front(@), TRUE)] ELSE r
      [] r.ok /\ act = "close" ->
           IF r.open = <<>> THEN [r EXCEPT !.ok = FALSE] ELSE [r EXCEPT !.open = Front(@)]

(* Line by line; the pair of an around line leaves the blocks as they were.   *)
StructureLine(r, line) == IF line.kind \in {"control", "tail"} THEN Structure(r, line.act) ELSE r

Balanced(text) ==
    LET end == FoldLeft(StructureLine, [ok |-> TRUE, open |-> <<>>], text)
    IN  end.ok /\ end.open = <<>>

Templated(text) ==
    \E l \in ToSet(text) : l.kind \in {"control", "around", "tail"} \/ (l.kind = "field" /\ l.val = "expr")

(* Mutant of DepthBelow: an else is taken to close its block. *)
DepthBelowElse(depth, line) ==
    CASE line.kind = "control" /\ line.act = "open" -> depth + 1
      [] line.kind = "control" /\ line.act \in {"close", "else"} -> IF depth > 0 THEN depth - 1 ELSE 0
      [] OTHER -> depth

(* Only an action on a line of its own is projected as a control marker;    *)
(* the pair of an around line is promoted to three lines.  projectedLine-   *)
(* Depth counts these, and no others.                                       *)
DepthBelow(depth, line) ==
    CASE line.kind = "control" /\ line.act = "open" -> depth + 1
      [] line.kind = "control" /\ line.act = "close" -> IF depth > 0 THEN depth - 1 ELSE 0
      [] OTHER -> depth

LineDepth(text, i) ==
    FoldLeft(DepthBelow, 0, SubSeq(text, 1, i - 1)) + (IF text[i].kind = "around" THEN 1 ELSE 0)

(* The line of the mapping an indented line is in.                          *)
Owner(text, i) ==
    LET above == {j \in 1..i-1 : HasKey(text[j]) /\ text[j].ind = 0}
    IN  IF text[i].ind = 0 \/ above = {} THEN 0 ELSE Max(above)

(* The projection is YAML: indented lines are in a mapping.                 *)
Parses(text) ==
    /\ \E i \in DOMAIN text : HasKey(text[i])
    /\ \A i \in DOMAIN text : HasKey(text[i]) /\ text[i].ind = 1 =>
         Owner(text, i) # 0 /\ text[Owner(text, i)].val = "map"

Analyzes(text) == Balanced(text) /\ Parses(text)

(* The lines that give a key of a mapping, by the line of the mapping.      *)
Pairs(text, owner, key) ==
    {i \in DOMAIN text : HasKey(text[i]) /\ text[i].key = key /\ Owner(text, i) = owner}

(* StaticScalar: every component of the path has one occurrence, at depth    *)
(* zero with its value; the value of a mapping is where its first line is.   *)
(* The last one is a scalar without an expression.  "" is not found.        *)
Below(text, owner) == {i \in DOMAIN text : HasKey(text[i]) /\ Owner(text, i) = owner}

Plain(text, i) == LineDepth(text, i) = 0

ScalarAt(text, found) ==
    LET i == CHOOSE j \in found : TRUE
    IN  IF Cardinality(found) = 1 /\ Plain(text, i) /\ text[i].val \notin {"map", "expr"}
        THEN text[i].val
        ELSE ""

StaticScalar(text, path) ==
    IF Len(path) = 1 THEN ScalarAt(text, Pairs(text, 0, path[1]))
    ELSE LET owners == Pairs(text, 0, path[1])
             owner  == CHOOSE o \in owners : TRUE
             first  == Min(Below(text, owner))
         IN  IF /\ Cardinality(owners) = 1 /\ Plain(text, owner)
                /\ Below(text, owner) # {} /\ Plain(text, first)
             THEN ScalarAt(text, Pairs(text, owner, path[2]))
             ELSE ""

(* extract and extractApplication: the lines of a top-level field or, in    *)
(* any mapping of that name, of a field of application.                     *)
Occurrences(text, path) ==
    IF Len(path) = 1 THEN Pairs(text, 0, path[1])
    ELSE UNION {Pairs(text, o, Last(path)) : o \in Pairs(text, 0, path[1])}

(* staticString: a scalar that is no string is not an identity.              *)
Text(val) == IF val = "number" THEN "" ELSE val

(* resolveIdentities: the only occurrence, when static and unconditional.    *)
Identity(text, path) == Text(ScalarAt(text, Occurrences(text, path)))

-----------------------------------------------------------------------------
(* References                                                               *)

(* The lines of a text that a template shows (text/template, which the       *)
(* toolkit never runs).  An if tests X, an else if tests Y; yes holds those  *)
(* that are true.                                                           *)
Conditions == {"X", "Y"}

Branch(stack, act, yes) ==
    CASE act = "open"  -> Append(stack, [on |-> "X" \in yes, taken |-> "X" \in yes])
      [] act = "chain" -> Append(Front(stack), [on    |-> ~Top(stack).taken /\ "Y" \in yes,
                                                taken |-> Top(stack).taken \/ "Y" \in yes])
      [] act = "else"  -> Append(Front(stack), [on |-> ~Top(stack).taken, taken |-> TRUE])
      [] act = "close" -> Front(stack)

ShownLine(r, text, i, yes) ==
    LET live == \A k \in DOMAIN r.stack : r.stack[k].on
    IN  [stack |-> IF text[i].kind \in {"control", "tail"} THEN Branch(r.stack, text[i].act, yes) ELSE r.stack,
         seen  |-> IF live /\ (text[i].kind = "around" => "X" \in yes) /\ HasKey(text[i])
                   THEN r.seen \union {i} ELSE r.seen]

Shown(text, yes) ==
    FoldLeft(LAMBDA r, i : ShownLine(r, text, i, yes), [stack |-> <<>>, seen |-> {}], [i \in DOMAIN text |-> i]).seen

Always(text, i) == \A yes \in SUBSET Conditions : i \in Shown(text, yes)

(* The value of a path that every rendering of a text has, when the text     *)
(* gives the path once; "" when there is none.                              *)
Certain(text, path) ==
    LET once == {i \in Occurrences(text, path) : \A yes \in SUBSET Conditions :
                                  {i, Owner(text, i)} \ {0} \subseteq Shown(text, yes)}
        i    == CHOOSE j \in once : TRUE
    IN  IF Cardinality(Occurrences(text, path)) = 1 /\ once # {} /\ text[i].val \notin {"map", "expr"}
        THEN text[i].val
        ELSE ""

(* Build directives, by matching each if with its else and its end.         *)
Directive(text, i, act) == text[i].kind = "directive" /\ text[i].act = act

Nesting(text, i, j) ==
    Cardinality({k \in i..j : Directive(text, k, "if")})
      - Cardinality({k \in i..j : Directive(text, k, "end")})

EndsOf(text, i) ==
    {j \in i+1..Len(text) : Directive(text, j, "end") /\ Nesting(text, i, j) = 0}

ElsesOf(text, i) ==
    {j \in i+1..Len(text) : /\ Directive(text, j, "else") /\ Nesting(text, i, j) = 1
                            /\ \A k \in EndsOf(text, i) : j < k}

BlockEnd(text, i) == IF EndsOf(text, i) = {} THEN 0 ELSE Min(EndsOf(text, i))

KeptLine(text, holds, i) ==
    \A j \in 1..i-1 : Directive(text, j, "if") /\ BlockEnd(text, j) > i =>
        IF \E k \in ElsesOf(text, j) : k < i THEN text[j].key \notin holds ELSE text[j].key \in holds

WellFormed(text, holds, files) ==
    /\ \A i \in DOMAIN text : text[i].kind = "directive" =>
         text[i].act \in {"if", "else", "end", "include"}
    /\ \A i \in DOMAIN text :
         /\ Directive(text, i, "if") =>
              IsCondition(text[i].key) /\ EndsOf(text, i) # {} /\ Cardinality(ElsesOf(text, i)) <= 1
         /\ Directive(text, i, "else") => \E j \in 1..i-1 : Directive(text, j, "if") /\ i \in ElsesOf(text, j)
         /\ Directive(text, i, "end") => Nesting(text, 1, i) >= 0
         /\ Directive(text, i, "include") /\ KeptLine(text, holds, i) =>
              /\ text[i].key \in DOMAIN files
              /\ \A l \in ToSet(files[text[i].key]) : l.kind # "directive"

Expanded(text, holds, files) ==
    FlattenSeq([i \in DOMAIN text |->
        IF ~KeptLine(text, holds, i) THEN <<>>
        ELSE IF text[i].kind # "directive" THEN <<text[i]>>
        ELSE IF text[i].act = "include" THEN files[text[i].key]
        ELSE <<>>])
=============================================================================
