---------------------------- MODULE BuildContext ----------------------------
(***************************************************************************)
(* The build context of one image (image/buildpack/context.go): a TAR of   *)
(* the Dockerfile and of what its COPY and ADD instructions name in the    *)
(* context directory and .dockerignore does not leave out.  The paths are  *)
(* collected first and read one by one later, while the user may go on     *)
(* editing.                                                                *)
(*                                                                         *)
(* A path is a sequence of names, <<>> is the context directory.  What a   *)
(* file says as a Dockerfile or as a .dockerignore is a function of its    *)
(* data; a size is a number of TAR blocks.  Links dangle; pipes and        *)
(* devices, which are a header too, go with them.                          *)
(***************************************************************************)
EXTENDS Naturals, SequencesExt

CONSTANTS
    Contexts,       \* entries that image.Normalize lets through
    Instructions,   \* the lines of data as a Dockerfile
    Rules,          \* the rules of data as a .dockerignore
    Blocks,         \* the size of data
    Globs,          \* the names that a name with * or ? stands for
    Rank,           \* the order of sort.Strings on the paths there can be
    Limit,          \* maxContextBytes, in blocks
    Nodes,          \* what an edit may put at a path
    MaxEdits        \* bound: edits during the call

Paths == DOMAIN Rank
Data == DOMAIN Blocks

Parent(p) == SubSeq(p, 1, Len(p) - 1)
(* q is p or lies below it.                                                 *)
Under(p, q) == Len(p) <= Len(q) /\ \A k \in 1..Len(p) : q[k] = p[k]

Dockerfile == <<"Dockerfile">>
Dockerignore == <<".dockerignore">>
Cache == <<".lzc-cli-cache">>

Kinds == {"directory", "file", "link", "socket"}
IsNode(n) == n.kind \in Kinds /\ n.data \in Data
IsFile(t, p) == p \in DOMAIN t /\ t[p].kind = "file"
IsDirectory(t, p) == p \in DOMAIN t /\ t[p].kind = "directory"
IsTree(t) ==
    /\ IsDirectory(t, <<>>) /\ DOMAIN t \subseteq Paths
    /\ \A p \in DOMAIN t : IsNode(t[p]) /\ \A k \in 0..Len(p)-1 : IsDirectory(t, SubSeq(p, 1, k))

(* normalizeEntry: the Dockerfile is given inline or is a regular file in    *)
(* the context directory.  That one may be a link to a directory.           *)
Normalized(c) ==
    /\ IsTree(c.tree) /\ c.linked \in BOOLEAN
    /\ IF c.inline = {} THEN IsFile(c.tree, c.path) ELSE \E d \in Data : c.inline = {d}

ASSUME ContextsAssumption == \A c \in Contexts : Normalized(c)
ASSUME PathsAssumption ==
    /\ {Dockerfile, Dockerignore, Cache} \subseteq Paths /\ Paths \subseteq Seq(STRING)
    /\ Rank \in [Paths -> Nat] /\ IsInjective(Rank)
ASSUME NodesAssumption == \A n \in Nodes : IsNode(n)
ASSUME SizesAssumption == Blocks \in [Data -> Nat] /\ Limit \in Nat \ {0} /\ MaxEdits \in Nat

VARIABLES
    entry,      \* the entry of the configuration
    tree,       \* the context directory
    at,         \* the step of writeContextTar, or how it ended
    text,       \* the Dockerfile as it was read
    selectors, rules,
    toList,     \* directories the walk has still to read
    pending,    \* paths selected and not yet written
    header,     \* a file whose header is written and whose bytes are not
    out,        \* the TAR at the destination
    written,    \* its size
    touched,    \* history: paths that were edited, or lie below one
    edits

contextVars == <<entry, tree, at, text, selectors, rules, toList, pending, header, out,
                 written, touched, edits>>

-----------------------------------------------------------------------------
(* What is selected                                                         *)

(* dockerfileInstructions: lines are joined; a comment is one only where an  *)
(* instruction may begin.                                                   *)
Joined(lines) ==
    LET step(r, l) ==
            IF l.kind = "blank" \/ (l.kind = "comment" /\ r.words = <<>>) THEN r
            ELSE IF l.more THEN [r EXCEPT !.words = @ \o l.words]
            ELSE [done |-> Append(r.done, r.words \o l.words), words |-> <<>>]
        end == FoldLeft(step, [done |-> <<>>, words |-> <<>>], lines)
    IN  ToSet(IF end.words = <<>> THEN end.done ELSE Append(end.done, end.words))

(* A word is a path: <<>> for ".", one that begins with "/", a flag or an URL  *)
(* by its first name.  A source is sought below the context, "/" or not.     *)
IsFlag(word) == word # <<>> /\ word[1] = "--"
Source(word) == IF word # <<>> /\ word[1] = "/" THEN Tail(word) ELSE word
IsSource(word) == word # <<"/">> /\ (Source(word) = <<>> \/ Source(word)[1] # "://")
Escapes(word) == word # <<>> /\ word[1] = ".."

IsCopy(i) == Len(i) >= 3 /\ i[1] \in {<<"COPY">>, <<"ADD">>}
Flags(i) == {k \in 2..Len(i) : \A j \in 2..k : IsFlag(i[j])}
Arguments(i) == {k \in 2..Len(i) : k \notin Flags(i)}

(* The last argument is the destination; another stage is no context.       *)
SourcesOf(i) ==
    IF IsCopy(i) /\ \A k \in Flags(i) : i[k] # <<"--", "from">>
    THEN {Source(i[k]) : k \in {k \in Arguments(i) \ {Len(i)} : IsSource(i[k])}}
    ELSE {}

Sources(data) == UNION {SourcesOf(i) : i \in Joined(Instructions[data])}

(* Words that end within a quote, or no JSON list, are <<"unterminated">>.   *)
Readable(data) ==
    /\ \A i \in Joined(Instructions[data]) :
         IsCopy(i) => \A k \in Arguments(i) : i[k] # <<"unterminated">>
    /\ \A s \in Sources(data) : ~Escapes(s)

ASSUME SourcesAssumption == \A d \in Data : Sources(d) \subseteq Seq(STRING)

IsGlob(s) == \E k \in DOMAIN s : s[k] \in DOMAIN Globs
Fits(g, n) == g = n \/ (g \in DOMAIN Globs /\ n \in Globs[g])

(* dockerGlobRegexp: all of a path, and "**" stands for one name or more.    *)
GlobMatch(s, p) ==
    \/ Len(s) = Len(p) /\ \A k \in DOMAIN s : Fits(s[k], p[k])
    \/ \E k \in DOMAIN s :
         /\ s[k] = "**" /\ Len(s) <= Len(p)
         /\ \A j \in 1..k-1 : Fits(s[j], p[j])
         /\ \A j \in k+1..Len(s) : Fits(s[j], p[j + Len(p) - Len(s)])

Selector(t, s) == [path |-> s, below |-> IsDirectory(t, s)]

(* matchesDockerSource; a directory goes with what is named below it.        *)
Matches(sel, p, directory) ==
    \/ sel.path = <<>>
    \/ IsGlob(sel.path) /\ GlobMatch(sel.path, p)
    \/ /\ ~IsGlob(sel.path)
       /\ \/ p = sel.path
          \/ sel.below /\ Under(sel.path, p)
          \/ directory /\ Under(p, sel.path)

(* What dockerignored takes a rule to speak of: with one name any component, *)
(* otherwise the path or what it is in.                                     *)
Speaks(rule, p, directory) ==
    LET r == rule.path
    IN  \/ Len(r) = 1 /\ ((\E k \in DOMAIN p : p[k] = r[1]) \/ Fits(r[1], p[Len(p)]))
        \/ Len(r) > 1 /\ Len(r) = Len(p) /\ \A k \in DOMAIN r : Fits(r[k], p[k])
        \/ Len(r) > 1 /\ Under(r, p)
        \/ directory /\ p # r /\ Under(p, r)

(* The last rule that speaks of a path decides.                             *)
Ignored(rs, p, directory) ==
    \E i \in DOMAIN rs :
      /\ Speaks(rs[i], p, directory) /\ ~rs[i].negate
      /\ \A j \in DOMAIN rs : Speaks(rs[j], p, directory) => j <= i

Selects(p, directory) ==
    (\E sel \in selectors : Matches(sel, p, directory)) /\ ~Ignored(rules, p, directory)

-----------------------------------------------------------------------------
(* writeContextTar                                                          *)

Nothing == <<>>

ContextInit ==
    /\ entry \in Contexts /\ tree = entry.tree
    /\ at = "start"
    /\ text = "" /\ selectors = {} /\ rules = <<>>
    /\ toList = {} /\ pending = {}
    /\ header = Nothing /\ out = Nothing /\ written = 0
    /\ touched = {} /\ edits = 0

(* Any error ends the call, and the file at the destination is removed.     *)
FailContext ==
    /\ at' = "failed" /\ out' = Nothing /\ header' = Nothing
    /\ UNCHANGED <<text, selectors, rules, toList, pending, written>>

ReadDockerfile ==
    /\ at = "start"
    /\ \/ text' \in entry.inline /\ at' = "sources" /\ UNCHANGED <<out, header>>
       \/ /\ entry.inline = {} /\ IsFile(tree, entry.path)
          /\ at' = "sources" /\ text' = tree[entry.path].data
          /\ UNCHANGED <<out, header>>
       \/ entry.inline = {} /\ ~IsFile(tree, entry.path) /\ FailContext
    /\ UNCHANGED <<selectors, rules, toList, pending, written, entry, tree, touched, edits>>

(* dockerSourceSelectors looks each source up.                              *)
SelectSources ==
    /\ at = "sources"
    /\ \/ /\ Readable(text)
          /\ selectors' = {Selector(tree, s) : s \in Sources(text)}
          /\ at' = "ignore"
          /\ UNCHANGED <<text, rules, toList, pending, header, out, written>>
       \/ ~Readable(text) /\ FailContext
    /\ UNCHANGED <<entry, tree, touched, edits>>

(* A walk does not follow a link that it begins with.                       *)
ReadDockerignore ==
    /\ at = "ignore"
    /\ \/ /\ ~IsDirectory(tree, Dockerignore)
          /\ rules' = IF IsFile(tree, Dockerignore) THEN Rules[tree[Dockerignore].data] ELSE <<>>
          /\ toList' = IF entry.linked THEN {} ELSE {<<>>}
          /\ at' = "walk"
          /\ UNCHANGED <<text, selectors, pending, header, out, written>>
       \/ IsDirectory(tree, Dockerignore) /\ FailContext
    /\ UNCHANGED <<entry, tree, touched, edits>>

(* Mutant of Descends: a directory that is ignored is not read.             *)
DescendsPruned(p) == IsDirectory(tree, p) /\ ~Ignored(rules, p, TRUE)

Descends(p) == IsDirectory(tree, p)

(* The walk reads a directory and judges what is in it.                     *)
List ==
    /\ at = "walk"
    /\ \E d \in toList :
         LET children == {p \in DOMAIN tree \ {<<>>, Cache} : Parent(p) = d}
         IN  \/ /\ IsDirectory(tree, d)
                /\ pending' = pending \union {p \in children : Selects(p, IsDirectory(tree, p))}
                /\ toList' = (toList \ {d}) \union {p \in children : Descends(p)}
                /\ UNCHANGED <<at, text, selectors, rules, header, out, written>>
             \/ ~IsDirectory(tree, d) /\ FailContext
    /\ UNCHANGED <<entry, tree, touched, edits>>

InTar(name, kind, data) == [name |-> name, kind |-> kind, data |-> data]

(* limitWriter                                                              *)
Room(size) == written + size <= Limit

(* A block for each header, and two that end the TAR.                       *)
Create ==
    /\ at = "walk" /\ toList = {}
    /\ LET size == 1 + Blocks[text]
       IN  \/ /\ Room(size)
              /\ out' = <<InTar(Dockerfile, "file", text)>> /\ written' = size
              /\ pending' = pending \ {Dockerfile}
              /\ at' = "write"
              /\ UNCHANGED <<text, selectors, rules, toList, header>>
           \/ ~Room(size) /\ FailContext
    /\ UNCHANGED <<entry, tree, touched, edits>>

(* writeTarPath: Lstat and the header.                                      *)
WriteHeader ==
    /\ at = "write"
    /\ \E p \in pending :
         /\ \A q \in pending : Rank[p] <= Rank[q]
         /\ \/ /\ p \in DOMAIN tree /\ tree[p].kind # "socket" /\ Room(1)
               /\ pending' = pending \ {p} /\ written' = written + 1
               /\ IF tree[p].kind = "file"
                  THEN at' = "copy" /\ header' = <<p, tree[p].data>> /\ UNCHANGED out
                  ELSE /\ out' = Append(out, InTar(p, tree[p].kind, tree[p].data))
                       /\ UNCHANGED <<at, header>>
               /\ UNCHANGED <<text, selectors, rules, toList>>
            \/ (p \in DOMAIN tree => tree[p].kind = "socket" \/ ~Room(1)) /\ FailContext
    /\ UNCHANGED <<entry, tree, touched, edits>>

(* The bytes are those of the file that is there now; the TAR writer takes   *)
(* as many as the header announces, no more and no fewer.                   *)
CopyBytes ==
    /\ at = "copy"
    /\ LET p == header[1]
           size == Blocks[header[2]]
           fits == IsFile(tree, p) /\ Blocks[tree[p].data] = size /\ Room(size)
       IN  \/ /\ fits
              /\ out' = Append(out, InTar(p, "file", tree[p].data))
              /\ written' = written + size
              /\ at' = "write" /\ header' = Nothing
              /\ UNCHANGED <<text, selectors, rules, toList, pending>>
           \/ ~fits /\ FailContext
    /\ UNCHANGED <<entry, tree, touched, edits>>

Finish ==
    /\ at = "write" /\ pending = {}
    /\ \/ /\ Room(2)
          /\ at' = "done" /\ written' = written + 2
          /\ UNCHANGED <<text, selectors, rules, toList, pending, header, out>>
       \/ ~Room(2) /\ FailContext
    /\ UNCHANGED <<entry, tree, touched, edits>>

Steps == {"start", "sources", "ignore", "walk", "write", "copy"}
Running == at \in Steps

(* The context ends, a disk is full, a file may not be read.                *)
BreakContext == Running /\ FailContext /\ UNCHANGED <<entry, tree, touched, edits>>

(* The user puts something at a path, or removes what is there.             *)
Edit ==
    /\ Running /\ edits < MaxEdits /\ edits' = edits + 1
    /\ \E p \in Paths \ {<<>>} :
         LET rest == {q \in DOMAIN tree : ~Under(p, q)}
         IN  /\ IsDirectory(tree, Parent(p))
             /\ \/ tree' = [q \in rest |-> tree[q]]
                \/ \E n \in Nodes : tree' = [q \in rest \union {p} |-> IF q = p THEN n ELSE tree[q]]
             /\ touched' = touched \union {q \in Paths : Under(p, q)}
    /\ UNCHANGED <<entry, at, text, selectors, rules, toList, pending, header, out, written>>

ContextNext ==
    \/ ReadDockerfile \/ SelectSources \/ ReadDockerignore \/ List \/ Create
    \/ WriteHeader \/ CopyBytes \/ Finish \/ BreakContext \/ Edit

ContextSpec == ContextInit /\ [][ContextNext]_contextVars

-----------------------------------------------------------------------------
(* What a source names, however the context directory was looked up.        *)
Named(s, p, directory) ==
    IF IsGlob(s) THEN GlobMatch(s, p)
    ELSE Under(s, p) \/ (directory /\ Under(p, s))

(* What the project as it was when the call began has for the context.      *)
RulesOf(t) == IF IsFile(t, Dockerignore) THEN Rules[t[Dockerignore].data] ELSE <<>>

Wanted(p) ==
    LET directory == IsDirectory(entry.tree, p)
    IN  /\ p \in DOMAIN entry.tree \ {<<>>} /\ ~Under(Cache, p)
        /\ \E s \in Sources(text) : Named(s, p, directory)
        /\ ~Ignored(RulesOf(entry.tree), p, directory)

(* Nobody edited what decides on the selection.                             *)
Settled == touched \intersect ({Dockerignore} \union Sources(text)) = {}

(* A context begins with the Dockerfile that its sources were taken from and *)
(* has no other; its paths are in order, so that none comes twice and equal  *)
(* projects give equal contexts.  Whatever else was edited meanwhile, a path *)
(* that nobody touched is in it exactly when COPY and ADD name it and        *)
(* .dockerignore lets it, as it was.  A call that fails leaves no file       *)
(* (image/buildpack/context.go: writeContextTar, collectContextPaths).      *)
ContextExact ==
    /\ at = "failed" => out = Nothing
    /\ at = "done" =>
         /\ Len(out) > 0 /\ out[1] = InTar(Dockerfile, "file", text)
         /\ \A i \in 2..Len(out) :
              /\ out[i].name # Dockerfile
              /\ \A j \in 2..Len(out) : i < j => Rank[out[i].name] < Rank[out[j].name]
         /\ Settled /\ ~entry.linked =>
              \A p \in Paths \ (touched \union {Dockerfile}) :
                /\ (\E i \in 2..Len(out) : out[i].name = p) <=> Wanted(p)
                /\ \A i \in 2..Len(out) : out[i].name = p =>
                     out[i] = InTar(p, entry.tree[p].kind, entry.tree[p].data)

-----------------------------------------------------------------------------
(* Why it holds.                                                            *)

ContextTypes ==
    /\ entry \in Contexts /\ IsTree(tree)
    /\ at \in Steps \union {"done", "failed"}
    /\ at \in Steps \ {"start"} => text \in Data
    /\ touched \subseteq Paths /\ pending \subseteq Paths \ {<<>>}

(* What lies below an edit is touched, and the rest is as it was.           *)
UntouchedStays ==
    /\ \A p \in touched, q \in Paths : Under(p, q) => q \in touched
    /\ \A p \in Paths \ touched :
         /\ p \in DOMAIN tree <=> p \in DOMAIN entry.tree
         /\ p \in DOMAIN tree => tree[p] = entry.tree[p]

(* What was looked up is as in the beginning unless it was touched.         *)
SelectionKnown ==
    /\ at \in {"ignore", "walk"} =>
         /\ \A s \in Sources(text) : \E sel \in selectors : sel.path = s
         /\ \A sel \in selectors :
              /\ sel.path \in Sources(text)
              /\ sel.path \notin touched => sel.below = IsDirectory(entry.tree, sel.path)
    /\ at = "walk" /\ Dockerignore \notin touched => rules = RulesOf(entry.tree)

(* A path that is wanted is selected, or below a directory still to be read. *)
AboutToBeFound(p) == \E d \in toList : Under(d, Parent(p))

WalkComplete ==
    /\ at \in {"start", "sources", "ignore"} => pending = {}
    /\ at = "walk" =>
         /\ \A d \in toList : d \in Paths /\ ~Under(Cache, d)
         /\ Settled => \A p \in Paths \ touched :
              /\ p \in pending => Wanted(p)
              /\ Wanted(p) /\ ~entry.linked => p \in pending \/ AboutToBeFound(p)

InHeader == IF at = "copy" THEN {header[1]} ELSE {}
Written == {out[i].name : i \in 2..Len(out)}

TarSoFar ==
    /\ at = "failed" => out = Nothing
    /\ at = "copy" => header[1] \in Paths /\ header[2] \in Data
    /\ at = "done" => pending = {}
    /\ at \in {"write", "copy", "done"} =>
         /\ out \in Seq([name : Paths, kind : Kinds, data : Data])
         /\ Len(out) > 0 /\ out[1] = InTar(Dockerfile, "file", text)
         /\ Written \subseteq Paths
         /\ Dockerfile \notin Written \union InHeader \union pending
         /\ \A i, j \in 2..Len(out) : i < j => Rank[out[i].name] < Rank[out[j].name]
         /\ \A p \in Written, q \in InHeader \union pending : Rank[p] < Rank[q]
         /\ \A p \in InHeader, q \in pending : Rank[p] < Rank[q]
         /\ \A i \in 2..Len(out) : out[i].name \notin touched =>
              out[i] = InTar(out[i].name, entry.tree[out[i].name].kind, entry.tree[out[i].name].data)
         /\ Settled /\ ~entry.linked => \A p \in Paths \ (touched \union {Dockerfile}) :
              p \in Written \union InHeader \union pending <=> Wanted(p)

ContextIInv == ContextTypes /\ UntouchedStays /\ SelectionKnown /\ WalkComplete /\ TarSoFar
=============================================================================
