------------------------------ MODULE Archive ------------------------------
(***************************************************************************)
(* The container of an LPK: archive.Write makes one from a file system,    *)
(* Open and Entries admit one within limits, Extract and ExtractSelected   *)
(* put it into a directory.                                                *)
(*                                                                         *)
(* The directory is a tree of nodes (directory, link, or a name of a file  *)
(* whose contents are in disk: hard links share one).  A "closed" mode     *)
(* denies its owner, who runs the toolkit, search and write.  Extraction   *)
(* makes directories, regular files, hard links, symbolic links and        *)
(* directory modes in this order; any step of it may fail and leave what   *)
(* is there.                                                               *)
(***************************************************************************)
EXTENDS ArchivePaths, FiniteSets

CONSTANTS
    Archives,    \* containers that are read: [format, bytes, entries]
    Sources,     \* file systems that are written: [format, files], in walk order
    Selections,  \* names given to ExtractSelected; All stands for Extract
    Trees,       \* what the destination holds before: [tree, disk]
    LimitSets,   \* limits in force: [input, entries, file, total, path]
    Bytes,       \* the size of each content
    All,
    MaxInt,      \* the largest int64 of the model
    MaxCalls,    \* bound: extractions
    MaxChanges   \* bound: changes of a source while it is written

Types == {"directory", "regular", "hardlink", "symlink", "other"}

(* What a reader delivers, and what a walk finds.                           *)
EntryType == [name : Seq(STRING), type : Types, mode : STRING, link : Seq(STRING),
              data : STRING, size : Int, whole : BOOLEAN]
FileType == [name : Seq(STRING), type : Types, mode : STRING, data : DOMAIN Bytes, walked : DOMAIN Bytes]

(* "/" can only be the first component of a name.                           *)
IsName(n) == n \in Seq(STRING) /\ \A k \in 2..Len(n) : n[k] # "/"

EntriesOK(entries) ==
    entries \in Seq(EntryType) /\ \A i \in DOMAIN entries : IsName(entries[i].name) /\ IsName(entries[i].link)

FilesOK(files) == files \in Seq(FileType) /\ \A i \in DOMAIN files : IsName(files[i].name)

ASSUME BytesAssumption == Bytes \in [DOMAIN Bytes -> Nat] /\ DOMAIN Bytes \subseteq STRING

ASSUME ContainersAssumption ==
    /\ \A a \in Archives : EntriesOK(a.entries)
    /\ \A src \in Sources : src = [format |-> src.format, files |-> src.files] /\ FilesOK(src.files)

(* Limits are positive (normalizeLimits) and sizes not negative, all within  *)
(* an int64; only a ZIP may declare a size up to an uint64.                  *)
ASSUME SizesAssumption ==
    /\ MaxInt \in Nat /\ MaxInt >= 2
    /\ \A l \in LimitSets : {l.input, l.entries, l.file, l.total, l.path} \subseteq 1..MaxInt
    /\ \A a \in Archives : /\ a.bytes \in 0..MaxInt
                           /\ \A i \in DOMAIN a.entries : a.entries[i].size \in 0..(2 * MaxInt + 1)
    /\ \A c \in DOMAIN Bytes : Bytes[c] <= MaxInt

VARIABLES
    pc,
    source, changed,   \* what Write reads, and how often it was changed
    packed,            \* entries Write has written
    archive, limits,
    listing,           \* what Entries answered
    tree, disk,        \* the destination
    call,              \* the extraction: its selection and what it has left
    result, calls

writing == <<source, changed, packed>>
input   == <<archive, limits, listing>>
target  == <<tree, disk>>
vars    == <<pc, writing, input, target, call, result, calls>>

NoCall == [sel |-> All, work |-> {}, modes |-> {}, tree |-> <<>>, disk |-> <<>>]

-----------------------------------------------------------------------------
(* Reading a container                                                      *)

(* Two's complement, at the width of the model.                             *)
Signed(n) == IF n > MaxInt THEN n - 2 * (MaxInt + 1) ELSE n

(* The size an entry declares: nothing for directories, and for the links   *)
(* of a TAR; in a ZIP a uint64 taken for an int64.                          *)
Declared(format, e) ==
    IF e.type = "directory" \/ (format = "tar" /\ e.type \in {"hardlink", "symlink"})
    THEN 0 ELSE Signed(e.size)

(* Mutant of Admits: the sum is compared, and may have wrapped.             *)
AdmitsSum(l, total, count, size) ==
    count <= l.entries /\ size >= 0 /\ size <= l.file /\ Signed(total + size) <= l.total

(* validateEntry, with the total of the entries before.                     *)
Admits(l, total, count, size) ==
    /\ count <= l.entries
    /\ size >= 0
    /\ size <= l.file
    /\ size <= l.total - total

(* The running total before the i-th entry.                                 *)
TotalBefore(a, i) ==
    FoldLeft(LAMBDA total, e : total + Declared(a.format, e), 0, SubSeq(a.entries, 1, i - 1))

(* zipEntries and tarEntries: each entry is admitted after those before it.  *)
(* A TAR of unknown entry types is refused here.                            *)
Listed(l, a) ==
    \A i \in DOMAIN a.entries :
        LET e == a.entries[i]
        IN  /\ Len(Slashed(e.name)) <= l.path
            /\ \A j \in 1..i-1 : Normal(a.entries[j].name) # Normal(e.name)
            /\ ~(a.format = "tar" /\ e.type = "other")
            /\ Len(Slashed(e.link)) <= l.path
            /\ Admits(l, TotalBefore(a, i), i, Declared(a.format, e))

(* Open copies at most limit + 1 bytes of a stream, or limit when that      *)
(* wraps: a longer stream must be noticed, not cut.                         *)
CopyLimit(limit) == IF Signed(limit + 1) <= 0 THEN limit ELSE Signed(limit + 1)

Spooled(limit, bytes) == IF CopyLimit(limit) < bytes THEN CopyLimit(limit) ELSE bytes

(* A container is opened whole: from a stream (Open), from a reader with a  *)
(* size (OpenReaderAt) or from a file (OpenFile); then detectFormat.        *)
Opens(l, a, how) ==
    LET size == IF how = "stream" THEN Spooled(l.input, a.bytes) ELSE a.bytes
    IN  size <= l.input /\ size >= 2

-----------------------------------------------------------------------------
(* What extract checks before it touches the destination                    *)

EntrySet(a) == ToSet(a.entries)

ValidEntry(l, e) ==
    /\ ValidPath(Normal(e.name), l.path, e.type = "directory")
    /\ e.type # "other"
    /\ e.type = "symlink" => ValidTarget(Normal(e.name), e.link, l.path)
    /\ e.type = "hardlink" => ValidPath(e.link, l.path, FALSE)

(* Mutant of Normalized: the target of a symbolic link is kept as it is.    *)
NormalizedName(e) ==
    [e EXCEPT !.name = Normal(@), !.link = IF e.type = "symlink" THEN Slashed(@) ELSE Normal(@)]

Normalized(e) == [e EXCEPT !.name = Normal(@), !.link = Normal(@)]

IsSelected(sel, e) == sel = All \/ Normal(e.name) \in {Normal(n) : n \in sel}

Item(a, i) == Normalized(a.entries[i])

Picked(a, sel) == {i \in DOMAIN a.entries : IsSelected(sel, a.entries[i])}

Chosen(a, sel) == {Item(a, i) : i \in Picked(a, sel)}

(* Mutant of LinksToRegular: any entry will do.                             *)
LinksToAny(a) ==
    \A e \in EntrySet(a) : e.type = "hardlink" =>
        \E t \in EntrySet(a) : Normal(t.name) = Normal(e.link)

(* A hard link is to a regular entry of the archive.                        *)
LinksToRegular(a) ==
    \A e \in EntrySet(a) : e.type = "hardlink" =>
        \E t \in EntrySet(a) : Normal(t.name) = Normal(e.link) /\ t.type = "regular"

(* What was asked for is there, with the targets of its hard links.         *)
ValidSelection(l, a, sel) ==
    sel # All =>
      /\ \A n \in sel : /\ ValidPath(n, l.path, FALSE)
                        /\ \E e \in EntrySet(a) : Normal(e.name) = Normal(n)
      /\ \A e \in Chosen(a, sel) : e.type = "hardlink" =>
           e.link \in {Normal(n) : n \in sel}

Extractable(l, a, sel) ==
    /\ Listed(l, a)
    /\ \A e \in EntrySet(a) : ValidEntry(l, e)
    /\ LinksToRegular(a)
    /\ ValidSelection(l, a, sel)

-----------------------------------------------------------------------------
(* The destination, under an os.Root                                        *)

PathsTo(path) == {SubSeq(path, 1, i) : i \in 1..Len(path)}

OpenDirectory(t, path) == t[path].kind = "directory" /\ t[path].mode # "closed"

(* ensureNoSymlinkComponents: down to the first component that is missing,  *)
(* each is in a directory that can be searched, and is no link.             *)
NoSymlinkComponents(t, path) ==
    \A p \in PathsTo(path) : Parent(p) \in DOMAIN t =>
        OpenDirectory(t, Parent(p)) /\ (p \in DOMAIN t => t[p].kind # "link")

(* MkdirAll of a path without links.                                        *)
CanMakeDirectory(t, path) ==
    NoSymlinkComponents(t, path) /\ (path \in DOMAIN t => t[path].kind = "directory")

NewDirectory == [kind |-> "directory", mode |-> "default", ino |-> <<>>, to |-> <<>>]

WithDirectories(t, path) ==
    [p \in DOMAIN t \union PathsTo(path) |-> IF p \in DOMAIN t THEN t[p] ELSE NewDirectory]

With(f, x, v) == [y \in DOMAIN f \union {x} |-> IF y = x THEN v ELSE f[y]]

(* An open for writing, with O_TRUNC: of a new name, or of a file.          *)
CanWrite(t, d, path) ==
    path \in DOMAIN t => t[path].kind = "file" /\ d[t[path].ino].mode # "closed"

FileOf(t, path) == IF path \in DOMAIN t THEN t[path].ino ELSE path

Node == [kind : {"directory", "file", "link"}, mode : STRING, ino : Seq(STRING), to : Seq(STRING)]

File(ino) == [kind |-> "file", mode |-> "none", ino |-> ino, to |-> <<>>]
Link(to)  == [kind |-> "link", mode |-> "none", ino |-> <<>>, to |-> to]

Searchable(t, path) ==
    \A p \in PathsTo(path) : OpenDirectory(t, Parent(p))

(* A tree hangs on a directory, and a file is known by one of its names.    *)
IsTree(t) ==
    /\ t \in [DOMAIN t -> Node]
    /\ <<>> \in DOMAIN t /\ t[<<>>].kind = "directory"
    /\ \A p \in DOMAIN t : t[p].kind = "file" =>
         t[p] = File(t[p].ino) /\ t[p].ino \in DOMAIN t /\ t[t[p].ino] = t[p]

ASSUME TreesAssumption == \A t \in Trees : IsTree(t.tree)

(* fs.WalkDir: a name comes once, and what is in a directory under its name. *)
IsWalk(files) ==
    /\ \A i, j \in DOMAIN files : files[i].name = files[j].name => i = j
    /\ \A i \in DOMAIN files : \A p \in PathsTo(files[i].name) \ {files[i].name} :
         \E j \in DOMAIN files : files[j].name = p /\ files[j].type = "directory"

ASSUME WalkAssumption == \A src \in Sources : IsWalk(src.files)

-----------------------------------------------------------------------------
Init ==
    /\ \/ /\ pc = "walk" /\ source \in Sources /\ archive = [format |-> "none", bytes |-> 0, entries |-> <<>>]
       \/ /\ pc = "open" /\ source = [format |-> "none", files |-> <<>>] /\ archive \in Archives
    /\ changed = 0 /\ packed = <<>>
    /\ limits \in LimitSets
    /\ listing = "none"
    /\ \E t \in Trees : tree = t.tree /\ disk = t.disk
    /\ call = NoCall
    /\ result = "none" /\ calls = 0

(* Write.  collectWriteEntries takes names and modes first, and refuses     *)
(* what is neither a directory nor a regular file, and names that a reader  *)
(* would take for others.                                                   *)
Walk ==
    /\ pc = "walk"
    /\ UNCHANGED <<source, changed, packed, input, target, call, calls>>
    /\ \/ /\ \A f \in ToSet(source.files) :
               LocalArchivePath(f.name) /\ f.type \in {"directory", "regular"}
          /\ pc' = "pack" /\ result' = "none"
       \/ pc' = "stopped" /\ result' = "failed"

(* The header of a TAR has the size seen by the walk, and the writer takes  *)
(* no more and no less; a ZIP has what was copied.                          *)
Pack ==
    /\ pc = "pack" /\ Len(packed) < Len(source.files)
    /\ UNCHANGED <<source, changed, input, target, call, calls>>
    /\ LET f == source.files[Len(packed) + 1]
           e == [name |-> f.name, type |-> f.type, mode |-> f.mode, link |-> <<>>,
                 data |-> f.data, size |-> IF f.type = "directory" THEN 0 ELSE Bytes[f.data],
                 whole |-> TRUE]
       IN  \/ /\ source.format = "tar" /\ f.type = "regular" => Bytes[f.data] = Bytes[f.walked]
              /\ packed' = Append(packed, e) /\ UNCHANGED <<pc, result>>
           \/ pc' = "stopped" /\ result' = "failed" /\ UNCHANGED packed

(* The file system is not frozen.                                           *)
ChangeSource ==
    /\ pc = "pack" /\ changed < MaxChanges
    /\ \E i \in Len(packed) + 1 .. Len(source.files), c \in DOMAIN Bytes :
         /\ source.files[i].type = "regular" /\ source.files[i].data # c
         /\ source' = [source EXCEPT !.files[i].data = c]
    /\ changed' = changed + 1
    /\ UNCHANGED <<pc, packed, input, target, call, result, calls>>

Close ==
    /\ pc = "pack" /\ Len(packed) = Len(source.files)
    /\ pc' = "open"
    /\ archive' = [format |-> source.format, bytes |-> 2, entries |-> packed]
    /\ UNCHANGED <<writing, limits, listing, target, call, result, calls>>

(* Open, OpenReaderAt, OpenFile.                                            *)
Open ==
    /\ pc = "open"
    /\ \E how \in {"stream", "sized"} :
         \/ Opens(limits, archive, how) /\ pc' = "idle" /\ result' = "none"
         \/ ~Opens(limits, archive, how) /\ pc' = "stopped" /\ result' = "refused"
    /\ UNCHANGED <<writing, input, target, call, calls>>

(* Entries.                                                                 *)
List ==
    /\ pc = "idle" /\ calls = 0 /\ listing = "none"
    /\ listing' = IF Listed(limits, archive) THEN "listed" ELSE "refused"
    /\ UNCHANGED <<pc, writing, archive, limits, target, call, result, calls>>

(* Extract and ExtractSelected, up to the first change of the destination.  *)
Extract ==
    /\ pc = "idle" /\ calls < MaxCalls
    /\ calls' = calls + 1
    /\ UNCHANGED <<writing, input, target>>
    /\ \E sel \in Selections :
         /\ call' = [sel |-> sel,
                     work |-> {i \in Picked(archive, sel) : Item(archive, i).name # <<>>},
                     modes |-> {e \in Chosen(archive, sel) : e.type = "directory"},
                     tree |-> tree, disk |-> disk]
         /\ IF ~Extractable(limits, archive, sel)
            THEN result' = "invalid" /\ UNCHANGED pc
            ELSE IF ~OpenDirectory(tree, <<>>)
            THEN result' = "failed" /\ UNCHANGED pc
            ELSE result' = "none" /\ pc' = "extract"

Stop(why) == pc' = "idle" /\ result' = why

(* The context ends, or the file system fails, before a step.               *)
Cancel ==
    /\ pc = "extract"
    /\ Stop("cancelled")
    /\ UNCHANGED <<writing, input, target, call, calls>>

(* extractEntries goes through the entries once for each of these types.    *)
Pass == [directory |-> 1, regular |-> 2, hardlink |-> 3, symlink |-> 4]

PassOf(i) == Pass[archive.entries[i].type]

IsNext(i, type) ==
    /\ archive.entries[i].type = type
    /\ \A j \in call.work : PassOf(i) < PassOf(j) \/ (PassOf(i) = PassOf(j) /\ i <= j)

Done(i) == call' = [call EXCEPT !.work = @ \ {i}] /\ UNCHANGED <<pc, result>>

MakeDirectory(i) ==
    /\ IsNext(i, "directory")
    /\ UNCHANGED <<writing, input, disk, calls>>
    /\ LET n == Item(archive, i).name
       IN  IF CanMakeDirectory(tree, n)
           THEN tree' = WithDirectories(tree, n) /\ Done(i)
           ELSE Stop("failed") /\ UNCHANGED <<tree, call>>

Copied(e) == IF e.whole THEN e.data ELSE "partial"

(* Mutant of Exact: what could be copied is taken.                          *)
Inexact(e) == TRUE

(* copyExact: no less and no more than the declared size.                   *)
Exact(e) == e.whole

(* extractRegularContent: the file is truncated, filled and then given its  *)
(* mode.  Contents that are not of the declared size are noticed after they *)
(* were written, and any write may be the last.                             *)
WriteRegular(i) ==
    /\ IsNext(i, "regular")
    /\ UNCHANGED <<writing, input, calls>>
    /\ LET e == Item(archive, i)
           n == e.name
           t == WithDirectories(tree, Parent(n))
           ino == FileOf(t, n)
           mode == IF ino \in DOMAIN disk THEN disk[ino].mode ELSE "private"
       IN  IF ~CanMakeDirectory(tree, Parent(n))
           THEN Stop("failed") /\ UNCHANGED <<target, call>>
           ELSE IF ~(NoSymlinkComponents(t, n) /\ CanWrite(t, disk, n))
           THEN Stop("failed") /\ tree' = t /\ UNCHANGED <<disk, call>>
           ELSE /\ tree' = With(t, n, File(ino))
                /\ \/ /\ Exact(e)
                      /\ disk' = With(disk, ino, [data |-> Copied(e), mode |-> e.mode])
                      /\ Done(i)
                   \/ /\ disk' = With(disk, ino, [data |-> "partial", mode |-> mode])
                      /\ Stop(IF e.whole THEN "cancelled" ELSE "failed")
                      /\ UNCHANGED call

(* A link of either kind is made in its parents, under a name that is free. *)
MakeLink(i, possible, node) ==
    LET n == Item(archive, i).name
        t == WithDirectories(tree, Parent(n))
    IN  IF ~CanMakeDirectory(tree, Parent(n))
        THEN Stop("failed") /\ UNCHANGED <<tree, call>>
        ELSE IF ~NoSymlinkComponents(t, n) \/ ~possible \/ n \in DOMAIN t
        THEN Stop("failed") /\ tree' = t /\ UNCHANGED call
        ELSE tree' = With(t, n, node) /\ Done(i)

(* requireRegularHardlinkTarget comes after the parents; they are no files. *)
MakeHardlink(i) ==
    /\ IsNext(i, "hardlink")
    /\ UNCHANGED <<writing, input, disk, calls>>
    /\ LET to == Item(archive, i).link
       IN  MakeLink(i, to \in DOMAIN tree /\ tree[to].kind = "file", tree[to])

MakeSymlink(i) ==
    /\ IsNext(i, "symlink")
    /\ UNCHANGED <<writing, input, disk, calls>>
    /\ MakeLink(i, TRUE, Link(Item(archive, i).link))

(* One entry of extractEntries.                                             *)
ExtractEntry ==
    /\ pc = "extract"
    /\ \E i \in call.work :
         MakeDirectory(i) \/ WriteRegular(i) \/ MakeHardlink(i) \/ MakeSymlink(i)

(* strings.Count(name, "/")                                                 *)
Slashes(path) == IF path = <<>> THEN 0 ELSE Len(path) - 1

(* Mutant of MayChmod: shallowest first.                                    *)
MayChmodTopDown(modes, e) == \A d \in modes : Slashes(d.name) >= Slashes(e.name)

(* The modes of directories come last, deepest first.                       *)
MayChmod(modes, e) == \A d \in modes : Slashes(d.name) <= Slashes(e.name)

ChmodDirectory ==
    /\ pc = "extract" /\ call.work = {}
    /\ \E e \in call.modes :
         /\ MayChmod(call.modes, e)
         /\ IF Searchable(tree, e.name)
            THEN /\ tree' = [tree EXCEPT ![e.name].mode = e.mode]
                 /\ call' = [call EXCEPT !.modes = @ \ {e}]
                 /\ UNCHANGED <<pc, result>>
            ELSE Stop("failed") /\ UNCHANGED <<tree, call>>
    /\ UNCHANGED <<writing, input, disk, calls>>

Finish ==
    /\ pc = "extract" /\ call.work = {} /\ call.modes = {}
    /\ Stop("ok")
    /\ UNCHANGED <<writing, input, target, call, calls>>

Next ==
    \/ Walk \/ Pack \/ ChangeSource \/ Close
    \/ Open \/ List \/ Extract
    \/ ExtractEntry \/ ChmodDirectory \/ Finish \/ Cancel

Spec == Init /\ [][Next]_vars

-----------------------------------------------------------------------------
(* Properties                                                               *)

Wanted == Chosen(archive, call.sel)

(* An extraction that succeeded put exactly what the container says under   *)
(* every name it was asked for: directories and files with their modes,     *)
(* contents, hard links to the same file, normalized link targets, whatever *)
(* was there before (archive/extract.go: extractEntries).  Two names that   *)
(* were one file before the call stay one file.                             *)
SharedBefore(e) ==
    \E f \in Wanted : /\ f # e
                      /\ {e.name, f.name} \subseteq DOMAIN call.tree
                      /\ call.tree[e.name].kind = "file" /\ call.tree[e.name] = call.tree[f.name]

ExtractedIsArchive ==
    result = "ok" =>
      \A e \in Wanted :
        /\ e.name \in DOMAIN tree
        /\ e.type = "directory" => tree[e.name].kind = "directory" /\ tree[e.name].mode = e.mode
        /\ e.type = "regular" /\ ~SharedBefore(e) =>
             tree[e.name].kind = "file" /\ disk[tree[e.name].ino] = [data |-> e.data, mode |-> e.mode]
        /\ e.type = "hardlink" => tree[e.name].kind = "file" /\ tree[e.name] = tree[e.link]
        /\ e.type = "symlink" => tree[e.name] = Link(e.link)

(* What is wrong with a container, whoever checks it.                       *)
Bad(a) ==
    \/ \E i, j \in DOMAIN a.entries : i # j /\ Normal(a.entries[i].name) = Normal(a.entries[j].name)
    \/ \E e \in EntrySet(a) :
         \/ Absolute(Slashed(e.name)) \/ ClimbsOut(Slashed(e.name)) \/ e.type = "other"
         \/ /\ e.type = "symlink"
            /\ \/ e.link = <<>> \/ Absolute(Slashed(e.link))
               \/ ClimbsOut(Parent(Normal(e.name)) \o Slashed(e.link))
         \/ /\ e.type = "hardlink"
            /\ ~\E t \in EntrySet(a) : t.type = "regular" /\ Normal(t.name) = Normal(e.link)

(* However an extraction ends, and wherever it stopped, it removed nothing  *)
(* and changed nothing but the entries it was asked for and the directories *)
(* above them; nothing at all for a container with an entry that may not be *)
(* extracted, selected or not (archive/extract.go: extract checks every     *)
(* entry before the first change).                                          *)
OnlyWantedTouched ==
    calls > 0 =>
      /\ \A p \in DOMAIN call.tree :
           /\ p \in DOMAIN tree
           /\ \/ tree[p] = call.tree[p]
              \/ /\ \E e \in Wanted : e.name = p /\ e.type = "directory"
                 /\ tree[p].kind = "directory" /\ call.tree[p].kind = "directory"
      /\ \A p \in DOMAIN tree \ DOMAIN call.tree : \E e \in Wanted : IsPrefix(p, e.name)
      /\ \A i \in DOMAIN call.disk :
           \/ disk[i] = call.disk[i]
           \/ \E e \in Wanted : e.type = "regular" /\ FileOf(call.tree, e.name) = i
      /\ Bad(archive) => tree = call.tree /\ disk = call.disk

(* Where the file system arrives from the destination along a path: at a    *)
(* directory, at what is not there, or outside.                             *)
WalkStep(t, w) ==
    IF w.rest = <<>> \/ w.out THEN w
    ELSE LET c == Head(w.rest)
             q == Append(w.at, c)
         IN  IF c = ".." THEN [at |-> Parent(w.at), rest |-> Tail(w.rest), out |-> w.at = <<>>]
             ELSE IF q \notin DOMAIN t THEN [w EXCEPT !.rest = <<>>]
             ELSE IF t[q].kind = "link" THEN [w EXCEPT !.rest = t[q].to \o Tail(@)]
             ELSE [at |-> q, rest |-> Tail(w.rest), out |-> FALSE]

MaxHops == 12

StaysInside(t, path) ==
    ~FoldLeft(LAMBDA w, i : WalkStep(t, w), [at |-> <<>>, rest |-> path, out |-> FALSE],
              [i \in 1..MaxHops |-> i]).out

(* A link with no more ".." than there are directories above it.            *)
ModestLink(path, to) == UpsThenPlain(path, 0) /\ \E u \in 0..Len(path)-1 : UpsThenPlain(to, u)

Modest(t) == \A p \in DOMAIN t : t[p].kind = "link" => ModestLink(p, t[p].to)

(* Links that were extracted cannot be followed out of the destination, not *)
(* even through each other or through modest links that were there,         *)
(* although each target was only checked by its letters                     *)
(* (archive/extract.go: validateSymlinkTarget).                             *)
LinksStayInside ==
    calls > 0 /\ Modest(call.tree) =>
        \A p \in DOMAIN tree : tree[p].kind = "link" => StaysInside(tree, p)

(* A container in which no entry is in another that is no directory can be  *)
(* extracted into a new directory: its own modes and links are never in the *)
(* way, in whatever order its entries are (archive/extract.go:              *)
(* extractEntries).  The entry "." is as deep as those directly in it, so   *)
(* that a closed one may come first.                                        *)
Coherent(chosen) ==
    /\ \A e \in chosen : e.whole
    /\ \A e, f \in chosen : IsStrictPrefix(e.name, f.name) => e.type = "directory"
    /\ (\E e \in chosen : e.name = <<>> /\ e.mode = "closed") =>
         Cardinality({e \in chosen : e.type = "directory"}) = 1

New(t) == DOMAIN t = {<<>>} /\ OpenDirectory(t, <<>>)

OwnOrderSuffices ==
    calls > 0 /\ New(call.tree) /\ Coherent(Wanted) => result # "failed"

(* A container is admitted exactly when it, each of its entries and all of  *)
(* them are within the limits, for limits up to the largest integer         *)
(* (archive/reader.go: Open, validateEntry).                                *)
SizeOf(a, i) ==
    LET e == a.entries[i]
    IN  IF e.type = "directory" \/ (a.format = "tar" /\ e.type # "regular") THEN 0 ELSE e.size

WithinLimits(l, a) ==
    /\ Len(a.entries) <= l.entries
    /\ \A i \in DOMAIN a.entries : SizeOf(a, i) <= l.file
    /\ SumFunction([i \in DOMAIN a.entries |-> SizeOf(a, i)]) <= l.total
    /\ \A e \in EntrySet(a) :
         Len(Slashed(e.name)) <= l.path /\ Len(Slashed(e.link)) <= l.path
    /\ Cardinality({Normal(e.name) : e \in EntrySet(a)}) = Len(a.entries)
    /\ a.format = "tar" => \A e \in EntrySet(a) : e.type # "other"

LimitsExact ==
    /\ listing # "none" => ((listing = "listed") <=> WithinLimits(limits, archive))
    /\ pc = "idle" => archive.bytes \in 2..limits.input
    /\ result = "refused" => archive.bytes \notin 2..limits.input

(* A file system that was written and extracted elsewhere is there again,   *)
(* or the writing failed (archive/writer.go, archive/extract.go).           *)
RoundTrip ==
    source.files # <<>> /\ calls > 0 /\ New(call.tree) /\ call.sel = All =>
      /\ Listed(limits, archive) => result \notin {"invalid", "failed"}
      /\ result = "ok" =>
           /\ DOMAIN tree = {<<>>} \union {f.name : f \in ToSet(source.files)}
           /\ \A f \in ToSet(source.files) :
                IF f.type = "directory"
                THEN tree[f.name].kind = "directory" /\ tree[f.name].mode = f.mode
                ELSE disk[tree[f.name].ino] = [data |-> f.data, mode |-> f.mode]

(* A new directory is enough: what makes sense as a container can be         *)
(* extracted into it, and what was written comes out as it was              *)
(* (archive/extract.go: extractEntries, archive/writer.go: Write).          *)
NewDirectorySuffices == OwnOrderSuffices /\ RoundTrip

-----------------------------------------------------------------------------
(* What makes them inductive.                                               *)

(* No call before there is a container; what a call works on.               *)
CallsInOrder ==
    /\ calls \in Nat
    /\ pc \notin {"idle", "extract"} => calls = 0 /\ result # "ok"
    /\ pc = "extract" => calls > 0
    /\ result = "ok" => calls > 0 /\ pc = "idle"

ContainersOK ==
    /\ EntriesOK(archive.entries) /\ EntriesOK(packed)
    /\ source = [format |-> source.format, files |-> source.files] /\ FilesOK(source.files)

TreesOK == IsTree(tree) /\ (calls > 0 => IsTree(call.tree))

Running == pc = "extract" \/ result = "ok"

Directories == {e \in Wanted : e.type = "directory"}

CallType ==
    call = [sel |-> call.sel, work |-> call.work, modes |-> call.modes, tree |-> call.tree, disk |-> call.disk]

(* An extraction under way was admitted; what it has left is of its         *)
(* selection, and the modes wait for the last entry.                        *)
CallOK ==
    /\ Running =>
         /\ Extractable(limits, archive, call.sel)
         /\ call.work \subseteq {i \in Picked(archive, call.sel) : Item(archive, i).name # <<>>}
         /\ call.modes \subseteq Directories
         /\ call.work # {} => call.modes = Directories
    /\ result = "ok" => call.work = {} /\ call.modes = {}

RefusedUntouched ==
    calls > 0 /\ ~Extractable(limits, archive, call.sel) => tree = call.tree /\ disk = call.disk

FinishedItems == Picked(archive, call.sel) \ call.work

(* As long as files are written, a new name is a directory or a new file of *)
(* an entry that is finished.                                               *)
NewNames ==
    pc = "extract" /\ (\E i \in call.work : archive.entries[i].type = "regular") =>
        \A p \in DOMAIN tree \ DOMAIN call.tree :
            \/ tree[p].kind = "directory"
            \/ /\ tree[p] = File(p)
               /\ \E j \in FinishedItems : Item(archive, j).type = "regular" /\ Item(archive, j).name = p

(* Every entry that is finished is in place.                                *)
InPlace(e) ==
    /\ e.name \in DOMAIN tree
    /\ e.type = "directory" => tree[e.name].kind = "directory" /\ (e \notin call.modes => tree[e.name].mode = e.mode)
    /\ e.type = "regular" => tree[e.name].kind = "file" /\ tree[e.name].ino \in DOMAIN disk
    /\ e.type = "regular" /\ ~SharedBefore(e) => disk[tree[e.name].ino] = [data |-> e.data, mode |-> e.mode]
    /\ e.type = "hardlink" => e.link \in DOMAIN tree /\ tree[e.name].kind = "file" /\ tree[e.name] = tree[e.link]
    /\ e.type = "symlink" => tree[e.name] = Link(e.link)

Placed == Running => \A i \in FinishedItems : InPlace(Item(archive, i))

(* What was there before is still there.                                    *)
Kept ==
    calls > 0 => \A p \in DOMAIN call.tree :
       /\ p \in DOMAIN tree
       /\ \/ tree[p] = call.tree[p]
          \/ /\ \E e \in Wanted : e.name = p /\ e.type = "directory"
             /\ tree[p].kind = "directory" /\ call.tree[p].kind = "directory"

AddedOnly ==
    calls > 0 => \A p \in DOMAIN tree \ DOMAIN call.tree : \E e \in Wanted : IsPrefix(p, e.name)

ContentsKept ==
    calls > 0 => \A i \in DOMAIN call.disk :
       /\ i \in DOMAIN disk
       /\ \/ disk[i] = call.disk[i]
          \/ \E e \in Wanted : e.type = "regular" /\ FileOf(call.tree, e.name) = i

(* So are the links that are new modest.                                    *)
ModestKept == calls > 0 /\ Modest(call.tree) => Modest(tree)

(* A container that was opened is within the limits, and its listing was     *)
(* answered by them.                                                        *)
SizesOK(entries) == \A i \in 1..Len(entries) : entries[i].size \in 0..(2 * MaxInt + 1)

AdmissionOK ==
    /\ limits \in LimitSets
    /\ archive.bytes \in 0..MaxInt /\ SizesOK(archive.entries) /\ SizesOK(packed)
    /\ listing # "none" => pc \in {"idle", "extract"} /\ ((listing = "listed") <=> Listed(limits, archive))
    /\ pc \in {"idle", "extract"} => archive.bytes \in 2..limits.input
    /\ result = "refused" => pc = "stopped" /\ archive.bytes \notin 2..limits.input
(* What an extraction into a new directory can rely on: only names on the   *)
(* way to entries are taken, and these from the root down; what is no       *)
(* directory is an entry that is finished, no other entry is a directory,   *)
(* and none is closed before its mode is set.                               *)
Fresh == calls > 0 /\ New(call.tree) /\ Coherent(Wanted)

OnTheWay(t) ==
    /\ \A p \in DOMAIN t : PathsTo(p) \subseteq DOMAIN t
    /\ \A p \in DOMAIN t \ {<<>>} : \E i \in Picked(archive, call.sel) : p \in PathsTo(Item(archive, i).name)

EntriesApart(t) ==
    \A p \in DOMAIN t :
       IF t[p].kind = "directory"
       THEN \A i \in Picked(archive, call.sel) : Item(archive, i).name = p => Item(archive, i).type = "directory"
       ELSE \E i \in FinishedItems : Item(archive, i).name = p /\ Item(archive, i).type # "directory"

ClosedLast(t) ==
    \A p \in DOMAIN t : t[p].kind = "directory" /\ t[p].mode = "closed" =>
       \E e \in Directories \ call.modes : e.name = p /\ e.mode = "closed"

(* Modes are set from the deepest name up.                                  *)
DeepestFirst == \A e \in Directories \ call.modes : MayChmod(call.modes, e)

Unhindered ==
    Fresh =>
      /\ result # "failed"
      /\ Running => OnTheWay(tree) /\ EntriesApart(tree) /\ ClosedLast(tree) /\ DeepestFirst

(* What is written is what the walk found, and what is read what was written. *)
EntryFor(f, e) ==
    /\ e.name = f.name /\ e.type = f.type /\ e.mode = f.mode /\ e.data = f.data /\ e.whole

WrittenOK ==
    /\ IsWalk(source.files)
    /\ pc \notin {"walk", "stopped"} => \A f \in ToSet(source.files) : LocalArchivePath(f.name) /\ f.type \in {"directory", "regular"}
    /\ Len(packed) <= Len(source.files) /\ \A i \in 1..Len(packed) : EntryFor(source.files[i], packed[i])
    /\ source.files # <<>> /\ pc \notin {"walk", "pack", "stopped"} =>
         archive.entries = packed /\ Len(packed) = Len(source.files)
    /\ calls > 0 /\ result = "invalid" => ~Extractable(limits, archive, call.sel)

IInv ==
    /\ CallsInOrder /\ ContainersOK /\ TreesOK /\ CallType /\ CallOK /\ RefusedUntouched
    /\ NewNames /\ Placed /\ Kept /\ AddedOnly /\ ContentsKept

=============================================================================
