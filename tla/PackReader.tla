---------------------------- MODULE PackReader ----------------------------
(***************************************************************************)
(* lpk.Reader (lpk/reader.go): one reader, opened from the file of         *)
(* FileReplace, that goroutines ask for its documents while other callers  *)
(* replace that file.  manifest.yml and package.yml are parsed once, under *)
(* one mutex, and whatever came of it, errors too, is kept for later calls.*)
(*                                                                         *)
(* A document is known by the package it is from.                          *)
(***************************************************************************)
EXTENDS FileReplace

CONSTANTS
    Goroutines,
    Layout,       \* detectLayout of each package: "V1" or "V2"
    Entries,      \* the documents it has
    MaxAsks,      \* bound: calls of the reader
    MaxDamages    \* bound: reads that fail

Documents == {"manifest", "package"}

ASSUME PacksAssumption ==
    Layout \in [Bodies -> {"V1", "V2"}] /\ Entries \in [Bodies -> SUBSET Documents]
ASSUME ReaderAssumption == NoFile \notin Bodies \union Goroutines
ASSUME AsksAssumption == MaxAsks \in Nat /\ MaxDamages \in Nat

VARIABLES
    pack,      \* the package the reader was opened on; NoFile before
    cache,     \* manifestCache and packageCache
    lock,      \* who holds the mutex
    at, asked, doc,    \* of each goroutine: its step, its call, the document it is at
    over,      \* its context has ended
    answer,    \* of its last call
    anyOver,   \* history: some context given to the reader has ended
    asks, damages

reading  == <<pack, cache, lock, at, asked, doc, over, answer, anyOver, asks, damages>>
allVars  == <<vars, reading>>

Result(code, from) == [code |-> code, from |-> from]
Unloaded == Result("unloaded", Absent)
Failed   == Result("failed", Absent)
Codes    == {"unloaded", "ok", "notFound", "cancelled", "failed"}
AskOps   == {"Manifest", "PackageInfo", "EffectiveManifest"}

ReadInit ==
    /\ Init
    /\ pack = NoFile
    /\ cache = [d \in Documents |-> Unloaded]
    /\ lock = NoFile
    /\ at = [g \in Goroutines |-> "idle"]
    /\ asked = [g \in Goroutines |-> "Manifest"]
    /\ doc = [g \in Goroutines |-> "manifest"]
    /\ over = [g \in Goroutines |-> FALSE]
    /\ answer = [g \in Goroutines |-> Unloaded]
    /\ anyOver = FALSE
    /\ asks = 0 /\ damages = 0

----------------------------------------------------------------------------
(* OpenFile and detectLayout; the reader is opened once.                    *)
Open ==
    /\ pack = NoFile
    /\ OpenFile
    /\ pack' = data[dir][1]
    /\ UNCHANGED <<cache, lock, at, asked, doc, over, answer, anyOver, asks, damages>>

(* Close does not take the mutex: it can come between any two reads.        *)
Close == CloseFile /\ UNCHANGED reading

(* PackageInfo and EffectiveManifest look for the package document first.   *)
Ask(g, o) ==
    /\ at[g] = "idle" /\ pack # NoFile /\ asks < MaxAsks
    /\ asks' = asks + 1
    /\ at' = [at EXCEPT ![g] = "lock"]
    /\ asked' = [asked EXCEPT ![g] = o]
    /\ doc' = [doc EXCEPT ![g] = IF o = "Manifest" THEN "manifest" ELSE "package"]
    /\ over' = [over EXCEPT ![g] = FALSE]
    /\ answer' = [answer EXCEPT ![g] = Unloaded]
    /\ UNCHANGED <<vars, pack, cache, lock, anyOver, damages>>

EndAsk(g) ==
    /\ at[g] # "idle" /\ ~over[g]
    /\ over' = [over EXCEPT ![g] = TRUE]
    /\ anyOver' = TRUE
    /\ UNCHANGED <<vars, pack, cache, lock, at, asked, doc, answer, asks, damages>>

(* The document of this step is there, or is not: EffectiveManifest goes on *)
(* to the manifest, and without one a V2 package has an empty manifest.     *)
(* What LoadEffective says of the documents is not modelled.                *)
Got(g, result) ==
    IF asked[g] = "EffectiveManifest" /\ doc[g] = "package" /\ result.code = "ok"
    THEN /\ at' = [at EXCEPT ![g] = "lock"]
         /\ doc' = [doc EXCEPT ![g] = "manifest"]
         /\ UNCHANGED <<over, answer>>
    ELSE /\ at' = [at EXCEPT ![g] = "idle"]
         /\ doc' = [doc EXCEPT ![g] = "manifest"]
         /\ over' = [over EXCEPT ![g] = FALSE]
         /\ answer' = [answer EXCEPT ![g] =
               IF asked[g] = "EffectiveManifest" /\ doc[g] = "manifest"
                    /\ result.code = "notFound" /\ Layout[pack] = "V2"
               THEN Result("ok", cache["package"].from) ELSE result]

(* requireReader: a call whose context has ended does not ask for the mutex. *)
Refuse(g) ==
    /\ at[g] = "lock" /\ over[g]
    /\ Got(g, Result("cancelled", Absent))
    /\ UNCHANGED <<vars, pack, cache, lock, asked, anyOver, asks, damages>>

(* Mutant of Lock: the cache is looked at without the mutex.                *)
LockFree(g) ==
    /\ at[g] = "lock"
    /\ lock' = g
    /\ IF cache[doc[g]] # Unloaded THEN Got(g, cache[doc[g]])
       ELSE at' = [at EXCEPT ![g] = "read"] /\ UNCHANGED <<doc, over, answer>>
    /\ UNCHANGED <<vars, pack, cache, asked, anyOver, asks, damages>>

(* A document that was looked for before is answered from the cache, and    *)
(* the mutex is free again.                                                 *)
Lock(g) ==
    /\ at[g] = "lock" /\ lock = NoFile
    /\ \/ /\ cache[doc[g]] # Unloaded
          /\ Got(g, cache[doc[g]])
          /\ UNCHANGED lock
       \/ /\ cache[doc[g]] = Unloaded
          /\ lock' = g
          /\ at' = [at EXCEPT ![g] = "read"]
          /\ UNCHANGED <<doc, over, answer>>
    /\ UNCHANGED <<vars, pack, cache, asked, anyOver, asks, damages>>

(* Mutant of Parsed: the file is opened again by its name.                  *)
ParsedByName(g, d) ==
    IF over[g] THEN Result("cancelled", Absent)
    ELSE IF handle = NoFile \/ dir = Absent THEN Result("failed", Absent)
    ELSE IF d \notin Entries[data[dir][1]] THEN Result("notFound", Absent)
    ELSE Result("ok", data[dir][1])

(* readEntryBytes and the parsing, from the file the reader has open.       *)
Parsed(g, d) ==
    IF over[g] THEN Result("cancelled", Absent)
    ELSE IF handle = NoFile THEN Failed
    ELSE IF d \notin Entries[data[handle][1]] THEN Result("notFound", Absent)
    ELSE Result("ok", data[handle][1])

(* In a V1 package the package document is split off the manifest.          *)
Split(g) == doc[g] = "package" /\ Layout[pack] = "V1"

(* The result is kept, an error too; with the package document of a V1      *)
(* package, what came of reading its manifest.                              *)
Keep(g, read, result) ==
    cache' = [cache EXCEPT !["manifest"] = IF Split(g) THEN read ELSE @,
                           ![doc[g]] = result]

(* Under the mutex the document is read, or a V1 package document split     *)
(* from the manifest kept before.  The read, the parsing or the splitting   *)
(* may fail.                                                                *)
ReadDocument(g) ==
    /\ at[g] = "read"
    /\ lock' = NoFile
    /\ LET kept == Split(g) /\ cache["manifest"] # Unloaded
           read == IF kept THEN cache["manifest"]
                   ELSE Parsed(g, IF Split(g) THEN "manifest" ELSE doc[g])
       IN \/ Keep(g, read, read) /\ Got(g, read) /\ UNCHANGED damages
          \/ /\ damages < MaxDamages /\ damages' = damages + 1
             /\ Got(g, Failed)
             /\ \/ ~kept /\ Keep(g, Failed, Failed)
                \/ Split(g) /\ read.code = "ok" /\ Keep(g, read, Failed)
    /\ UNCHANGED <<vars, pack, asked, anyOver, asks>>

(* The reader's process ends with everything else.                          *)
Outage ==
    /\ PowerLoss
    /\ pack' = NoFile /\ lock' = NoFile /\ anyOver' = FALSE
    /\ cache' = [d \in Documents |-> Unloaded]
    /\ at' = [g \in Goroutines |-> "idle"]
    /\ doc' = [g \in Goroutines |-> "manifest"]
    /\ over' = [g \in Goroutines |-> FALSE]
    /\ answer' = [g \in Goroutines |-> Unloaded]
    /\ UNCHANGED <<asked, asks, damages>>

ReadNext ==
    \/ Working /\ UNCHANGED reading
    \/ Open \/ Close \/ Outage
    \/ \E g \in Goroutines :
         (\E o \in AskOps : Ask(g, o)) \/ EndAsk(g) \/ Refuse(g) \/ Lock(g) \/ ReadDocument(g)

ReadSpec == ReadInit /\ [][ReadNext]_allVars

----------------------------------------------------------------------------
(* Every variable has its type, and the mutex is held exactly by the        *)
(* goroutine that reads a document.                                         *)
ReadTypeOK ==
    /\ TypeOK
    /\ pack \in Bodies \union {NoFile}
    /\ cache \in [Documents -> [code : Codes, from : Bodies \union {Absent}]]
    /\ at \in [Goroutines -> {"idle", "lock", "read"}]
    /\ asked \in [Goroutines -> AskOps] /\ doc \in [Goroutines -> Documents]
    /\ \A g \in Goroutines : at[g] = "read" <=> lock = g
    /\ over \in [Goroutines -> BOOLEAN] /\ anyOver \in BOOLEAN
    /\ answer \in [Goroutines -> [code : Codes, from : Bodies \union {Absent}]]
    /\ asks \in 0..MaxAsks /\ damages \in 0..MaxDamages

(* A reader answers every call from the package it was opened on, however   *)
(* often the file has been replaced, signed or brought back since: its      *)
(* documents, or NOT_FOUND when that package lacks one.  A call on an open  *)
(* reader fails only for a context or a read that failed.                   *)
OneVersion ==
    \A g \in Goroutines :
        /\ answer[g].code = "ok" => answer[g].from = pack
        /\ answer[g].code = "notFound" =>
              \E d \in Documents \ Entries[pack] :
                  asked[g] = "Manifest" \/ Layout[pack] = "V1" => d = "manifest"
        /\ (handle # NoFile /\ ~anyOver /\ damages = 0)
              => answer[g].code \in {"unloaded", "ok", "notFound"}

(* The two documents of a V1 package come from one reading of its manifest, *)
(* whichever goroutine asked for which one first; a package document may    *)
(* fail alone, when it cannot be split off.                                 *)
OneReading ==
    (pack # NoFile /\ Layout[pack] = "V1" /\ cache["package"] # Unloaded)
        => /\ cache["manifest"] # Unloaded
           /\ cache["package"] \in {cache["manifest"], Failed}

(* Why: the open file is of the package the reader was opened on, and while  *)
(* there is none nobody has asked ...                                       *)
OpenPack ==
    /\ handle # NoFile => pack # NoFile /\ data[handle] \in Contents /\ data[handle][1] = pack
    /\ pack = NoFile =>
         /\ \A d \in Documents : cache[d] = Unloaded
         /\ \A g \in Goroutines : at[g] = "idle" /\ answer[g] = Unloaded

(* ... what is kept came of a read of that package ...                      *)
LooksAt(d) == IF Layout[pack] = "V1" THEN "manifest" ELSE d

KeptRight ==
    \A d \in Documents :
        /\ cache[d].code = "ok" => cache[d].from = pack
        /\ cache[d].code = "notFound" => LooksAt(d) \notin Entries[pack]
        /\ cache[d].code = "unloaded" <=> cache[d] = Unloaded
        /\ (handle # NoFile /\ ~anyOver /\ damages = 0)
              => cache[d].code \in {"unloaded", "ok", "notFound"}

(* ... and a goroutine that reads is at a document that was not read, with   *)
(* the one its call looked for before found.                                *)
Asking ==
    \A g \in Goroutines :
        /\ over[g] => anyOver
        /\ (at[g] # "idle" /\ asked[g] = "Manifest") => doc[g] = "manifest"
        /\ (at[g] # "idle" /\ asked[g] = "PackageInfo") => doc[g] = "package"
        /\ (at[g] # "idle" /\ asked[g] = "EffectiveManifest" /\ doc[g] = "manifest")
              => cache["package"].code = "ok"
        /\ at[g] = "read" => cache[doc[g]] = Unloaded

RInv == IInv /\ ReadTypeOK /\ OneReading /\ OneVersion /\ OpenPack /\ KeptRight /\ Asking

(* The mutex is held by the goroutine that reads and by no other, the caches  *)
(* it guards agree, and no answer is from anything but the open package.    *)
ReadInv == ReadTypeOK /\ OneReading /\ OneVersion

(* A document is read once: what came of it stands for every later call, an *)
(* error of one caller's context too, whoever asks at the same time.        *)
ReadOnce ==
    [][pack' = pack => \A d \in Documents : cache[d] # Unloaded => cache'[d] = cache[d]]_allVars
=============================================================================
