------------------------------ MODULE Publish ------------------------------
(***************************************************************************)
(* appstore.Client.Publish (publish.go): a package is spooled into a work   *)
(* directory and checked there, its application is looked for and created   *)
(* when it is missing, the package is uploaded, and a review is asked for.  *)
(* The upload is the stream of PipeUpload, step by step; its other uses are  *)
(* not part of a publication and run as they do there.                      *)
(*                                                                         *)
(* The platform is external.  It refuses to create an application that is    *)
(* there and to review one that is not; a request it never gets, refuses or  *)
(* answers in vain is trouble, and so is an answer to the upload that is     *)
(* incomplete, names another package, or another file than was sent.        *)
(***************************************************************************)
EXTENDS PipeUpload

CONSTANTS MaxPublishes, MaxTrouble, MaxOthers

ASSUME PublishBounds == MaxPublishes \in Nat /\ MaxTrouble \in Nat /\ MaxOthers \in Nat

VARIABLES
    stage,     \* the next step of the call
    request,   \* what it was given
    spooled,   \* the package in the work directory
    upload,    \* the answer to the upload: the package and the file it names
    outcome,   \* how the last call ended
    apps,      \* the platform: the applications that exist
    reviews,   \* the platform: what it was asked to review
    troubled,  \* history: the call met trouble
    publishes, trouble, others

call        == <<stage, request, spooled, upload, outcome, troubled>>
store       == <<apps, reviews>>
counts      == <<publishes, trouble, others>>
publishVars == <<call, store, counts>>
allVars     == <<vars, publishVars>>

None == "none"

(* valid: changelogs and application infos are as validateApplicationInfos   *)
(* wants them; lpk: passes the official lint or not, is no package, or is    *)
(* larger than MaxPackageBytes; application: what may be created.           *)
Requests == [valid : BOOLEAN, lpk : {"clean", "warned", "broken", "large"},
             application : {None, "own", "other"}]

(* A file, as the version, the address and the hash in an answer name it.     *)
(* The platform may leave it out, or name one that this call did not send.   *)
Nothing == [lpk |-> None, whole |-> FALSE]
Foreign == [lpk |-> "foreign", whole |-> FALSE]
Package == [lpk |-> "clean", whole |-> TRUE]
Sent    == [lpk |-> spooled, whole |-> got = Chunks /\ whole # "no"]

Answers == [package : {None, "own", "other"}, file : {Nothing, Foreign, Sent}]
Unread  == [package |-> None, file |-> Nothing]

PublishInit ==
    /\ Init
    /\ stage = "idle" /\ request = [valid |-> FALSE, lpk |-> "broken", application |-> None]
    /\ spooled = None /\ upload = Unread /\ outcome = None
    /\ apps \in {{"other"}, {"own", "other"}} /\ reviews = {}
    /\ troubled = FALSE
    /\ publishes = 0 /\ trouble = 0 /\ others = 0

-----------------------------------------------------------------------------
Enter(next) == stage' = next /\ UNCHANGED <<spooled, outcome>>

(* However a call ends, its work directory is removed.                      *)
End(how) == stage' = "idle" /\ spooled' = None /\ outcome' = how

(* A step fails: because the context has ended, or for trouble of its own.   *)
Trouble ==
    /\ End("failed")
    /\ troubled' = TRUE
    /\ IF done THEN UNCHANGED trouble ELSE trouble < MaxTrouble /\ trouble' = trouble + 1

NoTrouble == ~done /\ UNCHANGED <<troubled, trouble>>

CallPublish ==
    /\ use = "upload" /\ stage = "idle" /\ publishes < MaxPublishes
    /\ publishes' = publishes + 1
    /\ request' \in Requests
    /\ IF request'.valid THEN Enter("spool") ELSE End("failed")
    /\ upload' = Unread /\ troubled' = FALSE
    /\ producer' = "waiting" /\ made' = 0 /\ failed' = FALSE
    /\ pipe' = "open" /\ shut' = FALSE
    /\ receiver' = "waiting" /\ got' = 0 /\ whole' = "no"
    /\ done' = FALSE /\ pc' = "start" /\ ret' = "none"
    /\ UNCHANGED <<use, store, trouble, others>>

(* spoolPublishPackage: one byte more than the limit is read.               *)
Spool ==
    /\ stage = "spool"
    /\ \/ NoTrouble /\ request.lpk = "large" /\ End("failed")
       \/ /\ NoTrouble /\ request.lpk # "large"
          /\ stage' = "precheck" /\ spooled' = request.lpk /\ UNCHANGED outcome
       \/ Trouble
    /\ UNCHANGED <<vars, request, upload, store, publishes, others>>

(* precheckPublishPackage: opened, extracted and linted without a warning.  *)
Precheck ==
    /\ stage = "precheck"
    /\ \/ NoTrouble /\ (IF spooled = "clean" THEN Enter("check") ELSE End("failed"))
       \/ Trouble
    /\ UNCHANGED <<vars, request, upload, store, publishes, others>>

(* Mutant of Check: the application is created whether it exists or not.    *)
CheckCreates ==
    /\ stage = "check"
    /\ \/ NoTrouble /\ (IF request.application = "own" THEN Enter("create") ELSE End("failed"))
       \/ Trouble
    /\ UNCHANGED <<vars, request, upload, store, publishes, others>>

(* CheckApplication, and whether what is missing may be created.            *)
Check ==
    /\ stage = "check"
    /\ \/ NoTrouble /\ (IF "own" \in apps THEN Enter("upload")
                        ELSE IF request.application = "own" THEN Enter("create")
                        ELSE End("failed"))
       \/ Trouble
    /\ UNCHANGED <<vars, request, upload, store, publishes, others>>

(* CreateApplication: its answer may be lost after it was carried out.      *)
Create ==
    /\ stage = "create"
    /\ \/ /\ NoTrouble
          /\ IF request.application \in apps THEN End("failed") ELSE Enter("upload")
          /\ apps' = apps \union {request.application}
       \/ Trouble /\ apps' \in {apps, apps \union {request.application}}
    /\ UNCHANGED <<vars, request, upload, reviews, publishes, others>>

(* uploadLPK.                                                              *)
Stream ==
    /\ use = "upload" => stage = "upload"
    /\ Work \/ StopEarly
    /\ UNCHANGED publishVars

(* Mutant of Accepted: any package that an answer names is put up.          *)
AcceptedAny(answer) == answer.package # None /\ answer.file # Nothing

(* What Publish asks of the answer to the upload: that it is complete, and   *)
(* of the package.  Nothing compares the file it names with the one sent.    *)
Accepted(answer) == answer.package = "own" /\ answer.file # Nothing

Uploaded ==
    /\ stage = "upload" /\ pc = "returned"
    /\ \/ /\ ret # "ok"
          /\ End("failed") /\ troubled' = TRUE /\ UNCHANGED <<upload, trouble>>
       \/ /\ ret = "ok"
          /\ upload' = [package |-> "own", file |-> Sent]
          /\ Enter("review") /\ UNCHANGED <<troubled, trouble>>
       \/ /\ ret = "ok" /\ trouble < MaxTrouble
          /\ upload' \in Answers
          /\ IF Accepted(upload') THEN Enter("review") ELSE End("failed")
          /\ trouble' = trouble + 1 /\ troubled' = TRUE
    /\ UNCHANGED <<vars, request, store, publishes, others>>

(* The review is of the package and the file that the answer names; history: *)
(* what the call had sent when it asked.                                    *)
Review ==
    /\ stage = "review"
    /\ LET asked == [package |-> upload.package, file |-> upload.file, sent |-> Sent]
           put   == IF upload.package \in apps THEN reviews \union {asked} ELSE reviews
       IN  \/ /\ NoTrouble
              /\ End(IF upload.package \in apps THEN "ok" ELSE "failed")
              /\ reviews' = put
           \/ Trouble /\ reviews' \in {reviews, put}
    /\ UNCHANGED <<vars, request, upload, apps, publishes, others>>

(* The caller ends the context, wherever the call is.                       *)
Stop ==
    /\ EndContext
    /\ use = "upload" => stage # "idle"
    /\ UNCHANGED publishVars

(* Another client creates the application, or it is withdrawn.              *)
Others ==
    /\ others < MaxOthers /\ others' = others + 1
    /\ use = "upload"
    /\ apps' \in {apps \union {"own"}, apps \ {"own"}} \ {apps}
    /\ troubled' = TRUE
    /\ UNCHANGED <<vars, stage, request, spooled, upload, outcome, reviews, publishes, trouble>>

Step == Spool \/ Precheck \/ Check \/ Create \/ Uploaded \/ Review

PublishNext == CallPublish \/ Step \/ Stream \/ Stop \/ Others

PublishSpec == PublishInit /\ [][PublishNext]_allVars

(* As in PipeUpload, and requests are answered or fail.                     *)
FairPublishSpec ==
    /\ PublishSpec
    /\ WF_allVars(Step)
    /\ WF_allVars(Work /\ Stream)

-----------------------------------------------------------------------------
(* The platform is asked to review nothing but the application whose package *)
(* passed the official lint in this call and was then sent whole; the file   *)
(* named in the request is that package, or one that the platform itself put *)
(* in its place when it answered the upload (the code takes its word).       *)
ReviewedIsPrechecked ==
    \A r \in reviews : r.package = "own" /\ r.sent = Package /\ r.file \in {r.sent, Foreign}

Publishable == request.valid /\ request.lpk = "clean" /\ request.application = "own"

(* A call that is over leaves no file, and one that may create its           *)
(* application fails only for trouble it met itself: not for what a failed    *)
(* call before it left on the platform.                                     *)
RetryCompletes ==
    stage = "idle" =>
        /\ spooled = None
        /\ outcome = "failed" /\ Publishable => troubled

(* Why: what a stage has behind it.  Without trouble the platform is as the   *)
(* last request of the call found or left it.                               *)
Stages == {"idle", "spool", "precheck", "check", "create", "upload", "review"}

CallKnows ==
    /\ stage \in Stages /\ request \in Requests /\ troubled \in BOOLEAN
    /\ stage # "idle" => use = "upload"
    /\ stage \in {"idle", "spool"} => spooled = None
    /\ stage = "precheck" => spooled = request.lpk
    /\ stage \in {"check", "create", "upload", "review"} => spooled = "clean"
    /\ stage = "create" => request.application = "own"
    /\ stage = "review" => Accepted(upload) /\ upload.file \in {Package, Foreign} /\ ret = "ok"

PlatformKnown ==
    ~troubled => /\ stage = "create" => "own" \notin apps
                 /\ stage \in {"upload", "review"} => "own" \in apps

PublishInv == IInv /\ CallKnows /\ PlatformKnown /\ ReviewedIsPrechecked /\ RetryCompletes

(* Every publication, and every other stream, comes to an end.              *)
PublishEnds ==
    /\ use # "upload" => CallReturns
    /\ stage # "idle" ~> stage = "idle"
=============================================================================
