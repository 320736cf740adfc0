# A TLA+ model of lzc-toolkit-go

lzc-toolkit-go is a Go library (no daemon of its own) with which a program
builds, signs and reads LPK packages, deploys them to a LazyCat box, builds and
copies container images, and publishes to the LazyCat app store.  Two kinds of
code in it are hard.  At its edges: files that several callers replace and read
at once, goroutines joined through pipes, and multi-step conversations with a
box, a backend and a platform that other clients use too, over connections that
fail.  And in its middle: sequential work on archives and manifests whose steps
depend on each other (an order of extraction, a template that is cut but never
rendered, a tree with aliases that is edited).  This directory models both.

Contents: 1 inventory, 2 plan, 3 the modules and the code, 4 what the runs show,
5 bounds, 6 fairness, 7 assumptions about what is outside the repository,
8 proofs, 9 what is not modelled.

Check it with, in this directory,

    tlc -config <Run>.cfg <Module>.tla      (the pairs are in PROJECT.json)
    tlapm <Module>Proofs.tla                (BlobCache, AppStore, PackReader, PreviewWorkflow, RemoteImageBuild,
                                             LocalImageBuild, Archive, Manifest; the last two take minutes each)

## 1. Inventory

Component: state; operations; interaction; what is hard; what makes it correct.

**Blob cache** (`remote/blobcache`).  State: files under
`.lzc-cli-cache/blobs/sha256`, named by digest, and temporaries.  Operations: Has, Put, PutFile,
CopyTo, Open, ImportOCI.  Used by the remote image builder, by any number of
goroutines and processes of one host, with no lock.  Hard: renames under open
readers, another program in the directory, crashes between copy, fsync and rename.  Correct
when a name only ever has whole bytes of its digest, a blob reported as cached is there, a
reader gets a whole blob, and no call leaves a temporary.

**Project service** (`project`).  State: on the box only (status, installed
package, its dev.id); the client has a place in a conversation.  Operations:
Deploy, Start, Restart, Stop, Uninstall, SyncDevID, Wait*, and CopyTo, Exec,
Logs, Docker.  Hard: commands and status reads are separate; other clients command the same
application between them; a lost answer leaves a command that
may still be taken; two generations of backends.  Correct when success means what
its caller may conclude (package and dev.id are this deployment's; the
application restarted; it is down), and when every call ends.

**Preview workflow** (`workflow`, `workflow/project`).  State: the stage, a
temporary LPK.  Operation: Run (build, deploy, sync, start, wait).  Calls the builder, the
project service and rsync.  Hard: any stage fails or is cancelled.
Correct when what is sent is what was built, nothing is left over, success means
the package serves, and a run ends.

**Streams made while they are sent** (`project/copy.go`, `appstore/publish.go`,
`appstore/apk.go`).  State: a goroutine, an `io.Pipe`, a command or request.
Hard: either end gives up first; two errors, of which one is an
echo; a receiver that takes a truncated stream for a whole one.  Correct when
success means the whole source arrived and the goroutine never outlives the call.

**Image copy** (`appstore/images.go`).  State: none here; a job on the platform
shared by all callers.  Operations: CopyImage, ListImages.  Hard: lost answers,
retries of a copy already begun, last answers with fields missing, a timeout and a
cancellation in one context.

**Remote image builder** (`image/buildpack`).  State: a working directory, the shared
blob cache, the backend's blob store; for each image the selection of its context and the TAR of
it.  Operations: Build, Artifact.Close.  Hard: blobs evicted or
collected between the check and the use; failing half way; a project that is edited while its context
is collected and then read.  Correct when a successful
artifact holds every blob, a failed build leaves nothing, builds do not disturb each other, and a context has what
the Dockerfile names and nothing that .dockerignore leaves out.

**Local image builder, Docker archive conversion** (`image/dockerlocal`,
`image/dockerarchive`).  State: images in the local Docker, a work directory, the artifact made
in it.  Operations: Build (one image per entry, save, Convert), Artifact.Close.  Called by `build`.
Hard: others move the base image's tag between the build and its inspection and prune images;
a failure at any of a dozen steps.  Correct when every layer of an artifact is in it or in the
upstream image it names, and a build that is over leaves nothing.

**Files replaced atomically** (`archive/atomic.go`, `signature/sign.go`,
`signature/file.go`, `auth/tokenfile`).  State: one file, temporaries beside it.  Hard: concurrent replacing,
reading and deleting; crashes; four spellings of one protocol.
Correct when the file is whole at every instant and changes exactly when a call succeeds.

**LPK reader** (`lpk/reader.go`).  State: the open file, two caches of parsed
documents with their errors, a mutex.  Operations: Manifest, PackageInfo,
EffectiveManifest, Close, and the uncached Entries, OpenEntry, Extract.  Hard: goroutines share the
caches; V1 packages fill both from one document; errors are kept.

**Archive container** (`archive`).  State: an open container; the destination's tree while
it is extracted.  Operations: Write, Open, Entries, Extract, ExtractSelected.  Sequential; hard in
its order of steps, limits at the edge of an integer, links through links, destinations in use, a source
that changes while it is written, and what a failure leaves.  Correct when what succeeds is exact,
what fails touched only what was asked for, and no extracted link leads out.

**Publication** (`appstore/publish.go`).  State: a work directory; applications and reviews on the
platform.  Operation: Publish (spool, precheck, check, create, upload, review).  Hard: the platform remembers the half
of a call that failed, and other clients change it meanwhile.  Correct when a review is asked for only of the application
whose package was prechecked and sent in the same call, and a failed call can be repeated.

**Manifest** (`manifest`).  State: a document tree while it is edited.  Operations: Preprocess, Analyze,
Summarize, LoadEffective, SplitEffective, Set, Delete.  Hard: templates are never rendered, so that facts
about them are inferred from lines; edits move nodes that aliases elsewhere point at.
Correct when the facts hold in every rendering and an edit changes what it names.

**Build** (`build`) and **project inspection** (`project/inspect.go`).  State: a staging directory, an
image builder's artifact.  Operations: Build, BuildFile, ResolveConfig, Inspect.  Hard: the metadata come
from four places with a precedence, in two layouts, from documents and from text; Inspect
tells the same by code of its own.  Correct when the package declares what the project does and renders
to what its source does, and Inspect says what a build would write.

**rsync, lint, OCI validation, backend versions, errors.**  One command, or pure
functions of texts.

**Transports** (`remote/debugbridge`, `remote/ssh`, `remote/shellapi`).
Quoting, parsing, one process or call per command; state only in a cached client
ID.  They appear in the other models as commands that are answered, fail, or are lost.

How they interact: a preview calls build, then project.Service through a
DebugBridge client over an SSH or ShellAPI transport; build calls an image builder,
which calls the same transport and the blob cache; signature reads with lpk and
writes with archive; appstore clients take a token from auth.  No component
calls back into one above it, except progress callbacks.

## 2. Plan

The modules, in the order in which they were written, most important first.

| module | composes | run | proofs |
|---|---|---|---|
| BlobCache, ContentStore | BlobCache refines ContentStore | MCBlobCache | BlobCacheProofs |
| AppLifecycle, PreviewWorkflow | PreviewWorkflow extends AppLifecycle | MCPreviewWorkflow | PreviewWorkflowProofs |
| PipeUpload, Publish | Publish extends PipeUpload | MCPublish | AppStoreProofs |
| CopyImage | | MCCopyImage, MCCopyImageTimeout | AppStoreProofs |
| RemoteImageBuild | instantiates ContentStore as its cache | MCRemoteImageBuild | RemoteImageBuildProofs |
| BuildContext | MCRemoteImageBuild puts it beside RemoteImageBuild | MCRemoteImageBuild | RemoteImageBuildProofs |
| FileReplace, AtomicFile | FileReplace refines AtomicFile | MCFileReplace | PackReaderProofs |
| PackReader | extends FileReplace | MCPackReader | PackReaderProofs |
| LocalImageBuild | build with the local image builder and the archive conversion | MCLocalImageBuild | LocalImageBuildProofs |
| Archive, ArchivePaths | Archive extends ArchivePaths | MCArchive | ArchiveProofs |
| ManifestText, ManifestBuild, ManifestDocument | ManifestBuild extends ManifestText; MCManifest puts both beside each other | MCManifest, MCManifestLost | ManifestProofs (extends ArchiveProofs) |

What would come next: an abstract artifact whose owner closes it once, which both image
builders and build would refine; the ignore file of two syncs at once; the
collection of project files (`build/collect.go`).

## 3. The modules and the code

Common conventions.  An action is one system call, command or request together with the local code up
to the next one.  Comments name the function an action
stands for; PROJECT.json's `map` has the lines.  A definition whose comment begins
with "Mutant of" is a plausible wrong form of the definition after it: no
specification uses it; it is there to show that the properties can fail.
Variables marked "history" are read by properties only.

**BlobCache** (`remote/blobcache/cache.go`).  Files are inodes; `dir` is the directory
in memory, `disk` what a power loss leaves of it, `synced` the fsynced inodes.
`Put`, `PutFile`, `ImportOCI`, `CopyTo` and `Has` begin calls.
`PutStart .. Rename` are the steps of `put` and `verifyExisting`; `OpenLstat`,
`OpenFile` and `Read` those of `Open` and `CopyTo`.  `Cancelled` and `IOError`
leave from any of them through `Fail`, the deferred cleanup.  `Crash`,
`PowerLoss`, `Evict`, `Replace` and `Damage` are the environment.
**ContentStore** is what the cache promises: blobs are added whole, confirmed,
and lost only to the environment.

**AppLifecycle** (`project/deploy.go`, `lifecycle.go`, `wait.go`).  The box has
`status`, `goal`, `pkg`, `devid`; `Take` is a command's effect, `Follow` the box
doing what it was told, `orphans` the commands whose sender gave up (`GiveUp`)
and that are taken later (`TakeOrphan`) or never (`LoseOrphan`).  A client's `pc` is the
next command of its call: `BackendInfo`, `Install`, `SyncDevID`, `DeployInfo`;
`Look`, `Pause`, `Resume`, `UninstallApp`; and the polling loop `Poll`,
`IsDevshell`, `Deadline`, `Sleep` with `Expire` as its deadline.  `version` is
the backend's: before LPKV2 (Deploy refuses), before 1.0.4 (SyncDevID waits for
the container), or later.

**PreviewWorkflow** (`workflow/project/workflow.go`).  Extends AppLifecycle:
`stage` and `artifact` of each runner; the stages "deploying" and "starting" are
calls of the service, step by step, on the box other runners and clients command.
`End` is the deferred removal of the temporary LPK.

**PipeUpload** (`project/copy.go` CopyTo, `appstore/publish.go` uploadLPK,
`appstore/apk.go` TriggerAPK).  One model with `use` for the three callers:
`Read`, `Transfer`, `Refused` are the goroutine, `Receive` and `StopEarly` the
receiver, `Start`, `Answered`, `Join` the caller, `CloseBody` the HTTP
transport closing the request's body.  CopyTo's tar gets its trailer even after some errors (the deferred
`tar.Writer.Close`), which `Break` keeps.

**Publish** (`appstore/publish.go`).  Extends PipeUpload: `Spool`, `Precheck`, `Check`, `Create`,
`Uploaded` and `Review` are the steps of Publish, `Stream` the steps of PipeUpload in the middle of
them, `Trouble` a step that fails, `End` the return with its deferred removal of the work directory.
`upload` is the platform's answer to the upload, which names a package and (as `pkg_path`, `pkg_hash` and version) a
file; `Accepted` is what the code asks of it: the package has to be the prechecked one, the file only has to be named.
The platform is `apps` and `reviews`, and `Others` are its other clients.

**CopyImage** (`appstore/images.go`).  `StartCopy`, `Progress`, `Inventory`,
`Sleep` are the polling loop; `RequestFails` a lost or refused request;
`CopyInterrupted` the end of the context; `Retain` and `Completed` the treatment of
layers that the last answer left out; `Candidates` the search of the inventory when the answer
does not name the copy.  The platform is `job` and `stored`.

**RemoteImageBuild** (`image/buildpack/builder.go`, `materialize.go`).  `Info`,
`BuildPack`, `PackImagesManifest` are commands; `Has`, `BlobCheck`, `BlobGet`,
`Put`, `CopyTo` the loops over blobs; `Validate` and `Close` the artifact's end.
The cache is ContentStore's, which BlobCache implements.

**BuildContext** (`image/buildpack/context.go`).  One context.  `ReadDockerfile`, `SelectSources`, `ReadDockerignore`
are what collectContextPaths knows before it walks, `List` the walk, one directory at a time, `Create`, `WriteHeader`,
`CopyBytes`, `Finish` the TAR; each may fail (`FailContext`).  `Joined`, `SourcesOf`, `Matches` and `Ignored` are
the rules of Dockerfiles and of .dockerignore on paths that are sequences of names.  `Edit` is the user.

**LocalImageBuild** (`build/build.go`, `image/dockerlocal`, `image/dockerarchive/convert.go`).
One build: `Stage` makes the staging directory; `EngineBuild`, `Inspect` and `InspectBase` are the
docker commands of `CLIEngine.Build` for one entry, `Save` the archive of all images; `Extract` and
`Convert` are dockerarchive.Convert, `LockOf` and `Embedded` what it writes into images.lock;
`RemoveImage` the deferred removals; `Adopt` and `Write` the caller.  `refs` are the images the builder
knows it has to remove: an image enters it one command after it exists.  `Meddle` is everybody else in the local
Docker.  An image is the sequence of its layers' diff IDs; the version BuildKit finds
under the base image's name is any, as the tag may be another by the time it is inspected.

**FileReplace** (`archive.WriteFileAtomic`, `signature.SignFile`,
`signature.writeFileAtomic`, `tokenfile.Store`).  One file of one `kind`.  The
four functions do the same steps, `Create, Write, Sync, Chmod, Rename`, in orders
that `After` gives, and look at their context after the steps `Looks` gives.
SignFile opens its source first and writes the source's package signed;
Load and Delete read and remove.  **AtomicFile** is the promise: one step changes
the file, and it is the step in which a call succeeds.

**PackReader** (`lpk/reader.go`).  Extends FileReplace with a reader opened on that
file: `Lock` and `ReadDocument` are `manifestDocument` and `packageDocument`, `Got` the steps of
EffectiveManifest, `Keep` what the caches keep.

**Archive** (`archive/reader.go`, `writer.go`, `extract.go`).  A container is a sequence of entries;
the destination is a tree of names (`tree`) and of the files they name (`disk`), so that hard links
share.  `Walk`, `Pack` and `Close` are Write; `Open` and `List` the limits; `Extract` every check before
the first change, then `MakeDirectory`, `WriteRegular`, `MakeHardlink`, `MakeSymlink`,
`ChmodDirectory` and `Finish` in the order of the code, each of which may fail (`Cancel` before
any).  **ArchivePaths** has the lexical rules of names (path.Clean, backslashes) and a reference that
walks a name with a depth counter.

**ManifestText** (`manifest/preprocess.go`, `template.go`, `summary.go`).  A text is a sequence of
lines of six kinds.  `PreprocessLine` is the loop of build directives; `Structure`, `DepthBelow`
and `ScalarAt` what Analyze and StaticScalar make of actions, for which a mapping stands on the line of its first
field; `Identity` what a summary resolves, which is a string (`Text`: a scalar like 42 is none).
The references below them match directives by counting and render a template in every environment: `Certain` is a value
that is shown, together with the mapping it is in, whatever the conditions are.

**ManifestBuild** (`build/build.go`, `metadata.go`, `project_config.go`, `manifest/package_info.go`).
One build: `ResolveConfig`, `ReadManifest`, `ApplyOverrides`, `CheckMetadata`, `BuildImages`, `Stage`,
`Write` are the parts of prepare and Build; `LoadEffective`, `Split`, `RemoveTopLevelFields`,
`RewriteVersion` the operations on documents and on text, `Decodes` the typed decode that a build makes and Inspect does not;
`Inspect` is project.Inspect of the same project, `Reads` the overrides it can take.

**ManifestDocument** (`manifest/document.go`).  A heap of nodes with anchors and aliases; `SetAt`,
`DeleteAt`, `SplitDocument` with `LocalizeAliases` after them.  What a document says
is read off its text by the names in it (`Ways`), not off its pointers.

## 4. What the runs show

| run | question |
|---|---|
| MCBlobCache | With two callers, a crash or power loss and a blob somebody changed: do names keep whole contents, does what was acknowledged stay, are unhashed reads whole, does a put hash what it vouches for, is nothing left, and does the cache implement ContentStore? |
| MCPreviewWorkflow | A preview beside a client that deploys, starts, stops or waits for the same application, over three generations of backends, with a lost command: what do successful calls and runs guarantee, what is sent, what is left, and does every run and every call end, whatever the box does? |
| MCPublish | The three streams, and a publication that is tried twice: success, truncated streams, what is put up for review, whether a failed publication can be repeated, termination. |
| MCCopyImage | Two callers, one image, two platforms: what does success name and report; does a call with a timeout return? |
| MCCopyImageTimeout | The first disagreement, below. |
| MCRemoteImageBuild | Two builds sharing a layer: whole artifacts, cleanup, no interference.  Contexts of one image, with a file edited while they are made: what is in them? |
| MCLocalImageBuild | Two images, a base image that moves, failing steps and removals: can every layer of the package be had, and what is left? |
| MCFileReplace | Two callers, three calls, a crash: whole files, one-step changes. |
| MCPackReader | Two goroutines on a reader whose file is replaced: one version, one reading, errors kept. |
| MCArchive | Containers of up to three entries, extracted twice into new and used directories with failures anywhere; file systems that are written and extracted again; sizes at the limits. |
| MCManifest | Projects with up to three lines or blocks between their fields are inspected and built; documents with aliases are edited twice and divided. |
| MCManifestLost | The second disagreement, below. |

All properties hold except two.  `TimeoutIsNotCancellation`: README.md:931 of the
repository says that an image copy that exceeds its timeout is
`DEADLINE_EXCEEDED`; `CopyImage` derives its context from the timeout and reports
every end of that context as `CANCELLED` (`appstore/images.go:82`), so that a caller cannot tell
the two apart.  (`project/wait.go`, by contrast, keeps them apart.)
`SourcePreserved`: `manifest/package_info.go:24` says that the static fields are stored in
package.yml for LPK v2; the build of a templated manifest without a package.yml rebuilds them from the
package, the version and the five texts (`build/metadata.go:67`) and then removes all static fields from the text
(`build/build.go:297`), so that a minimum system version that the manifest declares outside of any branch is in neither
file of the package.  The same holds in the code for `unsupported_platforms` and `locales`; name, description, author, license
and homepage are kept.

Behaviours the models show and that a user of the library should know, though no document promises
otherwise.  A property that has to exclude one names it.

- Two clients who deploy at the same time can leave one's dev.id on the other's package
  (`DeployComplete` excludes `overlap`); Stop on a starting application does nothing.
- A crash leaves temporaries nobody removes.  A document's first error, a cancelled context included, is
  kept by an `lpk.Reader` for ever (`ReadOnce`).  SignFile overwrites a package that was replaced while it signed.
- An image that `docker buildx build` has loaded is known to the local builder only after two
  inspections (`image/dockerlocal/cli.go:50`, `builder.go:75`), and stays in the local Docker when one of them
  fails, although `docs/superpowers/plans/2026-07-10-lpk-milestone-2-local-images.md:117` has temporary images
  removed on every exit path.
- A build context is not quite what Docker would send, although
  `docs/superpowers/specs/2026-07-10-lpk-lifecycle-library-design.md:740` has it made "using Docker ignore behavior":
  a rule of one name leaves out that name at every depth (`Speaks`); a rule with a `*` that matches a directory does not
  leave out what is in it; a source with a `*` that matches a directory takes it without what is in it, and a source that is `/`
  alone, which would be the whole context, is none (`Matches`, `IsSource`; of others the leading `/` is dropped, `Source`).  A context directory that is a link has nothing but the Dockerfile (`linked`).
- Publish drops its result when a step after the creation fails, so that a caller does not learn
  that the application was created; the next Publish finds it there and goes on.
- Extraction into a used directory writes through hard links that are there (`SharedBefore`), and fails on
  files it may not write, which its own earlier extraction may have made; the entry "." sorts with the directories in it
  when modes are set (`Coherent`).
- An action in a comment behind a field counts when actions are balanced and not when the depth of lines is taken
  (`TailActions`); a line with an action or a comment behind a removed static field goes with it, as does the action in
  the comment of a `version:` line that VersionOverride rewrites (`Swallows`, `ActionsLost`); a templated v1 manifest without a plain `version:` line keeps its version in spite of
  VersionOverride; `validateTemplateImageBuild` compares a target with "application" that summaries
  call "application.image" (`build/metadata.go:92`).
- Inspect and a build disagree in four ways, which `InspectAgrees` names.  Inspect refuses a package.yml with an action
  anywhere in it (`project/inspect.go:152`), an override that is no string (`project/inspect.go:356`), and a version or subdomain that is
  a number (`version: 1.0`, `manifest/summary.go:420`); a build takes them all.  A build refuses a field that cannot be decoded
  (`services: a`, `manifest/package_info.go:198`), which Inspect never decodes.
- The word of the platform is taken for the file under review: an answer to the upload that names another address, hash or version is put up
  for review as it comes (`appstore/publish.go:151`; `ReviewedIsPrechecked` allows `Foreign`).
- An override of a field that is not static (`services`) goes to package.yml if the project has one, or else to a plain manifest; of a
  templated one the text is packaged, which it does not change.
- A name or version that is a number is not in the package.yml that is made for a templated manifest, whose summary has strings only
  (`DeclaredValue`).  The subdomain of a templated manifest is not found for `${...}` when the first line of its `application`
  is in a branch, even if the subdomain itself is in none (`manifest/template.go:376`, `StaticSound`).
- SplitEffective sorts the static fields, so that an alias may get ahead of its anchor (`Overtakes`).

Every property has a mutant in PROJECT.json: a wrong form of one definition with
which TLC finds the property violated under the same configuration.

## 5. Bounds

Every bound is a constant that starts with `Max`, and stands in a guard of the
action that counts.

- BlobCache: two callers are enough for each pair of conflicting steps;
  two digests and a layout with a wrong second blob separate "my
  digest" from "another"; four inodes are two names and two temporaries; one crash and one tampering
  each reach every step.  Two calls are a pair that conflicts, or a put and what follows it; a call
  is four to seven steps, and the theorems have no bounds.
- PreviewWorkflow: one preview (two calls of the service) beside a client with one direct call of any kind, one lost
  command or interruption, three starts (`MaxRuns`), three kinds of backend: each pair of a stage and a command of
  another client meets, and a lost command reaches each of them.
- PipeUpload and Publish: three chunks: first, middle, last; a publication and its repetition, one trouble
  that the platform or the network makes, one change by another client; every request.
- CopyImage: one image, two platforms, one layer, one fault: the search by image alone needs two platforms.
- RemoteImageBuild: two images that share one blob, one fault, one loss.
- BuildContext: a project of two directories, three files and perhaps a link, beside the toolkit's own cache, with five Dockerfiles (the whole directory, a directory, a
  deep file in a continued line, a source with a leading `/`, names with `*`, a source that escapes), two .dockerignore files or none (one lets a path below what
  it leaves out), an inline Dockerfile and a linked directory; one edit, which puts any of seven nodes at any path or removes
  what is there.  The parts of `ContextIInv` hold with two edits as well, and the theorem has no bound.
- LocalImageBuild: two images on three versions of one base: one image repeats a layer of its
  base, one has the layers of a later version, and an unpublished version has those of a published
  one; one failing step, one failing removal, two moves of others.
- FileReplace: two callers and three calls, so that a third meets what two racing
  ones left; four inodes (name, two temporaries, one an open handle or a power loss keeps).
- PackReader: one replacing caller with two calls, a package of each layout (the
  V2 one without manifest.yml), two goroutines with two calls, one failed read, one crash.
- Archive: up to three of twelve entries in any order, which is a parent, a child and a link, or two links one of
  which goes through the other; a new destination and one with a hard link, a directory and a link that leads out; entries that
  have to be refused, before and after one that need not; sizes around three sets of limits with a largest
  integer of 7; two extractions, one change of a source.
- ManifestBuild: up to two of fifteen kinds of lines or blocks, and up to three of the five that make branches, at any
  two places between the fields of a valid manifest, under eight requests, and one of them with an action in package.yml or in an override; texts of up to three of nine directives, of
  up to four of five, and these in a block; blocks that begin or end between the application and its subdomain, or around the
  application's first line; and strings, numbers and mappings as values of each field, with overrides and package.yml of such values (139,714 states).
- ManifestDocument: three fields, each a scalar, an alias or a mapping with one field, with anchors of two names, in three orders (each field in each place, each two in both orders), two edits.

Symmetry is used where it is sound, on model values that no property
singles out, in runs without liveness.

## 6. Fairness

Only for liveness (`FairSpec`, `FairPreviewSpec`, `FairPublishSpec`, `FairCopySpec`), and weak.

- A caller's next step is taken: commands are answered or fail, reads and sleeps
  end.  Go schedules runnable goroutines, and every command runs under a context and a
  transport that ends.
- A deadline that was set passes (`Expire`).  A request of a publication is answered or fails.
- The receiver of a stream reads on unless it stops, and net/http closes a request's body.
- Never assumed: that the box follows a command, that the platform finishes a copy, that a lost
  command is taken, that a context is cancelled.  `TimedCallsReturn` is
  stated for calls with a timeout only, because a copy without one may poll for ever.
- A source that blocks in Read for ever (the caller's own reader in `appstore/apk.go`)
  is excluded: nothing in the code could interrupt it.

## 7. What the models assume of the outside

The box takes a command at once and follows it in its own time; Install makes a
running application start again; an application does not stop by itself
(it may fail to start); before 1.0.4, dev.id is
written into a running container only.  The platform keeps a finished copy;
callers of one image and platform share a job; it refuses to create an application that is there.  The file system renames
atomically, an open file keeps its bytes when another is renamed over its name, fsync makes
a file's bytes durable, and a directory that was not fsynced may come back
in an earlier state; file modes are not lost.  Other programs may change the blob cache directory and the local Docker, and nothing else.
BuildKit does not load an image after its command has been killed.
Extraction runs as an ordinary user, whom modes bind, under an os.Root; text/template shows what a branch that is taken has.
Everything of this kind is marked external in the `map`.

## 8. Proofs

tlapm checks eight modules of theorems, without bounds on any constant (any callers, clients, builds, contents
and limits), from the named ASSUMEs of the modules, which TLC evaluates.  Most say what bounds and
model values are: that a bound is a number, that nobody is no client, that the mark of no file is no package's
bytes (`ReaderAssumption`), that the names the modules write out are strings (`LiteralsAssumption`, `PathsAssumption`, `SourcesAssumption`, `WordsAssumption`:
the provers do not know it of literals).  Some say that an input is one the program can be given: containers, sources and trees
that are well-formed (`ContainersAssumption`, `TreesAssumption`: names are sequences, a directory is above what is in it; nothing
of what extraction checks; `WalkAssumption`: fs.WalkDir, which finds the entries of a source, finds a name once and what is in a directory under its name; `SizesAssumption`: limits are positive, as `normalizeLimits` makes them, and sizes fit their integers), images that have layers (`ImagesAssumption`), entries that image.Normalize lets through
(`ContextsAssumption`), and projects whose texts are sequences of lines, in which what has to be a text is no mapping, and whose package.yml is a document (`ProjectsAssumption`; the decode that refuses others is not modelled).  Each module shows that an invariant is inductive (one lemma
per action), from which the properties of the runs follow.  A component and the one that extends it are proved in one module.

**BlobCacheProofs.**  `IInv` is inductive (`Init => IInv`, one lemma per action, `Invariance`).
CacheIntegrity alone is not: a rename is
harmless only because the temporary is whole, hashed and fsynced (`TempsWhole`)
and nobody else's (`TempsPrivate`); a power loss is harmless
only because the entry on disk is sound as well (`NamedSound`); CopyTo's result is whole only
because the open file had the name once (`FdsSound`, which also gives `AckedStays` in the
step in which a put confirms an existing file).  `CallsTyped` ties a call's place to its
operation.  From it follow the theorems `TypeCorrect`, `BlobsIntact`,
`AckedBlobsStay`, `ReadersGetWholeBlobs`, `TempsAreRemoved`, the action property `PutsAreHashed`, and
the refinement `CacheImplementsStore`.

**AppStoreProofs.**  Of PipeUpload: `IInv` says that made and received pieces differ by the one in
the pipe (`InStep`), that the goroutine's error, its place and its end of the
pipe agree (`ErrorKept`), what an end of the stream proves (`EndKept`) and where the
call can be (`CallKept`).  `SuccessIsWhole`, `NoFalseEnd` and `Joined` need all
four, as success is decided two steps after the last piece has passed.
Of Publish, on top of that: `CallKnows` says what each stage has behind it (a call that
uploads has the clean package spooled, one that reviews has had it all taken and an answer that names its package) and `PlatformKnown` that, unless others
changed the platform, it is as the last request left it.  `OnlyPrecheckedIsReviewed` needs the first,
`PublicationCanBeRepeated` both.
Of CopyImage: what a finished call reports was stored when it learnt of it (`DoneIsStored`), which it may have learnt in three ways:
`OpenCalls` says what a call that goes on knows, `LayersKept` which layers it has kept from earlier answers, and `InventoryAfterEnd`
that the inventory is searched only when the platform has said that the copy is there.  `SuccessfulCopyExists` follows.

**PackReaderProofs.**  Of FileReplace: the file is whole (`FileWhole`) because a temporary is its caller's own (`TempsPrivate`) and
done when it gets its name (`TempsDone`: written, with its mode, fsynced, in the order of the call's kind, which
`InCall` keeps); `OpenWhole` is for what is still read after a rename.  `FileReplaceImplements` proves the
refinement of AtomicFile by the same parts: a rename writes the value of the call that succeeds with it.
Of PackReader, on top of that: the open file is of one package (`OpenPack`), what is
kept came of it (`KeptRight`), and a goroutine reads only what nobody has read (`Asking`).  The last gives
`DocumentsAreReadOnce`, together they give `ReaderAnswersRight`.

**PreviewWorkflowProofs.**  Of AppLifecycle: `CallShape` ties each call to the commands and waits it goes through.  Of a client whom nobody
disturbed, `CalmDeploy` and `CalmStop` say what the box was told and has become; `DevIdMeetsItsPackage` says the
same of a dev.id under way, whose sender may have failed; `RestartSawDown` that a restart which
waits for the application has either seen it down or up again.  From these: `DeployIsComplete`, `StopIsEffective`,
`RestartIsAFreshStart`, the last against any interference, orphaned commands included.
Of PreviewWorkflow: its steps are those of the service or leave the service alone, so that `LifecycleInv` carries
over (`ServiceInRuns`); `RunShape` says in which stages a run is in a call, and `ServesAlone` what the box has while nobody
else commands it, from the install to the start that was awaited (`PreviewsServe`).

**LocalImageBuildProofs.**  `BuildLeavesNothing` needs what the builder knows at each place (`Progressed`) and that the
deferred removals are half way (`Removed`).  `PackageHasItsLayers` needs that a layer which an artifact leaves to its base is one of the first
layers of the built image, and these the layers of a version that is published (`UpstreamIsPrefix`), for the result of every entry and, after the
conversion, for what the lock says (`Converted`).

**RemoteImageBuildProofs.**  Of RemoteImageBuild: `BuildSteps` says what a build has at each step.  `BuildsDoNotInterfere` is the deep one: while
nothing fails or is lost, every blob of a build's list is in the shared cache or still to be fetched, in the artifact or still
to be copied (`Accounted`), whatever the other builds add.
Of BuildContext: `ContextsAreExact` compares the TAR with a project that no longer exists when it is done.
A path nobody touched is as it was (`UntouchedStays`), and was looked up as it was (`SelectionKnown`); while the walk goes on, such a path, if it is
wanted, is selected or lies below a directory that is still to be read (`WalkComplete`), which is preserved because a directory's step hands the
path to the directory's child on the way to it (`ListKeeps`); and the TAR with what is still to be written is what was selected, in order (`TarSoFar`).

**ArchiveProofs.**  Five theorems, for containers of any length, destinations in any state and a failure anywhere.  For
`SuccessIsComplete` every entry that is finished is in place and stays so (`Placed`, `InPlace`): an entry's name
is no other's, regular files are written before there are links, so that a file that is written is new or was there before the call
(`NewNames`, `WrittenFile`), and modes are set last.  For `NothingElseTouched`, what was there is kept (`Kept`, `ContentsKept`) and what is
new leads to something that was asked for (`AddedOnly`).  For both, what extraction checks only by the letters of a cleaned name has
to hold of the name as it is walked: `CleanForm` says that a cleaned name begins with as many ".." as the walk of the name was
above its start at the deepest, from which `ValidNameStaysIn` and `ValidTargetStaysIn` follow.  For `LinksNeverLeave`, a link that passes the
checks climbs no higher than its own directory is deep and does not come down again before it climbs (`NewLinkIsModest`, `ModestKept`), and no walk over
such links goes out, however often links lead to links (`ModestStaysInside`).  That the destination's own links were of this kind is a hypothesis of
the property: one that was there before and leads out is followed, as the code checks the names of a container only.
`LimitsAreExact` compares the running sum of the code, in integers that wrap, with the sum of a set of sizes: the sum does not depend on the order
(`SumWithout`, `SumExists`), a declared size that is not above a limit has not wrapped (`DeclaredIsSize`), and entries admitted one after the other
are within the limits together (`ListedIsWithin`), since the code subtracts from the limit instead of adding to the sum.  What remains is that
limits and container stay what they were when the call was answered (`AdmissionOK`).
`NewDirectoriesSuffice` says of a run that each step is possible, which `Unhindered` collects for a destination that was empty.  The only names taken are on
the way to entries that were made (`OnTheWay`), what is not a directory is an entry that is finished (`EntriesApart`), and a directory is closed only once
its mode is set, the deepest first (`ClosedLast`, `DeepestFirst`).  So the way to the next entry can be walked
(`Passable`), its name is free (`NameIsFree`), a link's target is there (`TargetIsThere`) and what still gets a mode can be found (`StillSearchable`).
The round trip adds that the container written is what the walk found (`WrittenOK`, `ReadAsWritten`) and passes the checks of extraction (`WrittenIsExtractable`).

**ManifestProofs.**  It extends ArchiveProofs, for the lemmas on folds.  `StaticValuesSound` says that the values which StaticScalar takes out of a text that is never rendered are those in every rendering,
and that it finds all of these (a subdomain when the first line of its application is always shown).
Code and reference are folds of different shape: the code counts a depth that never goes below zero and leaves the else out of account, the reference
keeps a stack of branches that are taken or not.  In a text whose structure is right the depth is the number of open blocks
(`StructureEffect`, `DepthIsOpen`, `StackIsOpen`), so that a field at depth zero is rendered whatever the conditions are (`PlainIsShown`); and the outermost
block is hidden under one of the two outcomes of its condition (`FirstFrame`), so that a field which is always rendered has depth zero
(`SeenOnce`, `ScalarsAreCertain`).  `PreprocessLines`: what the build directives leave is a text again.
`DirectivesAreExact` is about the build directives, for any text, conditions and included files.  The loop keeps a stack of frames, with whether the branch is taken and
whether all around it are; the reference looks, for each line, for the ifs before it whose end comes later.  Between them is the depth of each line,
ifs less ends (`IsDepth`, `DepthExists`): a block is open as long as the depth does not fall below its own (`OpenedUntilEnd`), and an else
belongs to the open block of its depth (`ElseOfOpened`).  The frames are those of the open blocks (`StackSays`), which each kind of line keeps so
(`LineKeeps`), and the top one is active exactly when all branches around the line are taken (`LiveTo`).  From this follow that the loop refuses
exactly what is not balanced (`WellFormedLines`) and that it leaves the lines that count, in order, each include replaced by its
file (`FlattenRuns`, `PartsAreExpanded`).
`PackagesDeclare` follows the metadata of any project through a build.  Positions in a text shift whenever a field is removed, set or added, so that
documents are compared by what is kept of them: which lines are kept, in order, decides what a document is (`LinesKeeps`, `KeepsOnce`, `SameLines`); lines kept
with the field they are of are a document again (`LinesAreDoc`), and every operation of a document is such a selection (`Filtered`), a sequence of two of
them (`JoinedFacts`) or a change of one value (`WithFieldChanges`).  So each static field can be followed by its value alone and all others as one document that stays
(`OverriddenIs`, `MergedIs`); the invariant (`PackageIInv`) says what the project's files were when the build read them and that the tree is made of
these.  A templated manifest adds that its projection has the identities that were found without rendering (`CompatibleIs`), which are the strings among those of every rendering
by `ScalarsAreCertain`.
`InspectionsAgree` sets project.Inspect, which never makes a document, against the build, which does.  In a text without an action every line has depth zero
(`PlainEverywhere`), so that a summary finds what its document says (`PlainIdentity`, over the places of a document's lines in
its text, `DocumentDepicts`); this needs that no text is a mapping, which build directives keep (`PreprocessCopies`).  The subdomain takes part neither in
overrides nor in the exchange of static fields (`SubdomainFiltered`, `SubdomainJoined`).  The invariant (`InspectIInv`) adds to `PackageIInv` what
a build that was refused or accepted has shown (`SummaryIs`).
`PackagesRunLikeSource` compares what is packaged of a template with its source under every set of conditions.  Without positions again: the lines that are removed
are exactly those after a static start and before the next one (`RemovalIs`, over the steps of the loop).  Unless an action is lost with them (`Swallows`), none
of them opens, turns or ends a block, so the blocks around each line that is kept are the same before and after (`KeptStacks`), and so is the field it belongs to
(`KeptOwners`); what is shown of the rest is then the same lines in the same order (`KeptResidue`), with images pinned too, which
changes no owner and no action (`PinnedRemoval`).  In a package of version 1 the line of the version has another value, which is one of the static fields (`ShapeResidue`).

Two limits of the provers were met, and passed.  A fold or a recursive function can be reasoned about by induction if
the property is given as a set of numbers rather than as an operator (`SetInduction`, which is proved from what is known of intervals); `FoldExists` and
`FoldRuns` show with it that FoldLeft goes through a sequence from the front, on which `CleanForm` rests.  It is long-winded, and was done where a
theorem needed it.

Only model-checked:
- every liveness property (`CallsReturn`, `RunsEnd` and the like): fairness and ENABLED are out of the provers' reach;
- of manifests, `EditsAsMeant`, which reads a document by paths of any length, by recursion over it.


## 9. Not modelled

- ZIP, TAR, YAML, JSON, PEM and signature formats: text and library code.
- Lint rules, package inspection, the aliases and tags of image configurations, the comparison of versions: pure functions, better tested.
- Of manifests: routes, services and the normalisation of images in summaries; `name` stands for the five textual
  static fields, which are treated alike.  Of builds: packages without a manifest (resources only), typed metadata
  beside package.yml, the collection of project files, the passes of build scripts and environments.
- `project` Exec, Logs, Docker; official, private and media clients of
  the store, application state, personal tokens: one command or request and its decoding.
- rsync: one command.  Two syncs that start at once may run one of them on an ignore file that is not written yet
  (`project/rsync/sync.go:125`); what is then sent is decided by rsync.
- A read of the status between the answer of Resume and the start of the application (`project/wait.go:33`): it
  depends on what the box promises, which the repository does not say.
- SSH, ShellAPI and DebugBridge transports: their quoting and parsing, and a client ID that is cached.  The
  limit on kept command output (`remote/ssh/runner.go:151`) is text handling of the callers.
- Errors' types and wording, except where a property is about a code.
- Examples, tests, generated gRPC code and vendored data.
