---------------------------- MODULE ManifestBuild ----------------------------
(***************************************************************************)
(* build.Build and BuildFile (package build: project_config.go, build.go,  *)
(* metadata.go) up to the package that lpk.Write encodes: the manifest is   *)
(* preprocessed and analyzed, the metadata of package.yml or of the         *)
(* manifest is overridden, checked and staged in the layout it needs.  A    *)
(* template is never rendered.  manifest.LoadEffective and SplitEffective   *)
(* (package_info.go), lpk's validation and Reader.EffectiveManifest, and    *)
(* project.Inspect's view of the same files are the operators they need.    *)
(*                                                                         *)
(* A document is a sequence of field lines.  The build script, the image    *)
(* builder and the collected content are external: they succeed or fail.    *)
(***************************************************************************)
EXTENDS ManifestText

CONSTANT Projects   \* what is on disk and in the request, see IsProject

NoFile == <<>>

(* The fields of StaticPackageFields; name stands for the textual ones that  *)
(* are treated alike (name, description, author, license, homepage), and     *)
(* services for the other fields that an override may have.                 *)
StaticPackageFields == <<"package", "version", "name", "min_os_version", "locales">>
Static == ToSet(StaticPackageFields)
Overridable == Static \union {"services"}

(* What the steps put into a document are strings, which provers do not know. *)
Words == Overridable \union {"application", "subdomain", "none", "map", "embed@digest", ""}

ASSUME WordsAssumption == Words \subseteq STRING

(* text and package: lzc-manifest.yml and the document of package.yml (or     *)
(* NoFile); holds and includes: the build conditions and the files of build  *)
(* directives; override: package_override with pkg_id and pkg_name, a value  *)
(* is as in a line and "" (null) deletes a field; version: VersionOverride,  *)
(* a string.                                                                *)
IsProject(p) ==
    /\ DOMAIN p = {"text", "package", "holds", "includes", "override", "version",
                   "forceV2", "images", "strict"}
    /\ p.text \in Seq(ManifestLine) /\ p.package \in Seq(ManifestLine)
    /\ \A i \in DOMAIN p.package : p.package[i].kind = "field" /\ p.package[i].key # ""
    /\ \A f \in DOMAIN p.includes : p.includes[f] \in Seq(ManifestLine)
    /\ DOMAIN p.override \subseteq Overridable /\ p.override \in [DOMAIN p.override -> STRING]
    /\ p.version \in STRING \ {"map", "number"}

ASSUME ProjectsAssumption == \A p \in Projects : IsProject(p)

VARIABLES
    project,    \* one of Projects
    phase,      \* the step of the build, or how it ended
    processed,  \* the manifest after its build directives
    templated,
    values,     \* static values for ${...} in lzc-build.yml
    document,   \* the metadata view of the manifest
    package,    \* package.yml
    staging,    \* the temporary tree, while there is one
    lpk         \* the package that was written

buildVars == <<project, phase, processed, templated, values, document, package, staging, lpk>>

-----------------------------------------------------------------------------
(* Documents                                                                *)

Field(key, val) == [kind |-> "field", key |-> key, val |-> val, ind |-> 0, act |-> "none"]
Child(key, val) == [Field(key, val) EXCEPT !.ind = 1]

Lines(text, kept) == FlattenSeq([i \in DOMAIN text |-> IF i \in kept THEN <<text[i]>> ELSE <<>>])

(* The first pair of a key and the lines of its value.                      *)
Pair(doc, key) ==
    LET first == {i \in Pairs(doc, 0, key) : \A j \in Pairs(doc, 0, key) : i <= j}
    IN  first \union {j \in DOMAIN doc : doc[j].ind = 1 /\ Owner(doc, j) \in first}

Has(doc, key) == Pairs(doc, 0, key) # {}

Value(doc, key) == IF Has(doc, key) THEN doc[Min(Pairs(doc, 0, key))].val ELSE ""

Without(doc, key) == Lines(doc, DOMAIN doc \ Pair(doc, key))

Apart(doc, fields) == Lines(doc, DOMAIN doc \ UNION {Pair(doc, f) : f \in fields})

WithoutStatic(doc) == Apart(doc, Static)

(* In the order of StaticPackageFields.                                      *)
StaticFields(doc) ==
    FlattenSeq([k \in DOMAIN StaticPackageFields |-> Lines(doc, Pair(doc, StaticPackageFields[k]))])

(* Document.Set of a scalar at a top-level key.                             *)
WithField(doc, key, val) ==
    IF ~Has(doc, key) THEN Append(doc, Field(key, val))
    ELSE LET at == Min(Pairs(doc, 0, key))
         IN  Lines([doc EXCEPT ![at].val = val], DOMAIN doc \ (Pair(doc, key) \ {at}))

NoDuplicates(doc) ==
    \A i \in DOMAIN doc : Cardinality(Pairs(doc, Owner(doc, i), doc[i].key)) = 1

(* What YAML sees of a manifest; an action in a value is a marker.           *)
DocumentOf(text) == Lines(text, {i \in DOMAIN text : HasKey(text[i])})

Subdomain == <<"application", "subdomain">>
ImagePath == <<"application", "image">>

(* The typed decode of Manifest and PackageInfo: a text is a scalar of any    *)
(* type, application and services and each of the services are mappings.    *)
Decodes(doc) ==
    LET rest   == WithoutStatic(doc)
        blocks == Pairs(rest, 0, "application") \union Pairs(rest, 0, "services")
        parts  == UNION {Below(rest, o) : o \in Pairs(rest, 0, "services")}
    IN  /\ \A f \in Static \ {"locales"} : Value(doc, f) # "map"
        /\ \A i \in blocks \union parts : rest[i].val \in {"map", ""}
        /\ \A i \in Occurrences(rest, Subdomain) \union Occurrences(rest, ImagePath) : rest[i].val # "map"

(* LoadEffective: the fields of package.yml, if there is one (file), take the *)
(* place of all static fields of the manifest, which must not have any when  *)
(* strict.  A package.yml that has no field left is still one.               *)
LoadEffective(doc, file, pack, strict) ==
    LET merged == IF ~file THEN doc
                  ELSE WithoutStatic(doc) \o StaticFields(pack)
    IN  [ok  |-> /\ strict /\ file => \A f \in Static : ~Has(doc, f)
                 /\ NoDuplicates(merged) /\ Decodes(merged),
         doc |-> merged]

(* SplitEffective without typed metadata.                                   *)
Split(doc) ==
    [manifest |-> WithoutStatic(doc), package |-> StaticFields(doc)]

(* compatibleTemplatedManifest: the identities a summary has.                *)
CompatFields == <<"package", "version", "name">>

Compatible(text) ==
    FlattenSeq([k \in DOMAIN CompatFields |->
        LET id == Identity(text, <<CompatFields[k]>>)
        IN  IF id = "" THEN <<>> ELSE <<Field(CompatFields[k], id)>>])
    \o <<Field("application", "map"), Child("subdomain", Identity(text, Subdomain))>>

-----------------------------------------------------------------------------
(* build/project_config.go                                                  *)

Source(p) == Preprocess(p.text, p.holds, p.includes)

(* loadStaticPackageValues, an error of the manifest or of package.yml ends   *)
(* ResolveConfig; a plain manifest is decoded into a map.                   *)
Resolves(p) ==
    LET source == Source(p)
    IN  /\ source.ok /\ Analyzes(source.out)
        /\ Templated(source.out) \/ NoDuplicates(DocumentOf(source.out))
        /\ p.package # NoFile => Parses(p.package) /\ NoDuplicates(p.package)

Names == {"package", "version", "name", "subdomain"}

StaticValues(p) ==
    LET text == Source(p).out
        path(n) == IF n = "subdomain" THEN Subdomain ELSE <<n>>
        scalar(doc, n) == IF Value(doc, n) = "map" THEN "" ELSE Value(doc, n)
        inText(n) == IF Templated(text) THEN StaticScalar(text, path(n)) ELSE scalar(text, n)
    IN  [n \in Names |-> IF Has(p.package, n) /\ Value(p.package, n) # "map"
                          THEN Value(p.package, n) ELSE inText(n)]

PredictLayout(p) ==
    IF p.forceV2 \/ p.package # NoFile \/ p.images \/ DOMAIN p.override # {} THEN "v2" ELSE "v1"

(* One field of package_override.                                           *)
WithOverride(doc, p, f) ==
    IF f \notin DOMAIN p.override THEN doc
    ELSE IF p.override[f] = "" THEN Without(doc, f) ELSE WithField(doc, f, p.override[f])

Configured(doc, p) ==
    WithOverride(FoldLeft(LAMBDA d, f : WithOverride(d, p, f), doc, StaticPackageFields), p, "services")

(* Mutant of Overridden: the version of the request is applied first. *)
OverriddenVersionFirst(doc, p) ==
    Configured(IF p.version = "" THEN doc ELSE WithField(doc, "version", p.version), p)

(* applyMetadataOverrides.                                                  *)
Overridden(doc, p) ==
    IF p.version = "" THEN Configured(doc, p) ELSE WithField(Configured(doc, p), "version", p.version)

(* validateTemplateImageBuild: an image that a template decides, or one of    *)
(* several, cannot be built.                                                *)
CanBuildImages(text) ==
    LET found == Occurrences(text, ImagePath)
    IN  Templated(text) => \A i \in found :
            /\ text[i].val # "expr"
            /\ text[i].val = "embed" => Plain(text, i) /\ Cardinality(found) = 1

-----------------------------------------------------------------------------
(* Staging (build.go, metadata.go)                                          *)

(* Mutant of RemoveTopLevelFields: the lines of a removed field stay. *)
RemoveTopLevelLines(text) ==
    SelectSeq(text, LAMBDA l : ~(l.ind = 0 /\ l.kind \in {"field", "tail"} /\ l.key \in Static))

(* removeTopLevelFields works on the lines of the source.                   *)
RemoveTopLevelFields(text) ==
    LET starts(l) == l.ind = 0 /\ l.key # "" /\ l.kind \in {"field", "tail"}
        step(r, l) ==
            LET skip == IF starts(l) THEN l.key \in Static ELSE r.skip
            IN  [skip |-> skip, out |-> IF skip THEN r.out ELSE Append(r.out, l)]
    IN  FoldLeft(step, [skip |-> FALSE, out |-> <<>>], text).out

(* rewriteTopLevelScalar of version: the first line that starts with it.     *)
VersionLines(text) ==
    {i \in DOMAIN text : text[i].kind \in {"field", "tail"} /\ text[i].ind = 0 /\ text[i].key = "version"}

RewriteVersion(text, version) ==
    IF VersionLines(text) = {} THEN text
    ELSE [text EXCEPT ![Min(VersionLines(text))] = Field("version", version)]

(* rewriteEmbeddedImages: wherever the text has the reference.              *)
Pinned(text) == [i \in DOMAIN text |-> IF text[i].val = "embed" THEN [text[i] EXCEPT !.val = "embed@digest"] ELSE text[i]]

(* Mutant of Staged: package.yml is made again from the fields that are known. *)
StagedSplit(p, text, doc, pack) ==
    IF PredictLayout(p) = "v1"
    THEN [layout   |-> "v1",
          package  |-> NoFile,
          manifest |-> IF ~templated THEN doc
                       ELSE IF p.version = "" THEN text ELSE RewriteVersion(text, p.version)]
    ELSE [layout   |-> "v2",
          package  |-> Split(doc).package,
          manifest |-> IF templated THEN RemoveTopLevelFields(text) ELSE Split(doc).manifest]

Staged(p, text, doc, pack) ==
    IF PredictLayout(p) = "v1"
    THEN [layout   |-> "v1",
          package  |-> NoFile,
          manifest |-> IF ~templated THEN doc
                       ELSE IF p.version = "" THEN text ELSE RewriteVersion(text, p.version)]
    ELSE [layout   |-> "v2",
          package  |-> IF p.package = NoFile THEN Split(doc).package ELSE pack,
          manifest |-> IF templated THEN RemoveTopLevelFields(text) ELSE Split(doc).manifest]

(* lpk.validateWriteRequest.  AllowManifestTemplate is what the build found.  *)
Writable(tree, strict) ==
    /\ Analyzes(tree.manifest)
    /\ IF Templated(tree.manifest) THEN templated
       ELSE tree.layout = "v2" /\ strict =>
              LoadEffective(DocumentOf(tree.manifest), TRUE, tree.package, TRUE).ok

-----------------------------------------------------------------------------
None == [layout |-> "none"]

BuildInit ==
    /\ project \in Projects
    /\ phase = "start"
    /\ processed = <<>> /\ templated = FALSE
    /\ values = [n \in Names |-> ""]
    /\ document = <<>> /\ package = NoFile
    /\ staging = None /\ lpk = None

(* The end of prepare on an error: its cleanup removes the temporary tree.   *)
End(how) == phase' = how /\ staging' = None

ResolveConfig ==
    /\ phase = "start"
    /\ IF Resolves(project)
       THEN phase' = "resolved" /\ values' = StaticValues(project) /\ UNCHANGED staging
       ELSE End("refused") /\ UNCHANGED values
    /\ UNCHANGED <<project, processed, templated, document, package, lpk>>

(* MkdirTemp, PreprocessFile, parseManifestForBuild, package.yml.           *)
ReadManifest ==
    /\ phase = "resolved"
    /\ LET text == Source(project).out
       IN  /\ processed' = text
           /\ templated' = Templated(text)
           /\ document' = IF Templated(text) THEN Compatible(text) ELSE DocumentOf(text)
    /\ package' = project.package
    /\ staging' = [layout |-> "empty"]
    /\ phase' = "read"
    /\ UNCHANGED <<project, values, lpk>>

(* applyMetadataOverrides to package.yml, or to the manifest without one.    *)
ApplyOverrides ==
    /\ phase = "read"
    /\ IF project.package = NoFile
       THEN document' = Overridden(document, project) /\ UNCHANGED package
       ELSE package' = Overridden(package, project) /\ UNCHANGED document
    /\ phase' = "overridden"
    /\ UNCHANGED <<project, processed, templated, values, staging, lpk>>

(* packageid.Valid: an action has braces and a number no letter.            *)
ValidID(id) == id \notin {"", "expr", "number"}

Declares(effective) ==
    /\ effective.ok
    /\ ValidID(Value(effective.doc, "package")) /\ Value(effective.doc, "version") # ""
    /\ \E i \in Occurrences(effective.doc, Subdomain) : effective.doc[i].val # ""

CheckMetadata ==
    /\ phase = "overridden"
    /\ IF Declares(LoadEffective(document, project.package # NoFile, package, FALSE))
       THEN phase' = "checked" /\ UNCHANGED staging
       ELSE End("refused")
    /\ UNCHANGED <<project, processed, templated, values, document, package, lpk>>

(* The image builder, its artifact and the copy of it, all external.        *)
BuildImages ==
    /\ phase = "checked"
    /\ \/ (project.images => CanBuildImages(processed)) /\ phase' = "imaged" /\ UNCHANGED staging
       \/ project.images /\ End("failed")
    /\ UNCHANGED <<project, processed, templated, values, document, package, lpk>>

Stage ==
    /\ phase = "imaged"
    /\ LET tree == Staged(project, processed, document, package)
       IN  staging' = IF project.images THEN [tree EXCEPT !.manifest = Pinned(@)] ELSE tree
    /\ phase' = "staged"
    /\ UNCHANGED <<project, processed, templated, values, document, package, lpk>>

(* lpk.Write or WriteFile; prepared.cleanup runs when Build returns.         *)
Write ==
    /\ phase = "staged"
    /\ \/ Writable(staging, project.strict) /\ End("done") /\ lpk' = staging
       \/ ~Writable(staging, project.strict) /\ End("failed") /\ UNCHANGED lpk
    /\ UNCHANGED <<project, processed, templated, values, document, package>>

BuildNext ==
    ResolveConfig \/ ReadManifest \/ ApplyOverrides \/ CheckMetadata \/ BuildImages \/ Stage \/ Write

BuildSpec == BuildInit /\ [][BuildNext]_buildVars

-----------------------------------------------------------------------------
(* project.Inspect of the same project                                      *)

(* setPackageSummaryField: an override of locales is a mapping, any other is  *)
(* a string.                                                                *)
Reads(p) ==
    \A f \in DOMAIN p.override :
      IF f = "locales" THEN p.override[f] \in {"map", ""} ELSE p.override[f] \notin {"map", "number"}

(* effectivePackageSummary: overrides replace what the summary of package.yml *)
(* or the manifest has, and VersionOverride replaces both.                  *)
EffectiveSummary(p, described) ==
    [f \in ToSet(CompatFields) |->
        IF f = "version" /\ p.version # "" THEN p.version
        ELSE IF f \in DOMAIN p.override THEN p.override[f]
        ELSE Identity(described, <<f>>)]

Inspect(p) ==
    LET text == Source(p).out
        seen == EffectiveSummary(p, IF p.package = NoFile THEN text ELSE p.package)
    IN  [ok |-> /\ Resolves(p)
                /\ ~Templated(p.package) /\ Reads(p)
                /\ ValidID(seen["package"]) /\ seen["version"] # ""
                /\ Identity(text, Subdomain) # "",
         package |-> seen["package"], version |-> seen["version"], name |-> seen["name"],
         layout  |-> PredictLayout(p)]

-----------------------------------------------------------------------------
(* Properties                                                               *)

TailActions(text) == \E i \in DOMAIN text : text[i].kind = "tail"

(* Build directives keep exactly the lines of the branches taken, and the     *)
(* files of includes in them, and a text is refused exactly when its         *)
(* directives do not nest, name a bad condition or include what cannot be.   *)
PreprocessExact ==
    LET p == project
    IN  phase \in {"refused", "resolved"} =>
          /\ Source(p).ok <=> WellFormed(p.text, p.holds, p.includes)
          /\ Source(p).ok => Source(p).out = Expanded(p.text, p.holds, p.includes)

(* The values that configuration may use are those that every rendering of   *)
(* the manifest has, as long as no action stands in a comment after a field; *)
(* a subdomain only if the application it is in always begins as it does.    *)
StaticSound ==
    LET text     == Source(project).out
        path(n)  == IF n = "subdomain" THEN Subdomain ELSE <<n>>
        blocks   == Pairs(text, 0, "application")
        below    == UNION {Below(text, o) : o \in blocks}
        found(n) == n = "subdomain" =>
                      Cardinality(blocks) = 1 /\ below # {} /\ Always(text, Min(below))
    IN  phase = "resolved" /\ project.package = NoFile /\ Templated(text) /\ ~TailActions(text) =>
          \A n \in Names : values[n] = IF found(n) THEN Certain(text, path(n)) ELSE ""

(* What the project declares of a field: the request, the configuration,     *)
(* package.yml or else the manifest, a templated one by its strings.        *)
DeclaredValue(f) ==
    IF f = "version" /\ project.version # "" THEN project.version
    ELSE IF f \in DOMAIN project.override THEN project.override[f]
    ELSE IF project.package # NoFile THEN Value(project.package, f)
    ELSE IF templated THEN Text(Certain(processed, <<f>>)) ELSE Value(processed, f)

(* The fields of a manifest that overrides are applied to.                  *)
Replaced == IF project.package = NoFile THEN DOMAIN project.override ELSE {}

Built(text) == IF project.images THEN Pinned(text) ELSE text

(* A package that was built reads back with the metadata that the project     *)
(* declares and the rest of its manifest; a templated one, when its          *)
(* projection can be decoded, with its identity.                            *)
PackageDeclares ==
    LET got == LoadEffective(DocumentOf(lpk.manifest), lpk.layout = "v2", lpk.package, TRUE)
    IN  lpk # None =>
          /\ ~templated =>
               /\ got.ok
               /\ \A f \in Static \union Replaced : Value(got.doc, f) = DeclaredValue(f)
               /\ Apart(got.doc, Static \union Replaced)
                    = Apart(DocumentOf(Built(processed)), Static \union Replaced)
          /\ templated /\ ~TailActions(processed) =>
               \A f \in ToSet(CompatFields) :
                 lpk.layout = "v2" => Value(lpk.package, f) = DeclaredValue(f)

(* What a rendering shows besides the static fields.                        *)
Residue(text, yes) ==
    LET static(i) == (IF text[i].ind = 0 THEN text[i].key ELSE text[Owner(text, i)].key) \in Static
        shown == {i \in Shown(text, yes) : ~static(i)}
    IN  [k \in DOMAIN Lines(text, shown) |-> LET l == Lines(text, shown)[k] IN <<l.key, l.val, l.ind>>]

(* A line with an action of its own is or follows a field that is removed.    *)
Swallows(text) ==
    \E i \in DOMAIN text : \E k \in i..Len(text) :
      /\ text[i].ind = 0 /\ text[i].key \in Static /\ text[i].kind \in {"field", "tail"}
      /\ text[k].kind \in {"control", "around", "tail"}
      /\ \A j \in i+1..k : ~(text[j].ind = 0 /\ text[j].key # "" /\ text[j].kind \in {"field", "tail"}
                             /\ text[j].key \notin Static)

(* What is done to the lines of the source removes an action: a static field  *)
(* is removed with it, or the line of the version is rewritten.             *)
ActionsLost(text) ==
    \/ lpk.layout = "v2" /\ Swallows(text)
    \/ /\ lpk.layout = "v1" /\ project.version # "" /\ VersionLines(text) # {}
       /\ text[Min(VersionLines(text))].kind = "tail"

(* A templated manifest is packaged such that it renders, in every            *)
(* environment, to what its source renders to apart from the static fields,  *)
(* unless an action is lost with the lines of one of those.                  *)
RunsLikeSource ==
    lpk # None /\ templated /\ ~ActionsLost(processed) =>
      \A yes \in SUBSET Conditions :
        Residue(lpk.manifest, yes)
          = Residue(Built(processed), yes)

(* What Inspect accepts, a build refuses only if a field has the wrong type.  *)
(* What a build takes, Inspect accepts unless package.yml has an action, an   *)
(* override is no string, or the version or the subdomain is not one; then   *)
(* both have the same package, version and layout, and the same name, of     *)
(* which Inspect sees a string only.                                        *)
InspectAgrees ==
    LET seen == Inspect(project)
        doc  == LoadEffective(document, project.package # NoFile, package, FALSE).doc
    IN  /\ phase = "refused" /\ seen.ok => ~Decodes(doc)
        /\ phase = "checked" =>
             seen.ok <=> /\ ~Templated(project.package) /\ Reads(project)
                         /\ Value(doc, "version") # "number"
                         /\ \A i \in Occurrences(doc, Subdomain) : doc[i].val # "number"
        /\ phase = "checked" /\ seen.ok =>
             /\ seen.package = Value(doc, "package") /\ seen.version = Value(doc, "version")
             /\ seen.name = Text(Value(doc, "name"))
        /\ lpk # None => seen.layout = lpk.layout

(* package_info.go:24: the static fields are stored in package.yml for LPK    *)
(* v2.  What every rendering of a source has is in the package that is made   *)
(* of it.                                                                   *)
SourcePreserved ==
    lpk # None /\ templated =>
      \A f \in Static : Text(Certain(processed, <<f>>)) # "" =>
        Has(lpk.package, f) \/ Has(DocumentOf(lpk.manifest), f)
=============================================================================
