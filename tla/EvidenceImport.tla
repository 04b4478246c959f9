--------------------------- MODULE EvidenceImport ---------------------------
(***************************************************************************)
(* compile_certification_integration_artifacts: the files of each lane's   *)
(* directory are classified and hashed one by one (artifact_import.rs),    *)
(* then the manifests are read that say what a file is, and a report binds *)
(* the digests (integration_import.rs).  The files may change meanwhile.   *)
(* A value that may be absent is a set of at most one element.             *)
(***************************************************************************)
EXTENDS SequencesExt

CONSTANTS Lanes,         \* ARTIFACT_ADAPTER_SPECS, in their order
          FileNames,     \* what is known of each path, in the order of paths
          Contents,      \* what each of them may contain
          FreezeTargets, \* FREEZE_TARGETS, the slots that a release freezes
          MaxImported,   \* MAX_IMPORTED_ARTIFACTS_PER_ADAPTER
          MaxFindings,   \* MAX_INTEGRATION_FINDINGS
          MaxChanges     \* bound: changes of files during a compilation

Optional(S) == \A x, y \in S : x = y

LaneShape == [id : STRING, extensions : SUBSET STRING]

(* `flaw': what rejects a file for its place in the tree; `slot', `field': *)
(* slot and bundle field that its lane gives it by default.                *)
FileShape(f) ==
  /\ Optional(f.lane) /\ f.lane \subseteq STRING
  /\ f.flaw \in {"none", "directory-depth-limit", "unsupported-file-type", "path-too-long"}
  /\ {f.private, f.manifest} \subseteq BOOLEAN
  /\ {f.name, f.id, f.extension} \subseteq STRING
  /\ Optional(f.slot) /\ Optional(f.field)

(* An entry names a file by its directory, or in the lane of its adapter.  *)
(* Nobody looks whether its slot is one that a release freezes.            *)
Entry(e) ==
  /\ {e.name, e.id} \subseteq STRING
  /\ \A option \in {e.directory, e.adapter, e.slot, e.field, e.expected} : Optional(option)
  /\ e.metadata \in BOOLEAN

(* `entries': the manifest the content is, if it parses as one; `large':   *)
(* above MAX_IMPORTED_ARTIFACT_BYTES, or for a manifest above its limit.   *)
Content(c) ==
  /\ c.digest \in STRING /\ c.large \in BOOLEAN
  /\ Optional(c.entries)
  /\ \A m \in c.entries : m \in Seq(Range(m)) /\ \A i \in DOMAIN m : Entry(m[i])

ASSUME ImportAssumption ==
  /\ Lanes \in Seq(LaneShape) /\ Lanes # <<>>
  /\ \A k, l \in DOMAIN Lanes : Lanes[k].id = Lanes[l].id => k = l
  /\ FileNames \in Seq(Range(FileNames))
  /\ \A f \in DOMAIN FileNames : FileShape(FileNames[f])
  /\ DOMAIN Contents = DOMAIN FileNames
  /\ \A f \in DOMAIN FileNames : \A c \in Contents[f] : Content(c)
  /\ {MaxImported, MaxFindings, MaxChanges} \subseteq Nat

Files   == DOMAIN FileNames
LaneIds == {Lanes[l].id : l \in DOMAIN Lanes}
Absent  == [digest |-> "absent", large |-> FALSE, entries |-> {}]
InLane(f, l) == FileNames[f].lane = {Lanes[l].id}

(***************************************************************************)
(* Classification.                                                         *)
(***************************************************************************)

(* classify_file, before it looks at the content; `full' when the lane has *)
(* imported as many files as it may.                                       *)
NameRejected(f, l, full) ==
  LET name == FileNames[f]
  IN  IF name.flaw # "none" THEN {name.flaw}
      ELSE IF full THEN {"adapter-file-count-limit"}
      ELSE IF name.private THEN {"private-key-material-not-accepted"}
      ELSE IF name.extension \notin Lanes[l].extensions THEN {"unsupported-extension"}
      ELSE {}

(* push_rejection_finding                                                  *)
Severity(reason) ==
  IF reason = "private-key-material-not-accepted" THEN "error" ELSE "warning"

(***************************************************************************)
(* The report.  An artifact is a file and the digest it was imported with, *)
(* a manifest a file and its entries.                                      *)
(***************************************************************************)

(* manifest_artifact_source_path                                           *)
Names(entry, f) ==
  /\ entry.name = FileNames[f].name
  /\ FileNames[f].lane # {}
  /\ FileNames[f].lane =
       IF entry.directory # {} THEN entry.directory ELSE entry.adapter \cap LaneIds

(* The entries of the manifests read, in the order of the manifests' paths *)
(* (load_integration_manifests sorts by them) and of each manifest.        *)
Entries(read) ==
  UNION {{[file |-> m.file, at |-> j, entry |-> m.entries[j]] : j \in DOMAIN m.entries} :
         m \in read}
Precedes(p, q) == p.file < q.file \/ (p.file = q.file /\ p.at < q.at)

(* The first entry for a file counts, the others are not looked at.        *)
EntryFor(f, entries) ==
  LET naming == {p \in entries : Names(p.entry, f)}
  IN  {p.entry : p \in {q \in naming : \A r \in naming : ~Precedes(r, q)}}

AdapterDiffers(f, entry) == entry.adapter # {} /\ entry.adapter # FileNames[f].lane

(* Mutant: a digest is compared only if the entry has metadata.            *)
DigestDiffers_NeedsMetadata(artifact, entry) ==
  entry.metadata /\ entry.expected # {} /\ entry.expected # {artifact.digest}

DigestDiffers(artifact, entry) ==
  entry.expected # {} /\ entry.expected # {artifact.digest}

(* normalize_artifact: the entry overrides what the lane gives.            *)
Normalized(artifact, entries) ==
  LET of == EntryFor(artifact.file, entries)
      meaning == IF of = {} THEN FileNames[artifact.file] ELSE CHOOSE e \in of : TRUE
  IN  [file |-> artifact.file, digest |-> artifact.digest,
       id |-> meaning.id, slot |-> meaning.slot, field |-> meaning.field]

Finding(holds, severity) == IF holds THEN <<severity>> ELSE <<>>

ArtifactFindings(artifact, entries) ==
  LET of == EntryFor(artifact.file, entries)
  IN  Finding(\E e \in of : AdapterDiffers(artifact.file, e), "error")
      \o Finding(\E e \in of : DigestDiffers(artifact, e), "error")
      \o Finding(\E e \in of : ~e.metadata, "warning")

Errors(found) == [i \in 1..Cardinality(found) |-> "error"]

(* An entry of any manifest that no imported file matches.                 *)
Missing(artifacts, entries) ==
  {p \in entries : \A i \in DOMAIN artifacts : ~Names(p.entry, artifacts[i].file)}

(* bundle_bindings_from_normalized: what is bound, and each artifact whose *)
(* name one before it has with another digest.                             *)
Bound(normalized) ==
  {i \in DOMAIN normalized : normalized[i].slot # {} \/ normalized[i].field # {}}
Duplicates(normalized) ==
  {j \in Bound(normalized) : \E i \in Bound(normalized) :
     /\ i < j /\ normalized[i].id = normalized[j].id
     /\ normalized[i].digest # normalized[j].digest}

Claims(normalized, slot) == {n \in Range(normalized) : n.slot = {slot}}

(* Mutant: a later artifact takes the slot.                                *)
Frozen_Last(normalized, slot) ==
  LET claims == Claims(normalized, slot)
  IN  {[file |-> n.file, digest |-> n.digest] :
         n \in {m \in claims : \A o \in claims : m.file >= o.file}}

(* release_freeze_bindings: of several, the first path.                    *)
Frozen(normalized, slot) ==
  LET claims == Claims(normalized, slot)
  IN  {[file |-> n.file, digest |-> n.digest] :
         n \in {m \in claims : \A o \in claims : m.file <= o.file}}

(* Other slots are pending, and what claims an unknown one is not frozen.  *)
SlotsOf(normalized) == FreezeTargets \cap UNION {n.slot : n \in Range(normalized)}

(* report_status                                                           *)
Status(findings, imported) ==
  IF "error" \in Range(findings) THEN "fail"
  ELSE IF imported = <<>> THEN "missing"
  ELSE IF "warning" \in Range(findings) THEN "warn" ELSE "pass_unreviewed"

(* push_finding drops what is found when the report is full.               *)
Kept(findings) == SubSeq(findings, 1, IF Len(findings) < MaxFindings THEN Len(findings) ELSE MaxFindings)

(***************************************************************************)
(* The compilation.                                                        *)
(***************************************************************************)
VARIABLES disk,       \* what each file contains
          step,       \* what the compilation does next
          lane,       \* the lane it is at
          queue,      \* files listed and not yet classified or read
          imported, rejected,   \* what became of the files of the lanes
          manifests,  \* the manifests read
          broken,     \* findings about manifests
          report,     \* of this compilation, once it has returned
          changes     \* changes since the compilation began
vars == <<disk, step, lane, queue, imported, rejected, manifests, broken, report, changes>>
work == <<lane, queue, imported, rejected, manifests, broken>>

NoReport == [status |-> "none", frozen |-> <<>>, bound |-> {}, found |-> 0]

(* The manifest of the root, and those of the lanes.                       *)
ManifestFiles ==
  {f \in Files : /\ FileNames[f].manifest
                 /\ FileNames[f].lane = {} \/ \E l \in DOMAIN Lanes : InLane(f, l)}

(* The root comes before the lanes, a lane's files in the order of paths.  *)
Ahead(f, g) ==
  \/ FileNames[f].lane = {} /\ FileNames[g].lane # {}
  \/ \E k, l \in DOMAIN Lanes : InLane(f, k) /\ InLane(g, l) /\ k < l
  \/ FileNames[f].lane = FileNames[g].lane /\ f < g
Heads(files) == {f \in files : \A g \in files : ~Ahead(g, f)}

Present(f) == disk[f] # Absent

Cleared ==
  /\ lane' = 1 /\ queue' = {} /\ imported' = <<>> /\ rejected' = <<>>
  /\ manifests' = {} /\ broken' = <<>> /\ report' = NoReport /\ changes' = 0

Begin ==
  /\ step = "staging" /\ step' = "list"
  /\ Cleared /\ UNCHANGED disk

(* The entries of the directory.                                           *)
Listing(l) == {f \in Files : InLane(f, l) /\ Present(f)}

ListLane ==
  /\ step = "list" /\ lane \in DOMAIN Lanes
  /\ queue' = Listing(lane)
  /\ step' = "classify"
  /\ UNCHANGED <<disk, lane, imported, rejected, manifests, broken, report, changes>>

NextLane ==
  /\ step = "classify" /\ queue = {}
  /\ lane' = lane + 1
  /\ IF lane = Len(Lanes) THEN step' = "manifests" /\ queue' = ManifestFiles
     ELSE step' = "list" /\ queue' = {}
  /\ UNCHANGED <<disk, imported, rejected, manifests, broken, report, changes>>

Full(l) == Cardinality({i \in DOMAIN imported : InLane(imported[i].file, l)}) >= MaxImported

Reasons(f, l) ==
  LET byName == NameRejected(f, l, Full(l))
  IN  IF byName = {} /\ disk[f].large THEN {"file-too-large"} ELSE byName

(* An error of fs::metadata or fs::read ends the compilation.              *)
Classify ==
  /\ step = "classify"
  /\ \E f \in Heads(queue) :
       LET reasons == Reasons(f, lane)
       IN  \/ \E reason \in reasons :
                /\ rejected' = Append(rejected, [file |-> f, reason |-> reason])
                /\ queue' = queue \ {f}
                /\ UNCHANGED <<step, imported>>
           \/ /\ reasons = {} /\ Present(f)
              /\ imported' = Append(imported, [file |-> f, digest |-> disk[f].digest])
              /\ queue' = queue \ {f}
              /\ UNCHANGED <<step, rejected>>
           \/ /\ reasons = {} /\ ~Present(f)
              /\ step' = "done"
              /\ UNCHANGED <<queue, imported, rejected>>
  /\ UNCHANGED <<disk, lane, manifests, broken, report, changes>>

Legible(f) == ~disk[f].large /\ disk[f].entries # {}
Text(f)    == CHOOSE m \in disk[f].entries : TRUE

(* load_integration_manifests, read_manifest: what is not a file is left   *)
(* out, what is too large or does not parse is an error.                   *)
ReadManifest ==
  /\ step = "manifests"
  /\ \E f \in Heads(queue) :
       /\ manifests' = IF Present(f) /\ Legible(f)
                       THEN manifests \cup {[file |-> f, entries |-> Text(f)]}
                       ELSE manifests
       /\ broken' = IF Present(f) /\ ~Legible(f) THEN Append(broken, "error") ELSE broken
       /\ queue' = queue \ {f}
  /\ UNCHANGED <<disk, step, lane, imported, rejected, report, changes>>

(* Findings in the order they are pushed.                                  *)
LaneFindings(l, entries) ==
  FlattenSeq([i \in DOMAIN imported |->
    IF InLane(imported[i].file, l) THEN ArtifactFindings(imported[i], entries) ELSE <<>>])
  \o FlattenSeq([i \in DOMAIN rejected |->
       Finding(InLane(rejected[i].file, l), Severity(rejected[i].reason))])

Findings(entries, normalized) ==
  broken
  \o FlattenSeq([l \in DOMAIN Lanes |-> LaneFindings(l, entries)])
  \o Errors(Missing(imported, entries)) \o Errors(Duplicates(normalized))

Compile ==
  /\ step = "manifests" /\ queue = {}
  /\ LET entries    == Entries(manifests)
         normalized == [i \in DOMAIN imported |-> Normalized(imported[i], entries)]
         findings   == Findings(entries, normalized)
     IN  report' = [status |-> Status(Kept(findings), imported),
                    frozen |-> [s \in SlotsOf(normalized) |-> Frozen(normalized, s)],
                    bound  |-> {[id |-> normalized[i].id, digest |-> normalized[i].digest] :
                                  i \in Bound(normalized)},
                    found  |-> Len(findings)]
  /\ step' = "done"
  /\ UNCHANGED <<disk, changes>> /\ UNCHANGED work

(* The tool is run once for each compilation.                              *)
Exit ==
  /\ step = "done" /\ step' = "staging"
  /\ Cleared /\ UNCHANGED disk

(* The submitter stages files, also while they are compiled.               *)
Change(f, content) ==
  /\ content # disk[f]
  /\ \/ step = "staging" /\ UNCHANGED changes
     \/ step \notin {"staging", "done"} /\ changes < MaxChanges /\ changes' = changes + 1
  /\ disk' = [disk EXCEPT ![f] = content]
  /\ UNCHANGED <<step, report>> /\ UNCHANGED work

MayContain(f) == Contents[f] \cup {Absent}

Init ==
  /\ disk = [f \in Files |-> Absent]
  /\ step = "staging" /\ lane = 1 /\ queue = {}
  /\ imported = <<>> /\ rejected = <<>> /\ manifests = {} /\ broken = <<>>
  /\ report = NoReport /\ changes = 0

Import == Begin \/ ListLane \/ NextLane \/ Classify \/ ReadManifest \/ Compile \/ Exit
Next   == Import \/ \E f \in Files : \E c \in MayContain(f) : Change(f, c)
Spec   == Init /\ [][Next]_vars

(***************************************************************************)
(* Properties                                                              *)
(***************************************************************************)

Returned == report # NoReport
Complete == report.found <= MaxFindings
Accepted == report.status \in {"pass_unreviewed", "warn"}

(* What a report is of files that nobody changes, said without the order   *)
(* things are done in.                                                     *)
Acceptable(f, l) ==
  /\ InLane(f, l) /\ Present(f) /\ ~disk[f].large
  /\ FileNames[f].flaw = "none" /\ ~FileNames[f].private
  /\ FileNames[f].extension \in Lanes[l].extensions
Before(f, l) == Cardinality({g \in Files : g < f /\ Acceptable(g, l)})
Taken(f) == \E l \in DOMAIN Lanes : Acceptable(f, l) /\ Before(f, l) < MaxImported
Artifacts == {f \in Files : Taken(f)}

IsManifest(f) == f \in ManifestFiles /\ Present(f)
Places     == UNION {{f} \X DOMAIN Text(f) : f \in {g \in Files : IsManifest(g) /\ Legible(g)}}
EntryAt(p) == Text(p[1])[p[2]]
Earlier(p, q) == p[1] < q[1] \/ (p[1] = q[1] /\ p[2] < q[2])
Says(f) == {p \in Places : /\ Names(EntryAt(p), f)
                           /\ \A q \in Places : Earlier(q, p) => ~Names(EntryAt(q), f)}
Meaning(f) == IF Says(f) = {} THEN FileNames[f] ELSE EntryAt(CHOOSE p \in Says(f) : TRUE)
Binds(f)   == Meaning(f).slot # {} \/ Meaning(f).field # {}

Wrong ==
  \/ \E f \in Files : IsManifest(f) /\ ~Legible(f)
  \/ \E f \in Files, l \in DOMAIN Lanes :
       /\ InLane(f, l) /\ Present(f) /\ FileNames[f].flaw = "none"
       /\ FileNames[f].private /\ Before(f, l) < MaxImported
  \/ \E f \in Artifacts : \E p \in Says(f) :
       \/ EntryAt(p).adapter \notin {{}, FileNames[f].lane}
       \/ EntryAt(p).expected \notin {{}, {disk[f].digest}}
  \/ \E p \in Places : \A f \in Artifacts : ~Names(EntryAt(p), f)
  \/ \E f, g \in Artifacts : /\ Binds(f) /\ Binds(g) /\ Meaning(f).id = Meaning(g).id
                             /\ disk[f].digest # disk[g].digest

Doubtful ==
  \/ \E f \in Files \ Artifacts : \E l \in DOMAIN Lanes : InLane(f, l) /\ Present(f)
  \/ \E f \in Artifacts : \E p \in Says(f) : ~EntryAt(p).metadata

(* "Repeatable release hash binding" (integration_import.rs:437): the      *)
(* report on files that nobody changed meanwhile depends on their contents *)
(* alone, and is the one a reader of the rules expects.                    *)
QuietReport ==
  Returned /\ changes = 0 /\ Complete =>
    /\ report.status = IF Wrong THEN "fail" ELSE IF Artifacts = {} THEN "missing"
                       ELSE IF Doubtful THEN "warn" ELSE "pass_unreviewed"
    /\ report.bound = {[id |-> Meaning(f).id, digest |-> disk[f].digest] :
                         f \in {g \in Artifacts : Binds(g)}}
    /\ DOMAIN report.frozen = FreezeTargets \cap UNION {Meaning(f).slot : f \in Artifacts}
    /\ \A s \in DOMAIN report.frozen :
         \E f \in Artifacts :
           /\ s \in Meaning(f).slot
           /\ \A g \in Artifacts : s \in Meaning(g).slot => f <= g
           /\ report.frozen[s] = {[file |-> f, digest |-> disk[f].digest]}

(* "Fail-closed" (tutorial/08:511): whatever changes while it is compiled, *)
(* a report that is not "fail", and has not overflowed, covers every file  *)
(* the manifests it read name, binds under the name of the first entry for *)
(* a file no digest but the one this entry expects (unless the entry binds *)
(* nothing itself), and binds no name twice.                               *)
AcceptedAsManifested ==
  Returned /\ Accepted /\ Complete =>
    /\ \A p \in Entries(manifests) :
         LET e == p.entry
         IN  \E a \in Range(imported) :
               /\ Names(e, a.file)
               /\ e \in EntryFor(a.file, Entries(manifests)) /\ (e.slot # {} \/ e.field # {}) =>
                    \A b \in report.bound : b.id = e.id => e.expected \in {{}, {b.digest}}
    /\ \A a, b \in report.bound : a.id = b.id => a.digest = b.digest

(* The same of entries that bind nothing.  Refuted: their names are not    *)
(* looked at, and another file may be bound under one of them.             *)
NamesAsExpected ==
  Returned /\ Accepted /\ Complete =>
    \A p \in Entries(manifests), a \in Range(imported), b \in report.bound :
      p.entry \in EntryFor(a.file, Entries(manifests)) /\ b.id = p.entry.id =>
        p.entry.expected \in {{}, {b.digest}}

(* The same without "has not overflowed".  Refuted: findings beyond the    *)
(* limit are dropped, errors like warnings, before the status is computed. *)
FailsClosed ==
  Returned /\ Accepted =>
    \A p \in Entries(manifests) : \E a \in Range(imported) : Names(p.entry, a.file)

(* Every entry that expects a digest gets it.  Refuted: where two name a   *)
(* file, the second is not looked at.                                      *)
EveryEntryHonoured ==
  Returned /\ Accepted /\ Complete =>
    \A p \in Entries(manifests) : \A a \in Range(imported) :
      Names(p.entry, a.file) => p.entry.expected \in {{}, {a.digest}}

(* "The freeze manifest SHALL bind" artifacts (docs/spec.md:434).  Refuted:*)
(* the manifest of a lane is a file of the lane, and takes its slot when   *)
(* its path comes first.                                                   *)
ManifestsNotFrozen ==
  \A s \in DOMAIN report.frozen :
    \A b \in report.frozen[s] : ~FileNames[b.file].manifest

(* An accepted report freezes whatever it takes for a slot.  Refuted: an   *)
(* entry may misspell the slot, which is not reported.                     *)
SlotsFrozen ==
  Returned /\ changes = 0 /\ Accepted /\ Complete =>
    \A f \in Artifacts : Meaning(f).slot \subseteq DOMAIN report.frozen

AllContents == UNION {MayContain(f) : f \in Files}
RejectionReasons ==
  {"directory-depth-limit", "unsupported-file-type", "path-too-long",
   "adapter-file-count-limit", "private-key-material-not-accepted",
   "unsupported-extension", "file-too-large"}

TypeOK ==
  /\ DOMAIN disk = Files /\ \A f \in Files : disk[f] \in MayContain(f)
  /\ step \in {"staging", "list", "classify", "manifests", "done"} /\ lane \in 1..(Len(Lanes) + 1)
  /\ queue \subseteq Files
  /\ imported \in Seq([file : Files, digest : {c.digest : c \in AllContents}])
  /\ rejected \in Seq([file : Files, reason : RejectionReasons])
  /\ manifests \subseteq [file : Files, entries : UNION {c.entries : c \in AllContents}]
  /\ broken \in Seq({"error"})
  /\ changes \in 0..MaxChanges
=============================================================================
