------------------------ MODULE EvidenceImportProofs ------------------------
(***************************************************************************)
(* What a compilation reports, for any lanes, files, contents, manifests   *)
(* and limits.                                                             *)
(*                                                                         *)
(* IInv says what holds whatever the submitter does meanwhile: what was    *)
(* imported or rejected is a file of a lane, a manifest was read once.     *)
(* From it and from what Compile computes, AcceptedAsManifested follows.   *)
(*                                                                         *)
(* QInv says what holds while nobody changes a file: the files handled so  *)
(* far are imported if they are to be taken and rejected if not, and the   *)
(* manifests come past have been read.  "To be taken" counts the files     *)
(* before one that are acceptable, the code those it has imported: the two *)
(* counts reach the limit together (TakenFill).  At Compile QInv makes the *)
(* report a function of the disk, and the one of the rules: QuietReport.   *)
(*                                                                         *)
(* The findings are concatenated by FlattenSeq, a recursive function.  Its *)
(* range is had from the least place where it would be wrong, so that no   *)
(* induction theorem with an operator parameter is needed.                 *)
(***************************************************************************)
EXTENDS EvidenceImport, FiniteSetTheorems, SequenceTheorems, TLAPS

-----------------------------------------------------------------------------
(* Numbers and sequences.                                                  *)

(* A set of numbers that is not empty has a least one.                     *)
LEMMA LeastNumber ==
  ASSUME NEW S, S \subseteq Nat, S # {}
  PROVE  \E n \in S : \A m \in S : n <= m
<1>1. PICK n \in S : \A m \in S : <<m, n>> \notin OpToRel(<, Nat)
  BY NatLessThanWellFounded, WFMin
<1>2. \A m \in S : ~ (m < n)
  BY <1>1 DEF OpToRel
<1>3. QED
  BY <1>2

(* What is in two sequences one after the other.                           *)
LEMMA ConcatRange ==
  ASSUME NEW T, NEW s \in Seq(T), NEW t \in Seq(T)
  PROVE  s \o t \in Seq(T) /\ Range(s \o t) = Range(s) \cup Range(t)
<1>1. /\ s \o t \in Seq(T) /\ Len(s \o t) = Len(s) + Len(t)
      /\ Len(s) \in Nat /\ Len(t) \in Nat
      /\ DOMAIN s = 1..Len(s) /\ DOMAIN t = 1..Len(t)
      /\ DOMAIN (s \o t) = 1..(Len(s) + Len(t))
      /\ \A i \in 1..(Len(s) + Len(t)) :
           (s \o t)[i] = IF i <= Len(s) THEN s[i] ELSE t[i - Len(s)]
  BY ConcatProperties, LenProperties
<1>2. ASSUME NEW i \in DOMAIN (s \o t) PROVE (s \o t)[i] \in Range(s) \cup Range(t)
  <2>1. CASE i <= Len(s)
    BY <1>1, <2>1 DEF Range
  <2>2. CASE ~ (i <= Len(s))
    <3>1. i - Len(s) \in DOMAIN t
      BY <1>1, <2>2
    <3>2. QED
      BY <1>1, <2>2, <3>1 DEF Range
  <2>3. QED
    BY <2>1, <2>2
<1>3. ASSUME NEW i \in DOMAIN s PROVE s[i] \in Range(s \o t)
  <2>1. i \in 1..(Len(s) + Len(t)) /\ i <= Len(s)
    BY <1>1
  <2>2. QED
    BY <1>1, <2>1 DEF Range
<1>4. ASSUME NEW i \in DOMAIN t PROVE t[i] \in Range(s \o t)
  <2>1. i + Len(s) \in 1..(Len(s) + Len(t)) /\ ~ (i + Len(s) <= Len(s)) /\ i + Len(s) - Len(s) = i
    BY <1>1
  <2>2. (s \o t)[i + Len(s)] = t[i]
    BY <1>1, <2>1
  <2>3. QED
    BY <1>1, <2>1, <2>2 DEF Range
<1>5. QED
  BY <1>1, <1>2, <1>3, <1>4 DEF Range

(* The step FlattenSeq takes.                                              *)
Flattens(f, s, n) ==
  f = [i \in 1..n |-> IF i = 1 THEN s[i] ELSE f[i - 1] \o s[i]]

(* FlattenSeq is defined by a recursion over the positions of s: there is  *)
(* such a function as far as any n, or there would be a first n for which  *)
(* there is none.                                                          *)
LEMMA FlattensExists ==
  ASSUME NEW s, NEW n \in Nat
  PROVE  \E f : Flattens(f, s, n)
<1> DEFINE without == {m \in Nat : ~ \E f : Flattens(f, s, m)}
<1>1. SUFFICES ASSUME without # {} PROVE FALSE
  OBVIOUS
<1>2. PICK m \in without : \A k \in without : m <= k
  BY <1>1, LeastNumber
<1>3. CASE m = 0
  <2> DEFINE f == [i \in 1..0 |-> s[i]]
  <2>1. f = [i \in 1..0 |-> IF i = 1 THEN s[i] ELSE f[i - 1] \o s[i]]
    <3>1. 1..0 = {}
      OBVIOUS
    <3>2. QED
      BY <3>1
  <2>2. Flattens(f, s, 0)
    BY <2>1 DEF Flattens
  <2>3. QED
    BY <1>2, <1>3, <2>2
<1>4. CASE m # 0
  <2>1. m - 1 \in Nat /\ m - 1 \notin without
    BY <1>2, <1>4
  <2>2. PICK g : Flattens(g, s, m - 1)
    BY <2>1
  <2> DEFINE f == [i \in 1..m |-> IF i = m THEN IF m = 1 THEN s[i] ELSE g[m - 1] \o s[i] ELSE g[i]]
  <2>3. ASSUME NEW i \in 1..m
        PROVE  f[i] = IF i = 1 THEN s[i] ELSE f[i - 1] \o s[i]
    <3>1. CASE i = m /\ m = 1
      BY <3>1
    <3>2. CASE i = m /\ m # 1
      <4>1. m - 1 \in 1..m /\ m - 1 # m
        BY <1>4, <3>2
      <4>2. f[m - 1] = g[m - 1]
        BY <4>1
      <4>3. QED
        BY <3>2, <4>2
    <3>3. CASE i # m
      <4>1. i \in 1..(m - 1) /\ f[i] = g[i]
        BY <3>3
      <4>2. g[i] = IF i = 1 THEN s[i] ELSE g[i - 1] \o s[i]
        BY <2>2, <4>1 DEF Flattens
      <4>3. i # 1 => f[i - 1] = g[i - 1]
        <5>1. i # 1 => i - 1 \in 1..m /\ i - 1 # m
          BY <4>1
        <5>2. QED
          BY <5>1
      <4>4. QED
        BY <4>1, <4>2, <4>3
    <3>4. QED
      BY <3>1, <3>2, <3>3
  <2>4. f = [i \in 1..m |-> IF i = 1 THEN s[i] ELSE f[i - 1] \o s[i]]
    <3>1. f = [i \in 1..m |-> f[i]]
      OBVIOUS
    <3> HIDE DEF f
    <3>2. QED
      BY <2>3, <3>1
  <2>5. Flattens(f, s, m)
    BY <2>4 DEF Flattens
  <2>6. QED
    BY <1>2, <2>5
<1>5. QED
  BY <1>3, <1>4

(* A flattened sequence holds what the sequences in it hold.               *)
LEMMA FlattenRange ==
  ASSUME NEW T, NEW s \in Seq(Seq(T))
  PROVE  /\ FlattenSeq(s) \in Seq(T)
         /\ Range(FlattenSeq(s)) = UNION {Range(s[i]) : i \in DOMAIN s}
<1>1. /\ Len(s) \in Nat /\ DOMAIN s = 1..Len(s)
      /\ \A i \in 1..Len(s) : s[i] \in Seq(T)
  BY LenProperties, ElementOfSeq
<1>2. CASE Len(s) = 0
  <2>1. s = <<>> /\ FlattenSeq(s) = s
    BY <1>1, <1>2, EmptySeq DEF FlattenSeq
  <2>2. <<>> \in Seq(T) /\ DOMAIN <<>> = {}
    BY EmptySeq
  <2>3. QED
    BY <2>1, <2>2 DEF Range
<1>3. CASE Len(s) # 0
  <2> DEFINE flatten == CHOOSE f : f = [i \in 1..Len(s) |-> IF i = 1 THEN s[i] ELSE f[i - 1] \o s[i]]
  <2>1. FlattenSeq(s) = flatten[Len(s)]
    BY <1>3 DEF FlattenSeq
  <2>2. Flattens(flatten, s, Len(s))
    BY <1>1, FlattensExists DEF Flattens
  <2> HIDE DEF flatten
  <2>3. \A i \in 1..Len(s) : flatten[i] = IF i = 1 THEN s[i] ELSE flatten[i - 1] \o s[i]
    BY <2>2 DEF Flattens
  <2> DEFINE Upto(i) == UNION {Range(s[k]) : k \in 1..i}
             wrong == {i \in 1..Len(s) : ~ (flatten[i] \in Seq(T) /\ Range(flatten[i]) = Upto(i))}
  <2>4. SUFFICES ASSUME wrong # {} PROVE FALSE
    <3>1. Len(s) \in 1..Len(s)
      BY <1>1, <1>3
    <3>2. QED
      BY <1>1, <2>1, <3>1
  <2>5. PICK i \in wrong : \A k \in wrong : i <= k
    <3>1. wrong \subseteq Nat
      OBVIOUS
    <3> HIDE DEF wrong
    <3>2. QED
      BY <2>4, <3>1, LeastNumber
  <2>6. i \in 1..Len(s) /\ s[i] \in Seq(T)
    BY <1>1
  <2>7. CASE i = 1
    <3>1. flatten[i] = s[i] /\ 1..i = {i}
      BY <2>3, <2>6, <2>7
    <3>2. Upto(i) = Range(s[i])
      BY <3>1
    <3>3. QED
      BY <2>6, <3>1, <3>2
  <2>8. CASE i # 1
    <3>1. i - 1 \in 1..Len(s) /\ i - 1 \notin wrong
      <4>1. i - 1 \in 1..Len(s) /\ ~ (i <= i - 1)
        BY <1>1, <2>6, <2>8
      <4> HIDE DEF wrong
      <4>2. QED
        BY <2>5, <4>1
    <3>2. flatten[i - 1] \in Seq(T) /\ Range(flatten[i - 1]) = Upto(i - 1)
      BY <3>1
    <3>3. flatten[i] = flatten[i - 1] \o s[i]
      BY <2>3, <2>6, <2>8
    <3>4. flatten[i] \in Seq(T) /\ Range(flatten[i]) = Upto(i - 1) \cup Range(s[i])
      BY <2>6, <3>2, <3>3, ConcatRange
    <3>5. 1..i = (1..(i - 1)) \cup {i}
      BY <2>6, <2>8
    <3>6. Upto(i) = Upto(i - 1) \cup Range(s[i])
      BY <3>5
    <3>7. QED
      BY <3>4, <3>6
  <2>9. QED
    BY <2>7, <2>8
<1>4. QED
  BY <1>2, <1>3

-----------------------------------------------------------------------------
(* The findings of a report.                                               *)

(* What a finding may be.                                                  *)
Severities == {"error", "warning"}

(* A finding, or none.                                                     *)
LEMMA FindingRange ==
  ASSUME NEW holds \in BOOLEAN, NEW severity \in Severities
  PROVE  /\ Finding(holds, severity) \in Seq(Severities)
         /\ Range(Finding(holds, severity)) = IF holds THEN {severity} ELSE {}
<1>1. CASE holds
  <2>1. Finding(holds, severity) = <<severity>> /\ <<severity>> \in Seq(Severities)
    BY <1>1 DEF Finding
  <2>2. DOMAIN <<severity>> = {1} /\ <<severity>>[1] = severity
    OBVIOUS
  <2>3. Range(<<severity>>) = {severity}
    BY <2>2 DEF Range
  <2>4. QED
    BY <1>1, <2>1, <2>3
<1>2. CASE ~holds
  <2>1. Finding(holds, severity) = <<>> /\ <<>> \in Seq(Severities) /\ DOMAIN <<>> = {}
    BY <1>2, EmptySeq DEF Finding
  <2>2. QED
    BY <1>2, <2>1 DEF Range
<1>3. QED
  BY <1>1, <1>2

(* An error for each that was found.                                       *)
LEMMA ErrorsRange ==
  ASSUME NEW found, IsFiniteSet(found)
  PROVE  /\ Errors(found) \in Seq(Severities)
         /\ Range(Errors(found)) = IF found = {} THEN {} ELSE {"error"}
<1>1. PICK n \in Nat : n = Cardinality(found)
  BY FS_CardinalityType
<1>2. n = 0 <=> found = {}
  BY <1>1, FS_EmptySet
<1>3. Errors(found) = [i \in 1..n |-> "error"]
  BY <1>1 DEF Errors
<1>4. [i \in 1..n |-> "error"] \in [1..n -> Severities]
  BY DEF Severities
<1>5. Errors(found) \in Seq(Severities)
  BY <1>1, <1>3, <1>4, SeqDef
<1>6. n # 0 => 1 \in 1..n
  BY <1>1
<1>7. n = 0 => 1..n = {}
  BY <1>1
<1>8. Range(Errors(found)) = IF n = 0 THEN {} ELSE {"error"}
  BY <1>3, <1>6, <1>7 DEF Range
<1>9. QED
  BY <1>2, <1>5, <1>8

(* What normalize_artifact finds.                                          *)
LEMMA ArtifactRange ==
  ASSUME NEW artifact, NEW entries
  PROVE  /\ ArtifactFindings(artifact, entries) \in Seq(Severities)
         /\ "error" \in Range(ArtifactFindings(artifact, entries)) <=>
              \E e \in EntryFor(artifact.file, entries) :
                AdapterDiffers(artifact.file, e) \/ DigestDiffers(artifact, e)
         /\ "warning" \in Range(ArtifactFindings(artifact, entries)) <=>
              \E e \in EntryFor(artifact.file, entries) : ~e.metadata
<1> DEFINE of == EntryFor(artifact.file, entries)
           adapter  == \E e \in of : AdapterDiffers(artifact.file, e)
           digest   == \E e \in of : DigestDiffers(artifact, e)
           metadata == \E e \in of : ~e.metadata
           fa == Finding(adapter, "error")
           fd == Finding(digest, "error")
           fm == Finding(metadata, "warning")
<1>1. ArtifactFindings(artifact, entries) = (fa \o fd) \o fm
  BY DEF ArtifactFindings
<1>2. "error" \in Severities /\ "warning" \in Severities
  BY DEF Severities
<1>3. adapter \in BOOLEAN /\ digest \in BOOLEAN /\ metadata \in BOOLEAN
  OBVIOUS
<1> HIDE DEF adapter, digest, metadata
<1>4. /\ fa \in Seq(Severities) /\ Range(fa) = IF adapter THEN {"error"} ELSE {}
      /\ fd \in Seq(Severities) /\ Range(fd) = IF digest THEN {"error"} ELSE {}
      /\ fm \in Seq(Severities) /\ Range(fm) = IF metadata THEN {"warning"} ELSE {}
  BY <1>2, <1>3, FindingRange
<1> HIDE DEF fa, fd, fm
<1>5. PICK fad : fad = fa \o fd
  OBVIOUS
<1>6. /\ fad \o fm \in Seq(Severities)
      /\ Range(fad \o fm) = (Range(fa) \cup Range(fd)) \cup Range(fm)
  <2>1. fad \in Seq(Severities) /\ Range(fad) = Range(fa) \cup Range(fd)
    BY <1>4, <1>5, ConcatRange
  <2>2. fad \o fm \in Seq(Severities) /\ Range(fad \o fm) = Range(fad) \cup Range(fm)
    BY <1>4, <2>1, ConcatRange
  <2>3. QED
    BY <2>1, <2>2
<1>7. /\ "error" \in Range(fad \o fm) <=> adapter \/ digest
      /\ "warning" \in Range(fad \o fm) <=> metadata
  BY <1>4, <1>6
<1>8. QED
  BY <1>1, <1>5, <1>6, <1>7 DEF adapter, digest, metadata

(* A report that is not full has lost no finding.                          *)
LEMMA KeptAll ==
  ASSUME NEW findings \in Seq(Severities), Len(findings) <= MaxFindings
  PROVE  Kept(findings) = findings
<1>1. MaxFindings \in Nat /\ Len(findings) \in Nat
  BY ImportAssumption, LenProperties
<1>2. Kept(findings) = SubSeq(findings, 1, Len(findings))
  BY <1>1 DEF Kept
<1>3. QED
  BY <1>2, SubSeqFull

-----------------------------------------------------------------------------
(* Files, lanes and contents.                                              *)

(* A file is known by its place among the paths, and there are finitely    *)
(* many; there is at least one lane.                                       *)
LEMMA FilesAreNumbers ==
  /\ Files \subseteq Nat /\ IsFiniteSet(Files)
  /\ \A S \in SUBSET Files : IsFiniteSet(S) /\ Cardinality(S) \in Nat
  /\ MaxImported \in Nat /\ Len(Lanes) \in Nat \ {0} /\ DOMAIN Lanes = 1..Len(Lanes)
<1>1. FileNames \in Seq(Range(FileNames)) /\ Lanes \in Seq(LaneShape) /\ Lanes # <<>>
      /\ MaxImported \in Nat
  BY ImportAssumption
<1>2. Len(FileNames) \in Nat /\ Files = 1..Len(FileNames)
  BY <1>1, LenProperties DEF Files
<1>3. IsFiniteSet(Files)
  BY <1>2, FS_Interval
<1>4. Len(Lanes) \in Nat \ {0} /\ DOMAIN Lanes = 1..Len(Lanes)
  BY <1>1, LenProperties, EmptySeq
<1>5. ASSUME NEW S \in SUBSET Files PROVE IsFiniteSet(S) /\ Cardinality(S) \in Nat
  BY <1>3, FS_Subset, FS_CardinalityType
<1>6. QED
  BY <1>1, <1>2, <1>3, <1>4, <1>5

(* A file is in one lane.                                                  *)
LEMMA OneLane ==
  ASSUME NEW f, NEW k \in DOMAIN Lanes, NEW l \in DOMAIN Lanes, InLane(f, k), InLane(f, l)
  PROVE  k = l
<1>1. Lanes[k].id = Lanes[l].id
  BY DEF InLane
<1>2. QED
  BY <1>1, ImportAssumption

(* What a file may contain: a manifest is a sequence of entries.           *)
LEMMA ContentsAre ==
  ASSUME NEW c \in AllContents, NEW m \in c.entries
  PROVE  /\ c.entries = {m}
         /\ Len(m) \in Nat /\ DOMAIN m = 1..Len(m)
         /\ \A i \in DOMAIN m : Entry(m[i])
<1>1. PICK f \in Files : c \in Contents[f] \cup {Absent}
  BY DEF AllContents, MayContain
<1>2. c # Absent
  BY DEF Absent
<1>3. Content(c)
  BY <1>1, <1>2, ImportAssumption DEF Files
<1>4. m \in Seq(Range(m)) /\ (\A i \in DOMAIN m : Entry(m[i])) /\ Optional(c.entries)
  BY <1>3 DEF Content
<1>5. QED
  BY <1>4, LenProperties DEF Optional

-----------------------------------------------------------------------------
(* The invariants.                                                         *)

(* What is imported or rejected is in a lane.                              *)
InLanes ==
  /\ \A i \in DOMAIN imported : \E l \in DOMAIN Lanes : InLane(imported[i].file, l)
  /\ \A i \in DOMAIN rejected : \E l \in DOMAIN Lanes : InLane(rejected[i].file, l)

(* How far the compilation is: a lane while it lists and classifies, past  *)
(* the last one when it reads manifests.                                   *)
Position ==
  /\ step = "list" => lane \in DOMAIN Lanes
  /\ step = "classify" => lane \in DOMAIN Lanes /\ \A f \in queue : InLane(f, lane)
  /\ step = "manifests" => lane = Len(Lanes) + 1
  /\ step \in {"list", "classify"} => manifests = {}

(* A manifest is read once.                                                *)
ReadOnce ==
  /\ \A m, n \in manifests : m.file = n.file => m = n
  /\ step = "manifests" => \A m \in manifests : m.file \notin queue

(* There is no report before the compilation has returned.                 *)
Reported == Returned => step = "done"

(* What a compilation knows at each of its steps, whatever changes.        *)
IInv == TypeOK /\ InLanes /\ Position /\ ReadOnce /\ Reported

(* While it runs and nobody has changed a file.                            *)
Quiet == changes = 0 /\ step \in {"list", "classify", "manifests"}

(* The files it has classified.                                            *)
Handled(f) ==
  /\ Present(f)
  /\ \E l \in DOMAIN Lanes :
       InLane(f, l) /\ (l < lane \/ (l = lane /\ step = "classify" /\ f \notin queue))

(* The files of a lane are classified in the order of their paths.         *)
QueueInOrder ==
  step = "classify" =>
    /\ queue \subseteq Listing(lane)
    /\ \A g \in Listing(lane) \ queue, h \in queue : g < h

(* Of the files handled, those to be taken are imported, each once and     *)
(* with the digest it has.                                                 *)
ImportedTaken ==
  /\ \A i \in DOMAIN imported : /\ Handled(imported[i].file) /\ Taken(imported[i].file)
                                /\ imported[i].digest = disk[imported[i].file].digest
  /\ \A f \in Files : Handled(f) /\ Taken(f) => \E i \in DOMAIN imported : imported[i].file = f
  /\ \A i, j \in DOMAIN imported : imported[i].file = imported[j].file => i = j

(* A private key in a lane that has room.                                  *)
PrivateKey(f) ==
  /\ FileNames[f].flaw = "none" /\ FileNames[f].private
  /\ \E l \in DOMAIN Lanes : InLane(f, l) /\ Before(f, l) < MaxImported

(* The others are rejected, private keys as such.                          *)
RejectedRest ==
  /\ \A i \in DOMAIN rejected :
       /\ Handled(rejected[i].file) /\ ~Taken(rejected[i].file)
       /\ rejected[i].reason = "private-key-material-not-accepted"
            <=> PrivateKey(rejected[i].file)
  /\ \A f \in Files : Handled(f) /\ ~Taken(f) => \E i \in DOMAIN rejected : rejected[i].file = f

(* The manifests it has come past.                                         *)
Passed(f) == step = "manifests" /\ f \in ManifestFiles \ queue /\ Present(f)

(* Of the manifests come past, those that parse have been read and the     *)
(* others are findings.                                                    *)
ManifestsRead ==
  /\ step = "manifests" => queue \subseteq ManifestFiles
  /\ manifests = {[file |-> f, entries |-> Text(f)] : f \in {g \in Files : Passed(g) /\ Legible(g)}}
  /\ broken # <<>> <=> \E f \in Files : Passed(f) /\ ~Legible(f)

(* What a compilation knows of files that nobody has changed since it      *)
(* began.                                                                  *)
QInv == Quiet => QueueInOrder /\ ImportedTaken /\ RejectedRest /\ ManifestsRead

-----------------------------------------------------------------------------
(* What a report is made from.                                             *)

(* The entries that were read are finitely many, and each is known by its  *)
(* manifest and its place there.                                           *)
LEMMA EntriesKnown ==
  ASSUME TypeOK, ReadOnce
  PROVE  /\ IsFiniteSet(Entries(manifests))
         /\ \A p \in Entries(manifests) : p.file \in Nat /\ p.at \in Nat /\ Entry(p.entry)
         /\ \A p, q \in Entries(manifests) : p.file = q.file /\ p.at = q.at => p = q
<1> DEFINE Of(m) == {[file |-> m.file, at |-> j, entry |-> m.entries[j]] : j \in DOMAIN m.entries}
<1>1. ASSUME NEW m \in manifests
      PROVE  /\ m.file \in Files /\ m.file \in Nat
             /\ Len(m.entries) \in Nat /\ DOMAIN m.entries = 1..Len(m.entries)
             /\ \A j \in DOMAIN m.entries : Entry(m.entries[j])
  <2>1. m \in [file : Files, entries : UNION {c.entries : c \in AllContents}]
    BY DEF TypeOK
  <2>2. PICK c \in AllContents : m.entries \in c.entries
    BY <2>1
  <2>3. QED
    BY <2>1, <2>2, ContentsAre, FilesAreNumbers
<1>2. IsFiniteSet(manifests)
  <2> DEFINE file == [m \in manifests |-> m.file]
  <2>1. file \in Injection(manifests, Files)
    <3>1. file \in [manifests -> Files]
      BY <1>1
    <3>2. \A m, n \in manifests : file[m] = file[n] => m = n
      BY DEF ReadOnce
    <3>3. QED
      BY <3>1, <3>2 DEF Injection, IsInjective
  <2>2. QED
    BY <2>1, FilesAreNumbers, FS_Injection
<1>3. ASSUME NEW m \in manifests PROVE IsFiniteSet(Of(m))
  <2> DEFINE at == [j \in DOMAIN m.entries |-> [file |-> m.file, at |-> j, entry |-> m.entries[j]]]
  <2>1. at \in Surjection(DOMAIN m.entries, Of(m))
    BY DEF Surjection
  <2>2. IsFiniteSet(DOMAIN m.entries)
    BY <1>1, FS_Interval
  <2>3. QED
    BY <2>1, <2>2, FS_Surjection
<1>4. IsFiniteSet({Of(m) : m \in manifests})
  <2> DEFINE of == [m \in manifests |-> Of(m)]
  <2>1. of \in Surjection(manifests, {Of(m) : m \in manifests})
    BY DEF Surjection
  <2>2. QED
    BY <1>2, <2>1, FS_Surjection
<1>5. IsFiniteSet(UNION {Of(m) : m \in manifests})
  <2>1. \A S \in {Of(m) : m \in manifests} : IsFiniteSet(S)
    BY <1>3
  <2>2. QED
    BY <1>4, <2>1, FS_UNION
<1>6. Entries(manifests) = UNION {Of(m) : m \in manifests}
  BY DEF Entries
<1>7. ASSUME NEW p \in Entries(manifests)
      PROVE  \E m \in manifests : \E j \in DOMAIN m.entries :
               p = [file |-> m.file, at |-> j, entry |-> m.entries[j]]
  BY <1>6
<1>8. ASSUME NEW p \in Entries(manifests)
      PROVE  p.file \in Nat /\ p.at \in Nat /\ Entry(p.entry)
  BY <1>1, <1>7
<1>9. ASSUME NEW p \in Entries(manifests), NEW q \in Entries(manifests),
             p.file = q.file, p.at = q.at
      PROVE  p = q
  <2>1. PICK m \in manifests : \E j \in DOMAIN m.entries :
               p = [file |-> m.file, at |-> j, entry |-> m.entries[j]]
    BY <1>7
  <2>2. PICK n \in manifests : \E j \in DOMAIN n.entries :
               q = [file |-> n.file, at |-> j, entry |-> n.entries[j]]
    BY <1>7
  <2>3. m = n
    BY <1>9, <2>1, <2>2 DEF ReadOnce
  <2>4. QED
    BY <1>9, <2>1, <2>2, <2>3
<1>10. QED
  BY <1>5, <1>6, <1>8, <1>9

(* Of two entries one comes first, so a file has at most one that counts.  *)
LEMMA OneEntry ==
  ASSUME TypeOK, ReadOnce, NEW f,
         NEW d \in EntryFor(f, Entries(manifests)), NEW e \in EntryFor(f, Entries(manifests))
  PROVE  d = e
<1> DEFINE naming == {p \in Entries(manifests) : Names(p.entry, f)}
<1>1. PICK p \in naming : d = p.entry /\ \A r \in naming : ~Precedes(r, p)
  BY DEF EntryFor
<1>2. PICK q \in naming : e = q.entry /\ \A r \in naming : ~Precedes(r, q)
  BY DEF EntryFor
<1>3. p \in Entries(manifests) /\ q \in Entries(manifests) /\ ~Precedes(p, q) /\ ~Precedes(q, p)
  BY <1>1, <1>2
<1>4. p.file \in Nat /\ p.at \in Nat /\ q.file \in Nat /\ q.at \in Nat
  BY <1>3, EntriesKnown
<1>5. p.file = q.file /\ p.at = q.at
  BY <1>3, <1>4 DEF Precedes
<1>6. p = q
  BY <1>3, <1>5, EntriesKnown
<1>7. QED
  BY <1>1, <1>2, <1>6

(* An artifact goes by the entry that counts.                              *)
LEMMA NormalizedBy ==
  ASSUME TypeOK, ReadOnce, NEW artifact,
         NEW e \in EntryFor(artifact.file, Entries(manifests))
  PROVE  Normalized(artifact, Entries(manifests)) =
           [file |-> artifact.file, digest |-> artifact.digest,
            id |-> e.id, slot |-> e.slot, field |-> e.field]
<1> DEFINE of == EntryFor(artifact.file, Entries(manifests))
<1>1. of = {e}
  BY OneEntry
<1>2. (CHOOSE d \in of : TRUE) = e
  BY <1>1
<1>3. QED
  BY <1>1, <1>2 DEF Normalized

(* What is found in a lane.                                                *)
LEMMA LaneRange ==
  ASSUME TypeOK, NEW l, NEW entries
  PROVE  /\ LaneFindings(l, entries) \in Seq(Severities)
         /\ \A x : x \in Range(LaneFindings(l, entries)) <=>
              \/ \E i \in DOMAIN imported : /\ InLane(imported[i].file, l)
                                            /\ x \in Range(ArtifactFindings(imported[i], entries))
              \/ \E i \in DOMAIN rejected : /\ InLane(rejected[i].file, l)
                                            /\ x = Severity(rejected[i].reason)
<1> DEFINE s == [i \in DOMAIN imported |->
                   IF InLane(imported[i].file, l) THEN ArtifactFindings(imported[i], entries) ELSE <<>>]
           t == [i \in DOMAIN rejected |->
                   Finding(InLane(rejected[i].file, l), Severity(rejected[i].reason))]
<1>1. /\ Len(imported) \in Nat /\ DOMAIN imported = 1..Len(imported)
      /\ Len(rejected) \in Nat /\ DOMAIN rejected = 1..Len(rejected)
  BY LenProperties DEF TypeOK
<1>2. ASSUME NEW i \in DOMAIN imported
      PROVE  /\ s[i] \in Seq(Severities)
             /\ Range(s[i]) = IF InLane(imported[i].file, l)
                              THEN Range(ArtifactFindings(imported[i], entries)) ELSE {}
  <2>1. <<>> \in Seq(Severities) /\ DOMAIN <<>> = {}
    BY EmptySeq
  <2>2. Range(<<>>) = {}
    BY <2>1 DEF Range
  <2>3. QED
    BY <2>1, <2>2, ArtifactRange
<1>3. ASSUME NEW i \in DOMAIN rejected
      PROVE  /\ t[i] \in Seq(Severities)
             /\ Range(t[i]) = IF InLane(rejected[i].file, l) THEN {Severity(rejected[i].reason)} ELSE {}
  <2>1. Severity(rejected[i].reason) \in Severities
    BY DEF Severity, Severities
  <2>2. InLane(rejected[i].file, l) \in BOOLEAN
    BY DEF InLane
  <2>3. QED
    BY <2>1, <2>2, FindingRange
<1>4. s \in Seq(Seq(Severities)) /\ DOMAIN s = DOMAIN imported
  <2>1. s \in [1..Len(imported) -> Seq(Severities)]
    BY <1>1, <1>2
  <2>2. QED
    BY <1>1, <2>1, SeqDef
<1>5. t \in Seq(Seq(Severities)) /\ DOMAIN t = DOMAIN rejected
  <2>1. t \in [1..Len(rejected) -> Seq(Severities)]
    BY <1>1, <1>3
  <2>2. QED
    BY <1>1, <2>1, SeqDef
<1>6. LaneFindings(l, entries) = FlattenSeq(s) \o FlattenSeq(t)
  BY DEF LaneFindings
<1> HIDE DEF s, t
<1>7. /\ FlattenSeq(s) \in Seq(Severities)
      /\ Range(FlattenSeq(s)) = UNION {Range(s[i]) : i \in DOMAIN imported}
  BY <1>4, FlattenRange
<1>8. /\ FlattenSeq(t) \in Seq(Severities)
      /\ Range(FlattenSeq(t)) = UNION {Range(t[i]) : i \in DOMAIN rejected}
  BY <1>5, FlattenRange
<1>9. /\ LaneFindings(l, entries) \in Seq(Severities)
      /\ Range(LaneFindings(l, entries)) = Range(FlattenSeq(s)) \cup Range(FlattenSeq(t))
  BY <1>6, <1>7, <1>8, ConcatRange
<1>10. \A x : x \in UNION {Range(s[i]) : i \in DOMAIN imported} <=>
         \E i \in DOMAIN imported : /\ InLane(imported[i].file, l)
                                    /\ x \in Range(ArtifactFindings(imported[i], entries))
  BY <1>2
<1>11. \A x : x \in UNION {Range(t[i]) : i \in DOMAIN rejected} <=>
         \E i \in DOMAIN rejected : /\ InLane(rejected[i].file, l)
                                    /\ x = Severity(rejected[i].reason)
  BY <1>3
<1>12. QED
  BY <1>7, <1>8, <1>9, <1>10, <1>11

(* All findings of a report.                                               *)
LEMMA FindingsAre ==
  ASSUME TypeOK, InLanes, ReadOnce, NEW normalized, DOMAIN normalized = DOMAIN imported
  PROVE  LET entries  == Entries(manifests)
             findings == Findings(entries, normalized)
         IN  /\ findings \in Seq(Severities)
             /\ "error" \in Range(findings) <=>
                  \/ broken # <<>>
                  \/ \E i \in DOMAIN imported : \E e \in EntryFor(imported[i].file, entries) :
                       AdapterDiffers(imported[i].file, e) \/ DigestDiffers(imported[i], e)
                  \/ \E i \in DOMAIN rejected :
                       rejected[i].reason = "private-key-material-not-accepted"
                  \/ Missing(imported, entries) # {}
                  \/ Duplicates(normalized) # {}
             /\ "warning" \in Range(findings) <=>
                  \/ \E i \in DOMAIN imported : \E e \in EntryFor(imported[i].file, entries) :
                       ~e.metadata
                  \/ \E i \in DOMAIN rejected :
                       rejected[i].reason # "private-key-material-not-accepted"
<1> DEFINE entries == Entries(manifests)
           u  == [l \in DOMAIN Lanes |-> LaneFindings(l, entries)]
           fu == FlattenSeq(u)
           fm == Errors(Missing(imported, entries))
           fd == Errors(Duplicates(normalized))
           Differs(i) == \E e \in EntryFor(imported[i].file, entries) :
                       AdapterDiffers(imported[i].file, e) \/ DigestDiffers(imported[i], e)
           Undated(i) == \E e \in EntryFor(imported[i].file, entries) : ~e.metadata
           Private(i) == rejected[i].reason = "private-key-material-not-accepted"
<1>1. u \in Seq(Seq(Severities)) /\ DOMAIN u = DOMAIN Lanes
  <2>1. u \in [1..Len(Lanes) -> Seq(Severities)]
    BY LaneRange, FilesAreNumbers
  <2>2. QED
    BY <2>1, SeqDef, FilesAreNumbers
<1>2. fu \in Seq(Severities) /\ Range(fu) = UNION {Range(u[l]) : l \in DOMAIN Lanes}
  <2> HIDE DEF u
  <2>1. QED
    BY <1>1, FlattenRange
<1>3. \A x : x \in Range(fu) <=>
        \/ \E i \in DOMAIN imported : x \in Range(ArtifactFindings(imported[i], entries))
        \/ \E i \in DOMAIN rejected : x = Severity(rejected[i].reason)
  <2> TAKE x
  <2>1. x \in Range(fu) <=> \E l \in DOMAIN Lanes : x \in Range(LaneFindings(l, entries))
    BY <1>2
  <2>2. \A l \in DOMAIN Lanes : x \in Range(LaneFindings(l, entries)) <=>
          \/ \E i \in DOMAIN imported : /\ InLane(imported[i].file, l)
                                        /\ x \in Range(ArtifactFindings(imported[i], entries))
          \/ \E i \in DOMAIN rejected : /\ InLane(rejected[i].file, l)
                                        /\ x = Severity(rejected[i].reason)
    BY LaneRange
  <2> HIDE DEF fu, entries
  <2>3. QED
    BY <2>1, <2>2 DEF InLanes
<1>4. /\ "error" \in Range(fu) <=>
           (\E i \in DOMAIN imported : Differs(i)) \/ (\E i \in DOMAIN rejected : Private(i))
      /\ "warning" \in Range(fu) <=>
           (\E i \in DOMAIN imported : Undated(i)) \/ (\E i \in DOMAIN rejected : ~Private(i))
  <2>1. \A i \in DOMAIN imported :
          /\ "error" \in Range(ArtifactFindings(imported[i], entries)) <=> Differs(i)
          /\ "warning" \in Range(ArtifactFindings(imported[i], entries)) <=> Undated(i)
    BY ArtifactRange
  <2>2. \A i \in DOMAIN rejected :
          /\ "error" = Severity(rejected[i].reason) <=> Private(i)
          /\ "warning" = Severity(rejected[i].reason) <=> ~Private(i)
    BY DEF Severity
  <2> HIDE DEF fu, entries, Differs, Undated, Private
  <2>3. QED
    BY <1>3, <2>1, <2>2
<1>5. /\ fm \in Seq(Severities)
      /\ Range(fm) = IF Missing(imported, entries) = {} THEN {} ELSE {"error"}
  <2>1. IsFiniteSet(Missing(imported, entries))
    BY EntriesKnown, FS_Subset DEF Missing
  <2>2. QED
    BY <2>1, ErrorsRange
<1>6. /\ fd \in Seq(Severities)
      /\ Range(fd) = IF Duplicates(normalized) = {} THEN {} ELSE {"error"}
  <2>1. IsFiniteSet(DOMAIN imported)
    BY FS_Interval, LenProperties DEF TypeOK
  <2>2. Duplicates(normalized) \subseteq DOMAIN imported
    BY DEF Duplicates, Bound
  <2>3. QED
    BY <2>1, <2>2, FS_Subset, ErrorsRange
<1>7. /\ broken \in Seq(Severities)
      /\ Range(broken) = IF broken = <<>> THEN {} ELSE {"error"}
  <2>1. /\ Len(broken) \in Nat /\ DOMAIN broken = 1..Len(broken)
        /\ broken # <<>> => Len(broken) # 0
        /\ \A i \in DOMAIN broken : broken[i] = "error"
    BY LenProperties, EmptySeq, ElementOfSeq DEF TypeOK
  <2>2. broken \in [1..Len(broken) -> Severities]
    BY <2>1, LenProperties DEF TypeOK, Severities
  <2>3. broken \in Seq(Severities)
    BY <2>1, <2>2, SeqDef
  <2>4. broken = <<>> => DOMAIN broken = {}
    OBVIOUS
  <2>5. broken # <<>> => 1 \in DOMAIN broken
    BY <2>1
  <2>6. QED
    BY <2>1, <2>3, <2>4, <2>5 DEF Range
<1>8. Findings(entries, normalized) = ((broken \o fu) \o fm) \o fd
  BY DEF Findings
<1> HIDE DEF fu, fm, fd, entries, u
<1>9. PICK g : g = broken \o fu
  OBVIOUS
<1>10. g \in Seq(Severities) /\ Range(g) = Range(broken) \cup Range(fu)
  BY <1>2, <1>7, <1>9, ConcatRange
<1>11. PICK h : h = g \o fm
  OBVIOUS
<1>12. h \in Seq(Severities) /\ Range(h) = Range(g) \cup Range(fm)
  BY <1>5, <1>10, <1>11, ConcatRange
<1>13. h \o fd \in Seq(Severities) /\ Range(h \o fd) = Range(h) \cup Range(fd)
  BY <1>6, <1>12, ConcatRange
<1>14. Findings(entries, normalized) = h \o fd
  BY <1>8, <1>9, <1>11
<1>15. /\ "error" \in Range(h \o fd) <=>
            \/ broken # <<>> \/ "error" \in Range(fu)
            \/ Missing(imported, entries) # {} \/ Duplicates(normalized) # {}
       /\ "warning" \in Range(h \o fd) <=> "warning" \in Range(fu)
  BY <1>5, <1>6, <1>7, <1>10, <1>12, <1>13
<1>16. QED
  BY <1>4, <1>13, <1>14, <1>15 DEF entries

-----------------------------------------------------------------------------
(* What a compilation knows at each of its steps.                          *)

(* The invariant holds before the tool is run.                             *)
LEMMA InitIInv == Init => IInv
<1> SUFFICES ASSUME Init PROVE IInv
  OBVIOUS
<1>1. /\ <<>> \in Seq([file : Files, digest : {c.digest : c \in AllContents}])
      /\ <<>> \in Seq([file : Files, reason : RejectionReasons])
      /\ <<>> \in Seq({"error"}) /\ DOMAIN <<>> = {}
  BY EmptySeq
<1>2. 1 \in 1..(Len(Lanes) + 1) /\ 0 \in 0..MaxChanges
  BY FilesAreNumbers, ImportAssumption
<1>3. \A f \in Files : disk[f] \in MayContain(f)
  BY DEF Init, MayContain
<1>4. TypeOK
  BY <1>1, <1>2, <1>3 DEF Init, TypeOK
<1>5. QED
  BY <1>1, <1>4 DEF Init, IInv, InLanes, Position, ReadOnce, Reported, Returned

(* Where a compilation begins, or the tool exits, nothing is known.        *)
LEMMA ClearedIInv ==
  ASSUME IInv, Cleared, UNCHANGED disk, step' \in {"staging", "list"}
  PROVE  IInv'
<1>1. /\ <<>> \in Seq([file : Files, digest : {c.digest : c \in AllContents}])
      /\ <<>> \in Seq([file : Files, reason : RejectionReasons])
      /\ <<>> \in Seq({"error"}) /\ DOMAIN <<>> = {}
  BY EmptySeq
<1>2. 1 \in 1..(Len(Lanes) + 1) /\ 0 \in 0..MaxChanges /\ 1 \in DOMAIN Lanes
  BY FilesAreNumbers, ImportAssumption
<1>3. /\ imported' = <<>> /\ rejected' = <<>> /\ broken' = <<>> /\ queue' = {}
      /\ manifests' = {} /\ lane' = 1 /\ changes' = 0 /\ report' = NoReport
  BY DEF Cleared
<1>4. TypeOK'
  <2>1. DOMAIN disk' = Files /\ \A f \in Files : disk'[f] \in MayContain(f)
    BY DEF IInv, TypeOK
  <2>2. QED
    BY <1>1, <1>2, <1>3, <2>1 DEF TypeOK
<1>5. QED
  BY <1>1, <1>2, <1>3, <1>4 DEF IInv, InLanes, Position, ReadOnce, Reported, Returned

(* A reason to reject a file is one of those the code has.                 *)
LEMMA ReasonsKnown ==
  ASSUME NEW f \in Files, NEW l, NEW reason \in Reasons(f, l)
  PROVE  reason \in RejectionReasons /\ Reasons(f, l) = {reason}
<1>1. FileNames[f].flaw \in {"none", "directory-depth-limit", "unsupported-file-type", "path-too-long"}
  BY ImportAssumption DEF Files, FileShape
<1>2. QED
  BY <1>1 DEF Reasons, NameRejected, RejectionReasons

(* Every step of the compilation, and every change, keeps the invariant.   *)
LEMMA StepIInv ==
  ASSUME IInv, Next
  PROVE  IInv'
<1> USE DEF IInv
<1>1. CASE Begin
  BY <1>1, ClearedIInv DEF Begin
<1>2. CASE ListLane
  <2>1. TypeOK'
    BY <1>2 DEF ListLane, TypeOK, Listing
  <2>2. Position'
    BY <1>2 DEF ListLane, Position, Listing, InLane
  <2>3. InLanes' /\ ReadOnce' /\ Reported'
    BY <1>2 DEF ListLane, InLanes, InLane, ReadOnce, Reported, Returned
  <2>4. QED
    BY <2>1, <2>2, <2>3
<1>3. CASE NextLane
  <2>1. lane \in DOMAIN Lanes /\ manifests = {} /\ step = "classify"
    BY <1>3 DEF NextLane, Position
  <2>2. /\ lane \in 1..Len(Lanes) /\ Len(Lanes) \in Nat
        /\ lane # Len(Lanes) => lane + 1 \in DOMAIN Lanes
        /\ lane + 1 \in 1..(Len(Lanes) + 1)
    BY <2>1, FilesAreNumbers
  <2>3. TypeOK'
    <3>1. ManifestFiles \subseteq Files
      BY DEF ManifestFiles
    <3>2. queue' \subseteq Files /\ step' \in {"list", "manifests"} /\ lane' \in 1..(Len(Lanes) + 1)
      BY <1>3, <2>2, <3>1 DEF NextLane
    <3>3. QED
      BY <1>3, <3>2 DEF NextLane, TypeOK
  <2>4. Position'
    BY <1>3, <2>1, <2>2 DEF NextLane, Position
  <2>5. InLanes' /\ ReadOnce' /\ Reported'
    BY <1>3, <2>1 DEF NextLane, InLanes, InLane, ReadOnce, Reported, Returned
  <2>6. QED
    BY <2>3, <2>4, <2>5
<1>4. CASE Classify
  <2>1. PICK f \in Heads(queue) :
          LET reasons == Reasons(f, lane)
          IN  \/ \E reason \in reasons :
                   /\ rejected' = Append(rejected, [file |-> f, reason |-> reason])
                   /\ queue' = queue \ {f}
                   /\ UNCHANGED <<step, imported>>
              \/ /\ reasons = {} /\ Present(f)
                 /\ imported' = Append(imported, [file |-> f, digest |-> disk[f].digest])
                 /\ queue' = queue \ {f}
                 /\ UNCHANGED <<step, rejected>>
              \/ /\ reasons = {} /\ ~Present(f)
                 /\ step' = "done"
                 /\ UNCHANGED <<queue, imported, rejected>>
    BY <1>4 DEF Classify
  <2>2. /\ step = "classify" /\ UNCHANGED <<disk, lane, manifests, broken, report, changes>>
        /\ f \in queue /\ f \in Files /\ lane \in DOMAIN Lanes /\ InLane(f, lane)
        /\ report = NoReport
    BY <1>4 DEF Classify, Heads, Position, TypeOK, Reported, Returned
  <2>3. CASE \E reason \in Reasons(f, lane) :
               /\ rejected' = Append(rejected, [file |-> f, reason |-> reason])
               /\ queue' = queue \ {f}
               /\ UNCHANGED <<step, imported>>
    <3>1. PICK reason \in Reasons(f, lane) : rejected' = Append(rejected, [file |-> f, reason |-> reason])
      BY <2>3
    <3>2. queue' = queue \ {f} /\ UNCHANGED <<step, imported>>
      BY <2>3
    <3>3. /\ rejected \in Seq([file : Files, reason : RejectionReasons])
          /\ [file |-> f, reason |-> reason] \in [file : Files, reason : RejectionReasons]
      BY <2>2, ReasonsKnown DEF TypeOK
    <3>4. /\ rejected' \in Seq([file : Files, reason : RejectionReasons])
          /\ DOMAIN rejected' = 1..(Len(rejected) + 1) /\ DOMAIN rejected = 1..Len(rejected)
          /\ Len(rejected) \in Nat
          /\ \A i \in DOMAIN rejected : rejected'[i] = rejected[i]
          /\ rejected'[Len(rejected) + 1].file = f
      BY <3>1, <3>3, AppendProperties, LenProperties
    <3>5. TypeOK'
      BY <2>2, <3>2, <3>4 DEF TypeOK
    <3>6. InLanes'
      <4>1. \A i \in DOMAIN rejected' : \E l \in DOMAIN Lanes : InLane(rejected'[i].file, l)
        BY <2>2, <3>4 DEF InLanes
      <4>2. QED
        BY <3>2, <4>1 DEF InLanes, InLane
    <3>7. Position' /\ ReadOnce' /\ Reported'
      BY <2>2, <3>2 DEF Position, ReadOnce, Reported, Returned, InLane
    <3>8. QED
      BY <3>5, <3>6, <3>7
  <2>4. CASE /\ Present(f)
             /\ imported' = Append(imported, [file |-> f, digest |-> disk[f].digest])
             /\ queue' = queue \ {f}
             /\ UNCHANGED <<step, rejected>>
    <3> DEFINE Artifact == [file : Files, digest : {c.digest : c \in AllContents}]
    <3>1. imported \in Seq(Artifact) /\ [file |-> f, digest |-> disk[f].digest] \in Artifact
      <4>1. disk[f] \in AllContents
        BY <2>2 DEF TypeOK, AllContents
      <4>2. QED
        BY <2>2, <4>1 DEF TypeOK
    <3> HIDE DEF Artifact
    <3>2. /\ imported' \in Seq(Artifact)
          /\ DOMAIN imported' = 1..(Len(imported) + 1) /\ DOMAIN imported = 1..Len(imported)
          /\ Len(imported) \in Nat
          /\ \A i \in DOMAIN imported : imported'[i] = imported[i]
          /\ imported'[Len(imported) + 1] = [file |-> f, digest |-> disk[f].digest]
      BY <2>4, <3>1, AppendProperties, LenProperties
    <3>3. imported'[Len(imported) + 1].file = f
      BY <3>2
    <3>4. TypeOK'
      BY <2>2, <2>4, <3>2 DEF TypeOK, Artifact
    <3>5. InLanes'
      <4>1. \A i \in DOMAIN imported' : \E l \in DOMAIN Lanes : InLane(imported'[i].file, l)
        BY <2>2, <3>2, <3>3 DEF InLanes
      <4>2. QED
        BY <2>4, <4>1 DEF InLanes, InLane
    <3>6. Position' /\ ReadOnce' /\ Reported'
      BY <2>2, <2>4 DEF Position, ReadOnce, Reported, Returned, InLane
    <3>7. QED
      BY <3>4, <3>5, <3>6
  <2>5. CASE step' = "done" /\ UNCHANGED <<queue, imported, rejected>>
    BY <2>2, <2>5 DEF TypeOK, InLanes, InLane, Position, ReadOnce, Reported, Returned
  <2>6. QED
    BY <2>1, <2>3, <2>4, <2>5
<1>5. CASE ReadManifest
  <2>1. PICK f \in Heads(queue) :
          /\ manifests' = IF Present(f) /\ Legible(f)
                          THEN manifests \cup {[file |-> f, entries |-> Text(f)]}
                          ELSE manifests
          /\ broken' = IF Present(f) /\ ~Legible(f) THEN Append(broken, "error") ELSE broken
          /\ queue' = queue \ {f}
    BY <1>5 DEF ReadManifest
  <2>2. /\ step = "manifests" /\ UNCHANGED <<disk, step, lane, imported, rejected, report, changes>>
        /\ f \in queue /\ f \in Files
    BY <1>5 DEF ReadManifest, Heads, TypeOK
  <2>3. broken' \in Seq({"error"})
    <3>1. broken \in Seq({"error"}) /\ "error" \in {"error"}
      BY DEF TypeOK
    <3>2. Append(broken, "error") \in Seq({"error"})
      BY <3>1, AppendProperties
    <3>3. QED
      BY <2>1, <3>1, <3>2
  <2>4. Legible(f) => [file |-> f, entries |-> Text(f)]
                        \in [file : Files, entries : UNION {c.entries : c \in AllContents}]
    <3>1. disk[f] \in AllContents
      BY <2>2 DEF TypeOK, AllContents
    <3>2. Legible(f) => Text(f) \in disk[f].entries
      BY DEF Legible, Text
    <3>3. QED
      BY <2>2, <3>1, <3>2
  <2>5. TypeOK'
    <3>1. manifests' \subseteq [file : Files, entries : UNION {c.entries : c \in AllContents}]
      BY <2>1, <2>4 DEF TypeOK
    <3>2. QED
      BY <2>1, <2>2, <2>3, <3>1 DEF TypeOK
  <2>6. ReadOnce'
    <3>1. \A m \in manifests : m.file # f /\ m.file \notin queue
      BY <2>2 DEF ReadOnce
    <3>2. \A m \in manifests' : m \in manifests \/ m = [file |-> f, entries |-> Text(f)]
      BY <2>1
    <3>3. \A m, n \in manifests' : m.file = n.file => m = n
      BY <3>1, <3>2 DEF ReadOnce
    <3>4. \A m \in manifests' : m.file \notin queue'
      BY <2>1, <3>1, <3>2
    <3>5. QED
      BY <3>3, <3>4 DEF ReadOnce
  <2>7. InLanes' /\ Position' /\ Reported'
    BY <2>1, <2>2 DEF InLanes, InLane, Position, Reported, Returned
  <2>8. QED
    BY <2>5, <2>6, <2>7
<1>6. CASE Compile
  <2>1. step' = "done" /\ UNCHANGED <<disk, changes>> /\ UNCHANGED work
    BY <1>6 DEF Compile
  <2>2. QED
    BY <2>1 DEF work, TypeOK, InLanes, InLane, Position, ReadOnce, Reported
<1>7. CASE Exit
  BY <1>7, ClearedIInv DEF Exit
<1>8. ASSUME NEW f \in Files, NEW c \in MayContain(f), Change(f, c) PROVE IInv'
  <2>1. disk' = [disk EXCEPT ![f] = c] /\ UNCHANGED <<step, report>> /\ UNCHANGED work
    BY <1>8 DEF Change
  <2>2. changes' \in 0..MaxChanges
    BY <1>8, ImportAssumption DEF Change, TypeOK
  <2>3. DOMAIN disk' = Files /\ \A g \in Files : disk'[g] \in MayContain(g)
    BY <2>1 DEF TypeOK
  <2>4. TypeOK'
    BY <2>1, <2>2, <2>3 DEF TypeOK, work
  <2>5. QED
    BY <2>1, <2>4 DEF work, InLanes, InLane, Position, ReadOnce, Reported, Returned
<1>9. QED
  BY <1>1, <1>2, <1>3, <1>4, <1>5, <1>6, <1>7, <1>8 DEF Next, Import

(* It depends on the variables alone.                                      *)
LEMMA StutterIInv ==
  ASSUME IInv, UNCHANGED vars
  PROVE  IInv'
  BY DEF vars, IInv, TypeOK, InLanes, InLane, Position, ReadOnce, Reported, Returned

(* What is imported or rejected is in a lane, manifests are read once, and *)
(* a report is there only when the compilation has returned, whatever the  *)
(* submitter changes.                                                      *)
THEOREM ImportKnown == Spec => []IInv
<1>1. Init => IInv
  BY InitIInv
<1>2. IInv /\ [Next]_vars => IInv'
  BY StepIInv, StutterIInv
<1> HIDE DEF Init, Next, vars, IInv
<1>3. QED
  BY <1>1, <1>2, PTL DEF Spec

(* The state of a compilation is of its type.                              *)
THEOREM ImportTyped == Spec => []TypeOK
<1>1. IInv => TypeOK
  BY DEF IInv
<1> HIDE DEF TypeOK, IInv
<1>2. QED
  BY <1>1, ImportKnown, PTL

-----------------------------------------------------------------------------
(* What an accepting report binds.                                         *)

(* A report comes from Compile, and is kept until the tool exits.          *)
LEMMA ReportFromCompile ==
  ASSUME IInv, Next, ~Compile
  PROVE  report' = NoReport
<1>1. step # "done" => report = NoReport
  BY DEF IInv, Reported, Returned
<1>2. CASE Begin \/ Exit
  BY <1>2 DEF Begin, Exit, Cleared
<1>3. CASE ListLane \/ NextLane \/ Classify \/ ReadManifest
  BY <1>1, <1>3 DEF ListLane, NextLane, Classify, ReadManifest
<1>4. CASE \E f \in Files : \E c \in MayContain(f) : Change(f, c)
  BY <1>1, <1>4 DEF Change
<1>5. QED
  BY <1>2, <1>3, <1>4 DEF Next, Import

(* Two that are bound under one name have one digest, if none was found    *)
(* that has another than one before it.                                    *)
LEMMA NoDuplicates ==
  ASSUME NEW normalized, DOMAIN normalized \subseteq Nat, Duplicates(normalized) = {},
         NEW i \in Bound(normalized), NEW j \in Bound(normalized),
         normalized[i].id = normalized[j].id
  PROVE  normalized[i].digest = normalized[j].digest
<1>1. i \in Nat /\ j \in Nat
  BY DEF Bound
<1>2. CASE i = j
  BY <1>2
<1>3. CASE i < j
  BY <1>3 DEF Duplicates
<1>4. CASE j < i
  BY <1>4 DEF Duplicates
<1>5. QED
  BY <1>1, <1>2, <1>3, <1>4

(* What Compile reports, part by part.                                     *)
LEMMA CompiledReport ==
  ASSUME Compile
  PROVE  LET entries    == Entries(manifests)
             normalized == [i \in DOMAIN imported |-> Normalized(imported[i], entries)]
             findings   == Findings(entries, normalized)
         IN  /\ report'.status = Status(Kept(findings), imported)
             /\ report'.found = Len(findings)
             /\ report'.bound = {[id |-> normalized[i].id, digest |-> normalized[i].digest] :
                                   i \in Bound(normalized)}
             /\ report'.frozen = [s \in SlotsOf(normalized) |-> Frozen(normalized, s)]
<1>1. PICK entries : entries = Entries(manifests)
  OBVIOUS
<1>2. PICK normalized : normalized = [i \in DOMAIN imported |-> Normalized(imported[i], entries)]
  OBVIOUS
<1>3. PICK findings : findings = Findings(entries, normalized)
  OBVIOUS
<1>4. report' = [status |-> Status(Kept(findings), imported),
                 frozen |-> [s \in SlotsOf(normalized) |-> Frozen(normalized, s)],
                 bound  |-> {[id |-> normalized[i].id, digest |-> normalized[i].digest] :
                               i \in Bound(normalized)},
                 found  |-> Len(findings)]
  BY <1>1, <1>2, <1>3 DEF Compile
<1>5. /\ report'.status = Status(Kept(findings), imported)
      /\ report'.found = Len(findings)
      /\ report'.bound = {[id |-> normalized[i].id, digest |-> normalized[i].digest] :
                            i \in Bound(normalized)}
      /\ report'.frozen = [s \in SlotsOf(normalized) |-> Frozen(normalized, s)]
  BY <1>4
<1>6. QED
  BY <1>1, <1>2, <1>3, <1>5

(* The report of a compilation that found no error.                        *)
LEMMA CompileAccepted ==
  ASSUME IInv, Compile
  PROVE  AcceptedAsManifested'
<1>1. PICK entries : entries = Entries(manifests)
  OBVIOUS
<1>2. PICK normalized : normalized = [i \in DOMAIN imported |-> Normalized(imported[i], entries)]
  OBVIOUS
<1>3. PICK findings : findings = Findings(entries, normalized)
  OBVIOUS
<1>4. /\ report'.status = Status(Kept(findings), imported)
      /\ report'.found = Len(findings)
      /\ report'.bound = {[id |-> normalized[i].id, digest |-> normalized[i].digest] :
                            i \in Bound(normalized)}
  <2>1. LET es == Entries(manifests)
            ns == [i \in DOMAIN imported |-> Normalized(imported[i], es)]
            fs == Findings(es, ns)
        IN  /\ report'.status = Status(Kept(fs), imported)
            /\ report'.found = Len(fs)
            /\ report'.bound = {[id |-> ns[i].id, digest |-> ns[i].digest] : i \in Bound(ns)}
    BY CompiledReport
  <2>2. QED
    BY <1>1, <1>2, <1>3, <2>1
<1>5. imported' = imported /\ manifests' = manifests
  BY DEF Compile, work
<1>6. SUFFICES ASSUME report'.status \in {"pass_unreviewed", "warn"}, report'.found <= MaxFindings
      PROVE  /\ \A p \in entries :
                  \E a \in Range(imported) :
                    /\ Names(p.entry, a.file)
                    /\ (p.entry \in EntryFor(a.file, entries)
                        /\ (p.entry.slot # {} \/ p.entry.field # {})) =>
                         \A b \in report'.bound :
                           b.id = p.entry.id => p.entry.expected \in {{}, {b.digest}}
             /\ \A a, b \in report'.bound : a.id = b.id => a.digest = b.digest
  BY <1>1, <1>5 DEF AcceptedAsManifested, Accepted, Complete, Names
<1>7. /\ TypeOK /\ InLanes /\ ReadOnce
      /\ DOMAIN normalized = DOMAIN imported /\ DOMAIN imported \subseteq Nat
  BY <1>2, LenProperties DEF IInv, TypeOK
<1>8. /\ findings \in Seq(Severities)
      /\ "error" \in Range(findings) <=>
           \/ broken # <<>>
           \/ \E i \in DOMAIN imported : \E e \in EntryFor(imported[i].file, entries) :
                AdapterDiffers(imported[i].file, e) \/ DigestDiffers(imported[i], e)
           \/ \E i \in DOMAIN rejected :
                rejected[i].reason = "private-key-material-not-accepted"
           \/ Missing(imported, entries) # {}
           \/ Duplicates(normalized) # {}
  BY <1>1, <1>3, <1>7, FindingsAre
<1>9. "error" \notin Range(findings)
  <2>1. Kept(findings) = findings
    BY <1>4, <1>6, <1>8, KeptAll
  <2>2. Status(findings, imported) # "fail"
    BY <1>4, <1>6, <2>1
  <2>3. QED
    BY <2>2 DEF Status
<1>10. /\ \A i \in DOMAIN imported : \A e \in EntryFor(imported[i].file, entries) :
            ~DigestDiffers(imported[i], e)
       /\ Missing(imported, entries) = {} /\ Duplicates(normalized) = {}
  BY <1>8, <1>9
<1>11. ASSUME NEW p \in entries
       PROVE  \E a \in Range(imported) :
                    /\ Names(p.entry, a.file)
                    /\ (p.entry \in EntryFor(a.file, entries)
                        /\ (p.entry.slot # {} \/ p.entry.field # {})) =>
                         \A b \in report'.bound :
                           b.id = p.entry.id => p.entry.expected \in {{}, {b.digest}}
  <2>1. PICK i \in DOMAIN imported : Names(p.entry, imported[i].file)
    BY <1>10 DEF Missing
  <2>2. imported[i] \in Range(imported)
    BY DEF Range
  <2>3. ASSUME p.entry \in EntryFor(imported[i].file, entries),
               p.entry.slot # {} \/ p.entry.field # {},
               NEW b \in report'.bound, b.id = p.entry.id
        PROVE  p.entry.expected \in {{}, {b.digest}}
    <3>1. normalized[i] = Normalized(imported[i], entries)
      BY <1>2
    <3>2. Normalized(imported[i], entries) =
            [file |-> imported[i].file, digest |-> imported[i].digest,
             id |-> p.entry.id, slot |-> p.entry.slot, field |-> p.entry.field]
      BY <1>1, <1>7, <2>3, NormalizedBy
    <3>3. /\ normalized[i].id = p.entry.id /\ normalized[i].digest = imported[i].digest
          /\ normalized[i].slot = p.entry.slot /\ normalized[i].field = p.entry.field
      BY <3>1, <3>2
    <3>4. i \in Bound(normalized)
      BY <1>7, <2>3, <3>3 DEF Bound
    <3>5. PICK j \in Bound(normalized) :
            b = [id |-> normalized[j].id, digest |-> normalized[j].digest]
      BY <1>4, <2>3
    <3>6. b.id = normalized[j].id /\ b.digest = normalized[j].digest
      BY <3>5
    <3>7. b.digest = imported[i].digest
      BY <1>7, <1>10, <2>3, <3>3, <3>4, <3>6, NoDuplicates
    <3>8. ~DigestDiffers(imported[i], p.entry)
      BY <1>10, <2>3
    <3>9. QED
      BY <3>7, <3>8 DEF DigestDiffers
  <2>4. QED
    BY <2>1, <2>2, <2>3
<1>12. ASSUME NEW a \in report'.bound, NEW b \in report'.bound, a.id = b.id
       PROVE  a.digest = b.digest
  <2>1. PICK i \in Bound(normalized) :
          a = [id |-> normalized[i].id, digest |-> normalized[i].digest]
    BY <1>4
  <2>2. PICK j \in Bound(normalized) :
          b = [id |-> normalized[j].id, digest |-> normalized[j].digest]
    BY <1>4
  <2>3. normalized[i].id = normalized[j].id
    BY <1>12, <2>1, <2>2
  <2>4. QED
    BY <1>7, <1>10, <2>1, <2>2, <2>3, NoDuplicates
<1>13. QED
  BY <1>11, <1>12

(* Whatever changes while it is compiled, a report that                    *)
(* compile_certification_integration_artifacts does not fail covers every  *)
(* entry of the manifests it read, binds under the name of the entry that  *)
(* counts for a file only the digest this entry expects, and no name twice.*)
THEOREM BoundAsManifested == Spec => []AcceptedAsManifested
<1>1. Init => AcceptedAsManifested
  BY DEF Init, AcceptedAsManifested, Returned
<1>2. IInv /\ AcceptedAsManifested /\ [Next]_vars => AcceptedAsManifested'
  <2> SUFFICES ASSUME IInv, AcceptedAsManifested, [Next]_vars PROVE AcceptedAsManifested'
    OBVIOUS
  <2>1. CASE Compile
    BY <2>1, CompileAccepted
  <2>2. CASE Next /\ ~Compile
    <3>1. report' = NoReport
      BY <2>2, ReportFromCompile
    <3>2. QED
      BY <3>1 DEF AcceptedAsManifested, Returned
  <2>3. CASE UNCHANGED vars
    BY <2>3 DEF vars, AcceptedAsManifested, Returned, Accepted, Complete, Names
  <2>4. QED
    BY <2>1, <2>2, <2>3
<1> HIDE DEF Init, Next, vars, IInv, AcceptedAsManifested
<1>3. QED
  BY <1>1, <1>2, ImportKnown, PTL DEF Spec

-----------------------------------------------------------------------------
(* What it knows while nobody changes a file.                              *)

(* What is to become of a file depends on the disk alone.                  *)
LEMMA DiskAlone ==
  ASSUME UNCHANGED disk
  PROVE  \A f : /\ Present(f)' <=> Present(f)
                /\ \A l : Acceptable(f, l)' <=> Acceptable(f, l)
                /\ \A l : Before(f, l)' = Before(f, l)
                /\ Taken(f)' <=> Taken(f)
                /\ PrivateKey(f)' <=> PrivateKey(f)
                /\ Legible(f)' <=> Legible(f)
                /\ Text(f)' = Text(f)
<1>1. \A f : Present(f)' <=> Present(f)
  BY DEF Present
<1>2. \A f, l : Acceptable(f, l)' <=> Acceptable(f, l)
  BY <1>1 DEF Acceptable
<1>3. \A f, l : Before(f, l)' = Before(f, l)
  <2> TAKE f, l
  <2>1. {g \in Files : g < f /\ Acceptable(g, l)'} = {g \in Files : g < f /\ Acceptable(g, l)}
    BY <1>2
  <2>2. QED
    BY <2>1 DEF Before
<1>4. \A f : (Taken(f)' <=> Taken(f)) /\ (PrivateKey(f)' <=> PrivateKey(f))
  BY <1>2, <1>3 DEF Taken, PrivateKey
<1>5. \A f : (Legible(f)' <=> Legible(f)) /\ Text(f)' = Text(f)
  BY DEF Legible, Text
<1>6. QED
  BY <1>1, <1>2, <1>3, <1>4, <1>5

(* What is imported or rejected is a file.                                 *)
LEMMA Imports ==
  ASSUME TypeOK
  PROVE  /\ \A i \in DOMAIN imported : imported[i].file \in Files
         /\ \A i \in DOMAIN rejected : rejected[i].file \in Files
         /\ IsFiniteSet(DOMAIN imported)
<1>1. /\ imported \in Seq([file : Files, digest : {c.digest : c \in AllContents}])
      /\ rejected \in Seq([file : Files, reason : RejectionReasons])
  BY DEF TypeOK
<1> DEFINE Artifact == [file : Files, digest : {c.digest : c \in AllContents}]
           Rejection == [file : Files, reason : RejectionReasons]
<1>2. (\A a \in Artifact : a.file \in Files) /\ (\A r \in Rejection : r.file \in Files)
  OBVIOUS
<1> HIDE DEF Artifact, Rejection
<1>3. DOMAIN imported = 1..Len(imported) /\ (\A i \in DOMAIN imported : imported[i] \in Artifact)
      /\ Len(imported) \in Nat
  BY <1>1, ElementOfSeq, LenProperties DEF Artifact
<1>4. DOMAIN rejected = 1..Len(rejected) /\ (\A i \in DOMAIN rejected : rejected[i] \in Rejection)
  BY <1>1, ElementOfSeq, LenProperties DEF Rejection
<1>5. IsFiniteSet(DOMAIN imported)
  BY <1>3, FS_Interval
<1>6. QED
  BY <1>2, <1>3, <1>4, <1>5

(* A step that imports, rejects and handles no file.                       *)
LEMMA SameFiles ==
  ASSUME TypeOK, UNCHANGED <<disk, imported, rejected>>,
         \A f \in Files : Handled(f)' <=> Handled(f),
         ImportedTaken, RejectedRest
  PROVE  ImportedTaken' /\ RejectedRest'
<1>1. /\ \A i \in DOMAIN imported : imported[i].file \in Files
      /\ \A i \in DOMAIN rejected : rejected[i].file \in Files
  BY Imports
<1>2. \A f : /\ Taken(f)' <=> Taken(f)
             /\ PrivateKey(f)' <=> PrivateKey(f)
  BY DiskAlone
<1>3. ImportedTaken'
  BY <1>1, <1>2 DEF ImportedTaken
<1>4. RejectedRest'
  BY <1>1, <1>2 DEF RejectedRest
<1>5. QED
  BY <1>3, <1>4

(* The files of a lane that come before a file and are taken fill the lane *)
(* exactly if those that are acceptable do: the first that is acceptable   *)
(* and not taken has as many before it as a lane may import.               *)
LEMMA TakenFill ==
  ASSUME NEW f \in Files, NEW l
  PROVE  LET taken == {g \in Files : g < f /\ Acceptable(g, l) /\ Before(g, l) < MaxImported}
         IN  Cardinality(taken) >= MaxImported <=> Before(f, l) >= MaxImported
<1> DEFINE A == {g \in Files : g < f /\ Acceptable(g, l)}
           T == {g \in Files : g < f /\ Acceptable(g, l) /\ Before(g, l) < MaxImported}
           rest == {g \in A : ~ (Before(g, l) < MaxImported)}
<1>1. /\ T \subseteq A /\ IsFiniteSet(A) /\ IsFiniteSet(T)
      /\ Cardinality(A) \in Nat /\ Cardinality(T) \in Nat /\ Cardinality(T) <= Cardinality(A)
      /\ MaxImported \in Nat /\ Files \subseteq Nat
  BY FilesAreNumbers, FS_Subset
<1>2. Cardinality(A) = Before(f, l)
  BY DEF Before
<1>3. CASE rest = {}
  <2>1. A = T
    BY <1>3
  <2>2. QED
    BY <1>2, <2>1
<1>4. CASE rest # {}
  <2>1. PICK g \in rest : \A h \in rest : g <= h
    <3>1. rest \subseteq Nat
      BY <1>1
    <3> HIDE DEF rest
    <3>2. QED
      BY <1>4, <3>1, LeastNumber
  <2> DEFINE B == {h \in Files : h < g /\ Acceptable(h, l)}
  <2>2. g \in Files /\ g < f /\ Before(g, l) >= MaxImported /\ Cardinality(B) = Before(g, l)
    <3>1. B \in SUBSET Files
      OBVIOUS
    <3>2. Cardinality(B) = Before(g, l)
      BY DEF Before
    <3>3. Cardinality(B) \in Nat
      BY <3>1, FilesAreNumbers
    <3>4. QED
      BY <1>1, <3>2, <3>3
  <2>3. B \subseteq T
    <3> SUFFICES ASSUME NEW h \in B PROVE h \in T
      OBVIOUS
    <3>1. h \in Nat /\ g \in Nat /\ f \in Nat /\ h < g /\ g < f
      BY <1>1, <2>2
    <3>2. h \in A /\ ~ (g <= h)
      BY <3>1
    <3>3. h \notin rest
      <4> HIDE DEF rest
      <4>1. QED
        BY <2>1, <3>2
    <3>4. QED
      BY <3>2, <3>3
  <2>4. Cardinality(B) <= Cardinality(T)
    BY <1>1, <2>3, FS_Subset
  <2>5. Cardinality(B) \in Nat
    BY <1>1, <2>3, FS_Subset, FS_CardinalityType
  <2> HIDE DEF A, T, B, rest
  <2>6. Cardinality(T) >= MaxImported /\ Cardinality(A) >= MaxImported
    BY <1>1, <2>2, <2>4, <2>5
  <2>7. QED
    BY <1>2, <2>6 DEF T
<1>5. QED
  BY <1>3, <1>4

(* A file of the lane it is at is classified, if those before it are.      *)
LEMMA HandledInLane ==
  ASSUME IInv, QueueInOrder, step = "classify", NEW f \in Heads(queue)
  PROVE  /\ f \in queue /\ f \in Files /\ lane \in DOMAIN Lanes
         /\ InLane(f, lane) /\ Present(f) /\ ~Handled(f)
         /\ \A g \in Files : InLane(g, lane) => (Handled(g) <=> Present(g) /\ g < f)
<1>1. /\ f \in queue /\ queue \subseteq Files /\ queue \subseteq Listing(lane)
      /\ lane \in DOMAIN Lanes
      /\ \A g \in queue : ~Ahead(g, f)
      /\ \A g \in Listing(lane) \ queue, h \in queue : g < h
  BY DEF IInv, TypeOK, Position, QueueInOrder, Heads
<1>2. InLane(f, lane) /\ Present(f)
  BY <1>1 DEF Listing
<1>3. \A g \in queue : ~ (g < f)
  <2> TAKE g \in queue
  <2>1. InLane(g, lane)
    BY <1>1 DEF Listing
  <2>2. FileNames[g].lane = FileNames[f].lane
    BY <1>2, <2>1 DEF InLane
  <2>3. QED
    BY <1>1, <2>2 DEF Ahead
<1>4. Files \subseteq Nat /\ DOMAIN Lanes \subseteq Nat
  BY FilesAreNumbers
<1>5. ASSUME NEW g \in Files, InLane(g, lane)
      PROVE  Handled(g) <=> Present(g) /\ g \notin queue
  <2>1. \A l \in DOMAIN Lanes : InLane(g, l) => l = lane
    BY <1>1, <1>5, OneLane
  <2>2. ~ (lane < lane)
    BY <1>1, <1>4
  <2>3. QED
    BY <1>1, <1>5, <2>1, <2>2 DEF Handled
<1>6. ASSUME NEW g \in Files, InLane(g, lane), Present(g)
      PROVE  g \notin queue <=> g < f
  <2>1. g \in Listing(lane)
    BY <1>6 DEF Listing
  <2>2. QED
    BY <1>1, <1>3, <2>1
<1>7. QED
  BY <1>1, <1>2, <1>5, <1>6

(* A lane is full when as many acceptable files came before.               *)
LEMMA FullIs ==
  ASSUME IInv, QueueInOrder, ImportedTaken, step = "classify", NEW f \in Heads(queue)
  PROVE  Full(lane) <=> ~ (Before(f, lane) < MaxImported)
<1> DEFINE at == {i \in DOMAIN imported : InLane(imported[i].file, lane)}
           T  == {g \in Files : g < f /\ Acceptable(g, lane) /\ Before(g, lane) < MaxImported}
           file == [i \in at |-> imported[i].file]
<1>1. /\ f \in Files /\ lane \in DOMAIN Lanes
      /\ \A g \in Files : InLane(g, lane) => (Handled(g) <=> Present(g) /\ g < f)
  BY HandledInLane
<1>2. /\ \A i \in DOMAIN imported : imported[i].file \in Files
      /\ IsFiniteSet(DOMAIN imported)
  BY Imports DEF IInv
<1>3. ASSUME NEW g \in Files, InLane(g, lane)
      PROVE  Taken(g) <=> Acceptable(g, lane) /\ Before(g, lane) < MaxImported
  <2>1. \A l \in DOMAIN Lanes : Acceptable(g, l) => l = lane
    BY <1>1, <1>3, OneLane DEF Acceptable
  <2>2. QED
    BY <1>1, <2>1 DEF Taken
<1>4. \A i \in at : file[i] \in T
  <2> TAKE i \in at
  <2>1. imported[i].file \in Files /\ InLane(imported[i].file, lane)
    BY <1>2
  <2>2. Handled(imported[i].file) /\ Taken(imported[i].file)
    BY DEF ImportedTaken
  <2>3. QED
    BY <1>1, <1>3, <2>1, <2>2
<1>5. \A g \in T : \E i \in at : file[i] = g
  <2> TAKE g \in T
  <2>1. InLane(g, lane) /\ Present(g)
    BY DEF Acceptable
  <2>2. Handled(g) /\ Taken(g)
    BY <1>1, <1>3, <2>1
  <2>3. PICK i \in DOMAIN imported : imported[i].file = g
    BY <2>2 DEF ImportedTaken
  <2>4. i \in at
    BY <2>1, <2>3
  <2>5. QED
    BY <2>3, <2>4
<1>6. \A i, j \in at : file[i] = file[j] => i = j
  BY DEF ImportedTaken
<1>7. file \in Bijection(at, T)
  <2>1. file \in [at -> T]
    BY <1>4
  <2> HIDE DEF file, at, T
  <2>2. QED
    BY <1>5, <1>6, <2>1 DEF Bijection, Injection, Surjection, IsInjective
<1>8. IsFiniteSet(at)
  BY <1>2, FS_Subset
<1>9. Cardinality(at) = Cardinality(T)
  <2> HIDE DEF file, at, T
  <2>1. QED
    BY <1>7, <1>8, FS_Bijection DEF ExistsBijection
<1>10. Cardinality(T) >= MaxImported <=> Before(f, lane) >= MaxImported
  BY <1>1, TakenFill
<1>11. Full(lane) <=> Cardinality(at) >= MaxImported
  BY DEF Full
<1>12. Before(f, lane) \in Nat /\ MaxImported \in Nat
  <2>1. {g \in Files : g < f /\ Acceptable(g, lane)} \in SUBSET Files
    OBVIOUS
  <2>2. QED
    BY <2>1, FilesAreNumbers DEF Before
<1> HIDE DEF at, T
<1>13. QED
  BY <1>9, <1>10, <1>11, <1>12

(* A file is rejected if it is not to be taken.                            *)
LEMMA ReasonsAre ==
  ASSUME IInv, QueueInOrder, ImportedTaken, step = "classify", NEW f \in Heads(queue)
  PROVE  /\ Reasons(f, lane) = {} <=> Taken(f)
         /\ \A reason \in Reasons(f, lane) :
              reason = "private-key-material-not-accepted" <=> PrivateKey(f)
<1>1. f \in Files /\ lane \in DOMAIN Lanes /\ InLane(f, lane) /\ Present(f)
  BY HandledInLane
<1>2. \A l \in DOMAIN Lanes : InLane(f, l) => l = lane
  BY <1>1, OneLane
<1>3. Taken(f) <=> Acceptable(f, lane) /\ ~Full(lane)
  BY <1>1, <1>2, FullIs DEF Taken, Acceptable
<1>4. PrivateKey(f) <=> FileNames[f].flaw = "none" /\ FileNames[f].private /\ ~Full(lane)
  BY <1>1, <1>2, FullIs DEF PrivateKey
<1>5. FileNames[f].flaw \in {"none", "directory-depth-limit", "unsupported-file-type", "path-too-long"}
  BY <1>1, ImportAssumption DEF Files, FileShape
<1>6. Reasons(f, lane) = {} <=> Taken(f)
  BY <1>1, <1>3, <1>5 DEF Reasons, NameRejected, Acceptable
<1>7. \A reason \in Reasons(f, lane) :
        reason = "private-key-material-not-accepted" <=> PrivateKey(f)
  BY <1>4, <1>5 DEF Reasons, NameRejected
<1>8. QED
  BY <1>6, <1>7

(* A file is taken into the report.                                        *)
LEMMA ImportQInv ==
  ASSUME IInv, QueueInOrder, ImportedTaken, RejectedRest, step = "classify",
         NEW f \in Heads(queue), Reasons(f, lane) = {},
         imported' = Append(imported, [file |-> f, digest |-> disk[f].digest]),
         queue' = queue \ {f}, UNCHANGED <<disk, step, lane, rejected>>,
         \A g \in Files : Handled(g)' <=> Handled(g) \/ g = f
  PROVE  ImportedTaken' /\ RejectedRest'
<1> DEFINE Artifact == [file : Files, digest : {c.digest : c \in AllContents}]
<1>1. f \in Files /\ Present(f) /\ ~Handled(f) /\ Taken(f)
  BY HandledInLane, ReasonsAre
<1>2. imported \in Seq(Artifact) /\ [file |-> f, digest |-> disk[f].digest] \in Artifact
  <2>1. disk[f] \in AllContents
    BY <1>1 DEF IInv, TypeOK, AllContents
  <2>2. QED
    BY <1>1, <2>1 DEF IInv, TypeOK
<1> HIDE DEF Artifact
<1>3. PICK n : n = Len(imported) + 1
  OBVIOUS
<1>4. /\ DOMAIN imported' = 1..n /\ DOMAIN imported = 1..(n - 1) /\ n \in Nat \ {0}
      /\ \A i \in DOMAIN imported : imported'[i] = imported[i]
      /\ imported'[n] = [file |-> f, digest |-> disk[f].digest]
  BY <1>2, <1>3, AppendProperties, LenProperties
<1>5. /\ \A i \in DOMAIN imported' : i \in DOMAIN imported \/ i = n
      /\ \A i \in DOMAIN imported : i \in DOMAIN imported' /\ i # n
      /\ n \in DOMAIN imported'
      /\ imported'[n].file = f /\ imported'[n].digest = disk[f].digest
  BY <1>4
<1>6. \A g : (Taken(g)' <=> Taken(g)) /\ (PrivateKey(g)' <=> PrivateKey(g))
  BY DiskAlone
<1>7. /\ \A i \in DOMAIN imported : imported[i].file \in Files
      /\ \A i \in DOMAIN rejected : rejected[i].file \in Files
  BY Imports DEF IInv
<1>8. \A i \in DOMAIN imported' :
        \E g \in Files : /\ imported'[i].file = g /\ Handled(g)' /\ Taken(g)
                         /\ imported'[i].digest = disk[g].digest
  <2> TAKE i \in DOMAIN imported'
  <2>1. CASE i \in DOMAIN imported
    <3>1. PICK g \in Files : g = imported[i].file
      BY <1>7, <2>1
    <3>2. Handled(g) /\ Taken(g) /\ imported[i].digest = disk[g].digest
      BY <2>1, <3>1 DEF ImportedTaken
    <3>3. QED
      BY <1>4, <2>1, <3>1, <3>2
  <2>2. CASE i = n
    <3>1. Handled(f)'
      BY <1>1
    <3>2. QED
      BY <1>1, <1>5, <2>2, <3>1
  <2>3. QED
    BY <1>5, <2>1, <2>2
<1>9. \A g \in Files : Handled(g)' /\ Taken(g) => \E i \in DOMAIN imported' : imported'[i].file = g
  <2> TAKE g \in Files
  <2>1. CASE g = f
    BY <1>5, <2>1
  <2>2. CASE Handled(g) /\ Taken(g)
    BY <1>4, <1>5, <2>2 DEF ImportedTaken
  <2>3. QED
    BY <2>1, <2>2
<1>10. \A i, j \in DOMAIN imported' : imported'[i].file = imported'[j].file => i = j
  <2>1. \A i \in DOMAIN imported : imported'[i].file # f
    BY <1>1, <1>4 DEF ImportedTaken
  <2>2. \A i, j \in DOMAIN imported : imported'[i].file = imported'[j].file => i = j
    BY <1>4 DEF ImportedTaken
  <2>3. QED
    BY <1>5, <2>1, <2>2
<1>11. ImportedTaken'
  <2>1. \A i \in DOMAIN imported' : /\ Handled(imported[i].file)'
                                    /\ Taken(imported[i].file)'
                                    /\ imported'[i].digest = disk'[imported'[i].file].digest
    <3> TAKE i \in DOMAIN imported'
    <3>1. PICK g \in Files : /\ imported'[i].file = g /\ Handled(g)' /\ Taken(g)
                             /\ imported'[i].digest = disk[g].digest
      BY <1>8
    <3>2. Handled(imported[i].file)'
      BY <3>1
    <3>3. Taken(imported[i].file)'
      BY <1>6, <3>1
    <3>4. QED
      BY <3>1, <3>2, <3>3
  <2>2. \A g \in Files : Handled(g)' /\ Taken(g)' => \E i \in DOMAIN imported' : imported'[i].file = g
    BY <1>6, <1>9
  <2>3. QED
    BY <1>10, <2>1, <2>2 DEF ImportedTaken
<1>12. RejectedRest'
  BY <1>1, <1>6, <1>7 DEF RejectedRest
<1>13. QED
  BY <1>11, <1>12

(* A file is rejected.                                                     *)
LEMMA RejectQInv ==
  ASSUME IInv, QueueInOrder, ImportedTaken, RejectedRest, step = "classify",
         NEW f \in Heads(queue), NEW reason \in Reasons(f, lane),
         rejected' = Append(rejected, [file |-> f, reason |-> reason]),
         queue' = queue \ {f}, UNCHANGED <<disk, step, lane, imported>>,
         \A g \in Files : Handled(g)' <=> Handled(g) \/ g = f
  PROVE  ImportedTaken' /\ RejectedRest'
<1> DEFINE Rejection == [file : Files, reason : RejectionReasons]
<1>1. /\ f \in Files /\ Present(f) /\ ~Handled(f) /\ ~Taken(f)
      /\ reason = "private-key-material-not-accepted" <=> PrivateKey(f)
  BY HandledInLane, ReasonsAre
<1>2. rejected \in Seq(Rejection) /\ [file |-> f, reason |-> reason] \in Rejection
  BY <1>1, ReasonsKnown DEF IInv, TypeOK
<1> HIDE DEF Rejection
<1>3. PICK n : n = Len(rejected) + 1
  OBVIOUS
<1>4. /\ DOMAIN rejected' = 1..n /\ DOMAIN rejected = 1..(n - 1) /\ n \in Nat \ {0}
      /\ \A i \in DOMAIN rejected : rejected'[i] = rejected[i]
      /\ rejected'[n] = [file |-> f, reason |-> reason]
  BY <1>2, <1>3, AppendProperties, LenProperties
<1>5. /\ \A i \in DOMAIN rejected' : i \in DOMAIN rejected \/ i = n
      /\ \A i \in DOMAIN rejected : i \in DOMAIN rejected'
      /\ n \in DOMAIN rejected'
      /\ rejected'[n].file = f /\ rejected'[n].reason = reason
  BY <1>4
<1>6. \A g : (Taken(g)' <=> Taken(g)) /\ (PrivateKey(g)' <=> PrivateKey(g))
  BY DiskAlone
<1>7. /\ \A i \in DOMAIN imported : imported[i].file \in Files
      /\ \A i \in DOMAIN rejected : rejected[i].file \in Files
  BY Imports DEF IInv
<1>8. \A i \in DOMAIN rejected' :
        \E g \in Files : /\ rejected'[i].file = g /\ Handled(g)' /\ ~Taken(g)
                         /\ rejected'[i].reason = "private-key-material-not-accepted" <=> PrivateKey(g)
  <2> TAKE i \in DOMAIN rejected'
  <2>1. CASE i \in DOMAIN rejected
    <3>1. PICK g \in Files : g = rejected[i].file
      BY <1>7, <2>1
    <3>2. /\ Handled(g) /\ ~Taken(g)
          /\ rejected[i].reason = "private-key-material-not-accepted" <=> PrivateKey(g)
      BY <2>1, <3>1 DEF RejectedRest
    <3>3. QED
      BY <1>4, <2>1, <3>1, <3>2
  <2>2. CASE i = n
    <3>1. Handled(f)'
      BY <1>1
    <3>2. QED
      BY <1>1, <1>5, <2>2, <3>1
  <2>3. QED
    BY <1>5, <2>1, <2>2
<1>9. \A g \in Files : Handled(g)' /\ ~Taken(g) => \E i \in DOMAIN rejected' : rejected'[i].file = g
  <2> TAKE g \in Files
  <2>1. CASE g = f
    BY <1>5, <2>1
  <2>2. CASE Handled(g) /\ ~Taken(g)
    BY <1>4, <1>5, <2>2 DEF RejectedRest
  <2>3. QED
    BY <2>1, <2>2
<1>10. RejectedRest'
  <2>1. \A i \in DOMAIN rejected' :
          /\ Handled(rejected[i].file)' /\ ~ (Taken(rejected[i].file)')
          /\ rejected'[i].reason = "private-key-material-not-accepted"
               <=> PrivateKey(rejected[i].file)'
    <3> TAKE i \in DOMAIN rejected'
    <3>1. PICK g \in Files :
            /\ rejected'[i].file = g /\ Handled(g)' /\ ~Taken(g)
            /\ rejected'[i].reason = "private-key-material-not-accepted" <=> PrivateKey(g)
      BY <1>8
    <3>2. Handled(rejected[i].file)'
      BY <3>1
    <3>3. ~ (Taken(rejected[i].file)') /\ (PrivateKey(rejected[i].file)' <=> PrivateKey(g))
      BY <1>6, <3>1
    <3>4. QED
      BY <3>1, <3>2, <3>3
  <2>2. \A g \in Files : Handled(g)' /\ ~ (Taken(g)') =>
          \E i \in DOMAIN rejected' : rejected'[i].file = g
    BY <1>6, <1>9
  <2>3. QED
    BY <2>1, <2>2 DEF RejectedRest
<1>11. ImportedTaken'
  BY <1>1, <1>6, <1>7 DEF ImportedTaken
<1>12. QED
  BY <1>10, <1>11

(* A file that is classified is handled: imported if it is to be taken,    *)
(* rejected if not.                                                        *)
LEMMA ClassifyQInv ==
  ASSUME IInv, QInv, Classify, Quiet'
  PROVE  QInv'
<1>1. PICK f \in Heads(queue) :
        LET reasons == Reasons(f, lane)
        IN  \/ \E reason \in reasons :
                 /\ rejected' = Append(rejected, [file |-> f, reason |-> reason])
                 /\ queue' = queue \ {f}
                 /\ UNCHANGED <<step, imported>>
            \/ /\ reasons = {} /\ Present(f)
               /\ imported' = Append(imported, [file |-> f, digest |-> disk[f].digest])
               /\ queue' = queue \ {f}
               /\ UNCHANGED <<step, rejected>>
            \/ /\ reasons = {} /\ ~Present(f)
               /\ step' = "done"
               /\ UNCHANGED <<queue, imported, rejected>>
  BY DEF Classify
<1>2. step = "classify" /\ UNCHANGED <<disk, lane, manifests, broken, report, changes>>
  BY DEF Classify
<1>3. step' # "done"
  BY DEF Quiet
<1>4. queue' = queue \ {f} /\ step' = step
  BY <1>1, <1>3
<1>5. QueueInOrder /\ ImportedTaken /\ RejectedRest /\ ManifestsRead
  BY <1>2 DEF QInv, Quiet
<1>6. /\ f \in queue /\ f \in Files /\ lane \in DOMAIN Lanes
      /\ InLane(f, lane) /\ Present(f) /\ ~Handled(f)
      /\ \A g \in Files : InLane(g, lane) => (Handled(g) <=> Present(g) /\ g < f)
  BY <1>2, <1>5, HandledInLane
<1>7. \A g \in Files : Handled(g)' <=> Handled(g) \/ g = f
  <2> TAKE g \in Files
  <2>1. Present(g)' <=> Present(g)
    BY <1>2, DiskAlone
  <2>2. CASE g = f
    <3>1. Handled(f)' <=> Present(f)' /\ \E l \in DOMAIN Lanes :
             InLane(f, l) /\ (l < lane' \/ (l = lane' /\ step' = "classify" /\ f \notin queue'))
      BY DEF Handled, InLane
    <3>2. QED
      BY <1>2, <1>4, <1>6, <2>1, <2>2, <3>1
  <2>3. CASE g # f
    BY <1>2, <1>4, <2>1, <2>3 DEF Handled, InLane
  <2>4. QED
    BY <2>2, <2>3
<1>8. ImportedTaken' /\ RejectedRest'
  <2>1. CASE \E reason \in Reasons(f, lane) :
               /\ rejected' = Append(rejected, [file |-> f, reason |-> reason])
               /\ queue' = queue \ {f}
               /\ UNCHANGED <<step, imported>>
    <3>1. PICK reason \in Reasons(f, lane) :
            rejected' = Append(rejected, [file |-> f, reason |-> reason])
      BY <2>1
    <3>2. UNCHANGED <<disk, step, lane, imported>>
      BY <1>2, <2>1
    <3>3. QED
      BY <1>2, <1>4, <1>5, <1>7, <3>1, <3>2, RejectQInv
  <2>2. CASE /\ Reasons(f, lane) = {}
             /\ imported' = Append(imported, [file |-> f, digest |-> disk[f].digest])
             /\ UNCHANGED <<step, rejected>>
    <3>1. UNCHANGED <<disk, step, lane, rejected>>
      BY <1>2, <2>2
    <3>2. QED
      BY <1>2, <1>4, <1>5, <1>7, <2>2, <3>1, ImportQInv
  <2>3. QED
    BY <1>1, <1>3, <2>1, <2>2
<1>9. QueueInOrder'
  <2>1. Listing(lane)' = Listing(lane)
    BY <1>2 DEF Listing, Present, InLane
  <2>2. /\ queue \subseteq Listing(lane)
        /\ \A g \in Listing(lane) \ queue, h \in queue : g < h
    BY <1>2, <1>5 DEF QueueInOrder
  <2>3. \A h \in queue' : f < h
    <3> TAKE h \in queue'
    <3>1. /\ h \in queue /\ h # f /\ h \in Files /\ h \in Nat /\ f \in Nat
          /\ InLane(h, lane) /\ Present(h)
      BY <1>4, <1>6, <2>2, FilesAreNumbers DEF Listing
    <3>2. ~ (h < f)
      BY <1>2, <1>6, <2>2, <3>1 DEF Listing, Handled, Heads, Ahead, InLane
    <3>3. QED
      BY <3>1, <3>2
  <2>4. QED
    BY <1>4, <2>1, <2>2, <2>3 DEF QueueInOrder
<1>10. ManifestsRead'
  <2>1. \A g : ~Passed(g) /\ ~Passed(g)'
    BY <1>2, <1>4 DEF Passed
  <2>2. manifests = {} /\ broken = <<>>
    BY <1>5, <2>1 DEF ManifestsRead
  <2>3. manifests' = {} /\ broken' = <<>> /\ step' # "manifests"
    BY <1>2, <1>4, <2>2
  <2>4. manifests' = {[file |-> g, entries |-> Text(g)'] : g \in {h \in Files : Passed(h)' /\ Legible(h)'}}
    BY <2>1, <2>3
  <2>5. QED
    BY <2>1, <2>3, <2>4 DEF ManifestsRead
<1>11. QED
  BY <1>8, <1>9, <1>10 DEF QInv

(* A manifest is come past.                                                *)
LEMMA ReadManifestQInv ==
  ASSUME IInv, QInv, ReadManifest, Quiet'
  PROVE  QInv'
<1>1. PICK f \in Heads(queue) :
        /\ manifests' = IF Present(f) /\ Legible(f)
                        THEN manifests \cup {[file |-> f, entries |-> Text(f)]}
                        ELSE manifests
        /\ broken' = IF Present(f) /\ ~Legible(f) THEN Append(broken, "error") ELSE broken
        /\ queue' = queue \ {f}
  BY DEF ReadManifest
<1>2. step = "manifests" /\ UNCHANGED <<disk, step, lane, imported, rejected, report, changes>>
  BY DEF ReadManifest
<1>3. QueueInOrder /\ ImportedTaken /\ RejectedRest /\ ManifestsRead
  BY <1>2 DEF QInv, Quiet, ReadManifest
<1>4. f \in queue /\ f \in Files /\ f \in ManifestFiles
  BY <1>2, <1>3 DEF Heads, ManifestsRead, ManifestFiles
<1>5. QueueInOrder'
  BY <1>2 DEF QueueInOrder
<1>6. \A g \in Files : Handled(g)' <=> Handled(g)
  BY <1>2 DEF Handled, Present, InLane
<1>7. ImportedTaken' /\ RejectedRest'
  BY <1>2, <1>3, <1>6, SameFiles DEF IInv
<1>8. \A g : Passed(g)' <=> Passed(g) \/ (g = f /\ Present(f))
  BY <1>1, <1>2, <1>4, DiskAlone DEF Passed
<1>9. \A g : (Legible(g)' <=> Legible(g)) /\ Text(g)' = Text(g)
  BY <1>2, DiskAlone
<1>10. manifests' = {[file |-> g, entries |-> Text(g)'] : g \in {h \in Files : Passed(h)' /\ Legible(h)'}}
  <2>1. \A m : m \in manifests <=>
          \E g \in Files : Passed(g) /\ Legible(g) /\ m = [file |-> g, entries |-> Text(g)]
    BY <1>3 DEF ManifestsRead
  <2>2. \A m : m \in manifests' <=>
          \E g \in Files : Passed(g)' /\ Legible(g)' /\ m = [file |-> g, entries |-> Text(g)']
    <3> TAKE m
    <3>1. m \in manifests' <=> \/ m \in manifests
                               \/ Present(f) /\ Legible(f) /\ m = [file |-> f, entries |-> Text(f)]
      BY <1>1
    <3>2. QED
      BY <1>4, <1>8, <1>9, <2>1, <3>1
  <2>3. QED
    BY <2>2
<1>11. broken' # <<>> <=> \E g \in Files : Passed(g)' /\ ~Legible(g)'
  <2>1. broken # <<>> <=> \E g \in Files : Passed(g) /\ ~Legible(g)
    BY <1>3 DEF ManifestsRead
  <2>2. Append(broken, "error") # <<>>
    <3>1. broken \in Seq({"error"}) /\ "error" \in {"error"}
      BY DEF IInv, TypeOK
    <3>2. Len(Append(broken, "error")) = Len(broken) + 1 /\ Len(broken) \in Nat
      BY <3>1, AppendProperties, LenProperties
    <3>3. Len(<<>>) = 0
      OBVIOUS
    <3>4. QED
      BY <3>2, <3>3
  <2>3. QED
    BY <1>1, <1>4, <1>8, <1>9, <2>1, <2>2
<1>12. ManifestsRead'
  <2>1. queue' \subseteq ManifestFiles
    BY <1>1, <1>2, <1>3 DEF ManifestsRead
  <2>2. QED
    BY <1>10, <1>11, <2>1 DEF ManifestsRead
<1>13. QED
  BY <1>5, <1>7, <1>12 DEF QInv

(* Every step of a compilation keeps what it knows of files nobody         *)
(* changed; a change ends it.                                              *)
LEMMA StepQInv ==
  ASSUME IInv, QInv, Next
  PROVE  QInv'
<1> SUFFICES ASSUME Quiet' PROVE QInv'
  BY DEF QInv
<1>1. CASE Begin
  <2>1. /\ step' = "list" /\ disk' = disk /\ imported' = <<>> /\ rejected' = <<>> /\ broken' = <<>>
        /\ queue' = {} /\ manifests' = {} /\ lane' = 1
    BY <1>1 DEF Begin, Cleared
  <2>2. \A f : ~Handled(f)' /\ ~Passed(f)'
    BY <2>1, FilesAreNumbers DEF Handled, Passed
  <2>3. DOMAIN <<>> = {}
    OBVIOUS
  <2>4. ImportedTaken' /\ RejectedRest' /\ QueueInOrder'
    BY <2>1, <2>2, <2>3 DEF ImportedTaken, RejectedRest, QueueInOrder
  <2>5. manifests' = {[file |-> g, entries |-> Text(g)'] : g \in {h \in Files : Passed(h)' /\ Legible(h)'}}
    BY <2>1, <2>2
  <2>6. ManifestsRead'
    BY <2>1, <2>2, <2>5 DEF ManifestsRead
  <2>7. QED
    BY <2>4, <2>6 DEF QInv
<1>2. CASE ListLane
  <2>1. /\ step = "list" /\ step' = "classify" /\ queue' = Listing(lane)
        /\ UNCHANGED <<disk, lane, imported, rejected, manifests, broken, report, changes>>
    BY <1>2 DEF ListLane
  <2>2. ImportedTaken /\ RejectedRest /\ ManifestsRead
    BY <2>1 DEF QInv, Quiet
  <2>3. \A f \in Files : Handled(f)' <=> Handled(f)
    <3> TAKE f \in Files
    <3>1. Present(f)' <=> Present(f)
      BY <2>1, DiskAlone
    <3>2. Present(f) => \A l \in DOMAIN Lanes : InLane(f, l) /\ l = lane => f \in queue'
      BY <2>1 DEF Listing
    <3>3. QED
      BY <2>1, <3>1, <3>2 DEF Handled, InLane
  <2>4. ImportedTaken' /\ RejectedRest'
    BY <2>1, <2>2, <2>3, SameFiles DEF IInv
  <2>5. Listing(lane)' = Listing(lane)
    BY <2>1 DEF Listing, Present, InLane
  <2>6. QueueInOrder'
    BY <2>1, <2>5 DEF QueueInOrder
  <2>7. \A f : ~Passed(f) /\ ~Passed(f)'
    BY <2>1 DEF Passed
  <2>8. manifests = {} /\ broken = <<>>
    BY <2>2, <2>7 DEF ManifestsRead
  <2>9. manifests' = {[file |-> g, entries |-> Text(g)'] : g \in {h \in Files : Passed(h)' /\ Legible(h)'}}
    BY <2>1, <2>7, <2>8
  <2>10. ManifestsRead'
    BY <2>1, <2>7, <2>8, <2>9 DEF ManifestsRead
  <2>11. QED
    BY <2>4, <2>6, <2>10 DEF QInv
<1>3. CASE NextLane
  <2>1. /\ step = "classify" /\ queue = {} /\ lane' = lane + 1
        /\ \/ step' = "manifests" /\ queue' = ManifestFiles
           \/ step' = "list" /\ queue' = {}
        /\ UNCHANGED <<disk, imported, rejected, manifests, broken, report, changes>>
    BY <1>3 DEF NextLane
  <2>2. ImportedTaken /\ RejectedRest /\ ManifestsRead
    BY <2>1 DEF QInv, Quiet
  <2>3. lane \in Nat /\ DOMAIN Lanes \subseteq Nat
    BY FilesAreNumbers DEF IInv, TypeOK
  <2>4. \A f \in Files : Handled(f)' <=> Handled(f)
    <3> TAKE f \in Files
    <3>1. Present(f)' <=> Present(f)
      BY <2>1, DiskAlone
    <3>2. \A l \in DOMAIN Lanes : l < lane + 1 <=> l < lane \/ l = lane
      BY <2>3
    <3>3. QED
      BY <2>1, <3>1, <3>2 DEF Handled, InLane
  <2>5. ImportedTaken' /\ RejectedRest'
    BY <2>1, <2>2, <2>4, SameFiles DEF IInv
  <2>6. QueueInOrder'
    BY <2>1 DEF QueueInOrder
  <2>7. \A f : ~Passed(f) /\ ~Passed(f)'
    BY <2>1 DEF Passed
  <2>8. manifests = {} /\ broken = <<>>
    BY <2>2, <2>7 DEF ManifestsRead
  <2>9. manifests' = {[file |-> g, entries |-> Text(g)'] : g \in {h \in Files : Passed(h)' /\ Legible(h)'}}
    BY <2>1, <2>7, <2>8
  <2>10. ManifestsRead'
    BY <2>1, <2>7, <2>8, <2>9 DEF ManifestsRead
  <2>11. QED
    BY <2>5, <2>6, <2>10 DEF QInv
<1>4. CASE Classify
  BY <1>4, ClassifyQInv
<1>5. CASE ReadManifest
  BY <1>5, ReadManifestQInv
<1>6. CASE Compile \/ Exit
  BY <1>6 DEF Compile, Exit, Quiet
<1>7. CASE \E f \in Files : \E c \in MayContain(f) : Change(f, c)
  <2>1. step' = step
    BY <1>7 DEF Change
  <2>2. step # "staging" /\ changes' = 0
    BY <2>1 DEF Quiet
  <2>3. changes' = changes + 1 /\ changes \in Nat
    BY <1>7, <2>2 DEF Change, IInv, TypeOK
  <2>4. QED
    BY <2>2, <2>3
<1>8. QED
  BY <1>1, <1>2, <1>3, <1>4, <1>5, <1>6, <1>7 DEF Next, Import

(* It depends on the variables alone.                                      *)
LEMMA StutterQInv ==
  ASSUME IInv, QInv, UNCHANGED vars
  PROVE  QInv'
<1> SUFFICES ASSUME Quiet' PROVE QInv'
  BY DEF QInv
<1>1. QueueInOrder /\ ImportedTaken /\ RejectedRest /\ ManifestsRead
  BY DEF vars, QInv, Quiet
<1>2. \A f \in Files : Handled(f)' <=> Handled(f)
  BY DEF vars, Handled, Present, InLane
<1>3. ImportedTaken' /\ RejectedRest'
  BY <1>1, <1>2, SameFiles DEF vars, IInv
<1>4. Listing(lane)' = Listing(lane)
  BY DEF vars, Listing, Present, InLane
<1>5. QueueInOrder'
  BY <1>1, <1>4 DEF vars, QueueInOrder
<1>6. \A f : (Passed(f)' <=> Passed(f)) /\ (Legible(f)' <=> Legible(f)) /\ Text(f)' = Text(f)
  BY DiskAlone DEF vars, Passed
<1>7. ManifestsRead'
  BY <1>1, <1>6 DEF vars, ManifestsRead
<1>8. QED
  BY <1>3, <1>5, <1>7 DEF QInv

(* What a compilation has imported, rejected and read of files nobody      *)
(* changes is, at each of its steps, given by the disk.                    *)
THEOREM QuietKnown == Spec => []QInv
<1>1. Init => QInv
  BY DEF Init, QInv, Quiet
<1>2. IInv /\ QInv /\ [Next]_vars => QInv'
  BY StepQInv, StutterQInv
<1> HIDE DEF Init, Next, vars, IInv, QInv
<1>3. QED
  BY <1>1, <1>2, ImportKnown, PTL DEF Spec

-----------------------------------------------------------------------------
(* The report on files nobody changed.                                     *)

(* What the report is to be depends on the disk alone.                     *)
LEMMA MeaningAlone ==
  ASSUME UNCHANGED disk
  PROVE  /\ Artifacts' = Artifacts
         /\ \A f : Meaning(f)' = Meaning(f) /\ (Binds(f)' <=> Binds(f))
         /\ Wrong' <=> Wrong
         /\ Doubtful' <=> Doubtful
<1>1. \A f : /\ Present(f)' <=> Present(f)
             /\ \A l : Before(f, l)' = Before(f, l)
             /\ Taken(f)' <=> Taken(f)
             /\ Legible(f)' <=> Legible(f)
             /\ Text(f)' = Text(f)
  BY DiskAlone
<1>2. Artifacts' = Artifacts
  BY <1>1 DEF Artifacts
<1>3. \A f : IsManifest(f)' <=> IsManifest(f)
  BY <1>1 DEF IsManifest
<1>4. Places' = Places
  <2>1. \A p : p \in Places <=> \E f \in Files : IsManifest(f) /\ Legible(f) /\ p \in {f} \X DOMAIN Text(f)
    BY DEF Places
  <2>2. \A p : p \in Places' <=>
          \E f \in Files : IsManifest(f)' /\ Legible(f)' /\ p \in {f} \X DOMAIN (Text(f)')
    BY DEF Places
  <2>3. \A p : p \in Places' <=> p \in Places
    BY <1>1, <1>3, <2>1, <2>2
  <2>4. ASSUME NEW P, NEW Q, \A p : p \in P <=> p \in Q PROVE P = Q
    BY <2>4
  <2>5. QED
    BY <2>3, <2>4
<1>5. \A p : EntryAt(p)' = EntryAt(p)
  BY <1>1 DEF EntryAt
<1>6. \A f : Says(f)' = Says(f)
  BY <1>4, <1>5 DEF Says
<1>7. \A f : Meaning(f)' = Meaning(f)
  <2> TAKE f
  <2>1. Says(f)' = Says(f)
    BY <1>6
  <2>2. PICK p : p = CHOOSE q \in Says(f) : TRUE
    OBVIOUS
  <2>3. p = CHOOSE q \in Says(f)' : TRUE
    BY <2>1, <2>2
  <2>4. Meaning(f) = IF Says(f) = {} THEN FileNames[f] ELSE EntryAt(p)
    BY <2>2 DEF Meaning
  <2>5. Meaning(f)' = IF Says(f)' = {} THEN FileNames[f] ELSE EntryAt(p)'
    BY <2>3 DEF Meaning, EntryAt, Text
  <2>6. QED
    BY <1>5, <2>1, <2>4, <2>5
<1>8. \A f : Binds(f)' <=> Binds(f)
  BY <1>7 DEF Binds
<1>9. Wrong' <=> Wrong
  BY <1>1, <1>2, <1>3, <1>4, <1>5, <1>6, <1>7, <1>8 DEF Wrong
<1>10. Doubtful' <=> Doubtful
  BY <1>1, <1>2, <1>5, <1>6 DEF Doubtful
<1>11. QED
  BY <1>2, <1>7, <1>8, <1>9, <1>10

(* What has become of the files when the report is made.                   *)
FilesKnown ==
  /\ \A i \in DOMAIN imported : /\ imported[i].file \in Artifacts
                                /\ imported[i].digest = disk[imported[i].file].digest
  /\ \A f \in Artifacts : \E i \in DOMAIN imported : imported[i].file = f
  /\ \A i, j \in DOMAIN imported : imported[i].file = imported[j].file => i = j
  /\ \A i \in DOMAIN rejected :
       /\ rejected[i].file \in Files \ Artifacts /\ Present(rejected[i].file)
       /\ \E l \in DOMAIN Lanes : InLane(rejected[i].file, l)
       /\ rejected[i].reason = "private-key-material-not-accepted"
            <=> PrivateKey(rejected[i].file)
  /\ \A f \in Files \ Artifacts, l \in DOMAIN Lanes :
       InLane(f, l) /\ Present(f) => \E i \in DOMAIN rejected : rejected[i].file = f
  /\ manifests = {[file |-> f, entries |-> Text(f)] : f \in {g \in Files : IsManifest(g) /\ Legible(g)}}
  /\ broken # <<>> <=> \E f \in Files : IsManifest(f) /\ ~Legible(f)

(* When the report is made, every file has been handled and every manifest *)
(* come past.                                                              *)
LEMMA KnownAtCompile ==
  ASSUME IInv, QInv, Compile, changes = 0
  PROVE  FilesKnown
<1>1. step = "manifests" /\ queue = {} /\ lane = Len(Lanes) + 1
  BY DEF Compile, IInv, Position
<1>2. ImportedTaken /\ RejectedRest /\ ManifestsRead
  BY <1>1 DEF QInv, Quiet
<1>3. ASSUME NEW f \in Files
      PROVE  Handled(f) <=> Present(f) /\ \E l \in DOMAIN Lanes : InLane(f, l)
  <2>1. \A l \in DOMAIN Lanes : l < lane
    BY <1>1, FilesAreNumbers
  <2>2. QED
    BY <1>1, <2>1 DEF Handled
<1>4. \A f : f \in Artifacts <=> f \in Files /\ Taken(f)
  BY DEF Artifacts
<1>5. \A f \in Artifacts : Handled(f)
  BY <1>3, <1>4 DEF Taken, Acceptable
<1>6. /\ \A i \in DOMAIN imported : imported[i].file \in Files
      /\ \A i \in DOMAIN rejected : rejected[i].file \in Files
  BY Imports DEF IInv
<1>7. \A f : Passed(f) <=> IsManifest(f)
  BY <1>1 DEF Passed, IsManifest
<1>8. /\ \A i \in DOMAIN imported : /\ imported[i].file \in Artifacts
                                    /\ imported[i].digest = disk[imported[i].file].digest
      /\ \A f \in Artifacts : \E i \in DOMAIN imported : imported[i].file = f
      /\ \A i, j \in DOMAIN imported : imported[i].file = imported[j].file => i = j
  BY <1>2, <1>4, <1>5, <1>6 DEF ImportedTaken
<1>9. /\ \A i \in DOMAIN rejected :
           /\ rejected[i].file \in Files \ Artifacts /\ Present(rejected[i].file)
           /\ \E l \in DOMAIN Lanes : InLane(rejected[i].file, l)
           /\ rejected[i].reason = "private-key-material-not-accepted"
                <=> PrivateKey(rejected[i].file)
      /\ \A f \in Files \ Artifacts, l \in DOMAIN Lanes :
           InLane(f, l) /\ Present(f) => \E i \in DOMAIN rejected : rejected[i].file = f
  BY <1>2, <1>3, <1>4, <1>6 DEF RejectedRest
<1>10. /\ manifests = {[file |-> f, entries |-> Text(f)] :
                         f \in {g \in Files : IsManifest(g) /\ Legible(g)}}
       /\ broken # <<>> <=> \E f \in Files : IsManifest(f) /\ ~Legible(f)
  BY <1>2, <1>7 DEF ManifestsRead
<1>11. QED
  BY <1>8, <1>9, <1>10 DEF FilesKnown

(* The places of the manifests are the entries that were read.             *)
LEMMA PlacesRead ==
  ASSUME IInv, FilesKnown
  PROVE  /\ \A p \in Places : [file |-> p[1], at |-> p[2], entry |-> EntryAt(p)] \in Entries(manifests)
         /\ \A x \in Entries(manifests) : /\ <<x.file, x.at>> \in Places
                                          /\ x.entry = EntryAt(<<x.file, x.at>>)
<1>1. \A m : m \in manifests <=>
        \E f \in Files : IsManifest(f) /\ Legible(f) /\ m = [file |-> f, entries |-> Text(f)]
  BY DEF FilesKnown
<1>2. \A p : p \in Places <=> \E f \in Files : IsManifest(f) /\ Legible(f) /\ p \in {f} \X DOMAIN Text(f)
  BY DEF Places
<1>3. \A x : x \in Entries(manifests) <=>
        \E m \in manifests : \E j \in DOMAIN m.entries :
          x = [file |-> m.file, at |-> j, entry |-> m.entries[j]]
  BY DEF Entries
<1>4. ASSUME NEW p \in Places
      PROVE  [file |-> p[1], at |-> p[2], entry |-> EntryAt(p)] \in Entries(manifests)
  <2>1. PICK f \in Files : IsManifest(f) /\ Legible(f) /\ p \in {f} \X DOMAIN Text(f)
    BY <1>2
  <2>2. PICK j \in DOMAIN Text(f) : p = <<f, j>>
    BY <2>1
  <2>3. p[1] = f /\ p[2] = j /\ EntryAt(p) = Text(f)[j]
    BY <2>2 DEF EntryAt
  <2>4. PICK m : m = [file |-> f, entries |-> Text(f)]
    OBVIOUS
  <2>5. m \in manifests /\ m.file = f /\ m.entries = Text(f)
    BY <1>1, <2>1, <2>4
  <2>6. QED
    BY <1>3, <2>2, <2>3, <2>5
<1>5. ASSUME NEW x \in Entries(manifests)
      PROVE  <<x.file, x.at>> \in Places /\ x.entry = EntryAt(<<x.file, x.at>>)
  <2>1. PICK m \in manifests : \E j \in DOMAIN m.entries :
               x = [file |-> m.file, at |-> j, entry |-> m.entries[j]]
    BY <1>3
  <2>2. PICK j \in DOMAIN m.entries : x = [file |-> m.file, at |-> j, entry |-> m.entries[j]]
    BY <2>1
  <2>3. PICK f \in Files : IsManifest(f) /\ Legible(f) /\ m = [file |-> f, entries |-> Text(f)]
    BY <1>1
  <2>4. x.file = f /\ x.at = j /\ x.entry = Text(f)[j] /\ j \in DOMAIN Text(f)
    BY <2>2, <2>3
  <2>5. <<f, j>> \in Places
    BY <1>2, <2>3, <2>4
  <2>6. EntryAt(<<f, j>>) = Text(f)[j]
    BY DEF EntryAt
  <2>7. QED
    BY <2>4, <2>5, <2>6
<1>6. QED
  BY <1>4, <1>5

(* The entry that counts is what the manifests say of a file.              *)
LEMMA EntrySaid ==
  ASSUME IInv, FilesKnown, NEW f
  PROVE  /\ \A p \in Says(f) : EntryAt(p) \in EntryFor(f, Entries(manifests))
         /\ \A e \in EntryFor(f, Entries(manifests)) : \E p \in Says(f) : e = EntryAt(p)
<1> DEFINE naming == {x \in Entries(manifests) : Names(x.entry, f)}
           Of(p)  == [file |-> p[1], at |-> p[2], entry |-> EntryAt(p)]
<1>1. \A e : e \in EntryFor(f, Entries(manifests)) <=>
        \E x \in naming : e = x.entry /\ \A r \in naming : ~Precedes(r, x)
  BY DEF EntryFor
<1>2. ASSUME NEW p \in Says(f) PROVE EntryAt(p) \in EntryFor(f, Entries(manifests))
  <2>1. /\ p \in Places /\ Names(EntryAt(p), f)
        /\ \A q \in Places : Earlier(q, p) => ~Names(EntryAt(q), f)
    BY DEF Says
  <2>2. PICK x : x = Of(p)
    OBVIOUS
  <2>3. x \in Entries(manifests) /\ x.entry = EntryAt(p) /\ x.file = p[1] /\ x.at = p[2]
    BY <2>1, <2>2, PlacesRead
  <2>4. x \in naming
    BY <2>1, <2>3
  <2>5. ASSUME NEW r \in naming PROVE ~Precedes(r, x)
    <3>1. PICK q : q = <<r.file, r.at>>
      OBVIOUS
    <3>2. q \in Places /\ r.entry = EntryAt(q) /\ q[1] = r.file /\ q[2] = r.at
      BY <3>1, PlacesRead
    <3>3. ~Earlier(q, p)
      BY <2>1, <3>2
    <3>4. QED
      BY <2>3, <3>2, <3>3 DEF Earlier, Precedes
  <2> HIDE DEF naming
  <2>6. QED
    BY <1>1, <2>3, <2>4, <2>5
<1>3. ASSUME NEW e \in EntryFor(f, Entries(manifests)) PROVE \E p \in Says(f) : e = EntryAt(p)
  <2>1. PICK x \in naming : e = x.entry /\ \A r \in naming : ~Precedes(r, x)
    BY <1>1
  <2>2. PICK p : p = <<x.file, x.at>>
    OBVIOUS
  <2>3. /\ p \in Places /\ x.entry = EntryAt(p) /\ p[1] = x.file /\ p[2] = x.at
        /\ Names(EntryAt(p), f)
    <3>1. x \in Entries(manifests) /\ Names(x.entry, f)
      OBVIOUS
    <3>2. QED
      BY <2>2, <3>1, PlacesRead
  <2>4. ASSUME NEW q \in Places, Earlier(q, p) PROVE ~Names(EntryAt(q), f)
    <3>1. PICK r : r = Of(q)
      OBVIOUS
    <3>2. r \in Entries(manifests) /\ r.entry = EntryAt(q) /\ r.file = q[1] /\ r.at = q[2]
      BY <3>1, PlacesRead
    <3>3. Precedes(r, x)
      BY <2>3, <2>4, <3>2 DEF Earlier, Precedes
    <3>4. QED
      BY <2>1, <3>2, <3>3
  <2>5. p \in Says(f)
    BY <2>3, <2>4 DEF Says
  <2>6. QED
    BY <2>1, <2>3, <2>5
<1>4. QED
  BY <1>2, <1>3

(* So a file means in the report what the manifests, or its lane, say.     *)
LEMMA NormalizedMeans ==
  ASSUME IInv, FilesKnown, NEW i \in DOMAIN imported
  PROVE  LET f == imported[i].file
             n == Normalized(imported[i], Entries(manifests))
         IN  /\ n = [file |-> f, digest |-> disk[f].digest, id |-> Meaning(f).id,
                     slot |-> Meaning(f).slot, field |-> Meaning(f).field]
             /\ Optional(Meaning(f).slot)
<1>1. PICK f : f = imported[i].file
  OBVIOUS
<1>2. PICK entries : entries = Entries(manifests)
  OBVIOUS
<1>3. f \in Files /\ imported[i].digest = disk[f].digest
  BY <1>1, Imports DEF FilesKnown, IInv
<1>4. /\ \A p \in Says(f) : EntryAt(p) \in EntryFor(f, entries)
      /\ \A e \in EntryFor(f, entries) : \E p \in Says(f) : e = EntryAt(p)
  BY <1>2, EntrySaid
<1>5. CASE EntryFor(f, entries) = {}
  <2>1. Meaning(f) = FileNames[f]
    BY <1>4, <1>5 DEF Meaning
  <2>2. Normalized(imported[i], entries) =
          [file |-> f, digest |-> disk[f].digest, id |-> Meaning(f).id,
           slot |-> Meaning(f).slot, field |-> Meaning(f).field]
    BY <1>1, <1>3, <1>5, <2>1 DEF Normalized
  <2>3. Optional(FileNames[f].slot)
    BY <1>3, ImportAssumption DEF Files, FileShape
  <2>4. QED
    BY <1>1, <1>2, <2>1, <2>2, <2>3
<1>6. CASE EntryFor(f, entries) # {}
  <2>1. PICK e \in EntryFor(f, entries) : TRUE
    BY <1>6
  <2>2. Says(f) # {} /\ (CHOOSE p \in Says(f) : TRUE) \in Says(f)
    BY <1>4, <2>1
  <2>3. PICK p \in Says(f) : p = CHOOSE q \in Says(f) : TRUE
    BY <2>2
  <2>4. Meaning(f) = EntryAt(p) /\ EntryAt(p) \in EntryFor(f, entries)
    BY <1>4, <2>2, <2>3 DEF Meaning
  <2>5. Meaning(f) = e
    BY <1>2, <2>1, <2>4, OneEntry DEF IInv
  <2>6. Normalized(imported[i], entries) =
          [file |-> imported[i].file, digest |-> imported[i].digest,
           id |-> e.id, slot |-> e.slot, field |-> e.field]
    BY <1>1, <1>2, <2>1, NormalizedBy DEF IInv
  <2>7. Optional(e.slot)
    <3>1. PICK x \in entries : e = x.entry
      BY <2>1 DEF EntryFor
    <3>2. Entry(e)
      BY <1>2, <3>1, EntriesKnown DEF IInv
    <3>3. QED
      BY <3>2 DEF Entry
  <2>8. QED
    BY <1>1, <1>2, <1>3, <2>5, <2>6, <2>7
<1>7. QED
  BY <1>5, <1>6

(* Two of one name with other digests are found, whichever comes first.    *)
LEMMA DuplicatesAre ==
  ASSUME NEW normalized, DOMAIN normalized \subseteq Nat
  PROVE  Duplicates(normalized) # {} <=>
           \E i, j \in Bound(normalized) : /\ normalized[i].id = normalized[j].id
                                           /\ normalized[i].digest # normalized[j].digest
<1>1. ASSUME NEW i \in Bound(normalized), NEW j \in Bound(normalized),
             normalized[i].id = normalized[j].id, normalized[i].digest # normalized[j].digest
      PROVE  Duplicates(normalized) # {}
  BY <1>1, NoDuplicates
<1>2. ASSUME Duplicates(normalized) # {}
      PROVE  \E i, j \in Bound(normalized) : /\ normalized[i].id = normalized[j].id
                                             /\ normalized[i].digest # normalized[j].digest
  BY <1>2 DEF Duplicates
<1>3. QED
  BY <1>1, <1>2

(* The findings are the errors and the doubts of the rules.                *)
LEMMA QuietFindings ==
  ASSUME IInv, FilesKnown
  PROVE  LET entries    == Entries(manifests)
             normalized == [i \in DOMAIN imported |-> Normalized(imported[i], entries)]
             findings   == Findings(entries, normalized)
         IN  /\ findings \in Seq(Severities)
             /\ "error" \in Range(findings) <=> Wrong
             /\ ~Wrong => ("warning" \in Range(findings) <=> Doubtful)
<1>1. PICK entries : entries = Entries(manifests)
  OBVIOUS
<1>2. PICK normalized : normalized = [i \in DOMAIN imported |-> Normalized(imported[i], entries)]
  OBVIOUS
<1>3. PICK findings : findings = Findings(entries, normalized)
  OBVIOUS
<1> DEFINE Differs == \E i \in DOMAIN imported : \E e \in EntryFor(imported[i].file, entries) :
                        AdapterDiffers(imported[i].file, e) \/ DigestDiffers(imported[i], e)
           Private == \E i \in DOMAIN rejected :
                        rejected[i].reason = "private-key-material-not-accepted"
           Undated == \E i \in DOMAIN imported : \E e \in EntryFor(imported[i].file, entries) : ~e.metadata
           Others  == \E i \in DOMAIN rejected :
                        rejected[i].reason # "private-key-material-not-accepted"
           PrivateKeys == \E f \in Files, l \in DOMAIN Lanes :
                            /\ InLane(f, l) /\ Present(f) /\ FileNames[f].flaw = "none"
                            /\ FileNames[f].private /\ Before(f, l) < MaxImported
           Mistaken == \E f \in Artifacts : \E p \in Says(f) :
                         \/ EntryAt(p).adapter \notin {{}, FileNames[f].lane}
                         \/ EntryAt(p).expected \notin {{}, {disk[f].digest}}
           Unmatched == \E p \in Places : \A f \in Artifacts : ~Names(EntryAt(p), f)
           Doubled == \E f, g \in Artifacts : /\ Binds(f) /\ Binds(g) /\ Meaning(f).id = Meaning(g).id
                                              /\ disk[f].digest # disk[g].digest
           Illegible == \E f \in Files : IsManifest(f) /\ ~Legible(f)
           Outside == \E f \in Files \ Artifacts : \E l \in DOMAIN Lanes : InLane(f, l) /\ Present(f)
           Unsure  == \E f \in Artifacts : \E p \in Says(f) : ~EntryAt(p).metadata
<1>4. DOMAIN normalized = DOMAIN imported /\ DOMAIN imported \subseteq Nat
  BY <1>2, LenProperties DEF IInv, TypeOK
<1>5. /\ findings \in Seq(Severities)
      /\ "error" \in Range(findings) <=>
           broken # <<>> \/ Differs \/ Private \/ Missing(imported, entries) # {}
           \/ Duplicates(normalized) # {}
      /\ "warning" \in Range(findings) <=> Undated \/ Others
  BY <1>1, <1>3, <1>4, FindingsAre DEF IInv
<1>6. /\ Wrong <=> Illegible \/ PrivateKeys \/ Mistaken \/ Unmatched \/ Doubled
      /\ Doubtful <=> Outside \/ Unsure
  BY DEF Wrong, Doubtful
<1>7. /\ \A i \in DOMAIN imported : /\ imported[i].file \in Artifacts
                                    /\ imported[i].digest = disk[imported[i].file].digest
      /\ \A f \in Artifacts : \E i \in DOMAIN imported : imported[i].file = f
      /\ \A i \in DOMAIN rejected :
           /\ rejected[i].file \in Files \ Artifacts /\ Present(rejected[i].file)
           /\ \E l \in DOMAIN Lanes : InLane(rejected[i].file, l)
           /\ rejected[i].reason = "private-key-material-not-accepted"
                <=> PrivateKey(rejected[i].file)
      /\ \A f \in Files \ Artifacts, l \in DOMAIN Lanes :
           InLane(f, l) /\ Present(f) => \E i \in DOMAIN rejected : rejected[i].file = f
  BY DEF FilesKnown
<1>8. \A f : /\ \A p \in Says(f) : EntryAt(p) \in EntryFor(f, entries)
             /\ \A e \in EntryFor(f, entries) : \E p \in Says(f) : e = EntryAt(p)
  BY <1>1, EntrySaid
<1>9. broken # <<>> <=> Illegible
  BY DEF FilesKnown
<1>10. Differs <=> Mistaken
  <2>1. ASSUME NEW f \in Artifacts, NEW i \in DOMAIN imported, imported[i].file = f, NEW e
        PROVE  AdapterDiffers(imported[i].file, e) \/ DigestDiffers(imported[i], e) <=>
                 \/ e.adapter \notin {{}, FileNames[f].lane}
                 \/ e.expected \notin {{}, {disk[f].digest}}
    BY <1>7, <2>1 DEF AdapterDiffers, DigestDiffers
  <2>2. ASSUME Differs PROVE Mistaken
    <3>1. PICK i \in DOMAIN imported : \E e \in EntryFor(imported[i].file, entries) :
            AdapterDiffers(imported[i].file, e) \/ DigestDiffers(imported[i], e)
      BY <2>2
    <3>2. PICK e \in EntryFor(imported[i].file, entries) :
            AdapterDiffers(imported[i].file, e) \/ DigestDiffers(imported[i], e)
      BY <3>1
    <3>3. PICK f \in Artifacts : f = imported[i].file
      BY <1>7
    <3>4. PICK p \in Says(f) : e = EntryAt(p)
      BY <1>8, <3>2, <3>3
    <3>5. QED
      BY <2>1, <3>2, <3>3, <3>4
  <2>3. ASSUME Mistaken PROVE Differs
    <3>1. PICK f \in Artifacts : \E p \in Says(f) :
            \/ EntryAt(p).adapter \notin {{}, FileNames[f].lane}
            \/ EntryAt(p).expected \notin {{}, {disk[f].digest}}
      BY <2>3
    <3>2. PICK p \in Says(f) : \/ EntryAt(p).adapter \notin {{}, FileNames[f].lane}
                               \/ EntryAt(p).expected \notin {{}, {disk[f].digest}}
      BY <3>1
    <3>3. PICK i \in DOMAIN imported : imported[i].file = f
      BY <1>7
    <3>4. QED
      BY <1>8, <2>1, <3>2, <3>3
  <2>4. QED
    BY <2>2, <2>3
<1>11. Private <=> PrivateKeys
  <2>1. ASSUME Private PROVE PrivateKeys
    <3>1. PICK i \in DOMAIN rejected : rejected[i].reason = "private-key-material-not-accepted"
      BY <2>1
    <3>2. /\ rejected[i].file \in Files /\ Present(rejected[i].file)
          /\ PrivateKey(rejected[i].file)
      BY <1>7, <3>1
    <3>3. QED
      BY <3>2 DEF PrivateKey
  <2>2. ASSUME PrivateKeys PROVE Private
    <3>1. PICK f \in Files, l \in DOMAIN Lanes :
            /\ InLane(f, l) /\ Present(f) /\ FileNames[f].flaw = "none"
            /\ FileNames[f].private /\ Before(f, l) < MaxImported
      BY <2>2
    <3>2. PrivateKey(f)
      BY <3>1 DEF PrivateKey
    <3>3. f \notin Artifacts
      BY <3>1 DEF Artifacts, Taken, Acceptable
    <3>4. PICK i \in DOMAIN rejected : rejected[i].file = f
      BY <1>7, <3>1, <3>3
    <3>5. QED
      BY <1>7, <3>2, <3>4
  <2>3. QED
    BY <2>1, <2>2
<1>12. Missing(imported, entries) # {} <=> Unmatched
  <2>1. ASSUME Missing(imported, entries) # {} PROVE Unmatched
    <3>1. PICK x \in entries : \A i \in DOMAIN imported : ~Names(x.entry, imported[i].file)
      BY <2>1 DEF Missing
    <3>2. PICK p : p = <<x.file, x.at>>
      OBVIOUS
    <3>3. p \in Places /\ x.entry = EntryAt(p)
      BY <1>1, <3>2, PlacesRead
    <3>4. \A f \in Artifacts : ~Names(EntryAt(p), f)
      BY <1>7, <3>1, <3>3
    <3>5. QED
      BY <3>3, <3>4
  <2>2. ASSUME Unmatched PROVE Missing(imported, entries) # {}
    <3>1. PICK p \in Places : \A f \in Artifacts : ~Names(EntryAt(p), f)
      BY <2>2
    <3>2. PICK x : x = [file |-> p[1], at |-> p[2], entry |-> EntryAt(p)]
      OBVIOUS
    <3>3. x \in entries /\ x.entry = EntryAt(p)
      BY <1>1, <3>2, PlacesRead
    <3>4. x \in Missing(imported, entries)
      BY <1>7, <3>1, <3>3 DEF Missing
    <3>5. QED
      BY <3>4
  <2>3. QED
    BY <2>1, <2>2
<1>13. Duplicates(normalized) # {} <=> Doubled
  <2>1. \A i \in DOMAIN imported :
          /\ normalized[i].id = Meaning(imported[i].file).id
          /\ normalized[i].digest = disk[imported[i].file].digest
          /\ i \in Bound(normalized) <=> Binds(imported[i].file)
    <3> TAKE i \in DOMAIN imported
    <3>1. PICK f : f = imported[i].file
      OBVIOUS
    <3>2. normalized[i] = [file |-> f, digest |-> disk[f].digest, id |-> Meaning(f).id,
                           slot |-> Meaning(f).slot, field |-> Meaning(f).field]
      BY <1>1, <1>2, <3>1, NormalizedMeans
    <3>3. /\ normalized[i].id = Meaning(f).id /\ normalized[i].digest = disk[f].digest
          /\ normalized[i].slot = Meaning(f).slot /\ normalized[i].field = Meaning(f).field
      BY <3>2
    <3>4. i \in Bound(normalized) <=> Binds(f)
      BY <1>4, <3>3 DEF Bound, Binds
    <3>5. QED
      BY <3>1, <3>3, <3>4
  <2>2. \A i \in Bound(normalized) : i \in DOMAIN imported
    BY <1>4 DEF Bound
  <2>3. ASSUME Duplicates(normalized) # {} PROVE Doubled
    <3>1. PICK i \in Bound(normalized), j \in Bound(normalized) :
            /\ normalized[i].id = normalized[j].id
            /\ normalized[i].digest # normalized[j].digest
      BY <1>4, <2>3, DuplicatesAre
    <3>2. imported[i].file \in Artifacts /\ imported[j].file \in Artifacts
      BY <1>7, <2>2
    <3>3. QED
      BY <2>1, <2>2, <3>1, <3>2
  <2>4. ASSUME Doubled PROVE Duplicates(normalized) # {}
    <3>1. PICK f \in Artifacts, g \in Artifacts :
            /\ Binds(f) /\ Binds(g) /\ Meaning(f).id = Meaning(g).id
            /\ disk[f].digest # disk[g].digest
      BY <2>4
    <3>2. PICK i \in DOMAIN imported : imported[i].file = f
      BY <1>7
    <3>3. PICK j \in DOMAIN imported : imported[j].file = g
      BY <1>7
    <3>4. i \in Bound(normalized) /\ j \in Bound(normalized)
          /\ normalized[i].id = normalized[j].id /\ normalized[i].digest # normalized[j].digest
      BY <2>1, <3>1, <3>2, <3>3
    <3>5. QED
      BY <1>4, <3>4, DuplicatesAre
  <2>5. QED
    BY <2>3, <2>4
<1>14. Undated <=> Unsure
  <2>1. ASSUME Undated PROVE Unsure
    <3>1. PICK i \in DOMAIN imported : \E e \in EntryFor(imported[i].file, entries) : ~e.metadata
      BY <2>1
    <3>2. PICK p \in Says(imported[i].file) : ~EntryAt(p).metadata
      BY <1>8, <3>1
    <3>3. QED
      BY <1>7, <3>2
  <2>2. ASSUME Unsure PROVE Undated
    <3>1. PICK f \in Artifacts : \E p \in Says(f) : ~EntryAt(p).metadata
      BY <2>2
    <3>2. PICK i \in DOMAIN imported : imported[i].file = f
      BY <1>7
    <3>3. QED
      BY <1>8, <3>1, <3>2
  <2>3. QED
    BY <2>1, <2>2
<1>15. ~Private => (Others <=> Outside)
  BY <1>7
<1>16. /\ "error" \in Range(findings) <=> Wrong
       /\ ~Wrong => ("warning" \in Range(findings) <=> Doubtful)
  <2> HIDE DEF Differs, Private, Undated, Others, PrivateKeys, Mistaken, Unmatched, Doubled,
               Illegible, Outside, Unsure
  <2>1. QED
    BY <1>5, <1>6, <1>9, <1>10, <1>11, <1>12, <1>13, <1>14, <1>15
<1>17. QED
  BY <1>1, <1>2, <1>3, <1>5, <1>16

(* Frozen are the slots of a release that artifacts are for, each with the *)
(* first of them; bound is what has a slot or a field.                     *)
FrozenFirst(normalized) ==
  /\ \A s : s \in SlotsOf(normalized) <=>
         s \in FreezeTargets /\ \E f \in Artifacts : s \in Meaning(f).slot
  /\ \A s \in SlotsOf(normalized) :
       \E f \in Artifacts :
         /\ s \in Meaning(f).slot
         /\ \A g \in Artifacts : s \in Meaning(g).slot => f <= g
         /\ Frozen(normalized, s) = {[file |-> f, digest |-> disk[f].digest]}
  /\ \A b : (\E i \in Bound(normalized) :
               b = [id |-> normalized[i].id, digest |-> normalized[i].digest]) <=>
            \E f \in Artifacts : /\ Binds(f)
                                 /\ b = [id |-> Meaning(f).id, digest |-> disk[f].digest]

(* What is frozen: for each slot, the first of the artifacts it is for.    *)
LEMMA QuietFrozen ==
  ASSUME IInv, FilesKnown, NEW normalized,
         normalized = [i \in DOMAIN imported |-> Normalized(imported[i], Entries(manifests))]
  PROVE  FrozenFirst(normalized)
<1>1. normalized = [i \in DOMAIN imported |-> Normalized(imported[i], Entries(manifests))]
  OBVIOUS
<1>2. /\ DOMAIN normalized = DOMAIN imported
      /\ \A i \in DOMAIN imported : imported[i].file \in Artifacts
      /\ \A f \in Artifacts : \E i \in DOMAIN imported : imported[i].file = f
      /\ Artifacts \subseteq Nat
  BY <1>1, FilesAreNumbers DEF FilesKnown, Artifacts
<1>3. ASSUME NEW i \in DOMAIN imported, NEW f, f = imported[i].file
      PROVE  /\ normalized[i].file = f /\ normalized[i].digest = disk[f].digest
             /\ normalized[i].id = Meaning(f).id
             /\ normalized[i].slot = Meaning(f).slot /\ normalized[i].field = Meaning(f).field
             /\ \A s : s \in normalized[i].slot <=> normalized[i].slot = {s}
  <2>1. /\ normalized[i] = [file |-> f, digest |-> disk[f].digest, id |-> Meaning(f).id,
                            slot |-> Meaning(f).slot, field |-> Meaning(f).field]
        /\ Optional(Meaning(f).slot)
    BY <1>1, <1>3, NormalizedMeans
  <2>2. /\ normalized[i].file = f /\ normalized[i].digest = disk[f].digest
        /\ normalized[i].id = Meaning(f).id
        /\ normalized[i].slot = Meaning(f).slot /\ normalized[i].field = Meaning(f).field
    BY <2>1
  <2>3. \A s : s \in Meaning(f).slot <=> Meaning(f).slot = {s}
    BY <2>1 DEF Optional
  <2>4. QED
    BY <2>2, <2>3
<1>4. \A s : s \in SlotsOf(normalized) <=>
        s \in FreezeTargets /\ \E i \in DOMAIN imported : s \in normalized[i].slot
  BY <1>2 DEF SlotsOf, Range
<1>5. \A s : s \in SlotsOf(normalized) <=>
        s \in FreezeTargets /\ \E f \in Artifacts : s \in Meaning(f).slot
  <2> TAKE s
  <2>1. \A i \in DOMAIN imported : normalized[i].slot = Meaning(imported[i].file).slot
    BY <1>3
  <2>2. ASSUME s \in SlotsOf(normalized)
        PROVE  s \in FreezeTargets /\ \E f \in Artifacts : s \in Meaning(f).slot
    <3>1. PICK i \in DOMAIN imported : s \in normalized[i].slot
      BY <1>4, <2>2
    <3>2. imported[i].file \in Artifacts /\ s \in Meaning(imported[i].file).slot
      BY <1>2, <2>1, <3>1
    <3>3. QED
      BY <1>4, <2>2, <3>2
  <2>3. ASSUME NEW f \in Artifacts, s \in FreezeTargets, s \in Meaning(f).slot
        PROVE  s \in SlotsOf(normalized)
    <3>1. PICK i \in DOMAIN imported : imported[i].file = f
      BY <1>2
    <3>2. s \in normalized[i].slot
      BY <2>1, <2>3, <3>1
    <3>3. QED
      BY <1>4, <2>3, <3>2
  <2>4. QED
    BY <2>2, <2>3
<1>6. ASSUME NEW s \in SlotsOf(normalized)
      PROVE  \E f \in Artifacts :
                    /\ s \in Meaning(f).slot
                    /\ \A g \in Artifacts : s \in Meaning(g).slot => f <= g
                    /\ Frozen(normalized, s) = {[file |-> f, digest |-> disk[f].digest]}
  <2> DEFINE claiming == {g \in Artifacts : s \in Meaning(g).slot}
  <2>1. claiming # {} /\ claiming \subseteq Nat
    BY <1>2, <1>5
  <2>2. PICK f \in claiming : \A g \in claiming : f <= g
    <3> HIDE DEF claiming
    <3>1. QED
      BY <2>1, LeastNumber
  <2>3. f \in Artifacts /\ s \in Meaning(f).slot /\ f \in Nat
    BY <1>2
  <2>4. PICK i \in DOMAIN imported : imported[i].file = f
    BY <1>2, <2>3
  <2>5. PICK n : n = normalized[i]
    OBVIOUS
  <2>6. \A m : m \in Claims(normalized, s) <=>
          \E k \in DOMAIN imported : m = normalized[k] /\ m.slot = {s}
    BY <1>2 DEF Claims, Range
  <2>7. \A m \in Claims(normalized, s) : /\ m.file \in claiming
                                         /\ m.digest = disk[m.file].digest
    <3> TAKE m \in Claims(normalized, s)
    <3>1. PICK k \in DOMAIN imported : m = normalized[k] /\ m.slot = {s}
      BY <2>6
    <3>2. PICK g : g = imported[k].file
      OBVIOUS
    <3>3. m.file = g /\ m.digest = disk[g].digest /\ s \in Meaning(g).slot /\ g \in Artifacts
      BY <1>2, <1>3, <3>1, <3>2
    <3>4. QED
      BY <3>3
  <2>8. n \in Claims(normalized, s) /\ n.file = f /\ n.digest = disk[f].digest
    <3>1. n.file = f /\ n.digest = disk[f].digest /\ n.slot = {s}
      BY <1>3, <2>3, <2>4, <2>5
    <3>2. QED
      BY <2>4, <2>5, <2>6, <3>1
  <2>9. \A m \in Claims(normalized, s) :
          (\A o \in Claims(normalized, s) : m.file <= o.file) <=> m.file = f
    <3> TAKE m \in Claims(normalized, s)
    <3>1. m.file \in claiming /\ m.file \in Nat
      BY <2>1, <2>7
    <3> HIDE DEF claiming
    <3>2. f <= m.file /\ \A o \in Claims(normalized, s) : f <= o.file
      BY <2>2, <2>7, <3>1
    <3>3. QED
      BY <2>3, <2>8, <3>1, <3>2
  <2>10. \A x : x \in Frozen(normalized, s) <=> x = [file |-> f, digest |-> disk[f].digest]
    <3>1. \A x : x \in Frozen(normalized, s) <=>
            \E m \in Claims(normalized, s) : /\ \A o \in Claims(normalized, s) : m.file <= o.file
                                             /\ x = [file |-> m.file, digest |-> m.digest]
      BY DEF Frozen
    <3>2. \A x : x \in Frozen(normalized, s) <=>
            \E m \in Claims(normalized, s) : m.file = f /\ x = [file |-> m.file, digest |-> m.digest]
      BY <2>9, <3>1
    <3>3. QED
      BY <2>7, <2>8, <3>2
  <2>11. QED
    BY <2>2, <2>3, <2>10
<1>7. ASSUME NEW b
      PROVE  (\E i \in Bound(normalized) :
                b = [id |-> normalized[i].id, digest |-> normalized[i].digest]) <=>
             \E f \in Artifacts : /\ Binds(f)
                                  /\ b = [id |-> Meaning(f).id, digest |-> disk[f].digest]
  <2>1. \A i \in DOMAIN imported :
          /\ normalized[i].id = Meaning(imported[i].file).id
          /\ normalized[i].digest = disk[imported[i].file].digest
          /\ i \in Bound(normalized) <=> Binds(imported[i].file)
    <3> TAKE i \in DOMAIN imported
    <3>1. PICK f : f = imported[i].file
      OBVIOUS
    <3>2. /\ normalized[i].id = Meaning(f).id /\ normalized[i].digest = disk[f].digest
          /\ normalized[i].slot = Meaning(f).slot /\ normalized[i].field = Meaning(f).field
      BY <1>3, <3>1
    <3>3. i \in Bound(normalized) <=> Binds(f)
      BY <1>2, <3>2 DEF Bound, Binds
    <3>4. QED
      BY <3>1, <3>2, <3>3
  <2>2. \A i \in Bound(normalized) : i \in DOMAIN imported
    BY <1>2 DEF Bound
  <2>3. ASSUME NEW i \in Bound(normalized),
               b = [id |-> normalized[i].id, digest |-> normalized[i].digest]
        PROVE  \E f \in Artifacts : /\ Binds(f)
                                    /\ b = [id |-> Meaning(f).id, digest |-> disk[f].digest]
    <3>1. PICK f \in Artifacts : f = imported[i].file
      BY <1>2, <2>2
    <3>2. Binds(f) /\ normalized[i].id = Meaning(f).id /\ normalized[i].digest = disk[f].digest
      BY <2>1, <2>2, <3>1
    <3>3. QED
      BY <2>3, <3>2
  <2>4. ASSUME NEW f \in Artifacts, Binds(f), b = [id |-> Meaning(f).id, digest |-> disk[f].digest]
        PROVE  \E i \in Bound(normalized) :
                 b = [id |-> normalized[i].id, digest |-> normalized[i].digest]
    <3>1. PICK i \in DOMAIN imported : imported[i].file = f
      BY <1>2
    <3>2. i \in Bound(normalized) /\ normalized[i].id = Meaning(f).id
          /\ normalized[i].digest = disk[f].digest
      BY <2>1, <2>4, <3>1
    <3>3. QED
      BY <2>4, <3>2
  <2>5. QED
    BY <2>3, <2>4
<1>8. QED
  BY <1>5, <1>6, <1>7 DEF FrozenFirst

(* The report of a compilation during which nothing changed.               *)
LEMMA CompileQuiet ==
  ASSUME IInv, QInv, Compile
  PROVE  QuietReport'
<1>1. PICK normalized : normalized = [i \in DOMAIN imported |-> Normalized(imported[i], Entries(manifests))]
  OBVIOUS
<1>2. PICK findings : findings = Findings(Entries(manifests), normalized)
  OBVIOUS
<1>3. /\ report'.status = Status(Kept(findings), imported)
      /\ report'.found = Len(findings)
      /\ report'.bound = {[id |-> normalized[i].id, digest |-> normalized[i].digest] :
                            i \in Bound(normalized)}
      /\ report'.frozen = [s \in SlotsOf(normalized) |-> Frozen(normalized, s)]
  BY <1>1, <1>2, CompiledReport
<1>4. disk' = disk /\ changes' = changes
  BY DEF Compile
<1>5. /\ Artifacts' = Artifacts
      /\ \A f : Meaning(f)' = Meaning(f) /\ (Binds(f)' <=> Binds(f))
      /\ Wrong' <=> Wrong
      /\ Doubtful' <=> Doubtful
  BY <1>4, MeaningAlone
<1>6. SUFFICES ASSUME changes = 0, report'.found <= MaxFindings
      PROVE  /\ report'.status = IF Wrong THEN "fail" ELSE IF Artifacts = {} THEN "missing"
                                 ELSE IF Doubtful THEN "warn" ELSE "pass_unreviewed"
             /\ report'.bound = {[id |-> Meaning(f).id, digest |-> disk[f].digest] :
                                   f \in {g \in Artifacts : Binds(g)}}
             /\ DOMAIN report'.frozen = FreezeTargets \cap UNION {Meaning(f).slot : f \in Artifacts}
             /\ \A s \in DOMAIN report'.frozen :
                  \E f \in Artifacts :
                    /\ s \in Meaning(f).slot
                    /\ \A g \in Artifacts : s \in Meaning(g).slot => f <= g
                    /\ report'.frozen[s] = {[file |-> f, digest |-> disk[f].digest]}
  <2>1. changes' = 0 <=> changes = 0
    BY <1>4
  <2>2. Complete' <=> report'.found <= MaxFindings
    BY DEF Complete
  <2>3. {[id |-> Meaning(f)'.id, digest |-> disk'[f].digest] : f \in {g \in Artifacts' : Binds(g)'}}
          = {[id |-> Meaning(f).id, digest |-> disk[f].digest] : f \in {g \in Artifacts : Binds(g)}}
    BY <1>4, <1>5
  <2>4. UNION {Meaning(f)'.slot : f \in Artifacts'} = UNION {Meaning(f).slot : f \in Artifacts}
    BY <1>5
  <2>5. QED
    BY <1>4, <1>5, <1>6, <2>1, <2>2, <2>3, <2>4 DEF QuietReport
<1>7. FilesKnown
  BY <1>6, KnownAtCompile
<1>8. /\ findings \in Seq(Severities)
      /\ "error" \in Range(findings) <=> Wrong
      /\ ~Wrong => ("warning" \in Range(findings) <=> Doubtful)
  BY <1>1, <1>2, <1>7, QuietFindings
<1>9. imported = <<>> <=> Artifacts = {}
  <2>1. imported = <<>> => DOMAIN imported = {}
    OBVIOUS
  <2>2. imported # <<>> => 1 \in DOMAIN imported
    BY EmptySeq, LenProperties DEF IInv, TypeOK
  <2>3. QED
    BY <1>7, <2>1, <2>2 DEF FilesKnown
<1>10. report'.status = IF Wrong THEN "fail" ELSE IF Artifacts = {} THEN "missing"
                        ELSE IF Doubtful THEN "warn" ELSE "pass_unreviewed"
  <2>1. Kept(findings) = findings
    BY <1>3, <1>6, <1>8, KeptAll
  <2>2. QED
    BY <1>3, <1>8, <1>9, <2>1 DEF Status
<1>11. FrozenFirst(normalized)
  BY <1>1, <1>7, QuietFrozen
<1>12. report'.bound = {[id |-> Meaning(f).id, digest |-> disk[f].digest] :
                          f \in {g \in Artifacts : Binds(g)}}
  <2>1. \A b : b \in report'.bound <=>
          \E f \in Artifacts : /\ Binds(f)
                               /\ b = [id |-> Meaning(f).id, digest |-> disk[f].digest]
    BY <1>3, <1>11 DEF FrozenFirst
  <2>2. QED
    BY <2>1
<1>13. DOMAIN report'.frozen = FreezeTargets \cap UNION {Meaning(f).slot : f \in Artifacts}
  <2>1. DOMAIN report'.frozen = SlotsOf(normalized)
    BY <1>3
  <2>2. \A s : s \in SlotsOf(normalized) <=>
          s \in FreezeTargets \cap UNION {Meaning(f).slot : f \in Artifacts}
    BY <1>11 DEF FrozenFirst
  <2>3. QED
    BY <2>1, <2>2
<1>14. \A s \in DOMAIN report'.frozen :
         \E f \in Artifacts :
           /\ s \in Meaning(f).slot
           /\ \A g \in Artifacts : s \in Meaning(g).slot => f <= g
           /\ report'.frozen[s] = {[file |-> f, digest |-> disk[f].digest]}
  <2>1. \A s \in DOMAIN report'.frozen : s \in SlotsOf(normalized) /\ report'.frozen[s] = Frozen(normalized, s)
    BY <1>3
  <2>2. QED
    BY <1>11, <2>1 DEF FrozenFirst
<1>15. QED
  BY <1>10, <1>12, <1>13, <1>14

(* The report on files that nobody changed meanwhile, unless it overflows, *)
(* is a function of their contents and the one the rules give: its status, *)
(* what it binds, and what takes each slot that it freezes.                *)
THEOREM QuietReportIsExact == Spec => []QuietReport
<1>1. Init => QuietReport
  BY DEF Init, QuietReport, Returned
<1>2. IInv /\ QInv /\ QuietReport /\ [Next]_vars => QuietReport'
  <2> SUFFICES ASSUME IInv, QInv, QuietReport, [Next]_vars PROVE QuietReport'
    OBVIOUS
  <2>1. CASE Compile
    BY <2>1, CompileQuiet
  <2>2. CASE Next /\ ~Compile
    <3>1. report' = NoReport
      BY <2>2, ReportFromCompile
    <3>2. QED
      BY <3>1 DEF QuietReport, Returned
  <2>3. CASE UNCHANGED vars
    <3>1. disk' = disk /\ report' = report /\ changes' = changes
      BY <2>3 DEF vars
    <3>2. /\ Artifacts' = Artifacts
          /\ \A f : Meaning(f)' = Meaning(f) /\ (Binds(f)' <=> Binds(f))
          /\ Wrong' <=> Wrong
          /\ Doubtful' <=> Doubtful
      BY <3>1, MeaningAlone
    <3>3. {[id |-> Meaning(f)'.id, digest |-> disk'[f].digest] : f \in {g \in Artifacts' : Binds(g)'}}
            = {[id |-> Meaning(f).id, digest |-> disk[f].digest] : f \in {g \in Artifacts : Binds(g)}}
      BY <3>1, <3>2
    <3>4. UNION {Meaning(f)'.slot : f \in Artifacts'} = UNION {Meaning(f).slot : f \in Artifacts}
      BY <3>2
    <3>5. (Returned' <=> Returned) /\ (Complete' <=> Complete)
      BY <3>1 DEF Returned, Complete
    <3>6. QED
      BY <3>1, <3>2, <3>3, <3>4, <3>5 DEF QuietReport
  <2>4. QED
    BY <2>1, <2>2, <2>3
<1> HIDE DEF Init, Next, vars, IInv, QInv, QuietReport
<1>3. QED
  BY <1>1, <1>2, ImportKnown, QuietKnown, PTL DEF Spec
=============================================================================
