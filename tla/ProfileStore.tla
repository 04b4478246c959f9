---------------------------- MODULE ProfileStore ----------------------------
(***************************************************************************)
(* What the context accepts as its scheme profiles and keys, and what it   *)
(* promises of them while they are active: krn_load_profiles_verified,     *)
(* krn_load_certification_bundle_verified (ffi.rs), load_profile_set       *)
(* (config.rs), load_certification_bundle (cert_bundle.rs), select_capk    *)
(* (oda.rs).  Both calls load in BuildMode::Certification; Test and        *)
(* Production are for tools.  A document that does not parse is no         *)
(* document: the parsers' own checks come before all of these.             *)
(***************************************************************************)
EXTENDS Naturals, SequencesExt

CONSTANTS
  Rids, Pixes,    \* an AID is a RID and the rest of its bytes
  Names,          \* of schemes
  Indices,        \* of CA public keys
  Signers,
  Documents,      \* the profile documents the host may load
  Bundles,        \* the certification bundles the host may load
  TrustAnchors,   \* the lists of trust anchors the host may pass
  MaxVersion,     \* bound on versions and rollback counters
  LastDay         \* bound on the calendar

Days       == 1..LastDay
Versions   == 1..MaxVersion
Interfaces == {"contact", "contactless"}

AidProfiles == [rid : Rids, pix : Pixes, interfaces : SUBSET Interfaces]
(* checksum: it is the digest of the key.                                  *)
Capks == [index : Indices, expiry : Days, retrieved : Days, checksum : BOOLEAN]
(* kernels: the interfaces for which the scheme names a certified kernel.  *)
Schemes == [name : Names, rid : Rids, kernels : SUBSET Interfaces,
            aids : Seq(AidProfiles), capks : Seq(Capks)]
ProfileDocuments ==
  [class : {"CERTIFICATION", "EXAMPLE_ONLY"}, retrieved : Days,
   bundled : Seq(Names), labSupplied : SUBSET Names, schemes : Seq(Schemes)]

(* signed: payload digest and signature are those of the signer's key.     *)
CertificationBundles ==
  [class : {"TESTING", "CERTIFICATION"}, created : Days, counter : Versions,
   signer : Signers, signed : BOOLEAN, document : ProfileDocuments]
(* An anchor allows one payload; without not_after, until the last day.    *)
Anchors == [signer : Signers, allowed : ProfileDocuments, notAfter : Days]

NoProfiles == [class |-> "none"]
NoBundle   == [class |-> "none"]
NoCapk     == [index |-> "none"]

ASSUME StoreAssumption ==
  /\ Documents \subseteq ProfileDocuments /\ Bundles \subseteq CertificationBundles
  /\ TrustAnchors \subseteq Seq(Anchors)
  /\ MaxVersion \in Nat \ {0} /\ LastDay \in Nat \ {0}

VARIABLES
  active, version, evaluationDate,   \* profiles and profile_evaluation_date
  bundle, counter,                   \* certification_bundle_*
  capk,                              \* what select_capk found last
  today, persisted                   \* the calendar, and the counter the host keeps

vars == <<active, version, evaluationDate, bundle, counter, capk, today, persisted>>

-----------------------------------------------------------------------------
(* parse_source_object of a certification profile                          *)
SourceAccepted(source, day) == source.retrieved <= day

(* Mutant: the checksum is left to select_capk, which looks at it anyway.  *)
CapkAccepted_ChecksumLater(key, day) == key.expiry >= day /\ SourceAccepted(key, day)

(* parse_capk                                                              *)
CapkAccepted(key, day) ==
  key.checksum /\ key.expiry >= day /\ SourceAccepted(key, day)

Distinct(seq, Field(_)) == IsInjective([i \in DOMAIN seq |-> Field(seq[i])])

(* validate_scheme_interface_kernel_mapping: a contactless AID needs the   *)
(* C-8 kernel, a contact AID a contact kernel.                             *)
KernelsNamed(scheme) ==
  \A i \in DOMAIN scheme.aids : scheme.aids[i].interfaces \subseteq scheme.kernels

(* parse_scheme                                                            *)
SchemeAccepted(scheme, day) ==
  /\ scheme.aids # <<>> /\ scheme.capks # <<>>
  /\ \A i \in DOMAIN scheme.aids :
       scheme.aids[i].rid = scheme.rid /\ scheme.aids[i].interfaces # {}
  /\ \A i, j \in DOMAIN scheme.aids : scheme.aids[i].pix = scheme.aids[j].pix => i = j
  /\ KernelsNamed(scheme)
  /\ \A i \in DOMAIN scheme.capks : CapkAccepted(scheme.capks[i], day)
  /\ \A i, j \in DOMAIN scheme.capks :
       scheme.capks[i].index = scheme.capks[j].index => i = j

(* Mutant: the two lists are not counted.                                  *)
ScopeAccepted_NotCounted(doc) ==
  /\ doc.bundled # <<>> /\ IsInjective(doc.bundled)
  /\ Range(doc.bundled) \cap doc.labSupplied = {}
  /\ Range(doc.bundled) = {doc.schemes[i].name : i \in DOMAIN doc.schemes}

(* parse_certification_scope and                                           *)
(* validate_certification_scope_scheme_profiles                            *)
ScopeAccepted(doc) ==
  /\ doc.bundled # <<>> /\ IsInjective(doc.bundled)
  /\ Range(doc.bundled) \cap doc.labSupplied = {}
  /\ Len(doc.bundled) = Len(doc.schemes)
  /\ Range(doc.bundled) = {doc.schemes[i].name : i \in DOMAIN doc.schemes}

(* Mutant: a scheme is compared with the one before it only.               *)
RidsDistinct_Neighbours(doc) ==
  \A i, j \in DOMAIN doc.schemes :
    j = i + 1 => doc.schemes[i].rid # doc.schemes[j].rid

(* reject_duplicate_scheme_rids                                            *)
RidsDistinct(doc) ==
  \A i, j \in DOMAIN doc.schemes : doc.schemes[i].rid = doc.schemes[j].rid => i = j

(* load_profile_set                                                        *)
Loadable(doc, day) ==
  /\ doc.class = "CERTIFICATION"
  /\ ScopeAccepted(doc) /\ SourceAccepted(doc, day)
  /\ doc.schemes # <<>>
  /\ \A i \in DOMAIN doc.schemes : SchemeAccepted(doc.schemes[i], day)
  /\ RidsDistinct(doc)

(* verify_bundle_signature: only the first anchor of the signer counts.    *)
SignatureAccepted(b, anchors, day) ==
  LET i == SelectInSeq(anchors, LAMBDA a : a.signer = b.signer) IN
  /\ i # 0 /\ anchors[i].notAfter >= day
  /\ anchors[i].allowed = b.document /\ b.signed

(* validate_bundle_for_policy, then the signature                          *)
BundleAccepted(b, anchors, installed, day) ==
  /\ b.created <= day /\ b.counter > installed
  /\ b.class = "CERTIFICATION"
  /\ SignatureAccepted(b, anchors, day)

(* select_capk: the first scheme of the RID, its first key of the index    *)
(* that has not expired; one whose checksum is wrong is refused.           *)
SchemeIndex(rid) == SelectInSeq(active.schemes, LAMBDA s : s.rid = rid)
CapkIndex(scheme, index) ==
  SelectInSeq(scheme.capks, LAMBDA k : k.index = index /\ k.expiry >= evaluationDate)

SelectedCapk(rid, index) ==
  LET scheme == active.schemes[SchemeIndex(rid)]
      key    == scheme.capks[CapkIndex(scheme, index)]
  IN IF SchemeIndex(rid) # 0 /\ CapkIndex(scheme, index) # 0 /\ key.checksum
     THEN key ELSE NoCapk

-----------------------------------------------------------------------------
(* krn_init                                                                *)
Init ==
  /\ active = NoProfiles /\ version = 0 /\ evaluationDate = 0
  /\ bundle = NoBundle /\ counter = 0 /\ capk = NoCapk
  /\ today \in Days /\ persisted = 0

(* The host passes the current date and the version it has stored, which   *)
(* can only rule out candidates; it may have stored none.                  *)
LoadProfiles ==
  \E candidate \in Versions, doc \in Documents :
    /\ candidate > version
    /\ Loadable(doc, today)
    /\ active' = doc /\ version' = candidate /\ evaluationDate' = today
    /\ UNCHANGED <<bundle, counter, capk, today, persisted>>

(* Mutant: the counter of the context is not asked.                        *)
Installed_HostOnly == persisted

(* The counter a bundle must exceed.                                       *)
Installed == IF persisted > counter THEN persisted ELSE counter

LoadCertificationBundle ==
  \E b \in Bundles, anchors \in TrustAnchors :
    /\ BundleAccepted(b, anchors, Installed, today)
    /\ Loadable(b.document, today)
    /\ active' = b.document /\ version' = b.counter /\ evaluationDate' = today
    /\ bundle' = b /\ counter' = b.counter
    /\ UNCHANGED <<capk, today, persisted>>

(* During offline data authentication, with the index the card names.      *)
SelectCapk ==
  /\ active # NoProfiles
  /\ \E rid \in Rids, index \in Indices : capk' = SelectedCapk(rid, index)
  /\ UNCHANGED <<active, version, evaluationDate, bundle, counter, today, persisted>>

Tick ==
  /\ today < LastDay /\ today' = today + 1
  /\ UNCHANGED <<active, version, evaluationDate, bundle, counter, capk, persisted>>

(* The host stores the counter of the bundle it has loaded.                *)
Persist ==
  /\ counter > persisted /\ persisted' = counter
  /\ UNCHANGED <<active, version, evaluationDate, bundle, counter, capk, today>>

(* The terminal restarts, perhaps before the host has stored the counter.  *)
Restart ==
  /\ active' = NoProfiles /\ version' = 0 /\ evaluationDate' = 0
  /\ bundle' = NoBundle /\ counter' = 0 /\ capk' = NoCapk
  /\ UNCHANGED <<today, persisted>>

Next == LoadProfiles \/ LoadCertificationBundle \/ SelectCapk \/ Tick \/ Persist \/ Restart

Spec == Init /\ [][Next]_vars

-----------------------------------------------------------------------------
TypeOK ==
  /\ active = NoProfiles \/ active \in Documents \cup {b.document : b \in Bundles}
  /\ version \in 0..MaxVersion /\ evaluationDate \in 0..today
  /\ bundle = NoBundle \/ bundle \in Bundles
  /\ counter \in 0..MaxVersion /\ persisted \in 0..MaxVersion
  /\ capk = NoCapk \/ capk \in Capks
  /\ today \in Days

(* No two AID profiles of the active set, in one scheme or in two, are     *)
(* for the same AID: the indices kept of the selected one are determined.  *)
AidsUnambiguous ==
  active # NoProfiles =>
    \A i, j \in DOMAIN active.schemes :
      \A a \in DOMAIN active.schemes[i].aids, b \in DOMAIN active.schemes[j].aids :
        LET p == active.schemes[i].aids[a]  q == active.schemes[j].aids[b] IN
        p.rid = q.rid /\ p.pix = q.pix => i = j /\ a = b

(* A key of the active set is what a card finds that names its RID and     *)
(* index, to the day it expires: it is not hidden by another key, by its   *)
(* checksum or by the date.  Of a key that has expired since the load this *)
(* says nothing; what becomes of it is ExpiredUnavailable, below.          *)
CapksSelectable ==
  active # NoProfiles =>
    \A i \in DOMAIN active.schemes : \A k \in DOMAIN active.schemes[i].capks :
      LET key == active.schemes[i].capks[k] IN
      key.expiry >= today => SelectedCapk(active.schemes[i].rid, key.index) = key

(* The scope names every scheme of the active set exactly once, and no     *)
(* scheme the laboratory has yet to supply.                                *)
ScopeExact ==
  active # NoProfiles =>
    /\ Distinct(active.schemes, LAMBDA s : s.name)
    /\ \A i \in DOMAIN active.schemes : active.schemes[i].name \notin active.labSupplied

(* An AID is offered on an interface only if its scheme names a kernel for *)
(* it, so the contactless driver never meets one without.                  *)
InterfacesServed ==
  active # NoProfiles =>
    \A i \in DOMAIN active.schemes : \A a \in DOMAIN active.schemes[i].aids :
      LET aid == active.schemes[i].aids[a] IN
      aid.interfaces # {} /\ aid.interfaces \subseteq active.schemes[i].kernels

(* A bundle is installed over an older one only, be it of this context or  *)
(* one the host has stored before a restart.                               *)
RollbackProtected ==
  [][bundle' # bundle /\ bundle' # NoBundle =>
       counter' > counter /\ counter' > persisted]_vars

(* KRN-CAPK-002: an expired key is treated as unavailable.                 *)
ExpiredUnavailable ==
  [][capk' # capk /\ capk' # NoCapk => capk'.expiry >= today]_vars

(* krn_get_certification_bundle_sha256: the digest it copies is the one of *)
(* the active bundle.                                                      *)
BundleIsActive == bundle # NoBundle => active = bundle.document
=============================================================================
