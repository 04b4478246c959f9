------------------------- MODULE ProfileStoreProofs -------------------------
(***************************************************************************)
(* For all documents, bundles, trust anchors and calendars: whatever the   *)
(* context has active passed every check of load_profile_set on the day it *)
(* was loaded, and from that follow the promises the rest of the kernel    *)
(* relies on.                                                              *)
(***************************************************************************)
EXTENDS ProfileStore, FiniteSetTheorems, TLAPS

(* The active set was loadable on the evaluation date kept with it.        *)
StoreInv ==
  /\ TypeOK
  /\ active # NoProfiles => Loadable(active, evaluationDate)

-----------------------------------------------------------------------------
(* The documents of the host, alone or in bundles, are profile documents.  *)
LEMMA ActiveTyped ==
  ASSUME TypeOK, active # NoProfiles
  PROVE  active \in ProfileDocuments
PROOF
  BY StoreAssumption DEF TypeOK, CertificationBundles

(* The first of a set of positions is one of them.                         *)
LEMMA FirstIsOne ==
  ASSUME NEW I \in SUBSET Nat, I # {}
  PROVE  Min(I) \in I
PROOF
<1> DEFINE Less == {ss \in Nat \X Nat : ss[1] < ss[2]}
<1>1. IsWellFoundedOn(Less, Nat)
  BY NatLessThanWellFounded, Zenon DEF OpToRel
<1>2. PICK x \in I : \A y \in I : <<y, x>> \notin Less
  <2> HIDE DEF Less
  <2> QED BY <1>1, WFMin, Zenon
<1>3. ASSUME NEW y \in I PROVE x =< y
  <2>1. <<y, x>> \in Nat \X Nat /\ <<y, x>>[1] = y /\ <<y, x>>[2] = x
    OBVIOUS
  <2>2. ~(<<y, x>>[1] < <<y, x>>[2])
    BY <1>2, <2>1, Zenon
  <2> QED BY <2>1, <2>2
<1> QED BY <1>3 DEF Min

(* So the only one there is.                                               *)
LEMMA FirstOfOne == \A x \in Nat : Min({x}) = x
PROOF
  BY FirstIsOne

(* What select_capk looks for is a position of the list, or none.          *)
LEMMA IndicesTyped ==
  ASSUME active \in ProfileDocuments, NEW rid, NEW index
  PROVE  /\ SchemeIndex(rid) \in 0..Len(active.schemes)
         /\ \A scheme \in Schemes :
              CapkIndex(scheme, index) \in 0..Len(scheme.capks)
PROOF
<1>1. SchemeIndex(rid) \in 0..Len(active.schemes)
  <2> DEFINE S == {i \in 1..Len(active.schemes) : active.schemes[i].rid = rid}
  <2>1. Len(active.schemes) \in Nat
    BY DEF ProfileDocuments
  <2>2. S \in SUBSET Nat
    BY <2>1
  <2>3. SchemeIndex(rid) = IF S # {} THEN Min(S) ELSE 0
    BY DEF SchemeIndex, SelectInSeq
  <2>4. S # {} => Min(S) \in S
    <3> HIDE DEF S
    <3> QED BY <2>2, FirstIsOne
  <2> QED BY <2>1, <2>3, <2>4
<1>2. ASSUME NEW scheme \in Schemes
      PROVE  CapkIndex(scheme, index) \in 0..Len(scheme.capks)
  <2> DEFINE K == {i \in 1..Len(scheme.capks) :
                     scheme.capks[i].index = index /\ scheme.capks[i].expiry >= evaluationDate}
  <2>1. Len(scheme.capks) \in Nat
    BY DEF Schemes
  <2>2. K \in SUBSET Nat
    BY <2>1
  <2>3. CapkIndex(scheme, index) = IF K # {} THEN Min(K) ELSE 0
    BY DEF CapkIndex, SelectInSeq
  <2>4. K # {} => Min(K) \in K
    <3> HIDE DEF K
    <3> QED BY <2>2, FirstIsOne
  <2> QED BY <2>1, <2>3, <2>4
<1> QED BY <1>1, <1>2

(* What select_capk finds is a key, or none.                               *)
LEMMA SelectedTyped ==
  ASSUME active \in ProfileDocuments, NEW rid, NEW index
  PROVE  SelectedCapk(rid, index) \in Capks \cup {NoCapk}
PROOF
<1> DEFINE n == SchemeIndex(rid)
           scheme == active.schemes[n]
           m == CapkIndex(scheme, index)
           key == scheme.capks[m]
<1>1. active.schemes \in Seq(Schemes)
  BY DEF ProfileDocuments
<1>2. n # 0 => scheme \in Schemes
  <2>1. n \in 0..Len(active.schemes)
    BY IndicesTyped
  <2> HIDE DEF n
  <2> QED BY <1>1, <2>1
<1>3. n # 0 /\ m # 0 => key \in Capks
  <2>1. n # 0 => m \in 0..Len(scheme.capks) /\ scheme.capks \in Seq(Capks)
    BY <1>2, IndicesTyped DEF Schemes
  <2> HIDE DEF n, scheme, m
  <2> QED BY <2>1
<1>4. SelectedCapk(rid, index) = IF n # 0 /\ m # 0 /\ key.checksum THEN key ELSE NoCapk
  BY DEF SelectedCapk
<1> HIDE DEF n, m, key
<1> QED BY <1>3, <1>4

(* A document that passed the checks has one scheme for each RID, and the  *)
(* scheme one usable key for each of its indices.                          *)
LEMMA CapkFound ==
  ASSUME active \in ProfileDocuments, Loadable(active, evaluationDate),
         NEW i \in DOMAIN active.schemes, NEW k \in DOMAIN active.schemes[i].capks
  PROVE  SelectedCapk(active.schemes[i].rid, active.schemes[i].capks[k].index)
           = active.schemes[i].capks[k]
PROOF
<1> DEFINE scheme == active.schemes[i]
           key    == scheme.capks[k]
<1>1. active.schemes \in Seq(Schemes) /\ i \in 1..Len(active.schemes)
  BY DEF ProfileDocuments
<1>2. scheme \in Schemes /\ scheme.capks \in Seq(Capks) /\ k \in 1..Len(scheme.capks)
  <2>1. scheme \in Schemes
    BY <1>1
  <2>2. scheme.capks \in Seq(Capks)
    BY <2>1 DEF Schemes
  <2> QED BY <2>1, <2>2
<1>3. SchemeAccepted(scheme, evaluationDate) /\ RidsDistinct(active)
  BY DEF Loadable
<1>4. SchemeIndex(scheme.rid) = i
  <2>1. {j \in 1..Len(active.schemes) : active.schemes[j].rid = scheme.rid} = {i}
    BY <1>1, <1>3 DEF RidsDistinct
  <2>2. Min({i}) = i
    BY <1>1, FirstOfOne
  <2> HIDE DEF scheme
  <2> QED BY <2>1, <2>2 DEF SchemeIndex, SelectInSeq
<1>5. key.checksum /\ key.expiry >= evaluationDate
  BY <1>2, <1>3 DEF SchemeAccepted, CapkAccepted
<1>6. CapkIndex(scheme, key.index) = k
  <2>1. {j \in 1..Len(scheme.capks) : scheme.capks[j].index = key.index
                                      /\ scheme.capks[j].expiry >= evaluationDate} = {k}
    BY <1>2, <1>3, <1>5 DEF SchemeAccepted
  <2>2. Min({k}) = k
    BY <1>2, FirstOfOne
  <2> HIDE DEF scheme, key
  <2> QED BY <2>1, <2>2 DEF CapkIndex, SelectInSeq
<1>7. i # 0 /\ k # 0
  BY <1>1, <1>2
<1> HIDE DEF scheme, key
<1>8. SelectedCapk(scheme.rid, key.index) = key
  BY <1>4, <1>5, <1>6, <1>7 DEF SelectedCapk, scheme, key
<1> QED BY <1>8 DEF scheme, key

(* As many names in the scope as schemes, and every scheme named: then no  *)
(* name is used twice.                                                     *)
LEMMA NamesOnce ==
  ASSUME NEW doc \in ProfileDocuments, ScopeAccepted(doc),
         NEW i \in DOMAIN doc.schemes, NEW j \in DOMAIN doc.schemes,
         doc.schemes[i].name = doc.schemes[j].name
  PROVE  i = j
PROOF
<1> DEFINE n == Len(doc.schemes)
           S == Range(doc.bundled)
           f == [x \in 1..n |-> doc.schemes[x].name]
<1>1. /\ doc.schemes \in Seq(Schemes) /\ DOMAIN doc.schemes = 1..n /\ n \in Nat
      /\ doc.bundled \in Seq(Names) /\ DOMAIN doc.bundled = 1..n
  BY DEF ProfileDocuments, ScopeAccepted
<1>2. doc.bundled \in Surjection(1..n, S) /\ doc.bundled \in Injection(1..n, S)
  BY SMTT(60), <1>1 DEF ScopeAccepted, Surjection, Injection, IsInjective, Range
<1>3. f \in Surjection(1..n, S)
  BY <1>1 DEF ScopeAccepted, Surjection
<1>4. IsFiniteSet(1..n)
  BY <1>1, FS_Interval
<1>5. Cardinality(S) = Cardinality(1..n)
  BY <1>2, <1>4, FS_Surjection
<1>6. f \in Injection(1..n, S)
  BY <1>3, <1>4, <1>5, FS_Surjection
<1> QED BY <1>1, <1>6 DEF Injection, IsInjective

-----------------------------------------------------------------------------
(* The store starts empty.                                                 *)
LEMMA InitStore == Init => StoreInv
PROOF
  BY StoreAssumption DEF Init, StoreInv, TypeOK, Days

(* Every call keeps the types.                                             *)
LEMMA TypeStep == TypeOK /\ [Next]_vars => TypeOK'
PROOF
<1> SUFFICES ASSUME TypeOK, [Next]_vars PROVE TypeOK'
  OBVIOUS
<1> USE StoreAssumption DEF TypeOK, Days, Versions
<1>1. CASE LoadProfiles
  BY <1>1 DEF LoadProfiles
<1>2. CASE LoadCertificationBundle
  <2>1. PICK b \in Bundles : 
          /\ active' = b.document /\ version' = b.counter /\ evaluationDate' = today
          /\ bundle' = b /\ counter' = b.counter
    BY <1>2 DEF LoadCertificationBundle
  <2>2. b.counter \in Versions
    BY DEF CertificationBundles
  <2> QED BY <1>2, <2>1, <2>2 DEF LoadCertificationBundle
<1>3. CASE SelectCapk
  <2>1. PICK rid \in Rids, index \in Indices : capk' = SelectedCapk(rid, index)
    BY <1>3 DEF SelectCapk
  <2>2. active \in ProfileDocuments
    BY <1>3, ActiveTyped DEF SelectCapk
  <2>3. SelectedCapk(rid, index) \in Capks \cup {NoCapk}
    BY <2>2, SelectedTyped
  <2> QED BY <1>3, <2>1, <2>3 DEF SelectCapk
<1>4. CASE Tick
  BY <1>4 DEF Tick
<1>5. CASE Persist
  BY <1>5 DEF Persist
<1>6. CASE Restart
  BY <1>6 DEF Restart
<1>7. CASE UNCHANGED vars
  BY <1>7 DEF vars
<1> QED BY <1>1, <1>2, <1>3, <1>4, <1>5, <1>6, <1>7 DEF Next

(* A load replaces the set by one that was loadable that day; nothing else *)
(* replaces it, or the date, but a restart.                                *)
LEMMA StoreStep == StoreInv /\ [Next]_vars => StoreInv'
PROOF
<1> SUFFICES ASSUME StoreInv, [Next]_vars PROVE StoreInv'
  OBVIOUS
<1>1. TypeOK'
  BY TypeStep DEF StoreInv
<1>2. (active # NoProfiles => Loadable(active, evaluationDate))'
  <2>1. CASE LoadProfiles
    BY <2>1 DEF LoadProfiles
  <2>2. CASE LoadCertificationBundle
    BY <2>2 DEF LoadCertificationBundle
  <2>3. CASE SelectCapk \/ Tick \/ Persist \/ UNCHANGED vars
    BY <2>3 DEF StoreInv, SelectCapk, Tick, Persist, vars
  <2>4. CASE Restart
    BY <2>4 DEF Restart
  <2> QED BY <2>1, <2>2, <2>3, <2>4 DEF Next
<1> QED BY <1>1, <1>2 DEF StoreInv

(* StoreInv is an invariant of the store.                                  *)
LEMMA Stores == Spec => []StoreInv
PROOF
  BY InitStore, StoreStep, PTL DEF Spec

-----------------------------------------------------------------------------
(* Versions, counters, days and keys have their types, and no set is       *)
(* evaluated against a day to come.                                        *)
THEOREM StoreTyped == Spec => []TypeOK
PROOF
<1>1. StoreInv => TypeOK
  BY DEF StoreInv
<1> QED BY <1>1, Stores, PTL

(* An AID is configured once (config.rs, reject_duplicate_scheme_rids,     *)
(* reject_aids_outside_scheme_rid and reject_duplicate_aids together).     *)
THEOREM AidsAreUnambiguous == Spec => []AidsUnambiguous
PROOF
<1>1. StoreInv => AidsUnambiguous
  <2> SUFFICES ASSUME StoreInv, active # NoProfiles,
                      NEW i \in DOMAIN active.schemes, NEW j \in DOMAIN active.schemes,
                      NEW a \in DOMAIN active.schemes[i].aids,
                      NEW b \in DOMAIN active.schemes[j].aids,
                      active.schemes[i].aids[a].rid = active.schemes[j].aids[b].rid,
                      active.schemes[i].aids[a].pix = active.schemes[j].aids[b].pix
               PROVE  i = j /\ a = b
    BY DEF AidsUnambiguous
  <2>1. /\ SchemeAccepted(active.schemes[i], evaluationDate)
        /\ SchemeAccepted(active.schemes[j], evaluationDate)
        /\ RidsDistinct(active)
    BY DEF StoreInv, Loadable
  <2>2. active.schemes[i].rid = active.schemes[j].rid
    BY <2>1 DEF SchemeAccepted
  <2>3. i = j
    BY <2>1, <2>2 DEF RidsDistinct
  <2> QED BY <2>1, <2>3 DEF SchemeAccepted
<1> QED BY <1>1, Stores, PTL

(* A key that has not expired is found by its RID and index, and none in   *)
(* its stead (oda.rs, select_capk): its own checks, for the evaluation     *)
(* date, refuse nothing that the load has accepted.                        *)
THEOREM CapksAreSelectable == Spec => []CapksSelectable
PROOF
<1>1. StoreInv => CapksSelectable
  BY ActiveTyped, CapkFound DEF StoreInv, CapksSelectable
<1> QED BY <1>1, Stores, PTL

(* The scope of a certification profile is exact (config.rs,               *)
(* validate_certification_scope_scheme_profiles compares no two names of   *)
(* schemes, the count does).                                               *)
THEOREM ScopeIsExact == Spec => []ScopeExact
PROOF
<1>1. StoreInv => ScopeExact
  <2> SUFFICES ASSUME StoreInv, active # NoProfiles PROVE ScopeExact
    BY DEF ScopeExact
  <2>1. active \in ProfileDocuments /\ ScopeAccepted(active)
    BY ActiveTyped DEF StoreInv, Loadable
  <2>2. \A i, j \in DOMAIN active.schemes :
          active.schemes[i].name = active.schemes[j].name => i = j
    BY <2>1, NamesOnce
  <2>3. IsInjective([i \in DOMAIN active.schemes |-> active.schemes[i].name])
    BY <2>2 DEF IsInjective
  <2>4. \A i \in DOMAIN active.schemes : active.schemes[i].name \notin active.labSupplied
    BY <2>1 DEF ScopeAccepted
  <2> QED BY <2>3, <2>4 DEF ScopeExact, Distinct
<1> QED BY <1>1, Stores, PTL

(* A kernel is named for every interface an AID is offered on (config.rs,  *)
(* validate_scheme_interface_kernel_mapping).                              *)
THEOREM InterfacesAreServed == Spec => []InterfacesServed
PROOF
<1>1. StoreInv => InterfacesServed
  BY DEF StoreInv, InterfacesServed, Loadable, SchemeAccepted, KernelsNamed
<1> QED BY <1>1, Stores, PTL

(* A bundle is newer than any that this context has, or the host has       *)
(* stored (ffi.rs, krn_load_certification_bundle_verified).                *)
THEOREM RollbackIsProtected == Spec => RollbackProtected
PROOF
<1>1. StoreInv /\ [Next]_vars =>
        [bundle' # bundle /\ bundle' # NoBundle =>
           counter' > counter /\ counter' > persisted]_vars
  <2> SUFFICES ASSUME StoreInv, Next, bundle' # bundle, bundle' # NoBundle
               PROVE  counter' > counter /\ counter' > persisted
    BY DEF vars
  <2>1. LoadCertificationBundle
    BY DEF Next, LoadProfiles, SelectCapk, Tick, Persist, Restart
  <2>2. PICK b \in Bundles : b.counter > Installed /\ counter' = b.counter
    BY <2>1 DEF LoadCertificationBundle, BundleAccepted
  <2>3. b.counter \in Nat /\ counter \in Nat /\ persisted \in Nat
    BY StoreAssumption DEF CertificationBundles, Versions, StoreInv, TypeOK
  <2> QED BY <2>2, <2>3 DEF Installed
<1> QED BY <1>1, Stores, PTL DEF Spec, RollbackProtected
=============================================================================
