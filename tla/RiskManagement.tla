--------------------------- MODULE RiskManagement ---------------------------
(***************************************************************************)
(* Terminal risk management, src/trm.rs, and the profile it works from     *)
(* (AidProfile::trm_profile, config.rs).  An Option is a set of at most    *)
(* one element.                                                            *)
(***************************************************************************)
EXTENDS Naturals, Sequences

MaxTypeLimits == 16      \* MAX_TRANSACTION_TYPE_FLOOR_LIMITS
BasisPoints   == 0..9999

TypeLimits  == [type : 0..255, limit : Nat]
TrmProfiles == [floor : Nat, typeLimits : Seq(TypeLimits), percent : Nat,
                lower : SUBSET Nat, upper : SUBSET Nat]

(* TrmProfile::with_transaction_type_floor_limits accepts it.              *)
TrmProfileValid(profile) ==
  /\ profile.percent <= 100
  /\ Len(profile.typeLimits) <= MaxTypeLimits
  /\ \A i, j \in 1..Len(profile.typeLimits) :
       profile.typeLimits[i].type = profile.typeLimits[j].type => i = j
  /\ \A lower \in profile.lower, upper \in profile.upper : lower <= upper

(* Mutant: the general floor limit, whatever the transaction type.         *)
FloorLimit_General(profile, type) == profile.floor

(* floor_limit_for_transaction_type: the first entry of the type.          *)
FloorLimit(profile, type) ==
  LET of == {i \in 1..Len(profile.typeLimits) : profile.typeLimits[i].type = type}
  IN  IF of = {} THEN profile.floor
      ELSE profile.typeLimits[CHOOSE i \in of : \A j \in of : i <= j].limit

CounterRequired(profile) == profile.lower \cup profile.upper # {}

(* offline_count_for_profile and random_selection_triggered return Ok: a   *)
(* counter the profile needs comes from non-volatile storage.              *)
RiskInputsSuffice(profile, counter, sample) ==
  /\ CounterRequired(profile)
     => counter # {} /\ \A c \in counter : c.source = "nonVolatile"
  /\ sample \subseteq BasisPoints
  /\ profile.percent > 0 => sample # {}

Exceeds(counter, limits) == \E c \in counter, limit \in limits : c.count > limit

(* Mutant: the upper limit is compared with >= on the wrong side.          *)
RiskBits_UpperOffByOne(profile, amount, type, counter, sample) ==
  (IF amount > FloorLimit(profile, type) THEN {"FloorLimitExceeded"} ELSE {})
  \cup (IF \E c \in counter, limit \in profile.upper : c.count > limit + 1
        THEN {"UpperOfflineLimit"} ELSE {})

(* evaluate, with the exception file and the merchant's wish the driver    *)
(* passes (never a match, never forced); counter only if it is required.   *)
RiskBits(profile, amount, type, counter, sample) ==
  (IF amount > FloorLimit(profile, type) THEN {"FloorLimitExceeded"} ELSE {})
  \cup (IF Exceeds(counter, profile.lower) THEN {"LowerOfflineLimit"} ELSE {})
  \cup (IF Exceeds(counter, profile.upper) THEN {"UpperOfflineLimit"} ELSE {})
  \cup (IF \E s \in sample : s < profile.percent * 100
        THEN {"RandomSelection"} ELSE {})
=============================================================================
