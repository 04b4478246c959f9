----------------------- MODULE TerminalActionAnalysis -----------------------
(***************************************************************************)
(* Terminal action analysis, src/taa.rs: which cryptogram the kernel asks  *)
(* of the card.  A Tvr is the set of its bits that are set; an action code *)
(* is a set of TVR bits; "denial", "online" and "default" index the three  *)
(* action codes of ActionCodes.                                            *)
(***************************************************************************)

OdaBits         == {"OdaNotPerformed", "SdaFailed", "IccDataMissing",
                    "DdaFailed", "CdaFailed"}
RestrictionBits == {"ExpiredApplication", "NotYetEffective",
                    "ServiceNotAllowed"}
CvmBits         == {"CvmNotSuccessful", "UnrecognizedCvm",
                    "PinTryLimitExceeded", "PinPadNotPresent",
                    "PinNotEntered", "OnlinePinEntered"}
VelocityBits    == {"LowerOfflineLimit", "UpperOfflineLimit"}
TrmBits         == {"FloorLimitExceeded", "RandomSelection"} \cup VelocityBits
IssuerBits      == {"IssuerAuthFailed", "ScriptFailedBefore",
                    "ScriptFailedAfter"}

(* The bits the kernel sets; DIFFERENT_APPLICATION_VERSIONS, NEW_CARD,     *)
(* CARD_ON_EXCEPTION_FILE, MERCHANT_FORCED_ONLINE and DEFAULT_TDOL_USED    *)
(* have no setter on the paths src/ffi.rs takes.                           *)
TvrBits == OdaBits \cup RestrictionBits \cup CvmBits \cup TrmBits
           \cup IssuerBits

CodeKinds       == {"denial", "online", "default"}
ActionCodes     == [CodeKinds -> SUBSET TvrBits]
TerminalActions == {"Aac", "Tc", "Arqc"}

(* TaaProfile::new accepts exactly these profiles.                         *)
TaaProfiles ==
  [unableOnlineFallback : {"Aac", "Tc"},
   onlineCapableDefault : {"Tc", "Arqc"},
   offlineOnlyDefault   : {"Tc", "Aac"}]

(* intersects(tvr, or5(tac.kind, iac.kind))                                *)
Matches(tvr, tac, iac, kind) == tvr \cap (tac[kind] \cup iac[kind]) # {}

Decide(tvr, tac, iac, onlineCapable, profile) ==
  CASE Matches(tvr, tac, iac, "denial") -> "Aac"
    [] ~Matches(tvr, tac, iac, "denial") /\ onlineCapable ->
         IF Matches(tvr, tac, iac, "online")
         THEN "Arqc" ELSE profile.onlineCapableDefault
    [] ~Matches(tvr, tac, iac, "denial") /\ ~onlineCapable ->
         IF Matches(tvr, tac, iac, "default")
         THEN profile.unableOnlineFallback ELSE profile.offlineOnlyDefault
=============================================================================
