---------------------------- MODULE KernelContext ----------------------------
(***************************************************************************)
(* The kernel context of src/ffi.rs (struct KrnContext) and the entry      *)
(* points of the C ABI that only configure it: transaction parameters and  *)
(* inputs, reset, profile and bundle loading, callback registration, and   *)
(* the rejection of a call made from inside a callback.                    *)
(*                                                                         *)
(* A driver call (krn_run_transaction or a krn_process call) runs host      *)
(* callbacks; call names the one in progress and busy is call # "none".     *)
(* The modules RunTransaction and OnlineCompletion give its steps, one per *)
(* callback, so that whatever a callback does happens between two steps.   *)
(***************************************************************************)
EXTENDS Integers, Sequences, FiniteSets, TransactionFsm,
        TerminalActionAnalysis

CONSTANTS
  MaxVersion,      \* profile versions and rollback counters are 1..MaxVersion
  ProfileSet,      \* version -> the sequence of AID profiles it configures
  ParamChoices,    \* transaction parameters the host may set
  InputChoices,    \* sets of per-transaction inputs one host call may add
  CardIac,         \* issuer action codes the card holds in 9F0D/9F0E/9F0F
  AipChoices,      \* ODA support the card may claim in its AIP
  RecordChoices,   \* sets of data objects one application record may hold
  MaxRecords,      \* longest READ RECORD plan
  RestrictionChoices, CvmChoices,   \* results of S6 and S7
  UnChoices,       \* unpredictable numbers the host generator returns
  HostChoices,     \* authorization responses the host may apply
  CallbackErrors   \* errors a failing card exchange ends with

VARIABLES
  fsm, kstate, lastError,          \* fsm_state, state, last_error
  call, local,                     \* the driver call in progress, its locals
  params, inputs,                  \* txn_params; 9F-inputs, samples, handles
  runtime, uiCallback,             \* callbacks registered with the context
  profiles, bundle,                \* profile version, bundle rollback counter
  tvr, tsi,
  selected, odaMethod,             \* selected_application, selected_oda_method
  cardData, tag95, lastUn,         \* card_data, its copy of the TVR, last UN
  requested, firstGac, onlineData, \* requested cryptogram, first GAC, package
  host, scriptResults, finalGac,   \* host_response, script results, final GAC
  outcome                          \* final_outcome

controlVars == <<fsm, kstate, lastError, call, local>>
configVars  == <<runtime, uiCallback, profiles, bundle>>
inputVars   == <<params, inputs>>
riskVars    == <<tvr, tsi>>
cardVars    == <<selected, odaMethod, cardData, tag95>>
gacVars     == <<requested, firstGac, onlineData>>
hostVars    == <<host, scriptResults, finalGac>>
evidence    == <<riskVars, cardVars, gacVars, hostVars, outcome>>
vars        == <<controlVars, configVars, inputVars, evidence, lastUn>>

Versions   == 1..MaxVersion
Interfaces == {"contact", "contactless"}
Errors     == {"Ok", "InvalidArgument", "ParseError", "LengthOverflow",
               "InvalidProfile", "MissingMandatoryTag", "NoCommonAid",
               "CardRemoved", "ScriptFailed", "Busy", "RngFailure",
               "InternalError"}
KernelStates ==
  {"Idle", "ParamsSet", "SelectEnvironment", "BuildCandidateList", "Gpo",
   "ReadRecords", "OfflineDataAuthentication", "ProcessingRestrictions",
   "Cvm", "TerminalRiskManagement", "TerminalActionAnalysis",
   "FirstGenerateAc", "OnlineAuthorization", "IssuerAuthentication",
   "IssuerScripts", "SecondGenerateAc", "PostFinalIssuerScripts",
   "FinalOutcome", "Error"}
TsiBits  == {"OdaPerformed", "CvmPerformed", "TrmPerformed",
             "IssuerAuthPerformed", "ScriptsPerformed"}
DriverCalls == {"run", "limits", "auth", "pre", "post", "gac2"}
OfflineOutcomes     == {"ApprovedOffline", "DeclinedOffline"}
OnlineOutcomes      == {"ApprovedOnline", "DeclinedOnline"}
ContactlessOutcomes == {"TryAgain", "AlternateInterface", "Terminated"}
Outcomes == OfflineOutcomes \cup OnlineOutcomes \cup ContactlessOutcomes

(* Data objects the kernel looks up in card_data.  "9F37" is there once    *)
(* transaction_data_store has run, "9F34" when the CVM Results say success.*)
IacTag == [denial |-> "9F0E", online |-> "9F0F", default |-> "9F0D"]
RecordObjects == {"5F24", "5F28", "9F07", "8C", "8D", "8E", "8F", "9F6C",
                  "9F0D", "9F0E", "9F0F"}
DataObjects   == RecordObjects \cup {"9F37", "9F34"}
MandatoryForRestrictions == {"5F24", "5F28", "9F07"}
InputKinds == {"trmSample", "offlineCounter"}

AidProfiles ==
  [interfaces : SUBSET Interfaces, tac : ActionCodes, iac : ActionCodes,
   taa : TaaProfiles, critical : SUBSET Nat, cda : BOOLEAN, cdcvm : BOOLEAN,
   defaultCdol1 : BOOLEAN, relay : {"none"} \cup ContactlessOutcomes,
   txnLimit : Nat, cvmLimit : Nat, floor : Nat, trmFloor : Nat,
   random : BOOLEAN, velocity : SUBSET VelocityBits]
TxnParams == [interface : Interfaces, onlineCapable : BOOLEAN, amount : Nat]
Aips      == SUBSET {"sda", "dda", "cda"}
Phases    == {"71", "72"}
Scripts   == [phase : Phases, commands : Seq(Nat) \ {<<>>}]
HostResponses == [approve : BOOLEAN, arpc : BOOLEAN, scripts : Seq(Scripts)]
ScriptResultRecs ==
  [phase : Phases, script : Nat \ {0}, command : Nat \ {0}, ok : BOOLEAN]

NoParams   == [interface |-> "none"]
NoApp      == [aid |-> 0]
NoHost     == [scripts |-> <<>>]
NoUn       == "NoUn"
NoPackage  == {"NoPackage"}   \* a set, as packages are; not a TVR

ASSUME VersionsAssumption == MaxVersion \in Nat \ {0}
ASSUME ProfilesAssumption == ProfileSet \in [Versions -> Seq(AidProfiles)]
ASSUME ParamsAssumption   == ParamChoices \subseteq TxnParams
ASSUME InputsAssumption   == InputChoices \subseteq SUBSET InputKinds
ASSUME CardAssumption ==
  /\ CardIac \in ActionCodes
  /\ AipChoices \subseteq Aips
  /\ RecordChoices \subseteq SUBSET RecordObjects
  /\ MaxRecords \in Nat
  /\ RestrictionChoices \subseteq SUBSET RestrictionBits
  /\ CvmChoices \subseteq [bits : SUBSET CvmBits, successful : BOOLEAN]
  /\ NoUn \notin UnChoices
ASSUME HostAssumption == HostChoices \subseteq HostResponses
ASSUME ErrorsAssumption == CallbackErrors \subseteq Errors \ {"Ok"}

(* The driver's locals between two callbacks: the AIDs still to try and    *)
(* the one being tried, the records still to read, and the position in the *)
(* issuer scripts.                                                         *)
Locals  == [candidates : SUBSET Nat, aid : Nat, records : Nat,
            script : Nat, command : Nat]
NoLocal == [candidates |-> {}, aid |-> 0, records |-> 0,
            script |-> 0, command |-> 0]

Busy == call # "none"

(* selected_aid_profile: the indices stored at selection, looked up in the *)
(* profile set the context holds now.                                      *)
AidConfigured(aid) == profiles # 0 /\ aid \in DOMAIN ProfileSet[profiles]
AidProfile(aid)    == ProfileSet[profiles][aid]

-----------------------------------------------------------------------------
(* krn_context_new (runtime = FALSE) or krn_init                           *)
Init ==
  /\ fsm = "S0" /\ kstate = "Idle" /\ lastError = "Ok"
  /\ call = "none" /\ local = NoLocal
  /\ params = NoParams /\ inputs = {}
  /\ runtime \in BOOLEAN /\ uiCallback \in (IF runtime THEN BOOLEAN ELSE {FALSE})
  /\ profiles = 0 /\ bundle = 0
  /\ tvr = {} /\ tsi = {}
  /\ selected = NoApp /\ odaMethod = "none"
  /\ cardData = {} /\ tag95 = {} /\ lastUn = NoUn
  /\ requested = "none" /\ firstGac = "none" /\ onlineData = NoPackage
  /\ host = NoHost /\ scriptResults = <<>> /\ finalGac = "none"
  /\ outcome = "none"

(* Mutants: one object of the last transaction survives.                   *)
ClearEvidence_KeepsHost ==
  /\ UNCHANGED <<host, lastUn>> /\ tvr' = {} /\ tsi' = {}
  /\ selected' = NoApp /\ odaMethod' = "none" /\ cardData' = {} /\ tag95' = {}
  /\ requested' = "none" /\ firstGac' = "none" /\ onlineData' = NoPackage
  /\ scriptResults' = <<>> /\ finalGac' = "none" /\ outcome' = "none" /\ inputs' = {}

ClearEvidence_KeepsOutcome ==
  /\ UNCHANGED <<outcome, lastUn>> /\ tvr' = {} /\ tsi' = {}
  /\ selected' = NoApp /\ odaMethod' = "none" /\ cardData' = {} /\ tag95' = {}
  /\ requested' = "none" /\ firstGac' = "none" /\ onlineData' = NoPackage
  /\ host' = NoHost /\ scriptResults' = <<>> /\ finalGac' = "none" /\ inputs' = {}

(* What KrnContext::reset and krn_set_transaction_params both clear.       *)
ClearEvidence ==
  /\ tvr' = {} /\ tsi' = {}
  /\ selected' = NoApp /\ odaMethod' = "none"
  /\ cardData' = {} /\ tag95' = {}
  /\ requested' = "none" /\ firstGac' = "none" /\ onlineData' = NoPackage
  /\ host' = NoHost /\ scriptResults' = <<>> /\ finalGac' = "none"
  /\ outcome' = "none"
  /\ inputs' = {}

SetTransactionParams ==
  /\ ~Busy
  /\ \E p \in ParamChoices : params' = p
  /\ ClearEvidence
  /\ fsm' = Target("S0", "SetTransactionParams") /\ kstate' = "ParamsSet"
  /\ lastError' = "Ok"
  /\ UNCHANGED <<call, local, configVars, lastUn>>

(* Mutant: the reset is accepted while a driver call is in progress.       *)
Reset_DuringCall ==
  /\ params' = NoParams
  /\ ClearEvidence
  /\ fsm' = "S0" /\ kstate' = "Idle" /\ lastError' = "Ok"
  /\ UNCHANGED <<call, local, configVars, lastUn>>

Reset ==
  /\ ~Busy
  /\ params' = NoParams
  /\ ClearEvidence
  /\ fsm' = "S0" /\ kstate' = "Idle" /\ lastError' = "Ok"
  /\ UNCHANGED <<call, local, configVars, lastUn>>

(* krn_set_nonvolatile_offline_counter, krn_set_trm_random_selection_sample*)
(* and the other per-transaction setters: accepted in every state.         *)
SetTransactionInput ==
  /\ ~Busy
  /\ \E given \in InputChoices : inputs' = inputs \cup given
  /\ lastError' = "Ok"
  /\ UNCHANGED <<fsm, kstate, call, local, params, configVars, evidence, lastUn>>

(* An entry point that validates its arguments, finds them wrong and only  *)
(* records the error: bad parameters, inputs, profiles or host data, or a  *)
(* getter asked for something the context does not hold.                   *)
RejectArguments ==
  /\ ~Busy
  /\ lastError' \in {"InvalidArgument", "ParseError", "InvalidProfile"}
  /\ UNCHANGED <<fsm, kstate, call, local, inputVars, configVars, evidence, lastUn>>

(* krn_load_profiles_verified: the candidate must be newer than both the   *)
(* installed version the host passes (a free choice, so only a smaller     *)
(* set of candidates) and the version the context holds.                   *)
LoadProfiles ==
  /\ ~Busy
  /\ \E version \in Versions, installed \in 0..MaxVersion :
       /\ version > installed /\ version > profiles
       /\ profiles' = version
  /\ lastError' = "Ok"
  /\ UNCHANGED <<fsm, kstate, call, local, inputVars, runtime, uiCallback,
                 bundle, evidence, lastUn>>

(* krn_load_certification_bundle_verified: only the bundle counter is      *)
(* compared; the embedded profile set carries that counter as its version. *)
LoadCertificationBundle ==
  /\ ~Busy
  /\ \E counter \in Versions, installed \in 0..MaxVersion :
       /\ counter > installed /\ counter > bundle
       /\ bundle' = counter /\ profiles' = counter
  /\ lastError' = "Ok"
  /\ UNCHANGED <<fsm, kstate, call, local, inputVars, runtime, uiCallback,
                 evidence, lastUn>>

SetContactlessOutcomeCallback ==
  /\ ~Busy
  /\ uiCallback' \in BOOLEAN
  /\ lastError' = "Ok"
  /\ UNCHANGED <<fsm, kstate, call, local, inputVars, runtime, profiles,
                 bundle, evidence, lastUn>>

(* Mutant: CDA that the profile does not allow is taken for "not asked for".*)
SelectOdaMethod_Silent(aip, cdaAllowed) ==
  CASE "cda" \in aip /\ cdaAllowed -> "Cda"
    [] ~("cda" \in aip /\ cdaAllowed) /\ "dda" \in aip -> "Dda"
    [] ~("cda" \in aip /\ cdaAllowed) /\ aip \cap {"dda", "sda"} = {"sda"} -> "Sda"
    [] OTHER -> "NotRequired"

(* select_oda_method(selection_input_from_aip(..))                         *)
SelectOdaMethod(aip, cdaAllowed) ==
  CASE "cda" \in aip /\ cdaAllowed -> "Cda"
    [] ~("cda" \in aip /\ cdaAllowed) /\ "dda" \in aip -> "Dda"
    [] ~("cda" \in aip /\ cdaAllowed) /\ aip \cap {"dda", "sda"} = {"sda"} -> "Sda"
    [] ~cdaAllowed /\ aip = {"cda"} -> "NotPerformedRequired"
    [] aip = {} -> "NotRequired"

(* contactless_cvm_satisfied looks at the card transaction qualifiers.     *)
ReadsCtq ==
  "9F34" \notin cardData /\ AidProfile(selected.aid).cdcvm /\ "9F6C" \in cardData

(* Mutant: an amount one over the limit passes.                            *)
Over_OffByOne(limit) == limit # 0 /\ params.amount > limit + 1

Over(limit) == limit # 0 /\ params.amount > limit

ContactlessCvmSatisfied == "9F34" \in cardData \/ ReadsCtq

OverTransactionLimit == Over(AidProfile(selected.aid).txnLimit)
CvmStillRequired == Over(AidProfile(selected.aid).cvmLimit) /\ ~ContactlessCvmSatisfied

(* The early outcomes of run_required_relay_resistance and of              *)
(* evaluate_contactless_limits, most specific first.                       *)
EarlyOutcomes ==
  {o \in ContactlessOutcomes :
     \/ o = AidProfile(selected.aid).relay
     \/ o = "AlternateInterface" /\ OverTransactionLimit
     \/ o = "TryAgain" /\ ~OverTransactionLimit /\ CvmStillRequired}

(* An outcome, or the notice that the transaction must go online, is due.  *)
NoticeDue == EarlyOutcomes # {} \/ Over(AidProfile(selected.aid).floor)

(* A callback is running: the next step of the call in progress is the     *)
(* host's answer to it (S5 only asks the card under DDA, with a CAPK).     *)
InCallback ==
  \/ call = "run" /\ fsm \in {"S2", "S2SelectAid", "S3", "S4", "S10"}
  \/ /\ call = "run" /\ fsm = "S5" /\ "8F" \in cardData
     /\ SelectOdaMethod(selected.aip, AidProfile(selected.aid).cda) = "Dda"
  \/ call = "limits" /\ (AidProfile(selected.aid).relay # "none" \/ (uiCallback /\ NoticeDue))
  \/ call \in {"auth", "gac2"}
  \/ /\ call \in {"pre", "post"} /\ fsm \in {"S13Script", "S15Script"}
     /\ AidConfigured(selected.aid)

(* mark_reentrant_call: any other entry point, called from inside one.     *)
ReentrantCall ==
  /\ InCallback
  /\ lastError' = "Busy"
  /\ UNCHANGED <<fsm, kstate, call, local, inputVars, configVars, evidence, lastUn>>

ConfigNext ==
  \/ SetTransactionParams \/ Reset \/ SetTransactionInput \/ RejectArguments
  \/ LoadProfiles \/ LoadCertificationBundle \/ SetContactlessOutcomeCallback
  \/ ReentrantCall

-----------------------------------------------------------------------------
(* How a driver call ends.                                                 *)

(* fail_transaction: krn_run_transaction turns every error into Se.        *)
FailTransaction(error) ==
  /\ lastError' = error
  /\ kstate' = "Error" /\ fsm' = "Se"
  /\ call' = "none" /\ local' = NoLocal

(* set_result(Err(error)) of the krn_process calls:  the error is         *)
(* recorded and the state machine stays where it is.                       *)
ReturnError(error) ==
  /\ lastError' = error
  /\ call' = "none" /\ local' = NoLocal
  /\ UNCHANGED <<fsm, kstate>>

(* Mutant: a success leaves the last error alone.                          *)
ReturnOk_KeepsError(state, phase) ==
  /\ UNCHANGED lastError
  /\ call' = "none" /\ local' = NoLocal
  /\ fsm' = state /\ kstate' = phase

ReturnOk(state, phase) ==
  /\ lastError' = "Ok"
  /\ call' = "none" /\ local' = NoLocal
  /\ fsm' = state /\ kstate' = phase

(* Mutant: the copy is taken before the step records its results.          *)
StoreTvr_Stale == tag95' = tvr

(* The TVR is copied into card_data as tag 95, whose copy the DOL builder   *)
(* and the online package read.                                            *)
StoreTvr == tag95' = tvr'

(* The call goes on: the state machine moves, the call's locals change.    *)
Continue(state, phase, frame) ==
  /\ fsm' = state /\ kstate' = phase /\ local' = frame
  /\ UNCHANGED <<lastError, call>>
=============================================================================
