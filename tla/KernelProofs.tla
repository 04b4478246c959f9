---------------------------- MODULE KernelProofs ----------------------------
(***************************************************************************)
(* Types and safety of a transaction, for every value of the constants.    *)
(*                                                                         *)
(* The context always holds values of its types (TypeOK).  TypeOK alone is *)
(* not inductive: a step of krn_run_transaction reads the profile of an    *)
(* AID chosen several callbacks earlier and counts down a record plan, so  *)
(* the proof carries which states a call in progress can be in             *)
(* (CallMatchesState), what a run has looked up (RunPrepared) and where a  *)
(* script stands (ScriptPosition).                                         *)
(*                                                                         *)
(* An approval rests on its evidence, the evidence retained is of one      *)
(* transaction, ODA is accounted for, and only an ARQC the terminal asked  *)
(* for goes online.  From the same invariant: what a step may never do     *)
(* (replace an outcome, lose a bit of the TVR or the TSI, send an          *)
(* unpredictable number twice, let a contactless transaction proceed over  *)
(* a limit), and that every step is one of the lifecycle of a transaction  *)
(* (module TransactionLifecycle).  Last, the issuer scripts.               *)
(***************************************************************************)
EXTENDS Kernel, TLAPS

(* The inductive invariant behind TypeOK.                                  *)
RunTypes == TypeOK /\ CallMatchesState /\ RunPrepared /\ ScriptPosition

-----------------------------------------------------------------------------
(* Lemmas about the definitions the actions are built from.                *)

(* The rows of the table the driver's steps use.                           *)
LEMMA TargetFacts ==
  /\ Target("S0", "SetTransactionParams") = "S1"
  /\ Target("S1", "CardDetected") = "S2"
  /\ \A e \in {"PseSelected", "PseNotFound"} : Target("S2", e) = "S2AidList"
  /\ Target("S2AidList", "CandidateAidAvailable") = "S2SelectAid"
  /\ Target("S2SelectAid", "AidSelected") = "S3"
  /\ Target("S2SelectAid", "AidNotSupported") = "S2AidList"
  /\ Target("S3", "GpoTemplate77") = "S4" /\ Target("S3", "GpoTemplate80") = "S5"
  /\ Target("S4", "RecordRead") = "S4Next"
  /\ \A e \in {"EndOfRecords", "RecordReadFailed"} : Target("S4", e) = "S5"
  /\ Target("S4Next", "MoreAflEntries") = "S4" /\ Target("S4Next", "AflComplete") = "S5"
  /\ Target("S5", "OdaSuccess") = "S6" /\ Target("S6", "RestrictionsEvaluated") = "S7"
  /\ Target("S7", "CvmSuccess") = "S8" /\ Target("S8", "TrmEvaluated") = "S9"
  /\ Target("S9", "TaaArqc") = "S10" /\ Target("S10", "GacArqc") = "S11"
  /\ Target("S11", "HostArpc") = "S12" /\ Target("S11", "HostApprovalNoArpc") = "S13"
  /\ \A e \in {"IssuerAuthenticationSuccess", "IssuerAuthenticationFailure"} :
       Target("S12", e) = "S13"
  /\ Target("S13", "ScriptAvailable") = "S13Script" /\ Target("S13", "NoMoreScripts") = "S14"
  /\ Target("S13Script", "ScriptSuccess") = "S13"
  /\ \A e \in {"Gac2Tc", "Gac2Aac", "FinalGenerateAcSkipped"} : Target("S14", e) = "S15"
  /\ Target("S14", "Gac2Failed") = "Se"
  /\ Target("S15", "ScriptAvailable") = "S15Script" /\ Target("S15", "NoMoreScripts") = "S16"
  /\ Target("S15Script", "ScriptSuccess") = "S15"
PROOF
<1>1. /\ Target("S0", "SetTransactionParams") = "S1"
      /\ Target("S1", "CardDetected") = "S2"
      /\ \A e \in {"PseSelected", "PseNotFound"} : Target("S2", e) = "S2AidList"
      /\ Target("S2AidList", "CandidateAidAvailable") = "S2SelectAid"
  BY SMTT(30) DEF Target, FsmRows
<1>2. /\ Target("S2SelectAid", "AidSelected") = "S3"
      /\ Target("S2SelectAid", "AidNotSupported") = "S2AidList"
      /\ Target("S3", "GpoTemplate77") = "S4" /\ Target("S3", "GpoTemplate80") = "S5"
      /\ Target("S4", "RecordRead") = "S4Next"
  BY SMTT(30) DEF Target, FsmRows
<1>3. /\ \A e \in {"EndOfRecords", "RecordReadFailed"} : Target("S4", e) = "S5"
      /\ Target("S4Next", "MoreAflEntries") = "S4" /\ Target("S4Next", "AflComplete") = "S5"
      /\ Target("S5", "OdaSuccess") = "S6" /\ Target("S6", "RestrictionsEvaluated") = "S7"
      /\ Target("S7", "CvmSuccess") = "S8" /\ Target("S8", "TrmEvaluated") = "S9"
  BY SMTT(30) DEF Target, FsmRows
<1>4. /\ Target("S9", "TaaArqc") = "S10" /\ Target("S10", "GacArqc") = "S11"
      /\ Target("S11", "HostArpc") = "S12" /\ Target("S11", "HostApprovalNoArpc") = "S13"
      /\ \A e \in {"IssuerAuthenticationSuccess", "IssuerAuthenticationFailure"} :
           Target("S12", e) = "S13"
      /\ Target("S13", "ScriptAvailable") = "S13Script" /\ Target("S13", "NoMoreScripts") = "S14"
  BY SMTT(30) DEF Target, FsmRows
<1>5. /\ Target("S13Script", "ScriptSuccess") = "S13"
      /\ \A e \in {"Gac2Tc", "Gac2Aac", "FinalGenerateAcSkipped"} : Target("S14", e) = "S15"
      /\ Target("S14", "Gac2Failed") = "Se"
      /\ Target("S15", "ScriptAvailable") = "S15Script" /\ Target("S15", "NoMoreScripts") = "S16"
  BY SMTT(30) DEF Target, FsmRows
<1>6. /\ Target("S15Script", "ScriptSuccess") = "S15"
  BY SMTT(30) DEF Target, FsmRows
<1> QED BY <1>1, <1>2, <1>3, <1>4, <1>5, <1>6

(* CardDetected is accepted in S1 alone.                                   *)
LEMMA CanDetect == \A s \in FsmStates : CanApply(s, "CardDetected") <=> s = "S1"
PROOF
<1>1. \A s \in {"S0", "S2", "S2AidList", "S2SelectAid", "S3", "S4", "S4Next", "S5"} :
        "CardDetected" \notin DOMAIN FsmRows[s]
  BY SMTT(60) DEF FsmRows
<1>2. \A s \in {"S5Cda", "S6", "S7", "S7Retry", "S8", "S9", "S10", "S11"} :
        "CardDetected" \notin DOMAIN FsmRows[s]
  BY SMTT(60) DEF FsmRows
<1>3. \A s \in {"S12", "S13", "S13Script", "S14", "S15", "S15Script", "S16", "Se"} :
        "CardDetected" \notin DOMAIN FsmRows[s]
  BY SMTT(60) DEF FsmRows
<1>4. "CardDetected" \in DOMAIN FsmRows["S1"]
  BY DEF FsmRows
<1> QED BY <1>1, <1>2, <1>3, <1>4 DEF CanApply, FatalEvents, FsmStates

(* The state machine's place determines the call in progress.              *)
LEMMA CallFsm ==
  ASSUME CallMatchesState, call \in DriverCalls \cup {"none"}
  PROVE  /\ call = "auth" => fsm = "S12"
         /\ call = "gac2" => fsm = "S14"
         /\ call = "limits" => fsm = "S8"
         /\ call = "pre" => fsm \in {"S13", "S13Script"}
         /\ call = "post" => fsm \in {"S15", "S15Script"}
         /\ fsm \in RunStates => call \in {"run", "limits"}
PROOF
  BY DEF CallMatchesState, CallStates, Busy, DriverCalls, RunStates, BeforeGpo, BeforeTaa

(* A configured AID is an index of a profile of the set loaded.            *)
LEMMA ConfiguredAid ==
  ASSUME ConfigTypes, NEW aid, AidConfigured(aid)
  PROVE  aid \in Nat \ {0} /\ AidProfile(aid) \in AidProfiles
PROOF
<1>1. ProfileSet[profiles] \in Seq(AidProfiles)
  BY ProfilesAssumption, VersionsAssumption DEF ConfigTypes, AidConfigured, Versions
<1> QED BY <1>1 DEF AidConfigured, AidProfile

(* The AIDs of a loaded profile set are numbers.                           *)
LEMMA ConfiguredAids ==
  ASSUME ConfigTypes, profiles # 0
  PROVE  DOMAIN ProfileSet[profiles] \subseteq Nat
PROOF
  BY ConfiguredAid DEF AidConfigured

(* Terminal action analysis decides for one of the three cryptograms.      *)
LEMMA DecideType ==
  ASSUME NEW results, NEW tac, NEW iac, NEW online, NEW profile \in TaaProfiles
  PROVE  Decide(results, tac, iac, online, profile) \in TerminalActions
PROOF
  BY DEF Decide, TaaProfiles, TerminalActions

(* From GET PROCESSING OPTIONS to the first GENERATE AC the selected AID   *)
(* has a profile.                                                          *)
LEMMA SelectedProfile ==
  ASSUME RunTypes, fsm \in BeforeTaa \cup {"S10"}
  PROVE  AidProfile(selected.aid) \in AidProfiles
PROOF
  BY ConfiguredAid DEF RunTypes, TypeOK, RunPrepared, RunStates

(* So terminal action analysis is defined for it, whatever the TVR.        *)
LEMMA TaaDecisionType ==
  ASSUME RunTypes, fsm \in BeforeTaa \cup {"S10"}, NEW results
  PROVE  TaaDecision(results) \in TerminalActions
PROOF
  BY SelectedProfile, DecideType DEF TaaDecision, AidProfiles

(* What the TVR bits of a performed authentication can be.                 *)
LEMMA OdaResultsType ==
  ASSUME NEW method \in DOMAIN FailedBit
  PROVE  OdaResults(method) \subseteq SUBSET OdaBits
PROOF
  BY DEF OdaResults, FailedBit, OdaBits

(* The groups of bits the steps set are TVR bits.                          *)
LEMMA BitsType ==
  /\ OdaBits \subseteq TvrBits /\ RestrictionBits \subseteq TvrBits
  /\ CvmBits \subseteq TvrBits /\ TrmBits \subseteq TvrBits
  /\ IssuerBits \subseteq TvrBits /\ VelocityBits \subseteq TrmBits
PROOF
  BY DEF TvrBits, TrmBits

(* What the steps with the larger bodies do to the driver's locals.        *)
LEMMA NextCandidateEffect ==
  ASSUME local \in Locals, NextCandidate
  PROVE  /\ call = "run" /\ fsm = "S2AidList"
         /\ \/ /\ fsm' = "S2SelectAid" /\ UNCHANGED <<kstate, lastError, call>>
               /\ local' \in Locals /\ local'.aid \in local.candidates
               /\ local'.candidates \subseteq local.candidates
            \/ FailTransaction("NoCommonAid")
         /\ UNCHANGED <<inputVars, configVars, evidence, lastUn>>
PROOF
  BY ZenonT(60), TargetFacts DEF NextCandidate, InRun, Continue, Locals

(* The states of the two script phases.                                    *)
LEMMA ScriptTables ==
  /\ LoopState["pre"] = "S13" /\ LoopState["post"] = "S15"
  /\ AfterPhase["pre"] = "SecondGenerateAc" /\ AfterPhase["post"] = "FinalOutcome"
PROOF
  BY DEF LoopState, AfterPhase

(* The next script of the phase is entered at its first command, or the    *)
(* phase is over and the call returns.                                     *)
LEMMA NextScriptEffect ==
  ASSUME local \in Locals, NextScript
  PROVE  /\ (call = "pre" /\ fsm = "S13") \/ (call = "post" /\ fsm = "S15")
         /\ \/ /\ fsm' = IF call = "pre" THEN "S13Script" ELSE "S15Script"
               /\ local' = [local EXCEPT !.script = local.script + 1, !.command = 1]
               /\ local' \in Locals /\ local'.script # 0 /\ local'.command # 0
               /\ UNCHANGED <<kstate, lastError, call>>
            \/ IF call = "pre" THEN ReturnOk("S14", "SecondGenerateAc")
                               ELSE ReturnOk("S16", "FinalOutcome")
         /\ UNCHANGED <<inputVars, configVars, evidence, lastUn>>
PROOF
<1>1. (call = "pre" /\ fsm = "S13") \/ (call = "post" /\ fsm = "S15")
  <2>1. call \in {"pre", "post"} /\ fsm = LoopState[call]
    BY DEF NextScript
  <2> QED BY <2>1, ScriptTables
<1>2. CASE local.script < Len(ScriptsOf(host, Phase[call]))
  <2>1. Continue(Target(fsm, "ScriptAvailable"), kstate,
                 [local EXCEPT !.script = local.script + 1, !.command = 1])
    BY <1>2 DEF NextScript
  <2>2. UNCHANGED <<inputVars, configVars, evidence, lastUn>>
    BY DEF NextScript
  <2> DEFINE frame == [local EXCEPT !.script = local.script + 1, !.command = 1]
  <2>3. frame \in Locals /\ frame.script # 0 /\ frame.command # 0
    <3>1. local.script \in Nat /\ local.script + 1 \in Nat /\ local.script + 1 # 0
      BY DEF Locals
    <3>2. frame \in Locals
      BY <3>1 DEF Locals
    <3>3. frame.script = local.script + 1 /\ frame.command = 1
      BY DEF Locals
    <3> QED BY <3>1, <3>2, <3>3
  <2> QED BY <1>1, <2>1, <2>2, <2>3, TargetFacts DEF Continue
<1>3. CASE ~(local.script < Len(ScriptsOf(host, Phase[call])))
  <2>1. ReturnOk(Target(fsm, "NoMoreScripts"), AfterPhase[call])
    BY <1>3 DEF NextScript
  <2> QED BY <1>1, <2>1, TargetFacts, ScriptTables DEF NextScript
<1> QED BY <1>2, <1>3

(* After a command comes the next one, the end of its script, or the       *)
(* failure of the transaction.                                             *)
LEMMA ScriptCommandEffect ==
  ASSUME local \in Locals, ScriptCommand,
         call = "pre" => fsm \in {"S13", "S13Script"},
         call = "post" => fsm \in {"S15", "S15Script"}
  PROVE  /\ (call = "pre" /\ fsm = "S13Script") \/ (call = "post" /\ fsm = "S15Script")
         /\ \/ /\ local' = [local EXCEPT !.command = local.command + 1]
               /\ local' \in Locals /\ local'.script = local.script /\ local'.command # 0
               /\ UNCHANGED <<fsm, kstate, lastError, call>>
            \/ /\ fsm' = IF call = "pre" THEN "S13" ELSE "S15"
               /\ UNCHANGED <<local, kstate, lastError, call>>
            \/ FailTransaction("ScriptFailed")
PROOF
<1>1. (call = "pre" /\ fsm = "S13Script") \/ (call = "post" /\ fsm = "S15Script")
  <2>1. call \in {"pre", "post"} /\ fsm # LoopState[call]
    BY DEF ScriptCommand
  <2> QED BY <2>1, ScriptTables
<1>2. \/ Continue(fsm, kstate, [local EXCEPT !.command = local.command + 1])
      \/ Continue(Target(fsm, "ScriptSuccess"), kstate, local)
      \/ FailTransaction("ScriptFailed")
  BY DEF ScriptCommand
<1> QED BY <1>1, <1>2, TargetFacts DEF Continue, Locals

(* Offline data authentication sets TVR bits only.                         *)
LEMMA OfflineDataAuthenticationEffect ==
  ASSUME OfflineDataAuthentication, tvr \subseteq TvrBits
  PROVE  tvr' \subseteq TvrBits
PROOF
<1> DEFINE method == SelectOdaMethod(selected.aip, AidProfile(selected.aid).cda)
<1>1. CASE method = "NotRequired"
  BY <1>1 DEF OfflineDataAuthentication, FailedBit, riskVars
<1>2. CASE method = "NotPerformedRequired"
  BY <1>2, BitsType DEF OfflineDataAuthentication, FailedBit, OdaBits
<1>3. CASE method \in DOMAIN FailedBit
  <2>1. PICK bits \in OdaResults(method) : tvr' = tvr \cup bits
    BY <1>3 DEF OfflineDataAuthentication, FailedBit
  <2> QED BY <1>3, <2>1, OdaResultsType, BitsType
<1> QED BY <1>1, <1>2, <1>3 DEF OfflineDataAuthentication

USE TargetFacts, CallFsm, VersionsAssumption, ParamsAssumption,
    InputsAssumption, CardAssumption, HostAssumption, ErrorsAssumption
USE DEF RunTypes, TypeOK, ControlTypes, Locals, NoLocal, FsmStates, KernelStates,
        Errors, DriverCalls, Busy, CallMatchesState, CallStates, RunPrepared,
        ScriptPosition, RunStates, TransientStates, BeforeGpo, BeforeTaa,
        AidConfigured, InRun, Continue, FailTransaction, ReturnOk, ReturnError, StoreTvr,
        ConfigTypes, Versions, InputKinds, NoParams,
        controlVars, configVars, inputVars, riskVars, cardVars, gacVars,
        hostVars, evidence
USE DEF CardTypes, TsiBits, DataObjects, RecordObjects, Aips, NoApp,
        DecisionTypes, TerminalActions, Outcomes, OfflineOutcomes,
        OnlineOutcomes, ContactlessOutcomes, NoPackage

-----------------------------------------------------------------------------
(* The steps.                                                              *)

(* A new context is well typed.                                            *)
LEMMA InitTypes == Init => RunTypes
PROOF
<1> SUFFICES ASSUME Init PROVE RunTypes
  OBVIOUS
<1>1. ControlTypes
  BY DEF Init
<1>2. ConfigTypes
  <2>1. runtime \in BOOLEAN /\ uiCallback \in BOOLEAN
    BY DEF Init
  <2>2. 0 \in 0..MaxVersion
    OBVIOUS
  <2> QED BY <2>1, <2>2 DEF Init
<1>3. CardTypes /\ DecisionTypes
  BY DEF Init
<1>4. CallMatchesState /\ RunPrepared /\ ScriptPosition
  BY DEF Init
<1> QED BY <1>1, <1>2, <1>3, <1>4

(* The entry points that only configure the context keep it so.            *)
LEMMA ConfigTypesStep == RunTypes /\ ConfigNext => RunTypes'
PROOF
<1> SUFFICES ASSUME RunTypes, ConfigNext PROVE RunTypes'
  OBVIOUS
<1>1. CASE SetTransactionParams
  BY <1>1 DEF SetTransactionParams, ClearEvidence
<1>2. CASE Reset
  BY <1>2 DEF Reset, ClearEvidence
<1>3. CASE SetTransactionInput
  BY <1>3 DEF SetTransactionInput
<1>4. CASE RejectArguments
  BY <1>4 DEF RejectArguments
<1>5. CASE LoadProfiles
  BY <1>5 DEF LoadProfiles
<1>6. CASE LoadCertificationBundle
  BY <1>6 DEF LoadCertificationBundle
<1>7. CASE SetContactlessOutcomeCallback
  BY <1>7 DEF SetContactlessOutcomeCallback
<1>8. CASE ReentrantCall
  BY <1>8 DEF ReentrantCall
<1> QED BY <1>1, <1>2, <1>3, <1>4, <1>5, <1>6, <1>7, <1>8 DEF ConfigNext

(* A call that fails leaves the control variables well typed.              *)
LEMMA FailTypes ==
  ASSUME NEW error \in Errors, FailTransaction(error)
  PROVE  ControlTypes' /\ CallMatchesState' /\ RunPrepared' /\ ScriptPosition'
PROOF
<1>1. ControlTypes'
  OBVIOUS
<1>2. CallMatchesState' /\ RunPrepared' /\ ScriptPosition'
  OBVIOUS
<1> QED BY <1>1, <1>2

(* A step of the records loop or around it that goes on keeps the locals   *)
(* well typed.                                                             *)
LEMMA FramesTyped ==
  ASSUME local \in Locals
  PROVE  /\ [local EXCEPT !.candidates = {}] \in Locals
         /\ [local EXCEPT !.aid = 0] \in Locals
         /\ [local EXCEPT !.records = 0] \in Locals
         /\ \A n \in Nat : [local EXCEPT !.records = n] \in Locals
PROOF
  OBVIOUS

(* So does every step of krn_run_transaction.                              *)
LEMMA RunTypesStep == RunTypes /\ RunNext => RunTypes'
PROOF
<1> SUFFICES ASSUME RunTypes, RunNext PROVE RunTypes'
  OBVIOUS
<1>1. CASE StartRun
  <2>1. CASE RunRefusal = "Ok"
    <3>1. params # NoParams /\ runtime /\ profiles # 0 /\ fsm = "S1"
      BY <2>1, CanDetect DEF RunRefusal
    <3>2. ControlTypes' /\ CallMatchesState' /\ RunPrepared' /\ ScriptPosition'
      BY <1>1, <2>1, <3>1 DEF StartRun
    <3>3. ConfigTypes' /\ CardTypes' /\ DecisionTypes'
      BY <1>1 DEF StartRun
    <3> QED BY <3>2, <3>3
  <2>2. CASE RunRefusal # "Ok"
    <3>1. RunRefusal \in Errors
      BY DEF RunRefusal
    <3> QED BY <1>1, <2>2, <3>1 DEF StartRun
  <2> QED BY <2>1, <2>2
<1>2. CASE SelectEnvironment
  <2>1. ProfileAids \subseteq DOMAIN ProfileSet[profiles] /\ ProfileAids \subseteq Nat
    BY <1>2, ConfiguredAids DEF SelectEnvironment, ProfileAids
  <2> QED BY <1>2, <2>1 DEF SelectEnvironment
<1>3. CASE NextCandidate
  <2>1. ControlTypes' /\ CallMatchesState' /\ ScriptPosition'
    BY SMTT(60), <1>3, NextCandidateEffect
  <2>2. RunPrepared'
    <3>1. CASE FailTransaction("NoCommonAid")
      BY <3>1
    <3>2. CASE fsm' = "S2SelectAid" /\ local'.aid \in local.candidates
               /\ local'.candidates \subseteq local.candidates
      <4>1. RunPrepared /\ fsm = "S2AidList"
            /\ UNCHANGED <<params, runtime, profiles>>
        BY <1>3, NextCandidateEffect
      <4>2. AidConfigured(local'.aid) /\ UNCHANGED profiles
        BY <3>2, <4>1
      <4> QED BY <3>2, <4>1, <4>2
    <3> QED BY <1>3, <3>1, <3>2, NextCandidateEffect
  <2>3. UNCHANGED <<inputVars, configVars, evidence, lastUn>>
    BY <1>3 DEF NextCandidate
  <2>4. ConfigTypes' /\ CardTypes' /\ DecisionTypes'
    BY <2>3
  <2> QED BY <2>1, <2>2, <2>4
<1>4. CASE SelectAid
  <2>1. UNCHANGED <<inputVars, configVars, evidence, lastUn>>
        /\ fsm = "S2SelectAid" /\ call = "run"
    BY <1>4 DEF SelectAid
  <2>2. ConfigTypes' /\ CardTypes' /\ DecisionTypes'
    BY <2>1
  <2>3. CASE Continue("S2AidList", kstate, [local EXCEPT !.aid = 0])
    <3>1. ControlTypes' /\ CallMatchesState' /\ ScriptPosition'
      BY ZenonT(90), <2>1, <2>3, FramesTyped
    <3>2. RunPrepared'
      BY <2>1, <2>3
    <3> QED BY <3>1, <3>2, <2>2
  <2>4. CASE Continue("S3", "Gpo", [local EXCEPT !.candidates = {}])
    <3>1. ControlTypes' /\ CallMatchesState' /\ ScriptPosition'
      BY <2>1, <2>4, FramesTyped
    <3>2. RunPrepared'
      BY <2>1, <2>4
    <3> QED BY <3>1, <3>2, <2>2
  <2>5. CASE FailTransaction("NoCommonAid")
    <3>1. ControlTypes' /\ CallMatchesState' /\ RunPrepared' /\ ScriptPosition'
      BY <2>5, FailTypes
    <3> QED BY <2>2, <3>1
  <2>6. \/ Continue("S2AidList", kstate, [local EXCEPT !.aid = 0])
        \/ Continue("S3", "Gpo", [local EXCEPT !.candidates = {}])
        \/ FailTransaction("NoCommonAid")
    BY <1>4, <2>1 DEF SelectAid
  <2> QED BY <2>3, <2>4, <2>5, <2>6
<1>5. CASE DrawUnpredictableNumber
  <2>1. fsm' \in {"S3", "Se"} /\ ControlTypes' /\ CallMatchesState' /\ ScriptPosition'
    BY <1>5 DEF DrawUnpredictableNumber
  <2>2. lastUn' \in UnChoices \cup {NoUn} /\ cardData' \subseteq DataObjects
        /\ tag95' \subseteq TvrBits
    <3>1. \/ lastUn' \in UnChoices /\ cardData' = {"9F37"} /\ tag95' = tvr
          \/ UNCHANGED <<lastUn, cardData, tag95>>
      BY <1>5 DEF DrawUnpredictableNumber
    <3> QED BY ZenonT(90), <3>1
  <2>3. ConfigTypes' /\ CardTypes' /\ DecisionTypes'
    BY <1>5, <2>2 DEF DrawUnpredictableNumber
  <2>4. RunPrepared'
    <3>1. CASE FailTransaction("RngFailure")
      BY <3>1
    <3>2. CASE UNCHANGED controlVars
      <4>1. fsm = "S3" /\ UNCHANGED <<params, runtime, profiles>>
        BY <1>5 DEF DrawUnpredictableNumber
      <4> QED BY <3>2, <4>1
    <3>3. UNCHANGED controlVars \/ FailTransaction("RngFailure")
      BY <1>5 DEF DrawUnpredictableNumber
    <3> QED BY <3>1, <3>2, <3>3
  <2> QED BY <2>1, <2>3, <2>4
<1>6. CASE GetProcessingOptions
  <2>1. local.aid \in Nat \ {0}
    BY <1>6, ConfiguredAid DEF GetProcessingOptions
  <2>2. ControlTypes' /\ CallMatchesState' /\ RunPrepared' /\ ScriptPosition'
    <3>1. fsm = "S3" /\ call = "run" /\ "9F37" \in cardData
          /\ UNCHANGED <<inputVars, configVars, cardData>>
      BY <1>6 DEF GetProcessingOptions
    <3>2. CASE FailTransaction("MissingMandatoryTag")
      BY <3>2, FailTypes
    <3>3. ASSUME NEW plan \in 1..MaxRecords, selected'.aid = local.aid,
                 Continue("S4", "ReadRecords", [local EXCEPT !.records = plan])
          PROVE  ControlTypes' /\ CallMatchesState' /\ RunPrepared' /\ ScriptPosition'
      <4>1. plan \in Nat /\ plan # 0
        OBVIOUS
      <4>2. local' \in Locals /\ local'.records # 0
            /\ local'.candidates = local.candidates
        BY SMTT(90), <3>3, <4>1, FramesTyped
      <4>3. ControlTypes' /\ CallMatchesState' /\ ScriptPosition'
        BY <3>1, <3>3, <4>2
      <4>4. RunPrepared'
        BY <3>1, <3>3, <4>2
      <4> QED BY <4>3, <4>4
    <3>4. ASSUME selected'.aid = local.aid,
                 Continue("S5", "OfflineDataAuthentication", local)
          PROVE  ControlTypes' /\ CallMatchesState' /\ RunPrepared' /\ ScriptPosition'
      <4>1. ControlTypes' /\ CallMatchesState' /\ ScriptPosition'
        BY <3>1, <3>4
      <4>2. RunPrepared'
        BY <3>1, <3>4
      <4> QED BY <4>1, <4>2
    <3>5. \/ FailTransaction("MissingMandatoryTag")
          \/ /\ selected'.aid = local.aid
             /\ \/ \E plan \in 1..MaxRecords :
                      Continue("S4", "ReadRecords", [local EXCEPT !.records = plan])
                \/ Continue("S5", "OfflineDataAuthentication", local)
      BY <1>6, <3>1 DEF GetProcessingOptions
    <3> QED BY <3>2, <3>3, <3>4, <3>5
  <2>3. ConfigTypes' /\ CardTypes' /\ DecisionTypes'
    BY <1>6, <2>1 DEF GetProcessingOptions
  <2> QED BY <2>2, <2>3
<1>7. CASE ReadRecord
  <2>1. tvr' \subseteq TvrBits
    BY <1>7, BitsType DEF ReadRecord, OdaBits
  <2> QED BY <1>7, <2>1 DEF ReadRecord
<1>8. CASE NextRecord
  BY <1>8 DEF NextRecord
<1>9. CASE OfflineDataAuthentication
  <2>1. tvr' \subseteq TvrBits
    BY <1>9, OfflineDataAuthenticationEffect
  <2>2. odaMethod' \in DOMAIN FailedBit \cup {"none"} /\ tsi' \subseteq TsiBits
    BY ZenonT(60), <1>9 DEF OfflineDataAuthentication
  <2>3. ControlTypes' /\ CallMatchesState' /\ RunPrepared' /\ ScriptPosition'
    BY <1>9 DEF OfflineDataAuthentication
  <2>4. ConfigTypes' /\ CardTypes' /\ DecisionTypes'
    BY <1>9, <2>1, <2>2 DEF OfflineDataAuthentication
  <2> QED BY <2>3, <2>4
<1>10. CASE ProcessingRestrictions
  <2>1. tvr' \subseteq TvrBits
    BY <1>10, BitsType DEF ProcessingRestrictions
  <2> QED BY <1>10, <2>1 DEF ProcessingRestrictions
<1>11. CASE CvmProcessing
  <2>1. tvr' \subseteq TvrBits /\ tag95' \subseteq TvrBits
    BY <1>11, BitsType DEF CvmProcessing
  <2>2. ControlTypes' /\ CallMatchesState' /\ RunPrepared' /\ ScriptPosition'
    BY <1>11 DEF CvmProcessing
  <2>3. cardData' \subseteq DataObjects /\ tsi' \subseteq TsiBits
    BY <1>11 DEF CvmProcessing
  <2>4. ConfigTypes' /\ CardTypes' /\ DecisionTypes'
    BY <1>11, <2>1, <2>3 DEF CvmProcessing
  <2> QED BY <2>2, <2>4
<1>12. CASE ContactlessLimits
  BY <1>12 DEF ContactlessLimits, EarlyOutcomes
<1>13. CASE TerminalRiskManagement
  <2>1. tvr' \subseteq TvrBits /\ tag95' \subseteq TvrBits
    <3>1. AidProfile(selected.aid).velocity \subseteq VelocityBits
      BY <1>13, SelectedProfile DEF TerminalRiskManagement, AidProfiles
    <3>2. {"RandomSelection", "FloorLimitExceeded"} \subseteq TvrBits
      BY BitsType DEF TrmBits
    <3> QED BY <1>13, <3>1, <3>2, BitsType DEF TerminalRiskManagement
  <2>2. ControlTypes' /\ CallMatchesState' /\ RunPrepared' /\ ScriptPosition'
    BY <1>13 DEF TerminalRiskManagement
  <2>3. tsi' \subseteq tsi \cup {"TrmPerformed"}
    BY <1>13 DEF TerminalRiskManagement
  <2>4. ConfigTypes' /\ CardTypes' /\ DecisionTypes'
    BY <1>13, <2>1, <2>3 DEF TerminalRiskManagement
  <2> QED BY <2>2, <2>4
<1>14. CASE TerminalActionAnalysisStep
  <2>1. requested' \in TerminalActions
    BY <1>14, TaaDecisionType DEF TerminalActionAnalysisStep
  <2> QED BY <1>14, <2>1 DEF TerminalActionAnalysisStep, OfflineOutcomeOf
<1>15. CASE FirstGenerateAc
  <2>1. PICK cryptogram \in {"Arqc", "Tc", "Aac", "Aar"}, cda \in CdaVerifications :
          /\ tvr' = IF cda = "failed" THEN tvr \cup {"CdaFailed"} ELSE tvr
          /\ tag95' = tvr' /\ CardAnswers(cryptogram, cda)
    BY <1>15 DEF FirstGenerateAc
  <2>2. /\ fsm = "S10" /\ call = "run"
        /\ UNCHANGED <<inputVars, configVars, tsi, selected, odaMethod, cardData,
                       hostVars, lastUn>>
    BY <1>15 DEF FirstGenerateAc
  <2>3. tvr' \subseteq TvrBits /\ tag95' \subseteq TvrBits
    BY <2>1, BitsType DEF OdaBits
  <2>4. /\ requested' \in TerminalActions \cup {"none"}
        /\ firstGac' \in TerminalActions \cup {"none"}
        /\ onlineData' \in (SUBSET TvrBits) \cup {NoPackage}
        /\ outcome' \in Outcomes \cup {"none"}
    BY <2>1, <2>2, <2>3, TaaDecisionType DEF CardAnswers, OfflineOutcomeOf
  <2>5. ControlTypes' /\ CallMatchesState' /\ RunPrepared' /\ ScriptPosition'
    BY <2>1, <2>2 DEF CardAnswers
  <2>6. ConfigTypes' /\ CardTypes' /\ DecisionTypes'
    BY <2>2, <2>3, <2>4
  <2> QED BY <2>5, <2>6
<1>16. CASE FirstGenerateAcFails
  BY <1>16 DEF FirstGenerateAcFails
<1>17. CASE CardExchangeFails
  BY <1>17 DEF CardExchangeFails, InCallback
<1>18. CASE MalformedCardData
  BY <1>18 DEF MalformedCardData, ParsedIn
<1> QED
  BY <1>1, <1>2, <1>3, <1>4, <1>5, <1>6, <1>7, <1>8, <1>9, <1>10, <1>11, <1>12,
     <1>13, <1>14, <1>15, <1>16, <1>17, <1>18 DEF RunNext

(* So does every step of the online completion.                            *)
LEMMA OnlineTypesStep == RunTypes /\ OnlineNext => RunTypes'
PROOF
<1> SUFFICES ASSUME RunTypes, OnlineNext PROVE RunTypes'
  OBVIOUS
<1>1. CASE ApplyHostResponse
  BY <1>1 DEF ApplyHostResponse
<1>2. CASE OutOfSequence
  BY <1>2 DEF OutOfSequence
<1>3. CASE StartIssuerAuthentication
  BY <1>3 DEF StartIssuerAuthentication, Enter, EntryState
<1>4. CASE IssuerAuthentication
  <2>1. "IssuerAuthFailed" \in TvrBits
    BY BitsType DEF IssuerBits
  <2> QED BY <1>4, <2>1 DEF IssuerAuthentication
<1>5. CASE StartScripts
  BY <1>5 DEF StartScripts, Enter, EntryState
<1>6. CASE NextScript
  <2>1. ControlTypes' /\ CallMatchesState' /\ ScriptPosition' /\ RunPrepared'
    BY SMTT(60), <1>6, NextScriptEffect
  <2>2. ConfigTypes' /\ CardTypes' /\ DecisionTypes'
    BY <1>6, NextScriptEffect
  <2> QED BY <2>1, <2>2
<1>7. CASE ScriptCommand
  <2>1. tvr' \subseteq TvrBits /\ tag95' \subseteq TvrBits
    BY <1>7, BitsType DEF ScriptCommand, FailureBit, IssuerBits
  <2>2. scriptResults' \in Seq(ScriptResultRecs)
    BY SMTT(60), <1>7, ScriptCommandEffect DEF ScriptCommand, ScriptResultRecs, Phase, Phases
  <2>3. ControlTypes' /\ CallMatchesState' /\ ScriptPosition'
    BY <1>7, ScriptCommandEffect
  <2>4. RunPrepared'
    BY <1>7, ScriptCommandEffect
  <2>5. ConfigTypes' /\ CardTypes' /\ DecisionTypes'
    BY <1>7, <2>1, <2>2 DEF ScriptCommand
  <2> QED BY <2>3, <2>4, <2>5
<1>8. CASE ScriptProfileMissing
  BY <1>8 DEF ScriptProfileMissing, LoopState
<1>9. CASE SkipFinalGenerateAc
  BY <1>9 DEF SkipFinalGenerateAc, Enter, EntryState, HostDecision
<1>10. CASE StartFinalGenerateAc
  BY <1>10 DEF StartFinalGenerateAc, Enter, EntryState
<1>11. CASE FinalGenerateAc
  BY <1>11 DEF FinalGenerateAc
<1>12. CASE FinalGenerateAcRefused
  BY <1>12 DEF FinalGenerateAcRefused
<1>13. CASE OnlineExchangeFails
  BY <1>13 DEF OnlineExchangeFails, InCallback, EntryState
<1> QED
  BY <1>1, <1>2, <1>3, <1>4, <1>5, <1>6, <1>7, <1>8, <1>9, <1>10, <1>11, <1>12,
     <1>13 DEF OnlineNext

(* The invariant is inductive.                                             *)
LEMMA RunTypesStable == RunTypes /\ [Next]_vars => RunTypes'
PROOF
<1>1. RunTypes /\ UNCHANGED vars => RunTypes'
  BY DEF vars
<1> QED BY <1>1, ConfigTypesStep, RunTypesStep, OnlineTypesStep DEF Next

(* Every reachable context holds values of its types, and a call in        *)
(* progress is in one of its own states with what it reads at hand.        *)
THEOREM TypeCorrectness == Spec => []RunTypes
PROOF
  BY InitTypes, RunTypesStable, PTL DEF Spec

THEOREM TypeInvariance == Spec => []TypeOK
PROOF
<1>1. RunTypes => TypeOK
  OBVIOUS
<1> QED BY <1>1, TypeCorrectness, PTL

-----------------------------------------------------------------------------
(***************************************************************************)
(* Safety.  None of the safety properties of a transaction is inductive    *)
(* alone.  They are proved together, from one invariant that also says     *)
(* which evidence a state does not have yet (NothingDecided,               *)
(* NothingFromHost, OdaPending) and that the ARQC the card is asked for is *)
(* what terminal action analysis still decides on the TVR as it is         *)
(* (ArqcDecided).                                                          *)
(***************************************************************************)

HIDE DEF RunTypes, TypeOK, ControlTypes, Locals, NoLocal, FsmStates, KernelStates,
         Errors, DriverCalls, Busy, CallMatchesState, CallStates, RunPrepared,
         ScriptPosition, RunStates, TransientStates, BeforeGpo, BeforeTaa,
         AidConfigured, InRun, Continue, FailTransaction, ReturnOk, ReturnError, StoreTvr,
         ConfigTypes, Versions, InputKinds, NoParams,
         controlVars, configVars, inputVars, riskVars, cardVars, gacVars,
         hostVars, evidence
HIDE DEF CardTypes, TsiBits, DataObjects, RecordObjects, Aips, NoApp,
         DecisionTypes, TerminalActions, Outcomes, OfflineOutcomes,
         OnlineOutcomes, ContactlessOutcomes, NoPackage
HIDE TargetFacts
HIDE CallFsm
HIDE VersionsAssumption
HIDE ParamsAssumption
HIDE InputsAssumption
HIDE CardAssumption
HIDE HostAssumption
HIDE ErrorsAssumption

(* The parts of the inductive invariant: what each stage of a transaction  *)
(* has and has not yet, what going online rests on, and the                *)
(* authentication.                                                         *)
Stages == NothingDecided /\ NothingFromHost /\ OutcomeWhenFinal /\ EvidenceChain
Online == ArqcDecided /\ OnlineOnlyOnArqc /\ PackageTvrCurrent
Oda    == OdaPending /\ OdaAccountedFor

(* With the types, and the justification of approvals, they are inductive. *)
Evidence  == Stages /\ Online /\ Oda /\ ApprovalJustified
SafetyInv == RunTypes /\ Evidence

-----------------------------------------------------------------------------
(* Terminal action analysis.                                               *)

(* More TVR bits never turn an ARQC decision into an approval, whatever    *)
(* the action codes are: what src/ffi.rs relies on when a failed CDA sends *)
(* it back to terminal action analysis.                                    *)
LEMMA ArqcNeverTc ==
  ASSUME NEW results, NEW later, results \subseteq later,
         NEW tac, NEW iac, NEW online \in BOOLEAN, NEW profile \in TaaProfiles,
         Decide(results, tac, iac, online, profile) = "Arqc"
  PROVE  online /\ Decide(later, tac, iac, online, profile) # "Tc"
PROOF
  BY DEF Decide, Matches, TaaProfiles

(* The same of the decision for the selected AID.                          *)
LEMMA ArqcDecision ==
  ASSUME RunTypes, fsm \in BeforeTaa \cup {"S10"}, NEW results, NEW later,
         results \subseteq later, TaaDecision(results) = "Arqc"
  PROVE  params.onlineCapable /\ TaaDecision(later) # "Tc"
PROOF
<1>1. params.onlineCapable \in BOOLEAN
  BY DEF RunTypes, TypeOK, ConfigTypes, RunPrepared, RunStates, TxnParams
<1>2. AidProfile(selected.aid).taa \in TaaProfiles
  BY SelectedProfile DEF AidProfiles
<1> QED BY <1>1, <1>2, ArqcNeverTc DEF TaaDecision

(* The decision only changes with what it reads.                           *)
LEMMA TvrDecisionUnchanged ==
  ASSUME UNCHANGED <<profiles, params, selected, cardData, tvr>>
  PROVE  TaaDecision(tvr)' = TaaDecision(tvr)
PROOF
  BY DEF TaaDecision, IssuerActionCodes, AidProfile

-----------------------------------------------------------------------------
(* Offline data authentication.                                            *)

(* The failure bits of the three methods.                                  *)
LEMMA FailureBits ==
  /\ DOMAIN FailedBit = {"Sda", "Dda", "Cda"}
  /\ FailedBit["Sda"] = "SdaFailed" /\ FailedBit["Dda"] = "DdaFailed"
  /\ FailedBit["Cda"] = "CdaFailed"
PROOF
  BY DEF FailedBit

(* Every AIP selects a method, and only an empty one that none is needed.  *)
LEMMA OdaSelection ==
  ASSUME NEW aip \in Aips, NEW cda \in BOOLEAN
  PROVE  /\ SelectOdaMethod(aip, cda) \in
              {"Sda", "Dda", "Cda", "NotRequired", "NotPerformedRequired"}
         /\ SelectOdaMethod(aip, cda) = "NotRequired" => aip = {}
PROOF
<1>1. aip = {} \/ aip = {"cda"} \/ "dda" \in aip \/ "sda" \in aip
  BY DEF Aips
<1>2. CASE "cda" \in aip /\ cda
  BY <1>2 DEF SelectOdaMethod
<1>3. CASE ~("cda" \in aip /\ cda) /\ "dda" \in aip
  BY <1>3 DEF SelectOdaMethod
<1>4. CASE ~("cda" \in aip /\ cda) /\ "dda" \notin aip /\ "sda" \in aip
  <2>1. aip \cap {"dda", "sda"} = {"sda"}
    BY <1>4
  <2> QED BY <1>4, <2>1 DEF SelectOdaMethod
<1>5. CASE ~("cda" \in aip /\ cda) /\ aip = {"cda"}
  BY <1>5 DEF SelectOdaMethod
<1>6. CASE aip = {}
  BY <1>6 DEF SelectOdaMethod
<1> QED BY <1>1, <1>2, <1>3, <1>4, <1>5, <1>6

(* A performed authentication sets its own failure bit only.               *)
LEMMA OdaResultsBits ==
  ASSUME NEW method \in DOMAIN FailedBit, NEW bits \in OdaResults(method)
  PROVE  bits \subseteq {FailedBit[method], "IccDataMissing"}
PROOF
  BY DEF OdaResults

(* A step after S5 that sets no failure bit keeps ODA accounted for.       *)
LEMMA OdaKept ==
  ASSUME Oda, UNCHANGED <<selected, odaMethod>>, tvr \subseteq tvr', tsi \subseteq tsi',
         tvr' \cap {"SdaFailed", "DdaFailed", "CdaFailed"}
           = tvr \cap {"SdaFailed", "DdaFailed", "CdaFailed"},
         fsm \in {"S6", "S7", "S8", "S9", "S10"} \cup OnlineStates,
         fsm' \in {"S6", "S7", "S8", "S9", "S10", "S16", "Se"} \cup OnlineStates
  PROVE  Oda'
PROOF
  BY FailureBits DEF Oda, OdaPending, OdaAccountedFor, OnlineStates, BeforeGpo

(* An online package is a TVR, so it is not the absence of one.            *)
LEMMA PackageIsNoTvr == \A bits \in SUBSET TvrBits : bits # NoPackage
PROOF
  BY DEF TvrBits, OdaBits, RestrictionBits, CvmBits, TrmBits, VelocityBits,
         IssuerBits, NoPackage

(* A host response is not the absence of one.                              *)
LEMMA NoHostIsNoResponse == \A r \in HostResponses : r # NoHost
PROOF
  BY DEF HostResponses, NoHost

-----------------------------------------------------------------------------
(* The steps.                                                              *)

USE TargetFacts, CallFsm, CanDetect, FailureBits
USE DEF SafetyInv, Evidence, RunTypes, TypeOK, RunPrepared, Busy, InRun, Continue,
        FailTransaction, ReturnOk, ReturnError, StoreTvr, controlVars, configVars,
        inputVars, riskVars, cardVars, gacVars, hostVars, evidence
USE DEF RunStates, TransientStates, BeforeGpo, BeforeTaa, OnlineStates,
        CallMatchesState, CallStates, ControlTypes, DriverCalls, DecisionTypes, Outcomes,
        OfflineOutcomes, OnlineOutcomes, ContactlessOutcomes, NoPackage, NoApp,
        NoParams
USE DEF Stages, NothingDecided, NothingFromHost, OutcomeWhenFinal, EvidenceChain,
        Online, ArqcDecided, OnlineOnlyOnArqc, PackageTvrCurrent, Oda, OdaPending,
        OdaAccountedFor, ApprovalJustified

(* The entry points that only configure the context keep the evidence      *)
(* consistent: they clear all of it or none.                               *)
LEMMA ConfigEvidenceStep == SafetyInv /\ ConfigNext => Evidence'
PROOF
<1> SUFFICES ASSUME SafetyInv, ConfigNext PROVE Evidence'
  OBVIOUS
<1>1. CASE SetTransactionParams
  BY <1>1 DEF SetTransactionParams, ClearEvidence
<1>2. CASE Reset
  BY <1>2 DEF Reset, ClearEvidence
<1>3. CASE SetTransactionInput
  BY <1>3 DEF SetTransactionInput
<1>4. CASE RejectArguments
  BY <1>4 DEF RejectArguments
<1>5. CASE LoadProfiles
  BY <1>5 DEF LoadProfiles, Versions
<1>6. CASE LoadCertificationBundle
  BY <1>6 DEF LoadCertificationBundle, Versions
<1>7. CASE SetContactlessOutcomeCallback
  BY <1>7 DEF SetContactlessOutcomeCallback
<1>8. CASE ReentrantCall
  <2>1. TaaDecision(tvr)' = TaaDecision(tvr)
    BY <1>8, TvrDecisionUnchanged DEF ReentrantCall
  <2>2. ArqcDecided'
    BY <1>8, <2>1 DEF ReentrantCall
  <2> QED BY <1>8, <2>2 DEF ReentrantCall
<1> QED BY <1>1, <1>2, <1>3, <1>4, <1>5, <1>6, <1>7, <1>8 DEF ConfigNext

(* So does every step of krn_run_transaction.                              *)
LEMMA RunEvidenceStep == SafetyInv /\ RunNext => Evidence'
PROOF
<1> SUFFICES ASSUME SafetyInv, RunNext PROVE Evidence'
  OBVIOUS
<1>1. CASE StartRun
  BY <1>1 DEF StartRun, RunRefusal
<1>2. CASE SelectEnvironment
  BY <1>2 DEF SelectEnvironment, ProfileAids
<1>3. CASE NextCandidate
  BY ZenonT(60), <1>3 DEF NextCandidate
<1>4. CASE SelectAid
  BY <1>4 DEF SelectAid
<1>5. CASE DrawUnpredictableNumber
  BY <1>5 DEF DrawUnpredictableNumber
<1>6. CASE GetProcessingOptions
  BY <1>6 DEF GetProcessingOptions
<1>7. CASE ReadRecord
  BY <1>7 DEF ReadRecord
<1>8. CASE NextRecord
  BY <1>8 DEF NextRecord
<1>9. CASE OfflineDataAuthentication
  <2> DEFINE method == SelectOdaMethod(selected.aip, AidProfile(selected.aid).cda)
  <2>1. Stages' /\ Online' /\ ApprovalJustified'
    BY <1>9 DEF OfflineDataAuthentication
  <2>2. selected.aip \in Aips /\ AidProfile(selected.aid).cda \in BOOLEAN
    <3>1. selected.aid \in Nat \ {0}
      BY <1>9, ConfiguredAid DEF OfflineDataAuthentication
    <3> QED BY <1>9, <3>1, SelectedProfile
            DEF OfflineDataAuthentication, AidProfiles, CardTypes
  <2>3. CASE method = "NotRequired"
    BY <1>9, <2>2, <2>3, OdaSelection DEF OfflineDataAuthentication
  <2>4. CASE method = "NotPerformedRequired"
    BY <1>9, <2>4 DEF OfflineDataAuthentication
  <2>5. CASE method \in DOMAIN FailedBit
    <3>1. /\ odaMethod' = method /\ tsi' = tsi \cup {"OdaPerformed"}
          /\ \E bits \in OdaResults(method) : tvr' = tvr \cup bits
      BY <1>9, <2>5 DEF OfflineDataAuthentication
    <3>2. tvr' \subseteq tvr \cup {FailedBit[method], "IccDataMissing"}
      BY <2>5, <3>1, OdaResultsBits
    <3>3. fsm = "S5" /\ fsm' = "S6"
      BY <1>9 DEF OfflineDataAuthentication
    <3> QED BY <2>1, <2>5, <3>1, <3>2, <3>3
  <2> QED BY <2>1, <2>2, <2>3, <2>4, <2>5, OdaSelection
<1>10. CASE ProcessingRestrictions
  <2>1. Stages' /\ Online' /\ ApprovalJustified'
    BY <1>10 DEF ProcessingRestrictions
  <2>2. Oda'
    BY <1>10, OdaKept, CardAssumption DEF ProcessingRestrictions, RestrictionBits
  <2> QED BY <2>1, <2>2
<1>11. CASE CvmProcessing
  <2>1. Stages' /\ Online' /\ ApprovalJustified'
    BY <1>11 DEF CvmProcessing
  <2>2. Oda'
    BY <1>11, OdaKept, CardAssumption DEF CvmProcessing, CvmBits
  <2> QED BY <2>1, <2>2
<1>12. CASE ContactlessLimits
  BY <1>12 DEF ContactlessLimits, EarlyOutcomes
<1>13. CASE TerminalRiskManagement
  <2>1. Stages' /\ Online' /\ ApprovalJustified'
    BY <1>13 DEF TerminalRiskManagement
  <2>2. AidProfile(selected.aid).velocity \subseteq VelocityBits
    BY <1>13, SelectedProfile DEF TerminalRiskManagement, AidProfiles
  <2>3. Oda'
    BY <1>13, <2>2, OdaKept DEF TerminalRiskManagement, VelocityBits
  <2> QED BY <2>1, <2>3
<1>14. CASE TerminalActionAnalysisStep
  <2>1. requested' = TaaDecision(tvr) /\ requested' \in TerminalActions
    BY <1>14, TaaDecisionType DEF TerminalActionAnalysisStep
  <2>2. fsm = "S9" /\ UNCHANGED <<inputVars, configVars, riskVars, cardVars,
                                  firstGac, onlineData, hostVars, lastUn>>
    BY <1>14 DEF TerminalActionAnalysisStep
  <2>3. selected # NoApp /\ cardData # {} /\ params # NoParams /\ runtime
    BY <2>2, ConfiguredAid
  <2>4. CASE requested' = "Arqc"
    <3>1. fsm' = "S10" /\ UNCHANGED outcome
      BY <1>14, <2>4 DEF TerminalActionAnalysisStep
    <3>2. TaaDecision(tvr)' = "Arqc"
      BY <2>1, <2>2, <2>4, TvrDecisionUnchanged
    <3>3. params.onlineCapable
      <4>1. TaaDecision(tvr) = "Arqc" /\ tvr \subseteq tvr
        BY <2>1, <2>4
      <4> QED BY <2>2, <4>1, ArqcDecision
    <3>4. Stages' /\ Oda' /\ ApprovalJustified'
      BY <2>2, <2>4, <2>3, <3>1
    <3> QED BY <2>2, <2>4, <3>1, <3>2, <3>3, <3>4
  <2>5. CASE requested' # "Arqc"
    <3>1. outcome' = OfflineOutcomeOf(requested') /\ ReturnOk("S16", "FinalOutcome")
      BY <1>14, <2>5 DEF TerminalActionAnalysisStep
    <3>2. \/ outcome' = "ApprovedOffline" /\ requested' = "Tc"
          \/ outcome' = "DeclinedOffline" /\ requested' = "Aac"
      BY <2>1, <2>5, <3>1 DEF OfflineOutcomeOf, TerminalActions
    <3>3. fsm' = "S16" /\ kstate' = "FinalOutcome"
      BY <3>1
    <3>4. Stages' /\ Oda' /\ Online'
      BY <2>2, <2>3, <3>2, <3>3
    <3>5. ApprovalJustified'
      BY <2>2, <3>2, <3>3
    <3> QED BY <3>4, <3>5
  <2> QED BY <2>4, <2>5
<1>15. CASE FirstGenerateAc
  <2>1. PICK cryptogram \in {"Arqc", "Tc", "Aac", "Aar"}, cda \in CdaVerifications :
          /\ tvr' = IF cda = "failed" THEN tvr \cup {"CdaFailed"} ELSE tvr
          /\ tag95' = tvr' /\ CardAnswers(cryptogram, cda)
    BY <1>15 DEF FirstGenerateAc
  <2>2. /\ fsm = "S10" /\ call = "run"
        /\ UNCHANGED <<inputVars, configVars, tsi, selected, odaMethod, cardData,
                       hostVars, lastUn>>
    BY <1>15 DEF FirstGenerateAc
  <2>3. /\ cda = "failed" => odaMethod = "Cda"
        /\ cda # "failed" => "CdaFailed" \notin tvr
    BY <2>2 DEF CdaVerifications
  <2>4. fsm' \in {"S11", "S16", "Se"}
    BY <2>1, <2>2 DEF CardAnswers
  <2>5. Oda'
    BY <2>1, <2>2, <2>3, <2>4
  <2>6. onlineData' # NoPackage => firstGac' = "Arqc"
    BY <2>1, <2>2 DEF CardAnswers
  <2>7. requested' # "none" /\ (firstGac' = "none" => onlineData' = NoPackage)
    BY <2>1, <2>2, TaaDecisionType DEF CardAnswers, TerminalActions
  <2>8. Stages'
    BY <2>1, <2>2, <2>4, <2>6, <2>7 DEF CardAnswers, OfflineOutcomeOf
  <2>9. Online'
    <3>1. tvr' \subseteq TvrBits
      BY <1>15, RunTypesStep DEF CardTypes, RunNext
    <3>2. fsm' = "S11" => onlineData' = tvr' /\ UNCHANGED <<requested, params>>
                          /\ firstGac' = "Arqc"
      BY <2>1, <2>2 DEF CardAnswers
    <3>3. ArqcDecided'
      BY SMTT(60), <2>2, <2>4, <3>1, <3>2, PackageIsNoTvr
    <3>4. OnlineOnlyOnArqc'
      BY SMTT(60), <2>2, <2>4, <3>1, <3>2, PackageIsNoTvr
    <3>5. PackageTvrCurrent'
      BY SMTT(60), <2>2, <2>4, <3>1, <3>2, PackageIsNoTvr
    <3> QED BY <3>3, <3>4, <3>5
  <2>10. ApprovalJustified'
    BY <2>1, <2>2, <2>3, ArqcDecision DEF CardAnswers, OfflineOutcomeOf
  <2> QED BY <2>5, <2>8, <2>9, <2>10
<1>16. CASE FirstGenerateAcFails
  BY <1>16 DEF FirstGenerateAcFails
<1>17. CASE CardExchangeFails
  BY <1>17 DEF CardExchangeFails, InCallback
<1>18. CASE MalformedCardData
  BY <1>18 DEF MalformedCardData, ParsedIn
<1> QED BY <1>1, <1>2, <1>3, <1>4, <1>5, <1>6, <1>7, <1>8, <1>9, <1>10, <1>11, <1>12, <1>13, <1>14, <1>15, <1>16, <1>17, <1>18 DEF RunNext

(* So does every step of the online completion.                            *)
LEMMA OnlineEvidenceStep == SafetyInv /\ OnlineNext => Evidence'
PROOF
<1> SUFFICES ASSUME SafetyInv, OnlineNext PROVE Evidence'
  OBVIOUS
<1>1. CASE ApplyHostResponse
  <2>1. host' # NoHost
    BY <1>1, NoHostIsNoResponse, HostAssumption DEF ApplyHostResponse
  <2> QED BY <1>1, <2>1 DEF ApplyHostResponse
<1>2. CASE OutOfSequence
  BY <1>2 DEF OutOfSequence
<1>3. CASE StartIssuerAuthentication
  BY <1>3 DEF StartIssuerAuthentication, Enter, EntryState
<1>4. CASE IssuerAuthentication
  BY <1>4 DEF IssuerAuthentication
<1>5. CASE StartScripts
  BY <1>5 DEF StartScripts, Enter, EntryState
<1>6. CASE NextScript
  BY <1>6 DEF NextScript, LoopState, AfterPhase
<1>7. CASE ScriptCommand
  BY <1>7 DEF ScriptCommand, LoopState, Phase, FailureBit
<1>8. CASE ScriptProfileMissing
  BY <1>8 DEF ScriptProfileMissing, LoopState
<1>9. CASE SkipFinalGenerateAc
  BY <1>9 DEF SkipFinalGenerateAc, Enter, EntryState, HostDecision
<1>10. CASE StartFinalGenerateAc
  BY <1>10 DEF StartFinalGenerateAc, Enter, EntryState
<1>11. CASE FinalGenerateAc
  BY <1>11 DEF FinalGenerateAc
<1>12. CASE FinalGenerateAcRefused
  BY <1>12 DEF FinalGenerateAcRefused
<1>13. CASE OnlineExchangeFails
  BY <1>13 DEF OnlineExchangeFails, InCallback, EntryState
<1> QED BY <1>1, <1>2, <1>3, <1>4, <1>5, <1>6, <1>7, <1>8, <1>9, <1>10, <1>11, <1>12, <1>13 DEF OnlineNext

(* The first context has no evidence.                                      *)
LEMMA InitEvidence == Init => Evidence
PROOF
<1> SUFFICES ASSUME Init PROVE Evidence
  OBVIOUS
<1>1. Stages /\ ApprovalJustified
  BY DEF Init
<1>2. Online /\ Oda
  BY DEF Init
<1> QED BY <1>1, <1>2

(* SafetyInv is inductive.                                                 *)
LEMMA SafetyStep == SafetyInv /\ [Next]_vars => SafetyInv'
PROOF
<1> SUFFICES ASSUME SafetyInv, [Next]_vars PROVE SafetyInv'
  OBVIOUS
<1>1. RunTypes'
  BY RunTypesStable
<1>2. CASE Next
  BY <1>1, <1>2, ConfigEvidenceStep, RunEvidenceStep, OnlineEvidenceStep DEF Next
<1>3. CASE UNCHANGED vars
  <2>1. TaaDecision(tvr)' = TaaDecision(tvr)
    BY <1>3, TvrDecisionUnchanged DEF vars
  <2>2. ArqcDecided'
    BY <1>3, <2>1 DEF vars
  <2>3. Stages' /\ Oda' /\ ApprovalJustified'
    BY <1>3 DEF vars
  <2>4. OnlineOnlyOnArqc' /\ PackageTvrCurrent'
    BY <1>3 DEF vars
  <2> QED BY <1>1, <2>2, <2>3, <2>4
<1> QED BY <1>2, <1>3

-----------------------------------------------------------------------------

HIDE DEF SafetyInv, Evidence, RunTypes, Stages, Online, Oda, ApprovalJustified,
         EvidenceChain, OnlineOnlyOnArqc, PackageTvrCurrent, OdaAccountedFor,
         OutcomeWhenFinal

(* Every reachable context satisfies the invariant.                        *)
THEOREM Safety == Spec => []SafetyInv
PROOF
<1>1. Init => SafetyInv
  BY InitTypes, InitEvidence DEF SafetyInv
<1> QED BY <1>1, SafetyStep, PTL DEF Spec

(* An approval rests on its evidence, whatever the card, the host, the     *)
(* profiles and the re-entrant calls do.                                   *)
THEOREM ApprovalIsJustified == Spec => []ApprovalJustified
PROOF
<1>1. SafetyInv => ApprovalJustified
  BY DEF SafetyInv, Evidence
<1> QED BY <1>1, Safety, PTL

(* The evidence retained is of one transaction.                            *)
THEOREM EvidenceIsChained == Spec => []EvidenceChain
PROOF
<1>1. SafetyInv => EvidenceChain
  BY DEF SafetyInv, Evidence, Stages
<1> QED BY <1>1, Safety, PTL

(* Only an ARQC that was asked for goes online, with the context's TVR.    *)
THEOREM OnlineIsArqc == Spec => [](OnlineOnlyOnArqc /\ PackageTvrCurrent)
PROOF
<1>1. SafetyInv => OnlineOnlyOnArqc /\ PackageTvrCurrent
  BY DEF SafetyInv, Evidence, Online
<1> QED BY <1>1, Safety, PTL

(* The package handed to the issuer holds the TVR of the context.          *)
THEOREM PackageIsCurrent == Spec => []PackageTvrCurrent
PROOF
  BY OnlineIsArqc, PTL

(* ODA the card's AIP asks for is performed or reported as not performed.  *)
THEOREM OdaIsAccountedFor == Spec => []OdaAccountedFor
PROOF
<1>1. SafetyInv => OdaAccountedFor
  BY DEF SafetyInv, Evidence, Oda
<1> QED BY <1>1, Safety, PTL

(* A transaction reports an outcome in its final states, and only there.   *)
THEOREM OutcomeIsFinal == Spec => []OutcomeWhenFinal
PROOF
<1>1. SafetyInv => OutcomeWhenFinal
  BY DEF SafetyInv, Evidence, Stages
<1> QED BY <1>1, Safety, PTL

-----------------------------------------------------------------------------
(* What a step may do, as an action without its temporal operators.        *)
OutcomeKept ==
  \/ outcome' = outcome \/ outcome = "none"
  \/ outcome' = "none" /\ fsm' \in {"S0", "S1"}

RiskKept == fsm' \in {"S0", "S1"} \/ (tvr \subseteq tvr' /\ tsi \subseteq tsi')

FreshNumber ==
  /\ lastUn # NoUn => lastUn' # NoUn
  /\ "9F37" \in cardData' \ cardData => lastUn' # lastUn

Kept == OutcomeKept /\ RiskKept /\ FreshNumber
LifecycleStep == Lifecycle!Next \/ UNCHANGED <<LifecyclePhase, outcome>>

USE TargetFacts, CallFsm, CanDetect, CardAssumption
USE DEF SafetyInv, Evidence, RunTypes, Stages, OutcomeWhenFinal, TypeOK, RunPrepared,
        Busy, InRun, Continue, FailTransaction, ReturnOk, ReturnError, StoreTvr, controlVars, configVars,
        inputVars, riskVars, cardVars, gacVars, hostVars, evidence
USE DEF RunStates, TransientStates, BeforeGpo, BeforeTaa, OnlineStates,
        CallMatchesState, CallStates, ControlTypes, DriverCalls, NothingDecided, NothingFromHost,
        OfflineOutcomes, OnlineOutcomes, ContactlessOutcomes
USE DEF Kept, OutcomeKept, RiskKept, FreshNumber, LifecycleStep, LifecyclePhase,
        Lifecycle!Next, Lifecycle!Clear, Lifecycle!Prepare, Lifecycle!Start,
        Lifecycle!DecideWithCard, Lifecycle!AskIssuer, Lifecycle!Answer,
        Lifecycle!DecideOnline, Lifecycle!Complete, Lifecycle!Fail,
        Lifecycle!Undecided

(* A context no call runs in is not talking to the card.                   *)
LEMMA IdleIsNotCard == SafetyInv /\ ~Busy => LifecyclePhase # "card"
PROOF
<1> SUFFICES ASSUME SafetyInv, ~Busy PROVE LifecyclePhase # "card"
  OBVIOUS
<1>1. fsm \in FsmStates \ (RunStates \cup TransientStates)
  OBVIOUS
<1>2. fsm \in {"S0", "S1", "S11", "S12", "S13", "S13Script", "S14", "S15",
               "S15Script", "S16", "Se"}
  BY <1>1 DEF FsmStates
<1> QED BY <1>2

(* The steps the host may make between calls.                              *)
LEMMA ConfigKept == SafetyInv /\ ConfigNext => Kept /\ LifecycleStep
PROOF
<1> SUFFICES ASSUME SafetyInv, ConfigNext PROVE Kept /\ LifecycleStep
  OBVIOUS
<1>1. CASE SetTransactionParams
  <2>1. LifecyclePhase # "card"
    BY <1>1, IdleIsNotCard DEF SetTransactionParams
  <2> QED BY <1>1, <2>1 DEF SetTransactionParams, ClearEvidence
<1>2. CASE Reset
  <2>1. LifecyclePhase # "card"
    BY <1>2, IdleIsNotCard DEF Reset
  <2> QED BY <1>2, <2>1 DEF Reset, ClearEvidence
<1>3. CASE SetTransactionInput
  BY <1>3 DEF SetTransactionInput
<1>4. CASE RejectArguments
  BY <1>4 DEF RejectArguments
<1>5. CASE LoadProfiles
  BY <1>5 DEF LoadProfiles, Versions
<1>6. CASE LoadCertificationBundle
  BY <1>6 DEF LoadCertificationBundle, Versions
<1>7. CASE SetContactlessOutcomeCallback
  BY <1>7 DEF SetContactlessOutcomeCallback
<1>8. CASE ReentrantCall
  BY <1>8 DEF ReentrantCall
<1> QED
  BY <1>1, <1>2, <1>3, <1>4, <1>5, <1>6, <1>7, <1>8 DEF ConfigNext

(* The steps of krn_run_transaction.                                       *)
LEMMA RunKept == SafetyInv /\ RunNext => Kept /\ LifecycleStep
PROOF
<1> SUFFICES ASSUME SafetyInv, RunNext PROVE Kept /\ LifecycleStep
  OBVIOUS
<1>1. CASE StartRun
  BY <1>1 DEF StartRun, RunRefusal
<1>2. CASE SelectEnvironment
  BY <1>2 DEF SelectEnvironment, ProfileAids
<1>3. CASE NextCandidate
  BY <1>3 DEF NextCandidate
<1>4. CASE SelectAid
  BY <1>4 DEF SelectAid
<1>5. CASE DrawUnpredictableNumber
  BY <1>5 DEF DrawUnpredictableNumber
<1>6. CASE GetProcessingOptions
  BY <1>6 DEF GetProcessingOptions
<1>7. CASE ReadRecord
  BY <1>7 DEF ReadRecord
<1>8. CASE NextRecord
  BY <1>8 DEF NextRecord
<1>9. CASE OfflineDataAuthentication
  BY <1>9 DEF OfflineDataAuthentication, OdaResults, FailedBit
<1>10. CASE ProcessingRestrictions
  BY <1>10 DEF ProcessingRestrictions
<1>11. CASE CvmProcessing
  BY <1>11 DEF CvmProcessing
<1>12. CASE ContactlessLimits
  BY <1>12 DEF ContactlessLimits, EarlyOutcomes
<1>13. CASE TerminalRiskManagement
  BY <1>13 DEF TerminalRiskManagement
<1>14. CASE TerminalActionAnalysisStep
  BY <1>14 DEF TerminalActionAnalysisStep, OfflineOutcomeOf
<1>15. CASE FirstGenerateAc
  BY <1>15 DEF FirstGenerateAc, CardAnswers, OfflineOutcomeOf
<1>16. CASE FirstGenerateAcFails
  BY <1>16 DEF FirstGenerateAcFails
<1>17. CASE CardExchangeFails
  BY <1>17 DEF CardExchangeFails, InCallback
<1>18. CASE MalformedCardData
  BY <1>18 DEF MalformedCardData, ParsedIn
<1> QED
  BY <1>1, <1>2, <1>3, <1>4, <1>5, <1>6, <1>7, <1>8, <1>9, <1>10, <1>11,
     <1>12, <1>13, <1>14, <1>15, <1>16, <1>17, <1>18 DEF RunNext

(* The steps of the online completion.                                     *)
LEMMA OnlineKept == SafetyInv /\ OnlineNext => Kept /\ LifecycleStep
PROOF
<1> SUFFICES ASSUME SafetyInv, OnlineNext PROVE Kept /\ LifecycleStep
  OBVIOUS
<1>1. CASE ApplyHostResponse
  BY <1>1 DEF ApplyHostResponse
<1>2. CASE OutOfSequence
  BY <1>2 DEF OutOfSequence
<1>3. CASE StartIssuerAuthentication
  BY <1>3 DEF StartIssuerAuthentication, Enter, EntryState
<1>4. CASE IssuerAuthentication
  BY <1>4 DEF IssuerAuthentication
<1>5. CASE StartScripts
  BY <1>5 DEF StartScripts, Enter, EntryState
<1>6. CASE NextScript
  BY <1>6 DEF NextScript, LoopState, AfterPhase
<1>7. CASE ScriptCommand
  BY <1>7 DEF ScriptCommand, LoopState, Phase, FailureBit
<1>8. CASE ScriptProfileMissing
  BY <1>8 DEF ScriptProfileMissing, LoopState
<1>9. CASE SkipFinalGenerateAc
  BY <1>9 DEF SkipFinalGenerateAc, Enter, EntryState, HostDecision
<1>10. CASE StartFinalGenerateAc
  BY <1>10 DEF StartFinalGenerateAc, Enter, EntryState
<1>11. CASE FinalGenerateAc
  BY <1>11 DEF FinalGenerateAc
<1>12. CASE FinalGenerateAcRefused
  BY <1>12 DEF FinalGenerateAcRefused
<1>13. CASE OnlineExchangeFails
  BY <1>13 DEF OnlineExchangeFails, InCallback, EntryState
<1> QED
  BY <1>1, <1>2, <1>3, <1>4, <1>5, <1>6, <1>7, <1>8, <1>9, <1>10, <1>11,
     <1>12, <1>13 DEF OnlineNext

(* A step of any of them, or a stutter.                                    *)
LEMMA StepKept == SafetyInv /\ [Next]_vars => Kept /\ LifecycleStep
PROOF
<1>1. SafetyInv /\ UNCHANGED vars => Kept /\ LifecycleStep
  BY DEF vars
<1> QED BY <1>1, ConfigKept, RunKept, OnlineKept DEF Next

-----------------------------------------------------------------------------
(* The contactless limits.                                                 *)

(* What is known of a contactless transaction past the limit processing.   *)
LimitsChecked ==
  params.interface = "contactless"
      /\ ((fsm = "S8" /\ call = "run") \/ fsm \in {"S9", "S10"})
    => WithinLimits(AidProfile(selected.aid))

LimitsKept ==
  params.interface = "contactless" /\ Proceeds => WithinLimits(AidProfile(selected.aid))

USE DEF Proceeds, LimitsKept

(* The limit processing lets no other transaction go on.                   *)
LEMMA LimitsEstablished ==
  ASSUME SafetyInv, ContactlessLimits, ~OverTransactionLimit, ~CvmStillRequired
  PROVE  WithinLimits(AidProfile(selected.aid))
PROOF
<1>1. AidProfile(selected.aid) \in AidProfiles
  BY SelectedProfile DEF ContactlessLimits
<1>2. params \in TxnParams /\ params.amount \in Nat
  BY DEF ContactlessLimits, ConfigTypes, TxnParams
<1>3. AidProfile(selected.aid).txnLimit \in Nat /\ AidProfile(selected.aid).cvmLimit \in Nat
  BY <1>1 DEF AidProfiles
<1> QED
  BY <1>2, <1>3 DEF WithinLimits, OverTransactionLimit, CvmStillRequired, Over,
     ContactlessCvmSatisfied, ReadsCtq

(* They hold as long as what they are about stays.                         *)
LEMMA LimitsUnchanged ==
  ASSUME UNCHANGED <<params, profiles, selected, cardData>>
  PROVE  /\ WithinLimits(AidProfile(selected.aid))' <=> WithinLimits(AidProfile(selected.aid))
PROOF
  BY DEF WithinLimits, AidProfile

(* The steps of krn_run_transaction.                                       *)
LEMMA RunLimits == SafetyInv /\ LimitsChecked /\ RunNext => LimitsChecked' /\ LimitsKept
PROOF
<1> SUFFICES ASSUME SafetyInv, LimitsChecked, RunNext PROVE LimitsChecked' /\ LimitsKept
  OBVIOUS
<1>1. CASE StartRun \/ SelectEnvironment \/ SelectAid
  BY <1>1 DEF StartRun, RunRefusal, SelectEnvironment, SelectAid, LimitsChecked
<1>2. CASE DrawUnpredictableNumber \/ GetProcessingOptions
  BY <1>2 DEF DrawUnpredictableNumber, GetProcessingOptions, LimitsChecked
<1>3. CASE ReadRecord \/ NextRecord \/ OfflineDataAuthentication \/ ProcessingRestrictions
  BY <1>3 DEF ReadRecord, NextRecord, OfflineDataAuthentication, ProcessingRestrictions,
              LimitsChecked
<1>4. CASE CvmProcessing
  BY <1>4 DEF CvmProcessing, LimitsChecked
<1>5. CASE ContactlessLimits
  <2>1. CASE fsm' # "S8"
    BY <1>5, <2>1 DEF ContactlessLimits, EarlyOutcomes, LimitsChecked
  <2>2. CASE fsm' = "S8"
    <3>1. /\ ~OverTransactionLimit /\ ~CvmStillRequired
          /\ UNCHANGED <<params, profiles, selected, cardData, outcome>>
      BY <1>5, <2>2 DEF ContactlessLimits
    <3> QED BY <1>5, <2>2, <3>1, LimitsEstablished, LimitsUnchanged DEF LimitsChecked
  <2> QED BY <2>1, <2>2
<1>6. CASE TerminalRiskManagement
  <2>1. UNCHANGED <<params, profiles, selected, cardData, outcome>> /\ InRun("S8")
        /\ fsm' \in {"S9", "Se"}
    BY <1>6 DEF TerminalRiskManagement
  <2> QED BY <2>1, LimitsUnchanged DEF LimitsChecked
<1>7. CASE TerminalActionAnalysisStep
  <2>1. UNCHANGED <<params, profiles, selected, cardData>> /\ fsm = "S9"
        /\ fsm' \in {"S10", "S16"}
    BY <1>7 DEF TerminalActionAnalysisStep
  <2> QED BY <2>1, LimitsUnchanged DEF LimitsChecked
<1>8. CASE FirstGenerateAc
  <2>1. fsm = "S10" /\ fsm' \in {"S11", "S16", "Se"}
    BY <1>8 DEF FirstGenerateAc, CardAnswers
  <2> QED BY <2>1 DEF LimitsChecked
<1>9. CASE FirstGenerateAcFails \/ CardExchangeFails \/ MalformedCardData
  BY <1>9 DEF FirstGenerateAcFails, CardExchangeFails, MalformedCardData, LimitsChecked
<1>10. CASE NextCandidate
  BY <1>10 DEF NextCandidate, LimitsChecked
<1> QED BY <1>1, <1>2, <1>3, <1>4, <1>5, <1>6, <1>7, <1>8, <1>9, <1>10 DEF RunNext

(* The online completion approves or goes on only where it already did.    *)
LEMMA OnlineLimits == SafetyInv /\ LimitsChecked /\ OnlineNext => LimitsChecked' /\ LimitsKept
PROOF
<1> SUFFICES ASSUME SafetyInv, LimitsChecked, OnlineNext PROVE LimitsChecked' /\ LimitsKept
  OBVIOUS
<1>1. CASE OutOfSequence
  BY <1>1 DEF OutOfSequence, LimitsChecked
<1>2. CASE OnlineExchangeFails
  BY <1>2 DEF OnlineExchangeFails, LimitsChecked, EntryState
<1>3. CASE ApplyHostResponse \/ StartIssuerAuthentication \/ IssuerAuthentication
  BY <1>3 DEF ApplyHostResponse, StartIssuerAuthentication, Enter, EntryState,
              IssuerAuthentication, LimitsChecked
<1>4. CASE StartScripts \/ NextScript
  BY <1>4 DEF StartScripts, Enter, EntryState, NextScript, LoopState, LimitsChecked
<1>5. CASE ScriptCommand
  BY <1>5 DEF ScriptCommand, LoopState, LimitsChecked
<1>6. CASE ScriptProfileMissing
  BY <1>6 DEF ScriptProfileMissing, LimitsChecked
<1>7. CASE SkipFinalGenerateAc \/ StartFinalGenerateAc
  BY <1>7 DEF SkipFinalGenerateAc, StartFinalGenerateAc, Enter, EntryState, HostDecision,
              LimitsChecked
<1>8. CASE FinalGenerateAc \/ FinalGenerateAcRefused
  BY <1>8 DEF FinalGenerateAc, FinalGenerateAcRefused, LimitsChecked
<1> QED BY <1>1, <1>2, <1>3, <1>4, <1>5, <1>6, <1>7, <1>8 DEF OnlineNext

(* A profile set is only replaced where no call runs.                      *)
LEMMA ConfigLimits == SafetyInv /\ LimitsChecked /\ ConfigNext => LimitsChecked' /\ LimitsKept
PROOF
<1> SUFFICES ASSUME SafetyInv, LimitsChecked, ConfigNext PROVE LimitsChecked' /\ LimitsKept
  OBVIOUS
<1>1. CASE SetTransactionParams \/ Reset
  BY <1>1 DEF SetTransactionParams, Reset, ClearEvidence, LimitsChecked
<1>2. CASE SetTransactionInput \/ RejectArguments \/ LoadProfiles \/ LoadCertificationBundle
           \/ SetContactlessOutcomeCallback
  BY <1>2 DEF SetTransactionInput, RejectArguments, LoadProfiles, LoadCertificationBundle,
              SetContactlessOutcomeCallback, LimitsChecked
<1>3. CASE ReentrantCall
  BY <1>3, LimitsUnchanged DEF ReentrantCall, LimitsChecked
<1> QED BY <1>1, <1>2, <1>3 DEF ConfigNext

(* So the limits are inductive, and every step keeps them.                 *)
LEMMA LimitsStep == SafetyInv /\ LimitsChecked /\ [Next]_vars => LimitsChecked' /\ [LimitsKept]_vars
PROOF
<1>1. LimitsChecked /\ UNCHANGED vars => LimitsChecked'
  BY LimitsUnchanged DEF vars, LimitsChecked
<1> QED BY <1>1, ConfigLimits, RunLimits, OnlineLimits DEF Next

-----------------------------------------------------------------------------
(* The Busy a re-entrant call leaves.                                      *)

(* A call that returns records a result of its own.                        *)
LEMMA ResultRecorded ==
  SafetyInv /\ BusyIsTransient /\ "Busy" \notin CallbackErrors /\ [Next]_vars
    => (~Busy' => lastError' # "Busy")
PROOF
<1> SUFFICES ASSUME SafetyInv, BusyIsTransient, "Busy" \notin CallbackErrors, [Next]_vars,
                    ~Busy'
             PROVE  lastError' # "Busy"
  OBVIOUS
<1>1. ~Busy => lastError # "Busy"
  BY DEF BusyIsTransient
<1>2. CASE ConfigNext
  BY <1>1, <1>2
     DEF ConfigNext, SetTransactionParams, Reset, SetTransactionInput, RejectArguments,
         LoadProfiles, LoadCertificationBundle, SetContactlessOutcomeCallback,
         ReentrantCall, InCallback
<1>3. CASE RunNext
  <2>1. CASE StartRun
    BY <2>1 DEF StartRun, RunRefusal
  <2>2. CASE SelectEnvironment \/ NextCandidate \/ SelectAid
    BY <2>2 DEF SelectEnvironment, NextCandidate, SelectAid
  <2>3. CASE DrawUnpredictableNumber \/ GetProcessingOptions \/ ReadRecord \/ NextRecord
    BY <2>3 DEF DrawUnpredictableNumber, GetProcessingOptions, ReadRecord, NextRecord
  <2>4. CASE OfflineDataAuthentication \/ ProcessingRestrictions \/ CvmProcessing
    BY <2>4 DEF OfflineDataAuthentication, ProcessingRestrictions, CvmProcessing
  <2>5. CASE ContactlessLimits \/ TerminalRiskManagement \/ TerminalActionAnalysisStep
    BY <2>5 DEF ContactlessLimits, TerminalRiskManagement, TerminalActionAnalysisStep
  <2>6. CASE FirstGenerateAc \/ FirstGenerateAcFails
    BY <2>6 DEF FirstGenerateAc, CardAnswers, FirstGenerateAcFails
  <2>7. CASE CardExchangeFails \/ MalformedCardData
    BY <2>7 DEF CardExchangeFails, MalformedCardData
  <2> QED BY <1>3, <2>1, <2>2, <2>3, <2>4, <2>5, <2>6, <2>7 DEF RunNext
<1>4. CASE OnlineNext
  <2>1. CASE ApplyHostResponse \/ OutOfSequence \/ OnlineExchangeFails
    BY <2>1 DEF ApplyHostResponse, OutOfSequence, OnlineExchangeFails
  <2>2. CASE StartIssuerAuthentication \/ IssuerAuthentication
    BY <2>2 DEF StartIssuerAuthentication, IssuerAuthentication
  <2>3. CASE StartScripts \/ NextScript \/ ScriptProfileMissing
    BY <2>3 DEF StartScripts, NextScript, ScriptProfileMissing
  <2>4. CASE ScriptCommand
    BY <2>4 DEF ScriptCommand
  <2>5. CASE SkipFinalGenerateAc \/ StartFinalGenerateAc
    BY <2>5 DEF SkipFinalGenerateAc, StartFinalGenerateAc
  <2>6. CASE FinalGenerateAc \/ FinalGenerateAcRefused
    BY <2>6 DEF FinalGenerateAc, FinalGenerateAcRefused
  <2> QED BY <1>4, <2>1, <2>2, <2>3, <2>4, <2>5, <2>6 DEF OnlineNext
<1>5. CASE UNCHANGED vars
  BY <1>1, <1>5 DEF vars
<1> QED BY <1>2, <1>3, <1>4, <1>5 DEF Next

-----------------------------------------------------------------------------
HIDE DEF SafetyInv, Evidence, RunTypes, Kept, OutcomeKept, RiskKept, FreshNumber,
         LifecycleStep, LifecyclePhase, Lifecycle!Next,
         LimitsKept, LimitsChecked, Proceeds, WithinLimits, BusyIsTransient

(* An outcome is decided once: it stays until the host starts or clears a  *)
(* transaction.                                                            *)
THEOREM OutcomeIsStable == Spec => OutcomeStable
PROOF
<1>1. SafetyInv /\ [Next]_vars => [OutcomeKept]_vars
  BY StepKept DEF Kept
<1> QED BY <1>1, Safety, PTL DEF Spec, OutcomeStable, OutcomeKept

(* Within a transaction no TVR or TSI bit is lost.                         *)
THEOREM RiskIsMonotone == Spec => RiskMonotone
PROOF
<1>1. SafetyInv /\ [Next]_vars => [RiskKept]_vars
  BY StepKept DEF Kept
<1> QED BY <1>1, Safety, PTL DEF Spec, RiskMonotone, RiskKept

(* No unpredictable number is sent in two transactions in a row.           *)
THEOREM NumbersAreFresh == Spec => UnpredictableNumberFresh
PROOF
<1>1. SafetyInv /\ [Next]_vars => [FreshNumber]_vars
  BY StepKept DEF Kept
<1> QED BY <1>1, Safety, PTL DEF Spec, UnpredictableNumberFresh, FreshNumber

(* The kernel implements the lifecycle of a transaction, its fairness      *)
(* apart.                                                                  *)
THEOREM LifecycleImplemented == Spec => Lifecycle!Safety
PROOF
<1>1. Init => Lifecycle!Init
  BY DEF Init, Lifecycle!Init, LifecyclePhase, Lifecycle!Undecided
<1>2. SafetyInv /\ [Next]_vars => [Lifecycle!Next]_Lifecycle!lifecycleVars
  BY StepKept DEF LifecycleStep, Lifecycle!lifecycleVars
<1> QED BY <1>1, <1>2, Safety, PTL DEF Spec, Lifecycle!Safety

(* A contactless transaction proceeds only within the limits of its AID.   *)
THEOREM LimitsAreKept == Spec => ContactlessApprovalWithinLimits
PROOF
<1>1. Init => LimitsChecked
  BY DEF Init, LimitsChecked
<1> QED BY <1>1, LimitsStep, Safety, PTL DEF Spec, ContactlessApprovalWithinLimits, LimitsKept

(* The Busy a re-entrant call records is replaced by the call's result.    *)
THEOREM BusyDoesNotLast == Spec => []BusyIsTransient
PROOF
<1>1. Init => BusyIsTransient
  BY DEF Init, BusyIsTransient
<1>2. SafetyInv /\ BusyIsTransient /\ [Next]_vars => BusyIsTransient'
  BY ResultRecorded DEF BusyIsTransient
<1> QED BY <1>1, <1>2, Safety, PTL DEF Spec

-----------------------------------------------------------------------------
(***************************************************************************)
(* The issuer scripts: each command is sent once, in the host's order,     *)
(* none is skipped, and the TVR says which template had a command fail.    *)
(* The invariant says where a call is in the response: the results         *)
(* recorded end right before the command it is about to send               *)
(* (ScriptPlace), nothing is recorded ahead of the script in progress      *)
(* (NotAhead), and the failures of the scripts before it are the ones the  *)
(* TVR shows (FailuresPending).                                            *)
(***************************************************************************)

HIDE TargetFacts
HIDE CallFsm
HIDE CanDetect
HIDE FailureBits
HIDE CardAssumption
HIDE DEF TypeOK, RunPrepared, Busy, InRun, Continue, FailTransaction,
         ReturnOk, ReturnError, StoreTvr, controlVars, configVars,
         inputVars, riskVars, cardVars, gacVars, hostVars, evidence,
         RunStates, TransientStates, BeforeGpo, BeforeTaa, OnlineStates,
         CallMatchesState, CallStates, ControlTypes, DriverCalls,
         DecisionTypes, Outcomes, OfflineOutcomes, OnlineOutcomes,
         ContactlessOutcomes, NoPackage, NoApp, NoParams, Stages,
         NothingDecided, NothingFromHost, OutcomeWhenFinal, EvidenceChain,
         Online, ArqcDecided, OnlineOnlyOnArqc, PackageTvrCurrent, Oda,
         OdaPending, OdaAccountedFor, ApprovalJustified, Lifecycle!Clear,
         Lifecycle!Prepare, Lifecycle!Start, Lifecycle!DecideWithCard,
         Lifecycle!AskIssuer, Lifecycle!Answer, Lifecycle!DecideOnline,
         Lifecycle!Complete, Lifecycle!Fail, Lifecycle!Undecided

LastResult == scriptResults[Len(scriptResults)]

(* The command the call is about to send, as it will be recorded.          *)
Pending == [phase |-> Phase[call], script |-> local.script, command |-> local.command]

(* r may be the first of all results.                                      *)
Begins(r) ==
  /\ r.script = 1 /\ r.command = 1
  /\ r.phase = "72" => ScriptsOf(host, "71") = <<>>

(* r comes right after the results there are.                              *)
ComesNext(r) == IF scriptResults = <<>> THEN Begins(r) ELSE Follows(LastResult, r)

(* The last command sent is the last one of script n of the phase.         *)
EndsScript(phase, n) ==
  /\ scriptResults # <<>>
  /\ LastResult.phase = phase /\ LastResult.script = n /\ LastCommandOf(LastResult)

(* All of Template 71 is sent, and nothing of Template 72.                 *)
BetweenTemplates ==
  IF scriptResults = <<>> THEN ScriptsOf(host, "71") = <<>>
  ELSE EndsScript("71", Len(ScriptsOf(host, "71")))

InScript == Busy /\ fsm \in {"S13Script", "S15Script"}

ScriptPlace ==
  /\ fsm = "S12" => scriptResults = <<>>
  /\ fsm = "S13" => IF local.script = 0 THEN scriptResults = <<>>
                    ELSE EndsScript("71", local.script)
  /\ fsm = "S14" => BetweenTemplates
  /\ fsm = "S15" => IF local.script = 0 THEN BetweenTemplates
                    ELSE EndsScript("72", local.script)
  /\ InScript => /\ local.script \in 1..Len(ScriptsOf(host, Phase[call]))
                 /\ local.command \in 1..Len(CurrentScript.commands)
                 /\ ComesNext(Pending)

(* No script is recorded before its turn.                                  *)
NotAhead ==
  /\ fsm \in {"S13", "S13Script", "S14"} => ResultsOf("72") = {}
  /\ fsm = "S15" /\ local.script = 0 => ResultsOf("72") = {}
  /\ fsm \in {"S13", "S13Script"} /\ Busy =>
       \A i \in ResultsOf("71") : scriptResults[i].script <= local.script
  /\ fsm \in {"S15", "S15Script"} /\ Busy =>
       \A i \in ResultsOf("72") : scriptResults[i].script <= local.script

ScriptBits == {"ScriptFailedBefore", "ScriptFailedAfter"}

(* A script other than the one in progress has had a command fail.         *)
FailedElsewhere(phase) ==
  \E i \in ResultsOf(phase) :
     scriptResults[i].script # local.script /\ ~scriptResults[i].ok

FailuresPending ==
  /\ fsm \in {"S0", "S1", "S11", "S12"} \cup RunStates => tvr \cap ScriptBits = {}
  /\ fsm = "S13Script" /\ Busy =>
       (FailedElsewhere("71") <=> "ScriptFailedBefore" \in tvr)
  /\ fsm = "S15Script" /\ Busy =>
       (FailedElsewhere("72") <=> "ScriptFailedAfter" \in tvr)

(* The response is one the host may give.                                  *)
HostChosen == host \in HostChoices \cup {NoHost}

(* Together they are inductive, given SafetyInv.                           *)
ScriptInv ==
  /\ HostChosen
  /\ ScriptPlace /\ NotAhead /\ FailuresPending
  /\ ScriptsInOrder /\ ScriptsComplete /\ ScriptFailuresRecorded

-----------------------------------------------------------------------------
(* A step that leaves the host response leaves its scripts.                *)
LEMMA SameScripts ==
  ASSUME host' = host
  PROVE  /\ \A phase : ScriptsOf(host, phase)' = ScriptsOf(host, phase)
         /\ \A r : LastCommandOf(r)' <=> LastCommandOf(r)
         /\ \A r : LastScriptOf(r)' <=> LastScriptOf(r)
         /\ \A r, s : Follows(r, s)' <=> Follows(r, s)
         /\ \A r : Begins(r)' <=> Begins(r)
PROOF
<1>1. \A phase : ScriptsOf(host, phase)' = ScriptsOf(host, phase)
  OBVIOUS
<1>2. \A r : (LastCommandOf(r)' <=> LastCommandOf(r)) /\ (LastScriptOf(r)' <=> LastScriptOf(r))
  BY <1>1 DEF LastCommandOf, LastScriptOf
<1>3. \A r, s : Follows(r, s)' <=> Follows(r, s)
  BY <1>2 DEF Follows
<1>4. \A r : Begins(r)' <=> Begins(r)
  BY <1>1 DEF Begins
<1> QED BY <1>1, <1>2, <1>3, <1>4

(* The scripts of a template are a sequence of sequences of commands.      *)
LEMMA ScriptsTyped ==
  ASSUME HostChosen, host # NoHost, NEW phase \in Phases
  PROVE  /\ Len(ScriptsOf(host, phase)) \in Nat
         /\ \A n \in 1..Len(ScriptsOf(host, phase)) :
              Len(ScriptsOf(host, phase)[n].commands) \in Nat \ {0}
         /\ ScriptsOf(host, phase) = <<>> <=> Len(ScriptsOf(host, phase)) = 0
PROOF
<1>1. ScriptsOf(host, phase) \in Seq(Scripts)
  BY ScriptsAssumption DEF HostChosen
<1>2. \A s \in Scripts : Len(s.commands) \in Nat \ {0}
  BY DEF Scripts
<1> QED BY <1>1, <1>2

USE TargetFacts, CallFsm, CanDetect
USE DEF SafetyInv, Evidence, RunTypes, TypeOK, RunPrepared, Busy, InRun, Continue,
        FailTransaction, ReturnOk, ReturnError, StoreTvr, controlVars, configVars,
        inputVars, riskVars, cardVars, gacVars, hostVars, evidence
USE DEF RunStates, TransientStates, BeforeGpo, BeforeTaa, OnlineStates, CallMatchesState,
        CallStates, ControlTypes, DriverCalls, DecisionTypes, OfflineOutcomes,
        OnlineOutcomes, ContactlessOutcomes, Stages, NothingDecided, NothingFromHost,
        OutcomeWhenFinal, NoLocal, NoPackage
USE DEF ScriptBits

(* Where only the script invariant's own state stays, it stays.            *)
LEMMA ScriptsUntouched ==
  ASSUME ScriptInv, UNCHANGED <<fsm, call, local, host, scriptResults, tvr, outcome>>
  PROVE  ScriptInv'
PROOF
<1>1. ScriptsInOrder' /\ ScriptsComplete' /\ ScriptFailuresRecorded'
  BY SameScripts
     DEF ScriptInv, ScriptsInOrder, ScriptsComplete, ScriptFailuresRecorded, ResultsOf,
         Failed, LastResultSent, Begins
<1>2. NotAhead' /\ FailuresPending' /\ HostChosen'
  BY DEF ScriptInv, NotAhead, FailuresPending, ResultsOf, FailedElsewhere, HostChosen
<1>3. ScriptPlace'
  BY SameScripts
     DEF ScriptInv, ScriptPlace, LastResult, Pending, ComesNext, EndsScript,
         BetweenTemplates, InScript, CurrentScript
<1> QED BY <1>1, <1>2, <1>3 DEF ScriptInv

(* Where nothing has been sent, the invariant is about the TVR alone.      *)
LEMMA NothingSent ==
  ASSUME HostChosen', scriptResults' = <<>>, tvr' \cap ScriptBits = {},
         fsm' \notin {"S13", "S13Script", "S14", "S15", "S15Script"},
         fsm' = "S16" => outcome' \notin OnlineOutcomes
  PROVE  ScriptInv'
PROOF
<1>1. \A phase : ResultsOf(phase)' = {}
  BY DEF ResultsOf
<1> QED
  BY <1>1 DEF ScriptInv, ScriptPlace, NotAhead, FailuresPending, ScriptsInOrder,
     ScriptsComplete, ScriptFailuresRecorded, Failed, InScript

(* A call that ends keeps what has been sent, wherever it stops.           *)
LEMMA CallAbandoned ==
  ASSUME ScriptInv, UNCHANGED <<host, scriptResults, outcome>>,
         \/ fsm' = "Se"
         \/ /\ UNCHANGED <<fsm, tvr>> /\ call' = "none" /\ local' = NoLocal
            /\ fsm \in {"S13", "S15"} => local.script = 0
  PROVE  ScriptInv'
PROOF
<1>1. ScriptsInOrder' /\ ScriptsComplete' /\ ScriptFailuresRecorded'
  BY SameScripts
     DEF ScriptInv, ScriptsInOrder, ScriptsComplete, ScriptFailuresRecorded, ResultsOf,
         Failed, LastResultSent, Begins
<1>2. NotAhead' /\ FailuresPending' /\ HostChosen'
  BY DEF ScriptInv, NotAhead, FailuresPending, ResultsOf, FailedElsewhere, HostChosen
<1>3. ScriptPlace'
  BY SameScripts
     DEF ScriptInv, ScriptPlace, LastResult, Pending, ComesNext, EndsScript,
         BetweenTemplates, InScript, CurrentScript
<1> QED BY <1>1, <1>2, <1>3 DEF ScriptInv

(* The entry points that only configure the context.                       *)
LEMMA ConfigScripts == SafetyInv /\ ScriptInv /\ ConfigNext => ScriptInv'
PROOF
<1> SUFFICES ASSUME SafetyInv, ScriptInv, ConfigNext PROVE ScriptInv'
  OBVIOUS
<1>1. CASE SetTransactionParams \/ Reset
  BY <1>1, NothingSent DEF SetTransactionParams, Reset, ClearEvidence, HostChosen
<1>2. CASE SetTransactionInput \/ RejectArguments \/ LoadProfiles \/ LoadCertificationBundle
           \/ SetContactlessOutcomeCallback \/ ReentrantCall
  BY <1>2, ScriptsUntouched
     DEF SetTransactionInput, RejectArguments, LoadProfiles, LoadCertificationBundle,
         SetContactlessOutcomeCallback, ReentrantCall
<1> QED BY <1>1, <1>2 DEF ConfigNext

(* The steps of krn_run_transaction set no script bit.                     *)
LEMMA RunBits ==
  ASSUME SafetyInv, RunNext, tvr \cap ScriptBits = {}, fsm \in RunStates
  PROVE  tvr' \cap ScriptBits = {}
PROOF
<1>1. CASE StartRun \/ SelectEnvironment \/ NextCandidate \/ SelectAid \/ NextRecord
           \/ DrawUnpredictableNumber \/ GetProcessingOptions
  BY <1>1 DEF StartRun, SelectEnvironment, NextCandidate, SelectAid, NextRecord,
              DrawUnpredictableNumber, GetProcessingOptions
<1>2. CASE ReadRecord \/ ProcessingRestrictions \/ CvmProcessing
  BY <1>2, CardAssumption
     DEF ReadRecord, ProcessingRestrictions, CvmProcessing, RestrictionBits, CvmBits
<1>3. CASE OfflineDataAuthentication
  BY <1>3 DEF OfflineDataAuthentication, OdaResults, FailedBit
<1>4. CASE TerminalRiskManagement
  <2>1. AidProfile(selected.aid).velocity \subseteq VelocityBits
    BY <1>4, SelectedProfile DEF TerminalRiskManagement, AidProfiles
  <2> QED BY <1>4, <2>1 DEF TerminalRiskManagement, VelocityBits
<1>5. CASE FirstGenerateAc
  BY <1>5 DEF FirstGenerateAc
<1>6. CASE ContactlessLimits \/ TerminalActionAnalysisStep \/ FirstGenerateAcFails
           \/ CardExchangeFails \/ MalformedCardData
  BY <1>6 DEF ContactlessLimits, TerminalActionAnalysisStep, FirstGenerateAcFails,
              CardExchangeFails, MalformedCardData
<1> QED BY <1>1, <1>2, <1>3, <1>4, <1>5, <1>6 DEF RunNext

(* Nor do they end in a state of the online completion but the first.      *)
LEMMA RunTargets ==
  ASSUME SafetyInv, RunNext, fsm \in RunStates
  PROVE  /\ UNCHANGED <<host, scriptResults>>
         /\ fsm' \notin {"S12", "S13", "S13Script", "S14", "S15", "S15Script"}
         /\ fsm' = "S16" => outcome' \notin OnlineOutcomes
PROOF
<1>1. CASE StartRun
  BY <1>1 DEF StartRun
<1>2. CASE SelectEnvironment \/ SelectAid
  BY <1>2 DEF SelectEnvironment, SelectAid
<1>10. CASE NextCandidate
  BY <1>10 DEF NextCandidate
<1>3. CASE DrawUnpredictableNumber \/ GetProcessingOptions
  BY <1>3 DEF DrawUnpredictableNumber, GetProcessingOptions
<1>4. CASE ReadRecord \/ NextRecord
  BY <1>4 DEF ReadRecord, NextRecord
<1>5. CASE OfflineDataAuthentication \/ ProcessingRestrictions \/ CvmProcessing
  BY <1>5 DEF OfflineDataAuthentication, ProcessingRestrictions, CvmProcessing
<1>6. CASE ContactlessLimits \/ TerminalRiskManagement
  BY <1>6 DEF ContactlessLimits, TerminalRiskManagement, EarlyOutcomes
<1>7. CASE TerminalActionAnalysisStep
  BY <1>7 DEF TerminalActionAnalysisStep, OfflineOutcomeOf
<1>8. CASE FirstGenerateAc
  BY <1>8 DEF FirstGenerateAc, CardAnswers, OfflineOutcomeOf
<1>9. CASE FirstGenerateAcFails \/ CardExchangeFails \/ MalformedCardData
  BY <1>9 DEF FirstGenerateAcFails, CardExchangeFails, MalformedCardData
<1> QED BY <1>1, <1>2, <1>3, <1>4, <1>5, <1>6, <1>7, <1>8, <1>9, <1>10 DEF RunNext

(* A call out of RunStates is refused.                                     *)
LEMMA RunOutside ==
  ASSUME SafetyInv, RunNext, fsm \notin RunStates
  PROVE  /\ StartRun /\ ~Busy
         /\ UNCHANGED <<host, scriptResults, outcome, tvr>>
         /\ fsm' = "Se" \/ (fsm = "S1" /\ fsm' = "S2")
PROOF
<1>1. ~SelectEnvironment /\ ~NextCandidate /\ ~SelectAid /\ ~NextRecord /\ ~ReadRecord
      /\ ~DrawUnpredictableNumber /\ ~GetProcessingOptions /\ ~ProcessingRestrictions
  BY DEF SelectEnvironment, NextCandidate, SelectAid, NextRecord, ReadRecord,
         DrawUnpredictableNumber, GetProcessingOptions, ProcessingRestrictions
<1>2. ~CvmProcessing /\ ~OfflineDataAuthentication /\ ~TerminalRiskManagement
      /\ ~FirstGenerateAc /\ ~TerminalActionAnalysisStep /\ ~FirstGenerateAcFails
  BY DEF CvmProcessing, OfflineDataAuthentication, TerminalRiskManagement,
         FirstGenerateAc, TerminalActionAnalysisStep, FirstGenerateAcFails
<1>3. ~ContactlessLimits /\ ~CardExchangeFails /\ ~MalformedCardData
  BY DEF ContactlessLimits, CardExchangeFails, InCallback, MalformedCardData, ParsedIn
<1>4. StartRun
  BY <1>1, <1>2, <1>3 DEF RunNext
<1> QED BY <1>4 DEF StartRun, RunRefusal

(* krn_run_transaction.                                                    *)
LEMMA RunScripts == SafetyInv /\ ScriptInv /\ RunNext => ScriptInv'
PROOF
<1> SUFFICES ASSUME SafetyInv, ScriptInv, RunNext PROVE ScriptInv'
  OBVIOUS
<1>1. CASE fsm \in RunStates
  <2>1. scriptResults' = <<>> /\ tvr' \cap ScriptBits = {} /\ HostChosen'
    BY <1>1, RunBits, RunTargets DEF ScriptInv, FailuresPending, HostChosen
  <2> QED BY <1>1, <2>1, RunTargets, NothingSent
<1>2. CASE fsm \notin RunStates
  <2>1. CASE fsm' = "Se"
    BY <1>2, <2>1, RunOutside, CallAbandoned
  <2>2. CASE fsm = "S1" /\ fsm' = "S2"
    BY <1>2, <2>2, RunOutside, NothingSent DEF ScriptInv, FailuresPending, HostChosen
  <2> QED BY <1>2, <2>1, <2>2, RunOutside
<1> QED BY <1>1, <1>2

-----------------------------------------------------------------------------
(* The online completion.                                                  *)

(* The two phases.                                                         *)
LEMMA Phases2 ==
  /\ Phase["pre"] = "71" /\ Phase["post"] = "72"
  /\ LoopState["pre"] = "S13" /\ LoopState["post"] = "S15"
  /\ AfterPhase["pre"] = "SecondGenerateAc" /\ AfterPhase["post"] = "FinalOutcome"
  /\ FailureBit["pre"] = "ScriptFailedBefore" /\ FailureBit["post"] = "ScriptFailedAfter"
PROOF
  BY DEF Phase, LoopState, AfterPhase, FailureBit

(* Before the first script nothing has been sent.                          *)
LEMMA BeforeScripts ==
  ASSUME SafetyInv, ScriptInv, UNCHANGED scriptResults, scriptResults = <<>>, HostChosen',
         tvr \cap ScriptBits = {}, tvr' \subseteq tvr \cup {"IssuerAuthFailed"},
         fsm' \in {"S12", "S13"}, local'.script = 0, UNCHANGED outcome
  PROVE  ScriptInv'
PROOF
<1>1. \A phase : ResultsOf(phase)' = {}
  BY DEF ResultsOf
<1> QED
  BY <1>1 DEF ScriptInv, ScriptPlace, NotAhead, FailuresPending, ScriptsInOrder,
     ScriptsComplete, ScriptFailuresRecorded, Failed, InScript

(* The second GENERATE AC sends no script.                                 *)
LEMMA BetweenScripts ==
  ASSUME SafetyInv, ScriptInv, fsm = "S14", UNCHANGED <<host, scriptResults, tvr>>,
         \/ fsm' = "S14" /\ UNCHANGED outcome
         \/ fsm' = "S15" /\ outcome' \in OnlineOutcomes /\ local' = NoLocal /\ ~Busy'
  PROVE  ScriptInv'
PROOF
<1>1. \A phase : ResultsOf(phase)' = ResultsOf(phase)
  BY DEF ResultsOf
<1>2. ScriptsInOrder' /\ ScriptsComplete' /\ ScriptFailuresRecorded'
  BY <1>1, SameScripts
     DEF ScriptInv, ScriptsInOrder, ScriptsComplete, ScriptFailuresRecorded, Failed,
         LastResultSent, Begins, NotAhead
<1>3. NotAhead' /\ FailuresPending' /\ HostChosen'
  BY <1>1 DEF ScriptInv, NotAhead, FailuresPending, HostChosen
<1>4. fsm' = "S15" => local'.script = 0
  OBVIOUS
<1>5. ScriptPlace'
  BY <1>4, SameScripts
     DEF ScriptInv, ScriptPlace, LastResult, EndsScript, BetweenTemplates, InScript
<1> QED BY <1>2, <1>3, <1>5 DEF ScriptInv

(* A script call begins with nothing of its template sent.                 *)
LEMMA StartScriptsKeeps ==
  ASSUME SafetyInv, ScriptInv, StartScripts
  PROVE  ScriptInv'
PROOF
<1>1. /\ ~Busy /\ local = NoLocal /\ local.script = 0
      /\ (fsm = "S13" /\ call' = "pre") \/ (fsm = "S15" /\ call' = "post")
      /\ UNCHANGED <<fsm, local, host, scriptResults, tvr, outcome>>
  <2>1. PICK c \in {"pre", "post"} : ~Busy /\ fsm = EntryState[c] /\ call' = c
    BY DEF StartScripts, Enter
  <2>2. EntryState["pre"] = "S13" /\ EntryState["post"] = "S15"
    BY DEF EntryState
  <2>3. local = NoLocal /\ local.script = 0
    BY <2>1
  <2> QED BY <2>1, <2>2, <2>3 DEF StartScripts
<1>2. \A phase : ResultsOf(phase)' = ResultsOf(phase)
  BY <1>1 DEF ResultsOf
<1>3. ScriptsInOrder' /\ ScriptsComplete' /\ ScriptFailuresRecorded'
  BY <1>1, <1>2, SameScripts
     DEF ScriptInv, ScriptsInOrder, ScriptsComplete, ScriptFailuresRecorded, Failed,
         LastResultSent, Begins
<1>4. NotAhead' /\ FailuresPending' /\ HostChosen'
  BY <1>1, <1>2 DEF ScriptInv, NotAhead, FailuresPending, HostChosen, ScriptPlace, ResultsOf
<1>5. ScriptPlace'
  BY <1>1, SameScripts
     DEF ScriptInv, ScriptPlace, LastResult, EndsScript, BetweenTemplates, InScript
<1> QED BY <1>3, <1>4, <1>5 DEF ScriptInv

(* What a call that works on scripts knows of them.                        *)
LEMMA InTheLoop ==
  ASSUME SafetyInv, ScriptInv, call \in {"pre", "post"}
  PROVE  /\ host # NoHost /\ Phase[call] \in Phases
         /\ scriptResults \in Seq(ScriptResultRecs)
         /\ local.script \in Nat /\ local.command \in Nat
         /\ Len(ScriptsOf(host, Phase[call])) \in Nat
         /\ \A n \in 1..Len(ScriptsOf(host, Phase[call])) :
              Len(ScriptsOf(host, Phase[call])[n].commands) \in Nat \ {0}
         /\ ScriptsOf(host, Phase[call]) = <<>> <=> Len(ScriptsOf(host, Phase[call])) = 0
PROOF
<1>1. host # NoHost
  OBVIOUS
<1>2. Phase[call] \in Phases
  BY Phases2 DEF Phases
<1>3. local.script \in Nat /\ local.command \in Nat
  BY DEF Locals
<1> QED BY <1>1, <1>2, <1>3, ScriptsTyped DEF ScriptInv

(* The head of the loop: the next script begins where the last one ended.  *)
LEMMA NextScriptEnters ==
  ASSUME SafetyInv, ScriptInv, NextScript,
         local.script < Len(ScriptsOf(host, Phase[call]))
  PROVE  ScriptInv'
PROOF
<1>1. /\ (call = "pre" /\ fsm = "S13" /\ fsm' = "S13Script")
           \/ (call = "post" /\ fsm = "S15" /\ fsm' = "S15Script")
      /\ UNCHANGED <<call, host, scriptResults, tvr, outcome>>
      /\ local' = [local EXCEPT !.script = local.script + 1, !.command = 1]
  BY Phases2 DEF NextScript
<1>2. local'.script = local.script + 1 /\ local'.command = 1
  BY <1>1 DEF Locals
<1>3. \A phase : ResultsOf(phase)' = ResultsOf(phase)
  BY <1>1 DEF ResultsOf
<1>4. ScriptsInOrder' /\ ScriptsComplete' /\ ScriptFailuresRecorded'
  BY <1>1, <1>3, SameScripts
     DEF ScriptInv, ScriptsInOrder, ScriptsComplete, ScriptFailuresRecorded, Failed,
         LastResultSent, Begins
<1>5. \A phase : \A i \in ResultsOf(phase) : scriptResults[i].script \in Nat
  <2>1. scriptResults \in Seq(ScriptResultRecs)
    BY <1>1, InTheLoop
  <2>2. \A i \in 1..Len(scriptResults) : scriptResults[i] \in ScriptResultRecs
    BY <2>1
  <2> QED BY <2>2 DEF ResultsOf, ScriptResultRecs
<1>6. NotAhead' /\ HostChosen'
  BY <1>1, <1>2, <1>3, <1>5, InTheLoop DEF ScriptInv, NotAhead, HostChosen
<1>7. FailuresPending'
  <2>1. \A i \in ResultsOf(Phase[call]) : scriptResults[i].script # local'.script
    BY <1>1, <1>2, <1>5, InTheLoop, Phases2 DEF ScriptInv, NotAhead
  <2>2. FailedElsewhere(Phase[call])' <=> Failed(Phase[call])
    BY <1>1, <1>3, <2>1 DEF FailedElsewhere, Failed
  <2> QED BY <1>1, <2>2, Phases2 DEF ScriptInv, ScriptFailuresRecorded, FailuresPending
<1>8. ScriptPlace'
  <2> DEFINE next == [phase |-> Phase[call], script |-> local.script + 1, command |-> 1]
  <2>1. local'.script \in 1..Len(ScriptsOf(host, Phase[call]))
    BY <1>1, <1>2, InTheLoop
  <2>2. Len(ScriptsOf(host, Phase[call])[local'.script].commands) \in Nat \ {0}
    BY <1>1, <2>1, InTheLoop
  <2>3. ComesNext(next)
    <3>1. CASE local.script # 0
      <4>1. EndsScript(Phase[call], local.script)
        BY <1>1, <3>1, Phases2 DEF ScriptInv, ScriptPlace
      <4> QED BY <4>1 DEF ComesNext, EndsScript, Follows
    <3>2. CASE local.script = 0 /\ call = "pre"
      BY <1>1, <3>2, Phases2 DEF ScriptInv, ScriptPlace, ComesNext, Begins
    <3>3. CASE local.script = 0 /\ call = "post"
      <4>1. BetweenTemplates /\ Phase[call] = "72"
        BY <1>1, <3>3, Phases2 DEF ScriptInv, ScriptPlace
      <4> QED BY <3>3, <4>1
              DEF BetweenTemplates, EndsScript, ComesNext, Begins, Follows, LastScriptOf
    <3> QED BY <1>1, <3>1, <3>2, <3>3
  <2>4. Pending' = next
    BY <1>1, <1>2 DEF Pending
  <2>5. ComesNext(Pending)'
    BY <1>1, <2>3, <2>4, SameScripts DEF ComesNext, LastResult
  <2> QED BY <1>1, <1>2, <2>1, <2>2, <2>5, SameScripts DEF ScriptPlace, InScript, CurrentScript
<1> QED BY <1>4, <1>6, <1>7, <1>8 DEF ScriptInv

(* Its end: the last script of the template has been sent to its end.      *)
LEMMA NextScriptEnds ==
  ASSUME SafetyInv, ScriptInv, NextScript,
         ~(local.script < Len(ScriptsOf(host, Phase[call])))
  PROVE  ScriptInv'
PROOF
<1>1. /\ (call = "pre" /\ fsm = "S13" /\ fsm' = "S14")
           \/ (call = "post" /\ fsm = "S15" /\ fsm' = "S16")
      /\ call' = "none" /\ local' = NoLocal
      /\ UNCHANGED <<host, scriptResults, tvr, outcome>>
  BY Phases2 DEF NextScript
<1>2. \A phase : ResultsOf(phase)' = ResultsOf(phase)
  BY <1>1 DEF ResultsOf
<1>3. ScriptsInOrder' /\ ScriptFailuresRecorded'
  BY <1>1, <1>2, SameScripts
     DEF ScriptInv, ScriptsInOrder, ScriptFailuresRecorded, Failed, Begins
<1>4. NotAhead' /\ FailuresPending' /\ HostChosen'
  BY <1>1, <1>2 DEF ScriptInv, NotAhead, FailuresPending, HostChosen
<1>5. CASE local.script # 0
  <2>1. EndsScript(Phase[call], local.script)
    BY <1>1, <1>5, Phases2 DEF ScriptInv, ScriptPlace
  <2>2. local.script = Len(ScriptsOf(host, Phase[call]))
    BY <1>1, <2>1, InTheLoop DEF EndsScript, LastCommandOf
  <2>3. LastResultSent(Phase[call])
    <3>1. Len(scriptResults) \in ResultsOf(Phase[call])
      BY <1>1, <2>1, InTheLoop DEF EndsScript, LastResult, ResultsOf
    <3> QED BY <2>1, <2>2, <3>1 DEF LastResultSent, EndsScript, LastResult, LastScriptOf
  <2>4. \A phase : LastResultSent(phase) => LastResultSent(phase)'
    BY <1>1, <1>2, SameScripts DEF LastResultSent
  <2>5. ScriptsComplete'
    <3>1. fsm = "S15" => LastResultSent("71")
      BY DEF ScriptInv, ScriptsComplete
    <3> QED BY <1>1, <2>3, <2>4, <3>1, Phases2 DEF ScriptsComplete
  <2>6. ScriptPlace'
    BY <1>1, <2>1, <2>2, SameScripts, Phases2
       DEF ScriptPlace, BetweenTemplates, EndsScript, LastResult, InScript
  <2> QED BY <1>3, <1>4, <2>5, <2>6 DEF ScriptInv
<1>6. CASE local.script = 0
  <2>1. ScriptsOf(host, Phase[call]) = <<>>
    BY <1>1, <1>6, InTheLoop
  <2>2. ScriptsComplete'
    <3>1. fsm = "S15" => LastResultSent("71")'
      BY <1>1, <1>2, SameScripts DEF ScriptInv, ScriptsComplete, LastResultSent
    <3> QED BY <1>1, <2>1, <3>1, SameScripts, Phases2 DEF ScriptsComplete, LastResultSent
  <2>3. ScriptPlace'
    BY <1>1, <1>6, <2>1, SameScripts, Phases2
       DEF ScriptInv, ScriptPlace, BetweenTemplates, EndsScript, LastResult, InScript
  <2> QED BY <1>3, <1>4, <2>2, <2>3 DEF ScriptInv
<1> QED BY <1>5, <1>6


-----------------------------------------------------------------------------
(* One command of a script.                                                *)

(* A result put at the end of the results: the others stay where they are. *)
LEMMA Recorded ==
  ASSUME scriptResults \in Seq(ScriptResultRecs), NEW r,
         scriptResults' = Append(scriptResults, r)
  PROVE  /\ Len(scriptResults') = Len(scriptResults) + 1 /\ Len(scriptResults) \in Nat
         /\ scriptResults' # <<>>
         /\ \A i \in 1..Len(scriptResults) : scriptResults'[i] = scriptResults[i]
         /\ scriptResults'[Len(scriptResults) + 1] = r /\ LastResult' = r
         /\ \A phase : ResultsOf(phase)' =
              IF r.phase = phase THEN ResultsOf(phase) \cup {Len(scriptResults) + 1}
              ELSE ResultsOf(phase)
         /\ \A phase : \A i \in ResultsOf(phase) :
              i \in 1..Len(scriptResults) /\ scriptResults'[i] = scriptResults[i]
PROOF
<1>1. /\ Len(scriptResults') = Len(scriptResults) + 1 /\ Len(scriptResults) \in Nat
      /\ scriptResults' # <<>>
      /\ \A i \in 1..Len(scriptResults) : scriptResults'[i] = scriptResults[i]
      /\ scriptResults'[Len(scriptResults) + 1] = r
  OBVIOUS
<1>2. LastResult' = r
  BY <1>1 DEF LastResult
<1>3. \A phase : ResultsOf(phase)' =
        IF r.phase = phase THEN ResultsOf(phase) \cup {Len(scriptResults) + 1}
        ELSE ResultsOf(phase)
  BY <1>1 DEF ResultsOf
<1> QED BY <1>1, <1>2, <1>3 DEF ResultsOf

(* What a step that sends the command Pending does to what the invariant   *)
(* reads: over says whether the script ends with it.                       *)
Sends(ok, critical, over) ==
  /\ scriptResults' = Append(scriptResults, [phase |-> Phase[call], script |-> local.script,
                                             command |-> local.command, ok |-> ok])
  /\ tvr' = IF over /\ ScriptFailing(scriptResults') THEN tvr \cup {FailureBit[call]} ELSE tvr
  /\ over <=> critical \/ local.command = Len(CurrentScript.commands)
  /\ UNCHANGED <<host, outcome>>
  /\ \/ /\ ~over /\ UNCHANGED <<fsm, call>>
        /\ local' = [local EXCEPT !.command = local.command + 1]
     \/ over /\ ~critical /\ fsm' = LoopState[call] /\ UNCHANGED <<call, local>>
     \/ critical /\ fsm' = "Se" /\ call' = "none" /\ local' = NoLocal

(* Where a command is sent.                                                *)
LEMMA ScriptCommandSends ==
  ASSUME SafetyInv, ScriptInv, ScriptCommand
  PROVE  /\ \/ call = "pre" /\ fsm = "S13Script" /\ Phase[call] = "71"
               /\ LoopState[call] = "S13" /\ FailureBit[call] = "ScriptFailedBefore"
            \/ call = "post" /\ fsm = "S15Script" /\ Phase[call] = "72"
               /\ LoopState[call] = "S15" /\ FailureBit[call] = "ScriptFailedAfter"
         /\ InScript
         /\ \E ok, critical, over \in BOOLEAN : Sends(ok, critical, over)
PROOF
<1>1. \/ call = "pre" /\ fsm = "S13Script" /\ Phase[call] = "71"
         /\ LoopState[call] = "S13" /\ FailureBit[call] = "ScriptFailedBefore"
      \/ call = "post" /\ fsm = "S15Script" /\ Phase[call] = "72"
         /\ LoopState[call] = "S15" /\ FailureBit[call] = "ScriptFailedAfter"
  BY Phases2 DEF ScriptCommand
<1>2. InScript
  BY <1>1 DEF InScript
<1>3. Target(fsm, "ScriptSuccess") = LoopState[call]
  BY <1>1
<1>4. PICK sw \in {"success", "warning", "failure"} :
        LET critical == /\ sw = "failure"
                        /\ CurrentScript.commands[local.command]
                             \in AidProfile(selected.aid).critical
            over     == critical \/ local.command = Len(CurrentScript.commands)
        IN
        /\ scriptResults' =
             Append(scriptResults, [phase |-> Phase[call], script |-> local.script,
                                    command |-> local.command, ok |-> sw = "success"])
        /\ tvr' = IF over /\ ScriptFailing(scriptResults')
                  THEN tvr \cup {FailureBit[call]} ELSE tvr
        /\ \/ ~over /\ Continue(fsm, kstate, [local EXCEPT !.command = local.command + 1])
           \/ over /\ ~critical /\ Continue(Target(fsm, "ScriptSuccess"), kstate, local)
           \/ critical /\ FailTransaction("ScriptFailed")
  BY DEF ScriptCommand
<1> DEFINE critical == /\ sw = "failure"
                       /\ CurrentScript.commands[local.command]
                            \in AidProfile(selected.aid).critical
           over     == critical \/ local.command = Len(CurrentScript.commands)
<1>5. UNCHANGED <<host, outcome>>
  BY DEF ScriptCommand
<1>6. Sends(sw = "success", critical, over)
  BY <1>3, <1>4, <1>5 DEF Sends
<1> QED BY <1>1, <1>2, <1>6

(* The result of the command is the next one of the response, and the      *)
(* position of the call stays the one of the next command.                 *)
LEMMA ScriptCommandOrder ==
  ASSUME SafetyInv, ScriptInv, ScriptCommand
  PROVE  ScriptsInOrder' /\ ScriptPlace'
PROOF
<1>1. PICK ok, critical, over \in BOOLEAN : Sends(ok, critical, over)
  BY ScriptCommandSends
<1> DEFINE r == [phase |-> Phase[call], script |-> local.script,
                 command |-> local.command, ok |-> ok]
<1>2. /\ r.phase = Phase[call] /\ r.script = local.script /\ r.command = local.command
      /\ Pending.phase = r.phase /\ Pending.script = r.script /\ Pending.command = r.command
  BY DEF Pending
<1>3. /\ call \in {"pre", "post"} /\ host' = host /\ outcome' = outcome
      /\ scriptResults' = Append(scriptResults, r)
      /\ scriptResults \in Seq(ScriptResultRecs)
  BY <1>1, ScriptCommandSends, InTheLoop DEF Sends
<1> HIDE DEF r
<1>4. ComesNext(r)
  BY <1>2, ScriptCommandSends DEF ScriptInv, ScriptPlace, ComesNext, Begins, Follows
<1>5. /\ local.script \in 1..Len(ScriptsOf(host, Phase[call]))
      /\ local.command \in 1..Len(CurrentScript.commands)
      /\ local.command \in Nat /\ local.script \in Nat
      /\ LastCommandOf(r) <=> local.command = Len(CurrentScript.commands)
  BY <1>2, <1>3, ScriptCommandSends, InTheLoop
     DEF ScriptInv, ScriptPlace, LastCommandOf, CurrentScript
<1>6. ScriptsInOrder'
  <2>1. scriptResults'[1].script = 1 /\ scriptResults'[1].command = 1
        /\ (scriptResults'[1].phase = "72" => ScriptsOf(host, "71") = <<>>)
    <3>1. CASE scriptResults = <<>>
      <4>1. scriptResults'[1] = r
        BY <1>3, <3>1
      <4> QED BY <1>4, <3>1, <4>1 DEF ComesNext, Begins
    <3>2. CASE scriptResults # <<>>
      <4>1. scriptResults'[1] = scriptResults[1]
        BY <1>3, <3>2
      <4> QED BY <3>2, <4>1 DEF ScriptInv, ScriptsInOrder
    <3> QED BY <3>1, <3>2
  <2>2. \A i \in 1..(Len(scriptResults') - 1) :
          Follows(scriptResults'[i], scriptResults'[i + 1])
    <3> SUFFICES ASSUME NEW i \in 1..(Len(scriptResults') - 1)
                 PROVE  Follows(scriptResults'[i], scriptResults'[i + 1])
      OBVIOUS
    <3>1. CASE i < Len(scriptResults)
      <4>1. scriptResults'[i] = scriptResults[i] /\ scriptResults'[i + 1] = scriptResults[i + 1]
        BY <1>3, <3>1, Recorded
      <4>2. Follows(scriptResults[i], scriptResults[i + 1])
        BY <1>3, <3>1, Recorded DEF ScriptInv, ScriptsInOrder
      <4> QED BY <4>1, <4>2
    <3>2. CASE i = Len(scriptResults)
      <4>1. scriptResults'[i] = LastResult /\ scriptResults'[i + 1] = r
        BY <1>3, <3>2, Recorded DEF LastResult
      <4> QED BY <1>3, <1>4, <3>2, <4>1 DEF ComesNext
    <3> QED BY <1>3, <3>1, <3>2, Recorded
  <2>3. ResultsOf("72")' # {} => outcome \in OnlineOutcomes
    <3>1. CASE call = "post"
      BY <3>1, ScriptCommandSends DEF OutcomeWhenFinal
    <3>2. CASE call = "pre"
      <4>1. ResultsOf("72")' = ResultsOf("72")
        BY <1>2, <1>3, <3>2, Recorded, Phases2
      <4> QED BY <4>1 DEF ScriptInv, ScriptsInOrder
    <3> QED BY <1>3, <3>1, <3>2
  <2>4. \A i \in 1..(Len(scriptResults') - 1) :
          Follows(scriptResults[i], scriptResults[i + 1])'
    BY <1>3, <2>2, SameScripts
  <2>5. ScriptsOf(host, "71")' = ScriptsOf(host, "71")
    BY <1>3
  <2> QED BY <1>3, <2>1, <2>3, <2>4, <2>5 DEF ScriptsInOrder
<1>7. ScriptPlace'
  <2>1. CASE ~over
    <3>1. /\ UNCHANGED <<fsm, call>> /\ local.command # Len(CurrentScript.commands)
          /\ local' = [local EXCEPT !.command = local.command + 1]
      BY <1>1, <2>1 DEF Sends
    <3>2. local'.script = local.script /\ local'.command = local.command + 1
      BY <3>1 DEF Locals
    <3>3. /\ Pending'.phase = r.phase /\ Pending'.script = r.script
          /\ Pending'.command = r.command + 1
      BY <1>2, <3>1, <3>2 DEF Pending
    <3>4. Follows(r, Pending')
      BY <1>2, <1>5, <3>1, <3>3 DEF Follows
    <3>5. ComesNext(Pending)'
      <4>1. LastResult' = r /\ scriptResults' # <<>>
        BY <1>3, Recorded
      <4>2. Follows(LastResult', Pending')
        BY <3>4, <4>1
      <4>3. Follows(LastResult, Pending)'
        BY <1>3, <4>2, SameScripts
      <4> QED BY <4>1, <4>3 DEF ComesNext
    <3>6. CurrentScript' = CurrentScript
      BY <1>3, <3>1, <3>2 DEF CurrentScript
    <3>7. local'.command \in 1..Len(CurrentScript.commands)
      <4>1. Len(CurrentScript.commands) \in Nat
        BY <1>3, <1>5, InTheLoop DEF CurrentScript
      <4> QED BY <1>5, <3>1, <3>2, <4>1
    <3> QED BY <1>3, <1>5, <3>1, <3>2, <3>5, <3>6, <3>7, ScriptCommandSends
            DEF ScriptPlace, InScript
  <2>2. CASE over /\ ~critical
    <3>1. fsm' = LoopState[call] /\ UNCHANGED <<call, local>>
          /\ local.command = Len(CurrentScript.commands)
      BY <1>1, <2>2 DEF Sends
    <3>2. EndsScript(Phase[call], local.script)'
      <4>1. LastResult' = r /\ scriptResults' # <<>>
        BY <1>3, Recorded
      <4>2. LastCommandOf(r)
        BY <1>5, <3>1
      <4> QED BY <1>2, <1>3, <3>1, <4>1, <4>2, SameScripts DEF EndsScript
    <3>3. local.script # 0
      BY <1>5
    <3> QED BY <3>1, <3>2, <3>3, ScriptCommandSends DEF ScriptPlace, InScript
  <2>3. CASE critical
    BY <1>1, <2>3 DEF Sends, ScriptPlace, InScript
  <2> QED BY <2>1, <2>2, <2>3
<1> QED BY <1>6, <1>7

(* Nothing is recorded ahead of the script in progress, and nothing that   *)
(* is complete becomes incomplete.                                         *)
LEMMA ScriptCommandComplete ==
  ASSUME SafetyInv, ScriptInv, ScriptCommand
  PROVE  NotAhead' /\ ScriptsComplete' /\ HostChosen'
PROOF
<1>1. PICK ok, critical, over \in BOOLEAN : Sends(ok, critical, over)
  BY ScriptCommandSends
<1> DEFINE r == [phase |-> Phase[call], script |-> local.script,
                 command |-> local.command, ok |-> ok]
<1>2. /\ call \in {"pre", "post"} /\ host' = host
      /\ scriptResults' = Append(scriptResults, r)
      /\ scriptResults \in Seq(ScriptResultRecs)
      /\ r.phase = Phase[call] /\ r.script = local.script
  BY <1>1, ScriptCommandSends, InTheLoop DEF Sends
<1> HIDE DEF r
<1>3. fsm' = "Se" \/ (fsm' \in {fsm, LoopState[call]} /\ call' = call
                       /\ local'.script = local.script)
  BY <1>1 DEF Sends, Locals
<1>4. local.script \in Nat \ {0}
  BY <1>2, ScriptCommandSends, InTheLoop DEF ScriptInv, ScriptPlace
<1>5. \A phase : ResultsOf(phase)' =
        IF r.phase = phase THEN ResultsOf(phase) \cup {Len(scriptResults) + 1}
        ELSE ResultsOf(phase)
  BY <1>2, Recorded
<1>6. \A phase : \A i \in ResultsOf(phase) : scriptResults'[i] = scriptResults[i]
  BY <1>2, Recorded
<1>7. scriptResults'[Len(scriptResults) + 1] = r
  BY <1>2, Recorded
<1>8. NotAhead'
  <2>1. CASE fsm' = "Se"
    BY <2>1 DEF NotAhead
  <2>2. CASE call = "pre" /\ fsm' # "Se"
    <3>1. r.phase = "71" /\ fsm = "S13Script" /\ fsm' \in {"S13Script", "S13"}
      BY <1>2, <1>3, <2>2, Phases2, ScriptCommandSends
    <3>2. ResultsOf("72")' = {}
      BY <1>5, <3>1 DEF ScriptInv, NotAhead
    <3>3. \A i \in ResultsOf("71") : scriptResults[i].script <= local.script
      BY <2>2, <3>1 DEF ScriptInv, NotAhead
    <3>4. \A i \in ResultsOf("71")' : scriptResults'[i].script <= local'.script
      <4> SUFFICES ASSUME NEW i \in ResultsOf("71")'
                   PROVE  scriptResults'[i].script <= local.script
        BY <1>3, <2>2
      <4>1. i \in ResultsOf("71") \/ i = Len(scriptResults) + 1
        BY <1>5, <3>1
      <4>2. CASE i \in ResultsOf("71")
        BY <1>6, <3>3, <4>2
      <4>3. CASE i = Len(scriptResults) + 1
        BY <1>2, <1>4, <1>7, <4>3
      <4> QED BY <4>1, <4>2, <4>3
    <3> QED BY <3>1, <3>2, <3>4 DEF NotAhead
  <2>3. CASE call = "post" /\ fsm' # "Se"
    <3>1. r.phase = "72" /\ fsm = "S15Script" /\ fsm' \in {"S15Script", "S15"}
      BY <1>2, <1>3, <2>3, Phases2, ScriptCommandSends
    <3>2. \A i \in ResultsOf("72") : scriptResults[i].script <= local.script
      BY <2>3, <3>1 DEF ScriptInv, NotAhead
    <3>3. \A i \in ResultsOf("72")' : scriptResults'[i].script <= local'.script
      <4> SUFFICES ASSUME NEW i \in ResultsOf("72")'
                   PROVE  scriptResults'[i].script <= local.script
        BY <1>3, <2>3
      <4>1. i \in ResultsOf("72") \/ i = Len(scriptResults) + 1
        BY <1>5, <3>1
      <4>2. CASE i \in ResultsOf("72")
        BY <1>6, <3>2, <4>2
      <4>3. CASE i = Len(scriptResults) + 1
        BY <1>2, <1>4, <1>7, <4>3
      <4> QED BY <4>1, <4>2, <4>3
    <3>4. local'.script # 0
      BY <1>3, <1>4, <2>3
    <3> QED BY <3>1, <3>3, <3>4 DEF NotAhead
  <2> QED BY <1>2, <2>1, <2>2, <2>3
<1>9. ScriptsComplete'
  <2>1. CASE call = "pre" \/ fsm' = "Se"
    BY <1>3, <2>1, Phases2, ScriptCommandSends DEF ScriptsComplete
  <2>2. CASE call = "post" /\ fsm' # "Se"
    <3>1. fsm = "S15Script" /\ fsm' \in {"S15Script", "S15"}
      BY <1>3, <2>2, Phases2, ScriptCommandSends
    <3>2. LastResultSent("71")
      BY <3>1 DEF ScriptInv, ScriptsComplete
    <3>3. ResultsOf("71") \subseteq ResultsOf("71")'
      BY <1>5
    <3>4. LastResultSent("71")'
      <4>1. CASE ScriptsOf(host, "71") = <<>>
        BY <1>2, <4>1, SameScripts DEF LastResultSent
      <4>2. CASE \E i \in ResultsOf("71") :
                   LastCommandOf(scriptResults[i]) /\ LastScriptOf(scriptResults[i])
        <5>1. PICK i \in ResultsOf("71") :
                LastCommandOf(scriptResults[i]) /\ LastScriptOf(scriptResults[i])
          BY <4>2
        <5>2. LastCommandOf(scriptResults'[i]) /\ LastScriptOf(scriptResults'[i])
          BY <1>6, <5>1
        <5>3. LastCommandOf(scriptResults[i])' /\ LastScriptOf(scriptResults[i])'
          BY <1>2, <5>2, SameScripts
        <5> QED BY <3>3, <5>3 DEF LastResultSent
      <4> QED BY <3>2, <4>1, <4>2 DEF LastResultSent
    <3> QED BY <3>1, <3>4 DEF ScriptsComplete
  <2> QED BY <1>2, <2>1, <2>2
<1> QED BY <1>2, <1>8, <1>9 DEF ScriptInv, HostChosen

(* The bit of the template is set exactly when a script that has had a     *)
(* command fail ends.                                                      *)
LEMMA ScriptCommandFailures ==
  ASSUME SafetyInv, ScriptInv, ScriptCommand
  PROVE  FailuresPending' /\ ScriptFailuresRecorded'
PROOF
<1>1. PICK ok, critical, over \in BOOLEAN : Sends(ok, critical, over)
  BY ScriptCommandSends
<1> DEFINE r == [phase |-> Phase[call], script |-> local.script,
                 command |-> local.command, ok |-> ok]
<1>2. /\ call \in {"pre", "post"}
      /\ scriptResults' = Append(scriptResults, r)
      /\ scriptResults \in Seq(ScriptResultRecs)
      /\ r.phase = Phase[call] /\ r.script = local.script /\ r.ok = ok
  BY <1>1, ScriptCommandSends, InTheLoop DEF Sends
<1> HIDE DEF r
<1>3. \A phase : ResultsOf(phase)' =
        IF r.phase = phase THEN ResultsOf(phase) \cup {Len(scriptResults) + 1}
        ELSE ResultsOf(phase)
  BY <1>2, Recorded
<1>4. \A phase : \A i \in ResultsOf(phase) : scriptResults'[i] = scriptResults[i]
  BY <1>2, Recorded
<1>5. scriptResults'[Len(scriptResults) + 1] = r
  BY <1>2, Recorded
<1>6. \A phase : phase # r.phase => (Failed(phase)' <=> Failed(phase))
  BY <1>3, <1>4 DEF Failed
<1>7. ScriptFailing(scriptResults') <=>
        \E i \in 1..Len(scriptResults') :
           /\ scriptResults'[i].phase = r.phase /\ scriptResults'[i].script = local.script
           /\ ~scriptResults'[i].ok
  BY <1>2 DEF ScriptFailing
<1>8. \A phase : phase = r.phase =>
        (Failed(phase)' <=> FailedElsewhere(phase) \/ ScriptFailing(scriptResults'))
  <2>1. \A phase : ResultsOf(phase)' =
          {i \in 1..Len(scriptResults') : scriptResults'[i].phase = phase}
    BY DEF ResultsOf
  <2>2. \A phase : Failed(phase)' <=> \E i \in ResultsOf(phase)' : ~scriptResults'[i].ok
    BY DEF Failed
  <2> QED BY <1>2, <1>3, <1>4, <1>5, <1>7, <2>1, <2>2 DEF FailedElsewhere
<1>9. CASE ~over
  <2>1. UNCHANGED <<fsm, call, tvr>> /\ local'.script = local.script
    BY <1>1, <1>9 DEF Sends, Locals
  <2>2. \A phase : FailedElsewhere(phase)' <=> FailedElsewhere(phase)
    <3>1. \A phase : FailedElsewhere(phase)' <=>
            \E i \in ResultsOf(phase)' :
               scriptResults'[i].script # local.script /\ ~scriptResults'[i].ok
      BY <2>1 DEF FailedElsewhere
    <3> SUFFICES ASSUME NEW phase
                 PROVE  (\E i \in ResultsOf(phase)' :
                           scriptResults'[i].script # local.script /\ ~scriptResults'[i].ok)
                        <=> FailedElsewhere(phase)
      BY <3>1
    <3>2. \A i \in ResultsOf(phase) : scriptResults'[i] = scriptResults[i]
      BY <1>4
    <3>3. CASE phase # r.phase
      <4>1. ResultsOf(phase)' = ResultsOf(phase)
        BY <1>3, <3>3
      <4> QED BY <3>2, <4>1 DEF FailedElsewhere
    <3>4. CASE phase = r.phase
      <4>1. ResultsOf(phase)' = ResultsOf(phase) \cup {Len(scriptResults) + 1}
        BY <1>3, <3>4
      <4>2. scriptResults'[Len(scriptResults) + 1].script = local.script
        BY <1>2, <1>5
      <4> QED BY <3>2, <4>1, <4>2 DEF FailedElsewhere
    <3> QED BY <3>3, <3>4
  <2>3. FailuresPending'
    BY <2>1, <2>2, ScriptCommandSends DEF ScriptInv, FailuresPending
  <2>4. ScriptFailuresRecorded'
    BY <1>2, <1>6, <2>1, ScriptCommandSends DEF ScriptInv, ScriptFailuresRecorded
  <2> QED BY <2>3, <2>4
<1>10. CASE over /\ ~critical
  <2>1. /\ fsm' = LoopState[call]
        /\ tvr' = IF ScriptFailing(scriptResults') THEN tvr \cup {FailureBit[call]} ELSE tvr
    BY <1>1, <1>10 DEF Sends
  <2>2. FailuresPending'
    BY <2>1, ScriptCommandSends DEF FailuresPending
  <2>3. CASE call = "pre"
    <3>1. r.phase = "71" /\ fsm = "S13Script" /\ fsm' = "S13"
          /\ FailureBit[call] = "ScriptFailedBefore"
      BY <1>2, <2>1, <2>3, ScriptCommandSends
    <3>2. Failed("71")' <=> "ScriptFailedBefore" \in tvr'
      BY <1>8, <2>1, <2>3, <3>1 DEF ScriptInv, FailuresPending
    <3>3. Failed("72")' <=> "ScriptFailedAfter" \in tvr'
      BY <1>6, <2>1, <3>1 DEF ScriptInv, ScriptFailuresRecorded
    <3> QED BY <2>2, <3>2, <3>3 DEF ScriptFailuresRecorded
  <2>4. CASE call = "post"
    <3>1. r.phase = "72" /\ fsm = "S15Script" /\ fsm' = "S15"
          /\ FailureBit[call] = "ScriptFailedAfter"
      BY <1>2, <2>1, <2>4, ScriptCommandSends
    <3>2. Failed("72")' <=> "ScriptFailedAfter" \in tvr'
      BY <1>8, <2>1, <2>4, <3>1 DEF ScriptInv, FailuresPending
    <3>3. Failed("71")' <=> "ScriptFailedBefore" \in tvr'
      BY <1>6, <2>1, <3>1 DEF ScriptInv, ScriptFailuresRecorded
    <3> QED BY <2>2, <3>2, <3>3 DEF ScriptFailuresRecorded
  <2> QED BY <1>2, <2>3, <2>4
<1>11. CASE critical
  BY <1>1, <1>11 DEF Sends, FailuresPending, ScriptFailuresRecorded
<1> QED BY <1>9, <1>10, <1>11

-----------------------------------------------------------------------------
(* The online calls.                                                       *)
LEMMA OnlineScripts == SafetyInv /\ ScriptInv /\ OnlineNext => ScriptInv'
PROOF
<1> SUFFICES ASSUME SafetyInv, ScriptInv, OnlineNext PROVE ScriptInv'
  OBVIOUS
<1>1. CASE ApplyHostResponse
  <2>1. /\ fsm = "S11" /\ local = NoLocal /\ local' = local /\ local'.script = 0
        /\ UNCHANGED <<scriptResults, outcome, tvr>> /\ fsm' \in {"S12", "S13"}
        /\ host' \in HostChoices
    BY <1>1 DEF ApplyHostResponse
  <2>2. scriptResults = <<>> /\ tvr \cap ScriptBits = {} /\ HostChosen'
    BY <2>1 DEF ScriptInv, FailuresPending, HostChosen
  <2> QED BY <2>1, <2>2, BeforeScripts
<1>2. CASE OutOfSequence
  BY <1>2, CallAbandoned DEF OutOfSequence
<1>3. CASE OnlineExchangeFails
  BY <1>3, CallAbandoned DEF OnlineExchangeFails, InCallback
<1>4. CASE StartIssuerAuthentication
  <2>1. /\ fsm = "S12" /\ ~Busy /\ call' = "auth"
        /\ UNCHANGED <<fsm, local, host, scriptResults, tvr, outcome>>
    BY <1>4 DEF StartIssuerAuthentication, Enter, EntryState
  <2>2. /\ local.script = 0 /\ scriptResults = <<>> /\ tvr \cap ScriptBits = {}
        /\ HostChosen'
    BY <2>1 DEF ScriptInv, ScriptPlace, FailuresPending, HostChosen
  <2> QED BY <2>1, <2>2, BeforeScripts
<1>5. CASE IssuerAuthentication
  <2>1. /\ fsm = "S12" /\ fsm' = "S13" /\ local' = NoLocal
        /\ UNCHANGED <<host, scriptResults, outcome>>
        /\ tvr' \subseteq tvr \cup {"IssuerAuthFailed"}
    BY <1>5 DEF IssuerAuthentication
  <2>2. /\ local'.script = 0 /\ scriptResults = <<>> /\ tvr \cap ScriptBits = {}
        /\ HostChosen'
    BY <2>1 DEF ScriptInv, ScriptPlace, FailuresPending, HostChosen
  <2> QED BY <2>1, <2>2, BeforeScripts
<1>6. CASE StartScripts
  BY <1>6, StartScriptsKeeps
<1>7. CASE NextScript
  BY <1>7, NextScriptEnters, NextScriptEnds
<1>8. CASE ScriptCommand
  BY <1>8, ScriptCommandOrder, ScriptCommandComplete, ScriptCommandFailures DEF ScriptInv
<1>9. CASE ScriptProfileMissing
  BY <1>9, CallAbandoned, Phases2 DEF ScriptProfileMissing
<1>10. CASE SkipFinalGenerateAc
  <2>1. /\ fsm = "S14" /\ fsm' = "S15" /\ local' = NoLocal /\ ~Busy'
        /\ UNCHANGED <<host, scriptResults, tvr>> /\ outcome' \in OnlineOutcomes
    BY <1>10 DEF SkipFinalGenerateAc, Enter, EntryState, HostDecision
  <2> QED BY <2>1, BetweenScripts
<1>11. CASE StartFinalGenerateAc
  <2>1. fsm = "S14" /\ UNCHANGED <<fsm, host, scriptResults, tvr, outcome>>
    BY <1>11 DEF StartFinalGenerateAc, Enter, EntryState
  <2> QED BY <2>1, BetweenScripts
<1>12. CASE FinalGenerateAc
  <2>1. /\ fsm = "S14" /\ fsm' = "S15" /\ local' = NoLocal /\ ~Busy'
        /\ UNCHANGED <<host, scriptResults, tvr>> /\ outcome' \in OnlineOutcomes
    BY <1>12 DEF FinalGenerateAc
  <2> QED BY <2>1, BetweenScripts
<1>13. CASE FinalGenerateAcRefused
  <2>1. fsm' = "Se" /\ UNCHANGED <<host, scriptResults, outcome>>
    BY <1>13 DEF FinalGenerateAcRefused
  <2> QED BY <2>1, CallAbandoned
<1> QED BY <1>1, <1>2, <1>3, <1>4, <1>5, <1>6, <1>7, <1>8, <1>9, <1>10, <1>11, <1>12,
           <1>13 DEF OnlineNext

(* Every entry point of the context, and every step of a call.             *)
LEMMA ScriptStep == SafetyInv /\ ScriptInv /\ [Next]_vars => ScriptInv'
PROOF
<1>1. SafetyInv /\ ScriptInv /\ UNCHANGED vars => ScriptInv'
  BY ScriptsUntouched DEF vars
<1> QED BY <1>1, ConfigScripts, RunScripts, OnlineScripts DEF Next

(* A new context has sent nothing.                                         *)
LEMMA InitScripts == Init => ScriptInv
PROOF
<1> SUFFICES ASSUME Init PROVE ScriptInv
  OBVIOUS
<1>1. \A phase : ResultsOf(phase) = {}
  BY DEF Init, ResultsOf
<1> QED
  BY <1>1 DEF Init, ScriptInv, HostChosen, ScriptPlace, NotAhead, FailuresPending,
     ScriptsInOrder, ScriptsComplete, ScriptFailuresRecorded, Failed, InScript

-----------------------------------------------------------------------------
HIDE DEF SafetyInv, Evidence, RunTypes, ScriptsInOrder, ScriptsComplete,
         ScriptFailuresRecorded

(* Every reachable context satisfies it.                                   *)
LEMMA ScriptSafety == Spec => []ScriptInv
PROOF
<1> HIDE DEF ScriptInv
<1> QED BY InitScripts, ScriptStep, Safety, PTL DEF Spec

(* Each script command is sent once, in the host's order, and Template 72  *)
(* only after the decision.                                                *)
THEOREM ScriptsAreInOrder == Spec => []ScriptsInOrder
PROOF
<1>1. ScriptInv => ScriptsInOrder
  BY DEF ScriptInv
<1> QED BY <1>1, ScriptSafety, PTL

(* No script command is skipped.                                           *)
THEOREM ScriptsAreComplete == Spec => []ScriptsComplete
PROOF
<1>1. ScriptInv => ScriptsComplete
  BY DEF ScriptInv
<1> QED BY <1>1, ScriptSafety, PTL

(* The TVR says of every finished script whether a command of it failed.   *)
THEOREM ScriptFailuresAreRecorded == Spec => []ScriptFailuresRecorded
PROOF
<1>1. ScriptInv => ScriptFailuresRecorded
  BY DEF ScriptInv
<1> QED BY <1>1, ScriptSafety, PTL
=============================================================================
