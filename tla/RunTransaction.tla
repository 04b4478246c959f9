--------------------------- MODULE RunTransaction ---------------------------
(***************************************************************************)
(* krn_run_transaction, src/ffi.rs run_transaction_inner and the functions *)
(* it drives: from card detection (S1) to the first GENERATE AC (S10).     *)
(* One action per callback the driver waits for, and one per iteration of  *)
(* advance_transaction_after_gpo that asks the host nothing.  An error     *)
(* anywhere ends the call in Se.                                           *)
(***************************************************************************)
EXTENDS KernelContext

InRun(state) == call = "run" /\ fsm = state

(* An exchange with the card ends without a usable response: the callback  *)
(* fails, or its answer does not parse.  (DDA takes that for a failed      *)
(* authentication, see OfflineDataAuthentication.)  A first GENERATE AC    *)
(* has refreshed the stored TVR before it was sent.                        *)
CardExchangeFails ==
  /\ InCallback
  /\ \/ call = "run" /\ fsm # "S5"
     \/ call = "limits" /\ AidProfile(selected.aid).relay # "none"
  /\ \E error \in CallbackErrors : FailTransaction(error)
  /\ tag95' = IF fsm = "S10" THEN tvr ELSE tag95
  /\ UNCHANGED <<inputVars, configVars, riskVars, selected, odaMethod, cardData,
                 gacVars, hostVars, outcome, lastUn>>

(* Card data a step parses is malformed: the PDOL, a date or usage control,*)
(* the CVM list, the CTQ, an issuer action code.                           *)
ParsedIn == [S6 |-> MandatoryForRestrictions, S7 |-> {"8E"},
             S9 |-> {"9F0D", "9F0E", "9F0F"}]

MalformedCardData ==
  /\ \/ InRun("S3")
     \/ \E state \in DOMAIN ParsedIn : InRun(state) /\ ParsedIn[state] \cap cardData # {}
     \/ call = "limits" /\ ReadsCtq
  /\ FailTransaction("ParseError")
  /\ UNCHANGED <<inputVars, configVars, evidence, lastUn>>

(* krn_run_transaction: its preconditions, and transition(CardDetected).   *)
RunRefusal ==
  CASE params = NoParams \/ ~runtime -> "InvalidArgument"
    [] params # NoParams /\ runtime /\ profiles = 0 -> "InvalidProfile"
    [] params # NoParams /\ runtime /\ profiles # 0 ->
         IF CanApply(fsm, "CardDetected") THEN "Ok" ELSE "InvalidArgument"

StartRun ==
  /\ ~Busy
  /\ IF RunRefusal = "Ok"
     THEN /\ fsm' = Target(fsm, "CardDetected")
          /\ kstate' = "SelectEnvironment" /\ call' = "run"
          /\ UNCHANGED <<lastError, local>>
     ELSE FailTransaction(RunRefusal)
  /\ UNCHANGED <<inputVars, configVars, evidence, lastUn>>

(* Candidate AIDs: those configured for the interface, all of them or the  *)
(* ones the card's directory lists (priority order is left open).          *)
ProfileAids ==
  {aid \in DOMAIN ProfileSet[profiles] :
      params.interface \in ProfileSet[profiles][aid].interfaces}

(* SELECT PSE/PPSE returned a status word; anything but success and 6A82   *)
(* or 6283 is fatal, and so is an empty candidate list.                    *)
SelectEnvironment ==
  /\ InRun("S2")
  /\ \/ FailTransaction("NoCommonAid")
     \/ \E event \in {"PseSelected", "PseNotFound"}, aids \in SUBSET ProfileAids :
          /\ aids # {} /\ (aids = ProfileAids \/ event = "PseSelected")
          /\ fsm' = Target(fsm, event) /\ kstate' = "BuildCandidateList"
          /\ local' = [local EXCEPT !.candidates = aids]
          /\ lastError' = "Ok" /\ UNCHANGED call
  /\ UNCHANGED <<inputVars, configVars, evidence, lastUn>>

(* Mutant: a candidate stays on the list after it was tried.               *)
NextCandidate_KeepsCandidate ==
  /\ InRun("S2AidList")
  /\ \/ \E aid \in local.candidates :
          Continue(Target(fsm, "CandidateAidAvailable"), kstate,
                   [local EXCEPT !.aid = aid])
     \/ local.candidates = {} /\ FailTransaction("NoCommonAid")
  /\ UNCHANGED <<inputVars, configVars, evidence, lastUn>>

NextCandidate ==
  /\ InRun("S2AidList")
  /\ \/ \E aid \in local.candidates :
          Continue(Target(fsm, "CandidateAidAvailable"), kstate,
                   [local EXCEPT !.candidates = local.candidates \ {aid}, !.aid = aid])
     \/ local.candidates = {} /\ FailTransaction("NoCommonAid")
  /\ UNCHANGED <<inputVars, configVars, evidence, lastUn>>

(* SELECT AID: any status word but success tries the next candidate; a     *)
(* success whose FCI names another application fails.                      *)
SelectAid ==
  /\ InRun("S2SelectAid")
  /\ \/ Continue(Target(fsm, "AidNotSupported"), kstate, [local EXCEPT !.aid = 0])
     \/ Continue(Target(fsm, "AidSelected"), "Gpo", [local EXCEPT !.candidates = {}])
     \/ FailTransaction("NoCommonAid")
  /\ UNCHANGED <<inputVars, configVars, evidence, lastUn>>

(* Mutant: the generator is not checked for a repeated value.              *)
DrawUnpredictableNumber_Repeats ==
  /\ InRun("S3") /\ "9F37" \notin cardData
  /\ \E un \in UnChoices : lastUn' = un
  /\ cardData' = {"9F37"} /\ tag95' = tvr
  /\ UNCHANGED <<controlVars, inputVars, configVars, riskVars, selected, odaMethod,
                 gacVars, hostVars, outcome>>

(* request_unpredictable_number and transaction_data_store: a value the    *)
(* generator repeats is refused.                                           *)
DrawUnpredictableNumber ==
  /\ InRun("S3") /\ "9F37" \notin cardData
  /\ \/ \E un \in UnChoices \ {lastUn} :
          /\ lastUn' = un /\ cardData' = {"9F37"} /\ tag95' = tvr
          /\ UNCHANGED controlVars
     \/ /\ FailTransaction("RngFailure")
        /\ UNCHANGED <<lastUn, cardData, tag95>>
  /\ UNCHANGED <<inputVars, configVars, riskVars, selected, odaMethod,
                 gacVars, hostVars, outcome>>

(* GET PROCESSING OPTIONS, then validate_selected_kernel_mapping, which a  *)
(* candidate configured for the interface always passes.  Format 80 sends  *)
(* the transaction past READ RECORD.                                       *)
GetProcessingOptions ==
  /\ InRun("S3") /\ "9F37" \in cardData
  /\ \/ \E aip \in AipChoices, plan \in 1..MaxRecords :
          /\ selected' = [aid |-> local.aid, aip |-> aip]
          /\ \/ Continue(Target(fsm, "GpoTemplate77"), "ReadRecords",
                         [local EXCEPT !.records = plan])
             \/ Continue(Target(fsm, "GpoTemplate80"), "OfflineDataAuthentication",
                         local)
     \/ FailTransaction("MissingMandatoryTag") /\ UNCHANGED selected
  /\ UNCHANGED <<inputVars, configVars, riskVars, odaMethod, cardData, tag95,
                 gacVars, hostVars, outcome, lastUn>>

(* read_application_records, one READ RECORD: its data objects are stored; *)
(* 6A83 ends the loop, and so does any other status word; a record the     *)
(* authentication needs (always, for the latter) leaves ICC data missing.  *)
ReadRecord ==
  /\ InRun("S4")
  /\ \/ /\ \E objects \in RecordChoices : cardData' = cardData \cup objects
        /\ Continue(Target(fsm, "RecordRead"), "ReadRecords",
                    [local EXCEPT !.records = local.records - 1])
        /\ UNCHANGED tvr
     \/ \E event \in {"EndOfRecords", "RecordReadFailed"}, authenticated \in BOOLEAN :
          /\ tvr' = IF authenticated \/ event = "RecordReadFailed"
                    THEN tvr \cup {"IccDataMissing"} ELSE tvr
          /\ Continue(Target(fsm, event), "OfflineDataAuthentication",
                      [local EXCEPT !.records = 0])
          /\ UNCHANGED cardData
  /\ UNCHANGED <<inputVars, configVars, tsi, selected, odaMethod, tag95,
                 gacVars, hostVars, outcome, lastUn>>

(* The bottom of the READ RECORD loop.                                     *)
NextRecord ==
  /\ InRun("S4Next")
  /\ IF local.records = 0
     THEN Continue(Target(fsm, "AflComplete"), "OfflineDataAuthentication", local)
     ELSE Continue(Target(fsm, "MoreAflEntries"), kstate, local)
  /\ UNCHANGED <<inputVars, configVars, evidence, lastUn>>

-----------------------------------------------------------------------------
(* Iterations of advance_transaction_after_gpo.                            *)

FailedBit == [Sda |-> "SdaFailed", Dda |-> "DdaFailed", Cda |-> "CdaFailed"]

(* oda_outcome_for_method and apply_oda_outcome: the TVR bits a performed  *)
(* authentication may end with.  Without 8F no CAPK is found; a            *)
(* certificate that does not recover also means missing ICC data.          *)
OdaResults(method) ==
  {{FailedBit[method]}} \cup
  (IF "8F" \in cardData THEN {{}, {FailedBit[method], "IccDataMissing"}} ELSE {})

(* run_offline_data_authentication; the method stays selected if it fails. *)
OfflineDataAuthentication ==
  /\ InRun("S5")
  /\ LET method == SelectOdaMethod(selected.aip, AidProfile(selected.aid).cda) IN
     \/ /\ method = "NotRequired"
        /\ odaMethod' = "none" /\ UNCHANGED riskVars
     \/ /\ method = "NotPerformedRequired"
        /\ odaMethod' = "none" /\ tvr' = tvr \cup {"OdaNotPerformed"} /\ UNCHANGED tsi
     \/ /\ method \in DOMAIN FailedBit
        /\ odaMethod' = method /\ tsi' = tsi \cup {"OdaPerformed"}
        /\ \E bits \in OdaResults(method) : tvr' = tvr \cup bits
  /\ Continue(Target(fsm, "OdaSuccess"), "ProcessingRestrictions", local)
  /\ UNCHANGED <<inputVars, configVars, selected, cardData, tag95, gacVars,
                 hostVars, outcome, lastUn>>

(* run_processing_restrictions                                             *)
ProcessingRestrictions ==
  /\ InRun("S6")
  /\ IF MandatoryForRestrictions \subseteq cardData
     THEN /\ \E bits \in RestrictionChoices : tvr' = tvr \cup bits
          /\ Continue(Target(fsm, "RestrictionsEvaluated"), "Cvm", local)
     ELSE FailTransaction("MissingMandatoryTag") /\ UNCHANGED tvr
  /\ UNCHANGED <<inputVars, configVars, tsi, cardVars, gacVars, hostVars,
                 outcome, lastUn>>

(* run_cvm_processing; a contactless transaction goes on in                *)
(* run_contactless_limit_processing, in the same iteration.                *)
CvmProcessing ==
  /\ InRun("S7")
  /\ \/ /\ "8E" \in cardData
        /\ \E cvm \in CvmChoices :
             /\ tvr' = tvr \cup cvm.bits
             /\ cardData' = (cardData \ {"9F34"})
                            \cup (IF cvm.successful THEN {"9F34"} ELSE {})
        /\ tsi' = tsi \cup {"CvmPerformed"} /\ StoreTvr
        /\ fsm' = Target(fsm, "CvmSuccess") /\ kstate' = "TerminalRiskManagement"
        /\ call' = IF params.interface = "contactless" THEN "limits" ELSE call
        /\ UNCHANGED <<lastError, local>>
     \/ /\ "8E" \notin cardData
        /\ FailTransaction("MissingMandatoryTag")
        /\ UNCHANGED <<riskVars, cardData, tag95>>
  /\ UNCHANGED <<inputVars, configVars, selected, odaMethod, gacVars, hostVars,
                 outcome, lastUn>>

(* run_contactless_limit_processing: every outcome, and the notice that    *)
(* the transaction must go online, needs the outcome callback.             *)
ContactlessLimits ==
  /\ call = "limits"
  /\ \/ /\ uiCallback
        /\ \E o \in EarlyOutcomes : outcome' = o
        /\ ReturnOk("S16", "FinalOutcome")
     \/ /\ ~OverTransactionLimit /\ ~CvmStillRequired
        /\ uiCallback \/ ~Over(AidProfile(selected.aid).floor)
        /\ call' = "run"
        /\ UNCHANGED <<fsm, kstate, lastError, local, outcome>>
     \/ /\ ~uiCallback
        /\ NoticeDue
        /\ FailTransaction("InvalidArgument") /\ UNCHANGED outcome
  /\ UNCHANGED <<inputVars, configVars, riskVars, cardVars, gacVars, hostVars,
                 lastUn>>

(* run_terminal_risk_management: a sample or counter the profile needs and *)
(* the host did not give is an error.                                      *)
TerminalRiskManagement ==
  /\ InRun("S8")
  /\ LET profile == AidProfile(selected.aid)
         sampled == profile.random => "trmSample" \in inputs
         counted == profile.velocity # {} => "offlineCounter" \in inputs
     IN
     \/ /\ sampled /\ counted
        /\ \E exceeded \in SUBSET profile.velocity, picked \in BOOLEAN :
             /\ picked => profile.random
             /\ "UpperOfflineLimit" \in exceeded /\ "LowerOfflineLimit" \in profile.velocity
                  => "LowerOfflineLimit" \in exceeded
             /\ tvr' = tvr \cup exceeded
                       \cup (IF picked THEN {"RandomSelection"} ELSE {})
                       \cup (IF params.amount > profile.trmFloor
                             THEN {"FloorLimitExceeded"} ELSE {})
        /\ tsi' = tsi \cup {"TrmPerformed"} /\ StoreTvr
        /\ Continue(Target(fsm, "TrmEvaluated"), "TerminalActionAnalysis", local)
     \/ /\ ~(sampled /\ counted)
        /\ FailTransaction("InvalidProfile") /\ UNCHANGED <<riskVars, tag95>>
  /\ UNCHANGED <<inputVars, configVars, selected, odaMethod, cardData, gacVars,
                 hostVars, outcome, lastUn>>

(* issuer_action_codes: the card's codes, the profile's where it has none. *)
IssuerActionCodes(profile) ==
  [kind \in CodeKinds |->
     IF IacTag[kind] \in cardData THEN CardIac[kind] ELSE profile.iac[kind]]

TaaDecision(results) ==
  LET profile == AidProfile(selected.aid)
  IN  Decide(results, profile.tac, IssuerActionCodes(profile),
             params.onlineCapable, profile.taa)

OfflineOutcomeOf(cryptogram) ==
  IF cryptogram = "Tc" THEN "ApprovedOffline" ELSE "DeclinedOffline"

(* run_terminal_action_analysis, then finish_offline_outcome_from_taa      *)
(* unless an ARQC is to be requested.                                      *)
TerminalActionAnalysisStep ==
  /\ InRun("S9")
  /\ requested' = TaaDecision(tvr)
  /\ \/ /\ requested' = "Arqc"
        /\ Continue(Target(fsm, "TaaArqc"), "FirstGenerateAc", local)
        /\ UNCHANGED outcome
     \/ /\ requested' # "Arqc"
        /\ outcome' = OfflineOutcomeOf(requested')
        /\ ReturnOk("S16", "FinalOutcome")
  /\ UNCHANGED <<inputVars, configVars, riskVars, cardVars, firstGac, onlineData,
                 hostVars, lastUn>>

(* run_first_generate_ac up to the transmission: a CDOL1 that is absent,   *)
(* or asks for an object card_data lacks; or a status word that is not     *)
(* success.                                                                *)
FirstGenerateAcFails ==
  /\ InRun("S10")
  /\ \E error \in {"MissingMandatoryTag", "CardRemoved"} : FailTransaction(error)
  /\ UNCHANGED <<inputVars, configVars, riskVars, selected, odaMethod, cardData,
                 gacVars, hostVars, outcome, lastUn>>
  /\ StoreTvr

(* Mutant: the CDA signature of the first GENERATE AC is never verified.   *)
CdaVerifications_Skipped == {"notRequested"}

(* verify_combined_data_authentication: certificates that did not recover  *)
(* in S5 do not recover now.                                               *)
CdaVerifications ==
  IF odaMethod # "Cda" THEN {"notRequested"}
  ELSE {"failed"} \cup (IF "CdaFailed" \in tvr THEN {} ELSE {"passed"})

(* The response of the first GENERATE AC.  A CDA failure on an offline     *)
(* cryptogram is rerouted through terminal action analysis, which must not *)
(* ask to go online then; the outcome follows the second decision if CDA   *)
(* failed and the card's cryptogram otherwise.  An AAR, or an ARQC whose   *)
(* online package is too long, is an error.                                *)
CardAnswers(cryptogram, cda) ==
  \/ /\ \/ cryptogram = "Aar" /\ FailTransaction("InvalidArgument")
        \/ cryptogram = "Arqc" /\ FailTransaction("LengthOverflow")
     /\ UNCHANGED <<gacVars, outcome>>
  \/ /\ cryptogram = "Arqc"
     /\ firstGac' = cryptogram /\ onlineData' = tag95'
     /\ ReturnOk(Target(fsm, "GacArqc"), "OnlineAuthorization")
     /\ UNCHANGED <<requested, outcome>>
  \/ /\ cryptogram \in {"Tc", "Aac"} /\ cda = "failed"
     /\ firstGac' = cryptogram /\ requested' = TaaDecision(tvr')
     /\ \/ requested' = "Arqc" /\ FailTransaction("InvalidArgument") /\ UNCHANGED outcome
        \/ /\ requested' # "Arqc" /\ outcome' = OfflineOutcomeOf(requested')
           /\ ReturnOk("S16", "FinalOutcome")
     /\ UNCHANGED onlineData
  \/ /\ cryptogram \in {"Tc", "Aac"} /\ cda # "failed"
     /\ firstGac' = cryptogram /\ onlineData' = NoPackage
     /\ outcome' = OfflineOutcomeOf(cryptogram)
     /\ ReturnOk("S16", "FinalOutcome")
     /\ UNCHANGED requested

FirstGenerateAc ==
  /\ InRun("S10")
  /\ AidProfile(selected.aid).defaultCdol1 \/ "8C" \in cardData
  /\ \E cryptogram \in {"Arqc", "Tc", "Aac", "Aar"}, cda \in CdaVerifications :
       /\ tvr' = IF cda = "failed" THEN tvr \cup {"CdaFailed"} ELSE tvr
       /\ StoreTvr
       /\ CardAnswers(cryptogram, cda)
  /\ UNCHANGED <<inputVars, configVars, tsi, selected, odaMethod, cardData,
                 hostVars, lastUn>>

RunNext ==
  \/ StartRun \/ SelectEnvironment \/ NextCandidate \/ SelectAid
  \/ DrawUnpredictableNumber \/ GetProcessingOptions
  \/ ReadRecord \/ NextRecord
  \/ OfflineDataAuthentication \/ ProcessingRestrictions \/ CvmProcessing
  \/ ContactlessLimits \/ TerminalRiskManagement
  \/ TerminalActionAnalysisStep \/ FirstGenerateAc \/ FirstGenerateAcFails
  \/ CardExchangeFails \/ MalformedCardData

(* The steps of a krn_run_transaction in progress.                         *)
RunSteps == call \in {"run", "limits"} /\ RunNext
=============================================================================
