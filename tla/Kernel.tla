------------------------------- MODULE Kernel -------------------------------
(***************************************************************************)
(* The transaction kernel: the context, krn_run_transaction and the online *)
(* completion calls composed, with the properties of a transaction.        *)
(***************************************************************************)
EXTENDS RunTransaction, OnlineCompletion

Next == ConfigNext \/ RunNext \/ OnlineNext

(* Callbacks return within the timeout they are given (KRN-API-006, checked*)
(* by validate_callback_timeout), so a call in progress takes its next     *)
(* step.  Nothing obliges the host to make a call.                         *)
DriverStep == RunSteps \/ OnlineSteps

Spec == Init /\ [][Next]_vars /\ WF_vars(DriverStep)

-----------------------------------------------------------------------------
(* The values the context can hold.                                        *)
ControlTypes ==
  /\ fsm \in FsmStates /\ kstate \in KernelStates /\ lastError \in Errors
  /\ call \in DriverCalls \cup {"none"} /\ local \in Locals

ConfigTypes ==
  /\ params \in TxnParams \cup {NoParams} /\ inputs \subseteq InputKinds
  /\ runtime \in BOOLEAN /\ uiCallback \in BOOLEAN
  /\ profiles \in 0..MaxVersion /\ bundle \in 0..MaxVersion
  /\ lastUn \in UnChoices \cup {NoUn}

CardTypes ==
  /\ tvr \subseteq TvrBits /\ tag95 \subseteq TvrBits /\ tsi \subseteq TsiBits
  /\ selected \in [aid : Nat \ {0}, aip : Aips] \cup {NoApp}
  /\ odaMethod \in DOMAIN FailedBit \cup {"none"}
  /\ cardData \subseteq DataObjects

DecisionTypes ==
  /\ requested \in TerminalActions \cup {"none"}
  /\ firstGac \in TerminalActions \cup {"none"}
  /\ onlineData \in (SUBSET TvrBits) \cup {NoPackage}
  /\ host \in HostResponses \cup {NoHost}
  /\ scriptResults \in Seq(ScriptResultRecs)
  /\ finalGac \in {"Tc", "Aac", "none"}
  /\ outcome \in Outcomes \cup {"none"}

TypeOK == ControlTypes /\ ConfigTypes /\ CardTypes /\ DecisionTypes

OnlineStates == {"S11", "S12", "S13", "S13Script", "S14", "S15", "S15Script"}

(* An approval always rests on its evidence.  Offline: terminal action     *)
(* analysis decided TC, or the card answered an ARQC request with a TC     *)
(* whose CDA signature, if one was due, verified.  Online: a host response *)
(* was applied, and the card returned a TC or the host approved a          *)
(* transaction that has no second GENERATE AC.                             *)
ApprovalJustified ==
  /\ outcome = "ApprovedOffline" =>
       \/ firstGac = "none" /\ requested = "Tc"
       \/ firstGac = "Tc" /\ requested = "Arqc" /\ "CdaFailed" \notin tvr
  /\ outcome = "ApprovedOnline" =>
       /\ host # NoHost /\ firstGac = "Arqc"
       /\ finalGac = "Tc" \/ (finalGac = "none" /\ host.approve)

(* The retained evidence is of one transaction: each object is there only  *)
(* if the one it answers is, whatever calls, errors and resets came before.*)
EvidenceChain ==
  /\ finalGac # "none" => host # NoHost /\ outcome \in OnlineOutcomes
  /\ scriptResults # <<>> => host # NoHost
  /\ host # NoHost => onlineData # NoPackage /\ firstGac = "Arqc"
  /\ onlineData # NoPackage => firstGac = "Arqc"
  /\ firstGac # "none" => requested # "none"
  /\ requested # "none" => selected # NoApp /\ cardData # {}
  /\ selected # NoApp => params # NoParams /\ runtime

(* Only a terminal that can go online, and only after the card answered    *)
(* the request of terminal action analysis with an ARQC, waits for or uses *)
(* an issuer's answer.                                                     *)
OnlineOnlyOnArqc ==
  fsm \in OnlineStates =>
    /\ params.onlineCapable
    /\ requested = "Arqc" /\ firstGac = "Arqc" /\ onlineData # NoPackage

(* The TVR in the package handed to the issuer is the TVR of the context   *)
(* (transaction_data_store's copy is refreshed by hand after each change). *)
PackageTvrCurrent == fsm = "S11" => onlineData = tvr

(* ODA the card's AIP asks for is never skipped silently: once S5 is over  *)
(* TSI says it was performed or the TVR says it was not, and a failure bit *)
(* is the one of the method selected.                                      *)
OdaAccountedFor ==
  /\ fsm \in {"S6", "S7", "S8", "S9", "S10"} \cup OnlineStates =>
       selected.aip = {} \/ "OdaPerformed" \in tsi \/ "OdaNotPerformed" \in tvr
  /\ \A method \in DOMAIN FailedBit :
       FailedBit[method] \in tvr => odaMethod = method /\ "OdaPerformed" \in tsi

(* A contactless transaction is only approved, or taken online, within the *)
(* limits of the AID it was selected with: not over the transaction limit, *)
(* and over the CVM limit only with the cardholder verified, by the kernel *)
(* or on a device the profile lets do so.                                  *)
WithinLimits(profile) ==
  /\ profile.txnLimit # 0 => params.amount <= profile.txnLimit
  /\ profile.cvmLimit # 0 /\ params.amount > profile.cvmLimit =>
       "9F34" \in cardData \/ (profile.cdcvm /\ "9F6C" \in cardData)
Proceeds ==
  \/ outcome # "ApprovedOffline" /\ outcome' = "ApprovedOffline"
  \/ fsm \notin OnlineStates /\ fsm' \in OnlineStates

ContactlessApprovalWithinLimits ==
  [][params.interface = "contactless" /\ Proceeds
       => WithinLimits(AidProfile(selected.aid))]_vars

(* A transaction that reports completion has an outcome, and one of an     *)
(* online completion is in the final states only.                          *)
OutcomeWhenFinal ==
  /\ fsm \in {"S15", "S15Script"} => outcome \in OnlineOutcomes
  /\ fsm = "S16" => outcome # "none" /\ kstate = "FinalOutcome"
  /\ outcome # "none" => fsm \in {"S15", "S15Script", "S16", "Se"}

(* Once a call has returned, its own result has replaced the Busy that a   *)
(* call from inside one of its callbacks left in last_error (unless a      *)
(* callback hands that very error back).                                   *)
BusyIsTransient == "Busy" \notin CallbackErrors /\ ~Busy => lastError # "Busy"

ResultsOf(phase) ==
  {i \in 1..Len(scriptResults) : scriptResults[i].phase = phase}
Failed(phase) == \E i \in ResultsOf(phase) : ~scriptResults[i].ok

LastCommandOf(r) ==
  /\ r.script \in 1..Len(ScriptsOf(host, r.phase))
  /\ r.command = Len(ScriptsOf(host, r.phase)[r.script].commands)

LastScriptOf(r) == r.script = Len(ScriptsOf(host, r.phase))

(* Result s is of the command right after the one of r in the response.    *)
Follows(r, s) ==
  \/ s.phase = r.phase /\ s.script = r.script /\ s.command = r.command + 1
     /\ ~LastCommandOf(r)
  \/ s.phase = r.phase /\ s.script = r.script + 1 /\ s.command = 1
     /\ LastCommandOf(r)
  \/ r.phase = "71" /\ s.phase = "72" /\ s.script = 1 /\ s.command = 1
     /\ LastCommandOf(r) /\ LastScriptOf(r)

(* Issuer script commands are sent exactly once, in the host's order, none *)
(* skipped: the Template 71 ones, then the Template 72 ones (KRN-SCR-002), *)
(* over any sequence of calls, failed exchanges and re-tried calls; no     *)
(* Template 72 command before the transaction is decided.                  *)
ScriptsInOrder ==
  /\ scriptResults # <<>> =>
       LET first == scriptResults[1] IN
       /\ first.script = 1 /\ first.command = 1
       /\ first.phase = "72" => ScriptsOf(host, "71") = <<>>
  /\ \A i \in 1..(Len(scriptResults) - 1) :
       Follows(scriptResults[i], scriptResults[i + 1])
  /\ ResultsOf("72") # {} => outcome \in OnlineOutcomes

(* Once the state machine is past the scripts of a template, the last      *)
(* command of the last of them has been sent: an error, a failed exchange  *)
(* or a profile set loaded between two calls never skips one.              *)
LastResultSent(phase) ==
  \/ ScriptsOf(host, phase) = <<>>
  \/ \E i \in ResultsOf(phase) :
        LastCommandOf(scriptResults[i]) /\ LastScriptOf(scriptResults[i])

ScriptsComplete ==
  /\ fsm \in {"S14", "S15", "S15Script"} => LastResultSent("71")
  /\ fsm = "S16" /\ outcome \in OnlineOutcomes => LastResultSent("71") /\ LastResultSent("72")

(* The TVR script bits say exactly whether a command of a finished script  *)
(* failed, per template (KRN-SCR-004, KRN-SCR-005); a script that an error *)
(* cut short is in S13Script or S15Script, or was abandoned there.         *)
ScriptFailuresRecorded ==
  /\ fsm \in {"S13", "S14", "S15", "S15Script", "S16"} =>
       (Failed("71") <=> "ScriptFailedBefore" \in tvr)
  /\ fsm \in {"S13", "S13Script", "S14", "S15", "S16"} =>
       (Failed("72") <=> "ScriptFailedAfter" \in tvr)

-----------------------------------------------------------------------------
(* The parts that carry the properties above through every step: the       *)
(* call in progress and the state machine agree, a run has what it reads,  *)
(* and each part of the evidence is empty until the state that fills it.   *)
BeforeGpo == {"S2", "S2AidList", "S2SelectAid", "S3"}
BeforeTaa == {"S4", "S4Next", "S5", "S6", "S7", "S8", "S9"}
RunStates == BeforeGpo \cup BeforeTaa \cup {"S10"}
CallStates == [run |-> RunStates, limits |-> {"S8"}, auth |-> {"S12"},
               pre |-> {"S13", "S13Script"}, gac2 |-> {"S14"},
               post |-> {"S15", "S15Script"}]

(* States the driver only passes through, or (S7Retry) never enters.       *)
TransientStates == {"S5Cda", "S7Retry"}

CallMatchesState ==
  IF Busy THEN fsm \in CallStates[call]
  ELSE fsm \notin RunStates \cup TransientStates /\ local = NoLocal

RunPrepared ==
  fsm \in RunStates =>
    /\ params # NoParams /\ runtime /\ profiles # 0
    /\ local.candidates \subseteq DOMAIN ProfileSet[profiles]
    /\ fsm \in {"S2SelectAid", "S3"} => AidConfigured(local.aid)
    /\ fsm \in BeforeTaa \cup {"S10"} =>
         AidConfigured(selected.aid) /\ "9F37" \in cardData
    /\ fsm = "S4" => local.records # 0

ScriptPosition ==
  Busy /\ fsm \in {"S13Script", "S15Script"} =>
    local.script # 0 /\ local.command # 0

NothingDecided ==
  fsm \in {"S0", "S1"} \cup RunStates =>
    /\ firstGac = "none" /\ onlineData = NoPackage /\ outcome = "none"
    /\ requested = IF fsm = "S10" THEN "Arqc" ELSE "none"

NothingFromHost ==
  /\ fsm \in {"S0", "S1", "S11"} \cup RunStates => host = NoHost
  /\ fsm \in OnlineStates \ {"S11"} => host # NoHost
  /\ host = NoHost => scriptResults = <<>> /\ finalGac = "none"
  /\ fsm \in {"S11", "S12", "S13", "S13Script", "S14"} =>
       outcome = "none" /\ finalGac = "none"

(* The card is asked for an ARQC only if terminal action analysis still    *)
(* decides so on the TVR of the context.                                   *)
ArqcDecided ==
  /\ fsm = "S10" => TaaDecision(tvr) = "Arqc"
  /\ fsm \in {"S10"} \cup OnlineStates => params.onlineCapable

OdaPending ==
  /\ fsm \in {"S0", "S1", "S4", "S4Next", "S5"} \cup BeforeGpo =>
       odaMethod = "none" /\ tvr \cap {"SdaFailed", "DdaFailed", "CdaFailed"} = {}
  /\ odaMethod # "none" => "OdaPerformed" \in tsi

-----------------------------------------------------------------------------
(* A recorded outcome never changes, until the host starts or clears a     *)
(* transaction; it is never replaced by a second decision.                 *)
OutcomeStable ==
  [][\/ outcome' = outcome \/ outcome = "none"
     \/ outcome' = "none" /\ fsm' \in {"S0", "S1"}]_vars

(* Within a transaction the TVR and the TSI only gain bits.                *)
RiskMonotone ==
  [][fsm' \in {"S0", "S1"} \/ (tvr \subseteq tvr' /\ tsi \subseteq tsi')]_vars

(* No two transactions in a row send the card the same unpredictable       *)
(* number: the last one is remembered over resets and failures, and a      *)
(* transaction sends only the one it drew.                                 *)
UnpredictableNumberFresh ==
  [][/\ lastUn # NoUn => lastUn' # NoUn
     /\ "9F37" \in cardData' \ cardData => lastUn' # lastUn]_vars

(* A driver call returns, whatever the card, the host and the re-entrant   *)
(* calls do.                                                               *)
EveryCallReturns == Busy ~> ~Busy

-----------------------------------------------------------------------------
(* The kernel implements the transaction lifecycle.                        *)
LifecyclePhase ==
  CASE fsm = "S0" -> "idle"
    [] fsm = "S1" -> "ready"
    [] fsm = "S11" -> "issuer"
    [] fsm \in {"S12", "S13", "S13Script", "S14"} -> "answered"
    [] fsm \in {"S15", "S15Script"} -> "decided"
    [] fsm = "S16" -> "complete"
    [] fsm = "Se" -> "failed"
    [] OTHER -> "card"

Lifecycle ==
  INSTANCE TransactionLifecycle
    WITH phase <- LifecyclePhase, verdict <- outcome,
         OfflineVerdicts <- OfflineOutcomes \cup ContactlessOutcomes,
         OnlineVerdicts <- OnlineOutcomes

ImplementsLifecycle == Lifecycle!Spec

-----------------------------------------------------------------------------
(* What the documentation says and the code does not do.                   *)

(* Every change of fsm_state the driver makes is a row of                  *)
(* docs/state_machine.csv (KRN-FSM-001).                                   *)
FsmTableComplete ==
  [][fsm' = fsm \/ <<fsm, fsm'>> \in FsmEdges \/ fsm' \in {"S0", "S1"}]_vars

(* KRN-CFG-003: the version of the active profile set never goes back.     *)
ProfileVersionMonotone == [][profiles' >= profiles]_vars

(* KRN-SCR-004: a Template 71 command that failed is in the TVR when the   *)
(* call returns.                                                           *)
ScriptFailureAlwaysRecorded ==
  ~Busy /\ Failed("71") => "ScriptFailedBefore" \in tvr

(* KRN-GAC1-003: an offline decision is the card's: it was asked for the   *)
(* cryptogram terminal action analysis chose.                              *)
OfflineDecisionHasCryptogram == outcome \in OfflineOutcomes => firstGac # "none"

(* KRN-FSM-004: a card removed during a call ends the transaction in Se.   *)
CardRemovalIsFatal ==
  [][Busy /\ ~(call' # "none") /\ lastError' = "CardRemoved" => fsm' = "Se"]_vars
=============================================================================
