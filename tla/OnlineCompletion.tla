-------------------------- MODULE OnlineCompletion --------------------------
(***************************************************************************)
(* After an ARQC the host completes the transaction call by call:          *)
(* krn_apply_host_response (S11), krn_process_issuer_authentication (S12), *)
(* krn_process_issuer_scripts (S13, Template 71),                          *)
(* krn_process_final_generate_ac (S14) and                                 *)
(* krn_process_post_final_issuer_scripts (S15, Template 72).               *)
(* Unlike krn_run_transaction these calls do not turn an error into Se.    *)
(***************************************************************************)
EXTENDS KernelContext

(* The two script calls: their template, their loop state, the state they  *)
(* hand over to.                                                           *)
Phase      == [pre |-> "71", post |-> "72"]
LoopState  == [pre |-> "S13", post |-> "S15"]
AfterPhase == [pre |-> "SecondGenerateAc", post |-> "FinalOutcome"]
FailureBit == [pre |-> "ScriptFailedBefore", post |-> "ScriptFailedAfter"]

(* The state each krn_process call requires.                               *)
EntryState == [auth |-> "S12", pre |-> "S13", gac2 |-> "S14", post |-> "S15"]

(* host_response.scripts of one template, in the host's order.             *)
ScriptsOf(response, phase) ==
  SelectSeq(response.scripts, LAMBDA script : script.phase = phase)

(* What SelectSeq keeps of a sequence of scripts is one.                   *)
ASSUME ScriptsAssumption ==
  \A response \in HostChoices, phase \in Phases : ScriptsOf(response, phase) \in Seq(Scripts)

-----------------------------------------------------------------------------
(* krn_apply_host_response                                                 *)
ApplyHostResponse ==
  /\ ~Busy /\ fsm = "S11"
  /\ \E response \in HostChoices :
       /\ host' = response
       /\ fsm' = Target(fsm, IF response.arpc THEN "HostArpc" ELSE "HostApprovalNoArpc")
  /\ kstate' = IF fsm' = "S12" THEN "IssuerAuthentication" ELSE "IssuerScripts"
  /\ lastError' = "Ok"
  /\ UNCHANGED <<call, local, inputVars, configVars, riskVars, cardVars, gacVars,
                 scriptResults, finalGac, outcome, lastUn>>

(* Any of the online calls in a state it does not accept, or on a context  *)
(* without callbacks.                                                      *)
OutOfSequence ==
  /\ ~Busy
  /\ \/ fsm # "S11"
     \/ \E c \in DOMAIN EntryState : fsm # EntryState[c] \/ ~runtime
  /\ ReturnError("InvalidArgument")
  /\ UNCHANGED <<inputVars, configVars, evidence, lastUn>>

(* Mutant: a second final GENERATE AC is accepted.                         *)
Enter_FinalGacTwice(c) ==
  ~Busy /\ runtime /\ (fsm = EntryState[c] \/ (c = "gac2" /\ fsm = "S15"))

Enter(c) == ~Busy /\ runtime /\ fsm = EntryState[c]

(* Mutant: a failed exchange lets the host make the call again.            *)
OnlineExchangeFails_Retries ==
  /\ InCallback /\ call \in DOMAIN EntryState
  /\ fsm' = EntryState[call] /\ UNCHANGED kstate
  /\ lastError' \in CallbackErrors /\ call' = "none" /\ local' = NoLocal
  /\ UNCHANGED <<inputVars, configVars, evidence, lastUn>>

(* A card exchange of an online call fails: only the error is recorded.    *)
OnlineExchangeFails ==
  /\ InCallback /\ call \in DOMAIN EntryState
  /\ \E error \in CallbackErrors : ReturnError(error)
  /\ UNCHANGED <<inputVars, configVars, evidence, lastUn>>

-----------------------------------------------------------------------------
(* run_issuer_authentication: EXTERNAL AUTHENTICATE with tag 91.           *)
StartIssuerAuthentication ==
  /\ Enter("auth")
  /\ call' = "auth"
  /\ UNCHANGED <<fsm, kstate, lastError, local, inputVars, configVars, evidence, lastUn>>

(* Mutant: the failure bit replaces the TVR.                               *)
IssuerAuthentication_Overwrites ==
  /\ call = "auth"
  /\ tsi' = tsi \cup {"IssuerAuthPerformed"}
  /\ tvr' = {"IssuerAuthFailed"}
  /\ ReturnOk(Target(fsm, "IssuerAuthenticationFailure"), "IssuerScripts")
  /\ StoreTvr
  /\ UNCHANGED <<inputVars, configVars, selected, odaMethod, cardData, gacVars,
                 hostVars, outcome, lastUn>>

IssuerAuthentication ==
  /\ call = "auth"
  /\ tsi' = tsi \cup {"IssuerAuthPerformed"}
  /\ \E event \in {"IssuerAuthenticationSuccess", "IssuerAuthenticationFailure"} :
       /\ tvr' = IF event = "IssuerAuthenticationFailure"
                 THEN tvr \cup {"IssuerAuthFailed"} ELSE tvr
       /\ ReturnOk(Target(fsm, event), "IssuerScripts")
  /\ StoreTvr
  /\ UNCHANGED <<inputVars, configVars, selected, odaMethod, cardData, gacVars,
                 hostVars, outcome, lastUn>>

-----------------------------------------------------------------------------
(* run_issuer_scripts_for_phase                                            *)
StartScripts ==
  /\ \E c \in {"pre", "post"} : Enter(c) /\ call' = c
  /\ UNCHANGED <<fsm, kstate, lastError, local, inputVars, configVars, evidence, lastUn>>

(* The head of the loop over the scripts.                                  *)
NextScript ==
  /\ call \in {"pre", "post"} /\ fsm = LoopState[call]
  /\ IF local.script < Len(ScriptsOf(host, Phase[call]))
     THEN Continue(Target(fsm, "ScriptAvailable"), kstate,
                   [local EXCEPT !.script = local.script + 1, !.command = 1])
     ELSE ReturnOk(Target(fsm, "NoMoreScripts"), AfterPhase[call])
  /\ UNCHANGED <<inputVars, configVars, evidence, lastUn>>

CurrentScript == ScriptsOf(host, Phase[call])[local.script]

(* Mutant: the rest of the script is skipped instead.                      *)
ScriptProfileMissing_Skips ==
  /\ call \in {"pre", "post"} /\ fsm # LoopState[call]
  /\ ~AidConfigured(selected.aid)
  /\ Continue(LoopState[call], kstate, local)
  /\ UNCHANGED <<inputVars, configVars, evidence, lastUn>>

(* The selected AID is no longer in the profile set of the context, so the *)
(* command's criticality cannot be looked up.                              *)
ScriptProfileMissing ==
  /\ call \in {"pre", "post"} /\ fsm # LoopState[call]
  /\ ~AidConfigured(selected.aid)
  /\ ReturnError("InvalidProfile")
  /\ UNCHANGED <<inputVars, configVars, evidence, lastUn>>

(* Mutant: only the last command of the script counts.                     *)
ScriptFailing_LastOnly(results) == ~results[Len(results)].ok

(* The script in progress has had a command fail.                          *)
ScriptFailing(results) ==
  \E i \in 1..Len(results) :
     /\ results[i].phase = Phase[call] /\ results[i].script = local.script
     /\ ~results[i].ok

(* One command: its status word is retained; a critical instruction that   *)
(* is not answered 9000, 62xx or 63xx ends the script and the transaction. *)
(* apply_script_results runs when the script is over, whatever the reason. *)
ScriptCommand ==
  /\ call \in {"pre", "post"} /\ fsm # LoopState[call]
  /\ AidConfigured(selected.aid)
  /\ \E sw \in {"success", "warning", "failure"} :
       LET critical == /\ sw = "failure"
                       /\ CurrentScript.commands[local.command]
                            \in AidProfile(selected.aid).critical
           over     == critical \/ local.command = Len(CurrentScript.commands)
       IN
       /\ scriptResults' =
            Append(scriptResults, [phase |-> Phase[call], script |-> local.script,
                                   command |-> local.command, ok |-> sw = "success"])
       /\ tvr' = IF over /\ ScriptFailing(scriptResults')
                 THEN tvr \cup {FailureBit[call]} ELSE tvr
       /\ tsi' = IF over THEN tsi \cup {"ScriptsPerformed"} ELSE tsi
       /\ IF over THEN StoreTvr ELSE UNCHANGED tag95
       /\ \/ ~over /\ Continue(fsm, kstate, [local EXCEPT !.command = local.command + 1])
          \/ over /\ ~critical /\ Continue(Target(fsm, "ScriptSuccess"), kstate, local)
          \/ critical /\ FailTransaction("ScriptFailed")
  /\ UNCHANGED <<inputVars, configVars, selected, odaMethod, cardData, gacVars,
                 host, finalGac, outcome, lastUn>>

-----------------------------------------------------------------------------
(* run_final_generate_ac                                                   *)
HostDecision == IF host.approve THEN "ApprovedOnline" ELSE "DeclinedOnline"

(* Without a CDOL2 the second GENERATE AC is skipped and the host decides. *)
SkipFinalGenerateAc ==
  /\ Enter("gac2") /\ "8D" \notin cardData
  /\ outcome' = HostDecision
  /\ ReturnOk(Target(fsm, "FinalGenerateAcSkipped"), "PostFinalIssuerScripts")
  /\ UNCHANGED <<inputVars, configVars, riskVars, cardVars, gacVars, hostVars, lastUn>>

(* The TVR is stored and CDOL2 built, which fails on an absent object.     *)
StartFinalGenerateAc ==
  /\ Enter("gac2") /\ "8D" \in cardData
  /\ \/ call' = "gac2" /\ UNCHANGED <<fsm, kstate, lastError, local>>
     \/ ReturnError("MissingMandatoryTag")
  /\ UNCHANGED <<inputVars, configVars, riskVars, selected, odaMethod, cardData,
                 gacVars, hostVars, outcome, lastUn>>
  /\ StoreTvr

FinalGenerateAc ==
  /\ call = "gac2"
  /\ \/ /\ finalGac' = "Tc" /\ outcome' = "ApprovedOnline"
        /\ ReturnOk(Target(fsm, "Gac2Tc"), "PostFinalIssuerScripts")
     \/ /\ finalGac' = "Aac" /\ outcome' = "DeclinedOnline"
        /\ ReturnOk(Target(fsm, "Gac2Aac"), "PostFinalIssuerScripts")
  /\ UNCHANGED <<inputVars, configVars, riskVars, cardVars, gacVars, host,
                 scriptResults, lastUn>>

(* A status word that is not success, or an ARQC or AAR: Gac2Failed moves  *)
(* the state machine to Se, and state keeps its value.                     *)
FinalGenerateAcRefused ==
  /\ call = "gac2"
  /\ fsm' = Target(fsm, "Gac2Failed") /\ UNCHANGED kstate
  /\ lastError' \in {"CardRemoved", "InvalidArgument"}
  /\ call' = "none" /\ local' = NoLocal
  /\ UNCHANGED <<inputVars, configVars, evidence, lastUn>>

OnlineNext ==
  \/ ApplyHostResponse \/ OutOfSequence
  \/ StartIssuerAuthentication \/ IssuerAuthentication
  \/ StartScripts \/ NextScript \/ ScriptCommand \/ ScriptProfileMissing
  \/ SkipFinalGenerateAc \/ StartFinalGenerateAc \/ FinalGenerateAc
  \/ FinalGenerateAcRefused \/ OnlineExchangeFails

(* The steps of a krn_process call in progress.                            *)
OnlineSteps == call \in DOMAIN EntryState /\ OnlineNext
=============================================================================
