------------------------ MODULE TransactionLifecycle ------------------------
(***************************************************************************)
(* What the kernel promises its host about one transaction, without        *)
(* saying how: it is prepared, talks to the card, perhaps waits for the    *)
(* issuer, and is decided once.  The decision (verdict) is what            *)
(* krn_get_final_outcome returns; it never changes until the transaction   *)
(* is cleared, and no failure produces one.                                *)
(***************************************************************************)
CONSTANTS
  OfflineVerdicts,  \* decisions taken with the card alone
  OnlineVerdicts    \* decisions that need the issuer's answer

VARIABLES phase, verdict

lifecycleVars == <<phase, verdict>>

Undecided == "none"
Phases == {"idle", "ready", "card", "issuer", "answered", "decided",
           "complete", "failed"}

LifecycleTypeOK ==
  /\ phase \in Phases
  /\ verdict \in {Undecided} \cup OfflineVerdicts \cup OnlineVerdicts

Init == phase = "idle" /\ verdict = Undecided

(* The host clears the context, or prepares a transaction, while no call   *)
(* is in progress.                                                         *)
Clear   == phase # "card" /\ phase' = "idle" /\ verdict' = Undecided
Prepare == phase # "card" /\ phase' = "ready" /\ verdict' = Undecided

Start   == phase = "ready" /\ phase' = "card" /\ UNCHANGED verdict

DecideWithCard ==
  /\ phase = "card" /\ phase' = "complete"
  /\ verdict' \in OfflineVerdicts

AskIssuer == phase = "card" /\ phase' = "issuer" /\ UNCHANGED verdict
Answer    == phase = "issuer" /\ phase' = "answered" /\ UNCHANGED verdict

DecideOnline ==
  /\ phase = "answered" /\ phase' = "decided"
  /\ verdict' \in OnlineVerdicts

(* Post-final issuer scripts are done.                                     *)
Complete == phase = "decided" /\ phase' = "complete" /\ UNCHANGED verdict

Fail == phase' = "failed" /\ UNCHANGED verdict

Next ==
  \/ Clear \/ Prepare \/ Start \/ DecideWithCard \/ AskIssuer \/ Answer
  \/ DecideOnline \/ Complete \/ Fail

(* A transaction that reached the card does not stay there.                *)
LeaveCard == phase = "card" /\ (DecideWithCard \/ AskIssuer \/ Fail)

Safety == Init /\ [][Next]_lifecycleVars
Spec   == Safety /\ WF_lifecycleVars(LeaveCard)
=============================================================================
