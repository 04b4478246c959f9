----------------------------- MODULE CardCommand -----------------------------
(***************************************************************************)
(* What a caller of transmit_apdu_with_followups relies on: the command it *)
(* hands over reaches the card at most once, an answer is the answer to a  *)
(* command the card has processed, and the call ends.                      *)
(***************************************************************************)
VARIABLES
  phase,     \* "idle", "open" while the call lasts, "answered" or "failed"
  processed  \* how often the card has processed the command

commandVars == <<phase, processed>>

Init == phase = "idle" /\ processed = 0

Open == phase # "open" /\ phase' = "open" /\ processed' = 0

(* The card processes the command, whether or not its answer arrives.      *)
Process ==
  /\ phase = "open" /\ processed = 0
  /\ processed' = 1
  /\ phase' \in {"open", "answered", "failed"}

Answer == phase = "open" /\ processed = 1 /\ phase' = "answered" /\ UNCHANGED processed
Fail   == phase = "open" /\ phase' = "failed" /\ UNCHANGED processed

Next == Open \/ Process \/ Answer \/ Fail

CommandSafety == Init /\ [][Next]_commandVars

(* An open call does not stay open.                                        *)
Close == phase = "open" /\ Next /\ phase' # "open"
CommandSpec == CommandSafety /\ WF_commandVars(Close)
=============================================================================
