---------------------------- MODULE ApduExchange ----------------------------
(***************************************************************************)
(* One exchange with the card: transmit_apdu_with_followups sends a        *)
(* command, follows 61xx up with GET RESPONSE and 6Cxx with the Le the     *)
(* card indicates, and hands any other answer to the caller, which         *)
(* classifies it again by the command it sent (sw.rs, ffi.rs).             *)
(***************************************************************************)
EXTENDS Naturals

CONSTANTS
  MaxFollowups,   \* MAX_APDU_FOLLOWUPS, 4 in the code
  DataLengths,    \* data lengths (Lc) of the commands tried; 0: no data
  LeValues,       \* values of Le and of the xx of 61xx and 6Cxx
  CallbackErrors  \* errors of the transmit callback, or of its answer

ASSUME ExchangeAssumption ==
  /\ MaxFollowups \in Nat
  /\ DataLengths \subseteq 0..255 /\ LeValues \subseteq 0..255
(* The error of an exchange the loop itself gives up is told apart from    *)
(* the errors the callback reports.                                        *)
ASSUME ErrorsAssumption == "InvalidArgument" \notin CallbackErrors

(* Where a command has no Le byte, and no other byte value.                *)
NoLe == 256

(* A command as retry_apdu_with_le sees it: its length, its fifth byte     *)
(* (Lc or Le) and its last one.  ins tells GET RESPONSE from the caller's. *)
CommandBytes ==
  [ins : {"command", "getResponse"}, length : Nat, fifth : 0..256, last : 0..256]

Bytes(ins, length, fifth, last) ==
  [ins |-> ins, length |-> length, fifth |-> fifth, last |-> last]

Encode(ins, lc, le) ==
  Bytes(ins, 4 + (IF lc = 0 THEN 0 ELSE 1 + lc) + (IF le = NoLe THEN 0 ELSE 1),
        IF lc = 0 THEN le ELSE lc, le)

GetResponse(le) == Encode("getResponse", 0, le)

(* The builders of apdu.rs encode their commands; what                     *)
(* validate_script_command_apdu accepts from the host has the same forms.  *)
CallerCommands ==
  {Encode("command", lc, le) : lc \in DataLengths, le \in LeValues \cup {NoLe}}

(* The form of a command, by ISO/IEC 7816-4: where its Le is, if any.      *)
LeOf(c) == IF c.length = 5 THEN c.fifth
           ELSE IF c.length > 5 /\ c.length = 6 + c.fifth THEN c.last ELSE NoLe

(* No command there is for a form retry_apdu_with_le does not know.        *)
Retriable(c) ==
  c.length \in {4, 5} \/ (c.length > 5 /\ c.length \in {5 + c.fifth, 6 + c.fifth})

WithoutLe(c) == c.length = 4 \/ (c.length > 5 /\ c.length = 5 + c.fifth)

(* Mutant: the retry is rebuilt from the caller's command.                 *)
WithLe_Original(c, le) ==
  Bytes("command", IF WithoutLe(c) THEN c.length + 1 ELSE c.length,
        IF c.length <= 5 THEN le ELSE c.fifth, le)

(* Mutant: the Le of a command with data is appended after the old one.    *)
WithLe_Appends(c, le) ==
  Bytes(c.ins, IF c.length = 5 THEN 5 ELSE c.length + 1,
        IF c.length <= 5 THEN le ELSE c.fifth, le)

(* retry_apdu_with_le: append the Le or replace the one that is there.     *)
WithLe(c, le) ==
  Bytes(c.ins, IF WithoutLe(c) THEN c.length + 1 ELSE c.length,
        IF c.length <= 5 THEN le ELSE c.fifth, le)

-----------------------------------------------------------------------------
(* Status words, the ones no rule tells apart as one.                      *)
FinalStatus == {"9000", "6283", "62xx", "63Cx", "63xx", "6985", "69xx",
                "6A82", "6A83", "6Axx", "other"}
Transport   == [kind : {"61", "6C"}, length : LeValues]

(* classify: the status words a command's context singles out with the     *)
(* action for them, and the action for any other.                          *)
Rule(singled, action, otherwise) ==
  [singled |-> singled, action |-> action, otherwise |-> otherwise]

Warnings == {"6283", "62xx", "63Cx", "63xx"}
ScriptGoesOn == {"Success", "ContinueAfterScriptWarning",
                 "ContinueAfterNonCriticalScriptFailure"}

StatusRules ==
  [SelectPse  |-> Rule({"6A82", "6283"}, "FallbackToDirectAid", "Fail"),
   SelectAid  |-> Rule({"6A82", "6283"}, "TryNextAid", "TryNextAid"),
   Gpo        |-> Rule({"6985"}, "Fail", "Fail"),
   ReadRecord |-> Rule({"6A83"}, "EndOfRecords", "ContinueWithTvr"),
   GenerateAc |-> Rule({}, "Fail", "Fail"),
   InternalAuthenticate |-> Rule({}, "Fail", "Fail"),
   ExternalAuthenticate |-> Rule({}, "ContinueWithTvr", "ContinueWithTvr"),
   IssuerScript |-> Rule(Warnings, "ContinueAfterScriptWarning",
                         "ContinueAfterNonCriticalScriptFailure"),
   CriticalIssuerScript |-> Rule(Warnings, "ContinueAfterScriptWarning", "Fail")]

Contexts == DOMAIN StatusRules

Classify(ctx, sw) ==
  IF sw = "9000" THEN "Success"
  ELSE IF sw \in StatusRules[ctx].singled THEN StatusRules[ctx].action
  ELSE StatusRules[ctx].otherwise

(* The actions the caller of each context has a case for; its match sends  *)
(* the others to an arm for what should not come.                          *)
Handled ==
  [SelectPse  |-> {"Success", "FallbackToDirectAid", "Fail"},
   SelectAid  |-> {"Success", "TryNextAid", "Fail"},
   Gpo        |-> {"Success", "Fail"},
   ReadRecord |-> {"Success", "EndOfRecords", "ContinueWithTvr", "Fail"},
   GenerateAc |-> {"Success", "Fail"},
   InternalAuthenticate |-> {"Success", "Fail"},
   ExternalAuthenticate |-> {"Success", "ContinueWithTvr", "Fail"},
   IssuerScript         |-> ScriptGoesOn \cup {"Fail"},
   CriticalIssuerScript |-> ScriptGoesOn \cup {"Fail"}]

-----------------------------------------------------------------------------
VARIABLES
  exchange,   \* "idle", "open", "answered" or "failed"
  context,    \* the ApduContext of the call
  command,    \* current_command
  sent,       \* callbacks made
  answer,     \* status word handed to the caller
  result,     \* what the caller made of it, or the error of the call
  executed,   \* how often the card has processed the caller's command
  indicated   \* the Le the card indicated for current_command

vars == <<exchange, context, command, sent, answer, result, executed, indicated>>

Init ==
  /\ exchange = "idle" /\ context \in Contexts /\ command \in CallerCommands
  /\ sent = 0 /\ executed = 0
  /\ answer = "none" /\ result = "none" /\ indicated = NoLe

(* The driver is done with one exchange and starts another.                *)
Begin ==
  /\ exchange # "open"
  /\ exchange' = "open"
  /\ context' \in Contexts /\ command' \in CallerCommands
  /\ sent' = 0 /\ executed' = 0
  /\ answer' = "none" /\ result' = "none" /\ indicated' = NoLe

(* A callback is made while the loop has an iteration left.                *)
Transmit == exchange = "open" /\ sent <= MaxFollowups /\ sent' = sent + 1

(* The card processes the caller's command, not a GET RESPONSE for it.     *)
CardProcesses ==
  executed' = executed + IF command.ins = "command" THEN 1 ELSE 0

CallerAnswered(sw) ==
  /\ Transmit /\ CardProcesses
  /\ exchange' = "answered" /\ answer' = sw
  /\ result' = Classify(context, sw)
  /\ UNCHANGED <<context, command, indicated>>

MoreData(sw) ==
  /\ sw.kind = "61"
  /\ Transmit /\ CardProcesses
  /\ command' = GetResponse(sw.length) /\ indicated' = sw.length
  /\ UNCHANGED <<exchange, context, answer, result>>

(* A card that indicates another Le has not processed the command.         *)
WrongLe(sw) ==
  /\ sw.kind = "6C"
  /\ Transmit
  /\ IF Retriable(command)
     THEN /\ command' = WithLe(command, sw.length) /\ indicated' = sw.length
          /\ UNCHANGED <<exchange, result>>
     ELSE /\ exchange' = "failed" /\ result' = "InvalidArgument"
          /\ UNCHANGED <<command, indicated>>
  /\ UNCHANGED <<context, answer, executed>>

(* The callback fails, answers with less than a status word or with more   *)
(* than its buffer: the command, or the answer to it, may have been lost.  *)
TransmitFails(error) ==
  /\ Transmit
  /\ CardProcesses \/ UNCHANGED executed
  /\ exchange' = "failed" /\ result' = error
  /\ UNCHANGED <<context, command, answer, indicated>>

(* Mutant: the last follow-up is handed to the caller.                     *)
TooManyFollowups_Answers ==
  /\ exchange = "open" /\ sent > MaxFollowups
  /\ exchange' = "answered" /\ result' = "Success"
  /\ UNCHANGED <<context, command, sent, answer, executed, indicated>>

(* The loop has run out of iterations.                                     *)
TooManyFollowups ==
  /\ exchange = "open" /\ sent > MaxFollowups
  /\ exchange' = "failed" /\ result' = "LengthOverflow"
  /\ UNCHANGED <<context, command, sent, answer, executed, indicated>>

Exchange ==
  \/ \E sw \in FinalStatus : CallerAnswered(sw)
  \/ \E sw \in Transport : MoreData(sw) \/ WrongLe(sw)
  \/ \E error \in CallbackErrors : TransmitFails(error)
  \/ TooManyFollowups

Next == Begin \/ Exchange

(* The callback returns (KRN-API-006 gives it a timeout), so an exchange   *)
(* in progress goes on.                                                    *)
Spec == Init /\ [][Next]_vars /\ WF_vars(Exchange)

-----------------------------------------------------------------------------
TypeOK ==
  /\ exchange \in {"idle", "open", "answered", "failed"}
  /\ context \in Contexts
  /\ command \in CommandBytes
  /\ sent \in 0..(MaxFollowups + 1) /\ executed \in Nat
  /\ indicated \in LeValues \cup {NoLe}

(* A command is sent again only while the card has not processed it: over  *)
(* any mix of follow-ups and lost answers an exchange makes the card do    *)
(* what it was asked at most once (an issuer script or a GENERATE AC that  *)
(* is processed twice changes the card's state twice).                     *)
AtMostOnce == executed <= 1 /\ (command.ins = "getResponse" => executed = 1)

(* The length the card indicates is the one the next command asks for,     *)
(* whatever the form of the command, and no exchange ends for want of a    *)
(* form to put it in.                                                      *)
LeIsIndicated ==
  /\ indicated # NoLe => LeOf(command) = indicated
  /\ result # "InvalidArgument"

(* The caller has a case for every answer it gets: no follow-up and no     *)
(* action of another command reaches it.                                   *)
AnswerExpected == exchange = "answered" => result \in Handled[context]

Command == INSTANCE CardCommand WITH
             phase <- exchange, processed <- executed

(* transmit_apdu_with_followups is one processed command to its caller.    *)
ImplementsCommand == Command!CommandSpec

(* What KRN-APDU-003 asks for 6Cxx, "Retry once with indicated Le": a      *)
(* command sent twice is not to be sent a third time.                      *)
RetriedOnce == exchange = "open" /\ command.ins = "command" => sent <= 1
=============================================================================
