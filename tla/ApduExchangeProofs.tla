------------------------ MODULE ApduExchangeProofs ------------------------
(***************************************************************************)
(* For every follow-up limit, every command and every card: an exchange is *)
(* typed (so it makes at most MaxFollowups + 1 callbacks), the card        *)
(* processes the command at most once, a retry asks for the length the     *)
(* card indicated, the caller gets an answer it expects, and all this is   *)
(* one CardCommand to the caller.                                          *)
(***************************************************************************)
EXTENDS ApduExchange, TLAPS

(* A command has one of the four forms of ISO/IEC 7816-4.                  *)
FourForms(c) ==
  \/ c.length \in {4, 5}
  \/ c.fifth \in 1..255 /\ c.length \in {5 + c.fifth, 6 + c.fifth}

(* What the loop keeps true: the form of the command it will send next,    *)
(* that its Le is the indicated one, and that the caller's command is      *)
(* still unprocessed while it may be sent again.                           *)
LoopInv ==
  /\ TypeOK /\ FourForms(command) /\ LeIsIndicated
  /\ AtMostOnce
  /\ exchange \in {"idle", "open"} /\ command.ins = "command" => executed = 0
  /\ exchange = "answered" => executed = 1

-----------------------------------------------------------------------------
(* The callers' commands and GET RESPONSE have one of the forms.           *)
LEMMA EncodeForms ==
  ASSUME NEW ins \in {"command", "getResponse"}, NEW lc \in 0..255, NEW le \in 0..256
  PROVE  /\ Encode(ins, lc, le) \in CommandBytes
         /\ Encode(ins, lc, le).ins = ins
         /\ FourForms(Encode(ins, lc, le))
         /\ lc = 0 /\ le # NoLe => LeOf(Encode(ins, lc, le)) = le
PROOF
<1>1. CASE lc = 0
  BY <1>1 DEF Encode, Bytes, CommandBytes, NoLe, FourForms, LeOf
<1>2. CASE lc # 0
  BY <1>2 DEF Encode, Bytes, CommandBytes, NoLe, FourForms, LeOf
<1> QED BY <1>1, <1>2

(* A command of one of the forms can be retried: the retry has one of the  *)
(* forms, is the same instruction and asks for the length given.           *)
LEMMA RetryForms ==
  ASSUME NEW c \in CommandBytes, FourForms(c), NEW le \in 0..255
  PROVE  /\ Retriable(c)
         /\ WithLe(c, le) \in CommandBytes /\ WithLe(c, le).ins = c.ins
         /\ FourForms(WithLe(c, le)) /\ LeOf(WithLe(c, le)) = le
PROOF
<1>1. CASE c.length = 4
  BY <1>1 DEF Retriable, WithLe, WithoutLe, Bytes, CommandBytes, FourForms, LeOf
<1>2. CASE c.length = 5
  BY <1>2 DEF Retriable, WithLe, WithoutLe, Bytes, CommandBytes, FourForms, LeOf
<1>3. CASE c.fifth \in 1..255 /\ c.length = 5 + c.fifth
  BY <1>3 DEF Retriable, WithLe, WithoutLe, Bytes, CommandBytes, FourForms, LeOf
<1>4. CASE c.fifth \in 1..255 /\ c.length = 6 + c.fifth
  BY <1>4 DEF Retriable, WithLe, WithoutLe, Bytes, CommandBytes, FourForms, LeOf
<1> QED BY <1>1, <1>2, <1>3, <1>4 DEF FourForms

(* The action classify makes of a final status word is one the caller of   *)
(* that context has a case for.                                            *)
LEMMA HandlersTotal ==
  \A c \in Contexts, sw \in FinalStatus : Classify(c, sw) \in Handled[c]
PROOF
  BY DEF Contexts, FinalStatus, Handled, Classify, StatusRules, Rule, ScriptGoesOn

(* No action is InvalidArgument, the error of a command without a form.    *)
LEMMA ActionsAreNotErrors ==
  \A c \in Contexts, sw \in FinalStatus : Classify(c, sw) # "InvalidArgument"
PROOF
  BY DEF Contexts, FinalStatus, Classify, StatusRules, Rule

-----------------------------------------------------------------------------
(* While an exchange is open, the caller's command is unprocessed or a GET *)
(* RESPONSE is for a processed one; either way a callback in which the     *)
(* card processes what it is sent leaves the command processed once.       *)
LEMMA OpenCommand ==
  ASSUME LoopInv, exchange = "open"
  PROVE  /\ \/ command.ins = "command" /\ executed = 0
            \/ command.ins = "getResponse" /\ executed = 1
         /\ CardProcesses => executed' = 1
         /\ Transmit => sent' \in 0..(MaxFollowups + 1)
PROOF
<1>1. command.ins \in {"command", "getResponse"}
  BY DEF LoopInv, TypeOK, CommandBytes
<1>2. \/ command.ins = "command" /\ executed = 0
      \/ command.ins = "getResponse" /\ executed = 1
  BY <1>1 DEF LoopInv, AtMostOnce
<1>3. CardProcesses => executed' = 1
  BY <1>2 DEF CardProcesses, LoopInv, TypeOK, CommandBytes
<1>4. Transmit => sent' \in 0..(MaxFollowups + 1)
  BY ExchangeAssumption DEF Transmit, LoopInv, TypeOK
<1> QED BY <1>2, <1>3, <1>4

(* The loop invariant holds before the first exchange.                     *)
LEMMA InitLoop == Init => LoopInv
PROOF
<1> SUFFICES ASSUME Init PROVE LoopInv
  OBVIOUS
<1>1. PICK lc \in DataLengths, le \in LeValues \cup {NoLe} :
        command = Encode("command", lc, le)
  BY DEF Init, CallerCommands
<1>2. lc \in 0..255 /\ le \in 0..256
  BY ExchangeAssumption DEF NoLe
<1>3. command \in CommandBytes /\ command.ins = "command" /\ FourForms(command)
  BY <1>1, <1>2, EncodeForms
<1> QED BY <1>3, ExchangeAssumption
        DEF Init, LoopInv, TypeOK, LeIsIndicated, AtMostOnce

(* A step that leaves the next command alone keeps LoopInv if it counts    *)
(* its callback, knows whether the card processed the command and ends     *)
(* with an answer only if it did.                                          *)
LEMMA SameCommand ==
  ASSUME LoopInv, UNCHANGED <<context, command, indicated>>,
         exchange' \in {"open", "answered", "failed"},
         sent' \in 0..(MaxFollowups + 1), result' # "InvalidArgument",
         executed' \in {0, 1}, exchange' = "answered" => executed' = 1,
         command.ins = "getResponse" => executed' = 1,
         exchange' = "open" /\ command.ins = "command" => executed' = 0
  PROVE  LoopInv'
PROOF
<1>1. TypeOK'
  BY DEF LoopInv, TypeOK
<1>2. FourForms(command')
  BY DEF LoopInv
<1>3. LeIsIndicated'
  BY DEF LoopInv, LeIsIndicated
<1>4. AtMostOnce'
  BY DEF AtMostOnce, LoopInv, TypeOK, CommandBytes
<1> QED BY <1>1, <1>2, <1>3, <1>4 DEF LoopInv

(* So does a step that goes on with another well-formed command.           *)
LEMMA NewCommand ==
  ASSUME LoopInv, context' \in Contexts, exchange' = "open",
         sent' \in 0..(MaxFollowups + 1), result' # "InvalidArgument",
         command' \in CommandBytes, FourForms(command'),
         executed' = IF command'.ins = "command" THEN 0 ELSE 1,
         indicated' \in LeValues \cup {NoLe},
         indicated' # NoLe => LeOf(command') = indicated'
  PROVE  LoopInv'
PROOF
<1>1. TypeOK'
  BY DEF TypeOK
<1>2. LeIsIndicated'
  BY DEF LeIsIndicated
<1>3. AtMostOnce'
  BY DEF AtMostOnce, CommandBytes
<1> QED BY <1>1, <1>2, <1>3 DEF LoopInv

(* Every action keeps LoopInv.                                             *)
LEMMA LoopStep == LoopInv /\ [Next]_vars => LoopInv'
PROOF
<1> SUFFICES ASSUME LoopInv, [Next]_vars PROVE LoopInv'
  OBVIOUS
<1>1. CASE Begin
  <2>1. PICK lc \in DataLengths, le \in LeValues \cup {NoLe} :
          command' = Encode("command", lc, le)
    BY <1>1 DEF Begin, CallerCommands
  <2>2. lc \in 0..255 /\ le \in 0..256
    BY ExchangeAssumption DEF NoLe
  <2>3. command' \in CommandBytes /\ command'.ins = "command" /\ FourForms(command')
    BY <2>1, <2>2, EncodeForms
  <2>4. 0 \in 0..(MaxFollowups + 1)
    BY ExchangeAssumption
  <2> QED BY <1>1, <2>3, <2>4, NewCommand DEF Begin
<1>2. ASSUME NEW sw \in FinalStatus, CallerAnswered(sw) PROVE LoopInv'
  <2>1. result' # "InvalidArgument"
    BY <1>2, ActionsAreNotErrors DEF CallerAnswered, LoopInv, TypeOK
  <2>2. executed' = 1 /\ sent' \in 0..(MaxFollowups + 1)
    BY <1>2, OpenCommand DEF CallerAnswered, Transmit
  <2> QED BY <1>2, <2>1, <2>2, SameCommand DEF CallerAnswered
<1>3. ASSUME NEW sw \in Transport, MoreData(sw) PROVE LoopInv'
  <2>1. sw.length \in LeValues /\ sw.length \in 0..256 /\ sw.length # NoLe
    <3>1. sw.length \in LeValues /\ sw.length \in 0..255
      BY ExchangeAssumption DEF Transport
    <3> QED BY <3>1 DEF NoLe
  <2>2. command' = Encode("getResponse", 0, sw.length)
    BY <1>3 DEF MoreData, GetResponse
  <2>3. /\ command' \in CommandBytes /\ command'.ins = "getResponse"
        /\ FourForms(command') /\ LeOf(command') = sw.length
    <3>1. "getResponse" \in {"command", "getResponse"} /\ 0 \in 0..255 /\ 0 = 0
      OBVIOUS
    <3> QED BY <2>1, <2>2, <3>1, EncodeForms
  <2>4. executed' = 1 /\ sent' \in 0..(MaxFollowups + 1)
    BY <1>3, OpenCommand DEF MoreData, Transmit
  <2>5. UNCHANGED <<exchange, context, result>> /\ exchange = "open"
    BY <1>3 DEF MoreData, Transmit
  <2> QED BY <1>3, <2>1, <2>3, <2>4, <2>5, NewCommand
          DEF MoreData, LoopInv, TypeOK, LeIsIndicated
<1>4. ASSUME NEW sw \in Transport, WrongLe(sw) PROVE LoopInv'
  <2>1. sw.length \in LeValues /\ sw.length \in 0..255
    BY ExchangeAssumption DEF Transport
  <2>2. command \in CommandBytes /\ FourForms(command)
    BY DEF LoopInv, TypeOK
  <2>3. /\ command' \in CommandBytes /\ command'.ins = command.ins
        /\ FourForms(command') /\ LeOf(command') = sw.length
        /\ indicated' = sw.length /\ UNCHANGED <<exchange, context, result, executed>>
    BY SMTT(60), <1>4, <2>1, <2>2, RetryForms DEF WrongLe
  <2>4. exchange = "open" /\ sent' \in 0..(MaxFollowups + 1)
    BY <1>4, OpenCommand DEF WrongLe, Transmit
  <2>5. executed' = IF command'.ins = "command" THEN 0 ELSE 1
    BY <2>3, <2>4, OpenCommand
  <2> QED BY <2>1, <2>3, <2>4, <2>5, NewCommand DEF LoopInv, TypeOK, LeIsIndicated
<1>5. ASSUME NEW error \in CallbackErrors, TransmitFails(error) PROVE LoopInv'
  <2>1. exchange = "open" /\ sent' \in 0..(MaxFollowups + 1)
    BY <1>5, OpenCommand DEF TransmitFails, Transmit
  <2>2. executed' \in {0, 1} /\ (command.ins = "getResponse" => executed' = 1)
    BY <1>5, <2>1, OpenCommand DEF TransmitFails
  <2>3. result' # "InvalidArgument"
    BY <1>5, ErrorsAssumption DEF TransmitFails
  <2> QED BY <1>5, <2>1, <2>2, <2>3, SameCommand DEF TransmitFails
<1>6. CASE TooManyFollowups
  <2>1. sent \in 0..(MaxFollowups + 1) /\ exchange = "open"
    BY <1>6 DEF TooManyFollowups, LoopInv, TypeOK
  <2> QED BY <1>6, <2>1, OpenCommand, SameCommand DEF TooManyFollowups
<1>7. CASE UNCHANGED vars
  BY <1>7 DEF vars, LoopInv, TypeOK, FourForms, LeIsIndicated, LeOf, AtMostOnce
<1> QED BY <1>1, <1>2, <1>3, <1>4, <1>5, <1>6, <1>7 DEF Next, Exchange

(* The loop invariant holds throughout.                                    *)
LEMMA LoopInvariance == Spec => []LoopInv
PROOF
<1> HIDE DEF Init, Next, vars, LoopInv
<1> QED BY InitLoop, LoopStep, PTL DEF Spec

(* An exchange is typed: it makes at most MaxFollowups + 1 callbacks.      *)
THEOREM ExchangeTyped == Spec => []TypeOK
PROOF
<1>1. LoopInv => TypeOK
  BY DEF LoopInv
<1> QED BY <1>1, LoopInvariance, PTL

(* The card processes the caller's command at most once.                   *)
THEOREM CommandProcessedOnce == Spec => []AtMostOnce
PROOF
<1>1. LoopInv => AtMostOnce
  BY DEF LoopInv
<1> QED BY <1>1, LoopInvariance, PTL

(* Every command can be retried, and asks for the indicated length.        *)
THEOREM RetriesAskForIndicated == Spec => []LeIsIndicated
PROOF
<1>1. LoopInv => LeIsIndicated
  BY DEF LoopInv
<1> QED BY <1>1, LoopInvariance, PTL

(* The caller has a case for every answer it gets.                         *)
THEOREM AnswersAreExpected == Spec => []AnswerExpected
PROOF
<1>1. Init => AnswerExpected
  BY DEF Init, AnswerExpected
<1>2. LoopInv /\ AnswerExpected /\ [Next]_vars => AnswerExpected'
  <2> SUFFICES ASSUME LoopInv, AnswerExpected, [Next]_vars, exchange' = "answered"
               PROVE  result' \in Handled[context']
    BY DEF AnswerExpected
  <2>1. ASSUME NEW sw \in FinalStatus, CallerAnswered(sw)
        PROVE  result' \in Handled[context']
    BY <2>1, HandlersTotal DEF CallerAnswered, LoopInv, TypeOK
  <2>2. CASE UNCHANGED vars
    BY <2>2 DEF vars, AnswerExpected
  <2>3. ASSUME exchange = "open", ~\E sw \in FinalStatus : CallerAnswered(sw), Exchange
        PROVE  exchange' # "answered"
    BY <2>3 DEF Exchange, MoreData, WrongLe, TransmitFails, TooManyFollowups
  <2>4. ~Begin
    BY DEF Begin
  <2>5. Exchange => exchange = "open"
    BY DEF Exchange, CallerAnswered, MoreData, WrongLe, TransmitFails, Transmit,
           TooManyFollowups
  <2> QED BY <2>1, <2>2, <2>3, <2>4, <2>5 DEF Next
<1> HIDE DEF Init, Next, vars, AnswerExpected, LoopInv
<1> QED BY <1>1, <1>2, LoopInvariance, PTL DEF Spec

(* An exchange is one CardCommand to its caller, fairness apart.           *)
THEOREM ExchangeIsOneCommand == Spec => Command!CommandSafety
PROOF
<1>1. Init => Command!Init
  BY DEF Init, Command!Init
<1>2. LoopInv /\ LoopInv' /\ [Next]_vars => [Command!Next]_(Command!commandVars)
  <2> SUFFICES ASSUME LoopInv, LoopInv', [Next]_vars
               PROVE  [Command!Next]_(Command!commandVars)
    OBVIOUS
  <2> USE DEF Command!Next, Command!commandVars, Command!Open, Command!Process,
              Command!Answer, Command!Fail
  <2>1. CASE Begin
    BY <2>1 DEF Begin
  <2>2. ASSUME NEW sw \in FinalStatus, CallerAnswered(sw)
        PROVE  [Command!Next]_(Command!commandVars)
    BY <2>2, OpenCommand DEF CallerAnswered, Transmit
  <2>3. ASSUME NEW sw \in Transport, MoreData(sw)
        PROVE  [Command!Next]_(Command!commandVars)
    BY <2>3, OpenCommand DEF MoreData, Transmit
  <2>4. ASSUME NEW sw \in Transport, WrongLe(sw)
        PROVE  [Command!Next]_(Command!commandVars)
    BY <2>4 DEF WrongLe, Transmit
  <2>5. ASSUME NEW error \in CallbackErrors, TransmitFails(error)
        PROVE  [Command!Next]_(Command!commandVars)
    BY <2>5, OpenCommand DEF TransmitFails, Transmit
  <2>6. CASE TooManyFollowups
    BY <2>6 DEF TooManyFollowups
  <2>7. CASE UNCHANGED vars
    BY <2>7 DEF vars
  <2> QED BY <2>1, <2>2, <2>3, <2>4, <2>5, <2>6, <2>7 DEF Next, Exchange
<1> HIDE DEF Init, Next, vars, LoopInv, Command!Init, Command!Next, Command!commandVars
<1> QED BY <1>1, <1>2, LoopInvariance, PTL DEF Spec, Command!CommandSafety
=============================================================================
