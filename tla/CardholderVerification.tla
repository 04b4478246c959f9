----------------------- MODULE CardholderVerification -----------------------
(***************************************************************************)
(* The walk over the card's CVM list (cvm.rs, evaluate), what              *)
(* run_cvm_processing stores of its outcome, and the check of the          *)
(* contactless CVM limit that reads it back (ffi.rs).                      *)
(***************************************************************************)
EXTENDS Naturals, Sequences

CONSTANTS
  CvmLists,     \* parsed CVM lists: amounts X and Y, and the rules
  Contexts      \* what the transaction, the terminal and the host contribute

MaxRules == 64  \* MAX_CVM_RULES: parse_cvm_list rejects a longer list

(* The offline PIN methods, and the PED handle each of them takes.         *)
PinHandle ==
  [plaintextPin  |-> "plaintext",  plaintextPinAndSignature  |-> "plaintext",
   encipheredPin |-> "enciphered", encipheredPinAndSignature |-> "enciphered"]
PinMethods       == DOMAIN PinHandle
SignatureMethods == {"signature", "plaintextPinAndSignature", "encipheredPinAndSignature"}
Methods == PinMethods \cup SignatureMethods
           \cup {"onlinePin", "noCvm", "fail", "schemeSpecific", "unknown"}

TransactionTypes == {"nonCash", "unattendedCash", "manualCash", "cashback"}
Conditions == TransactionTypes
              \cup {"always", "supported", "underX", "overX", "underY", "overY", "other"}

Rules == [method : Methods, condition : Conditions, goOn : BOOLEAN]
Lists == [x : Nat, y : Nat, rules : Seq(Rules)]

(* cvm_capabilities and cvm_pin_handles of the context; device is whether  *)
(* the profile and the card's CTQ say that the device verified its holder. *)
Capabilities == {"offlinePin", "onlinePin", "signature", "device"}
CvmContexts ==
  [amount : Nat, sameCurrency : BOOLEAN, type : TransactionTypes,
   contactless : BOOLEAN, capabilities : SUBSET Capabilities,
   handles : SUBSET {"plaintext", "enciphered"}, device : BOOLEAN, cvmLimit : Nat]

Byte3 == {"CvmNotSuccessful", "UnrecognizedCvm", "PinPadNotPresent",
          "PinNotEntered", "OnlinePinEntered"}
NoResults == [method |-> "none", condition |-> "none", status |-> "none"]

ASSUME ListAssumption ==
  /\ CvmLists \subseteq Lists /\ \A l \in CvmLists : Len(l.rules) <= MaxRules
  /\ Contexts \subseteq CvmContexts

VARIABLES
  list, context,  \* the inputs
  position,       \* of the rule the loop is at
  observed,       \* selected_tvr_bit: none, or the bit of one rule passed over
  results,        \* tag 9F34
  tvr,            \* bits of TVR byte 3 that the step sets
  decision        \* of the contactless CVM limit

cvmVars == <<list, context, position, observed, results, tvr, decision>>
inputs == <<list, context>>

-----------------------------------------------------------------------------
Supports(capability) == capability \in context.capabilities
OfflinePinSupported  == Supports("offlinePin") \/ context.handles # {}
DevicePerformed == context.contactless /\ (Supports("device") \/ context.device)

(* terminal_supports_method, of condition code 3.                          *)
TerminalSupports(method) ==
  \/ method \in {"noCvm", "fail"}
  \/ method \in PinMethods /\ OfflinePinSupported
  \/ method \in {"onlinePin", "signature"} /\ Supports(method)
  \/ method = "schemeSpecific" /\ context.contactless

AmountIs(condition) ==
  \/ condition = "underX" /\ context.amount < list.x
  \/ condition = "overX"  /\ context.amount > list.x
  \/ condition = "underY" /\ context.amount < list.y
  \/ condition = "overY"  /\ context.amount > list.y

(* condition_matches                                                       *)
Applies(rule) ==
  \/ rule.condition \in {"always", context.type}
  \/ rule.condition = "supported" /\ TerminalSupports(rule.method)
  \/ context.sameCurrency /\ AmountIs(rule.condition)

(* action_for_method finds an action.                                      *)
Available(method) ==
  \/ method = "noCvm"
  \/ method \in {"onlinePin", "signature"} /\ Supports(method)
  \/ /\ method \in PinMethods /\ OfflinePinSupported
     /\ PinHandle[method] \in context.handles
     /\ method \in SignatureMethods => Supports("signature")
  \/ method = "schemeSpecific" /\ DevicePerformed

(* cvm_unavailable_bit                                                     *)
UnavailableBit(method) ==
  IF method = "unknown" THEN {"UnrecognizedCvm"}
  ELSE IF \/ method = "onlinePin" /\ ~Supports(method)
          \/ method \in PinMethods /\ ~OfflinePinSupported
  THEN {"PinPadNotPresent"}
  ELSE IF method \in PinMethods /\ PinHandle[method] \notin context.handles
  THEN {"PinNotEntered"} ELSE {}

Results(rule, status) ==
  [method |-> rule.method, condition |-> rule.condition, status |-> status]

-----------------------------------------------------------------------------
CvmInit ==
  /\ list \in CvmLists /\ context \in Contexts
  /\ position = 1 /\ observed = {} /\ tvr = {}
  /\ results = NoResults /\ decision = "none"

Walking == results = NoResults
Rule    == list.rules[position]
AtRule  == Walking /\ position <= Len(list.rules)

(* The rule's condition does not hold.                                     *)
SkipRule ==
  /\ AtRule /\ ~Applies(Rule)
  /\ position' = position + 1
  /\ UNCHANGED <<inputs, observed, results, tvr, decision>>

(* Mutant: a rule without a bit clears the one of an earlier rule.         *)
Observe_Overwrites == UnavailableBit(Rule.method)

(* The bit of an earlier rule is kept unless this one has a bit too.       *)
Observe == IF UnavailableBit(Rule.method) # {} THEN UnavailableBit(Rule.method)
           ELSE observed

(* Mutant: bit 7 of the rule's code is not asked.                          *)
PassOver_IgnoresGoOn ==
  /\ AtRule /\ Applies(Rule) /\ ~Available(Rule.method)
  /\ position' = position + 1 /\ observed' = Observe
  /\ UNCHANGED <<inputs, results, tvr, decision>>

(* The terminal cannot perform the method, and the rule lets it go on.     *)
PassOver ==
  /\ AtRule /\ Applies(Rule) /\ ~Available(Rule.method) /\ Rule.goOn
  /\ position' = position + 1 /\ observed' = Observe
  /\ UNCHANGED <<inputs, results, tvr, decision>>

(* It does not: cvm_failed.                                                *)
FailRule ==
  /\ AtRule /\ Applies(Rule) /\ ~Available(Rule.method) /\ ~Rule.goOn
  /\ observed' = Observe
  /\ tvr' = IF observed' # {} THEN observed' ELSE {"CvmNotSuccessful"}
  /\ results' = Results(Rule, "failed")
  /\ UNCHANGED <<inputs, position, decision>>

SelectRule ==
  /\ AtRule /\ Applies(Rule) /\ Available(Rule.method)
  /\ tvr' = observed \cup IF Rule.method = "onlinePin" THEN {"OnlinePinEntered"} ELSE {}
  /\ results' = Results(Rule, "successful")
  /\ UNCHANGED <<inputs, position, observed, decision>>

(* No rule is left: [3F, 00, 01].                                          *)
EndOfList ==
  /\ Walking /\ position > Len(list.rules)
  /\ tvr' = {"CvmNotSuccessful"}
  /\ results' = [method |-> "schemeSpecific", condition |-> "always", status |-> "failed"]
  /\ UNCHANGED <<inputs, position, observed, decision>>

Satisfied == results.status = "successful" \/ (context.contactless /\ context.device)
OverCvmLimit == context.cvmLimit # 0 /\ context.amount > context.cvmLimit

(* The CVM limit of evaluate_contactless_limits.                           *)
CheckLimit ==
  /\ ~Walking /\ context.contactless /\ decision = "none"
  /\ decision' = IF OverCvmLimit /\ ~Satisfied THEN "cvmRequired" ELSE "allowed"
  /\ UNCHANGED <<inputs, position, observed, results, tvr>>

Walk == SkipRule \/ PassOver \/ FailRule \/ SelectRule \/ EndOfList
CvmNext == Walk \/ CheckLimit

(* The walk asks nobody anything, so it goes on.                           *)
CvmSpec == CvmInit /\ [][CvmNext]_cvmVars /\ WF_cvmVars(Walk)

-----------------------------------------------------------------------------
TypeOK ==
  /\ list \in CvmLists /\ context \in Contexts
  /\ position \in 1..(Len(list.rules) + 1)
  /\ observed \subseteq Byte3 /\ tvr \subseteq Byte3
  /\ results = NoResults \/ results \in
       [method : Methods, condition : Conditions, status : {"successful", "failed"}]
  /\ decision \in {"none", "cvmRequired", "allowed"}

PassedOver(rule) == Applies(rule) /\ ~Available(rule.method)

(* The card's priorities are kept: the walk leaves no rule behind that the *)
(* terminal could have performed or that forbids going on, and it succeeds *)
(* with the method of a rule that applies and that can be performed.       *)
CardPriorityKept ==
  /\ \A i \in 1..(position - 1) :
       Applies(list.rules[i]) => PassedOver(list.rules[i]) /\ list.rules[i].goOn
  /\ results.status = "successful" =>
       /\ position <= Len(list.rules)
       /\ Applies(Rule) /\ Available(Rule.method) /\ results.method = Rule.method

(* TVR byte 3 shows that something went wrong: it is not empty after a     *)
(* failed verification, nor after a rule that the terminal did not know or *)
(* lacked a PIN pad or a PIN for.                                          *)
FailureShown ==
  /\ results.status = "failed" => tvr # {}
  /\ ~Walking /\ tvr = {} =>
       \A i \in 1..(position - 1) :
         PassedOver(list.rules[i]) => UnavailableBit(list.rules[i].method) = {}

(* Every list, however long, leads evaluate to a result.                   *)
Decided == <>(results # NoResults)

(* KRN-CLESS-003 and the limit table: above the contactless CVM limit a    *)
(* cardholder verification is required, and no CVM is none.                *)
VerifiedAboveLimit ==
  decision = "allowed" /\ OverCvmLimit => results.method # "noCvm" \/ context.device

(* The unit test unrecognized_cvm_sets_tvr_even_when_next_rule_succeeds:   *)
(* a method nobody knows is told to the issuer.                            *)
UnrecognizedShown ==
  ~Walking => \A i \in 1..(position - 1) :
    PassedOver(list.rules[i]) /\ list.rules[i].method = "unknown" =>
      "UnrecognizedCvm" \in tvr
=============================================================================
