------------------------------- MODULE MCCvm -------------------------------
(***************************************************************************)
(* CardholderVerification for TLC: lists of up to three of the rules below *)
(* on terminals with and without PIN pad, PIN, signature and device CVM.   *)
(***************************************************************************)
EXTENDS CardholderVerification, SequencesExt

R(method, condition, goOn) == [method |-> method, condition |-> condition, goOn |-> goOn]
SomeRules ==
  {R("plaintextPin", "supported", TRUE), R("encipheredPinAndSignature", "always", TRUE),
   R("encipheredPin", "nonCash", FALSE), R("onlinePin", "overX", FALSE),
   R("signature", "underY", TRUE), R("unknown", "always", TRUE),
   R("schemeSpecific", "supported", TRUE), R("fail", "overY", FALSE),
   R("noCvm", "cashback", TRUE)}
SomeLists == {[x |-> 2, y |-> 2, rules |-> r] : r \in BoundedSeq(SomeRules, 3)}

Terminal(capabilities, handles) == [capabilities |-> capabilities, handles |-> handles]
Terminals ==
  {Terminal({}, {}), Terminal({"offlinePin"}, {}), Terminal({"onlinePin"}, {"plaintext"}),
   Terminal({"signature"}, {"enciphered"}), Terminal({"device"}, {})}

SomeContexts ==
  {[amount |-> a, sameCurrency |-> a # 2, type |-> type, contactless |-> c,
    capabilities |-> t.capabilities, handles |-> t.handles,
    device |-> c /\ a = 1, cvmLimit |-> 1] :
      a \in 1..3, type \in {"nonCash", "cashback"}, c \in BOOLEAN, t \in Terminals}
=============================================================================
