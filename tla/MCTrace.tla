------------------------------ MODULE MCTrace ------------------------------
(***************************************************************************)
(* TracePack for TLC: cases of one and two steps, with and without a       *)
(* stream, two of the same name, one each with a wrong count, without the  *)
(* assertion, with a fixture value at its head and in its answer, and with *)
(* Format 1; the policies of the ABI and one of a support session.         *)
(***************************************************************************)
EXTENDS TracePack

Step(command, response, context) ==
  [command |-> command, response |-> response, context |-> context]
WithFixtures(form, objects, fixtures) ==
  [form |-> form, objects |-> objects, fixtures |-> fixtures]
Answer(form, objects) == WithFixtures(form, objects, {})
Case(id, steps, streams) ==
  [id |-> id, steps |-> steps, streams |-> streams, asserted |-> TRUE, raw |-> {},
   expectedSteps |-> Len(steps), expectedStreams |-> Len(streams)]

Plain      == [verify |-> FALSE, data |-> FALSE]
WithData   == [verify |-> FALSE, data |-> TRUE]
Verify     == [verify |-> TRUE, data |-> TRUE]
PinStatus  == [verify |-> TRUE, data |-> FALSE]
Cryptogram == Answer("77", GacObjects)

GenerateAc ==
  << Step(WithData, WithFixtures("plain", {"5A", "57"}, {"5A", "57"}), "generic"),
     Step(WithData, Cryptogram, "generateAc") >>
HostData   == << Answer("plain", {"91", "86", "9F18", "99"}) >>
Reset(answer) == << Step(Plain, answer, "generic") >>
Empty      == Reset(Answer("empty", {}))

SomeCases ==
  << Case("gac", GenerateAc, <<>>),
     Case("script", Empty, HostData),
     Case("gac", << Step(PinStatus, Answer("80", GacMandatory), "generateAc") >>, <<>>),
     Case("odd", Reset(Answer("80", {"9F4B"})), <<>>),
     Case("pin", << Step(Verify, Answer("empty", {}), "generic") >>, <<>>),
     Case("none", <<>>, HostData),
     Case("lost", << Step(Plain, Answer("plain", {"82"}), "generateAc") >>, <<>>),
     [Case("count", Empty, <<>>) EXCEPT !.expectedSteps = 2],
     [Case("head", Empty, <<>>) EXCEPT !.asserted = FALSE],
     [Case("raw", Empty, <<>>) EXCEPT !.raw = {"identity"}],
     Case("seen", Reset(WithFixtures("plain", {"82"}, {"82"})), <<>>) >>

Support ==
  [mode |-> "development", support |-> TRUE, fullApdu |-> TRUE,
   track2Hash |-> TRUE, cryptograms |-> TRUE]
SomePolicies == {Production, CertificationSupport, Support}
=============================================================================
