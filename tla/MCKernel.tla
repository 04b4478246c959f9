------------------------------ MODULE MCKernel ------------------------------
(***************************************************************************)
(* Small instances of Kernel for TLC: profile sets, cards and hosts chosen *)
(* so that every branch of the transaction flow is taken by some run.      *)
(***************************************************************************)
EXTENDS Kernel

NoBits == [kind \in CodeKinds |-> {}]

(* Denies an expired application, goes online on a failed authentication   *)
(* or an exceeded floor limit, and approves offline otherwise.             *)
Lenient ==
  [interfaces |-> Interfaces,
   tac |-> [denial  |-> {"ExpiredApplication"},
            online  |-> {"CdaFailed", "FloorLimitExceeded", "RandomSelection"},
            default |-> {"FloorLimitExceeded"}],
   iac |-> NoBits,
   taa |-> [unableOnlineFallback |-> "Aac", onlineCapableDefault |-> "Tc",
            offlineOnlyDefault |-> "Tc"],
   critical |-> {}, cda |-> TRUE, cdcvm |-> FALSE, defaultCdol1 |-> FALSE,
   relay |-> "none", txnLimit |-> 3, cvmLimit |-> 1, floor |-> 1, trmFloor |-> 1,
   random |-> FALSE, velocity |-> {}]

(* Goes online by default and denies a failed CDA; instruction 1 is        *)
(* critical in an issuer script.                                           *)
OnlineFirst ==
  [Lenient EXCEPT
     !.tac = [denial |-> {"ExpiredApplication", "CdaFailed"},
              online |-> {}, default |-> {}],
     !.taa.onlineCapableDefault = "Arqc", !.critical = {1}, !.defaultCdol1 = TRUE]

(* Relay resistance, device CVM, random selection and velocity checking.   *)
Guarded ==
  [OnlineFirst EXCEPT !.relay = "TryAgain", !.cdcvm = TRUE, !.random = TRUE,
                      !.velocity = VelocityBits, !.trmFloor = 2, !.tac = NoBits,
                      !.interfaces = {"contactless"}]

ContactLow   == [interface |-> "contact", onlineCapable |-> TRUE, amount |-> 1]
ContactHigh  == [ContactLow EXCEPT !.amount = 2]
Offline(p)   == [p EXCEPT !.onlineCapable = FALSE]
Contactless(amount) ==
  [interface |-> "contactless", onlineCapable |-> TRUE, amount |-> amount]

Mandatory == MandatoryForRestrictions \cup {"8E", "8F"}
Iac       == [NoBits EXCEPT !["denial"] = {"CvmNotSuccessful"}]
Cvm(bits, ok) == [bits |-> bits, successful |-> ok]
AnyCvm    == {Cvm({}, TRUE), Cvm({"CvmNotSuccessful"}, FALSE)}
GoodCvm   == {Cvm({"OnlinePinEntered"}, FALSE)}

Template(phase, commands) == [phase |-> phase, commands |-> commands]
Response(approve, arpc, scripts) ==
  [approve |-> approve, arpc |-> arpc, scripts |-> scripts]
OneResponse == {Response(FALSE, TRUE, <<>>)}
ScriptResponses ==
  {Response(TRUE, TRUE, << Template("72", <<2>>), Template("71", <<1, 2>>),
                           Template("72", <<1>>) >>),
   Response(FALSE, FALSE, << Template("71", <<2>>), Template("71", <<1>>) >>),
   Response(FALSE, TRUE, <<>>)}

(* Card phase: four AIDs, every authentication method, every decision of   *)
(* terminal action analysis, amounts within and above the limits.          *)
NoCda          == [Lenient EXCEPT !.cda = FALSE, !.interfaces = {"contact"}]
CardProfiles   == << << Lenient, OnlineFirst, NoCda, Guarded >> >>
CardParams     == {ContactLow, Offline(ContactHigh)} \cup {Contactless(a) : a \in {1, 2, 4}}
CardAips       == {{}, {"dda"}, {"cda"}, {"sda", "cda"}}
CardRecords    == {Mandatory \cup {"8C", "9F0E"}, Mandatory \cup {"9F6C"}, {"8D"}}
CardInputs     == {{"trmSample"}, {"offlineCounter"}}
CardRestrictions == {{}, {"ExpiredApplication"}}
OneError       == {"CardRemoved"}
Uns            == {"un1", "un2"}
OneUn          == {"un1"}

(* Online completion.                                                      *)
OnlineProfiles == << << OnlineFirst >> >>
OnlineRecords  == {Mandatory, Mandatory \cup {"8D"}}
TwoErrors      == {"CardRemoved", "InternalError"}

(* Profile sets that differ in length and in the critical instructions.    *)
ReloadProfiles == << << Lenient, OnlineFirst >>, << OnlineFirst >>,
                     << [OnlineFirst EXCEPT !.critical = {2}] >> >>

NoInputs == {}
ContactOrOffline == {ContactLow, Offline(ContactLow)}
CdaOnly         == {{"cda"}}
NoRestriction   == {{}}
=============================================================================
