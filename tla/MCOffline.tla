----------------------------- MODULE MCOffline -----------------------------
(***************************************************************************)
(* OfflineAuthentication for TLC: cards that answer every READ RECORD with *)
(* any of the bodies below, so that keys, certificates and signatures come *)
(* in any order, twice, in conflict or not at all.                         *)
(***************************************************************************)
EXTENDS OfflineAuthentication

E(sfi, first, last, auth) == [sfi |-> sfi, first |-> first, last |-> last, auth |-> auth]
Gpo(format, aip, afl) == [format |-> format, aip |-> aip, afl |-> afl]
SomeAips == [all |-> Methods, dda |-> {"Dda"}, sda |-> {"Sda"}, cda |-> {"Cda"}, none |-> {}]
Afls == { << E(1, 1, 3, 2) >>, << E(11, 1, 1, 1), E(1, 2, 2, 0) >>,
          << E(1, 2, 2, 0), E(2, 2, 3, 1) >>,
          << E(1, 1, 2, 3) >>, << E(1, 1, 2, 1), E(1, 2, 2, 0) >>, <<>> }
SomeGpos == {Gpo(format, aip, afl) :
               format \in {"77", "80"}, aip \in DOMAIN SomeAips, afl \in Afls}

Object(tag, value) == [tag |-> tag, value |-> value]
IssuerChain(index) ==
  << Object("8F", index), Object("90", "issuer"), Object("9F32", "3") >>
IccChain(certificate) ==
  << Object("9F46", certificate), Object("9F48", "rest"), Object("9F47", "3") >>
SomeBodies ==
  { IssuerChain("1"), IssuerChain("2"), IccChain("icc"), IccChain("iccStatic"),
    IssuerChain("1") \o IccChain("icc"),
    << Object("93", "ssad") >>, << Object("9F4A", "aipTag"), Object("93", "ssad") >>,
    << Object("5A", "pan1"), Object("9F10", "iad0") >>, << Object("5A", "pan2") >>,
    << Object("57", "pan1"), Object("9F49", "ddol") >>,
    << Object("5A", "pan1"), Object("5A", "pan1") >>,
    << Object("9F02", "amount") >>, << Object("9F26", "ac") >>, <<>> }

SomeTerminal == ("9F37" :> "un") @@ ("9F02" :> "amount") @@ ("95" :> "tvr")
SomeDols     == [ddol |-> << "9F37", "9F03" >>, aipTag |-> << "82" >>]

SomeProfiles ==
  {[cda |-> cda, withNumber |-> cda,
    capks |-> {[index |-> "1", key |-> "ca1", expired |-> FALSE, intact |-> TRUE],
               [index |-> "2", key |-> "ca1", expired |-> TRUE, intact |-> TRUE]}] :
     cda \in BOOLEAN}

Certificate(kind, signer, value, rest, over, key) ==
  [kind |-> kind, signer |-> signer, certificate |-> value, remainder |-> rest,
   exponent |-> "3", over |-> over, key |-> key]
SomeCertificates ==
  { Certificate("issuer", "ca1", "issuer", Absent, <<>>, "issuerKey"),
    Certificate("icc", "issuerKey", "icc", "rest", <<>>, "iccKey"),
    Certificate("icc", "issuerKey", "iccStatic", "rest", << "5A", "pan1" >>, "iccKey") }

Static(text)  == [kind |-> "static", signer |-> "issuerKey", signature |-> "ssad", over |-> text]
Dynamic(signature, text) ==
  [kind |-> "dynamic", signer |-> "iccKey", signature |-> signature, over |-> text]
ChainText == << "8F", "1", "90", "issuer", "9F32", "3" >>
SomeSignatures ==
  { Static(ChainText), Static(<<"70">> \o ChainText),
    Static(ChainText \o << "9F4A", "aipTag", "93", "ssad", "sda" >>),
    Dynamic("sdad", << "un" >>), Dynamic("sdad", << "un", "00" >>),
    Dynamic("cda", << "ac" >>), Dynamic("cda", << "ac", "number" >>) }

Ac(signature, number) ==
  ("9F27" :> "arqc") @@ ("9F26" :> "ac") @@ ("9F36" :> "atc") @@ ("9F10" :> "iad1")
  @@ ("9F4B" :> signature) @@ ("9F4C" :> number)
SomeAcResponses ==
  {Ac("cda", "number"), Ac("cda", Absent), Ac(Absent, Absent),
   [Ac("cda", "number") EXCEPT !["9F26"] = "other"]}
=============================================================================
