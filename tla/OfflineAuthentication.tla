------------------------ MODULE OfflineAuthentication ------------------------
(***************************************************************************)
(* What the kernel takes from the card and how far it trusts it: the READ  *)
(* RECORD loop with what a record puts into the data store (gpo.rs,        *)
(* afl.rs, record.rs, dol.rs), offline data authentication over it, and    *)
(* the check of CDA on the answer to the first GENERATE AC (oda.rs,        *)
(* ffi.rs).  The steps between these read the store only, apart from tags  *)
(* 9F34, 95 and 9B; they are actions of Kernel, and the value of such a    *)
(* tag here stands for the one the kernel wrote last.                      *)
(*                                                                         *)
(* Keys and signatures are symbolic: a value recovers under one key, over  *)
(* one text, or not at all.  Texts are sequences of tags and values.       *)
(***************************************************************************)
EXTENDS Naturals, FiniteSets, SequencesExt

CONSTANTS
  Gpos,          \* answers to GPO: format, value of the AIP, AFL
  Bodies,        \* record bodies: sequences of data objects
  AcResponses,   \* answers to GENERATE AC, by tag
  Profiles,      \* of the AID, and the CAPKs of its scheme
  Terminal,      \* what transaction_data_store puts, by tag
  Aips,          \* the methods an AIP value claims
  Dols,          \* the tags of a DDOL or tag-list value that parses
  Certificates, Signatures

Absent   == ""     \* of an optional value
ZeroPad  == "00"   \* of a DOL entry the store has no value for
MaxRecordLocators == 256

Methods == {"Sda", "Dda", "Cda"}

(* The tags a record may not bring (is_non_card_record_tag).               *)
TerminalTags == {"5F2A", "5F36", "95", "9A", "9B", "9C", "9F02", "9F03", "9F15", "9F1A",
                 "9F1E", "9F33", "9F34", "9F35", "9F37", "9F40", "9F4E", "9F66"}
HostTags     == {"89", "8A", "86", "91", "9F18"}
DynamicTags  == {"9F26", "9F27", "9F36", "9F4B", "9F4C"}
NonCardTags  == TerminalTags \cup HostTags \cup DynamicTags

AcTags == {"9F10", "9F26", "9F27", "9F36", "9F4B", "9F4C"}

Objects  == [tag : STRING, value : STRING]
Entries  == [sfi : Nat, first : Nat, last : Nat, auth : Nat]
Capks    == [index : STRING, key : STRING, expired : BOOLEAN, intact : BOOLEAN]
Texts    == Seq(STRING)

ASSUME DataAssumption ==
  /\ Gpos \subseteq [format : {"77", "80"}, aip : DOMAIN Aips, afl : Seq(Entries)]
  /\ Aips \in [DOMAIN Aips -> SUBSET Methods] /\ DOMAIN Aips \subseteq STRING
  /\ Bodies \subseteq Seq(Objects)
  /\ AcResponses \subseteq [AcTags -> STRING]
  /\ Profiles \subseteq [cda : BOOLEAN, withNumber : BOOLEAN, capks : SUBSET Capks]
  /\ Dols \in [DOMAIN Dols -> Seq(STRING)]
  /\ Terminal \in [DOMAIN Terminal -> STRING] /\ DOMAIN Terminal \subseteq TerminalTags
  /\ Certificates \subseteq
       [kind : {"issuer", "icc"}, signer : STRING, certificate : STRING,
        remainder : STRING, exponent : STRING, over : Texts, key : STRING]
  /\ Signatures \subseteq
       [kind : {"static", "dynamic"}, signer : STRING, signature : STRING, over : Texts]

VARIABLES
  profile,       \* of the selected AID
  phase,         \* S3, S4, S5, what follows up to S10, its end
  gpo,           \* selected_application: aip and afl
  place,         \* the entry of the AFL, and the record in it
  reading,       \* how the READ RECORD loop ended
  store,         \* ctx.card_data
  authRecords,   \* ctx.offline_auth_records
  method,        \* ctx.selected_oda_method
  tvr, tsi       \* the bits of this module

vars     == <<profile, phase, gpo, place, reading, store, authRecords, method, tvr, tsi>>
odaVars  == <<method, tsi>>

Byte1 == {"OdaNotPerformed", "SdaFailed", "DdaFailed", "CdaFailed", "IccDataMissing"}
NoGpo == [format |-> "none"]

-----------------------------------------------------------------------------
(* The data store: DataStore::put and get.                                 *)
Get(tag) == IF tag \in DOMAIN store THEN store[tag] ELSE Absent

TagsOf(body) == {body[i].tag : i \in DOMAIN body}
ValueIn(body, tag) == body[CHOOSE i \in DOMAIN body : body[i].tag = tag].value
PutAll(body) ==
  [tag \in DOMAIN store \cup TagsOf(body) |->
     IF tag \in TagsOf(body) THEN ValueIn(body, tag) ELSE store[tag]]

-----------------------------------------------------------------------------
(* AFLs.                                                                   *)
RecordCount(entry) == entry.last - entry.first + 1

(* parse_afl                                                               *)
AflAccepted(afl) ==
  /\ afl # <<>>
  /\ \A e \in DOMAIN afl :
       /\ afl[e].sfi \in 1..30
       /\ afl[e].first >= 1 /\ afl[e].last >= afl[e].first
       /\ afl[e].auth <= RecordCount(afl[e])

Places(afl) ==
  UNION {{<<e, i>> : i \in 0..(RecordCount(afl[e]) - 1)} : e \in DOMAIN afl}
Locator(afl, p) == <<afl[p[1]].sfi, afl[p[1]].first + p[2]>>
Flagged(afl, p) == p[2] < afl[p[1]].auth
Before(p, q)    == p[1] < q[1] \/ (p[1] = q[1] /\ p[2] < q[2])

(* record_plan                                                             *)
PlanAccepted(afl) ==
  /\ \A p, q \in Places(afl) : p # q => Locator(afl, p) # Locator(afl, q)
  /\ Cardinality(Places(afl)) <= MaxRecordLocators

(* parse_gpo_response: in either format there is an AFL.                   *)
GpoAccepted(answer) == AflAccepted(answer.afl)

-----------------------------------------------------------------------------
Init ==
  /\ profile \in Profiles /\ phase = "gpo" /\ gpo = NoGpo
  /\ place = <<1, 0>> /\ reading = "none"
  /\ store = Terminal /\ authRecords = <<>>
  /\ method = "none" /\ tvr = {} /\ tsi = {}

(* Any exchange may fail, any answer may be refused: the transaction ends. *)
(* (DDA takes a failed INTERNAL AUTHENTICATE for a failed authentication.) *)
Fail ==
  /\ phase \in {"gpo", "records", "gac"}
  /\ phase' = "failed"
  /\ UNCHANGED <<profile, gpo, place, reading, store, authRecords, tvr, odaVars>>

(* GET PROCESSING OPTIONS.  Format 80 goes on to S5, past READ RECORD.     *)
GetProcessingOptions ==
  /\ phase = "gpo"
  /\ \E answer \in Gpos :
       /\ GpoAccepted(answer)
       /\ answer.format = "77" => PlanAccepted(answer.afl)
       /\ gpo' = answer
       /\ store' = PutAll(<<[tag |-> "82", value |-> answer.aip]>>)
       /\ phase' = IF answer.format = "77" THEN "records" ELSE "oda"
  /\ UNCHANGED <<profile, place, reading, authRecords, tvr, odaVars>>
-----------------------------------------------------------------------------
(* read_application_records: one READ RECORD, its record given by place.   *)
Reading  == phase = "records"
Entry    == gpo.afl[place[1]]
Current  == Locator(gpo.afl, place)
Signed   == Flagged(gpo.afl, place)
LastOfEntry == place[2] + 1 = RecordCount(Entry)
AtEnd       == LastOfEntry /\ place[1] = Len(gpo.afl)

(* Mutant: every record has to agree with the store on the PAN only.       *)
RecordAccepted_AnyConflict(body) ==
  /\ body # <<>> /\ TagsOf(body) \cap NonCardTags = {}
  /\ \A i, j \in DOMAIN body : body[i].tag = body[j].tag => i = j
  /\ {"5A", "57"} \subseteq DOMAIN PutAll(body) => PutAll(body)["5A"] = PutAll(body)["57"]

(* Mutant: only the tags in the store are the terminal's.                  *)
RecordAccepted_KnownTags(body) ==
  /\ body # <<>>
  /\ \A i, j \in DOMAIN body : body[i].tag = body[j].tag => i = j
  /\ \A i \in DOMAIN body : body[i].tag \in DOMAIN store => store[body[i].tag] = body[i].value
  /\ {"5A", "57"} \subseteq DOMAIN PutAll(body) => PutAll(body)["5A"] = PutAll(body)["57"]

(* parse_read_record_body: tags a card may give, none of them twice, no    *)
(* value that differs from a stored one, and one PAN in 5A and track 2     *)
(* (whose value stands for the PAN in it).                                 *)
RecordAccepted(body) ==
  /\ body # <<>> /\ TagsOf(body) \cap NonCardTags = {}
  /\ \A i, j \in DOMAIN body : body[i].tag = body[j].tag => i = j
  /\ \A i \in DOMAIN body : body[i].tag \in DOMAIN store => store[body[i].tag] = body[i].value
  /\ {"5A", "57"} \subseteq DOMAIN PutAll(body) => PutAll(body)["5A"] = PutAll(body)["57"]

ToOda(how) ==
  /\ phase' = "oda" /\ reading' = how
  /\ UNCHANGED place

(* RecordRead, then AflComplete or MoreAflEntries.                         *)
NextPlace ==
  IF AtEnd THEN ToOda("complete")
  ELSE /\ place' = IF LastOfEntry THEN <<place[1] + 1, 0>> ELSE <<place[1], place[2] + 1>>
       /\ UNCHANGED <<phase, reading>>

ReadRecord ==
  /\ Reading
  /\ \E body \in Bodies :
       /\ RecordAccepted(body)
       /\ store' = PutAll(body)
       /\ authRecords' = IF Signed
                         THEN Append(authRecords, [locator |-> Current, body |-> body])
                         ELSE authRecords
  /\ NextPlace
  /\ UNCHANGED <<profile, gpo, tvr, odaVars>>

(* 6A83 ends the loop, however much of the plan is left.                   *)
EndOfRecords ==
  /\ Reading
  /\ tvr' = IF Signed THEN tvr \cup {"IccDataMissing"} ELSE tvr
  /\ ToOda("endOfRecords")
  /\ UNCHANGED <<profile, gpo, store, authRecords, odaVars>>

(* So does any other status word of an error.                              *)
RecordReadFailed ==
  /\ Reading
  /\ tvr' = tvr \cup {"IccDataMissing"}
  /\ ToOda("failed")
  /\ UNCHANGED <<profile, gpo, store, authRecords, odaVars>>

-----------------------------------------------------------------------------
(* Certificates and signatures.  CaKeys, IssuerKeys and IccKeys have at    *)
(* most one member, the key found or recovered.                            *)

(* select_capk; CAPKs of a scheme differ in their index.                   *)
CaKeys ==
  {c.key : c \in {c \in profile.capks : c.index = Get("8F") /\ ~c.expired /\ c.intact}}

(* recover_and_verify_public_key_certificate; no static data is hashed     *)
(* into the certificate of the ICC key.                                    *)
Recovered(kind, signers, certificate, remainder, exponent) ==
  {c.key : c \in {c \in Certificates :
     /\ c.kind = kind /\ c.signer \in signers
     /\ c.certificate = certificate /\ c.remainder = remainder /\ c.exponent = exponent
     /\ c.over = <<>>}}

IssuerKeys == Recovered("issuer", CaKeys, Get("90"), Get("92"), Get("9F32"))
IccKeys    == Recovered("icc", IssuerKeys, Get("9F46"), Get("9F48"), Get("9F47"))

(* recover_and_verify_signed_application_data                              *)
Verifies(kind, keys, signature, text) ==
  \E s \in Signatures :
    s.kind = kind /\ s.signer \in keys /\ s.signature = signature /\ s.over = text

(* build_static_authentication_data: of a record in a file up to 10 the    *)
(* value of template 70, of another one the whole body; then the values of *)
(* the tag list.                                                           *)
ObjectsText(body) == FlattenSeq([i \in DOMAIN body |-> <<body[i].tag, body[i].value>>])
RecordText(record) ==
  (IF record.locator[1] <= 10 THEN <<>> ELSE <<"70">>) \o ObjectsText(record.body)
TagList == IF "9F4A" \in DOMAIN store THEN Dols[store["9F4A"]] ELSE <<>>
StaticText ==
  FlattenSeq([i \in DOMAIN authRecords |-> RecordText(authRecords[i])])
  \o [i \in DOMAIN TagList |-> store[TagList[i]]]

(* verify_static_data_authentication                                       *)
StaticVerified ==
  /\ authRecords # <<>>
  /\ "9F4A" \in DOMAIN store => store["9F4A"] \in DOMAIN Dols
  /\ \A i \in DOMAIN TagList : TagList[i] \in DOMAIN store
  /\ Verifies("static", IssuerKeys, Get("93"), StaticText)

(* perform_dynamic_data_authentication with the signature the card gives,  *)
(* Absent if the exchange fails; the default DDOL asks for the number.     *)
Ddol == IF "9F49" \in DOMAIN store THEN Dols[store["9F49"]] ELSE <<"9F37">>
DdolText ==
  [i \in DOMAIN Ddol |-> IF Ddol[i] \in DOMAIN store THEN store[Ddol[i]] ELSE ZeroPad]
DynamicVerified(signature) ==
  /\ "9F49" \in DOMAIN store => store["9F49"] \in DOMAIN Dols
  /\ Verifies("dynamic", IccKeys, signature, DdolText)

-----------------------------------------------------------------------------
(* run_offline_data_authentication                                         *)
Claimed == Aips[gpo.aip]

(* selection_input_from_aip and select_oda_method                          *)
SelectedMethod ==
  IF "Cda" \in Claimed /\ profile.cda THEN "Cda"
  ELSE IF "Dda" \in Claimed THEN "Dda"
  ELSE IF "Sda" \in Claimed THEN "Sda" ELSE "none"

FailedBit == [Sda |-> "SdaFailed", Dda |-> "DdaFailed", Cda |-> "CdaFailed"]

(* oda_outcome_for_method and apply_oda_outcome                            *)
OutcomeBits(m, verified) ==
  IF CaKeys = {} THEN {FailedBit[m]}
  ELSE IF IssuerKeys = {} \/ (m # "Sda" /\ IccKeys = {}) THEN {FailedBit[m], "IccDataMissing"}
  ELSE IF verified THEN {} ELSE {FailedBit[m]}

NotPerformed ==
  /\ phase = "oda" /\ SelectedMethod = "none"
  /\ tvr' = IF Claimed = {} THEN tvr ELSE tvr \cup {"OdaNotPerformed"}
  /\ phase' = "gac" /\ method' = "none"
  /\ UNCHANGED <<profile, gpo, place, reading, store, authRecords, tsi>>

Perform(m, verified) ==
  /\ phase = "oda" /\ SelectedMethod = m
  /\ tvr' = tvr \cup OutcomeBits(m, verified) /\ tsi' = tsi \cup {"OdaPerformed"}
  /\ phase' = "gac" /\ method' = m
  /\ UNCHANGED <<profile, gpo, place, reading, store, authRecords>>

StaticAuthentication == Perform("Sda", StaticVerified)
DynamicAuthentication ==
  \E signature \in {Absent} \cup {s.signature : s \in Signatures} :
    Perform("Dda", DynamicVerified(signature))
(* CDA checks the certificates now and the signature at GENERATE AC.       *)
CombinedAuthentication == Perform("Cda", TRUE)

-----------------------------------------------------------------------------
(* verify_combined_data_authentication; GENERATE AC puts no tag that the   *)
(* certificates are recovered from.                                        *)
CdaText(response) ==
  <<response["9F26"]>> \o IF profile.withNumber THEN <<response["9F4C"]>> ELSE <<>>
CdaVerified(response) ==
  /\ profile.withNumber => response["9F4C"] # Absent
  /\ Verifies("dynamic", IccKeys, response["9F4B"], CdaText(response))

(* The objects of the answer that are put into the store.                  *)
PutResponse(response) ==
  [tag \in DOMAIN store \cup {t \in AcTags : response[t] # Absent} |->
     IF tag \in AcTags /\ response[tag] # Absent THEN response[tag] ELSE store[tag]]

(* Mutant: a failure of CDA found before is not looked at again, and not   *)
(* set.                                                                    *)
GenerateAc_TrustsOda ==
  /\ phase = "gac"
  /\ \E response \in AcResponses : store' = PutResponse(response)
  /\ phase' = "done"
  /\ UNCHANGED <<profile, gpo, place, reading, authRecords, tvr, odaVars>>

(* run_first_generate_ac: a failed CDA is one more TVR bit.                *)
GenerateAc ==
  /\ phase = "gac"
  /\ \E response \in AcResponses :
       /\ store' = PutResponse(response)
       /\ tvr' = IF method = "Cda" /\ ~CdaVerified(response)
                 THEN tvr \cup {"CdaFailed"} ELSE tvr
  /\ phase' = "done"
  /\ UNCHANGED <<profile, gpo, place, reading, authRecords, odaVars>>

Next ==
  \/ Fail \/ GetProcessingOptions
  \/ ReadRecord \/ EndOfRecords \/ RecordReadFailed
  \/ NotPerformed \/ StaticAuthentication \/ DynamicAuthentication \/ CombinedAuthentication
  \/ GenerateAc

Spec == Init /\ [][Next]_vars
-----------------------------------------------------------------------------
AuthRecords == [locator : Nat \X Nat, body : Bodies]

TypeOK ==
  /\ profile \in Profiles /\ gpo \in Gpos \cup {NoGpo}
  /\ phase \in {"gpo", "records", "oda", "gac", "done", "failed"}
  /\ phase \notin {"gpo", "failed"} => gpo # NoGpo
  /\ Reading => place \in Places(gpo.afl)
  /\ reading \in {"none", "complete", "endOfRecords", "failed"}
  /\ store \in [DOMAIN store -> STRING]
  /\ authRecords \in Seq(AuthRecords)
  /\ method \in Methods \cup {"none"}
  /\ tvr \subseteq Byte1 /\ tsi \subseteq {"OdaPerformed"}

PlacesRead ==
  {p \in Places(gpo.afl) : reading = "complete" \/ Before(p, place)}

(* The records kept are those read so far that the AFL flags, all of them. *)
SignedAreKept ==
  gpo # NoGpo =>
    {authRecords[n].locator : n \in DOMAIN authRecords} =
      {Locator(gpo.afl, p) : p \in {q \in PlacesRead : Flagged(gpo.afl, q)}}

(* They are kept in the order of the AFL, each once.                       *)
KeptInOrder ==
  gpo # NoGpo =>
    \A m, n \in DOMAIN authRecords : m < n =>
      \A p, q \in Places(gpo.afl) :
        /\ Locator(gpo.afl, p) = authRecords[m].locator
        /\ Locator(gpo.afl, q) = authRecords[n].locator
        => Before(p, q)

(* The issuer application data is renewed by GENERATE AC.                  *)
StoredAsKept ==
  \A n \in DOMAIN authRecords : \A i \in DOMAIN authRecords[n].body :
    LET object == authRecords[n].body[i] IN
    /\ object.tag \in DOMAIN store
    /\ object.tag # "9F10" => store[object.tag] = object.value

(* What static authentication hashes is what the kernel goes on to use:    *)
(* the records read so far that the AFL flags, all of them, in the AFL's   *)
(* order; and no data object of theirs is replaced in the store, neither   *)
(* by a later record nor by the answer to GENERATE AC.                     *)
SignedRecordsIntact == SignedAreKept /\ KeptInOrder /\ StoredAsKept

(* KRN-TLV-006: a record cannot speak for the terminal, for the host or    *)
(* for the cryptogram, neither by replacing a value nor by giving one      *)
(* before its owner does.                                                  *)
OwnersRespected ==
  /\ \A tag \in DOMAIN Terminal : tag \in DOMAIN store /\ store[tag] = Terminal[tag]
  /\ DOMAIN store \cap (TerminalTags \cup HostTags) = DOMAIN Terminal
  /\ phase # "done" => DOMAIN store \cap DynamicTags = {}

(* An authentication that is not reported as failed is backed by the data  *)
(* that is in the store now: the keys are still recovered from it, and     *)
(* after CDA the signature covers the cryptogram that was stored, the one  *)
(* sent online.                                                            *)
VerdictBacked ==
  /\ phase \in {"gac", "done"} /\ method # "none" =>
       \/ FailedBit[method] \in tvr
       \/ IssuerKeys # {} /\ (method # "Sda" => IccKeys # {})
  /\ phase = "done" /\ method = "Cda" =>
       \/ "CdaFailed" \in tvr
       \/ Verifies("dynamic", IccKeys, Get("9F4B"),
                   <<Get("9F26")>> \o IF profile.withNumber THEN <<Get("9F4C")>> ELSE <<>>)

(* docs/state_machine.csv gives the transition from S3 past READ RECORD    *)
(* the guard "No AFL": an application with an AFL has its records read.    *)
AflIsRead == phase \in {"oda", "gac", "done"} => reading # "none"

(* docs/spec5.md on 6A83: if a mandatory record is missing, ICC data       *)
(* missing is set.                                                         *)
MissingRecordShown ==
  phase \in {"oda", "gac", "done"} =>
    \/ "IccDataMissing" \in tvr
    \/ \A p \in Places(gpo.afl) : Flagged(gpo.afl, p) => p \in PlacesRead
=============================================================================
