-------------------- MODULE OfflineAuthenticationProofs --------------------
(***************************************************************************)
(* For every card, CAPK and key hierarchy: the state is typed (so the      *)
(* READ RECORD loop stays inside its plan), the records static             *)
(* authentication hashes are the ones in the store, terminal and host      *)
(* keep their tags, and a good verdict is backed by the data in the store. *)
(***************************************************************************)
EXTENDS OfflineAuthentication, TLAPS

(* Nothing is read before GPO; the loop runs over a plan without doubles;  *)
(* no signed record holds a tag that a later step writes.                  *)
Progress ==
  /\ phase = "gpo" =>
       gpo = NoGpo /\ place = <<1, 0>> /\ reading = "none" /\ authRecords = <<>>
  /\ gpo # NoGpo => AflAccepted(gpo.afl)
  /\ Reading => PlanAccepted(gpo.afl) /\ reading = "none"
  /\ \A n \in DOMAIN authRecords : TagsOf(authRecords[n].body) \cap NonCardTags = {}

ReadInv == TypeOK /\ Progress

-----------------------------------------------------------------------------
(* A typed AFL that parse_afl accepts.                                     *)
LEMMA AflTyped ==
  ASSUME ReadInv, gpo # NoGpo
  PROVE  /\ gpo \in Gpos /\ gpo.afl \in Seq(Entries) /\ AflAccepted(gpo.afl)
         /\ gpo.aip \in STRING
PROOF
<1>1. gpo \in Gpos /\ AflAccepted(gpo.afl)
  BY DEF ReadInv, TypeOK, Progress
<1> QED BY <1>1, DataAssumption

(* The places of an AFL, by entry and by record in the entry.              *)
LEMMA PlaceParts ==
  ASSUME NEW afl \in Seq(Entries), AflAccepted(afl), NEW p \in Places(afl)
  PROVE  /\ p = <<p[1], p[2]>>
         /\ p[1] \in Nat /\ p[1] \in 1..Len(afl) /\ afl[p[1]] \in Entries
         /\ p[2] \in Nat /\ p[2] < RecordCount(afl[p[1]])
         /\ RecordCount(afl[p[1]]) \in Nat
PROOF
<1>1. PICK e \in DOMAIN afl : p \in {<<e, i>> : i \in 0..(RecordCount(afl[e]) - 1)}
  BY DEF Places
<1>2. e \in Nat /\ e \in 1..Len(afl) /\ afl[e] \in Entries
  OBVIOUS
<1>3. afl[e].first \in Nat /\ afl[e].last \in Nat
  BY <1>2 DEF Entries
<1>4. PICK i \in 0..(RecordCount(afl[e]) - 1) : p = <<e, i>>
  BY <1>1
<1>5. RecordCount(afl[e]) \in Int
  BY <1>3 DEF RecordCount
<1> QED BY <1>2, <1>4, <1>5

(* A number of a record in an entry makes a place.                         *)
LEMMA PlaceMade ==
  ASSUME NEW afl \in Seq(Entries), NEW e \in 1..Len(afl), RecordCount(afl[e]) \in Nat,
         NEW i \in Nat, i < RecordCount(afl[e])
  PROVE  <<e, i>> \in Places(afl)
PROOF
<1>1. i \in 0..(RecordCount(afl[e]) - 1) /\ e \in DOMAIN afl
  OBVIOUS
<1> QED BY <1>1 DEF Places

(* Every entry of an accepted AFL has records.                             *)
LEMMA EntryHasRecords ==
  ASSUME NEW afl \in Seq(Entries), AflAccepted(afl), NEW e \in 1..Len(afl)
  PROVE  RecordCount(afl[e]) \in Nat /\ RecordCount(afl[e]) >= 1 /\ afl[e] \in Entries
PROOF
<1>1. afl[e] \in Entries /\ e \in DOMAIN afl
  OBVIOUS
<1>2. afl[e].first \in Nat /\ afl[e].last \in Nat
  BY <1>1 DEF Entries
<1>3. afl[e].last >= afl[e].first
  BY <1>1 DEF AflAccepted
<1> QED BY <1>1, <1>2, <1>3 DEF RecordCount

(* The loop starts at a place.                                             *)
LEMMA FirstPlace ==
  ASSUME NEW afl \in Seq(Entries), AflAccepted(afl)
  PROVE  <<1, 0>> \in Places(afl)
PROOF
<1>1. 1 \in 1..Len(afl)
  BY DEF AflAccepted
<1> QED BY <1>1, EntryHasRecords, PlaceMade

(* A place and its record: a pair of numbers.                              *)
LEMMA LocatorTyped ==
  ASSUME NEW afl \in Seq(Entries), AflAccepted(afl), NEW p \in Places(afl)
  PROVE  Locator(afl, p) \in Nat \X Nat
PROOF
<1>1. afl[p[1]] \in Entries /\ p[2] \in Nat
  BY PlaceParts
<1> QED BY SMTT(60), <1>1 DEF Locator, Entries

-----------------------------------------------------------------------------
(* The loop goes to the next place, or it is at the last one.              *)
LEMMA NextIsPlace ==
  ASSUME ReadInv, Reading, NextPlace
  PROVE  /\ \/ phase' = "oda" /\ reading' = "complete" /\ AtEnd /\ place' = place
            \/ /\ phase' = phase /\ reading' = reading /\ ~AtEnd
               /\ place' \in Places(gpo.afl)
         /\ reading' = "complete" =>
              \A p \in Places(gpo.afl) : Before(p, place) \/ p = place
         /\ reading' # "complete" =>
              \A p \in Places(gpo.afl) : Before(p, place') <=> Before(p, place) \/ p = place
PROOF
<1> DEFINE afl == gpo.afl
<1>1. gpo # NoGpo /\ place \in Places(afl) /\ reading = "none" /\ phase = "records"
  BY DEF ReadInv, TypeOK, Progress, Reading
<1>2. afl \in Seq(Entries) /\ AflAccepted(afl)
  BY <1>1, AflTyped
<1> HIDE DEF afl
<1>3. \A p \in Places(afl) :
        /\ p = <<p[1], p[2]>> /\ p[1] \in Nat /\ p[1] >= 1 /\ p[1] <= Len(afl)
        /\ p[2] \in Nat /\ p[2] < RecordCount(afl[p[1]])
        /\ RecordCount(afl[p[1]]) \in Nat
  BY <1>2, PlaceParts
<1> DEFINE e == place[1]
           i == place[2]
           n == RecordCount(afl[e])
<1>4. /\ place = <<e, i>> /\ e \in Nat /\ e >= 1 /\ e <= Len(afl)
      /\ i \in Nat /\ n \in Nat /\ i < n /\ Len(afl) \in Nat
  BY <1>1, <1>2, <1>3
<1>5. CASE AtEnd
  <2>1. phase' = "oda" /\ reading' = "complete" /\ place' = place
    BY <1>5 DEF NextPlace, ToOda
  <2>2. i + 1 = n /\ e = Len(afl)
    BY <1>5 DEF AtEnd, LastOfEntry, Entry, afl
  <2>3. \A p \in Places(afl) : Before(p, place) \/ p = place
    <3> SUFFICES ASSUME NEW p \in Places(afl) PROVE Before(p, place) \/ p = place
      OBVIOUS
    <3>1. p[1] = e => p[2] < n
      BY <1>3
    <3>2. p[1] < e \/ (p[1] = e /\ (p[2] < i \/ p[2] = i))
      BY <1>3, <1>4, <2>2, <3>1
    <3> QED BY <1>3, <1>4, <3>2 DEF Before
  <2> QED BY <1>5, <2>1, <2>3 DEF afl
<1>6. CASE ~AtEnd
  <2>1. /\ phase' = phase /\ reading' = reading
        /\ place' = IF LastOfEntry THEN <<e + 1, 0>> ELSE <<e, i + 1>>
    BY <1>6 DEF NextPlace
  <2>2. LastOfEntry <=> i + 1 = n
    BY DEF LastOfEntry, Entry, afl
  <2>3. AtEnd <=> LastOfEntry /\ e = Len(afl)
    BY DEF AtEnd, afl
  <2>4. CASE LastOfEntry
    <3>1. place' = <<e + 1, 0>> /\ e + 1 \in 1..Len(afl)
      BY <1>4, <1>6, <2>1, <2>3, <2>4
    <3>2. place' \in Places(afl)
      BY <1>2, <3>1, EntryHasRecords, PlaceMade
    <3>3. \A p \in Places(afl) : Before(p, place') <=> Before(p, place) \/ p = place
      <4> SUFFICES ASSUME NEW p \in Places(afl)
                   PROVE  Before(p, place') <=> Before(p, place) \/ p = place
        OBVIOUS
      <4>1. p[1] = e => p[2] < i \/ p[2] = i
        <5>1. p[1] = e => p[2] < n
          BY <1>3
        <5> QED BY <1>3, <1>4, <2>2, <2>4, <5>1
      <4>2. place'[1] = e + 1 /\ place'[2] = 0
        BY <3>1
      <4> QED BY <1>3, <1>4, <4>1, <4>2 DEF Before
    <3> QED BY <1>1, <1>6, <2>1, <3>2, <3>3 DEF afl
  <2>5. CASE ~LastOfEntry
    <3>1. place' = <<e, i + 1>> /\ i + 1 \in Nat /\ i + 1 < n /\ e \in 1..Len(afl)
      BY <1>4, <2>1, <2>2, <2>5
    <3>2. place' \in Places(afl)
      BY <1>2, <1>4, <3>1, PlaceMade
    <3>3. \A p \in Places(afl) : Before(p, place') <=> Before(p, place) \/ p = place
      <4> SUFFICES ASSUME NEW p \in Places(afl)
                   PROVE  Before(p, place') <=> Before(p, place) \/ p = place
        OBVIOUS
      <4>1. place'[1] = e /\ place'[2] = i + 1
        BY <3>1
      <4> QED BY <1>3, <1>4, <4>1 DEF Before
    <3> QED BY <1>1, <1>6, <2>1, <3>2, <3>3 DEF afl
  <2> QED BY <2>4, <2>5
<1> QED BY <1>5, <1>6

-----------------------------------------------------------------------------
(* What puts a body into the store leaves the other tags alone.            *)
LEMMA PutAllOthers ==
  ASSUME store \in [DOMAIN store -> STRING],
         NEW body, \A i \in DOMAIN body : body[i].value \in STRING
  PROVE  /\ DOMAIN PutAll(body) = DOMAIN store \cup TagsOf(body)
         /\ PutAll(body) \in [DOMAIN PutAll(body) -> STRING]
         /\ \A tag \in DOMAIN store \ TagsOf(body) : PutAll(body)[tag] = store[tag]
         /\ \A tag \in TagsOf(body) : PutAll(body)[tag] = ValueIn(body, tag)
PROOF
<1>1. \A tag \in TagsOf(body) : ValueIn(body, tag) \in STRING
  BY DEF TagsOf, ValueIn
<1> QED BY <1>1 DEF PutAll

(* The values of a body are strings.                                       *)
LEMMA ValuesTyped ==
  ASSUME NEW body \in Seq(Objects)
  PROVE  \A i \in DOMAIN body : body[i].value \in STRING
PROOF
<1>1. \A i \in DOMAIN body : body[i] \in Objects
  OBVIOUS
<1> QED BY <1>1 DEF Objects

(* A record puts its own values, and no value of the store changes.        *)
LEMMA RecordKeepsStore ==
  ASSUME store \in [DOMAIN store -> STRING], NEW body \in Seq(Objects),
         RecordAccepted(body)
  PROVE  /\ \A i \in DOMAIN body :
              body[i].tag \in TagsOf(body) /\ PutAll(body)[body[i].tag] = body[i].value
         /\ \A tag \in DOMAIN store : PutAll(body)[tag] = store[tag]
PROOF
<1>1. \A i \in DOMAIN body : body[i].tag \in TagsOf(body)
  BY DEF TagsOf
<1>2. \A i \in DOMAIN body : ValueIn(body, body[i].tag) = body[i].value
  <2> SUFFICES ASSUME NEW i \in DOMAIN body
               PROVE  ValueIn(body, body[i].tag) = body[i].value
    OBVIOUS
  <2> DEFINE c == CHOOSE j \in DOMAIN body : body[j].tag = body[i].tag
  <2>1. c \in DOMAIN body /\ body[c].tag = body[i].tag
    OBVIOUS
  <2>2. c = i
    BY <2>1 DEF RecordAccepted
  <2>3. ValueIn(body, body[i].tag) = body[c].value
    BY DEF ValueIn
  <2> QED BY <2>2, <2>3
<1>3. \A i \in DOMAIN body : PutAll(body)[body[i].tag] = body[i].value
  BY <1>1, <1>2, ValuesTyped, PutAllOthers
<1>4. \A tag \in DOMAIN store : PutAll(body)[tag] = store[tag]
  <2> SUFFICES ASSUME NEW tag \in DOMAIN store, tag \in TagsOf(body)
               PROVE  PutAll(body)[tag] = store[tag]
    BY ValuesTyped, PutAllOthers
  <2>1. PICK i \in DOMAIN body : body[i].tag = tag
    BY DEF TagsOf
  <2>2. store[tag] = body[i].value
    BY <2>1 DEF RecordAccepted
  <2> QED BY <1>3, <2>1, <2>2
<1> QED BY <1>1, <1>3, <1>4

(* GPO puts the AIP.                                                       *)
LEMMA GpoPutsAip ==
  ASSUME NEW aip \in STRING
  PROVE  LET body == <<[tag |-> "82", value |-> aip]>>
         IN TagsOf(body) = {"82"} /\ \A i \in DOMAIN body : body[i].value \in STRING
PROOF
<1> DEFINE object == [tag |-> "82", value |-> aip]
           body   == <<object>>
<1>1. object.tag = "82" /\ object.value = aip
  OBVIOUS
<1> HIDE DEF object
<1>2. DOMAIN body = {1} /\ body[1] = object
  OBVIOUS
<1>3. TagsOf(body) = {"82"} /\ \A i \in DOMAIN body : body[i].value \in STRING
  BY <1>1, <1>2 DEF TagsOf
<1> QED BY <1>3 DEF object

(* The answer to GENERATE AC changes the tags of AcTags only.              *)
LEMMA PutResponseOthers ==
  ASSUME store \in [DOMAIN store -> STRING], NEW response \in AcResponses
  PROVE  /\ PutResponse(response) \in [DOMAIN PutResponse(response) -> STRING]
         /\ DOMAIN store \subseteq DOMAIN PutResponse(response)
         /\ DOMAIN PutResponse(response) \subseteq DOMAIN store \cup AcTags
         /\ \A tag \in DOMAIN store \ AcTags : PutResponse(response)[tag] = store[tag]
         /\ \A tag \in AcTags : response[tag] # Absent =>
              tag \in DOMAIN PutResponse(response)
              /\ PutResponse(response)[tag] = response[tag]
         /\ \A tag \in AcTags : response[tag] = Absent =>
              (tag \in DOMAIN PutResponse(response) <=> tag \in DOMAIN store)
PROOF
<1>1. response \in [AcTags -> STRING]
  BY DataAssumption
<1> QED BY <1>1 DEF PutResponse

-----------------------------------------------------------------------------
(* Every initial state is typed, and nothing has been read.                *)
LEMMA ReadInit == Init => ReadInv
PROOF
<1> SUFFICES ASSUME Init PROVE ReadInv
  OBVIOUS
<1>1. store \in [DOMAIN store -> STRING]
  BY DataAssumption DEF Init
<1>2. authRecords \in Seq(AuthRecords) /\ DOMAIN authRecords = {}
  BY DEF Init
<1>3. TypeOK
  BY <1>1, <1>2 DEF Init, TypeOK, Reading
<1>4. Progress
  BY <1>2 DEF Init, Progress, Reading
<1> QED BY <1>3, <1>4 DEF ReadInv

(* GPO answers with an AFL that is accepted.                               *)
LEMMA GpoStep ==
  ASSUME ReadInv, GetProcessingOptions
  PROVE  ReadInv'
PROOF
<1>1. PICK answer \in Gpos :
        /\ AflAccepted(answer.afl)
        /\ answer.format = "77" => PlanAccepted(answer.afl)
        /\ gpo' = answer
        /\ store' = PutAll(<<[tag |-> "82", value |-> answer.aip]>>)
        /\ phase' = IF answer.format = "77" THEN "records" ELSE "oda"
  BY DEF GetProcessingOptions, GpoAccepted
<1>2. /\ phase = "gpo" /\ place = <<1, 0>> /\ reading = "none" /\ authRecords = <<>>
      /\ UNCHANGED <<profile, place, reading, authRecords, tvr, method, tsi>>
  BY DEF GetProcessingOptions, ReadInv, Progress, odaVars
<1>3. answer.afl \in Seq(Entries) /\ answer.aip \in STRING /\ answer # NoGpo
  BY DataAssumption DEF NoGpo
<1>4. store' \in [DOMAIN store' -> STRING]
  BY <1>1, <1>3, GpoPutsAip, PutAllOthers DEF ReadInv, TypeOK
<1>5. place' \in Places(gpo'.afl)
  BY <1>1, <1>2, <1>3, FirstPlace
<1>6. TypeOK'
  BY <1>1, <1>2, <1>3, <1>4, <1>5 DEF ReadInv, TypeOK, Reading
<1>7. Progress'
  BY <1>1, <1>2, <1>3 DEF ReadInv, Progress, Reading
<1> QED BY <1>6, <1>7 DEF ReadInv

(* A signed record is kept as it was put.                                  *)
LEMMA RecordStep ==
  ASSUME ReadInv, ReadRecord
  PROVE  ReadInv'
PROOF
<1>1. PICK body \in Bodies :
        /\ RecordAccepted(body)
        /\ store' = PutAll(body)
        /\ authRecords' = IF Signed
                          THEN Append(authRecords, [locator |-> Current, body |-> body])
                          ELSE authRecords
  BY DEF ReadRecord
<1>2. /\ Reading /\ NextPlace /\ phase = "records" /\ reading = "none"
      /\ UNCHANGED <<profile, gpo, tvr, method, tsi>>
  BY DEF ReadRecord, ReadInv, Progress, Reading, odaVars
<1>3. gpo # NoGpo /\ place \in Places(gpo.afl)
  BY <1>2 DEF ReadInv, TypeOK
<1>4. gpo.afl \in Seq(Entries) /\ AflAccepted(gpo.afl)
  BY <1>3, AflTyped
<1>5. body \in Seq(Objects)
  BY DataAssumption
<1>6. store' \in [DOMAIN store' -> STRING]
  BY <1>1, <1>5, ValuesTyped, PutAllOthers DEF ReadInv, TypeOK
<1>7. [locator |-> Current, body |-> body] \in AuthRecords
  BY <1>3, <1>4, LocatorTyped DEF Current, AuthRecords
<1>8. authRecords' \in Seq(AuthRecords)
  BY <1>1, <1>7 DEF ReadInv, TypeOK
<1>9. \/ phase' = "oda" /\ reading' = "complete"
      \/ phase' = phase /\ reading' = reading /\ place' \in Places(gpo.afl)
  BY <1>2, NextIsPlace
<1>10. TypeOK'
  BY <1>2, <1>3, <1>6, <1>8, <1>9 DEF ReadInv, TypeOK, Reading
<1>11. \A n \in DOMAIN authRecords' : TagsOf(authRecords'[n].body) \cap NonCardTags = {}
  <2> SUFFICES ASSUME NEW n \in DOMAIN authRecords'
               PROVE  TagsOf(authRecords'[n].body) \cap NonCardTags = {}
    OBVIOUS
  <2>1. TagsOf(body) \cap NonCardTags = {}
    BY <1>1 DEF RecordAccepted
  <2>2. \/ n \in DOMAIN authRecords /\ authRecords'[n] = authRecords[n]
        \/ authRecords'[n].body = body
    BY <1>1 DEF ReadInv, TypeOK
  <2> QED BY <2>1, <2>2 DEF ReadInv, Progress
<1>12. Progress'
  BY <1>2, <1>3, <1>9, <1>11 DEF ReadInv, Progress, Reading
<1> QED BY <1>10, <1>12 DEF ReadInv

(* The three authentications are Perform with the verdict of their check.  *)
LEMMA AuthenticationPerforms ==
  StaticAuthentication \/ DynamicAuthentication \/ CombinedAuthentication =>
    \E m \in Methods, v \in BOOLEAN : Perform(m, v)
PROOF
<1>1. StaticVerified \in BOOLEAN /\ \A s : DynamicVerified(s) \in BOOLEAN
  BY DEF StaticVerified, DynamicVerified, Verifies
<1> QED BY <1>1 DEF StaticAuthentication, DynamicAuthentication, CombinedAuthentication, Methods

(* Authentication and the answer to GENERATE AC leave what was read alone. *)
LEMMA ReadStep == ReadInv /\ [Next]_vars => ReadInv'
PROOF
<1> SUFFICES ASSUME ReadInv, [Next]_vars PROVE ReadInv'
  OBVIOUS
<1> USE DEF odaVars
<1>1. ASSUME Fail PROVE ReadInv'
  BY <1>1 DEF Fail, ReadInv, TypeOK, Progress, Reading
<1>2. CASE GetProcessingOptions
  BY <1>2, GpoStep
<1>3. CASE ReadRecord
  BY <1>3, RecordStep
<1>4. ASSUME EndOfRecords \/ RecordReadFailed PROVE ReadInv'
  <2>1. tvr' \subseteq Byte1
    BY <1>4 DEF EndOfRecords, RecordReadFailed, ReadInv, TypeOK, Byte1
  <2>2. /\ Reading /\ phase' = "oda" /\ reading' \in {"endOfRecords", "failed"}
        /\ UNCHANGED <<place, profile, gpo, store, authRecords, method, tsi>>
    BY <1>4 DEF EndOfRecords, RecordReadFailed, ToOda
  <2> QED BY <2>1, <2>2 DEF ReadInv, TypeOK, Progress, Reading
<1>5. ASSUME NotPerformed \/ (\E m \in Methods, v \in BOOLEAN : Perform(m, v))
      PROVE ReadInv'
  <2>1. \A m \in Methods, v \in BOOLEAN : OutcomeBits(m, v) \subseteq Byte1
    BY DEF OutcomeBits, FailedBit, Methods, Byte1
  <2>2. tvr' \subseteq Byte1
    BY <1>5, <2>1 DEF NotPerformed, Perform, ReadInv, TypeOK, Byte1
  <2>3. /\ phase = "oda" /\ phase' = "gac"
        /\ method' \in Methods \cup {"none"} /\ tsi' \subseteq {"OdaPerformed"}
        /\ UNCHANGED <<profile, gpo, place, reading, store, authRecords>>
    BY <1>5 DEF NotPerformed, Perform, ReadInv, TypeOK
  <2> QED BY <2>2, <2>3 DEF ReadInv, TypeOK, Progress, Reading
<1>6. ASSUME GenerateAc PROVE ReadInv'
  <2>1. store' \in [DOMAIN store' -> STRING]
    BY <1>6, PutResponseOthers DEF GenerateAc, ReadInv, TypeOK
  <2>2. tvr' \subseteq Byte1
    BY <1>6 DEF GenerateAc, ReadInv, TypeOK, Byte1
  <2>3. /\ phase = "gac" /\ phase' = "done"
        /\ UNCHANGED <<profile, gpo, place, reading, authRecords, method, tsi>>
    BY <1>6 DEF GenerateAc
  <2> QED BY <2>1, <2>2, <2>3 DEF ReadInv, TypeOK, Progress, Reading
<1>7. CASE UNCHANGED vars
  BY <1>7 DEF vars, ReadInv, TypeOK, Progress, Reading
<1>8. StaticAuthentication \/ DynamicAuthentication \/ CombinedAuthentication =>
        \E m \in Methods, v \in BOOLEAN : Perform(m, v)
  BY AuthenticationPerforms
<1> QED BY <1>1, <1>2, <1>3, <1>4, <1>5, <1>6, <1>7, <1>8 DEF Next

(* The program's state is typed, and READ RECORD stays within the AFL: the *)
(* place it reads is one of the plan for as long as it reads.              *)
THEOREM RecordsTyped == Spec => []TypeOK
PROOF
<1>1. ReadInv => TypeOK
  BY DEF ReadInv
<1> QED BY <1>1, ReadInit, ReadStep, PTL DEF Spec

-----------------------------------------------------------------------------
(* A step that does not write the store, by name.                          *)
StoreKept ==
  \/ Fail \/ EndOfRecords \/ RecordReadFailed \/ NotPerformed
  \/ StaticAuthentication \/ DynamicAuthentication \/ CombinedAuthentication
  \/ UNCHANGED vars

(* Such a step changes nothing of what was read.                           *)
LEMMA StoreKeptStep ==
  ASSUME StoreKept
  PROVE  /\ store' = store /\ gpo' = gpo /\ authRecords' = authRecords
         /\ phase' = "done" <=> phase = "done"
PROOF
  BY DEF StoreKept, Fail, EndOfRecords, RecordReadFailed, NotPerformed, Perform, ToOda, Reading,
         StaticAuthentication, DynamicAuthentication, CombinedAuthentication, vars

(* Every step keeps the store, or is one of the three that put into it.    *)
LEMMA NextByStore ==
  [Next]_vars => StoreKept \/ GetProcessingOptions \/ ReadRecord \/ GenerateAc
PROOF
  BY DEF Next, StoreKept

(* The tags of a record, of the answer to GENERATE AC and of the terminal. *)
LEMMA TagOwners ==
  /\ "82" \notin NonCardTags
  /\ AcTags \cap (TerminalTags \cup HostTags) = {}
  /\ TerminalTags \cap DynamicTags = {} /\ HostTags \cap TerminalTags = {}
  /\ AcTags \ {"9F10"} \subseteq NonCardTags
PROOF
  BY DEF NonCardTags, TerminalTags, HostTags, DynamicTags, AcTags

(* The store starts with the terminal's tags.                              *)
LEMMA OwnersInit == Init => OwnersRespected
PROOF
<1> SUFFICES ASSUME Init PROVE OwnersRespected
  OBVIOUS
<1>1. store = Terminal /\ DOMAIN store \subseteq TerminalTags
  BY DataAssumption DEF Init
<1> QED BY <1>1, TagOwners DEF OwnersRespected

(* GPO, records and GENERATE AC put tags of their own only.                *)
LEMMA OwnersStep == ReadInv /\ OwnersRespected /\ [Next]_vars => OwnersRespected'
PROOF
<1> SUFFICES ASSUME ReadInv, OwnersRespected, [Next]_vars PROVE OwnersRespected'
  OBVIOUS
<1>1. store \in [DOMAIN store -> STRING]
  BY DEF ReadInv, TypeOK
<1>2. CASE StoreKept
  BY <1>2, StoreKeptStep DEF OwnersRespected
<1>3. CASE GetProcessingOptions
  <2>1. PICK answer \in Gpos : store' = PutAll(<<[tag |-> "82", value |-> answer.aip]>>)
    BY <1>3 DEF GetProcessingOptions
  <2>2. answer.aip \in STRING
    BY DataAssumption
  <2>3. /\ DOMAIN store' = DOMAIN store \cup {"82"}
        /\ \A tag \in DOMAIN store \ {"82"} : store'[tag] = store[tag]
    BY <1>1, <2>1, <2>2, GpoPutsAip, PutAllOthers
  <2>4. phase = "gpo"
    BY <1>3 DEF GetProcessingOptions
  <2>5. "82" \notin TerminalTags \cup HostTags \cup DynamicTags
    BY TagOwners DEF NonCardTags
  <2>6. "82" \notin DOMAIN Terminal
    BY <2>5, DataAssumption
  <2> QED BY <2>3, <2>4, <2>5, <2>6 DEF OwnersRespected
<1>4. CASE ReadRecord
  <2>1. PICK body \in Bodies : RecordAccepted(body) /\ store' = PutAll(body)
    BY <1>4 DEF ReadRecord
  <2>2. body \in Seq(Objects)
    BY DataAssumption
  <2>3. /\ DOMAIN store' = DOMAIN store \cup TagsOf(body)
        /\ \A tag \in DOMAIN store : store'[tag] = store[tag]
    BY <1>1, <2>1, <2>2, ValuesTyped, PutAllOthers, RecordKeepsStore
  <2>4. TagsOf(body) \cap (TerminalTags \cup HostTags \cup DynamicTags) = {}
    BY <2>1 DEF RecordAccepted, NonCardTags
  <2>5. phase # "done"
    BY <1>4 DEF ReadRecord, Reading
  <2> QED BY <2>3, <2>4, <2>5 DEF OwnersRespected
<1>5. CASE GenerateAc
  <2>1. PICK response \in AcResponses : store' = PutResponse(response)
    BY <1>5 DEF GenerateAc
  <2>2. phase' = "done"
    BY <1>5 DEF GenerateAc
  <2>3. /\ DOMAIN store \subseteq DOMAIN store' /\ DOMAIN store' \subseteq DOMAIN store \cup AcTags
        /\ \A tag \in DOMAIN store \ AcTags : store'[tag] = store[tag]
    BY <1>1, <2>1, PutResponseOthers
  <2>4. DOMAIN Terminal \cap AcTags = {}
    BY TagOwners, DataAssumption
  <2> QED BY <2>2, <2>3, <2>4, TagOwners DEF OwnersRespected
<1> QED BY <1>2, <1>3, <1>4, <1>5, NextByStore

(* No record speaks for the terminal, for the host or for the cryptogram.  *)
THEOREM OwnersAreRespected == Spec => []OwnersRespected
PROOF
<1>1. Init => ReadInv /\ OwnersRespected
  BY ReadInit, OwnersInit
<1>2. ReadInv /\ OwnersRespected /\ [Next]_vars => ReadInv' /\ OwnersRespected'
  BY ReadStep, OwnersStep
<1> QED BY <1>1, <1>2, PTL DEF Spec

-----------------------------------------------------------------------------
(* Nothing is kept before the first record.                                *)
LEMMA NothingSigned ==
  ASSUME authRecords = <<>>
  PROVE  KeptInOrder /\ StoredAsKept
PROOF
<1>1. DOMAIN authRecords = {}
  OBVIOUS
<1> QED BY <1>1 DEF KeptInOrder, StoredAsKept

(* Nothing is kept initially.                                              *)
LEMMA SignedInit == Init => SignedRecordsIntact
PROOF
  BY NothingSigned DEF Init, SignedRecordsIntact, SignedAreKept

(* Kept records stay as the store has them when it only grows, or changes  *)
(* tags no record may hold.                                                *)
LEMMA KeptWhileStored ==
  ASSUME ReadInv, StoredAsKept, authRecords' = authRecords,
         DOMAIN store \subseteq DOMAIN store',
         \A tag \in DOMAIN store \ (NonCardTags \cup {"9F10"}) : store'[tag] = store[tag]
  PROVE  StoredAsKept'
PROOF
<1> SUFFICES ASSUME NEW n \in DOMAIN authRecords, NEW i \in DOMAIN authRecords[n].body
             PROVE  LET object == authRecords[n].body[i] IN
                    /\ object.tag \in DOMAIN store'
                    /\ object.tag # "9F10" => store'[object.tag] = object.value
  BY DEF StoredAsKept
<1>1. authRecords[n].body[i].tag \notin NonCardTags
  BY DEF ReadInv, Progress, TagsOf
<1> QED BY <1>1 DEF StoredAsKept

(* Reading a record adds its place to those read; ending the loop, none.   *)
LEMMA PlacesReadStep ==
  ASSUME ReadInv
  PROVE  /\ ReadRecord => PlacesRead' = PlacesRead \cup {place}
         /\ StoreKept \/ GenerateAc => PlacesRead' = PlacesRead
PROOF
<1>1. ASSUME ReadRecord PROVE PlacesRead' = PlacesRead \cup {place}
  <2>1. Reading /\ NextPlace /\ reading = "none" /\ gpo' = gpo /\ place \in Places(gpo.afl)
    BY <1>1 DEF ReadRecord, ReadInv, Progress, TypeOK
  <2> QED BY <2>1, NextIsPlace DEF PlacesRead
<1>2. ASSUME StoreKept \/ GenerateAc PROVE PlacesRead' = PlacesRead
  <2>1. gpo' = gpo /\ place' = place /\ (reading' = "complete" <=> reading = "complete")
    BY <1>2 DEF StoreKept, Fail, EndOfRecords, RecordReadFailed, NotPerformed, Perform, ToOda,
         StaticAuthentication, DynamicAuthentication, CombinedAuthentication, vars,
         GenerateAc, ReadInv, Progress, Reading
  <2> QED BY <2>1 DEF PlacesRead
<1> QED BY <1>1, <1>2

(* The record read now follows, in the AFL, every record kept before.      *)
LEMMA KeptComesBefore ==
  ASSUME ReadInv, SignedAreKept, Reading,
         NEW n \in DOMAIN authRecords, NEW p \in Places(gpo.afl),
         Locator(gpo.afl, p) = authRecords[n].locator
  PROVE  Before(p, place)
PROOF
<1>1. gpo # NoGpo /\ reading = "none" /\ PlanAccepted(gpo.afl)
  BY DEF ReadInv, TypeOK, Progress, Reading
<1>2. PICK q \in PlacesRead : Locator(gpo.afl, q) = authRecords[n].locator
  BY <1>1 DEF SignedAreKept
<1>3. q \in Places(gpo.afl) /\ Before(q, place)
  BY <1>1, <1>2 DEF PlacesRead
<1>4. p = q
  BY <1>1, <1>2, <1>3 DEF PlanAccepted
<1> QED BY <1>3, <1>4

(* One more record, kept if the AFL flags it.                              *)
LEMMA SignedRecordStep ==
  ASSUME ReadInv, SignedRecordsIntact, ReadRecord
  PROVE  SignedRecordsIntact'
PROOF
<1>1. PICK body \in Bodies :
        /\ RecordAccepted(body)
        /\ store' = PutAll(body)
        /\ authRecords' = IF Signed
                          THEN Append(authRecords, [locator |-> Current, body |-> body])
                          ELSE authRecords
  BY DEF ReadRecord
<1>2. Reading /\ gpo' = gpo /\ gpo # NoGpo /\ place \in Places(gpo.afl)
  BY DEF ReadRecord, ReadInv, TypeOK, Reading
<1>3. PlacesRead' = PlacesRead \cup {place}
  BY PlacesReadStep
<1>4. body \in Seq(Objects) /\ store \in [DOMAIN store -> STRING]
  BY DataAssumption DEF ReadInv, TypeOK
<1>5. /\ DOMAIN store' = DOMAIN store \cup TagsOf(body)
      /\ \A tag \in DOMAIN store : store'[tag] = store[tag]
      /\ \A i \in DOMAIN body :
            body[i].tag \in TagsOf(body) /\ store'[body[i].tag] = body[i].value
  BY <1>1, <1>4, ValuesTyped, PutAllOthers, RecordKeepsStore
<1>6. authRecords \in Seq(AuthRecords)
  BY DEF ReadInv, TypeOK
<1>7. CASE ~Signed
  <2>1. authRecords' = authRecords
    BY <1>1, <1>7
  <2>2. SignedAreKept'
    BY <1>2, <1>3, <1>7, <2>1 DEF SignedRecordsIntact, SignedAreKept, Signed
  <2>3. KeptInOrder'
    BY <1>2, <2>1 DEF SignedRecordsIntact, KeptInOrder
  <2>4. StoredAsKept'
    BY <1>5, <2>1, KeptWhileStored DEF SignedRecordsIntact
  <2> QED BY <2>2, <2>3, <2>4 DEF SignedRecordsIntact
<1>8. CASE Signed
  <2> DEFINE last == [locator |-> Current, body |-> body]
             k    == Len(authRecords)
  <2>1. authRecords' = Append(authRecords, last) /\ last.locator = Current /\ last.body = body
    BY <1>1, <1>8
  <2> HIDE DEF last
  <2>2. /\ k \in Nat /\ DOMAIN authRecords = 1..k /\ DOMAIN authRecords' = 1..(k + 1)
        /\ \A n \in 1..k : authRecords'[n] = authRecords[n]
        /\ authRecords'[k + 1] = last
    BY <1>6, <2>1
  <2> HIDE DEF k
  <2>3. DOMAIN authRecords' = DOMAIN authRecords \cup {k + 1}
    BY <2>2
  <2>4. SignedAreKept'
    <3>1. {authRecords'[n].locator : n \in DOMAIN authRecords'} =
            {authRecords[n].locator : n \in DOMAIN authRecords} \cup {Current}
      BY <2>1, <2>2, <2>3
    <3>2. Flagged(gpo.afl, place) /\ Current = Locator(gpo.afl, place)
      BY <1>8 DEF Signed, Current
    <3> QED BY <1>2, <1>3, <3>1, <3>2 DEF SignedRecordsIntact, SignedAreKept
  <2>5. KeptInOrder'
    <3> SUFFICES ASSUME NEW m \in DOMAIN authRecords', NEW n \in DOMAIN authRecords', m < n,
                        NEW p \in Places(gpo.afl), NEW q \in Places(gpo.afl),
                        Locator(gpo.afl, p) = authRecords'[m].locator,
                        Locator(gpo.afl, q) = authRecords'[n].locator
                 PROVE  Before(p, q)
      BY <1>2 DEF KeptInOrder
    <3>1. m \in DOMAIN authRecords /\ authRecords'[m] = authRecords[m]
      BY <2>2
    <3>2. CASE n \in DOMAIN authRecords
      <4>1. authRecords'[n] = authRecords[n]
        BY <2>2, <3>2
      <4> QED BY <1>2, <3>1, <3>2, <4>1 DEF SignedRecordsIntact, KeptInOrder
    <3>3. CASE n = k + 1
      <4>1. Locator(gpo.afl, q) = Locator(gpo.afl, place)
        BY <2>1, <2>2, <3>3 DEF Current
      <4>2. PlanAccepted(gpo.afl)
        BY <1>2 DEF ReadInv, Progress
      <4>3. q = place
        BY <1>2, <4>1, <4>2 DEF PlanAccepted
      <4>4. Before(p, place)
        BY <1>2, <3>1, KeptComesBefore DEF SignedRecordsIntact
      <4> QED BY <4>3, <4>4
    <3> QED BY <2>3, <3>2, <3>3
  <2>6. StoredAsKept'
    <3> SUFFICES ASSUME NEW n \in DOMAIN authRecords', NEW i \in DOMAIN authRecords'[n].body
                 PROVE  LET object == authRecords'[n].body[i] IN
                        /\ object.tag \in DOMAIN store'
                        /\ object.tag # "9F10" => store'[object.tag] = object.value
      BY DEF StoredAsKept
    <3>1. CASE n \in DOMAIN authRecords
      <4>1. authRecords'[n] = authRecords[n]
        BY <2>2, <3>1
      <4> QED BY <1>5, <3>1, <4>1 DEF SignedRecordsIntact, StoredAsKept
    <3>2. CASE n = k + 1
      <4>1. authRecords'[n].body = body
        BY <2>1, <2>2, <3>2
      <4> QED BY <1>5, <4>1
    <3> QED BY <2>3, <3>1, <3>2
  <2> QED BY <2>4, <2>5, <2>6 DEF SignedRecordsIntact
<1> QED BY <1>7, <1>8

(* A step that reads no record keeps what was kept.                        *)
LEMMA KeptUnchanged ==
  ASSUME SignedAreKept, KeptInOrder,
         gpo' = gpo, authRecords' = authRecords, PlacesRead' = PlacesRead
  PROVE  SignedAreKept' /\ KeptInOrder'
PROOF
<1>1. SignedAreKept'
  BY DEF SignedAreKept
<1>2. KeptInOrder'
  BY DEF KeptInOrder
<1> QED BY <1>1, <1>2

(* Every step keeps the signed records intact.                             *)
LEMMA SignedStep == ReadInv /\ SignedRecordsIntact /\ [Next]_vars => SignedRecordsIntact'
PROOF
<1> SUFFICES ASSUME ReadInv, SignedRecordsIntact, [Next]_vars PROVE SignedRecordsIntact'
  OBVIOUS
<1>1. CASE StoreKept
  <2>1. /\ store' = store /\ gpo' = gpo /\ authRecords' = authRecords
        /\ PlacesRead' = PlacesRead
    BY <1>1, StoreKeptStep, PlacesReadStep
  <2> QED BY <2>1, KeptUnchanged DEF SignedRecordsIntact, StoredAsKept
<1>2. CASE GetProcessingOptions
  <2>1. /\ authRecords' = <<>> /\ reading' = "none" /\ place' = <<1, 0>>
    BY <1>2 DEF GetProcessingOptions, ReadInv, Progress
  <2>2. gpo' # NoGpo /\ ReadInv'
    <3>1. gpo' \in Gpos
      BY <1>2 DEF GetProcessingOptions
    <3>2. gpo'.format \in {"77", "80"}
      BY <3>1, DataAssumption
    <3> QED BY <1>2, <3>2, GpoStep DEF NoGpo
  <2>3. gpo'.afl \in Seq(Entries) /\ AflAccepted(gpo'.afl)
    BY <2>2, DataAssumption DEF ReadInv, TypeOK, Progress
  <2>4. \A p \in Places(gpo'.afl) : ~Before(p, place')
    BY <2>1, <2>3, PlaceParts DEF Before
  <2>5. PlacesRead' = {}
    BY <2>1, <2>4 DEF PlacesRead
  <2>6. SignedAreKept'
    BY <2>1, <2>5 DEF SignedAreKept
  <2>7. KeptInOrder' /\ StoredAsKept'
    BY <2>1 DEF KeptInOrder, StoredAsKept
  <2> QED BY <2>6, <2>7 DEF SignedRecordsIntact
<1>3. CASE ReadRecord
  BY <1>3, SignedRecordStep
<1>4. CASE GenerateAc
  <2>1. PICK response \in AcResponses : store' = PutResponse(response)
    BY <1>4 DEF GenerateAc
  <2>2. gpo' = gpo /\ authRecords' = authRecords /\ PlacesRead' = PlacesRead
    BY <1>4, PlacesReadStep DEF GenerateAc
  <2>3. /\ DOMAIN store \subseteq DOMAIN store'
        /\ \A tag \in DOMAIN store \ AcTags : store'[tag] = store[tag]
    BY <2>1, PutResponseOthers DEF ReadInv, TypeOK
  <2>4. StoredAsKept'
    BY <2>2, <2>3, TagOwners, KeptWhileStored DEF SignedRecordsIntact
  <2> QED BY <2>2, <2>4, KeptUnchanged DEF SignedRecordsIntact
<1> QED BY <1>1, <1>2, <1>3, <1>4, NextByStore

(* Static authentication hashes the flagged records read so far, in the    *)
(* order of the AFL, and the store goes on to hold what they say.          *)
THEOREM SignedRecordsAreIntact == Spec => []SignedRecordsIntact
PROOF
<1>1. Init => ReadInv /\ SignedRecordsIntact
  BY ReadInit, SignedInit
<1>2. ReadInv /\ SignedRecordsIntact /\ [Next]_vars => ReadInv' /\ SignedRecordsIntact'
  BY ReadStep, SignedStep
<1> QED BY <1>1, <1>2, PTL DEF Spec

-----------------------------------------------------------------------------
(* The keys depend on the profile and on tags GENERATE AC does not put.    *)
LEMMA KeysKept ==
  ASSUME profile' = profile, \A tag : tag \notin AcTags => Get(tag)' = Get(tag)
  PROVE  IssuerKeys' = IssuerKeys /\ IccKeys' = IccKeys
PROOF
<1>1. /\ Get("8F")' = Get("8F") /\ Get("90")' = Get("90") /\ Get("92")' = Get("92")
      /\ Get("9F32")' = Get("9F32") /\ Get("9F46")' = Get("9F46")
      /\ Get("9F47")' = Get("9F47") /\ Get("9F48")' = Get("9F48")
  BY DEF AcTags
<1>2. CaKeys' = CaKeys
  BY <1>1 DEF CaKeys
<1>3. IssuerKeys' = IssuerKeys
  BY <1>1, <1>2 DEF IssuerKeys
<1> QED BY <1>1, <1>3 DEF IccKeys

(* An authentication without its keys is reported as failed.               *)
LEMMA OutcomeShowsMissingKeys ==
  ASSUME NEW m \in Methods, NEW v \in BOOLEAN, FailedBit[m] \notin OutcomeBits(m, v)
  PROVE  IssuerKeys # {} /\ (m # "Sda" => IccKeys # {})
PROOF
<1>1. IssuerKeys \in SUBSET IssuerKeys
  OBVIOUS
<1> QED BY <1>1 DEF OutcomeBits

(* Every step keeps the verdict backed.                                    *)
LEMMA VerdictStep == ReadInv /\ OwnersRespected /\ VerdictBacked /\ [Next]_vars => VerdictBacked'
PROOF
<1> SUFFICES ASSUME ReadInv, OwnersRespected, VerdictBacked, [Next]_vars PROVE VerdictBacked'
  OBVIOUS
<1>1. ASSUME Fail \/ GetProcessingOptions \/ ReadRecord \/ EndOfRecords \/ RecordReadFailed
      PROVE  VerdictBacked'
  <2>1. phase' \notin {"gac", "done"}
    BY <1>1 DEF Fail, GetProcessingOptions, ReadRecord, NextPlace, EndOfRecords,
                RecordReadFailed, ToOda, Reading
  <2> QED BY <2>1 DEF VerdictBacked
<1>2. ASSUME NotPerformed PROVE VerdictBacked'
  BY <1>2 DEF NotPerformed, VerdictBacked
<1>3. ASSUME NEW m \in Methods, NEW v \in BOOLEAN, Perform(m, v) PROVE VerdictBacked'
  <2>1. /\ tvr' = tvr \cup OutcomeBits(m, v) /\ phase' = "gac" /\ method' = m
        /\ profile' = profile /\ store' = store
    BY <1>3 DEF Perform
  <2>2. IssuerKeys' = IssuerKeys /\ IccKeys' = IccKeys
    BY <2>1, KeysKept DEF Get
  <2>3. \/ FailedBit[m] \in tvr'
        \/ IssuerKeys # {} /\ (m # "Sda" => IccKeys # {})
    BY <2>1, OutcomeShowsMissingKeys
  <2> QED BY <2>1, <2>2, <2>3 DEF VerdictBacked
<1>4. ASSUME GenerateAc PROVE VerdictBacked'
  <2>1. PICK response \in AcResponses :
          /\ store' = PutResponse(response)
          /\ tvr' = IF method = "Cda" /\ ~CdaVerified(response)
                    THEN tvr \cup {"CdaFailed"} ELSE tvr
    BY <1>4 DEF GenerateAc
  <2>2. phase = "gac" /\ phase' = "done" /\ method' = method /\ profile' = profile
    BY <1>4 DEF GenerateAc, odaVars
  <2>3. store \in [DOMAIN store -> STRING] /\ DOMAIN store \cap DynamicTags = {}
    BY <2>2 DEF ReadInv, TypeOK, OwnersRespected
  <2>4. \A tag : tag \notin AcTags => Get(tag)' = Get(tag)
    BY <2>1, <2>3, PutResponseOthers DEF Get
  <2>5. IssuerKeys' = IssuerKeys /\ IccKeys' = IccKeys
    BY <2>2, <2>4, KeysKept
  <2>6. \A tag \in AcTags \cap DynamicTags : Get(tag)' = response[tag]
    BY <2>1, <2>3, PutResponseOthers DEF Get
  <2>7. /\ Get("9F4B")' = response["9F4B"] /\ Get("9F26")' = response["9F26"]
        /\ Get("9F4C")' = response["9F4C"]
    BY <2>6 DEF AcTags, DynamicTags
  <2>8. tvr \subseteq tvr'
    BY <2>1
  <2>9. method # "none" =>
          \/ FailedBit[method] \in tvr'
          \/ IssuerKeys' # {} /\ (method # "Sda" => IccKeys' # {})
    BY <2>2, <2>5, <2>8 DEF VerdictBacked
  <2>10. method = "Cda" => "CdaFailed" \in tvr' \/ CdaVerified(response)
    BY <2>1
  <2>11. CdaVerified(response) =>
           Verifies("dynamic", IccKeys', Get("9F4B")',
             <<Get("9F26")'>> \o IF profile'.withNumber THEN <<Get("9F4C")'>> ELSE <<>>)
    BY <2>2, <2>5, <2>7 DEF CdaVerified, CdaText
  <2> QED BY <2>2, <2>9, <2>10, <2>11 DEF VerdictBacked, Verifies
<1>5. CASE UNCHANGED vars
  <2>1. IssuerKeys' = IssuerKeys /\ IccKeys' = IccKeys
    BY <1>5, KeysKept DEF vars, Get
  <2> QED BY <1>5, <2>1 DEF vars, VerdictBacked, Verifies, Get
<1>6. StaticAuthentication \/ DynamicAuthentication \/ CombinedAuthentication =>
        \E m \in Methods, v \in BOOLEAN : Perform(m, v)
  BY AuthenticationPerforms
<1> QED BY <1>1, <1>2, <1>3, <1>4, <1>5, <1>6 DEF Next

(* Whatever the records, the certificates and the keys: an authentication  *)
(* without its failure bit has its keys in the store and, for CDA, a       *)
(* signature over the cryptogram in the store.                             *)
THEOREM VerdictsAreBacked == Spec => []VerdictBacked
PROOF
<1>1. Init => ReadInv /\ OwnersRespected /\ VerdictBacked
  <2>1. Init => VerdictBacked
    BY DEF Init, VerdictBacked
  <2> QED BY <2>1, ReadInit, OwnersInit
<1>2. ReadInv /\ OwnersRespected /\ VerdictBacked /\ [Next]_vars
        => ReadInv' /\ OwnersRespected' /\ VerdictBacked'
  BY ReadStep, OwnersStep, VerdictStep
<1> QED BY <1>1, <1>2, PTL DEF Spec
=============================================================================
