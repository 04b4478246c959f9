-------------------------- MODULE ResponseParsing --------------------------
(***************************************************************************)
(* What the kernel makes of the bytes of a card or of a host: the PDOL of  *)
(* a SELECT answer, the answers to GET PROCESSING OPTIONS, INTERNAL        *)
(* AUTHENTICATE and GENERATE AC in their formats, the host response with   *)
(* its scripts; and what it builds from them, the GET PROCESSING OPTIONS   *)
(* template and the online authorization package.  A card or a host may    *)
(* send any bytes, well-formed or not.                                     *)
(***************************************************************************)
EXTENDS DataObjects, FiniteSets

CONSTANTS
  MaxIad,              \* MAX_ISSUER_APPLICATION_DATA_LEN, 32 in the code
  MinSignature,        \* MIN_ODA_SIGNATURE_BYTES, 8
  MaxCommands,         \* MAX_SCRIPT_COMMANDS, 32
  MaxCommandLength,    \* MAX_SCRIPT_COMMAND_LEN, 261
  MaxPackage,          \* MAX_ONLINE_AUTH_DATA_LEN, 1024
  Store,               \* the values of card_data, by tag
  Senders,             \* what is sent: a set of [groups, templates, noise]
  StrayBytes,          \* the bytes one of a message may be changed into
  MaxSteps, MaxDamaged \* bounds: steps of a sender, bytes of what is damaged

ASSUME ParsingAssumption ==
  /\ {MaxIad, MinSignature, MaxCommands, MaxCommandLength, MaxPackage} \subseteq Nat
  /\ MinSignature > 0 /\ MaxIad < \h80 /\ MaxPackage <= MaxValueLength
  /\ \A tag \in DOMAIN Store : ValidDataTag(tag) /\ Store[tag] \in Seq(Byte)
  /\ StrayBytes \subseteq Byte

No == [ok |-> FALSE]

(* A template: exactly one object, with one of the tags.                   *)
Only(p, tags) == p.ok /\ Len(p.items) = 1 /\ p.items[1].tag \in tags
Primitive(items) == \A i \in DOMAIN items : ~items[i].constructed
AllUnique(items, tags) == \A tag \in tags : UniqueDirect(items, tag)

-----------------------------------------------------------------------------
(* SELECT and GET PROCESSING OPTIONS.                                      *)

(* parse_pdol_from_fci: 9F38 of a template A5 in 6F, in one at most.       *)
ListsIn(templates) ==
  FlattenSeq([i \in DOMAIN templates |-> Direct(templates[i].children, <<\h9F, \h38>>)])
PdolOf(lists) ==
  IF Len(lists) > 1 THEN No
  ELSE IF lists = <<>> THEN [ok |-> TRUE, entries |-> <<>>] ELSE ParseDol(lists[1].value)
PdolIn(p) ==
  IF Only(p, {<<\h6F>>}) THEN PdolOf(ListsIn(Direct(p.items[1].children, <<\hA5>>))) ELSE No
ParsePdol(b) == PdolIn(ParseMany(b))

(* Mutant: one length byte whatever the length.                            *)
BerLength_OneByte(n) == <<n>>

(* append_ber_length.                                                      *)
BerLength(n) == IF n < \h80 THEN <<n>> ELSE <<\h81, n>>

(* get_processing_options: the data of the command.                        *)
GpoData(values) == <<\h83>> \o BerLength(Len(values)) \o values

Quads(b) == [i \in 1..(Len(b) \div 4) |-> SubSeq(b, 4 * i - 3, 4 * i)]

(* parse_afl: SFI, first and last record, how many are authenticated.      *)
AflEntryValid(q) ==
  /\ q[1] % 8 = 0 /\ q[1] \div 8 \in 1..30
  /\ q[2] > 0 /\ q[3] >= q[2] /\ q[4] <= q[3] - q[2] + 1
ParseAfl(b) ==
  IF /\ b # <<>> /\ Len(b) % 4 = 0 /\ Len(b) <= 252
     /\ \A i \in DOMAIN Quads(b) : AflEntryValid(Quads(b)[i])
  THEN [ok |-> TRUE, entries |-> Quads(b)] ELSE No

Gpo(aip, b) ==
  LET afl == ParseAfl(b) IN
  IF Len(aip) = 2 /\ afl.ok THEN [ok |-> TRUE, aip |-> aip, afl |-> afl.entries] ELSE No

GpoIn(p) ==
  LET template80(value) == IF Len(value) <= 2 THEN No
                           ELSE Gpo(SubSeq(value, 1, 2), SubSeq(value, 3, Len(value)))
      template77(items) ==
        IF Primitive(items) /\ AllUnique(items, {<<\h82>>, <<\h94>>})
        THEN Gpo(DirectValue(items, <<\h82>>), DirectValue(items, <<\h94>>)) ELSE No
  IN IF ~Only(p, {<<\h77>>, <<\h80>>}) THEN No
     ELSE IF p.items[1].tag = <<\h80>> THEN template80(p.items[1].value)
     ELSE template77(p.items[1].children)
ParseGpo(b) == GpoIn(ParseMany(b))

-----------------------------------------------------------------------------
(* INTERNAL AUTHENTICATE and GENERATE AC.                                  *)
Cid  == <<\h9F, \h27>>
Ac   == <<\h9F, \h26>>
Atc  == <<\h9F, \h36>>
Iad  == <<\h9F, \h10>>
Sdad == <<\h9F, \h4B>>
DynamicNumber == <<\h9F, \h4C>>
AcTags == {Cid, Ac, Atc, Iad, Sdad, DynamicNumber}

(* None of a value that may be left out is an empty one: neither value may *)
(* be empty when it is there.                                              *)
Dynamic(items) ==
  [sdad |-> DirectValue(items, Sdad), number |-> DirectValue(items, DynamicNumber)]
DynamicValid(items) ==
  /\ AllUnique(items, {Sdad, DynamicNumber})
  /\ Present(items, Sdad) => Len(DirectValue(items, Sdad)) >= MinSignature
  /\ Present(items, DynamicNumber) => DirectValue(items, DynamicNumber) # <<>>

(* parse_internal_authenticate_response.                                   *)
AuthenticationOf(items) ==
  IF Primitive(items) /\ DynamicValid(items) /\ Present(items, Sdad)
  THEN [ok |-> TRUE, dynamic |-> Dynamic(items)] ELSE No
AuthenticationIn(p) ==
  IF Only(p, {<<\h77>>}) THEN AuthenticationOf(p.items[1].children) ELSE No
ParseInternalAuthenticate(b) == AuthenticationIn(ParseMany(b))

AcResponse(cid, ac, atc, iad, dynamic) ==
  [ok |-> TRUE, cid |-> cid, ac |-> ac, atc |-> atc, iad |-> iad, dynamic |-> dynamic]

(* parse_format_1: the four values one after the other.                    *)
AcFormat1(value) ==
  IF Len(value) \notin 11..(11 + MaxIad) THEN No
  ELSE AcResponse(<<value[1]>>, SubSeq(value, 4, 11), SubSeq(value, 2, 3),
                  SubSeq(value, 12, Len(value)), Dynamic(<<>>))

(* parse_format_2: objects in any order, others among them.                *)
AcFormat2(items) ==
  IF /\ Primitive(items) /\ AllUnique(items, AcTags) /\ DynamicValid(items)
     /\ Len(DirectValue(items, Cid)) = 1 /\ Len(DirectValue(items, Ac)) = 8
     /\ Len(DirectValue(items, Atc)) = 2 /\ Len(DirectValue(items, Iad)) <= MaxIad
  THEN AcResponse(DirectValue(items, Cid), DirectValue(items, Ac), DirectValue(items, Atc),
                  DirectValue(items, Iad), Dynamic(items))
  ELSE No

AcIn(p) ==
  IF ~Only(p, {<<\h77>>, <<\h80>>}) THEN No
  ELSE IF p.items[1].tag = <<\h80>> THEN AcFormat1(p.items[1].value)
  ELSE AcFormat2(p.items[1].children)
ParseGenerateAc(b) == AcIn(ParseMany(b))

(* build_online_authorization_package.                                     *)
PackageTags ==
  << <<\h9F, \h37>>, <<\h95>>, <<\h9A>>, <<\h9C>>, <<\h9F, \h02>>, <<\h5F, \h2A>>, <<\h82>>,
     <<\h9F, \h1A>>, <<\h9F, \h33>>, <<\h9F, \h40>>, <<\h9F, \h34>>, <<\h9F, \h66>>,
     <<\h5A>>, <<\h57>> >>

Package(r) ==
  LET value(tag, v) == [tag |-> tag, value |-> v]
      stored(tag) == IF tag \in DOMAIN Store THEN <<value(tag, Store[tag])>> ELSE <<>>
  IN <<value(Ac, r.ac), value(Cid, r.cid), value(Atc, r.atc)>>
     \o (IF r.iad = <<>> THEN <<>> ELSE <<value(Iad, r.iad)>>)
     \o FlattenSeq([i \in DOMAIN PackageTags |-> stored(PackageTags[i])])

(* append_tlv, and encode_online_authorization_package up to its limit.    *)
Tlv(object) == object.tag \o LengthField(Len(object.value)) \o object.value
Encoded(objects) == FlattenSeq([i \in DOMAIN objects |-> Tlv(objects[i])])
Limited(bytes) == IF Len(bytes) <= MaxPackage THEN [ok |-> TRUE, bytes |-> bytes] ELSE No
EncodedPackage(package) == Limited(Encoded(package))

-----------------------------------------------------------------------------
(* The host response.                                                      *)
Arc      == <<\h8A>>
AuthCode == <<\h89>>
IssuerAuth == <<\h91>>
ScriptTags == {<<\h71>>, <<\h72>>}
Identifier == <<\h9F, \h18>>
Command    == <<\h86>>
HostTags   == {Arc, AuthCode, IssuerAuth} \cup ScriptTags

(* authorization_text_is_valid: letters, digits and blanks.                *)
Text == \h20..\h20 \cup \h30..\h39 \cup \h41..\h5A \cup \h61..\h7A
TextOf(value, n) == Len(value) = n /\ Range(value) \subseteq Text

(* validate_script_command_apdu: a header; and Lc, which is not 0 if there *)
(* are data, the data, and perhaps Le.                                     *)
CommandValid(c) ==
  /\ Len(c) \in 4..MaxCommandLength
  /\ Len(c) > 5 => c[5] # 0 /\ Len(c) \in {5 + c[5], 6 + c[5]}

(* parse_script_template.                                                  *)
ScriptValid(items) ==
  /\ \A i \in DOMAIN items : items[i].tag \in {Identifier, Command}
  /\ UniqueDirect(items, Identifier)
  /\ Present(items, Identifier) => Len(DirectValue(items, Identifier)) = 4
  /\ Len(Direct(items, Command)) \in 1..MaxCommands
  /\ \A i \in DOMAIN items : items[i].tag = Command => CommandValid(items[i].value)

Script(template) ==
  [phase |-> template.tag, identifier |-> DirectValue(template.children, Identifier),
   commands |-> [i \in DOMAIN Direct(template.children, Command) |->
                   Direct(template.children, Command)[i].value]]

Templates(items) ==
  FlattenSeq([i \in DOMAIN items |-> IF items[i].tag \in ScriptTags THEN <<items[i]>> ELSE <<>>])
Commands(scripts) == FlattenSeq([i \in DOMAIN scripts |-> scripts[i].commands])

(* Mutant: the templates 71 come before the templates 72.                  *)
CollectScripts_ByPhase(items) ==
  LET of(tag) == Direct(items, tag)
      ordered == of(<<\h71>>) \o of(<<\h72>>)
  IN [i \in DOMAIN ordered |-> Script(ordered[i])]

(* collect_scripts: in the order of the response.                          *)
CollectScripts(items) ==
  [i \in DOMAIN Templates(items) |-> Script(Templates(items)[i])]

(* parse_host_response, with reject_unsupported_host_response_objects.     *)
HostObjectsValid(items) ==
  /\ \A i \in DOMAIN items :
       /\ items[i].tag \in HostTags
       /\ \A o \in Range(Flatten(items[i].children)) : o.tag \notin HostTags
  /\ AllUnique(items, {Arc, AuthCode, IssuerAuth})
  /\ TextOf(DirectValue(items, Arc), 2)
  /\ Present(items, AuthCode) => TextOf(DirectValue(items, AuthCode), 6)
  /\ Present(items, IssuerAuth) => Len(DirectValue(items, IssuerAuth)) \in 8..16
  /\ \A o \in Range(Templates(items)) : ScriptValid(o.children)

HostResponse(items, scripts) ==
  IF Len(Commands(scripts)) > MaxCommands THEN No
  ELSE [ok |-> TRUE, arc |-> DirectValue(items, Arc), code |-> DirectValue(items, AuthCode),
        auth |-> DirectValue(items, IssuerAuth), scripts |-> scripts]
HostResponseIn(p) ==
  IF ~p.ok THEN No
  ELSE IF ~HostObjectsValid(p.items) THEN No
  ELSE HostResponse(p.items, CollectScripts(p.items))
ParseHostResponse(b) == HostResponseIn(ParseMany(b))

-----------------------------------------------------------------------------
(* Where the bytes come from.                                              *)

(* Objects one after the other, with what is inside of each.               *)
Listed(items) ==
  /\ items \in Seq(Range(items))
  /\ \A o \in Range(items) : o.inside \in Seq(Range(o.inside)) /\ o.depth \in Nat

(* An object with its children encoded in its value.                       *)
ProperObject(o) ==
  /\ o.tag \in Seq(Byte) /\ ValidDataTag(o.tag) /\ o.value \in Seq(Byte)
  /\ o = Object(o.tag, o.value, o.children) /\ Listed(o.children)
  /\ IF o.constructed THEN o.value = Encoded(o.children) ELSE o.children = <<>>
Proper(items) == Listed(items) /\ \A o \in Range(Flatten(items)) : ProperObject(o)

(* A sender knows how to encode; noise is any bytes.                       *)
ASSUME SendersAssumption ==
  \A s \in Senders :
    /\ \A group \in s.groups : Proper(group)
    /\ \A tag \in s.templates : /\ tag \in Seq(Byte) /\ ValidDataTag(tag)
                                /\ Constructed(tag[1])
    /\ s.noise \subseteq Seq(Byte)

VARIABLES
  sender,   \* what the sender is composing
  objects,  \* the objects it has sent
  input,    \* their encoding, or what has become of it
  intact,   \* nothing has been lost, added or changed
  steps     \* of the sender
vars == <<sender, objects, input, intact, steps>>

Compose ==
  /\ sender' \in Senders
  /\ objects' = <<>> /\ input' = <<>> /\ intact' = TRUE /\ steps' = 0

Init ==
  /\ sender \in Senders
  /\ objects = <<>> /\ input = <<>> /\ intact = TRUE /\ steps = 0

Step == steps < MaxSteps /\ steps' = steps + 1 /\ UNCHANGED sender

(* What a length field can say.                                            *)
Encodable(bytes) == Len(bytes) <= \hFFFF

Send(group) ==
  /\ intact /\ Step
  /\ objects' = objects \o group /\ input' = input \o Encoded(group)
  /\ Encodable(input')
  /\ UNCHANGED intact

Enclose(tag) ==
  /\ intact /\ Step
  /\ objects' = <<Object(tag, input, objects)>> /\ input' = Encoded(objects')
  /\ Encodable(input')
  /\ UNCHANGED intact

Lose ==
  /\ intact /\ input # <<>>
  /\ input' = Front(input) /\ intact' = FALSE
  /\ UNCHANGED <<sender, objects, steps>>

Disturb(bytes) ==
  /\ Step /\ Len(input) + Len(bytes) <= MaxDamaged
  /\ input' = input \o bytes /\ intact' = FALSE
  /\ UNCHANGED objects

Corrupt(i, byte) ==
  /\ intact /\ Len(input) <= MaxDamaged /\ input[i] # byte
  /\ input' = [input EXCEPT ![i] = byte] /\ intact' = FALSE
  /\ UNCHANGED <<sender, objects, steps>>

Damage ==
  \/ Lose
  \/ \E bytes \in sender.noise : Disturb(bytes)
  \/ \E i \in DOMAIN input : \E byte \in StrayBytes : Corrupt(i, byte)

Next ==
  \/ Compose
  \/ \E group \in sender.groups : Send(group)
  \/ \E tag \in sender.templates : Enclose(tag)
  \/ Damage

Spec == Init /\ [][Next]_vars

-----------------------------------------------------------------------------
WithinLimits(items) ==
  /\ Depth(items) <= MaxDepth /\ Len(Flatten(items)) <= MaxNodes
  /\ \A o \in Range(Flatten(items)) : Len(o.value) <= MaxValueLength

(* There is one encoding of a sequence of objects (KRN-TLV-001 and 003):   *)
(* what a sender encodes is what the parser takes it for, unless it is     *)
(* over a limit; and of bytes that are damaged the parser refuses what is  *)
(* not the encoding of the very objects it reads, or has a tag that the    *)
(* store would refuse.  So does the reader of tag lists.                   *)
ObjectsRead(p) ==
  /\ intact => /\ p.ok <=> WithinLimits(objects)
               /\ p.ok => p.items = objects
  /\ p.ok => /\ Encoded(p.items) = input /\ WithinLimits(p.items)
             /\ \A o \in Range(Flatten(p.items)) :
                  /\ ValidDataTag(o.tag)
                  /\ o.value = Encoded(o.children) \/ ~o.constructed

TagsRead(list) ==
  list.ok => /\ FlattenSeq(list.tags) = input
             /\ \A tag \in Range(list.tags) : ValidDataTag(tag)
             /\ Cardinality(Range(list.tags)) = Len(list.tags)

TlvFaithful == ObjectsRead(ParseMany(input)) /\ TagsRead(TagList(input))

(* A list of data objects is answered entry by entry: each entry finds at  *)
(* its place the datum, cut or filled up to the length it asks for, and    *)
(* with exact values nothing is filled up.  What is built goes into a      *)
(* short command, in a template the card can read back.                    *)
PlaceOf(entries, i) == TotalLength(SubSeq(entries, 1, i - 1))

Answered(entries, values) ==
  /\ Len(values) = TotalLength(entries)
  /\ \A i \in DOMAIN entries : \A k \in 1..entries[i].length :
       LET datum == ValueIn(Store, entries[i].tag) IN
       values[PlaceOf(entries, i) + k] = IF k <= Len(datum) THEN datum[k] ELSE 0

SentInTemplate(values, data) ==
  /\ Len(data) <= 255
  /\ Only(ParseMany(data), {<<\h83>>}) /\ ParseMany(data).items[1].value = values

BuiltAs(entries, padded, exact) ==
  /\ padded.ok <=> TotalLength(entries) <= MaxDolOutput
  /\ padded.ok => /\ Answered(entries, padded.values)
                  /\ SentInTemplate(padded.values, GpoData(padded.values))
  /\ exact.ok => padded.ok /\ exact.values = padded.values
  /\ exact.ok <=> padded.ok /\ \A i \in DOMAIN entries : ~Short(entries[i], Store)

DolBuilt(dol) ==
  dol.ok => BuiltAs(dol.entries, BuildDol(dol.entries, Store, "ZeroPadMissingAndShort"),
                    BuildDol(dol.entries, Store, "RequireExactValues"))

DolRead(dol) ==
  dol.ok => /\ input = FlattenSeq([i \in DOMAIN dol.entries |->
                                     Append(dol.entries[i].tag, dol.entries[i].length)])
            /\ \A i \in DOMAIN dol.entries : ValidDataTag(dol.entries[i].tag)

DolFaithful ==
  DolRead(ParseDol(input)) /\ DolBuilt(ParseDol(input)) /\ DolBuilt(ParsePdol(input))

(* No object of an accepted host response is ignored, and its commands are *)
(* those of the response in the order of the response.                     *)
NothingIgnored(items, all, response) ==
  response.ok =>
    /\ Len(items) = 1 + Cardinality({x \in {"code", "auth"} : response[x] # <<>>})
                      + Len(response.scripts)
    /\ Commands(response.scripts) =
         [i \in DOMAIN Direct(all, Command) |-> Direct(all, Command)[i].value]
    /\ Len(all) =
         Len(items) + Len(Direct(all, Command))
         + Cardinality({i \in DOMAIN response.scripts : response.scripts[i].identifier # <<>>})

HostComplete ==
  NothingIgnored(ParseMany(input).items, Flatten(ParseMany(input).items),
                 ParseHostResponse(input))

(* The two formats of an answer say the same: what one says, sent in the   *)
(* other, is read the same, and an answer has one reading.                 *)
Sent77(values) ==
  LET objectsOf == [i \in DOMAIN values |-> Object(values[i].tag, values[i].value, <<>>)]
  IN Tlv(Object(<<\h77>>, Encoded(objectsOf), objectsOf))
Sent80(value) == Tlv(Object(<<\h80>>, value, <<>>))
ValueOf(tag, v) == [tag |-> tag, value |-> v]

AcAgrees(ac, auth) ==
  /\ ac.ok /\ ac.dynamic = Dynamic(<<>>) =>
       /\ ParseGenerateAc(Sent80(ac.cid \o ac.atc \o ac.ac \o ac.iad)) = ac
       /\ ParseGenerateAc(Sent77(<<ValueOf(Cid, ac.cid), ValueOf(Ac, ac.ac),
                                   ValueOf(Iad, ac.iad), ValueOf(Atc, ac.atc)>>)) = ac
  /\ ac.ok /\ ac.dynamic.sdad # <<>> => auth.ok /\ auth.dynamic = ac.dynamic

GpoAgrees(gpo) ==
  gpo.ok => /\ ParseGpo(Sent80(gpo.aip \o FlattenSeq(gpo.afl))) = gpo
            /\ ParseGpo(Sent77(<<ValueOf(<<\h94>>, FlattenSeq(gpo.afl)),
                                 ValueOf(<<\h82>>, gpo.aip)>>)) = gpo

FormatsAgree ==
  /\ AcAgrees(ParseGenerateAc(input), ParseInternalAuthenticate(input))
  /\ GpoAgrees(ParseGpo(input))

(* What is sent to the issuer can be parsed, and is what the card said.    *)
ReadsBack(back, package) ==
  /\ back.ok
  /\ package = [i \in DOMAIN back.items |-> ValueOf(back.items[i].tag, back.items[i].value)]

PackageSent(package) ==
  EncodedPackage(package).ok => ReadsBack(ParseMany(EncodedPackage(package).bytes), package)

PackageReadsBack ==
  ParseGenerateAc(input).ok => PackageSent(Package(ParseGenerateAc(input)))

(* What is accepted of a response is all of it, and read in one way only.  *)
ResponsesFaithful == HostComplete /\ FormatsAgree /\ PackageReadsBack
=============================================================================
