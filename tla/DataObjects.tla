---------------------------- MODULE DataObjects ----------------------------
(***************************************************************************)
(* The byte level of card and host data: BER-TLV objects (tlv.rs), data    *)
(* object lists and the store they are filled from (dol.rs).  What is not  *)
(* well-formed is refused; which of the errors a refusal reports is left   *)
(* out.  A reader is given the bytes that are left, the code an offset.    *)
(***************************************************************************)
EXTENDS Naturals, Sequences, SequencesExt

CONSTANTS
  MaxDepth,        \* MAX_TLV_DEPTH, 8 in the code
  MaxNodes,        \* MAX_TLV_NODES, 512
  MaxValueLength,  \* MAX_TLV_VALUE_LENGTH, 4096
  MaxTags,         \* MAX_STATIC_AUTH_TAG_LIST_TAGS, 16
  MaxDolEntries,   \* MAX_DOL_ENTRIES, 128
  MaxDolOutput     \* MAX_DOL_OUTPUT, 252

ASSUME EncodingAssumption ==
  /\ {MaxDepth, MaxNodes, MaxValueLength, MaxTags, MaxDolEntries, MaxDolOutput} \subseteq Nat
  /\ MaxDolOutput <= 252 /\ MaxValueLength >= 260 /\ MaxValueLength <= \hFFFF
  /\ MaxNodes >= 18 /\ MaxDepth > 0

Byte == 0..255
Bytes(n, byte) == [i \in 1..n |-> byte]
After(b, n)    == SubSeq(b, n + 1, Len(b))
OnlyElement(set) == CHOOSE x \in set : TRUE

-----------------------------------------------------------------------------
(* Tags.  A first byte of five low ones is continued by up to three bytes, *)
(* the last without its high bit.                                          *)
Reserved    == {\h00, \hFF}
Constructed(first) == (first \div \h20) % 2 = 1
Continued(first)   == first % \h20 = \h1F

(* read_tag: how many bytes there are in the tag they begin with, if any.  *)
TagLengths(b) ==
  IF b = <<>> THEN {}
  ELSE IF b[1] \in Reserved THEN {}
  ELSE IF ~Continued(b[1]) THEN {1}
  ELSE {n \in 2..4 : /\ n <= Len(b)
                     /\ b[2] % \h80 # 0
                     /\ b[n] < \h80
                     /\ \A j \in 2..(n - 1) : b[j] >= \h80}

(* read_dol_tag is another copy of read_tag.                               *)
DolTagLengths(b) == TagLengths(b)

(* validate_data_tag, the third reader of tags, guards the store.          *)
ValidDataTag(tag) ==
  /\ Len(tag) \in 1..4 /\ tag[1] \notin Reserved
  /\ IF Continued(tag[1])
     THEN /\ Len(tag) > 1 /\ tag[2] % \h80 # 0
          /\ \A i \in 2..Len(tag) : tag[i] >= \h80 <=> i < Len(tag)
     ELSE Len(tag) = 1

(* parse_unique_primitive_tag_list.                                        *)
TagStep(p, tagsFrom) ==
  IF p.bytes = <<>> THEN [ok |-> TRUE, tags |-> p.tags]
  ELSE IF \/ Len(p.tags) >= MaxTags \/ TagLengths(p.bytes) = {} \/ Constructed(p.bytes[1])
    THEN [ok |-> FALSE]
  ELSE LET n   == OnlyElement(TagLengths(p.bytes))
           tag == SubSeq(p.bytes, 1, n)
       IN IF Contains(p.tags, tag) THEN [ok |-> FALSE]
          ELSE tagsFrom[[bytes |-> After(p.bytes, n), tags |-> Append(p.tags, tag)]]

TagList(b) ==
  LET tagsFrom[p \in [bytes : Seq(Byte), tags : Seq(Seq(Byte))]] == TagStep(p, tagsFrom)
  IN IF b = <<>> THEN [ok |-> FALSE] ELSE tagsFrom[[bytes |-> b, tags |-> <<>>]]

-----------------------------------------------------------------------------
(* Lengths.                                                                *)

(* The number in the bytes after the first, of which there are "octets".   *)
Number(b, octets) ==
  IF octets = 1 THEN b[2]
  ELSE IF octets = 2 THEN \h100 * b[2] + b[3]
  ELSE \h10000 * b[2] + \h100 * b[3] + b[4]

Minimal(length, octets) ==
  length >= \h80 /\ (octets > 1 => length > \hFF) /\ (octets > 2 => length > \hFFFF)

(* Mutant: a longer form than necessary is read all the same.              *)
Lengths_AnyForm(b) ==
  IF b = <<>> THEN {}
  ELSE IF b[1] < \h80 THEN {[length |-> b[1], size |-> 1]}
  ELSE LET octets == b[1] - \h80 IN
       IF octets \in 1..3 /\ octets < Len(b) /\ Number(b, octets) <= MaxValueLength
       THEN {[length |-> Number(b, octets), size |-> octets + 1]} ELSE {}

(* read_length: the length the bytes begin with and how many it takes.     *)
Lengths(b) ==
  IF b = <<>> THEN {}
  ELSE IF b[1] < \h80 THEN {[length |-> b[1], size |-> 1]}
  ELSE LET octets == b[1] - \h80 IN
       IF /\ octets \in 1..3 /\ octets < Len(b)
          /\ Minimal(Number(b, octets), octets) /\ Number(b, octets) <= MaxValueLength
       THEN {[length |-> Number(b, octets), size |-> octets + 1]} ELSE {}

(* encode_length, which refuses more than \hFFFF.                          *)
LengthField(n) ==
  IF n < \h80 THEN <<n>>
  ELSE IF n <= \hFF THEN <<\h81, n>> ELSE <<\h82, n \div \h100, n % \h100>>

-----------------------------------------------------------------------------
(* Objects.  With an object is kept what is computed from its children:    *)
(* the objects inside it, as flatten lists them, and how deep they go.     *)

(* flatten: an object before the objects in it.                            *)
Flatten(items) == FlattenSeq([i \in DOMAIN items |-> <<items[i]>> \o items[i].inside])
Depth(items)   == Max({0} \cup {items[i].depth : i \in DOMAIN items})

Object(tag, value, children) ==
  [tag |-> tag, value |-> value, constructed |-> Constructed(tag[1]),
   children |-> children, inside |-> Flatten(children),
   depth |-> IF Constructed(tag[1]) THEN 1 + Depth(children) ELSE 0]

Sequence(items, nodes) == [ok |-> TRUE, items |-> items, nodes |-> nodes]
NoSequence == [ok |-> FALSE, items |-> <<>>]

(* The object the bytes begin with, if it is all there: its tag, its value *)
(* and what follows.                                                       *)
Heads(b) ==
  UNION {{[tag |-> SubSeq(b, 1, n), value |-> SubSeq(After(b, n + l.size), 1, l.length),
           rest |-> After(b, n + l.size + l.length)] :
            l \in {l \in Lengths(After(b, n)) : n + l.size + l.length <= Len(b)}} :
         n \in TagLengths(b)}

(* parse_sequence.  The nodes are counted over all depths.                 *)
At(b, depth, nodes) == [bytes |-> b, depth |-> depth, nodes |-> nodes]

SequenceStep(p, sequence) ==
  IF p.depth > MaxDepth THEN NoSequence
  ELSE IF p.bytes = <<>> THEN Sequence(<<>>, p.nodes)
  ELSE IF p.nodes >= MaxNodes \/ Heads(p.bytes) = {} THEN NoSequence
  ELSE LET head  == OnlyElement(Heads(p.bytes))
           inner == IF Constructed(head.tag[1])
                    THEN sequence[At(head.value, p.depth + 1, p.nodes + 1)]
                    ELSE Sequence(<<>>, p.nodes + 1)
       IN IF ~inner.ok THEN NoSequence
          ELSE LET rest == sequence[At(head.rest, p.depth, inner.nodes)]
               IN IF ~rest.ok THEN NoSequence
                  ELSE Sequence(<<Object(head.tag, head.value, inner.items)>> \o rest.items,
                                rest.nodes)

ParseMany(b) ==
  LET sequence[p \in [bytes : Seq(Byte), depth : Nat, nodes : Nat]] == SequenceStep(p, sequence)
  IN sequence[At(b, 0, 0)]

(* The objects with a tag, not looking into others.                        *)
Direct(items, tag) ==
  FlattenSeq([i \in DOMAIN items |-> IF items[i].tag = tag THEN <<items[i]>> ELSE <<>>])
Present(items, tag) == Direct(items, tag) # <<>>

(* find_unique_direct refuses two.                                         *)
UniqueDirect(items, tag) == Len(Direct(items, tag)) <= 1

(* Its value, empty where there is none.                                   *)
DirectValue(items, tag) ==
  IF Present(items, tag) THEN Direct(items, tag)[1].value ELSE <<>>

-----------------------------------------------------------------------------
(* Data object lists.                                                      *)
Entries == [tag : Seq(Byte), length : Byte]

(* parse_dol.                                                              *)
DolStep(p, dolFrom) ==
  IF p.bytes = <<>> THEN [ok |-> TRUE, entries |-> p.entries]
  ELSE IF Len(p.entries) >= MaxDolEntries THEN [ok |-> FALSE]
  ELSE IF \A n \in DolTagLengths(p.bytes) : n = Len(p.bytes) THEN [ok |-> FALSE]
  ELSE LET n == OnlyElement(DolTagLengths(p.bytes))
           entry == [tag |-> SubSeq(p.bytes, 1, n), length |-> p.bytes[n + 1]]
       IN dolFrom[[bytes |-> After(p.bytes, n + 1), entries |-> Append(p.entries, entry)]]

ParseDol(b) ==
  LET dolFrom[p \in [bytes : Seq(Byte), entries : Seq(Entries)]] == DolStep(p, dolFrom)
  IN dolFrom[[bytes |-> b, entries |-> <<>>]]

(* get: the value in a store, none being as good as an empty one.          *)
ValueIn(data, tag) == IF tag \in DOMAIN data THEN data[tag] ELSE <<>>

TotalLength(entries) ==
  LET total[n \in 0..Len(entries)] ==
        IF n = 0 THEN 0 ELSE total[n - 1] + entries[n].length
  IN total[Len(entries)]

(* The value cut to the length asked for, or filled up with zeros.         *)
Slot(entry, data) ==
  LET value == ValueIn(data, entry.tag) IN
  [i \in 1..entry.length |-> IF i <= Len(value) THEN value[i] ELSE 0]

Short(entry, data) == Len(ValueIn(data, entry.tag)) < entry.length

(* build_dol_with_policy.                                                  *)
BuildDol(entries, data, policy) ==
  IF \/ TotalLength(entries) > MaxDolOutput
     \/ /\ policy = "RequireExactValues"
        /\ \E i \in DOMAIN entries : Short(entries[i], data)
  THEN [ok |-> FALSE]
  ELSE [ok |-> TRUE, values |-> FlattenSeq([i \in DOMAIN entries |-> Slot(entries[i], data)])]
=============================================================================
