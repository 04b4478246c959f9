----------------------------- MODULE MCProfiles -----------------------------
(***************************************************************************)
(* ProfileStore for TLC: schemes with one flaw each and without any, alone *)
(* and together, in documents whose scope fits them or not, and bundles of *)
(* two anchored signers.                                                   *)
(***************************************************************************)
EXTENDS ProfileStore

Key(index, expiry, retrieved, checksum) ==
  [index |-> index, expiry |-> expiry, retrieved |-> retrieved, checksum |-> checksum]
Aid(rid, pix, interfaces) == [rid |-> rid, pix |-> pix, interfaces |-> interfaces]
Scheme(name, rid, kernels, aids, capks) ==
  [name |-> name, rid |-> rid, kernels |-> kernels, aids |-> aids, capks |-> capks]

Card(rid)  == <<Aid(rid, "p1", {"contact"}), Aid(rid, "p2", {"contactless"})>>
Keys       == <<Key("k1", 3, 1, TRUE), Key("k2", 2, 1, TRUE)>>
Scheme1    == Scheme("A", "r1", Interfaces, Card("r1"), Keys)
Scheme2    == Scheme("B", "r2", Interfaces, Card("r2"), Keys)
SameName   == Scheme("A", "r2", {"contact"}, <<Aid("r2", "p1", {"contact"})>>, Keys)
SameRid    == Scheme("C", "r1", Interfaces, Card("r1"), Keys)
Flawed ==
  {Scheme("A", "r1", {"contact"}, Card("r1"), Keys),
   Scheme("A", "r1", Interfaces, Card("r2"), Keys),
   Scheme("A", "r1", Interfaces, Card("r1") \o Card("r1"), Keys),
   Scheme("A", "r1", Interfaces, Card("r1"), <<Key("k1", 3, 1, FALSE)>>),
   Scheme("A", "r1", Interfaces, Card("r1"), <<Key("k1", 3, 2, TRUE)>>),
   Scheme("A", "r1", Interfaces, Card("r1"), Keys \o Keys)}

Document(bundled, schemes) ==
  [class |-> "CERTIFICATION", retrieved |-> 1, bundled |-> bundled,
   labSupplied |-> {"D"}, schemes |-> schemes]
Fitting == {Document(<<"A">>, <<Scheme1>>), Document(<<"B", "A">>, <<Scheme1, Scheme2>>)}
SomeDocuments ==
  Fitting
  \cup {Document(<<"A">>, <<s>>) : s \in Flawed}
  \cup {Document(<<"A">>, <<Scheme1, SameName>>),
        Document(<<"A", "B", "C">>, <<Scheme1, Scheme2, SameRid>>),
        Document(<<"A", "C">>, <<Scheme1, SameRid>>), Document(<<"B">>, <<Scheme1>>),
        Document(<<"A", "D">>, <<Scheme1, Scheme("D", "r2", Interfaces, Card("r2"), Keys)>>),
        [Document(<<"A">>, <<Scheme1>>) EXCEPT !.class = "EXAMPLE_ONLY"],
        [Document(<<"B">>, <<Scheme2>>) EXCEPT !.retrieved = 2]}

SomeBundles ==
  {[class |-> c, created |-> d, counter |-> n, signer |-> s, signed |-> ok,
    document |-> doc] :
     c \in {"TESTING", "CERTIFICATION"}, d \in 1..2, n \in 1..2, s \in {"s1", "s2"},
     ok \in BOOLEAN, doc \in Fitting}

SomeAnchors ==
  {<<[signer |-> "s1", allowed |-> doc, notAfter |-> 2],
     [signer |-> "s2", allowed |-> doc, notAfter |-> 3],
     [signer |-> "s1", allowed |-> Document(<<"A">>, <<Scheme1>>), notAfter |-> 3]>> :
     doc \in Fitting}
=============================================================================
