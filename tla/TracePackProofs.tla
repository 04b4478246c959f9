--------------------------- MODULE TracePackProofs ---------------------------
(***************************************************************************)
(* The audit of a pack, for any cases and policies and however many lines  *)
(* are lost and moved: a pack nothing happened to is accepted exactly when *)
(* its cases are sound (AuditIsExact), one that is accepted has lost whole *)
(* cases or nothing (LossesAreWholeCases), and reveals nothing sensitive   *)
(* but in Format 1 of the generic context (NothingSensitiveShown).         *)
(*                                                                         *)
(* The invariant (IInv) says where every line is: each line that was written *)
(* is in the pack or lost, none is in the pack twice or in both, and where *)
(* nothing happened they are in order.  A line is known by its case and its *)
(* place there, so the lines of a kind are counted by a bijection with the *)
(* steps or streams of their cases (PlacesOfCase, UnitsSplit).  The audit  *)
(* gives a line to the header last before it, which may be that of another *)
(* case once lines are lost or moved; but it finds as many lines for each  *)
(* name as that case wrote, so as many for all names together (FibresEqual, *)
(* NamedAreWhole), and what is lost is what the other cases wrote.  Last   *)
(* headers exist because the naturals are well-founded (LeastNumber,       *)
(* GreatestNumber).                                                        *)
(***************************************************************************)
EXTENDS TracePack, FiniteSetTheorems, SequenceTheorems, TLAPS

(* A set of numbers that is not empty has a least one.                     *)
LEMMA LeastNumber ==
  ASSUME NEW S, S \subseteq Nat, S # {}
  PROVE  \E n \in S : \A m \in S : n <= m
<1>1. PICK n \in S : \A m \in S : <<m, n>> \notin OpToRel(<, Nat)
  BY NatLessThanWellFounded, WFMin
<1>2. \A m \in S : ~ (m < n)
  BY <1>1 DEF OpToRel
<1>3. QED
  BY <1>2

(* A set of numbers that is not empty and has a bound has a greatest one.  *)
LEMMA GreatestNumber ==
  ASSUME NEW S, NEW b \in Nat, S \subseteq 0..b, S # {}
  PROVE  \E n \in S : \A m \in S : m <= n
<1> DEFINE D == {b - s : s \in S}
<1>1. D \subseteq Nat /\ D # {}
  <2>1. PICK s \in S : TRUE
    OBVIOUS
  <2>2. b - s \in D
    OBVIOUS
  <2>3. ASSUME NEW r \in S PROVE b - r \in Nat
    <3>1. r \in 0..b
      OBVIOUS
    <3>2. QED
      BY <3>1
  <2>4. QED
    BY <2>2, <2>3
<1> HIDE DEF D
<1>2. PICK d \in D : \A e \in D : d <= e
  BY <1>1, LeastNumber
<1>3. PICK n \in S : d = b - n
  BY <1>2 DEF D
<1>4. ASSUME NEW m \in S PROVE m <= n
  <2>1. b - m \in D
    BY DEF D
  <2>2. m \in 0..b /\ n \in 0..b
    OBVIOUS
  <2>3. QED
    BY <1>2, <1>3, <2>1, <2>2
<1>5. QED
  BY <1>4

(* What a pack is after a line of it is lost.                              *)
LEMMA RemoveAtProperties ==
  ASSUME NEW S, NEW s \in Seq(S), NEW i \in DOMAIN s
  PROVE  /\ RemoveAt(s, i) \in Seq(S)
         /\ Len(RemoveAt(s, i)) = Len(s) - 1
         /\ \A j \in 1..(Len(s) - 1) :
              RemoveAt(s, i)[j] = IF j < i THEN s[j] ELSE s[j + 1]
<1> DEFINE front == SubSeq(s, 1, i - 1)
           back  == SubSeq(s, i + 1, Len(s))
<1>1. i \in Nat /\ 1 <= i /\ i <= Len(s) /\ Len(s) \in Nat
  OBVIOUS
<1>2. /\ front \in Seq(S) /\ Len(front) = i - 1
      /\ \A j \in 1..(i - 1) : front[j] = s[j]
  BY <1>1
<1>3. /\ back \in Seq(S) /\ Len(back) = Len(s) - i
      /\ \A j \in 1..(Len(s) - i) : back[j] = s[i + j]
  BY <1>1
<1> HIDE DEF front, back
<1>4. /\ front \o back \in Seq(S)
      /\ Len(front \o back) = Len(front) + Len(back)
      /\ \A j \in 1..(Len(front) + Len(back)) :
           (front \o back)[j] = IF j <= Len(front) THEN front[j] ELSE back[j - Len(front)]
  BY <1>2, <1>3, ConcatProperties
<1>5. ASSUME NEW j \in 1..(Len(s) - 1)
      PROVE  (front \o back)[j] = IF j < i THEN s[j] ELSE s[j + 1]
  <2>1. (front \o back)[j] = IF j <= i - 1 THEN front[j] ELSE back[j - (i - 1)]
    <3>1. Len(front) = i - 1 /\ Len(front) + Len(back) = Len(s) - 1
      BY <1>1, <1>2, <1>3
    <3>2. j \in 1..(Len(front) + Len(back))
      BY <3>1
    <3>3. QED
      BY <1>4, <3>1, <3>2
  <2>2. CASE j < i
    BY <1>1, <1>2, <2>1, <2>2
  <2>3. CASE ~ (j < i)
    <3>1. j - (i - 1) \in 1..(Len(s) - i) /\ i + (j - (i - 1)) = j + 1
      BY <1>1, <2>3
    <3>2. back[j - (i - 1)] = s[i + (j - (i - 1))]
      BY <1>3, <3>1
    <3>3. QED
      BY <1>1, <2>1, <2>3, <3>1, <3>2
  <2>4. QED
    BY <2>2, <2>3
<1>6. RemoveAt(s, i) = front \o back
  BY DEF RemoveAt, front, back
<1>7. Len(front) + Len(back) = Len(s) - 1
  BY <1>1, <1>2, <1>3
<1>8. QED
  BY <1>4, <1>5, <1>6, <1>7

Fibre(f, S, k) == {s \in S : f[s] = k}

(* Where every key has as many elements on either side, so have all.       *)
LEMMA FibresEqual ==
  ASSUME NEW S, NEW T, IsFiniteSet(S), IsFiniteSet(T), NEW f, NEW g,
         \A k : Cardinality(Fibre(f, S, k)) = Cardinality(Fibre(g, T, k))
  PROVE  Cardinality(S) = Cardinality(T)
<1> DEFINE FS(k) == Fibre(f, S, k)
           FT(k) == Fibre(g, T, k)
           Match(k) == CHOOSE m : m \in Bijection(FS(k), FT(k))
           h == [s \in S |-> Match(f[s])[s]]
<1> USE DEF Fibre
<1>1. \A k : Match(k) \in Bijection(FS(k), FT(k))
  <2> TAKE k
  <2>1. IsFiniteSet(FS(k)) /\ IsFiniteSet(FT(k))
    BY FS_Subset, FS(k) \in SUBSET S, FT(k) \in SUBSET T
  <2>2. ExistsBijection(FS(k), FT(k))
    BY <2>1, FS_SameCardinalityBij
  <2>3. QED
    BY <2>2 DEF ExistsBijection
<1> HIDE DEF Match
<1>2. \A s \in S : h[s] \in T /\ g[h[s]] = f[s]
  BY <1>1 DEF Bijection, Injection
<1>3. \A s, r \in S : h[s] = h[r] => s = r
  <2> SUFFICES ASSUME NEW s \in S, NEW r \in S, h[s] = h[r]
               PROVE  s = r
    OBVIOUS
  <2>1. f[s] = f[r]
    BY <1>2
  <2>2. Match(f[s]) \in Injection(FS(f[s]), FT(f[s]))
    BY <1>1 DEF Bijection
  <2>3. s \in FS(f[s]) /\ r \in FS(f[s]) /\ Match(f[s])[s] = Match(f[s])[r]
    BY <2>1
  <2>4. QED
    BY <2>2, <2>3 DEF Injection, IsInjective
<1>4. \A t \in T : \E s \in S : h[s] = t
  <2> TAKE t \in T
  <2>1. t \in FT(g[t])
    OBVIOUS
  <2>2. Match(g[t]) \in Surjection(FS(g[t]), FT(g[t]))
    BY <1>1 DEF Bijection
  <2>3. PICK s \in FS(g[t]) : Match(g[t])[s] = t
    BY <2>1, <2>2 DEF Surjection
  <2>4. QED
    BY <2>3
<1>5. h \in Bijection(S, T)
  BY <1>2, <1>3, <1>4 DEF Bijection, Injection, Surjection, IsInjective
<1>6. QED
  BY <1>5, FS_Bijection DEF ExistsBijection

-----------------------------------------------------------------------------
(* What the file is made of.                                               *)

Line(by, at) ==
  [by |-> by, at |-> at, text |-> CaseText(AddedCase(by), added[by].policy, at)]

(* Every line that was written.                                            *)
Lines == UNION {{Line(by, at) : at \in 1..CaseSize(AddedCase(by))} : by \in DOMAIN added}

Earlier(a, b) == a.by < b.by \/ (a.by = b.by /\ a.at < b.at)

CasesAdded == /\ added \in Seq([case : DOMAIN Cases, policy : PolicyChoices])
              /\ \A by \in DOMAIN added : Written(AddedCase(by))
LinesKnown == pack \in Seq(Lines) /\ lost \subseteq Lines /\ swaps \in Nat
NoneTwice  == \A i, j \in DOMAIN pack : pack[i] = pack[j] => i = j
NoneGone   == \A line \in Lines : line \in lost <=> \A i \in DOMAIN pack : pack[i] # line
InOrder    == lost = {} /\ swaps = 0 =>
                \A i, j \in DOMAIN pack : i < j => Earlier(pack[i], pack[j])

(* What was written is in the file or was lost, each line once; and as     *)
(* long as nobody touches the file, in the order it was written.           *)
IInv == CasesAdded /\ LinesKnown /\ NoneTwice /\ NoneGone /\ InOrder

-----------------------------------------------------------------------------
(* The cases and their lines.                                              *)

(* A case that may be added has numbers of steps and streams.              *)
LEMMA CaseLengths ==
  ASSUME NEW n \in DOMAIN Cases
  PROVE  /\ Cases[n].steps \in Seq(Exchanges) /\ Cases[n].streams \in Seq(Responses)
         /\ Len(Cases[n].steps) \in Nat /\ Len(Cases[n].streams) \in Nat
         /\ CaseSize(Cases[n]) \in Nat
<1>1. Cases[n] \in CaseShape
  BY CasesAssumption, ElementOfSeq, LenProperties
<1>2. Cases[n].steps \in Seq(Exchanges) /\ Cases[n].streams \in Seq(Responses)
  BY <1>1 DEF CaseShape
<1>3. Len(Cases[n].steps) \in Nat /\ Len(Cases[n].streams) \in Nat
  BY <1>2, LenProperties
<1>4. CaseSize(Cases[n]) \in Nat
  <2>1. \A i, j \in Nat : 3 + 2 * i + j \in Nat
    OBVIOUS
  <2>2. 3 + 2 * Len(Cases[n].steps) + Len(Cases[n].streams) \in Nat
    BY <1>3, <2>1
  <2>3. QED
    BY <2>2 DEF CaseSize
<1>5. QED
  BY <1>2, <1>3, <1>4

(* The place of a line says which it is.                                   *)
LEMMA LineByPlace ==
  /\ \A line \in Lines : /\ line.by \in DOMAIN added
                         /\ line.at \in 1..CaseSize(AddedCase(line.by))
                         /\ line = Line(line.by, line.at)
  /\ \A by \in DOMAIN added : \A at \in 1..CaseSize(AddedCase(by)) :
       Line(by, at) \in Lines /\ Line(by, at).by = by /\ Line(by, at).at = at
  BY DEF Lines, Line

(* Lines have different places, and of two places one is the earlier.      *)
LEMMA EarlierTotal ==
  ASSUME CasesAdded, NEW a \in Lines, NEW b \in Lines
  PROVE  /\ a.by \in Nat /\ a.at \in Nat
         /\ Earlier(a, b) => ~ Earlier(b, a)
         /\ a # b => Earlier(a, b) \/ Earlier(b, a)
<1>1. \A line \in Lines : line.by \in DOMAIN added /\ line.at \in 1..CaseSize(AddedCase(line.by))
  BY LineByPlace
<1>2. DOMAIN added = 1..Len(added) /\ Len(added) \in Nat
  BY LenProperties DEF CasesAdded
<1>3. ASSUME NEW by \in DOMAIN added PROVE added[by].case \in DOMAIN Cases
  <2>1. added[by] \in [case : DOMAIN Cases, policy : PolicyChoices]
    BY <1>2, ElementOfSeq DEF CasesAdded
  <2>2. QED
    BY <2>1
<1>4. \A by \in DOMAIN added : CaseSize(AddedCase(by)) \in Nat
  BY <1>3, CaseLengths DEF AddedCase
<1>5. \A line \in Lines : line.by \in Nat /\ line.at \in Nat
  BY <1>1, <1>2, <1>4
<1>6. a # b => a.by # b.by \/ a.at # b.at
  BY LineByPlace
<1>7. QED
  BY <1>5, <1>6 DEF Earlier

-----------------------------------------------------------------------------
(* Appending a case.                                                       *)

(* The lines there were stay, those of the new case come after them.       *)
LEMMA AppendedLines ==
  ASSUME CasesAdded, NEW n \in DOMAIN Cases, NEW policy \in PolicyChoices,
         AppendCase(n, policy)
  PROVE  /\ CasesAdded'
         /\ \A line \in Lines : line.by \in 1..Len(added)
         /\ LET new == CaseLines(Cases[n], policy, Len(added) + 1)
            IN  /\ pack' = pack \o new
                /\ new \in Seq(Lines')
                /\ Lines' = Lines \cup {new[at] : at \in DOMAIN new}
                /\ \A at \in DOMAIN new : new[at].by = Len(added) + 1 /\ new[at].at = at
<1>a. PICK b : b = Len(added) + 1
  OBVIOUS
<1> DEFINE C == [case : DOMAIN Cases, policy : PolicyChoices]
           c == [case |-> n, policy |-> policy]
           new == CaseLines(Cases[n], policy, b)
<1> HIDE DEF C, new
<1>1. added \in Seq(C) /\ Len(added) \in Nat /\ DOMAIN added = 1..Len(added)
  BY LenProperties DEF CasesAdded, C
<1>2. added' = Append(added, c) /\ c \in C
  BY DEF AppendCase, C
<1>3. /\ added' \in Seq(C) /\ Len(added') = b /\ DOMAIN added' = 1..b
      /\ \A by \in 1..Len(added) : added'[by] = added[by]
      /\ added'[b] = c
  BY <1>1, <1>2, <1>a, AppendProperties, LenProperties
<1>4. /\ \A by \in 1..Len(added) : AddedCase(by)' = AddedCase(by)
      /\ AddedCase(b)' = Cases[n]
  <2>1. ASSUME NEW by \in 1..Len(added) PROVE AddedCase(by)' = AddedCase(by)
    BY <1>3 DEF AddedCase
  <2>2. Cases[added'[b].case] = Cases[n]
    BY <1>3
  <2>3. AddedCase(b)' = Cases[n]
    BY <1>2, <1>3, <2>2 DEF AddedCase
  <2>4. QED
    BY <2>1, <2>3
<1>5. 1..b = 1..Len(added) \cup {b} /\ b \notin 1..Len(added)
  BY <1>1, <1>a
<1>6. CasesAdded'
  <2>1. Written(Cases[n])
    BY DEF AppendCase
  <2>2. Written(AddedCase(b)')
    BY <1>4, <2>1
  <2>3. ASSUME NEW by \in 1..Len(added) PROVE Written(AddedCase(by)')
    BY <1>1, <1>4 DEF CasesAdded
  <2>4. \A by \in DOMAIN added' : Written(AddedCase(by)')
    BY <1>3, <1>5, <2>2, <2>3
  <2>5. QED
    BY <1>3, <2>4 DEF CasesAdded, Written, AddedCase, C
<1>7. \A by \in 1..Len(added) : \A at : Line(by, at)' = Line(by, at)
  BY <1>3, <1>4 DEF Line
<1>8. CaseSize(Cases[n]) \in Nat /\ DOMAIN new = 1..CaseSize(Cases[n])
  BY CaseLengths DEF CaseLines, new
<1>9. \A at \in DOMAIN new : new[at] = Line(b, at)'
  BY <1>3, <1>4 DEF CaseLines, Line, new, c
<1>10. Lines' = Lines \cup {new[at] : at \in DOMAIN new}
  <2> DEFINE M(by) == {Line(by, at)' : at \in 1..CaseSize(AddedCase(by)')}
  <2>1. Lines' = UNION {M(by) : by \in 1..b}
    BY <1>3 DEF Lines
  <2>2. Lines = UNION {M(by) : by \in 1..Len(added)}
    BY <1>1, <1>4, <1>7 DEF Lines
  <2>3. {new[at] : at \in DOMAIN new} = M(b)
    BY <1>4, <1>8, <1>9
  <2> HIDE DEF M
  <2>4. QED
    BY <1>5, <2>1, <2>2, <2>3
<1>11. new \in Seq(Lines')
  <2>1. \A at \in DOMAIN new : new[at] \in Lines'
    BY <1>10
  <2>2. new = [at \in 1..CaseSize(Cases[n]) |-> new[at]]
    BY <1>8 DEF CaseLines, new
  <2>3. QED
    BY <1>8, <2>1, <2>2
<1>12. \A at \in DOMAIN new : new[at].by = b /\ new[at].at = at
  BY DEF CaseLines, new
<1>13. pack' = pack \o new
  BY <1>3 DEF AppendCase, new
<1>14. \A line \in Lines : line.by \in 1..Len(added)
  BY <1>1, LineByPlace
<1>15. QED
  BY <1>6, <1>10, <1>11, <1>12, <1>13, <1>14, <1>a DEF new

(* Appending a case keeps the invariant.                                   *)
LEMMA AppendKeeps ==
  ASSUME IInv, NEW n \in DOMAIN Cases, NEW policy \in PolicyChoices, AppendCase(n, policy)
  PROVE  IInv'
<1>a. PICK b : b = Len(added) + 1
  OBVIOUS
<1> DEFINE new == CaseLines(Cases[n], policy, b)
<1>1. /\ CasesAdded'
      /\ \A line \in Lines : line.by \in 1..Len(added)
      /\ pack' = pack \o new
      /\ new \in Seq(Lines')
      /\ Lines' = Lines \cup {new[at] : at \in DOMAIN new}
      /\ \A at \in DOMAIN new : new[at].by = b /\ new[at].at = at
  BY <1>a, AppendedLines DEF IInv
<1> HIDE DEF new
<1>2. /\ lost = {} /\ swaps = 0 /\ lost' = {} /\ swaps' = 0
      /\ Len(added) \in Nat
      /\ pack \in Seq(Lines)
  BY LenProperties DEF AppendCase, IInv, LinesKnown, CasesAdded
<1>3. pack \in Seq(Lines')
  BY <1>1, <1>2, SeqMonotonic
<1>4. /\ Len(pack) \in Nat /\ DOMAIN pack = 1..Len(pack)
      /\ Len(new) \in Nat /\ DOMAIN new = 1..Len(new)
  BY <1>1, <1>2, LenProperties
<1>5. /\ pack' \in Seq(Lines') /\ DOMAIN pack' = 1..(Len(pack) + Len(new))
      /\ \A i \in 1..Len(pack) : pack'[i] = pack[i]
      /\ \A i \in 1..Len(new) : pack'[Len(pack) + i] = new[i]
  <2>1. /\ pack \o new \in Seq(Lines') /\ Len(pack \o new) = Len(pack) + Len(new)
        /\ \A i \in 1..(Len(pack) + Len(new)) :
             (pack \o new)[i] = IF i <= Len(pack) THEN pack[i] ELSE new[i - Len(pack)]
    BY <1>1, <1>3, ConcatProperties
  <2>2. DOMAIN (pack \o new) = 1..(Len(pack) + Len(new))
    BY <2>1, LenProperties
  <2>3. ASSUME NEW i \in 1..Len(pack) PROVE (pack \o new)[i] = pack[i]
    BY <1>4, <2>1
  <2>4. ASSUME NEW i \in 1..Len(new) PROVE (pack \o new)[Len(pack) + i] = new[i]
    <3>1. /\ Len(pack) + i \in 1..(Len(pack) + Len(new))
          /\ ~ (Len(pack) + i <= Len(pack)) /\ (Len(pack) + i) - Len(pack) = i
      BY <1>4
    <3>2. QED
      BY <2>1, <3>1
  <2>5. QED
    BY <1>1, <2>1, <2>2, <2>3, <2>4
<1>6. \A i \in DOMAIN pack' : \/ i \in 1..Len(pack)
                              \/ \E j \in 1..Len(new) : i = Len(pack) + j
  <2> TAKE i \in DOMAIN pack'
  <2>1. CASE i <= Len(pack)
    BY <1>4, <1>5, <2>1
  <2>2. CASE ~ (i <= Len(pack))
    <3>1. i - Len(pack) \in 1..Len(new) /\ i = Len(pack) + (i - Len(pack))
      BY <1>4, <1>5, <2>2
    <3>2. QED
      BY <3>1
  <2>3. QED
    BY <2>1, <2>2
<1>7. \A i \in 1..Len(pack) : pack[i] \in Lines /\ pack[i].by \in Nat /\ pack[i].by < b
  <2> TAKE i \in 1..Len(pack)
  <2>1. pack[i] \in Lines
    BY <1>2, ElementOfSeq
  <2>2. pack[i].by \in 1..Len(added)
    BY <1>1, <2>1
  <2>3. QED
    BY <1>2, <1>a, <2>1, <2>2
<1>8. InOrder'
  <2> SUFFICES ASSUME NEW i \in DOMAIN pack', NEW j \in DOMAIN pack', i < j
               PROVE  Earlier(pack'[i], pack'[j])
    BY DEF InOrder, Earlier
  <2>1. CASE i \in 1..Len(pack) /\ j \in 1..Len(pack)
    BY <1>2, <1>4, <1>5, <2>1 DEF IInv, InOrder
  <2>2. ASSUME i \in 1..Len(pack), NEW k \in 1..Len(new), j = Len(pack) + k
        PROVE  Earlier(pack'[i], pack'[j])
    <3>1. pack'[i] = pack[i] /\ pack'[j] = new[k]
      BY <1>5, <2>2
    <3>2. pack[i].by < b /\ new[k].by = b
      BY <1>1, <1>4, <1>7, <2>2
    <3>3. QED
      BY <3>1, <3>2 DEF Earlier
  <2>3. ASSUME NEW k \in 1..Len(new), i = Len(pack) + k, j \in 1..Len(pack) PROVE FALSE
    BY <1>4, <2>3
  <2>4. ASSUME NEW k \in 1..Len(new), i = Len(pack) + k,
               NEW l \in 1..Len(new), j = Len(pack) + l
        PROVE  Earlier(pack'[i], pack'[j])
    <3>1. k < l
      BY <1>4, <2>4
    <3>2. pack'[i] = new[k] /\ pack'[j] = new[l]
      BY <1>5, <2>4
    <3>3. QED
      BY <1>1, <1>4, <3>1, <3>2 DEF Earlier
  <2>5. QED
    BY <1>6, <2>1, <2>2, <2>3, <2>4
<1>9. NoneTwice'
  <2>1. \A i, j \in DOMAIN pack' : Earlier(pack'[i], pack'[j]) => pack'[i] # pack'[j]
    <3> SUFFICES ASSUME NEW i \in DOMAIN pack', NEW j \in DOMAIN pack',
                        Earlier(pack'[i], pack'[j]), pack'[i] = pack'[j]
                 PROVE  FALSE
      OBVIOUS
    <3>1. pack'[i].by \in Nat /\ pack'[i].at \in Nat
      <4>1. pack'[i] \in Lines'
        BY <1>5, ElementOfSeq, LenProperties
      <4>2. CASE pack'[i] \in Lines
        BY <4>2, EarlierTotal DEF IInv
      <4>3. CASE \E at \in DOMAIN new : pack'[i] = new[at]
        <5>1. PICK at \in DOMAIN new : pack'[i] = new[at]
          BY <4>3
        <5>2. at \in Nat /\ b \in Nat
          BY <1>2, <1>4, <1>a
        <5>3. QED
          BY <1>1, <5>1, <5>2
      <4>4. QED
        BY <1>1, <4>1, <4>2, <4>3
    <3>2. QED
      BY <3>1 DEF Earlier
  <2>2. \A i, j \in DOMAIN pack' : i < j => pack'[i] # pack'[j]
    BY <1>2, <1>8, <2>1 DEF InOrder, Earlier
  <2>3. \A i, j \in DOMAIN pack' : i < j \/ j < i \/ i = j
    BY <1>4, <1>5
  <2>4. QED
    BY <2>2, <2>3 DEF NoneTwice
<1>10. NoneGone'
  <2> SUFFICES ASSUME NEW line \in Lines'
               PROVE  \E i \in DOMAIN pack' : pack'[i] = line
    BY <1>2 DEF NoneGone
  <2>1. CASE line \in Lines
    <3>1. PICK i \in 1..Len(pack) : pack[i] = line
      BY <1>2, <1>4, <2>1 DEF IInv, NoneGone
    <3>2. i \in DOMAIN pack'
      BY <1>4, <1>5
    <3>3. QED
      BY <1>5, <3>1, <3>2
  <2>2. ASSUME NEW at \in DOMAIN new, line = new[at]
        PROVE  \E i \in DOMAIN pack' : pack'[i] = line
    <3>1. Len(pack) + at \in DOMAIN pack' /\ pack'[Len(pack) + at] = line
      BY <1>4, <1>5, <2>2
    <3>2. QED
      BY <3>1
  <2>3. QED
    BY <1>1, <2>1, <2>2
<1>11. LinesKnown'
  BY <1>2, <1>5 DEF LinesKnown
<1>12. QED
  BY <1>1, <1>8, <1>9, <1>10, <1>11 DEF IInv

-----------------------------------------------------------------------------
(* What may happen to the file.                                            *)

(* Nothing that happens to the file changes what was written.              *)
LEMMA LinesFixed ==
  ASSUME UNCHANGED added
  PROVE  Lines' = Lines /\ (CasesAdded => CasesAdded')
<1>1. \A by : AddedCase(by)' = AddedCase(by)
  BY DEF AddedCase
<1>2. \A by, at : Line(by, at)' = Line(by, at)
  BY <1>1 DEF Line
<1>3. Lines' = Lines
  BY <1>1, <1>2 DEF Lines
<1>4. CasesAdded => CasesAdded'
  BY <1>1 DEF CasesAdded, Written
<1>5. QED
  BY <1>3, <1>4

(* Losing a line keeps the invariant.                                      *)
LEMMA LoseKeeps ==
  ASSUME IInv, NEW i \in DOMAIN pack, LoseLine(i)
  PROVE  IInv'
<1>1. /\ Lines' = Lines /\ CasesAdded'
      /\ pack \in Seq(Lines) /\ lost \subseteq Lines /\ swaps \in Nat
  BY LinesFixed DEF LoseLine, IInv, LinesKnown
<1>2. /\ pack' = RemoveAt(pack, i) /\ lost' = lost \cup {pack[i]} /\ swaps' = swaps
  BY DEF LoseLine
<1>3. Len(pack) \in Nat /\ DOMAIN pack = 1..Len(pack) /\ pack[i] \in Lines
  BY <1>1, LenProperties, ElementOfSeq
<1>4. /\ pack' \in Seq(Lines) /\ Len(pack') = Len(pack) - 1
      /\ \A j \in 1..(Len(pack) - 1) : pack'[j] = IF j < i THEN pack[j] ELSE pack[j + 1]
  BY <1>1, <1>2, RemoveAtProperties
<1>5. DOMAIN pack' = 1..(Len(pack) - 1)
  BY <1>4, LenProperties
<1>6. \A j \in DOMAIN pack' : \E k \in DOMAIN pack : /\ pack'[j] = pack[k] /\ k # i
                                                    /\ k = IF j < i THEN j ELSE j + 1
  <2> TAKE j \in DOMAIN pack'
  <2>1. j \in DOMAIN pack /\ j + 1 \in DOMAIN pack
    BY <1>3, <1>5
  <2>2. CASE j < i
    BY <1>3, <1>4, <1>5, <2>1, <2>2
  <2>3. CASE ~ (j < i)
    <3>1. pack'[j] = pack[j + 1] /\ j + 1 # i
      BY <1>3, <1>4, <1>5, <2>3
    <3>2. QED
      BY <2>1, <2>3, <3>1
  <2>4. QED
    BY <2>2, <2>3
<1>7. \A k \in DOMAIN pack : k # i => \E j \in DOMAIN pack' : pack'[j] = pack[k]
  <2> TAKE k \in DOMAIN pack
  <2>1. CASE k < i
    <3>1. k \in DOMAIN pack' /\ pack'[k] = pack[k]
      BY <1>3, <1>4, <1>5, <2>1
    <3>2. QED
      BY <3>1
  <2>2. CASE k > i
    <3>1. k - 1 \in DOMAIN pack' /\ ~ (k - 1 < i) /\ (k - 1) + 1 = k
      BY <1>3, <1>5, <2>2
    <3>2. pack'[k - 1] = pack[k]
      BY <1>4, <1>5, <3>1
    <3>3. QED
      BY <3>1, <3>2
  <2>3. QED
    BY <1>3, <2>1, <2>2
<1>8. NoneTwice'
  <2> SUFFICES ASSUME NEW j \in DOMAIN pack', NEW k \in DOMAIN pack', pack'[j] = pack'[k]
               PROVE  j = k
    BY DEF NoneTwice
  <2>1. PICK l \in DOMAIN pack : pack'[j] = pack[l] /\ l = IF j < i THEN j ELSE j + 1
    BY <1>6
  <2>2. PICK m \in DOMAIN pack : pack'[k] = pack[m] /\ m = IF k < i THEN k ELSE k + 1
    BY <1>6
  <2>3. l = m
    BY <2>1, <2>2 DEF IInv, NoneTwice
  <2>4. QED
    BY <1>3, <1>5, <2>1, <2>2, <2>3
<1>9. NoneGone'
  <2> SUFFICES ASSUME NEW line \in Lines
               PROVE  line \in lost' <=> \A j \in DOMAIN pack' : pack'[j] # line
    BY <1>1 DEF NoneGone
  <2>1. line \in lost <=> \A k \in DOMAIN pack : pack[k] # line
    BY DEF IInv, NoneGone
  <2>2. CASE line = pack[i]
    <3>1. \A j \in DOMAIN pack' : pack'[j] # line
      BY <1>6, <2>2 DEF IInv, NoneTwice
    <3>2. QED
      BY <1>2, <2>2, <3>1
  <2>3. CASE line # pack[i]
    <3>1. (\E k \in DOMAIN pack : pack[k] = line) <=> \E j \in DOMAIN pack' : pack'[j] = line
      BY <1>6, <1>7, <2>3
    <3>2. QED
      BY <1>2, <2>1, <2>3, <3>1
  <2>4. QED
    BY <2>2, <2>3
<1>10. InOrder'
  BY <1>2 DEF InOrder
<1>11. LinesKnown'
  BY <1>1, <1>2, <1>3, <1>4 DEF LinesKnown
<1>12. QED
  BY <1>1, <1>8, <1>9, <1>10, <1>11 DEF IInv

(* Exchanging two lines keeps the invariant.                               *)
LEMMA SwapKeeps ==
  ASSUME IInv, NEW i \in DOMAIN pack, SwapLines(i)
  PROVE  IInv'
<1>1. /\ Lines' = Lines /\ CasesAdded' /\ lost' = lost
      /\ pack \in Seq(Lines) /\ lost \subseteq Lines /\ swaps \in Nat
      /\ swaps' = swaps + 1 /\ i + 1 \in DOMAIN pack
      /\ pack' = [pack EXCEPT ![i] = pack[i + 1], ![i + 1] = pack[i]]
  BY LinesFixed DEF SwapLines, IInv, LinesKnown
<1>2. /\ Len(pack) \in Nat /\ DOMAIN pack = 1..Len(pack) /\ pack \in [1..Len(pack) -> Lines]
  BY <1>1, LenProperties
<1> DEFINE Other(j) == IF j = i THEN i + 1 ELSE IF j = i + 1 THEN i ELSE j
<1>3. \A j \in DOMAIN pack : Other(j) \in DOMAIN pack /\ Other(Other(j)) = j
  BY <1>1, <1>2
<1>4. DOMAIN pack' = DOMAIN pack /\ \A j \in DOMAIN pack : pack'[j] = pack[Other(j)]
  BY <1>1, <1>2
<1>5. pack' \in Seq(Lines)
  <2>1. pack' \in [1..Len(pack) -> Lines]
    BY <1>1, <1>2
  <2>2. QED
    BY <1>2, <2>1
<1> HIDE DEF Other
<1>6. NoneTwice'
  <2> SUFFICES ASSUME NEW j \in DOMAIN pack, NEW k \in DOMAIN pack, pack'[j] = pack'[k]
               PROVE  j = k
    BY <1>4 DEF NoneTwice
  <2>1. Other(j) = Other(k)
    BY <1>3, <1>4 DEF IInv, NoneTwice
  <2>2. QED
    BY <1>3, <2>1
<1>7. NoneGone'
  <2> SUFFICES ASSUME NEW line \in Lines
               PROVE  line \in lost <=> \A j \in DOMAIN pack : pack'[j] # line
    BY <1>1, <1>4 DEF NoneGone
  <2>1. (\E j \in DOMAIN pack : pack[j] = line) <=> \E j \in DOMAIN pack : pack'[j] = line
    BY <1>3, <1>4
  <2>2. QED
    BY <2>1 DEF IInv, NoneGone
<1>8. InOrder'
  BY <1>1 DEF InOrder
<1>9. LinesKnown'
  BY <1>1, <1>5 DEF LinesKnown
<1>10. QED
  BY <1>1, <1>6, <1>7, <1>8, <1>9 DEF IInv

(* Whatever is appended, lost and moved: of every line that was written it *)
(* is known whether it is in the file, and where nothing happened to the   *)
(* file, its lines are in order.                                           *)
THEOREM PackAccounted == Spec => []IInv
<1>1. Init => IInv
  <2> SUFFICES ASSUME Init PROVE IInv
    OBVIOUS
  <2>1. Lines = {}
    BY DEF Init, Lines
  <2>2. CasesAdded
    BY EmptySeq DEF Init, CasesAdded
  <2>3. LinesKnown /\ NoneTwice /\ NoneGone /\ InOrder
    BY <2>1, EmptySeq DEF Init, LinesKnown, NoneTwice, NoneGone, InOrder
  <2>4. QED
    BY <2>2, <2>3 DEF IInv
<1>2. IInv /\ [Next]_vars => IInv'
  <2> SUFFICES ASSUME IInv, [Next]_vars PROVE IInv'
    OBVIOUS
  <2>1. CASE \E n \in DOMAIN Cases, policy \in PolicyChoices : AppendCase(n, policy)
    BY <2>1, AppendKeeps
  <2>2. CASE \E i \in DOMAIN pack : LoseLine(i)
    BY <2>2, LoseKeeps
  <2>3. CASE \E i \in DOMAIN pack : SwapLines(i)
    BY <2>3, SwapKeeps
  <2>4. CASE UNCHANGED vars
    <3>1. Lines' = Lines /\ CasesAdded'
      BY <2>4, LinesFixed DEF vars, IInv
    <3>2. QED
      BY <2>4, <3>1 DEF vars, IInv, LinesKnown, NoneTwice, NoneGone, InOrder, Earlier
  <2>5. QED
    BY <2>1, <2>2, <2>3, <2>4 DEF Next
<1>3. QED
  BY <1>1, <1>2, PTL DEF Spec

-----------------------------------------------------------------------------
(* What the lines say.                                                     *)

Kinds == {"command", "response", "stream"}

(* The lines of a kind: one of each step, or one of each stream.           *)
Part(kind, by) ==
  IF kind = "stream" THEN DOMAIN AddedCase(by).streams ELSE DOMAIN AddedCase(by).steps
Place(kind, by, k) ==
  CASE kind = "command"  -> 2 + 2 * k
    [] kind = "response" -> 3 + 2 * k
    [] kind = "stream"   -> 3 + 2 * Len(AddedCase(by).steps) + k

(* The three lines of the case come first, those of its steps next, and    *)
(* those of its streams last.                                              *)
LEMMA PlacesOfCase ==
  ASSUME CasesAdded, NEW by \in DOMAIN added
  PROVE  /\ AddedCase(by).steps \in Seq(Exchanges) /\ AddedCase(by).streams \in Seq(Responses)
         /\ Part("command", by) = 1..Len(AddedCase(by).steps)
         /\ Part("response", by) = 1..Len(AddedCase(by).steps)
         /\ Part("stream", by) = 1..Len(AddedCase(by).streams)
         /\ Len(AddedCase(by).steps) \in Nat /\ Len(AddedCase(by).streams) \in Nat
         /\ CaseSize(AddedCase(by)) \in Nat /\ CaseSize(AddedCase(by)) >= 3
         /\ added[by].policy \in PolicyChoices
         /\ \A kind \in Kinds : \A k \in Part(kind, by) :
              Place(kind, by, k) \in 4..CaseSize(AddedCase(by))
         /\ \A at \in 4..CaseSize(AddedCase(by)) :
              \E kind \in Kinds : \E k \in Part(kind, by) : at = Place(kind, by, k)
<1>1. added[by] \in [case : DOMAIN Cases, policy : PolicyChoices]
  BY ElementOfSeq, LenProperties DEF CasesAdded
<1>2. AddedCase(by) = Cases[added[by].case] /\ added[by].case \in DOMAIN Cases
  BY <1>1 DEF AddedCase
<1> DEFINE case == AddedCase(by)
<1>3. /\ case.steps \in Seq(Exchanges) /\ case.streams \in Seq(Responses)
      /\ Len(case.steps) \in Nat /\ Len(case.streams) \in Nat
  BY <1>2, CaseLengths
<1>4. /\ Part("command", by) = 1..Len(case.steps)
      /\ Part("response", by) = 1..Len(case.steps)
      /\ Part("stream", by) = 1..Len(case.streams)
  BY <1>3, LenProperties DEF Part
<1>5. PICK s \in Nat : s = Len(case.steps)
  BY <1>3
<1>6. PICK t \in Nat : t = Len(case.streams)
  BY <1>3
<1>7. CaseSize(case) = 3 + 2 * s + t
  BY <1>5, <1>6 DEF CaseSize
<1>8. \A k : /\ Place("command", by, k) = 2 + 2 * k
             /\ Place("response", by, k) = 3 + 2 * k
             /\ Place("stream", by, k) = 3 + 2 * s + k
  BY <1>5 DEF Place
<1> HIDE DEF case
<1>9. ASSUME NEW kind \in Kinds, NEW k \in Part(kind, by)
      PROVE  Place(kind, by, k) \in 4..(3 + 2 * s + t)
  <2>1. CASE kind = "command"
    BY <1>4, <1>5, <1>8, <1>9, <2>1
  <2>2. CASE kind = "response"
    BY <1>4, <1>5, <1>8, <1>9, <2>2
  <2>3. CASE kind = "stream"
    <3>1. k \in 1..t
      BY <1>4, <1>6, <1>9, <2>3
    <3>2. 3 + 2 * s + k \in 4..(3 + 2 * s + t)
      BY <3>1
    <3>3. QED
      BY <1>8, <2>3, <3>2
  <2>4. QED
    BY <2>1, <2>2, <2>3 DEF Kinds
<1>10. ASSUME NEW at \in 4..(3 + 2 * s + t)
       PROVE  \E kind \in Kinds : \E k \in Part(kind, by) : at = Place(kind, by, k)
  <2>1. CASE at > 3 + 2 * s
    <3>1. at - (3 + 2 * s) \in 1..t /\ at = 3 + 2 * s + (at - (3 + 2 * s))
      BY <2>1
    <3>2. QED
      BY <1>4, <1>6, <1>8, <3>1 DEF Kinds
  <2>2. CASE at <= 3 + 2 * s /\ at % 2 = 0
    <3>1. (at - 2) \div 2 \in 1..s /\ at = 2 + 2 * ((at - 2) \div 2)
      BY <2>2
    <3>2. QED
      BY <1>4, <1>5, <1>8, <3>1 DEF Kinds
  <2>3. CASE at <= 3 + 2 * s /\ at % 2 = 1
    <3>1. (at - 3) \div 2 \in 1..s /\ at = 3 + 2 * ((at - 3) \div 2)
      BY <2>3
    <3>2. QED
      BY <1>4, <1>5, <1>8, <3>1 DEF Kinds
  <2>4. at % 2 = 0 \/ at % 2 = 1
    OBVIOUS
  <2>5. at > 3 + 2 * s \/ at <= 3 + 2 * s
    OBVIOUS
  <2>6. QED
    BY <2>1, <2>2, <2>3, <2>4, <2>5
<1>11. CaseSize(case) \in Nat /\ CaseSize(case) >= 3
  BY <1>7
<1>12. QED
  BY <1>1, <1>3, <1>4, <1>7, <1>9, <1>10, <1>11 DEF case

(* The three lines at the head of a case.                                  *)
MetadataText(case) == [kind |-> "metadata", id |-> case.id, raw |-> "metadata" \in case.raw]
ScenarioText(case) ==
  [kind |-> "scenario", id |-> case.id, asserted |-> case.asserted,
   steps |-> case.expectedSteps, streams |-> case.expectedStreams,
   raw |-> "scenario" \in case.raw]
IdentityText(case, policy) ==
  [kind |-> "identity", mode |-> policy.mode, support |-> policy.support,
   raw |-> "identity" \in case.raw]

(* What the audit asks of a line, by its kind.                             *)
LEMMA SoundByKind ==
  ASSUME NEW line
  PROVE  /\ line.kind = "metadata" => (LineSound(line) <=> ~ line.raw)
         /\ line.kind = "scenario" => (LineSound(line) <=> line.asserted /\ ~ line.raw)
         /\ line.kind = "identity" =>
              (LineSound(line) <=> line.mode = "production" /\ ~ line.support /\ ~ line.raw)
         /\ line.kind \in {"response", "stream"} =>
              (LineSound(line) <=>
                 /\ \A f \in line.fields : ~ f.raw
                 /\ \A f \in line.fields : f.tag \in AuditedTags => f.shown = "suppressed")
  BY DEF LineSound

(* ... of the three at the head of a case.                                 *)
LEMMA SoundHeads ==
  ASSUME NEW case, NEW policy
  PROVE  /\ LineSound(MetadataText(case)) <=> "metadata" \notin case.raw
         /\ LineSound(ScenarioText(case)) <=> case.asserted /\ "scenario" \notin case.raw
         /\ LineSound(IdentityText(case, policy)) <=>
              /\ policy.mode = "production" /\ ~ policy.support
              /\ "identity" \notin case.raw
<1>1. /\ MetadataText(case).kind = "metadata"
      /\ ScenarioText(case).kind = "scenario"
      /\ IdentityText(case, policy).kind = "identity"
  BY DEF MetadataText, ScenarioText, IdentityText
<1>2. MetadataText(case).raw <=> "metadata" \in case.raw
  BY Zenon DEF MetadataText
<1>3. /\ ScenarioText(case).raw <=> "scenario" \in case.raw
      /\ ScenarioText(case).asserted <=> case.asserted
  BY Zenon DEF ScenarioText
<1>4. /\ IdentityText(case, policy).raw <=> "identity" \in case.raw
      /\ IdentityText(case, policy).support <=> policy.support
      /\ IdentityText(case, policy).mode = policy.mode
  BY Zenon DEF IdentityText
<1>5. LineSound(MetadataText(case)) <=> "metadata" \notin case.raw
  BY Zenon, <1>1, <1>2, SoundByKind
<1>6. LineSound(ScenarioText(case)) <=> case.asserted /\ "scenario" \notin case.raw
  BY Zenon, <1>1, <1>3, SoundByKind
<1>7. LineSound(IdentityText(case, policy)) <=>
        /\ policy.mode = "production" /\ ~ policy.support
        /\ "identity" \notin case.raw
  BY Zenon, <1>1, <1>4, SoundByKind
<1>8. QED
  BY <1>5, <1>6, <1>7

(* The texts of a case, by their places.                                   *)
LEMMA TextsOfCase ==
  ASSUME CasesAdded, NEW by \in DOMAIN added
  PROVE  /\ Line(by, 1).text = MetadataText(AddedCase(by))
         /\ Line(by, 2).text = ScenarioText(AddedCase(by))
         /\ Line(by, 3).text = IdentityText(AddedCase(by), added[by].policy)
         /\ \A k \in Part("command", by) : Line(by, Place("command", by, k)).text =
              [kind |-> "command",
               data |-> CommandData(AddedCase(by).steps[k].command, added[by].policy)]
         /\ \A k \in Part("response", by) : Line(by, Place("response", by, k)).text =
              [kind |-> "response",
               fields |-> Fields(AddedCase(by).steps[k].response,
                                 AddedCase(by).steps[k].context, added[by].policy)]
         /\ \A k \in Part("stream", by) : Line(by, Place("stream", by, k)).text =
              [kind |-> "stream",
               fields |-> Fields(AddedCase(by).streams[k], "generic", added[by].policy)]
<1> DEFINE case == AddedCase(by)
           policy == added[by].policy
<1>1. \A at : Line(by, at).text = CaseText(case, policy, at)
  BY DEF Line
<1>2. /\ CaseText(case, policy, 1) = MetadataText(case)
      /\ CaseText(case, policy, 2) = ScenarioText(case)
      /\ CaseText(case, policy, 3) = IdentityText(case, policy)
  BY DEF CaseText, MetadataText, ScenarioText, IdentityText
<1>3. PICK s \in Nat : s = Len(case.steps) /\ DOMAIN case.steps = 1..s
  BY PlacesOfCase DEF Part
<1>4. PICK t \in Nat : t = Len(case.streams) /\ DOMAIN case.streams = 1..t
  BY PlacesOfCase DEF Part
<1> HIDE DEF case, policy
<1>5. ASSUME NEW k \in 1..s
      PROVE  /\ CaseText(case, policy, 2 + 2 * k) = StepText(case.steps[k], policy, FALSE)
             /\ CaseText(case, policy, 3 + 2 * k) = StepText(case.steps[k], policy, TRUE)
  <2>1. /\ (2 + 2 * k) > 3 /\ (2 + 2 * k) <= 3 + 2 * s
        /\ ((2 + 2 * k) - 2) \div 2 = k /\ (2 + 2 * k) % 2 # 1
    OBVIOUS
  <2>2. /\ (3 + 2 * k) > 3 /\ (3 + 2 * k) <= 3 + 2 * s
        /\ ((3 + 2 * k) - 2) \div 2 = k /\ (3 + 2 * k) % 2 = 1
    OBVIOUS
  <2>3. ASSUME NEW at \in Nat, at > 3, at <= 3 + 2 * s
        PROVE  CaseText(case, policy, at)
                 = StepText(case.steps[(at - 2) \div 2], policy, at % 2 = 1)
    BY <1>3, <2>3 DEF CaseText
  <2>4. 2 + 2 * k \in Nat /\ 3 + 2 * k \in Nat
    OBVIOUS
  <2>5. CaseText(case, policy, 2 + 2 * k)
          = StepText(case.steps[((2 + 2 * k) - 2) \div 2], policy, (2 + 2 * k) % 2 = 1)
    BY <2>1, <2>3, <2>4
  <2>6. CaseText(case, policy, 3 + 2 * k)
          = StepText(case.steps[((3 + 2 * k) - 2) \div 2], policy, (3 + 2 * k) % 2 = 1)
    BY <2>2, <2>3, <2>4
  <2>7. QED
    BY <2>1, <2>2, <2>5, <2>6 DEF StepText
<1>6. ASSUME NEW k \in 1..t
      PROVE  CaseText(case, policy, 3 + 2 * s + k) = StreamText(case.streams[k], policy)
  <2>1. ASSUME NEW at \in Nat, at > 3 + 2 * s
        PROVE  CaseText(case, policy, at) = StreamText(case.streams[at - 3 - 2 * s], policy)
    BY <1>3, <2>1 DEF CaseText
  <2>2. /\ 3 + 2 * s + k \in Nat /\ 3 + 2 * s + k > 3 + 2 * s
        /\ (3 + 2 * s + k) - 3 - 2 * s = k
    OBVIOUS
  <2>3. QED
    BY <2>1, <2>2
<1>7. \A k : /\ Place("command", by, k) = 2 + 2 * k
             /\ Place("response", by, k) = 3 + 2 * k
             /\ Place("stream", by, k) = 3 + 2 * s + k
  BY <1>3 DEF Place, case
<1>8. ASSUME NEW k \in 1..s
      PROVE  /\ Line(by, Place("command", by, k)).text =
                  [kind |-> "command", data |-> CommandData(case.steps[k].command, policy)]
             /\ Line(by, Place("response", by, k)).text =
                  [kind |-> "response",
                   fields |-> Fields(case.steps[k].response, case.steps[k].context, policy)]
  BY <1>1, <1>3, <1>5, <1>7 DEF StepText
<1>9. ASSUME NEW k \in 1..t
      PROVE  Line(by, Place("stream", by, k)).text =
               [kind |-> "stream", fields |-> Fields(case.streams[k], "generic", policy)]
  BY <1>1, <1>4, <1>6, <1>7 DEF StreamText
<1>10. /\ Part("command", by) = 1..s /\ Part("response", by) = 1..s
       /\ Part("stream", by) = 1..t
  BY <1>3, <1>4 DEF Part, case
<1>11. QED
  BY <1>1, <1>2, <1>8, <1>9, <1>10 DEF case, policy

(* What a line says by its place, and its place by what it says.           *)
LEMMA KindOfLine ==
  ASSUME CasesAdded, NEW line \in Lines
  PROVE  LET by == line.by
             case == AddedCase(line.by)
         IN  /\ by \in DOMAIN added
             /\ line.text.kind \in {"metadata", "scenario", "identity"} \cup Kinds
             /\ line.text.kind = "metadata" <=> line = Line(by, 1)
             /\ line.text.kind = "scenario" <=> line = Line(by, 2)
             /\ line.text.kind = "identity" <=> line = Line(by, 3)
             /\ \A kind \in Kinds : line.text.kind = kind =>
                  \E k \in Part(kind, by) : line = Line(by, Place(kind, by, k))
             /\ \A kind \in Kinds : \A k \in Part(kind, by) :
                  Line(by, Place(kind, by, k)).text.kind = kind
<1> DEFINE by == line.by
<1>1. by \in DOMAIN added /\ line.at \in 1..CaseSize(AddedCase(by)) /\ line = Line(by, line.at)
  BY LineByPlace
<1> HIDE DEF by
<1>2. /\ Line(by, 1).text.kind = "metadata" /\ Line(by, 2).text.kind = "scenario"
      /\ Line(by, 3).text.kind = "identity"
  <2>1. /\ Line(by, 1).text = MetadataText(AddedCase(by))
        /\ Line(by, 2).text = ScenarioText(AddedCase(by))
        /\ Line(by, 3).text = IdentityText(AddedCase(by), added[by].policy)
    BY <1>1, TextsOfCase
  <2>2. QED
    BY <2>1 DEF MetadataText, ScenarioText, IdentityText
<1>3. ASSUME NEW kind \in Kinds, NEW k \in Part(kind, by)
      PROVE  Line(by, Place(kind, by, k)).text.kind = kind
  <2>1. CASE kind = "stream"
    <3>1. k \in Part("stream", by)
      BY <1>3, <2>1
    <3>2. Line(by, Place("stream", by, k)).text =
              [kind |-> "stream",
               fields |-> Fields(AddedCase(by).streams[k], "generic", added[by].policy)]
      BY <1>1, <3>1, TextsOfCase
    <3>3. QED
      BY <2>1, <3>2
  <2>2. CASE kind = "command"
    <3>1. k \in Part("command", by)
      BY <1>3, <2>2
    <3>2. Line(by, Place("command", by, k)).text =
              [kind |-> "command",
               data |-> CommandData(AddedCase(by).steps[k].command, added[by].policy)]
      BY <1>1, <3>1, TextsOfCase
    <3>3. QED
      BY <2>2, <3>2
  <2>3. CASE kind = "response"
    <3>1. k \in Part("response", by)
      BY <1>3, <2>3
    <3>2. Line(by, Place("response", by, k)).text =
              [kind |-> "response",
               fields |-> Fields(AddedCase(by).steps[k].response,
                                 AddedCase(by).steps[k].context, added[by].policy)]
      BY <1>1, <3>1, TextsOfCase
    <3>3. QED
      BY <2>3, <3>2
  <2>4. QED
    BY <2>1, <2>2, <2>3 DEF Kinds
<1>4. \/ line = Line(by, 1) \/ line = Line(by, 2) \/ line = Line(by, 3)
      \/ \E kind \in Kinds : \E k \in Part(kind, by) : line = Line(by, Place(kind, by, k))
  <2>1. CaseSize(AddedCase(by)) \in Nat
    BY <1>1, PlacesOfCase
  <2>2. line.at \in {1, 2, 3} \/ line.at \in 4..CaseSize(AddedCase(by))
    BY <1>1, <2>1
  <2>3. CASE line.at \in 4..CaseSize(AddedCase(by))
    BY <1>1, <2>3, PlacesOfCase
  <2>4. QED
    BY <1>1, <2>2, <2>3
<1>5. /\ "metadata" \notin Kinds /\ "scenario" \notin Kinds /\ "identity" \notin Kinds
  BY DEF Kinds
<1>6. line.text.kind \in {"metadata", "scenario", "identity"} \cup Kinds
  BY <1>2, <1>3, <1>4
<1>7. /\ line.text.kind = "metadata" <=> line = Line(by, 1)
      /\ line.text.kind = "scenario" <=> line = Line(by, 2)
      /\ line.text.kind = "identity" <=> line = Line(by, 3)
  BY <1>2, <1>3, <1>4, <1>5
<1>8. \A kind \in Kinds : line.text.kind = kind =>
        \E k \in Part(kind, by) : line = Line(by, Place(kind, by, k))
  BY <1>2, <1>3, <1>4, <1>5
<1>9. QED
  BY <1>1, <1>3, <1>6, <1>7, <1>8 DEF by

-----------------------------------------------------------------------------
(* Masking.                                                                *)

(* The field of the constructed template.                                  *)
Template == [tag |-> "77", shown |-> "suppressed", raw |-> FALSE]

(* A field is the template, suppressed, or shows an object as the policy   *)
(* has it; of an answer to GENERATE AC, one of its objects.                *)
LEMMA FieldShown ==
  ASSUME NEW response \in Responses, NEW context \in Contexts, NEW policy,
         NEW f \in Fields(response, context, policy)
  PROVE  /\ f = Template \/ f = Field(f.tag, response, policy)
         /\ context = "generateAc" => f.tag \in GacObjects
<1> DEFINE known == f = Template \/ f = Field(f.tag, response, policy)
<1>1. CASE context = "generateAc"
  <2>1. f \in {Field(t, response, policy) : t \in response.objects \cap GacObjects}
    BY <1>1 DEF Fields
  <2>2. PICK t \in response.objects \cap GacObjects : f = Field(t, response, policy)
    BY <2>1
  <2>3. f.tag = t
    BY <2>2 DEF Field
  <2>4. QED
    BY <2>2, <2>3
<1>2. CASE context = "generic" /\ response.form \in {"empty", "malformed"}
  BY <1>2 DEF Fields
<1>3. CASE context = "generic" /\ response.form = "80"
  <2>1. f = Field("80", response, policy)
    BY <1>3 DEF Fields
  <2>2. f.tag = "80"
    BY <2>1 DEF Field
  <2>3. QED
    BY <1>3, <2>1, <2>2
<1>4. CASE context = "generic" /\ response.form = "77"
  <2>1. f \in {Template} \cup {Field(t, response, policy) : t \in response.objects}
    BY <1>4 DEF Fields, Template
  <2>2. known
    BY <2>1 DEF Field
  <2>3. QED
    BY <1>4, <2>2
<1>5. CASE context = "generic" /\ response.form = "plain"
  <2>1. f \in {Field(t, response, policy) : t \in response.objects}
    BY <1>5 DEF Fields
  <2>2. known
    BY <2>1 DEF Field
  <2>3. QED
    BY <1>5, <2>2
<1>6. QED
  BY <1>1, <1>2, <1>3, <1>4, <1>5 DEF Contexts, Responses

(* Whatever the policy, the PAN is shown as its last digits and a PIN      *)
(* block never; and a production policy suppresses what the audit looks    *)
(* for.                                                                    *)
LEMMA ShownAlways ==
  ASSUME NEW policy
  PROVE  /\ Shown("5A", policy) = "pan"
         /\ \A tag \in AlwaysSuppressed : Shown(tag, policy) = "suppressed"
         /\ policy.mode = "production" => \A tag \in AuditedTags : Shown(tag, policy) = "suppressed"
<1>1. Shown("5A", policy) = "pan"
  <2>1. "5A" \notin AlwaysSuppressed
    BY DEF AlwaysSuppressed
  <2>2. QED
    BY <2>1 DEF Shown
<1>2. ASSUME NEW tag \in AlwaysSuppressed PROVE Shown(tag, policy) = "suppressed"
  <2>1. tag \notin {"5A", "57", "9F26", "9F10"}
    BY DEF AlwaysSuppressed
  <2>2. QED
    BY <2>1 DEF Shown
<1>3. ASSUME policy.mode = "production", NEW tag \in AuditedTags
      PROVE  Shown(tag, policy) = "suppressed"
  <2>1. ~ Supported(policy)
    BY <1>3 DEF Supported
  <2>2. tag \in AlwaysSuppressed \/ tag = "57" \/ tag = "9F26" \/ tag = "9F10"
    BY DEF AuditedTags, AlwaysSuppressed
  <2>3. {"57", "9F26", "9F10"} \cap AlwaysSuppressed = {}
    BY DEF AlwaysSuppressed
  <2>4. Shown("57", policy) = "suppressed"
    BY <2>1, <2>3 DEF Shown
  <2>5. Shown("9F26", policy) = "suppressed" /\ Shown("9F10", policy) = "suppressed"
    BY <2>1, <2>3 DEF Shown
  <2>6. QED
    BY <1>2, <2>2, <2>3, <2>4, <2>5
<1>4. QED
  BY <1>1, <1>2, <1>3

(* A response or a stream of a case, as its line has it.                   *)
LEMMA FieldsOfLine ==
  ASSUME CasesAdded, NEW line \in Lines, line.text.kind \in {"response", "stream"}
  PROVE  LET of == ExchangeOf(line)
         IN  /\ of.response \in Responses /\ of.context \in Contexts
             /\ line.text.fields = Fields(of.response, of.context, added[line.by].policy)
<1> DEFINE by == line.by
           case == AddedCase(by)
<1>1. /\ by \in DOMAIN added
      /\ case.steps \in Seq(Exchanges) /\ case.streams \in Seq(Responses)
  BY KindOfLine, PlacesOfCase
<1>2. PICK s \in Nat : s = Len(case.steps)
  BY <1>1, LenProperties
<1>3. CASE line.text.kind = "response"
  <2>1. PICK k \in Part("response", by) : line = Line(by, Place("response", by, k))
    BY <1>3, KindOfLine DEF Kinds
  <2>2. k \in DOMAIN case.steps /\ k \in Nat
    BY <1>1, <2>1, LenProperties DEF Part
  <2>3. case.steps[k].response \in Responses /\ case.steps[k].context \in Contexts
    <3>1. case.steps[k] \in Exchanges
      BY <1>1, <2>2, ElementOfSeq, LenProperties
    <3>2. QED
      BY <3>1 DEF Exchanges
  <2>4. line.text =
          [kind |-> "response",
           fields |-> Fields(AddedCase(by).steps[k].response,
                             AddedCase(by).steps[k].context, added[by].policy)]
    BY <1>1, <2>1, TextsOfCase
  <2>5. line.text.fields = Fields(case.steps[k].response, case.steps[k].context, added[by].policy)
    BY <2>4
  <2>6. (line.at - 2) \div 2 = k
    <3>1. line.at = 3 + 2 * k
      BY <2>1 DEF Line, Place
    <3>2. ((3 + 2 * k) - 2) \div 2 = k
      BY <2>2
    <3>3. QED
      BY <3>1, <3>2
  <2>7. ExchangeOf(line) = case.steps[k]
    BY <1>3, <2>6 DEF ExchangeOf
  <2>8. QED
    BY <2>3, <2>5, <2>7
<1>4. CASE line.text.kind = "stream"
  <2>1. PICK k \in Part("stream", by) : line = Line(by, Place("stream", by, k))
    BY <1>4, KindOfLine DEF Kinds
  <2>2. k \in DOMAIN case.streams /\ k \in Nat
    BY <1>1, <2>1, LenProperties DEF Part
  <2>3. case.streams[k] \in Responses /\ "generic" \in Contexts
    BY <1>1, <2>2, ElementOfSeq, LenProperties DEF Contexts
  <2>4. line.text =
              [kind |-> "stream",
               fields |-> Fields(AddedCase(by).streams[k], "generic", added[by].policy)]
    BY <1>1, <2>1, TextsOfCase
  <2>5. line.text.fields = Fields(case.streams[k], "generic", added[by].policy)
    BY <2>4
  <2>6. line.at - 3 - 2 * Len(case.steps) = k
    <3>1. line.at = 3 + 2 * s + k
      BY <1>2, <2>1 DEF Line, Place
    <3>2. (3 + 2 * s + k) - 3 - 2 * s = k
      BY <2>2
    <3>3. QED
      BY <1>2, <3>1, <3>2
  <2>7. ExchangeOf(line) = [response |-> case.streams[k], context |-> "generic"]
    BY <1>4, <2>6 DEF ExchangeOf
  <2>8. QED
    BY <2>3, <2>5, <2>7
<1>5. QED
  BY <1>3, <1>4

(* Lines of the file, and what the audit reads of them.                    *)
LEMMA TextsOfPack ==
  ASSUME IInv
  PROVE  /\ CasesAdded /\ Len(pack) \in Nat
         /\ DOMAIN Texts = 1..Len(pack) /\ DOMAIN pack = 1..Len(pack)
         /\ \A i \in DOMAIN pack : pack[i] \in Lines /\ Texts[i] = pack[i].text
  BY LenProperties, ElementOfSeq DEF IInv, LinesKnown, Texts

(* What a reviewable pack reveals of a sensitive data object was in Format *)
(* 1 and not read as an answer to GENERATE AC, for any cases, policies and *)
(* losses; of a command it reveals nothing.                                *)
LEMMA InvMasked == IInv => ReviewableMasked
<1> DEFINE Of(i) == ExchangeOf(pack[i])
<1> SUFFICES ASSUME IInv, Reviewable(Texts), NEW i \in DOMAIN pack
             PROVE  /\ Texts[i].kind = "command" => Texts[i].data # "hex"
                    /\ Texts[i].kind \in {"response", "stream"} =>
                         (Revealed(Of(i).response, Texts[i].fields) # {} =>
                            Of(i).response.form = "80" /\ Of(i).context = "generic")
  BY DEF ReviewableMasked
<1>1. CasesAdded /\ pack[i] \in Lines /\ Texts[i] = pack[i].text /\ i \in DOMAIN Texts
  BY TextsOfPack
<1>2. LineSound(Texts[i])
  BY <1>1 DEF Reviewable
<1>3. ASSUME Texts[i].kind \in {"response", "stream"},
             Revealed(Of(i).response, Texts[i].fields) # {}
      PROVE  Of(i).response.form = "80" /\ Of(i).context = "generic"
  <2> DEFINE policy == added[pack[i].by].policy
  <2>1. PICK response \in Responses, context \in Contexts :
          /\ response = Of(i).response /\ context = Of(i).context
          /\ Texts[i].fields = Fields(response, context, policy)
    BY <1>1, <1>3, FieldsOfLine
  <2>2. PICK t \in response.objects \cap Sensitive, f \in Texts[i].fields :
          /\ f.tag = t \/ (f.tag = "80" /\ response.form = "80")
          /\ f.shown \notin {"suppressed", "pan"}
    BY <1>3, <2>1 DEF Revealed
  <2>3. /\ f = Template \/ f = Field(f.tag, response, policy)
        /\ context = "generateAc" => f.tag \in GacObjects
    BY <2>1, <2>2, FieldShown
  <2>4. f.tag \in AuditedTags => f.shown = "suppressed"
    BY <1>2, <1>3, <2>2 DEF LineSound
  <2>5. f.shown = Shown(f.tag, policy)
    BY <2>2, <2>3 DEF Template, Field
  <2>6. f.tag \notin Sensitive
    <3>1. ASSUME f.tag \in Sensitive PROVE FALSE
      <4>1. f.tag \in AuditedTags \/ f.tag = "5A" \/ f.tag \in AlwaysSuppressed
        BY <3>1 DEF Sensitive, AuditedTags
      <4>2. QED
        BY <2>2, <2>4, <2>5, <4>1, ShownAlways
    <3>2. QED
      BY <3>1
  <2>7. f.tag = "80" /\ response.form = "80"
    BY <2>2, <2>6
  <2>8. "80" \notin GacObjects
    BY DEF GacObjects, GacMandatory
  <2>9. QED
    BY <2>1, <2>3, <2>7, <2>8 DEF Contexts
<1>4. ASSUME Texts[i].kind = "command" PROVE Texts[i].data # "hex"
  BY <1>2, <1>4 DEF LineSound
<1>5. QED
  BY <1>3, <1>4

(* ReviewableMasked of TracePack for every set of cases and policies: but  *)
(* for Format 1 in the generic context, no pack the audit accepts reveals  *)
(* what the specification masks, whether under a tag of its own or among   *)
(* the objects of an answer to GENERATE AC.                                *)
THEOREM NothingSensitiveShown == Spec => []ReviewableMasked
  BY PackAccounted, InvMasked, PTL

-----------------------------------------------------------------------------
(* The audit.                                                              *)

(* A line belongs to the last header up to it.                             *)
LEMMA LastHeader ==
  ASSUME NEW lines, NEW n \in Nat, DOMAIN lines = 1..n, NEW i \in 1..n,
         NEW first \in Headers(lines), first <= i
  PROVE  \E h \in Headers(lines) : /\ h <= i /\ h \in 1..n
                                   /\ \A g \in Headers(lines) : g <= i => g <= h
                                   /\ CaseAt(lines, i) = lines[h].id
<1> DEFINE before == {h \in Headers(lines) : h <= i}
           last   == CHOOSE h \in before : \A g \in before : g <= h
<1>1. Headers(lines) \subseteq 1..n
  BY DEF Headers
<1>2. before \subseteq 0..n /\ before # {}
  BY <1>1
<1> HIDE DEF before
<1>3. \E h \in before : \A g \in before : g <= h
  BY <1>2, GreatestNumber
<1>4. last \in before /\ \A g \in before : g <= last
  BY <1>3
<1>5. CaseAt(lines, i) = lines[last].id
  BY DEF CaseAt, before
<1> HIDE DEF last
<1>6. QED
  BY <1>1, <1>4, <1>5 DEF before

(* A header belongs to the case it names.                                  *)
LEMMA HeaderNamesItself ==
  ASSUME NEW lines, NEW n \in Nat, DOMAIN lines = 1..n, NEW h \in Headers(lines)
  PROVE  h \in 1..n /\ CaseAt(lines, h) = lines[h].id
<1>1. h \in 1..n /\ h <= h
  BY DEF Headers
<1>2. PICK g \in Headers(lines) : /\ g <= h /\ g \in 1..n
                                  /\ \A f \in Headers(lines) : f <= h => f <= g
                                  /\ CaseAt(lines, h) = lines[g].id
  BY <1>1, LastHeader
<1>3. h <= g
  BY <1>1, <1>2
<1>4. g = h
  BY <1>1, <1>2, <1>3
<1>5. QED
  BY <1>1, <1>2, <1>4

(* The scenario of a complete case, and what it counts.                    *)
LEMMA ScenarioCounts ==
  ASSUME NEW lines, NEW n \in Nat, DOMAIN lines = 1..n, NEW id, CaseComplete(lines, id)
  PROVE  \E s \in LinesOf(lines, id, "scenario") :
           /\ s \in 1..n /\ lines[s].kind = "scenario" /\ CaseAt(lines, s) = id
           /\ \A j \in LinesOf(lines, id, "scenario") : j <= s
           /\ \A kind \in {"command", "response"} :
                Cardinality(LinesOf(lines, id, kind)) = lines[s].steps
           /\ Cardinality(LinesOf(lines, id, "stream")) = lines[s].streams
<1> DEFINE of == LinesOf(lines, id, "scenario")
           s  == CHOOSE i \in of : \A j \in of : j <= i
<1>1. of \subseteq 0..n
  BY DEF LinesOf
<1>2. of # {}
  BY DEF CaseComplete
<1>3. s \in of /\ \A j \in of : j <= s
  <2> HIDE DEF of
  <2>1. \E i \in of : \A j \in of : j <= i
    BY <1>1, <1>2, GreatestNumber
  <2>2. QED
    BY <2>1
<1>4. /\ \A kind \in {"command", "response"} :
           Cardinality(LinesOf(lines, id, kind)) = lines[s].steps
      /\ Cardinality(LinesOf(lines, id, "stream")) = lines[s].streams
  BY DEF CaseComplete
<1> HIDE DEF s
<1>5. s \in 1..n /\ lines[s].kind = "scenario" /\ CaseAt(lines, s) = id
  BY <1>3 DEF LinesOf
<1>6. QED
  BY <1>3, <1>4, <1>5

(* The headers of the file are the first two lines of its cases.           *)
LEMMA HeadersOfPack ==
  ASSUME IInv
  PROVE  /\ \A h \in Headers(Texts) :
              /\ h \in DOMAIN pack /\ pack[h].by \in DOMAIN added
              /\ Texts[h].kind = "metadata" => pack[h] = Line(pack[h].by, 1)
              /\ Texts[h].kind = "scenario" => /\ pack[h] = Line(pack[h].by, 2)
                   /\ Texts[h].steps = AddedCase(pack[h].by).expectedSteps
                   /\ Texts[h].streams = AddedCase(pack[h].by).expectedStreams
              /\ Texts[h].id = AddedCase(pack[h].by).id
         /\ \A i \in DOMAIN pack : \A by \in DOMAIN added :
              /\ pack[i] = Line(by, 1) => Texts[i].kind = "metadata" /\ i \in Headers(Texts)
              /\ pack[i] = Line(by, 2) => Texts[i].kind = "scenario" /\ i \in Headers(Texts)
<1>1. /\ CasesAdded /\ DOMAIN Texts = DOMAIN pack
      /\ \A i \in DOMAIN pack : pack[i] \in Lines /\ Texts[i] = pack[i].text
  BY TextsOfPack
<1>2. ASSUME NEW h \in Headers(Texts)
      PROVE  /\ h \in DOMAIN pack /\ pack[h].by \in DOMAIN added
             /\ Texts[h].kind = "metadata" => pack[h] = Line(pack[h].by, 1)
             /\ Texts[h].kind = "scenario" => /\ pack[h] = Line(pack[h].by, 2)
                  /\ Texts[h].steps = AddedCase(pack[h].by).expectedSteps
                  /\ Texts[h].streams = AddedCase(pack[h].by).expectedStreams
             /\ Texts[h].id = AddedCase(pack[h].by).id
  <2>1. /\ h \in DOMAIN pack /\ pack[h] \in Lines /\ Texts[h] = pack[h].text
        /\ Texts[h].kind \in {"metadata", "scenario"}
    BY <1>1 DEF Headers
  <2>2. /\ pack[h].by \in DOMAIN added
        /\ Texts[h].kind = "metadata" => pack[h] = Line(pack[h].by, 1)
        /\ Texts[h].kind = "scenario" => pack[h] = Line(pack[h].by, 2)
    BY <1>1, <2>1, KindOfLine
  <2>3. PICK by \in DOMAIN added : by = pack[h].by
    BY <2>2
  <2>4. /\ Line(by, 1).text = MetadataText(AddedCase(by))
        /\ Line(by, 2).text = ScenarioText(AddedCase(by))
    BY <1>1, TextsOfCase
  <2>5. CASE Texts[h].kind = "metadata"
    BY <2>1, <2>2, <2>3, <2>4, <2>5 DEF MetadataText
  <2>6. CASE Texts[h].kind = "scenario"
    BY <2>1, <2>2, <2>3, <2>4, <2>6 DEF ScenarioText
  <2>7. QED
    BY <2>1, <2>5, <2>6
<1>3. ASSUME NEW i \in DOMAIN pack, NEW by \in DOMAIN added
      PROVE  /\ pack[i] = Line(by, 1) => Texts[i].kind = "metadata" /\ i \in Headers(Texts)
             /\ pack[i] = Line(by, 2) => Texts[i].kind = "scenario" /\ i \in Headers(Texts)
  <2>1. /\ Line(by, 1).text = MetadataText(AddedCase(by))
        /\ Line(by, 2).text = ScenarioText(AddedCase(by))
    BY <1>1, TextsOfCase
  <2>2. QED
    BY <1>1, <2>1 DEF Headers, MetadataText, ScenarioText
<1>4. QED
  BY <1>2, <1>3

(* In a reviewable pack every line belongs to a case that it names.        *)
LEMMA EveryLineNamed ==
  ASSUME IInv, Reviewable(Texts), NEW i \in DOMAIN pack
  PROVE  CaseAt(Texts, i) \in Named(Texts)
<1>1. Len(pack) \in Nat /\ DOMAIN Texts = 1..Len(pack) /\ i \in 1..Len(pack)
  BY TextsOfPack
<1>2. 1 \in Headers(Texts) /\ 1 <= i
  BY <1>1 DEF Headers, Reviewable
<1>3. QED
  BY <1>1, <1>2, LastHeader DEF Named

-----------------------------------------------------------------------------
(* Counting lines.                                                         *)

(* What the cases of a set have of a kind.                                 *)
Units(kind, cases)     == UNION {{by} \X Part(kind, by) : by \in cases}
WrittenOf(kind, cases) == {line \in Lines : line.text.kind = kind /\ line.by \in cases}
InFile(kind)           == {i \in DOMAIN pack : pack[i].text.kind = kind}

(* What the property counts.                                               *)
LEMMA UnitsCounted ==
  ASSUME NEW cases
  PROVE  /\ Units("command", cases) = StepsOf(cases)
         /\ Units("response", cases) = StepsOf(cases)
         /\ Units("stream", cases) = StreamsOf(cases)
<1>1. \A by : /\ Part("command", by) = DOMAIN AddedCase(by).steps
              /\ Part("response", by) = DOMAIN AddedCase(by).steps
              /\ Part("stream", by) = DOMAIN AddedCase(by).streams
  BY DEF Part
<1>2. QED
  BY <1>1 DEF Units, StepsOf, StreamsOf

(* Of a case there are as many units of a kind as it has steps or streams; *)
(* and of a set of cases, finitely many.                                   *)
LEMMA UnitsFinite ==
  ASSUME CasesAdded, NEW kind \in Kinds
  PROVE  /\ \A by \in DOMAIN added :
              /\ IsFiniteSet({by} \X Part(kind, by))
              /\ Cardinality({by} \X Part(kind, by)) =
                   IF kind = "stream" THEN Len(AddedCase(by).streams) ELSE Len(AddedCase(by).steps)
         /\ \A cases \in SUBSET DOMAIN added : IsFiniteSet(Units(kind, cases))
<1>1. ASSUME NEW by \in DOMAIN added
      PROVE  /\ IsFiniteSet({by} \X Part(kind, by))
             /\ Cardinality({by} \X Part(kind, by)) =
                  IF kind = "stream" THEN Len(AddedCase(by).streams) ELSE Len(AddedCase(by).steps)
  <2> DEFINE size == IF kind = "stream" THEN Len(AddedCase(by).streams) ELSE Len(AddedCase(by).steps)
  <2>1. size \in Nat /\ Part(kind, by) = 1..size
    BY PlacesOfCase DEF Kinds
  <2> HIDE DEF size
  <2>2. IsFiniteSet(1..size) /\ Cardinality(1..size) = size
    BY <2>1, FS_Interval
  <2>3. IsFiniteSet({by}) /\ Cardinality({by}) = 1
    BY FS_Singleton
  <2>4. /\ IsFiniteSet({by} \X (1..size))
        /\ Cardinality({by} \X (1..size)) = Cardinality({by}) * Cardinality(1..size)
    BY <2>2, <2>3, FS_Product
  <2>5. 1 * size = size
    BY <2>1
  <2>6. QED
    BY <2>1, <2>2, <2>3, <2>4, <2>5 DEF size
<1>2. IsFiniteSet(DOMAIN added)
  BY FS_Interval, LenProperties DEF CasesAdded
<1>3. ASSUME NEW cases \in SUBSET DOMAIN added PROVE IsFiniteSet(Units(kind, cases))
  <2> DEFINE families == {{by} \X Part(kind, by) : by \in cases}
  <2>1. IsFiniteSet(cases)
    BY <1>2, FS_Subset
  <2>2. IsFiniteSet(families)
    <3> DEFINE m == [by \in cases |-> {by} \X Part(kind, by)]
    <3>1. m \in Surjection(cases, families)
      BY DEF Surjection
    <3>2. QED
      BY <2>1, <3>1, FS_Surjection
  <2>3. \A family \in families : IsFiniteSet(family)
    BY <1>1
  <2>4. IsFiniteSet(UNION families)
    BY <2>2, <2>3, FS_UNION
  <2>5. QED
    BY <2>4 DEF Units
<1>4. QED
  BY <1>1, <1>3

(* The cases of a set and the others have all there is between them.       *)
LEMMA UnitsSplit ==
  ASSUME CasesAdded, NEW kind \in Kinds, NEW cases \in SUBSET DOMAIN added
  PROVE  /\ Cardinality(Units(kind, DOMAIN added)) =
              Cardinality(Units(kind, cases)) + Cardinality(Units(kind, DOMAIN added \ cases))
         /\ Cardinality(Units(kind, cases)) \in Nat
         /\ Cardinality(Units(kind, DOMAIN added \ cases)) \in Nat
<1> DEFINE A == Units(kind, cases)
           B == Units(kind, DOMAIN added \ cases)
<1>1. IsFiniteSet(A) /\ IsFiniteSet(B)
  BY UnitsFinite
<1>2. A \cup B = Units(kind, DOMAIN added) /\ A \cap B = {}
  BY DEF Units
<1> HIDE DEF A, B
<1>3. Cardinality(A) \in Nat /\ Cardinality(B) \in Nat
  BY <1>1, FS_CardinalityType
<1>4. Cardinality(A \cup B) = Cardinality(A) + Cardinality(B) - Cardinality({})
  BY <1>1, <1>2, FS_Union
<1>5. Cardinality(A \cup B) = Cardinality(A) + Cardinality(B)
  BY <1>3, <1>4, FS_EmptySet
<1>6. QED
  BY <1>2, <1>3, <1>5 DEF A, B

(* Each step and stream has its line.                                      *)
LEMMA LineOfUnit ==
  ASSUME CasesAdded, NEW kind \in Kinds, NEW cases \in SUBSET DOMAIN added
  PROVE  /\ IsFiniteSet(WrittenOf(kind, cases))
         /\ Cardinality(WrittenOf(kind, cases)) = Cardinality(Units(kind, cases))
<1> DEFINE D == Units(kind, cases)
           m == [u \in D |-> Line(u[1], Place(kind, u[1], u[2]))]
<1>1. \A u \in D : u[1] \in cases /\ u[2] \in Part(kind, u[1]) /\ u = <<u[1], u[2]>>
  BY DEF Units
<1>2. \A by \in cases : \A k \in Part(kind, by) : <<by, k>> \in D
  BY DEF Units
<1>3. ASSUME NEW by \in cases, NEW k \in Part(kind, by)
      PROVE  /\ Line(by, Place(kind, by, k)) \in WrittenOf(kind, cases)
             /\ Line(by, Place(kind, by, k)).by = by
             /\ Line(by, Place(kind, by, k)).at = Place(kind, by, k)
  <2>1. /\ Place(kind, by, k) \in 4..CaseSize(AddedCase(by)) /\ CaseSize(AddedCase(by)) \in Nat
    BY <1>3, PlacesOfCase
  <2>2. Place(kind, by, k) \in 1..CaseSize(AddedCase(by))
    BY <2>1
  <2>3. /\ Line(by, Place(kind, by, k)) \in Lines /\ Line(by, Place(kind, by, k)).by = by
        /\ Line(by, Place(kind, by, k)).at = Place(kind, by, k)
    BY <2>2, LineByPlace
  <2>4. Line(by, Place(kind, by, k)).text.kind = kind
    BY <1>3, <2>3, KindOfLine
  <2>5. QED
    BY <2>3, <2>4 DEF WrittenOf
<1>4. ASSUME NEW by \in cases, NEW k \in Part(kind, by), NEW l \in Part(kind, by),
             Place(kind, by, k) = Place(kind, by, l)
      PROVE  k = l
  <2>1. k \in Nat /\ l \in Nat /\ Len(AddedCase(by).steps) \in Nat
    BY PlacesOfCase DEF Kinds
  <2>2. CASE kind = "command"
    BY <1>4, <2>1, <2>2 DEF Place
  <2>3. CASE kind = "response"
    BY <1>4, <2>1, <2>3 DEF Place
  <2>4. CASE kind = "stream"
    BY <1>4, <2>1, <2>4 DEF Place
  <2>5. QED
    BY <2>2, <2>3, <2>4 DEF Kinds
<1>5. ASSUME NEW line \in WrittenOf(kind, cases)
      PROVE  \E u \in D : line = Line(u[1], Place(kind, u[1], u[2]))
  <2>1. line \in Lines /\ line.text.kind = kind /\ line.by \in cases
    BY DEF WrittenOf
  <2>2. line.by \in cases /\ \E k \in Part(kind, line.by) : line = Line(line.by, Place(kind, line.by, k))
    BY <2>1, KindOfLine
  <2>3. PICK k \in Part(kind, line.by) : line = Line(line.by, Place(kind, line.by, k))
    BY <2>2
  <2>4. <<line.by, k>> \in D
    BY <1>2, <2>2
  <2>5. QED
    BY <2>3, <2>4
<1> HIDE DEF D
<1>6. m \in [D -> WrittenOf(kind, cases)]
  BY <1>1, <1>3
<1>7. ASSUME NEW u \in D, NEW v \in D, m[u] = m[v] PROVE u = v
  <2>1. Line(u[1], Place(kind, u[1], u[2])) = Line(v[1], Place(kind, v[1], v[2]))
    BY <1>7
  <2>2. u[1] = v[1] /\ Place(kind, u[1], u[2]) = Place(kind, v[1], v[2])
    BY <1>1, <1>3, <2>1
  <2>3. u[2] = v[2]
    BY <1>1, <1>4, <2>2
  <2>4. QED
    BY <1>1, <2>2, <2>3
<1>8. \A line \in WrittenOf(kind, cases) : \E u \in D : m[u] = line
  BY <1>5
<1> HIDE DEF m
<1>9. m \in Bijection(D, WrittenOf(kind, cases))
  BY <1>6, <1>7, <1>8 DEF Bijection, Injection, Surjection, IsInjective
<1>10. IsFiniteSet(D)
  BY UnitsFinite DEF D
<1>11. QED
  BY <1>9, <1>10, FS_Bijection DEF ExistsBijection, D

(* Of a kind, what is in the file and what was lost is what was written.   *)
LEMMA LostAndKept ==
  ASSUME IInv, NEW kind \in Kinds
  PROVE  /\ Cardinality(LostOf(kind)) + Cardinality(InFile(kind)) =
              Cardinality(Units(kind, DOMAIN added))
         /\ Cardinality(LostOf(kind)) \in Nat
         /\ IsFiniteSet(InFile(kind))
<1> DEFINE kept == {pack[i] : i \in InFile(kind)}
           m    == [i \in InFile(kind) |-> pack[i]]
<1>1. CasesAdded /\ NoneTwice /\ NoneGone /\ lost \subseteq Lines
  BY DEF IInv, LinesKnown
<1>2. \A i \in DOMAIN pack : pack[i] \in Lines
  BY TextsOfPack
<1>3. IsFiniteSet(WrittenOf(kind, DOMAIN added))
      /\ Cardinality(WrittenOf(kind, DOMAIN added)) = Cardinality(Units(kind, DOMAIN added))
  BY <1>1, LineOfUnit
<1>4. WrittenOf(kind, DOMAIN added) = LostOf(kind) \cup kept
  BY <1>1, <1>2, LineByPlace DEF WrittenOf, LostOf, InFile, NoneGone
<1>5. LostOf(kind) \cap kept = {}
  BY <1>1, <1>2 DEF LostOf, InFile, NoneGone
<1>6. IsFiniteSet(LostOf(kind)) /\ IsFiniteSet(kept)
  BY <1>3, <1>4, FS_Subset
<1>7. IsFiniteSet(InFile(kind))
  <2>1. IsFiniteSet(DOMAIN pack)
    BY TextsOfPack, FS_Interval
  <2>2. QED
    BY <2>1, FS_Subset DEF InFile
<1>8. m \in Bijection(InFile(kind), kept)
  BY <1>1 DEF Bijection, Injection, Surjection, IsInjective, InFile, NoneTwice
<1>9. Cardinality(kept) = Cardinality(InFile(kind))
  BY <1>7, <1>8, FS_Bijection DEF ExistsBijection
<1> HIDE DEF kept
<1>10. Cardinality(LostOf(kind)) \in Nat /\ Cardinality(kept) \in Nat
  BY <1>6, FS_CardinalityType
<1>11. Cardinality(LostOf(kind) \cup kept) =
         Cardinality(LostOf(kind)) + Cardinality(kept) - Cardinality({})
  BY <1>5, <1>6, FS_Union
<1>12. Cardinality({}) = 0
  BY FS_EmptySet
<1>13. Cardinality(LostOf(kind) \cup kept) = Cardinality(LostOf(kind)) + Cardinality(kept)
  BY <1>10, <1>11, <1>12
<1>14. QED
  BY <1>3, <1>4, <1>7, <1>9, <1>10, <1>13

-----------------------------------------------------------------------------
(* What a reviewable pack has lost.                                        *)

(* The cases a file names.                                                 *)
NamedCases == {by \in DOMAIN added : AddedCase(by).id \in Named(Texts)}

(* A case is named if either of its headers is in the file; in a reviewable*)
(* pack both are.                                                          *)
LEMMA BothHeaders ==
  ASSUME IInv, Reviewable(Texts), IdsDistinct, NEW by \in DOMAIN added
  PROVE  /\ by \in NamedCases <=> \E i \in DOMAIN pack : pack[i] = Line(by, 1)
         /\ by \in NamedCases <=> \E i \in DOMAIN pack : pack[i] = Line(by, 2)
<1> DEFINE id == AddedCase(by).id
<1>1. Len(pack) \in Nat /\ DOMAIN Texts = 1..Len(pack) /\ DOMAIN pack = 1..Len(pack)
  BY TextsOfPack
<1>2. Headers(Texts) \subseteq DOMAIN pack
  BY HeadersOfPack
<1>3. CasesAdded
  BY DEF IInv
<1>4. ASSUME NEW i \in DOMAIN pack, pack[i] = Line(by, 1) \/ pack[i] = Line(by, 2)
      PROVE  by \in NamedCases
  <2>1. i \in Headers(Texts)
    BY <1>4, HeadersOfPack
  <2>2. Texts[i].id = AddedCase(pack[i].by).id
    BY <2>1, HeadersOfPack
  <2>3. pack[i].by = by
    BY <1>4 DEF Line
  <2>4. QED
    BY <2>1, <2>2, <2>3 DEF NamedCases, Named
<1>5. ASSUME by \in NamedCases
      PROVE  /\ \E i \in DOMAIN pack : pack[i] = Line(by, 1)
             /\ \E i \in DOMAIN pack : pack[i] = Line(by, 2)
  <2>1. CaseComplete(Texts, id)
    BY <1>5 DEF NamedCases, Reviewable
  <2>2. ASSUME NEW kind \in {"metadata", "scenario"}, NEW i \in LinesOf(Texts, id, kind)
        PROVE  i \in DOMAIN pack /\ i \in Headers(Texts) /\ Texts[i].kind = kind /\ pack[i].by = by
    <3>1. i \in Headers(Texts) /\ Texts[i].kind = kind /\ CaseAt(Texts, i) = id
      BY <2>2 DEF LinesOf, Headers
    <3>2. CaseAt(Texts, i) = Texts[i].id
      BY <1>1, <3>1, HeaderNamesItself
    <3>3. pack[i].by \in DOMAIN added /\ Texts[i].id = AddedCase(pack[i].by).id
      BY <3>1, HeadersOfPack
    <3>4. pack[i].by = by
      BY <3>1, <3>2, <3>3 DEF IdsDistinct
    <3>5. QED
      BY <1>2, <3>1, <3>4
  <2>3. PICK i \in LinesOf(Texts, id, "metadata") : TRUE
    BY <2>1 DEF CaseComplete
  <2>4. pack[i] = Line(by, 1)
    BY <2>2, <2>3, HeadersOfPack
  <2>5. PICK j \in LinesOf(Texts, id, "scenario") : TRUE
    BY <2>1 DEF CaseComplete
  <2>6. pack[j] = Line(by, 2)
    BY <2>2, <2>5, HeadersOfPack
  <2>7. QED
    BY <2>2, <2>3, <2>4, <2>5, <2>6
<1>6. QED
  BY <1>4, <1>5

(* The metadata and the scenarios that are gone are those of the cases the *)
(* file does not name.                                                     *)
LEMMA LostHeaders ==
  ASSUME IInv, Reviewable(Texts), IdsDistinct
  PROVE  /\ LostCases("metadata") = DOMAIN added \ NamedCases
         /\ LostCases("scenario") = DOMAIN added \ NamedCases
<1>1. CasesAdded /\ NoneGone /\ lost \subseteq Lines
  BY DEF IInv, LinesKnown
<1>2. \A by \in DOMAIN added :
        /\ Line(by, 1) \in Lines /\ Line(by, 2) \in Lines
        /\ Line(by, 1).by = by /\ Line(by, 2).by = by
        /\ Line(by, 1).text.kind = "metadata" /\ Line(by, 2).text.kind = "scenario"
  <2> TAKE by \in DOMAIN added
  <2>1. CaseSize(AddedCase(by)) \in Nat /\ CaseSize(AddedCase(by)) >= 3
    BY <1>1, PlacesOfCase
  <2>2. 1 \in 1..CaseSize(AddedCase(by)) /\ 2 \in 1..CaseSize(AddedCase(by))
    BY <2>1
  <2>3. /\ Line(by, 1) \in Lines /\ Line(by, 2) \in Lines
        /\ Line(by, 1).by = by /\ Line(by, 2).by = by
    BY <2>2, LineByPlace
  <2>4. QED
    BY <1>1, <2>3, KindOfLine
<1>3. ASSUME NEW by \in DOMAIN added
      PROVE  /\ by \in NamedCases <=> Line(by, 1) \notin lost
             /\ by \in NamedCases <=> Line(by, 2) \notin lost
  BY <1>1, <1>2, BothHeaders DEF NoneGone
<1>4. ASSUME NEW line \in lost
      PROVE  /\ line.by \in DOMAIN added
             /\ line.text.kind = "metadata" => line = Line(line.by, 1)
             /\ line.text.kind = "scenario" => line = Line(line.by, 2)
  BY <1>1, KindOfLine
<1>5. \A by : by \in LostCases("metadata") <=> by \in DOMAIN added /\ Line(by, 1) \in lost
  BY <1>2, <1>4 DEF LostCases, LostOf
<1>6. \A by : by \in LostCases("scenario") <=> by \in DOMAIN added /\ Line(by, 2) \in lost
  BY <1>2, <1>4 DEF LostCases, LostOf
<1>7. QED
  BY <1>3, <1>5, <1>6

(* A reviewable pack has, of the cases it names, every command, response   *)
(* and stream: as many of each case as its scenario counts.                *)
LEMMA NamedAreWhole ==
  ASSUME IInv, Reviewable(Texts), IdsDistinct, CountsRight, NEW kind \in Kinds
  PROVE  Cardinality(InFile(kind)) = Cardinality(Units(kind, NamedCases))
<1> DEFINE f == [i \in InFile(kind) |-> CaseAt(Texts, i)]
           g == [u \in Units(kind, NamedCases) |-> AddedCase(u[1]).id]
           FibreF(k) == Fibre(f, InFile(kind), k)
           FibreG(k) == Fibre(g, Units(kind, NamedCases), k)
<1>1. /\ CasesAdded /\ Len(pack) \in Nat
      /\ DOMAIN Texts = 1..Len(pack) /\ DOMAIN pack = 1..Len(pack)
      /\ \A i \in DOMAIN pack : Texts[i] = pack[i].text
  BY TextsOfPack
<1>2. IsFiniteSet(InFile(kind))
  BY LostAndKept
<1>3. IsFiniteSet(Units(kind, NamedCases))
  BY <1>1, UnitsFinite DEF NamedCases
<1>4. ASSUME NEW id PROVE Cardinality(FibreF(id)) = Cardinality(FibreG(id))
  <2>1. CASE id \notin Named(Texts)
    <3>1. FibreF(id) = {}
      BY <2>1, EveryLineNamed DEF InFile, Fibre
    <3>2. FibreG(id) = {}
      BY <2>1 DEF Units, NamedCases, Fibre
    <3>3. QED
      BY <3>1, <3>2
  <2>2. CASE id \in Named(Texts)
    <3>1. CaseComplete(Texts, id)
      BY <2>2 DEF Reviewable
    <3>2. PICK s \in LinesOf(Texts, id, "scenario") :
            /\ s \in 1..Len(pack) /\ Texts[s].kind = "scenario" /\ CaseAt(Texts, s) = id
            /\ \A which \in {"command", "response"} :
                 Cardinality(LinesOf(Texts, id, which)) = Texts[s].steps
            /\ Cardinality(LinesOf(Texts, id, "stream")) = Texts[s].streams
      BY <1>1, <3>1, ScenarioCounts
    <3>3. s \in Headers(Texts)
      BY <1>1, <3>2 DEF Headers
    <3>4. PICK by \in DOMAIN added : by = pack[s].by
      BY <3>3, HeadersOfPack
    <3>5. /\ Texts[s].id = AddedCase(by).id
          /\ Texts[s].steps = AddedCase(by).expectedSteps
          /\ Texts[s].streams = AddedCase(by).expectedStreams
      BY <3>2, <3>3, <3>4, HeadersOfPack
    <3>6. AddedCase(by).id = id
      BY <1>1, <3>2, <3>3, <3>5, HeaderNamesItself
    <3>7. by \in NamedCases
      BY <2>2, <3>6 DEF NamedCases
    <3>8. FibreF(id) = LinesOf(Texts, id, kind)
      BY <1>1 DEF LinesOf, InFile, Fibre
    <3>9. FibreG(id) = {by} \X Part(kind, by)
      <4>1. \A u \in Units(kind, NamedCases) :
              /\ u[1] \in NamedCases /\ u[2] \in Part(kind, u[1]) /\ u = <<u[1], u[2]>>
        BY DEF Units
      <4>2. \A u \in Units(kind, NamedCases) : AddedCase(u[1]).id = id => u[1] = by
        BY <3>6, <4>1 DEF NamedCases, IdsDistinct
      <4>3. \A k \in Part(kind, by) : <<by, k>> \in Units(kind, NamedCases)
        BY <3>7 DEF Units
      <4>4. QED
        BY <3>6, <4>1, <4>2, <4>3 DEF Fibre
    <3>10. Cardinality({by} \X Part(kind, by)) =
             IF kind = "stream" THEN Len(AddedCase(by).streams) ELSE Len(AddedCase(by).steps)
      BY <1>1, UnitsFinite
    <3>11. Cardinality(LinesOf(Texts, id, kind)) =
             IF kind = "stream" THEN Texts[s].streams ELSE Texts[s].steps
      BY <3>2 DEF Kinds
    <3>12. /\ AddedCase(by).expectedSteps = Len(AddedCase(by).steps)
           /\ AddedCase(by).expectedStreams = Len(AddedCase(by).streams)
      BY DEF CountsRight
    <3>13. QED
      BY <3>5, <3>8, <3>9, <3>10, <3>11, <3>12
  <2>3. QED
    BY <2>1, <2>2
<1> DEFINE S == InFile(kind)
           T == Units(kind, NamedCases)
<1>5. IsFiniteSet(S) /\ IsFiniteSet(T)
  BY <1>2, <1>3
<1>6. \A k : Cardinality(Fibre(f, S, k)) = Cardinality(Fibre(g, T, k))
  BY <1>4
<1> HIDE DEF f, g, S, T
<1>7. Cardinality(S) = Cardinality(T)
  BY <1>5, <1>6, FibresEqual
<1>8. QED
  BY <1>7 DEF S, T

(* What is missing of a reviewable pack is whole cases.                    *)
LEMMA InvLost == IInv => LostByCase
<1> SUFFICES ASSUME IInv, Reviewable(Texts), CountsRight, IdsDistinct
             PROVE  /\ LostCases("scenario") = LostCases("metadata")
                    /\ Cardinality(LostOf("command")) = Cardinality(StepsOf(LostCases("metadata")))
                    /\ Cardinality(LostOf("response")) = Cardinality(StepsOf(LostCases("metadata")))
                    /\ Cardinality(LostOf("stream")) = Cardinality(StreamsOf(LostCases("metadata")))
  BY DEF LostByCase
<1>1. ASSUME NEW kind \in Kinds
      PROVE  Cardinality(LostOf(kind)) = Cardinality(Units(kind, DOMAIN added \ NamedCases))
  <2>1. /\ Cardinality(LostOf(kind)) + Cardinality(InFile(kind)) =
             Cardinality(Units(kind, DOMAIN added))
        /\ Cardinality(LostOf(kind)) \in Nat
    BY LostAndKept
  <2>2. /\ Cardinality(Units(kind, DOMAIN added)) = Cardinality(Units(kind, NamedCases))
             + Cardinality(Units(kind, DOMAIN added \ NamedCases))
        /\ Cardinality(Units(kind, NamedCases)) \in Nat
        /\ Cardinality(Units(kind, DOMAIN added \ NamedCases)) \in Nat
    BY UnitsSplit DEF IInv, NamedCases
  <2>3. Cardinality(InFile(kind)) = Cardinality(Units(kind, NamedCases))
    BY NamedAreWhole
  <2>4. QED
    BY <2>1, <2>2, <2>3
<1>2. /\ LostCases("metadata") = DOMAIN added \ NamedCases
      /\ LostCases("scenario") = DOMAIN added \ NamedCases
  BY LostHeaders
<1>3. QED
  BY <1>1, <1>2, UnitsCounted DEF Kinds

(* LostByCase of TracePack for every set of cases, and however many lines  *)
(* are lost and moved: a pack the audit accepts lacks whole cases only.    *)
THEOREM LossesAreWholeCases == Spec => []LostByCase
  BY PackAccounted, InvLost, PTL

-----------------------------------------------------------------------------
(* A pack as it was generated.                                             *)

Untouched == lost = {} /\ swaps = 0 /\ added # <<>>

(* Its lines are all there, in their order.                                *)
LEMMA UntouchedLines ==
  ASSUME IInv, Untouched
  PROVE  /\ \A line \in Lines : \E i \in DOMAIN pack : pack[i] = line
         /\ \A i, j \in DOMAIN pack : i < j <=> Earlier(pack[i], pack[j])
         /\ \A by \in DOMAIN added :
              /\ by \in Nat
              /\ \E i \in DOMAIN pack : pack[i] = Line(by, 1)
              /\ \E i \in DOMAIN pack : pack[i] = Line(by, 2)
              /\ \E i \in DOMAIN pack : pack[i] = Line(by, 3)
<1>1. /\ CasesAdded /\ NoneGone /\ NoneTwice /\ InOrder /\ lost = {} /\ swaps = 0
      /\ DOMAIN pack = 1..Len(pack) /\ \A i \in DOMAIN pack : pack[i] \in Lines
  BY TextsOfPack DEF IInv, Untouched
<1>2. \A line \in Lines : \E i \in DOMAIN pack : pack[i] = line
  BY <1>1 DEF NoneGone
<1>3. ASSUME NEW i \in DOMAIN pack, NEW j \in DOMAIN pack
      PROVE  i < j <=> Earlier(pack[i], pack[j])
  <2>1. i < j => Earlier(pack[i], pack[j])
    BY <1>1 DEF InOrder
  <2>2. j < i => ~ Earlier(pack[i], pack[j])
    BY <1>1, EarlierTotal DEF InOrder
  <2>3. i = j => ~ Earlier(pack[i], pack[j])
    BY <1>1, EarlierTotal
  <2>4. i < j \/ j < i \/ i = j
    BY <1>1
  <2>5. QED
    BY <1>1, <2>1, <2>2, <2>3, <2>4
<1>4. ASSUME NEW by \in DOMAIN added
      PROVE  /\ by \in Nat
             /\ Line(by, 1) \in Lines /\ Line(by, 2) \in Lines /\ Line(by, 3) \in Lines
  <2>1. CaseSize(AddedCase(by)) \in Nat /\ CaseSize(AddedCase(by)) >= 3
    BY <1>1, PlacesOfCase
  <2>2. \A at \in {1, 2, 3} : at \in 1..CaseSize(AddedCase(by))
    BY <2>1
  <2>3. Line(by, 1) \in Lines /\ Line(by, 2) \in Lines /\ Line(by, 3) \in Lines
    BY <2>2, LineByPlace
  <2>4. DOMAIN added = 1..Len(added)
    BY <1>1, LenProperties DEF CasesAdded
  <2>5. QED
    BY <2>3, <2>4
<1>5. QED
  BY <1>2, <1>3, <1>4

(* Each line belongs to the case it was written for.                       *)
LEMMA UntouchedCaseAt ==
  ASSUME IInv, Untouched, NEW i \in DOMAIN pack
  PROVE  pack[i].by \in DOMAIN added /\ CaseAt(Texts, i) = AddedCase(pack[i].by).id
<1>1. /\ CasesAdded /\ Len(pack) \in Nat /\ DOMAIN Texts = 1..Len(pack)
      /\ DOMAIN pack = 1..Len(pack) /\ \A j \in DOMAIN pack : pack[j] \in Lines
  BY TextsOfPack
<1>2. PICK by \in DOMAIN added : by = pack[i].by
  BY <1>1, LineByPlace
<1>3. PICK f \in DOMAIN pack : pack[f] = Line(by, 1)
  BY UntouchedLines
<1>4. f \in Headers(Texts)
  BY <1>3, HeadersOfPack
<1>5. \A j \in DOMAIN pack : pack[j].by \in Nat /\ pack[j].at \in Nat /\ pack[j].at >= 1
  <2> TAKE j \in DOMAIN pack
  <2>1. pack[j].by \in Nat /\ pack[j].at \in Nat
    BY <1>1, EarlierTotal
  <2>2. pack[j].at \in 1..CaseSize(AddedCase(pack[j].by))
    BY <1>1, LineByPlace
  <2>3. QED
    BY <2>1, <2>2
<1>6. pack[f].by = by /\ pack[f].at = 1
  BY <1>3 DEF Line
<1>7. f <= i
  <2>1. ~ Earlier(pack[i], pack[f])
    BY <1>2, <1>5, <1>6 DEF Earlier
  <2>2. ~ (i < f)
    BY <2>1, UntouchedLines
  <2>3. QED
    BY <1>1, <2>2
<1>8. PICK h \in Headers(Texts) : /\ h <= i /\ h \in 1..Len(pack)
                                  /\ \A g \in Headers(Texts) : g <= i => g <= h
                                  /\ CaseAt(Texts, i) = Texts[h].id
  BY <1>1, <1>4, <1>7, LastHeader
<1>9. pack[h].by <= by
  <2>1. h = i \/ h < i
    BY <1>1, <1>8
  <2>2. h = i \/ Earlier(pack[h], pack[i])
    BY <1>1, <1>8, <2>1, UntouchedLines
  <2>3. QED
    BY <1>1, <1>2, <1>5, <1>8, <2>2 DEF Earlier
<1>10. by <= pack[h].by
  <2>1. f = h \/ f < h
    BY <1>1, <1>4, <1>7, <1>8
  <2>2. f = h \/ Earlier(pack[f], pack[h])
    BY <1>1, <1>8, <2>1, UntouchedLines
  <2>3. QED
    BY <1>1, <1>5, <1>6, <1>8, <2>2 DEF Earlier
<1>11. pack[h].by = by
  BY <1>1, <1>2, <1>5, <1>8, <1>9, <1>10
<1>12. QED
  BY <1>2, <1>8, <1>11, HeadersOfPack

(* What the audit reads of a case: its own lines, one of each unit.        *)
LEMMA UntouchedCase ==
  ASSUME IInv, Untouched, IdsDistinct, NEW by \in DOMAIN added
  PROVE  LET of(kind) == LinesOf(Texts, AddedCase(by).id, kind)
         IN  /\ \A kind : of(kind) = {i \in DOMAIN pack : Texts[i].kind = kind /\ pack[i].by = by}
             /\ \A kind \in {"command", "response"} :
                  Cardinality(of(kind)) = Len(AddedCase(by).steps)
             /\ Cardinality(of("stream")) = Len(AddedCase(by).streams)
<1> DEFINE Of(kind) == LinesOf(Texts, AddedCase(by).id, kind)
<1>1. /\ CasesAdded /\ Len(pack) \in Nat /\ DOMAIN Texts = DOMAIN pack
      /\ DOMAIN pack = 1..Len(pack) /\ NoneTwice
      /\ \A j \in DOMAIN pack : pack[j] \in Lines /\ Texts[j] = pack[j].text
  BY TextsOfPack DEF IInv
<1>2. \A i \in DOMAIN pack : CaseAt(Texts, i) = AddedCase(by).id <=> pack[i].by = by
  BY UntouchedCaseAt DEF IdsDistinct
<1>3. \A kind : Of(kind) = {i \in DOMAIN pack : Texts[i].kind = kind /\ pack[i].by = by}
  BY <1>1, <1>2 DEF LinesOf
<1> HIDE DEF Of
<1>4. ASSUME NEW kind \in Kinds
      PROVE  Cardinality(Of(kind)) =
               IF kind = "stream" THEN Len(AddedCase(by).streams) ELSE Len(AddedCase(by).steps)
  <2> DEFINE m == [i \in Of(kind) |-> pack[i]]
  <2>1. \A i \in Of(kind) : i \in DOMAIN pack /\ pack[i] \in WrittenOf(kind, {by})
    BY <1>1, <1>3 DEF WrittenOf
  <2>2. \A line \in WrittenOf(kind, {by}) : \E i \in Of(kind) : pack[i] = line
    <3> TAKE line \in WrittenOf(kind, {by})
    <3>1. line \in Lines /\ line.text.kind = kind /\ line.by = by
      BY DEF WrittenOf
    <3>2. PICK i \in DOMAIN pack : pack[i] = line
      BY <3>1, UntouchedLines
    <3>3. QED
      BY <1>1, <1>3, <3>1, <3>2
  <2>3. m \in Bijection(Of(kind), WrittenOf(kind, {by}))
    BY <1>1, <2>1, <2>2 DEF Bijection, Injection, Surjection, IsInjective, NoneTwice
  <2>4. IsFiniteSet(Of(kind))
    <3>1. IsFiniteSet(DOMAIN pack)
      BY <1>1, FS_Interval
    <3>2. Of(kind) \in SUBSET DOMAIN pack
      BY <1>3
    <3>3. QED
      BY <3>1, <3>2, FS_Subset
  <2>5. Cardinality(WrittenOf(kind, {by})) = Cardinality(Of(kind))
    BY <2>3, <2>4, FS_Bijection DEF ExistsBijection
  <2>6. Cardinality(WrittenOf(kind, {by})) = Cardinality(Units(kind, {by}))
    BY <1>1, LineOfUnit
  <2>7. Units(kind, {by}) = {by} \X Part(kind, by)
    BY DEF Units
  <2>8. QED
    BY <1>1, <2>5, <2>6, <2>7, UnitsFinite
<1>5. QED
  BY <1>3, <1>4 DEF Of, Kinds

(* A case is written as it should be.                                      *)
CaseRight(by) ==
  /\ added[by].policy.mode = "production" /\ ~ added[by].policy.support
  /\ AddedCase(by).steps # <<>>
  /\ AddedCase(by).asserted /\ AddedCase(by).raw = {}
  /\ FixturesMasked(AddedCase(by), added[by].policy)

(* A case of the file has the shape of a case.                             *)
LEMMA ShapeOfCase ==
  ASSUME CasesAdded, NEW by \in DOMAIN added
  PROVE  AddedCase(by) \in CaseShape
<1>1. added[by] \in [case : DOMAIN Cases, policy : PolicyChoices]
  BY ElementOfSeq, LenProperties DEF CasesAdded
<1>2. added[by].case \in DOMAIN Cases
  BY <1>1
<1>3. QED
  BY <1>2, CasesAssumption, ElementOfSeq, LenProperties DEF AddedCase

(* The answers of a file whose lines are sound show no raw fixture value.  *)
LEMMA SoundFixtures ==
  ASSUME IInv, Untouched, NEW by \in DOMAIN added,
         \A i \in DOMAIN pack : LineSound(Texts[i])
  PROVE  FixturesMasked(AddedCase(by), added[by].policy)
<1> DEFINE case == AddedCase(by)
           policy == added[by].policy
<1>1. /\ CasesAdded
      /\ \A j \in DOMAIN pack : pack[j] \in Lines /\ Texts[j] = pack[j].text
  BY TextsOfPack
<1>2. /\ Part("response", by) = DOMAIN case.steps
      /\ Part("stream", by) = DOMAIN case.streams
  BY DEF Part
<1>3. ASSUME NEW kind \in {"response", "stream"}, NEW k \in Part(kind, by)
      PROVE  LineSound(Line(by, Place(kind, by, k)).text)
  <2>1. Place(kind, by, k) \in 4..CaseSize(case) /\ CaseSize(case) \in Nat
    BY <1>1, <1>3, PlacesOfCase DEF Kinds
  <2>2. Place(kind, by, k) \in 1..CaseSize(case)
    BY <2>1
  <2>3. Line(by, Place(kind, by, k)) \in Lines
    BY <2>2, LineByPlace
  <2>4. PICK i \in DOMAIN pack : pack[i] = Line(by, Place(kind, by, k))
    BY <2>3, UntouchedLines
  <2>5. QED
    BY <1>1, <2>4
<1>4. ASSUME NEW k \in DOMAIN case.steps,
             NEW f \in Fields(case.steps[k].response, case.steps[k].context, policy)
      PROVE  ~ f.raw
  <2>1. k \in Part("response", by)
    BY <1>2
  <2>2. LineSound(Line(by, Place("response", by, k)).text)
    BY <1>3, <2>1
  <2>3. Line(by, Place("response", by, k)).text =
          [kind |-> "response",
           fields |-> Fields(case.steps[k].response, case.steps[k].context, policy)]
    BY <1>1, <2>1, TextsOfCase
  <2> DEFINE text == Line(by, Place("response", by, k)).text
  <2>4. text.kind = "response" /\ text.fields = Fields(case.steps[k].response,
                                                          case.steps[k].context, policy)
    BY <2>3
  <2>5. LineSound(text)
    BY <2>2
  <2> HIDE DEF text
  <2>6. \A g \in text.fields : ~ g.raw
    BY <2>4, <2>5, SoundByKind
  <2>7. QED
    BY Zenon, <1>4, <2>4, <2>6
<1>5. ASSUME NEW k \in DOMAIN case.streams,
             NEW f \in Fields(case.streams[k], "generic", policy)
      PROVE  ~ f.raw
  <2>1. k \in Part("stream", by)
    BY <1>2
  <2>2. LineSound(Line(by, Place("stream", by, k)).text)
    BY <1>3, <2>1
  <2>3. Line(by, Place("stream", by, k)).text =
          [kind |-> "stream", fields |-> Fields(case.streams[k], "generic", policy)]
    BY <1>1, <2>1, TextsOfCase
  <2> DEFINE text == Line(by, Place("stream", by, k)).text
  <2>4. text.kind = "stream" /\ text.fields = Fields(case.streams[k], "generic", policy)
    BY <2>3
  <2>5. LineSound(text)
    BY <2>2
  <2> HIDE DEF text
  <2>6. \A g \in text.fields : ~ g.raw
    BY <2>4, <2>5, SoundByKind
  <2>7. QED
    BY Zenon, <1>5, <2>4, <2>6
<1>6. QED
  BY <1>4, <1>5 DEF FixturesMasked

(* What is reviewable as it was generated has cases of different names...  *)
LEMMA ReviewableDistinct ==
  ASSUME IInv, Untouched, Reviewable(Texts)
  PROVE  IdsDistinct
<1>1. ASSUME NEW a \in DOMAIN added, NEW b \in DOMAIN added, a < b,
             AddedCase(a).id = AddedCase(b).id
      PROVE  FALSE
  <2>1. PICK g \in DOMAIN pack : pack[g] = Line(a, 1)
    BY UntouchedLines
  <2>2. PICK h \in DOMAIN pack : pack[h] = Line(b, 1)
    BY UntouchedLines
  <2>3. g < h
    <3>1. Earlier(pack[g], pack[h])
      BY <1>1, <2>1, <2>2 DEF Earlier, Line
    <3>2. QED
      BY <3>1, UntouchedLines
  <2>4. /\ Texts[g].kind = "metadata" /\ h \in Headers(Texts) /\ Texts[h].kind = "metadata"
    BY <2>1, <2>2, HeadersOfPack
  <2>5. pack[g].by = a /\ pack[h].by = b
    BY <2>1, <2>2 DEF Line
  <2>6. Texts[h].id = AddedCase(b).id
    BY <2>4, <2>5, HeadersOfPack
  <2>7. CaseAt(Texts, g) = AddedCase(b).id
    BY <1>1, <2>5, UntouchedCaseAt
  <2>8. g \in LinesOf(Texts, Texts[h].id, "metadata")
    BY <2>4, <2>6, <2>7, TextsOfPack DEF LinesOf
  <2>9. {e \in LinesOf(Texts, Texts[h].id, "metadata") : e < h} = {}
    BY <2>4 DEF Reviewable, HeadersSound
  <2>10. QED
    BY <2>3, <2>8, <2>9
<1>2. \A a, b \in DOMAIN added : a < b \/ b < a \/ a = b
  BY UntouchedLines
<1>3. QED
  BY <1>1, <1>2 DEF IdsDistinct

(* ... with the numbers their scenarios say, ...                           *)
LEMMA ReviewableCounts ==
  ASSUME IInv, Untouched, Reviewable(Texts)
  PROVE  CountsRight
<1> SUFFICES ASSUME NEW by \in DOMAIN added
             PROVE  /\ AddedCase(by).expectedSteps = Len(AddedCase(by).steps)
                    /\ AddedCase(by).expectedStreams = Len(AddedCase(by).streams)
  BY DEF CountsRight
<1> DEFINE id == AddedCase(by).id
<1>1. IdsDistinct
  BY ReviewableDistinct
<1>2. Len(pack) \in Nat /\ DOMAIN Texts = 1..Len(pack) /\ DOMAIN Texts = DOMAIN pack
  BY TextsOfPack
<1>3. id \in Named(Texts)
  <2>1. PICK i \in DOMAIN pack : pack[i] = Line(by, 1)
    BY UntouchedLines
  <2>2. i \in Headers(Texts) /\ Texts[i].id = AddedCase(pack[i].by).id
    BY <2>1, HeadersOfPack
  <2>3. pack[i].by = by
    BY <2>1 DEF Line
  <2>4. QED
    BY <2>2, <2>3 DEF Named
<1>4. CaseComplete(Texts, id)
  BY <1>3 DEF Reviewable
<1>5. PICK s \in LinesOf(Texts, id, "scenario") :
        /\ s \in 1..Len(pack) /\ Texts[s].kind = "scenario"
        /\ \A kind \in {"command", "response"} :
             Cardinality(LinesOf(Texts, id, kind)) = Texts[s].steps
        /\ Cardinality(LinesOf(Texts, id, "stream")) = Texts[s].streams
  BY <1>2, <1>4, ScenarioCounts
<1>6. pack[s].by = by
  <2>1. LinesOf(Texts, id, "scenario")
          = {i \in DOMAIN pack : Texts[i].kind = "scenario" /\ pack[i].by = by}
    BY <1>1, UntouchedCase
  <2>2. QED
    BY <1>5, <2>1
<1>7. s \in Headers(Texts)
  BY <1>2, <1>5 DEF Headers
<1>8. /\ Texts[s].steps = AddedCase(by).expectedSteps
      /\ Texts[s].streams = AddedCase(by).expectedStreams
  BY <1>5, <1>6, <1>7, HeadersOfPack
<1>9. /\ Cardinality(LinesOf(Texts, id, "command")) = Len(AddedCase(by).steps)
      /\ Cardinality(LinesOf(Texts, id, "stream")) = Len(AddedCase(by).streams)
  BY <1>1, UntouchedCase
<1>10. QED
  BY <1>5, <1>8, <1>9

(* ... under a policy of production, with steps.                           *)
LEMMA ReviewableRight ==
  ASSUME IInv, Untouched, Reviewable(Texts), NEW by \in DOMAIN added
  PROVE  CaseRight(by)
<1>1. /\ CasesAdded /\ DOMAIN Texts = DOMAIN pack
      /\ \A j \in DOMAIN pack : pack[j] \in Lines /\ Texts[j] = pack[j].text
  BY TextsOfPack
<1>2. IdsDistinct
  BY ReviewableDistinct
<1>3. /\ LineSound(MetadataText(AddedCase(by)))
      /\ LineSound(ScenarioText(AddedCase(by)))
      /\ LineSound(IdentityText(AddedCase(by), added[by].policy))
  <2>1. \A j \in DOMAIN pack : LineSound(pack[j].text)
    BY <1>1 DEF Reviewable
  <2>2. PICK i \in DOMAIN pack : pack[i] = Line(by, 1)
    BY UntouchedLines
  <2>3. PICK j \in DOMAIN pack : pack[j] = Line(by, 2)
    BY UntouchedLines
  <2>4. PICK k \in DOMAIN pack : pack[k] = Line(by, 3)
    BY UntouchedLines
  <2>5. QED
    BY <1>1, <2>1, <2>2, <2>3, <2>4, TextsOfCase
<1>4. added[by].policy.mode = "production" /\ ~ added[by].policy.support
  <2>1. LineSound(IdentityText(AddedCase(by), added[by].policy))
    BY <1>3
  <2>2. QED
    BY <2>1, SoundHeads
<1>5. AddedCase(by).steps # <<>>
  <2>1. PICK i \in DOMAIN pack : pack[i] = Line(by, 1)
    BY UntouchedLines
  <2>2. i \in Headers(Texts) /\ Texts[i].id = AddedCase(by).id
    <3>1. pack[i].by = by
      BY <2>1 DEF Line
    <3>2. i \in Headers(Texts)
      BY <2>1, HeadersOfPack
    <3>3. QED
      BY <3>1, <3>2, HeadersOfPack
  <2>3. CaseComplete(Texts, AddedCase(by).id)
    BY <2>2 DEF Reviewable, Named
  <2>4. PICK j \in LinesOf(Texts, AddedCase(by).id, "command") : TRUE
    BY <2>3 DEF CaseComplete
  <2>5. j \in DOMAIN pack /\ Texts[j].kind = "command" /\ pack[j].by = by
    BY <1>2, <2>4, UntouchedCase
  <2>6. PICK k \in Part("command", by) : TRUE
    BY <1>1, <2>5, KindOfLine DEF Kinds
  <2>7. k \in DOMAIN AddedCase(by).steps
    BY <2>6 DEF Part
  <2>8. QED
    BY <2>7
<1>6. AddedCase(by).asserted /\ AddedCase(by).raw = {}
  <2>1. AddedCase(by).asserted /\ "scenario" \notin AddedCase(by).raw
    BY <1>3, SoundHeads
  <2>2. "metadata" \notin AddedCase(by).raw
    BY <1>3, SoundHeads
  <2>3. "identity" \notin AddedCase(by).raw
    BY <1>3, SoundHeads
  <2>4. AddedCase(by).raw \subseteq Heads
    BY <1>1, ShapeOfCase DEF CaseShape
  <2>5. QED
    BY <2>1, <2>2, <2>3, <2>4 DEF Heads
<1>7. FixturesMasked(AddedCase(by), added[by].policy)
  BY <1>1, SoundFixtures DEF Reviewable
<1>8. QED
  BY <1>4, <1>5, <1>6, <1>7 DEF CaseRight

(* A file whose cases are written as they should be has sound lines, ...   *)
LEMMA RightLines ==
  ASSUME IInv, NEW i \in DOMAIN pack, CaseRight(pack[i].by)
  PROVE  LineSound(Texts[i])
<1> DEFINE policy == added[pack[i].by].policy
<1>1. /\ CasesAdded /\ pack[i] \in Lines /\ Texts[i] = pack[i].text
  BY TextsOfPack
<1>2. PICK by \in DOMAIN added : by = pack[i].by
  BY <1>1, LineByPlace
<1>3. policy.mode = "production" /\ ~ policy.support
  BY DEF CaseRight
<1>4. Texts[i].kind \in {"metadata", "scenario", "identity"} \cup Kinds
  BY <1>1, KindOfLine
<1>5. AddedCase(by).asserted /\ AddedCase(by).raw = {}
  BY <1>2 DEF CaseRight
<1>6. CASE Texts[i].kind \in {"metadata", "scenario"}
  <2>1. CASE Texts[i].kind = "metadata"
    <3>1. Texts[i] = MetadataText(AddedCase(by))
      BY <1>1, <1>2, <2>1, KindOfLine, TextsOfCase
    <3>2. QED
      BY <1>5, <3>1, SoundHeads
  <2>2. CASE Texts[i].kind = "scenario"
    <3>1. Texts[i] = ScenarioText(AddedCase(by))
      BY <1>1, <1>2, <2>2, KindOfLine, TextsOfCase
    <3>2. QED
      BY <1>5, <3>1, SoundHeads
  <2>3. QED
    BY <1>6, <2>1, <2>2
<1>7. CASE Texts[i].kind = "identity"
  <2>1. Texts[i] = IdentityText(AddedCase(by), added[by].policy)
    BY <1>1, <1>2, <1>7, KindOfLine, TextsOfCase
  <2>2. QED
    BY <1>2, <1>3, <1>5, <2>1, SoundHeads
<1>8. CASE Texts[i].kind = "command"
  <2>1. PICK k \in Part("command", by) : pack[i] = Line(by, Place("command", by, k))
    BY <1>1, <1>2, <1>8, KindOfLine DEF Kinds
  <2>2. pack[i].text = [kind |-> "command",
                        data |-> CommandData(AddedCase(by).steps[k].command, added[by].policy)]
    BY <1>1, <2>1, TextsOfCase
  <2>3. ~ PinVerify(AddedCase(by).steps[k].command)
    <3>1. k \in DOMAIN AddedCase(by).steps
      BY <2>1 DEF Part
    <3>2. Written(AddedCase(by))
      BY <1>1, <1>2 DEF CasesAdded
    <3>3. QED
      BY <3>1, <3>2 DEF Written, Replayable
  <2>4. ~ AllowsFullApdu(added[by].policy)
    BY <1>2, <1>3 DEF AllowsFullApdu, Supported
  <2>5. CommandData(AddedCase(by).steps[k].command, added[by].policy) = "full-apdu-disabled"
    BY <2>3, <2>4 DEF CommandData
  <2>6. Texts[i].data = "full-apdu-disabled"
    BY <1>1, <2>2, <2>5
  <2>7. QED
    BY <1>8, <2>6 DEF LineSound
<1>9. CASE Texts[i].kind \in {"response", "stream"}
  <2>1. PICK response \in Responses, context \in Contexts :
          Texts[i].fields = Fields(response, context, policy)
    BY <1>1, <1>9, FieldsOfLine
  <2>2. ASSUME NEW f \in Texts[i].fields, f.tag \in AuditedTags
        PROVE  f.shown = "suppressed"
    <3>1. f = Template \/ f = Field(f.tag, response, policy)
      BY <2>1, FieldShown
    <3>2. CASE f = Template
      BY <3>2 DEF Template
    <3>3. CASE f = Field(f.tag, response, policy)
      <4>1. f.shown = Shown(f.tag, policy)
        BY <3>3 DEF Field
      <4>2. QED
        BY <1>3, <2>2, <4>1, ShownAlways
    <3>4. QED
      BY <3>1, <3>2, <3>3
  <2>3. FixturesMasked(AddedCase(by), added[by].policy)
    BY <1>2 DEF CaseRight
  <2>4. ASSUME NEW f \in Texts[i].fields PROVE ~ f.raw
    <3>1. CASE Texts[i].kind = "response"
      <4>1. PICK k \in Part("response", by) : pack[i] = Line(by, Place("response", by, k))
        BY <1>1, <1>2, <3>1, KindOfLine DEF Kinds
      <4>2. pack[i].text =
              [kind |-> "response",
               fields |-> Fields(AddedCase(by).steps[k].response,
                                 AddedCase(by).steps[k].context, added[by].policy)]
        BY <1>1, <4>1, TextsOfCase
      <4>3. Texts[i].fields = Fields(AddedCase(by).steps[k].response,
                                     AddedCase(by).steps[k].context, added[by].policy)
        BY <1>1, <4>2
      <4>4. QED
        BY <2>3, <2>4, <4>1, <4>3 DEF FixturesMasked, Part
    <3>2. CASE Texts[i].kind = "stream"
      <4>1. PICK k \in Part("stream", by) : pack[i] = Line(by, Place("stream", by, k))
        BY <1>1, <1>2, <3>2, KindOfLine DEF Kinds
      <4>2. pack[i].text =
              [kind |-> "stream",
               fields |-> Fields(AddedCase(by).streams[k], "generic", added[by].policy)]
        BY <1>1, <4>1, TextsOfCase
      <4>3. Texts[i].fields = Fields(AddedCase(by).streams[k], "generic", added[by].policy)
        BY <1>1, <4>2
      <4>4. QED
        BY <2>3, <2>4, <4>1, <4>3 DEF FixturesMasked, Part
    <3>3. QED
      BY <1>9, <3>1, <3>2
  <2>5. QED
    BY <1>9, <2>2, <2>4 DEF LineSound
<1>10. QED
  BY <1>4, <1>6, <1>7, <1>8, <1>9 DEF Kinds

(* ... headers in their order, ...                                         *)
LEMMA RightHeaders ==
  ASSUME IInv, Untouched, IdsDistinct
  PROVE  HeadersSound(Texts)
<1> SUFFICES ASSUME NEW h \in Headers(Texts)
             PROVE  LET earlier == {g \in LinesOf(Texts, Texts[h].id, "metadata") : g < h}
                    IN  IF Texts[h].kind = "metadata" THEN earlier = {} ELSE earlier # {}
  BY DEF HeadersSound
<1> DEFINE earlier == {g \in LinesOf(Texts, Texts[h].id, "metadata") : g < h}
<1>1. /\ CasesAdded /\ NoneTwice /\ DOMAIN Texts = DOMAIN pack /\ DOMAIN pack = 1..Len(pack)
      /\ \A j \in DOMAIN pack : pack[j] \in Lines /\ Texts[j] = pack[j].text
  BY TextsOfPack DEF IInv
<1>2. PICK by \in DOMAIN added : by = pack[h].by
  BY HeadersOfPack
<1>3. h \in DOMAIN pack /\ Texts[h].id = AddedCase(by).id
  BY <1>2, HeadersOfPack
<1>4. LinesOf(Texts, Texts[h].id, "metadata")
        = {g \in DOMAIN pack : Texts[g].kind = "metadata" /\ pack[g].by = by}
  BY <1>3, UntouchedCase
<1>5. CASE Texts[h].kind = "metadata"
  <2>1. ASSUME NEW g \in earlier PROVE FALSE
    <3>1. g \in DOMAIN pack /\ Texts[g].kind = "metadata" /\ pack[g].by = by /\ g < h
      BY <1>4, <2>1
    <3>2. pack[g] = Line(by, 1) /\ pack[h] = Line(by, 1)
      BY <1>1, <1>2, <1>3, <1>5, <3>1, KindOfLine
    <3>3. g = h
      BY <1>1, <1>3, <3>1, <3>2 DEF NoneTwice
    <3>4. QED
      BY <1>1, <3>1, <3>3
  <2>2. QED
    BY <1>5, <2>1
<1>6. CASE Texts[h].kind # "metadata"
  <2>1. pack[h] = Line(by, 2)
    BY <1>2, <1>6, HeadersOfPack DEF Headers
  <2>2. PICK g \in DOMAIN pack : pack[g] = Line(by, 1)
    BY UntouchedLines
  <2>3. g < h
    <3>1. Earlier(pack[g], pack[h])
      BY <2>1, <2>2 DEF Earlier, Line
    <3>2. QED
      BY <1>3, <3>1, UntouchedLines
  <2>4. Texts[g].kind = "metadata" /\ pack[g].by = by
    BY <2>2, HeadersOfPack DEF Line
  <2>5. g \in earlier
    BY <1>4, <2>3, <2>4
  <2>6. QED
    BY <1>6, <2>5
<1>7. QED
  BY <1>5, <1>6

(* ... and complete cases.                                                 *)
LEMMA RightComplete ==
  ASSUME IInv, Untouched, IdsDistinct, CountsRight, NEW by \in DOMAIN added, CaseRight(by)
  PROVE  CaseComplete(Texts, AddedCase(by).id)
<1> DEFINE Of(kind) == LinesOf(Texts, AddedCase(by).id, kind)
           s == CHOOSE i \in Of("scenario") : \A j \in Of("scenario") : j <= i
<1>1. /\ CasesAdded /\ NoneTwice /\ DOMAIN Texts = DOMAIN pack /\ DOMAIN pack = 1..Len(pack)
      /\ Len(pack) \in Nat
      /\ \A j \in DOMAIN pack : pack[j] \in Lines /\ Texts[j] = pack[j].text
  BY TextsOfPack DEF IInv
<1>2. /\ \A kind : Of(kind) = {i \in DOMAIN pack : Texts[i].kind = kind /\ pack[i].by = by}
      /\ \A kind \in {"command", "response"} : Cardinality(Of(kind)) = Len(AddedCase(by).steps)
      /\ Cardinality(Of("stream")) = Len(AddedCase(by).streams)
  BY UntouchedCase
<1>3. PICK m \in DOMAIN pack : pack[m] = Line(by, 1)
  BY UntouchedLines
<1>4. PICK t \in DOMAIN pack : pack[t] = Line(by, 2)
  BY UntouchedLines
<1>5. PICK p \in DOMAIN pack : pack[p] = Line(by, 3)
  BY UntouchedLines
<1>6. /\ \A at : Line(by, at).by = by
      /\ Line(by, 3).text.kind = "identity"
  <2>1. Line(by, 3).text = IdentityText(AddedCase(by), added[by].policy)
    BY <1>1, TextsOfCase
  <2>2. QED
    BY <2>1 DEF Line, IdentityText
<1>7. m \in Of("metadata") /\ t \in Of("scenario") /\ p \in Of("identity")
  BY <1>1, <1>2, <1>3, <1>4, <1>5, <1>6, HeadersOfPack
<1>8. \A i \in Of("scenario") : i = t
  <2> TAKE i \in Of("scenario")
  <2>1. i \in DOMAIN pack /\ pack[i] \in Lines /\ pack[i].text.kind = "scenario" /\ pack[i].by = by
    BY <1>1, <1>2
  <2>2. pack[i] = Line(by, 2)
    BY <1>1, <2>1, KindOfLine
  <2>3. QED
    BY <1>1, <1>4, <2>1, <2>2 DEF NoneTwice
<1>9. s = t
  <2> HIDE DEF Of
  <2>1. t <= t
    BY <1>1
  <2>2. \E i \in Of("scenario") : \A j \in Of("scenario") : j <= i
    BY <1>7, <1>8, <2>1
  <2>3. s \in Of("scenario")
    BY <2>2
  <2>4. QED
    BY <1>8, <2>3
<1>10. Texts[t].steps = Len(AddedCase(by).steps) /\ Texts[t].streams = Len(AddedCase(by).streams)
  <2>1. t \in Headers(Texts) /\ Texts[t].kind = "scenario" /\ pack[t].by = by
    BY <1>4, <1>6, HeadersOfPack
  <2>2. /\ Texts[t].steps = AddedCase(by).expectedSteps
        /\ Texts[t].streams = AddedCase(by).expectedStreams
    BY <2>1, HeadersOfPack
  <2>3. QED
    BY <2>2 DEF CountsRight
<1>11. ASSUME NEW kind \in {"command", "response"} PROVE Of(kind) # {}
  <2>1. Len(AddedCase(by).steps) # 0
    BY <1>1, PlacesOfCase, EmptySeq DEF CaseRight
  <2>2. Cardinality(Of(kind)) # 0
    BY <1>2, <2>1
  <2>3. Cardinality({}) = 0
    BY FS_EmptySet
  <2> HIDE DEF Of
  <2>4. QED
    BY <2>2, <2>3
<1>12. QED
  BY <1>2, <1>7, <1>9, <1>10, <1>11 DEF CaseComplete

(* As generated, a pack is accepted exactly when it should be.             *)
LEMMA InvUntouched == IInv => UntouchedReviewable
<1> SUFFICES ASSUME IInv, Untouched
             PROVE  Reviewable(Texts) <=>
                      CountsRight /\ IdsDistinct /\ \A by \in DOMAIN added : CaseRight(by)
  BY DEF UntouchedReviewable, Untouched, CaseRight
<1>1. Reviewable(Texts) => CountsRight /\ IdsDistinct /\ \A by \in DOMAIN added : CaseRight(by)
  BY ReviewableDistinct, ReviewableCounts, ReviewableRight
<1>2. ASSUME CountsRight, IdsDistinct, \A by \in DOMAIN added : CaseRight(by)
      PROVE  Reviewable(Texts)
  <2>1. /\ CasesAdded /\ DOMAIN Texts = DOMAIN pack /\ DOMAIN pack = 1..Len(pack)
        /\ Len(pack) \in Nat
        /\ \A j \in DOMAIN pack : pack[j] \in Lines /\ Texts[j] = pack[j].text
    BY TextsOfPack
  <2>2. 1 \in DOMAIN added
    BY LenProperties, EmptySeq DEF Untouched, IInv, CasesAdded
  <2>3. PICK i \in DOMAIN pack : pack[i] = Line(1, 1)
    BY <2>2, UntouchedLines
  <2>4. 1 \in DOMAIN pack
    BY <2>1
  <2>5. i = 1
    <3>1. ~ Earlier(pack[1], pack[i])
      <4>1. pack[1].by >= 1 /\ pack[1].by \in Nat
        BY <2>1, <2>4, LineByPlace, LenProperties DEF CasesAdded
      <4>2. pack[1].at >= 1 /\ pack[1].at \in Nat
        BY <2>1, <2>4, LineByPlace, EarlierTotal
      <4>3. pack[i].by = 1 /\ pack[i].at = 1
        BY <2>3 DEF Line
      <4>4. QED
        BY <4>1, <4>2, <4>3 DEF Earlier
    <3>2. ~ (1 < i)
      BY <2>4, <3>1, UntouchedLines
    <3>3. QED
      BY <2>1, <3>2
  <2>6. Texts # <<>> /\ Texts[1].kind = "metadata"
    BY <2>1, <2>2, <2>3, <2>4, <2>5, HeadersOfPack
  <2>7. HeadersSound(Texts)
    BY <1>2, RightHeaders
  <2>8. \A j \in DOMAIN Texts : LineSound(Texts[j])
    BY <1>2, <2>1, RightLines, UntouchedCaseAt
  <2>9. ASSUME NEW id \in Named(Texts) PROVE CaseComplete(Texts, id)
    <3>1. PICK h \in Headers(Texts) : id = Texts[h].id
      BY DEF Named
    <3>2. pack[h].by \in DOMAIN added /\ id = AddedCase(pack[h].by).id
      BY <3>1, HeadersOfPack
    <3>3. QED
      BY <1>2, <3>2, RightComplete
  <2>10. QED
    BY <2>6, <2>7, <2>8, <2>9 DEF Reviewable
<1>3. QED
  BY <1>1, <1>2

(* UntouchedReviewable of TracePack for every set of cases and policies:   *)
(* the audit accepts what append_case writes of sound cases, and nothing   *)
(* else of what it writes.                                                 *)
THEOREM AuditIsExact == Spec => []UntouchedReviewable
  BY PackAccounted, InvUntouched, PTL

-----------------------------------------------------------------------------
(* The bounds on what happens to the file are kept.                        *)
Bounded == /\ IsFiniteSet(lost) /\ Cardinality(lost) <= MaxLost
           /\ swaps \in Nat /\ swaps <= MaxSwaps

(* Each line of the file is of a case that was added, and no more is lost  *)
(* or moved than the bounds say.                                           *)
THEOREM PackTyped == Spec => []TypeOK
<1>1. MaxLost \in Nat /\ MaxSwaps \in Nat
  BY CasesAssumption
<1>2. Init => Bounded
  BY <1>1, FS_EmptySet DEF Init, Bounded
<1>3. Bounded /\ [Next]_vars => Bounded'
  <2> SUFFICES ASSUME Bounded, [Next]_vars PROVE Bounded'
    OBVIOUS
  <2>1. ASSUME NEW n \in DOMAIN Cases, NEW policy \in PolicyChoices, AppendCase(n, policy)
        PROVE  Bounded'
    BY <2>1 DEF AppendCase, Bounded
  <2>2. ASSUME NEW i \in DOMAIN pack, LoseLine(i) PROVE Bounded'
    <3>1. lost' = lost \cup {pack[i]} /\ Cardinality(lost) < MaxLost /\ swaps' = swaps
      BY <2>2 DEF LoseLine
    <3>2. /\ IsFiniteSet(lost')
          /\ Cardinality(lost') = IF pack[i] \in lost THEN Cardinality(lost)
                                  ELSE Cardinality(lost) + 1
      BY <3>1, FS_AddElement DEF Bounded
    <3>3. Cardinality(lost) \in Nat
      BY FS_CardinalityType DEF Bounded
    <3>4. QED
      BY <1>1, <3>1, <3>2, <3>3 DEF Bounded
  <2>3. ASSUME NEW i \in DOMAIN pack, SwapLines(i) PROVE Bounded'
    BY <1>1, <2>3 DEF SwapLines, Bounded
  <2>4. CASE UNCHANGED vars
    BY <2>4 DEF vars, Bounded
  <2>5. QED
    BY <2>1, <2>2, <2>3, <2>4 DEF Next
<1>4. IInv /\ Bounded => TypeOK
  BY TextsOfPack, LineByPlace DEF TypeOK, Bounded, IInv, CasesAdded
<1>5. QED
  BY <1>2, <1>3, <1>4, PackAccounted, PTL DEF Spec
=============================================================================
