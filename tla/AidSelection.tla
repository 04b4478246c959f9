---------------------------- MODULE AidSelection ----------------------------
(***************************************************************************)
(* The candidate list, src/selection.rs: which of the profile's            *)
(* applications the terminal tries, under which name, and in which order.  *)
(* An AID is the sequence of its bytes: prefixes and the byte order count. *)
(***************************************************************************)
EXTENDS Naturals, Sequences, FiniteSets

CONSTANT MaxCandidates     \* MAX_CANDIDATE_AIDS

ASSUME CandidatesAssumption == MaxCandidates \in Nat

Interfaces    == {"contact", "contactless"}
AidLengths    == 5..16     \* MIN_AID_LEN..=MAX_AID_LEN
Aids          == {s \in Seq(0..255) : Len(s) \in AidLengths}

StartsWith(s, prefix) ==
  Len(prefix) <= Len(s) /\ SubSeq(s, 1, Len(prefix)) = prefix

AidMatches(card, terminal, partial) ==
  card = terminal \/ (partial /\ StartsWith(card, terminal))

(* app: the profile's AID (SelectionCandidate.aid, scheme_index, aid_index,*)
(* priority, partial_selection); name: the ADF name of the final SELECT.   *)
Candidate(app, name) == [app |-> app, name |-> name]

(* The lists are built one candidate at a time, up to the limit; the AIDs  *)
(* of a profile and the names of a card are distinct, so that a list has   *)
(* as many entries as the set has elements.                                *)
TooMany(candidates) == Cardinality(candidates) > MaxCandidates

Serving(apps, interface) == {app \in apps : interface \in app.interfaces}

DirectCandidates(apps, interface) ==
  {Candidate(app, app.aid) : app \in Serving(apps, interface)}

(* Mutant: the name the profile has is sent, not the one the card listed.  *)
MatchedCandidates_Shortened(apps, interface, listed) ==
  {Candidate(app, app.aid) : app \in {a \in Serving(apps, interface) :
     \E name \in listed : AidMatches(name, a.aid, a.partial)}}

MatchedCandidates(apps, interface, listed) ==
  UNION {{Candidate(app, name) :
            name \in {n \in listed : AidMatches(n, app.aid, app.partial)}} :
         app \in Serving(apps, interface)}

(* Vec<u8>::cmp                                                            *)
LexBefore(s, t) ==
  \/ s # t /\ StartsWith(t, s)
  \/ \E k \in 1..Len(s) :
       k <= Len(t) /\ SubSeq(s, 1, k - 1) = SubSeq(t, 1, k - 1) /\ s[k] < t[k]

(* Mutant: the AIDs' bytes come before the priorities.                     *)
Before_ByName(c, d) == LexBefore(c.app.aid, d.app.aid)

(* sort_candidates                                                         *)
Before(c, d) ==
  \/ c.app.priority < d.app.priority
  \/ /\ c.app.priority = d.app.priority
     /\ \/ LexBefore(c.app.aid, d.app.aid)
        \/ c.app.aid = d.app.aid /\ LexBefore(c.name, d.name)
        \/ /\ c.app.aid = d.app.aid /\ c.name = d.name
           /\ \/ c.app.scheme < d.app.scheme
              \/ c.app.scheme = d.app.scheme /\ c.app.index < d.app.index

(* The answer to the selection of the payment environment.  The entries of *)
(* the directory are AIDs (<<>> for an entry that has none); wellFormed    *)
(* says whether the template around them can be read.                      *)
Directories ==
  [status : {"selected", "notFound", "refused"}, wellFormed : BOOLEAN,
   entries : Seq(Aids \cup {<<>>})]

(* parse_fci_candidate_aids and reject_duplicate_card_candidates accept it.*)
Readable(directory) ==
  /\ directory.wellFormed
  /\ Len(directory.entries) <= MaxCandidates
  /\ \A i \in 1..Len(directory.entries) :
       /\ Len(directory.entries[i]) \in AidLengths
       /\ \A j \in 1..(i - 1) : directory.entries[j] # directory.entries[i]

Listed(directory) == {directory.entries[i] : i \in 1..Len(directory.entries)}

(* The directory decides, unless the card has none, or an empty one.       *)
IsDirect(directory) == directory.status = "notFound" \/ directory.entries = <<>>

Candidates(directory, apps, interface) ==
  IF IsDirect(directory) THEN DirectCandidates(apps, interface)
  ELSE MatchedCandidates(apps, interface, Listed(directory))

(* validate_selected_adf_name                                              *)
AdfNameValid(adfName, candidate) ==
  /\ Len(adfName) \in AidLengths
  /\ adfName = candidate.name
  /\ AidMatches(adfName, candidate.app.aid, candidate.app.partial)
=============================================================================
