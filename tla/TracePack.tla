------------------------------ MODULE TracePack ------------------------------
(***************************************************************************)
(* A pack of masked traces and its audit: krn_prelab_trace_pack.rs appends *)
(* the lines of one case after another, the pack goes through other hands, *)
(* audit_trace_pack (trace_audit.rs) says whether it may be reviewed.      *)
(***************************************************************************)
EXTENDS TraceMasking, SequencesExt

CONSTANTS Cases,       \* what a pack may be made of, by position
          PolicyChoices,
          MaxAdded, MaxLost, MaxSwaps   \* bounds: cases, lines lost, neighbours
                                        \* exchanged

Exchanges == [command : Commands, response : Responses, context : Contexts]

(* What append_case is given.  `asserted': the scenario's masking          *)
(* assertions name the suppression of APDU data; `raw': which of the three *)
(* lines at its head have in them a value that the audit looks for.        *)
Heads == {"metadata", "scenario", "identity"}
CaseShape ==
  [id : STRING, steps : Seq(Exchanges), streams : Seq(Responses),
   expectedSteps : Nat, expectedStreams : Nat, asserted : BOOLEAN, raw : SUBSET Heads]

ASSUME CasesAssumption ==
  /\ Cases \in Seq(CaseShape)
  /\ PolicyChoices \subseteq Policies
  /\ {MaxAdded, MaxLost, MaxSwaps} \subseteq Nat

VARIABLES pack,    \* the lines of the file
          lost,    \* the lines that were in it
          swaps,   \* how many neighbours were exchanged
          added    \* per appended case: its number and the policy
vars == <<pack, lost, swaps, added>>

(***************************************************************************)
(* Writing.  A line has a text, and its place in the file as it was        *)
(* written: `by' the number of its case, `at' its number in the case.      *)
(***************************************************************************)

StepText(exchange, policy, answer) ==
  IF answer
  THEN [kind |-> "response", fields |-> Fields(exchange.response, exchange.context, policy)]
  ELSE [kind |-> "command", data |-> CommandData(exchange.command, policy)]

StreamText(stream, policy) ==
  [kind |-> "stream", fields |-> Fields(stream, "generic", policy)]

(* append_case: three lines of the case, two of each step, one of each     *)
(* stream.  The scenario's counts are written down with the case, not      *)
(* counted.                                                                *)
CaseSize(case) == 3 + 2 * Len(case.steps) + Len(case.streams)

CaseText(case, policy, at) ==
  CASE at = 1 -> [kind |-> "metadata", id |-> case.id, raw |-> "metadata" \in case.raw]
    [] at = 2 -> [kind |-> "scenario", id |-> case.id, asserted |-> case.asserted,
                  steps |-> case.expectedSteps, streams |-> case.expectedStreams,
                  raw |-> "scenario" \in case.raw]
    [] at = 3 -> [kind |-> "identity", mode |-> policy.mode, support |-> policy.support,
                  raw |-> "identity" \in case.raw]
    [] at > 3 /\ at <= 3 + 2 * Len(case.steps) ->
         StepText(case.steps[(at - 2) \div 2], policy, at % 2 = 1)
    [] at > 3 + 2 * Len(case.steps) ->
         StreamText(case.streams[at - 3 - 2 * Len(case.steps)], policy)

CaseLines(case, policy, by) ==
  [at \in 1..CaseSize(case) |-> [by |-> by, at |-> at, text |-> CaseText(case, policy, at)]]

(* An error of any line is an error of append_case, and nothing is printed.*)
Written(case) ==
  /\ \A i \in DOMAIN case.steps :
       /\ Replayable(case.steps[i])
       /\ Maskable(case.steps[i].response, case.steps[i].context)
  /\ \A i \in DOMAIN case.streams : Maskable(case.streams[i], "generic")

AppendCase(n, policy) ==
  /\ Len(added) < MaxAdded /\ lost = {} /\ swaps = 0
  /\ \A i \in DOMAIN added : added[i].case < n
  /\ Written(Cases[n])
  /\ added' = Append(added, [case |-> n, policy |-> policy])
  /\ pack' = pack \o CaseLines(Cases[n], policy, Len(added'))
  /\ UNCHANGED <<lost, swaps>>

(***************************************************************************)
(* What may happen to the file.                                            *)
(***************************************************************************)

LoseLine(i) ==
  /\ Cardinality(lost) < MaxLost
  /\ lost' = lost \cup {pack[i]}
  /\ pack' = RemoveAt(pack, i)
  /\ UNCHANGED <<swaps, added>>

SwapLines(i) ==
  /\ swaps < MaxSwaps /\ i + 1 \in DOMAIN pack
  /\ pack' = [pack EXCEPT ![i] = pack[i + 1], ![i + 1] = pack[i]]
  /\ swaps' = swaps + 1
  /\ UNCHANGED <<lost, added>>

Init == pack = <<>> /\ lost = {} /\ swaps = 0 /\ added = <<>>
Next ==
  \/ \E n \in DOMAIN Cases, policy \in PolicyChoices : AppendCase(n, policy)
  \/ \E i \in DOMAIN pack : LoseLine(i) \/ SwapLines(i)
Spec == Init /\ [][Next]_vars

(***************************************************************************)
(* The audit.  It goes through the texts of the lines once; the case a     *)
(* line belongs to is the one last named before it.                        *)
(***************************************************************************)

Headers(lines) == {i \in DOMAIN lines : lines[i].kind \in {"metadata", "scenario"}}

CaseAt(lines, i) ==
  LET before == {h \in Headers(lines) : h <= i}
  IN  lines[CHOOSE h \in before : \A g \in before : g <= h].id

Named(lines) == {lines[h].id : h \in Headers(lines)}

LinesOf(lines, id, kind) ==
  {i \in DOMAIN lines : lines[i].kind = kind /\ CaseAt(lines, i) = id}

(* Mutant: streams are not counted.                                        *)
CaseComplete_StreamsUncounted(lines, id) ==
  LET of(kind)  == LinesOf(lines, id, kind)
      scenario  == lines[CHOOSE i \in of("scenario") : \A j \in of("scenario") : j <= i]
  IN  /\ of("metadata") # {} /\ of("scenario") # {} /\ of("identity") # {}
      /\ \A kind \in {"command", "response"} :
           Cardinality(of(kind)) = scenario.steps /\ of(kind) # {}

(* validate_trace_cases: the counts are those of the last scenario read.   *)
CaseComplete(lines, id) ==
  LET of(kind)  == LinesOf(lines, id, kind)
      scenario  == lines[CHOOSE i \in of("scenario") : \A j \in of("scenario") : j <= i]
  IN  /\ of("metadata") # {} /\ of("scenario") # {} /\ of("identity") # {}
      /\ \A kind \in {"command", "response"} :
           Cardinality(of(kind)) = scenario.steps /\ of(kind) # {}
      /\ Cardinality(of("stream")) = scenario.streams

AuditedTags == {"57", "9F26", "9F10", "9F4B", "9F4C", "91", "9F18", "86"}

(* validate_sensitive_trace_line, and what is asked of each kind of line.  *)
LineSound(line) ==
  CASE line.kind = "metadata" -> ~line.raw
    [] line.kind = "scenario" -> line.asserted /\ ~line.raw
    [] line.kind = "identity" -> line.mode = "production" /\ ~line.support /\ ~line.raw
    [] line.kind = "command"  -> line.data = "full-apdu-disabled"
    [] line.kind \in {"response", "stream"} ->
         \A f \in line.fields :
           ~f.raw /\ (f.tag \in AuditedTags => f.shown = "suppressed")

(* Metadata name a case once, and before its scenario does.                *)
HeadersSound(lines) ==
  \A h \in Headers(lines) :
    LET earlier == {g \in LinesOf(lines, lines[h].id, "metadata") : g < h}
    IN  IF lines[h].kind = "metadata" THEN earlier = {} ELSE earlier # {}

(* audit_trace_pack: prelab_fixture_reviewable                             *)
Reviewable(lines) ==
  /\ lines # <<>>
  /\ lines[1].kind = "metadata"
  /\ HeadersSound(lines)
  /\ \A i \in DOMAIN lines : LineSound(lines[i])
  /\ \A id \in Named(lines) : CaseComplete(lines, id)

(***************************************************************************)
(* Properties                                                              *)
(***************************************************************************)

Texts == [i \in DOMAIN pack |-> pack[i].text]

AddedCase(by) == Cases[added[by].case]

(* What the author of the cases has to get right.                          *)
CountsRight == \A by \in DOMAIN added :
  /\ AddedCase(by).expectedSteps = Len(AddedCase(by).steps)
  /\ AddedCase(by).expectedStreams = Len(AddedCase(by).streams)
IdsDistinct == \A a, b \in DOMAIN added : AddedCase(a).id = AddedCase(b).id => a = b

(* No value that the audit looks for is among those of the cards and hosts *)
(* of the case that are written out.                                       *)
FixturesMasked(case, policy) ==
  /\ \A i \in DOMAIN case.steps :
       \A f \in Fields(case.steps[i].response, case.steps[i].context, policy) : ~f.raw
  /\ \A i \in DOMAIN case.streams : \A f \in Fields(case.streams[i], "generic", policy) : ~f.raw

(* A pack as it was generated is reviewable exactly when every case was    *)
(* written under a policy of production without support, has steps, the    *)
(* counts and the assertion its scenario has to state, a name of its own,  *)
(* and shows no raw fixture value, at its head or in its answers.          *)
UntouchedReviewable ==
  lost = {} /\ swaps = 0 /\ added # <<>> =>
    (Reviewable(Texts) <=>
       /\ CountsRight /\ IdsDistinct
       /\ \A by \in DOMAIN added :
            /\ added[by].policy.mode = "production" /\ ~added[by].policy.support
            /\ AddedCase(by).steps # <<>>
            /\ AddedCase(by).asserted /\ AddedCase(by).raw = {}
            /\ FixturesMasked(AddedCase(by), added[by].policy))

LostOf(kind)    == {line \in lost : line.text.kind = kind}
LostCases(kind) == {line.by : line \in LostOf(kind)}
StepsOf(cases)   == UNION {{by} \X DOMAIN AddedCase(by).steps : by \in cases}
StreamsOf(cases) == UNION {{by} \X DOMAIN AddedCase(by).streams : by \in cases}

(* "Complete" (trace_audit.rs): what a reviewable pack has lost, whatever  *)
(* was lost and moved, amounts to whole cases: the metadata and scenarios  *)
(* of the same cases, and as many commands, responses and streams as these *)
(* had.                                                                    *)
LostByCase ==
  Reviewable(Texts) /\ CountsRight /\ IdsDistinct =>
    LET cases == LostCases("metadata")
    IN  /\ LostCases("scenario") = cases
        /\ Cardinality(LostOf("command")) = Cardinality(StepsOf(cases))
        /\ Cardinality(LostOf("response")) = Cardinality(StepsOf(cases))
        /\ Cardinality(LostOf("stream")) = Cardinality(StreamsOf(cases))

(* What Section 7 and 11.5 of the specification mask, and the secrets of   *)
(* the issuer and the cardholder.                                          *)
Sensitive == {"5A", "57", "9F26", "9F10"} \cup AlwaysSuppressed

(* The sensitive objects of a response that can be read from the fields    *)
(* written of it: each from the field of its own tag, and what is in       *)
(* Format 1 also from that of the template.                                *)
Revealed(response, fields) ==
  {t \in response.objects \cap Sensitive :
     \E f \in fields : /\ f.tag = t \/ (f.tag = "80" /\ response.form = "80")
                       /\ f.shown \notin {"suppressed", "pan"}}

(* The exchange or the stream a line was written of.                       *)
ExchangeOf(line) ==
  LET case == AddedCase(line.by)
  IN  IF line.text.kind = "stream"
      THEN [response |-> case.streams[line.at - 3 - 2 * Len(case.steps)], context |-> "generic"]
      ELSE case.steps[(line.at - 2) \div 2]

(* Whatever policies the cases were written under and whatever became of   *)
(* the file: the lines of a reviewable pack reveal no data of a command,   *)
(* and no sensitive data object of a response or a stream, but for         *)
(* Format 1 that is not read as an answer to GENERATE AC: its data objects *)
(* have no tags there, and neither the masking nor the audit knows them    *)
(* (FormatOneMasked).                                                      *)
ReviewableMasked ==
  Reviewable(Texts) =>
    \A i \in DOMAIN pack :
      /\ Texts[i].kind = "command" => Texts[i].data # "hex"
      /\ Texts[i].kind \in {"response", "stream"} =>
           LET of == ExchangeOf(pack[i])
           IN  Revealed(of.response, Texts[i].fields) # {} =>
                 of.response.form = "80" /\ of.context = "generic"

(* "Replay-shaped" (trace_audit.rs:3): in a reviewable pack each command   *)
(* is followed by its response.  Refuted: the audit counts both, and looks *)
(* at no order.                                                            *)
ReplayShaped ==
  Reviewable(Texts) =>
    \A i \in DOMAIN pack : Texts[i].kind = "command" =>
      /\ i + 1 \in DOMAIN pack
      /\ Texts[i + 1].kind = "response" /\ pack[i + 1].by = pack[i].by

(* "GENERATE AC cryptograms ... remain suppressed under production policy" *)
(* (ffi.rs:1672), SDAD under every one.  Refuted: in the generic context   *)
(* Format 1 of a response is one primitive data object, shown as a whole.  *)
FormatOneMasked ==
  \A by \in DOMAIN added : \A i \in DOMAIN AddedCase(by).steps :
    LET step == AddedCase(by).steps[i]
    IN  step.response.form = "80" /\ step.response.objects \cap Sensitive # {} =>
          \A f \in Fields(step.response, step.context, added[by].policy) :
            f.tag = "80" => f.shown = "suppressed"

TypeOK ==
  /\ \A i \in DOMAIN pack : pack[i].by \in DOMAIN added
  /\ Cardinality(lost) <= MaxLost /\ swaps <= MaxSwaps
  /\ added \in Seq([case : DOMAIN Cases, policy : PolicyChoices])
=============================================================================
