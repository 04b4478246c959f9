# A TLA+ model of the Hyperion EMV L2 kernel

This directory specifies the transaction kernel of this repository (crate
`hyperion-emv`, sources in `src/`, documents in `docs/`) in TLA+, checks the
specification with TLC on small instances and proves its safety properties with
TLAPS for all instances. Paths below are relative to the repository; most of the
code modelled is `src/ffi.rs`, the C ABI through which a payment terminal (the
*host*) drives the kernel, and the pure modules it calls.

## 1. Inventory

| component | state it keeps | operations | modelled in |
| --- | --- | --- | --- |
| Kernel context (`ffi.rs`, `KrnContext`) | transaction parameters and inputs, active profile set, TVR/TSI, card data, selected AID, cryptograms, host response, script results, outcome, `last_error`, `busy` | `krn_context_new`, `krn_init`, `krn_reset`, `krn_set_*`, `krn_load_*`, callback registration, getters | `KernelContext` |
| State machine (`fsm.rs`, `docs/state_machine.csv`) | none: `transition(state, event)` | `transition` | `TransactionFsm` |
| Transaction driver (`run_transaction_inner`, `advance_transaction_after_gpo`) | locals between two callbacks | `krn_run_transaction`: selection, GPO, records, ODA, restrictions, CVM, limits, TRM, TAA, first GENERATE AC | `RunTransaction` |
| Online completion (`ffi.rs`, `issuer.rs`) | host response, script results, final GAC | `krn_apply_host_response`, `krn_process_issuer_authentication`, `..._pre_final_issuer_scripts`, `..._final_generate_ac`, `..._post_final_issuer_scripts`, `krn_skip_final_generate_ac` | `OnlineCompletion` |
| Terminal action analysis (`taa.rs`, bits of `state.rs`) | none | `decide`, `TaaProfile::new` | `TerminalActionAnalysis` |
| Contactless limits, relay resistance (`c8.rs`) | none | `evaluate_contactless_limits`, `evaluate_relay_resistance` | in `KernelContext`/`RunTransaction`, by result |
| AID selection (`selection.rs`, the candidate loop of the driver) | the candidates not yet tried | directory candidates, matching, order, SELECT one after the other, the name check, the kernel mapping | `AidSelection`, `TerminalChecks`; by result in `RunTransaction`: any non-empty set of configured AIDs, any order |
| Records (`record.rs`, `afl.rs`, `gpo.rs`, `dol.rs`) | the data store, the records kept for authentication | GPO, AFL and record acceptance, READ RECORD | `OfflineAuthentication`; the bytes of the answer to GPO in `ResponseParsing`; by result in `RunTransaction`: which data objects a record holds |
| Offline data authentication (`oda.rs`, `aip.rs`) | the selected method | `select_oda_method`, certificate recovery, SDA, DDA, CDA, `apply_oda_outcome` | `OfflineAuthentication`; method and result in `KernelContext`/`RunTransaction` |
| Cardholder verification (`cvm.rs`, `run_cvm_processing`) | position in the CVM list, pending TVR bit; then CVM Results, TVR byte 3 | `parse_cvm_list`, `evaluate`, contactless CVM limit | `CardholderVerification`; by result in `RunTransaction` |
| Restrictions, TRM (`restrictions.rs`, `trm.rs`) | the counter and the sample the host hands over; in the host, the stored counter | dates, usage control, floor limits, velocity, random selection | `ProcessingRestrictions`, `RiskManagement`, `TerminalChecks`; by result in `RunTransaction`: the TVR bits they may set |
| Profile and bundle loading (`config.rs`, `cert_bundle.rs`, `select_capk`) | active profile set, its version and evaluation date, bundle digests, rollback counter | `load_profile_set`, `load_certification_bundle`, the two verified loads, key selection | `ProfileStore`; versions and counters only in `KernelContext` |
| APDU exchange (`apdu.rs`, `sw.rs`, `transmit_apdu_with_followups`) | the command to send next, the follow-ups left | transmit, GET RESPONSE after 61xx, retry after 6Cxx, status classification | `ApduExchange`, `CardCommand`; one exchange, by result, in the driver |
| Bytes of cards and hosts (`tlv.rs`, `dol.rs`, and the parsers of `gpo.rs`, `afl.rs`, `gac.rs`, `oda.rs`, `issuer.rs`) | none | reading TLV objects, tag lists and data object lists; filling a data object list; the answers to GPO, INTERNAL AUTHENTICATE and GENERATE AC; the host response; the GPO template and the online package | `DataObjects`, `ResponseParsing` |
| Numbers, RSA and hash (`numeric.rs`, part of `oda.rs`, `sha1.rs`) | none | BCD, exponentiation, SHA-1 | not modelled |
| Trace and masking (`trace.rs`, `trace_audit.rs`, `examples/krn_prelab_trace_pack.rs`) | the lines of a pack | masking of objects, responses and commands under a policy; writing a pack; its audit | `TraceMasking`, `TracePack` |
| Evidence import (`artifact_import.rs`, `integration_import.rs`) | files in lanes, manifests, findings, bindings | import, manifest reading, compilation of the report | `EvidenceImport` |
| Other certification tooling (`evidence.rs`, `authority_format.rs`, `wizard.rs`, `reporting.rs`, `quality.rs`, ...) | none that a transaction reads | texts from fixed tables and single files | not modelled |

`PROJECT.json` lists the components with their status.

### How the parts interact

The host calls the C ABI; every entry point takes the one `KrnContext` the
host holds. `krn_run_transaction` is a long call: it sends APDUs, asks for an unpredictable number
and reports contactless outcomes through **callbacks into the host**, in the middle of its work, and
goes from state S1 to S11 (an ARQC was returned), S16 (decided offline, or a
contactless outcome) or Se. After S11 the host asks its acquirer, hands the
answer over with `krn_apply_host_response` and makes the online calls in the
order the state machine asks for: issuer authentication (S12), Template 71
scripts (S13/S13Script), final GENERATE AC or its omission (S14), Template 72
scripts (S15/S15Script), S16.

The AID profile the driver consults is not copied at selection: the context
keeps two indices into the profile set, which `krn_load_profiles_verified` may
replace between two calls. The TVR is kept twice, as `ctx.tvr` and as tag 95 in
the card data, from which the online package is built. Both are hazards, and
both are in the model.

### What is hard here

* **Re-entrancy.** Each callback runs host code that may call the ABI again on
  the same context; `mark_reentrant_call` must refuse it at every callback.
* **Sequences of calls.** Any entry point may be called in any state. The state
  machine guards the driver calls; the setters, `krn_reset` and the loaders are
  guarded by `busy` alone.
* **Stale evidence.** `reset` and `krn_set_transaction_params` clear the context
  field by field.
* **Partial failure.** A lost exchange, a malformed data object or a refused
  command ends a call at any callback. `krn_run_transaction` then goes to Se; an
  online call reports an error and mostly stays where it was.
* **Feedback.** A failed CDA on an offline cryptogram sends the driver back to
  terminal action analysis after the card has answered.
* **Retries.** A command is sent again when the card answers 6Cxx, and replaced
  when it answers 61xx; neither may make the card process it twice.
* **Data of the card.** A card may give an object twice, in conflict, under a tag
  that belongs to the terminal, or after the record that was signed; the data
  store it lands in is what every later step reads.
* **Trust over time.** Keys, anchors and bundles expire, counters are lost in a
  restart, and what was checked at the load is used days later.
* **Counting across transactions.** The host stores the number of consecutive offline
  approvals, the kernel compares the copy it is handed; only together, over
  restarts and profile changes, do they bound anything.
* **Files that change.** Evidence is hashed first, the manifests that say what it is
  are read afterwards, and a submitter may replace files in between; a pack of traces
  passes through hands that lose lines.
* **Order.** Script templates arrive interleaved, run in two calls on either
  side of the final GENERATE AC, and may fail in the middle of a template.

The full list, at the lines where each bites, is `hazards` in `PROJECT.json`.

### What makes each component correct

* *context*: one transaction's evidence only (`EvidenceChain`); a call inside a
  callback changes nothing but `last_error` (`BusyIsTransient`,
  `ImplementsLifecycle`).
* *driver*: approvals rest on evidence (`ApprovalJustified`); the package for
  the issuer carries the current TVR (`PackageTvrCurrent`); ODA is never skipped
  silently (`OdaAccountedFor`); the contactless limits hold on approval
  (`ContactlessApprovalWithinLimits`); risk bits are never lost
  (`RiskMonotone`); unpredictable numbers are not repeated
  (`UnpredictableNumberFresh`); every call returns (`EveryCallReturns`).
* *online completion*: scripts run exactly once, in order, completely and on their side of the decision
  (`ScriptsInOrder`, `ScriptsComplete`); their
  failures reach the TVR (`ScriptFailuresRecorded`); a decision is final
  (`OutcomeStable`, `OutcomeWhenFinal`).
* *APDU exchange*: a command is processed once (`AtMostOnce`), a follow-up asks
  for what the card indicated (`LeIsIndicated`), the loop is one command
  (`ImplementsCommand`).
* *cardholder verification*: the card's priorities hold (`CardPriorityKept`), a
  failure is visible (`FailureShown`).
* *records and authentication*: what is authenticated is what is stored
  (`SignedRecordsIntact`), tags have owners (`OwnersRespected`), a verdict is
  backed by the store (`VerdictBacked`).
* *profile store*: AIDs are unambiguous (`AidsUnambiguous`), a key is found until it
  expires (`CapksSelectable`), the certification scope is exact (`ScopeExact`), bundles
  never go back (`RollbackProtected`).
* *selection*: no application the card prefers is passed over unless the card refused
  it (`HigherPriorityRefused`), the one selected is one that was listed
  (`SelectedAsListed`).
* *restrictions and risk management*: the inputs are those of this transaction
  (`CounterFresh`), an offline approval that the kernel decides is within every limit,
  date and usage control the action codes watch (`OfflineApprovalWarranted`), and
  consecutive ones are bounded (`VelocityBounded`). Both except what a card decides: asked
  for an ARQC, it may answer with a TC, and the driver approves.
* *trace and masking*: of packs nobody touched the audit accepts exactly those written right,
  in their counts, names, masking assertion and policy, and without a raw fixture value
  (`UntouchedReviewable`); a pack it accepts has lost whole cases or nothing
  (`LostByCase`), and reveals no sensitive object but in Format 1 of the generic context,
  which neither masking nor audit sees into (`ReviewableMasked`).
* *evidence import*: on files nobody changes the report is a function of the files
  (`QuietReport`); whatever changes, an accepting report binds what the manifests
  expect (`AcceptedAsManifested`).
* *bytes*: a message has one reading and a reading one message (`TlvFaithful`), each
  datum of a list is at its place and the command around it can be read back
  (`DolFaithful`), nothing accepted is ignored, reordered or read differently in
  another format (`ResponsesFaithful`).
* *state machine*: the whole is a transaction lifecycle (`ImplementsLifecycle`).

## 2. Modules

```
TransactionFsm   TerminalActionAnalysis
        \            /
         KernelContext                 TransactionLifecycle (abstract)
         /          \                        |
 RunTransaction   OnlineCompletion           | refinement mapping
         \          /                        |
           Kernel ---------------------------+
          /      \
   MCKernel     KernelProofs

 ApduExchange --- refines ---> CardCommand (abstract)
 CardholderVerification
 ProfileStore
 OfflineAuthentication
 AidSelection  ProcessingRestrictions  RiskManagement  TerminalActionAnalysis
         \              \               /              /
          +--------------- TerminalChecks -------------+
   each with its MC module (MCApdu, MCCvm, MCProfiles, MCOffline, MCTerminalChecks) and
   its ...Proofs module

 TraceMasking <- TracePack <- MCTrace, TracePackProofs
 EvidenceImport <- MCImport, EvidenceImportProofs

 DataObjects <- ResponseParsing <- MCParsing, CardDataProofs (which also proves
                                              about CardholderVerification)
```

| module | what it says |
| --- | --- |
| `TransactionFsm` | the rows of `fsm::transition`; `Target(state, event)`, `CanApply`, and the edges the table allows |
| `TerminalActionAnalysis` | TVR bits, action codes, `Decide` (`taa::decide`) |
| `KernelContext` | the variables, one per group of fields of `KrnContext`; `Init`; the configuring entry points; what a refused or re-entrant call does; the ways a driver call ends (`FailTransaction`, `ReturnError`, `ReturnOk`, `Continue`) |
| `RunTransaction` | `krn_run_transaction`, one action per callback the driver waits for, and one per iteration of `advance_transaction_after_gpo` that asks the host nothing |
| `OnlineCompletion` | the host response and the online calls, one action per callback |
| `Kernel` | the composition (`Next`, `Spec`), the properties, the parts of the inductive invariant, the mapping to the lifecycle |
| `TransactionLifecycle` | what the host relies on: a transaction is prepared, talks to the card, is decided with the card or goes to the issuer, is decided once, completes or fails; `Safety`, and `Spec` with fairness |
| `CardCommand` | what a caller of the exchange relies on: one command, processed at most once, one answer or a failure |
| `ApduExchange` | `transmit_apdu_with_followups`: one action per branch of its loop, the four forms of a command, the classification of status words by context, what each caller does with a classification |
| `CardholderVerification` | `cvm::evaluate` over any CVM list, rule by rule, in the context `run_cvm_processing` builds; then the contactless CVM limit, which reads the results back |
| `ProfileStore` | the two verified loads, every acceptance rule between fields of a document, the versions and counters, the dates, and `select_capk`; days pass and the terminal restarts |
| `OfflineAuthentication` | GPO, the READ RECORD loop over any AFL, the data store and who may write which tag, `run_offline_data_authentication` with symbolic keys, certificates and signatures, and CDA at the first GENERATE AC |
| `AidSelection` | operators: the candidates from the directory or from the profile, which AID matches which, the order they are tried in, the check of the answered name |
| `ProcessingRestrictions` | operators: EMV dates, usage control, the checks and the bits they set |
| `RiskManagement` | operators: floor limits by transaction type, velocity checking, random selection in basis points |
| `TerminalChecks` | the path of a transaction from SELECT to the offline decision with these three and `TerminalActionAnalysis`, over many transactions: the host's stored counter, its inputs, profile loads, days, restarts |
| `TraceMasking` | operators: what a policy shows of a data object, a response, a command |
| `TracePack` | packs written case by case, lines lost and exchanged, and `Reviewable`, the audit |
| `EvidenceImport` | the import lane by lane and file by file, the manifests, the report; files change at any step |
| `DataObjects` | operators: where a tag and a length end, objects and the objects in them, tag lists, data object lists and the answer to one |
| `ResponseParsing` | operators: each parser of an answer and each encoder, to the byte; and who sends the bytes: a sender composes a message object by object, and bytes are lost, added or changed |
| `MCKernel`, `MCApdu`, `MCCvm`, `MCProfiles`, `MCOffline`, `MCTerminalChecks`, `MCTrace`, `MCImport`, `MCParsing` | profile sets, cards, lists, documents, packs, files and messages for TLC |
| `KernelProofs`, `ApduExchangeProofs`, `CardDataProofs`, `ProfileStoreProofs`, `OfflineAuthenticationProofs`, `TerminalChecksProofs`, `TracePackProofs`, `EvidenceImportProofs` | the theorems |

### State

`fsm`, `kstate`, `lastError` are `fsm_state`, `state`, `last_error`.
`call` names the driver call in progress (`busy` is `call # "none"`; `"limits"`
is `run_contactless_limit_processing`, entered from CVM processing), `local`
holds the locals it has between two callbacks (candidate AIDs, records left,
position in the scripts). `params`, `inputs`, `runtime`, `uiCallback`,
`profiles`, `bundle` are the configuration; `tvr`, `tsi` sets of bits; `tag95`
the copy of the TVR in the card data; `cardData` the set of data objects whose
presence or absence some step tests; the rest are the `Option` fields of the
context, with a `No...` value for `None`.

### Data

AIDs, unpredictable numbers and script commands are small values. A script command
is the number its instruction has in `critical_issuer_script_commands`. A card
answers each exchange with any result the code distinguishes; a host
with any response of a given set. In `Kernel`, ODA and the CVM list are represented by their results (the
TVR bits they can set, whether 9F34 says "successful"), and the restrictions by the bits they set.
In `OfflineAuthentication` a data object is a tag and a value, and a certificate or
signature is a record that says under which key, and over which text, its value recovers.
Amounts and limits are small naturals: the comparisons are the code's.

In `TracePack` a line keeps, beside what it says, the case it was written for, which the
audit does not see; a data object is its tag. Whether the text of a line has in it one of the
ten values that the audit looks for is a fact of the case (`raw`, for the three lines at its
head) or of the response (`fixtures`, the tags with such a value: it can be read where the
value is shown whole). In `EvidenceImport` a path is its rank in
the order of paths (visit order and the order of path strings are taken to agree), a
content is its digest and, if it parses as a manifest, its entries; a vanished file is one
that is absent when it is read.

## 3. What TLC checks

The kernel runs use `MCKernel` and differ in the card, host and profile set they
are instantiated with, so that each question is asked where its interesting
cases happen. The other components have one run each.

| run | question | instance | states |
| --- | --- | --- | --- |
| `MCCard` | Does the card phase decide only on evidence of this transaction; are limits, relay resistance and risk-management inputs honoured? | four AIDs with different action codes, one without CDA, one for contactless only with relay resistance; four AIPs; contact, offline-only, and contactless amounts below, between and above the limits 1 and 3; records with and without CDOL1, IAC, CAPK index and CTQ; both inputs optional; two unpredictable numbers; expired applications | 1 729 000 |
| `MCLifecycle` | Is the online completion right over any sequence of calls, also when other profile sets are loaded between them; does the kernel implement the lifecycle; does every call return? | three versions, the second shorter, the third with other critical instructions; templates 71 and 72 interleaved, one- and two-command scripts, critical and tolerated failures; two records; liveness | 492 000 |
| `MCApdu` | Is a command processed once and followed up as indicated? | commands of all four forms with and without Le, every status context, any mix of 61xx, 6Cxx, final answers and errors; the code's four follow-ups | 6 000 |
| `MCCvm` | Is the order of the CVM list kept, a failure shown? | every list of up to three of nine rules, five terminals, two interfaces, both amounts | 205 000 |
| `MCProfiles` | Are AIDs, keys and scope of the active set unambiguous; are older bundles refused? | sixteen documents, most with one flaw; 32 bundles; two signers; four days; restarts | 5 200 |
| `MCOffline` | Is what is authenticated what is stored, and a verdict backed by it? | six AFLs in both formats, five AIPs, fourteen record bodies (chains, conflicts, doubles, tags of others) in any order, SDA, DDA and CDA with good, wrong and missing signatures | 100 000 |
| `MCChecks` | Is the preferred application selected, and is every offline approval of the kernel's within limits, dates and usage control, and their number bounded? | two profile sets of three applications (partial names, one AID a prefix of another, contactless); cards with and without a directory, refusing, misnaming, expired, with more candidates than the limit; transaction types with limits of their own; counts up to 3; three days; restarts; every answer to the first GENERATE AC, with and without a failed CDA | 413 000 |
| `MCTrace` | Which packs does the audit accept, and what can one of them have lost or reveal? | packs of up to two of eleven cases (equal names, wrong counts, no masking assertion, a raw value at the head or in an answer, Format 1, a PIN, no steps, no parse), three policies, up to five lost lines and one exchange | 2 236 000 |
| `MCImport` | Is the report a function of the files, and does an accepting one bind what the manifests expect? | two lanes, a manifest of the root and one of a lane, conflicting entries, unbound and misplaced ones and one for an unknown slot, a private key, a foreign extension; two changes while it is compiled; a lane limit of two and a report limit of two findings | 1 044 000 |
| `MCParsing` | Is what is accepted the whole message, read in one way, and can what is built be read back? | four senders (SELECT, GPO, GENERATE AC, host) that send objects right and wrong, in any order, doubled, and wrapped in templates, up to four steps; any byte of it changed or the end cut off; stray bytes that begin, continue or end tags and lengths | 352 000 |

The bounds are enough because the code compares no more than this. Two records (in
`MCLifecycle`; the one record of `MCCard` holds any of three sets of objects) and two
candidates exercise every edge of their loops (first, next,
last); two scripts of two commands each exercise first, next and last of both script
loops; no property relates three transactions, and the runs repeat transactions
without bound (reset and parameters may be set again at any time, so the state
graph has cycles through S1). `MaxVersion` bounds the profile versions, three being enough for
"older", "same" and "newer". `MCApdu` has the follow-up limit
of the code. AFLs of two entries and up to three records give `MCOffline` a flagged
record before and after an unflagged one. Three rules in `MCCvm` give a rule
before and after the one a property speaks of. The four days of `MCProfiles` let
a key expire before, on and after the day of a load. `MaxCount` of 3 in `MCChecks` is above
the upper limits of its profiles, so that the bound is reached and can be missed; `MaxCandidates`
(32 in the code) is 2 there, so that directories and candidate lists go over it. A case of
`MCTrace` has at most eight lines; five lost ones are enough to lose a whole case and, in
another pack, parts of two. `MaxImported` and `MaxFindings` (256 and 512 in the code) are 2
in `MCImport`, where lanes fill up and findings overflow; two changes let a file be
replaced and put back. In `MCParsing` the limits on depth, objects and list entries (8, 512 and 128)
are 2, 18 and 3, so that messages reach them and go over them; the length limits that bound the
forms of a length (252 bytes of list data, one and two length bytes) are those of the code or
just above a boundary; a message of more than `MaxDamaged` (10) bytes is cut but not altered.
`MaxPackage` (1024 in the code) is 425: the values of the terminal's store alone take 400
bytes, so that packages with short answers are sent and packages with long ones refused.

Deadlock is checked everywhere but in `MCCvm`, where the walk over the list ends, in
`MCOffline`, which ends after the first GENERATE AC, and in `MCTrace`, where a pack has no
lines left to lose.

### Fairness

In `Kernel`, `WF_vars(DriverStep)`, nothing else: a call in progress takes its next step. The
code justifies it because the driver runs to the next callback without waiting, and a callback
returns within the timeout it is handed (KRN-API-006,
`validate_callback_timeout`). The host is under no
obligation: it may never call again. `EveryCallReturns` (`Busy ~> ~Busy`) holds under this alone, because every loop
of the driver consumes something: a candidate, a record, a command. `ApduExchange`
has `WF_vars(Exchange)` for the same reason (a transmit returns within its timeout),
`CardholderVerification` `WF_cvmVars(Walk)` (a loop without a callback in it).
`ProfileStore` has none: nothing obliges a host to load; nor have
the others, which state safety only.

### Where code and documents disagree

Two runs are expected to find a violation; each checks a sentence of the
documentation.

| run | the document | the code |
| --- | --- | --- |
| `MCScriptFailureAlwaysRecorded` | KRN-SCR-004: TVR byte 5 bit 6 when script processing fails | a transmit error in a later exchange of the script returns before the bit is set |
| `MCCvmVerifiedAboveLimit` | the contactless CVM limit: "Above this, CVM is required" | No CVM Required is stored as a successful verification, and the limit check accepts it |

TLC refutes twenty more statements, which the modules state and no listed run
checks. To see one, put it in place of the properties of the configuration
named:

| statement | configuration | the document | the code |
| --- | --- | --- | --- |
| `FsmTableComplete` | `MCCard` | KRN-FSM-001: the full transition table is an artifact | early contactless outcomes assign S8 -> S16, which neither `transition` nor the CSV has |
| `ProfileVersionMonotone` | `MCLifecycle` | KRN-CFG-003: rollback protection by monotonic versions | a bundle with a newer bundle counter installs an older profile set |
| `CardRemovalIsFatal` | `MCLifecycle` | KRN-FSM-004: card removal is a documented transition | a card removed in an online call leaves the state machine where it was |
| `RetriedOnce` | `MCApdu` | KRN-APDU-003: "Retry once with indicated Le" | every 6Cxx is retried, up to the follow-up limit |
| `UnrecognizedShown` | `MCCvm` | the CVM step sets Unrecognized CVM; a unit test's name (`cvm.rs:1000`) says even when the next rule succeeds | the bit is dropped when a later rule has a bit of its own, or when the list ends |
| `ExpiredUnavailable` | `MCProfiles` | KRN-CAPK-002: expired CAPKs are unavailable | expiry is compared with the date of the load, not of the transaction |
| `MissingRecordShown` | `MCOffline` | `docs/spec5.md:291` on 6A83: "if mandatory record missing, set `TVR_B1_ICC_DATA_MISSING`" | 6A83 on an unflagged record ends the loop, and the flagged records after it set no bit |
| `BundleIsActive` | `MCProfiles` | `krn_get_certification_bundle_sha256` copies "the active" bundle's digest | `krn_load_profiles_verified` leaves the digest of a bundle it has replaced |
| `OfflineDecisionHasCryptogram` | `MCCard` | KRN-GAC1-003: the first GENERATE AC requests AAC, TC or ARQC | a TC or AAC decision ends the transaction without GENERATE AC |
| `AflIsRead` | `MCOffline` | `docs/state_machine.csv`: a format 80 answer to GPO goes past READ RECORD when there is "No AFL" | it always does, and only answers with an AFL are accepted |
| `ExpiryOnTransactionDate` | `MCChecks` | section 9.1 of the kernel specification compares the expiration date with the transaction date | with the evaluation date of the profile load (`run_processing_restrictions`) |
| `OnlineForced` | `MCChecks` | `docs/spec2.md:407`: velocity limits are the "number of consecutive offline transactions before forcing online" | above the limits an ARQC is asked for; a card that answers with a TC is approved offline all the same, any number of times |
| `TcNeedsNoOnline` | `MCChecks` | the state table of the kernel specification (v3.1, line 245) ends S10 with a TC when "no online required" | S10 is reached only to go online, and the TC of the card is an approval |
| `ReplayShaped` | `MCTrace` | `trace_audit.rs:3`: the pack is "replay-shaped" | the audit counts commands and responses and looks at no order |
| `FormatOneMasked` | `MCTrace` | the comment at `ffi.rs:1672`: cryptograms "remain suppressed under production policy" | in the generic context a Format 1 answer is one primitive object, shown as a whole |
| `FailsClosed` | `MCImport` | `docs/tutorial/08`: imports are "fail-closed" | beyond `MAX_INTEGRATION_FINDINGS` errors are dropped like warnings, before the status is computed |
| `EveryEntryHonoured` | `MCImport` | an entry's `expected_sha256_hex` is compared with the artifact's digest | of two entries for a file the second is not looked at |
| `NamesAsExpected` | `MCImport` | an entry's `expected_sha256_hex` is compared with the artifact's digest | the name of an entry that gives neither a slot nor a field is not looked at, and another file may be bound under it |
| `SlotsFrozen` | `MCImport` | the freeze manifest binds the artifacts of a release | an entry's `freeze_artifact_id` is not validated; a misspelt slot is neither frozen nor reported |
| `ManifestsNotFrozen` | `MCImport` | the freeze manifest binds the artifacts of a release | the manifest of a lane is itself a file of the lane, and takes its slot when its path comes first |

Three more are worth knowing of the tooling. `LabApduJsonl` of `authority_format.rs` writes
manifests for an adapter `LAB-TRACE` and a `.jsonl` file, which no lane has or takes; what it
calls `manifest_ready_unreviewed` compiles to "fail" (`Elsewhere` in `MCImport` is such an
entry). A private key in a lane that is already full gives a warning and not an error. And of
the checks: `terminal_application_version` is always `None`, so the bit for different
application versions is never set, and the driver ignores the `force_online` of terminal risk
management, which acts through the TVR alone.

And one was seen by reading alone: an offline PIN is stored as successful (CVM
Results `02`) when its handle is registered (`cvm.rs`, `evaluate`); the driver
sends no VERIFY, though KRN-PIN-004 has the results follow it. And one thing no
document contradicts but a reader should know: `recover_icc_public_key` passes no
static data, so DDA and CDA authenticate the card's key and not its records, and a
card whose ICC certificate covers them is refused.

## 4. What is proved

The theorems hold for all values of the constants that satisfy the `ASSUME`s of
`KernelContext`: any profile sets (well-formed sequences of AID profiles), any
card, any host responses, any number of records, candidates and scripts. One of
the assumptions, `ScriptsAssumption` of `OnlineCompletion`, says that filtering the
scripts of a host response gives a sequence of scripts: it follows from the definition
of `SelectSeq`, but by an induction the provers cannot make. TLC evaluates it for the
responses of the runs.

* `TypeInvariance`: `Spec => []TypeOK`. `TypeOK` is not inductive: a
  step reads the profile of an AID chosen callbacks earlier, `"S4"` counts a
  record down, a script result needs a positive position. `RunTypes` adds
  `CallMatchesState` (the call in progress and the state machine agree),
  `RunPrepared` (a run has parameters, a profile set, its AID, its records) and
  `ScriptPosition`. `TypeCorrectness` is its invariance.
* `ApprovalIsJustified`, `EvidenceIsChained`, `OnlineIsArqc`,
  `OdaIsAccountedFor`, `OutcomeIsFinal`. They support each other, so they are
  proved as one invariant, `SafetyInv`, with four more parts: `NothingDecided`
  and `NothingFromHost` (each state lacks the evidence only later states
  have), `ArqcDecided` (the ARQC the card is asked for is what terminal
  action analysis decides on the TVR *as it is now*) and `OdaPending`. The
  interesting step is the first GENERATE AC: the card answers an ARQC request
  with a TC, CDA fails, terminal action analysis is run again with
  `CDA failed` added to the TVR. That it then cannot approve is the lemma
  `ArqcNeverTc`: more TVR bits never turn a decision for ARQC into one for TC,
  whatever the action codes and defaults.
* `PackageIsCurrent` is a part of `SafetyInv`; `OutcomeIsStable`, `RiskIsMonotone`,
  `NumbersAreFresh` are the action properties that follow from it.
* `LimitsAreKept`: a contactless transaction proceeds only within its limits. It needs that
  they hold from the end of the limit processing to the decision (`LimitsChecked`): no
  profile set is loaded in between, as a call is in progress, and no later step takes back
  the CVM Results or the CTQ.
* `BusyDoesNotLast`: `BusyIsTransient` is inductive, since every end of a call records a
  result.
* `ScriptsAreInOrder`, `ScriptsAreComplete`, `ScriptFailuresAreRecorded`, proved as one
  invariant, `ScriptInv`, on top of `SafetyInv`. Three parts are about calls in progress:
  the results recorded end right before the command about to be sent (`ScriptPlace`), none
  is of a script ahead of the one in progress (`NotAhead`), and the failures of the *other*
  scripts are what the TVR shows (`FailuresPending`). A call that is abandoned inside a
  script can never be resumed: the state machine stays in `S13Script` or `S15Script`, which
  no call accepts (`CallAbandoned`).
* `LifecycleImplemented`: `Spec => Lifecycle!Safety`, the safety part of the
  refinement that `MCLifecycle` checks with its fairness.

Each proof that a step preserves the invariant has one step per action.

The other components have one proof module each:

* `ApduExchangeProofs`, for any follow-up limit, lengths and Le values:
  `ExchangeTyped`, `CommandProcessedOnce`, `RetriesAskForIndicated`, `AnswersAreExpected`
  (no follow-up status reaches a caller), and `ExchangeIsOneCommand`, the safety part of the
  refinement of `CardCommand`. The invariant says that the card has
  processed nothing while the caller's own command is still the one to be sent;
  that the Le of a command is where `retry_apdu_with_le` puts it is shown
  form by form (`FourForms`).
* `CardDataProofs`, first part: what the readers of bytes do; see the next section.
* `CardDataProofs`, last part, for any set of CVM lists and any terminals:
  `WalkTyped`, `PrioritiesKept`, `FailuresAreShown`. The invariant (`WalkInv`,
  `ShownInv`) says of every rule behind the current one why it was left there,
  and what the pending TVR bit stands for.
* `ProfileStoreProofs`, for any documents, bundles, anchors and calendar:
  `StoreTyped`, `AidsAreUnambiguous`, `CapksAreSelectable`, `ScopeIsExact`,
  `InterfacesAreServed`, `RollbackIsProtected`. The invariant is that the active
  set would be loadable on its own evaluation date. For `ScopeExact`, which the
  code ensures by comparing counts and sets of names, the proof is the pigeonhole
  argument: a sequence as long as the set of its values is large repeats none.
* `OfflineAuthenticationProofs`, for any cards, profiles and key hierarchies:
  `RecordsTyped`, `SignedRecordsAreIntact`, `OwnersAreRespected`,
  `VerdictsAreBacked`. The invariant (`ReadInv`) says that the loop runs over a plan
  without doubles, so that a record is identified by its file and number
  (`KeptComesBefore`), and that no signed record holds a tag a later step writes. The
  verdict rests on the owners of tags: GENERATE AC puts none the keys are recovered
  from (`KeysKept`), and finds none of its own in the store.
* `TerminalChecksProofs`, for any profiles, cards, calendars and numbers:
  `ChecksTypeCorrect`, `NoneIsPassedOver`, `ChosenIsListed`, `CounterIsFresh`,
  `OfflineApprovalsWarranted`, `VelocityIsBounded`. The invariant (`ChecksInv`) says that
  what the walk over the candidates has left behind was refused (`Walk`, `Choice`), that
  the TVR holds what restrictions and risk management found on the inputs of this
  transaction (`RestrictionsSeen`, `RiskSeen`), that these inputs are fresh
  (`Fresh`), and that the card is asked for a cryptogram only when terminal action analysis
  decided for an ARQC on the TVR as it is (`Asked`). An approval by the kernel then means that
  no watched bit was set (`ApprovalMeansUnwatched`); the second decision, after a failed
  CDA, is for more bits than the first, which was for an ARQC, so it never approves
  (`OnlineNeverApproved`). The bound on consecutive approvals follows: the step that
  raises the stored count without the card's own TC does so from at most the limit.

* `TracePackProofs`, for any cases, policies, losses and exchanges: `PackAccounted`,
  `PackTyped`, `AuditIsExact`, `LossesAreWholeCases`, `NothingSensitiveShown`. The invariant
  says of every line written for a case where it is: in the pack or among the lost, not
  twice, and in the order of writing while nobody touches the pack. The audit
  compares numbers, so the proof counts: the lines of one kind in a pack and the lost ones
  are together those of the cases added, by bijections, and where the audit finds as many
  headers as it expects, the fibres of the cases that are left have their full size
  (`FibresEqual`). `AuditIsExact` takes the text of a line apart by its kind (`SoundByKind`):
  each check of the audit on a line is a condition on the case it was written for.
* `EvidenceImportProofs`, for any lanes, files, manifests, limits and changes:
  `ImportKnown`, `ImportTyped`, `BoundAsManifested`, `QuietKnown`, `QuietReportIsExact`.
  `IInv` holds whatever is changed meanwhile, and gives `AcceptedAsManifested` at the step
  that compiles the report, as no error is among its findings. `QInv` holds while nobody
  changes a file: the files handled so far are imported exactly if the rules take them. The
  rules count the acceptable files before one, the code those it has imported; that both
  reach the limit of the lane together is the lemma `TakenFill`. The proof of
  `AcceptedAsManifested` failed at first, on entries that bind nothing: the statement was
  too strong, though no instance had shown it. It is now about entries that bind, `MCImport` has an
  entry that does not (`Unbound`), and the stronger form is `NamesAsExpected` above.

Induction over sequences: the theorems of the library that take an operator cannot be
used, but a set of numbers that is not empty has a least one (`LeastNumber`, from
`WFMin`). What a fold or a concatenation returns is proved from the least place where
it would be wrong (`FlattenRange`; `EverySequence`, for a set of sequences).

### The bytes (`CardDataProofs`)

`TlvIsFaithful`, `DolIsFaithful` and `ResponsesAreFaithful` state the three invariants of
`MCParsing` for any senders, any damage, and any limits that satisfy
`EncodingAssumption` and `ParsingAssumption`. What these assume of the limits, beyond that
they are numbers, the code's constants give:

| assumption | why it is needed | in the code |
| --- | --- | --- |
| `MaxDolOutput <= 252` | list data and the template around them fit into a short command | 252 |
| `MaxValueLength` from 260 to 65535 | the GPO answer of a format 80 value, sent as format 77, has up to 259 bytes of data and must still be readable; a length field has two bytes at most | 4096 |
| `MaxNodes >= 18`, `MaxDepth > 0` | the package has up to 18 objects, an answer in format 77 has depth 1 | 512, 8 |
| `MinSignature > 0` | a signature that is there is not an empty one, which stands for none | 8 |
| `MaxIad < 128` | an answer to GENERATE AC with the longest IAD can be sent in either format | 32 |
| `MaxPackage <= MaxValueLength` | no value of a package that is sent is too long to be read | 1024, 4096 |
| tags of `Store` satisfy `ValidDataTag` | `DataStore::put` calls `validate_data_tag` | |
| what a sender knows is `Proper` | it encodes BER-TLV; what is not, comes in by damage and noise | |

The argument has these layers.

1. *The recursions exist.* `ParseMany`, `ParseDol` and `TagList` are recursive functions on the
   bytes that are left: the domain is not the natural numbers, so the library says nothing
   of them. A reader is anything whose step looks only at places with fewer bytes; that such a
   function exists is shown once, for the three of them, from functions that are right up to
   a number of bytes and agree where both are defined.
2. *Sequences.* `Over`, `Cat`, `Upto`, `After` are names for membership in `Seq`,
   concatenation and its two cuts, with the dozen laws the rest needs, so that the solver
   sees an algebra and not the definition of sequences.
   `Collected(s, F)` is what concatenating `F[x]` over a sequence gives; `Flatten`, `Encoded`, `Direct`,
   `Templates` and `Commands` are all of this form, and its laws (of concatenations, of one
   collection after another, of lengths that add up) are proved once.
3. *Soundness* (`ParserSound`, `TagListSound`, `DolSoundly`): what is accepted is the encoding of what is
   returned, within the limits. A shortest input for which it fails would have a shorter one.
   It rests on the fields: of a tag and of a length there is one reading, and only the
   shortest form of a length is read.
4. *Completeness* (`ParserComplete`): what was encoded from proper objects is read as these, if
   they are within the limits, and refused if not; by the shortest input again, with
   the number of nodes and the depth as part of the statement.
5. *The invariant* (`InputIsBytes`): `TlvFaithful` is not inductive, since what is sent next is
   put behind what the parser may have refused. `ParsingInv` says instead that the input is
   bytes, and as long as it is intact the encoding of proper objects of which none is longer than a
   length field can say. 3 and 4 then give `TlvFaithful` in every state.
6. *What is built.* A list's answer has each datum at the sum of the lengths before it; with the
   template it fits into 255 bytes, and 4 reads it back (`DolFaithful`). A package is a sequence of
   primitive objects with valid tags, one of each; within `MaxPackage` 4 applies to it
   (`PackageReadsBack`). For `FormatsAgree` the fields of an accepted answer are typed (`AcTyped`), the
   other format is built from them, read by 4, and each field found again where the reader
   looks: by position in format 80, by tag in format 77, for which the tags must differ (`AcTagsDiffer`).
7. *Nothing ignored* (`HostComplete`): the objects of an accepted host response are those with the
   four kinds of tags, and these are disjoint sets, so the numbers of each add up to all of
   them. Only script templates have objects inside, which are commands and identifiers without
   any of their own; so the commands found by looking at everything in the response
   (`Flatten`) are those found script by script, in the same order, because both are the same
   collection over the objects of the response.

The proofs changed what is checked in two places. With a `MaxPackage` of 400 no package had ever
been sent in `MCParsing`, so its check of `PackageReadsBack` had said nothing; and a
`MaxValueLength` below 260, which the instance had, makes `FormatsAgree` false for the longest AFL.

**Only model-checked:** what rests on fairness:
`EveryCallReturns`, `Decided` (the CVM walk ends, with `MCCvm`), and the fairness of the lifecycle and of `CardCommand`:
temporal reasoning with fairness is outside the prover. Every invariant and every action property
that a passing run checks is stated by a theorem.

## 5. What is not modelled

* BCD dates and amounts, JSON, and the arithmetic of RSA and SHA-1: a value recovers under
  a key or not, a key's checksum is right or not. Which error a parser reports for what it
  refuses is left out of `ResponseParsing`.
* In `Kernel`, the bytes of an exchange: an answer parses or not. `ResponseParsing` says when.
* In `Kernel`, the order in which candidate AIDs are tried: any order, so what holds there
  does not depend on priorities (`TerminalChecks` has the order).
* In `Kernel`, the contents of the profile set beyond what the driver reads, the CVM
  list and the follow-ups of an exchange: these are in the modules of their own.
* Build modes Test and Production, which no ABI call selects; the host's clock:
  it passes the current date to the loads.
* Undefined behaviour through the C ABI (a context used after it is freed or from
  two threads): the header forbids it.
* The rest of the certification tooling: texts written from fixed tables or from one
  file, with no state between calls and no influence on a transaction.
* Of traces, the cursor of `ReplayScript` and the length limits (`MAX_TRACE_FIELDS`,
  `MAX_REPLAY_*`).

## 6. Plan

Done: the core (context, state machine, driver, online completion) with its abstract
lifecycle; the APDU exchange with its abstract command; cardholder verification;
the profile store; record reading and offline data authentication; selection, restrictions
and risk management over sequences of transactions; masking and trace packs; the import
of evidence; the parsers of cards' and hosts' bytes; the proofs of every safety property of
the kernel and of all components. Next:

* `ResponseParsing` joined with `Kernel`: the host response that `ParseHostResponse` accepts
  as the one `OnlineCompletion` runs the scripts of.

As components are added, questions of the kernel that one instance can answer are
asked in one run, as `MCLifecycle` does.
