--------------------------- MODULE TerminalChecks ---------------------------
(***************************************************************************)
(* The checks a terminal makes on its own, over a sequence of transactions:*)
(* the candidate list and the selection of an application, processing      *)
(* restrictions, terminal risk management and the decision, for any        *)
(* results of the steps in between.  Days pass, profiles are loaded again, *)
(* and the host keeps the count of consecutive offline transactions in its *)
(* non-volatile storage.                                                   *)
(***************************************************************************)
EXTENDS AidSelection, ProcessingRestrictions, RiskManagement, TerminalActionAnalysis

CONSTANTS
  ProfileSets,   \* the sets of applications the host may load
  Cards,         \* the cards that may be presented
  Transactions,  \* the parameters of a transaction
  Samples,       \* random samples the host may draw
  Calendar,      \* the days, in their order
  OtherBits,     \* TVR bits of the steps that are not modelled here
  MaxCount       \* bound on the offline count

Applications ==
  [aid : Aids, scheme : Nat, index : Nat, priority : Nat, partial : BOOLEAN,
   interfaces : SUBSET Interfaces, kernels : SUBSET Interfaces,
   trm : TrmProfiles, tac : ActionCodes, taa : TaaProfiles]

(* adfs: the answer to each final SELECT, by name; others are not found.   *)
(* action codes: those of the card, else of the profile.                   *)
CardShape(card) ==
  /\ card.directory \in Directories
  /\ card.data \in RestrictionData /\ card.iac \in ActionCodes
  /\ Optional(card.data.expiration) /\ Optional(card.data.effective)
  /\ Optional(card.data.country) /\ Optional(card.data.auc)
  /\ card.adfs \in [DOMAIN card.adfs -> Aids \cup {<<>>}]

Params == [interface : Interfaces, amount : Nat, type : 0..255,
           terminalType : 0..255, country : Nat, onlineCapable : BOOLEAN]

NoParams      == [interface |-> "none"]
NoApplication == [name |-> <<>>]

Counters == [count : Nat, source : {"nonVolatile", "volatile"}]

(* load_profile_set admits the sets: TRM profiles are valid, an application*)
(* is named once, and each interface it serves has a kernel.               *)
Admitted(apps) ==
  /\ apps \subseteq Applications
  /\ \A a \in apps : TrmProfileValid(a.trm) /\ a.interfaces \subseteq a.kernels
  /\ \A a, b \in apps : a.aid = b.aid => a = b

ASSUME ChecksAssumption ==
  /\ \A apps \in ProfileSets : Admitted(apps)
  /\ \A card \in Cards : CardShape(card)
  /\ Transactions \subseteq Params /\ Samples \subseteq Nat
  /\ Calendar \in Seq(DateShapes) /\ Calendar # <<>>
  /\ \A i \in 1..Len(Calendar) : ValidDate(Calendar[i])
  /\ OtherBits \subseteq OdaBits \cup CvmBits /\ MaxCount \in Nat

VARIABLES
  apps, evaluationDate,     \* profiles, profile_evaluation_date
  params, counter, sample,  \* txn_params, offline_counter, trm_random_sample
  step,                     \* fsm_state; S11 is an ARQC, S16 an outcome
  card, untried, refused,   \* the card, candidates left, names it refused
  application, tvr,         \* selected_application, tvr
  answer,                   \* first_gac_response, its cryptogram
  outcome,
  today, stored,            \* the calendar, and the count the host stores
  unrequested               \* history: how many of these no one asked for

vars == <<apps, evaluationDate, params, counter, sample, step, card, untried,
          refused, application, tvr, answer, outcome, today, stored, unrequested>>

host  == <<today, stored, unrequested>>
count == <<stored, unrequested>>
store == <<apps, evaluationDate>>
input == <<params, counter, sample>>
chosen == <<card, untried, refused, application>>

Running == step \in {"S2", "S3", "S4", "S6", "S7", "S8", "S9", "S10"}
Date    == Calendar[today]
NoCard  == [directory |-> "none"]

-----------------------------------------------------------------------------
(* The host's calls, between two runs.                                     *)

(* krn_load_profiles_verified, or the bundle, with the day as its date.    *)
LoadProfiles ==
  /\ ~Running
  /\ apps' \in ProfileSets /\ evaluationDate' = {Date}
  /\ UNCHANGED <<input, step, chosen, tvr, answer, outcome, host>>

(* What is left of the last transaction; its card is gone.                 *)
Cleared ==
  /\ card' = NoCard /\ untried' = {} /\ refused' = {} /\ application' = NoApplication
  /\ tvr' = {} /\ answer' = "none" /\ outcome' = "none"

(* Mutant: the counter and the sample are left to the next transaction.    *)
SetTransactionParams_KeepsInputs ==
  /\ ~Running
  /\ params' \in Transactions /\ step' = "S1" /\ Cleared
  /\ UNCHANGED <<store, counter, sample, host>>

(* krn_set_transaction_params: in any state.                               *)
SetTransactionParams ==
  /\ ~Running
  /\ params' \in Transactions /\ step' = "S1"
  /\ counter' = {} /\ sample' = {} /\ Cleared
  /\ UNCHANGED <<store, host>>

(* krn_set_nonvolatile_offline_counter, with the count the host stores.    *)
SetOfflineCounter ==
  /\ ~Running
  /\ counter' = {[count |-> stored, source |-> "nonVolatile"]}
  /\ UNCHANGED <<store, params, sample, step, chosen, tvr, answer, outcome, host>>

(* krn_set_trm_random_selection_sample rejects a sample above 9999.        *)
SetRandomSample ==
  /\ ~Running
  /\ \E s \in Samples \cap BasisPoints : sample' = {s}
  /\ UNCHANGED <<store, params, counter, step, chosen, tvr, answer, outcome, host>>

(* krn_reset: the loaded profiles stay.                                    *)
Reset ==
  /\ ~Running
  /\ params' = NoParams /\ step' = "S0" /\ counter' = {} /\ sample' = {}
  /\ Cleared
  /\ UNCHANGED <<store, host>>

(* The terminal restarts, at any time: krn_context_new.                    *)
Restart ==
  /\ apps' = {} /\ evaluationDate' = {} /\ params' = NoParams
  /\ counter' = {} /\ sample' = {} /\ step' = "S0" /\ Cleared
  /\ UNCHANGED host

NextDay ==
  /\ ~Running /\ today < Len(Calendar)
  /\ today' = today + 1
  /\ UNCHANGED <<store, input, step, chosen, tvr, answer, outcome, count>>

-----------------------------------------------------------------------------
(* krn_run_transaction, step by step.                                      *)

Fail ==
  /\ step' = "Se" /\ outcome' = "Terminated"

(* The transaction starts: a card is presented.                            *)
StartRun ==
  /\ step = "S1" /\ evaluationDate # {}
  /\ step' = "S2" /\ card' \in Cards /\ refused' = {} /\ untried' = {}
  /\ UNCHANGED <<store, input, application, tvr, answer, outcome, host>>

(* The payment environment is selected and the candidate list built.       *)
SelectEnvironment ==
  /\ step = "S2"
  /\ LET directory  == card.directory
         candidates == Candidates(directory, apps, params.interface)
     IN \/ /\ \/ directory.status = "notFound"
              \/ directory.status = "selected" /\ Readable(directory)
           /\ candidates # {} /\ ~TooMany(candidates)
           /\ untried' = candidates /\ step' = "S3"
           /\ UNCHANGED outcome
        \/ /\ \/ directory.status = "refused"
              \/ directory.status = "selected" /\ ~Readable(directory)
              \/ candidates = {} \/ TooMany(candidates)
           /\ Fail /\ UNCHANGED untried
  /\ UNCHANGED <<store, input, card, refused, application, tvr, answer, host>>

(* The candidate the loop is at.                                           *)
First(candidate) ==
  /\ candidate \in untried
  /\ \A c \in untried : c = candidate \/ Before(candidate, c)

(* The card does not know the name: the next candidate, if there is one.   *)
CandidateRefused ==
  /\ step = "S3"
  /\ \E c \in untried :
       /\ First(c) /\ c.name \notin DOMAIN card.adfs
       /\ untried' = untried \ {c} /\ refused' = refused \cup {c.name}
  /\ \/ untried' # {} /\ UNCHANGED <<step, outcome>>
     \/ untried' = {} /\ Fail
  /\ UNCHANGED <<store, input, card, application, tvr, answer, host>>

(* The card selects it: its FCI must name the application that was meant.  *)
CandidateSelected ==
  /\ step = "S3"
  /\ \E c \in untried :
       /\ First(c) /\ c.name \in DOMAIN card.adfs
       /\ \/ /\ AdfNameValid(card.adfs[c.name], c)
             /\ application' = c /\ step' = "S4" /\ UNCHANGED outcome
          \/ /\ ~AdfNameValid(card.adfs[c.name], c)
             /\ Fail /\ UNCHANGED application
  /\ UNCHANGED <<store, input, card, untried, refused, tvr, answer, host>>

(* validate_selected_kernel_mapping, after GPO; the records are read.      *)
MapKernel ==
  /\ step = "S4"
  /\ IF params.interface \in application.app.interfaces \cap application.app.kernels
     THEN step' = "S6" /\ UNCHANGED outcome ELSE Fail
  /\ UNCHANGED <<store, input, chosen, tvr, answer, host>>

(* run_processing_restrictions, for the date of the load.                  *)
EvaluateRestrictions ==
  /\ step = "S6"
  /\ \/ /\ DataSuffices(card.data)
        /\ tvr' = tvr \cup Failed(RestrictionInput(card.data, params,
                                                   TheOnly(evaluationDate)))
        /\ step' = "S7" /\ UNCHANGED outcome
     \/ ~DataSuffices(card.data) /\ Fail /\ UNCHANGED tvr
  /\ UNCHANGED <<store, input, chosen, answer, host>>

(* Offline data authentication and cardholder verification, by their bits. *)
OtherSteps ==
  /\ step = "S7"
  /\ \E bits \in SUBSET OtherBits : tvr' = tvr \cup bits
  /\ step' = "S8"
  /\ UNCHANGED <<store, input, chosen, answer, outcome, host>>

(* run_terminal_risk_management                                            *)
ManageRisk ==
  /\ step = "S8"
  /\ LET profile == application.app.trm
     IN \/ /\ RiskInputsSuffice(profile, counter, sample)
           /\ tvr' = tvr \cup RiskBits(profile, params.amount, params.type,
                                       counter, sample)
           /\ step' = "S9" /\ UNCHANGED outcome
        \/ ~RiskInputsSuffice(profile, counter, sample) /\ Fail /\ UNCHANGED tvr
  /\ UNCHANGED <<store, input, chosen, answer, host>>

(* taa::decide on a TVR, with the action codes of the card and the profile.*)
Decision(results) ==
  Decide(results, application.app.tac, card.iac, params.onlineCapable,
         application.app.taa)

(* The transaction ends with the terminal: approved for a TC, declined for *)
(* an AAC.  The host stores the count of an approval with its outcome.     *)
Conclude(cryptogram) ==
  /\ step' = "S16"
  /\ \/ cryptogram = "Aac" /\ outcome' = "DeclinedOffline" /\ UNCHANGED stored
     \/ /\ cryptogram = "Tc" /\ outcome' = "ApprovedOffline"
        /\ stored < MaxCount /\ stored' = stored + 1

(* run_terminal_action_analysis: an ARQC is asked of the card; a TC or an  *)
(* AAC is not, and ends the transaction.                                   *)
Analyse ==
  /\ step = "S9"
  /\ \/ Decision(tvr) = "Arqc" /\ step' = "S10" /\ UNCHANGED <<outcome, stored>>
     \/ Decision(tvr) # "Arqc" /\ Conclude(Decision(tvr))
  /\ UNCHANGED <<store, input, chosen, tvr, answer, today, unrequested>>

(* verify_combined_data_authentication, if CDA is the method, fails again  *)
(* when its certificates have failed before.                               *)
CdaFailures == {TRUE} \cup (IF "CdaFailed" \in tvr THEN {} ELSE {FALSE})

(* The answer to the first GENERATE AC, which asks for an ARQC.  Given one,*)
(* the host goes online, where it starts its count again, or cannot.  A TC *)
(* or an AAC ends the transaction, by the decision of the card; but when   *)
(* CDA has failed, by a second one of terminal action analysis, which must *)
(* not ask to go online then.  An AAR and an ARQC whose package for the    *)
(* issuer is too long are errors.                                          *)
CardAnswers(cryptogram, cdaFailed) ==
  \/ cryptogram \in {"Aar", "Arqc"} /\ Fail /\ UNCHANGED <<answer, count>>
  \/ /\ cryptogram = "Arqc" /\ answer' = cryptogram
     /\ step' = "S11" /\ outcome' = "OnlineRequired"
     /\ \/ stored' = 0 /\ unrequested' = 0
        \/ UNCHANGED count
  \/ /\ cryptogram \in {"Tc", "Aac"} /\ answer' = cryptogram /\ cdaFailed
     /\ \/ Decision(tvr') = "Arqc" /\ Fail /\ UNCHANGED stored
        \/ Decision(tvr') # "Arqc" /\ Conclude(Decision(tvr'))
     /\ UNCHANGED unrequested
  \/ /\ cryptogram \in {"Tc", "Aac"} /\ answer' = cryptogram /\ ~cdaFailed
     /\ Conclude(cryptogram)
     /\ unrequested' = unrequested + (IF cryptogram = "Tc" THEN 1 ELSE 0)

(* run_first_generate_ac and first_gac_transaction_outcome.                *)
GenerateAc ==
  /\ step = "S10"
  /\ \/ Fail /\ UNCHANGED <<tvr, answer, count>>
     \/ \E cryptogram \in {"Arqc", "Tc", "Aac", "Aar"}, cdaFailed \in CdaFailures :
          /\ tvr' = tvr \cup (IF cdaFailed THEN {"CdaFailed"} ELSE {})
          /\ CardAnswers(cryptogram, cdaFailed)
  /\ UNCHANGED <<store, input, chosen, today>>

Init ==
  /\ apps = {} /\ evaluationDate = {}
  /\ params = NoParams /\ counter = {} /\ sample = {}
  /\ step = "S0" /\ card = NoCard /\ untried = {} /\ refused = {}
  /\ application = NoApplication /\ tvr = {}
  /\ answer = "none" /\ outcome = "none"
  /\ today = 1 /\ stored = 0 /\ unrequested = 0

Next ==
  \/ LoadProfiles \/ SetTransactionParams \/ SetOfflineCounter
  \/ SetRandomSample \/ Reset \/ Restart \/ NextDay
  \/ StartRun \/ SelectEnvironment \/ CandidateRefused \/ CandidateSelected
  \/ MapKernel \/ EvaluateRestrictions \/ OtherSteps \/ ManageRisk
  \/ Analyse \/ GenerateAc

Spec == Init /\ [][Next]_vars

-----------------------------------------------------------------------------
TypeOK ==
  /\ apps \in ProfileSets \cup {{}} /\ Optional(evaluationDate)
  /\ \A date \in evaluationDate : ValidDate(date)
  /\ params \in Transactions \cup {NoParams}
  /\ counter \subseteq Counters /\ Optional(counter)
  /\ sample \subseteq BasisPoints /\ Optional(sample)
  /\ step \in {"S0", "S1", "S2", "S3", "S4", "S6", "S7", "S8", "S9", "S10",
               "S11", "S16", "Se"}
  /\ card \in Cards \cup {NoCard}
  /\ tvr \subseteq TvrBits
  /\ answer \in {"none", "Arqc", "Tc", "Aac"}
  /\ today \in 1..Len(Calendar)
  /\ stored \in 0..MaxCount /\ unrequested \in 0..stored

(* The names under which an application can be found on the card.          *)
NamesTried(app) ==
  IF IsDirect(card.directory) THEN {app.aid} ELSE Listed(card.directory)

(* No application is passed over: when one is selected, the card has       *)
(* refused, by name, every one of the profile that it listed (or that is   *)
(* tried without a list) and that the profile prefers.                     *)
HigherPriorityRefused ==
  Running /\ application # NoApplication =>
    \A app \in apps :
      \A name \in NamesTried(app) :
        /\ params.interface \in app.interfaces
        /\ AidMatches(name, app.aid, app.partial)
        /\ app.priority < application.app.priority
        => name \in refused

(* What is selected is what the card listed, under the full name it listed *)
(* and answers to, and validate_selected_kernel_mapping finds the kernel   *)
(* that the profile was admitted with, so that no transaction is lost there*)
SelectedAsListed ==
  Running /\ application # NoApplication =>
    /\ ~IsDirect(card.directory) => application.name \in Listed(card.directory)
    /\ card.adfs[application.name] = application.name
    /\ params.interface \in application.app.interfaces \cap application.app.kernels

(* The counter a transaction is decided on is the one the storage holds,   *)
(* never one that was handed over for an earlier transaction.              *)
CounterFresh == Running => \A c \in counter : c.count = stored

(* The action codes keep a transaction with this bit from an approval.     *)
ActedOn(bit, app, iac, onlineCapable) ==
  \/ bit \in app.tac["denial"] \cup iac["denial"]
  \/ onlineCapable /\ bit \in app.tac["online"] \cup iac["online"]
  \/ /\ ~onlineCapable /\ bit \in app.tac["default"] \cup iac["default"]
     /\ app.taa.unableOnlineFallback = "Aac"

Watched(bit) == ActedOn(bit, application.app, card.iac, params.onlineCapable)

TypeLimitHolds(trm) ==
  \/ \E i \in 1..Len(trm.typeLimits) :
       trm.typeLimits[i].type = params.type /\ params.amount <= trm.typeLimits[i].limit
  \/ /\ \A i \in 1..Len(trm.typeLimits) : trm.typeLimits[i].type # params.type
     /\ params.amount <= trm.floor

RiskAcceptable(trm) ==
  /\ Watched("FloorLimitExceeded") => TypeLimitHolds(trm)
  /\ Watched("LowerOfflineLimit") => \A limit \in trm.lower : stored <= limit
  /\ Watched("UpperOfflineLimit") => \A limit \in trm.upper : stored <= limit
  /\ Watched("RandomSelection") /\ trm.percent > 0
       => \E s \in sample : s >= trm.percent * 100

(* On the given date, the application is in its validity period and meant  *)
(* for the service.                                                        *)
ApplicationUsable(data, date) ==
  /\ Watched("ExpiredApplication") => \A e \in data.expiration : ~Earlier(e, date)
  /\ Watched("NotYetEffective") => \A e \in data.effective : ~Earlier(date, e)
  /\ Watched("ServiceNotAllowed") =>
       \A auc \in data.auc, country \in data.country :
         Allows(auc, IF country = params.country THEN "domestic" ELSE "international",
                ServiceOf(params.type), ChannelOf(params.terminalType))

Approves == outcome # "ApprovedOffline" /\ outcome' = "ApprovedOffline"

(* The card gives a TC where an ARQC was asked for, and CDA, if it is the  *)
(* method, has not failed: the approval is the card's own.                 *)
CardApproves == answer' = "Tc" /\ "CdaFailed" \notin tvr'

(* An offline approval of the kernel's, the one after a failed CDA too, is *)
(* one that nothing known of the transaction, the card and the terminal    *)
(* speaks against: whatever the action codes say to look at (limits of the *)
(* amount's type, the stored count, the sample, the dates as of the load,  *)
(* the usage control) was looked at.                                       *)
OfflineApprovalWarranted ==
  [][Approves => \/ CardApproves
                 \/ /\ RiskAcceptable(application.app.trm)
                    /\ ApplicationUsable(card.data, TheOnly(evaluationDate))]_vars

(* Every application has an upper limit, of at most this, and acts on it.  *)
UpperLimitKept(limit) ==
  \A set \in ProfileSets : \A app \in set :
    /\ \E upper \in app.trm.upper : upper <= limit
    /\ \A c \in Cards, p \in Transactions :
         ActedOn("UpperOfflineLimit", app, c.iac, p.onlineCapable)

(* Velocity checking: of the transactions approved offline since the       *)
(* terminal was last online, those that the kernel decided (and not a card,*)
(* with a TC nobody asked for) never exceed the upper limit by more than   *)
(* one, over any sequence of transactions, resets, restarts and loads.     *)
VelocityBounded ==
  \A limit \in 0..MaxCount :
    UpperLimitKept(limit) => stored - unrequested <= limit + 1

(* docs/spec2.md: velocity limits are the "number of consecutive offline   *)
(* transactions before forcing online".  Not so: cards that answer with a  *)
(* TC are not forced.                                                      *)
OnlineForced ==
  \A limit \in 0..MaxCount : UpperLimitKept(limit) => stored <= limit + 1

(* The table of states in the kernel specification ends S10 with a TC when *)
(* "no online required".  Not so: S10 is only reached to go online.        *)
TcNeedsNoOnline == [][Approves => step # "S10"]_vars

(* Section 9.1 of the kernel specification compares the expiration date    *)
(* with the transaction date.  Not so: with that of the load.              *)
ExpiryOnTransactionDate ==
  [][Approves => CardApproves \/ ApplicationUsable(card.data, Date)]_vars
=============================================================================
