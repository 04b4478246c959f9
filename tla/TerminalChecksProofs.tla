------------------------ MODULE TerminalChecksProofs ------------------------
(***************************************************************************)
(* For every set of profiles, card, calendar and sequence of calls: the    *)
(* walk over the candidates passes over no application the profile         *)
(* prefers, and what the TVR says when the decision is taken is backed by  *)
(* the inputs of this transaction.  From the second follow the bound on    *)
(* consecutive offline approvals and that each of them was warranted.      *)
(***************************************************************************)
EXTENDS TerminalChecks, TLAPS

TheCandidates == Candidates(card.directory, apps, params.interface)
AfterSelection == {"S4", "S6", "S7", "S8", "S9", "S10"}

(* A run has a card, a load and parameters; before one nothing is chosen.  *)
Prepared ==
  /\ step \in {"S1"} \cup AfterSelection \cup {"S2", "S3"} => params \in Transactions
  /\ Running => card \in Cards /\ evaluationDate # {}
  /\ step \in {"S1", "S2", "S3"} => application = NoApplication

(* The walk: what it has left behind was refused.                          *)
Walk ==
  step = "S3" => \A c \in TheCandidates : c \in untried \/ c.name \in refused

UntriedListed == step = "S3" => untried \subseteq TheCandidates

(* The chosen one is a candidate, none before it is left.                  *)
Choice ==
  step \in AfterSelection =>
    /\ application \in TheCandidates
    /\ AdfNameValid(card.adfs[application.name], application)
    /\ \A c \in TheCandidates :
         c.name \in refused \/ c = application \/ Before(application, c)

(* The TVR holds what processing restrictions found ...                    *)
RestrictionsSeen ==
  step \in {"S7", "S8", "S9"} =>
    /\ DataSuffices(card.data)
    /\ Failed(RestrictionInput(card.data, params, TheOnly(evaluationDate))) \subseteq tvr

(* ... and terminal risk management, with the inputs it is given now.      *)
RiskSeen ==
  step = "S9" =>
    /\ RiskInputsSuffice(application.app.trm, counter, sample)
    /\ RiskBits(application.app.trm, params.amount, params.type, counter, sample)
       \subseteq tvr

(* A count is stale only between the end of a transaction and the next     *)
(* krn_set_transaction_params, which drops it.                             *)
Fresh ==
  step \notin {"S11", "S16", "Se"} => \A c \in counter : c.count = stored

(* The first GENERATE AC is for what terminal action analysis decided on   *)
(* the TVR as it is.                                                       *)
Asked == step = "S10" => Decision(tvr) = "Arqc"

ChecksInv ==
  /\ TypeOK /\ Prepared /\ UntriedListed /\ Walk /\ Choice
  /\ RestrictionsSeen /\ RiskSeen /\ Fresh /\ Asked

-----------------------------------------------------------------------------
(* An approval offline is asked for only when no bit the action codes look *)
(* at is set.                                                              *)
LEMMA ApprovalMeansUnwatched ==
  ASSUME NEW results, NEW bit \in results, NEW app, NEW iac,
         NEW online \in BOOLEAN,
         Decide(results, app.tac, iac, online, app.taa) = "Tc"
  PROVE  ~ActedOn(bit, app, iac, online)
PROOF
  BY DEF Decide, Matches, ActedOn

(* More bits never turn a decision to go online into an approval.          *)
LEMMA OnlineNeverApproved ==
  ASSUME NEW results, NEW later, results \subseteq later,
         NEW tac, NEW iac, NEW online \in BOOLEAN, NEW profile \in TaaProfiles,
         Decide(results, tac, iac, online, profile) = "Arqc"
  PROVE  Decide(later, tac, iac, online, profile) # "Tc"
PROOF
  BY DEF Decide, Matches, TaaProfiles

(* A set of at most one element is what TheOnly says it is.                *)
LEMMA OnlyOne ==
  ASSUME NEW S, Optional(S), NEW x \in S
  PROVE  TheOnly(S) = x
PROOF
  BY DEF Optional, TheOnly

(* Processing restrictions sets no bits but these.                         *)
LEMMA RestrictionBitsOnly ==
  ASSUME NEW data, NEW p, NEW date
  PROVE  Failed(RestrictionInput(data, p, date)) \subseteq RestrictionBits
PROOF
  BY DEF Failed, RestrictionInput, Bit, RestrictionBits

(* Nor does terminal risk management.                                      *)
LEMMA RiskBitsOnly ==
  ASSUME NEW profile, NEW amount, NEW type, NEW cs, NEW ss
  PROVE  RiskBits(profile, amount, type, cs, ss) \subseteq TrmBits
PROOF
  BY DEF RiskBits, TrmBits, VelocityBits

(* A candidate is an application of the profile that serves the interface, *)
(* under a name that the card lists or, without a list, its own.           *)
LEMMA CandidateShape ==
  ASSUME NEW directory, NEW set, NEW interface,
         NEW c \in Candidates(directory, set, interface)
  PROVE  /\ c.app \in set /\ interface \in c.app.interfaces
         /\ ~IsDirect(directory) => c.name \in Listed(directory)
PROOF
  BY DEF Candidates, DirectCandidates, MatchedCandidates, Serving, Candidate

(* And every one of those is a candidate.                                  *)
LEMMA CandidateListed ==
  ASSUME NEW app \in apps, params.interface \in app.interfaces,
         NEW name \in NamesTried(app), AidMatches(name, app.aid, app.partial)
  PROVE  \E c \in TheCandidates : c.app = app /\ c.name = name
PROOF
<1>1. Candidate(app, name) \in TheCandidates
  BY DEF TheCandidates, NamesTried, Candidates, DirectCandidates, MatchedCandidates,
     Serving
<1>2. Candidate(app, name).app = app /\ Candidate(app, name).name = name
  BY DEF Candidate
<1> QED BY <1>1, <1>2

(* No candidate after another one has a smaller priority.                  *)
LEMMA BeforeMeansPreferred ==
  ASSUME NEW c, NEW d, c.app.priority \in Nat, d.app.priority \in Nat,
         Before(c, d)
  PROVE  ~(d.app.priority < c.app.priority)
PROOF
  BY DEF Before

(* What a running transaction works with has the types it needs.           *)
LEMMA RunTypes ==
  ASSUME TypeOK, Prepared, Running
  PROVE  /\ apps \in ProfileSets \cup {{}} /\ Admitted(apps)
         /\ params \in Transactions /\ params \in Params
         /\ card \in Cards /\ CardShape(card)
         /\ evaluationDate # {} /\ ValidDate(TheOnly(evaluationDate))
PROOF
<1>1. params \in Transactions /\ card \in Cards /\ evaluationDate # {}
  BY DEF Prepared, Running, AfterSelection
<1>2. apps \in ProfileSets \cup {{}} /\ Admitted(apps)
  BY ChecksAssumption DEF TypeOK, Admitted
<1>3. ValidDate(TheOnly(evaluationDate))
  BY <1>1, OnlyOne DEF TypeOK
<1> QED BY <1>1, <1>2, <1>3, ChecksAssumption

-----------------------------------------------------------------------------
(* The calls of the host leave no run in progress.                         *)
HostCall ==
  \/ LoadProfiles \/ SetTransactionParams \/ SetOfflineCounter
  \/ SetRandomSample \/ Reset \/ Restart \/ NextDay

(* The types hold at the start and after every step.                       *)
LEMMA TypesInit == Init => TypeOK
PROOF
  BY ChecksAssumption DEF Init, TypeOK, Optional

LEMMA TypesStep ==
  ASSUME TypeOK, Prepared, [Next]_vars
  PROVE  TypeOK'
PROOF
<1> USE ChecksAssumption DEF TypeOK
<1>1. CASE LoadProfiles
  BY <1>1 DEF LoadProfiles, input, chosen, host, Optional, Date
<1>2. CASE SetTransactionParams
  BY <1>2 DEF SetTransactionParams, Cleared, store, host, Optional
<1>3. CASE SetOfflineCounter
  <2>1. counter' \subseteq Counters /\ Optional(counter')
    BY <1>3 DEF SetOfflineCounter, Counters, Optional
  <2> QED BY <1>3, <2>1 DEF SetOfflineCounter, store, chosen, host
<1>4. CASE SetRandomSample
  BY <1>4 DEF SetRandomSample, store, chosen, host, Optional
<1>5. CASE Reset
  BY <1>5 DEF Reset, Cleared, store, host, Optional
<1>6. CASE Restart
  BY <1>6 DEF Restart, Cleared, host, Optional
<1>7. CASE NextDay
  BY <1>7 DEF NextDay, store, input, chosen, count
<1>8. CASE StartRun
  BY <1>8 DEF StartRun, store, input, host
<1>9. CASE SelectEnvironment
  BY <1>9 DEF SelectEnvironment, Fail, store, input, host
<1>10. CASE CandidateRefused \/ CandidateSelected
  BY <1>10 DEF CandidateRefused, CandidateSelected, Fail, store, input, host
<1>11. CASE MapKernel
  BY <1>11 DEF MapKernel, Fail, store, input, chosen, host
<1>12. CASE EvaluateRestrictions
  <2>1. tvr' \subseteq TvrBits
    BY <1>12, RestrictionBitsOnly DEF EvaluateRestrictions, TvrBits
  <2> QED BY <1>12, <2>1 DEF EvaluateRestrictions, Fail, store, input, chosen, host
<1>13. CASE OtherSteps
  <2>1. tvr' \subseteq TvrBits
    BY <1>13 DEF OtherSteps, TvrBits
  <2> QED BY <1>13, <2>1 DEF OtherSteps, store, input, chosen, host
<1>14. CASE ManageRisk
  <2>1. tvr' \subseteq TvrBits
    BY <1>14, RiskBitsOnly DEF ManageRisk, TvrBits
  <2> QED BY <1>14, <2>1 DEF ManageRisk, Fail, store, input, chosen, host
<1>15. CASE Analyse
  <2>1. stored' \in 0..MaxCount /\ unrequested' \in 0..stored'
    BY <1>15 DEF Analyse, Conclude
  <2> QED BY <1>15, <2>1 DEF Analyse, Conclude, store, input, chosen
<1>16. CASE GenerateAc
  <2>1. stored' \in 0..MaxCount /\ unrequested' \in 0..stored'
    BY <1>16 DEF GenerateAc, CardAnswers, Conclude, Fail, count
  <2>2. tvr' \subseteq TvrBits
    BY <1>16 DEF GenerateAc, TvrBits, OdaBits
  <2>3. /\ step' \in {"S11", "S16", "Se"}
        /\ answer' \in {"none", "Arqc", "Tc", "Aac"}
    BY <1>16 DEF GenerateAc, CardAnswers, Conclude, Fail
  <2> QED BY <1>16, <2>1, <2>2, <2>3 DEF GenerateAc, store, input, chosen
<1>17. CASE UNCHANGED vars
  BY <1>17 DEF vars
<1> QED BY <1>1, <1>2, <1>3, <1>4, <1>5, <1>6, <1>7, <1>8, <1>9, <1>10, <1>11,
        <1>12, <1>13, <1>14, <1>15, <1>16, <1>17 DEF Next

(* A run starts with parameters, a load and a card, and keeps them.        *)
LEMMA PreparedStep ==
  ASSUME TypeOK, Prepared, [Next]_vars
  PROVE  Prepared'
PROOF
<1> USE DEF Prepared, Running, AfterSelection
<1>1. CASE HostCall
  BY <1>1 DEF HostCall, LoadProfiles, SetTransactionParams, SetOfflineCounter,
     SetRandomSample, Reset, Restart, NextDay, Cleared, store, input, chosen, host
<1>2. CASE StartRun
  BY <1>2 DEF StartRun, store, input, host
<1>3. CASE SelectEnvironment
  BY <1>3 DEF SelectEnvironment, Fail, store, input, host
<1>4. CASE CandidateRefused \/ CandidateSelected
  BY <1>4 DEF CandidateRefused, CandidateSelected, Fail, store, input, host
<1>5. CASE MapKernel \/ EvaluateRestrictions \/ OtherSteps \/ ManageRisk
  BY <1>5 DEF MapKernel, EvaluateRestrictions, OtherSteps, ManageRisk, Fail,
     store, input, chosen, host
<1>6. CASE Analyse \/ GenerateAc
  BY <1>6 DEF Analyse, GenerateAc, CardAnswers, Conclude, Fail, store, input, chosen
<1>7. CASE UNCHANGED vars
  BY <1>7 DEF vars, store, input, chosen, host
<1> QED BY <1>1, <1>2, <1>3, <1>4, <1>5, <1>6, <1>7 DEF Next, HostCall

(* What the host holds is what the context was given, until the count      *)
(* changes, which ends the run.                                            *)
LEMMA FreshStep ==
  ASSUME TypeOK, Fresh, [Next]_vars
  PROVE  Fresh'
PROOF
<1> USE DEF Fresh
<1>1. CASE LoadProfiles \/ SetRandomSample \/ NextDay
  BY <1>1 DEF LoadProfiles, SetRandomSample, NextDay, store, input, chosen, host, count
<1>2. CASE SetTransactionParams \/ Reset \/ Restart
  BY <1>2 DEF SetTransactionParams, Reset, Restart, Cleared, store, host
<1>3. CASE SetOfflineCounter
  BY <1>3 DEF SetOfflineCounter, store, chosen, host
<1>4. CASE StartRun \/ SelectEnvironment \/ CandidateRefused \/ CandidateSelected
  BY <1>4 DEF StartRun, SelectEnvironment, CandidateRefused, CandidateSelected,
     Fail, store, input, host
<1>5. CASE MapKernel \/ EvaluateRestrictions \/ OtherSteps \/ ManageRisk
  BY <1>5 DEF MapKernel, EvaluateRestrictions, OtherSteps, ManageRisk, Fail,
     store, input, chosen, host
<1>6. CASE Analyse \/ GenerateAc
  BY <1>6 DEF Analyse, GenerateAc, CardAnswers, Conclude, Fail, store, input, chosen
<1>7. CASE UNCHANGED vars
  BY <1>7 DEF vars, input, host
<1> QED BY <1>1, <1>2, <1>3, <1>4, <1>5, <1>6, <1>7 DEF Next

(* Nothing that was found in a run is left when the host calls.            *)
LEMMA HostCallEndsRun ==
  HostCall => step' \notin {"S2", "S3"} \cup AfterSelection
PROOF
  BY DEF HostCall, LoadProfiles, SetTransactionParams, SetOfflineCounter,
     SetRandomSample, Reset, Restart, NextDay, Running, AfterSelection

(* The walk over the candidates: the one it is at is refused, or chosen.   *)
LEMMA WalkStep ==
  ASSUME Walk, UntriedListed, [Next]_vars
  PROVE  Walk' /\ UntriedListed'
PROOF
<1> USE DEF Walk, UntriedListed
<1>1. CASE HostCall
  BY <1>1, HostCallEndsRun
<1>2. CASE SelectEnvironment
  <2>1. step' = "S3" => untried' = TheCandidates /\ TheCandidates' = TheCandidates
    BY <1>2 DEF SelectEnvironment, Fail, TheCandidates, store, input
  <2> QED BY <2>1
<1>3. CASE CandidateRefused
  <2>1. TheCandidates' = TheCandidates
    BY <1>3 DEF CandidateRefused, TheCandidates, store, input
  <2>2. PICK c \in untried : untried' = untried \ {c} /\ refused' = refused \cup {c.name}
    BY <1>3 DEF CandidateRefused
  <2>3. step = "S3"
    BY <1>3 DEF CandidateRefused
  <2> HIDE DEF TheCandidates
  <2> QED BY <2>1, <2>2, <2>3
<1>4. CASE CandidateSelected
  BY <1>4 DEF CandidateSelected, Fail
<1>5. CASE StartRun \/ MapKernel \/ EvaluateRestrictions \/ OtherSteps
           \/ ManageRisk \/ Analyse \/ GenerateAc
  BY <1>5 DEF StartRun, MapKernel, EvaluateRestrictions, OtherSteps, ManageRisk,
     Analyse, GenerateAc, CardAnswers, Conclude, Fail
<1>6. CASE UNCHANGED vars
  BY <1>6 DEF vars, TheCandidates
<1> QED BY <1>1, <1>2, <1>3, <1>4, <1>5, <1>6 DEF Next, HostCall

(* The chosen application keeps its place to the end of the run.           *)
LEMMA ChoiceStep ==
  ASSUME Walk, UntriedListed, Choice, [Next]_vars
  PROVE  Choice'
PROOF
<1> USE DEF Choice
<1>1. CASE HostCall
  BY <1>1, HostCallEndsRun
<1>2. CASE StartRun \/ SelectEnvironment \/ CandidateRefused
  BY <1>2 DEF StartRun, SelectEnvironment, CandidateRefused, Fail, AfterSelection
<1>3. CASE CandidateSelected
  <2> SUFFICES ASSUME step' \in AfterSelection PROVE Choice'
    OBVIOUS
  <2>1. PICK c \in untried :
          First(c) /\ application' = c /\ AdfNameValid(card.adfs[c.name], c)
    BY <1>3 DEF CandidateSelected, Fail, AfterSelection
  <2>2. TheCandidates' = TheCandidates /\ UNCHANGED <<card, refused>>
    BY <1>3 DEF CandidateSelected, TheCandidates, store, input
  <2>3. step = "S3"
    BY <1>3 DEF CandidateSelected
  <2>4. c \in TheCandidates
    BY <2>1, <2>3 DEF UntriedListed
  <2>5. \A d \in TheCandidates : d.name \in refused \/ d = c \/ Before(c, d)
    BY <2>1, <2>3 DEF Walk, First
  <2> QED BY <2>1, <2>2, <2>4, <2>5
<1>4. CASE MapKernel \/ EvaluateRestrictions \/ OtherSteps \/ ManageRisk
  <2>1. step \in AfterSelection /\ UNCHANGED <<card, refused, application>>
    BY <1>4 DEF MapKernel, EvaluateRestrictions, OtherSteps, ManageRisk,
       AfterSelection, chosen
  <2>2. TheCandidates' = TheCandidates
    BY <1>4 DEF MapKernel, EvaluateRestrictions, OtherSteps, ManageRisk,
       TheCandidates, store, input, chosen
  <2> QED BY <2>1, <2>2
<1>5. CASE Analyse \/ GenerateAc
  <2>1. step \in AfterSelection /\ UNCHANGED <<card, refused, application>>
    BY <1>5 DEF Analyse, GenerateAc, AfterSelection, chosen
  <2>2. TheCandidates' = TheCandidates
    BY <1>5 DEF Analyse, GenerateAc, TheCandidates, store, input, chosen
  <2> QED BY <2>1, <2>2
<1>6. CASE UNCHANGED vars
  BY <1>6 DEF vars, TheCandidates
<1> QED BY <1>1, <1>2, <1>3, <1>4, <1>5, <1>6 DEF Next, HostCall

(* What processing restrictions found stays in the TVR to the decision.    *)
LEMMA RestrictionsStep ==
  ASSUME RestrictionsSeen, [Next]_vars
  PROVE  RestrictionsSeen'
PROOF
<1> USE DEF RestrictionsSeen
<1>1. CASE HostCall
  BY <1>1, HostCallEndsRun DEF AfterSelection
<1>2. CASE StartRun \/ SelectEnvironment \/ CandidateRefused \/ CandidateSelected
           \/ MapKernel \/ Analyse \/ GenerateAc
  BY <1>2 DEF StartRun, SelectEnvironment, CandidateRefused, CandidateSelected,
     MapKernel, Analyse, GenerateAc, CardAnswers, Conclude, Fail
<1>3. CASE EvaluateRestrictions
  BY <1>3 DEF EvaluateRestrictions, Fail, store, input, chosen
<1>4. CASE OtherSteps
  BY <1>4 DEF OtherSteps, store, input, chosen
<1>5. CASE ManageRisk
  BY <1>5 DEF ManageRisk, Fail, store, input, chosen
<1>6. CASE UNCHANGED vars
  BY <1>6 DEF vars
<1> QED BY <1>1, <1>2, <1>3, <1>4, <1>5, <1>6 DEF Next, HostCall

(* So does what terminal risk management found.                            *)
LEMMA RiskStep ==
  ASSUME RiskSeen, [Next]_vars
  PROVE  RiskSeen'
PROOF
<1> USE DEF RiskSeen
<1>1. CASE HostCall
  BY <1>1, HostCallEndsRun DEF AfterSelection
<1>2. CASE StartRun \/ SelectEnvironment \/ CandidateRefused \/ CandidateSelected
           \/ MapKernel \/ EvaluateRestrictions \/ OtherSteps \/ Analyse
           \/ GenerateAc
  BY <1>2 DEF StartRun, SelectEnvironment, CandidateRefused, CandidateSelected,
     MapKernel, EvaluateRestrictions, OtherSteps, Analyse, GenerateAc, CardAnswers,
     Conclude, Fail
<1>3. CASE ManageRisk
  BY <1>3 DEF ManageRisk, Fail, input, chosen
<1>4. CASE UNCHANGED vars
  BY <1>4 DEF vars
<1> QED BY <1>1, <1>2, <1>3, <1>4 DEF Next, HostCall

(* Only terminal action analysis leads to the first GENERATE AC.           *)
LEMMA AskedStep ==
  ASSUME Asked, [Next]_vars
  PROVE  Asked'
PROOF
<1> USE DEF Asked
<1>1. CASE HostCall
  BY <1>1, HostCallEndsRun DEF AfterSelection
<1>2. CASE StartRun \/ SelectEnvironment \/ CandidateRefused \/ CandidateSelected
           \/ MapKernel \/ EvaluateRestrictions \/ OtherSteps \/ ManageRisk
           \/ GenerateAc
  BY <1>2 DEF StartRun, SelectEnvironment, CandidateRefused, CandidateSelected,
     MapKernel, EvaluateRestrictions, OtherSteps, ManageRisk, GenerateAc,
     CardAnswers, Conclude, Fail
<1>3. CASE Analyse
  BY <1>3 DEF Analyse, Conclude, Decision, input, chosen
<1>4. CASE UNCHANGED vars
  BY <1>4 DEF vars, Decision
<1> QED BY <1>1, <1>2, <1>3, <1>4 DEF Next, HostCall

-----------------------------------------------------------------------------
(* The invariant, and the promises that follow from it.                    *)

LEMMA ChecksInvInit == Init => ChecksInv
PROOF
<1>1. ASSUME Init PROVE Prepared /\ UntriedListed /\ Walk /\ Choice
  BY <1>1 DEF Init, Prepared, Running, AfterSelection, UntriedListed, Walk, Choice
<1>2. ASSUME Init PROVE RestrictionsSeen /\ RiskSeen /\ Fresh /\ Asked
  BY <1>2 DEF Init, RestrictionsSeen, RiskSeen, Fresh, Asked
<1> QED BY <1>1, <1>2, TypesInit DEF ChecksInv

LEMMA ChecksInvStep == ChecksInv /\ [Next]_vars => ChecksInv'
PROOF
<1> SUFFICES ASSUME ChecksInv, [Next]_vars PROVE ChecksInv'
  OBVIOUS
<1>1. TypeOK' /\ Prepared' /\ Fresh'
  BY TypesStep, PreparedStep, FreshStep DEF ChecksInv
<1>2. Walk' /\ UntriedListed' /\ Choice'
  BY WalkStep, ChoiceStep DEF ChecksInv
<1>3. RestrictionsSeen' /\ RiskSeen' /\ Asked'
  BY RestrictionsStep, RiskStep, AskedStep DEF ChecksInv
<1> QED BY <1>1, <1>2, <1>3 DEF ChecksInv

(* ChecksInv holds throughout.                                             *)
LEMMA ChecksInvariant == Spec => []ChecksInv
PROOF
<1> QED BY ChecksInvInit, ChecksInvStep, PTL DEF Spec

(* The variables keep their types, whatever the host loads and presents.   *)
THEOREM ChecksTypeCorrect == Spec => []TypeOK
PROOF
<1>1. ChecksInv => TypeOK
  BY DEF ChecksInv
<1> QED BY <1>1, ChecksInvariant, PTL

(* An application is chosen only after selection.                          *)
LEMMA ChosenAfterSelection ==
  ASSUME Prepared, Running, application # NoApplication
  PROVE  step \in AfterSelection
PROOF
  BY DEF Prepared, Running, AfterSelection

(* No application that the card has and the profile prefers is passed over.*)
THEOREM NoneIsPassedOver == Spec => []HigherPriorityRefused
PROOF
<1>1. ChecksInv => HigherPriorityRefused
  <2> SUFFICES ASSUME ChecksInv, Running, application # NoApplication,
                      NEW app \in apps,
                      NEW name \in NamesTried(app),
                      params.interface \in app.interfaces,
                      AidMatches(name, app.aid, app.partial),
                      app.priority < application.app.priority
               PROVE  name \in refused
    BY DEF HigherPriorityRefused
  <2>1. step \in AfterSelection /\ Choice
    BY ChosenAfterSelection DEF ChecksInv
  <2>2. PICK c \in TheCandidates : c.app = app /\ c.name = name
    BY CandidateListed
  <2>3. apps \subseteq Applications
    BY RunTypes DEF ChecksInv, Admitted
  <2>4. application.app \in apps
    BY <2>1, CandidateShape DEF Choice, TheCandidates
  <2>5. app.priority \in Nat /\ application.app.priority \in Nat
    BY <2>3, <2>4 DEF Applications
  <2>6. ~Before(application, c)
    BY <2>2, <2>5, BeforeMeansPreferred
  <2>7. c # application
    BY <2>2, <2>5
  <2> QED BY <2>1, <2>2, <2>6, <2>7 DEF Choice
<1> QED BY <1>1, ChecksInvariant, PTL

(* What is chosen is what the card listed and answered to, and a kernel of *)
(* the profile serves it.                                                  *)
THEOREM ChosenIsListed == Spec => []SelectedAsListed
PROOF
<1>1. ChecksInv => SelectedAsListed
  <2> SUFFICES ASSUME ChecksInv, Running, application # NoApplication
               PROVE  SelectedAsListed
    BY DEF SelectedAsListed
  <2>1. /\ application \in TheCandidates
        /\ AdfNameValid(card.adfs[application.name], application)
    BY ChosenAfterSelection DEF ChecksInv, Choice
  <2>2. /\ application.app \in apps
        /\ params.interface \in application.app.interfaces
        /\ ~IsDirect(card.directory) => application.name \in Listed(card.directory)
    BY <2>1, CandidateShape DEF TheCandidates
  <2>3. application.app.interfaces \subseteq application.app.kernels
    BY <2>2, RunTypes DEF ChecksInv, Admitted
  <2> QED BY <2>1, <2>2, <2>3 DEF SelectedAsListed, AdfNameValid
<1> QED BY <1>1, ChecksInvariant, PTL

(* A run works with the count that the host has stored, never an old one.  *)
THEOREM CounterIsFresh == Spec => []CounterFresh
PROOF
<1>1. ChecksInv => CounterFresh
  BY DEF ChecksInv, Fresh, CounterFresh, Running
<1> QED BY <1>1, ChecksInvariant, PTL

-----------------------------------------------------------------------------
(* The decision.                                                           *)

(* The profile of the application that is decided on.                      *)
LEMMA DecidedProfile ==
  ASSUME ChecksInv, step \in {"S9", "S10"}
  PROVE  /\ application.app \in apps /\ apps \in ProfileSets
         /\ application.app \in Applications /\ TrmProfileValid(application.app.trm)
PROOF
<1>1. Running /\ step \in AfterSelection
  BY DEF Running, AfterSelection
<1>2. application \in TheCandidates
  BY <1>1 DEF ChecksInv, Choice
<1>3. application.app \in apps
  BY <1>2, CandidateShape DEF TheCandidates
<1>4. apps \in ProfileSets \cup {{}} /\ Admitted(apps)
  BY <1>1, RunTypes DEF ChecksInv
<1> QED BY <1>3, <1>4 DEF Admitted

(* The host has been online.                                               *)
CountsAnew == stored' = 0 /\ unrequested' = 0

(* The steps that leave what the host has counted alone.                   *)
LEMMA CountsKept ==
  ASSUME Next, ~Analyse, ~GenerateAc
  PROVE  UNCHANGED count /\ ~Approves
PROOF
  BY DEF Approves, Next, LoadProfiles, SetTransactionParams, Cleared, SetOfflineCounter,
     SetRandomSample, Reset, Restart, NextDay, StartRun, SelectEnvironment, Fail,
     CandidateRefused, CandidateSelected, MapKernel, EvaluateRestrictions,
     OtherSteps, ManageRisk, host, count

(* An approval of terminal action analysis: it is counted, and none of the *)
(* bits the action codes look at is set.                                   *)
KernelApproves ==
  /\ step = "S9" /\ stored' = stored + 1 /\ unrequested' = unrequested
  /\ \A bit \in tvr : ~Watched(bit)

LEMMA AnalysisDecides ==
  ASSUME ChecksInv, Analyse
  PROVE  \/ KernelApproves
         \/ UNCHANGED count /\ ~Approves
PROOF
<1>1. CASE Decision(tvr) = "Tc"
  <2>1. params.onlineCapable \in BOOLEAN
    BY RunTypes DEF ChecksInv, Analyse, Running, Params
  <2>2. \A bit \in tvr : ~Watched(bit)
    BY <1>1, <2>1, ApprovalMeansUnwatched DEF Watched, Decision
  <2> QED BY <1>1, <2>2 DEF Analyse, Conclude, KernelApproves
<1>2. CASE Decision(tvr) # "Tc"
  BY <1>2 DEF Analyse, Conclude, Approves, count
<1> QED BY <1>1, <1>2

(* At the first GENERATE AC only the card can approve: the second decision,*)
(* after a failed CDA, is one on more bits than the first, which was to go *)
(* online.                                                                 *)
LEMMA CardDecides ==
  ASSUME ChecksInv, GenerateAc
  PROVE  \/ CardApproves /\ stored' = stored + 1 /\ unrequested' = unrequested + 1
         \/ ~Approves /\ (UNCHANGED count \/ CountsAnew)
PROOF
<1>1. step = "S10" /\ Decision(tvr) = "Arqc"
  BY DEF GenerateAc, ChecksInv, Asked
<1>2. params.onlineCapable \in BOOLEAN
  BY <1>1, RunTypes DEF ChecksInv, Running, Params
<1>3. application.app.taa \in TaaProfiles
  BY <1>1, DecidedProfile DEF Applications
<1>4. Decision(tvr') # "Tc"
  <2>1. tvr \subseteq tvr'
    BY DEF GenerateAc
  <2> QED BY <1>1, <1>2, <1>3, <2>1, OnlineNeverApproved DEF Decision
<1>5. CASE Fail /\ UNCHANGED <<tvr, answer, count>>
  BY <1>5 DEF Fail, Approves
<1>6. ASSUME NEW cryptogram \in {"Arqc", "Tc", "Aac", "Aar"},
             NEW cdaFailed \in CdaFailures,
             tvr' = tvr \cup (IF cdaFailed THEN {"CdaFailed"} ELSE {}),
             CardAnswers(cryptogram, cdaFailed)
      PROVE  \/ CardApproves /\ stored' = stored + 1 /\ unrequested' = unrequested + 1
             \/ ~Approves /\ (UNCHANGED count \/ CountsAnew)
  <2>1. CASE cryptogram \in {"Arqc", "Aar"}
    BY <1>6, <2>1 DEF CardAnswers, Fail, Approves, count, CountsAnew
  <2>2. CASE cryptogram \in {"Tc", "Aac"} /\ cdaFailed
    <3>1. outcome' # "ApprovedOffline" /\ UNCHANGED count
      BY <1>4, <1>6, <2>2 DEF CardAnswers, Conclude, Fail, count
    <3> QED BY <3>1 DEF Approves
  <2>3. CASE cryptogram = "Tc" /\ ~cdaFailed
    <3>1. "CdaFailed" \notin tvr'
      BY <1>6, <2>3 DEF CdaFailures
    <3>2. answer' = "Tc" /\ stored' = stored + 1 /\ unrequested' = unrequested + 1
      BY <1>6, <2>3 DEF CardAnswers, Conclude
    <3> QED BY <3>1, <3>2 DEF CardApproves
  <2>4. CASE cryptogram = "Aac" /\ ~cdaFailed
    <3>1. outcome' = "DeclinedOffline" /\ stored' = stored
          /\ unrequested' = unrequested + 0
      BY <1>6, <2>4 DEF CardAnswers, Conclude
    <3>2. unrequested \in Nat
      BY ChecksAssumption DEF ChecksInv, TypeOK
    <3> QED BY <3>1, <3>2 DEF Approves, count
  <2> QED BY <1>6, <2>1, <2>2, <2>3, <2>4 DEF CdaFailures
<1> QED BY <1>5, <1>6 DEF GenerateAc

(* The floor limit that is compared is that of the transaction's type, as  *)
(* a profile has one of each at most.                                      *)
LEMMA FloorLimitOfType ==
  ASSUME NEW trm \in TrmProfiles, TrmProfileValid(trm),
         ~(params.amount > FloorLimit(trm, params.type)), params.amount \in Nat
  PROVE  TypeLimitHolds(trm)
PROOF
<1> DEFINE of == {i \in 1..Len(trm.typeLimits) : trm.typeLimits[i].type = params.type}
           first == CHOOSE i \in of : \A j \in of : i <= j
<1>1. FloorLimit(trm, params.type)
      = IF of = {} THEN trm.floor ELSE trm.typeLimits[first].limit
  BY DEF FloorLimit
<1>2. /\ trm.floor \in Nat /\ trm.typeLimits \in Seq(TypeLimits)
  BY DEF TrmProfiles
<1>3. CASE of = {}
  BY <1>1, <1>2, <1>3 DEF TypeLimitHolds
<1>4. CASE of # {}
  <2>1. PICK i \in of : TRUE
    BY <1>4
  <2>2. \A j \in of : i = j
    BY <2>1 DEF TrmProfileValid
  <2>3. i \in Nat
    BY <2>1, <1>2
  <2>4. first \in of /\ first = i
    BY <2>1, <2>2, <2>3
  <2>5. i \in 1..Len(trm.typeLimits) /\ trm.typeLimits[i].type = params.type
    OBVIOUS
  <2>6. trm.typeLimits[i].limit \in Nat
    <3> HIDE DEF of, first
    <3>1. trm.typeLimits[i] \in TypeLimits
      BY <2>5, <1>2
    <3> QED BY <3>1 DEF TypeLimits
  <2>7. FloorLimit(trm, params.type) = trm.typeLimits[i].limit
    BY <1>1, <1>4, <2>4, Zenon
  <2>8. params.amount <= trm.typeLimits[i].limit
    BY <2>6, <2>7
  <2> QED BY <2>5, <2>8 DEF TypeLimitHolds
<1> QED BY <1>3, <1>4

(* The risk inputs of the run speak against an approval that has no bit.   *)
LEMMA ApprovalRiskAcceptable ==
  ASSUME ChecksInv, KernelApproves
  PROVE  RiskAcceptable(application.app.trm)
PROOF
<1> DEFINE trm == application.app.trm
<1>1. trm \in TrmProfiles /\ TrmProfileValid(trm)
  BY DecidedProfile DEF Applications, KernelApproves
<1>2. /\ RiskInputsSuffice(trm, counter, sample)
      /\ RiskBits(trm, params.amount, params.type, counter, sample) \subseteq tvr
      /\ \A c \in counter : c.count = stored
  BY DEF ChecksInv, RiskSeen, Fresh, KernelApproves
<1>3. params.amount \in Nat /\ stored \in Nat /\ sample \subseteq Nat
  <2>1. params \in Params
    BY RunTypes DEF ChecksInv, Running, KernelApproves
  <2>2. stored \in 0..MaxCount /\ sample \subseteq BasisPoints
    BY DEF ChecksInv, TypeOK
  <2>3. MaxCount \in Nat
    BY ChecksAssumption
  <2>4. params.amount \in Nat
    BY <2>1 DEF Params
  <2> QED BY <2>2, <2>3, <2>4 DEF BasisPoints
<1> HIDE DEF trm
<1>4. Watched("FloorLimitExceeded") => TypeLimitHolds(trm)
  <2> SUFFICES ASSUME Watched("FloorLimitExceeded") PROVE TypeLimitHolds(trm)
    OBVIOUS
  <2>1. ~(params.amount > FloorLimit(trm, params.type))
    BY <1>2, Zenon DEF RiskBits, KernelApproves
  <2> QED BY <1>1, <1>3, <2>1, FloorLimitOfType
<1>5. ASSUME NEW limits \in SUBSET Nat, limits \subseteq trm.lower \cup trm.upper,
             ~Exceeds(counter, limits), NEW limit \in limits
      PROVE  stored <= limit
  <2>1. counter # {}
    BY <1>2, <1>5 DEF RiskInputsSuffice, CounterRequired
  <2>2. PICK c \in counter : c.count = stored
    BY <1>2, <2>1
  <2>3. ~(c.count > limit)
    BY <1>5 DEF Exceeds
  <2> QED BY <1>3, <2>2, <2>3
<1>6. trm.lower \in SUBSET Nat /\ trm.upper \in SUBSET Nat /\ trm.percent \in Nat
  BY <1>1 DEF TrmProfiles
<1>7. Watched("LowerOfflineLimit") => \A limit \in trm.lower : stored <= limit
  <2>1. Watched("LowerOfflineLimit") => ~Exceeds(counter, trm.lower)
    BY <1>2, Zenon DEF RiskBits, KernelApproves
  <2> QED BY <1>5, <1>6, <2>1
<1>8. Watched("UpperOfflineLimit") => \A limit \in trm.upper : stored <= limit
  <2>1. Watched("UpperOfflineLimit") => ~Exceeds(counter, trm.upper)
    BY <1>2, Zenon DEF RiskBits, KernelApproves
  <2> QED BY <1>5, <1>6, <2>1
<1>9. Watched("RandomSelection") /\ trm.percent > 0
        => \E s \in sample : s >= trm.percent * 100
  <2>1. Watched("RandomSelection") => ~\E s \in sample : s < trm.percent * 100
    BY <1>2, Zenon DEF RiskBits, KernelApproves
  <2>2. trm.percent > 0 => sample # {}
    BY <1>2 DEF RiskInputsSuffice
  <2>3. trm.percent * 100 \in Nat
    BY <1>6
  <2>4. \A s \in sample : s < trm.percent * 100 \/ s >= trm.percent * 100
    BY <1>3, <2>3
  <2> QED BY <2>1, <2>2, <2>4, Zenon
<1> QED BY <1>4, <1>7, <1>8, <1>9 DEF RiskAcceptable, trm

(* So do the dates and the usage control of the card, for the date of the  *)
(* load.                                                                   *)
LEMMA ApprovalUsable ==
  ASSUME ChecksInv, KernelApproves
  PROVE  ApplicationUsable(card.data, TheOnly(evaluationDate))
PROOF
<1> DEFINE data == card.data
           date == TheOnly(evaluationDate)
           found == RestrictionInput(data, params, date)
<1>1. DataSuffices(data) /\ Failed(found) \subseteq tvr
  BY DEF ChecksInv, RestrictionsSeen, KernelApproves
<1>2. /\ Optional(data.expiration) /\ Optional(data.country) /\ Optional(data.auc)
  BY RunTypes DEF ChecksInv, Running, CardShape, KernelApproves
<1>3. /\ found.date = date /\ found.expiration = TheOnly(data.expiration)
      /\ found.effective = data.effective /\ found.auc = TheOnly(data.auc)
      /\ found.region = (IF TheOnly(data.country) = params.country
                          THEN "domestic" ELSE "international")
      /\ found.service = ServiceOf(params.type)
      /\ found.channel = ChannelOf(params.terminalType)
  BY DEF RestrictionInput
<1> HIDE DEF data, date, found
<1>4. /\ Watched("ExpiredApplication") => ~Earlier(found.expiration, found.date)
      /\ Watched("NotYetEffective")
           => \A e \in found.effective : ~Earlier(found.date, e)
      /\ Watched("ServiceNotAllowed")
           => Allows(found.auc, found.region, found.service, found.channel)
  BY <1>1, Zenon DEF Failed, Bit, KernelApproves
<1>5. \A e \in data.expiration : e = found.expiration
  BY <1>2, <1>3, OnlyOne
<1>6. \A auc \in data.auc, country \in data.country :
        auc = found.auc /\ country = TheOnly(data.country)
  BY <1>2, <1>3, OnlyOne
<1> QED BY <1>3, <1>4, <1>5, <1>6 DEF ApplicationUsable, data, date

(* Whatever the action codes look at was looked at, for the inputs of this *)
(* transaction, before the kernel approves it offline; what it approves    *)
(* beyond that, the card has approved against its request.                 *)
THEOREM OfflineApprovalsWarranted == Spec => OfflineApprovalWarranted
PROOF
<1>1. ChecksInv /\ [Next]_vars
      => [Approves => \/ CardApproves
                      \/ /\ RiskAcceptable(application.app.trm)
                         /\ ApplicationUsable(card.data, TheOnly(evaluationDate))]_vars
  <2> SUFFICES ASSUME ChecksInv, Next, Approves, ~CardApproves
               PROVE  /\ RiskAcceptable(application.app.trm)
                      /\ ApplicationUsable(card.data, TheOnly(evaluationDate))
    OBVIOUS
  <2>1. KernelApproves
    BY CountsKept, AnalysisDecides, CardDecides
  <2> QED BY <2>1, ApprovalRiskAcceptable, ApprovalUsable
<1> QED BY <1>1, ChecksInvariant, PTL DEF Spec, OfflineApprovalWarranted

(* Of the transactions approved offline since the terminal was last online,*)
(* those the kernel decided are at most one more than the upper limit, if  *)
(* every profile has one and acts on it.                                   *)
THEOREM VelocityIsBounded == Spec => []VelocityBounded
PROOF
<1>1. Init => VelocityBounded
  BY DEF Init, VelocityBounded
<1>2. ASSUME ChecksInv, VelocityBounded, [Next]_vars PROVE VelocityBounded'
  <2> SUFFICES ASSUME NEW limit \in 0..MaxCount, UpperLimitKept(limit)
               PROVE  stored' - unrequested' <= limit + 1
    BY DEF VelocityBounded, UpperLimitKept
  <2>1. stored - unrequested <= limit + 1
    BY <1>2 DEF VelocityBounded
  <2>2. stored \in Nat /\ unrequested \in Nat /\ limit \in Nat
    BY <1>2, ChecksAssumption DEF ChecksInv, TypeOK
  <2>3. CASE UNCHANGED count
    BY <2>1, <2>3 DEF count
  <2>4. CASE CountsAnew
    BY <2>2, <2>4 DEF CountsAnew
  <2>5. CASE stored' = stored + 1 /\ unrequested' = unrequested + 1
    BY <2>1, <2>2, <2>5
  <2>6. CASE KernelApproves
    <3>1. step = "S9" /\ stored' = stored + 1 /\ unrequested' = unrequested
      BY <2>6 DEF KernelApproves
    <3>2. RiskAcceptable(application.app.trm)
      BY <1>2, <2>6, ApprovalRiskAcceptable
    <3>3. /\ application.app \in apps /\ apps \in ProfileSets
          /\ application.app.trm \in TrmProfiles
      BY <1>2, <3>1, DecidedProfile DEF Applications
    <3>4. card \in Cards /\ params \in Transactions
      BY <1>2, <3>1, RunTypes DEF ChecksInv, Running
    <3>5. Watched("UpperOfflineLimit")
      BY <3>3, <3>4 DEF UpperLimitKept, Watched
    <3>6. PICK upper \in application.app.trm.upper : upper <= limit
      BY <3>3 DEF UpperLimitKept
    <3>7. stored <= upper
      BY <3>2, <3>5, <3>6 DEF RiskAcceptable
    <3>8. upper \in Nat
      BY <3>3, <3>6 DEF TrmProfiles
    <3> QED BY <2>2, <3>1, <3>6, <3>7, <3>8
  <2>7. CASE UNCHANGED vars
    BY <2>3, <2>7 DEF vars, count
  <2> QED BY <1>2, <2>3, <2>4, <2>5, <2>6, <2>7, CountsKept, AnalysisDecides,
          CardDecides
<1> QED BY <1>1, <1>2, ChecksInvariant, PTL DEF Spec
=============================================================================
