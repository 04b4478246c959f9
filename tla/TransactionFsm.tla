--------------------------- MODULE TransactionFsm ---------------------------
(***************************************************************************)
(* The transaction state machine of the kernel: the states and events of   *)
(* src/fsm.rs and its transition function, as a constant-level table.  The *)
(* driver in src/ffi.rs (modelled from module KernelContext on) calls it    *)
(* for nearly every change of KrnContext::fsm_state.                        *)
(***************************************************************************)

FsmStates ==
  {"S0", "S1", "S2", "S2AidList", "S2SelectAid", "S3", "S4", "S4Next", "S5",
   "S5Cda", "S6", "S7", "S7Retry", "S8", "S9", "S10", "S11", "S12", "S13",
   "S13Script", "S14", "S15", "S15Script", "S16", "Se"}

(* The rows of the transition function, grouped by the state they leave.   *)
FsmRows ==
  [S0          |-> [SetTransactionParams |-> "S1"],
   S1          |-> [CardDetected |-> "S2", CardDetectionTimeout |-> "S1"],
   S2          |-> [PseSelected |-> "S2AidList", PseNotFound |-> "S2AidList"],
   S2AidList   |-> [CandidateAidAvailable |-> "S2SelectAid",
                    NoCandidateLeft |-> "Se"],
   S2SelectAid |-> [AidSelected |-> "S3", AidNotSupported |-> "S2AidList"],
   S3          |-> [GpoTemplate77 |-> "S4", GpoTemplate80 |-> "S5",
                    GpoFailed |-> "Se"],
   S4          |-> [RecordRead |-> "S4Next", EndOfRecords |-> "S5",
                    RecordReadFailed |-> "S5"],
   S4Next      |-> [MoreAflEntries |-> "S4", AflComplete |-> "S5"],
   S5          |-> [OdaSuccess |-> "S6", OdaFailure |-> "S6"],
   S5Cda       |-> [CdaSuccess |-> "S6", CdaFailure |-> "S6"],
   S6          |-> [RestrictionsEvaluated |-> "S7"],
   S7          |-> [CvmSuccess |-> "S8", CvmFailureNoRetry |-> "S8",
                    CvmRetryPossible |-> "S7Retry"],
   S7Retry     |-> [CvmRetryAvailable |-> "S7", CvmRetryExceeded |-> "S8"],
   S8          |-> [TrmEvaluated |-> "S9"],
   S9          |-> [TaaArqc |-> "S10", TaaTc |-> "S16", TaaAac |-> "S16"],
   S10         |-> [GacArqc |-> "S11", GacTc |-> "S16", GacAac |-> "S16",
                    GacCda |-> "S5Cda", CdaFailure |-> "S9", GacFailed |-> "Se"],
   S11         |-> [HostArpc |-> "S12", HostApprovalNoArpc |-> "S13",
                    HostTimeout |-> "Se"],
   S12         |-> [IssuerAuthenticationSuccess |-> "S13",
                    IssuerAuthenticationFailure |-> "S13"],
   S13         |-> [ScriptAvailable |-> "S13Script", NoMoreScripts |-> "S14"],
   S13Script   |-> [ScriptSuccess |-> "S13", ScriptNonCriticalFailure |-> "S13",
                    ScriptCriticalFailure |-> "Se"],
   S14         |-> [Gac2Tc |-> "S15", Gac2Aac |-> "S15",
                    FinalGenerateAcSkipped |-> "S15", Gac2Failed |-> "Se"],
   S15         |-> [ScriptAvailable |-> "S15Script", NoMoreScripts |-> "S16"],
   S15Script   |-> [ScriptSuccess |-> "S15", ScriptNonCriticalFailure |-> "S15",
                    ScriptCriticalFailure |-> "Se"],
   S16         |-> [FinalOutcomeComplete |-> "S0"],
   Se          |-> [ErrorReset |-> "S0"]]

(* Events that lead to Se from every state (the wildcard arms).            *)
FatalEvents == {"CardRemoved", "ApduTimeout", "CallbackFailure"}

(* transition(state, event) is Ok                                          *)
CanApply(state, event) == event \in DOMAIN FsmRows[state] \cup FatalEvents

(* transition(state, event)?.to                                            *)
Target(state, event) ==
  IF event \in DOMAIN FsmRows[state] THEN FsmRows[state][event] ELSE "Se"

(* The pairs of states some row of the table connects.                     *)
FsmEdges ==
  {edge \in FsmStates \X FsmStates :
      \E e \in DOMAIN FsmRows[edge[1]] \cup FatalEvents : Target(edge[1], e) = edge[2]}
=============================================================================
