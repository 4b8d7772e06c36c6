---------------------------- MODULE ReviewRecord ----------------------------
(***************************************************************************)
(* The security_reviews row and the pure functions the services apply to   *)
(* it.  A row is one JSON payload; only the fields that decide what an     *)
(* operation may do are kept.  A policy is the questions' task rules, the  *)
(* baseline tasks and the Jira automation settings.                        *)
(*                                                                         *)
(* A task definition of a policy becomes a task when deriveTasks gives it  *)
(* a uuid, so a task is <<g, d>>: the g-th derivation, definition d.       *)
(***************************************************************************)
EXTENDS Naturals, FiniteSets

CONSTANTS Questions,   \* the question ids of the questionnaire
          TaskDefs,    \* the task definitions of all policies
          Policies,    \* the contents the policy template can have
          Severity     \* the severity rank of each definition

Thresholds == 1..4     \* low, medium, high, critical

ASSUME PolicyAssumption ==
    Policies \subseteq [rules: [Questions -> SUBSET TaskDefs],
                        baseline: SUBSET TaskDefs,
                        autoCreate: BOOLEAN,
                        threshold: Thresholds]

ASSUME SeverityAssumption == Severity \in [TaskDefs -> Thresholds]

Statuses == {"questionnaire_pending", "questionnaire_answered",
             "tasks_acknowledged", "attested"}

TaskId == Nat \X TaskDefs

Review == [status: Statuses,
           policy: Policies,          \* snapshotTaskRules, snapshotBaselineTasks
           answers: SUBSET Questions, \* the questions answered "yes..."
           tasks: SUBSET TaskId,
           issueKeys: SUBSET TaskId,  \* the tasks that carry a jiraIssueKey
           attestations: SUBSET TaskId]

-----------------------------------------------------------------------------
\* startReview and startWorkItemReview: the row as it is first stored.
StartReview(p) ==
    [status |-> "questionnaire_pending", policy |-> p, answers |-> {},
     tasks |-> {}, issueKeys |-> {}, attestations |-> {}]

\* deriveTasks: the tasks of every rule whose answer starts with "yes", then
\* the baseline tasks, each with a fresh uuid.
DeriveTasks(g, p, yes) ==
    {g} \X ((UNION {p.rules[q] : q \in yes}) \cup p.baseline)

\* meetsThreshold: the severity rank against the export's threshold.
MeetsThreshold(t, threshold) == Severity[t[2]] >= threshold

\* The tasks one export creates issues for: all above the threshold, without
\* those that already carry an issue key when onlyUnhandled is set.
ToExport(r, threshold, onlyUnhandled) ==
    {t \in r.tasks : /\ MeetsThreshold(t, threshold)
                     /\ onlyUnhandled => t \notin r.issueKeys}
=============================================================================
