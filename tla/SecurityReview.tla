--------------------------- MODULE SecurityReview ---------------------------
(***************************************************************************)
(* One security review: the operations of SecurityReviewService and of     *)
(* SecurityReviewJiraExportService on its row, as the API process runs     *)
(* them.  Every operation reads the row, checks it, awaits, and then calls *)
(* repository.update, which reads the row AGAIN, merges the changed fields *)
(* into that second copy and writes the whole payload back.  Nothing locks *)
(* the row, so operations in flight interleave at each of these awaits.    *)
(*                                                                         *)
(* A slot is one asynchronous activity of the process: a REST or MCP call, *)
(* or the export that setImmediate starts after an attestation.            *)
(***************************************************************************)
EXTENDS ReviewRecord

CONSTANTS Slots,           \* activities that can be in flight at once
          MaxGenerations,  \* bound: how often tasks are derived
          MaxExports       \* bound: how many exports are started

ASSUME BoundAssumption == MaxGenerations \in Nat /\ MaxExports \in Nat

VARIABLES
    review,       \* the stored row
    policy,       \* the active policy template
    pc,           \* what each slot awaits next
    op,           \* the operation each slot performs
    base,         \* the copy repository.update read
    draft,        \* the changed fields the operation will merge
    open,         \* issues an export has requested and not heard of
    background,   \* slots that run a job nobody waits for
    generation,   \* how many times tasks were derived
    derivations,  \* history: the task lists deriveTasks has returned
    issues,       \* the Jira issues that exist, by task and export
    exports       \* how many exports were started

vars == <<review, policy, pc, op, base, draft, open, background,
          generation, derivations, issues, exports>>

Ops == {"none", "answers", "acknowledge", "attest", "export"}

Draft == [answers: SUBSET Questions, tasks: SUBSET TaskId,
          issueKeys: SUBSET TaskId, attestations: SUBSET TaskId, id: Nat]

NoDraft == [answers |-> {}, tasks |-> {}, issueKeys |-> {},
            attestations |-> {}, id |-> 0]

TypeOK ==
    /\ review \in Review
    /\ policy \in Policies
    /\ pc \in [Slots -> {"idle", "update", "write", "issues", "immediate"}]
    /\ op \in [Slots -> Ops]
    /\ base \in [Slots -> Review]
    /\ draft \in [Slots -> Draft]
    /\ open \in [Slots -> SUBSET TaskId]
    /\ background \in SUBSET Slots
    /\ generation \in Nat
    /\ derivations \in SUBSET (SUBSET TaskId)
    /\ issues \in SUBSET [task: TaskId, export: Nat]
    /\ exports \in Nat

\* startReview has stored the row with a snapshot of the policy it read (or of
\* the defaults); the template may have been edited since.
Init ==
    /\ \E p \in Policies : review = StartReview(p)
    /\ policy \in Policies
    /\ pc = [c \in Slots |-> "idle"]
    /\ op = [c \in Slots |-> "none"]
    /\ base = [c \in Slots |-> StartReview(review.policy)]
    /\ draft = [c \in Slots |-> NoDraft]
    /\ open = [c \in Slots |-> {}]
    /\ background = {}
    /\ generation = 0
    /\ derivations = {}
    /\ issues = {}
    /\ exports = 0

-----------------------------------------------------------------------------
(* The operations: requireReview, the checks, and the computation of the   *)
(* fields to change.  A check that fails throws and changes nothing.       *)

Enter(c, o, d) ==
    /\ pc' = [pc EXCEPT ![c] = "update"]
    /\ op' = [op EXCEPT ![c] = o]
    /\ draft' = [draft EXCEPT ![c] = d]
    /\ UNCHANGED <<review, policy, base, open, background, issues, exports>>

\* Mutation: the tasks come from the template, not from the snapshot.
SubmitAnswersLivePolicy(c, answered, yes) ==
    LET tasks == DeriveTasks(generation + 1, policy, yes)
    IN  /\ pc[c] = "idle"
        /\ review.status = "questionnaire_pending"
        /\ Questions \subseteq answered
        /\ generation < MaxGenerations
        /\ generation' = generation + 1
        /\ derivations' = derivations \cup {tasks}
        /\ Enter(c, "answers", [NoDraft EXCEPT !.answers = yes, !.tasks = tasks])

\* Mutation: the status is not checked.
SubmitAnswersAnytime(c, answered, yes) ==
    LET tasks == DeriveTasks(generation + 1, review.policy, yes)
    IN  /\ pc[c] = "idle"
        /\ Questions \subseteq answered
        /\ generation < MaxGenerations
        /\ generation' = generation + 1
        /\ derivations' = derivations \cup {tasks}
        /\ Enter(c, "answers", [NoDraft EXCEPT !.answers = yes, !.tasks = tasks])

SubmitAnswers(c, answered, yes) ==
    LET tasks == DeriveTasks(generation + 1, review.policy, yes)
    IN  /\ pc[c] = "idle"
        /\ review.status = "questionnaire_pending"
        /\ Questions \subseteq answered
        /\ generation < MaxGenerations
        /\ generation' = generation + 1
        /\ derivations' = derivations \cup {tasks}
        /\ Enter(c, "answers", [NoDraft EXCEPT !.answers = yes, !.tasks = tasks])

\* Mutation: only an attested review is refused.
AcknowledgeTasksEarly(c) ==
    /\ pc[c] = "idle"
    /\ review.status # "attested"
    /\ Enter(c, "acknowledge", NoDraft)
    /\ UNCHANGED <<generation, derivations>>

AcknowledgeTasks(c) ==
    /\ pc[c] = "idle"
    /\ review.status = "questionnaire_answered"
    /\ Enter(c, "acknowledge", NoDraft)
    /\ UNCHANGED <<generation, derivations>>

\* Mutation: missing attestations are not looked for.
SubmitAttestationsPartial(c, attested) ==
    /\ pc[c] = "idle"
    /\ review.status = "tasks_acknowledged"
    /\ attested \subseteq review.tasks
    /\ Enter(c, "attest", [NoDraft EXCEPT !.attestations = attested])
    /\ UNCHANGED <<generation, derivations>>

\* Every task must be attested and every attestation must name a task.
SubmitAttestations(c, attested) ==
    /\ pc[c] = "idle"
    /\ review.status = "tasks_acknowledged"
    /\ review.tasks \subseteq attested
    /\ attested \subseteq review.tasks
    /\ Enter(c, "attest", [NoDraft EXCEPT !.attestations = attested])
    /\ UNCHANGED <<generation, derivations>>

\* Mutation: a review without tasks is exported too.
ExportTasksAlways(c, threshold, onlyUnhandled) ==
    /\ exports < MaxExports
    /\ pc' = [pc EXCEPT ![c] = "issues"]
    /\ op' = [op EXCEPT ![c] = "export"]
    /\ draft' = [draft EXCEPT ![c] = [NoDraft EXCEPT !.tasks = review.tasks,
                                                      !.issueKeys = review.issueKeys,
                                                      !.id = exports + 1]]
    /\ open' = [open EXCEPT ![c] = ToExport(review, threshold, onlyUnhandled)]
    /\ exports' = exports + 1
    /\ UNCHANGED <<review, policy, base, generation, derivations, issues>>

\* exportTasks up to Promise.allSettled: the copy of the tasks it will write
\* back is taken here, and all issues are requested at once.
ExportTasks(c, threshold, onlyUnhandled) ==
    /\ review.tasks # {}
    /\ exports < MaxExports
    /\ pc' = [pc EXCEPT ![c] = "issues"]
    /\ op' = [op EXCEPT ![c] = "export"]
    /\ draft' = [draft EXCEPT ![c] = [NoDraft EXCEPT !.tasks = review.tasks,
                                                      !.issueKeys = review.issueKeys,
                                                      !.id = exports + 1]]
    /\ open' = [open EXCEPT ![c] = ToExport(review, threshold, onlyUnhandled)]
    /\ exports' = exports + 1
    /\ UNCHANGED <<review, policy, base, generation, derivations, issues>>

\* POST /security-reviews/:id/export-to-jira
ExportToJira(c, threshold, onlyUnhandled) ==
    /\ pc[c] = "idle"
    /\ ExportTasks(c, threshold, onlyUnhandled)
    /\ UNCHANGED background

\* tryAutoExportToJira, with the policy that is active when it runs.
AutoExport(c) ==
    /\ pc[c] = "immediate"
    /\ policy.autoCreate
    /\ ExportTasks(c, policy.threshold, TRUE)
    /\ UNCHANGED background

Finish(c) ==
    /\ pc' = [pc EXCEPT ![c] = "idle"]
    /\ op' = [op EXCEPT ![c] = "none"]
    /\ base' = [base EXCEPT ![c] = StartReview(review.policy)]
    /\ draft' = [draft EXCEPT ![c] = NoDraft]
    /\ open' = [open EXCEPT ![c] = {}]

SkipAutoExport(c) ==
    /\ pc[c] = "immediate"
    /\ ~policy.autoCreate \/ review.tasks = {}
    /\ Finish(c)
    /\ background' = background \ {c}
    /\ UNCHANGED <<review, policy, generation, derivations, issues, exports>>

-----------------------------------------------------------------------------
(* jiraService.createIssue for each open task, in any order; a rejection   *)
(* leaves the task without a key.  allSettled resumes when none is open.   *)

IssueCreated(c, t) ==
    /\ pc[c] = "issues"
    /\ t \in open[c]
    /\ open' = [open EXCEPT ![c] = @ \ {t}]
    /\ issues' = issues \cup {[task |-> t, export |-> draft[c].id]}
    /\ draft' = [draft EXCEPT ![c].issueKeys = @ \cup {t}]
    /\ UNCHANGED <<review, policy, pc, op, base, background, generation,
                   derivations, exports>>

\* Mutation: a rejected request is recorded as an export.
IssueRejectedRecorded(c, t) ==
    /\ pc[c] = "issues"
    /\ t \in open[c]
    /\ open' = [open EXCEPT ![c] = @ \ {t}]
    /\ draft' = [draft EXCEPT ![c].issueKeys = @ \cup {t}]
    /\ UNCHANGED <<review, policy, pc, op, base, background, generation,
                   derivations, issues, exports>>

IssueRejected(c, t) ==
    /\ pc[c] = "issues"
    /\ t \in open[c]
    /\ open' = [open EXCEPT ![c] = @ \ {t}]
    /\ UNCHANGED <<review, policy, pc, op, base, draft, background, generation,
                   derivations, issues, exports>>

\* Mutation: an unknown continuation.
AllSettledLost(c) ==
    /\ pc[c] = "issues"
    /\ open[c] = {}
    /\ pc' = [pc EXCEPT ![c] = "lost"]
    /\ UNCHANGED <<review, policy, op, base, draft, open, background,
                   generation, derivations, issues, exports>>

AllSettled(c) ==
    /\ pc[c] = "issues"
    /\ open[c] = {}
    /\ pc' = [pc EXCEPT ![c] = "update"]
    /\ UNCHANGED <<review, policy, op, base, draft, open, background,
                   generation, derivations, issues, exports>>

-----------------------------------------------------------------------------
(* repository.update: getById, then one UPDATE of the whole payload.       *)

UpdateRead(c) ==
    /\ pc[c] = "update"
    /\ pc' = [pc EXCEPT ![c] = "write"]
    /\ base' = [base EXCEPT ![c] = review]
    /\ UNCHANGED <<review, policy, op, draft, open, background, generation,
                   derivations, issues, exports>>

\* {...existing, ...updates}
Merge(o, r, d) ==
    CASE o = "answers" ->
           [r EXCEPT !.answers = d.answers, !.tasks = d.tasks,
                     !.issueKeys = {}, !.status = "questionnaire_answered"]
      [] o = "acknowledge" -> [r EXCEPT !.status = "tasks_acknowledged"]
      [] o = "attest" ->
           [r EXCEPT !.attestations = d.attestations, !.status = "attested"]
      [] o = "export" -> [r EXCEPT !.tasks = d.tasks, !.issueKeys = d.issueKeys]

\* An attestation also schedules the automatic export before it returns.
UpdateWrite(c) ==
    /\ pc[c] = "write"
    /\ review' = Merge(op[c], base[c], draft[c])
    /\ op' = [op EXCEPT ![c] = "none"]
    /\ base' = [base EXCEPT ![c] = StartReview(review.policy)]
    /\ draft' = [draft EXCEPT ![c] = NoDraft]
    /\ IF op[c] = "attest"
         THEN /\ pc' = [pc EXCEPT ![c] = "immediate"]
              /\ background' = background \cup {c}
         ELSE /\ pc' = [pc EXCEPT ![c] = "idle"]
              /\ background' = background \ {c}
    /\ UNCHANGED <<policy, open, generation, derivations, issues, exports>>

\* A query fails or the process restarts: the activity is gone, what it has
\* stored or created stays.
Abort(c) ==
    /\ pc[c] # "idle"
    /\ Finish(c)
    /\ background' = background \ {c}
    /\ UNCHANGED <<review, policy, generation, derivations, issues, exports>>

\* An administrator edits the policy template.
EditPolicy(p) ==
    /\ p # policy
    /\ policy' = p
    /\ UNCHANGED <<review, pc, op, base, draft, open, background, generation,
                   derivations, issues, exports>>

-----------------------------------------------------------------------------
Request(c) ==
    \/ \E answered \in SUBSET Questions : \E yes \in SUBSET answered :
          SubmitAnswers(c, answered, yes)
    \/ AcknowledgeTasks(c)
    \/ \E attested \in SUBSET UNION derivations : SubmitAttestations(c, attested)
    \/ \E threshold \in Thresholds, onlyUnhandled \in BOOLEAN :
          ExportToJira(c, threshold, onlyUnhandled)

Step(c) ==
    \/ AutoExport(c)
    \/ SkipAutoExport(c)
    \/ \E t \in open[c] : IssueCreated(c, t) \/ IssueRejected(c, t)
    \/ AllSettled(c)
    \/ UpdateRead(c)
    \/ UpdateWrite(c)

Next ==
    \/ \E c \in Slots : Request(c) \/ Step(c) \/ Abort(c)
    \/ \E p \in Policies : EditPolicy(p)

\* Any number of clients, each free to repeat a call before it is answered.
Spec == Init /\ [][Next]_vars

-----------------------------------------------------------------------------
(* The environment the MCP instructions describe: one agent drives the     *)
(* review and awaits each reply.  Only background jobs overlap its calls.  *)

Quiet == \A c \in Slots : pc[c] = "idle" \/ c \in background

SerialNext ==
    \/ \E c \in Slots : (Quiet /\ Request(c)) \/ Step(c) \/ Abort(c)
    \/ \E p \in Policies : EditPolicy(p)

SerialSpec == Init /\ [][SerialNext]_vars

-----------------------------------------------------------------------------
(* What holds however many calls are in flight.                            *)

\* No interleaving marks a review attested with only part of a task list
\* attested: what is attested is all of a list that deriveTasks returned,
\* although submitAttestations checks one copy and update writes another.
AttestedIsComplete ==
    review.status = "attested" => review.attestations \in derivations

\* The stored tasks are never a mixture of two questionnaires, and follow from
\* the policy snapshot of the review however the template is edited.
TasksFromSnapshot ==
    review.status # "questionnaire_pending" =>
        \E g \in 1..generation, yes \in SUBSET Questions :
            review.tasks = DeriveTasks(g, review.policy, yes)

\* A task that shows a Jira key has an issue, whatever overwrote whatever.
IssueKeysAreReal ==
    \A t \in review.issueKeys : \E i \in issues : i.task = t

\* A stale write can undo progress, but never back to an unanswered review.
NeverBackToPending ==
    [][review.status # "questionnaire_pending"
         => review'.status # "questionnaire_pending"]_vars

-----------------------------------------------------------------------------
(* What holds for one client that awaits its replies.                      *)

\* Attestations exist in an attested review only, and cover exactly the tasks
\* it has: getAttestationSummary then reports no pending task.
AttestedCoversTasks ==
    review.attestations = IF review.status = "attested" THEN review.tasks ELSE {}

\* The review follows the lifecycle, in which each operation is one step.
Lifecycle == INSTANCE ReviewLifecycle
               WITH status <- review.status, tasks <- review.tasks,
                    attestations <- review.attestations
LifecycleSpec == Lifecycle!Spec

\* submitAttestations refuses a review with an unattested task, so a client may
\* take every task of an attested review to be attested.
EveryTaskAttested ==
    review.status = "attested" => review.tasks \subseteq review.attestations
=============================================================================
