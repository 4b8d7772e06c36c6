--------------------------- MODULE WorkItemReview ---------------------------
(***************************************************************************)
(* The autonomous review of a Jira work item: WorkItemReviewRunner, with   *)
(* the controller's retry and manual export.  A run is a background job of *)
(* the API process; it stores its progress in the review's row, one        *)
(* repository.update (read, merge, write) after the other.                 *)
(*                                                                         *)
(* Answers and tasks are named by the run that produced them (0: none).    *)
(***************************************************************************)
EXTENDS Naturals, FiniteSets

CONSTANTS Slots,       \* background jobs that can be in flight at once
          MaxRuns,     \* bound: how many runs are dispatched
          MaxExports   \* bound: how many manual exports are requested

ASSUME BoundAssumption == MaxRuns \in Nat \ {0} /\ MaxExports \in Nat

VARIABLES
    review,    \* the stored row
    at,        \* where each job is
    job,       \* the update or check it makes next
    base,      \* the copy repository.update read
    draft,     \* the tasks it will merge, and how their export went
    run,       \* which run it is; 0 for a manual export
    runs,      \* how many runs were dispatched
    manuals,   \* how many manual exports were requested
    lost       \* history: a run ended without its end being stored

vars == <<review, at, job, base, draft, run, runs, manuals, lost>>

Row == [status: {"questionnaire_pending", "questionnaire_answered",
                 "tasks_acknowledged"},
        agent: {"pending", "running", "completed", "failed"},
        agentError: BOOLEAN,
        answers: Nat,
        tasks: Nat,
        exportError: BOOLEAN]

\* How an export went: no task qualified, all were created, or some failed.
Outcomes == {"nothing", "created", "failed"}

Jobs == {"none", "running", "answers", "acknowledge", "completed", "failed",
         "export", "exportError", "manual"}

\* startWorkItemReview: the row as it is first stored.
StartWorkItemReview ==
    [status |-> "questionnaire_pending", agent |-> "pending",
     agentError |-> FALSE, answers |-> 0, tasks |-> 0, exportError |-> FALSE]

NoDraft == [tasks |-> 0, outcome |-> "nothing"]

TypeOK ==
    /\ review \in Row
    /\ at \in [Slots -> {"idle", "queued", "agent", "check", "export",
                         "read", "write"}]
    /\ job \in [Slots -> Jobs]
    /\ base \in [Slots -> Row]
    /\ draft \in [Slots -> [tasks: Nat, outcome: Outcomes]]
    /\ run \in [Slots -> Nat]
    /\ runs \in Nat
    /\ manuals \in Nat
    /\ lost \in BOOLEAN

\* The controller has stored the row and dispatched the first run.
Init ==
    /\ review = StartWorkItemReview
    /\ \E s \in Slots :
          /\ at = [t \in Slots |-> IF t = s THEN "queued" ELSE "idle"]
          /\ run = [t \in Slots |-> IF t = s THEN 1 ELSE 0]
    /\ job = [t \in Slots |-> "none"]
    /\ base = [t \in Slots |-> StartWorkItemReview]
    /\ draft = [t \in Slots |-> NoDraft]
    /\ runs = 1
    /\ manuals = 0
    /\ lost = FALSE

-----------------------------------------------------------------------------
(* The steps of a job.                                                     *)

Goto(s, where, what) ==
    /\ at' = [at EXCEPT ![s] = where]
    /\ job' = [job EXCEPT ![s] = what]

Leave(s) ==
    /\ Goto(s, "idle", "none")
    /\ base' = [base EXCEPT ![s] = StartWorkItemReview]
    /\ draft' = [draft EXCEPT ![s] = NoDraft]
    /\ run' = [run EXCEPT ![s] = 0]

\* The catch block of run: stamp the failure.
Fail(s) ==
    /\ Goto(s, "read", "failed")
    /\ UNCHANGED <<base, draft, run>>

\* POST /security-reviews/work-item/:id/retry
Retry(s) ==
    /\ at[s] = "idle"
    /\ review.agent # "running"
    /\ runs < MaxRuns
    /\ runs' = runs + 1
    /\ Goto(s, "queued", "none")
    /\ run' = [run EXCEPT ![s] = runs + 1]
    /\ UNCHANGED <<review, base, draft, manuals, lost>>

\* setImmediate has fired: mark the review as running.
Start(s) ==
    /\ at[s] = "queued"
    /\ Goto(s, "read", "running")
    /\ UNCHANGED <<review, base, draft, run, runs, manuals, lost>>

\* The agent returns answers (a failing getIssue is not fatal).
AgentAnswers(s) ==
    /\ at[s] = "agent"
    /\ Goto(s, "check", "answers")
    /\ UNCHANGED <<review, base, draft, run, runs, manuals, lost>>

\* Mutation: no catch block.
AgentFailsUncaught(s) ==
    /\ at[s] = "agent"
    /\ Leave(s)
    /\ UNCHANGED <<review, runs, manuals, lost>>

\* The agent throws, or returns no answers.
AgentFails(s) ==
    /\ at[s] = "agent"
    /\ Fail(s)
    /\ UNCHANGED <<review, runs, manuals, lost>>

\* Mutation: answers are taken in any status.
CheckAnswersAnytime(s) ==
    /\ at[s] = "check" /\ job[s] = "answers"
    /\ Goto(s, "read", "answers")
    /\ draft' = [draft EXCEPT ![s].tasks = run[s]]
    /\ UNCHANGED <<review, base, run, runs, manuals, lost>>

\* submitAnswers: the status check, then the update; agents may omit a question.
CheckAnswers(s) ==
    /\ at[s] = "check" /\ job[s] = "answers"
    /\ \/ /\ review.status = "questionnaire_pending"
          /\ Goto(s, "read", "answers")
          /\ draft' = [draft EXCEPT ![s].tasks = run[s]]
          /\ UNCHANGED <<base, run>>
       \/ Fail(s)
    /\ UNCHANGED <<review, runs, manuals, lost>>

\* acknowledgeTasks
CheckAcknowledge(s) ==
    /\ at[s] = "check" /\ job[s] = "acknowledge"
    /\ IF review.status = "questionnaire_answered"
         THEN Goto(s, "read", "acknowledge") /\ UNCHANGED <<base, draft, run>>
         ELSE Fail(s)
    /\ UNCHANGED <<review, runs, manuals, lost>>

\* Mutation: only the tasks that qualify are written back.
ExportTasksQualifying(s, what, outcome) ==
    /\ Goto(s, "read", what)
    /\ draft' = [draft EXCEPT ![s] = [outcome |-> outcome,
                  tasks |-> IF outcome = "nothing" THEN 0 ELSE review.tasks]]
    /\ UNCHANGED base

\* exportTasks: it copies the tasks, and resumes when every request has ended.
ExportTasks(s, what, outcome) ==
    /\ Goto(s, "read", what)
    /\ draft' = [draft EXCEPT ![s] = [tasks |-> review.tasks, outcome |-> outcome]]
    /\ UNCHANGED base

\* maybeAutoExport, under a policy that does or does not export.
MaybeAutoExport(s) ==
    /\ at[s] = "export"
    /\ \/ /\ review.tasks # 0
          /\ \E outcome \in Outcomes : ExportTasks(s, "export", outcome)
          /\ UNCHANGED run
       \/ Leave(s)
    /\ UNCHANGED <<review, runs, manuals, lost>>

\* POST /security-reviews/:id/export-to-jira
ManualExport(s) ==
    /\ at[s] = "idle"
    /\ review.tasks # 0
    /\ manuals < MaxExports
    /\ manuals' = manuals + 1
    /\ \E outcome \in Outcomes : ExportTasks(s, "manual", outcome)
    /\ UNCHANGED <<review, run, runs, lost>>

-----------------------------------------------------------------------------
(* repository.update                                                       *)

UpdateRead(s) ==
    /\ at[s] = "read"
    /\ at' = [at EXCEPT ![s] = "write"]
    /\ base' = [base EXCEPT ![s] = review]
    /\ UNCHANGED <<review, job, draft, run, runs, manuals, lost>>

\* Mutation: the message of an earlier failure stays.
CompleteOnly(r) == [r EXCEPT !.agent = "completed"]

Complete(r) == [r EXCEPT !.agent = "completed", !.agentError = FALSE]

\* The fields each update changes.  An export clears its error only if it has
\* created an issue and none failed.
Merge(what, r, d) ==
    CASE what = "running" -> [r EXCEPT !.agent = "running"]
      [] what = "answers" ->
           [r EXCEPT !.answers = d.tasks, !.tasks = d.tasks,
                     !.status = "questionnaire_answered"]
      [] what = "acknowledge" -> [r EXCEPT !.status = "tasks_acknowledged"]
      [] what = "completed" -> Complete(r)
      [] what = "failed" -> [r EXCEPT !.agent = "failed", !.agentError = TRUE]
      [] what = "exportError" -> [r EXCEPT !.exportError = TRUE]
      [] what \in {"export", "manual"} ->
           [r EXCEPT !.tasks = d.tasks,
                     !.exportError = CASE d.outcome = "failed"  -> TRUE
                                       [] d.outcome = "created" -> FALSE
                                       [] d.outcome = "nothing" -> @]

\* Mutation: the tasks are not acknowledged for the user.
AfterUnacknowledged(what) ==
    CASE what = "running" -> <<"agent", "none">>
      [] what \in {"answers", "acknowledge"} -> <<"read", "completed">>
      [] what = "completed" -> <<"export", "none">>
      [] OTHER -> <<"idle", "none">>

\* What a run does after each of its updates.
After(what) ==
    CASE what = "running" -> <<"agent", "none">>
      [] what = "answers" -> <<"check", "acknowledge">>
      [] what = "acknowledge" -> <<"read", "completed">>
      [] what = "completed" -> <<"export", "none">>
      [] OTHER -> <<"idle", "none">>

UpdateWrite(s) ==
    /\ at[s] = "write"
    /\ review' = Merge(job[s], base[s], draft[s])
    /\ IF After(job[s])[1] = "idle"
         THEN Leave(s)
         ELSE /\ Goto(s, After(job[s])[1], After(job[s])[2])
              /\ UNCHANGED <<base, draft, run>>
    /\ UNCHANGED <<runs, manuals, lost>>

-----------------------------------------------------------------------------
\* A query fails.  Marking the run and stamping a failure are not retried, a
\* failing export is recorded on the review, and anything else fails the run.
QueryFails(s) ==
    /\ at[s] \in {"check", "export", "read", "write"}
    /\ IF job[s] \in {"running", "failed", "exportError", "manual"} THEN Leave(s)
       ELSE IF job[s] = "export" \/ at[s] = "export"
         THEN Goto(s, "read", "exportError") /\ UNCHANGED <<base, draft, run>>
         ELSE Fail(s)
    /\ lost' = (lost \/ job[s] = "failed")
    /\ UNCHANGED <<review, runs, manuals>>

\* The process restarts: every job is gone, the row stays.
Crash ==
    /\ \E s \in Slots : at[s] # "idle"
    /\ at' = [s \in Slots |-> "idle"]
    /\ job' = [s \in Slots |-> "none"]
    /\ base' = [s \in Slots |-> StartWorkItemReview]
    /\ draft' = [s \in Slots |-> NoDraft]
    /\ run' = [s \in Slots |-> 0]
    /\ lost' = TRUE
    /\ UNCHANGED <<review, runs, manuals>>

Request(s) == Retry(s) \/ ManualExport(s)

Step(s) ==
    \/ Start(s)
    \/ AgentAnswers(s) \/ AgentFails(s)
    \/ CheckAnswers(s) \/ CheckAcknowledge(s)
    \/ MaybeAutoExport(s)
    \/ UpdateRead(s) \/ UpdateWrite(s)

Next ==
    \/ \E s \in Slots : Request(s) \/ Step(s) \/ QueryFails(s)
    \/ Crash

\* Users retry and export whenever the controller lets them.
Spec == Init /\ [][Next]_vars

-----------------------------------------------------------------------------
\* A user who waits for a run to settle before anything else, and for the
\* exports to end before a retry.  Exports may overlap.
Quiet == \A s \in Slots : at[s] = "idle"

Settled ==
    \A s \in Slots : \/ at[s] \in {"idle", "export"}
                     \/ job[s] \in {"export", "exportError", "manual"}

CalmRequest(s) == (Quiet /\ Retry(s)) \/ (Settled /\ ManualExport(s))

CalmNext ==
    \/ \E s \in Slots : CalmRequest(s) \/ Step(s) \/ QueryFails(s)
    \/ Crash

CalmSpec == Init /\ [][CalmNext]_vars /\ \A s \in Slots : WF_vars(Step(s))

-----------------------------------------------------------------------------
(* For a user who waits, through failing queries and restarts.             *)

\* A review that reports a finished agent has its answers, the tasks derived
\* from them, the acknowledgement the runner gives for the user, and no error.
CompletedIsAcknowledged ==
    review.agent = "completed" =>
        /\ review.status = "tasks_acknowledged"
        /\ review.answers # 0
        /\ ~review.agentError

\* The tasks stored are those derived from the answers stored, although an
\* export writes back a copy of the tasks that it took before it awaited Jira.
TasksMatchAnswers == review.tasks = review.answers

\* A retry never replaces answers that reviewers may already have read.
AnswersAreFinal ==
    [][review.answers # 0 => review'.answers = review.answers]_vars

\* A running agent finishes or is marked failed, so that it can be retried:
\* whatever query fails, unless it is the one that stores the failure, or the
\* process restarts.
RunSettles ==
    review.agent = "running" ~> (review.agent \in {"completed", "failed"} \/ lost)

-----------------------------------------------------------------------------
(* What the code says and does not keep.                                   *)

\* The controller refuses a retry because the agent is already running.
OneRunAtATime ==
    Cardinality({s \in Slots : run[s] # 0 /\ at[s] # "queued"}) <= 1

\* A review that claims a running agent, and refuses a retry for it, has one.
RunningIsReal == review.agent = "running" => \E s \in Slots : run[s] # 0

\* agentError: cleared on re-trigger.
ErrorClearedOnRetry == review.agent = "running" => ~review.agentError

\* jiraExportError: cleared on manual retry (one that failed on no task).
ExportErrorClearedOnRetry ==
    [][\A s \in Slots :
          (/\ at[s] = "write" /\ job[s] = "manual" /\ draft[s].outcome # "failed"
           /\ UpdateWrite(s)) => ~review'.exportError]_vars
=============================================================================
