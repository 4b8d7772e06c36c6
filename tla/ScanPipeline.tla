---------------------------- MODULE ScanPipeline ----------------------------
(***************************************************************************)
(* The portal's scans of one tenant: ScanOrchestrator keeps the records in *)
(* memory and takes the discovered repositories one by one through         *)
(* RepositoryTask, whose callbacks move the stages of the record.          *)
(*                                                                         *)
(* Deleting all assets (AssetService.deleteAllAssets) goes on beside it.   *)
(***************************************************************************)
EXTENDS RepositoryTask

CONSTANTS Options,      \* what a scan may be asked to do
          Discoveries   \* what discovery may find: sequences of repositories

VARIABLES
    scans,     \* the records, oldest first
    jobs,      \* where the orchestration of each scan is
    deleting   \* deleteAllAssets has removed the entities, not yet the runs

vars == <<taskVars, scans, jobs, deleting>>

ScanOptions == [scope: {"all", "code", "cloud"}, cloud: BOOLEAN,
                incremental: BOOLEAN, correlate: BOOLEAN, features: BOOLEAN]

ASSUME OptionsAssumption == Options \subseteq ScanOptions
ASSUME DiscoveryAssumption ==
    \A d \in Discoveries : d \in Seq(Repos) /\ \A i, j \in DOMAIN d :
                                                  i # j => d[i] # d[j]

StageStatus == {"pending", "running", "completed", "failed", "skipped"}

\* A record; "gone" is one a restart of the process has forgotten.
ScanRecord == [options: ScanOptions,
               status: {"queued", "running", "completed", "failed", "gone"},
               stages: [StageNames -> StageStatus]]

Job == [at: {"integrations", "discovery", "task", "process", "done"},
        found: Seq(Repos \cup {CloudRepo}),  \* what it was started for
        next: Nat,                           \* position of the current one
        failed: BOOLEAN,                     \* anyRepoFailed
        seen: [Repos -> Commits],            \* history: remote at the start
        wiped: BOOLEAN]                      \* history: assets went meanwhile

TypeOK ==
    /\ TaskTypeOK
    /\ scans \in Seq(ScanRecord)
    /\ jobs \in Seq(Job)
    /\ deleting \in BOOLEAN

Init ==
    /\ TaskInit
    /\ scans = << >>
    /\ jobs = << >>
    /\ deleting = FALSE

-----------------------------------------------------------------------------
(* The record.                                                             *)

CreateScanRecord(o) ==
    [options |-> o, status |-> "queued",
     stages |-> [n \in StageNames |-> "pending"]]

IsActive(s) == scans[s].status \in {"queued", "running"}

GetActiveScan == {s \in DOMAIN scans : IsActive(s)}

UpdateStage(stages, name, status) == [stages EXCEPT ![name] = status]

\* A stage still pending that the scope leaves out is skipped.
MarkQueuedStages(stages, o) ==
    LET enabled == [n \in StageNames |->
                       IF n = "Cloud Discovery"
                       THEN o.scope # "code" /\ o.cloud
                       ELSE o.scope # "cloud"]
    IN [n \in StageNames |-> IF stages[n] = "pending" /\ ~enabled[n]
                             THEN "skipped" ELSE stages[n]]

NoJob == [at |-> "done", found |-> << >>, next |-> 1, failed |-> FALSE,
          seen |-> [r \in Repos |-> 0], wiped |-> FALSE]

End(s, status, stages) ==
    /\ scans' = [scans EXCEPT ![s].status = status, ![s].stages = stages]
    /\ jobs' = [jobs EXCEPT ![s] = NoJob]

\* What a task just reported, shown to the user.
OnStageChange(s) ==
    scans' = [scans EXCEPT ![s].stages =
        [n \in StageNames |->
            IF tasks'[s].report[n] # tasks[s].report[n]
            THEN tasks'[s].report[n] ELSE @[n]]]

\* Mutation: only cloud discovery is looked after.
NotReportedCloudOnly(o, report, stages) ==
    IF o.cloud /\ report["Cloud Discovery"] # "completed"
    THEN UpdateStage(stages, "Cloud Discovery", "skipped") ELSE stages

\* After a task has returned: stages it did not report.
NotReported(o, report, stages) ==
    [n \in StageNames |->
        CASE n = "Cloud Discovery" /\ o.cloud
             /\ report[n] # "completed" -> "skipped"
          [] n = "Correlation" /\ report[n] # "completed" -> "completed"
          [] OTHER -> stages[n]]

\* After a task has thrown: the stages it was in.
FailRunning(stages) ==
    [n \in StageNames |-> IF stages[n] = "running" THEN "failed" ELSE stages[n]]

-----------------------------------------------------------------------------
(* runOrchestrationStream, from await to await.                            *)

\* startScan and streamScan: everything up to the first await.  With a scan
\* active they return that one.
Start(o) ==
    /\ Len(scans) < MaxScans
    /\ GetActiveScan = {}
    /\ scans' = Append(scans,
           [CreateScanRecord(o) EXCEPT
               !.status = "running",
               !.stages["Code Discovery"] =
                   IF o.scope = "cloud" THEN "skipped" ELSE "running"])
    /\ jobs' = Append(jobs, [NoJob EXCEPT !.at = "integrations", !.seen = remote,
                                    !.wiped = deleting])
    /\ UNCHANGED <<taskVars, deleting>>

FetchIntegrations(s) ==
    LET o == scans[s].options IN
    /\ jobs[s].at = "integrations"
    /\ \/ /\ o.scope # "cloud"
          /\ jobs' = [jobs EXCEPT ![s].at = "discovery"]
          /\ UNCHANGED scans
       \/ /\ o.scope = "cloud"
          /\ jobs' = [jobs EXCEPT ![s].at = "task", ![s].found = <<CloudRepo>>]
          /\ scans' = [scans EXCEPT ![s].stages = MarkQueuedStages(@, o)]
       \/ /\ o.scope = "cloud"      \* no cloud integration
          /\ End(s, "failed",
                 UpdateStage(scans[s].stages, "Cloud Discovery", "failed"))
    /\ UNCHANGED <<taskVars, deleting>>

\* The outer catch.
OrchestrationFails(s) ==
    /\ jobs[s].at \in {"integrations", "discovery"}
    /\ End(s, "failed", UpdateStage(scans[s].stages, "Code Discovery", "failed"))
    /\ UNCHANGED <<taskVars, deleting>>

Discover(s) ==
    LET rec == scans[s] IN
    /\ jobs[s].at = "discovery"
    /\ \E found \in Discoveries :
          IF found = << >>
          THEN End(s, "completed",
                   MarkQueuedStages(
                       UpdateStage(rec.stages, "Code Discovery", "completed"),
                       rec.options))
          ELSE /\ jobs' = [jobs EXCEPT ![s].at = "task", ![s].found = found]
               /\ scans' = [scans EXCEPT ![s].stages =
                                MarkQueuedStages(@, rec.options)]
    /\ UNCHANGED <<taskVars, deleting>>

\* The options of a task: the scope is passed on for a cloud-only scan alone,
\* which also turns cloud discovery on and names no domains.
TaskOptionsOf(o) ==
    IF o.scope = "cloud"
    THEN [o EXCEPT !.cloud = TRUE, !.correlate = TRUE, !.features = TRUE]
    ELSE [o EXCEPT !.scope = "all"]

SetUpTask(s) ==
    LET repo == jobs[s].found[jobs[s].next]
        o == TaskOptionsOf(scans[s].options)
    IN
    /\ jobs[s].at = "task"
    /\ jobs' = [jobs EXCEPT ![s].at = "process"]
    /\ SetUp(s, repo, o) \/ SetUpFails(s, repo, o)
    /\ UNCHANGED <<scans, deleting>>

RunTask(s) ==
    /\ jobs[s].at = "process"
    /\ TaskStep(s)
    /\ OnStageChange(s)
    /\ UNCHANGED <<jobs, deleting>>

\* Mutation: a scan that got through its repositories is completed.
FinalStatusCompleted(anyRepoFailed) == "completed"

\* Mutation: a scan with a failed repository is left as it is.
FinalStatusOnSuccess(anyRepoFailed) ==
    IF anyRepoFailed THEN "running" ELSE "completed"

FinalStatus(anyRepoFailed) == IF anyRepoFailed THEN "failed" ELSE "completed"

\* The next repository, or the final status.
NextRepository(s, stages, failed) ==
    IF jobs[s].next = Len(jobs[s].found)
    THEN End(s, FinalStatus(failed), stages)
    ELSE /\ jobs' = [jobs EXCEPT ![s].at = "task", ![s].next = @ + 1,
                                 ![s].failed = failed]
         /\ scans' = [scans EXCEPT ![s].stages = stages]

TaskReturned(s) ==
    LET rec == scans[s] IN
    /\ jobs[s].at = "process"
    /\ tasks[s].at = "returned"
    /\ NextRepository(s, IF rec.options.scope = "cloud" THEN rec.stages
                         ELSE NotReported(rec.options, tasks[s].report,
                                          rec.stages),
                      jobs[s].failed)
    /\ tasks' = [tasks EXCEPT ![s] = NoTask]
    /\ UNCHANGED <<remote, clone, runs, stored, featured, lost, deleting>>

TaskThrew(s) ==
    LET rec == scans[s] IN
    /\ jobs[s].at = "process"
    /\ tasks[s].at = "threw"
    /\ NextRepository(s, IF rec.options.scope = "cloud"
                         THEN UpdateStage(rec.stages, "Cloud Discovery", "failed")
                         ELSE FailRunning(rec.stages),
                      TRUE)
    /\ tasks' = [tasks EXCEPT ![s] = NoTask]
    /\ UNCHANGED <<remote, clone, runs, stored, featured, lost, deleting>>

Step(s) ==
    \/ FetchIntegrations(s) \/ OrchestrationFails(s) \/ Discover(s)
    \/ SetUpTask(s) \/ RunTask(s) \/ TaskReturned(s) \/ TaskThrew(s)

-----------------------------------------------------------------------------
(* What goes on beside the scans.                                          *)

\* deleteAllAssets: the entities first, then the runs.
DeleteEntities ==
    /\ ~deleting
    /\ deleting' = TRUE
    /\ stored' = [r \in Repos |-> 0]
    /\ featured' = [r \in Repos |-> 0]
    /\ jobs' = [s \in DOMAIN jobs |-> IF IsActive(s)
                                      THEN [jobs[s] EXCEPT !.wiped = TRUE]
                                      ELSE jobs[s]]
    /\ UNCHANGED <<remote, clone, runs, tasks, lost, scans>>

\* A task that has read its baseline and not yet created its row brings the
\* baseline back: lost.
DeleteRuns ==
    /\ deleting
    /\ deleting' = FALSE
    /\ runs' = [i \in DOMAIN runs |-> DeletedRun]
    /\ lost' = (lost \/ \E k \in Scans : tasks[k].at = "create"
                                          /\ tasks[k].since # 0)
    /\ UNCHANGED <<remote, clone, stored, featured, tasks, scans, jobs>>

Forgotten ==
    [CreateScanRecord([scope |-> "all", cloud |-> FALSE, incremental |-> FALSE,
                       correlate |-> FALSE, features |-> FALSE])
     EXCEPT !.status = "gone"]

\* The process restarts: records and jobs were in memory, and the clones may
\* have been in a container's file system.
Restart ==
    /\ scans' = [s \in DOMAIN scans |-> Forgotten]
    /\ jobs' = [s \in DOMAIN jobs |-> NoJob]
    /\ tasks' = [k \in Scans |-> NoTask]
    /\ clone' \in {clone, [r \in Repos |-> 0]}
    /\ UNCHANGED <<remote, runs, stored, featured, lost, deleting>>

Environment ==
    \/ (\E r \in Repos : Push(r)) /\ UNCHANGED <<scans, jobs, deleting>>
    \/ DeleteEntities
    \/ DeleteRuns
    \/ Restart

Next ==
    \/ \E o \in Options : Start(o)
    \/ \E s \in DOMAIN scans : Step(s)
    \/ Environment

\* Every await of a scan settles: git, the database and the language model
\* answer or fail.
Fairness == \A s \in Scans : WF_vars(s \in DOMAIN scans /\ Step(s))

Spec == Init /\ [][Next]_vars /\ Fairness

-----------------------------------------------------------------------------
(* Properties.                                                             *)

\* A completed scan shows no stage that failed or still runs, however the
\* tasks of its repositories ended (the callbacks, and the stages set after
\* a task).
CompletedScanIsClean ==
    \A s \in DOMAIN scans : scans[s].status = "completed" =>
        \A n \in StageNames : scans[s].stages[n] \notin {"failed", "running"}

\* The commit the next incremental run starts from is one whose entities are
\* stored, whatever runs failed, were skipped or abandoned, and also when the
\* assets are deleted during a scan.  Excepted: a swallowed write error, and
\* the race DeleteRuns names (LatestCompleted, Saved).
BaselineIsStored ==
    ~lost /\ ~deleting => \A r \in Repos : LatestCompleted(r) <= stored[r]

\* When a scan completes, every repository it discovered is stored as its
\* clone has it, unless a write was lost or the assets were deleted meanwhile
\* (anyRepoFailed, SkipUnchanged).
CompletedScanStoredAll ==
    [][\A s \in DOMAIN scans :
          /\ scans[s].status = "running" /\ scans'[s].status = "completed"
          /\ ~lost /\ ~jobs[s].wiped
          => \A i \in DOMAIN jobs[s].found : jobs[s].found[i] \in Repos =>
                stored[jobs[s].found[i]] = clone[jobs[s].found[i]]]_vars

\* Every scan ends, or the process restarts.
ScanSettles ==
    \A s \in Scans : LET InProgress == s \in DOMAIN scans /\ IsActive(s)
                     IN InProgress ~> ~InProgress

-----------------------------------------------------------------------------
(* What comments say and the code does not do.                             *)

\* scan-types.ts: "'incremental' processes changes since the last completed
\* run".  What was pushed before an incremental scan began is stored when it
\* completes; but ensureRepository never updates an existing clone.
IncrementalSeesChanges ==
    [][\A s \in DOMAIN scans :
          /\ scans[s].status = "running" /\ scans'[s].status = "completed"
          /\ scans[s].options.incremental
          /\ ~lost /\ ~jobs[s].wiped
          => \A i \in DOMAIN jobs[s].found : jobs[s].found[i] \in Repos =>
                stored[jobs[s].found[i]] >= jobs[s].seen[jobs[s].found[i]]]_vars

\* scan-types.ts: "undefined means all domains are run".  When a scan of all
\* domains completes, the features of its clones are stored; but a run that
\* left the features out has moved the baseline, and nothing has changed.
AllDomainsAreRun ==
    [][\A s \in DOMAIN scans :
          /\ scans[s].status = "running" /\ scans'[s].status = "completed"
          /\ scans[s].options.features
          /\ ~lost /\ ~jobs[s].wiped
          => \A i \in DOMAIN jobs[s].found : jobs[s].found[i] \in Repos =>
                featured[jobs[s].found[i]] = clone[jobs[s].found[i]]]_vars

\* scan-orchestrator.ts: "complete Code Discovery and skip remaining stages";
\* markQueuedStages leaves the enabled ones pending, and a task that finds
\* nothing changed never reports Security Analysis.
CompletedScanHasNoPendingStage ==
    \A s \in DOMAIN scans : scans[s].status = "completed" =>
        \A n \in StageNames : scans[s].stages[n] # "pending"

\* indexing-task.types.ts: "'code' runs only code extraction stages (no cloud
\* discovery)"; the scope is not passed on, enableCloudDiscovery is.
CodeScanStaysOffTheCloud ==
    \A s \in DOMAIN scans : scans[s].options.scope = "code" =>
        scans[s].stages["Cloud Discovery"] \in {"pending", "skipped"}

=============================================================================
