--------------------------- MODULE RepositoryTask ---------------------------
(***************************************************************************)
(* RepositoryTaskProcessor.processTask: one repository of a scan is taken  *)
(* through its stages, with an IndexingRun row that remembers the commit   *)
(* the next incremental run starts from.                                   *)
(*                                                                         *)
(* Commits of a repository are numbered from 1; 0 stands for none.  Two    *)
(* things a stage writes are told apart: the extracted entities (stored)   *)
(* and the features (featured), each by the last commit they were taken    *)
(* from.  The UI hears of a stage through onStageChange: a task carries    *)
(* what it has reported.                                                   *)
(***************************************************************************)
EXTENDS Naturals, Sequences, FiniteSets, FiniteSetsExt

CONSTANTS Repos,        \* repositories the integrations offer
          CloudRepo,    \* the pseudo repository of a cloud-only task
          MaxCommits,   \* bound: commits of a repository
          MaxScans      \* bound: scans that are started

ASSUME RepoAssumption == CloudRepo \notin Repos
ASSUME CommitAssumption == MaxCommits \in Nat \ {0} /\ MaxScans \in Nat \ {0}

VARIABLES
    remote,    \* the newest commit of each repository at its host
    clone,     \* the commit checked out under cloneDir
    runs,      \* the indexing_runs rows, oldest first
    stored,    \* the commit the stored entities were extracted from
    featured,  \* the commit the stored features were extracted from
    tasks,     \* the task of each scan
    lost       \* history: a write was lost, or assets went during a scan

taskVars == <<remote, clone, runs, stored, featured, tasks, lost>>

Scans == 1..MaxScans
Commits == 0..MaxCommits

\* The stages the UI shows; extract_transform, cloud_discovery,
\* llm_correlation and feature_extraction report to them, in this order.
StageNames == {"Code Discovery", "Cloud Discovery", "Correlation",
               "Security Analysis"}

TaskOptions == [scope: {"all", "cloud"}, cloud: BOOLEAN, incremental: BOOLEAN,
                correlate: BOOLEAN, features: BOOLEAN]

Run == [repo: Repos \cup {CloudRepo}, since: Commits,
        status: {"running", "completed", "failed", "deleted"}]

Task == [at: {"setup", "create", "extract", "cloud", "correlate", "features",
              "finish", "returned", "threw"},
         repo: Repos \cup {CloudRepo}, options: TaskOptions,
         cloud: BOOLEAN,      \* a CloudDiscoveryStage was built
         since: Commits,      \* resolvedSinceCommit
         run: Nat,            \* its row, 0 when none could be created
         empty: BOOLEAN,      \* extraction failed: no entities in memory
         report: [StageNames -> {"none", "running", "completed"}]]

NoTask == [at |-> "setup", repo |-> CloudRepo,
           options |-> [scope |-> "all", cloud |-> FALSE,
                        incremental |-> FALSE, correlate |-> FALSE,
                        features |-> FALSE],
           cloud |-> FALSE, since |-> 0, run |-> 0, empty |-> FALSE,
           report |-> [n \in StageNames |-> "none"]]

TaskTypeOK ==
    /\ remote \in [Repos -> Commits \ {0}]
    /\ clone \in [Repos -> Commits]
    /\ runs \in Seq(Run)
    /\ stored \in [Repos -> Commits]
    /\ featured \in [Repos -> Commits]
    /\ tasks \in [Scans -> Task]
    /\ lost \in BOOLEAN

TaskInit ==
    /\ remote = [r \in Repos |-> 1]
    /\ clone = [r \in Repos |-> 0]
    /\ runs = << >>
    /\ stored = [r \in Repos |-> 0]
    /\ featured = [r \in Repos |-> 0]
    /\ tasks = [k \in Scans |-> NoTask]
    /\ lost = FALSE

-----------------------------------------------------------------------------
(* The indexing_runs rows.                                                 *)

\* sinceCommit of the newest completed run of a repository.
LatestCompleted(r) ==
    LET done == {i \in DOMAIN runs : runs[i].repo = r
                                     /\ runs[i].status = "completed"}
    IN IF done = {} THEN 0 ELSE runs[Max(done)].since

\* A run without one, or with one whose HEAD was unknown, falls back to full.
ResolveRunType(r, incremental) == IF incremental THEN LatestCompleted(r) ELSE 0

\* Mutation: update inserts the row when it is gone, as create does.
SavedUpsert(i, status, since) ==
    IF i = 0 THEN runs
    ELSE [runs EXCEPT ![i] = [repo |-> CHOOSE r \in Repos : TRUE,
                              status |-> status, since |-> since]]

\* What is left of a row that was deleted.
DeletedRun == [repo |-> CloudRepo, since |-> 0, status |-> "deleted"]

\* update throws when the row is gone; every caller swallows what it throws.
Saved(i, status, since) ==
    IF i = 0 \/ runs[i].status = "deleted" THEN runs
    ELSE [runs EXCEPT ![i].status = status, ![i].since = since]

SaveRun(i, status, since) == runs' \in {runs, Saved(i, status, since)}

\* HEAD of the clone; a run is completed without it when git log fails.
HeadCommit(t) == IF t.repo = CloudRepo THEN 0 ELSE clone[t.repo]

-----------------------------------------------------------------------------
(* From one stage to the next.  Nothing can fail in between: saving a      *)
(* checkpoint only writes to a map.                                        *)

Report(t, stage, status) == [t EXCEPT !.report[stage] = status]

EnterFeatures(t) ==
    IF t.options.features
    THEN [Report(t, "Security Analysis", "running") EXCEPT !.at = "features"]
    ELSE [Report(t, "Security Analysis", "completed") EXCEPT !.at = "finish"]

EnterCorrelation(t) ==
    IF t.options.correlate
    THEN [Report(t, "Correlation", "running") EXCEPT !.at = "correlate"]
    ELSE EnterFeatures(Report(t, "Correlation", "completed"))

EnterCloudDiscovery(t) ==
    IF t.cloud
    THEN [Report(t, "Cloud Discovery", "running") EXCEPT !.at = "cloud"]
    ELSE EnterCorrelation(t)

-----------------------------------------------------------------------------
(* processTask, from one await that can fail or wait to the next.          *)

\* Integrations, clone, run type.  An existing clone is used as it is.
SetUp(k, r, o) ==
    /\ \E cloud \in BOOLEAN :   \* a cloud integration is configured
          /\ cloud => o.cloud
          /\ o.scope = "cloud" => cloud
          /\ tasks' = [tasks EXCEPT ![k] =
                 [NoTask EXCEPT !.at = "create", !.repo = r, !.options = o,
                                !.cloud = cloud,
                                !.since = IF r = CloudRepo THEN 0
                                          ELSE ResolveRunType(r, o.incremental)]]
    /\ IF r \in Repos /\ clone[r] = 0
       THEN clone' = [clone EXCEPT ![r] = remote[r]]
       ELSE UNCHANGED clone
    /\ UNCHANGED <<remote, runs, stored, featured, lost>>

\* createIndexingRun; a failing INSERT leaves the task without a row.
CreateIndexingRun(k) ==
    LET t == tasks[k]
        begun == IF t.options.scope = "cloud" THEN EnterCloudDiscovery(t)
                 ELSE [Report(t, "Code Discovery", "running")
                       EXCEPT !.at = "extract"]
    IN
    /\ t.at = "create"
    /\ \/ /\ runs' = Append(runs, [repo |-> t.repo, since |-> t.since,
                                   status |-> "running"])
          /\ tasks' = [tasks EXCEPT ![k] = [begun EXCEPT !.run = Len(runs) + 1]]
       \/ /\ tasks' = [tasks EXCEPT ![k] = begun]
          /\ UNCHANGED runs
    /\ UNCHANGED <<remote, clone, stored, featured, lost>>

\* git diff since..HEAD is empty: the task is over, its run completed.
SkipUnchanged(k) ==
    LET t == tasks[k] IN
    /\ t.at = "extract"
    /\ t.since # 0 /\ t.since = HeadCommit(t)
    /\ tasks' = [tasks EXCEPT ![k] =
           [Report(t, "Code Discovery", "completed") EXCEPT !.at = "returned"]]
    /\ \E head \in {HeadCommit(t), 0} : SaveRun(t.run, "completed", head)
    /\ UNCHANGED <<remote, clone, stored, featured, lost>>

\* Otherwise everything is extracted: the clone has depth one, so git knows
\* no other commit to compare with.  A failed extraction and a failed write
\* end up in the summary's errors, and the stage completes.
ExtractTransform(k) ==
    LET t == tasks[k] IN
    /\ t.at = "extract"
    /\ t.since # HeadCommit(t)
    /\ \E outcome \in {"stored", "not stored", "not extracted"} :
          /\ stored' = IF outcome = "stored"
                       THEN [stored EXCEPT ![t.repo] = HeadCommit(t)]
                       ELSE stored
          /\ lost' = (lost \/ outcome # "stored")
          /\ tasks' = [tasks EXCEPT ![k] =
                 EnterCloudDiscovery(
                     [Report(t, "Code Discovery", "completed")
                      EXCEPT !.empty = (outcome = "not extracted")])]
    /\ UNCHANGED <<remote, clone, runs, featured>>

CloudDiscovery(k) ==
    LET t == Report(tasks[k], "Cloud Discovery", "completed") IN
    /\ t.at = "cloud"
    /\ tasks' = [tasks EXCEPT ![k] =
           IF t.options.scope = "cloud" THEN [t EXCEPT !.at = "finish"]
           ELSE EnterCorrelation(t)]
    /\ UNCHANGED <<remote, clone, runs, stored, featured, lost>>

\* Without a repository entity runLLMCorrelationStage returns at once, and
\* the end of the stage is not reported.
LLMCorrelation(k) ==
    LET t == tasks[k] IN
    /\ t.at = "correlate"
    /\ tasks' = [tasks EXCEPT ![k] =
           EnterFeatures(IF t.empty THEN t
                         ELSE Report(t, "Correlation", "completed"))]
    /\ UNCHANGED <<remote, clone, runs, stored, featured, lost>>

\* A service whose features cannot be extracted is an error of the summary.
FeatureExtraction(k) ==
    LET t == tasks[k] IN
    /\ t.at = "features"
    /\ tasks' = [tasks EXCEPT ![k] =
           [Report(t, "Security Analysis", "completed") EXCEPT !.at = "finish"]]
    /\ \/ /\ ~t.empty
          /\ featured' = [featured EXCEPT ![t.repo] = HeadCommit(t)]
          /\ UNCHANGED lost
       \/ /\ lost' = TRUE
          /\ UNCHANGED featured
    /\ UNCHANGED <<remote, clone, runs, stored>>

\* Data-store consolidation and exploitability swallow their errors and
\* report to no stage of the UI; then the run is completed.
FinishTask(k) ==
    LET t == tasks[k] IN
    /\ t.at = "finish"
    /\ tasks' = [tasks EXCEPT ![k].at = "returned"]
    /\ \E head \in {HeadCommit(t), 0} : SaveRun(t.run, "completed", head)
    /\ UNCHANGED <<remote, clone, stored, featured, lost>>

\* The catch block: the run is failed, the error is thrown on.
TaskFails(k) ==
    LET t == tasks[k] IN
    /\ t.at \in {"extract", "cloud", "correlate"}
    /\ tasks' = [tasks EXCEPT ![k].at = "threw"]
    /\ SaveRun(t.run, "failed", t.since)
    /\ UNCHANGED <<remote, clone, stored, featured, lost>>

\* Before there is a run: no integration, or git clone failed.
SetUpFails(k, r, o) ==
    /\ tasks' = [tasks EXCEPT ![k] = [NoTask EXCEPT !.at = "threw",
                                      !.repo = r, !.options = o]]
    /\ UNCHANGED <<remote, clone, runs, stored, featured, lost>>

TaskStep(k) ==
    \/ CreateIndexingRun(k) \/ SkipUnchanged(k) \/ ExtractTransform(k)
    \/ CloudDiscovery(k) \/ LLMCorrelation(k) \/ FeatureExtraction(k)
    \/ FinishTask(k) \/ TaskFails(k)

\* Somebody pushes to a repository.
Push(r) ==
    /\ remote[r] < MaxCommits
    /\ remote' = [remote EXCEPT ![r] = @ + 1]
    /\ UNCHANGED <<clone, runs, stored, featured, tasks, lost>>

=============================================================================
