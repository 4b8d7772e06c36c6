------------------------- MODULE ScanPipeline_proofs -------------------------
(***************************************************************************)
(* Whatever fails, restarts and is deleted, the commit an incremental run  *)
(* starts from is stored, a completed scan shows no stage that failed or   *)
(* runs, and has stored all it found.  For any number of repositories,     *)
(* commits and scans.                                                      *)
(***************************************************************************)
EXTENDS ScanPipeline, FiniteSetTheorems, SequenceTheorems, TLAPS

-----------------------------------------------------------------------------
(* The invariant.                                                          *)

\* A record is active as long as its orchestration goes on.
RecordMatches(s) ==
    IF jobs[s].at = "done" THEN scans[s].status \notin {"queued", "running"}
    ELSE scans[s].status = "running"

RecordsMatch ==
    /\ DOMAIN jobs = DOMAIN scans /\ DOMAIN scans \subseteq Scans
    /\ \A s \in DOMAIN scans : RecordMatches(s)

\* What a scan was started for: the cloud, or repositories.
Aims(s) ==
    /\ jobs[s].at \in {"integrations", "discovery"} =>
          jobs[s].found = << >> /\ jobs[s].next = 1 /\ ~jobs[s].failed
    /\ jobs[s].at = "discovery" => scans[s].options.scope # "cloud"
    /\ jobs[s].at \in {"task", "process"} =>
          /\ jobs[s].next \in DOMAIN jobs[s].found
          /\ IF scans[s].options.scope = "cloud" THEN jobs[s].found = <<CloudRepo>>
             ELSE jobs[s].found \in Seq(Repos)
    /\ jobs[s].at = "process" =>
          /\ tasks[s].repo = jobs[s].found[jobs[s].next]
          /\ tasks[s].options = TaskOptionsOf(scans[s].options)
          /\ tasks[s].at # "setup"

\* A task that has been set up and has not thrown.
AtWork(t) == t.at \notin {"setup", "threw"}

TaskOK(t) ==
    /\ AtWork(t) /\ t.options.scope = "cloud" =>
          t.cloud /\ t.repo = CloudRepo /\ t.at \notin {"extract", "correlate", "features"}
    /\ AtWork(t) /\ t.options.scope # "cloud" => t.repo \in Repos
    /\ AtWork(t) /\ t.repo \in Repos => clone[t.repo] # 0
    /\ t.run # 0 => /\ t.run \in DOMAIN runs
                    /\ runs[t.run].status # "deleted" => runs[t.run].repo = t.repo

\* Commits get newer on their way from the host to the store.
CommitsAdvance ==
    \A r \in Repos :
        /\ stored[r] <= remote[r] /\ clone[r] <= remote[r]
        /\ clone[r] # 0 => stored[r] <= clone[r]

-----------------------------------------------------------------------------
(* Baselines.                                                              *)

\* A row that will be completed unless something fails.
HasRow(t) == t.run # 0 /\ runs[t.run].status # "deleted"

Extracted(t) == t.at \in {"cloud", "correlate", "features", "finish"}

\* What a task may still put into a completed row is stored.
TaskBaseline(t) ==
    t.repo \in Repos =>
        /\ t.at = "create" \/ (t.at = "extract" /\ HasRow(t)) => t.since <= stored[t.repo]
        /\ Extracted(t) /\ HasRow(t) => clone[t.repo] <= stored[t.repo]

BaselinesStored ==
    ~lost /\ ~deleting =>
        /\ \A i \in DOMAIN runs :
              runs[i].status = "completed" /\ runs[i].repo \in Repos =>
                  runs[i].since <= stored[runs[i].repo]
        /\ \A k \in Scans : TaskBaseline(tasks[k])

-----------------------------------------------------------------------------
(* What an undisturbed scan has stored.                                    *)

UpToDate(r) == clone[r] # 0 /\ stored[r] = clone[r]

ScanStored(s) ==
    jobs[s].at # "done" /\ ~lost /\ ~jobs[s].wiped =>
        /\ ~deleting
        /\ ~jobs[s].failed =>
              \A i \in DOMAIN jobs[s].found :
                  i < jobs[s].next /\ jobs[s].found[i] \in Repos => UpToDate(jobs[s].found[i])
        /\ jobs[s].at = "process" /\ tasks[s].repo \in Repos =>
              /\ tasks[s].at \in {"create", "extract"} =>
                    tasks[s].since <= stored[tasks[s].repo]
              /\ Extracted(tasks[s]) \/ tasks[s].at = "returned" =>
                    UpToDate(tasks[s].repo)

-----------------------------------------------------------------------------
(* The stages of a record.                                                 *)

\* What a task has reported, by where it is.
ReportOK(t) ==
    LET r == t.report IN
    /\ t.at \in {"setup", "create"} => \A n \in StageNames : r[n] = "none"
    /\ r["Code Discovery"] = "running" => t.at \in {"extract", "threw"}
    /\ AtWork(t) /\ t.options.scope # "cloud" /\ t.at \notin {"create", "extract"} =>
          r["Code Discovery"] = "completed"
    /\ t.options.scope = "cloud" => \A n \in StageNames \ {"Cloud Discovery"} : r[n] = "none"
    /\ r["Cloud Discovery"] = "running" => t.at \in {"cloud", "threw"}
    /\ r["Correlation"] = "running" /\ AtWork(t) =>
          t.options.scope # "cloud"
    /\ r["Security Analysis"] = "running" => t.at = "features"

\* As long as no repository has failed, a stage runs because a task said so,
\* or is the first one.
StageOK(s, n) ==
    LET stage == scans[s].stages[n]
        atFirst == n = "Code Discovery" /\ scans[s].options.scope # "cloud"
        report == tasks[s].report[n]
    IN
    /\ stage # "failed"
    /\ jobs[s].at # "process" /\ stage = "running" => atFirst
    /\ jobs[s].at = "process" /\ report # "none" => stage = report
    /\ jobs[s].at = "process" /\ report = "none" /\ stage = "running" => atFirst

StagesOK(s) ==
    jobs[s].at # "done" /\ ~jobs[s].failed => \A n \in StageNames : StageOK(s, n)

ScanOK(s) == Aims(s) /\ ScanStored(s) /\ StagesOK(s)

IInv ==
    /\ TypeOK
    /\ RecordsMatch
    /\ CommitsAdvance
    /\ \A k \in Scans : TaskOK(tasks[k]) /\ ReportOK(tasks[k])
    /\ \A s \in DOMAIN scans : ScanOK(s)
    /\ BaselinesStored
    /\ CompletedScanIsClean

-----------------------------------------------------------------------------
(* The newest completed row.                                               *)

\* A finite set of numbers that is not empty has a greatest one: the smallest
\* of its tails begins with it.
LEMMA HasMax ==
    ASSUME NEW S \in SUBSET Nat, IsFiniteSet(S), S # {}
    PROVE  \E x \in S : \A y \in S : x >= y
<1> DEFINE From(i) == {j \in S : j >= i}
           T == {From(i) : i \in S}
<1>1. T \subseteq FiniteSubsetsOf(S)
  <2>1. \A i \in S : From(i) \in SUBSET S
    OBVIOUS
  <2>2. \A i \in S : IsFiniteSet(From(i))
    BY <2>1, FS_Subset
  <2> QED BY <2>1, <2>2 DEF FiniteSubsetsOf
<1>2. T # {}
  OBVIOUS
<1>3. IsWellFoundedOn(StrictSubsetOrdering(S), FiniteSubsetsOf(S))
  BY FS_StrictSubsetOrderingWellFounded
<1>4. \E A \in T : \A B \in T : ~ (<<B, A>> \in StrictSubsetOrdering(S))
  <2> HIDE DEF T
  <2> QED BY <1>1, <1>2, <1>3, WFMin, Zenon
<1>5. PICK i \in S : \A B \in T : ~ (<<B, From(i)>> \in StrictSubsetOrdering(S))
  BY <1>4
<1>6. ASSUME NEW k \in S PROVE i >= k
  <2> SUFFICES ASSUME ~(i >= k) PROVE FALSE
    OBVIOUS
  <2>1. k \in Nat /\ i \in Nat /\ k > i
    OBVIOUS
  <2>2. i \in From(i) /\ i \notin From(k)
    BY <2>1
  <2>3. ASSUME NEW j \in From(k) PROVE j \in From(i)
    <3>1. j \in S /\ j \in Nat /\ j >= k
      OBVIOUS
    <3> QED BY <2>1, <3>1
  <2>4. <<From(k), From(i)>> \in StrictSubsetOrdering(S)
    BY <2>2, <2>3 DEF StrictSubsetOrdering
  <2> QED BY <2>4, <1>5
<1> QED BY <1>6

\* LatestCompleted is 0 or found in a completed row.
LEMMA LatestIsARow ==
    ASSUME runs \in Seq(Run), NEW r
    PROVE  \/ LatestCompleted(r) = 0
           \/ \E i \in DOMAIN runs : /\ runs[i].repo = r /\ runs[i].status = "completed"
                                     /\ LatestCompleted(r) = runs[i].since
<1> DEFINE done == {i \in DOMAIN runs : runs[i].repo = r /\ runs[i].status = "completed"}
<1>1. CASE done = {}
  BY <1>1 DEF LatestCompleted
<1>2. CASE done # {}
  <2>1. done \in SUBSET Nat /\ done \in SUBSET (1..Len(runs)) /\ Len(runs) \in Nat
    OBVIOUS
  <2>2. IsFiniteSet(done)
    BY <2>1, FS_Interval, FS_Subset
  <2>3. \E x \in done : \A y \in done : x >= y
    <3> HIDE DEF done
    <3> QED BY <1>2, <2>1, <2>2, HasMax
  <2>4. Max(done) \in done
    <3> HIDE DEF done
    <3> QED BY <2>3 DEF Max
  <2>5. LatestCompleted(r) = runs[Max(done)].since
    BY <1>2 DEF LatestCompleted
  <2> QED BY <2>4, <2>5
<1> QED BY <1>1, <1>2

\* A baseline is a commit.
LEMMA LatestType ==
    ASSUME runs \in Seq(Run), NEW r
    PROVE  LatestCompleted(r) \in Commits
<1>1. CASE LatestCompleted(r) = 0
  BY <1>1, CommitAssumption DEF Commits
<1>2. ASSUME NEW i \in DOMAIN runs, LatestCompleted(r) = runs[i].since
      PROVE  LatestCompleted(r) \in Commits
  <2>1. runs[i] \in Run
    OBVIOUS
  <2> QED BY <1>2, <2>1 DEF Run
<1> QED BY <1>1, <1>2, LatestIsARow

-----------------------------------------------------------------------------
(* From one stage of a task to the next.                                   *)

\* What stays of a task while it goes on.
SameTask(t, u) ==
    /\ u \in Task
    /\ u.repo = t.repo /\ u.options = t.options /\ u.cloud = t.cloud
    /\ u.since = t.since /\ u.run = t.run

LEMMA ReportResult ==
    ASSUME NEW t \in Task, NEW stage \in StageNames,
           NEW status \in {"none", "running", "completed"}
    PROVE  /\ SameTask(t, Report(t, stage, status))
           /\ Report(t, stage, status).at = t.at
           /\ Report(t, stage, status).empty = t.empty
           /\ Report(t, stage, status).report = [t.report EXCEPT ![stage] = status]
BY DEF Report, SameTask, Task

\* A task may be anywhere and have been set up for anything.
LEMMA TaskAt ==
    ASSUME NEW t \in Task,
           NEW at \in {"setup", "create", "extract", "cloud", "correlate", "features",
                       "finish", "returned", "threw"}
    PROVE  /\ SameTask(t, [t EXCEPT !.at = at])
           /\ [t EXCEPT !.at = at].at = at
           /\ [t EXCEPT !.at = at].empty = t.empty
           /\ [t EXCEPT !.at = at].report = t.report
BY DEF SameTask, Task

LEMMA EnterFeaturesResult ==
    ASSUME NEW t \in Task, NEW u, u = EnterFeatures(t)
    PROVE  /\ SameTask(t, u) /\ u.at \in {"features", "finish"}
           /\ u.report["Security Analysis"] = IF u.at = "features" THEN "running"
                                              ELSE "completed"
           /\ \A n \in StageNames \ {"Security Analysis"} : u.report[n] = t.report[n]
<1>1. t.report \in [StageNames -> {"none", "running", "completed"}]
  BY DEF Task
<1>2. "Security Analysis" \in StageNames
  BY DEF StageNames
<1>3. CASE t.options.features
  <2> DEFINE v == Report(t, "Security Analysis", "running")
  <2>1. /\ SameTask(t, v) /\ v.report = [t.report EXCEPT !["Security Analysis"] = "running"]
    BY <1>2, ReportResult
  <2>2. u = [v EXCEPT !.at = "features"]
    BY <1>3 DEF EnterFeatures
  <2> HIDE DEF v
  <2>3. v \in Task
    BY <2>1 DEF SameTask
  <2>4. SameTask(v, u) /\ u.at = "features" /\ u.report = v.report
    BY <2>2, <2>3 DEF SameTask, Task
  <2> QED BY <1>1, <1>2, <2>1, <2>4 DEF SameTask, StageNames
<1>4. CASE ~ t.options.features
  <2> DEFINE v == Report(t, "Security Analysis", "completed")
  <2>1. /\ SameTask(t, v) /\ v.report = [t.report EXCEPT !["Security Analysis"] = "completed"]
    BY <1>2, ReportResult
  <2>2. u = [v EXCEPT !.at = "finish"]
    BY <1>4 DEF EnterFeatures
  <2> HIDE DEF v
  <2>3. v \in Task
    BY <2>1 DEF SameTask
  <2>4. SameTask(v, u) /\ u.at = "finish" /\ u.report = v.report
    BY <2>2, <2>3 DEF SameTask, Task
  <2> QED BY <1>1, <1>2, <2>1, <2>4 DEF SameTask, StageNames
<1> QED BY <1>3, <1>4

LEMMA EnterCorrelationResult ==
    ASSUME NEW t \in Task, NEW u, u = EnterCorrelation(t)
    PROVE  /\ SameTask(t, u) /\ u.at \in {"correlate", "features", "finish"}
           /\ u.report["Correlation"] \in {"running", "completed"}
           /\ u.at # "features" /\ u.report["Security Analysis"] = "running"
                => t.report["Security Analysis"] = "running"
           /\ u.report["Security Analysis"] = "none" => t.report["Security Analysis"] = "none"
           /\ u.report["Code Discovery"] = t.report["Code Discovery"]
           /\ u.report["Cloud Discovery"] = t.report["Cloud Discovery"]
<1>1. t.report \in [StageNames -> {"none", "running", "completed"}]
  BY DEF Task
<1>2. "Correlation" \in StageNames
  BY DEF StageNames
<1>3. CASE t.options.correlate
  <2> DEFINE v == Report(t, "Correlation", "running")
  <2>1. /\ SameTask(t, v) /\ v.report = [t.report EXCEPT !["Correlation"] = "running"]
    BY <1>2, ReportResult
  <2>2. u = [v EXCEPT !.at = "correlate"]
    BY <1>3 DEF EnterCorrelation
  <2> HIDE DEF v
  <2>3. v \in Task
    BY <2>1 DEF SameTask
  <2>4. SameTask(v, u) /\ u.at = "correlate" /\ u.report = v.report
    BY <2>2, <2>3 DEF SameTask, Task
  <2> QED BY <1>1, <1>2, <2>1, <2>4 DEF SameTask, StageNames
<1>4. CASE ~ t.options.correlate
  <2> DEFINE v == Report(t, "Correlation", "completed")
  <2>1. /\ SameTask(t, v) /\ v.report = [t.report EXCEPT !["Correlation"] = "completed"]
    BY <1>2, ReportResult
  <2>2. u = EnterFeatures(v)
    BY <1>4 DEF EnterCorrelation
  <2> HIDE DEF v
  <2>3. v \in Task
    BY <2>1 DEF SameTask
  <2>4. /\ SameTask(v, u) /\ u.at \in {"features", "finish"}
        /\ u.report["Security Analysis"] = IF u.at = "features" THEN "running"
                                           ELSE "completed"
        /\ \A n \in StageNames \ {"Security Analysis"} : u.report[n] = v.report[n]
    BY <2>2, <2>3, EnterFeaturesResult
  <2> QED BY <1>1, <1>2, <2>1, <2>4, ZenonT(60) DEF SameTask, StageNames
<1> QED BY <1>3, <1>4

LEMMA EnterCloudDiscoveryResult ==
    ASSUME NEW t \in Task, NEW u, u = EnterCloudDiscovery(t)
    PROVE  /\ SameTask(t, u) /\ u.at \in {"cloud", "correlate", "features", "finish"}
           /\ t.cloud => u.at = "cloud"
           /\ u.at # "cloud" => u.report["Cloud Discovery"] = t.report["Cloud Discovery"]
           /\ u.at # "features" /\ u.report["Security Analysis"] = "running"
                => t.report["Security Analysis"] = "running"
           /\ u.report["Code Discovery"] = t.report["Code Discovery"]
<1>1. t.report \in [StageNames -> {"none", "running", "completed"}]
  BY DEF Task
<1>2. "Cloud Discovery" \in StageNames
  BY DEF StageNames
<1>3. CASE t.cloud
  <2> DEFINE v == Report(t, "Cloud Discovery", "running")
  <2>1. /\ SameTask(t, v) /\ v.report = [t.report EXCEPT !["Cloud Discovery"] = "running"]
    BY <1>2, ReportResult
  <2>2. u = [v EXCEPT !.at = "cloud"]
    BY <1>3 DEF EnterCloudDiscovery
  <2> HIDE DEF v
  <2>3. v \in Task
    BY <2>1 DEF SameTask
  <2>4. SameTask(v, u) /\ u.at = "cloud" /\ u.report = v.report
    BY <2>2, <2>3 DEF SameTask, Task
  <2> QED BY <1>1, <1>2, <2>1, <2>4 DEF SameTask, StageNames
<1>4. CASE ~ t.cloud
  <2>1. u = EnterCorrelation(t)
    BY <1>4 DEF EnterCloudDiscovery
  <2>2. /\ SameTask(t, u) /\ u.at \in {"correlate", "features", "finish"}
        /\ u.report["Correlation"] \in {"running", "completed"}
        /\ u.at # "features" /\ u.report["Security Analysis"] = "running"
             => t.report["Security Analysis"] = "running"
        /\ u.report["Security Analysis"] = "none" => t.report["Security Analysis"] = "none"
        /\ u.report["Code Discovery"] = t.report["Code Discovery"]
        /\ u.report["Cloud Discovery"] = t.report["Cloud Discovery"]
    BY <2>1, EnterCorrelationResult
  <2> QED BY <1>4, <2>2 DEF StageNames
<1> QED BY <1>3, <1>4

\* The reports of the other stages stay.
LEMMA EnterCloudDiscoveryReports ==
    ASSUME NEW t \in Task, NEW u, u = EnterCloudDiscovery(t), NEW n \in StageNames
    PROVE  /\ u.report[n] = "none" => t.report[n] = "none"
           /\ t.cloud /\ n # "Cloud Discovery" => u.report[n] = t.report[n]
<1>1. t.report \in [StageNames -> {"none", "running", "completed"}]
  BY DEF Task
<1>2. "Cloud Discovery" \in StageNames
  BY DEF StageNames
<1>3. CASE t.cloud
  <2> DEFINE v == Report(t, "Cloud Discovery", "running")
  <2>1. /\ SameTask(t, v) /\ v.report = [t.report EXCEPT !["Cloud Discovery"] = "running"]
    BY <1>2, ReportResult
  <2>2. u = [v EXCEPT !.at = "cloud"]
    BY <1>3 DEF EnterCloudDiscovery
  <2> HIDE DEF v
  <2>3. v \in Task
    BY <2>1 DEF SameTask
  <2>4. SameTask(v, u) /\ u.at = "cloud" /\ u.report = v.report
    BY <2>2, <2>3 DEF SameTask, Task
  <2> QED BY <1>1, <1>2, <2>1, <2>4, ZenonT(60) DEF SameTask, StageNames
<1>4. CASE ~ t.cloud
  <2>1. u = EnterCorrelation(t)
    BY <1>4 DEF EnterCloudDiscovery
  <2>2. /\ SameTask(t, u) /\ u.at \in {"correlate", "features", "finish"}
        /\ u.report["Correlation"] \in {"running", "completed"}
        /\ u.at # "features" /\ u.report["Security Analysis"] = "running"
             => t.report["Security Analysis"] = "running"
        /\ u.report["Security Analysis"] = "none" => t.report["Security Analysis"] = "none"
        /\ u.report["Code Discovery"] = t.report["Code Discovery"]
        /\ u.report["Cloud Discovery"] = t.report["Cloud Discovery"]
    BY <2>1, EnterCorrelationResult
  <2> QED BY <1>4, <2>2 DEF StageNames
<1> QED BY <1>3, <1>4

-----------------------------------------------------------------------------
(* What a step of a task does to it.                                       *)

\* The task is the same one, further on, and its reports fit where it is.
Goes(t, u) ==
    /\ u \in Task
    /\ u.repo = t.repo /\ u.options = t.options /\ u.cloud = t.cloud
    /\ u.since = t.since
    /\ AtWork(t) /\ t.at # "returned" /\ u.at \notin {"setup", "create"}
    /\ u.options.scope = "cloud" => u.at \notin {"extract", "correlate", "features"}
    /\ ReportOK(u)
    /\ \A n \in StageNames : u.report[n] = "none" => t.report[n] = "none"

\* In what follows a task of a well-formed state takes a step.
CanStep(k) ==
    TaskTypeOK /\ k \in Scans /\ TaskOK(tasks[k]) /\ ReportOK(tasks[k])

LEMMA CreateGoes ==
    ASSUME NEW k, CanStep(k), CreateIndexingRun(k)
    PROVE  /\ tasks' = [tasks EXCEPT ![k] = tasks'[k]]
           /\ Goes(tasks[k], tasks'[k]) /\ tasks[k].at = "create"
           /\ tasks'[k].at \in {"extract", "cloud"}
           /\ tasks'[k].at = "cloud" => tasks[k].options.scope = "cloud"
           /\ \/ runs' = runs /\ tasks'[k].run = tasks[k].run
              \/ /\ runs' = Append(runs, [repo |-> tasks[k].repo, since |-> tasks[k].since,
                                          status |-> "running"])
                 /\ tasks'[k].run = Len(runs) + 1
<1> DEFINE t == tasks[k]
           begun == IF t.options.scope = "cloud" THEN EnterCloudDiscovery(t)
                    ELSE [Report(t, "Code Discovery", "running") EXCEPT !.at = "extract"]
<1>1. t \in Task /\ t.at = "create" /\ AtWork(t) /\ runs \in Seq(Run)
  BY DEF CanStep, TaskTypeOK, CreateIndexingRun, AtWork
<1>2. \A n \in StageNames : t.report[n] = "none"
  BY <1>1 DEF CanStep, ReportOK
<1>3. /\ SameTask(t, begun) /\ ReportOK(begun) /\ begun.at \in {"extract", "cloud"}
      /\ begun.at = "cloud" <=> t.options.scope = "cloud"
      /\ \A n \in StageNames : begun.report[n] = "none" => t.report[n] = "none"
  <2>1. CASE t.options.scope = "cloud"
    <3>1. t.cloud
      BY <1>1, <2>1 DEF CanStep, TaskOK
    <3>2. begun = EnterCloudDiscovery(t)
      BY <2>1
    <3>3. SameTask(t, EnterCloudDiscovery(t)) /\ EnterCloudDiscovery(t).at = "cloud"
      BY <1>1, <3>1, EnterCloudDiscoveryResult
    <3>6. ASSUME NEW n \in StageNames, n # "Cloud Discovery"
          PROVE  EnterCloudDiscovery(t).report[n] = t.report[n]
      BY <1>1, <3>1, <3>6, EnterCloudDiscoveryReports
    <3> HIDE DEF begun
    <3>4. /\ SameTask(t, begun) /\ begun.at = "cloud"
          /\ \A n \in StageNames : n # "Cloud Discovery" => begun.report[n] = t.report[n]
      BY <3>2, <3>3, <3>6
    <3>5. \A n \in StageNames : begun.report[n] = "none" => t.report[n] = "none"
      BY <1>2
    <3> QED BY <1>2, <2>1, <3>3, <3>4, <3>5 DEF SameTask, ReportOK, StageNames, AtWork
  <2>2. CASE t.options.scope # "cloud"
    <3> DEFINE v == Report(t, "Code Discovery", "running")
    <3>1. "Code Discovery" \in StageNames
      BY DEF StageNames
    <3>2. SameTask(t, v) /\ v.report = [t.report EXCEPT !["Code Discovery"] = "running"]
      BY <1>1, <3>1, ReportResult
    <3>3. begun = [v EXCEPT !.at = "extract"]
      BY <2>2
    <3> HIDE DEF v, begun
    <3>4. v \in Task /\ t.report \in [StageNames -> {"none", "running", "completed"}]
      BY <1>1, <3>2 DEF SameTask, Task
    <3>5. SameTask(v, begun) /\ begun.at = "extract" /\ begun.report = v.report
      BY <3>3, <3>4 DEF SameTask, Task
    <3>6. SameTask(t, begun)
      BY <3>2, <3>5 DEF SameTask
    <3> QED BY <1>2, <2>2, <3>2, <3>4, <3>5, <3>6 DEF SameTask, ReportOK, StageNames, AtWork
  <2> QED BY <2>1, <2>2
<1>4. \/ runs' = runs /\ tasks' = [tasks EXCEPT ![k] = begun]
      \/ /\ runs' = Append(runs, [repo |-> t.repo, since |-> t.since, status |-> "running"])
         /\ tasks' = [tasks EXCEPT ![k] = [begun EXCEPT !.run = Len(runs) + 1]]
  BY DEF CreateIndexingRun
<1> HIDE DEF begun
<1>5. k \in DOMAIN tasks
  BY DEF CanStep, TaskTypeOK
<1>6. CASE runs' = runs /\ tasks' = [tasks EXCEPT ![k] = begun]
  <2>1. tasks'[k] = begun
    BY <1>5, <1>6
  <2> QED BY <1>1, <1>3, <1>6, <2>1 DEF Goes, SameTask
<1>7. CASE /\ runs' = Append(runs, [repo |-> t.repo, since |-> t.since, status |-> "running"])
           /\ tasks' = [tasks EXCEPT ![k] = [begun EXCEPT !.run = Len(runs) + 1]]
  <2> DEFINE u == [begun EXCEPT !.run = Len(runs) + 1]
  <2>1. tasks'[k] = u
    BY <1>5, <1>7
  <2>2. begun \in Task /\ Len(runs) + 1 \in Nat
    BY <1>1, <1>3 DEF SameTask
  <2>3. /\ u \in Task /\ u.repo = begun.repo /\ u.options = begun.options
        /\ u.cloud = begun.cloud /\ u.since = begun.since /\ u.at = begun.at
        /\ u.report = begun.report /\ u.run = Len(runs) + 1
    BY <2>2 DEF Task
  <2>4. ReportOK(u)
    BY <1>3, <2>3 DEF ReportOK, AtWork
  <2> HIDE DEF u
  <2>5. Goes(t, u)
    BY <1>1, <1>3, <2>3, <2>4 DEF Goes, SameTask
  <2> QED BY <1>1, <1>3, <1>7, <2>1, <2>3, <2>5
<1> QED BY <1>4, <1>6, <1>7

LEMMA SkipGoes ==
    ASSUME NEW k, CanStep(k), SkipUnchanged(k)
    PROVE  /\ tasks' = [tasks EXCEPT ![k] = tasks'[k]]
           /\ Goes(tasks[k], tasks'[k]) /\ tasks'[k].run = tasks[k].run
           /\ tasks[k].at = "extract" /\ tasks'[k].at = "returned"
<1> DEFINE t == tasks[k]
           v == Report(t, "Code Discovery", "completed")
           u == [v EXCEPT !.at = "returned"]
<1>1. t \in Task /\ t.at = "extract" /\ AtWork(t) /\ k \in DOMAIN tasks
  BY DEF CanStep, TaskTypeOK, SkipUnchanged, AtWork
<1>2. "Code Discovery" \in StageNames
  BY DEF StageNames
<1>3. SameTask(t, v) /\ v.report = [t.report EXCEPT !["Code Discovery"] = "completed"]
  BY <1>1, <1>2, ReportResult
<1>4. tasks' = [tasks EXCEPT ![k] = u]
  BY DEF SkipUnchanged
<1>5. tasks'[k] = u
  BY <1>1, <1>4
<1>6. v \in Task /\ t.report \in [StageNames -> {"none", "running", "completed"}]
  BY <1>1, <1>3 DEF SameTask, Task
<1>7. SameTask(v, u) /\ u.at = "returned" /\ u.report = v.report
  <2> HIDE DEF v
  <2> QED BY <1>6 DEF SameTask, Task
<1> HIDE DEF u, v
<1>8. ReportOK(t) /\ t.options.scope # "cloud"
  BY <1>1 DEF CanStep, TaskOK
<1>9. ReportOK(u)
  BY <1>1, <1>3, <1>6, <1>7, <1>8, ZenonT(60) DEF SameTask, ReportOK, StageNames, AtWork
<1>10. \A n \in StageNames : u.report[n] = "none" => t.report[n] = "none"
  BY <1>3, <1>6, <1>7 DEF StageNames
<1> QED BY <1>1, <1>3, <1>4, <1>5, <1>7, <1>9, <1>10 DEF Goes, SameTask

LEMMA ExtractGoes ==
    ASSUME NEW k, CanStep(k), ExtractTransform(k)
    PROVE  /\ tasks' = [tasks EXCEPT ![k] = tasks'[k]]
           /\ Goes(tasks[k], tasks'[k]) /\ tasks'[k].run = tasks[k].run
           /\ tasks[k].at = "extract"
           /\ tasks'[k].at \in {"cloud", "correlate", "features", "finish"}
<1> DEFINE t == tasks[k]
           w == Report(t, "Code Discovery", "completed")
           v(e) == [w EXCEPT !.empty = e]
<1>1. t \in Task /\ t.at = "extract" /\ AtWork(t) /\ k \in DOMAIN tasks
  BY DEF CanStep, TaskTypeOK, ExtractTransform, AtWork
<1>2. "Code Discovery" \in StageNames
  BY DEF StageNames
<1>3. SameTask(t, w) /\ w.report = [t.report EXCEPT !["Code Discovery"] = "completed"]
  BY <1>1, <1>2, ReportResult
<1>4. PICK e \in BOOLEAN : tasks' = [tasks EXCEPT ![k] = EnterCloudDiscovery(v(e))]
  BY DEF ExtractTransform
<1> DEFINE u == EnterCloudDiscovery(v(e))
<1>5. tasks'[k] = u
  BY <1>1, <1>4
<1>6. w \in Task /\ t.report \in [StageNames -> {"none", "running", "completed"}]
  BY <1>1, <1>3 DEF SameTask, Task
<1>7. SameTask(w, v(e)) /\ v(e).report = w.report
  <2> HIDE DEF w
  <2> QED BY <1>6 DEF SameTask, Task
<1>8. v(e) \in Task
  BY <1>7 DEF SameTask
<1>9. /\ SameTask(v(e), u) /\ u.at \in {"cloud", "correlate", "features", "finish"}
      /\ u.at # "cloud" => u.report["Cloud Discovery"] = v(e).report["Cloud Discovery"]
      /\ u.at # "features" /\ u.report["Security Analysis"] = "running"
            => v(e).report["Security Analysis"] = "running"
      /\ u.report["Code Discovery"] = v(e).report["Code Discovery"]
  <2> HIDE DEF v
  <2> QED BY <1>8, EnterCloudDiscoveryResult
<1>10. ASSUME NEW n \in StageNames
       PROVE  u.report[n] = "none" => v(e).report[n] = "none"
  <2> HIDE DEF v
  <2> QED BY <1>8, <1>10, EnterCloudDiscoveryReports
<1>11. ReportOK(t) /\ t.options.scope # "cloud"
  BY <1>1 DEF CanStep, TaskOK
<1> HIDE DEF u, v, w
<1>12. SameTask(t, u)
  BY <1>3, <1>7, <1>9 DEF SameTask
<1>13. ReportOK(u)
  <2>1. /\ t.report["Cloud Discovery"] # "running"
        /\ t.report["Security Analysis"] # "running"
    BY <1>1, <1>11 DEF ReportOK
  <2>2. /\ v(e).report["Code Discovery"] = "completed"
        /\ v(e).report["Cloud Discovery"] # "running"
        /\ v(e).report["Security Analysis"] # "running"
    BY <1>3, <1>6, <1>7, <2>1 DEF StageNames
  <2>3. /\ u.report["Code Discovery"] = "completed"
        /\ u.report["Cloud Discovery"] = "running" => u.at = "cloud"
        /\ u.report["Security Analysis"] = "running" => u.at = "features"
    BY <1>9, <2>2
  <2>4. u.at \notin {"setup", "create"} /\ u.options.scope # "cloud"
    BY <1>9, <1>11, <1>12 DEF SameTask
  <2> QED BY <2>3, <2>4 DEF ReportOK
<1>14. \A n \in StageNames : u.report[n] = "none" => t.report[n] = "none"
  BY <1>3, <1>6, <1>7, <1>10 DEF StageNames
<1> QED BY <1>1, <1>4, <1>5, <1>9, <1>11, <1>12, <1>13, <1>14 DEF Goes, SameTask, u

LEMMA CloudGoes ==
    ASSUME NEW k, CanStep(k), CloudDiscovery(k)
    PROVE  /\ tasks' = [tasks EXCEPT ![k] = tasks'[k]]
           /\ Goes(tasks[k], tasks'[k]) /\ tasks'[k].run = tasks[k].run
           /\ tasks[k].at = "cloud"
           /\ tasks'[k].at \in {"correlate", "features", "finish"}
<1> DEFINE t == tasks[k]
           v == Report(t, "Cloud Discovery", "completed")
           u == IF v.options.scope = "cloud" THEN [v EXCEPT !.at = "finish"]
                ELSE EnterCorrelation(v)
<1>1. t \in Task /\ k \in DOMAIN tasks
  BY DEF CanStep, TaskTypeOK
<1>2. "Cloud Discovery" \in StageNames
  BY DEF StageNames
<1>3. /\ SameTask(t, v) /\ v.report = [t.report EXCEPT !["Cloud Discovery"] = "completed"]
      /\ v.at = t.at
  BY <1>1, <1>2, ReportResult
<1>4. v.at = "cloud" /\ tasks' = [tasks EXCEPT ![k] = u]
  BY DEF CloudDiscovery
<1>5. tasks'[k] = u /\ t.at = "cloud" /\ AtWork(t)
  BY <1>1, <1>3, <1>4 DEF AtWork
<1>6. v \in Task /\ t.report \in [StageNames -> {"none", "running", "completed"}]
  BY <1>1, <1>3 DEF SameTask, Task
<1>7. /\ t.report["Security Analysis"] # "running"
      /\ t.options.scope = "cloud" =>
            \A n \in StageNames \ {"Cloud Discovery"} : t.report[n] = "none"
      /\ t.options.scope # "cloud" => t.report["Code Discovery"] = "completed"
  BY <1>5 DEF CanStep, ReportOK
<1>8. CASE t.options.scope = "cloud"
  <2>1. u = [v EXCEPT !.at = "finish"]
    BY <1>3, <1>8 DEF SameTask
  <2> HIDE DEF v, u
  <2>2. SameTask(v, u) /\ u.at = "finish" /\ u.report = v.report
    BY <1>6, <2>1 DEF SameTask, Task
  <2>3. SameTask(t, u)
    BY <1>3, <2>2 DEF SameTask
  <2>4. /\ \A n \in StageNames \ {"Cloud Discovery"} : u.report[n] = "none"
        /\ u.report["Cloud Discovery"] = "completed"
    BY <1>3, <1>6, <1>7, <1>8, <2>2 DEF StageNames
  <2>5. ReportOK(u)
    BY <1>8, <2>2, <2>3, <2>4 DEF SameTask, ReportOK, StageNames, AtWork
  <2>6. \A n \in StageNames : u.report[n] = "none" => t.report[n] = "none"
    BY <1>7, <1>8, <2>4
  <2> QED BY <1>4, <1>5, <2>2, <2>3, <2>5, <2>6 DEF Goes, SameTask
<1>9. CASE t.options.scope # "cloud"
  <2>1. u = EnterCorrelation(v)
    BY <1>3, <1>9 DEF SameTask
  <2> HIDE DEF v, u
  <2>2. /\ SameTask(v, u) /\ u.at \in {"correlate", "features", "finish"}
        /\ u.report["Correlation"] \in {"running", "completed"}
        /\ u.at # "features" /\ u.report["Security Analysis"] = "running"
             => v.report["Security Analysis"] = "running"
        /\ u.report["Security Analysis"] = "none" => v.report["Security Analysis"] = "none"
        /\ u.report["Code Discovery"] = v.report["Code Discovery"]
        /\ u.report["Cloud Discovery"] = v.report["Cloud Discovery"]
    BY <1>6, <2>1, EnterCorrelationResult
  <2>3. SameTask(t, u)
    BY <1>3, <2>2 DEF SameTask
  <2>4. /\ v.report["Code Discovery"] = "completed"
        /\ v.report["Cloud Discovery"] = "completed"
        /\ v.report["Security Analysis"] = t.report["Security Analysis"]
    BY <1>3, <1>6, <1>7, <1>9 DEF StageNames
  <2>5. /\ u.report["Code Discovery"] = "completed"
        /\ u.report["Cloud Discovery"] = "completed"
        /\ u.report["Security Analysis"] = "running" => u.at = "features"
    BY <1>7, <2>2, <2>4 DEF StageNames
  <2>6. ReportOK(u)
    BY <1>9, <2>2, <2>3, <2>5 DEF SameTask, ReportOK
  <2>7. \A n \in StageNames : u.report[n] = "none" => t.report[n] = "none"
    BY <2>2, <2>4, <2>5 DEF StageNames
  <2> QED BY <1>4, <1>5, <1>9, <2>2, <2>3, <2>6, <2>7 DEF Goes, SameTask
<1> QED BY <1>8, <1>9

LEMMA CorrelationGoes ==
    ASSUME NEW k, CanStep(k), LLMCorrelation(k)
    PROVE  /\ tasks' = [tasks EXCEPT ![k] = tasks'[k]]
           /\ Goes(tasks[k], tasks'[k]) /\ tasks'[k].run = tasks[k].run
           /\ tasks[k].at = "correlate" /\ tasks'[k].at \in {"features", "finish"}
<1> DEFINE t == tasks[k]
           v == IF t.empty THEN t ELSE Report(t, "Correlation", "completed")
           u == EnterFeatures(v)
<1>1. t \in Task /\ k \in DOMAIN tasks /\ t.at = "correlate" /\ AtWork(t)
  BY DEF CanStep, TaskTypeOK, LLMCorrelation, AtWork
<1>2. "Correlation" \in StageNames
  BY DEF StageNames
<1>3. tasks' = [tasks EXCEPT ![k] = u] /\ tasks'[k] = u
  BY <1>1 DEF LLMCorrelation
<1>4. t.report \in [StageNames -> {"none", "running", "completed"}]
  BY <1>1 DEF Task
<1>5. /\ SameTask(t, v)
      /\ \A n \in StageNames : n # "Correlation" => v.report[n] = t.report[n]
      /\ v.report["Correlation"] = "none" => t.report["Correlation"] = "none"
  <2>1. CASE t.empty
    BY <1>1, <2>1 DEF SameTask
  <2>2. CASE ~ t.empty
    <3>1. v = Report(t, "Correlation", "completed")
      BY <2>2
    <3> HIDE DEF v
    <3>2. SameTask(t, v) /\ v.report = [t.report EXCEPT !["Correlation"] = "completed"]
      BY <1>1, <1>2, <3>1, ReportResult
    <3> QED BY <1>2, <1>4, <3>2
  <2> QED BY <2>1, <2>2
<1> HIDE DEF v
<1>6. v \in Task
  BY <1>5 DEF SameTask
<1>7. /\ SameTask(v, u) /\ u.at \in {"features", "finish"}
      /\ u.report["Security Analysis"] = IF u.at = "features" THEN "running" ELSE "completed"
      /\ \A n \in StageNames \ {"Security Analysis"} : u.report[n] = v.report[n]
  BY <1>6, EnterFeaturesResult
<1> HIDE DEF u
<1>8. SameTask(t, u)
  BY <1>5, <1>7 DEF SameTask
<1>9. /\ t.options.scope # "cloud" /\ t.report["Code Discovery"] = "completed"
      /\ t.report["Cloud Discovery"] # "running"
  BY <1>1 DEF CanStep, TaskOK, ReportOK
<1>10. /\ u.report["Code Discovery"] = "completed"
       /\ u.report["Cloud Discovery"] = t.report["Cloud Discovery"]
       /\ u.report["Security Analysis"] = "running" => u.at = "features"
  BY <1>5, <1>7, <1>9 DEF StageNames
<1>11. ReportOK(u)
  BY <1>7, <1>8, <1>9, <1>10 DEF SameTask, ReportOK
<1>12. \A n \in StageNames : u.report[n] = "none" => t.report[n] = "none"
  BY <1>5, <1>7 DEF StageNames
<1> QED BY <1>1, <1>3, <1>7, <1>8, <1>9, <1>11, <1>12 DEF Goes, SameTask

LEMMA FeaturesGoes ==
    ASSUME NEW k, CanStep(k), FeatureExtraction(k)
    PROVE  /\ tasks' = [tasks EXCEPT ![k] = tasks'[k]]
           /\ Goes(tasks[k], tasks'[k]) /\ tasks'[k].run = tasks[k].run
           /\ tasks[k].at = "features" /\ tasks'[k].at = "finish"
<1> DEFINE t == tasks[k]
           v == Report(t, "Security Analysis", "completed")
           u == [v EXCEPT !.at = "finish"]
<1>1. t \in Task /\ t.at = "features" /\ AtWork(t) /\ k \in DOMAIN tasks
  BY DEF CanStep, TaskTypeOK, FeatureExtraction, AtWork
<1>2. "Security Analysis" \in StageNames
  BY DEF StageNames
<1>3. SameTask(t, v) /\ v.report = [t.report EXCEPT !["Security Analysis"] = "completed"]
  BY <1>1, <1>2, ReportResult
<1>4. tasks' = [tasks EXCEPT ![k] = u]
  BY DEF FeatureExtraction
<1>5. tasks'[k] = u
  BY <1>1, <1>4
<1>6. v \in Task /\ t.report \in [StageNames -> {"none", "running", "completed"}]
  BY <1>1, <1>3 DEF SameTask, Task
<1>7. SameTask(v, u) /\ u.at = "finish" /\ u.report = v.report
  <2> HIDE DEF v
  <2> QED BY <1>6 DEF SameTask, Task
<1> HIDE DEF u, v
<1>8. ReportOK(t) /\ t.options.scope # "cloud"
  BY <1>1 DEF CanStep, TaskOK
<1>9. ReportOK(u)
  BY <1>1, <1>3, <1>6, <1>7, <1>8, ZenonT(60) DEF SameTask, ReportOK, StageNames, AtWork
<1>10. \A n \in StageNames : u.report[n] = "none" => t.report[n] = "none"
  BY <1>3, <1>6, <1>7 DEF StageNames
<1> QED BY <1>1, <1>3, <1>4, <1>5, <1>7, <1>8, <1>9, <1>10 DEF Goes, SameTask

LEMMA FinishGoes ==
    ASSUME NEW k, CanStep(k), FinishTask(k)
    PROVE  /\ tasks' = [tasks EXCEPT ![k] = tasks'[k]]
           /\ Goes(tasks[k], tasks'[k]) /\ tasks'[k].run = tasks[k].run
           /\ tasks[k].at = "finish" /\ tasks'[k].at = "returned"
<1> DEFINE t == tasks[k]
           u == [t EXCEPT !.at = "returned"]
<1>1. t \in Task /\ t.at = "finish" /\ AtWork(t) /\ k \in DOMAIN tasks
  BY DEF CanStep, TaskTypeOK, FinishTask, AtWork
<1>2. tasks' = [tasks EXCEPT ![k] = u]
  BY DEF FinishTask
<1>3. tasks'[k] = u
  BY <1>1, <1>2
<1>4. SameTask(t, u) /\ u.at = "returned" /\ u.report = t.report
  BY <1>1, TaskAt
<1> HIDE DEF u
<1>5. ReportOK(u)
  BY <1>1, <1>4 DEF CanStep, SameTask, ReportOK, AtWork
<1> QED BY <1>1, <1>2, <1>3, <1>4, <1>5 DEF Goes, SameTask

LEMMA FailsGoes ==
    ASSUME NEW k, CanStep(k), TaskFails(k)
    PROVE  /\ tasks' = [tasks EXCEPT ![k] = tasks'[k]]
           /\ Goes(tasks[k], tasks'[k]) /\ tasks'[k].run = tasks[k].run
           /\ tasks'[k].at = "threw"
<1> DEFINE t == tasks[k]
           u == [t EXCEPT !.at = "threw"]
<1>1. /\ t \in Task /\ t.at \in {"extract", "cloud", "correlate"} /\ AtWork(t)
      /\ k \in DOMAIN tasks
  BY DEF CanStep, TaskTypeOK, TaskFails, AtWork
<1>2. tasks' = [tasks EXCEPT ![k] = u]
  BY DEF TaskFails
<1>3. tasks'[k] = u
  BY <1>1, <1>2
<1>4. SameTask(t, u) /\ u.at = "threw" /\ u.report = t.report
  BY <1>1, TaskAt
<1> HIDE DEF u
<1>5. ReportOK(u)
  BY <1>1, <1>4 DEF CanStep, SameTask, ReportOK, AtWork
<1> QED BY <1>1, <1>2, <1>3, <1>4, <1>5 DEF Goes, SameTask

-----------------------------------------------------------------------------
(* What a step of one scan leaves to the others.                           *)

\* Rows are added and saved; what is stored only gets newer.
Advances ==
    /\ lost => lost'
    /\ deleting' = deleting
    /\ DOMAIN runs \subseteq DOMAIN runs'
    /\ \A i \in DOMAIN runs : /\ runs'[i].repo = runs[i].repo
                              /\ runs'[i].status = "deleted" <=> runs[i].status = "deleted"
    /\ \A r \in Repos : /\ clone[r] # 0 => clone'[r] = clone[r]
                        /\ stored'[r] >= stored[r]
                        /\ UpToDate(r) => UpToDate(r)'

\* What BaselinesStored says of a row.
RowOK(i) ==
    runs[i].status = "completed" /\ runs[i].repo \in Repos =>
        runs[i].since <= stored[runs[i].repo]

LEMMA TaskFrame ==
    ASSUME IInv, TypeOK', Advances, NEW k \in Scans, tasks'[k] = tasks[k]
    PROVE  /\ TaskOK(tasks[k])' /\ ReportOK(tasks[k])'
           /\ ~lost' /\ ~deleting' => TaskBaseline(tasks[k])'
<1> DEFINE t == tasks[k]
<1>1. TaskOK(t) /\ ReportOK(t) /\ t \in Task
  BY DEF IInv, TypeOK, TaskTypeOK
<1>2. ReportOK(tasks[k])'
  BY <1>1 DEF ReportOK, AtWork
<1>3. TaskOK(tasks[k])'
  BY <1>1 DEF TaskOK, AtWork, Advances
<1>4. ASSUME ~lost', ~deleting' PROVE TaskBaseline(tasks[k])'
  <2>1. TaskBaseline(t)
    BY <1>4 DEF IInv, BaselinesStored, Advances
  <2>2. SUFFICES ASSUME t.repo \in Repos
                 PROVE  TaskBaseline(tasks[k])'
    BY DEF TaskBaseline
  <2>3. /\ clone[t.repo] \in Nat /\ stored[t.repo] \in Nat /\ stored'[t.repo] \in Nat
        /\ t.since \in Nat /\ stored'[t.repo] >= stored[t.repo]
    BY <1>1, <2>2 DEF IInv, TypeOK, TaskTypeOK, Task, Commits, Advances
  <2>4. HasRow(t)' => HasRow(t)
    BY <1>1 DEF HasRow, TaskOK, Advances
  <2>5. Extracted(t) => clone'[t.repo] = clone[t.repo]
    BY <1>1, <2>2 DEF Extracted, TaskOK, AtWork, Advances
  <2> QED BY <2>1, <2>2, <2>3, <2>4, <2>5 DEF TaskBaseline, Extracted
<1> QED BY <1>2, <1>3, <1>4

LEMMA RowFrame ==
    ASSUME IInv, TypeOK', Advances, ~lost', ~deleting',
           NEW i \in DOMAIN runs, runs'[i] = runs[i]
    PROVE  RowOK(i)'
<1>1. RowOK(i)
  BY DEF IInv, BaselinesStored, Advances, RowOK
<1>2. runs[i] \in Run
  BY DEF IInv, TypeOK, TaskTypeOK
<1>3. SUFFICES ASSUME runs[i].status = "completed", runs[i].repo \in Repos
               PROVE  runs[i].since <= stored'[runs[i].repo]
  BY DEF RowOK
<1>4. /\ stored[runs[i].repo] \in Nat /\ stored'[runs[i].repo] \in Nat
      /\ runs[i].since \in Nat /\ stored'[runs[i].repo] >= stored[runs[i].repo]
  BY <1>2, <1>3 DEF IInv, TypeOK, TaskTypeOK, Run, Commits, Advances
<1> QED BY <1>1, <1>3, <1>4 DEF RowOK

LEMMA ScanFrame ==
    ASSUME IInv, TypeOK', Advances, NEW s \in DOMAIN scans,
           jobs'[s] = jobs[s], scans'[s] = scans[s], tasks'[s] = tasks[s]
    PROVE  ScanOK(s)'
<1>1. ScanOK(s) /\ s \in DOMAIN jobs
  BY DEF IInv, RecordsMatch
<1>2. Aims(s)'
  BY <1>1 DEF ScanOK, Aims
<1>3. StagesOK(s)'
  <2>1. ASSUME NEW n \in StageNames PROVE StageOK(s, n)' <=> StageOK(s, n)
    BY DEF StageOK
  <2> QED BY <1>1, <2>1 DEF ScanOK, StagesOK
<1>4. ScanStored(s)'
  <2>1. SUFFICES ASSUME jobs[s].at # "done", ~lost', ~jobs[s].wiped
                 PROVE  ScanStored(s)'
    BY DEF ScanStored
  <2>2. /\ ~lost /\ ~deleting /\ ~deleting'
        /\ ~jobs[s].failed =>
              \A i \in DOMAIN jobs[s].found :
                  i < jobs[s].next /\ jobs[s].found[i] \in Repos => UpToDate(jobs[s].found[i])
        /\ jobs[s].at = "process" /\ tasks[s].repo \in Repos =>
              /\ tasks[s].at \in {"create", "extract"} =>
                    tasks[s].since <= stored[tasks[s].repo]
              /\ Extracted(tasks[s]) \/ tasks[s].at = "returned" =>
                    UpToDate(tasks[s].repo)
    BY <1>1, <2>1 DEF ScanOK, ScanStored, Advances
  <2>3. \A r \in Repos : UpToDate(r) => UpToDate(r)'
    BY DEF Advances
  <2>4. ASSUME NEW r \in Repos, s \in Scans
        PROVE  /\ stored[r] \in Nat /\ stored'[r] \in Nat /\ stored'[r] >= stored[r]
               /\ tasks[s].since \in Nat
    BY <2>4 DEF IInv, TypeOK, TaskTypeOK, Commits, Task, Advances
  <2>5. s \in Scans
    BY DEF IInv, RecordsMatch
  <2>6. jobs[s].at = "process" /\ tasks[s].repo \in Repos
        /\ tasks[s].at \in {"create", "extract"} => tasks[s].since <= stored'[tasks[s].repo]
    BY <2>2, <2>4, <2>5 
  <2> QED BY <2>2, <2>3, <2>6 DEF ScanStored, Extracted
<1> QED BY <1>2, <1>3, <1>4 DEF ScanOK

-----------------------------------------------------------------------------
(* A step of one scan.                                                     *)

OthersStay(s) ==
    /\ DOMAIN scans' = DOMAIN scans /\ DOMAIN jobs' = DOMAIN jobs
    /\ \A z \in DOMAIN scans : z # s => scans'[z] = scans[z] /\ jobs'[z] = jobs[z]
    /\ \A k \in Scans : k # s => tasks'[k] = tasks[k]

CleanRecord(s) ==
    scans[s].status = "completed" =>
        \A n \in StageNames : scans[s].stages[n] \notin {"failed", "running"}

\* What the invariant says of a single scan.
ScanFits(s) ==
    RecordMatches(s) /\ TaskOK(tasks[s]) /\ ReportOK(tasks[s]) /\ ScanOK(s)
    /\ CleanRecord(s)

\* The invariant holds again when it holds of the scan that moved, of its task
\* and of the rows that are new.
LEMMA ScanMoves ==
    ASSUME IInv, TypeOK', NEW s \in DOMAIN scans, OthersStay(s), Advances,
           CommitsAdvance', ScanFits(s)',
           ~lost' /\ ~deleting' =>
               /\ TaskBaseline(tasks[s])'
               /\ \A i \in DOMAIN runs' :
                     (i \in DOMAIN runs /\ runs'[i] = runs[i]) \/ RowOK(i)'
    PROVE  IInv'
<1>1. /\ DOMAIN scans' = DOMAIN scans /\ DOMAIN jobs' = DOMAIN scans
      /\ DOMAIN scans \subseteq Scans
  BY DEF IInv, RecordsMatch, OthersStay
<1>2. ASSUME NEW z \in DOMAIN scans, z # s
      PROVE  RecordMatches(z)' /\ ScanOK(z)' /\ CleanRecord(z)'
  <2>1. jobs'[z] = jobs[z] /\ scans'[z] = scans[z] /\ tasks'[z] = tasks[z]
    BY <1>1, <1>2 DEF OthersStay
  <2>2. RecordMatches(z) /\ CleanRecord(z)
    BY DEF IInv, RecordsMatch, CompletedScanIsClean, CleanRecord
  <2>3. RecordMatches(z)' /\ CleanRecord(z)'
    BY <2>1, <2>2 DEF RecordMatches, CleanRecord
  <2>4. ScanOK(z)'
    BY <2>1, ScanFrame
  <2> QED BY <2>3, <2>4
<1>3. ASSUME NEW z \in DOMAIN scans'
      PROVE  RecordMatches(z)' /\ ScanOK(z)' /\ CleanRecord(z)'
  BY <1>1, <1>2 DEF ScanFits
<1>4. ASSUME NEW k \in Scans
      PROVE  /\ TaskOK(tasks[k])' /\ ReportOK(tasks[k])'
             /\ ~lost' /\ ~deleting' => TaskBaseline(tasks[k])'
  <2>1. CASE k = s
    BY <2>1 DEF ScanFits
  <2>2. CASE k # s
    <3>1. tasks'[k] = tasks[k]
      BY <2>2 DEF OthersStay
    <3> QED BY <3>1, TaskFrame
  <2> QED BY <2>1, <2>2
<1>5. ASSUME ~lost', ~deleting', NEW i \in DOMAIN runs' PROVE RowOK(i)'
  <2>1. CASE i \in DOMAIN runs /\ runs'[i] = runs[i]
    BY <1>5, <2>1, RowFrame
  <2> QED BY <1>5, <2>1
<1>6. BaselinesStored'
  BY <1>4, <1>5 DEF BaselinesStored, RowOK
<1>7. RecordsMatch' /\ CompletedScanIsClean'
  BY <1>1, <1>3 DEF RecordsMatch, CompletedScanIsClean, CleanRecord
<1> QED BY <1>3, <1>4, <1>6, <1>7 DEF IInv

\* A scan that is over has nothing to go wrong.
LEMMA DoneIsOK ==
    ASSUME NEW s, jobs'[s].at = "done"
    PROVE  ScanOK(s)'
BY DEF ScanOK, Aims, ScanStored, StagesOK

LEMMA MovesResult ==
    ASSUME IInv, NEW s \in DOMAIN scans, NEW j \in Job, NEW rec \in ScanRecord,
           jobs' = [jobs EXCEPT ![s] = j], scans' = [scans EXCEPT ![s] = rec]
    PROVE  /\ jobs' \in Seq(Job) /\ scans' \in Seq(ScanRecord)
           /\ DOMAIN scans' = DOMAIN scans /\ DOMAIN jobs' = DOMAIN jobs
           /\ jobs'[s] = j /\ scans'[s] = rec
           /\ \A z \in DOMAIN scans : z # s => scans'[z] = scans[z] /\ jobs'[z] = jobs[z]
<1>1. /\ jobs \in Seq(Job) /\ scans \in Seq(ScanRecord) /\ DOMAIN jobs = DOMAIN scans
      /\ s \in 1..Len(jobs) /\ s \in 1..Len(scans)
  <2>1. jobs \in Seq(Job) /\ scans \in Seq(ScanRecord) /\ DOMAIN jobs = DOMAIN scans
    BY DEF IInv, TypeOK, RecordsMatch
  <2>2. DOMAIN jobs = 1..Len(jobs) /\ DOMAIN scans = 1..Len(scans)
    BY <2>1, LenProperties
  <2> QED BY <2>1, <2>2
<1>2. jobs' \in Seq(Job) /\ scans' \in Seq(ScanRecord)
  BY <1>1, ExceptSeq
<1> QED BY <1>1, <1>2

LEMMA NoJobType == NoJob \in Job
<1>1. [r \in Repos |-> 0] \in [Repos -> Commits]
  BY CommitAssumption DEF Commits
<1>2. << >> \in Seq(Repos \cup {CloudRepo})
  OBVIOUS
<1> QED BY <1>1, <1>2 DEF NoJob, Job

\* The records and jobs of a well-formed state.
LEMMA ScanType ==
    ASSUME IInv, NEW s \in DOMAIN scans
    PROVE  /\ s \in Scans /\ s \in DOMAIN jobs /\ s \in DOMAIN tasks
           /\ jobs[s] \in Job /\ scans[s] \in ScanRecord /\ tasks[s] \in Task
           /\ RecordMatches(s) /\ ScanOK(s) /\ CleanRecord(s)
           /\ TaskOK(tasks[s]) /\ ReportOK(tasks[s])
<1>1. s \in Scans /\ s \in DOMAIN jobs /\ RecordMatches(s) /\ ScanOK(s) /\ CleanRecord(s)
  BY DEF IInv, RecordsMatch, CompletedScanIsClean, CleanRecord
<1>2. jobs \in Seq(Job) /\ scans \in Seq(ScanRecord) /\ tasks \in [Scans -> Task]
  BY DEF IInv, TypeOK, TaskTypeOK
<1>3. jobs[s] \in Job /\ scans[s] \in ScanRecord
  BY <1>1, <1>2
<1> QED BY <1>1, <1>2, <1>3 DEF IInv

\* A step that moves a record and its job, and nothing else.
LEMMA RecordMoves ==
    ASSUME IInv, NEW s \in DOMAIN scans, NEW j \in Job, NEW rec \in ScanRecord,
           jobs' = [jobs EXCEPT ![s] = j], scans' = [scans EXCEPT ![s] = rec],
           UNCHANGED <<taskVars, deleting>>,
           RecordMatches(s)', ScanOK(s)', CleanRecord(s)'
    PROVE  IInv'
<1>1. /\ jobs' \in Seq(Job) /\ scans' \in Seq(ScanRecord)
      /\ DOMAIN scans' = DOMAIN scans /\ DOMAIN jobs' = DOMAIN jobs
      /\ \A z \in DOMAIN scans : z # s => scans'[z] = scans[z] /\ jobs'[z] = jobs[z]
  BY MovesResult
<1>2. TypeOK'
  BY <1>1 DEF IInv, TypeOK, TaskTypeOK, taskVars
<1>3. OthersStay(s)
  BY <1>1 DEF OthersStay, taskVars
<1>4. Advances
  <2>1. ASSUME NEW r \in Repos PROVE stored[r] >= stored[r]
    BY DEF IInv, TypeOK, TaskTypeOK, Commits
  <2> QED BY <2>1 DEF Advances, taskVars, UpToDate
<1>5. CommitsAdvance'
  BY DEF IInv, CommitsAdvance, taskVars
<1>6. s \in Scans /\ tasks'[s] = tasks[s]
  BY ScanType DEF taskVars
<1>7. /\ TaskOK(tasks[s])' /\ ReportOK(tasks[s])'
      /\ ~lost' /\ ~deleting' => TaskBaseline(tasks[s])'
  BY <1>2, <1>4, <1>6, TaskFrame
<1>8. \A i \in DOMAIN runs' : i \in DOMAIN runs /\ runs'[i] = runs[i]
  BY DEF taskVars
<1> QED BY <1>2, <1>3, <1>4, <1>5, <1>7, <1>8, ScanMoves DEF ScanFits

\* What a scan ends with.
LEMMA EndResult ==
    ASSUME IInv, NEW s \in DOMAIN scans, NEW status \in {"completed", "failed"},
           NEW stages \in [StageNames -> StageStatus], End(s, status, stages)
    PROVE  \E rec \in ScanRecord :
              /\ jobs' = [jobs EXCEPT ![s] = NoJob] /\ scans' = [scans EXCEPT ![s] = rec]
              /\ jobs'[s] = NoJob /\ scans'[s] = rec
              /\ rec.status = status /\ rec.stages = stages
<1> DEFINE rec == [scans[s] EXCEPT !.status = status, !.stages = stages]
<1>1. scans[s] \in ScanRecord
  BY ScanType
<1>2. rec \in ScanRecord /\ rec.status = status /\ rec.stages = stages
  BY <1>1 DEF ScanRecord
<1>3. jobs' = [jobs EXCEPT ![s] = NoJob] /\ scans' = [scans EXCEPT ![s] = rec]
  BY DEF End
<1> HIDE DEF rec
<1>4. jobs'[s] = NoJob /\ scans'[s] = rec
  BY <1>2, <1>3, NoJobType, MovesResult
<1> QED BY <1>2, <1>3, <1>4

LEMMA EndKeeps ==
    ASSUME IInv, NEW s \in DOMAIN scans, NEW status \in {"completed", "failed"},
           NEW stages \in [StageNames -> StageStatus], End(s, status, stages),
           UNCHANGED <<taskVars, deleting>>,
           status = "completed" => \A n \in StageNames : stages[n] \notin {"failed", "running"}
    PROVE  IInv'
<1>1. PICK rec \in ScanRecord :
          /\ jobs' = [jobs EXCEPT ![s] = NoJob] /\ scans' = [scans EXCEPT ![s] = rec]
          /\ jobs'[s] = NoJob /\ scans'[s] = rec
          /\ rec.status = status /\ rec.stages = stages
  BY EndResult
<1>2. jobs'[s].at = "done"
  BY <1>1 DEF NoJob
<1>3. ScanOK(s)'
  BY <1>2, DoneIsOK
<1>4. RecordMatches(s)' /\ CleanRecord(s)'
  BY <1>1, <1>2 DEF RecordMatches, CleanRecord
<1> QED BY <1>1, <1>3, <1>4, NoJobType, RecordMoves

-----------------------------------------------------------------------------
(* Up to the first repository.                                             *)

LEMMA MarkQueuedResult ==
    ASSUME NEW stages \in [StageNames -> StageStatus], NEW o
    PROVE  /\ MarkQueuedStages(stages, o) \in [StageNames -> StageStatus]
           /\ \A n \in StageNames :
                 MarkQueuedStages(stages, o)[n] \in {stages[n], "skipped"}
BY DEF MarkQueuedStages, StageStatus

LEMMA UpdateStageResult ==
    ASSUME NEW stages \in [StageNames -> StageStatus], NEW name \in StageNames,
           NEW status \in StageStatus
    PROVE  /\ UpdateStage(stages, name, status) \in [StageNames -> StageStatus]
           /\ \A n \in StageNames :
                 UpdateStage(stages, name, status)[n] = IF n = name THEN status ELSE stages[n]
BY DEF UpdateStage

\* A scan that goes on to its first repository, or to discovery.
LEMMA GoesOn ==
    ASSUME IInv, NEW s \in DOMAIN scans, NEW stages \in [StageNames -> StageStatus],
           jobs[s].at \in {"integrations", "discovery"},
           NEW at \in {"discovery", "task"}, NEW found \in Seq(Repos \cup {CloudRepo}),
           \A n \in StageNames : stages[n] \in {scans[s].stages[n], "skipped"},
           at = "discovery" => found = << >> /\ scans[s].options.scope # "cloud",
           at = "task" =>
               /\ found # << >>
               /\ IF scans[s].options.scope = "cloud" THEN found = <<CloudRepo>>
                  ELSE found \in Seq(Repos),
           jobs' = [jobs EXCEPT ![s].at = at, ![s].found = found],
           scans' = [scans EXCEPT ![s].stages = stages],
           UNCHANGED <<taskVars, deleting>>
    PROVE  IInv'
<1> DEFINE j == [jobs[s] EXCEPT !.at = at, !.found = found]
           rec == [scans[s] EXCEPT !.stages = stages]
<1>1. /\ jobs[s] \in Job /\ scans[s] \in ScanRecord
      /\ RecordMatches(s) /\ Aims(s) /\ ScanStored(s) /\ StagesOK(s) /\ CleanRecord(s)
  BY ScanType DEF ScanOK
<1>2. /\ j \in Job /\ j.at = at /\ j.found = found /\ j.next = jobs[s].next
      /\ j.failed = jobs[s].failed /\ j.wiped = jobs[s].wiped
  BY <1>1 DEF Job
<1>3. /\ rec \in ScanRecord /\ rec.status = scans[s].status /\ rec.stages = stages
      /\ rec.options = scans[s].options
  BY <1>1 DEF ScanRecord
<1>4. jobs' = [jobs EXCEPT ![s] = j] /\ scans' = [scans EXCEPT ![s] = rec]
  OBVIOUS
<1> HIDE DEF j, rec
<1>5. jobs'[s] = j /\ scans'[s] = rec
  <2>1. s \in DOMAIN jobs
    BY ScanType
  <2> QED BY <1>4, <2>1
<1>6. /\ jobs[s].next = 1 /\ ~jobs[s].failed /\ jobs[s].at # "done" /\ jobs[s].at # "process"
  BY <1>1 DEF Aims
<1>7. scans[s].status = "running"
  BY <1>1, <1>6 DEF RecordMatches
<1>8. RecordMatches(s)' /\ CleanRecord(s)'
  BY <1>2, <1>3, <1>5, <1>7 DEF RecordMatches, CleanRecord
<1>9. Aims(s)'
  <2>1. /\ jobs'[s].at = at /\ jobs'[s].found = found /\ jobs'[s].next = 1
        /\ ~jobs'[s].failed /\ scans'[s].options = scans[s].options
    BY <1>2, <1>3, <1>5, <1>6
  <2>2. CASE at = "discovery"
    BY <2>1, <2>2 DEF Aims
  <2>3. CASE at = "task"
    <3>1. 1 \in DOMAIN found
      BY <2>3
    <3> QED BY <2>1, <2>3, <3>1 DEF Aims
  <2> QED BY <2>2, <2>3
<1>10. ScanStored(s)'
  <2>1. jobs'[s].next = 1 /\ jobs'[s].at # "process" /\ jobs'[s].wiped = jobs[s].wiped
    BY <1>2, <1>5, <1>6
  <2>2. DOMAIN jobs'[s].found \subseteq Nat
    BY <1>2, <1>5
  <2>3. \A i \in DOMAIN jobs'[s].found : ~ (i < jobs'[s].next)
    <3>1. DOMAIN found = 1..Len(found) /\ Len(found) \in Nat
      BY LenProperties
    <3> QED BY <1>2, <1>5, <2>1, <3>1
  <2>4. ~lost' /\ ~jobs'[s].wiped => ~deleting'
    BY <1>1, <1>6, <2>1 DEF ScanStored, taskVars
  <2> QED BY <2>1, <2>3, <2>4 DEF ScanStored
<1>11. StagesOK(s)'
  <2>1. ASSUME NEW n \in StageNames PROVE StageOK(s, n)'
    <3>1. StageOK(s, n)
      BY <1>1, <1>6 DEF StagesOK
    <3>2. rec.stages[n] \in {scans[s].stages[n], "skipped"}
      BY <1>3
    <3> QED BY <1>2, <1>3, <1>5, <1>6, <3>1, <3>2, ZenonT(60) DEF StageOK
  <2> QED BY <2>1 DEF StagesOK
<1> QED BY <1>2, <1>3, <1>4, <1>8, <1>9, <1>10, <1>11, RecordMoves, ZenonT(60) DEF ScanOK

LEMMA FetchKeeps ==
    ASSUME IInv, NEW s \in DOMAIN scans, FetchIntegrations(s)
    PROVE  IInv'
<1> DEFINE o == scans[s].options
<1>1. /\ jobs[s] \in Job /\ scans[s] \in ScanRecord /\ s \in DOMAIN jobs
      /\ Aims(s) /\ jobs[s].at = "integrations" /\ jobs[s].found = << >>
      /\ scans \in Seq(ScanRecord)
  BY ScanType DEF ScanOK, Aims, FetchIntegrations, IInv, TypeOK
<1>2. scans[s].stages \in [StageNames -> StageStatus]
  BY <1>1 DEF ScanRecord
<1>3. UNCHANGED <<taskVars, deleting>>
  BY DEF FetchIntegrations
<1>4. CASE o.scope # "cloud" /\ jobs' = [jobs EXCEPT ![s].at = "discovery"] /\ UNCHANGED scans
  <2>1. jobs[s] = [jobs[s] EXCEPT !.found = << >>]
    BY <1>1 DEF Job
  <2>2. jobs' = [jobs EXCEPT ![s].at = "discovery", ![s].found = << >>]
    <3>1. [jobs[s] EXCEPT !.at = "discovery"]
            = [jobs[s] EXCEPT !.at = "discovery", !.found = << >>]
      BY <1>1 DEF Job
    <3> QED BY <1>4, <3>1
  <2>3. scans' = [scans EXCEPT ![s].stages = scans[s].stages]
    <3>1. scans[s] = [scans[s] EXCEPT !.stages = scans[s].stages]
      BY <1>1 DEF ScanRecord
    <3>2. [scans EXCEPT ![s].stages = scans[s].stages] = [scans EXCEPT ![s] = scans[s]]
      BY <3>1
    <3>3. [scans EXCEPT ![s] = scans[s]] = scans
      BY <1>1
    <3> QED BY <1>4, <3>2, <3>3
  <2>4. << >> \in Seq(Repos \cup {CloudRepo})
    OBVIOUS
  <2> QED BY <1>1, <1>2, <1>3, <1>4, <2>2, <2>3, <2>4, GoesOn
<1>5. CASE /\ o.scope = "cloud"
           /\ jobs' = [jobs EXCEPT ![s].at = "task", ![s].found = <<CloudRepo>>]
           /\ scans' = [scans EXCEPT ![s].stages = MarkQueuedStages(@, o)]
  <2>1. /\ MarkQueuedStages(scans[s].stages, o) \in [StageNames -> StageStatus]
        /\ \A n \in StageNames :
              MarkQueuedStages(scans[s].stages, o)[n] \in {scans[s].stages[n], "skipped"}
    BY <1>2, MarkQueuedResult
  <2>2. <<CloudRepo>> \in Seq(Repos \cup {CloudRepo}) /\ <<CloudRepo>> # << >>
    OBVIOUS
  <2>3. scans' = [scans EXCEPT ![s].stages = MarkQueuedStages(scans[s].stages, o)]
    BY <1>5
  <2> HIDE DEF o
  <2> QED BY <1>1, <1>3, <1>5, <2>1, <2>2, <2>3, GoesOn DEF o
<1>6. CASE End(s, "failed", UpdateStage(scans[s].stages, "Cloud Discovery", "failed"))
  <2>1. UpdateStage(scans[s].stages, "Cloud Discovery", "failed")
            \in [StageNames -> StageStatus]
    BY <1>2, UpdateStageResult DEF StageNames, StageStatus
  <2> QED BY <1>3, <1>6, <2>1, EndKeeps
<1> QED BY <1>4, <1>5, <1>6 DEF FetchIntegrations

LEMMA OrchestrationFailsKeeps ==
    ASSUME IInv, NEW s \in DOMAIN scans, OrchestrationFails(s)
    PROVE  IInv'
<1>1. scans[s].stages \in [StageNames -> StageStatus]
  BY ScanType DEF ScanRecord
<1>2. UpdateStage(scans[s].stages, "Code Discovery", "failed") \in [StageNames -> StageStatus]
  BY <1>1, UpdateStageResult DEF StageNames, StageStatus
<1> QED BY <1>2, EndKeeps DEF OrchestrationFails

LEMMA DiscoverKeeps ==
    ASSUME IInv, NEW s \in DOMAIN scans, Discover(s)
    PROVE  IInv'
<1> DEFINE o == scans[s].options
           stages == scans[s].stages
           ended == UpdateStage(stages, "Code Discovery", "completed")
<1>1. /\ jobs[s].at = "discovery" /\ o.scope # "cloud" /\ ~jobs[s].failed /\ StagesOK(s)
      /\ UNCHANGED <<taskVars, deleting>>
  BY ScanType DEF ScanOK, Aims, Discover
<1>2. stages \in [StageNames -> StageStatus]
  BY ScanType DEF ScanRecord
<1>3. PICK found \in Discoveries :
          IF found = << >> THEN End(s, "completed", MarkQueuedStages(ended, o))
          ELSE /\ jobs' = [jobs EXCEPT ![s].at = "task", ![s].found = found]
               /\ scans' = [scans EXCEPT ![s].stages = MarkQueuedStages(@, o)]
  BY DEF Discover
<1>4. CASE found = << >>
  <2>1. /\ ended \in [StageNames -> StageStatus]
        /\ \A n \in StageNames : ended[n] = IF n = "Code Discovery" THEN "completed"
                                            ELSE stages[n]
    BY <1>2, UpdateStageResult DEF StageNames, StageStatus
  <2>2. ASSUME NEW n \in StageNames PROVE ended[n] \notin {"failed", "running"}
    BY <1>1, <2>1, <2>2 DEF StagesOK, StageOK
  <2> HIDE DEF ended
  <2>3. /\ MarkQueuedStages(ended, o) \in [StageNames -> StageStatus]
        /\ \A n \in StageNames : MarkQueuedStages(ended, o)[n] \in {ended[n], "skipped"}
    BY <2>1, MarkQueuedResult
  <2>4. \A n \in StageNames : MarkQueuedStages(ended, o)[n] \notin {"failed", "running"}
    BY <2>2, <2>3
  <2> QED BY <1>1, <1>3, <1>4, <2>3, <2>4, EndKeeps
<1>5. CASE found # << >>
  <2>1. /\ MarkQueuedStages(stages, o) \in [StageNames -> StageStatus]
        /\ \A n \in StageNames : MarkQueuedStages(stages, o)[n] \in {stages[n], "skipped"}
    BY <1>2, MarkQueuedResult
  <2>2. found \in Seq(Repos) /\ found \in Seq(Repos \cup {CloudRepo})
    BY DiscoveryAssumption, SeqMonotonic
  <2>3. /\ jobs' = [jobs EXCEPT ![s].at = "task", ![s].found = found]
        /\ scans' = [scans EXCEPT ![s].stages = MarkQueuedStages(stages, o)]
    BY <1>3, <1>5
  <2> HIDE DEF o, stages
  <2> QED BY <1>1, <1>5, <2>1, <2>2, <2>3, GoesOn DEF o, stages
<1> QED BY <1>4, <1>5

\* Without a task or a row that moves, the tasks and the baselines are fine.
LEMMA TasksStay ==
    ASSUME IInv, TypeOK', Advances, tasks' = tasks, runs' = runs
    PROVE  /\ \A k \in Scans : TaskOK(tasks[k])' /\ ReportOK(tasks[k])'
           /\ BaselinesStored'
<1>1. ASSUME NEW k \in Scans
      PROVE  /\ TaskOK(tasks[k])' /\ ReportOK(tasks[k])'
             /\ ~lost' /\ ~deleting' => TaskBaseline(tasks[k])'
  <2>1. tasks'[k] = tasks[k]
    OBVIOUS
  <2> QED BY <2>1, TaskFrame
<1>2. ASSUME ~lost', ~deleting', NEW i \in DOMAIN runs' PROVE RowOK(i)'
  <2>1. i \in DOMAIN runs /\ runs'[i] = runs[i]
    OBVIOUS
  <2> QED BY <1>2, <2>1, RowFrame
<1> QED BY <1>1, <1>2 DEF BaselinesStored, RowOK

LEMMA NothingStored ==
    ASSUME IInv, UNCHANGED <<clone, runs, stored, lost, deleting>>
    PROVE  Advances
<1>1. ASSUME NEW r \in Repos PROVE stored[r] >= stored[r]
  BY DEF IInv, TypeOK, TaskTypeOK, Commits
<1> QED BY <1>1 DEF Advances, UpToDate

LEMMA PushKeeps ==
    ASSUME IInv, NEW r \in Repos, Push(r), UNCHANGED <<scans, jobs, deleting>>
    PROVE  IInv'
<1>1. TypeOK /\ CommitsAdvance
  BY DEF IInv
<1>2. remote' = [remote EXCEPT ![r] = remote[r] + 1] /\ remote[r] < MaxCommits
      /\ UNCHANGED <<clone, runs, stored, featured, tasks, lost, scans, jobs, deleting>>
  BY DEF Push
<1>3. remote[r] + 1 \in Commits \ {0}
  BY <1>1, <1>2, CommitAssumption DEF TypeOK, TaskTypeOK, Commits
<1>4. TypeOK'
  BY <1>1, <1>2, <1>3 DEF TypeOK, TaskTypeOK
<1>5. Advances
  BY <1>2, NothingStored
<1>6. CommitsAdvance'
  <2>1. ASSUME NEW q \in Repos
        PROVE  /\ remote[q] \in Nat /\ stored[q] \in Nat /\ clone[q] \in Nat
               /\ remote'[q] = IF q = r THEN remote[r] + 1 ELSE remote[q]
    BY <1>1, <1>2 DEF TypeOK, TaskTypeOK, Commits
  <2>2. \A q \in Repos : stored[q] <= remote'[q] /\ clone[q] <= remote'[q]
    BY <1>1, <2>1 DEF CommitsAdvance
  <2> QED BY <1>1, <1>2, <2>2 DEF CommitsAdvance
<1>7. \A s \in DOMAIN scans : ScanOK(s)'
  <2>1. ASSUME NEW s \in DOMAIN scans
        PROVE  jobs'[s] = jobs[s] /\ scans'[s] = scans[s] /\ tasks'[s] = tasks[s]
    BY <1>2
  <2> QED BY <1>4, <1>5, <2>1, ScanFrame
<1>8. RecordsMatch' /\ CompletedScanIsClean'
  BY <1>2 DEF IInv, RecordsMatch, RecordMatches, CompletedScanIsClean
<1> QED BY <1>2, <1>4, <1>5, <1>6, <1>7, <1>8, TasksStay DEF IInv

LEMMA StartKeeps ==
    ASSUME IInv, NEW o \in Options, Start(o)
    PROVE  IInv'
<1>0. PICK new : new = Len(scans) + 1
  OBVIOUS
<1> DEFINE rec == [CreateScanRecord(o) EXCEPT
                      !.status = "running",
                      !.stages["Code Discovery"] =
                          IF o.scope = "cloud" THEN "skipped" ELSE "running"]
           j == [NoJob EXCEPT !.at = "integrations", !.seen = remote, !.wiped = deleting]
<1>1. TypeOK /\ RecordsMatch /\ o \in ScanOptions
  BY OptionsAssumption DEF IInv
<1>2. /\ Len(scans) < MaxScans /\ UNCHANGED <<taskVars, deleting>>
      /\ scans' = Append(scans, rec) /\ jobs' = Append(jobs, j)
  BY DEF Start
<1>3. /\ rec \in ScanRecord /\ rec.options = o /\ rec.status = "running"
      /\ \A n \in StageNames :
            rec.stages[n] = IF n # "Code Discovery" THEN "pending"
                            ELSE IF o.scope = "cloud" THEN "skipped" ELSE "running"
  BY <1>1 DEF CreateScanRecord, ScanRecord, StageNames, StageStatus
<1>4. /\ j \in Job /\ j.at = "integrations" /\ j.found = << >> /\ j.next = 1
      /\ j.failed = FALSE /\ j.wiped = deleting
  <2>1. remote \in [Repos -> Commits] /\ deleting \in BOOLEAN
    BY <1>1 DEF TypeOK, TaskTypeOK
  <2>2. NoJob \in Job
    BY NoJobType
  <2>3. j \in Job
    BY <2>1, <2>2 DEF Job
  <2> QED BY <2>3 DEF NoJob
<1> HIDE DEF rec, j
<1>5. /\ scans \in Seq(ScanRecord) /\ jobs \in Seq(Job) /\ Len(jobs) = Len(scans)
      /\ DOMAIN scans = 1..Len(scans) /\ Len(scans) \in Nat
  <2>1. scans \in Seq(ScanRecord) /\ jobs \in Seq(Job) /\ DOMAIN jobs = DOMAIN scans
    BY <1>1 DEF TypeOK, RecordsMatch
  <2> QED BY <2>1, LenProperties
<1>6. /\ scans' \in Seq(ScanRecord) /\ DOMAIN scans' = 1..new /\ scans'[new] = rec
      /\ \A s \in DOMAIN scans : scans'[s] = scans[s]
  <2>1. rec \in ScanRecord
    BY <1>3
  <2> QED BY <1>0, <1>2, <1>5, <2>1, AppendProperties, LenProperties
<1>7. /\ jobs' \in Seq(Job) /\ DOMAIN jobs' = 1..new /\ jobs'[new] = j
      /\ \A s \in DOMAIN scans : jobs'[s] = jobs[s]
  BY <1>0, <1>2, <1>4, <1>5, AppendProperties, LenProperties
<1>8. TypeOK'
  BY <1>1, <1>2, <1>6, <1>7 DEF TypeOK, TaskTypeOK, taskVars
<1>9. Advances
  BY <1>2, NothingStored DEF taskVars
<1>10. CommitsAdvance'
  BY <1>2 DEF IInv, CommitsAdvance, taskVars
<1>11. ASSUME NEW s \in DOMAIN scans
       PROVE  ScanOK(s)' /\ RecordMatches(s)' /\ CleanRecord(s)'
  <2>1. jobs'[s] = jobs[s] /\ scans'[s] = scans[s] /\ tasks'[s] = tasks[s]
    BY <1>2, <1>6, <1>7 DEF taskVars
  <2>2. RecordMatches(s) /\ CleanRecord(s)
    BY ScanType
  <2>3. ScanOK(s)'
    BY <1>8, <1>9, <2>1, ScanFrame
  <2> QED BY <2>1, <2>2, <2>3 DEF RecordMatches, CleanRecord
<1>12. ScanOK(new)' /\ RecordMatches(new)' /\ CleanRecord(new)'
  <2>1. Aims(new)'
    BY <1>4, <1>7 DEF Aims
  <2>2. ScanStored(new)'
    <3>1. DOMAIN jobs'[new].found = {}
      BY <1>4, <1>7
    <3> QED BY <1>2, <1>4, <1>7, <3>1 DEF ScanStored
  <2>3. StagesOK(new)'
    <3>1. ASSUME NEW n \in StageNames PROVE StageOK(new, n)'
      BY <1>3, <1>4, <1>6, <1>7 DEF StageOK
    <3> QED BY <3>1 DEF StagesOK
  <2> QED BY <1>3, <1>4, <1>6, <1>7, <2>1, <2>2, <2>3
      DEF ScanOK, RecordMatches, CleanRecord
<1>13. DOMAIN scans' \subseteq Scans /\ \A s \in DOMAIN scans' : s \in DOMAIN scans \/ s = new
  BY <1>0, <1>2, <1>5, <1>6, CommitAssumption DEF Scans
<1>14. RecordsMatch' /\ CompletedScanIsClean' /\ \A s \in DOMAIN scans' : ScanOK(s)'
  BY <1>6, <1>7, <1>11, <1>12, <1>13 DEF RecordsMatch, CompletedScanIsClean, CleanRecord
<1> QED BY <1>2, <1>8, <1>9, <1>10, <1>14, TasksStay DEF IInv, taskVars

-----------------------------------------------------------------------------
(* A task is set up.                                                       *)

LEMMA TaskOptionsResult ==
    ASSUME NEW o \in ScanOptions
    PROVE  /\ TaskOptionsOf(o) \in TaskOptions
           /\ TaskOptionsOf(o).scope = "cloud" <=> o.scope = "cloud"
BY DEF TaskOptionsOf, TaskOptions, ScanOptions

\* The baseline of a task is stored.
LEMMA SinceIsStored ==
    ASSUME IInv, NEW r \in Repos, NEW incremental
    PROVE  /\ ResolveRunType(r, incremental) \in Commits
           /\ ~lost /\ ~deleting => ResolveRunType(r, incremental) <= stored[r]
<1>1. runs \in Seq(Run) /\ stored[r] \in Nat
  BY DEF IInv, TypeOK, TaskTypeOK, Commits
<1>2. ResolveRunType(r, incremental) \in {0, LatestCompleted(r)} /\ 0 \in Commits
  BY CommitAssumption DEF ResolveRunType, Commits
<1>3. ResolveRunType(r, incremental) \in Commits
  BY <1>1, <1>2, LatestType
<1>4. ASSUME ~lost, ~deleting PROVE LatestCompleted(r) <= stored[r]
  <2>1. \A i \in DOMAIN runs : runs[i].status = "completed" /\ runs[i].repo \in Repos =>
                                  runs[i].since <= stored[runs[i].repo]
    BY <1>4 DEF IInv, BaselinesStored
  <2> QED BY <1>1, <2>1, LatestIsARow
<1> QED BY <1>1, <1>2, <1>3, <1>4

\* What a task starts with.
NewTask(r, o, cloud, since) ==
    [NoTask EXCEPT !.at = "create", !.repo = r, !.options = o, !.cloud = cloud, !.since = since]

FailedTask(r, o) == [NoTask EXCEPT !.at = "threw", !.repo = r, !.options = o]

LEMMA NewTaskResult ==
    ASSUME NEW r \in Repos \cup {CloudRepo},
           NEW o \in TaskOptions, NEW cloud \in BOOLEAN, NEW since \in Commits,
           NEW u, u = NewTask(r, o, cloud, since)
    PROVE  /\ u \in Task /\ u.at = "create" /\ u.repo = r /\ u.options = o
           /\ u.cloud = cloud /\ u.since = since /\ u.run = 0
           /\ \A n \in StageNames : u.report[n] = "none"
           /\ ReportOK(u)
<1>1. /\ u \in Task /\ u.at = "create" /\ u.repo = r /\ u.options = o
      /\ u.cloud = cloud /\ u.since = since /\ u.run = 0
      /\ u.report = [n \in StageNames |-> "none"]
  BY DEF NewTask, NoTask, Task, TaskOptions
<1>2. \A n \in StageNames : u.report[n] = "none"
  BY <1>1
<1>3. ReportOK(u)
  BY <1>1, <1>2 DEF ReportOK, StageNames, AtWork
<1> QED BY <1>1, <1>2, <1>3

LEMMA FailedTaskResult ==
    ASSUME NEW r \in Repos \cup {CloudRepo}, NEW o \in TaskOptions,
           NEW u, u = FailedTask(r, o)
    PROVE  /\ u \in Task /\ u.at = "threw" /\ u.repo = r /\ u.options = o /\ u.run = 0
           /\ \A n \in StageNames : u.report[n] = "none"
           /\ ReportOK(u)
<1>1. /\ u \in Task /\ u.at = "threw" /\ u.repo = r /\ u.options = o /\ u.run = 0
      /\ u.report = [n \in StageNames |-> "none"]
  <2>1. 0 \in Commits
    BY CommitAssumption DEF Commits
  <2> QED BY <2>1 DEF FailedTask, NoTask, Task, TaskOptions
<1>2. \A n \in StageNames : u.report[n] = "none"
  BY <1>1
<1>3. ReportOK(u)
  BY <1>1, <1>2 DEF ReportOK, StageNames, AtWork
<1> QED BY <1>1, <1>2, <1>3

\* A sequence of which one element is replaced.
LEMMA PutResult ==
    ASSUME NEW T, NEW q \in Seq(T), NEW i \in DOMAIN q, NEW e \in T,
           NEW p, p = [q EXCEPT ![i] = e]
    PROVE  /\ p \in Seq(T) /\ DOMAIN p = DOMAIN q /\ p[i] = e
           /\ \A z \in DOMAIN q : z # i => p[z] = q[z]
<1>1. DOMAIN q = 1..Len(q)
  BY LenProperties
<1>2. p \in Seq(T)
  BY <1>1, ExceptSeq
<1> QED BY <1>2

LEMMA JobMoves ==
    ASSUME IInv, NEW s \in DOMAIN scans, NEW j \in Job, jobs' = [jobs EXCEPT ![s] = j]
    PROVE  /\ jobs' \in Seq(Job) /\ DOMAIN jobs' = DOMAIN jobs /\ jobs'[s] = j
           /\ \A z \in DOMAIN jobs : z # s => jobs'[z] = jobs[z]
<1>1. jobs \in Seq(Job) /\ s \in DOMAIN jobs
  BY ScanType DEF IInv, TypeOK
<1> QED BY <1>1, PutResult

\* A task that begins, or could not be set up.
LEMMA TaskBegins ==
    ASSUME IInv, NEW s \in DOMAIN scans, jobs[s].at = "task",
           NEW u \in Task, u.at \in {"create", "threw"},
           u.repo = jobs[s].found[jobs[s].next], u.options = TaskOptionsOf(scans[s].options),
           u.run = 0, \A n \in StageNames : u.report[n] = "none", ReportOK(u),
           u.at = "create" =>
               /\ u.options.scope = "cloud" => u.cloud
               /\ u.repo \in Repos => /\ clone'[u.repo] # 0
                                      /\ ~lost /\ ~deleting => u.since <= stored[u.repo],
           tasks' = [tasks EXCEPT ![s] = u], jobs' = [jobs EXCEPT ![s].at = "process"],
           clone' \in [Repos -> Commits], Advances, CommitsAdvance',
           UNCHANGED <<remote, runs, stored, featured, lost, scans, deleting>>
    PROVE  IInv'
<1> DEFINE j == [jobs[s] EXCEPT !.at = "process"]
<1>1. /\ s \in Scans /\ s \in DOMAIN jobs /\ jobs[s] \in Job /\ scans[s] \in ScanRecord
      /\ RecordMatches(s) /\ Aims(s) /\ ScanStored(s) /\ StagesOK(s) /\ CleanRecord(s)
      /\ TypeOK /\ RecordsMatch
  BY ScanType DEF ScanOK, IInv
<1>2. /\ j \in Job /\ j.at = "process" /\ j.found = jobs[s].found
      /\ j.next = jobs[s].next /\ j.failed = jobs[s].failed /\ j.wiped = jobs[s].wiped
  BY <1>1 DEF Job
<1>3. jobs' = [jobs EXCEPT ![s] = j]
  OBVIOUS
<1> HIDE DEF j
<1>5. /\ jobs' \in Seq(Job) /\ DOMAIN jobs' = DOMAIN jobs /\ jobs'[s] = j
      /\ \A z \in DOMAIN jobs : z # s => jobs'[z] = jobs[z]
  <2>1. j \in Job
    BY <1>2
  <2> QED BY <1>3, <2>1, JobMoves
<1>6. /\ tasks' \in [Scans -> Task] /\ tasks'[s] = u
      /\ \A k \in Scans : k # s => tasks'[k] = tasks[k]
  BY <1>1 DEF TypeOK, TaskTypeOK
<1>7. TypeOK'
  BY <1>1, <1>5, <1>6 DEF TypeOK, TaskTypeOK
<1>8. OthersStay(s)
  BY <1>1, <1>5, <1>6 DEF OthersStay, RecordsMatch
<1>9. /\ jobs[s].next \in DOMAIN jobs[s].found
      /\ IF scans[s].options.scope = "cloud" THEN jobs[s].found = <<CloudRepo>>
         ELSE jobs[s].found \in Seq(Repos)
  BY <1>1 DEF Aims
<1>10. /\ u.options.scope = "cloud" => u.repo = CloudRepo
       /\ u.options.scope # "cloud" => u.repo \in Repos
  <2>1. u.options.scope = "cloud" <=> scans[s].options.scope = "cloud"
    <3>1. scans[s].options \in ScanOptions
      BY <1>1 DEF ScanRecord
    <3> QED BY <3>1, TaskOptionsResult
  <2> QED BY <1>9, <2>1
<1>11. RecordMatches(s)' /\ CleanRecord(s)'
  <2>1. scans[s].status = "running"
    BY <1>1 DEF RecordMatches
  <2> QED BY <1>2, <1>5, <2>1 DEF RecordMatches, CleanRecord
<1>12. TaskOK(tasks[s])' /\ ReportOK(tasks[s])'
  <2>1. TaskOK(tasks[s])'
    BY <1>6, <1>10 DEF TaskOK, AtWork
  <2> QED BY <1>6, <2>1, ZenonT(60) DEF ReportOK, AtWork
<1>13. Aims(s)'
  BY <1>2, <1>5, <1>6, <1>9 DEF Aims
<1>14. StagesOK(s)'
  <2>1. ASSUME NEW n \in StageNames, ~jobs[s].failed PROVE StageOK(s, n)'
    <3>1. StageOK(s, n)
      BY <1>1, <2>1 DEF StagesOK
    <3>2. tasks'[s].report[n] = "none" /\ jobs'[s].at = "process" /\ scans' = scans
          /\ jobs[s].at = "task"
      BY <1>2, <1>5, <1>6
    <3> QED BY <3>1, <3>2 DEF StageOK
  <2> QED BY <1>2, <1>5, <2>1 DEF StagesOK
<1>15. ScanStored(s)'
  <2>1. SUFFICES ASSUME ~lost, ~jobs[s].wiped PROVE ScanStored(s)'
    BY <1>2, <1>5 DEF ScanStored
  <2>2. /\ ~deleting
        /\ ~jobs[s].failed =>
              \A i \in DOMAIN jobs[s].found :
                  i < jobs[s].next /\ jobs[s].found[i] \in Repos => UpToDate(jobs[s].found[i])
    BY <1>1, <2>1 DEF ScanStored
  <2>3. \A r \in Repos : UpToDate(r) => UpToDate(r)'
    BY DEF Advances
  <2> QED BY <1>2, <1>5, <1>6, <2>1, <2>2, <2>3 DEF ScanStored, Extracted
<1>16. ~lost' /\ ~deleting' => TaskBaseline(tasks[s])'
  BY <1>6 DEF TaskBaseline, Extracted
<1>17. \A i \in DOMAIN runs' : i \in DOMAIN runs /\ runs'[i] = runs[i]
  OBVIOUS
<1> QED BY <1>7, <1>8, <1>11, <1>12, <1>13, <1>14, <1>15, <1>16, <1>17, ScanMoves
    DEF ScanFits, ScanOK

LEMMA SetUpTaskKeeps ==
    ASSUME IInv, NEW s \in DOMAIN scans, SetUpTask(s)
    PROVE  IInv'
<1> DEFINE repo == jobs[s].found[jobs[s].next]
           o == TaskOptionsOf(scans[s].options)
<1>1. /\ jobs[s].at = "task" /\ jobs' = [jobs EXCEPT ![s].at = "process"]
      /\ SetUp(s, repo, o) \/ SetUpFails(s, repo, o)
      /\ UNCHANGED <<scans, deleting>>
  BY DEF SetUpTask
<1>2. o \in TaskOptions /\ (o.scope = "cloud" <=> scans[s].options.scope = "cloud")
  <2>1. scans[s].options \in ScanOptions
    BY ScanType DEF ScanRecord
  <2> QED BY <2>1, TaskOptionsResult
<1>3. repo \in Repos \cup {CloudRepo}
  <2>1. jobs[s].found \in Seq(Repos \cup {CloudRepo}) /\ jobs[s].next \in DOMAIN jobs[s].found
    BY <1>1, ScanType DEF ScanOK, Aims, Job
  <2> QED BY <2>1, ElementOfSeq, LenProperties
<1>4. /\ remote \in [Repos -> Commits \ {0}] /\ clone \in [Repos -> Commits]
      /\ stored \in [Repos -> Commits] /\ Commits \subseteq Nat /\ CommitsAdvance
      /\ 0 \in Commits
  BY CommitAssumption DEF IInv, TypeOK, TaskTypeOK, Commits
<1>5. CASE SetUpFails(s, repo, o)
  <2> DEFINE u == FailedTask(repo, o)
  <2>1. /\ u \in Task /\ u.at = "threw" /\ u.repo = repo /\ u.options = o /\ u.run = 0
        /\ \A n \in StageNames : u.report[n] = "none"
        /\ ReportOK(u)
    <3> HIDE DEF repo, o
    <3> QED BY <1>2, <1>3, FailedTaskResult
  <2>3. /\ tasks' = [tasks EXCEPT ![s] = u]
        /\ UNCHANGED <<remote, clone, runs, stored, featured, lost>>
    BY <1>5 DEF SetUpFails, FailedTask
  <2>4. Advances /\ CommitsAdvance' /\ clone' \in [Repos -> Commits]
    BY <1>1, <1>4, <2>3, NothingStored DEF CommitsAdvance
  <2> HIDE DEF u
  <2> QED BY <1>1, <2>1, <2>3, <2>4, TaskBegins
<1>6. CASE SetUp(s, repo, o)
  <2> DEFINE since == IF repo = CloudRepo THEN 0 ELSE ResolveRunType(repo, o.incremental)
  <2>1. PICK cloud \in BOOLEAN :
            /\ o.scope = "cloud" => cloud
            /\ tasks' = [tasks EXCEPT ![s] =
                   [NoTask EXCEPT !.at = "create", !.repo = repo, !.options = o,
                                  !.cloud = cloud, !.since = since]]
    BY <1>6 DEF SetUp
  <2>2. /\ IF repo \in Repos /\ clone[repo] = 0
           THEN clone' = [clone EXCEPT ![repo] = remote[repo]] ELSE clone' = clone
        /\ UNCHANGED <<remote, runs, stored, featured, lost>>
    BY <1>6 DEF SetUp
  <2> DEFINE u == NewTask(repo, o, cloud, since)
  <2>3. since \in Commits /\ (repo \in Repos /\ ~lost /\ ~deleting => since <= stored[repo])
    <3>1. CASE repo = CloudRepo
      BY <1>4, <3>1, RepoAssumption
    <3>2. CASE repo # CloudRepo
      <4>1. repo \in Repos /\ since = ResolveRunType(repo, o.incremental)
        BY <1>3, <3>2
      <4> HIDE DEF repo, o, since
      <4> QED BY <4>1, SinceIsStored
    <3> QED BY <3>1, <3>2
  <2>4. /\ u \in Task /\ u.at = "create" /\ u.repo = repo /\ u.options = o
        /\ u.cloud = cloud /\ u.since = since /\ u.run = 0
        /\ \A n \in StageNames : u.report[n] = "none"
        /\ ReportOK(u)
    <3>1. since \in Commits
      BY <2>3
    <3> HIDE DEF repo, o, since
    <3> QED BY <1>2, <1>3, <3>1, NewTaskResult
  <2>5. tasks' = [tasks EXCEPT ![s] = u]
    BY <2>1 DEF NewTask
  <2>6. ASSUME NEW r \in Repos
        PROVE  /\ clone[r] # 0 => clone'[r] = clone[r]
               /\ clone'[r] \in {clone[r], remote[r]}
               /\ r = repo => clone'[r] # 0
    <3> HIDE DEF repo
    <3> QED BY <1>4, <2>2, <2>6
  <2>7. clone' \in [Repos -> Commits]
    BY <1>4, <2>2
  <2> HIDE DEF u, repo, o, since
  <2>8. CommitsAdvance'
    <3>1. ASSUME NEW r \in Repos
          PROVE  /\ stored[r] <= remote[r] /\ clone'[r] <= remote[r]
                 /\ clone'[r] # 0 => stored[r] <= clone'[r]
      <4>1. /\ stored[r] <= remote[r] /\ clone[r] <= remote[r]
            /\ clone[r] # 0 => stored[r] <= clone[r]
        BY <1>4 DEF CommitsAdvance
      <4>2. remote[r] \in Nat /\ clone[r] \in Nat /\ stored[r] \in Nat
        BY <1>4
      <4> QED BY <2>6, <4>1, <4>2
    <3> QED BY <2>2, <3>1 DEF CommitsAdvance
  <2>9. Advances
    <3>1. ASSUME NEW r \in Repos
          PROVE  /\ clone[r] # 0 => clone'[r] = clone[r]
                 /\ stored'[r] >= stored[r]
                 /\ UpToDate(r) => UpToDate(r)'
      <4>1. clone[r] # 0 => clone'[r] = clone[r]
        BY <2>6
      <4>2. stored' = stored /\ stored[r] \in Nat
        BY <1>4, <2>2
      <4> QED BY <4>1, <4>2 DEF UpToDate
    <3> QED BY <1>1, <2>2, <3>1 DEF Advances
  <2> QED BY <1>1, <2>1, <2>2, <2>3, <2>4, <2>5, <2>6, <2>7, <2>8, <2>9, TaskBegins,
      ZenonT(60) DEF repo, o
<1> QED BY <1>1, <1>5, <1>6

-----------------------------------------------------------------------------
(* A task takes a step, and the record shows it.                           *)

LEMMA OnStageChangeResult ==
    ASSUME IInv, NEW s \in DOMAIN scans, OnStageChange(s), Goes(tasks[s], tasks'[s])
    PROVE  /\ scans' \in Seq(ScanRecord) /\ DOMAIN scans' = DOMAIN scans
           /\ \A z \in DOMAIN scans : z # s => scans'[z] = scans[z]
           /\ scans'[s].options = scans[s].options /\ scans'[s].status = scans[s].status
           /\ \A n \in StageNames :
                 scans'[s].stages[n] = IF tasks'[s].report[n] # tasks[s].report[n]
                                       THEN tasks'[s].report[n] ELSE scans[s].stages[n]
<1> DEFINE stages == [n \in StageNames |->
                         IF tasks'[s].report[n] # tasks[s].report[n]
                         THEN tasks'[s].report[n] ELSE scans[s].stages[n]]
           rec == [scans[s] EXCEPT !.stages = stages]
<1>1. scans[s] \in ScanRecord /\ tasks[s] \in Task
  BY ScanType
<1>2. /\ tasks'[s] \in Task
      /\ \A n \in StageNames : tasks'[s].report[n] = "none" => tasks[s].report[n] = "none"
  BY DEF Goes
<1>3. stages \in [StageNames -> StageStatus]
  <2>1. scans[s].stages \in [StageNames -> StageStatus]
    BY <1>1 DEF ScanRecord
  <2>2. tasks'[s].report \in [StageNames -> {"none", "running", "completed"}]
    BY <1>2 DEF Task
  <2> QED BY <1>2, <2>1, <2>2 DEF StageStatus
<1>4. scans' = [scans EXCEPT ![s] = rec]
  BY DEF OnStageChange
<1>5. \A n \in StageNames : stages[n] = IF tasks'[s].report[n] # tasks[s].report[n]
                                        THEN tasks'[s].report[n] ELSE scans[s].stages[n]
  OBVIOUS
<1> HIDE DEF stages
<1>6. /\ rec \in ScanRecord /\ rec.options = scans[s].options
      /\ rec.status = scans[s].status /\ rec.stages = stages
  BY <1>1, <1>3 DEF ScanRecord
<1> HIDE DEF rec
<1>7. scans \in Seq(ScanRecord) /\ rec \in ScanRecord
  BY <1>6 DEF IInv, TypeOK
<1>8. /\ scans' \in Seq(ScanRecord) /\ DOMAIN scans' = DOMAIN scans /\ scans'[s] = rec
      /\ \A z \in DOMAIN scans : z # s => scans'[z] = scans[z]
  BY <1>4, <1>7, PutResult
<1> QED BY <1>5, <1>6, <1>8

LEMMA TaskGoesOn ==
    ASSUME IInv, NEW s \in DOMAIN scans, jobs[s].at = "process", OnStageChange(s),
           UNCHANGED <<remote, clone, jobs, deleting>>,
           tasks' = [tasks EXCEPT ![s] = tasks'[s]], Goes(tasks[s], tasks'[s]),
           runs' \in Seq(Run), stored' \in [Repos -> Commits],
           featured' \in [Repos -> Commits], lost' \in BOOLEAN,
           Advances, CommitsAdvance',
           tasks'[s].run # 0 =>
               /\ tasks'[s].run \in DOMAIN runs'
               /\ runs'[tasks'[s].run].status # "deleted" =>
                      runs'[tasks'[s].run].repo = tasks[s].repo,
           ~lost' /\ ~deleting' =>
               /\ TaskBaseline(tasks[s])'
               /\ \A i \in DOMAIN runs' :
                     (i \in DOMAIN runs /\ runs'[i] = runs[i]) \/ RowOK(i)',
           ~lost' /\ ~jobs[s].wiped /\ tasks[s].repo \in Repos =>
               /\ tasks'[s].at = "extract" => tasks[s].since <= stored'[tasks[s].repo]
               /\ Extracted(tasks'[s]) \/ tasks'[s].at = "returned" =>
                      UpToDate(tasks[s].repo)'
    PROVE  IInv'
<1> DEFINE t == tasks[s]
<1>0. PICK u : u = tasks'[s]
  OBVIOUS
<1>1. /\ s \in Scans /\ RecordMatches(s) /\ Aims(s) /\ ScanStored(s) /\ StagesOK(s)
      /\ CleanRecord(s) /\ TaskOK(t) /\ TypeOK /\ t \in Task
  BY ScanType DEF ScanOK, IInv
<1>2. /\ u \in Task /\ u.repo = t.repo /\ u.options = t.options /\ u.cloud = t.cloud
      /\ u.since = t.since /\ AtWork(t) /\ u.at \notin {"setup", "create"}
      /\ u.options.scope = "cloud" => u.at \notin {"extract", "correlate", "features"}
      /\ ReportOK(u)
      /\ \A n \in StageNames : u.report[n] = "none" => t.report[n] = "none"
  BY <1>0 DEF Goes
<1>3. /\ scans' \in Seq(ScanRecord) /\ DOMAIN scans' = DOMAIN scans
      /\ \A z \in DOMAIN scans : z # s => scans'[z] = scans[z]
      /\ scans'[s].options = scans[s].options /\ scans'[s].status = scans[s].status
      /\ \A n \in StageNames :
            scans'[s].stages[n] = IF u.report[n] # t.report[n]
                                  THEN u.report[n] ELSE scans[s].stages[n]
  BY <1>0, OnStageChangeResult
<1>4. /\ tasks' \in [Scans -> Task] /\ \A k \in Scans : k # s => tasks'[k] = tasks[k]
  BY <1>0, <1>1, <1>2 DEF TypeOK, TaskTypeOK
<1>5. TypeOK'
  BY <1>1, <1>3, <1>4 DEF TypeOK, TaskTypeOK
<1>6. OthersStay(s)
  BY <1>3, <1>4 DEF OthersStay
<1>7. RecordMatches(s)' /\ CleanRecord(s)'
  <2>1. scans[s].status = "running"
    BY <1>1 DEF RecordMatches
  <2> QED BY <1>3, <2>1 DEF RecordMatches, CleanRecord
<1>8. TaskOK(tasks[s])' /\ ReportOK(tasks[s])'
  <2>1. ReportOK(tasks[s])'
    BY <1>0, <1>2 DEF ReportOK, AtWork
  <2>2. t.options.scope = "cloud" => t.cloud /\ t.repo = CloudRepo
    BY <1>1, <1>2 DEF TaskOK
  <2>3. /\ t.options.scope # "cloud" => t.repo \in Repos
        /\ t.repo \in Repos => clone[t.repo] # 0
    BY <1>1, <1>2 DEF TaskOK
  <2>4. TaskOK(tasks[s])'
    BY <1>0, <1>2, <2>2, <2>3 DEF TaskOK, AtWork
  <2> QED BY <2>1, <2>4
<1>9. Aims(s)'
  BY <1>0, <1>1, <1>2, <1>3 DEF Aims
<1>10. StagesOK(s)'
  <2>1. ASSUME NEW n \in StageNames, ~jobs[s].failed PROVE StageOK(s, n)'
    <3>1. StageOK(s, n)
      BY <1>1, <2>1 DEF StagesOK
    <3>2. u.report[n] \in {"none", "running", "completed"}
      BY <1>2 DEF Task
    <3>3. u.report[n] = "none" => t.report[n] = "none"
      BY <1>2
    <3>4. scans'[s].stages[n] = IF u.report[n] # t.report[n]
                                THEN u.report[n] ELSE scans[s].stages[n]
      BY <1>3
    <3>5. scans'[s].options = scans[s].options /\ jobs' = jobs /\ tasks'[s] = u
      BY <1>0, <1>3
    <3> QED BY <3>1, <3>2, <3>3, <3>4, <3>5 DEF StageOK
  <2> QED BY <2>1 DEF StagesOK
<1>11. ScanStored(s)'
  <2>1. SUFFICES ASSUME ~lost', ~jobs[s].wiped PROVE ScanStored(s)'
    BY DEF ScanStored
  <2>2. ~lost
    BY <2>1 DEF Advances
  <2>3. /\ ~deleting
        /\ ~jobs[s].failed =>
              \A i \in DOMAIN jobs[s].found :
                  i < jobs[s].next /\ jobs[s].found[i] \in Repos => UpToDate(jobs[s].found[i])
    BY <1>1, <2>1, <2>2 DEF ScanStored
  <2>4. \A r \in Repos : UpToDate(r) => UpToDate(r)'
    BY DEF Advances
  <2>5. t.repo \in Repos =>
            /\ u.at = "extract" => u.since <= stored'[t.repo]
            /\ Extracted(u) \/ u.at = "returned" => UpToDate(t.repo)'
    BY <1>0, <1>2, <2>1
  <2>6. t.repo \in Repos /\ u.at \in {"create", "extract"} => u.since <= stored'[t.repo]
    BY <1>2, <2>5
  <2>7. /\ ~jobs'[s].failed =>
              \A i \in DOMAIN jobs'[s].found :
                  i < jobs'[s].next /\ jobs'[s].found[i] \in Repos =>
                      UpToDate(jobs[s].found[i])'
    BY <2>3, <2>4
  <2>8. tasks'[s].repo \in Repos =>
              /\ tasks'[s].at \in {"create", "extract"} =>
                    tasks'[s].since <= stored'[tasks'[s].repo]
              /\ Extracted(tasks'[s]) \/ tasks'[s].at = "returned" =>
                    UpToDate(tasks[s].repo)'
    BY <1>0, <1>2, <2>5, <2>6
  <2> QED BY <1>0, <1>2, <2>3, <2>7, <2>8 DEF ScanStored, Extracted, UpToDate
<1> QED BY <1>5, <1>6, <1>7, <1>8, <1>9, <1>10, <1>11, ScanMoves DEF ScanFits, ScanOK

\* What saving a run does to the rows.
LEMMA SavedRows ==
    ASSUME IInv, NEW i \in Nat, i # 0 => i \in DOMAIN runs,
           NEW status \in {"completed", "failed"}, NEW since \in Commits,
           SaveRun(i, status, since)
    PROVE  /\ runs' \in Seq(Run) /\ DOMAIN runs' = DOMAIN runs
           /\ \A q \in DOMAIN runs :
                 /\ runs'[q].repo = runs[q].repo
                 /\ runs'[q].status = "deleted" <=> runs[q].status = "deleted"
                 /\ \/ runs'[q] = runs[q]
                    \/ /\ q = i /\ runs[i].status # "deleted"
                       /\ runs'[q].status = status /\ runs'[q].since = since
<1>1. runs \in Seq(Run)
  BY DEF IInv, TypeOK, TaskTypeOK
<1>2. CASE runs' = runs
  BY <1>1, <1>2
<1>3. CASE i # 0 /\ runs[i].status # "deleted"
           /\ runs' = [runs EXCEPT ![i].status = status, ![i].since = since]
  <2> DEFINE row == [runs[i] EXCEPT !.status = status, !.since = since]
  <2>1. i \in DOMAIN runs /\ runs[i] \in Run
    BY <1>1, <1>3
  <2>2. row \in Run /\ row.repo = runs[i].repo /\ row.status = status /\ row.since = since
    BY <2>1 DEF Run
  <2>3. runs' = [runs EXCEPT ![i] = row]
    BY <1>3
  <2> HIDE DEF row
  <2>4. /\ runs' \in Seq(Run) /\ DOMAIN runs' = DOMAIN runs /\ runs'[i] = row
        /\ \A q \in DOMAIN runs : q # i => runs'[q] = runs[q]
    BY <1>1, <2>1, <2>2, <2>3, PutResult
  <2> QED BY <1>3, <2>1, <2>2, <2>4
<1> QED BY <1>2, <1>3 DEF SaveRun, Saved

\* A step in which a task saves its run: what it stored is up to date.
LEMMA SaveKeeps ==
    ASSUME IInv, NEW s \in DOMAIN scans, jobs[s].at = "process", OnStageChange(s),
           UNCHANGED <<remote, clone, stored, featured, lost, jobs, deleting>>,
           tasks' = [tasks EXCEPT ![s] = tasks'[s]], Goes(tasks[s], tasks'[s]),
           tasks'[s].run = tasks[s].run, tasks'[s].at \in {"returned", "threw"},
           NEW status \in {"completed", "failed"}, NEW since \in Commits,
           SaveRun(tasks[s].run, status, since),
           status = "completed" /\ tasks[s].repo \in Repos /\ HasRow(tasks[s])
              /\ ~lost /\ ~deleting => since <= stored[tasks[s].repo],
           tasks'[s].at = "returned" /\ tasks[s].repo \in Repos
              /\ ~lost /\ ~jobs[s].wiped => UpToDate(tasks[s].repo)
    PROVE  IInv'
<1> DEFINE t == tasks[s]
<1>1. /\ s \in Scans /\ t \in Task /\ TaskOK(t) /\ TypeOK
      /\ t.run \in Nat /\ (t.run # 0 => t.run \in DOMAIN runs)
      /\ t.run # 0 /\ runs[t.run].status # "deleted" => runs[t.run].repo = t.repo
  BY ScanType DEF IInv, Task, TaskOK
<1>2. /\ runs' \in Seq(Run) /\ DOMAIN runs' = DOMAIN runs
      /\ \A q \in DOMAIN runs :
            /\ runs'[q].repo = runs[q].repo
            /\ runs'[q].status = "deleted" <=> runs[q].status = "deleted"
            /\ \/ runs'[q] = runs[q]
               \/ /\ q = t.run /\ runs[q].status # "deleted"
                  /\ runs'[q].status = status /\ runs'[q].since = since
  BY <1>1, SavedRows
<1>3. /\ stored' \in [Repos -> Commits] /\ featured' \in [Repos -> Commits]
      /\ lost' \in BOOLEAN /\ CommitsAdvance'
  BY <1>1 DEF TypeOK, TaskTypeOK, IInv, CommitsAdvance
<1>4. Advances
  <2>1. \A r \in Repos : stored[r] >= stored[r]
    BY <1>1 DEF TypeOK, TaskTypeOK, Commits
  <2> QED BY <1>2, <2>1 DEF Advances, UpToDate
<1>5. tasks'[s].run # 0 => /\ tasks'[s].run \in DOMAIN runs'
                           /\ runs'[tasks'[s].run].status # "deleted" =>
                                 runs'[tasks'[s].run].repo = tasks[s].repo
  BY <1>1, <1>2
<1>6. TaskBaseline(tasks[s])'
  BY DEF TaskBaseline, Extracted
<1>7. ASSUME ~lost', ~deleting', NEW i \in DOMAIN runs', runs'[i] # runs[i] PROVE RowOK(i)'
  <2>1. /\ i = t.run /\ runs[i].status # "deleted" /\ i \in DOMAIN runs
        /\ runs'[i].repo = runs[i].repo
        /\ runs'[i].status = status /\ runs'[i].since = since
    BY <1>2, <1>7
  <2>2. t.run # 0 /\ runs[i].repo = t.repo
    <3>1. DOMAIN runs = 1..Len(runs)
      BY <1>1, LenProperties DEF TypeOK, TaskTypeOK
    <3> QED BY <1>1, <2>1, <3>1
  <2> QED BY <1>7, <2>1, <2>2 DEF RowOK, HasRow
<1>8. \A i \in DOMAIN runs' : ~lost' /\ ~deleting' =>
          (i \in DOMAIN runs /\ runs'[i] = runs[i]) \/ RowOK(i)'
  BY <1>2, <1>7
<1>9. ~lost' /\ ~jobs[s].wiped /\ tasks[s].repo \in Repos =>
          /\ tasks'[s].at = "extract" => tasks[s].since <= stored'[tasks[s].repo]
          /\ Extracted(tasks'[s]) \/ tasks'[s].at = "returned" => UpToDate(tasks[s].repo)'
  <2>1. tasks'[s].repo = tasks[s].repo
    BY DEF Goes
  <2>2. ~Extracted(tasks'[s]) /\ tasks'[s].at # "extract"
    BY DEF Extracted
  <2> QED BY <2>1, <2>2 DEF UpToDate
<1> QED BY <1>2, <1>3, <1>4, <1>5, <1>6, <1>8, <1>9, TaskGoesOn

\* What is known of a task that takes a step.
LEMMA StepType ==
    ASSUME IInv, NEW s \in DOMAIN scans, jobs[s].at = "process"
    PROVE  /\ CanStep(s) /\ s \in Scans /\ tasks[s] \in Task /\ TaskOK(tasks[s])
           /\ ScanStored(s)
           /\ ~lost /\ ~deleting => TaskBaseline(tasks[s])
           /\ HeadCommit(tasks[s]) \in Commits /\ tasks[s].since \in Commits
           /\ 0 \in Commits /\ Commits \subseteq Nat
           /\ tasks[s].repo \in Repos =>
                 /\ HeadCommit(tasks[s]) = clone[tasks[s].repo]
                 /\ clone[tasks[s].repo] \in Commits /\ stored[tasks[s].repo] \in Commits
<1>1. /\ s \in Scans /\ tasks[s] \in Task /\ TaskOK(tasks[s]) /\ ReportOK(tasks[s])
      /\ ScanStored(s) /\ TypeOK /\ BaselinesStored
  BY ScanType DEF IInv, ScanOK
<1>2. 0 \in Commits /\ Commits \subseteq Nat
  BY CommitAssumption DEF Commits
<1>3. /\ tasks[s].since \in Commits /\ tasks[s].repo \in Repos \cup {CloudRepo}
      /\ clone \in [Repos -> Commits] /\ stored \in [Repos -> Commits]
  BY <1>1 DEF Task, TypeOK, TaskTypeOK
<1>4. HeadCommit(tasks[s]) \in Commits
  BY <1>2, <1>3 DEF HeadCommit
<1> QED BY <1>1, <1>2, <1>3, <1>4, RepoAssumption
    DEF CanStep, BaselinesStored, HeadCommit, TypeOK

LEMMA FinishKeeps ==
    ASSUME IInv, NEW s \in DOMAIN scans, jobs[s].at = "process", FinishTask(s),
           OnStageChange(s), UNCHANGED <<jobs, deleting>>
    PROVE  IInv'
<1> DEFINE t == tasks[s]
<1>1. /\ CanStep(s) /\ ScanStored(s) /\ HeadCommit(t) \in Commits /\ 0 \in Commits
      /\ ~lost /\ ~deleting => TaskBaseline(t)
      /\ t.repo \in Repos => HeadCommit(t) = clone[t.repo] /\ stored[t.repo] \in Nat
  BY StepType
<1>2. /\ tasks' = [tasks EXCEPT ![s] = tasks'[s]]
      /\ Goes(tasks[s], tasks'[s]) /\ tasks'[s].run = tasks[s].run
      /\ tasks[s].at = "finish" /\ tasks'[s].at = "returned"
  BY <1>1, FinishGoes
<1>3. PICK head \in {HeadCommit(t), 0} : SaveRun(t.run, "completed", head)
  BY DEF FinishTask
<1>4. UNCHANGED <<remote, clone, stored, featured, lost>>
  BY DEF FinishTask
<1>5. Extracted(t)
  BY <1>2 DEF Extracted
<1>6. t.repo \in Repos /\ HasRow(t) /\ ~lost /\ ~deleting => head <= stored[t.repo]
  BY <1>1, <1>5 DEF TaskBaseline
<1>7. t.repo \in Repos /\ ~lost /\ ~jobs[s].wiped => UpToDate(t.repo)
  BY <1>1, <1>5 DEF ScanStored
<1>8. head \in Commits
  BY <1>1
<1> QED BY <1>2, <1>3, <1>4, <1>6, <1>7, <1>8, SaveKeeps

LEMMA SkipKeeps ==
    ASSUME IInv, NEW s \in DOMAIN scans, jobs[s].at = "process", SkipUnchanged(s),
           OnStageChange(s), UNCHANGED <<jobs, deleting>>
    PROVE  IInv'
<1> DEFINE t == tasks[s]
<1>1. /\ CanStep(s) /\ ScanStored(s) /\ HeadCommit(t) \in Commits /\ 0 \in Commits
      /\ ~lost /\ ~deleting => TaskBaseline(t)
      /\ t.repo \in Repos => /\ HeadCommit(t) = clone[t.repo]
                             /\ stored[t.repo] \in Nat /\ clone[t.repo] \in Nat
  BY StepType
<1>2. /\ tasks' = [tasks EXCEPT ![s] = tasks'[s]]
      /\ Goes(tasks[s], tasks'[s]) /\ tasks'[s].run = tasks[s].run
      /\ tasks[s].at = "extract" /\ tasks'[s].at = "returned"
  BY <1>1, SkipGoes
<1>3. PICK head \in {HeadCommit(t), 0} : SaveRun(t.run, "completed", head)
  BY DEF SkipUnchanged
<1>4. /\ UNCHANGED <<remote, clone, stored, featured, lost>>
      /\ t.since # 0 /\ t.since = HeadCommit(t)
  BY DEF SkipUnchanged
<1>5. t.repo \in Repos /\ HasRow(t) /\ ~lost /\ ~deleting => head <= stored[t.repo]
  BY <1>1, <1>2, <1>4 DEF TaskBaseline
<1>6. ASSUME t.repo \in Repos, ~lost, ~jobs[s].wiped PROVE UpToDate(t.repo)
  <2>1. t.since <= stored[t.repo]
    BY <1>1, <1>2, <1>6 DEF ScanStored
  <2>2. clone[t.repo] # 0 /\ clone[t.repo] <= stored[t.repo]
    BY <1>1, <1>4, <1>6, <2>1
  <2>3. stored[t.repo] <= clone[t.repo]
    BY <1>6, <2>2 DEF IInv, CommitsAdvance
  <2> QED BY <1>1, <1>6, <2>2, <2>3 DEF UpToDate
<1>7. head \in Commits
  BY <1>1
<1> QED BY <1>2, <1>3, <1>4, <1>5, <1>6, <1>7, SaveKeeps

LEMMA FailsKeeps ==
    ASSUME IInv, NEW s \in DOMAIN scans, jobs[s].at = "process", TaskFails(s),
           OnStageChange(s), UNCHANGED <<jobs, deleting>>
    PROVE  IInv'
<1> DEFINE t == tasks[s]
<1>1. CanStep(s) /\ t.since \in Commits
  BY StepType
<1>2. /\ tasks' = [tasks EXCEPT ![s] = tasks'[s]]
      /\ Goes(tasks[s], tasks'[s]) /\ tasks'[s].run = tasks[s].run
      /\ tasks'[s].at = "threw"
  BY <1>1, FailsGoes
<1>3. SaveRun(t.run, "failed", t.since) /\ UNCHANGED <<remote, clone, stored, featured, lost>>
  BY DEF TaskFails
<1> QED BY <1>1, <1>2, <1>3, SaveKeeps

LEMMA CreateKeeps ==
    ASSUME IInv, NEW s \in DOMAIN scans, jobs[s].at = "process", CreateIndexingRun(s),
           OnStageChange(s), UNCHANGED <<jobs, deleting>>
    PROVE  IInv'
<1> DEFINE t == tasks[s]
           row == [repo |-> t.repo, since |-> t.since, status |-> "running"]
<1>1. /\ CanStep(s) /\ ScanStored(s) /\ t \in Task /\ TaskOK(t) /\ t.since \in Commits
      /\ ~lost /\ ~deleting => TaskBaseline(t)
  BY StepType
<1>2. /\ tasks' = [tasks EXCEPT ![s] = tasks'[s]]
      /\ Goes(tasks[s], tasks'[s]) /\ tasks[s].at = "create"
      /\ tasks'[s].at \in {"extract", "cloud"}
      /\ tasks'[s].at = "cloud" => tasks[s].options.scope = "cloud"
      /\ \/ runs' = runs /\ tasks'[s].run = t.run
         \/ runs' = Append(runs, row) /\ tasks'[s].run = Len(runs) + 1
  BY <1>1, CreateGoes
<1>3. UNCHANGED <<remote, clone, stored, featured, lost>>
  BY DEF CreateIndexingRun
<1>4. /\ runs \in Seq(Run) /\ DOMAIN runs = 1..Len(runs) /\ Len(runs) \in Nat
      /\ t.run # 0 => t.run \in DOMAIN runs
      /\ t.run # 0 /\ runs[t.run].status # "deleted" => runs[t.run].repo = t.repo
  <2>1. runs \in Seq(Run)
    BY DEF IInv, TypeOK, TaskTypeOK
  <2> QED BY <1>1, <2>1, LenProperties DEF TaskOK
<1>5. row \in Run
  BY <1>1 DEF Run, Task
<1>6. /\ runs' \in Seq(Run) /\ DOMAIN runs \subseteq DOMAIN runs'
      /\ \A i \in DOMAIN runs : runs'[i] = runs[i]
      /\ \A i \in DOMAIN runs' : i \in DOMAIN runs \/ runs'[i] = row
      /\ tasks'[s].run # 0 =>
            /\ tasks'[s].run \in DOMAIN runs'
            /\ runs'[tasks'[s].run].status # "deleted" => runs'[tasks'[s].run].repo = t.repo
  <2>1. CASE runs' = runs /\ tasks'[s].run = t.run
    BY <1>4, <2>1
  <2>2. CASE runs' = Append(runs, row) /\ tasks'[s].run = Len(runs) + 1
    <3> HIDE DEF row
    <3>1. /\ runs' \in Seq(Run) /\ Len(runs') = Len(runs) + 1
          /\ \A i \in 1..Len(runs) : runs'[i] = runs[i]
          /\ runs'[Len(runs) + 1] = row
      BY <1>4, <1>5, <2>2, AppendProperties
    <3>2. DOMAIN runs' = 1..(Len(runs) + 1)
      BY <3>1, LenProperties
    <3>3. row.repo = t.repo
      BY DEF row
    <3> QED BY <1>4, <2>2, <3>1, <3>2, <3>3
  <2> QED BY <1>2, <2>1, <2>2
<1>7. /\ stored' \in [Repos -> Commits] /\ featured' \in [Repos -> Commits]
      /\ lost' \in BOOLEAN /\ CommitsAdvance'
  BY <1>3 DEF IInv, TypeOK, TaskTypeOK, CommitsAdvance
<1>8. Advances
  <2>1. \A r \in Repos : stored[r] >= stored[r]
    BY DEF IInv, TypeOK, TaskTypeOK, Commits
  <2> QED BY <1>3, <1>6, <2>1 DEF Advances, UpToDate
<1>9. tasks'[s].repo = t.repo /\ tasks'[s].since = t.since
  BY <1>2 DEF Goes
<1>10. t.repo \in Repos => tasks'[s].at # "cloud"
  BY <1>1, <1>2, RepoAssumption DEF TaskOK, AtWork
<1>11. ASSUME ~lost, ~deleting PROVE TaskBaseline(tasks[s])'
  <2>1. t.repo \in Repos => t.since <= stored[t.repo]
    BY <1>1, <1>2, <1>11 DEF TaskBaseline
  <2>2. t.repo \in Repos => tasks'[s].at = "extract"
    BY <1>2, <1>10
  <2> QED BY <1>3, <1>9, <2>1, <2>2 DEF TaskBaseline, Extracted
<1>12. \A i \in DOMAIN runs' : (i \in DOMAIN runs /\ runs'[i] = runs[i]) \/ RowOK(i)'
  BY <1>6 DEF RowOK
<1>13. ASSUME ~lost', ~jobs[s].wiped, t.repo \in Repos
       PROVE  /\ tasks'[s].at = "extract" => t.since <= stored'[t.repo]
              /\ Extracted(tasks'[s]) \/ tasks'[s].at = "returned" =>
                     UpToDate(tasks[s].repo)'
  <2>1. t.since <= stored[t.repo]
    BY <1>1, <1>2, <1>3, <1>13 DEF ScanStored
  <2>2. tasks'[s].at = "extract"
    BY <1>2, <1>10, <1>13
  <2> QED BY <1>3, <2>1, <2>2 DEF Extracted
<1> HIDE DEF row
<1> QED BY <1>2, <1>3, <1>6, <1>7, <1>8, <1>11, <1>12, <1>13, TaskGoesOn

\* Storing what is in the clone never goes back.
LEMMA StoreAdvances ==
    ASSUME IInv, NEW r \in Repos, NEW v,
           v = stored[r] \/ (v = clone[r] /\ clone[r] # 0)
    PROVE  /\ v >= stored[r] /\ v <= remote[r]
           /\ clone[r] # 0 => v <= clone[r]
           /\ UpToDate(r) => v = clone[r]
<1>1. /\ stored[r] \in Nat /\ clone[r] \in Nat /\ remote[r] \in Nat
      /\ stored[r] <= remote[r] /\ clone[r] <= remote[r]
      /\ clone[r] # 0 => stored[r] <= clone[r]
  BY DEF IInv, TypeOK, TaskTypeOK, CommitsAdvance, Commits
<1> QED BY <1>1 DEF UpToDate

LEMMA ExtractKeeps ==
    ASSUME IInv, NEW s \in DOMAIN scans, jobs[s].at = "process", ExtractTransform(s),
           OnStageChange(s), UNCHANGED <<jobs, deleting>>
    PROVE  IInv'
<1> DEFINE t == tasks[s]
<1>1. /\ CanStep(s) /\ t \in Task /\ TaskOK(t) /\ HeadCommit(t) \in Commits
      /\ Commits \subseteq Nat
      /\ t.repo \in Repos => HeadCommit(t) = clone[t.repo]
  BY StepType
<1>2. /\ tasks' = [tasks EXCEPT ![s] = tasks'[s]]
      /\ Goes(tasks[s], tasks'[s]) /\ tasks'[s].run = tasks[s].run
      /\ tasks[s].at = "extract"
      /\ tasks'[s].at \in {"cloud", "correlate", "features", "finish"}
  BY <1>1, ExtractGoes
<1>3. \/ stored' = [stored EXCEPT ![t.repo] = HeadCommit(t)] /\ lost' = lost
      \/ stored' = stored /\ lost' = TRUE
  <2>1. lost \in BOOLEAN
    BY DEF IInv, TypeOK, TaskTypeOK
  <2> QED BY <2>1 DEF ExtractTransform
<1>4. UNCHANGED <<remote, clone, runs, featured>>
  BY DEF ExtractTransform
<1>5. t.repo \in Repos /\ clone[t.repo] # 0
  BY <1>1, <1>2 DEF TaskOK, AtWork
<1>6. /\ stored \in [Repos -> Commits] /\ clone \in [Repos -> Commits]
      /\ remote \in [Repos -> Commits] /\ lost \in BOOLEAN /\ CommitsAdvance
      /\ featured \in [Repos -> Commits] /\ runs \in Seq(Run)
  BY DEF IInv, TypeOK, TaskTypeOK
<1>7. ASSUME NEW r \in Repos
      PROVE  /\ stored'[r] = stored[r] \/ (r = t.repo /\ stored'[r] = clone[r])
             /\ ~lost' /\ r = t.repo => stored'[r] = clone[r]
  BY <1>1, <1>3, <1>5, <1>6
<1>8. /\ stored' \in [Repos -> Commits] /\ featured' \in [Repos -> Commits]
      /\ lost' \in BOOLEAN /\ runs' \in Seq(Run)
  BY <1>1, <1>3, <1>4, <1>6
<1>9. ASSUME NEW r \in Repos
      PROVE  /\ stored'[r] >= stored[r] /\ stored'[r] <= remote[r]
             /\ clone[r] # 0 => stored'[r] <= clone[r]
             /\ UpToDate(r) => stored'[r] = clone[r]
  <2>1. stored'[r] = stored[r] \/ (stored'[r] = clone[r] /\ clone[r] # 0)
    BY <1>5, <1>7
  <2> QED BY <2>1, StoreAdvances
<1>10. CommitsAdvance'
  BY <1>4, <1>6, <1>9 DEF CommitsAdvance
<1>11. Advances
  BY <1>3, <1>4, <1>9 DEF Advances, UpToDate
<1>12. tasks'[s].repo = t.repo /\ tasks'[s].since = t.since
  BY <1>2 DEF Goes
<1>13. ~lost' => stored'[t.repo] = clone[t.repo]
  BY <1>3, <1>5, <1>7
<1>14. ~lost' => TaskBaseline(tasks[s])'
  <2>1. clone'[t.repo] <= clone[t.repo]
    <3>1. clone'[t.repo] = clone[t.repo] /\ clone[t.repo] \in Nat
      BY <1>1, <1>4, <1>5, <1>6
    <3> QED BY <3>1
  <2>2. tasks'[s].at \notin {"create", "extract"}
    BY <1>2
  <2> QED BY <1>12, <1>13, <2>1, <2>2 DEF TaskBaseline
<1>15. ~lost' => UpToDate(tasks[s].repo)'
  BY <1>4, <1>5, <1>12, <1>13 DEF UpToDate
<1>16. t.run # 0 => /\ t.run \in DOMAIN runs
                    /\ runs[t.run].status # "deleted" => runs[t.run].repo = t.repo
  BY <1>1 DEF TaskOK
<1> QED BY <1>2, <1>4, <1>8, <1>10, <1>11, <1>14, <1>15, <1>16, TaskGoesOn

\* A step after the extraction that stores no entities and saves no run.
LEMMA PassKeeps ==
    ASSUME IInv, NEW s \in DOMAIN scans, jobs[s].at = "process",
           OnStageChange(s), UNCHANGED <<remote, clone, runs, stored, jobs, deleting>>,
           featured' \in [Repos -> Commits], lost' \in BOOLEAN, lost => lost',
           tasks' = [tasks EXCEPT ![s] = tasks'[s]], Goes(tasks[s], tasks'[s]),
           tasks'[s].run = tasks[s].run,
           Extracted(tasks[s]), tasks'[s].at \in {"correlate", "features", "finish"}
    PROVE  IInv'
<1> DEFINE t == tasks[s]
<1>1. /\ TaskOK(t) /\ ScanStored(s)
      /\ ~lost /\ ~deleting => TaskBaseline(t)
  BY StepType
<1>2. runs' \in Seq(Run) /\ stored' \in [Repos -> Commits] /\ CommitsAdvance'
  BY DEF IInv, TypeOK, TaskTypeOK, CommitsAdvance
<1>3. Advances
  <2>1. \A r \in Repos : stored[r] >= stored[r]
    BY DEF IInv, TypeOK, TaskTypeOK, Commits
  <2> QED BY <2>1 DEF Advances, UpToDate
<1>4. tasks'[s].repo = t.repo /\ tasks'[s].since = t.since
  BY DEF Goes
<1>5. t.run # 0 => /\ t.run \in DOMAIN runs
                   /\ runs[t.run].status # "deleted" => runs[t.run].repo = t.repo
  BY <1>1 DEF TaskOK
<1>6. ASSUME ~lost', ~deleting' PROVE TaskBaseline(tasks[s])'
  BY <1>1, <1>4, <1>6 DEF TaskBaseline, HasRow
<1>7. ~lost' /\ ~jobs[s].wiped /\ t.repo \in Repos => UpToDate(tasks[s].repo)'
  <2>1. ~lost' /\ ~jobs[s].wiped /\ t.repo \in Repos => UpToDate(t.repo)
    BY <1>1 DEF ScanStored
  <2> QED BY <1>4, <2>1 DEF UpToDate
<1>8. \A i \in DOMAIN runs' : i \in DOMAIN runs /\ runs'[i] = runs[i]
  OBVIOUS
<1>9. tasks'[s].run # 0 => /\ tasks'[s].run \in DOMAIN runs'
                           /\ runs'[tasks'[s].run].status # "deleted" =>
                                 runs'[tasks'[s].run].repo = tasks[s].repo
  BY <1>5
<1>10. tasks'[s].at # "extract"
  OBVIOUS
<1> QED BY <1>2, <1>3, <1>6, <1>7, <1>8, <1>9, <1>10, TaskGoesOn

LEMMA RunTaskKeeps ==
    ASSUME IInv, NEW s \in DOMAIN scans, RunTask(s)
    PROVE  IInv'
<1>1. /\ jobs[s].at = "process" /\ TaskStep(s) /\ OnStageChange(s)
      /\ UNCHANGED <<jobs, deleting>>
  BY DEF RunTask
<1>2. /\ featured \in [Repos -> Commits] /\ lost \in BOOLEAN
  BY DEF IInv, TypeOK, TaskTypeOK
<1>3. CanStep(s) /\ HeadCommit(tasks[s]) \in Commits
  BY <1>1, StepType
<1>4. CASE CreateIndexingRun(s)
  BY <1>1, <1>4, CreateKeeps
<1>5. CASE SkipUnchanged(s)
  BY <1>1, <1>5, SkipKeeps
<1>6. CASE ExtractTransform(s)
  BY <1>1, <1>6, ExtractKeeps
<1>7. CASE CloudDiscovery(s)
  <2>1. /\ tasks' = [tasks EXCEPT ![s] = tasks'[s]]
        /\ Goes(tasks[s], tasks'[s]) /\ tasks'[s].run = tasks[s].run
        /\ tasks[s].at = "cloud" /\ tasks'[s].at \in {"correlate", "features", "finish"}
    BY <1>3, <1>7, CloudGoes
  <2>2. UNCHANGED <<remote, clone, runs, stored, featured, lost>>
    BY <1>7 DEF CloudDiscovery
  <2>3. Extracted(tasks[s])
    BY <2>1 DEF Extracted
  <2> QED BY <1>1, <1>2, <2>1, <2>2, <2>3, PassKeeps
<1>8. CASE LLMCorrelation(s)
  <2>1. /\ tasks' = [tasks EXCEPT ![s] = tasks'[s]]
        /\ Goes(tasks[s], tasks'[s]) /\ tasks'[s].run = tasks[s].run
        /\ tasks[s].at = "correlate" /\ tasks'[s].at \in {"features", "finish"}
    BY <1>3, <1>8, CorrelationGoes
  <2>2. UNCHANGED <<remote, clone, runs, stored, featured, lost>>
    BY <1>8 DEF LLMCorrelation
  <2>3. Extracted(tasks[s])
    BY <2>1 DEF Extracted
  <2> QED BY <1>1, <1>2, <2>1, <2>2, <2>3, PassKeeps
<1>9. CASE FeatureExtraction(s)
  <2>1. /\ tasks' = [tasks EXCEPT ![s] = tasks'[s]]
        /\ Goes(tasks[s], tasks'[s]) /\ tasks'[s].run = tasks[s].run
        /\ tasks[s].at = "features" /\ tasks'[s].at = "finish"
    BY <1>3, <1>9, FeaturesGoes
  <2>2. UNCHANGED <<remote, clone, runs, stored>>
    BY <1>9 DEF FeatureExtraction
  <2>3. Extracted(tasks[s])
    BY <2>1 DEF Extracted
  <2>4. featured' \in [Repos -> Commits] /\ lost' \in BOOLEAN /\ (lost => lost')
    BY <1>2, <1>3, <1>9 DEF FeatureExtraction
  <2> QED BY <1>1, <2>1, <2>2, <2>3, <2>4, PassKeeps
<1>10. CASE FinishTask(s)
  BY <1>1, <1>10, FinishKeeps
<1>11. CASE TaskFails(s)
  BY <1>1, <1>11, FailsKeeps
<1> QED BY <1>1, <1>4, <1>5, <1>6, <1>7, <1>8, <1>9, <1>10, <1>11 DEF TaskStep

-----------------------------------------------------------------------------
(* A task is over.                                                         *)

\* The next repository is taken up, or the scan ends.
LEMMA NextKeeps ==
    ASSUME IInv, NEW s \in DOMAIN scans, jobs[s].at = "process",
           NEW stages \in [StageNames -> StageStatus], NEW failed \in BOOLEAN,
           jobs[s].failed => failed,
           ~failed => \A n \in StageNames : stages[n] \notin {"failed", "running"},
           ~failed /\ ~lost /\ ~jobs[s].wiped /\ tasks[s].repo \in Repos =>
               UpToDate(tasks[s].repo),
           NextRepository(s, stages, failed), tasks' = [tasks EXCEPT ![s] = NoTask],
           UNCHANGED <<remote, clone, runs, stored, featured, lost, deleting>>
    PROVE  IInv'
<1>1. /\ s \in Scans /\ s \in DOMAIN jobs /\ jobs[s] \in Job /\ scans[s] \in ScanRecord
      /\ RecordMatches(s) /\ Aims(s) /\ ScanStored(s) /\ TypeOK /\ RecordsMatch
  BY ScanType DEF ScanOK, IInv
<1>2. /\ NoTask \in Task /\ NoTask.at = "setup" /\ NoTask.run = 0 /\ ReportOK(NoTask)
  <2>1. /\ NoTask \in Task /\ NoTask.at = "setup" /\ NoTask.run = 0
        /\ NoTask.report = [n \in StageNames |-> "none"]
    <3>1. 0 \in Commits
      BY CommitAssumption DEF Commits
    <3> QED BY <3>1 DEF NoTask, Task, TaskOptions
  <2>2. \A n \in StageNames : NoTask.report[n] = "none"
    BY <2>1
  <2>3. ReportOK(NoTask)
    BY <2>1, <2>2 DEF ReportOK, StageNames, AtWork
  <2> QED BY <2>1, <2>3
<1>3. /\ tasks' \in [Scans -> Task] /\ tasks'[s] = NoTask
      /\ \A k \in Scans : k # s => tasks'[k] = tasks[k]
  BY <1>1, <1>2 DEF TypeOK, TaskTypeOK
<1>4. TaskOK(tasks[s])' /\ ReportOK(tasks[s])' /\ TaskBaseline(tasks[s])'
  <2>1. TaskOK(tasks[s])'
    BY <1>2, <1>3 DEF TaskOK, AtWork
  <2>2. ReportOK(tasks[s])'
    BY <1>2, <1>3 DEF ReportOK, AtWork
  <2>3. TaskBaseline(tasks[s])'
    BY <1>2, <1>3 DEF TaskBaseline, Extracted
  <2> QED BY <2>1, <2>2, <2>3
<1>5. Advances /\ CommitsAdvance'
  BY NothingStored DEF IInv, CommitsAdvance
<1>6. \A i \in DOMAIN runs' : i \in DOMAIN runs /\ runs'[i] = runs[i]
  OBVIOUS
<1>7. ASSUME NEW j \in Job, NEW rec \in ScanRecord,
             jobs' = [jobs EXCEPT ![s] = j], scans' = [scans EXCEPT ![s] = rec],
             RecordMatches(s)', ScanOK(s)', CleanRecord(s)'
      PROVE  IInv'
  <2>1. /\ jobs' \in Seq(Job) /\ scans' \in Seq(ScanRecord)
        /\ DOMAIN scans' = DOMAIN scans /\ DOMAIN jobs' = DOMAIN jobs
        /\ \A z \in DOMAIN scans : z # s => scans'[z] = scans[z] /\ jobs'[z] = jobs[z]
    BY <1>7, MovesResult
  <2>2. TypeOK'
    BY <1>1, <1>3, <2>1 DEF TypeOK, TaskTypeOK
  <2>3. OthersStay(s)
    BY <1>3, <2>1 DEF OthersStay
  <2> QED BY <1>4, <1>5, <1>6, <1>7, <2>2, <2>3, ScanMoves DEF ScanFits
<1>8. CASE jobs[s].next = Len(jobs[s].found)
  <2>1. FinalStatus(failed) \in {"completed", "failed"}
        /\ (FinalStatus(failed) = "completed" => ~failed)
    BY DEF FinalStatus
  <2>2. End(s, FinalStatus(failed), stages)
    BY <1>8 DEF NextRepository
  <2>3. PICK rec \in ScanRecord :
            /\ jobs' = [jobs EXCEPT ![s] = NoJob] /\ scans' = [scans EXCEPT ![s] = rec]
            /\ jobs'[s] = NoJob /\ scans'[s] = rec
            /\ rec.status = FinalStatus(failed) /\ rec.stages = stages
    BY <2>1, <2>2, EndResult
  <2>4. jobs'[s].at = "done"
    BY <2>3 DEF NoJob
  <2>5. ScanOK(s)'
    BY <2>4, DoneIsOK
  <2>6. RecordMatches(s)' /\ CleanRecord(s)'
    BY <2>1, <2>3, <2>4 DEF RecordMatches, CleanRecord
  <2> QED BY <1>7, <2>3, <2>5, <2>6, NoJobType
<1>9. CASE jobs[s].next # Len(jobs[s].found)
  <2> DEFINE j == [jobs[s] EXCEPT !.at = "task", !.next = jobs[s].next + 1, !.failed = failed]
             rec == [scans[s] EXCEPT !.stages = stages]
  <2>1. jobs' = [jobs EXCEPT ![s] = j] /\ scans' = [scans EXCEPT ![s] = rec]
    BY <1>9 DEF NextRepository
  <2>2. jobs[s].next \in Nat /\ jobs[s].found \in Seq(Repos \cup {CloudRepo})
    BY <1>1 DEF Job
  <2>3. /\ j \in Job /\ j.at = "task" /\ j.next = jobs[s].next + 1 /\ j.failed = failed
        /\ j.found = jobs[s].found /\ j.wiped = jobs[s].wiped
    <3>1. PICK next \in Nat : next = jobs[s].next + 1
      BY <2>2
    <3>2. j = [jobs[s] EXCEPT !.at = "task", !.next = next, !.failed = failed]
      BY <3>1
    <3> HIDE DEF j
    <3> QED BY <1>1, <3>1, <3>2 DEF Job
  <2>4. /\ rec \in ScanRecord /\ rec.status = scans[s].status /\ rec.stages = stages
        /\ rec.options = scans[s].options
    BY <1>1 DEF ScanRecord
  <2> HIDE DEF j, rec
  <2>5. jobs'[s] = j /\ scans'[s] = rec
    <3>1. s \in DOMAIN jobs
      BY <1>1
    <3> QED BY <2>1, <3>1
  <2>6. RecordMatches(s)' /\ CleanRecord(s)'
    BY <1>1, <2>3, <2>4, <2>5 DEF RecordMatches, CleanRecord
  <2>7. /\ jobs[s].next \in DOMAIN jobs[s].found
        /\ IF scans[s].options.scope = "cloud" THEN jobs[s].found = <<CloudRepo>>
           ELSE jobs[s].found \in Seq(Repos)
        /\ tasks[s].repo = jobs[s].found[jobs[s].next]
    BY <1>1 DEF Aims
  <2>8. jobs[s].next + 1 \in DOMAIN jobs[s].found
    <3>1. DOMAIN jobs[s].found = 1..Len(jobs[s].found) /\ Len(jobs[s].found) \in Nat
      BY <2>2, LenProperties
    <3> QED BY <1>9, <2>2, <2>7, <3>1
  <2>9. Aims(s)'
    BY <2>3, <2>4, <2>5, <2>7, <2>8 DEF Aims
  <2>10. StagesOK(s)'
    <3>1. ASSUME NEW n \in StageNames, ~failed PROVE StageOK(s, n)'
      <4>1. stages[n] # "failed" /\ stages[n] # "running"
        BY <3>1
      <4> QED BY <2>3, <2>4, <2>5, <4>1 DEF StageOK
    <3> QED BY <2>3, <2>5, <3>1 DEF StagesOK
  <2>11. ScanStored(s)'
    <3>1. SUFFICES ASSUME ~lost, ~jobs[s].wiped PROVE ScanStored(s)'
      BY <2>3, <2>5 DEF ScanStored
    <3>2. /\ ~deleting
          /\ ~jobs[s].failed =>
                \A i \in DOMAIN jobs[s].found :
                    i < jobs[s].next /\ jobs[s].found[i] \in Repos => UpToDate(jobs[s].found[i])
      BY <1>1, <3>1 DEF ScanStored
    <3>3. ASSUME ~failed, NEW i \in DOMAIN jobs[s].found, i < jobs[s].next + 1,
                 jobs[s].found[i] \in Repos
          PROVE  UpToDate(jobs[s].found[i])
      <4>1. i \in Nat
        BY <2>2, LenProperties
      <4>2. CASE i < jobs[s].next
        BY <3>2, <3>3, <4>2
      <4>3. CASE i = jobs[s].next
        BY <2>7, <3>1, <3>3, <4>3
      <4> QED BY <2>2, <3>3, <4>1, <4>2, <4>3
    <3>4. \A r : UpToDate(r) => clone'[r] # 0 /\ stored'[r] = clone'[r]
      BY DEF UpToDate
    <3> QED BY <2>3, <2>5, <3>2, <3>3, <3>4 DEF ScanStored, UpToDate
  <2> QED BY <1>7, <2>1, <2>3, <2>4, <2>6, <2>9, <2>10, <2>11 DEF ScanOK
<1> QED BY <1>8, <1>9

LEMMA TaskReturnedKeeps ==
    ASSUME IInv, NEW s \in DOMAIN scans, TaskReturned(s)
    PROVE  IInv'
<1> DEFINE rec == scans[s]
           stages == IF rec.options.scope = "cloud" THEN rec.stages
                     ELSE NotReported(rec.options, tasks[s].report, rec.stages)
<1>1. /\ jobs[s].at = "process" /\ tasks[s].at = "returned"
      /\ NextRepository(s, stages, jobs[s].failed) /\ tasks' = [tasks EXCEPT ![s] = NoTask]
      /\ UNCHANGED <<remote, clone, runs, stored, featured, lost, deleting>>
  BY DEF TaskReturned
<1>2. /\ rec \in ScanRecord /\ tasks[s] \in Task /\ jobs[s] \in Job
      /\ Aims(s) /\ ScanStored(s) /\ StagesOK(s) /\ ReportOK(tasks[s])
  BY ScanType DEF ScanOK
<1>3. /\ rec.stages \in [StageNames -> StageStatus] /\ rec.options \in ScanOptions
      /\ tasks[s].report \in [StageNames -> {"none", "running", "completed"}]
      /\ jobs[s].failed \in BOOLEAN
  BY <1>2 DEF ScanRecord, Task, Job
<1>4. stages \in [StageNames -> StageStatus]
  BY <1>3 DEF NotReported, StageStatus
<1>5. tasks[s].options.scope = "cloud" <=> rec.options.scope = "cloud"
  BY <1>1, <1>2, <1>3, TaskOptionsResult DEF Aims
<1>6. ASSUME ~jobs[s].failed, NEW n \in StageNames
      PROVE  stages[n] \notin {"failed", "running"}
  <2>1. StageOK(s, n)
    BY <1>1, <1>2, <1>6 DEF StagesOK
  <2>2. /\ n \in {"Code Discovery", "Cloud Discovery", "Correlation", "Security Analysis"}
        /\ tasks[s].report[n] \in {"none", "running", "completed"}
    BY <1>3 DEF StageNames
  <2>3. /\ tasks[s].report["Code Discovery"] # "running"
        /\ tasks[s].report["Cloud Discovery"] # "running"
        /\ tasks[s].report["Security Analysis"] # "running"
        /\ rec.options.scope # "cloud" => tasks[s].report["Code Discovery"] = "completed"
        /\ tasks[s].report["Correlation"] = "running" => rec.options.scope # "cloud"
    BY <1>1, <1>2, <1>5 DEF ReportOK, AtWork
  <2>4. /\ rec.stages[n] # "failed"
        /\ tasks[s].report[n] # "none" => rec.stages[n] = tasks[s].report[n]
        /\ tasks[s].report[n] = "none" /\ rec.stages[n] = "running" =>
              n = "Code Discovery" /\ rec.options.scope # "cloud"
    BY <1>1, <2>1 DEF StageOK
  <2>5. CASE rec.options.scope = "cloud"
    BY <2>2, <2>3, <2>4, <2>5
  <2>6. CASE rec.options.scope # "cloud"
    <3>1. stages[n] = CASE n = "Cloud Discovery" /\ rec.options.cloud
                           /\ tasks[s].report[n] # "completed" -> "skipped"
                        [] n = "Correlation" /\ tasks[s].report[n] # "completed" -> "completed"
                        [] OTHER -> rec.stages[n]
      BY <2>6 DEF NotReported
    <3>2. stages[n] \in {"skipped", "completed"} \/
              (stages[n] = rec.stages[n] /\
                  (n = "Correlation" => tasks[s].report[n] = "completed"))
      BY <3>1
    <3> HIDE DEF stages
    <3> QED BY <2>2, <2>3, <2>4, <2>6, <3>2
  <2> QED BY <2>5, <2>6
<1>7. ~lost /\ ~jobs[s].wiped /\ tasks[s].repo \in Repos => UpToDate(tasks[s].repo)
  BY <1>1, <1>2 DEF ScanStored
<1> HIDE DEF stages
<1> QED BY <1>1, <1>3, <1>4, <1>6, <1>7, NextKeeps

LEMMA TaskThrewKeeps ==
    ASSUME IInv, NEW s \in DOMAIN scans, TaskThrew(s)
    PROVE  IInv'
<1> DEFINE rec == scans[s]
           stages == IF rec.options.scope = "cloud"
                     THEN UpdateStage(rec.stages, "Cloud Discovery", "failed")
                     ELSE FailRunning(rec.stages)
<1>1. /\ jobs[s].at = "process" /\ NextRepository(s, stages, TRUE)
      /\ tasks' = [tasks EXCEPT ![s] = NoTask]
      /\ UNCHANGED <<remote, clone, runs, stored, featured, lost, deleting>>
  BY DEF TaskThrew
<1>2. rec.stages \in [StageNames -> StageStatus]
  BY ScanType DEF ScanRecord
<1>3. stages \in [StageNames -> StageStatus]
  <2>1. UpdateStage(rec.stages, "Cloud Discovery", "failed") \in [StageNames -> StageStatus]
    BY <1>2, UpdateStageResult DEF StageNames, StageStatus
  <2>2. FailRunning(rec.stages) \in [StageNames -> StageStatus]
    BY <1>2 DEF FailRunning, StageStatus
  <2> QED BY <2>1, <2>2
<1> HIDE DEF stages
<1> QED BY <1>1, <1>3, NextKeeps

-----------------------------------------------------------------------------
(* What goes on beside the scans.                                          *)

\* A sequence of which every element is replaced.
LEMMA MapResult ==
    ASSUME NEW S, NEW T, NEW q \in Seq(S), NEW p, DOMAIN p = DOMAIN q,
           p = [i \in DOMAIN q |-> p[i]], \A i \in DOMAIN q : p[i] \in T
    PROVE  p \in Seq(T)
<1>1. DOMAIN q = 1..Len(q) /\ Len(q) \in Nat
  BY LenProperties
<1>2. p \in [1..Len(q) -> T]
  BY <1>1
<1> QED BY <1>1, <1>2, SeqDef

LEMMA DeleteEntitiesKeeps ==
    ASSUME IInv, DeleteEntities
    PROVE  IInv'
<1>1. TypeOK /\ RecordsMatch /\ CommitsAdvance /\ CompletedScanIsClean
  BY DEF IInv
<1>2. /\ deleting' = TRUE /\ stored' = [r \in Repos |-> 0] /\ featured' = [r \in Repos |-> 0]
      /\ jobs' = [s \in DOMAIN jobs |-> IF IsActive(s) THEN [jobs[s] EXCEPT !.wiped = TRUE]
                                        ELSE jobs[s]]
      /\ UNCHANGED <<remote, clone, runs, tasks, lost, scans>>
  BY DEF DeleteEntities
<1>3. 0 \in Commits /\ Commits \subseteq Nat
  BY CommitAssumption DEF Commits
<1>4. ASSUME NEW s \in DOMAIN jobs
      PROVE  /\ jobs'[s] \in Job /\ jobs'[s].at = jobs[s].at
             /\ jobs'[s].found = jobs[s].found /\ jobs'[s].next = jobs[s].next
             /\ jobs'[s].failed = jobs[s].failed
             /\ jobs[s].at # "done" => jobs'[s].wiped
  <2>1. jobs[s] \in Job
    BY <1>1, <1>4 DEF TypeOK
  <2>2. jobs[s].at # "done" => IsActive(s)
    BY <1>1, <1>4 DEF RecordsMatch, RecordMatches, IsActive
  <2>3. jobs'[s] = IF IsActive(s) THEN [jobs[s] EXCEPT !.wiped = TRUE] ELSE jobs[s]
    BY <1>2
  <2> QED BY <2>1, <2>2, <2>3 DEF Job
<1>5. jobs' \in Seq(Job) /\ DOMAIN jobs' = DOMAIN jobs
  <2>1. jobs \in Seq(Job) /\ DOMAIN jobs' = DOMAIN jobs
    BY <1>1, <1>2 DEF TypeOK
  <2>2. jobs' = [i \in DOMAIN jobs |-> jobs'[i]]
    BY <1>2
  <2> QED BY <1>4, <2>1, <2>2, MapResult
<1>6. TypeOK'
  BY <1>1, <1>2, <1>3, <1>5 DEF TypeOK, TaskTypeOK
<1>7. RecordsMatch' /\ CompletedScanIsClean'
  BY <1>1, <1>2, <1>4, <1>5 DEF RecordsMatch, RecordMatches, CompletedScanIsClean
<1>8. CommitsAdvance'
  <2>1. ASSUME NEW r \in Repos
        PROVE  stored'[r] <= remote[r] /\ clone[r] <= remote[r] /\ stored'[r] <= clone[r]
    <3>1. remote[r] \in Nat /\ clone[r] \in Nat /\ clone[r] <= remote[r] /\ stored'[r] = 0
      BY <1>1, <1>2, <1>3 DEF TypeOK, TaskTypeOK, CommitsAdvance
    <3> QED BY <3>1
  <2> QED BY <1>2, <2>1 DEF CommitsAdvance
<1>9. \A k \in Scans : TaskOK(tasks[k])' /\ ReportOK(tasks[k])'
  BY <1>2, ZenonT(60) DEF IInv, TaskOK, ReportOK, AtWork
<1>10. ASSUME NEW s \in DOMAIN scans PROVE ScanOK(s)'
  <2>1. s \in DOMAIN jobs /\ Aims(s) /\ StagesOK(s)
    BY <1>1, <1>10 DEF IInv, ScanOK, RecordsMatch
  <2>2. Aims(s)'
    BY <1>2, <1>4, <2>1 DEF Aims
  <2>3. StagesOK(s)'
    <3>1. ASSUME NEW n \in StageNames PROVE StageOK(s, n) => StageOK(s, n)'
      BY <1>2, <1>4, <2>1 DEF StageOK
    <3> QED BY <1>4, <2>1, <3>1 DEF StagesOK
  <2>4. ScanStored(s)'
    BY <1>4, <2>1 DEF ScanStored
  <2> QED BY <2>2, <2>3, <2>4 DEF ScanOK
<1>11. BaselinesStored'
  BY <1>2 DEF BaselinesStored
<1> QED BY <1>2, <1>6, <1>7, <1>8, <1>9, <1>10, <1>11 DEF IInv

LEMMA DeleteRunsKeeps ==
    ASSUME IInv, DeleteRuns
    PROVE  IInv'
<1>1. /\ TypeOK /\ RecordsMatch /\ CommitsAdvance /\ CompletedScanIsClean
      /\ \A k \in Scans : TaskOK(tasks[k]) /\ ReportOK(tasks[k])
  BY DEF IInv
<1>2. /\ deleting /\ deleting' = FALSE /\ runs' = [i \in DOMAIN runs |-> DeletedRun]
      /\ lost' = (lost \/ \E k \in Scans : tasks[k].at = "create" /\ tasks[k].since # 0)
      /\ UNCHANGED <<remote, clone, stored, featured, tasks, scans, jobs>>
  BY DEF DeleteRuns
<1>3. 0 \in Commits /\ Commits \subseteq Nat
  BY CommitAssumption DEF Commits
<1>4. DeletedRun \in Run /\ DeletedRun.status = "deleted"
  BY <1>3 DEF DeletedRun, Run
<1>5. /\ runs' \in Seq(Run) /\ DOMAIN runs' = DOMAIN runs
      /\ \A i \in DOMAIN runs : runs'[i].status = "deleted"
  <2>1. runs \in Seq(Run) /\ DOMAIN runs' = DOMAIN runs
    BY <1>1, <1>2 DEF TypeOK, TaskTypeOK
  <2>2. runs' = [i \in DOMAIN runs |-> runs'[i]] /\ \A i \in DOMAIN runs : runs'[i] = DeletedRun
    BY <1>2
  <2> QED BY <1>4, <2>1, <2>2, MapResult
<1>6. TypeOK'
  BY <1>1, <1>2, <1>5 DEF TypeOK, TaskTypeOK
<1>7. RecordsMatch' /\ CompletedScanIsClean' /\ CommitsAdvance'
  BY <1>1, <1>2 DEF RecordsMatch, RecordMatches, CompletedScanIsClean, CommitsAdvance
<1>8. \A k \in Scans : TaskOK(tasks[k])' /\ ReportOK(tasks[k])'
  BY <1>1, <1>2, <1>5, ZenonT(60) DEF TaskOK, ReportOK, AtWork
<1>9. ASSUME NEW s \in DOMAIN scans PROVE ScanOK(s)'
  <2>1. Aims(s) /\ StagesOK(s) /\ ScanStored(s)
    BY ScanType DEF ScanOK
  <2>2. Aims(s)'
    BY <1>2, <2>1 DEF Aims
  <2>3. StagesOK(s)'
    <3>1. ASSUME NEW n \in StageNames PROVE StageOK(s, n) => StageOK(s, n)'
      BY <1>2 DEF StageOK
    <3> QED BY <1>2, <2>1, <3>1 DEF StagesOK
  <2>4. ScanStored(s)'
    BY <1>2, <2>1 DEF ScanStored
  <2> QED BY <2>2, <2>3, <2>4 DEF ScanOK
<1>10. BaselinesStored'
  <2>1. SUFFICES ASSUME ~lost' PROVE BaselinesStored'
    BY DEF BaselinesStored
  <2>2. ASSUME NEW k \in Scans PROVE TaskBaseline(tasks[k])'
    <3> DEFINE t == tasks[k]
    <3>1. SUFFICES ASSUME t.repo \in Repos PROVE TaskBaseline(tasks[k])'
      BY <1>2 DEF TaskBaseline
    <3>2. ~HasRow(t)'
      BY <1>1, <1>2, <1>5 DEF HasRow, TaskOK
    <3>3. t.at = "create" => t.since = 0
      BY <1>2, <2>1
    <3>4. t.at = "create" => t.since <= stored[t.repo]
      <4>1. stored[t.repo] \in Nat
        BY <1>1, <1>3, <3>1 DEF TypeOK, TaskTypeOK
      <4> QED BY <3>3, <4>1
    <3> QED BY <1>2, <3>2, <3>4 DEF TaskBaseline
  <2> QED BY <1>5, <2>2 DEF BaselinesStored
<1> QED BY <1>2, <1>6, <1>7, <1>8, <1>9, <1>10 DEF IInv

LEMMA RestartKeeps ==
    ASSUME IInv, Restart
    PROVE  IInv'
<1>1. /\ TypeOK /\ RecordsMatch /\ CommitsAdvance /\ BaselinesStored
  BY DEF IInv
<1>2. /\ scans' = [s \in DOMAIN scans |-> Forgotten] /\ jobs' = [s \in DOMAIN jobs |-> NoJob]
      /\ tasks' = [k \in Scans |-> NoTask]
      /\ clone' = clone \/ clone' = [r \in Repos |-> 0]
      /\ UNCHANGED <<remote, runs, stored, featured, lost, deleting>>
  BY DEF Restart
<1>3. 0 \in Commits /\ Commits \subseteq Nat
  BY CommitAssumption DEF Commits
<1>4. /\ Forgotten \in ScanRecord /\ Forgotten.status = "gone"
  BY DEF Forgotten, CreateScanRecord, ScanRecord, ScanOptions, StageStatus
<1>5. /\ NoTask \in Task /\ NoTask.at = "setup" /\ NoTask.run = 0
      /\ NoTask.report = [n \in StageNames |-> "none"]
  BY <1>3 DEF NoTask, Task, TaskOptions
<1>6. ReportOK(NoTask)
  <2>1. \A n \in StageNames : NoTask.report[n] = "none"
    BY <1>5
  <2> QED BY <1>5, <2>1 DEF ReportOK, StageNames, AtWork
<1>7. /\ scans' \in Seq(ScanRecord) /\ DOMAIN scans' = DOMAIN scans
      /\ \A s \in DOMAIN scans : scans'[s].status = "gone"
  <2>1. scans \in Seq(ScanRecord) /\ DOMAIN scans' = DOMAIN scans
    BY <1>1, <1>2 DEF TypeOK
  <2>2. /\ scans' = [i \in DOMAIN scans |-> scans'[i]]
        /\ \A i \in DOMAIN scans : scans'[i] = Forgotten
    BY <1>2
  <2> QED BY <1>4, <2>1, <2>2, MapResult
<1>8. /\ jobs' \in Seq(Job) /\ DOMAIN jobs' = DOMAIN jobs
      /\ \A s \in DOMAIN jobs : jobs'[s].at = "done"
  <2>1. jobs \in Seq(Job) /\ DOMAIN jobs' = DOMAIN jobs
    BY <1>1, <1>2 DEF TypeOK
  <2>2. /\ jobs' = [i \in DOMAIN jobs |-> jobs'[i]]
        /\ \A i \in DOMAIN jobs : jobs'[i] = NoJob
    BY <1>2
  <2>3. NoJob.at = "done"
    BY DEF NoJob
  <2> QED BY <2>1, <2>2, <2>3, NoJobType, MapResult
<1>9. tasks' \in [Scans -> Task] /\ clone' \in [Repos -> Commits]
  BY <1>1, <1>2, <1>3, <1>5 DEF TypeOK, TaskTypeOK
<1>10. TypeOK'
  BY <1>1, <1>2, <1>7, <1>8, <1>9 DEF TypeOK, TaskTypeOK
<1>11. RecordsMatch' /\ CompletedScanIsClean'
  BY <1>1, <1>7, <1>8 DEF RecordsMatch, RecordMatches, CompletedScanIsClean
<1>12. CommitsAdvance'
  <2>1. ASSUME NEW r \in Repos
        PROVE  /\ stored[r] <= remote[r] /\ clone'[r] <= remote[r]
               /\ clone'[r] # 0 => stored[r] <= clone'[r]
    <3>1. /\ remote[r] \in Nat /\ stored[r] \in Nat /\ clone[r] \in Nat
          /\ stored[r] <= remote[r] /\ clone[r] <= remote[r]
          /\ clone[r] # 0 => stored[r] <= clone[r]
      BY <1>1, <1>3 DEF TypeOK, TaskTypeOK, CommitsAdvance
    <3>2. clone'[r] = clone[r] \/ clone'[r] = 0
      BY <1>2
    <3> QED BY <3>1, <3>2
  <2> QED BY <1>2, <2>1 DEF CommitsAdvance
<1>13. ASSUME NEW k \in Scans
       PROVE  /\ TaskOK(tasks[k])' /\ ReportOK(tasks[k])' /\ TaskBaseline(tasks[k])'
  <2>1. tasks'[k] = NoTask
    BY <1>2
  <2>2. TaskOK(tasks[k])'
    BY <1>5, <2>1 DEF TaskOK, AtWork
  <2>3. ReportOK(tasks[k])'
    BY <1>6, <2>1 DEF ReportOK, AtWork
  <2>4. TaskBaseline(tasks[k])'
    BY <1>5, <2>1 DEF TaskBaseline, Extracted
  <2> QED BY <2>2, <2>3, <2>4
<1>14. \A s \in DOMAIN scans' : ScanOK(s)'
  <2>1. DOMAIN scans = DOMAIN jobs
    BY <1>1 DEF RecordsMatch
  <2>2. ASSUME NEW s \in DOMAIN scans' PROVE jobs'[s].at = "done"
    BY <1>7, <1>8, <2>1, <2>2
  <2> QED BY <2>2, DoneIsOK
<1>15. BaselinesStored'
  BY <1>1, <1>2, <1>13 DEF BaselinesStored
<1> QED BY <1>10, <1>11, <1>12, <1>13, <1>14, <1>15 DEF IInv

LEMMA StutterKeeps ==
    ASSUME IInv, UNCHANGED vars
    PROVE  IInv'
<1>1. /\ UNCHANGED <<remote, clone, runs, stored, featured, tasks, lost>>
      /\ UNCHANGED <<scans, jobs, deleting>>
  BY DEF vars, taskVars
<1>2. TypeOK' /\ RecordsMatch' /\ CommitsAdvance' /\ CompletedScanIsClean'
  BY <1>1 DEF IInv, TypeOK, TaskTypeOK, RecordsMatch, RecordMatches, CommitsAdvance,
              CompletedScanIsClean
<1>3. Advances
  BY <1>1, NothingStored
<1>4. \A s \in DOMAIN scans : ScanOK(s)'
  <2>1. ASSUME NEW s \in DOMAIN scans
        PROVE  jobs'[s] = jobs[s] /\ scans'[s] = scans[s] /\ tasks'[s] = tasks[s]
    BY <1>1
  <2> QED BY <1>2, <1>3, <2>1, ScanFrame
<1> QED BY <1>1, <1>2, <1>3, <1>4, TasksStay DEF IInv

-----------------------------------------------------------------------------
(* The theorems.                                                           *)

LEMMA InitHolds == Init => IInv
<1> SUFFICES ASSUME Init PROVE IInv
  OBVIOUS
<1>1. /\ remote = [r \in Repos |-> 1] /\ clone = [r \in Repos |-> 0] /\ runs = << >>
      /\ stored = [r \in Repos |-> 0] /\ featured = [r \in Repos |-> 0]
      /\ tasks = [k \in Scans |-> NoTask] /\ lost = FALSE
      /\ scans = << >> /\ jobs = << >> /\ deleting = FALSE
  BY DEF Init, TaskInit
<1>2. 0 \in Commits /\ 1 \in Commits \ {0} /\ Commits \subseteq Nat
  BY CommitAssumption DEF Commits
<1>3. /\ NoTask \in Task /\ NoTask.at = "setup" /\ NoTask.run = 0
      /\ NoTask.report = [n \in StageNames |-> "none"]
  BY <1>2 DEF NoTask, Task, TaskOptions
<1>4. DOMAIN scans = {} /\ DOMAIN jobs = {} /\ DOMAIN runs = {}
  BY <1>1
<1>5. TypeOK
  <2>1. runs \in Seq(Run) /\ scans \in Seq(ScanRecord) /\ jobs \in Seq(Job)
    BY <1>1
  <2> QED BY <1>1, <1>2, <1>3, <2>1 DEF TypeOK, TaskTypeOK
<1>6. RecordsMatch /\ CompletedScanIsClean
  BY <1>4 DEF RecordsMatch, CompletedScanIsClean
<1>7. CommitsAdvance
  BY <1>1 DEF CommitsAdvance
<1>8. ASSUME NEW k \in Scans
      PROVE  TaskOK(tasks[k]) /\ ReportOK(tasks[k]) /\ TaskBaseline(tasks[k])
  <2>1. tasks[k] = NoTask
    BY <1>1
  <2>2. \A n \in StageNames : NoTask.report[n] = "none"
    BY <1>3
  <2>3. TaskOK(tasks[k])
    BY <1>3, <2>1 DEF TaskOK, AtWork
  <2>4. ReportOK(tasks[k])
    BY <1>3, <2>1, <2>2 DEF ReportOK, StageNames, AtWork
  <2>5. TaskBaseline(tasks[k])
    BY <1>3, <2>1 DEF TaskBaseline, Extracted
  <2> QED BY <2>3, <2>4, <2>5
<1>9. BaselinesStored
  BY <1>4, <1>8 DEF BaselinesStored
<1> QED BY <1>4, <1>5, <1>6, <1>7, <1>8, <1>9 DEF IInv

LEMMA NextKeepsAll == IInv /\ [Next]_vars => IInv'
<1> SUFFICES ASSUME IInv, [Next]_vars PROVE IInv'
  OBVIOUS
<1>1. ASSUME NEW o \in Options, Start(o) PROVE IInv'
  BY <1>1, StartKeeps
<1>2. ASSUME NEW s \in DOMAIN scans, Step(s) PROVE IInv'
  <2>1. CASE FetchIntegrations(s)
    BY <2>1, FetchKeeps
  <2>2. CASE OrchestrationFails(s)
    BY <2>2, OrchestrationFailsKeeps
  <2>3. CASE Discover(s)
    BY <2>3, DiscoverKeeps
  <2>4. CASE SetUpTask(s)
    BY <2>4, SetUpTaskKeeps
  <2>5. CASE RunTask(s)
    BY <2>5, RunTaskKeeps
  <2>6. CASE TaskReturned(s)
    BY <2>6, TaskReturnedKeeps
  <2>7. CASE TaskThrew(s)
    BY <2>7, TaskThrewKeeps
  <2> QED BY <1>2, <2>1, <2>2, <2>3, <2>4, <2>5, <2>6, <2>7 DEF Step
<1>3. ASSUME NEW r \in Repos, Push(r), UNCHANGED <<scans, jobs, deleting>> PROVE IInv'
  BY <1>3, PushKeeps
<1>4. CASE DeleteEntities
  BY <1>4, DeleteEntitiesKeeps
<1>5. CASE DeleteRuns
  BY <1>5, DeleteRunsKeeps
<1>6. CASE Restart
  BY <1>6, RestartKeeps
<1>7. CASE UNCHANGED vars
  BY <1>7, StutterKeeps
<1> QED BY <1>1, <1>2, <1>3, <1>4, <1>5, <1>6, <1>7 DEF Next, Environment

LEMMA InvariantHolds == Spec => []IInv
BY InitHolds, NextKeepsAll, PTL DEF Spec

\* Every reachable state is well formed.
THEOREM ScansTypeCorrect == Spec => []TypeOK
<1>1. IInv => TypeOK
  BY DEF IInv
<1> QED BY <1>1, InvariantHolds, PTL

\* Whatever a stage reports, a restart wipes or a repository's failure leaves
\* behind, a scan that has completed shows no stage as failed or running: the
\* callbacks of the tasks (OnStageChange) and the stages set after a task
\* (NotReported) leave none, for any repositories and any options.
THEOREM CompletedScansAreClean == Spec => []CompletedScanIsClean
<1>1. IInv => CompletedScanIsClean
  BY DEF IInv
<1> QED BY <1>1, InvariantHolds, PTL

LEMMA InvBaselines == IInv => BaselineIsStored
<1> SUFFICES ASSUME IInv, ~lost, ~deleting, NEW r \in Repos
             PROVE  LatestCompleted(r) <= stored[r]
  BY DEF BaselineIsStored
<1>1. runs \in Seq(Run) /\ stored[r] \in Nat
  BY DEF IInv, TypeOK, TaskTypeOK, Commits
<1>2. \A i \in DOMAIN runs : runs[i].status = "completed" /\ runs[i].repo \in Repos =>
                                runs[i].since <= stored[runs[i].repo]
  BY DEF IInv, BaselinesStored
<1> QED BY <1>1, <1>2, LatestIsARow

\* The commit an incremental run starts from (findLatestCompleted) is stored:
\* no failed, skipped or abandoned run, and no deletion of the assets, moves
\* it beyond what the store holds, except where a write was lost.
THEOREM BaselinesAreStored == Spec => []BaselineIsStored
BY InvBaselines, InvariantHolds, PTL

\* A step of a scan leaves the other records alone.
LEMMA OtherRecords ==
    ASSUME NEW z, Step(z), NEW s \in DOMAIN scans, s # z
    PROVE  scans'[s] = scans[s]
<1>1. CASE FetchIntegrations(z)
  BY <1>1 DEF FetchIntegrations, End
<1>2. CASE OrchestrationFails(z)
  BY <1>2 DEF OrchestrationFails, End
<1>3. CASE Discover(z)
  <2>1. PICK found \in Discoveries :
            IF found = << >>
            THEN End(z, "completed",
                     MarkQueuedStages(
                         UpdateStage(scans[z].stages, "Code Discovery", "completed"),
                         scans[z].options))
            ELSE scans' = [scans EXCEPT ![z].stages = MarkQueuedStages(@, scans[z].options)]
    BY <1>3 DEF Discover
  <2> QED BY <2>1 DEF End
<1>4. CASE SetUpTask(z)
  BY <1>4 DEF SetUpTask
<1>5. CASE RunTask(z)
  BY <1>5 DEF RunTask, OnStageChange
<1>6. CASE TaskReturned(z)
  BY <1>6 DEF TaskReturned, NextRepository, End
<1>7. CASE TaskThrew(z)
  BY <1>7 DEF TaskThrew, NextRepository, End
<1> QED BY <1>1, <1>2, <1>3, <1>4, <1>5, <1>6, <1>7 DEF Step

\* The step that completes a scan.
LEMMA CompletingStep ==
    ASSUME IInv, Next, NEW s \in DOMAIN scans,
           scans[s].status = "running", scans'[s].status = "completed"
    PROVE  Discover(s) \/ (TaskReturned(s) /\ ~jobs[s].failed
                               /\ jobs[s].next = Len(jobs[s].found))
<1>1. scans \in Seq(ScanRecord) /\ scans[s] \in ScanRecord
  BY ScanType DEF IInv, TypeOK
<1>2. ASSUME NEW o \in Options, Start(o) PROVE FALSE
  <2>1. DOMAIN scans = 1..Len(scans)
    BY <1>1, LenProperties
  <2>2. PICK rec : scans' = Append(scans, rec)
    BY <1>2 DEF Start
  <2>3. scans'[s] = scans[s]
    BY <1>1, <2>1, <2>2
  <2> QED BY <2>3
<1>3. ASSUME NEW z \in DOMAIN scans, Step(z), z # s PROVE FALSE
  <2>1. scans'[s] = scans[s]
    BY <1>3, OtherRecords
  <2> QED BY <2>1
<1>4. ASSUME Environment PROVE FALSE
  <2>1. scans' = scans \/ scans' = [z \in DOMAIN scans |-> Forgotten]
    BY <1>4 DEF Environment, DeleteEntities, DeleteRuns, Restart
  <2>2. Forgotten.status = "gone"
    BY DEF Forgotten, CreateScanRecord
  <2>3. scans'[s] = scans[s] \/ scans'[s] = Forgotten
    BY <2>1
  <2> QED BY <2>2, <2>3
<1>5. Step(s)
  BY <1>2, <1>3, <1>4 DEF Next
<1>6. ASSUME NEW status, NEW stages, End(s, status, stages) PROVE status = "completed"
  BY <1>1, <1>6 DEF End, ScanRecord
<1>7. ASSUME NEW stages, scans' = [scans EXCEPT ![s].stages = stages] PROVE FALSE
  BY <1>1, <1>7 DEF ScanRecord
<1>8. ~FetchIntegrations(s)
  <2> SUFFICES ASSUME FetchIntegrations(s) PROVE FALSE
    OBVIOUS
  <2>1. \/ scans' = scans
        \/ scans' = [scans EXCEPT ![s].stages = MarkQueuedStages(scans[s].stages,
                                                                 scans[s].options)]
        \/ End(s, "failed", UpdateStage(scans[s].stages, "Cloud Discovery", "failed"))
    BY DEF FetchIntegrations
  <2>2. scans' # scans
    OBVIOUS
  <2> QED BY <1>6, <1>7, <2>1, <2>2
<1>9. ~OrchestrationFails(s)
  BY <1>6 DEF OrchestrationFails
<1>10. ~SetUpTask(s)
  BY DEF SetUpTask
<1>11. ~RunTask(s)
  BY <1>7 DEF RunTask, OnStageChange
<1>12. ASSUME NEW stages, NEW failed, NextRepository(s, stages, failed)
       PROVE  ~failed /\ jobs[s].next = Len(jobs[s].found)
  <2>1. jobs[s].next = Len(jobs[s].found)
    <3>1. jobs[s].next # Len(jobs[s].found) => scans' = [scans EXCEPT ![s].stages = stages]
      BY <1>12 DEF NextRepository
    <3> QED BY <1>7, <3>1
  <2>2. FinalStatus(failed) = "completed"
    BY <1>6, <1>12, <2>1 DEF NextRepository
  <2> QED BY <2>1, <2>2 DEF FinalStatus
<1>13. ~TaskThrew(s)
  <2> SUFFICES ASSUME TaskThrew(s) PROVE FALSE
    OBVIOUS
  <2>1. PICK stages : NextRepository(s, stages, TRUE)
    BY DEF TaskThrew
  <2> QED BY <1>12, <2>1
<1>14. TaskReturned(s) => ~jobs[s].failed /\ jobs[s].next = Len(jobs[s].found)
  <2> SUFFICES ASSUME TaskReturned(s)
               PROVE  ~jobs[s].failed /\ jobs[s].next = Len(jobs[s].found)
    OBVIOUS
  <2>1. PICK stages : NextRepository(s, stages, jobs[s].failed)
    BY DEF TaskReturned
  <2> QED BY <1>12, <2>1
<1> QED BY <1>5, <1>8, <1>9, <1>10, <1>11, <1>13, <1>14 DEF Step

LEMMA CompletedIsStored ==
    ASSUME IInv, Next, NEW s \in DOMAIN scans,
           scans[s].status = "running", scans'[s].status = "completed",
           ~lost, ~jobs[s].wiped,
           NEW i \in DOMAIN jobs[s].found, jobs[s].found[i] \in Repos
    PROVE  stored[jobs[s].found[i]] = clone[jobs[s].found[i]]
<1>1. jobs[s] \in Job /\ Aims(s) /\ ScanStored(s)
  BY ScanType DEF ScanOK
<1>2. CASE Discover(s)
  <2>1. jobs[s].found = << >>
    BY <1>1, <1>2 DEF Discover, Aims
  <2> QED BY <2>1
<1>3. CASE TaskReturned(s) /\ ~jobs[s].failed /\ jobs[s].next = Len(jobs[s].found)
  <2>1. jobs[s].at = "process" /\ tasks[s].at = "returned"
    BY <1>3 DEF TaskReturned
  <2>2. /\ tasks[s].repo = jobs[s].found[jobs[s].next]
        /\ tasks[s].repo \in Repos => UpToDate(tasks[s].repo)
        /\ \A k \in DOMAIN jobs[s].found :
              k < jobs[s].next /\ jobs[s].found[k] \in Repos => UpToDate(jobs[s].found[k])
    BY <1>1, <1>3, <2>1 DEF Aims, ScanStored
  <2>3. i \in Nat /\ jobs[s].next \in Nat /\ i <= jobs[s].next
    <3>1. jobs[s].found \in Seq(Repos \cup {CloudRepo})
      BY <1>1 DEF Job
    <3>2. DOMAIN jobs[s].found = 1..Len(jobs[s].found) /\ Len(jobs[s].found) \in Nat
      BY <3>1, LenProperties
    <3> QED BY <1>3, <3>2
  <2>4. CASE i < jobs[s].next
    BY <2>2, <2>4 DEF UpToDate
  <2>5. CASE i = jobs[s].next
    BY <2>2, <2>5 DEF UpToDate
  <2> QED BY <2>3, <2>4, <2>5
<1> QED BY <1>2, <1>3, CompletingStep

\* A scan reported as completed has stored every repository it discovered as
\* its clone has it (anyRepoFailed, SkipUnchanged), unless a write was lost or
\* the assets were deleted meanwhile; for any number of repositories.
THEOREM CompletedScansStoredAll == Spec => CompletedScanStoredAll
<1>1. IInv /\ [Next]_vars =>
          [\A s \in DOMAIN scans :
              /\ scans[s].status = "running" /\ scans'[s].status = "completed"
              /\ ~lost /\ ~jobs[s].wiped
              => \A i \in DOMAIN jobs[s].found : jobs[s].found[i] \in Repos =>
                    stored[jobs[s].found[i]] = clone[jobs[s].found[i]]]_vars
  BY CompletedIsStored
<1> QED BY <1>1, InvariantHolds, PTL DEF Spec, CompletedScanStoredAll
=============================================================================
