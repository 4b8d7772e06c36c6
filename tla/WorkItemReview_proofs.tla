------------------------ MODULE WorkItemReview_proofs ------------------------
(***************************************************************************)
(* What a user who waits may rely on, for any number of runs, exports and  *)
(* jobs in flight.  An update writes back the copy of the row that it read.*)
(* That is harmless because a run, up to its export, is alone, so its copy *)
(* is the row; and because exports, which are not alone, change only the   *)
(* export error, so that their copies are right about everything else.     *)
(***************************************************************************)
EXTENDS WorkItemReview, TLAPS

ExportJobs == {"export", "exportError", "manual"}

\* A job at a, about to make update j, is a run that has not come to its export.
Main(a, j) == ~(a \in {"idle", "export"} \/ j \in ExportJobs)

RowOK(r) ==
    /\ r \in Row
    /\ r.tasks = r.answers
    /\ r.status = "questionnaire_pending" <=> r.answers = 0
    /\ r.agent = "completed" => r.status = "tasks_acknowledged" /\ ~r.agentError

\* The copy differs from the row in the export error at most.
Agrees(b, r) ==
    /\ b.status = r.status /\ b.agent = r.agent /\ b.agentError = r.agentError
    /\ b.answers = r.answers /\ b.tasks = r.tasks

\* The job of one slot (where it is, its update, copy, draft and run) with row r.
SlotOK(a, j, b, d, n, r) ==
    /\ a \in {"idle", "queued", "agent", "check", "export", "read", "write"}
    /\ j \in Jobs /\ b \in Row /\ n \in Nat
    /\ d \in [tasks: Nat, outcome: Outcomes]
    /\ a \in {"idle", "queued", "agent", "export"} => j = "none"
    /\ a = "check" => j \in {"answers", "acknowledge"}
    /\ a \in {"read", "write"} => j # "none"
    /\ Main(a, j) => n # 0
    /\ a \in {"read", "write"} =>
          /\ j = "answers" => r.status = "questionnaire_pending" /\ d.tasks # 0
          /\ j = "acknowledge" => r.status = "questionnaire_answered"
          /\ j = "completed" => r.status = "tasks_acknowledged"
          /\ j \in {"export", "manual"} => d.tasks = r.tasks
    /\ a = "write" => IF j \in ExportJobs THEN Agrees(b, r) ELSE b = r

Arrays == /\ at = [s \in Slots |-> at[s]] /\ job = [s \in Slots |-> job[s]]
          /\ base = [s \in Slots |-> base[s]] /\ draft = [s \in Slots |-> draft[s]]
          /\ run = [s \in Slots |-> run[s]]

Jobwise == \A s \in Slots :
    SlotOK(at[s], job[s], base[s], draft[s], run[s], review)

Alone == \A s, t \in Slots : Main(at[s], job[s]) /\ t # s => at[t] = "idle"

IInv == Arrays /\ RowOK(review) /\ Jobwise /\ Alone /\ runs \in Nat
-----------------------------------------------------------------------------
(* A step changes one slot.                                                *)

Only(s) ==
    /\ Arrays'
    /\ \A t \in Slots \ {s} :
          /\ at'[t] = at[t] /\ job'[t] = job[t] /\ base'[t] = base[t]
          /\ draft'[t] = draft[t] /\ run'[t] = run[t]

LEMMA GotoOnly ==
    ASSUME Arrays, NEW s \in Slots, NEW a, NEW j, Goto(s, a, j),
           UNCHANGED <<base, draft, run>>
    PROVE  Only(s) /\ at'[s] = a /\ job'[s] = j
  BY DEF Arrays, Goto, Only

LEMMA LeaveOnly ==
    ASSUME Arrays, NEW s \in Slots, Leave(s)
    PROVE  /\ Only(s) /\ at'[s] = "idle" /\ job'[s] = "none" /\ run'[s] = 0
           /\ base'[s] = StartWorkItemReview /\ draft'[s] = NoDraft
  BY DEF Arrays, Leave, Goto, Only

LEMMA DraftOnly ==
    ASSUME Arrays, NEW s \in Slots, NEW a, NEW j, NEW d, Goto(s, a, j),
           draft' = [draft EXCEPT ![s] = d], UNCHANGED <<base, run>>
    PROVE  Only(s) /\ at'[s] = a /\ job'[s] = j /\ draft'[s] = d
  BY DEF Arrays, Goto, Only

LEMMA StartIsRow == RowOK(StartWorkItemReview) /\ StartWorkItemReview \in Row
  BY DEF RowOK, StartWorkItemReview, Row

\* A slot that is left has nothing to promise.
LEMMA IdleOK ==
    ASSUME NEW r \in Row
    PROVE  SlotOK("idle", "none", StartWorkItemReview, NoDraft, 0, r)
  BY StartIsRow DEF SlotOK, Jobs, NoDraft, Outcomes, Main

LEMMA OneSlot ==
    ASSUME IInv, NEW s \in Slots, Only(s), RowOK(review'), runs' \in Nat,
           SlotOK(at'[s], job'[s], base'[s], draft'[s], run'[s], review'),
           \A t \in Slots \ {s} :
               SlotOK(at[t], job[t], base[t], draft[t], run[t], review'),
           Main(at'[s], job'[s]) => \A t \in Slots \ {s} : at[t] = "idle",
           \A t \in Slots \ {s} : Main(at[t], job[t]) => at'[s] = "idle"
    PROVE  IInv'
<1>1. Arrays' /\ Jobwise'
  BY DEF Only, Jobwise
<1>2. Alone'
  BY DEF Only, Alone, IInv
<1> QED BY <1>1, <1>2 DEF IInv

\* The row stays, and the slot was at work before or nothing else is.
LEMMA SameRow ==
    ASSUME IInv, NEW s \in Slots, Only(s), UNCHANGED <<review, runs>>,
           SlotOK(at'[s], job'[s], base'[s], draft'[s], run'[s], review),
           Main(at'[s], job'[s]) => Main(at[s], job[s]),
           at[s] # "idle"
    PROVE  IInv'
<1>1. \A t \in Slots \ {s} :
          /\ SlotOK(at[t], job[t], base[t], draft[t], run[t], review)
          /\ Main(at[s], job[s]) => at[t] = "idle"
          /\ Main(at[t], job[t]) => at[s] = "idle"
  BY DEF IInv, Jobwise, Alone
<1> QED BY <1>1, OneSlot DEF IInv

-----------------------------------------------------------------------------
(* The actions.                                                            *)

LEMMA RetryKeeps ==
    ASSUME IInv, Quiet, NEW s \in Slots, Retry(s)
    PROVE  IInv'
<1>1. Only(s) /\ at'[s] = "queued" /\ job'[s] = "none" /\ run'[s] = runs + 1
      /\ UNCHANGED <<review, base, draft>> /\ runs' = runs + 1
  BY DEF Retry, Goto, Only, IInv, Arrays
<1>2. SlotOK(at'[s], job'[s], base'[s], draft'[s], run'[s], review')
  BY <1>1 DEF IInv, Jobwise, SlotOK, Jobs
<1>3. \A t \in Slots :
          at[t] = "idle" /\ SlotOK(at[t], job[t], base[t], draft[t], run[t], review)
  BY DEF Quiet, IInv, Jobwise
<1> QED BY <1>1, <1>2, <1>3, OneSlot DEF IInv, Main

LEMMA ManualKeeps ==
    ASSUME IInv, Settled, NEW s \in Slots, ManualExport(s)
    PROVE  IInv'
<1>1. PICK outcome \in Outcomes : ExportTasks(s, "manual", outcome)
  BY DEF ManualExport
<1>2. Only(s) /\ at'[s] = "read" /\ job'[s] = "manual"
      /\ draft'[s] = [tasks |-> review.tasks, outcome |-> outcome]
      /\ UNCHANGED <<review, base, run, runs>>
  BY <1>1, DraftOnly DEF ManualExport, ExportTasks, IInv
<1>3. SlotOK(at'[s], job'[s], base'[s], draft'[s], run'[s], review')
  BY <1>2 DEF IInv, Jobwise, SlotOK, Jobs, Main, ExportJobs, RowOK, Row
<1>4. \A t \in Slots : /\ ~Main(at[t], job[t])
                      /\ SlotOK(at[t], job[t], base[t], draft[t], run[t], review)
  BY DEF Settled, IInv, Jobwise, Main, ExportJobs
<1>5. ~Main(at'[s], job'[s])
  BY <1>2 DEF Main, ExportJobs
<1> QED BY <1>2, <1>3, <1>4, <1>5, OneSlot DEF IInv

\* The catch block: the run is still alone.
LEMMA FailKeeps ==
    ASSUME IInv, NEW s \in Slots, Fail(s), Main(at[s], job[s]),
           UNCHANGED <<review, runs>>
    PROVE  IInv'
<1>1. Only(s) /\ at'[s] = "read" /\ job'[s] = "failed"
      /\ base'[s] = base[s] /\ draft'[s] = draft[s] /\ run'[s] = run[s]
  BY GotoOnly DEF Fail, IInv
<1>2. SlotOK(at'[s], job'[s], base'[s], draft'[s], run'[s], review)
  BY <1>1 DEF IInv, Jobwise, SlotOK, Jobs
<1> QED BY <1>1, <1>2, SameRow DEF Main

LEMMA LeaveKeeps ==
    ASSUME IInv, NEW s \in Slots, Leave(s), at[s] # "idle",
           UNCHANGED <<review, runs>>
    PROVE  IInv'
<1>1. Only(s) /\ at'[s] = "idle" /\ job'[s] = "none" /\ run'[s] = 0
      /\ base'[s] = StartWorkItemReview /\ draft'[s] = NoDraft
  BY LeaveOnly DEF IInv
<1>2. SlotOK(at'[s], job'[s], base'[s], draft'[s], run'[s], review)
  BY <1>1, IdleOK DEF IInv, RowOK
<1> QED BY <1>1, <1>2, SameRow DEF Main

\* The run goes on, without an update.
LEMMA RunKeeps ==
    ASSUME IInv, NEW s \in Slots,
           Start(s) \/ AgentAnswers(s) \/ CheckAnswers(s) \/ CheckAcknowledge(s)
    PROVE  IInv'
<1>1. SlotOK(at[s], job[s], base[s], draft[s], run[s], review)
  BY DEF IInv, Jobwise
<1>2. Main(at[s], job[s]) /\ at[s] # "idle" /\ UNCHANGED <<review, runs>>
  BY <1>1 DEF Start, AgentAnswers, CheckAnswers, CheckAcknowledge, SlotOK, Main,
              ExportJobs
<1>3. CASE Start(s)
  <2>1. Only(s) /\ at'[s] = "read" /\ job'[s] = "running"
        /\ base'[s] = base[s] /\ draft'[s] = draft[s] /\ run'[s] = run[s]
    BY <1>3, GotoOnly DEF Start, IInv
  <2>2. SlotOK(at'[s], job'[s], base'[s], draft'[s], run'[s], review)
    BY <1>1, <1>2, <2>1 DEF SlotOK, Jobs
  <2> QED BY <1>2, <2>1, <2>2, SameRow
<1>4. CASE AgentAnswers(s)
  <2>1. Only(s) /\ at'[s] = "check" /\ job'[s] = "answers"
        /\ base'[s] = base[s] /\ draft'[s] = draft[s] /\ run'[s] = run[s]
    BY <1>4, GotoOnly DEF AgentAnswers, IInv
  <2>2. SlotOK(at'[s], job'[s], base'[s], draft'[s], run'[s], review)
    BY <1>1, <1>2, <2>1 DEF SlotOK, Jobs
  <2> QED BY <1>2, <2>1, <2>2, SameRow
<1>5. CASE CheckAnswers(s) /\ ~Fail(s)
  <2>1. /\ review.status = "questionnaire_pending"
        /\ Goto(s, "read", "answers")
        /\ draft' = [draft EXCEPT ![s].tasks = run[s]]
        /\ UNCHANGED <<base, run>>
    BY <1>5 DEF CheckAnswers
  <2> DEFINE d == [draft[s] EXCEPT !.tasks = run[s]]
  <2>2. draft' = [draft EXCEPT ![s] = d] /\ Arrays
    BY <2>1 DEF IInv
  <2>5. d \in [tasks: Nat, outcome: Outcomes] /\ d.tasks = run[s]
    BY <1>1 DEF SlotOK
  <2> HIDE DEF d
  <2>3. Only(s) /\ at'[s] = "read" /\ job'[s] = "answers"
        /\ base'[s] = base[s] /\ run'[s] = run[s] /\ draft'[s] = d
    BY <2>1, <2>2, DraftOnly
  <2>4. SlotOK(at'[s], job'[s], base'[s], draft'[s], run'[s], review)
    BY <1>1, <1>2, <2>1, <2>3, <2>5 DEF SlotOK, Jobs, Main, ExportJobs
  <2> QED BY <1>2, <2>3, <2>4, SameRow
<1>6. CASE CheckAcknowledge(s) /\ ~Fail(s)
  <2>1. Only(s) /\ at'[s] = "read" /\ job'[s] = "acknowledge"
        /\ base'[s] = base[s] /\ draft'[s] = draft[s] /\ run'[s] = run[s]
        /\ review.status = "questionnaire_answered"
    BY <1>6, GotoOnly DEF CheckAcknowledge, IInv
  <2>2. SlotOK(at'[s], job'[s], base'[s], draft'[s], run'[s], review)
    BY <1>1, <1>2, <2>1 DEF SlotOK, Jobs
  <2> QED BY <1>2, <2>1, <2>2, SameRow
<1> QED BY <1>2, <1>3, <1>4, <1>5, <1>6, FailKeeps

LEMMA AutoExportKeeps ==
    ASSUME IInv, NEW s \in Slots, MaybeAutoExport(s)
    PROVE  IInv'
<1>1. SlotOK(at[s], job[s], base[s], draft[s], run[s], review)
  BY DEF IInv, Jobwise
<1>2. CASE Leave(s)
  BY <1>2, LeaveKeeps DEF MaybeAutoExport
<1>3. CASE ~Leave(s)
  <2>1. PICK outcome \in Outcomes : ExportTasks(s, "export", outcome)
    BY <1>3 DEF MaybeAutoExport
  <2>2. Only(s) /\ at'[s] = "read" /\ job'[s] = "export"
        /\ draft'[s] = [tasks |-> review.tasks, outcome |-> outcome]
        /\ base'[s] = base[s] /\ run'[s] = run[s]
    BY <1>3, <2>1, DraftOnly DEF MaybeAutoExport, ExportTasks, IInv
  <2>3. SlotOK(at'[s], job'[s], base'[s], draft'[s], run'[s], review)
    BY <1>1, <2>2 DEF SlotOK, Jobs, Main, ExportJobs, IInv, RowOK, Row
  <2> QED BY <2>2, <2>3, SameRow DEF MaybeAutoExport, Main, ExportJobs
<1> QED BY <1>2, <1>3

LEMMA ReadKeeps ==
    ASSUME IInv, NEW s \in Slots, UpdateRead(s)
    PROVE  IInv'
<1>1. SlotOK(at[s], job[s], base[s], draft[s], run[s], review) /\ review \in Row
  BY DEF IInv, Jobwise, RowOK
<1>2. Only(s) /\ at'[s] = "write" /\ base'[s] = review
      /\ job'[s] = job[s] /\ draft'[s] = draft[s] /\ run'[s] = run[s]
  BY DEF UpdateRead, IInv, Arrays, Only
<1>3. Agrees(review, review)
  BY DEF Agrees
<1>4. SlotOK(at'[s], job'[s], base'[s], draft'[s], run'[s], review)
  BY <1>1, <1>2, <1>3 DEF SlotOK, UpdateRead, Main
<1> QED BY <1>2, <1>4, SameRow DEF UpdateRead, Main

LEMMA QueryFailsKeeps ==
    ASSUME IInv, NEW s \in Slots, QueryFails(s)
    PROVE  IInv'
<1>1. SlotOK(at[s], job[s], base[s], draft[s], run[s], review)
  BY DEF IInv, Jobwise
<1>2. CASE Leave(s)
  BY <1>2, LeaveKeeps DEF QueryFails
<1>3. CASE ~Leave(s) /\ (job[s] = "export" \/ at[s] = "export")
  <2>1. Only(s) /\ at'[s] = "read" /\ job'[s] = "exportError"
        /\ base'[s] = base[s] /\ draft'[s] = draft[s] /\ run'[s] = run[s]
    BY <1>3, GotoOnly DEF QueryFails, IInv
  <2>2. SlotOK(at'[s], job'[s], base'[s], draft'[s], run'[s], review)
    BY <1>1, <2>1 DEF SlotOK, Jobs, Main, ExportJobs
  <2> QED BY <2>1, <2>2, SameRow DEF QueryFails, Main, ExportJobs
<1>4. CASE ~Leave(s) /\ ~(job[s] = "export" \/ at[s] = "export")
  BY <1>4, FailKeeps DEF QueryFails, Main, ExportJobs
<1> QED BY <1>2, <1>3, <1>4

LEMMA CrashKeeps == IInv /\ Crash => IInv'
<1> SUFFICES ASSUME IInv, Crash PROVE IInv'
  OBVIOUS
<1>1. \A s \in Slots : SlotOK("idle", "none", StartWorkItemReview, NoDraft, 0, review)
  BY IdleOK DEF IInv, RowOK
<1> QED BY <1>1 DEF Crash, IInv, Arrays, Jobwise, Alone, Main

-----------------------------------------------------------------------------
(* The write of an update.                                                 *)

LEMMA MergeMain ==
    ASSUME NEW r, RowOK(r), NEW d \in [tasks: Nat, outcome: Outcomes],
           NEW j \in {"running", "answers", "acknowledge", "completed", "failed"},
           j = "answers" => r.status = "questionnaire_pending" /\ d.tasks # 0,
           j = "acknowledge" => r.status = "questionnaire_answered",
           j = "completed" => r.status = "tasks_acknowledged"
    PROVE  RowOK(Merge(j, r, d))
<1>1. CASE j = "running"
  BY <1>1 DEF RowOK, Row, Merge
<1>2. CASE j = "answers"
  BY <1>2 DEF RowOK, Row, Merge
<1>3. CASE j = "acknowledge"
  BY <1>3 DEF RowOK, Row, Merge
<1>4. CASE j = "completed"
  BY <1>4 DEF RowOK, Row, Merge, Complete
<1>5. CASE j = "failed"
  BY <1>5 DEF RowOK, Row, Merge
<1> QED BY <1>1, <1>2, <1>3, <1>4, <1>5

\* Tasks answered for, and tasks acknowledged, by the step of the same name.
LEMMA MergeStatus ==
    ASSUME NEW r \in Row, NEW d
    PROVE  /\ Merge("answers", r, d).status = "questionnaire_answered"
           /\ Merge("acknowledge", r, d).status = "tasks_acknowledged"
  BY DEF Merge, Row

\* An export error is all that an export, with a copy like that, changes.
LEMMA MergeExport ==
    ASSUME NEW r \in Row, NEW b \in Row, Agrees(b, r), NEW j \in ExportJobs,
           NEW d \in [tasks: Nat, outcome: Outcomes],
           j \in {"export", "manual"} => d.tasks = r.tasks
    PROVE  Merge(j, b, d) \in Row /\ Agrees(Merge(j, b, d), r)
<1>1. CASE j = "exportError"
  BY <1>1 DEF Merge, Row, Agrees
<1>2. CASE j \in {"export", "manual"}
  <2> DEFINE e == CASE d.outcome = "failed"  -> TRUE
                    [] d.outcome = "created" -> FALSE
                    [] d.outcome = "nothing" -> b.exportError
  <2>1. e \in BOOLEAN
    BY DEF Outcomes, Row
  <2>2. Merge(j, b, d) = [b EXCEPT !.tasks = d.tasks, !.exportError = e]
    BY <1>2 DEF Merge
  <2> HIDE DEF e
  <2> QED BY <1>2, <2>1, <2>2 DEF Row, Agrees
<1> QED BY <1>1, <1>2 DEF ExportJobs

LEMMA AgreesOK ==
    ASSUME NEW r, RowOK(r), NEW q \in Row, Agrees(q, r)
    PROVE  RowOK(q)
  BY DEF RowOK, Agrees, Row

\* What a job that is no run, or has come to its export, has read stays right.
LEMMA ExportAny ==
    ASSUME NEW r \in Row, NEW q \in Row, Agrees(q, r), NEW a, NEW j, NEW b, NEW d,
           NEW n, SlotOK(a, j, b, d, n, r), ~Main(a, j)
    PROVE  SlotOK(a, j, b, d, n, q)
  BY DEF SlotOK, Agrees, Main, ExportJobs

LEMMA IdleAny ==
    ASSUME NEW r, NEW q, NEW j, NEW b, NEW d, NEW n,
           SlotOK("idle", j, b, d, n, r)
    PROVE  SlotOK("idle", j, b, d, n, q)
  BY DEF SlotOK, Main

\* Only the copies of exports can be overtaken.
LEMMA MainWriteKeeps ==
    ASSUME IInv, NEW s \in Slots, UpdateWrite(s), Main(at[s], job[s])
    PROVE  IInv'
<1>1. SlotOK(at[s], job[s], base[s], draft[s], run[s], review)
      /\ RowOK(review) /\ review \in Row
  BY DEF IInv, Jobwise, RowOK
<1>2. /\ at[s] = "write" /\ base[s] = review
      /\ job[s] \in {"running", "answers", "acknowledge", "completed", "failed"}
  BY <1>1 DEF UpdateWrite, SlotOK, Jobs, Main, ExportJobs
<1>3. review' = Merge(job[s], review, draft[s]) /\ runs' = runs
  BY <1>2 DEF UpdateWrite
<1>4. RowOK(review') /\ review' \in Row
  <2>1. RowOK(review')
    BY <1>1, <1>2, <1>3, MergeMain DEF SlotOK
  <2> QED BY <2>1 DEF RowOK
<1>5. \A t \in Slots \ {s} :
          /\ at[t] = "idle"
          /\ SlotOK(at[t], job[t], base[t], draft[t], run[t], review')
  <2> SUFFICES ASSUME NEW t \in Slots \ {s}
               PROVE  /\ at[t] = "idle"
                      /\ SlotOK(at[t], job[t], base[t], draft[t], run[t], review')
    OBVIOUS
  <2>1. at[t] = "idle" /\ SlotOK(at[t], job[t], base[t], draft[t], run[t], review)
    BY DEF IInv, Alone, Jobwise
  <2> QED BY <2>1, IdleAny
<1>6. CASE job[s] = "failed"
  <2>1. Only(s) /\ at'[s] = "idle" /\ job'[s] = "none" /\ run'[s] = 0
        /\ base'[s] = StartWorkItemReview /\ draft'[s] = NoDraft
    BY <1>6, LeaveOnly DEF UpdateWrite, After, IInv
  <2>2. SlotOK(at'[s], job'[s], base'[s], draft'[s], run'[s], review')
    BY <1>4, <2>1, IdleOK
  <2> QED BY <1>3, <1>4, <1>5, <2>1, <2>2, OneSlot DEF IInv, Main
<1>7. CASE job[s] # "failed"
  <2>1. Goto(s, After(job[s])[1], After(job[s])[2]) /\ UNCHANGED <<base, draft, run>>
    BY <1>2, <1>7 DEF UpdateWrite, After
  <2>2. Only(s) /\ at'[s] = After(job[s])[1] /\ job'[s] = After(job[s])[2]
        /\ base'[s] = base[s] /\ draft'[s] = draft[s] /\ run'[s] = run[s]
    BY <2>1, GotoOnly DEF IInv
  <2>3. base[s] \in Row /\ run[s] \in Nat /\ run[s] # 0
        /\ draft[s] \in [tasks: Nat, outcome: Outcomes]
    BY <1>1 DEF SlotOK
  <2>4. SlotOK(at'[s], job'[s], base'[s], draft'[s], run'[s], review')
    <3>1. CASE job[s] = "running"
      BY <2>2, <2>3, <3>1 DEF After, SlotOK, Jobs, Main
    <3>2. CASE job[s] = "answers"
      BY <2>2, <2>3, <3>2 DEF After, SlotOK, Jobs, Main
    <3>3. CASE job[s] = "acknowledge"
      <4>1. review'.status = "tasks_acknowledged"
        BY <1>1, <1>3, <3>3, MergeStatus
      <4> QED BY <2>2, <2>3, <3>3, <4>1 DEF After, SlotOK, Jobs, Main, ExportJobs
    <3>4. CASE job[s] = "completed"
      BY <2>2, <2>3, <3>4 DEF After, SlotOK, Jobs, Main
    <3> QED BY <1>2, <1>7, <3>1, <3>2, <3>3, <3>4
  <2> QED BY <1>3, <1>4, <1>5, <2>2, <2>4, OneSlot DEF IInv, Main
<1> QED BY <1>6, <1>7

LEMMA ExportWriteKeeps ==
    ASSUME IInv, NEW s \in Slots, UpdateWrite(s), ~Main(at[s], job[s])
    PROVE  IInv'
<1>1. SlotOK(at[s], job[s], base[s], draft[s], run[s], review)
      /\ RowOK(review) /\ review \in Row
  BY DEF IInv, Jobwise, RowOK
<1>2. /\ at[s] = "write" /\ job[s] \in ExportJobs
      /\ Agrees(base[s], review) /\ base[s] \in Row
  BY <1>1 DEF UpdateWrite, SlotOK, Main
<1>3. review' = Merge(job[s], base[s], draft[s]) /\ runs' = runs /\ Leave(s)
  BY <1>2 DEF UpdateWrite, ExportJobs, After
<1>4. review' \in Row /\ Agrees(review', review)
  BY <1>1, <1>2, <1>3, MergeExport DEF SlotOK
<1>5. RowOK(review')
  BY <1>1, <1>4, AgreesOK
<1>6. \A t \in Slots \ {s} :
          /\ ~Main(at[t], job[t])
          /\ SlotOK(at[t], job[t], base[t], draft[t], run[t], review')
  <2> SUFFICES ASSUME NEW t \in Slots \ {s}
               PROVE  /\ ~Main(at[t], job[t])
                      /\ SlotOK(at[t], job[t], base[t], draft[t], run[t], review')
    OBVIOUS
  <2>1. ~Main(at[t], job[t])
    BY <1>2 DEF IInv, Alone
  <2>2. SlotOK(at[t], job[t], base[t], draft[t], run[t], review)
    BY DEF IInv, Jobwise
  <2> QED BY <1>1, <1>4, <2>1, <2>2, ExportAny
<1>7. Only(s) /\ at'[s] = "idle" /\ job'[s] = "none" /\ run'[s] = 0
      /\ base'[s] = StartWorkItemReview /\ draft'[s] = NoDraft
  BY <1>3, LeaveOnly DEF IInv
<1>8. SlotOK(at'[s], job'[s], base'[s], draft'[s], run'[s], review')
  BY <1>4, <1>7, IdleOK
<1> QED BY <1>3, <1>5, <1>6, <1>7, <1>8, OneSlot DEF IInv, Main

-----------------------------------------------------------------------------
(* The theorems.                                                           *)

LEMMA InitHolds == Init => IInv
<1> SUFFICES ASSUME Init PROVE IInv
  OBVIOUS
<1>1. PICK s \in Slots :
          /\ at = [t \in Slots |-> IF t = s THEN "queued" ELSE "idle"]
          /\ run = [t \in Slots |-> IF t = s THEN 1 ELSE 0]
  BY DEF Init
<1>2. Arrays /\ RowOK(review) /\ runs \in Nat
  BY <1>1, StartIsRow DEF Init, Arrays
<1>3. Jobwise
  BY <1>1, StartIsRow DEF Init, Jobwise, SlotOK, Jobs, NoDraft, Outcomes, Main
<1>4. Alone
  BY <1>1 DEF Alone, Main
<1> QED BY <1>2, <1>3, <1>4 DEF IInv

LEMMA NextKeeps == IInv /\ [CalmNext]_vars => IInv'
<1> SUFFICES ASSUME IInv, [CalmNext]_vars PROVE IInv'
  OBVIOUS
<1>1. CASE UNCHANGED vars
  BY <1>1 DEF vars, IInv, Arrays, Jobwise, Alone
<1>2. CASE Crash
  BY <1>2, CrashKeeps
<1>3. CASE \E s \in Slots : CalmRequest(s) \/ Step(s) \/ QueryFails(s)
  <2> SUFFICES ASSUME NEW s \in Slots, CalmRequest(s) \/ Step(s) \/ QueryFails(s)
               PROVE  IInv'
    BY <1>3
  <2>1. CASE CalmRequest(s)
    BY <2>1, RetryKeeps, ManualKeeps DEF CalmRequest
  <2>2. CASE QueryFails(s)
    BY <2>2, QueryFailsKeeps
  <2>3. CASE UpdateWrite(s)
    BY <2>3, MainWriteKeeps, ExportWriteKeeps
  <2>4. CASE AgentFails(s)
    <3>1. SlotOK(at[s], job[s], base[s], draft[s], run[s], review)
      BY DEF IInv, Jobwise
    <3>2. Main(at[s], job[s])
      BY <2>4, <3>1 DEF AgentFails, SlotOK, Main, ExportJobs
    <3> QED BY <2>4, <3>2, FailKeeps DEF AgentFails
  <2>5. CASE Step(s) /\ ~UpdateWrite(s) /\ ~AgentFails(s)
    BY <2>5, RunKeeps, AutoExportKeeps, ReadKeeps DEF Step
  <2> QED BY <2>1, <2>2, <2>3, <2>4, <2>5
<1> QED BY <1>1, <1>2, <1>3 DEF CalmNext

LEMMA Inductive == CalmSpec => []IInv
<1> QED BY InitHolds, NextKeeps, PTL DEF CalmSpec

\* For any number of runs, exports and jobs in flight, and through restarts and
\* failing queries: a review of a user who waits that reports a finished agent
\* has answers, is acknowledged and shows no error (WorkItemReviewRunner.run).
THEOREM CompletedRunsAreAcknowledged == CalmSpec => []CompletedIsAcknowledged
<1>1. IInv => CompletedIsAcknowledged
  BY DEF IInv, RowOK, Row, CompletedIsAcknowledged
<1> QED BY Inductive, <1>1, PTL

\* The tasks stored are those of the answers stored, though every export writes
\* back tasks it copied before it awaited Jira (exportTasks), and any number of
\* exports overlap.
THEOREM TasksAlwaysMatch == CalmSpec => []TasksMatchAnswers
<1>1. IInv => TasksMatchAnswers
  BY DEF IInv, RowOK, TasksMatchAnswers
<1> QED BY Inductive, <1>1, PTL

LEMMA AnswersStay ==
    ASSUME IInv, NEW s \in Slots, UpdateWrite(s), review.answers # 0
    PROVE  review'.answers = review.answers
<1>1. SlotOK(at[s], job[s], base[s], draft[s], run[s], review)
      /\ RowOK(review) /\ review \in Row
  BY DEF IInv, Jobwise, RowOK
<1>2. at[s] = "write" /\ review' = Merge(job[s], base[s], draft[s])
      /\ base[s] \in Row /\ base[s].answers = review.answers
      /\ job[s] # "answers" /\ job[s] # "none" /\ job[s] \in Jobs
  BY <1>1 DEF UpdateWrite, SlotOK, Agrees, RowOK
<1> QED BY <1>2 DEF Merge, Complete, Jobs, Row

\* Answers are submitted only for a pending review, so a retry, however often
\* and after whatever failure, never replaces those a reviewer may have read.
THEOREM AnswersOnce == CalmSpec => AnswersAreFinal
<1>1. IInv /\ [CalmNext]_vars
        => [review.answers # 0 => review'.answers = review.answers]_vars
  <2> SUFFICES ASSUME IInv, CalmNext, review.answers # 0
               PROVE  review'.answers = review.answers
    BY DEF vars
  <2>1. CASE \E s \in Slots : UpdateWrite(s)
    BY <2>1, AnswersStay
  <2>2. CASE ~\E s \in Slots : UpdateWrite(s)
    BY <2>2 DEF CalmNext, CalmRequest, Retry, ManualExport, Step, Start, AgentAnswers,
                AgentFails, CheckAnswers, CheckAcknowledge, MaybeAutoExport,
                UpdateRead, QueryFails, Crash
  <2> QED BY <2>1, <2>2
<1> QED BY Inductive, <1>1, PTL DEF CalmSpec, AnswersAreFinal
=============================================================================
