------------------------ MODULE SecurityReview_proofs ------------------------
(***************************************************************************)
(* Proofs about SecurityReview: what holds of the stored row however many  *)
(* operations are in flight; and, for one client that awaits its replies,  *)
(* that the review implements ReviewLifecycle.                             *)
(***************************************************************************)
EXTENDS SecurityReview, TLAPS

-----------------------------------------------------------------------------
(* The inductive invariant.  A row exists in several copies: the stored    *)
(* one, and the copies that repository.update has read and will write      *)
(* back.  Every copy must be sound on its own, because any of them can     *)
(* become the stored row.                                                  *)

RealKeys(keys) == \A t \in keys : \E i \in issues : i.task = t

SoundCopy(r) ==
    /\ r.policy = review.policy
    /\ r.status = "questionnaire_pending" => r.tasks = {}
    /\ r.status # "questionnaire_pending" => r.tasks \in derivations
    /\ r.status = "attested" => r.attestations \in derivations
    /\ RealKeys(r.issueKeys)

\* What an operation in flight will merge.
SoundDraft(c) ==
    /\ op[c] \in {"answers", "export"} => draft[c].tasks \in derivations
    /\ op[c] = "attest" => draft[c].attestations \in derivations
    /\ RealKeys(draft[c].issueKeys)

\* Only an answer submission can be in flight on a review never answered.
Started(c) ==
    op[c] \in {"acknowledge", "attest", "export"} =>
        /\ review.status # "questionnaire_pending"
        /\ pc[c] = "write" => base[c].status # "questionnaire_pending"

Control(c) ==
    /\ pc[c] \in {"update", "write"} => op[c] # "none"
    /\ pc[c] = "issues" => op[c] = "export"
    /\ pc[c] \in {"idle", "immediate"} => op[c] = "none"

SnapshotDerivations ==
    \A D \in derivations :
        \E g \in 1..generation, yes \in SUBSET Questions :
            D = DeriveTasks(g, review.policy, yes)

SoundSlot(c) ==
    /\ Control(c)
    /\ pc[c] = "write" => SoundCopy(base[c])
    /\ SoundDraft(c)
    /\ Started(c)

IInv ==
    /\ TypeOK
    /\ SnapshotDerivations
    /\ SoundCopy(review)
    /\ \A c \in Slots : SoundSlot(c)

-----------------------------------------------------------------------------
(* Facts about the pure functions.                                         *)

\* deriveTasks returns tasks.
LEMMA DeriveTasksType ==
    ASSUME NEW g \in Nat, NEW p \in Policies, NEW yes \in SUBSET Questions
    PROVE  DeriveTasks(g, p, yes) \in SUBSET TaskId
BY PolicyAssumption DEF DeriveTasks, TaskId

\* A fresh row is a row.
LEMMA StartReviewType ==
    ASSUME NEW p \in Policies
    PROVE  StartReview(p) \in Review
BY DEF StartReview, Review, Statuses

\* NoDraft is a draft.
LEMMA NoDraftType == NoDraft \in Draft
BY DEF NoDraft, Draft

\* Merging the fields of a known operation into a row gives a row.
LEMMA MergeType ==
    ASSUME NEW o \in Ops \ {"none"}, NEW r \in Review, NEW d \in Draft
    PROVE  Merge(o, r, d) \in Review
BY DEF Ops, Merge, Review, Draft, Statuses

-----------------------------------------------------------------------------
(* Each action preserves the invariant.                                    *)

LEMMA InitIInv == Init => IInv
<1> SUFFICES ASSUME Init PROVE IInv
  OBVIOUS
<1> PICK p \in Policies : review = StartReview(p)
  BY DEF Init
<1>1. TypeOK
  BY StartReviewType, NoDraftType DEF Init, TypeOK, Ops, StartReview
<1>2. SnapshotDerivations
  BY DEF Init, SnapshotDerivations
<1>3. SoundCopy(review)
  BY DEF SoundCopy, StartReview, RealKeys
<1>4. ASSUME NEW c \in Slots PROVE SoundSlot(c)
  BY DEF Init, SoundSlot, Control, SoundDraft, Started, RealKeys, NoDraft
<1> QED BY <1>1, <1>2, <1>3, <1>4 DEF IInv

\* A copy stays sound while derivations and issues only grow and the stored
\* row keeps its snapshot.
LEMMA SoundCopyStable ==
    ASSUME NEW r, SoundCopy(r), review'.policy = review.policy,
           derivations \subseteq derivations', issues \subseteq issues'
    PROVE  SoundCopy(r)'
BY DEF SoundCopy, RealKeys

\* ... and so does a slot that does not move.
LEMMA OtherSlotStable ==
    ASSUME NEW s \in Slots, SoundSlot(s),
           pc'[s] = pc[s], op'[s] = op[s], draft'[s] = draft[s],
           base'[s] = base[s], review'.policy = review.policy,
           derivations \subseteq derivations', issues \subseteq issues',
           review.status # "questionnaire_pending"
             => review'.status # "questionnaire_pending"
    PROVE  SoundSlot(s)'
<1>1. (pc[s] = "write" => SoundCopy(base[s]))'
  BY DEF SoundSlot, SoundCopy, RealKeys
<1> QED BY <1>1 DEF SoundSlot, Control, SoundDraft, Started, SoundCopy, RealKeys

LEMMA SubmitAnswersIInv ==
    ASSUME IInv, NEW c \in Slots, NEW answered \in SUBSET Questions,
           NEW yes \in SUBSET answered, SubmitAnswers(c, answered, yes)
    PROVE  IInv'
<1> DEFINE tasks == DeriveTasks(generation + 1, review.policy, yes)
<1> USE DEF SubmitAnswers, Enter
<1>1. /\ generation \in Nat
      /\ review \in Review
      /\ review.policy \in Policies
      /\ generation + 1 \in Nat
      /\ yes \in SUBSET Questions
  BY DEF IInv, TypeOK, Review
<1>2. tasks \in SUBSET TaskId
  BY <1>1, DeriveTasksType, Zenon
<1>3. [NoDraft EXCEPT !.answers = yes, !.tasks = tasks] \in Draft
  BY <1>2 DEF NoDraft, Draft
<1>4. TypeOK'
  <2> HIDE DEF tasks
  <2>1. derivations' \in SUBSET (SUBSET TaskId)
    BY <1>2 DEF IInv, TypeOK, tasks
  <2>2. draft' \in [Slots -> Draft]
    BY <1>3 DEF IInv, TypeOK, tasks
  <2>3. generation' \in Nat
    BY <1>1
  <2> QED BY <2>1, <2>2, <2>3 DEF IInv, TypeOK, Ops
<1>5. SnapshotDerivations'
  <2> SUFFICES ASSUME NEW D \in derivations'
               PROVE  \E g \in 1..generation', y \in SUBSET Questions :
                          D = DeriveTasks(g, review.policy, y)
    BY DEF SnapshotDerivations
  <2>1. CASE D = tasks
    BY <2>1, <1>1
  <2>2. CASE D \in derivations
    BY <2>2, <1>1 DEF IInv, SnapshotDerivations
  <2> QED BY <2>1, <2>2
<1>6. SoundCopy(review)'
  BY SoundCopyStable DEF IInv, SoundCopy, RealKeys
<1>7. ASSUME NEW s \in Slots PROVE SoundSlot(s)'
  <2>1. CASE s = c
    <3>1. /\ pc'[c] = "update" /\ op'[c] = "answers"
          /\ draft'[c].tasks = tasks /\ draft'[c].issueKeys = {}
      BY DEF IInv, TypeOK, NoDraft
    <3> QED
      BY <2>1, <3>1 DEF SoundSlot, Control, SoundDraft, Started, RealKeys
  <2>2. CASE s # c
    BY <2>2, OtherSlotStable DEF IInv, TypeOK
  <2> QED BY <2>1, <2>2
<1> QED BY <1>4, <1>5, <1>6, <1>7 DEF IInv

LEMMA AcknowledgeTasksIInv ==
    ASSUME IInv, NEW c \in Slots, AcknowledgeTasks(c)
    PROVE  IInv'
<1> USE DEF AcknowledgeTasks, Enter
<1>1. TypeOK'
  BY NoDraftType DEF IInv, TypeOK, Ops
<1>2. SnapshotDerivations'
  BY DEF IInv, SnapshotDerivations
<1>3. SoundCopy(review)'
  BY DEF IInv, SoundCopy, RealKeys
<1>4. ASSUME NEW s \in Slots PROVE SoundSlot(s)'
  <2>1. CASE s = c
    <3>1. /\ pc'[c] = "update" /\ op'[c] = "acknowledge"
          /\ draft'[c] = NoDraft
      BY DEF IInv, TypeOK
    <3> QED
      BY <2>1, <3>1
         DEF SoundSlot, Control, SoundDraft, Started, RealKeys, NoDraft
  <2>2. CASE s # c
    BY <2>2, OtherSlotStable DEF IInv, TypeOK
  <2> QED BY <2>1, <2>2
<1> QED BY <1>1, <1>2, <1>3, <1>4 DEF IInv

LEMMA SubmitAttestationsIInv ==
    ASSUME IInv, NEW c \in Slots, NEW attested, SubmitAttestations(c, attested)
    PROVE  IInv'
<1> USE DEF SubmitAttestations, Enter
<1>1. attested = review.tasks /\ attested \in derivations
  BY DEF IInv, SoundCopy
<1>2. attested \in SUBSET TaskId
  BY <1>1 DEF IInv, TypeOK
<1>3. TypeOK'
  <2>1. [NoDraft EXCEPT !.attestations = attested] \in Draft
    BY <1>2 DEF NoDraft, Draft
  <2> QED BY <2>1 DEF IInv, TypeOK, Ops
<1>4. SnapshotDerivations'
  BY DEF IInv, SnapshotDerivations
<1>5. SoundCopy(review)'
  BY DEF IInv, SoundCopy, RealKeys
<1>6. ASSUME NEW s \in Slots PROVE SoundSlot(s)'
  <2>1. CASE s = c
    <3>1. /\ pc'[c] = "update" /\ op'[c] = "attest"
          /\ draft'[c].attestations = attested /\ draft'[c].issueKeys = {}
      BY DEF IInv, TypeOK, NoDraft
    <3> QED
      BY <1>1, <2>1, <3>1 DEF SoundSlot, Control, SoundDraft, Started, RealKeys
  <2>2. CASE s # c
    BY <2>2, OtherSlotStable DEF IInv, TypeOK
  <2> QED BY <2>1, <2>2
<1> QED BY <1>3, <1>4, <1>5, <1>6 DEF IInv

\* Both ways into exportTasks.
LEMMA ExportTasksIInv ==
    ASSUME IInv, NEW c \in Slots, NEW threshold, NEW onlyUnhandled,
           ExportTasks(c, threshold, onlyUnhandled), UNCHANGED background
    PROVE  IInv'
<1> USE DEF ExportTasks
<1> DEFINE d == [NoDraft EXCEPT !.tasks = review.tasks,
                                !.issueKeys = review.issueKeys,
                                !.id = exports + 1]
<1>1. /\ review \in Review /\ exports + 1 \in Nat
      /\ review.status # "questionnaire_pending"
      /\ review.tasks \in derivations
  BY DEF IInv, TypeOK, SoundCopy
<1>2. d \in Draft
  BY <1>1 DEF NoDraft, Draft, Review
<1>3. ToExport(review, threshold, onlyUnhandled) \in SUBSET TaskId
  BY <1>1 DEF ToExport, Review
<1>4. TypeOK'
  BY <1>1, <1>2, <1>3 DEF IInv, TypeOK, Ops
<1>5. SnapshotDerivations'
  BY DEF IInv, SnapshotDerivations
<1>6. SoundCopy(review)'
  BY DEF IInv, SoundCopy, RealKeys
<1>7. ASSUME NEW s \in Slots PROVE SoundSlot(s)'
  <2>1. CASE s = c
    <3>1. /\ pc'[c] = "issues" /\ op'[c] = "export"
          /\ draft'[c].tasks = review.tasks
          /\ draft'[c].issueKeys = review.issueKeys
      BY DEF IInv, TypeOK, NoDraft
    <3> QED
      BY <1>1, <2>1, <3>1
         DEF IInv, SoundSlot, Control, SoundDraft, Started, SoundCopy, RealKeys
  <2>2. CASE s # c
    BY <2>2, OtherSlotStable DEF IInv, TypeOK
  <2> QED BY <2>1, <2>2
<1> QED BY <1>4, <1>5, <1>6, <1>7 DEF IInv

\* Every way an activity ends without writing.
LEMMA FinishIInv ==
    ASSUME IInv, NEW c \in Slots, Finish(c), background' = background \ {c},
           UNCHANGED <<review, policy, generation, derivations, issues, exports>>
    PROVE  IInv'
<1> USE DEF Finish
<1>1. TypeOK'
  <2>1. StartReview(review.policy) \in Review
    BY StartReviewType DEF IInv, TypeOK, Review
  <2> QED BY <2>1, NoDraftType DEF IInv, TypeOK, Ops
<1>2. SnapshotDerivations'
  BY DEF IInv, SnapshotDerivations
<1>3. SoundCopy(review)'
  BY DEF IInv, SoundCopy, RealKeys
<1>4. ASSUME NEW s \in Slots PROVE SoundSlot(s)'
  <2>1. CASE s = c
    <3>1. pc'[c] = "idle" /\ op'[c] = "none" /\ draft'[c] = NoDraft
      BY DEF IInv, TypeOK
    <3> QED
      BY <2>1, <3>1
         DEF SoundSlot, Control, SoundDraft, Started, RealKeys, NoDraft
  <2>2. CASE s # c
    BY <2>2, OtherSlotStable DEF IInv, TypeOK
  <2> QED BY <2>1, <2>2
<1> QED BY <1>1, <1>2, <1>3, <1>4 DEF IInv

LEMMA IssueCreatedIInv ==
    ASSUME IInv, NEW c \in Slots, NEW t, IssueCreated(c, t)
    PROVE  IInv'
<1> USE DEF IssueCreated
<1> DEFINE i == [task |-> t, export |-> draft[c].id]
<1>1. /\ t \in TaskId /\ draft[c] \in Draft /\ issues' = issues \cup {i}
      /\ op[c] = "export"
  BY DEF IInv, TypeOK, SoundSlot, Control
<1>2. i \in [task: TaskId, export: Nat]
  BY <1>1 DEF Draft
<1>3. TypeOK'
  <2>1. [draft[c] EXCEPT !.issueKeys = @ \cup {t}] \in Draft
    BY <1>1 DEF Draft
  <2> QED BY <1>1, <1>2, <2>1 DEF IInv, TypeOK
<1>4. SnapshotDerivations'
  BY DEF IInv, SnapshotDerivations
<1>5. SoundCopy(review)'
  BY <1>1 DEF IInv, SoundCopy, RealKeys
<1>6. ASSUME NEW s \in Slots PROVE SoundSlot(s)'
  <2>1. CASE s = c
    <3>1. /\ pc'[c] = "issues" /\ op'[c] = "export"
          /\ draft'[c].tasks = draft[c].tasks
          /\ draft'[c].issueKeys = draft[c].issueKeys \cup {t}
      BY <1>1 DEF IInv, TypeOK, Draft
    <3>2. RealKeys(draft[c].issueKeys \cup {t})'
      <4>1. i \in issues' /\ i.task = t
        BY <1>1
      <4>2. RealKeys(draft[c].issueKeys)
        BY DEF IInv, SoundSlot, SoundDraft
      <4> QED BY <1>1, <3>1, <4>1, <4>2 DEF RealKeys
    <3>3. draft[c].tasks \in derivations /\ review.status # "questionnaire_pending"
      BY <1>1 DEF IInv, SoundSlot, SoundDraft, Started
    <3> QED
      BY <2>1, <3>1, <3>2, <3>3
         DEF SoundSlot, Control, SoundDraft, Started, RealKeys
  <2>2. CASE s # c
    BY <1>1, <2>2, OtherSlotStable DEF IInv, TypeOK
  <2> QED BY <2>1, <2>2
<1> QED BY <1>3, <1>4, <1>5, <1>6 DEF IInv

\* A reply that creates nothing, and the end of the wait for replies.
LEMMA WaitIInv ==
    ASSUME IInv, NEW c \in Slots,
           (\E t \in open[c] : IssueRejected(c, t)) \/ AllSettled(c)
    PROVE  IInv'
<1> USE DEF IssueRejected, AllSettled
<1>1. TypeOK'
  BY DEF IInv, TypeOK
<1>2. SnapshotDerivations'
  BY DEF IInv, SnapshotDerivations
<1>3. SoundCopy(review)'
  BY DEF IInv, SoundCopy, RealKeys
<1>4. ASSUME NEW s \in Slots PROVE SoundSlot(s)'
  <2>1. CASE s = c
    <3>1. /\ pc'[c] \in {"issues", "update"} /\ op'[c] = "export"
          /\ op' = op /\ draft' = draft /\ review' = review
          /\ derivations' = derivations /\ issues' = issues
      BY DEF IInv, TypeOK, SoundSlot, Control
    <3> QED
      BY <2>1, <3>1
         DEF IInv, SoundSlot, Control, SoundDraft, Started, RealKeys
  <2>2. CASE s # c
    BY <2>2, OtherSlotStable DEF IInv, TypeOK
  <2> QED BY <2>1, <2>2
<1> QED BY <1>1, <1>2, <1>3, <1>4 DEF IInv

LEMMA UpdateReadIInv ==
    ASSUME IInv, NEW c \in Slots, UpdateRead(c)
    PROVE  IInv'
<1> USE DEF UpdateRead
<1>1. TypeOK'
  BY DEF IInv, TypeOK
<1>2. SnapshotDerivations'
  BY DEF IInv, SnapshotDerivations
<1>3. SoundCopy(review)'
  BY DEF IInv, SoundCopy, RealKeys
<1>4. ASSUME NEW s \in Slots PROVE SoundSlot(s)'
  <2>1. CASE s = c
    <3>1. /\ pc'[c] = "write" /\ base'[c] = review /\ op[c] # "none"
          /\ op' = op /\ draft' = draft /\ review' = review
          /\ derivations' = derivations /\ issues' = issues
      BY DEF IInv, TypeOK, SoundSlot, Control
    <3>2. (pc[c] = "write" => SoundCopy(base[c]))'
      BY <3>1 DEF IInv, SoundCopy, RealKeys
    <3> QED
      BY <2>1, <3>1, <3>2
         DEF IInv, SoundSlot, Control, SoundDraft, Started, RealKeys
  <2>2. CASE s # c
    BY <2>2, OtherSlotStable DEF IInv, TypeOK
  <2> QED BY <2>1, <2>2
<1> QED BY <1>1, <1>2, <1>3, <1>4 DEF IInv

\* Merging a sound draft into a sound copy gives a sound row that is not
\* pending.
LEMMA MergeSound ==
    ASSUME NEW o \in Ops \ {"none"}, NEW r \in Review, NEW d \in Draft,
           SoundCopy(r), RealKeys(d.issueKeys),
           o \in {"answers", "export"} => d.tasks \in derivations,
           o = "attest" => d.attestations \in derivations,
           o # "answers" => r.status # "questionnaire_pending"
    PROVE  /\ SoundCopy(Merge(o, r, d))
           /\ Merge(o, r, d).status # "questionnaire_pending"
           /\ Merge(o, r, d).policy = r.policy
<1> USE DEF Merge, Review, Draft, SoundCopy, RealKeys
<1>1. CASE o = "answers"      BY <1>1
<1>2. CASE o = "acknowledge"  BY <1>2
<1>3. CASE o = "attest"       BY <1>3
<1>4. CASE o = "export"       BY <1>4
<1> QED BY <1>1, <1>2, <1>3, <1>4 DEF Ops

LEMMA UpdateWriteIInv ==
    ASSUME IInv, NEW c \in Slots, UpdateWrite(c)
    PROVE  IInv'
<1> USE DEF UpdateWrite
<1>1. /\ op[c] \in Ops \ {"none"} /\ base[c] \in Review /\ draft[c] \in Draft
      /\ SoundCopy(base[c]) /\ SoundDraft(c) /\ SoundCopy(review)
      /\ op[c] # "answers" => base[c].status # "questionnaire_pending"
  BY DEF IInv, TypeOK, SoundSlot, Control, Started, Ops
<1>2. /\ SoundCopy(review')
      /\ review'.status # "questionnaire_pending"
      /\ review'.policy = review.policy
  BY <1>1, MergeSound DEF SoundDraft, SoundCopy
<1>3. TypeOK'
  <2>1. StartReview(review.policy) \in Review
    BY StartReviewType DEF IInv, TypeOK, Review
  <2>2. review' \in Review
    BY <1>1, MergeType
  <2> QED BY <2>1, <2>2, NoDraftType DEF IInv, TypeOK, Ops
<1>4. SnapshotDerivations'
  BY <1>2 DEF IInv, SnapshotDerivations
<1>5. SoundCopy(review)'
  BY <1>2 DEF SoundCopy, RealKeys
<1>6. ASSUME NEW s \in Slots PROVE SoundSlot(s)'
  <2>1. CASE s = c
    <3>1. /\ pc'[c] \in {"idle", "immediate"} /\ op'[c] = "none"
          /\ draft'[c] = NoDraft
      BY DEF IInv, TypeOK
    <3> QED
      BY <2>1, <3>1
         DEF SoundSlot, Control, SoundDraft, Started, RealKeys, NoDraft
  <2>2. CASE s # c
    BY <1>2, <2>2, OtherSlotStable DEF IInv, TypeOK
  <2> QED BY <2>1, <2>2
<1> QED BY <1>3, <1>4, <1>5, <1>6 DEF IInv

\* A step that leaves all of the state but the template alone.
LEMMA EditPolicyIInv ==
    ASSUME IInv, (\E p \in Policies : EditPolicy(p)) \/ UNCHANGED vars
    PROVE  IInv'
<1> USE DEF EditPolicy, vars
<1>1. TypeOK'
  BY DEF IInv, TypeOK
<1>2. SnapshotDerivations'
  BY DEF IInv, SnapshotDerivations
<1>3. SoundCopy(review)'
  BY DEF IInv, SoundCopy, RealKeys
<1>4. ASSUME NEW s \in Slots PROVE SoundSlot(s)'
  BY OtherSlotStable DEF IInv
<1> QED BY <1>1, <1>2, <1>3, <1>4 DEF IInv

LEMMA NextIInv == IInv /\ [Next]_vars => IInv'
<1> SUFFICES ASSUME IInv, [Next]_vars PROVE IInv'
  OBVIOUS
<1>1. ASSUME NEW c \in Slots, Request(c) PROVE IInv'
  <2>1. ASSUME NEW answered \in SUBSET Questions, NEW yes \in SUBSET answered,
               SubmitAnswers(c, answered, yes)
        PROVE  IInv'
    BY <2>1, SubmitAnswersIInv
  <2>2. CASE AcknowledgeTasks(c)
    BY <2>2, AcknowledgeTasksIInv
  <2>3. ASSUME NEW attested \in SUBSET UNION derivations,
               SubmitAttestations(c, attested)
        PROVE  IInv'
    BY <2>3, SubmitAttestationsIInv
  <2>4. ASSUME NEW threshold \in Thresholds, NEW onlyUnhandled \in BOOLEAN,
               ExportToJira(c, threshold, onlyUnhandled)
        PROVE  IInv'
    BY <2>4, ExportTasksIInv DEF ExportToJira
  <2> QED BY <1>1, <2>1, <2>2, <2>3, <2>4 DEF Request
<1>2. ASSUME NEW c \in Slots, Step(c) PROVE IInv'
  <2>1. CASE AutoExport(c)
    BY <2>1, ExportTasksIInv DEF AutoExport
  <2>2. CASE SkipAutoExport(c)
    BY <2>2, FinishIInv DEF SkipAutoExport
  <2>3. ASSUME NEW t \in open[c], IssueCreated(c, t) PROVE IInv'
    BY <2>3, IssueCreatedIInv
  <2>4. CASE (\E t \in open[c] : IssueRejected(c, t)) \/ AllSettled(c)
    BY <2>4, WaitIInv
  <2>5. CASE UpdateRead(c)
    BY <2>5, UpdateReadIInv
  <2>6. CASE UpdateWrite(c)
    BY <2>6, UpdateWriteIInv
  <2> QED BY <1>2, <2>1, <2>2, <2>3, <2>4, <2>5, <2>6 DEF Step
<1>3. ASSUME NEW c \in Slots, Abort(c) PROVE IInv'
  BY <1>3, FinishIInv DEF Abort
<1>4. CASE (\E p \in Policies : EditPolicy(p)) \/ UNCHANGED vars
  BY <1>4, EditPolicyIInv
<1> QED BY <1>1, <1>2, <1>3, <1>4 DEF Next

THEOREM Invariance == Spec => []IInv
BY InitIInv, NextIInv, PTL DEF Spec

-----------------------------------------------------------------------------
(* The results, for any number of slots, any policies and any questions.   *)

\* Every variable keeps its type.
THEOREM TypeCorrect == Spec => []TypeOK
<1>1. IInv => TypeOK
  BY DEF IInv
<1> QED BY <1>1, Invariance, PTL

\* An attested review is attested for a whole task list that was derived.
THEOREM AttestedCompleteness == Spec => []AttestedIsComplete
<1>1. IInv => AttestedIsComplete
  BY DEF IInv, SoundCopy, AttestedIsComplete
<1> QED BY <1>1, Invariance, PTL

\* The stored tasks follow from the snapshot and one set of answers.
THEOREM SnapshotImmutability == Spec => []TasksFromSnapshot
<1>1. IInv => TasksFromSnapshot
  BY DEF IInv, SoundCopy, SnapshotDerivations, TasksFromSnapshot
<1> QED BY <1>1, Invariance, PTL

\* A recorded issue key belongs to an issue that exists.
THEOREM RecordedIssuesExist == Spec => []IssueKeysAreReal
<1>1. IInv => IssueKeysAreReal
  BY DEF IInv, SoundCopy, RealKeys, IssueKeysAreReal
<1> QED BY <1>1, Invariance, PTL

\* No stale write brings an answered review back to its questionnaire.
THEOREM AnsweredForGood == Spec => NeverBackToPending
<1> DEFINE A == review.status # "questionnaire_pending"
                  => review'.status # "questionnaire_pending"
<1>1. ASSUME IInv, [Next]_vars PROVE [A]_vars
  <2> SUFFICES ASSUME Next PROVE A
    BY <1>1
  <2>1. CASE \E c \in Slots : UpdateWrite(c)
    <3> PICK c \in Slots : UpdateWrite(c)
      BY <2>1
    <3> USE DEF UpdateWrite
    <3>1. /\ op[c] \in Ops \ {"none"} /\ base[c] \in Review
          /\ draft[c] \in Draft /\ SoundCopy(base[c]) /\ SoundDraft(c)
          /\ op[c] # "answers" => base[c].status # "questionnaire_pending"
      BY <1>1 DEF IInv, TypeOK, SoundSlot, Control, Started, Ops
    <3> QED BY <3>1, MergeSound DEF SoundDraft
  <2>2. CASE UNCHANGED review
    BY <2>2
  <2>3. (\E c \in Slots : UpdateWrite(c)) \/ UNCHANGED review
    BY DEF Next, Request, Step, SubmitAnswers, AcknowledgeTasks,
           SubmitAttestations, ExportToJira, AutoExport, ExportTasks, Enter,
           SkipAutoExport, IssueCreated, IssueRejected, AllSettled,
           UpdateRead, Abort, EditPolicy
  <2> QED BY <2>1, <2>2, <2>3
<1> QED BY <1>1, Invariance, PTL DEF Spec, NeverBackToPending

-----------------------------------------------------------------------------
(* One client that awaits its replies (SerialSpec).  Its calls, up to the  *)
(* attestation, have the row to themselves; then only exports are left,    *)
(* and what overlaps with an export is another that writes the same tasks. *)

\* The fields of the lifecycle, and what the tasks follow from.
SameStage(b, r) == /\ b.status = r.status /\ b.tasks = r.tasks
                   /\ b.attestations = r.attestations

\* What the call or the export of slot c, at work, may rely on.
Timely(c) ==
    /\ op[c] = "answers" => review.status = "questionnaire_pending"
    /\ op[c] = "acknowledge" => review.status = "questionnaire_answered"
    /\ op[c] = "attest" => /\ review.status = "tasks_acknowledged"
                           /\ draft[c].attestations = review.tasks
    /\ op[c] = "export" => draft[c].tasks = review.tasks
    /\ pc[c] = "write" => SameStage(base[c], review)

\* Jobs nobody waits for are exports of an attested review.
Backgrounds ==
    \A c \in Slots : /\ c \in background => review.status = "attested"
                     /\ c \in background => op[c] \in {"none", "export"}
                     /\ pc[c] = "immediate" => c \in background

OneCall == \A c, d \in Slots :
    c # d => pc[c] = "idle" \/ c \in background \/ pc[d] = "idle" \/ d \in background

SInv ==
    /\ AttestedCoversTasks
    /\ Backgrounds
    /\ OneCall
    /\ \A c \in Slots : Timely(c)

-----------------------------------------------------------------------------
LEMMA SerialIsConcurrent == SerialSpec => Spec
<1>1. [SerialNext]_vars => [Next]_vars
  BY DEF SerialNext, Next
<1> QED BY <1>1, PTL DEF SerialSpec, Spec

LEMMA InitSInv == Init => SInv
<1> SUFFICES ASSUME Init PROVE SInv
  OBVIOUS
<1> PICK p \in Policies : review = StartReview(p)
  BY DEF Init
<1>1. AttestedCoversTasks
  BY DEF AttestedCoversTasks, StartReview
<1>2. Backgrounds /\ OneCall
  BY DEF Init, Backgrounds, OneCall
<1>3. ASSUME NEW c \in Slots PROVE Timely(c)
  BY DEF Init, Timely
<1> QED BY <1>1, <1>2, <1>3 DEF SInv

\* All but slot c stay as they are.
Others(c) ==
    \A d \in Slots \ {c} :
        /\ pc'[d] = pc[d] /\ op'[d] = op[d]
        /\ draft'[d] = draft[d] /\ base'[d] = base[d]
        /\ d \in background' <=> d \in background

Working(c) == pc[c] # "idle" /\ c \notin background

\* A step of slot c that leaves the stage of the review alone.
LEMMA SlotSInv ==
    ASSUME SInv, NEW c \in Slots, Others(c), SameStage(review', review),
           Timely(c)',
           c \in background' => review.status = "attested"
                                  /\ op'[c] \in {"none", "export"},
           pc'[c] = "immediate" => c \in background',
           Working(c)' => Working(c) \/ Quiet
    PROVE  SInv'
<1>1. AttestedCoversTasks'
  BY DEF SInv, AttestedCoversTasks, SameStage
<1>2. Backgrounds'
  BY DEF SInv, Backgrounds, Others, SameStage
<1>3. OneCall'
  BY DEF SInv, OneCall, Others, Working, Quiet
<1>4. ASSUME NEW d \in Slots PROVE Timely(d)'
  <2>1. CASE d = c
    BY <2>1
  <2>2. CASE d # c
    BY <2>2 DEF SInv, Timely, Others, SameStage
  <2> QED BY <2>1, <2>2
<1> QED BY <1>1, <1>2, <1>3, <1>4 DEF SInv

LEMMA RequestSInv ==
    ASSUME IInv, SInv, NEW c \in Slots, Quiet, Request(c)
    PROVE  SInv'
<1>1. CASE \E answered \in SUBSET Questions : \E yes \in SUBSET answered :
              SubmitAnswers(c, answered, yes)
  <2>1. /\ Others(c) /\ UNCHANGED <<review, background>>
        /\ review.status = "questionnaire_pending"
        /\ pc'[c] = "update" /\ op'[c] = "answers"
    BY <1>1 DEF SubmitAnswers, Enter, Others, IInv, TypeOK
  <2>2. Timely(c)' /\ c \notin background
    BY <2>1 DEF Timely, SInv, Backgrounds
  <2> QED BY <2>1, <2>2, SlotSInv DEF SameStage
<1>2. CASE AcknowledgeTasks(c)
  <2>1. /\ Others(c) /\ UNCHANGED <<review, background>>
        /\ review.status = "questionnaire_answered"
        /\ pc'[c] = "update" /\ op'[c] = "acknowledge"
    BY <1>2 DEF AcknowledgeTasks, Enter, Others, IInv, TypeOK
  <2>2. Timely(c)' /\ c \notin background
    BY <2>1 DEF Timely, SInv, Backgrounds
  <2> QED BY <2>1, <2>2, SlotSInv DEF SameStage
<1>3. ASSUME NEW attested, SubmitAttestations(c, attested) PROVE SInv'
  <2>1. /\ Others(c) /\ UNCHANGED <<review, background>>
        /\ review.status = "tasks_acknowledged" /\ attested = review.tasks
        /\ pc'[c] = "update" /\ op'[c] = "attest"
        /\ draft'[c].attestations = attested
    BY <1>3 DEF SubmitAttestations, Enter, Others, IInv, TypeOK, NoDraft
  <2>2. Timely(c)' /\ c \notin background
    BY <2>1 DEF Timely, SInv, Backgrounds
  <2> QED BY <2>1, <2>2, SlotSInv DEF SameStage
<1>4. ASSUME NEW threshold, NEW onlyUnhandled,
             ExportToJira(c, threshold, onlyUnhandled)
      PROVE  SInv'
  <2>1. /\ Others(c) /\ UNCHANGED <<review, background>>
        /\ pc'[c] = "issues" /\ op'[c] = "export"
        /\ draft'[c].tasks = review.tasks
    BY <1>4 DEF ExportToJira, ExportTasks, Others, IInv, TypeOK, NoDraft
  <2>2. Timely(c)' /\ (c \in background => review.status = "attested")
    BY <2>1 DEF Timely, SInv, Backgrounds
  <2> QED BY <2>1, <2>2, SlotSInv DEF SameStage
<1> QED BY <1>1, <1>2, <1>3, <1>4 DEF Request

\* An activity that ends, or the automatic export that begins.
LEMMA EndSInv ==
    ASSUME IInv, SInv, NEW c \in Slots, AutoExport(c) \/ SkipAutoExport(c) \/ Abort(c)
    PROVE  SInv'
<1>1. CASE AutoExport(c)
  <2>1. /\ Others(c) /\ UNCHANGED <<review, background>>
        /\ pc'[c] = "issues" /\ op'[c] = "export" /\ c \in background
        /\ draft'[c].tasks = review.tasks
    BY <1>1 DEF AutoExport, ExportTasks, Others, IInv, TypeOK, NoDraft, SInv,
                Backgrounds
  <2>2. Timely(c)' /\ review.status = "attested"
    BY <2>1 DEF Timely, SInv, Backgrounds
  <2> QED BY <2>1, <2>2, SlotSInv DEF SameStage, Working
<1>2. CASE SkipAutoExport(c) \/ Abort(c)
  <2>1. /\ Others(c) /\ UNCHANGED review /\ c \notin background'
        /\ pc'[c] = "idle" /\ op'[c] = "none"
    BY <1>2 DEF SkipAutoExport, Abort, Finish, Others, IInv, TypeOK
  <2>2. Timely(c)'
    BY <2>1 DEF Timely
  <2> QED BY <2>1, <2>2, SlotSInv DEF SameStage, Working
<1> QED BY <1>1, <1>2

\* The replies of Jira, and the read of an update.
LEMMA WaitSInv ==
    ASSUME IInv, SInv, NEW c \in Slots,
           \/ \E t \in open[c] : IssueCreated(c, t) \/ IssueRejected(c, t)
           \/ AllSettled(c)
           \/ UpdateRead(c)
    PROVE  SInv'
<1> DEFINE Waits ==
             /\ Others(c) /\ UNCHANGED <<review, background, op>>
             /\ pc[c] # "idle" /\ pc'[c] # "immediate"
             /\ pc'[c] = "write" => base'[c] = review
             /\ draft'[c].tasks = draft[c].tasks
             /\ draft'[c].attestations = draft[c].attestations
<1>1. Waits
  <2>1. draft[c] \in Draft
    BY DEF IInv, TypeOK
  <2>2. ASSUME NEW t \in open[c], IssueCreated(c, t) PROVE Waits
    BY <2>1, <2>2 DEF IssueCreated, Others, IInv, TypeOK, Draft
  <2>3. ASSUME NEW t \in open[c], IssueRejected(c, t) PROVE Waits
    BY <2>3 DEF IssueRejected, Others, IInv, TypeOK
  <2>4. CASE AllSettled(c)
    BY <2>4 DEF AllSettled, Others, IInv, TypeOK
  <2>5. CASE UpdateRead(c)
    BY <2>5 DEF UpdateRead, Others, IInv, TypeOK
  <2> QED BY <2>2, <2>3, <2>4, <2>5
<1>2. Timely(c)'
  BY <1>1 DEF SInv, Timely, SameStage
<1>3. Working(c)' => Working(c)
  BY <1>1 DEF Working
<1> QED BY <1>1, <1>2, <1>3, SlotSInv DEF SInv, Backgrounds, SameStage

\* The write of a call whose turn it is.
LEMMA MergeStage ==
    ASSUME NEW r \in Review, NEW d \in Draft
    PROVE  /\ SameStage(Merge("answers", r, d),
                        [status |-> "questionnaire_answered", tasks |-> d.tasks,
                         attestations |-> r.attestations])
           /\ SameStage(Merge("acknowledge", r, d),
                        [status |-> "tasks_acknowledged", tasks |-> r.tasks,
                         attestations |-> r.attestations])
           /\ SameStage(Merge("attest", r, d),
                        [status |-> "attested", tasks |-> r.tasks,
                         attestations |-> d.attestations])
           /\ SameStage(Merge("export", r, d),
                        [status |-> r.status, tasks |-> d.tasks,
                         attestations |-> r.attestations])
  BY DEF Merge, SameStage, Review

\* A write is a step of the lifecycle, or one of an export.
LEMMA WriteAdvances ==
    ASSUME IInv, SInv, NEW c \in Slots, UpdateWrite(c)
    PROVE  /\ op[c] = "answers" => Lifecycle!Answer
           /\ op[c] = "acknowledge" => Lifecycle!Acknowledge
           /\ op[c] = "attest" => Lifecycle!Attest
           /\ op[c] = "export" => SameStage(review', review)
           /\ op[c] \in {"answers", "acknowledge", "attest", "export"}
<1>1. /\ op[c] \in {"answers", "acknowledge", "attest", "export"}
      /\ base[c] \in Review /\ draft[c] \in Draft
      /\ SameStage(base[c], review) /\ Timely(c)
  BY DEF UpdateWrite, IInv, TypeOK, SoundSlot, Control, Ops, SInv, Timely
<1>2. review' = Merge(op[c], base[c], draft[c])
  BY DEF UpdateWrite
<1>3. draft[c].tasks \in SUBSET Lifecycle!TaskId
  BY <1>1 DEF Draft, TaskId, Lifecycle!TaskId
<1>4. op[c] = "answers" => Lifecycle!Answer
  BY <1>1, <1>2, <1>3, MergeStage DEF SameStage, Timely, Lifecycle!Answer
<1>5. op[c] = "acknowledge" => Lifecycle!Acknowledge
  BY <1>1, <1>2, MergeStage DEF SameStage, Timely, Lifecycle!Acknowledge
<1>6. op[c] = "attest" => Lifecycle!Attest
  BY <1>1, <1>2, MergeStage DEF SameStage, Timely, Lifecycle!Attest
<1>7. op[c] = "export" => SameStage(review', review)
  BY <1>1, <1>2, MergeStage DEF SameStage, Timely
<1> QED BY <1>1, <1>4, <1>5, <1>6, <1>7

LEMMA WriteSInv ==
    ASSUME IInv, SInv, NEW c \in Slots, UpdateWrite(c)
    PROVE  SInv'
<1>1. /\ Others(c) /\ op'[c] = "none" /\ pc[c] = "write" /\ pc'[c] # "write"
      /\ pc'[c] = IF op[c] = "attest" THEN "immediate" ELSE "idle"
      /\ c \in background' <=> op[c] = "attest"
  BY DEF UpdateWrite, Others, IInv, TypeOK
<1>2. Timely(c)'
  BY <1>1 DEF Timely
<1>3. CASE op[c] = "export"
  <2>1. SameStage(review', review)
    BY <1>3, WriteAdvances
  <2> QED BY <1>1, <1>2, <1>3, <2>1, SlotSInv DEF Working
<1>4. CASE op[c] # "export"
  <2>1. /\ review.status # "attested" /\ AttestedCoversTasks'
        /\ op[c] = "attest" => review'.status = "attested"
    BY <1>1, <1>4, WriteAdvances
       DEF Lifecycle!Answer, Lifecycle!Acknowledge, Lifecycle!Attest, SInv,
           AttestedCoversTasks
  <2>2. ASSUME NEW d \in Slots, d # c
        PROVE  pc[d] = "idle" /\ op[d] = "none" /\ d \notin background
    <3>1. c \notin background /\ d \notin background
      BY <2>1 DEF SInv, Backgrounds
    <3>2. pc[d] = "idle"
      BY <1>1, <2>2, <3>1 DEF SInv, OneCall
    <3> QED BY <3>1, <3>2 DEF IInv, SoundSlot, Control
  <2>3. ASSUME NEW d \in Slots PROVE Timely(d)'
    BY <1>2, <1>1, <2>2 DEF Timely, Others
  <2>4. Backgrounds'
    BY <1>1, <2>1, <2>2 DEF Backgrounds, Others
  <2>5. OneCall'
    BY <1>1, <2>2 DEF OneCall, Others
  <2> QED BY <2>1, <2>3, <2>4, <2>5 DEF SInv
<1> QED BY <1>3, <1>4

LEMMA SerialSInv == IInv /\ SInv /\ [SerialNext]_vars => SInv'
<1> SUFFICES ASSUME IInv, SInv, [SerialNext]_vars PROVE SInv'
  OBVIOUS
<1>1. ASSUME NEW c \in Slots, (Quiet /\ Request(c)) \/ Step(c) \/ Abort(c)
      PROVE  SInv'
  BY <1>1, RequestSInv, EndSInv, WaitSInv, WriteSInv DEF Step
<1>2. CASE (\E p \in Policies : EditPolicy(p)) \/ UNCHANGED vars
  BY <1>2 DEF EditPolicy, vars, SInv, AttestedCoversTasks, Backgrounds, OneCall,
              Timely, SameStage
<1> QED BY <1>1, <1>2 DEF SerialNext

LEMMA SerialInvariance == SerialSpec => [](IInv /\ SInv)
<1>1. SerialSpec => []IInv
  BY SerialIsConcurrent, Invariance
<1>2. Init => SInv
  BY InitSInv
<1>3. IInv /\ SInv /\ [SerialNext]_vars => SInv'
  BY SerialSInv
<1> QED BY <1>1, <1>2, <1>3, PTL DEF SerialSpec

\* A client that awaits its replies finds every task of an attested review
\* attested, and no attestation before that (getAttestationSummary).
THEOREM AttestationsCoverTheTasks == SerialSpec => []AttestedCoversTasks
<1>1. SInv => AttestedCoversTasks
  BY DEF SInv
<1> QED BY <1>1, SerialInvariance, PTL

\* For such a client the review, its reads and writes, background exports and
\* aborted calls implement the lifecycle of four statuses.
THEOREM SerialReviewsAreALifecycle == SerialSpec => LifecycleSpec
<1>1. Init => Lifecycle!Init
  BY DEF Init, StartReview, Lifecycle!Init
<1>2. ASSUME IInv, SInv, [SerialNext]_vars PROVE [Lifecycle!Next]_(Lifecycle!vars)
  <2>1. CASE \E c \in Slots : UpdateWrite(c)
    <3> PICK c \in Slots : UpdateWrite(c)
      BY <2>1
    <3> QED BY <1>2, WriteAdvances DEF SameStage, Lifecycle!Next, Lifecycle!vars
  <2>2. CASE UNCHANGED review
    BY <2>2 DEF Lifecycle!vars
  <2>3. (\E c \in Slots : UpdateWrite(c)) \/ UNCHANGED review
    BY <1>2 DEF SerialNext, Request, Step, SubmitAnswers, AcknowledgeTasks,
                SubmitAttestations, ExportToJira, AutoExport, ExportTasks, Enter,
                SkipAutoExport, IssueCreated, IssueRejected, AllSettled,
                UpdateRead, Abort, EditPolicy, vars
  <2> QED BY <2>1, <2>2, <2>3
<1> QED BY <1>1, <1>2, SerialInvariance, PTL
        DEF SerialSpec, LifecycleSpec, Lifecycle!Spec
=============================================================================
