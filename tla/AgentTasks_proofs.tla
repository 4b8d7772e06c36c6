------------------------- MODULE AgentTasks_proofs --------------------------
(***************************************************************************)
(* Allowlists bind every chain of sub-agents, an abort stops the whole     *)
(* tree, and compaction spares the question, for all tools, definitions,   *)
(* replies and bounds.                                                     *)
(*                                                                         *)
(* A step moves the running task, which stays who it is, or launches a     *)
(* sub-agent, or takes a sub-agent's result, or cancels (StepCases).  The  *)
(* invariants follow from these four cases.                                *)
(***************************************************************************)
EXTENDS AgentTasks, SequenceTheorems, TLAPS

Fields ==
  {"at", "input", "agent", "tools", "spawnDepth", "seeded", "iteration", "maxIterations",
   "maxMessages", "aborted", "messages", "summary", "using", "outcome"}

\* Every slot of the stack holds a task.
Shape ==
  /\ DOMAIN task = Levels
  /\ \A i \in Levels : DOMAIN task[i] = Fields
  /\ top \in Levels

\* f becomes g: it is who it was, no abort was forgotten, no tool started under one.
Moves(f, g) ==
  /\ DOMAIN g = Fields
  /\ g.tools \ Builtin = f.tools \ Builtin
  /\ g.agent = f.agent
  /\ g.aborted = f.aborted
  /\ g.at = "acting" => ~f.aborted

MoveStep ==
  \E g : Moves(Running, g) /\ Becomes(g) /\ Same

IInv == Shape /\ AllowlistsBind /\ AbortReachesAll

-----------------------------------------------------------------------------
(* The operators on one task. *)

LEMMA ThrowMoves == ASSUME NEW f, DOMAIN f = Fields PROVE Moves(f, Throw(f))
  BY DEF Moves, Throw, Fields

LEMMA ReturnMoves == ASSUME NEW f, DOMAIN f = Fields, NEW o PROVE Moves(f, Return(f, o))
  BY DEF Moves, Return, Fields

LEMMA ContinueMoves == ASSUME NEW f, DOMAIN f = Fields PROVE Moves(f, Continue(f))
  BY DEF Moves, Continue, Fields

LEMMA CheckTokenBudgetMoves == ASSUME NEW f, DOMAIN f = Fields PROVE Moves(f, CheckTokenBudget(f))
  BY ThrowMoves DEF Moves, CheckTokenBudget, Fields

\* An update of the other fields changes nothing Moves speaks of.
LEMMA MovesOn ==
  ASSUME NEW f, NEW g, NEW h, Moves(g, h), DOMAIN g = Fields,
         g.tools \ Builtin = f.tools \ Builtin, g.agent = f.agent, g.aborted = f.aborted
  PROVE  Moves(f, h)
  BY DEF Moves

LEMMA AnsweredKeeps ==
  ASSUME Shape
  PROVE  /\ DOMAIN Answered = Fields
         /\ Answered.tools = Running.tools
         /\ Answered.agent = Running.agent
         /\ Answered.aborted = Running.aborted
  BY DEF Answered, Running, Shape, Fields

LEMMA CompactedKeeps ==
  ASSUME NEW f, DOMAIN f = Fields
  PROVE  /\ DOMAIN Compacted(f) = Fields
         /\ Compacted(f).tools = f.tools
         /\ Compacted(f).agent = f.agent
         /\ Compacted(f).aborted = f.aborted
  BY DEF Compacted, Fields

LEMMA WithPagingKeeps ==
  ASSUME NEW f, DOMAIN f = Fields
  PROVE  /\ DOMAIN WithPaging(f) = Fields
         /\ WithPaging(f).tools \ Builtin = f.tools \ Builtin
         /\ WithPaging(f).agent = f.agent
         /\ WithPaging(f).aborted = f.aborted
  BY DEF WithPaging, Builtin, Fields

-----------------------------------------------------------------------------
(* The four kinds of step. *)

LEMMA RunningShape == ASSUME Shape PROVE DOMAIN Running = Fields
  BY DEF Shape, Running

LEMMA EntersMove ==
  ASSUME Shape, EnterAborted \/ MaxIterationsReached \/ Ask
  PROVE  MoveStep
<1> DEFINE f == Running
<1>0. DOMAIN f = Fields
  BY RunningShape
<1>1. CASE EnterAborted
  BY <1>0, <1>1, ThrowMoves DEF EnterAborted, MoveStep
<1>2. CASE MaxIterationsReached
  <2> DEFINE g == [f EXCEPT !.iteration = Counted(f)]
  <2>1. /\ DOMAIN g = Fields /\ g.tools = f.tools /\ g.agent = f.agent /\ g.aborted = f.aborted
    BY <1>0 DEF Fields
  <2>2. Moves(g, Return(g, [success |-> FALSE, completed |-> TRUE]))
    BY <2>1, ReturnMoves
  <2>3. Moves(f, Return(g, [success |-> FALSE, completed |-> TRUE]))
    BY <2>1, <2>2, MovesOn
  <2> QED
    BY <1>2, <2>3 DEF MaxIterationsReached, MoveStep
<1>3. CASE Ask
  <2> DEFINE g == [f EXCEPT !.iteration = Counted(f), !.messages = Append(@, f.input)]
             h == IF ShouldSummarize(g) THEN [g EXCEPT !.at = "compacting"] ELSE CheckTokenBudget(g)
  <2>1. /\ DOMAIN g = Fields /\ g.tools = f.tools /\ g.agent = f.agent /\ g.aborted = f.aborted
    BY <1>0 DEF Fields
  <2> HIDE DEF g
  <2>2. Moves(g, CheckTokenBudget(g))
    BY <2>1, CheckTokenBudgetMoves
  <2>3. Moves(g, [g EXCEPT !.at = "compacting"])
    BY <2>1 DEF Moves, Fields
  <2>4. Moves(g, h)
    BY <2>2, <2>3
  <2>5. Moves(f, h)
    BY <2>1, <2>4, MovesOn
  <2> QED
    BY <1>3, <2>5 DEF Ask, MoveStep, g
<1> QED
  BY <1>1, <1>2, <1>3

LEMMA AnswersMove ==
  ASSUME Shape, SummarizeOlderMessages \/ CompletionFails \/ InvalidToolUse \/ AnswerAborted \/ UseTools
  PROVE  MoveStep
<1> DEFINE f == Running
<1>0. DOMAIN f = Fields
  BY RunningShape
<1>1. CASE SummarizeOlderMessages
  <2>1. Moves(f, CheckTokenBudget(f))
    BY <1>0, CheckTokenBudgetMoves
  <2>2. Moves(Compacted(f), CheckTokenBudget(Compacted(f)))
    BY <1>0, CompactedKeeps, CheckTokenBudgetMoves
  <2>3. Moves(f, CheckTokenBudget(Compacted(f)))
    BY <1>0, <2>2, CompactedKeeps, MovesOn
  <2> QED
    BY <1>1, <2>1, <2>3 DEF SummarizeOlderMessages, MoveStep
<1>2. CASE CompletionFails
  BY <1>0, <1>2, ThrowMoves DEF CompletionFails, MoveStep
<1>3. CASE InvalidToolUse
  <2>1. Moves(Answered, Continue(Answered))
    BY AnsweredKeeps, ContinueMoves
  <2>2. Moves(f, Continue(Answered))
    BY <2>1, AnsweredKeeps, MovesOn
  <2> QED
    BY <1>3, <2>2 DEF InvalidToolUse, MoveStep
<1>4. CASE AnswerAborted
  <2>1. Moves(Answered, Throw(Answered))
    BY AnsweredKeeps, ThrowMoves
  <2>2. Moves(f, Throw(Answered))
    BY <2>1, AnsweredKeeps, MovesOn
  <2> QED
    BY <1>4, <2>2 DEF AnswerAborted, MoveStep
<1>5. CASE UseTools
  <2>1. PICK uses \in Replies \ {<<>>} : Becomes([Answered EXCEPT !.at = "acting", !.using = uses])
    BY <1>5 DEF UseTools
  <2>2. ~f.aborted /\ Same
    BY <1>5 DEF UseTools, MayAct
  <2>3. Moves(f, [Answered EXCEPT !.at = "acting", !.using = uses])
    BY <2>2, AnsweredKeeps DEF Moves, Fields
  <2> QED
    BY <2>1, <2>2, <2>3 DEF MoveStep
<1> QED
  BY <1>1, <1>2, <1>3, <1>4, <1>5

LEMMA ToolsMove ==
  ASSUME Shape, ToolsReturn \/ ToolThrows \/ \E fork \in BOOLEAN : DelegateRefused(fork)
  PROVE  MoveStep
<1> DEFINE f == Running
<1>0. DOMAIN f = Fields
  BY RunningShape
<1>1. CASE ToolsReturn
  <2>1. PICK r \in ToolResults(f) :
          Becomes(Ended(f, r)) \/ Becomes(Continue(f)) \/ Becomes(Continue(WithPaging(f)))
    BY <1>1 DEF ToolsReturn
  <2>2. Moves(f, Ended(f, r))
    <3>1. \A o : Moves(f, Return(f, o))
      BY <1>0, ReturnMoves
    <3> QED
      BY <3>1 DEF Ended
  <2>3. Moves(f, Continue(f))
    BY <1>0, ContinueMoves
  <2>4. Moves(WithPaging(f), Continue(WithPaging(f)))
    BY <1>0, WithPagingKeeps, ContinueMoves
  <2>5. Moves(f, Continue(WithPaging(f)))
    BY <1>0, <2>4, WithPagingKeeps, MovesOn
  <2>6. Same
    BY <1>1 DEF ToolsReturn
  <2> QED
    BY <2>1, <2>2, <2>3, <2>5, <2>6 DEF MoveStep
<1>2. CASE ToolThrows
  BY <1>0, <1>2, ThrowMoves DEF ToolThrows, MoveStep
<1>3. CASE \E fork \in BOOLEAN : DelegateRefused(fork)
  <2>1. Moves(Answered, Continue(Answered))
    BY AnsweredKeeps, ContinueMoves
  <2>2. Moves(f, Continue(Answered))
    BY <2>1, AnsweredKeeps, MovesOn
  <2> QED
    BY <1>3, <2>2 DEF DelegateRefused, MoveStep
<1> QED
  BY <1>1, <1>2, <1>3

\* Every step is one of four kinds.
LEMMA StepCases ==
  ASSUME Shape, Next
  PROVE  \/ MoveStep
         \/ \E a \in AgentTypes, fork \in BOOLEAN : Delegate(a, fork)
         \/ SubAgentReturns
         \/ Cancel
  BY EntersMove, AnswersMove, ToolsMove DEF Next, Step

-----------------------------------------------------------------------------
(* The inductive invariant. *)

LEMMA InitIInv == Init => IInv
<1> SUFFICES ASSUME Init PROVE IInv
  OBVIOUS
<1>1. 0 \in Levels
  BY Limits DEF Levels
<1>2. DOMAIN NoTask = Fields /\ \A seed : DOMAIN RootTask(seed) = Fields
  BY DEF NoTask, RootTask, Fields
<1>3. Shape
  BY <1>1, <1>2 DEF Init, Shape
<1> QED
  BY <1>1, <1>3 DEF Init, IInv, AllowlistsBind, AbortReachesAll, Live

LEMMA MovePreserves ==
  ASSUME IInv, MoveStep
  PROVE  IInv'
<1>1. PICK g : Moves(task[top], g) /\ task' = [task EXCEPT ![top] = g] /\ top' = top /\ cancelled' = cancelled
  BY DEF MoveStep, Becomes, Same, Running
<1> USE DEF IInv, Shape
<1>2. \A i \in Levels : task'[i] = IF i = top THEN g ELSE task[i]
  BY <1>1
<1>3. Shape'
  BY <1>1, <1>2 DEF Moves
<1>4. \A i \in Levels : /\ task'[i].tools \ Builtin = task[i].tools \ Builtin
                        /\ task'[i].agent = task[i].agent
                        /\ task'[i].aborted = task[i].aborted
  BY <1>1, <1>2 DEF Moves
<1>5. Live \subseteq Levels /\ Live' = Live
  BY <1>1, Limits DEF Live, Levels
<1>6. AllowlistsBind'
  <2> SUFFICES ASSUME NEW i \in Live, NEW j \in Live, i < j
               PROVE  /\ task'[j].tools \ Builtin \subseteq task'[i].tools \ InteractionTools
                      /\ task'[j].agent \in AgentTypes
                      /\ \A t \in task'[j].tools \ Builtin : Permits(task'[j].agent, t)
    BY <1>5 DEF AllowlistsBind
  <2>1. /\ task[j].tools \ Builtin \subseteq task[i].tools \ InteractionTools
        /\ task[j].agent \in AgentTypes
        /\ \A t \in task[j].tools \ Builtin : Permits(task[j].agent, t)
    BY DEF AllowlistsBind
  <2>2. i \in Levels /\ j \in Levels
    BY <1>5
  <2> QED
    BY <1>4, <2>1, <2>2
<1>7. AbortReachesAll'
  BY <1>1, <1>4, <1>5 DEF AbortReachesAll
<1> QED
  BY <1>3, <1>6, <1>7

LEMMA DelegatePreserves ==
  ASSUME IInv, NEW a \in AgentTypes, NEW fork \in BOOLEAN, Delegate(a, fork)
  PROVE  IInv'
<1> DEFINE f == task[top]
           c == SubTask(f, a, ParentHistory(fork))
           g == [Answered EXCEPT !.at = "delegating"]
<1> USE DEF IInv
<1>1. top \in Levels /\ top + 1 \in Levels /\ top' = top + 1 /\ cancelled' = cancelled /\ DOMAIN task = Levels
  BY Limits DEF Delegate, Shape, Levels
<1>2. /\ \A i \in Levels \ {top, top + 1} : task'[i] = task[i]
      /\ task'[top] = g
      /\ task'[top + 1] = c
      /\ DOMAIN task' = Levels
  BY <1>1 DEF Delegate, Running, Levels
<1>3. DOMAIN g = Fields /\ g.tools = f.tools /\ g.agent = f.agent /\ g.aborted = f.aborted
  BY AnsweredKeeps DEF Running, Fields
<1>4. /\ DOMAIN c = Fields
      /\ c.agent = a
      /\ c.tools = EnsureBuiltinTools(ResolveToolsForAgent(f, a))
  BY DEF SubTask, NoTask, Fields
<1>5. ~cancelled
  BY <1>1 DEF Delegate, MayAct, Running, AbortReachesAll, Live, Levels
<1>6. Shape'
  BY <1>1, <1>2, <1>3, <1>4 DEF Shape
<1>7. Live' = Live \cup {top + 1} /\ top + 1 \notin Live /\ Live \subseteq Levels /\ top \in Live
  BY <1>1, Limits DEF Live, Levels
<1>8. \A i \in Live : task'[i].tools = task[i].tools /\ task'[i].agent = task[i].agent
  BY <1>2, <1>3, <1>7
<1>9. c.tools \ Builtin = {t \in f.tools \ (Builtin \cup InteractionTools) : Permits(a, t)}
  <2>1. ResolveToolsForAgent(f, a) \cap Builtin = {}
    BY DEF ResolveToolsForAgent, DelegatableTools
  <2>2. c.tools \ Builtin = ResolveToolsForAgent(f, a)
    BY <1>4, <2>1 DEF EnsureBuiltinTools, Builtin
  <2> QED
    BY <2>2 DEF ResolveToolsForAgent, DelegatableTools
<1>10. AllowlistsBind'
  <2> SUFFICES ASSUME NEW i \in Live', NEW j \in Live', i < j
               PROVE  /\ task'[j].tools \ Builtin \subseteq task'[i].tools \ InteractionTools
                      /\ task'[j].agent \in AgentTypes
                      /\ \A t \in task'[j].tools \ Builtin : Permits(task'[j].agent, t)
    BY DEF AllowlistsBind
  <2>1. i \in Live
    BY <1>1, <1>7 DEF Live, Levels
  <2>2. CASE j \in Live
    <3>1. /\ task[j].tools \ Builtin \subseteq task[i].tools \ InteractionTools
          /\ task[j].agent \in AgentTypes
          /\ \A t \in task[j].tools \ Builtin : Permits(task[j].agent, t)
      BY <2>1, <2>2 DEF AllowlistsBind
    <3> QED
      BY <1>8, <2>1, <2>2, <3>1
  <2>3. CASE j = top + 1
    <3>1. f.tools \ (Builtin \cup InteractionTools) \subseteq task[i].tools \ InteractionTools
      <4>1. CASE i = top
        BY <4>1
      <4>2. CASE i < top
        BY <1>7, <2>1, <4>2 DEF AllowlistsBind
      <4> QED
        BY <2>1, <4>1, <4>2, <1>1 DEF Live, Levels
    <3>2. c.tools \ Builtin \subseteq task'[i].tools \ InteractionTools
      BY <1>8, <1>9, <2>1, <3>1
    <3>3. \A t \in c.tools \ Builtin : Permits(a, t)
      BY <1>9
    <3> QED
      BY <1>2, <1>4, <2>3, <3>2, <3>3
  <2> QED
    BY <1>7, <2>2, <2>3
<1>11. AbortReachesAll'
  BY <1>1, <1>5 DEF AbortReachesAll
<1> QED
  BY <1>6, <1>10, <1>11

LEMMA ReturnPreserves ==
  ASSUME IInv, SubAgentReturns
  PROVE  IInv'
<1> DEFINE g == Continue(task[top - 1])
<1> USE DEF IInv
<1>1. /\ top \in Levels /\ top - 1 \in Levels /\ top' = top - 1 /\ cancelled' = cancelled
      /\ DOMAIN task = Levels /\ \A i \in Levels : DOMAIN task[i] = Fields
  BY Limits DEF SubAgentReturns, Shape, Levels
<1>2. task' = [task EXCEPT ![top] = NoTask, ![top - 1] = g]
  BY DEF SubAgentReturns
<1>3. Moves(task[top - 1], g)
  BY <1>1, ContinueMoves
<1>4. DOMAIN NoTask = Fields
  BY DEF NoTask, Fields
<1>5. Shape'
  BY <1>1, <1>2, <1>3, <1>4 DEF Shape, Moves
<1>6. Live' \subseteq Live /\ Live \subseteq Levels
  BY <1>1, Limits DEF Live, Levels
<1>7. \A i \in Live' : task'[i] = IF i = top - 1 THEN g ELSE task[i]
  BY <1>1, <1>2, <1>6 DEF Live, Levels
<1>8. \A i \in Live' : /\ task'[i].tools \ Builtin = task[i].tools \ Builtin
                       /\ task'[i].agent = task[i].agent
                       /\ task'[i].aborted = task[i].aborted
  BY <1>3, <1>7 DEF Moves
<1>9. AllowlistsBind'
  <2> SUFFICES ASSUME NEW i \in Live', NEW j \in Live', i < j
               PROVE  /\ task'[j].tools \ Builtin \subseteq task'[i].tools \ InteractionTools
                      /\ task'[j].agent \in AgentTypes
                      /\ \A t \in task'[j].tools \ Builtin : Permits(task'[j].agent, t)
    BY DEF AllowlistsBind
  <2>1. /\ task[j].tools \ Builtin \subseteq task[i].tools \ InteractionTools
        /\ task[j].agent \in AgentTypes
        /\ \A t \in task[j].tools \ Builtin : Permits(task[j].agent, t)
    BY <1>6 DEF AllowlistsBind
  <2> QED
    BY <1>8, <2>1
<1>10. AbortReachesAll'
  BY <1>1, <1>6, <1>8 DEF AbortReachesAll
<1> QED
  BY <1>5, <1>9, <1>10

LEMMA CancelPreserves ==
  ASSUME IInv, Cancel
  PROVE  IInv'
<1> USE DEF IInv
<1>1. /\ top' = top /\ DOMAIN task' = Levels
      /\ \A i \in Levels : task'[i] = IF i =< top THEN [task[i] EXCEPT !.aborted = TRUE] ELSE task[i]
  BY DEF Cancel, HearsAbort
<1>2. \A i \in Levels : /\ DOMAIN task'[i] = Fields
                        /\ task'[i].tools = task[i].tools
                        /\ task'[i].agent = task[i].agent
                        /\ i =< top => task'[i].aborted
  BY <1>1 DEF Shape, Fields
<1>3. Shape'
  BY <1>1, <1>2 DEF Shape
<1>4. Live' = Live /\ Live \subseteq Levels
  BY <1>1, Limits DEF Live, Levels, Shape
<1>5. AllowlistsBind'
  <2> SUFFICES ASSUME NEW i \in Live, NEW j \in Live, i < j
               PROVE  /\ task'[j].tools \ Builtin \subseteq task'[i].tools \ InteractionTools
                      /\ task'[j].agent \in AgentTypes
                      /\ \A t \in task'[j].tools \ Builtin : Permits(task'[j].agent, t)
    BY <1>4 DEF AllowlistsBind
  <2>1. /\ task[j].tools \ Builtin \subseteq task[i].tools \ InteractionTools
        /\ task[j].agent \in AgentTypes
        /\ \A t \in task[j].tools \ Builtin : Permits(task[j].agent, t)
    BY DEF AllowlistsBind
  <2> QED
    BY <1>2, <1>4, <2>1
<1>6. AbortReachesAll'
  BY <1>1, <1>2, <1>4 DEF AbortReachesAll, Live, Levels, Shape
<1> QED
  BY <1>3, <1>5, <1>6

LEMMA NextIInv == IInv /\ [Next]_vars => IInv'
<1> SUFFICES ASSUME IInv, [Next]_vars PROVE IInv'
  OBVIOUS
<1>1. CASE Next
  BY <1>1, StepCases, MovePreserves, DelegatePreserves, ReturnPreserves, CancelPreserves DEF IInv
<1>2. CASE UNCHANGED vars
  BY <1>2 DEF vars, IInv, Shape, AllowlistsBind, AbortReachesAll, Live
<1> QED
  BY <1>1, <1>2

LEMMA Inductive == Spec => []IInv
<1>1. Init => IInv
  BY InitIInv
<1>2. IInv /\ [Next]_vars => IInv'
  BY NextIInv
<1> QED
  BY <1>1, <1>2, PTL DEF Spec

\* No sub-agent holds a tool that the definition of an agent above it withholds,
\* or one that talks to the user (ensureBuiltinTools, resolveToolsForAgent).
THEOREM AllowlistsAlwaysBind == Spec => []AllowlistsBind
<1>1. IInv => AllowlistsBind
  BY DEF IInv
<1> QED
  BY <1>1, Inductive, PTL

\* An abort is known to every task of the tree, whenever it was launched (cancel).
THEOREM AbortsReachAll == Spec => []AbortReachesAll
<1>1. IInv => AbortReachesAll
  BY DEF IInv
<1> QED
  BY <1>1, Inductive, PTL

\* After an abort no tool is started and no sub-agent launched (execute).
THEOREM AbortsStopTools == Spec => AbortStopsTools
<1> DEFINE Quiet == cancelled => /\ top' =< top
                                 /\ \A i \in Levels : task'[i].at = "acting" => task[i].at = "acting"
<1>1. ASSUME IInv, [Next]_vars PROVE Quiet \/ UNCHANGED vars
  <2> SUFFICES ASSUME cancelled, Next PROVE Quiet
    BY <1>1
  <2>1. task[top].aborted /\ DOMAIN task = Levels /\ top \in Levels
    BY <1>1, Limits DEF IInv, AbortReachesAll, Shape, Live, Levels
  <2>2. top \in Int
    BY <2>1, Limits DEF Levels
  <2>3. CASE MoveStep
    <3>1. PICK g : Moves(task[top], g) /\ task' = [task EXCEPT ![top] = g] /\ top' = top
      BY <2>3 DEF MoveStep, Becomes, Same, Running
    <3>2. g.at # "acting"
      BY <2>1, <3>1 DEF Moves
    <3> QED
      BY <2>1, <2>2, <3>1, <3>2
  <2>4. ASSUME NEW a \in AgentTypes, NEW fork \in BOOLEAN, Delegate(a, fork) PROVE Quiet
    BY <2>1, <2>4 DEF Delegate, MayAct, Running
  <2>5. CASE SubAgentReturns
    <3>1. NoTask.at = "none"
      BY DEF NoTask
    <3>2. top - 1 \in Levels /\ DOMAIN task[top - 1] = Fields
      BY <1>1, <2>1, <2>5, Limits DEF SubAgentReturns, Levels, IInv, Shape
    <3>3. Continue(task[top - 1]).at = "entering"
      BY <3>2 DEF Continue, Fields
    <3> QED
      BY <2>1, <2>2, <2>5, <3>1, <3>2, <3>3 DEF SubAgentReturns
  <2>6. CASE Cancel
    BY <2>6 DEF Cancel
  <2> QED
    BY <1>1, StepCases, <2>3, <2>4, <2>5, <2>6 DEF IInv
<1>2. IInv /\ [Next]_vars => [Quiet]_vars
  BY <1>1
<1> QED
  BY <1>2, Inductive, PTL DEF Spec, AbortStopsTools

-----------------------------------------------------------------------------
(* What a task was asked stays at the head of its messages: compaction     *)
(* spares the first two, and needs more than that to begin.                *)

Opens(s) == s \in Seq(Kinds) /\ Len(s) >= 1 /\ s[1] = "ask"

UnderWay == {"compacting", "asking", "acting", "delegating"}

Kept(f) ==
  /\ f.iteration \in Nat /\ f.maxIterations \in Nat
  /\ f.at # "none" => f.maxIterations >= 1
  /\ f.at \in UnderWay => f.iteration > 0
  /\ ~f.seeded =>
       /\ f.input \in Kinds
       /\ IF f.iteration = 0 THEN f.messages = <<>> /\ f.input = "ask"
                             ELSE Opens(f.messages)
       /\ f.at = "compacting" => Summarizable(f) > 0

\* The ancestors of the running task await it.
AllKept ==
  /\ Shape
  /\ \A i \in Levels : Kept(task[i]) /\ (i < top => task[i].at = "delegating")

LEMMA OpensAppend ==
  ASSUME NEW s, Opens(s), NEW m \in Kinds
  PROVE  Opens(Append(s, m))
  BY DEF Opens

LEMMA OpensFirst == Opens(Append(<<>>, "ask"))
<1>1. <<>> \in Seq(Kinds) /\ Len(<<>>) = 0 /\ "ask" \in Kinds
  BY DEF Kinds
<1>2. ASSUME NEW s \in Seq(Kinds), Len(s) = 0, NEW m \in Kinds
      PROVE  Append(s, m) \in Seq(Kinds) /\ Len(Append(s, m)) = 1 /\ Append(s, m)[1] = m
  BY <1>2
<1> QED
  BY <1>1, <1>2 DEF Opens

LEMMA OpensCompacted ==
  ASSUME NEW s, Opens(s), NEW k \in Nat, k > 2, k =< Len(s)
  PROVE  Opens(SubSeq(s, 1, 2) \o SubSeq(s, k + 1, Len(s)))
<1> DEFINE a == SubSeq(s, 1, 2)
           b == SubSeq(s, k + 1, Len(s))
<1>1. s \in Seq(Kinds) /\ Len(s) \in Nat /\ s[1] = "ask"
  BY DEF Opens
<1>2. a \in Seq(Kinds) /\ Len(a) = 2 /\ a[1] = s[1]
  BY <1>1
<1>3. b \in Seq(Kinds) /\ Len(b) \in Nat
  BY <1>1
<1> HIDE DEF a, b
<1>4. a \o b \in Seq(Kinds) /\ Len(a \o b) = Len(a) + Len(b)
  BY <1>2, <1>3, ConcatProperties
<1>5. (a \o b)[1] = a[1]
  BY <1>2, <1>3, ConcatProperties
<1> QED
  BY <1>1, <1>2, <1>3, <1>4, <1>5 DEF Opens, a, b

LEMMA CompactedOpens ==
  ASSUME NEW f, DOMAIN f = Fields, Opens(f.messages), Summarizable(f) > 0
  PROVE  Opens(Compacted(f).messages)
<1> DEFINE k == Preserved + Summarizable(f)
<1>1. Len(f.messages) \in Nat /\ PreserveLast \in Nat
  BY Limits DEF Opens
<1>2. k \in Nat /\ k > 2 /\ k =< Len(f.messages)
  BY <1>1 DEF Summarizable, Preserved
<1>3. Compacted(f).messages
        = SubSeq(f.messages, 1, 2) \o SubSeq(f.messages, k + 1, Len(f.messages))
  BY DEF Compacted, Fields, Preserved
<1> QED
  BY <1>2, <1>3, OpensCompacted

\* A task under way stays sound if it keeps count, and the head of its messages.
LEMMA KeptOn ==
  ASSUME NEW f, Kept(f), f.iteration > 0, f.at # "none", NEW g,
         g.iteration = f.iteration, g.maxIterations = f.maxIterations,
         g.seeded = f.seeded, g.at # "compacting",
         ~f.seeded => g.input \in Kinds /\ Opens(g.messages)
  PROVE  Kept(g)
  BY DEF Kept

\* The operators that go on with a task under way.
LEMMA OperatorsKeep ==
  ASSUME NEW f, DOMAIN f = Fields, Kept(f), f.iteration > 0, f.at # "none"
  PROVE  /\ Kept(Throw(f)) /\ Kept(Continue(f)) /\ Kept(CheckTokenBudget(f))
         /\ \A o : Kept(Return(f, o))
<1>1. ~f.seeded => f.input \in Kinds /\ Opens(f.messages)
  BY DEF Kept
<1>2. Kept(Throw(f))
  BY <1>1, KeptOn DEF Throw, Fields
<1>3. Kept(Continue(f))
  <2>1. "result" \in Kinds
    BY DEF Kinds
  <2> QED
    BY <1>1, <2>1, KeptOn DEF Continue, Fields
<1>4. Kept([f EXCEPT !.at = "asking"])
  BY <1>1, KeptOn DEF Fields
<1>5. \A o : Kept(Return(f, o))
  BY <1>1, KeptOn DEF Return, Fields
<1> QED
  BY <1>2, <1>3, <1>4, <1>5 DEF CheckTokenBudget

\* A message more.
LEMMA AnswerKeeps ==
  ASSUME NEW f, DOMAIN f = Fields, Kept(f), f.iteration > 0,
         f.at \in {"asking", "acting"}, NEW m \in Kinds
  PROVE  Kept([f EXCEPT !.messages = Append(@, m)])
<1>1. ~f.seeded => f.input \in Kinds /\ Opens(Append(f.messages, m))
  BY OpensAppend DEF Kept
<1> QED
  BY <1>1, KeptOn DEF Fields

KeptStep == \E g : Becomes(g) /\ Same /\ Kept(g) /\ DOMAIN g = Fields

LEMMA RunningKept ==
  ASSUME AllKept
  PROVE  DOMAIN Running = Fields /\ Kept(Running) /\ top \in Levels
  BY DEF AllKept, Shape, Running

LEMMA EntersKeep ==
  ASSUME AllKept, EnterAborted \/ MaxIterationsReached \/ Ask
  PROVE  KeptStep
<1> DEFINE f == Running
<1>1. DOMAIN f = Fields /\ Kept(f) /\ f.at = "entering"
  BY RunningKept DEF EnterAborted, MaxIterationsReached, Ask
<1>2. CASE EnterAborted
  <2>1. Kept(Throw(f)) /\ DOMAIN Throw(f) = Fields
    BY <1>1 DEF Throw, Kept, Fields, UnderWay
  <2> QED
    BY <1>2, <2>1 DEF EnterAborted, KeptStep
<1>3. CASE MaxIterationsReached
  <2> DEFINE g == [f EXCEPT !.iteration = Counted(f)]
             h == Return(g, [success |-> FALSE, completed |-> TRUE])
  <2>1. f.iteration > 0
    BY <1>1, <1>3 DEF MaxIterationsReached, Counted, Kept
  <2>2. Kept(h) /\ DOMAIN h = Fields
    BY <1>1, <2>1 DEF Return, Kept, Fields, UnderWay, Counted
  <2> QED
    BY <1>3, <2>2 DEF MaxIterationsReached, KeptStep
<1>4. CASE Ask
  <2> DEFINE g == [f EXCEPT !.iteration = Counted(f), !.messages = Append(@, f.input)]
             h == IF ShouldSummarize(g) THEN [g EXCEPT !.at = "compacting"]
                                        ELSE CheckTokenBudget(g)
  <2>1. ~f.seeded => f.input \in Kinds /\ Opens(Append(f.messages, f.input))
    <3>1. CASE f.iteration = 0
      BY <1>1, <3>1, OpensFirst DEF Kept
    <3>2. CASE f.iteration # 0
      BY <1>1, <3>2, OpensAppend DEF Kept
    <3> QED
      BY <3>1, <3>2
  <2>2. /\ DOMAIN g = Fields /\ g.at = "entering" /\ g.iteration > 0
        /\ Kept(g)
    BY <1>1, <2>1 DEF Kept, Fields, Counted, UnderWay
  <2> HIDE DEF g
  <2>3. Kept(CheckTokenBudget(g)) /\ DOMAIN CheckTokenBudget(g) = Fields
    BY <2>2, OperatorsKeep DEF CheckTokenBudget, Throw, Fields
  <2>4. ASSUME ShouldSummarize(g)
        PROVE  Kept([g EXCEPT !.at = "compacting"])
               /\ DOMAIN [g EXCEPT !.at = "compacting"] = Fields
    BY <2>2, <2>4 DEF Kept, Fields, ShouldSummarize, Summarizable, UnderWay
  <2>5. Kept(h) /\ DOMAIN h = Fields
    BY <2>3, <2>4
  <2> QED
    BY <1>4, <2>5 DEF Ask, KeptStep, g
<1> QED
  BY <1>2, <1>3, <1>4

LEMMA AnsweredKept ==
  ASSUME AllKept, Running.at = "asking"
  PROVE  /\ DOMAIN Answered = Fields /\ Kept(Answered)
         /\ Answered.iteration > 0 /\ Answered.at = "asking"
         /\ Answered.seeded = Running.seeded
         /\ ~Answered.seeded => Answered.input \in Kinds /\ Opens(Answered.messages)
<1>1. DOMAIN Running = Fields /\ Kept(Running) /\ Running.iteration > 0
  BY RunningKept DEF Kept, UnderWay
<1>2. "reply" \in Kinds
  BY DEF Kinds
<1>3. Kept(Answered)
  BY <1>1, <1>2, AnswerKeeps DEF Answered
<1>4. /\ DOMAIN Answered = Fields /\ Answered.iteration = Running.iteration
      /\ Answered.at = Running.at /\ Answered.seeded = Running.seeded
  BY <1>1 DEF Answered, Fields
<1> QED
  BY <1>1, <1>3, <1>4 DEF Kept

LEMMA AnswersKeep ==
  ASSUME AllKept,
         SummarizeOlderMessages \/ CompletionFails \/ InvalidToolUse \/ AnswerAborted
           \/ UseTools \/ \E fork \in BOOLEAN : DelegateRefused(fork)
  PROVE  KeptStep
<1> DEFINE f == Running
<1>1. DOMAIN f = Fields /\ Kept(f) /\ f.at \in {"compacting", "asking"} /\ f.iteration > 0
  BY RunningKept
     DEF SummarizeOlderMessages, CompletionFails, InvalidToolUse, AnswerAborted,
         UseTools, DelegateRefused, Kept, UnderWay
<1>2. CASE SummarizeOlderMessages
  <2> DEFINE c == Compacted(f)
  <2>1. f.at = "compacting"
    BY <1>2 DEF SummarizeOlderMessages
  <2>2. /\ DOMAIN c = Fields /\ c.at = f.at /\ c.seeded = f.seeded /\ c.input = f.input
        /\ c.iteration = f.iteration /\ c.maxIterations = f.maxIterations
    BY <1>1 DEF Compacted, Fields
  <2>3. ~f.seeded => f.input \in Kinds /\ Opens(f.messages) /\ Opens(c.messages)
    BY <1>1, <2>1, CompactedOpens DEF Kept
  <2>4. ASSUME NEW g \in {f, c}
        PROVE  Kept(CheckTokenBudget(g)) /\ DOMAIN CheckTokenBudget(g) = Fields
    <3>1. /\ DOMAIN g = Fields /\ g.at = "compacting" /\ g.seeded = f.seeded
          /\ g.iteration = f.iteration /\ g.maxIterations = f.maxIterations
          /\ ~f.seeded => g.input \in Kinds /\ Opens(g.messages)
      BY <1>1, <2>1, <2>2, <2>3
    <3>2. Kept([g EXCEPT !.at = "asking"]) /\ Kept(Throw(g))
      BY <1>1, <2>1, <3>1, KeptOn DEF Throw, Fields
    <3>3. DOMAIN [g EXCEPT !.at = "asking"] = Fields /\ DOMAIN Throw(g) = Fields
      BY <3>1 DEF Throw
    <3> QED
      BY <3>2, <3>3 DEF CheckTokenBudget
  <2>5. \E g \in {f, c} : Becomes(CheckTokenBudget(g)) /\ Same
    BY <1>2 DEF SummarizeOlderMessages
  <2> QED
    BY <2>4, <2>5 DEF KeptStep
<1>3. CASE CompletionFails
  <2>1. Kept(Throw(f)) /\ DOMAIN Throw(f) = Fields
    BY <1>1, OperatorsKeep DEF Throw
  <2> QED
    BY <1>3, <2>1 DEF CompletionFails, KeptStep
<1>4. CASE InvalidToolUse \/ \E fork \in BOOLEAN : DelegateRefused(fork)
  <2>1. f.at = "asking"
    BY <1>4 DEF InvalidToolUse, DelegateRefused
  <2>2. Kept(Continue(Answered)) /\ DOMAIN Continue(Answered) = Fields
    BY <2>1, AnsweredKept, OperatorsKeep DEF Continue
  <2> QED
    BY <1>4, <2>2 DEF InvalidToolUse, DelegateRefused, KeptStep
<1>5. CASE AnswerAborted
  <2>1. f.at = "asking"
    BY <1>5 DEF AnswerAborted
  <2>2. Kept(Throw(Answered)) /\ DOMAIN Throw(Answered) = Fields
    BY <2>1, AnsweredKept, OperatorsKeep DEF Throw
  <2> QED
    BY <1>5, <2>2 DEF AnswerAborted, KeptStep
<1>6. CASE UseTools
  <2>1. f.at = "asking"
    BY <1>6 DEF UseTools
  <2>2. PICK uses : Becomes([Answered EXCEPT !.at = "acting", !.using = uses]) /\ Same
    BY <1>6 DEF UseTools
  <2>3. /\ Kept([Answered EXCEPT !.at = "acting", !.using = uses])
        /\ DOMAIN [Answered EXCEPT !.at = "acting", !.using = uses] = Fields
    BY <2>1, AnsweredKept, KeptOn DEF Fields
  <2> QED
    BY <2>2, <2>3 DEF KeptStep
<1> QED
  BY <1>2, <1>3, <1>4, <1>5, <1>6

LEMMA ToolsKeep ==
  ASSUME AllKept, ToolsReturn \/ ToolThrows
  PROVE  KeptStep
<1> DEFINE f == Running
<1>1. DOMAIN f = Fields /\ Kept(f) /\ f.at = "acting" /\ f.iteration > 0
  BY RunningKept DEF ToolsReturn, ToolThrows, Kept, UnderWay
<1>2. CASE ToolsReturn
  <2>1. PICK r : Becomes(Ended(f, r)) \/ Becomes(Continue(f)) \/ Becomes(Continue(WithPaging(f)))
    BY <1>2 DEF ToolsReturn
  <2>2. Kept(Ended(f, r)) /\ DOMAIN Ended(f, r) = Fields
    <3>1. \A o : Kept(Return(f, o)) /\ DOMAIN Return(f, o) = Fields
      BY <1>1, OperatorsKeep DEF Return
    <3> QED
      BY <3>1 DEF Ended
  <2>3. Kept(Continue(f)) /\ DOMAIN Continue(f) = Fields
    BY <1>1, OperatorsKeep DEF Continue
  <2>4. Kept(Continue(WithPaging(f))) /\ DOMAIN Continue(WithPaging(f)) = Fields
    <3> DEFINE p == [f EXCEPT !.tools = @ \cup {"data_access"}, !.messages = Append(@, "note")]
    <3>1. "note" \in Kinds
      BY DEF Kinds
    <3>2. /\ DOMAIN p = Fields /\ p.at = f.at /\ p.seeded = f.seeded /\ p.input = f.input
          /\ p.iteration = f.iteration /\ p.maxIterations = f.maxIterations
          /\ p.messages = Append(f.messages, "note")
      BY <1>1 DEF Fields
    <3>3. ~f.seeded => p.input \in Kinds /\ Opens(p.messages)
      BY <1>1, <3>1, <3>2, OpensAppend DEF Kept
    <3> HIDE DEF p
    <3>4. Kept(p)
      BY <1>1, <3>2, <3>3, KeptOn
    <3>5. Kept(Continue(p)) /\ DOMAIN Continue(p) = Fields
      BY <1>1, <3>2, <3>4, OperatorsKeep DEF Continue
    <3> QED
      BY <2>3, <3>5 DEF WithPaging, p
  <2>5. Same
    BY <1>2 DEF ToolsReturn
  <2> QED
    BY <2>1, <2>2, <2>3, <2>4, <2>5 DEF KeptStep
<1>3. CASE ToolThrows
  <2>1. Kept(Throw(f)) /\ DOMAIN Throw(f) = Fields
    BY <1>1, OperatorsKeep DEF Throw
  <2> QED
    BY <1>3, <2>1 DEF ToolThrows, KeptStep
<1> QED
  BY <1>2, <1>3

LEMMA NewKept ==
  /\ DOMAIN NoTask = Fields /\ Kept(NoTask) /\ NoTask.at = "none"
  /\ \A seed : DOMAIN RootTask(seed) = Fields /\ Kept(RootTask(seed))
  /\ \A f, a, history : /\ DOMAIN SubTask(f, a, history) = Fields
                        /\ Kept(SubTask(f, a, history))
<1>1. DOMAIN NoTask = Fields /\ Kept(NoTask) /\ NoTask.at = "none"
  BY DEF NoTask, Fields, Kept, Kinds, UnderWay
<1>2. MaxIterations \in Nat /\ MaxIterations >= 1 /\ SubIterations \in Nat /\ SubIterations >= 1
  BY Limits
<1>3. ASSUME NEW seed PROVE DOMAIN RootTask(seed) = Fields /\ Kept(RootTask(seed))
  BY <1>2 DEF RootTask, NoTask, Fields, Kept, Kinds, UnderWay
<1>4. ASSUME NEW f, NEW a, NEW history
      PROVE  DOMAIN SubTask(f, a, history) = Fields /\ Kept(SubTask(f, a, history))
  BY <1>2 DEF SubTask, NoTask, Fields, Kept, Kinds, UnderWay
<1> QED
  BY <1>1, <1>3, <1>4

LEMMA InitKept == Init => AllKept
<1> SUFFICES ASSUME Init PROVE AllKept
  OBVIOUS
<1>1. PICK seed : task = [i \in Levels |-> IF i = 0 THEN RootTask(seed) ELSE NoTask]
  BY DEF Init
<1>2. top = 0 /\ 0 \in Levels /\ \A i \in Levels : ~(i < 0)
  BY Limits DEF Init, Levels
<1> QED
  BY <1>1, <1>2, NewKept DEF AllKept, Shape

LEMMA KeptStepKeeps ==
  ASSUME AllKept, KeptStep
  PROVE  AllKept'
<1>1. PICK g : task' = [task EXCEPT ![top] = g] /\ top' = top /\ Kept(g) /\ DOMAIN g = Fields
  BY DEF KeptStep, Becomes, Same
<1>2. top \in Levels /\ ~(top < top) /\ DOMAIN task = Levels
  BY Limits DEF AllKept, Shape, Levels
<1> QED
  BY <1>1, <1>2 DEF AllKept, Shape

LEMMA StackKept ==
  ASSUME AllKept, SubAgentReturns \/ \E a \in AgentTypes, fork \in BOOLEAN : Delegate(a, fork)
  PROVE  AllKept'
<1>1. /\ top \in Levels /\ top \in Int /\ DOMAIN task = Levels /\ Levels \subseteq Int
      /\ \A i \in Levels : DOMAIN task[i] = Fields /\ Kept(task[i])
      /\ \A i \in Levels : i < top => task[i].at = "delegating"
  BY Limits DEF AllKept, Shape, Levels
<1>2. CASE SubAgentReturns
  <2> DEFINE p == task[top - 1]
  <2>1. top - 1 \in Levels /\ top - 1 < top /\ top' = top - 1
        /\ task' = [task EXCEPT ![top] = NoTask, ![top - 1] = Continue(p)]
    BY <1>1, <1>2, Limits DEF SubAgentReturns, Levels
  <2>2. p.at = "delegating" /\ DOMAIN p = Fields /\ Kept(p)
    BY <1>1, <2>1
  <2>3. p.iteration > 0 /\ p.at # "none"
    BY <2>2 DEF Kept, UnderWay
  <2>4. Kept(Continue(p)) /\ DOMAIN Continue(p) = Fields
    BY <2>2, <2>3, OperatorsKeep DEF Continue
  <2> HIDE DEF p
  <2>5. \A i \in Levels : Kept(task'[i]) /\ DOMAIN task'[i] = Fields
    BY <1>1, <2>1, <2>4, NewKept
  <2>6. \A i \in Levels : i < top - 1 => task'[i] = task[i] /\ i < top
    BY <1>1, <2>1
  <2> QED
    BY <1>1, <2>1, <2>5, <2>6 DEF AllKept, Shape
<1>3. ASSUME NEW a \in AgentTypes, NEW fork \in BOOLEAN, Delegate(a, fork)
      PROVE  AllKept'
  <2> DEFINE g == [Answered EXCEPT !.at = "delegating"]
             c == SubTask(Running, a, ParentHistory(fork))
  <2>1. /\ top + 1 \in Levels /\ top' = top + 1 /\ Running.at = "asking"
        /\ task' = [task EXCEPT ![top] = g, ![top + 1] = c]
    BY <1>1, <1>3, Limits DEF Delegate, Levels
  <2>2. Kept(g) /\ DOMAIN g = Fields /\ g.at = "delegating"
    BY <2>1, AnsweredKept, KeptOn DEF Fields
  <2>3. Kept(c) /\ DOMAIN c = Fields
    BY NewKept
  <2> HIDE DEF g, c
  <2>4. \A i \in Levels : Kept(task'[i]) /\ DOMAIN task'[i] = Fields
    BY <1>1, <2>1, <2>2, <2>3
  <2>5. \A i, t \in Int : i < t + 1 => i = t \/ (i < t /\ i # t + 1)
    OBVIOUS
  <2>6. \A i \in Levels : i < top + 1 => task'[i].at = "delegating"
    <3> SUFFICES ASSUME NEW i \in Levels, i < top + 1 PROVE task'[i].at = "delegating"
      OBVIOUS
    <3>1. i = top \/ (i < top /\ i # top + 1)
      BY <1>1, <2>5
    <3>2. top # top + 1
      BY <1>1
    <3> QED
      BY <1>1, <2>1, <2>2, <3>1, <3>2
  <2> QED
    BY <1>1, <2>1, <2>4, <2>6 DEF AllKept, Shape
<1> QED
  BY <1>2, <1>3

LEMMA CancelKept ==
  ASSUME AllKept, Cancel
  PROVE  AllKept'
<1>1. ASSUME NEW i \in Levels
      PROVE  /\ DOMAIN task'[i] = Fields /\ Kept(task'[i]) /\ task'[i].at = task[i].at
  <2>1. DOMAIN task[i] = Fields /\ Kept(task[i])
    BY DEF AllKept, Shape
  <2>2. task'[i] = [task[i] EXCEPT !.aborted = TRUE] \/ task'[i] = task[i]
    BY DEF Cancel
  <2>3. Kept([task[i] EXCEPT !.aborted = TRUE])
    BY <2>1 DEF Kept, Fields, Summarizable
  <2> QED
    BY <2>1, <2>2, <2>3 DEF Fields
<1>2. DOMAIN task' = Levels /\ top' = top
  BY DEF Cancel
<1> QED
  BY <1>1, <1>2 DEF AllKept, Shape

LEMMA NextKept == AllKept /\ [Next]_vars => AllKept'
<1> SUFFICES ASSUME AllKept, [Next]_vars PROVE AllKept'
  OBVIOUS
<1>1. CASE UNCHANGED vars
  BY <1>1 DEF vars, AllKept, Shape
<1>2. CASE Next
  BY <1>2, EntersKeep, AnswersKeep, ToolsKeep, KeptStepKeeps, StackKept, CancelKept
     DEF Next, Step
<1> QED
  BY <1>1, <1>2

\* Whatever is compacted, at every depth: a task that began without a history
\* still has in its messages what it was asked (SimpleMemory keeps the first two).
THEOREM FreshAsksAreKept == Spec => []FreshAskIsKept
<1>1. Spec => []AllKept
  BY InitKept, NextKept, PTL DEF Spec
<1>2. AllKept => FreshAskIsKept
  <2> SUFFICES ASSUME AllKept, NEW i \in Live, task[i].iteration > 0, ~task[i].seeded
               PROVE  "ask" \in Range(task[i].messages)
    BY DEF FreshAskIsKept
  <2>1. i \in Levels
    BY Limits DEF AllKept, Shape, Live, Levels
  <2>2. Opens(task[i].messages)
    BY <2>1 DEF AllKept, Kept
  <2>3. 1 \in DOMAIN task[i].messages /\ task[i].messages[1] = "ask"
    BY <2>2 DEF Opens
  <2> QED
    BY <2>3 DEF Range
<1> QED
  BY <1>1, <1>2, PTL
=============================================================================
