----------------------------- MODULE AgentTasks -----------------------------
(***************************************************************************)
(* The agent loop of packages/core: a root Task and the sub-agents it      *)
(* launches with the `agent` tool.  The tool is not concurrency safe, so   *)
(* at most one task of the tree runs at a time and its ancestors await it: *)
(* the live tasks form a stack, task[0] (the root) to task[top].  They     *)
(* share one event emitter, on which cancel() sends 'abort' to all.        *)
(*                                                                         *)
(* The model and the tools answer as they like.  A message is its role in  *)
(* the conversation, and the token budget counts messages.                 *)
(***************************************************************************)
EXTENDS Integers, Sequences, Functions

CONSTANTS
  Tools,              \* what the root's caller registers, beside the built-in tools
  SafeTools,          \* those that declare isConcurrencySafe
  InteractionTools,   \* those that hand the turn to the user
  AgentTypes,         \* agent definitions of the registry
  Allowed,            \* Allowed[a]: the tools of definition a; all of them when empty
  Replies,            \* the tool uses a reply of the model may carry
  MAX_AGENT_DEPTH,
  MaxNesting,         \* bound: tasks nest no deeper than this in the model
  MaxIterations,      \* of the root
  SubIterations,      \* of a sub-agent
  RootMaxMessages,    \* memory.maxMessages of the root
  PreserveLast,       \* memory.preserveLastNMessages
  TokenErrorThreshold,
  Seeds,              \* conversation histories a caller may start from
  ErrorListened       \* has the emitter an 'error' listener

ASSUME Limits ==
  /\ SafeTools \subseteq Tools
  /\ InteractionTools \subseteq Tools \ SafeTools
  /\ Allowed \in [AgentTypes -> SUBSET Tools]
  /\ {MAX_AGENT_DEPTH, MaxNesting, MaxIterations, SubIterations, RootMaxMessages} \subseteq Nat \ {0}
  /\ {PreserveLast, TokenErrorThreshold} \subseteq Nat
  /\ ErrorListened \in BOOLEAN

Builtin == {"complete", "agent", "data_access"}
ASSUME BuiltinNames == Tools \cap Builtin = {}

Levels == 0 .. MaxNesting

VARIABLES
  task,        \* task[i]: the Task at nesting level i
  top,         \* the level that runs
  cancelled    \* cancel() was called

vars == <<task, top, cancelled>>

-----------------------------------------------------------------------------
(* Short-term memory. *)

Kinds == {"ask", "reply", "result", "seed", "note", "fork"}

Preserved == 2

Summarizable(f) == Len(f.messages) - Preserved - PreserveLast

ShouldSummarize(f) == Len(f.messages) >= f.maxMessages /\ Summarizable(f) > 0

ToSummarize(f) == SubSeq(f.messages, Preserved + 1, Preserved + Summarizable(f))

\* Mutation: the summary replaces everything but the recent messages.
CompactedWithoutHead(f) ==
  [f EXCEPT !.messages = SubSeq(@, Preserved + Summarizable(f) + 1, Len(@)),
            !.summary = Range(ToSummarize(f))]

\* The new summary replaces the previous one, which it was not given.
Compacted(f) ==
  [f EXCEPT !.messages = SubSeq(@, 1, Preserved)
                           \o SubSeq(@, Preserved + Summarizable(f) + 1, Len(@)),
            !.summary = Range(ToSummarize(f))]

\* What the model can still know of: the context's messages, and what its summary covers.
Remembered(f) == Range(f.messages) \cup f.summary

ContextSize(f) == 1 + Len(f.messages) + IF f.summary = {} THEN 0 ELSE 1

-----------------------------------------------------------------------------
(* One task. *)

Phases == {"none", "entering", "compacting", "asking", "acting", "delegating", "returned", "threw"}

Outcome == [success : BOOLEAN, completed : BOOLEAN]
NoOutcome == [success |-> FALSE, completed |-> FALSE]

\* The task calls itself with what the model is to be told next.
Continue(f) == [f EXCEPT !.at = "entering", !.input = "result", !.using = <<>>]

NoTask ==
  [at |-> "none", input |-> "ask", agent |-> "root", tools |-> {}, spawnDepth |-> 0, seeded |-> FALSE,
   iteration |-> 0, maxIterations |-> 0, maxMessages |-> 0, aborted |-> FALSE,
   messages |-> <<>>, summary |-> {}, using |-> <<>>, outcome |-> NoOutcome]

\* Every Task ends up with a completion tool and, since one without an executor
\* makes itself a SubAgentExecutor that starts again from depth 0, with `agent`.
EnsureBuiltinTools(tools) == tools \cup {"complete", "agent"}

RootTask(seed) ==
  [NoTask EXCEPT !.at = "entering", !.tools = EnsureBuiltinTools(Tools), !.seeded = seed # <<>>,
                 !.maxIterations = MaxIterations, !.maxMessages = RootMaxMessages, !.messages = seed]

\* The tools the `agent` tool of a task was built with.
DelegatableTools(f) == f.tools \ (Builtin \cup InteractionTools)

Permits(a, t) == Allowed[a] = {} \/ t \in Allowed[a]

\* Mutation: the definition's allowlist is matched against every tool of the root.
OffersAnyTool(f, a) == {t \in Tools \ InteractionTools : Permits(a, t)}

ResolveToolsForAgent(f, a) == {t \in DelegatableTools(f) : Permits(a, t)}

Depth(f) == f.spawnDepth + 1

SubTask(f, a, history) ==
  [NoTask EXCEPT !.at = "entering", !.agent = a, !.tools = EnsureBuiltinTools(ResolveToolsForAgent(f, a)),
                 !.spawnDepth = IF Depth(f) < MAX_AGENT_DEPTH THEN Depth(f) ELSE 0,
                 !.seeded = history # <<>>, !.messages = history,
                 !.maxIterations = SubIterations, !.maxMessages = 2 * SubIterations]

Return(f, outcome) == [f EXCEPT !.at = "returned", !.outcome = outcome, !.using = <<>>]

Throw(f) == [f EXCEPT !.at = "threw", !.using = <<>>]

CheckTokenBudget(f) ==
  IF ContextSize(f) >= TokenErrorThreshold THEN Throw(f) ELSE [f EXCEPT !.at = "asking"]

-----------------------------------------------------------------------------
Init ==
  /\ \E seed \in Seeds : task = [i \in Levels |-> IF i = 0 THEN RootTask(seed) ELSE NoTask]
  /\ top = 0
  /\ cancelled = FALSE

Running == task[top]

Becomes(f) == task' = [task EXCEPT ![top] = f]

Same == UNCHANGED <<top, cancelled>>

EnterAborted ==
  /\ Running.at = "entering" /\ Running.aborted
  /\ Becomes(Throw(Running))
  /\ Same

\* Mutation: the iteration is not counted.
NotCounted(f) == f.iteration

Counted(f) == f.iteration + 1

MaxIterationsReached ==
  /\ Running.at = "entering" /\ ~Running.aborted
  /\ Counted(Running) > Running.maxIterations
  /\ Becomes(Return([Running EXCEPT !.iteration = Counted(Running)], [success |-> FALSE, completed |-> TRUE]))
  /\ Same

\* The input joins the memory; then the summary, or the completion, is called for.
Ask ==
  /\ Running.at = "entering" /\ ~Running.aborted
  /\ Counted(Running) =< Running.maxIterations
  /\ LET f == [Running EXCEPT !.iteration = Counted(Running), !.messages = Append(@, Running.input)]
     IN  Becomes(IF ShouldSummarize(f) THEN [f EXCEPT !.at = "compacting"] ELSE CheckTokenBudget(f))
  /\ Same

\* A failed call, or an empty summary, leaves the memory as it is.
SummarizeOlderMessages ==
  /\ Running.at = "compacting"
  /\ \E f \in {Running, Compacted(Running)} : Becomes(CheckTokenBudget(f))
  /\ Same

CompletionFails ==
  /\ Running.at = "asking"
  /\ Becomes(Throw(Running))
  /\ Same

Answered == [Running EXCEPT !.messages = Append(@, "reply")]

InvalidToolUse ==
  /\ Running.at = "asking" /\ <<>> \in Replies
  /\ Becomes(Continue(Answered))
  /\ Same

AnswerAborted ==
  /\ Running.at = "asking" /\ Running.aborted
  /\ Replies # {<<>>}
  /\ Becomes(Throw(Answered))
  /\ Same

Delegates(uses) == uses = <<"agent">> /\ "agent" \in Running.tools

\* Mutation: the flag is not looked at between the completion and its tools.
MayActWhenAborted(f) == TRUE

MayAct(f) == ~f.aborted

UseTools ==
  /\ Running.at = "asking" /\ MayAct(Running)
  /\ \E uses \in Replies \ {<<>>} :
       /\ ~Delegates(uses)
       /\ Becomes([Answered EXCEPT !.at = "acting", !.using = uses])
  /\ Same

\* A lone tool runs if the registry has it; of a batch, the concurrency-safe ones do.
Runs(f, i) ==
  /\ f.using[i] \in f.tools
  /\ Len(f.using) = 1 \/ f.using[i] \in SafeTools \cup {"data_access"}

\* "no" is a completion that says it did not succeed: no success, yet no error.
ToolResults(f) ==
  {r \in [1 .. Len(f.using) -> {"ok", "no", "error"}] : \A i \in DOMAIN r : ~Runs(f, i) => r[i] = "error"}

Completes(f, r, i) == f.using[i] = "complete" /\ r[i] # "error"

Interacts(f, i) == f.using[i] \in InteractionTools \cap f.tools

Ends(f, r) == {i \in DOMAIN r : Completes(f, r, i) \/ Interacts(f, i)}

\* The first tool use that ends the turn decides what the caller gets.
Ended(f, r) ==
  LET first == CHOOSE i \in Ends(f, r) : \A j \in Ends(f, r) : i =< j
  IN  Return(f, [success |-> r[first] = "ok", completed |-> Completes(f, r, first)])

\* A large result is paged, and the tool that reads its pages is announced.
WithPaging(f) ==
  IF "data_access" \in f.tools THEN f
  ELSE [f EXCEPT !.tools = @ \cup {"data_access"}, !.messages = Append(@, "note")]

ToolsReturn ==
  /\ Running.at = "acting"
  /\ \E r \in ToolResults(Running) :
       \/ Ends(Running, r) # {} /\ Becomes(Ended(Running, r))
       \/ Ends(Running, r) = {} /\ Becomes(Continue(Running))
       \/ /\ Ends(Running, r) = {} /\ \E i \in DOMAIN r : r[i] = "ok"
          /\ Becomes(Continue(WithPaging(Running)))
  /\ Same

\* executeTool catches what a tool throws and emits 'error'; that event throws
\* again when nobody listens for it.
ToolThrows ==
  /\ Running.at = "acting" /\ ~ErrorListened
  /\ \E i \in 1 .. Len(Running.using) : Runs(Running, i)
  /\ Becomes(Throw(Running))
  /\ Same

\* What Task passes as parentHistory: the conversation, behind the fork tag.
ParentHistory(fork) == IF fork THEN <<"fork">> \o Answered.messages ELSE <<>>

AlreadyForkChild(history) == "fork" \in Range(history)

Refused(fork) ==
  \/ fork /\ AlreadyForkChild(ParentHistory(fork))
  \/ Depth(Running) > MAX_AGENT_DEPTH

DelegateRefused(fork) ==
  /\ Running.at = "asking" /\ MayAct(Running)
  /\ <<"agent">> \in Replies /\ Delegates(<<"agent">>)
  /\ Refused(fork)
  /\ Becomes(Continue(Answered))
  /\ Same

\* The sub-task is constructed in the turn of the event loop that read the flag.
Delegate(a, fork) ==
  /\ Running.at = "asking" /\ MayAct(Running)
  /\ <<"agent">> \in Replies /\ Delegates(<<"agent">>)
  /\ ~Refused(fork)
  /\ top < MaxNesting
  /\ task' = [task EXCEPT ![top] = [Answered EXCEPT !.at = "delegating"],
                          ![top + 1] = SubTask(Running, a, ParentHistory(fork))]
  /\ top' = top + 1
  /\ UNCHANGED cancelled

\* What the sub-agent returned, or threw, becomes the parent's tool result.
SubAgentReturns ==
  /\ top > 0
  /\ Running.at \in {"returned", "threw"}
  /\ task' = [task EXCEPT ![top] = NoTask, ![top - 1] = Continue(task[top - 1])]
  /\ top' = top - 1
  /\ UNCHANGED cancelled

\* Mutation: only the task that is cancelled learns of it.
OnlyTheRoot(i) == i = 0

HearsAbort(i) == i =< top

\* cancel() of any of them: 'abort' reaches every Task listening on the emitter.
Cancel ==
  /\ ~cancelled
  /\ cancelled' = TRUE
  /\ task' = [i \in Levels |-> IF HearsAbort(i) THEN [task[i] EXCEPT !.aborted = TRUE] ELSE task[i]]
  /\ UNCHANGED top

Step ==
  \/ EnterAborted
  \/ MaxIterationsReached
  \/ Ask
  \/ SummarizeOlderMessages
  \/ CompletionFails
  \/ InvalidToolUse
  \/ AnswerAborted
  \/ UseTools
  \/ ToolsReturn
  \/ ToolThrows
  \/ \E fork \in BOOLEAN : DelegateRefused(fork)
  \/ \E a \in AgentTypes, fork \in BOOLEAN : Delegate(a, fork)
  \/ SubAgentReturns

Next == Step \/ Cancel

\* The model and the tools answer every call in the end, if only with an error.
Spec == Init /\ [][Next]_vars /\ WF_vars(Step)

-----------------------------------------------------------------------------
(* Properties. *)

Live == 0 .. top

Task ==
  [at : Phases, input : {"ask", "result"}, agent : AgentTypes \cup {"root"},
   tools : SUBSET (Tools \cup Builtin), spawnDepth : 0 .. MAX_AGENT_DEPTH, seeded : BOOLEAN,
   iteration : Nat, maxIterations : Nat, maxMessages : Nat, aborted : BOOLEAN,
   messages : Seq(Kinds), summary : SUBSET Kinds,
   using : Seq(Tools \cup Builtin \cup {"ghost"}), outcome : Outcome]

\* The variables keep their types; one task runs and its ancestors await it.
TypeOK ==
  /\ task \in [Levels -> Task]
  /\ top \in Levels
  /\ cancelled \in BOOLEAN
  /\ \A i \in Levels : (task[i].at = "delegating" <=> i < top) /\ (task[i].at = "none" <=> i > top)

\* A sub-agent never holds a tool an ancestor's definition withholds, nor one that
\* talks to the user, however deep the chain (the allowlists of AgentDefinition).
AllowlistsBind ==
  \A i, j \in Live :
    i < j => /\ task[j].tools \ Builtin \subseteq task[i].tools \ InteractionTools
             /\ task[j].agent \in AgentTypes
             /\ \A t \in task[j].tools \ Builtin : Permits(task[j].agent, t)

\* What a task was started for stays in its context through every compaction
\* ("Always preserve the first 2 messages"), when it starts with no history.
FreshAskIsKept ==
  \A i \in Live : task[i].iteration > 0 /\ ~task[i].seeded => "ask" \in Range(task[i].messages)

\* The same for every task: a context or its summary knows of the user's question.
AskIsKept ==
  \A i \in Live : task[i].iteration > 0 => "ask" \in Remembered(task[i])

\* An abort reaches the whole tree, sub-agents launched before it and after.
AbortReachesAll == cancelled => \A i \in Live : task[i].aborted

\* After an abort no tool is started and no sub-agent launched.
AbortStopsTools ==
  [][cancelled => /\ top' =< top
                  /\ \A i \in Levels : task'[i].at = "acting" => task[i].at = "acting"]_vars

\* After an abort no completion is called for.
AbortStopsCompletions ==
  [][cancelled => \A i \in Levels : task'[i].at = "asking" => task[i].at = "asking"]_vars

\* A completion never rides in a batch: a turn that ends the task used that one tool.
NoBatchCompletes ==
  [][\A i \in Levels :
       task[i].at = "acting" /\ task'[i].at = "returned" /\ task'[i].outcome.completed
         => Len(task[i].using) = 1]_vars

\* A task hands the turn over, or ends, only through a tool that ran.
EndsByAToolThatRan ==
  [][\A i \in Levels :
       task[i].at = "acting" /\ task'[i].at = "returned"
         => \E j \in 1 .. Len(task[i].using) :
              Runs(task[i], j) /\ task[i].using[j] \in InteractionTools \cup {"complete"}]_vars

\* Sub-agents nest no deeper than MAX_AGENT_DEPTH (DelegationLimits).
DepthIsLimited == top =< MAX_AGENT_DEPTH

\* A fork is refused only inside a fork.
ForksAreRefusedOnlyInForks ==
  [][DelegateRefused(TRUE) => "fork" \in Range(task[top].messages)]_vars

\* What a tool throws is a result for the model, never the end of the task.
ToolErrorsAreResults ==
  [][\A i \in Levels : task[i].at = "acting" => task'[i].at # "threw"]_vars

\* The root's caller gets an answer, or an error, in the end.
RootEnds == <>(task[0].at \in {"returned", "threw"})
=============================================================================
