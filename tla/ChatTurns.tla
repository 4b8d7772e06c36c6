------------------------------ MODULE ChatTurns -----------------------------
(***************************************************************************)
(* The portal's chat, end to end.  A question posted from ChatPage is      *)
(* answered by a ChatTask: turns of a completion and the tool it asks for, *)
(* until chat_complete or the iteration cap.  A turn of a conversation     *)
(* that got long begins with a completion that summarizes it.  The turn's  *)
(* own is streamed and, when the stream breaks or ends early, asked for    *)
(* again in one piece; all go through the client that EndpointPool         *)
(* describes.  ChatController sends events over the connection, useChat    *)
(* reads them, and the page shows pieces, tools and the answer.            *)
(*                                                                         *)
(* Each question is asked once, by one browser whose user may leave the    *)
(* page and come back: the messages survive that, the page's state and its *)
(* lock do not.  Other services of the process use the same client, and so *)
(* do the sub-agents a question's model delegates to (AgentTasks).         *)
(***************************************************************************)
EXTENDS EndpointPool, Sequences

CONSTANTS Questions,      \* callers of the client that answer a question
          MaxIterations,  \* turns of one task
          Histories,      \* numbers of messages a conversation may have so far
          MaxMessages,    \* messages from which a conversation is summarized
          KeptMessages,   \* messages a summary leaves beside it
          Views           \* what a tool may find to be shown

ASSUME ChatTurnsAssumption ==
    /\ Questions \subseteq Callers
    /\ "nobody" \notin Questions
    /\ MaxIterations \in Nat \ {0}
    /\ Histories \subseteq Nat
    /\ MaxMessages \in Nat /\ KeptMessages \in Nat /\ KeptMessages < MaxMessages
    /\ Views \subseteq {"none", "graph", "table"}

Others == Callers \ Questions

VARIABLES task,       \* the server's ChatTask of each question
          wire,       \* events on their way to the browser
          reader,     \* sendChat, in the browser
          page,       \* the mounted ChatPage
          messages    \* replies to each question, shared by all mounts of the page

chatVars == <<task, wire, reader, page, messages>>
vars == <<currentIndex, call, task, wire, reader, page, messages>>

NoTask == [at |-> "none", turns |-> 0, seeded |-> 0, messages |-> 0,
           announced |-> 0, completions |-> 0, graph |-> FALSE, table |-> FALSE]

Nobody == "nobody"

NewPage == [question |-> Nobody, pieces |-> {}]

\* `loading' is the guard of handleSend.
Loading == page.question # Nobody

\* `messages' are those in memory, `seeded' (history) those it began with,
\* `announced' the one that announces the tool which pages large results.
Task == [at : {"none", "arrived", "turn", "summary", "ask", "stream", "plain", "reply",
               "over"},
         turns : Nat, seeded : Nat, messages : Nat, announced : 0..1, completions : Nat,
         graph : BOOLEAN, table : BOOLEAN]

\* What follows a question in the conversation: its answer, one shown
\* with a graph or with a table, or an apology.
Message == {"apology", "answer", "graph", "table"}

Event == [name : {"refused", "tool_use", "stream_chunk", "graph", "table", "done",
                  "error", "end"}, turn : Nat]

ChatTypeOK ==
    /\ PoolTypeOK
    /\ task \in [Questions -> Task]
    /\ wire \in [Questions -> Seq(Event)]
    /\ reader \in [Questions -> {"none", "reading", "over"}]
    /\ page \in [question : Questions \cup {Nobody}, pieces : SUBSET Nat]
    /\ messages \in [Questions -> SUBSET Message]

Init ==
    /\ PoolInit
    /\ task = [q \in Questions |-> NoTask]
    /\ wire = [q \in Questions |-> <<>>]
    /\ reader = [q \in Questions |-> "none"]
    /\ page = NewPage
    /\ messages = [q \in Questions |-> {}]
-----------------------------------------------------------------------------
(* The server. *)

Note(name, q) == [name |-> name, turn |-> task[q].turns]

\* sendEvent: what is written for a browser that is gone is lost.
Send(q, names) ==
    wire' = IF reader[q] = "reading"
            THEN [wire EXCEPT ![q] = @ \o [i \in DOMAIN names |-> Note(names[i], q)]]
            ELSE wire

Now(q, at) == [task EXCEPT ![q].at = at]

\* The response ends, and nothing of the task is left.
Ends(q, names) ==
    /\ task' = [task EXCEPT ![q] = [NoTask EXCEPT !.at = "over"]]
    /\ Send(q, names)

\* Mutation: the connection stays open when the task failed.
ErrorStaysOpen(q) == Ends(q, <<"error">>)

\* The catch of the streaming part of chat.
ErrorEnds(q) == Ends(q, <<"error", "end">>)

OnServer == UNCHANGED <<reader, page, messages>>
NoPool == UNCHANGED poolVars

\* chat: refused before a stream is opened, or a task is created.
Refuse(q) ==
    /\ task[q].at = "arrived"
    /\ Ends(q, <<"refused">>)
    /\ OnServer /\ NoPool

\* The conversation so far is put into the memory of the task.
CreateChatTask(q) ==
    /\ task[q].at = "arrived"
    /\ \E n \in Histories :
          task' = [task EXCEPT ![q].at = "turn", ![q].seeded = n, ![q].messages = n]
    /\ UNCHANGED wire /\ OnServer /\ NoPool

\* The task t asks for one more completion.
Asks(q, t, at) ==
    /\ Begin(q)
    /\ task' = [task EXCEPT ![q] = [t EXCEPT !.at = at, !.completions = @ + 1]]
    /\ UNCHANGED wire /\ OnServer

\* The next turn, with the question or the answer of a tool added.
NextTurn(q) == [task[q] EXCEPT !.turns = @ + 1, !.messages = @ + 1]

\* execute: a conversation that is short goes as it is...
Iterate(q) ==
    /\ task[q].at = "turn" /\ task[q].turns < MaxIterations
    /\ NextTurn(q).messages < MaxMessages
    /\ task' = [task EXCEPT ![q] = [NextTurn(q) EXCEPT !.at = "ask"]]
    /\ UNCHANGED wire /\ OnServer /\ NoPool

\* ...and of a long one a summary is asked for first.
IterateSummarizing(q) ==
    /\ task[q].at = "turn" /\ task[q].turns < MaxIterations
    /\ NextTurn(q).messages >= MaxMessages
    /\ Asks(q, NextTurn(q), "summary")

\* An empty summary leaves the messages as they are.
SummaryArrives(q) ==
    /\ task[q].at = "summary" /\ call[q].at = "sending"
    /\ Answers(q)
    /\ \E n \in {KeptMessages, task[q].messages} :
          task' = [task EXCEPT ![q].at = "ask", ![q].messages = n]
    /\ UNCHANGED wire /\ OnServer

\* So does one that fails: the error is swallowed, the next turn tries again.
SummaryFails(q) ==
    /\ task[q].at = "summary"
    /\ call[q].at \in {"exhausted", "failed"}
    /\ Throws(q)
    /\ task' = Now(q, "ask")
    /\ UNCHANGED wire /\ OnServer

\* The completion of the turn, streamed...
AskStream(q) ==
    /\ task[q].at = "ask"
    /\ Asks(q, task[q], "stream")

\* ...unless the messages exceed the token budget.
ExceedBudget(q) ==
    /\ task[q].at = "ask"
    /\ ErrorEnds(q)
    /\ OnServer /\ NoPool

\* The cap is reached: the result has no `result', which the controller
\* dereferences.
ReachCap(q) ==
    /\ task[q].at = "turn" /\ task[q].turns = MaxIterations
    /\ ErrorEnds(q)
    /\ OnServer /\ NoPool

\* callCompletion: what comes of a message being written is sent on, as long
\* as the stream lasts.  One piece stands for all of them, a bound.
Streams(q) ==
    /\ task[q].at = "stream"
    /\ OpensStream(q)
    /\ Send(q, <<"stream_chunk">>) \/ UNCHANGED wire
    /\ UNCHANGED task /\ OnServer

\* The completion arrives, as a stream that completes or in one piece.
Reply(q) ==
    /\ \/ task[q].at = "stream" /\ call[q].at = "streaming"
       \/ task[q].at = "plain" /\ call[q].at = "sending"
    /\ Answers(q)
    /\ task' = [task EXCEPT ![q].at = "reply", ![q].messages = @ + 1]
    /\ UNCHANGED wire /\ OnServer

\* A request fails otherwise than with 429; a stream breaks or ends early.
Break(q) ==
    /\ task[q].at \in {"summary", "stream", "plain"}
    /\ Fails(q)
    /\ UNCHANGED chatVars

\* Mutation: what failed in one piece is asked for again.
FallBackAgain(q) ==
    /\ task[q].at \in {"stream", "plain"}
    /\ call[q].at \in {"exhausted", "failed"}
    /\ Asks(q, task[q], "plain")

\* callCompletion: whatever went wrong with the stream, ask again without.
FallBack(q) ==
    /\ task[q].at = "stream"
    /\ call[q].at \in {"exhausted", "failed"}
    /\ Asks(q, task[q], "plain")

CompletionFails(q) ==
    /\ task[q].at = "plain"
    /\ call[q].at \in {"exhausted", "failed"}
    /\ Throws(q)
    /\ ErrorEnds(q)
    /\ OnServer

\* No tool call that can be parsed, or a tool there is not: no event, a turn.
InvalidReply(q) ==
    /\ task[q].at = "reply"
    /\ task' = Now(q, "turn")
    /\ UNCHANGED wire /\ OnServer /\ NoPool

\* A tool is run; the last graph and the last table are kept, and a result
\* that is too large is paged, which is announced to the model once.
UseTool(q) ==
    /\ task[q].at = "reply"
    /\ Send(q, <<"tool_use">>)
    /\ \E found \in Views, n \in task[q].announced..1 :
          task' = [task EXCEPT ![q].at = "turn", ![q].graph = @ \/ found = "graph",
                               ![q].table = @ \/ found = "table", ![q].announced = n,
                               ![q].messages = @ + n - task[q].announced]
    /\ OnServer /\ NoPool

\* What a tool throws is an 'error' event nobody listens to, thrown again.
ToolThrows(q) ==
    /\ task[q].at = "reply"
    /\ Ends(q, <<"tool_use", "error", "end">>)
    /\ OnServer /\ NoPool

\* getTaskCompletionResult: the graph asked for, else the table asked for.
Attached(q, includeGraph, includeTable) ==
    IF includeGraph /\ task[q].graph THEN <<"graph">>
    ELSE IF includeTable /\ task[q].table THEN <<"table">>
    ELSE <<>>

ChatComplete(q) ==
    /\ task[q].at = "reply"
    /\ \E includeGraph, includeTable \in BOOLEAN :
          Ends(q, <<"tool_use">> \o Attached(q, includeGraph, includeTable)
                    \o <<"done", "end">>)
    /\ OnServer /\ NoPool

\* The client goes on with a completion by itself.
Retries(c) == (Refused(c) \/ Resend(c) \/ Wake(c)) /\ UNCHANGED chatVars

\* A service that answers no question asks for one completion after another;
\* whether it gets one or an error is all the same here.
OtherCall(c) ==
    /\ Begin(c) \/ Answers(c)
    /\ UNCHANGED chatVars

Serve(q) ==
    \/ Refuse(q) \/ CreateChatTask(q)
    \/ Iterate(q) \/ IterateSummarizing(q) \/ SummaryArrives(q) \/ SummaryFails(q)
    \/ AskStream(q) \/ ExceedBudget(q) \/ ReachCap(q)
    \/ Streams(q) \/ Reply(q) \/ Break(q) \/ FallBack(q) \/ CompletionFails(q)
    \/ InvalidReply(q) \/ UseTool(q) \/ ToolThrows(q) \/ ChatComplete(q)
    \/ Retries(q)
-----------------------------------------------------------------------------
(* The browser. *)

InBrowser == UNCHANGED task /\ NoPool

Say(q, message) == [messages EXCEPT ![q] = @ \cup {message}]

Mine(q) == page.question = q

\* handleSend, up to its await; the request arrives at the server.
HandleSend(q) ==
    /\ ~Loading
    /\ reader[q] = "none"
    /\ page' = [NewPage EXCEPT !.question = q]
    /\ reader' = [reader EXCEPT ![q] = "reading"]
    /\ task' = Now(q, "arrived")
    /\ UNCHANGED <<wire, messages>> /\ NoPool

\* sendChat returns or throws; finally, the page that asked is free again.
Settles(q) ==
    /\ reader' = [reader EXCEPT ![q] = "over"]
    /\ wire' = [wire EXCEPT ![q] = <<>>]
    /\ page' = IF Mine(q) THEN NewPage ELSE page

Shows(q, e) ==
    CASE ~Mine(q) -> page
      [] e.name = "tool_use" -> [page EXCEPT !.pieces = {}]
      [] e.name = "stream_chunk" -> [page EXCEPT !.pieces = @ \cup {e.turn}]
      [] e.name = "done" -> [page EXCEPT !.pieces = {}]
      [] OTHER -> page

\* The events that are there are handled as they come.  An 'error' event is
\* thrown inside the try that parses events, and nothing comes of it.
Receive(q) ==
    /\ reader[q] = "reading" /\ wire[q] # <<>>
    /\ LET e == Head(wire[q]) IN
       /\ e.name \notin {"end", "refused", "graph", "table"}
       /\ wire' = [wire EXCEPT ![q] = Tail(@)]
       /\ page' = Shows(q, e)
       /\ messages' = IF e.name = "done" THEN Say(q, "answer") ELSE messages
    /\ UNCHANGED reader /\ InBrowser

\* A graph or a table is held for the answer that comes with it.
ReceiveView(q) ==
    /\ reader[q] = "reading" /\ Len(wire[q]) > 1
    /\ Head(wire[q]).name \in {"graph", "table"}
    /\ wire' = [wire EXCEPT ![q] = Tail(Tail(@))]
    /\ page' = Shows(q, wire[q][2])
    /\ messages' = Say(q, Head(wire[q]).name)
    /\ UNCHANGED reader /\ InBrowser

ReceiveEnd(q) ==
    /\ reader[q] = "reading" /\ wire[q] # <<>>
    /\ Head(wire[q]).name = "end"
    /\ Settles(q)
    /\ UNCHANGED messages /\ InBrowser

Apologise(q) ==
    /\ messages' = Say(q, "apology")
    /\ Settles(q)
    /\ InBrowser

\* The response is not ok.
ReceiveRefusal(q) ==
    /\ reader[q] = "reading" /\ wire[q] # <<>>
    /\ Head(wire[q]).name = "refused"
    /\ Apologise(q)

\* The connection breaks under the reader.
LoseConnection(q) == reader[q] = "reading" /\ Apologise(q)

\* The user goes to another page and back while a question is pending.
LeavePage ==
    /\ Loading
    /\ page' = NewPage
    /\ UNCHANGED <<wire, reader, messages>> /\ InBrowser

Read(q) == Receive(q) \/ ReceiveView(q) \/ ReceiveEnd(q) \/ ReceiveRefusal(q)

Next ==
    \/ LeavePage
    \/ \E q \in Questions : Serve(q) \/ Read(q) \/ HandleSend(q)
                            \/ LoseConnection(q)
    \/ \E c \in Others : OtherCall(c) \/ Retries(c)

\* The server goes on with every request, every request to an endpoint comes
\* to an end (the SDK has a timeout), and the browser reads what arrives.
Fairness == \A q \in Questions : WF_vars(Serve(q)) /\ WF_vars(Read(q))

Spec == Init /\ [][Next]_vars /\ Fairness
-----------------------------------------------------------------------------
(* Every question that was asked comes to an end in the browser, whatever   *)
(* the endpoints, the model and the tools do: the page is not left loading. *)
QuestionSettles == \A q \in Questions : reader[q] = "reading" ~> reader[q] = "over"

\* Turns that begin before the conversation can be long enough for a summary,
\* a turn adding two messages and the announcement one more; those left.
ShortTurns(q) == IF task[q].seeded < MaxMessages
                 THEN (MaxMessages - 1 - task[q].seeded) \div 2 ELSE 0

LongTurns(q) == IF ShortTurns(q) < MaxIterations
                THEN MaxIterations - ShortTurns(q) ELSE 0

(* However often summaries and streams fail, a task asks for at most two    *)
(* completions a turn, one streamed and one in one piece, and for a summary *)
(* in the turns its conversation may be long enough for; and each costs a   *)
(* bounded number of requests.                                              *)
CompletionsBounded ==
    /\ RequestsBounded
    /\ \A q \in Questions : task[q].completions <= 2 * MaxIterations + LongTurns(q)

(* A question that is over was answered or apologised for.  It does not     *)
(* hold: an 'error' event is swallowed.                                     *)
NoSilence ==
    \A q \in Questions : reader[q] = "over" => messages[q] # {}

(* What the page shows of a message being written is of one completion.  It *)
(* does not hold: the pieces of a stream that broke, or of a reply that was *)
(* no tool call, stay while those of the next turn are added.               *)
PiecesOfOneTurn == \A i, j \in page.pieces : i = j

(* The reply to a question comes before the next question.  It does not     *)
(* hold: leaving the page and coming back lifts the lock.                   *)
OneQuestionAtATime == \A p, q \in Questions :
    reader[p] = "reading" /\ reader[q] = "reading" => p = q
=============================================================================
