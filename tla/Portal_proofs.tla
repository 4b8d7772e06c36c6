---------------------------- MODULE Portal_proofs ---------------------------
(***************************************************************************)
(* Proofs about the two parts of the portal whose pages and requests       *)
(* interleave.  The chat (ChatTurns), for any number of callers, of        *)
(* endpoints, of retries and of turns: a count of refusals stands for a    *)
(* set of endpoints because a call nobody disturbed has been refused by    *)
(* exactly those just behind the current index.  And the policy templates  *)
(* (PolicyTemplates), for any types, questions, editors and requests.      *)
(***************************************************************************)
EXTENDS PolicyTemplates, ChatTurns, FiniteSetTheorems, WellFoundedInduction, TLAPS

\* How far back from index i an endpoint was last current, itself a full turn.
Behind(e, i) == IF e < i THEN i - e ELSE i - e + Clients

Refusers(i, n) == {e \in Endpoints : Behind(e, i) <= n}

\* Requests made in the cycles that are over and in the one that is not.
Paid(k, n) == k.sent <= k.cycles * Clients + n

ReadyOK(k, i) ==
    k.at = "ready" =>
        /\ k.cycles <= MaxRetries /\ k.throttled < Clients
        /\ Paid(k, k.throttled)
        /\ k.disturbed \/ k.tried = Refusers(i, k.throttled)

SendingOK(k, i) ==
    k.at = "sending" =>
        /\ k.cycles <= MaxRetries /\ k.throttled < Clients
        /\ Paid(k, k.throttled + 1)
        /\ k.disturbed \/ (k.tried = Refusers(i, k.throttled) /\ k.endpoint = i)

SleepingOK(k) ==
    k.at = "sleeping" =>
        /\ k.cycles <= MaxRetries /\ k.throttled = 0
        /\ Paid(k, 0)
        /\ k.disturbed \/ k.tried = Endpoints

ExhaustedOK(k) ==
    k.at = "exhausted" =>
        /\ k.cycles = MaxRetries + 1
        /\ Paid(k, 0)
        /\ k.disturbed \/ k.tried = Endpoints

QuietOK(k) == k.at \in {"idle", "streaming", "failed"} => k.sent = 0

CallOK(k, i) ==
    ReadyOK(k, i) /\ SendingOK(k, i) /\ SleepingOK(k) /\ ExhaustedOK(k) /\ QuietOK(k)

PoolInv == PoolTypeOK /\ \A c \in Callers : CallOK(call[c], currentIndex)

PoolStep ==
    \/ UNCHANGED poolVars
    \/ \E c \in Callers :
          Begin(c) \/ Answers(c) \/ Fails(c) \/ Throws(c) \/ OpensStream(c)
          \/ Refused(c) \/ Resend(c) \/ Wake(c)

LEMMA Rotation ==
    ASSUME NEW i \in Endpoints
    PROVE  /\ RotateEndpoint(i) = IF i + 1 = Clients THEN 0 ELSE i + 1
           /\ RotateEndpoint(i) \in Endpoints
<1> USE EndpointPoolAssumption
<1>1. CASE Clients = 1
  BY <1>1 DEF RotateEndpoint, Rotated, Endpoints
<1>2. CASE Clients > 1 /\ i + 1 = Clients
  BY <1>2 DEF RotateEndpoint, Rotated, Endpoints
<1>3. CASE Clients > 1 /\ i + 1 < Clients
  BY <1>3 DEF RotateEndpoint, Rotated, Endpoints
<1> QED BY <1>1, <1>2, <1>3 DEF Endpoints

\* One more refusal, by the current endpoint, and the index moves past it.
LEMMA RefusersGrow ==
    ASSUME NEW i \in Endpoints, NEW n \in Nat, n < Clients
    PROVE  Refusers(i, n) \cup {i} = Refusers(RotateEndpoint(i), n + 1)
<1> USE EndpointPoolAssumption
<1> DEFINE j == RotateEndpoint(i)
<1>1. j = (IF i + 1 = Clients THEN 0 ELSE i + 1) /\ j \in Endpoints
  BY Rotation
<1>2. ASSUME NEW e \in Endpoints, e # i
      PROVE  Behind(e, j) = Behind(e, i) + 1
  BY <1>1, <1>2 DEF Behind, Endpoints
<1>3. Behind(i, j) = 1
  BY <1>1 DEF Behind, Endpoints
<1>4. ASSUME NEW e \in Endpoints
      PROVE  Behind(e, i) \in Nat
  BY DEF Behind, Endpoints
<1>5. ASSUME NEW e \in Endpoints
      PROVE  (Behind(e, i) <= n \/ e = i) <=> Behind(e, j) <= n + 1
  BY <1>2, <1>3, <1>4
<1> HIDE DEF j
<1> QED BY <1>5 DEF Refusers, j

LEMMA RefusersNone == \A i \in Endpoints : Refusers(i, 0) = {}
  BY EndpointPoolAssumption DEF Refusers, Behind, Endpoints

LEMMA RefusersAll == \A i \in Endpoints : Refusers(i, Clients) = Endpoints
  BY EndpointPoolAssumption DEF Refusers, Behind, Endpoints


LEMMA Times ==
    ASSUME NEW a \in Nat, NEW b \in Nat, a <= b
    PROVE  /\ a * Clients <= b * Clients
           /\ a * Clients \in Nat
           /\ (a + 1) * Clients = a * Clients + Clients
<1>1. Clients \in Nat
  BY EndpointPoolAssumption
<1>2. (b - a) * Clients \in Nat
  BY <1>1
<1>3. b * Clients = a * Clients + (b - a) * Clients
  BY <1>1
<1> QED BY <1>1, <1>2, <1>3

\* A fresh attempt of a call with n refusals so far in its cycle.
LEMMA SentOK ==
    ASSUME PoolTypeOK, NEW k \in Call, k.cycles <= MaxRetries, k.throttled < Clients,
           Paid(k, k.throttled),
           k.disturbed \/ k.tried = Refusers(currentIndex, k.throttled)
    PROVE  Sent(k) \in Call /\ CallOK(Sent(k), currentIndex)
<1>1. Sent(k) \in Call
  <2>1. "sending" \in Steps /\ currentIndex \in Endpoints /\ k.sent + 1 \in Nat
    BY DEF Call, Steps, PoolTypeOK
  <2> QED BY <2>1 DEF Sent, Call
<1>2. /\ Sent(k).at = "sending" /\ Sent(k).endpoint = currentIndex
      /\ Sent(k).sent = k.sent + 1 /\ Sent(k).cycles = k.cycles
      /\ Sent(k).throttled = k.throttled /\ Sent(k).tried = k.tried
      /\ Sent(k).disturbed = k.disturbed
  BY DEF Sent, Call
<1>3. k.sent \in Nat /\ k.cycles \in Nat /\ k.throttled \in Nat
  BY DEF Call
<1>4. k.cycles * Clients \in Nat
  BY <1>3, Times
<1>5. Paid(Sent(k), k.throttled + 1)
  BY <1>2, <1>3, <1>4 DEF Paid
<1>6. SendingOK(Sent(k), currentIndex)
  BY <1>2, <1>5 DEF SendingOK
<1>7. ReadyOK(Sent(k), currentIndex) /\ SleepingOK(Sent(k)) /\ ExhaustedOK(Sent(k))
        /\ QuietOK(Sent(k))
  BY <1>2 DEF ReadyOK, SleepingOK, ExhaustedOK, QuietOK
<1> QED BY <1>1, <1>6, <1>7 DEF CallOK

LEMMA NoCallOK ==
    /\ NoCall \in Call /\ \A i \in Endpoints : CallOK(NoCall, i)
    /\ \A at \in {"idle", "streaming", "failed"}, i \in Endpoints :
          [NoCall EXCEPT !.at = at] \in Call /\ CallOK([NoCall EXCEPT !.at = at], i)
<1>1. NoCall \in Call
  BY EndpointPoolAssumption DEF NoCall, Call, Steps, Endpoints
<1>2. \A i \in Endpoints : CallOK(NoCall, i)
  BY DEF NoCall, CallOK, ReadyOK, SendingOK, SleepingOK, ExhaustedOK, QuietOK
<1>3. ASSUME NEW at \in {"idle", "streaming", "failed"}, NEW i \in Endpoints
      PROVE  [NoCall EXCEPT !.at = at] \in Call /\ CallOK([NoCall EXCEPT !.at = at], i)
  <2>1. [NoCall EXCEPT !.at = at] \in Call
    BY <1>1, at \in Steps DEF NoCall, Call, Steps
  <2>2. [NoCall EXCEPT !.at = at].at = at /\ [NoCall EXCEPT !.at = at].sent = 0
    BY DEF NoCall
  <2> QED BY <2>1, <2>2 DEF CallOK, ReadyOK, SendingOK, SleepingOK, ExhaustedOK, QuietOK
<1> QED BY <1>1, <1>2, <1>3

\* What handle429 makes of a call, seen from the rotated index.
LEMMA Handle429OK ==
    ASSUME NEW i \in Endpoints, NEW k \in Call, k.at = "sending", SendingOK(k, i)
    PROVE  Handle429(k) \in Call /\ CallOK(Handle429(k), RotateEndpoint(i))
<1> DEFINE h == Handle429(k)
<1> DEFINE j == RotateEndpoint(i)
<1>1. /\ k.cycles <= MaxRetries /\ k.throttled < Clients /\ Paid(k, k.throttled + 1)
      /\ k.disturbed \/ (k.tried = Refusers(i, k.throttled) /\ k.endpoint = i)
  BY DEF SendingOK
<1>2. /\ k.sent \in Nat /\ k.cycles \in Nat /\ k.throttled \in Nat /\ k.endpoint \in Endpoints
      /\ k.tried \in SUBSET Endpoints /\ k.disturbed \in BOOLEAN
  BY DEF Call
<1>3. k.disturbed \/ k.tried \cup {k.endpoint} = Refusers(j, k.throttled + 1)
  BY <1>1, <1>2, RefusersGrow
<1>4. j \in Endpoints /\ 0 \in Endpoints
  BY Rotation, EndpointPoolAssumption DEF Endpoints
<1>5. CASE Rotated /\ k.throttled + 1 < Clients
  <2>1. h = [k EXCEPT !.throttled = k.throttled + 1, !.tried = @ \cup {k.endpoint},
                      !.endpoint = 0, !.at = "ready"]
    BY <1>5 DEF Handle429
  <2>2. /\ h.at = "ready" /\ h.throttled = k.throttled + 1 /\ h.cycles = k.cycles
        /\ h.sent = k.sent /\ h.disturbed = k.disturbed
        /\ h.tried = k.tried \cup {k.endpoint}
    BY <2>1 DEF Call
  <2>3. h \in Call
    <3>1. k.tried \cup {k.endpoint} \in SUBSET Endpoints /\ k.throttled + 1 \in Nat
            /\ "ready" \in Steps
      BY <1>2 DEF Steps
    <3> QED BY <1>4, <2>1, <3>1 DEF Call
  <2>4. Paid(h, h.throttled)
    BY <2>2, <1>1 DEF Paid
  <2> HIDE DEF h, j
  <2>5. ReadyOK(h, j)
    BY <2>2, <2>4, <1>1, <1>3, <1>5 DEF ReadyOK
  <2>6. SendingOK(h, j) /\ SleepingOK(h) /\ ExhaustedOK(h) /\ QuietOK(h)
    BY <2>2 DEF SendingOK, SleepingOK, ExhaustedOK, QuietOK
  <2> QED BY <2>3, <2>5, <2>6 DEF CallOK, h, j
<1>6. CASE ~(Rotated /\ k.throttled + 1 < Clients)
  <2>1. k.throttled + 1 = Clients
    BY <1>6, <1>1, <1>2, EndpointPoolAssumption DEF Rotated
  <2>2. h = [k EXCEPT !.throttled = 0, !.tried = @ \cup {k.endpoint}, !.endpoint = 0,
                      !.at = IF k.cycles + 1 > MaxRetries THEN "exhausted" ELSE "sleeping",
                      !.cycles = k.cycles + 1]
    BY <1>6 DEF Handle429
  <2>3. /\ h.at = IF k.cycles + 1 > MaxRetries THEN "exhausted" ELSE "sleeping"
        /\ h.throttled = 0 /\ h.cycles = k.cycles + 1
        /\ h.sent = k.sent /\ h.disturbed = k.disturbed
        /\ h.tried = k.tried \cup {k.endpoint}
    BY <2>2 DEF Call
  <2>4. h \in Call
    <3>1. k.tried \cup {k.endpoint} \in SUBSET Endpoints /\ k.cycles + 1 \in Nat /\ 0 \in Nat
            /\ (IF k.cycles + 1 > MaxRetries THEN "exhausted" ELSE "sleeping") \in Steps
      BY <1>2 DEF Steps
    <3> QED BY <1>4, <2>2, <3>1 DEF Call
  <2>5. (k.cycles + 1) * Clients = k.cycles * Clients + Clients
        /\ k.cycles * Clients \in Nat
    BY <1>2, Times
  <2>6. Paid(h, 0)
    BY <2>1, <2>3, <2>5, <1>1, <1>2 DEF Paid
  <2>7. h.disturbed \/ h.tried = Endpoints
    BY <2>1, <2>3, <1>3, <1>4, RefusersAll
  <2> HIDE DEF h, j
  <2>8. SleepingOK(h)
    BY <2>3, <2>6, <2>7, <1>2, EndpointPoolAssumption DEF SleepingOK
  <2>9. ExhaustedOK(h)
    BY <2>3, <2>6, <2>7, <1>1, <1>2, EndpointPoolAssumption DEF ExhaustedOK
  <2>10. ReadyOK(h, j) /\ SendingOK(h, j) /\ QuietOK(h)
    BY <2>3 DEF ReadyOK, SendingOK, QuietOK
  <2> QED BY <2>4, <2>8, <2>9, <2>10 DEF CallOK, h, j
<1> QED BY <1>5, <1>6

\* A call another one disturbed, or that has nothing to do with the index.
LEMMA OthersOK ==
    ASSUME NEW i \in Endpoints, NEW j \in Endpoints, NEW k \in Call, CallOK(k, i)
    PROVE  /\ k.at \in InCycle =>
                 [k EXCEPT !.disturbed = TRUE] \in Call
                 /\ CallOK([k EXCEPT !.disturbed = TRUE], j)
           /\ k.at \notin InCycle => CallOK(k, j)
           /\ Clients = 1 => i = j
<1> DEFINE d == [k EXCEPT !.disturbed = TRUE]
<1>1. d \in Call
  BY DEF Call
<1>2. /\ d.at = k.at /\ d.cycles = k.cycles /\ d.throttled = k.throttled
      /\ d.sent = k.sent /\ d.disturbed = TRUE /\ d.tried = k.tried
  BY DEF Call
<1> HIDE DEF d
<1>3. k.at \in InCycle => CallOK(d, j)
  BY <1>2 DEF CallOK, ReadyOK, SendingOK, SleepingOK, ExhaustedOK, QuietOK, Paid, InCycle
<1>4. k.at \notin InCycle => CallOK(k, j)
  BY DEF CallOK, ReadyOK, SendingOK, SleepingOK, ExhaustedOK, QuietOK, InCycle
<1>5. Clients = 1 => i = j
  BY DEF Endpoints
<1> QED BY <1>1, <1>3, <1>4, <1>5 DEF d


LEMMA PoolStart == PoolInit => PoolInv
  BY NoCallOK, EndpointPoolAssumption DEF PoolInit, PoolInv, PoolTypeOK, Endpoints

\* One call is replaced, the index stays.
LEMMA OneCall ==
    ASSUME PoolInv, NEW c \in Callers, NEW k \in Call, CallOK(k, currentIndex),
           call' = [call EXCEPT ![c] = k], UNCHANGED currentIndex
    PROVE  PoolInv'
  BY DEF PoolInv, PoolTypeOK

LEMMA PoolKeeps == PoolInv /\ PoolStep => PoolInv'
<1> SUFFICES ASSUME PoolInv, PoolStep PROVE PoolInv'
  OBVIOUS
<1>0. /\ currentIndex \in Endpoints /\ call \in [Callers -> Call] /\ PoolTypeOK
      /\ \A c \in Callers : call[c] \in Call /\ CallOK(call[c], currentIndex)
  BY DEF PoolInv, PoolTypeOK
<1>1. CASE UNCHANGED poolVars
  BY <1>1 DEF PoolInv, PoolTypeOK, poolVars
<1>2. ASSUME NEW c \in Callers, Begin(c)
      PROVE  PoolInv'
  <2>1. NoCall.cycles <= MaxRetries /\ NoCall.throttled < Clients /\ Paid(NoCall, 0)
          /\ NoCall.tried = Refusers(currentIndex, 0) /\ NoCall.throttled = 0
    BY <1>0, RefusersNone, EndpointPoolAssumption, Times DEF NoCall, Paid
  <2>2. Sent(NoCall) \in Call /\ CallOK(Sent(NoCall), currentIndex)
    BY <2>1, <1>0, NoCallOK, SentOK
  <2> QED BY <2>2, <1>2, OneCall DEF Begin
<1>3. ASSUME NEW c \in Callers, Answers(c) \/ Fails(c) \/ Throws(c) \/ OpensStream(c)
      PROVE  PoolInv'
  <2>1. PICK at \in {"idle", "streaming", "failed"} :
            call' = [call EXCEPT ![c] = [NoCall EXCEPT !.at = at]]
    BY <1>3 DEF Answers, Fails, Throws, OpensStream, Becomes
  <2>2. UNCHANGED currentIndex
    BY <1>3 DEF Answers, Fails, Throws, OpensStream, Becomes
  <2> QED BY <2>1, <2>2, <1>0, NoCallOK, OneCall
<1>4. ASSUME NEW c \in Callers, Resend(c)
      PROVE  PoolInv'
  <2>1. ReadyOK(call[c], currentIndex) /\ call[c].at = "ready"
    BY <1>0, <1>4 DEF CallOK, Resend
  <2>2. Sent(call[c]) \in Call /\ CallOK(Sent(call[c]), currentIndex)
    BY <2>1, <1>0, SentOK DEF ReadyOK
  <2> QED BY <2>2, <1>4, OneCall DEF Resend
<1>5. ASSUME NEW c \in Callers, Wake(c)
      PROVE  PoolInv'
  <2> DEFINE k == [call[c] EXCEPT !.tried = {}, !.disturbed = FALSE]
  <2>1. SleepingOK(call[c]) /\ call[c].at = "sleeping" /\ call[c] \in Call
    BY <1>0, <1>5 DEF CallOK, Wake
  <2>2. /\ k \in Call /\ k.cycles = call[c].cycles /\ k.throttled = call[c].throttled
        /\ k.sent = call[c].sent /\ k.tried = {}
    BY <2>1 DEF Call
  <2>3. call' = [call EXCEPT ![c] = Sent(k)] /\ UNCHANGED currentIndex
    BY <1>5 DEF Wake
  <2> HIDE DEF k
  <2>4. k.cycles <= MaxRetries /\ k.throttled = 0 /\ Paid(k, 0) /\ 0 < Clients
    BY <2>1, <2>2, EndpointPoolAssumption DEF SleepingOK, Paid
  <2>5. k.tried = Refusers(currentIndex, 0)
    BY <2>2, <1>0, RefusersNone
  <2>6. Sent(k) \in Call /\ CallOK(Sent(k), currentIndex)
    BY <2>2, <2>4, <2>5, <1>0, SentOK
  <2> QED BY <2>3, <2>6, OneCall
<1>6. ASSUME NEW c \in Callers, Refused(c)
      PROVE  PoolInv'
  <2> DEFINE j == RotateEndpoint(currentIndex)
  <2>1. j \in Endpoints /\ currentIndex' = j
    BY <1>0, <1>6, Rotation DEF Refused
  <2>2. call[c] \in Call /\ call[c].at = "sending" /\ SendingOK(call[c], currentIndex)
    BY <1>0, <1>6 DEF Refused, CallOK
  <2>3. Handle429(call[c]) \in Call /\ CallOK(Handle429(call[c]), j)
    BY <2>2, <1>0, Handle429OK
  <2>4. ~Rotated => Clients = 1
    BY EndpointPoolAssumption DEF Rotated
  <2> HIDE DEF j
  <2>5. ASSUME NEW d \in Callers
        PROVE  call'[d] \in Call /\ CallOK(call'[d], j)
    <3>1. call'[d] = IF d = c THEN Handle429(call[c])
                     ELSE IF Rotated /\ call[d].at \in InCycle
                          THEN [call[d] EXCEPT !.disturbed = TRUE]
                          ELSE call[d]
      BY <1>6 DEF Refused
    <3>2. CASE d = c
      BY <3>1, <3>2, <2>3
    <3>3. CASE d # c /\ Rotated /\ call[d].at \in InCycle
      BY <3>1, <3>3, <1>0, <2>1, OthersOK
    <3>4. CASE d # c /\ ~Rotated
      BY <3>1, <3>4, <1>0, <2>1, <2>4, OthersOK
    <3>5. CASE d # c /\ call[d].at \notin InCycle
      BY <3>1, <3>5, <1>0, <2>1, OthersOK
    <3> QED BY <3>2, <3>3, <3>4, <3>5
  <2>6. call' = [d \in Callers |-> call'[d]]
    BY <1>6 DEF Refused
  <2>7. call' \in [Callers -> Call]
    BY <2>5, <2>6
  <2> QED BY <2>1, <2>5, <2>7 DEF PoolInv, PoolTypeOK
<1> QED BY <1>1, <1>2, <1>3, <1>4, <1>5, <1>6 DEF PoolStep

LEMMA PoolGives == PoolInv => EveryEndpointTried /\ RequestsBounded
<1> SUFFICES ASSUME PoolInv, NEW c \in Callers
             PROVE  /\ call[c].at \in {"sleeping", "exhausted"} /\ ~call[c].disturbed
                          => call[c].tried = Endpoints
                    /\ call[c].sent <= Clients * (MaxRetries + 1)
  BY DEF EveryEndpointTried, RequestsBounded
<1> DEFINE k == call[c]
<1>1. k \in Call /\ CallOK(k, currentIndex)
  BY DEF PoolInv, PoolTypeOK
<1> HIDE DEF k
<1>2. k.at \in {"sleeping", "exhausted"} /\ ~k.disturbed => k.tried = Endpoints
  BY <1>1 DEF CallOK, SleepingOK, ExhaustedOK
<1>3. k.at \in Steps /\ k.sent \in Nat /\ k.cycles \in Nat /\ k.throttled \in Nat
  BY <1>1 DEF Call
<1>4. Clients * (MaxRetries + 1) = MaxRetries * Clients + Clients /\ Clients \in Nat
        /\ MaxRetries * Clients \in Nat
  BY EndpointPoolAssumption, Times
<1>5. k.cycles <= MaxRetries => k.cycles * Clients <= MaxRetries * Clients
  BY <1>3, EndpointPoolAssumption, Times
<1>6. k.cycles * Clients \in Nat
  BY <1>3, Times
<1>7. k.at \in InCycle \cup {"sleeping"} => k.sent <= Clients * (MaxRetries + 1)
  BY <1>1, <1>3, <1>4, <1>5, <1>6
     DEF CallOK, ReadyOK, SendingOK, SleepingOK, Paid, InCycle
<1>8. k.at = "exhausted" => k.sent <= Clients * (MaxRetries + 1)
  BY <1>1, <1>3, <1>4, EndpointPoolAssumption, Times DEF CallOK, ExhaustedOK, Paid
<1>9. k.at \in {"idle", "streaming", "failed"} => k.sent <= Clients * (MaxRetries + 1)
  BY <1>1, <1>4 DEF CallOK, QuietOK
<1> QED BY <1>2, <1>3, <1>7, <1>8, <1>9 DEF Steps, InCycle, k


LEMMA StepsAreOfThePool == [Next]_vars => PoolStep
<1> SUFFICES ASSUME [Next]_vars PROVE PoolStep
  OBVIOUS
<1>0. \A q \in Questions : q \in Callers
  BY ChatTurnsAssumption
<1>1. CASE UNCHANGED vars
  BY <1>1 DEF vars, PoolStep, poolVars
<1>2. CASE LeavePage
  BY <1>2 DEF LeavePage, InBrowser, NoPool, PoolStep
<1>3. ASSUME NEW q \in Questions, Serve(q)
      PROVE  PoolStep
  <2>1. CASE Refuse(q) \/ CreateChatTask(q) \/ Iterate(q) \/ ExceedBudget(q)
               \/ ReachCap(q) \/ InvalidReply(q) \/ UseTool(q) \/ ToolThrows(q)
               \/ ChatComplete(q)
    BY <2>1 DEF Refuse, CreateChatTask, Iterate, ExceedBudget, ReachCap, InvalidReply,
                UseTool, ToolThrows, ChatComplete, NoPool, PoolStep
  <2>2. CASE IterateSummarizing(q) \/ AskStream(q) \/ FallBack(q)
    BY <2>2, <1>0 DEF IterateSummarizing, AskStream, FallBack, Asks, PoolStep
  <2>3. CASE SummaryArrives(q) \/ SummaryFails(q) \/ Streams(q) \/ Reply(q) \/ Break(q)
               \/ CompletionFails(q)
    BY <2>3, <1>0 DEF SummaryArrives, SummaryFails, Streams, Reply, Break, CompletionFails,
                      PoolStep
  <2>4. CASE Retries(q)
    BY <2>4, <1>0 DEF Retries, PoolStep
  <2> QED BY <1>3, <2>1, <2>2, <2>3, <2>4 DEF Serve
<1>4. ASSUME NEW q \in Questions,
             Read(q) \/ HandleSend(q) \/ LoseConnection(q)
      PROVE  PoolStep
  BY <1>4 DEF Read, Receive, ReceiveView, ReceiveEnd, ReceiveRefusal, Apologise,
              HandleSend, LoseConnection, InBrowser, NoPool, PoolStep
<1>5. ASSUME NEW c \in Others, OtherCall(c) \/ Retries(c)
      PROVE  PoolStep
  BY <1>5 DEF OtherCall, Retries, Others, PoolStep
<1> QED BY <1>1, <1>2, <1>3, <1>4, <1>5 DEF Next

\* Of the first m turns of a conversation seeded with n messages, those that
\* can have been long enough for a summary.
Short(n) == IF n < MaxMessages THEN (MaxMessages - 1 - n) \div 2 ELSE 0
Long(n, m) == IF Short(n) < m THEN m - Short(n) ELSE 0

\* What the turns of a task so far may have asked for.
Share(t) == 2 * t.turns + Long(t.seeded, t.turns)

\* What a task may have in memory.
Room(t) == t.seeded + 2 * t.turns + t.announced

\* A turn adds a message before its completions and one after them.  Of the
\* completions of a turn that has not streamed yet two are left, of one that
\* streams, its fallback.
TaskOK(t) ==
    /\ t.turns <= MaxIterations
    /\ t.messages <= Room(t)
    /\ t.completions <= Share(t)
    /\ t.at \in {"none", "arrived"} => t.turns = 0 /\ t.completions = 0
    /\ t.at \in {"summary", "ask", "stream", "plain"} =>
          t.turns > 0 /\ t.messages < Room(t)
    /\ t.at \in {"summary", "ask"} => t.completions + 2 <= Share(t)
    /\ t.at = "stream" => t.completions < Share(t)
    /\ t.at = "summary" => t.messages >= MaxMessages

TaskInv == /\ task \in [Questions -> Task]
           /\ \A q \in Questions : TaskOK(task[q])
           /\ reader \in [Questions -> {"none", "reading", "over"}]
           /\ \A q \in Questions : reader[q] = "none" => task[q].at = "none"

LEMMA ShortResult ==
    ASSUME NEW n \in Nat, NEW m \in Nat
    PROVE  /\ Short(n) \in Nat /\ Long(n, m) \in Nat
           /\ Long(n, m) <= Long(n, m + 1)
           /\ n + 2 * m + 2 >= MaxMessages => Long(n, m + 1) = Long(n, m) + 1
<1>1. MaxMessages \in Nat
  BY ChatTurnsAssumption
<1>2. Short(n) \in Nat /\ (n < MaxMessages => 2 * Short(n) <= MaxMessages - 1 - n)
  BY <1>1 DEF Short
<1>3. n >= MaxMessages => Short(n) = 0
  BY <1>1 DEF Short
<1>4. n + 2 * m + 2 >= MaxMessages => Short(n) <= m
  BY <1>1, <1>2, <1>3
<1> QED BY <1>2, <1>4 DEF Long

LEMMA LongGrows ==
    ASSUME NEW n \in Nat, NEW m \in Nat, NEW k \in Nat, m <= k
    PROVE  Long(n, m) <= Long(n, k)
<1>1. Short(n) \in Nat
  BY ShortResult
<1> QED BY <1>1 DEF Long

LEMMA Counts ==
    ASSUME NEW t, t.turns \in Nat, t.seeded \in Nat, t.announced \in Nat
    PROVE  Share(t) \in Nat /\ Room(t) \in Nat
<1>1. Long(t.seeded, t.turns) \in Nat
  BY ShortResult
<1> HIDE DEF Long
<1> QED BY <1>1 DEF Share, Room

LEMMA TaskStart == Init => TaskInv
<1> SUFFICES ASSUME Init PROVE TaskInv
  OBVIOUS
<1>1. NoTask \in Task
  BY DEF NoTask, Task
<1>2. /\ NoTask.at = "none" /\ NoTask.turns = 0 /\ NoTask.messages = 0
      /\ NoTask.seeded = 0 /\ NoTask.announced = 0 /\ NoTask.completions = 0
  BY DEF NoTask
<1>3. Share(NoTask) \in Nat /\ Room(NoTask) = 0
  BY <1>2, Counts DEF Room
<1>4. TaskOK(NoTask)
  BY <1>2, <1>3, ChatTurnsAssumption DEF TaskOK
<1>5. task = [q \in Questions |-> NoTask] /\ reader = [q \in Questions |-> "none"]
  BY DEF Init
<1> QED BY <1>1, <1>2, <1>4, <1>5 DEF TaskInv

LEMMA OneTask ==
    ASSUME TaskInv, NEW q \in Questions, NEW t \in Task, TaskOK(t),
           task' = [task EXCEPT ![q] = t],
           \/ UNCHANGED reader /\ task[q].at # "none"
           \/ reader' = [reader EXCEPT ![q] = "reading"]
    PROVE  TaskInv'
<1>1. task' \in [Questions -> Task] /\ \A p \in Questions : TaskOK(task'[p])
  BY DEF TaskInv
<1>2. ASSUME NEW p \in Questions, reader'[p] = "none"
      PROVE  task'[p].at = "none"
  BY <1>2 DEF TaskInv
<1> QED BY <1>1, <1>2 DEF TaskInv

\* What TaskOK compares.
LEMMA TaskNumbers ==
    ASSUME TaskInv, NEW q \in Questions
    PROVE  /\ task[q] \in Task /\ TaskOK(task[q])
           /\ task[q].turns \in Nat /\ task[q].seeded \in Nat /\ task[q].messages \in Nat
           /\ task[q].announced \in 0..1 /\ task[q].completions \in Nat
           /\ Share(task[q]) \in Nat /\ Room(task[q]) \in Nat
<1>1. task[q] \in Task /\ TaskOK(task[q])
  BY DEF TaskInv
<1>2. /\ task[q].turns \in Nat /\ task[q].seeded \in Nat /\ task[q].messages \in Nat
      /\ task[q].announced \in 0..1 /\ task[q].completions \in Nat
  BY <1>1 DEF Task
<1> QED BY <1>1, <1>2, Counts

\* Between its completions; the announcement may have been added.
LEMMA RestOK ==
    ASSUME TaskInv, NEW q \in Questions, NEW t \in Task,
           t.at \in {"arrived", "turn"},
           t.at = "arrived" => task[q].at = "none",
           t.turns = task[q].turns, t.seeded = task[q].seeded,
           t.completions = task[q].completions,
           t.messages + task[q].announced = task[q].messages + t.announced
    PROVE  TaskOK(t)
<1>1. /\ task[q] \in Task /\ TaskOK(task[q])
      /\ task[q].turns \in Nat /\ task[q].seeded \in Nat /\ task[q].messages \in Nat
      /\ task[q].announced \in 0..1 /\ task[q].completions \in Nat
      /\ Share(task[q]) \in Nat /\ Room(task[q]) \in Nat
  BY TaskNumbers
<1>2. t.messages \in Nat /\ t.announced \in 0..1
  BY DEF Task
<1>3. Share(t) = Share(task[q])
  BY DEF Share
<1>4. t.messages <= Room(t)
  BY <1>1, <1>2 DEF TaskOK, Room
<1>5. t.turns <= MaxIterations /\ t.completions <= Share(t)
  BY <1>1, <1>3 DEF TaskOK
<1>6. t.at = "arrived" => t.turns = 0 /\ t.completions = 0
  BY <1>1 DEF TaskOK
<1> QED BY <1>4, <1>5, <1>6 DEF TaskOK

\* The response ended.
LEMMA EndsOK ==
    ASSUME TaskInv, NEW q \in Questions, task[q].at # "none", UNCHANGED reader,
           task' = [task EXCEPT ![q] = [NoTask EXCEPT !.at = "over"]]
    PROVE  TaskInv'
<1> DEFINE t == [NoTask EXCEPT !.at = "over"]
<1>0. /\ NoTask \in Task /\ NoTask.turns = 0 /\ NoTask.seeded = 0
      /\ NoTask.messages = 0 /\ NoTask.announced = 0 /\ NoTask.completions = 0
  BY DEF Task, NoTask
<1>1. /\ t \in Task /\ t.at = "over" /\ t.turns = 0 /\ t.seeded = 0
      /\ t.messages = 0 /\ t.announced = 0 /\ t.completions = 0
  BY <1>0 DEF Task
<1>2. task' = [task EXCEPT ![q] = t]
  OBVIOUS
<1> HIDE DEF t
<1>3. Share(t) \in Nat /\ Room(t) = 0
  BY <1>1, Counts DEF Room
<1>4. TaskOK(t)
  BY <1>1, <1>3, ChatTurnsAssumption DEF TaskOK
<1> QED BY <1>1, <1>2, <1>4, OneTask

LEMMA CreateOK ==
    ASSUME TaskInv, NEW q \in Questions, CreateChatTask(q)
    PROVE  TaskInv'
<1>1. PICK n \in Histories :
         task' = [task EXCEPT ![q].at = "turn", ![q].seeded = n, ![q].messages = n]
  BY DEF CreateChatTask
<1> DEFINE t == [task[q] EXCEPT !.at = "turn", !.seeded = n, !.messages = n]
<1>2. task[q] \in Task /\ TaskOK(task[q]) /\ n \in Nat
  BY TaskNumbers, ChatTurnsAssumption
<1>3. task' = [task EXCEPT ![q] = t]
  BY <1>1, <1>2 DEF TaskInv, Task
<1>4. t \in Task /\ t.at = "turn" /\ t.turns = task[q].turns /\ t.seeded = n
        /\ t.messages = n /\ t.completions = task[q].completions
        /\ t.announced = task[q].announced /\ t.announced \in 0..1
  BY <1>2 DEF Task
<1>5. task[q].at = "arrived" /\ UNCHANGED reader
  BY DEF CreateChatTask, OnServer
<1>6. t.turns = 0 /\ t.completions = 0
  BY <1>2, <1>4, <1>5 DEF TaskOK
<1> HIDE DEF t
<1>7. Share(t) \in Nat /\ t.messages <= Room(t)
  BY <1>2, <1>4, <1>6, Counts DEF Room
<1>8. TaskOK(t)
  BY <1>2, <1>4, <1>6, <1>7, ChatTurnsAssumption DEF TaskOK
<1> QED BY <1>3, <1>4, <1>5, <1>8, OneTask

\* The task of the next turn, before anything is asked for.
LEMMA NextTurnResult ==
    ASSUME TaskInv, NEW q \in Questions, task[q].at = "turn", task[q].turns < MaxIterations
    PROVE  LET t == NextTurn(q) IN
           /\ t \in Task /\ t.turns = task[q].turns + 1 /\ t.seeded = task[q].seeded
           /\ t.messages = task[q].messages + 1 /\ t.completions = task[q].completions
           /\ t.announced = task[q].announced
           /\ t.turns <= MaxIterations /\ t.messages < Room(t)
           /\ t.completions + 2 <= Share(t)
           /\ t.messages >= MaxMessages => t.completions + 3 <= Share(t)
<1> DEFINE t == NextTurn(q)
<1>1. /\ task[q] \in Task /\ TaskOK(task[q])
      /\ task[q].turns \in Nat /\ task[q].seeded \in Nat /\ task[q].messages \in Nat
      /\ task[q].announced \in 0..1 /\ task[q].completions \in Nat
      /\ Share(task[q]) \in Nat /\ Room(task[q]) \in Nat
  BY TaskNumbers
<1>2. task[q].turns + 1 \in Nat /\ task[q].messages + 1 \in Nat
  BY <1>1
<1>3. t \in Task /\ t.turns = task[q].turns + 1 /\ t.seeded = task[q].seeded
        /\ t.messages = task[q].messages + 1 /\ t.completions = task[q].completions
        /\ t.announced = task[q].announced
  BY <1>1, <1>2 DEF NextTurn, Task
<1> HIDE DEF t
<1>4. t.turns <= MaxIterations /\ t.messages < Room(t)
  BY <1>1, <1>3, ChatTurnsAssumption DEF TaskOK, Room
<1> DEFINE n == task[q].seeded
<1> DEFINE m == task[q].turns
<1>5. /\ Long(n, m) \in Nat /\ Long(n, m + 1) \in Nat /\ Long(n, m) <= Long(n, m + 1)
      /\ n + 2 * m + 2 >= MaxMessages => Long(n, m + 1) = Long(n, m) + 1
  BY <1>1, <1>2, ShortResult
<1>6. Share(t) = 2 * m + 2 + Long(n, m + 1) /\ Share(task[q]) = 2 * m + Long(n, m)
  BY <1>1, <1>3 DEF Share
<1>7. t.messages >= MaxMessages => n + 2 * m + 2 >= MaxMessages
  BY <1>1, <1>3, ChatTurnsAssumption DEF TaskOK, Room
<1>8. t.completions <= Share(task[q])
  BY <1>1, <1>3 DEF TaskOK
<1>9. t.completions + 2 <= Share(t) /\ (t.messages >= MaxMessages => t.completions + 3 <= Share(t))
  BY <1>1, <1>3, <1>5, <1>6, <1>7, <1>8
<1> QED BY <1>3, <1>4, <1>9 DEF t

LEMMA IterateOK ==
    ASSUME TaskInv, NEW q \in Questions, Iterate(q)
    PROVE  TaskInv'
<1> DEFINE n == NextTurn(q)
<1> DEFINE t == [n EXCEPT !.at = "ask"]
<1>1. /\ n \in Task /\ n.turns \in Nat /\ n.turns > 0
      /\ n.turns <= MaxIterations /\ n.messages < Room(n)
      /\ n.completions + 2 <= Share(n)
  BY NextTurnResult, TaskNumbers DEF Iterate
<1>2. task' = [task EXCEPT ![q] = t] /\ UNCHANGED reader /\ task[q].at # "none"
  BY DEF Iterate, OnServer
<1> HIDE DEF n
<1>3. t \in Task /\ t.at = "ask" /\ t.turns = n.turns /\ t.seeded = n.seeded
        /\ t.messages = n.messages /\ t.completions = n.completions
        /\ t.announced = n.announced
  BY <1>1 DEF Task
<1>4. n.messages \in Nat /\ n.seeded \in Nat /\ n.completions \in Nat /\ n.announced \in Nat
  BY <1>1 DEF Task
<1>5. /\ Share(n) \in Nat /\ Share(t) = Share(n)
      /\ Room(n) \in Nat /\ Room(t) = Room(n)
  BY <1>1, <1>3, <1>4, Counts DEF Share, Room
<1> HIDE DEF t
<1>6. TaskOK(t)
  BY <1>1, <1>3, <1>4, <1>5 DEF TaskOK
<1> QED BY <1>2, <1>3, <1>6, OneTask

\* One more completion, when there is one left for it.
LEMMA AsksOK ==
    ASSUME TaskInv, NEW q \in Questions, NEW n \in Task,
           NEW at \in {"summary", "stream", "plain"}, Asks(q, n, at),
           task[q].at # "none", at = "summary" => n.messages >= MaxMessages,
           n.turns > 0, n.turns <= MaxIterations, n.messages < Room(n),
           n.completions + (IF at = "summary" THEN 3 ELSE IF at = "stream" THEN 2 ELSE 1)
              <= Share(n)
    PROVE  TaskInv'
<1> DEFINE t == [n EXCEPT !.at = at, !.completions = @ + 1]
<1>1. /\ n.turns \in Nat /\ n.messages \in Nat /\ n.seeded \in Nat /\ n.completions \in Nat
      /\ n.completions + 1 \in Nat /\ n.announced \in Nat
  BY DEF Task
<1>2. t \in Task /\ t.at = at /\ t.turns = n.turns /\ t.seeded = n.seeded
        /\ t.messages = n.messages /\ t.completions = n.completions + 1
        /\ t.announced = n.announced
  BY <1>1 DEF Task
<1>3. /\ Share(n) \in Nat /\ Share(t) = Share(n)
      /\ Room(n) \in Nat /\ Room(t) = Room(n)
  BY <1>1, <1>2, Counts DEF Share, Room
<1>4. task' = [task EXCEPT ![q] = t] /\ UNCHANGED reader
  BY DEF Asks, OnServer
<1> HIDE DEF t
<1>5. TaskOK(t)
  BY <1>1, <1>2, <1>3 DEF TaskOK
<1> QED BY <1>2, <1>4, <1>5, OneTask

\* A completion that is over, or fails; the messages may have been summarized.
LEMMA SettledOK ==
    ASSUME TaskInv, NEW q \in Questions, NEW at \in {"ask", "reply"}, NEW n \in Nat,
           IF at = "ask" THEN task[q].at = "summary" /\ n <= task[q].messages
                         ELSE task[q].at \in {"stream", "plain"} /\ n = task[q].messages + 1,
           task' = [task EXCEPT ![q] = [task[q] EXCEPT !.at = at, !.messages = n]],
           UNCHANGED reader
    PROVE  TaskInv'
<1> DEFINE t == [task[q] EXCEPT !.at = at, !.messages = n]
<1>1. /\ task[q] \in Task /\ TaskOK(task[q])
      /\ task[q].turns \in Nat /\ task[q].seeded \in Nat /\ task[q].messages \in Nat
      /\ task[q].announced \in 0..1 /\ task[q].completions \in Nat
      /\ Share(task[q]) \in Nat /\ Room(task[q]) \in Nat
  BY TaskNumbers
<1>2. t \in Task /\ t.at = at /\ t.turns = task[q].turns /\ t.seeded = task[q].seeded
        /\ t.messages = n /\ t.completions = task[q].completions
        /\ t.announced = task[q].announced
  BY <1>1 DEF Task
<1>3. Share(t) = Share(task[q]) /\ Room(t) = Room(task[q])
  BY <1>2 DEF Share, Room
<1> HIDE DEF t
<1>4. TaskOK(t)
  <2>1. CASE at = "ask"
    BY <1>1, <1>2, <1>3, <2>1 DEF TaskOK
  <2>2. CASE at = "reply"
    BY <1>1, <1>2, <1>3, <2>2 DEF TaskOK
  <2> QED BY <2>1, <2>2
<1> QED BY <1>2, <1>4, OneTask DEF t

LEMMA ServeKeeps ==
    ASSUME TaskInv, NEW q \in Questions, Serve(q)
    PROVE  TaskInv'
<1>0. UNCHANGED <<task, reader>> => TaskInv'
  BY DEF TaskInv
<1>1. CASE Refuse(q) \/ ExceedBudget(q) \/ ReachCap(q) \/ ToolThrows(q)
             \/ ChatComplete(q) \/ CompletionFails(q)
  <2>1. /\ task[q].at # "none" /\ UNCHANGED reader
        /\ task' = [task EXCEPT ![q] = [NoTask EXCEPT !.at = "over"]]
    BY <1>1 DEF Refuse, ExceedBudget, ReachCap, ToolThrows, ChatComplete,
                CompletionFails, ErrorEnds, Ends, OnServer
  <2> QED BY <2>1, EndsOK
<1>2. CASE InvalidReply(q)
  <2> DEFINE t == [task[q] EXCEPT !.at = "turn"]
  <2>1. task[q] \in Task /\ task[q].messages \in Nat /\ task[q].announced \in 0..1
    BY TaskNumbers
  <2>2. t \in Task /\ t.at = "turn" /\ t.turns = task[q].turns
          /\ t.seeded = task[q].seeded /\ t.completions = task[q].completions
          /\ t.messages + task[q].announced = task[q].messages + t.announced
    BY <2>1 DEF Task
  <2>3. task' = [task EXCEPT ![q] = t] /\ UNCHANGED reader /\ task[q].at # "none"
    BY <1>2 DEF InvalidReply, Now, OnServer
  <2> HIDE DEF t
  <2>4. TaskOK(t)
    BY <2>2, RestOK
  <2> QED BY <2>2, <2>3, <2>4, OneTask
<1>3. CASE CreateChatTask(q)
  BY <1>3, CreateOK
<1>4. CASE Iterate(q)
  BY <1>4, IterateOK
<1>5. CASE IterateSummarizing(q)
  <2>1. /\ NextTurn(q) \in Task /\ NextTurn(q).turns > 0
        /\ NextTurn(q).turns <= MaxIterations
        /\ NextTurn(q).messages < Room(NextTurn(q))
        /\ NextTurn(q).messages >= MaxMessages
        /\ NextTurn(q).completions + 3 <= Share(NextTurn(q))
        /\ task[q].at # "none" /\ Asks(q, NextTurn(q), "summary")
    BY <1>5, NextTurnResult, TaskNumbers DEF IterateSummarizing
  <2> QED BY <2>1, AsksOK
<1>6. CASE AskStream(q)
  <2>1. /\ task[q] \in Task /\ task[q].turns > 0 /\ task[q].turns <= MaxIterations
        /\ task[q].messages < Room(task[q])
        /\ task[q].completions + 2 <= Share(task[q])
        /\ task[q].at # "none" /\ Asks(q, task[q], "stream")
    BY <1>6, TaskNumbers DEF AskStream, TaskOK
  <2> QED BY <2>1, AsksOK
<1>7. CASE FallBack(q)
  <2>1. /\ task[q] \in Task /\ task[q].turns > 0 /\ task[q].turns <= MaxIterations
        /\ task[q].messages < Room(task[q])
        /\ task[q].completions + 1 <= Share(task[q])
        /\ task[q].at # "none" /\ Asks(q, task[q], "plain")
    BY <1>7, TaskNumbers DEF FallBack, TaskOK
  <2> QED BY <2>1, AsksOK
<1>8. CASE SummaryArrives(q)
  <2>1. PICK n \in {KeptMessages, task[q].messages} :
          task' = [task EXCEPT ![q].at = "ask", ![q].messages = n]
    BY <1>8 DEF SummaryArrives
  <2>2. task[q].at = "summary" /\ task[q] \in Task /\ task[q].messages \in Nat
          /\ task[q].messages >= MaxMessages /\ UNCHANGED reader
    BY <1>8, TaskNumbers DEF SummaryArrives, TaskOK, OnServer
  <2>3. task' = [task EXCEPT ![q] = [task[q] EXCEPT !.at = "ask", !.messages = n]]
    BY <2>1, <2>2 DEF TaskInv, Task
  <2>4. n \in Nat /\ n <= task[q].messages
    BY <2>1, <2>2, ChatTurnsAssumption
  <2> QED BY <2>2, <2>3, <2>4, SettledOK
<1>9. CASE SummaryFails(q)
  <2> DEFINE n == task[q].messages
  <2>1. task[q].at = "summary" /\ task[q] \in Task /\ n \in Nat /\ UNCHANGED reader
    BY <1>9, TaskNumbers DEF SummaryFails, OnServer
  <2>2. task' = [task EXCEPT ![q] = [task[q] EXCEPT !.at = "ask", !.messages = n]]
    BY <1>9, <2>1 DEF SummaryFails, Now, TaskInv, Task
  <2>3. n <= task[q].messages
    BY <2>1
  <2> QED BY <2>1, <2>2, <2>3, SettledOK
<1>10. CASE Reply(q)
  <2> DEFINE n == task[q].messages + 1
  <2>1. task[q].at \in {"stream", "plain"} /\ task[q] \in Task /\ n \in Nat
          /\ UNCHANGED reader
    BY <1>10, TaskNumbers DEF Reply, OnServer
  <2>2. task' = [task EXCEPT ![q] = [task[q] EXCEPT !.at = "reply", !.messages = n]]
    BY <1>10, <2>1 DEF Reply, TaskInv, Task
  <2> QED BY <2>1, <2>2, SettledOK
<1>11. CASE UseTool(q)
  <2>1. PICK found \in Views, n \in task[q].announced..1 :
          task' = [task EXCEPT ![q].at = "turn", ![q].graph = @ \/ found = "graph",
                               ![q].table = @ \/ found = "table", ![q].announced = n,
                               ![q].messages = @ + n - task[q].announced]
    BY <1>11 DEF UseTool
  <2> DEFINE g == task[q].graph \/ found = "graph"
  <2> DEFINE b == task[q].table \/ found = "table"
  <2> DEFINE m == task[q].messages + n - task[q].announced
  <2> DEFINE t == [task[q] EXCEPT !.at = "turn", !.graph = g, !.table = b,
                                  !.announced = n, !.messages = m]
  <2>2. task[q] \in Task /\ task[q].messages \in Nat /\ task[q].announced \in 0..1
    BY TaskNumbers
  <2>3. g \in BOOLEAN /\ b \in BOOLEAN
    BY <2>2 DEF Task
  <2>4. n \in 0..1 /\ m \in Nat /\ m + task[q].announced = task[q].messages + n
    BY <2>1, <2>2
  <2>5. task' = [task EXCEPT ![q] = t]
    BY <2>1, <2>2, Zenon DEF TaskInv, Task
  <2>8. UNCHANGED reader /\ task[q].at # "none"
    BY <1>11 DEF UseTool, OnServer
  <2> HIDE DEF g, b, m
  <2>6. t \in Task /\ t.at = "turn" /\ t.turns = task[q].turns
          /\ t.seeded = task[q].seeded /\ t.completions = task[q].completions
          /\ t.messages = m /\ t.announced = n
    BY <2>2, <2>3, <2>4 DEF Task
  <2> HIDE DEF t
  <2>7. TaskOK(t)
    BY <2>4, <2>6, RestOK
  <2> QED BY <2>5, <2>6, <2>7, <2>8, OneTask
<1>12. CASE Streams(q) \/ Break(q) \/ Retries(q)
  BY <1>12, <1>0 DEF Streams, Break, Retries, chatVars, OnServer
<1> QED BY <1>1, <1>2, <1>3, <1>4, <1>5, <1>6, <1>7, <1>8, <1>9, <1>10, <1>11, <1>12
        DEF Serve

LEMMA TaskKeeps == TaskInv /\ [Next]_vars => TaskInv'
<1> SUFFICES ASSUME TaskInv, [Next]_vars PROVE TaskInv'
  OBVIOUS
<1>0. UNCHANGED <<task, reader>> => TaskInv'
  BY DEF TaskInv
<1>1. CASE UNCHANGED vars \/ LeavePage
  BY <1>0, <1>1 DEF vars, LeavePage, InBrowser
<1>2. ASSUME NEW q \in Questions, Serve(q)
      PROVE  TaskInv'
  BY <1>2, ServeKeeps
<1>3. ASSUME NEW q \in Questions, Read(q) \/ LoseConnection(q)
      PROVE  TaskInv'
  <2>1. UNCHANGED task
    BY <1>3 DEF Read, Receive, ReceiveView, ReceiveEnd, ReceiveRefusal, Apologise,
                LoseConnection, InBrowser
  <2>2. UNCHANGED reader \/ reader' = [reader EXCEPT ![q] = "over"]
    BY <1>3 DEF Read, Receive, ReceiveView, ReceiveEnd, ReceiveRefusal, Apologise,
                LoseConnection, Settles
  <2> QED BY <2>1, <2>2 DEF TaskInv
<1>4. ASSUME NEW q \in Questions, HandleSend(q)
      PROVE  TaskInv'
  <2> DEFINE t == [task[q] EXCEPT !.at = "arrived"]
  <2>1. /\ task[q] \in Task /\ task[q].messages \in Nat /\ task[q].announced \in 0..1
        /\ task[q].at = "none"
    BY <1>4, TaskNumbers DEF HandleSend, TaskInv
  <2>2. t \in Task /\ t.at = "arrived" /\ t.turns = task[q].turns
          /\ t.seeded = task[q].seeded /\ t.completions = task[q].completions
          /\ t.messages + task[q].announced = task[q].messages + t.announced
    BY <2>1 DEF Task
  <2>3. task' = [task EXCEPT ![q] = t] /\ reader' = [reader EXCEPT ![q] = "reading"]
    BY <1>4 DEF HandleSend, Now
  <2> HIDE DEF t
  <2>4. TaskOK(t)
    BY <2>1, <2>2, RestOK
  <2> QED BY <2>2, <2>3, <2>4, OneTask
<1>5. ASSUME NEW c \in Others, OtherCall(c) \/ Retries(c)
      PROVE  TaskInv'
  BY <1>5, <1>0 DEF OtherCall, Retries, chatVars
<1> QED BY <1>1, <1>2, <1>3, <1>4, <1>5 DEF Next

(* A call of the client sleeps or gives up only when every endpoint refused *)
(* it since it last slept, or another call rotated the index meanwhile,     *)
(* for any number of endpoints and of calls.                                *)
THEOREM CyclesTryEveryEndpoint == Spec => []EveryEndpointTried
<1>1. Init => PoolInv
  BY PoolStart DEF Init
<1>2. PoolInv /\ [Next]_vars => PoolInv'
  BY PoolKeeps, StepsAreOfThePool
<1> QED BY <1>1, <1>2, PoolGives, PTL DEF Spec

(* A chat task asks for at most two completions a turn, and for a summary   *)
(* in each turn its conversation may be long enough for, whichever of them  *)
(* fail; a completion makes at most MaxRetries + 1 requests for every       *)
(* endpoint there is, all told.  For any cap, history and number of         *)
(* endpoints, of callers and of retries.                                    *)
THEOREM ChatIsBounded == Spec => []CompletionsBounded
<1>1. Init => PoolInv /\ TaskInv
  BY PoolStart, TaskStart DEF Init
<1>2. PoolInv /\ TaskInv /\ [Next]_vars => (PoolInv /\ TaskInv)'
  BY PoolKeeps, StepsAreOfThePool, TaskKeeps
<1>3. PoolInv /\ TaskInv => CompletionsBounded
  <2>1. ASSUME TaskInv, NEW q \in Questions
        PROVE  task[q].completions <= 2 * MaxIterations + LongTurns(q)
    <3> DEFINE n == task[q].seeded
    <3> DEFINE m == task[q].turns
    <3>1. /\ TaskOK(task[q]) /\ n \in Nat /\ m \in Nat /\ task[q].completions \in Nat
          /\ Share(task[q]) \in Nat
      BY <2>1, TaskNumbers
    <3>2. task[q].completions <= 2 * m + Long(n, m) /\ m <= MaxIterations
      BY <3>1 DEF TaskOK, Share
    <3>3. MaxIterations \in Nat /\ Long(n, m) \in Nat /\ Long(n, MaxIterations) \in Nat
            /\ Long(n, m) <= Long(n, MaxIterations)
      BY <3>1, <3>2, ShortResult, LongGrows, ChatTurnsAssumption
    <3>4. LongTurns(q) = Long(n, MaxIterations)
      BY DEF LongTurns, ShortTurns, Long, Short
    <3> HIDE DEF n, m
    <3> QED BY <3>1, <3>2, <3>3, <3>4
  <2> QED BY <2>1, PoolGives DEF CompletionsBounded
<1> QED BY <1>1, <1>2, <1>3, PTL DEF Spec

-----------------------------------------------------------------------------
(* Templates: what holds of the rows, the editors and the requests.        *)

Sound(c) == c \in Content /\ c.rules \subseteq c.questions

AllThere == \A t \in TypeSet : OfType(t) # {}

RowsGood == /\ rows \in Seq(Template)
            /\ \A i \in Ids : Sound(rows[i].content)
            /\ overview \in [TypeSet -> 0..Len(rows)]

GoodEditor(e) == /\ e \in Editor /\ Sound(e.content)
                 /\ e = Closed \/ e.id \in Ids

EditorsGood == /\ DOMAIN editors = Editors
               /\ \A e \in Editors : GoodEditor(editors[e])

PolicyCall == [kind : {"none", "list", "update", "reset"},
         at : {"idle", "read", "active", "reread", "write", "seed", "create", "all",
               "reply", "failed"},
         who : Editors \union {NoEditor}, id : Nat, type : TypeSet \union {"none"},
         content : Content, active : BOOLEAN, version : Nat,
         missing : SUBSET TypeSet, found : Seq(Nat)]

\* Which step belongs to which request.
AtItsStep(k) ==
    /\ k.at = "read" => k.kind = "update"
    /\ k.at \in {"active", "all"} => k.kind = "reset"
    /\ k.at \in {"reread", "write"} => k.kind \in {"update", "reset"}
    /\ k.at \in {"seed", "create"} => k.kind \in {"list", "reset"}

\* The row a request is about is there, and so is the editor it came from.
RefersToRows(k) ==
    /\ k.kind = "reset" => k.type \in TypeSet
    /\ k.kind = "update" => k.id \in Ids
    /\ k.kind = "reset" /\ k.at \in {"reread", "write", "reply"} => k.id \in Ids
    /\ k.at \in {"reread", "write"} => k.version # 0
    /\ \A j \in DOMAIN k.found : k.found[j] \in Ids
    /\ k.who # NoEditor => editors[k.who].id \in Ids

\* What a seeding has left to create is all that is missing.
Seeded(k) ==
    /\ k.at = "create" => k.missing # {} /\ \A t \in TypeSet \ k.missing : OfType(t) # {}
    /\ k.at = "all" \/ (k.kind = "list" /\ k.at = "reply") => AllThere

GoodCall(k) == /\ k \in PolicyCall /\ Sound(k.content)
               /\ AtItsStep(k) /\ RefersToRows(k) /\ Seeded(k)

CallsGood == DOMAIN calls = Slots /\ \A s \in Slots : GoodCall(calls[s])

\* A seeding alone creates what nobody has created.
Single ==
    ~overlapped =>
        /\ \A i, j \in Ids : rows[i].type = rows[j].type => i = j
        /\ \A s \in Slots : calls[s].at = "create" =>
               \A t \in calls[s].missing : OfType(t) = {}
        /\ \A s, r \in Slots : calls[s].at = "create" /\ calls[r].at = "create" => s = r

TemplatesInv ==
    RowsGood /\ EditorsGood /\ CallsGood /\ Single /\ (listed => AllThere)

\* Rows are added, and stay of their type.
Grows == /\ Ids \subseteq Ids'
         /\ \A i \in Ids : rows'[i].type = rows[i].type

EditorsStay == \A e \in Editors : editors[e].id \in Ids => editors'[e].id \in Ids'

LEMMA TypesStay ==
    ASSUME Grows, NEW t, OfType(t) # {} PROVE OfType(t)' # {}
  BY DEF Grows, OfType

\* A request that a step leaves alone.
LEMMA GoodCallStays ==
    ASSUME NEW k, GoodCall(k), Grows, EditorsStay PROVE GoodCall(k)'
  BY TypesStay DEF GoodCall, RefersToRows, Seeded, AtItsStep, Sound, AllThere, Grows,
                   EditorsStay, PolicyCall

\* A step of one request.
LEMMA OneCallMoves ==
    ASSUME CallsGood, Grows, EditorsStay, NEW s \in Slots, DOMAIN calls' = Slots,
           \A r \in Slots \ {s} : calls'[r] = calls[r], GoodCall(calls[s])'
    PROVE  CallsGood'
<1> SUFFICES ASSUME NEW r \in Slots PROVE GoodCall(calls[r])'
  BY DEF CallsGood
<1>1. CASE r # s
  <2>1. GoodCall(calls[r])
    BY DEF CallsGood
  <2>2. calls'[r] = calls[r]
    BY <1>1
  <2> QED BY <2>1, <2>2, GoodCallStays
<1> QED BY <1>1

-----------------------------------------------------------------------------
(* Which template is picked.                                               *)

LEMMA HasLowest ==
    ASSUME NEW S \in SUBSET Nat, S # {} PROVE \E x \in S : \A y \in S : x <= y
<1>1. PICK x \in S : \A y \in S : <<y, x>> \notin OpToRel(<, Nat)
  BY NatLessThanWellFounded, WFMin, Zenon
<1>2. \A y \in S : ~(y < x)
  BY <1>1, Zenon DEF OpToRel
<1> QED BY <1>2

LEMMA LowestResult ==
    ASSUME NEW S \in SUBSET Nat, S # {} PROVE Lowest(S) \in S
  BY HasLowest DEF Lowest

LEMMA NewestResult ==
    ASSUME rows \in Seq(Template), NEW S \in SUBSET Ids
    PROVE  /\ S = {} => Newest(S) = 0
           /\ S # {} => Newest(S) \in S
<1>1. CASE S # {}
  <2>1. Len(rows) \in Nat /\ \A i \in S : i \in 1..Len(rows)
    BY DEF Ids
  <2> DEFINE D == {Len(rows) - i : i \in S}
  <2>2. D \in SUBSET Nat /\ D # {}
    BY <1>1, <2>1
  <2>3. PICK x \in D : \A y \in D : x <= y
    <3> HIDE DEF D
    <3> QED BY <2>2, HasLowest
  <2>4. PICK i \in S : x = Len(rows) - i
    OBVIOUS
  <2>5. \A j \in S : j <= i
    <3> SUFFICES ASSUME NEW j \in S PROVE j <= i
      OBVIOUS
    <3>1. Len(rows) - i <= Len(rows) - j
      BY <2>3, <2>4
    <3> QED BY <2>1, <3>1
  <2> QED BY <1>1, <2>5 DEF Newest
<1> QED BY <1>1 DEF Newest

LEMMA FirstOfResult ==
    ASSUME NEW types \in SUBSET TypeSet, types # {} PROVE FirstOf(types) \in types
<1> DEFINE D == {k \in DOMAIN Types : Types[k] \in types}
<1>1. D \in SUBSET Nat /\ D # {}
  BY PolicyTemplatesAssumption DEF TypeSet, Range
<1>2. Lowest(D) \in D
  BY <1>1, LowestResult
<1> QED BY <1>2 DEF FirstOf

LEMMA ShownResult ==
    ASSUME NEW found \in Seq(Nat), NEW t, \A j \in DOMAIN found : found[j] \in Ids,
           rows \in Seq(Template)
    PROVE  Shown(found, t) \in 0..Len(rows)
<1> DEFINE D == {k \in DOMAIN found : rows[found[k]].type = t}
<1>1. CASE D = {}
  BY <1>1 DEF Shown
<1>2. CASE D # {}
  <2>1. D \in SUBSET Nat
    OBVIOUS
  <2>2. Lowest(D) \in D
    BY <1>2, <2>1, LowestResult
  <2>3. found[Lowest(D)] \in Ids
    BY <2>2
  <2> QED BY <1>2, <2>3 DEF Shown, Ids
<1> QED BY <1>1, <1>2

-----------------------------------------------------------------------------
(* What the steps do to the rows.                                          *)

LEMMA RowResult ==
    ASSUME rows \in Seq(Template), NEW i \in Ids
    PROVE  /\ i \in Nat /\ i # 0
           /\ rows[i] \in Template
           /\ rows[i].type \in TypeSet /\ rows[i].active \in BOOLEAN
           /\ rows[i].version \in Nat \ {0} /\ rows[i].version + 1 \in Nat \ {0}
           /\ rows[i].content \in Content
<1>1. i \in Nat /\ i # 0 /\ i \in 1..Len(rows)
  BY DEF Ids
<1>2. rows[i] \in Template
  BY <1>1
<1>3. /\ rows[i].type \in TypeSet /\ rows[i].active \in BOOLEAN
      /\ rows[i].version \in Nat \ {0} /\ rows[i].content \in Content
  BY <1>2 DEF Template
<1> QED BY <1>1, <1>2, <1>3

LEMMA RowsStay ==
    ASSUME rows' = rows PROVE Grows /\ Ids' = Ids /\ \A t : OfType(t)' = OfType(t)
  BY DEF Grows, Ids, OfType

LEMMA RowsGoodStay ==
    ASSUME RowsGood, rows' = rows, overview' = overview PROVE RowsGood'
  BY DEF RowsGood, Ids, Sound

LEMMA DefaultsSound == Sound(Defaults)
  BY PolicyTemplatesAssumption DEF Sound, Defaults, Content

LEMMA ClosedIsGood == GoodEditor(Closed)
  BY DefaultsSound DEF GoodEditor, Closed, Editor, Sound

LEMMA ListedStays ==
    ASSUME listed => AllThere, listed' = listed, Grows PROVE (listed => AllThere)'
  BY TypesStay DEF AllThere

\* A step that neither adds a row nor begins or continues a seeding.
LEMMA SingleStays ==
    ASSUME Single, Grows, Len(rows') = Len(rows), \A t : OfType(t)' = OfType(t), Ids' = Ids,
           overlapped' = overlapped,
           \A s \in Slots : calls'[s].at = "create" =>
               calls[s].at = "create" /\ calls'[s].missing = calls[s].missing
    PROVE  Single'
  BY DEF Single, Grows

-----------------------------------------------------------------------------
(* One request moves, and nothing else does.                               *)

LEMMA RequestMoves ==
    ASSUME TemplatesInv, UNCHANGED <<rows, overview, editors, overlapped, listed>>,
           NEW s \in Slots, DOMAIN calls' = Slots,
           \A r \in Slots \ {s} : calls'[r] = calls[r],
           GoodCall(calls[s])', calls'[s].at # "create"
    PROVE  TemplatesInv'
<1>1. Grows /\ Ids' = Ids /\ \A t : OfType(t)' = OfType(t)
  BY RowsStay
<1>2. RowsGood'
  BY RowsGoodStay DEF TemplatesInv
<1>3. EditorsGood'
  BY <1>1 DEF TemplatesInv, EditorsGood, GoodEditor, Sound
<1>4. EditorsStay
  BY <1>1 DEF EditorsStay
<1>5. CallsGood'
  BY <1>1, <1>4, OneCallMoves DEF TemplatesInv
<1>6. Single'
  <2>1. \A r \in Slots : calls'[r].at = "create" =>
            calls[r].at = "create" /\ calls'[r].missing = calls[r].missing
    OBVIOUS
  <2> QED BY <1>1, <2>1, SingleStays DEF TemplatesInv
<1>7. (listed => AllThere)'
  BY <1>1, ListedStays DEF TemplatesInv
<1> QED BY <1>2, <1>3, <1>5, <1>6, <1>7 DEF TemplatesInv

\* A request begins.
LEMMA NewRequestIsGood ==
    /\ NoRequest \in PolicyCall /\ NoRequest.found = <<>> /\ NoRequest.content = Defaults
    /\ NoRequest.who = NoEditor /\ NoRequest.at = "idle" /\ NoRequest.kind = "none"
    /\ DOMAIN NoRequest.found = {}
<1>1. <<>> \in Seq(Nat) /\ DOMAIN <<>> = {}
  OBVIOUS
<1>2. Defaults \in Content
  BY DefaultsSound DEF Sound
<1> QED BY <1>1, <1>2 DEF NoRequest, PolicyCall

LEMMA NoRequestIsGood == GoodCall(NoRequest)
  BY NewRequestIsGood, DefaultsSound
     DEF GoodCall, AtItsStep, RefersToRows, Seeded

LEMMA ListPoliciesKeeps ==
    ASSUME TemplatesInv, NEW s \in Slots, ListPolicies(s) PROVE TemplatesInv'
<1>1. /\ calls' = [calls EXCEPT ![s] = [NoRequest EXCEPT !.kind = "list", !.at = "seed"]]
      /\ UNCHANGED <<rows, overview, editors, overlapped, listed>>
  BY DEF ListPolicies, Request
<1>2. DOMAIN calls = Slots
  BY DEF TemplatesInv, CallsGood
<1>3. calls'[s] = [NoRequest EXCEPT !.kind = "list", !.at = "seed"]
  BY <1>1, <1>2
<1>4. GoodCall(calls[s])'
  BY <1>3, NewRequestIsGood, DefaultsSound
     DEF GoodCall, AtItsStep, RefersToRows, Seeded, PolicyCall, Sound
<1>5. calls'[s].at # "create"
  BY <1>3, NewRequestIsGood DEF PolicyCall
<1> QED BY <1>1, <1>2, <1>4, <1>5, RequestMoves

LEMMA HandleRestoreDefaultsKeeps ==
    ASSUME TemplatesInv, NEW s \in Slots, NEW e \in Editors, HandleRestoreDefaults(e, s)
    PROVE  TemplatesInv'
<1> DEFINE type == rows[editors[e].id].type
           new == [NoRequest EXCEPT !.kind = "reset", !.at = "active", !.who = e,
                                    !.type = type]
<1>1. /\ calls' = [calls EXCEPT ![s] = new] /\ editors[e] # Closed
      /\ UNCHANGED <<rows, overview, editors, overlapped, listed>>
  BY DEF HandleRestoreDefaults, Request
<1>2. DOMAIN calls = Slots
  BY DEF TemplatesInv, CallsGood
<1>3. calls'[s] = new
  BY <1>1, <1>2
<1>4. editors[e].id \in Ids
  BY <1>1 DEF TemplatesInv, EditorsGood, GoodEditor
<1>5. type \in TypeSet
  BY <1>4, RowResult DEF TemplatesInv, RowsGood
<1> HIDE DEF type
<1>6. Ids' = Ids
  BY <1>1, RowsStay
<1>7. /\ new \in PolicyCall /\ new.found = <<>> /\ new.content = Defaults /\ new.who = e
      /\ new.kind = "reset" /\ new.at = "active" /\ new.type = type
  BY <1>5, NewRequestIsGood DEF PolicyCall
<1> HIDE DEF new
<1>8. GoodCall(calls[s])'
  <2>1. calls'[s] \in PolicyCall /\ AtItsStep(calls'[s])
    BY <1>3, <1>7 DEF AtItsStep
  <2>2. Sound(calls[s].content)'
    BY <1>3, <1>7, DefaultsSound
  <2>3. RefersToRows(calls[s])'
    BY <1>1, <1>3, <1>4, <1>5, <1>6, <1>7, NewRequestIsGood DEF RefersToRows
  <2> QED BY <1>3, <1>7, <2>1, <2>2, <2>3 DEF GoodCall, Seeded, AtItsStep
<1>9. calls'[s].at # "create"
  BY <1>3, <1>7
<1> QED BY <1>1, <1>2, <1>8, <1>9, RequestMoves

\* The request of a slot goes on.
LEMMA ReadVersionKeeps ==
    ASSUME TemplatesInv, NEW s \in Slots, ReadVersion(s) PROVE TemplatesInv'
<1> DEFINE version == rows[calls[s].id].version + 1
<1>1. /\ calls' = [calls EXCEPT ![s].version = version, ![s].at = "reread"]
      /\ UNCHANGED <<rows, overview, editors, overlapped, listed>>
      /\ calls[s].kind = "update" /\ calls[s].at = "read"
  BY DEF ReadVersion
<1>2. DOMAIN calls = Slots /\ GoodCall(calls[s])
  BY DEF TemplatesInv, CallsGood
<1>3. calls'[s] = [calls[s] EXCEPT !.version = version, !.at = "reread"]
  BY <1>1, <1>2
<1>4. version \in Nat \ {0}
  <2>1. calls[s].id \in Ids
    BY <1>1, <1>2 DEF GoodCall, RefersToRows
  <2> QED BY <2>1, RowResult DEF TemplatesInv, RowsGood
<1>5. Ids' = Ids
  BY <1>1, RowsStay
<1> HIDE DEF version
<1>6. GoodCall(calls[s])'
  BY <1>1, <1>2, <1>3, <1>4, <1>5
     DEF GoodCall, AtItsStep, RefersToRows, Seeded, PolicyCall, Sound
<1>7. calls'[s].at # "create" /\ DOMAIN calls' = Slots
      /\ \A r \in Slots \ {s} : calls'[r] = calls[r]
  BY <1>1, <1>2, <1>3 DEF GoodCall, PolicyCall
<1> QED BY <1>1, <1>6, <1>7, RequestMoves

LEMMA ReadActiveKeeps ==
    ASSUME TemplatesInv, NEW s \in Slots, ReadActive(s) PROVE TemplatesInv'
<1> DEFINE id == Newest(ActiveOf(calls[s].type))
           version == rows[id].version + 1
<1>1. /\ calls' = IF id = 0 THEN [calls EXCEPT ![s].at = "seed"]
                  ELSE [calls EXCEPT ![s].id = id, ![s].at = "reread",
                                     ![s].version = version]
      /\ UNCHANGED <<rows, overview, editors, overlapped, listed>>
      /\ calls[s].kind = "reset" /\ calls[s].at = "active"
  BY DEF ReadActive
<1>2. DOMAIN calls = Slots /\ GoodCall(calls[s]) /\ rows \in Seq(Template)
  BY DEF TemplatesInv, CallsGood, RowsGood
<1>3. id = 0 \/ id \in Ids
  BY <1>2, NewestResult DEF ActiveOf, OfType
<1>4. id \in Ids => id \in Nat /\ version \in Nat \ {0}
  BY <1>2, RowResult
<1>5. Ids' = Ids
  BY <1>1, RowsStay
<1> HIDE DEF version, id
<1>6. CASE id = 0
  <2>1. calls'[s] = [calls[s] EXCEPT !.at = "seed"]
    BY <1>1, <1>2, <1>6
  <2>2. GoodCall(calls[s])'
    BY <1>1, <1>2, <1>5, <2>1
       DEF GoodCall, AtItsStep, RefersToRows, Seeded, PolicyCall, Sound
  <2>3. calls'[s].at # "create" /\ DOMAIN calls' = Slots
        /\ \A r \in Slots \ {s} : calls'[r] = calls[r]
    BY <1>1, <1>2, <1>6, <2>1 DEF GoodCall, PolicyCall
  <2> QED BY <1>1, <2>2, <2>3, RequestMoves
<1>7. CASE id # 0
  <2>1. calls'[s] = [calls[s] EXCEPT !.id = id, !.at = "reread", !.version = version]
    BY <1>1, <1>2, <1>7
  <2>2. GoodCall(calls[s])'
    BY <1>1, <1>2, <1>3, <1>4, <1>5, <1>7, <2>1
       DEF GoodCall, AtItsStep, RefersToRows, Seeded, PolicyCall, Sound
  <2>3. calls'[s].at # "create" /\ DOMAIN calls' = Slots
        /\ \A r \in Slots \ {s} : calls'[r] = calls[r]
    BY <1>1, <1>2, <1>7, <2>1 DEF GoodCall, PolicyCall
  <2> QED BY <1>1, <2>2, <2>3, RequestMoves
<1> QED BY <1>6, <1>7

LEMMA ReadAgainKeeps ==
    ASSUME TemplatesInv, NEW s \in Slots, ReadAgain(s) PROVE TemplatesInv'
<1> DEFINE kept == Kept(calls[s])
<1>1. /\ calls' = [calls EXCEPT ![s].active = kept, ![s].at = "write"]
      /\ UNCHANGED <<rows, overview, editors, overlapped, listed>>
      /\ calls[s].at = "reread"
  BY DEF ReadAgain
<1>2. DOMAIN calls = Slots /\ GoodCall(calls[s]) /\ rows \in Seq(Template)
  BY DEF TemplatesInv, CallsGood, RowsGood
<1>3. calls'[s] = [calls[s] EXCEPT !.active = kept, !.at = "write"]
  BY <1>1, <1>2
<1>4. calls[s].id \in Ids /\ calls[s].active \in BOOLEAN
  BY <1>1, <1>2 DEF GoodCall, RefersToRows, AtItsStep, PolicyCall
<1>5. kept \in BOOLEAN
  BY <1>2, <1>4, RowResult DEF Kept
<1>6. Ids' = Ids
  BY <1>1, RowsStay
<1> HIDE DEF kept
<1>7. GoodCall(calls[s])'
  BY <1>1, <1>2, <1>3, <1>5, <1>6
     DEF GoodCall, AtItsStep, RefersToRows, Seeded, PolicyCall, Sound
<1>8. calls'[s].at # "create" /\ DOMAIN calls' = Slots
      /\ \A r \in Slots \ {s} : calls'[r] = calls[r]
  BY <1>1, <1>2, <1>3 DEF GoodCall, PolicyCall
<1> QED BY <1>1, <1>7, <1>8, RequestMoves

LEMMA ReadAllKeeps ==
    ASSUME TemplatesInv, NEW s \in Slots, ReadAll(s) PROVE TemplatesInv'
<1> DEFINE id == Newest(OfType(calls[s].type))
           content == rows[id].content
           active == rows[id].active
<1>1. /\ calls' = [calls EXCEPT ![s].id = id, ![s].content = content,
                                ![s].active = active, ![s].at = "reply"]
      /\ UNCHANGED <<rows, overview, editors, overlapped, listed>>
      /\ calls[s].at = "all"
  BY DEF ReadAll
<1>2. DOMAIN calls = Slots /\ GoodCall(calls[s]) /\ rows \in Seq(Template)
  BY DEF TemplatesInv, CallsGood, RowsGood
<1>3. id \in Ids
  <2>1. calls[s].kind = "reset" /\ calls[s].type \in TypeSet /\ AllThere
    BY <1>1, <1>2 DEF GoodCall, AtItsStep, RefersToRows, Seeded
  <2>2. OfType(calls[s].type) # {} /\ OfType(calls[s].type) \subseteq Ids
    BY <2>1 DEF AllThere, OfType
  <2> QED BY <1>2, <2>2, NewestResult
<1>4. id \in Nat /\ Sound(content) /\ active \in BOOLEAN
  BY <1>2, <1>3, RowResult DEF TemplatesInv, RowsGood
<1>5. Ids' = Ids
  BY <1>1, RowsStay
<1> HIDE DEF id, content, active
<1>6. calls'[s] = [calls[s] EXCEPT !.id = id, !.content = content, !.active = active,
                                   !.at = "reply"]
  BY <1>1, <1>2
<1>7. GoodCall(calls[s])'
  BY <1>1, <1>2, <1>3, <1>4, <1>5, <1>6
     DEF GoodCall, AtItsStep, RefersToRows, Seeded, PolicyCall, Sound
<1>8. calls'[s].at # "create" /\ DOMAIN calls' = Slots
      /\ \A r \in Slots \ {s} : calls'[r] = calls[r]
  BY <1>1, <1>2, <1>6 DEF GoodCall, PolicyCall
<1> QED BY <1>1, <1>7, <1>8, RequestMoves

LEMMA QueryFailsKeeps ==
    ASSUME TemplatesInv, NEW s \in Slots, QueryFails(s) PROVE TemplatesInv'
<1>1. /\ calls' = [calls EXCEPT ![s].at = "failed"]
      /\ UNCHANGED <<rows, overview, editors, overlapped, listed>>
  BY DEF QueryFails, GoesTo
<1>2. DOMAIN calls = Slots /\ GoodCall(calls[s])
  BY DEF TemplatesInv, CallsGood
<1>3. calls'[s] = [calls[s] EXCEPT !.at = "failed"]
  BY <1>1, <1>2
<1>4. Ids' = Ids
  BY <1>1, RowsStay
<1>5. GoodCall(calls[s])'
  BY <1>1, <1>2, <1>3, <1>4 DEF GoodCall, AtItsStep, RefersToRows, Seeded, PolicyCall, Sound
<1>6. calls'[s].at # "create" /\ DOMAIN calls' = Slots
      /\ \A r \in Slots \ {s} : calls'[r] = calls[r]
  BY <1>1, <1>2, <1>3 DEF GoodCall, PolicyCall
<1> QED BY <1>1, <1>5, <1>6, RequestMoves

LEMMA ListFailsKeeps ==
    ASSUME TemplatesInv, NEW s \in Slots, ListFails(s) PROVE TemplatesInv'
<1>1. /\ calls' = [calls EXCEPT ![s] = NoRequest]
      /\ UNCHANGED <<rows, overview, editors, overlapped, listed>>
  BY DEF ListFails
<1>2. DOMAIN calls = Slots
  BY DEF TemplatesInv, CallsGood
<1>3. calls'[s] = NoRequest /\ NoRequest.at # "create"
  BY <1>1, <1>2, NewRequestIsGood
<1>4. GoodCall(calls[s])'
  <2>1. Grows /\ EditorsStay
    BY <1>1, RowsStay DEF EditorsStay
  <2>2. GoodCall(NoRequest)'
    BY <2>1, NoRequestIsGood, GoodCallStays
  <2> QED BY <1>3, <2>2
<1> QED BY <1>1, <1>2, <1>3, <1>4, RequestMoves

-----------------------------------------------------------------------------
(* An editor changes.                                                      *)

LEMMA EditorMoves ==
    ASSUME TemplatesInv, UNCHANGED <<rows, overview, overlapped, listed>>,
           NEW e \in Editors, DOMAIN editors' = Editors,
           \A d \in Editors \ {e} : editors'[d] = editors[d],
           GoodEditor(editors'[e]), CallsGood',
           \A s \in Slots : calls'[s].at = "create" =>
               calls[s].at = "create" /\ calls'[s].missing = calls[s].missing
    PROVE  TemplatesInv'
<1>1. Grows /\ Ids' = Ids /\ \A t : OfType(t)' = OfType(t)
  BY RowsStay
<1>2. RowsGood'
  BY RowsGoodStay DEF TemplatesInv
<1>3. EditorsGood'
  <2> SUFFICES ASSUME NEW d \in Editors PROVE GoodEditor(editors[d])'
    BY DEF EditorsGood
  <2>1. GoodEditor(editors'[d])
    BY DEF TemplatesInv, EditorsGood
  <2> QED BY <1>1, <2>1 DEF GoodEditor, Sound
<1>4. Single'
  BY <1>1, SingleStays DEF TemplatesInv
<1>5. (listed => AllThere)'
  BY <1>1, ListedStays DEF TemplatesInv
<1> QED BY <1>2, <1>3, <1>4, <1>5 DEF TemplatesInv

\* The requests stay what they are when the editors they came from do.
LEMMA CallsStay ==
    ASSUME CallsGood, calls' = calls, Grows, EditorsStay PROVE CallsGood'
<1> SUFFICES ASSUME NEW r \in Slots PROVE GoodCall(calls[r])'
  BY DEF CallsGood
<1>1. GoodCall(calls[r])
  BY DEF CallsGood
<1> QED BY <1>1, GoodCallStays

LEMMA OpenEditorKeeps ==
    ASSUME TemplatesInv, NEW e \in Editors, NEW t \in TypeSet, OpenEditor(e, t)
    PROVE  TemplatesInv'
<1> DEFINE id == overview[t]
           content == rows[id].content
           active == rows[id].active
<1>1. /\ editors' = [editors EXCEPT ![e] = [id |-> id, content |-> content,
                        active |-> active, dirty |-> FALSE, saving |-> FALSE]]
      /\ UNCHANGED <<rows, overview, calls, overlapped, listed>>
      /\ id # 0 /\ editors[e] = Closed
  BY DEF OpenEditor
<1>2. DOMAIN editors = Editors /\ rows \in Seq(Template) /\ CallsGood
  BY DEF TemplatesInv, EditorsGood, RowsGood
<1>3. id \in Ids
  BY <1>1 DEF TemplatesInv, RowsGood, Ids
<1>4. id \in Nat /\ Sound(content) /\ active \in BOOLEAN
  BY <1>2, <1>3, RowResult DEF TemplatesInv, RowsGood
<1> HIDE DEF id, content, active
<1>5. GoodEditor(editors'[e]) /\ editors'[e].id = id
  BY <1>1, <1>2, <1>3, <1>4 DEF GoodEditor, Editor, Sound
<1>6. CallsGood'
  <2>1. EditorsStay
    BY <1>1, <1>2, <1>3, <1>5, RowsStay DEF EditorsStay
  <2> QED BY <1>1, <1>2, <2>1, RowsStay, CallsStay
<1>7. /\ DOMAIN editors' = Editors
      /\ \A d \in Editors \ {e} : editors'[d] = editors[d]
  BY <1>1, <1>2
<1> QED BY <1>1, <1>5, <1>6, <1>7, EditorMoves

\* What the requests of an editor that is closed reply, it does not see.
LEMMA CloseEditorKeeps ==
    ASSUME TemplatesInv, NEW e \in Editors, CloseEditor(e) PROVE TemplatesInv'
<1>1. /\ editors' = [editors EXCEPT ![e] = Closed]
      /\ calls' = [s \in Slots |-> IF calls[s].who = e
                                   THEN [calls[s] EXCEPT !.who = NoEditor] ELSE calls[s]]
      /\ UNCHANGED <<rows, overview, overlapped, listed>>
  BY DEF CloseEditor
<1>2. DOMAIN editors = Editors /\ CallsGood
  BY DEF TemplatesInv, EditorsGood
<1>3. /\ GoodEditor(editors'[e]) /\ DOMAIN editors' = Editors
      /\ \A d \in Editors \ {e} : editors'[d] = editors[d]
  BY <1>1, <1>2, ClosedIsGood
<1>4. Grows /\ Ids' = Ids /\ \A t : OfType(t)' = OfType(t)
  BY <1>1, RowsStay
<1>5. ASSUME NEW s \in Slots
      PROVE  /\ GoodCall(calls[s])'
             /\ calls'[s].at = calls[s].at /\ calls'[s].missing = calls[s].missing
  <2>1. GoodCall(calls[s])
    BY <1>2 DEF CallsGood
  <2>2. AllThere' = AllThere
    BY <1>4 DEF AllThere
  <2>3. CASE calls[s].who = e
    <3>1. calls'[s] = [calls[s] EXCEPT !.who = NoEditor]
      BY <1>1, <2>3
    <3> QED BY <1>1, <1>4, <2>1, <2>2, <3>1
            DEF GoodCall, AtItsStep, RefersToRows, Seeded, PolicyCall, Sound
  <2>4. CASE calls[s].who # e
    <3>1. calls'[s] = calls[s]
      BY <1>1, <2>4
    <3> QED BY <1>1, <1>2, <1>4, <2>1, <2>2, <2>4, <3>1
            DEF GoodCall, AtItsStep, RefersToRows, Seeded, PolicyCall, Sound
  <2> QED BY <2>3, <2>4
<1>6. CallsGood'
  BY <1>1, <1>5 DEF CallsGood
<1> QED BY <1>1, <1>3, <1>5, <1>6, EditorMoves

\* No change that an editor offers leaves a rule without its question.
LEMMA EditsAreSound ==
    ASSUME NEW c, Sound(c), NEW d \in Edits(c) PROVE Sound(d)
  BY DEF Sound, Edits, WithQuestion, WithoutQuestion, WithTask, WithoutTasks, Content

LEMMA MutateKeeps ==
    ASSUME TemplatesInv, NEW e \in Editors, Mutate(e) PROVE TemplatesInv'
<1>1. /\ editors[e] # Closed
      /\ UNCHANGED <<rows, overview, calls, overlapped, listed>>
  BY DEF Mutate
<1>2. DOMAIN editors = Editors /\ GoodEditor(editors[e]) /\ CallsGood
  BY DEF TemplatesInv, EditorsGood
<1>3. /\ GoodEditor(editors'[e]) /\ editors'[e].id = editors[e].id
      /\ DOMAIN editors' = Editors
      /\ \A d \in Editors \ {e} : editors'[d] = editors[d]
  <2>1. ASSUME NEW c \in Edits(editors[e].content),
               editors' = [editors EXCEPT ![e].content = c, ![e].dirty = TRUE]
        PROVE  /\ GoodEditor(editors'[e]) /\ editors'[e].id = editors[e].id
               /\ DOMAIN editors' = Editors
               /\ \A d \in Editors \ {e} : editors'[d] = editors[d]
    <3>1. Sound(c)
      BY <1>2, EditsAreSound DEF GoodEditor
    <3>2. editors'[e] = [editors[e] EXCEPT !.content = c, !.dirty = TRUE]
      BY <1>2, <2>1
    <3> QED BY <1>1, <1>2, <2>1, <3>1, <3>2 DEF GoodEditor, Editor, Sound
  <2>2. CASE editors' = [editors EXCEPT ![e].active = ~@, ![e].dirty = TRUE]
    <3>1. editors'[e] = [editors[e] EXCEPT !.active = ~@, !.dirty = TRUE]
      BY <1>2, <2>2
    <3> QED BY <1>1, <1>2, <2>2, <3>1 DEF GoodEditor, Editor, Sound
  <2> QED BY <2>1, <2>2 DEF Mutate
<1>4. CallsGood'
  <2>1. EditorsStay
    BY <1>1, <1>3, RowsStay DEF EditorsStay
  <2> QED BY <1>1, <1>2, <2>1, RowsStay, CallsStay
<1> QED BY <1>1, <1>3, <1>4, EditorMoves

LEMMA HandleSaveKeeps ==
    ASSUME TemplatesInv, NEW e \in Editors, NEW s \in Slots, HandleSave(e, s)
    PROVE  TemplatesInv'
<1> DEFINE new == [NoRequest EXCEPT !.kind = "update", !.at = "read", !.who = e,
                                    !.id = editors[e].id, !.active = editors[e].active,
                                    !.content = editors[e].content]
<1>1. /\ calls' = [calls EXCEPT ![s] = new] /\ editors[e] # Closed
      /\ editors' = [editors EXCEPT ![e].saving = TRUE]
      /\ UNCHANGED <<rows, overview, overlapped, listed>>
  BY DEF HandleSave, Request
<1>2. /\ DOMAIN editors = Editors /\ GoodEditor(editors[e])
      /\ CallsGood /\ DOMAIN calls = Slots
  BY DEF TemplatesInv, EditorsGood, CallsGood
<1>3. calls'[s] = new
  BY <1>1, <1>2
<1>4. /\ editors[e].id \in Ids /\ editors[e].id \in Nat /\ Sound(editors[e].content)
      /\ editors[e].active \in BOOLEAN
  BY <1>1, <1>2 DEF GoodEditor, Editor
<1>5. /\ new \in PolicyCall /\ new.found = <<>> /\ new.who = e
      /\ new.content = editors[e].content /\ new.id = editors[e].id
      /\ new.kind = "update" /\ new.at = "read"
  BY <1>4, NewRequestIsGood DEF PolicyCall, Sound
<1> HIDE DEF new
<1>6. /\ GoodEditor(editors'[e]) /\ editors'[e].id = editors[e].id
      /\ DOMAIN editors' = Editors
      /\ \A d \in Editors \ {e} : editors'[d] = editors[d]
  <2>1. editors'[e] = [editors[e] EXCEPT !.saving = TRUE]
    BY <1>1, <1>2
  <2> QED BY <1>1, <1>2, <1>4, <2>1 DEF GoodEditor, Editor
<1>7. Grows /\ Ids' = Ids /\ EditorsStay
  BY <1>1, <1>6, RowsStay DEF EditorsStay
<1>8. GoodCall(calls[s])'
  <2>1. calls'[s] \in PolicyCall /\ AtItsStep(calls'[s])
    BY <1>3, <1>5 DEF AtItsStep
  <2>2. Sound(calls[s].content)'
    BY <1>3, <1>4, <1>5 DEF Sound
  <2>3. RefersToRows(calls[s])'
    BY <1>3, <1>4, <1>5, <1>6, <1>7, NewRequestIsGood DEF RefersToRows
  <2> QED BY <1>3, <1>5, <2>1, <2>2, <2>3 DEF GoodCall, Seeded, AtItsStep
<1>9. DOMAIN calls' = Slots /\ \A r \in Slots \ {s} : calls'[r] = calls[r]
  BY <1>1, <1>2
<1>10. CallsGood'
  BY <1>2, <1>7, <1>8, <1>9, OneCallMoves
<1>11. \A r \in Slots : calls'[r].at = "create" =>
           calls[r].at = "create" /\ calls'[r].missing = calls[r].missing
  BY <1>3, <1>5, <1>9
<1> QED BY <1>1, <1>6, <1>10, <1>11, EditorMoves

\* Whatever the reply puts into the editor was stored, or is to be.
LEMMA EditorReplyKeeps ==
    ASSUME TemplatesInv, NEW s \in Slots, EditorReply(s) PROVE TemplatesInv'
<1> DEFINE e == calls[s].who
<1>1. /\ calls' = [calls EXCEPT ![s] = NoRequest]
      /\ UNCHANGED <<rows, overview, overlapped, listed>>
      /\ calls[s].kind \in {"update", "reset"} /\ calls[s].at \in {"reply", "failed"}
  BY DEF EditorReply
<1>2. /\ DOMAIN calls = Slots /\ CallsGood /\ GoodCall(calls[s])
      /\ DOMAIN editors = Editors
  BY DEF TemplatesInv, EditorsGood, CallsGood
<1>3. /\ DOMAIN calls' = Slots /\ \A r \in Slots \ {s} : calls'[r] = calls[r]
      /\ calls'[s] = NoRequest /\ NoRequest.at # "create"
  BY <1>1, <1>2, NewRequestIsGood
<1>4. \A r \in Slots : calls'[r].at = "create" =>
          calls[r].at = "create" /\ calls'[r].missing = calls[r].missing
  BY <1>3
<1>5. ASSUME EditorsStay PROVE CallsGood'
  <2>1. Grows
    BY <1>1, RowsStay
  <2>2. GoodCall(NoRequest)'
    BY <1>5, <2>1, NoRequestIsGood, GoodCallStays
  <2> QED BY <1>2, <1>3, <1>5, <2>1, <2>2, OneCallMoves
<1>6. CASE e = NoEditor
  <2>1. editors' = editors
    BY <1>6 DEF EditorReply
  <2>2. EditorsStay
    BY <1>1, <2>1, RowsStay DEF EditorsStay
  <2>3. GoodCall(calls[s])'
    BY <1>2, <1>3, <1>5, <2>2 DEF CallsGood
  <2>4. UNCHANGED <<rows, overview, editors, overlapped, listed>>
    BY <1>1, <2>1
  <2>5. calls'[s].at # "create"
    BY <1>3
  <2> QED BY <1>3, <2>3, <2>4, <2>5, RequestMoves
<1>7. CASE e # NoEditor
  <2>1. e \in Editors /\ editors[e].id \in Ids /\ GoodEditor(editors[e])
    BY <1>2, <1>7 DEF GoodCall, PolicyCall, RefersToRows, TemplatesInv, EditorsGood
  <2>2. editors[e] \in Editor /\ Sound(editors[e].content)
    BY <2>1 DEF GoodEditor
  <2>3. GoodEditor(editors'[e]) /\ editors'[e].id \in Ids
    <3>1. CASE calls[s].at = "failed"
      <4>1. editors'[e] = [editors[e] EXCEPT !.saving = @ /\ calls[s].kind # "update"]
        BY <1>2, <1>7, <2>1, <3>1 DEF EditorReply
      <4> QED BY <2>1, <2>2, <4>1 DEF GoodEditor, Editor
    <3>2. CASE calls[s].at = "reply"
      <4>1. editors'[e] = [[editors[e] EXCEPT !.id = calls[s].id,
                               !.content = calls[s].content, !.active = calls[s].active,
                               !.dirty = FALSE]
                              EXCEPT !.saving = @ /\ calls[s].kind # "update"]
        BY <1>2, <1>7, <2>1, <3>2 DEF EditorReply
      <4>2. /\ calls[s].id \in Ids /\ calls[s].id \in Nat /\ Sound(calls[s].content)
            /\ calls[s].active \in BOOLEAN /\ calls[s].content \in Content
        BY <1>1, <1>2, <3>2 DEF GoodCall, PolicyCall, RefersToRows
      <4> QED BY <2>2, <4>1, <4>2 DEF GoodEditor, Editor
    <3> QED BY <1>1, <3>1, <3>2
  <2>4. /\ DOMAIN editors' = Editors
        /\ \A d \in Editors \ {e} : editors'[d] = editors[d]
    BY <1>2, <1>7, <2>1 DEF EditorReply
  <2>5. EditorsStay
    BY <1>1, <2>3, <2>4, RowsStay DEF EditorsStay
  <2> HIDE DEF e
  <2>6. CallsGood'
    BY <1>5, <2>5
  <2> QED BY <1>1, <1>4, <2>1, <2>3, <2>4, <2>6, EditorMoves
<1> QED BY <1>6, <1>7

-----------------------------------------------------------------------------
(* The rows change, or are listed.                                         *)

LEMMA ListReplyKeeps ==
    ASSUME TemplatesInv, NEW s \in Slots, ListReply(s) PROVE TemplatesInv'
<1>1. /\ calls' = [calls EXCEPT ![s] = NoRequest]
      /\ UNCHANGED <<rows, editors, overlapped>>
      /\ overview' = [t \in TypeSet |-> Shown(calls[s].found, t)]
      /\ calls[s].kind = "list" /\ calls[s].at = "reply"
  BY DEF ListReply
<1>2. /\ DOMAIN calls = Slots /\ CallsGood /\ GoodCall(calls[s])
  BY DEF TemplatesInv, CallsGood
<1>3. /\ DOMAIN calls' = Slots /\ \A r \in Slots \ {s} : calls'[r] = calls[r]
      /\ calls'[s] = NoRequest /\ NoRequest.at # "create"
  BY <1>1, <1>2, NewRequestIsGood
<1>4. Grows /\ Ids' = Ids /\ (\A t : OfType(t)' = OfType(t)) /\ EditorsStay
  BY <1>1, RowsStay DEF EditorsStay
<1>5. RowsGood'
  <2>1. /\ calls[s].found \in Seq(Nat)
        /\ \A j \in DOMAIN calls[s].found : calls[s].found[j] \in Ids
    BY <1>2 DEF GoodCall, PolicyCall, RefersToRows
  <2>2. \A t : Shown(calls[s].found, t) \in 0..Len(rows)
    BY <2>1, ShownResult DEF TemplatesInv, RowsGood
  <2> QED BY <1>1, <1>4, <2>2 DEF TemplatesInv, RowsGood, Sound
<1>6. EditorsGood'
  BY <1>1, <1>4 DEF TemplatesInv, EditorsGood, GoodEditor, Sound
<1>7. CallsGood'
  <2>1. GoodCall(NoRequest)'
    BY <1>4, NoRequestIsGood, GoodCallStays
  <2> QED BY <1>2, <1>3, <1>4, <2>1, OneCallMoves
<1>8. Single'
  <2>1. \A r \in Slots : calls'[r].at = "create" =>
            calls[r].at = "create" /\ calls'[r].missing = calls[r].missing
    BY <1>3
  <2> QED BY <1>1, <1>4, <2>1, SingleStays DEF TemplatesInv
<1>9. AllThere'
  BY <1>1, <1>2, <1>4 DEF GoodCall, Seeded, AllThere
<1> QED BY <1>5, <1>6, <1>7, <1>8, <1>9 DEF TemplatesInv

LEMMA WriteKeeps ==
    ASSUME TemplatesInv, NEW s \in Slots, Write(s) PROVE TemplatesInv'
<1> DEFINE id == calls[s].id
           new == [rows[id] EXCEPT !.active = calls[s].active,
                       !.version = calls[s].version, !.content = calls[s].content]
<1>1. /\ calls[s].at = "write" /\ rows' = [rows EXCEPT ![id] = new]
      /\ calls' = [calls EXCEPT ![s].at = "reply"]
      /\ UNCHANGED <<overview, editors, overlapped, listed>>
  BY DEF Write, GoesTo
<1>2. /\ DOMAIN calls = Slots /\ CallsGood /\ GoodCall(calls[s])
      /\ RowsGood /\ rows \in Seq(Template)
  BY DEF TemplatesInv, CallsGood, RowsGood
<1>3. /\ id \in Ids /\ Sound(calls[s].content) /\ calls[s].content \in Content
      /\ calls[s].active \in BOOLEAN /\ calls[s].version \in Nat \ {0}
      /\ calls[s].kind \in {"update", "reset"}
  BY <1>1, <1>2 DEF GoodCall, RefersToRows, AtItsStep, PolicyCall
<1>4. new \in Template /\ new.type = rows[id].type /\ new.content = calls[s].content
  <2>1. rows[id] \in Template
    BY <1>2, <1>3, RowResult
  <2> QED BY <1>3, <2>1 DEF Template
<1> HIDE DEF new
<1>5. rows' \in Seq(Template) /\ Len(rows') = Len(rows) /\ rows'[id] = new
      /\ \A i \in Ids : i # id => rows'[i] = rows[i]
  BY <1>1, <1>2, <1>3, <1>4 DEF Ids
<1>6. Ids' = Ids
  BY <1>5 DEF Ids
<1>7. \A i \in Ids : rows'[i].type = rows[i].type
  BY <1>4, <1>5
<1>8. Grows /\ EditorsStay /\ \A t : OfType(t)' = OfType(t)
  BY <1>1, <1>6, <1>7 DEF Grows, EditorsStay, OfType
<1>9. calls'[s] = [calls[s] EXCEPT !.at = "reply"]
  BY <1>1, <1>2
<1>10. /\ DOMAIN calls' = Slots /\ (\A r \in Slots \ {s} : calls'[r] = calls[r])
       /\ calls'[s].at # "create"
  BY <1>1, <1>2, <1>9 DEF GoodCall, PolicyCall
<1>11. RowsGood'
  <2>1. \A i \in Ids : Sound(rows'[i].content)
    BY <1>2, <1>3, <1>4, <1>5 DEF RowsGood
  <2> QED BY <1>1, <1>2, <1>5, <1>6, <2>1 DEF RowsGood, Sound
<1>12. EditorsGood'
  BY <1>1, <1>6 DEF TemplatesInv, EditorsGood, GoodEditor, Sound
<1>13. GoodCall(calls[s])'
  <2>1. calls'[s] \in PolicyCall /\ AtItsStep(calls'[s]) /\ Sound(calls[s].content)'
    BY <1>2, <1>9 DEF GoodCall, PolicyCall, AtItsStep, Sound
  <2>2. RefersToRows(calls[s])'
    BY <1>1, <1>2, <1>3, <1>6, <1>9 DEF GoodCall, PolicyCall, RefersToRows
  <2>3. Seeded(calls[s])'
    BY <1>2, <1>3, <1>9 DEF GoodCall, PolicyCall, Seeded
  <2> QED BY <1>9, <2>1, <2>2, <2>3 DEF GoodCall
<1>14. CallsGood'
  BY <1>2, <1>8, <1>10, <1>13, OneCallMoves
<1>15. Single'
  <2>1. \A r \in Slots : calls'[r].at = "create" =>
            calls[r].at = "create" /\ calls'[r].missing = calls[r].missing
    BY <1>10
  <2> QED BY <1>1, <1>5, <1>6, <1>8, <2>1, SingleStays DEF TemplatesInv
<1>16. (listed => AllThere)'
  BY <1>1, <1>8, ListedStays DEF TemplatesInv
<1> QED BY <1>11, <1>12, <1>14, <1>15, <1>16 DEF TemplatesInv

\* What a seeding finds missing is what no row has, and nobody else creates it.
LEMMA ReadExistingKeeps ==
    ASSUME TemplatesInv, NEW s \in Slots, ReadExisting(s) PROVE TemplatesInv'
<1> DEFINE found == IF Missing = {} THEN NewestFirst ELSE <<>>
           at == IF Missing = {} THEN AfterSeeding(s) ELSE "create"
<1>1. /\ calls[s].at = "seed"
      /\ calls' = [calls EXCEPT ![s].missing = Missing, ![s].found = found, ![s].at = at]
      /\ overlapped' = (overlapped \/ \E r \in Slots \ {s} : calls[r].at = "create")
      /\ UNCHANGED <<rows, overview, editors, listed>>
  BY DEF ReadExisting
<1>2. /\ DOMAIN calls = Slots /\ CallsGood /\ GoodCall(calls[s])
      /\ rows \in Seq(Template)
  BY DEF TemplatesInv, CallsGood, RowsGood
<1>3. calls[s].kind \in {"list", "reset"}
  BY <1>1, <1>2 DEF GoodCall, AtItsStep
<1>4. Missing \in SUBSET TypeSet /\ \A t \in TypeSet : t \in Missing <=> OfType(t) = {}
  BY DEF Missing
<1>5. found \in Seq(Nat) /\ \A j \in DOMAIN found : found[j] \in Ids
  <2>1. NewestFirst \in Seq(Nat) /\ \A j \in DOMAIN NewestFirst : NewestFirst[j] \in Ids
    BY <1>2 DEF NewestFirst, Ids
  <2>2. <<>> \in Seq(Nat) /\ DOMAIN <<>> = {}
    OBVIOUS
  <2> QED BY <2>1, <2>2
<1>6. /\ at = "create" <=> Missing # {}
      /\ at = "create" \/ (at = "reply" /\ calls[s].kind = "list")
            \/ (at = "all" /\ calls[s].kind = "reset")
  BY <1>3 DEF AfterSeeding
<1> HIDE DEF found, at
<1>7. calls'[s] = [calls[s] EXCEPT !.missing = Missing, !.found = found, !.at = at]
  BY <1>1, <1>2
<1>8. /\ calls'[s] \in PolicyCall /\ calls'[s].at = at /\ calls'[s].missing = Missing
      /\ calls'[s].found = found /\ calls'[s].kind = calls[s].kind
      /\ calls'[s].content = calls[s].content /\ calls'[s].who = calls[s].who
      /\ calls'[s].type = calls[s].type
  BY <1>2, <1>4, <1>5, <1>6, <1>7 DEF GoodCall, PolicyCall
<1>9. /\ DOMAIN calls' = Slots /\ \A r \in Slots \ {s} : calls'[r] = calls[r]
  BY <1>1, <1>2
<1>10. Grows /\ Ids' = Ids /\ (\A t : OfType(t)' = OfType(t)) /\ EditorsStay
  BY <1>1, RowsStay DEF EditorsStay
<1>11. GoodCall(calls[s])'
  <2>1. AtItsStep(calls'[s]) /\ Sound(calls[s].content)'
    BY <1>2, <1>6, <1>8, <1>3 DEF GoodCall, AtItsStep, Sound
  <2>2. RefersToRows(calls[s])'
    BY <1>1, <1>2, <1>3, <1>5, <1>6, <1>8, <1>10 DEF GoodCall, RefersToRows
  <2>3. Seeded(calls[s])'
    BY <1>4, <1>6, <1>8, <1>10 DEF Seeded, AllThere
  <2> QED BY <1>8, <2>1, <2>2, <2>3 DEF GoodCall
<1>12. CallsGood'
  BY <1>2, <1>9, <1>10, <1>11, OneCallMoves
<1>13. Single'
  <2> SUFFICES ASSUME ~overlapped' PROVE
           /\ \A i, j \in Ids : rows[i].type = rows[j].type => i = j
           /\ \A r \in Slots : calls'[r].at = "create" =>
                  \A t \in calls'[r].missing : OfType(t) = {}
           /\ \A r, q \in Slots :
                  calls'[r].at = "create" /\ calls'[q].at = "create" => r = q
    BY <1>1, <1>10 DEF Single
  <2>1. ~overlapped /\ \A r \in Slots \ {s} : calls[r].at # "create"
    BY <1>1
  <2>2. \A r \in Slots : calls'[r].at = "create" => r = s
    BY <1>9, <2>1
  <2>3. \A t \in calls'[s].missing : OfType(t) = {}
    BY <1>4, <1>8
  <2> QED BY <2>1, <2>2, <2>3 DEF TemplatesInv, Single
<1>14. RowsGood' /\ EditorsGood' /\ (listed => AllThere)'
  BY <1>1, <1>10, RowsGoodStay, ListedStays
     DEF TemplatesInv, EditorsGood, GoodEditor, Sound
<1> QED BY <1>12, <1>13, <1>14 DEF TemplatesInv

LEMMA CreateKeeps ==
    ASSUME TemplatesInv, NEW s \in Slots, Create(s) PROVE TemplatesInv'
<1> DEFINE type == FirstOf(calls[s].missing)
           rest == calls[s].missing \ {type}
           new == [type |-> type, active |-> TRUE, version |-> 1, content |-> Defaults]
           found == Append(calls[s].found, Len(rows) + 1)
           at == IF rest = {} THEN AfterSeeding(s) ELSE "create"
<1>1. /\ calls[s].at = "create" /\ rows' = Append(rows, new)
      /\ calls' = [calls EXCEPT ![s].missing = rest, ![s].found = found, ![s].at = at]
      /\ UNCHANGED <<overview, editors, overlapped, listed>>
  BY DEF Create
<1>2. /\ DOMAIN calls = Slots /\ CallsGood /\ GoodCall(calls[s])
      /\ rows \in Seq(Template) /\ RowsGood
  BY DEF TemplatesInv, CallsGood, RowsGood
<1>3. /\ calls[s].kind \in {"list", "reset"}
      /\ calls[s].missing \in SUBSET TypeSet /\ calls[s].missing # {}
      /\ \A t \in TypeSet \ calls[s].missing : OfType(t) # {}
      /\ calls[s].found \in Seq(Nat)
      /\ \A j \in DOMAIN calls[s].found : calls[s].found[j] \in Ids
  BY <1>1, <1>2 DEF GoodCall, AtItsStep, Seeded, PolicyCall, RefersToRows
<1>4. type \in calls[s].missing /\ type \in TypeSet
  BY <1>3, FirstOfResult
<1>5. new \in Template /\ new.type = type /\ new.content = Defaults
  BY <1>4, DefaultsSound DEF Template, Sound
<1>6. rest \in SUBSET TypeSet /\ rest \subseteq calls[s].missing /\ type \notin rest
  BY <1>3
<1>7. /\ at = "create" <=> rest # {}
      /\ at = "create" \/ (at = "reply" /\ calls[s].kind = "list")
            \/ (at = "all" /\ calls[s].kind = "reset")
  BY <1>3 DEF AfterSeeding
<1>8. calls[s].missing = rest \union {type}
  BY <1>4
<1> HIDE DEF type, rest, new, at
<1>9. /\ rows' \in Seq(Template) /\ Len(rows') = Len(rows) + 1 /\ Len(rows) \in Nat
      /\ rows'[Len(rows) + 1] = new /\ \A i \in Ids : rows'[i] = rows[i]
  BY <1>1, <1>2, <1>5 DEF Ids
<1>10. Ids' = Ids \union {Len(rows) + 1} /\ Len(rows) + 1 \notin Ids
  BY <1>9 DEF Ids
<1>11. Grows /\ EditorsStay
  BY <1>1, <1>9, <1>10 DEF Grows, EditorsStay
<1>12. \A t : t # type => OfType(t)' = OfType(t)
  BY <1>5, <1>9, <1>10 DEF OfType
<1>13. \A t : t = type => OfType(t)' = OfType(t) \union {Len(rows) + 1}
  BY <1>5, <1>9, <1>10 DEF OfType
<1>14. found \in Seq(Nat) /\ \A j \in DOMAIN found : found[j] \in Ids'
  BY <1>3, <1>9, <1>10
<1> HIDE DEF found
<1>15. calls'[s] = [calls[s] EXCEPT !.missing = rest, !.found = found, !.at = at]
  BY <1>1, <1>2
<1>16. /\ calls'[s] \in PolicyCall /\ calls'[s].at = at /\ calls'[s].missing = rest
       /\ calls'[s].found = found /\ calls'[s].kind = calls[s].kind
       /\ calls'[s].content = calls[s].content /\ calls'[s].who = calls[s].who
       /\ calls'[s].type = calls[s].type
  BY <1>2, <1>6, <1>7, <1>14, <1>15 DEF GoodCall, PolicyCall
<1>17. /\ DOMAIN calls' = Slots /\ \A r \in Slots \ {s} : calls'[r] = calls[r]
  BY <1>1, <1>2
<1>18. ASSUME NEW t \in TypeSet \ rest PROVE OfType(t)' # {}
  <2>1. CASE t = type
    BY <1>13, <2>1
  <2>2. CASE t # type
    BY <1>3, <1>8, <1>12, <2>2
  <2> QED BY <2>1, <2>2
<1>19. GoodCall(calls[s])'
  <2>1. AtItsStep(calls'[s]) /\ Sound(calls[s].content)'
    BY <1>2, <1>3, <1>7, <1>16 DEF GoodCall, AtItsStep, Sound
  <2>2. RefersToRows(calls[s])'
    BY <1>1, <1>2, <1>3, <1>7, <1>10, <1>14, <1>16 DEF GoodCall, RefersToRows
  <2>3. Seeded(calls[s])'
    BY <1>7, <1>16, <1>18 DEF Seeded, AllThere
  <2> QED BY <1>16, <2>1, <2>2, <2>3 DEF GoodCall
<1>20. CallsGood'
  BY <1>2, <1>11, <1>17, <1>19, OneCallMoves
<1>21. RowsGood'
  <2>1. \A i \in Ids' : Sound(rows'[i].content)
    BY <1>2, <1>5, <1>9, <1>10, DefaultsSound DEF RowsGood
  <2>2. overview' \in [TypeSet -> 0..Len(rows')]
    BY <1>1, <1>2, <1>9 DEF RowsGood
  <2> QED BY <1>9, <2>1, <2>2 DEF RowsGood, Sound
<1>22. EditorsGood'
  BY <1>1, <1>10 DEF TemplatesInv, EditorsGood, GoodEditor, Sound
<1>23. Single'
  <2> SUFFICES ASSUME ~overlapped PROVE
           /\ \A i, j \in Ids' : rows'[i].type = rows'[j].type => i = j
           /\ \A r \in Slots : calls'[r].at = "create" =>
                  \A t \in calls'[r].missing : OfType(t)' = {}
           /\ \A r, q \in Slots :
                  calls'[r].at = "create" /\ calls'[q].at = "create" => r = q
    BY <1>1 DEF Single
  <2>1. /\ \A i, j \in Ids : rows[i].type = rows[j].type => i = j
        /\ \A t \in calls[s].missing : OfType(t) = {}
        /\ \A r \in Slots : calls[r].at = "create" => r = s
    BY <1>1 DEF TemplatesInv, Single
  <2>2. \A i \in Ids : rows[i].type # type
    BY <1>4, <2>1 DEF OfType
  <2>3. \A i, j \in Ids' : rows'[i].type = rows'[j].type => i = j
    BY <1>5, <1>9, <1>10, <2>1, <2>2
  <2>4. \A r \in Slots : calls'[r].at = "create" => r = s
    BY <1>17, <2>1
  <2>5. \A t \in calls'[s].missing : OfType(t)' = {}
    BY <1>6, <1>12, <1>16, <2>1
  <2> QED BY <2>3, <2>4, <2>5
<1>24. (listed => AllThere)'
  BY <1>1, <1>11, ListedStays DEF TemplatesInv
<1> QED BY <1>20, <1>21, <1>22, <1>23, <1>24 DEF TemplatesInv

LEMMA TemplatesInit == PolicyInit => TemplatesInv
<1> SUFFICES ASSUME PolicyInit PROVE TemplatesInv
  OBVIOUS
<1>1. Ids = {} /\ rows \in Seq(Template) /\ Len(rows) = 0
  BY DEF PolicyInit, Ids
<1>2. RowsGood
  BY <1>1 DEF PolicyInit, RowsGood
<1>3. EditorsGood
  BY ClosedIsGood DEF PolicyInit, EditorsGood
<1>4. CallsGood
  BY NoRequestIsGood DEF PolicyInit, CallsGood
<1>5. Single
  BY <1>1, NewRequestIsGood DEF PolicyInit, Single
<1> QED BY <1>2, <1>3, <1>4, <1>5 DEF PolicyInit, TemplatesInv

LEMMA TemplatesStep == TemplatesInv /\ [PolicyNext]_policyVars => TemplatesInv'
<1> SUFFICES ASSUME TemplatesInv, [PolicyNext]_policyVars PROVE TemplatesInv'
  OBVIOUS
<1>1. CASE UNCHANGED policyVars
  <2>1. /\ rows' = rows /\ overview' = overview /\ editors' = editors /\ calls' = calls
        /\ overlapped' = overlapped /\ listed' = listed
    BY <1>1 DEF policyVars
  <2>2. Grows /\ Ids' = Ids /\ (\A t : OfType(t)' = OfType(t)) /\ EditorsStay
    BY <2>1, RowsStay DEF EditorsStay
  <2>3. RowsGood' /\ CallsGood' /\ (listed => AllThere)'
    BY <2>1, <2>2, RowsGoodStay, CallsStay, ListedStays DEF TemplatesInv
  <2>4. EditorsGood'
    BY <2>1, <2>2 DEF TemplatesInv, EditorsGood, GoodEditor, Sound
  <2>5. Single'
    BY <2>1, <2>2, SingleStays DEF TemplatesInv
  <2> QED BY <2>3, <2>4, <2>5 DEF TemplatesInv
<1>2. CASE PageStep
  BY <1>2, ListPoliciesKeeps, OpenEditorKeeps, CloseEditorKeeps, MutateKeeps,
     HandleSaveKeeps, HandleRestoreDefaultsKeeps DEF PageStep
<1>3. ASSUME NEW s \in Slots, Serves(s) PROVE TemplatesInv'
  BY <1>3, ReadExistingKeeps, CreateKeeps, ReadVersionKeeps, ReadActiveKeeps,
     ReadAgainKeeps, WriteKeeps, ReadAllKeeps, QueryFailsKeeps, ListReplyKeeps,
     EditorReplyKeeps, ListFailsKeeps DEF Serves
<1> QED BY <1>1, <1>2, <1>3 DEF PolicyNext

LEMMA TemplatesHold == PolicySpec => []TemplatesInv
  BY TemplatesInit, TemplatesStep, PTL DEF PolicySpec

\* For any types, questions, editors and requests: after a listing every type
\* has a template, and none has two unless one seeding read what was there
\* while another one was creating (seedDefaultPolicies).
THEOREM TemplatesAreOnePerType == PolicySpec => []OneTemplateOfEachType
<1>1. TemplatesInv => OneTemplateOfEachType
  <2> SUFFICES ASSUME TemplatesInv, NEW t \in TypeSet, ~overlapped
               PROVE  Cardinality(OfType(t)) <= 1
    BY DEF TemplatesInv, AllThere, OneTemplateOfEachType
  <2>1. \A i, j \in OfType(t) : i = j
    BY DEF TemplatesInv, Single, OfType
  <2>2. CASE OfType(t) = {}
    BY <2>2, FS_EmptySet
  <2>3. CASE OfType(t) # {}
    <3>1. PICK i : OfType(t) = {i}
      BY <2>1, <2>3
    <3> QED BY <3>1, FS_Singleton
  <2> QED BY <2>2, <2>3
<1> QED BY <1>1, TemplatesHold, PTL

\* And no order of edits, saves, resets and replies leaves a rule without its
\* question, in the table or in an editor (PolicyEditorPage.tsx).
THEOREM RulesAlwaysHaveQuestions == PolicySpec => []RulesHaveQuestions
<1>1. TemplatesInv => RulesHaveQuestions
  BY DEF TemplatesInv, RowsGood, EditorsGood, GoodEditor, Sound, RulesHaveQuestions
<1> QED BY <1>1, TemplatesHold, PTL
=============================================================================
