---------------------------- MODULE EndpointPool ----------------------------
(***************************************************************************)
(* The Azure OpenAI client: one list of endpoints and one current index    *)
(* for every call of the process.  A call refused with 429 rotates the     *)
(* index and tries again at once; when as many refusals in a row as there  *)
(* are endpoints came back it sleeps, and after MaxRetries sleeps it gives *)
(* up.  Calls overlap: one may rotate the index while another is waiting.  *)
(*                                                                         *)
(* A 429 arrives before the first piece of a stream: the SDK gives no      *)
(* status to an error in the middle of one.                                *)
(***************************************************************************)
EXTENDS Integers

CONSTANTS Callers,     \* calls that may be in progress at one time
          Clients,     \* number of endpoints configured
          MaxRetries   \* cycles after which a call gives up

ASSUME EndpointPoolAssumption ==
    Clients \in Nat \ {0} /\ MaxRetries \in Nat

VARIABLES currentIndex,   \* the endpoint the next request of any call goes to
          call            \* what each call is doing

poolVars == <<currentIndex, call>>

Endpoints == 0..(Clients - 1)

Steps == {"idle", "ready", "sending", "streaming", "sleeping",
          "exhausted", "failed"}

\* `sent', `tried' and `disturbed' are history: requests made, endpoints that
\* refused since the last sleep, and whether another call rotated since then.
Call == [at : Steps, endpoint : Endpoints, throttled : Nat, cycles : Nat,
         sent : Nat, tried : SUBSET Endpoints, disturbed : BOOLEAN]

NoCall == [at |-> "idle", endpoint |-> 0, throttled |-> 0, cycles |-> 0,
           sent |-> 0, tried |-> {}, disturbed |-> FALSE]

InCycle == {"ready", "sending"}
Ended == {"idle", "exhausted", "failed"}

PoolTypeOK == currentIndex \in Endpoints /\ call \in [Callers -> Call]

PoolInit == currentIndex = 0 /\ call = [c \in Callers |-> NoCall]
-----------------------------------------------------------------------------
(* Reading `client' just before the request, as every attempt does. *)
Sent(k) == [k EXCEPT !.at = "sending", !.endpoint = currentIndex, !.sent = @ + 1]

\* The caller starts createCompletion or createStreamingCompletion.
Begin(c) ==
    /\ call[c].at \in Ended
    /\ call' = [call EXCEPT ![c] = Sent(NoCall)]
    /\ UNCHANGED currentIndex

Resend(c) ==
    /\ call[c].at = "ready"
    /\ call' = [call EXCEPT ![c] = Sent(call[c])]
    /\ UNCHANGED currentIndex

Rotated == Clients > 1

RotateEndpoint(i) == IF Rotated THEN (i + 1) % Clients ELSE i

\* Mutation: the count of refusals in a row outlives the sleep.
Handle429Counting(k) ==
    LET refused == k.throttled + 1
        next == [k EXCEPT !.throttled = refused, !.tried = @ \cup {k.endpoint},
                            !.endpoint = 0]
    IN  IF Rotated /\ refused < Clients
        THEN [next EXCEPT !.at = "ready"]
        ELSE IF k.cycles + 1 > MaxRetries THEN [next EXCEPT !.at = "exhausted"]
        ELSE [next EXCEPT !.at = "sleeping", !.cycles = k.cycles + 1]

\* What a refusal makes of the call it is for; its endpoint is forgotten.
Handle429(k) ==
    LET refused == k.throttled + 1
        next == [k EXCEPT !.throttled = refused, !.tried = @ \cup {k.endpoint},
                            !.endpoint = 0]
    IN  IF Rotated /\ refused < Clients
        THEN [next EXCEPT !.at = "ready"]
        ELSE [next EXCEPT !.at = IF k.cycles + 1 > MaxRetries THEN "exhausted"
                                                              ELSE "sleeping",
                          !.throttled = 0, !.cycles = k.cycles + 1]

\* The index is everybody's: what the others are in the middle of is disturbed.
Refused(c) ==
    /\ call[c].at = "sending"
    /\ currentIndex' = RotateEndpoint(currentIndex)
    /\ call' = [d \in Callers |->
                  IF d = c THEN Handle429(call[c])
                  ELSE IF Rotated /\ call[d].at \in InCycle
                       THEN [call[d] EXCEPT !.disturbed = TRUE]
                       ELSE call[d]]

\* setTimeout fires; the attempt that follows begins another cycle.
Wake(c) ==
    /\ call[c].at = "sleeping"
    /\ call' = [call EXCEPT ![c] =
                  Sent([call[c] EXCEPT !.tried = {}, !.disturbed = FALSE])]
    /\ UNCHANGED currentIndex

\* What a call knew of its attempts goes with it.
Becomes(c, from, to) ==
    /\ call[c].at \in from
    /\ call' = [call EXCEPT ![c] = [NoCall EXCEPT !.at = to]]
    /\ UNCHANGED currentIndex

Answers(c) == Becomes(c, {"sending", "streaming"}, "idle")
Fails(c) == Becomes(c, {"sending", "streaming"}, "failed")
OpensStream(c) == Becomes(c, {"sending"}, "streaming")
Throws(c) == Becomes(c, {"exhausted", "failed"}, "idle")
-----------------------------------------------------------------------------
(* A call sleeps, or gives up, only after every endpoint refused it since   *)
(* it last slept, unless another call rotated the index in the meantime:    *)
(* the count of refusals stands for a set of endpoints.                     *)
EveryEndpointTried ==
    \A c \in Callers : call[c].at \in {"sleeping", "exhausted"} /\ ~call[c].disturbed
                          => call[c].tried = Endpoints

(* The same without the exception.  It does not hold: two calls refused by  *)
(* the same endpoint rotate the index twice, back to where they were.       *)
CyclesAreComplete ==
    \A c \in Callers : call[c].at \in {"sleeping", "exhausted"}
                          => call[c].tried = Endpoints

(* A completion costs at most MaxRetries + 1 requests per endpoint there is,*)
(* all told and however the calls disturb one another.  Of a call that is   *)
(* disturbed one endpoint may get more than its share of them.              *)
RequestsBounded ==
    \A c \in Callers : call[c].sent <= Clients * (MaxRetries + 1)
=============================================================================
