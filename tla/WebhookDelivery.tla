-------------------------- MODULE WebhookDelivery --------------------------
(***************************************************************************)
(* Outbound webhooks: src/lib/webhooks.ts and emitEvent of src/lib/        *)
(* events.ts, which queues a delivery for every enabled endpoint.          *)
(*                                                                         *)
(* A RUNNER is one call of deliverDueWebhooks (the admin route; it has no  *)
(* time limit and nothing keeps two from overlapping).  It reads what is   *)
(* due once and attempts it one by one, and nobody claims a delivery.      *)
(* Customers disable, enable and delete endpoints and replay deliveries    *)
(* meanwhile.  Every database call is a step, the POST is another.         *)
(*                                                                         *)
(* Endpoints that did not select an event's type are left out: all         *)
(* endpoints here want every event.  The clock is left to Ripen, which     *)
(* makes nextAttemptAt pass.                                               *)
(***************************************************************************)
EXTENDS Integers, FiniteSets

CONSTANTS
    Endpoints,
    Events,
    Runners,        \* calls of deliverDueWebhooks that may overlap
    NoDelivery,
    Undecryptable,  \* endpoints whose secret cannot be decrypted any more
    MaxAttempts,    \* MAX_ATTEMPTS
    DisableAfter,   \* AUTO_DISABLE_AFTER_CONSECUTIVE_FAILURES
    MaxReplays,     \* bound: replays by customers
    MaxToggles,     \* bound: endpoints disabled or enabled by customers
    MaxCrashes      \* bound: runners or emitting requests cut off

Deliveries == Events \X Endpoints

ASSUME WebhookAssumption ==
    /\ Undecryptable \subseteq Endpoints
    /\ NoDelivery \notin Deliveries
    /\ MaxAttempts \in Nat \ {0} /\ DisableAfter \in Nat \ {0}
    /\ MaxReplays \in Nat /\ MaxToggles \in Nat /\ MaxCrashes \in Nat

VARIABLES
    endpoint,   \* endpoint[e]: the WebhookEndpoint row
    delivery,   \* delivery[d]: the WebhookDelivery row of an event and endpoint
    posts,      \* posts[d]: POSTs made since d was queued or last replayed
    emit,       \* emit[v]: where emitEvent is with event v
    audience,   \* audience[v]: the endpoints enabled when v was stored
    fanout,     \* fanout[v]: the endpoints enqueueEventDeliveries has read
    pc,         \* pc[r]: where runner r is
    batch,      \* batch[r]: deliveries read as due and not yet reached
    current,    \* current[r]: the delivery r is attempting
    attempt,    \* attempt[r]: the local variable of that name
    replays, toggles, crashes,
    crossed,    \* deliveries replayed while a runner was attempting them
    shared      \* deliveries two runs have read as due, neither done with it

emission == <<emit, audience, fanout>>
runner == <<pc, batch, current, attempt>>
bookkeeping == <<replays, toggles, crashes, crossed, shared>>
vars == <<endpoint, delivery, posts, emit, audience, fanout, pc, batch,
          current, attempt, replays, toggles, crashes, crossed, shared>>

Endpoint == [state : {"absent", "stored", "deleted"}, enabled : BOOLEAN,
             failures : Nat, reason : {"none", "user", "auto"}]

Delivery == [status : {"NONE", "PENDING", "FAILED", "SUCCEEDED", "EXHAUSTED"},
             attempts : Nat, due : BOOLEAN]

NoRow == [status |-> "NONE", attempts |-> 0, due |-> FALSE]

\* Mutants: a status the runner does not know; attempts numbered from 1.
NewRowQueued == [status |-> "QUEUED", attempts |-> 0, due |-> TRUE]

NewRowFromOne == [status |-> "PENDING", attempts |-> 1, due |-> TRUE]

\* status PENDING, nextAttemptAt now
NewRow == [status |-> "PENDING", attempts |-> 0, due |-> TRUE]

TypeOK ==
    /\ endpoint \in [Endpoints -> Endpoint]
    /\ delivery \in [Deliveries -> Delivery]
    /\ posts \in [Deliveries -> Nat]
    /\ emit \in [Events -> {"none", "stored", "read", "over"}]
    /\ audience \in [Events -> SUBSET Endpoints]
    /\ fanout \in [Events -> SUBSET Endpoints]
    /\ pc \in [Runners -> {"idle", "loop", "post", "accepted", "refused", "count", "disable"}]
    /\ batch \in [Runners -> SUBSET Deliveries]
    /\ current \in [Runners -> Deliveries \cup {NoDelivery}]
    /\ attempt \in [Runners -> Nat]
    /\ replays \in Nat /\ toggles \in Nat /\ crashes \in Nat
    /\ crossed \in SUBSET Deliveries /\ shared \in SUBSET Deliveries

Init ==
    /\ endpoint = [e \in Endpoints |-> [state |-> "absent", enabled |-> FALSE,
                                        failures |-> 0, reason |-> "none"]]
    /\ delivery = [d \in Deliveries |-> NoRow]
    /\ posts = [d \in Deliveries |-> 0]
    /\ emit = [v \in Events |-> "none"]
    /\ audience = [v \in Events |-> {}]
    /\ fanout = [v \in Events |-> {}]
    /\ pc = [r \in Runners |-> "idle"]
    /\ batch = [r \in Runners |-> {}]
    /\ current = [r \in Runners |-> NoDelivery]
    /\ attempt = [r \in Runners |-> 0]
    /\ replays = 0 /\ toggles = 0 /\ crashes = 0
    /\ crossed = {} /\ shared = {}

Stored(e) == endpoint[e].state = "stored"

Enabled == {e \in Endpoints : Stored(e) /\ endpoint[e].enabled}

EndpointOf(d) == d[2]

-----------------------------------------------------------------------------
(* Endpoints and their owners *)

CreateEndpoint(e) ==
    /\ endpoint[e].state = "absent"
    /\ endpoint' = [endpoint EXCEPT ![e].state = "stored", ![e].enabled = TRUE]
    /\ UNCHANGED <<delivery, posts, emission, runner, bookkeeping>>

\* Enabling clears the streak and the reason; disabling keeps the streak.
SetEndpointEnabled(e, enabled) ==
    /\ Stored(e)
    /\ toggles < MaxToggles
    /\ toggles' = toggles + 1
    /\ LET streak == IF enabled THEN 0 ELSE endpoint[e].failures
           reason == IF enabled THEN "none" ELSE "user"
       IN endpoint' = [endpoint EXCEPT ![e] =
              [@ EXCEPT !.enabled = enabled, !.failures = streak, !.reason = reason]]
    /\ UNCHANGED <<delivery, posts, emission, runner, replays, crashes, crossed, shared>>

\* The deliveries go with it (onDelete: Cascade).
DeleteEndpoint(e) ==
    /\ Stored(e)
    /\ endpoint' = [endpoint EXCEPT ![e] = [state |-> "deleted", enabled |-> FALSE,
                                            failures |-> 0, reason |-> "none"]]
    /\ delivery' = [d \in Deliveries |-> IF EndpointOf(d) = e THEN NoRow ELSE delivery[d]]
    /\ UNCHANGED <<posts, emission, runner, bookkeeping>>

\* replayDelivery, whatever the status of the delivery.
ReplayDelivery(d) ==
    /\ delivery[d].status # "NONE"
    /\ replays < MaxReplays
    /\ replays' = replays + 1
    /\ delivery' = [delivery EXCEPT ![d] = NewRow]
    /\ posts' = [posts EXCEPT ![d] = 0]
    /\ crossed' = IF \E r \in Runners : current[r] = d THEN crossed \cup {d} ELSE crossed
    /\ UNCHANGED <<endpoint, emission, runner, toggles, crashes, shared>>

-----------------------------------------------------------------------------
(* emitEvent *)

\* event.create commits by itself.
StoreEvent(v) ==
    /\ emit[v] = "none"
    /\ emit' = [emit EXCEPT ![v] = "stored"]
    /\ audience' = [audience EXCEPT ![v] = Enabled]
    /\ UNCHANGED <<endpoint, delivery, posts, fanout, runner, bookkeeping>>

\* enqueueEventDeliveries reads the endpoints ...
ReadEndpoints(v) ==
    /\ emit[v] = "stored"
    /\ emit' = [emit EXCEPT ![v] = "read"]
    /\ fanout' = [fanout EXCEPT ![v] = Enabled]
    /\ UNCHANGED <<endpoint, delivery, posts, audience, runner, bookkeeping>>

\* ... and creates their rows.  createMany is one statement: one endpoint that
\* has been deleted since (foreign key) fails it for all, and the error is
\* swallowed.
CreateDeliveries(v) ==
    /\ emit[v] = "read"
    /\ emit' = [emit EXCEPT ![v] = "over"]
    /\ delivery' = IF \A e \in fanout[v] : Stored(e)
                   THEN [d \in Deliveries |-> IF d \in {v} \X fanout[v] THEN NewRow ELSE delivery[d]]
                   ELSE delivery
    /\ UNCHANGED <<endpoint, posts, audience, fanout, runner, bookkeeping>>

\* The instance dies, or a database call fails, after the event was stored.
EmitCutOff(v) ==
    /\ emit[v] \in {"stored", "read"}
    /\ crashes < MaxCrashes
    /\ crashes' = crashes + 1
    /\ emit' = [emit EXCEPT ![v] = "over"]
    /\ UNCHANGED <<endpoint, delivery, posts, audience, fanout, runner, replays, toggles, crossed, shared>>

-----------------------------------------------------------------------------
(* deliverDueWebhooks *)

Waiting(row) == row.status \in {"PENDING", "FAILED"}

Due == {d \in Deliveries : Waiting(delivery[d]) /\ delivery[d].due /\ EndpointOf(d) \in Enabled}

\* The 50 oldest; here there are never more.
StartRun(r) ==
    /\ pc[r] = "idle"
    /\ pc' = [pc EXCEPT ![r] = "loop"]
    /\ batch' = [batch EXCEPT ![r] = Due]
    /\ shared' = shared \cup {d \in Due : \E q \in Runners \ {r} : d \in batch[q] \cup {current[q]}}
    /\ UNCHANGED <<endpoint, delivery, posts, emission, current, attempt, replays, toggles,
                   crashes, crossed>>

\* The call is over, normally or by an exception.
Forget(r) ==
    /\ pc' = [pc EXCEPT ![r] = "idle"]
    /\ batch' = [batch EXCEPT ![r] = {}]
    /\ current' = [current EXCEPT ![r] = NoDelivery]
    /\ attempt' = [attempt EXCEPT ![r] = 0]

EndRun(r) ==
    /\ pc[r] = "loop"
    /\ batch[r] = {}
    /\ Forget(r)
    /\ UNCHANGED <<endpoint, delivery, posts, emission, bookkeeping>>

\* attemptDelivery reads the row afresh, and looks at neither its status nor
\* whether its endpoint is still enabled.  A secret that cannot be decrypted
\* is a failure without a POST.
BeginAttempt(r, d) ==
    /\ pc[r] = "loop"
    /\ d \in batch[r]
    /\ delivery[d].status # "NONE"
    /\ pc' = [pc EXCEPT ![r] = IF EndpointOf(d) \in Undecryptable THEN "refused" ELSE "post"]
    /\ batch' = [batch EXCEPT ![r] = @ \ {d}]
    /\ current' = [current EXCEPT ![r] = d]
    /\ attempt' = [attempt EXCEPT ![r] = delivery[d].attempts + 1]
    /\ UNCHANGED <<endpoint, delivery, posts, emission, bookkeeping>>

\* The delivery has been deleted: the 404 leaves the loop, and with it the
\* rest of the batch.
AbortOnMissing(r, d) ==
    /\ pc[r] = "loop"
    /\ d \in batch[r]
    /\ delivery[d].status = "NONE"
    /\ Forget(r)
    /\ UNCHANGED <<endpoint, delivery, posts, emission, bookkeeping>>

\* fetch: a 2xx, or anything else (another status, no answer in 10 s).
Post(r) ==
    /\ pc[r] = "post"
    /\ posts' = [posts EXCEPT ![current[r]] = @ + 1]
    /\ \E answer \in {"accepted", "refused"} : pc' = [pc EXCEPT ![r] = answer]
    /\ UNCHANGED <<endpoint, delivery, emission, batch, current, attempt, bookkeeping>>

Exists(r) == delivery[current[r]].status # "NONE"

\* One transaction: the delivery and its endpoint.
RecordSuccess(r) ==
    LET d == current[r]
    IN /\ pc[r] = "accepted"
       /\ Exists(r)
       /\ delivery' = [delivery EXCEPT ![d] =
                          [status |-> "SUCCEEDED", attempts |-> attempt[r], due |-> FALSE]]
       /\ endpoint' = [endpoint EXCEPT ![EndpointOf(d)].failures = 0]
       /\ pc' = [pc EXCEPT ![r] = "loop"]
       /\ current' = [current EXCEPT ![r] = NoDelivery]
       /\ attempt' = [attempt EXCEPT ![r] = 0]
       /\ UNCHANGED <<posts, emission, batch, bookkeeping>>

\* Mutant: two updates instead of a transaction, and the second one fails.
SuccessHalfRecorded(r) ==
    /\ pc[r] = "accepted"
    /\ Exists(r)
    /\ delivery' = [delivery EXCEPT ![current[r]] =
                       [status |-> "SUCCEEDED", attempts |-> attempt[r], due |-> FALSE]]
    /\ pc' = [pc EXCEPT ![r] = "refused"]
    /\ UNCHANGED <<endpoint, posts, emission, batch, current, attempt, bookkeeping>>

\* The transaction fails (the row has gone, or the database is away): the
\* catch block records a failure, although the endpoint has the message.
SuccessNotRecorded(r) ==
    /\ pc[r] = "accepted"
    /\ pc' = [pc EXCEPT ![r] = "refused"]
    /\ UNCHANGED <<endpoint, delivery, posts, emission, batch, current, attempt, bookkeeping>>

\* Mutants: the last attempt is one too early, or one too late.
ExhaustedEarly(r) == EndpointOf(current[r]) \in Undecryptable \/ attempt[r] + 1 >= MaxAttempts

ExhaustedLate(r) == EndpointOf(current[r]) \in Undecryptable \/ attempt[r] > MaxAttempts

Exhausted(r) == EndpointOf(current[r]) \in Undecryptable \/ attempt[r] >= MaxAttempts

\* recordFailure, first write: by id alone.
RecordFailure(r) ==
    /\ pc[r] = "refused"
    /\ Exists(r)
    /\ delivery' = [delivery EXCEPT ![current[r]] =
                       [status |-> IF Exhausted(r) THEN "EXHAUSTED" ELSE "FAILED",
                        attempts |-> attempt[r], due |-> FALSE]]
    /\ pc' = [pc EXCEPT ![r] = "count"]
    /\ UNCHANGED <<endpoint, posts, emission, batch, current, attempt, bookkeeping>>

\* Mutant: the streak is compared before this failure is added.
DeadBefore(e) == endpoint[e].enabled /\ endpoint[e].failures >= DisableAfter

\* With this failure added, the streak is long enough to disable the endpoint.
Dead(e) == endpoint[e].enabled /\ endpoint[e].failures + 1 >= DisableAfter

\* Second write: the endpoint's streak, incremented in the database.
CountFailure(r) ==
    LET e == EndpointOf(current[r])
    IN /\ pc[r] = "count"
       /\ Stored(e)
       /\ endpoint' = [endpoint EXCEPT ![e].failures = @ + 1]
       /\ pc' = [pc EXCEPT ![r] = IF Dead(e) THEN "disable" ELSE "loop"]
       /\ current' = IF Dead(e) THEN current ELSE [current EXCEPT ![r] = NoDelivery]
       /\ attempt' = [attempt EXCEPT ![r] = 0]
       /\ UNCHANGED <<delivery, posts, emission, batch, bookkeeping>>

\* Third write: unconditional, on what the second one returned.
AutoDisable(r) ==
    LET e == EndpointOf(current[r])
    IN /\ pc[r] = "disable"
       /\ Stored(e)
       /\ endpoint' = [endpoint EXCEPT ![e].enabled = FALSE, ![e].reason = "auto"]
       /\ pc' = [pc EXCEPT ![r] = "loop"]
       /\ current' = [current EXCEPT ![r] = NoDelivery]
       /\ UNCHANGED <<delivery, posts, emission, batch, attempt, bookkeeping>>

\* An update of a row that has been deleted throws, and the batch is over.
AbortOnDeleted(r) ==
    /\ \/ pc[r] = "refused" /\ ~Exists(r)
       \/ pc[r] \in {"count", "disable"} /\ ~Stored(EndpointOf(current[r]))
    /\ Forget(r)
    /\ UNCHANGED <<endpoint, delivery, posts, emission, bookkeeping>>

\* The instance dies, or a database call fails, anywhere in a run.
Crash(r) ==
    /\ pc[r] # "idle"
    /\ crashes < MaxCrashes
    /\ crashes' = crashes + 1
    /\ Forget(r)
    /\ UNCHANGED <<endpoint, delivery, posts, emission, replays, toggles, crossed, shared>>

\* nextAttemptAt passes.
Ripen(d) ==
    /\ delivery[d].status = "FAILED"
    /\ ~delivery[d].due
    /\ delivery' = [delivery EXCEPT ![d].due = TRUE]
    /\ UNCHANGED <<endpoint, posts, emission, runner, bookkeeping>>

-----------------------------------------------------------------------------
RunnerStep(r) ==
    \/ StartRun(r) \/ EndRun(r)
    \/ \E d \in Deliveries : BeginAttempt(r, d) \/ AbortOnMissing(r, d)
    \/ Post(r)
    \/ RecordSuccess(r) \/ SuccessNotRecorded(r)
    \/ RecordFailure(r) \/ CountFailure(r) \/ AutoDisable(r)
    \/ AbortOnDeleted(r)
    \/ Crash(r)

Next ==
    \/ \E e \in Endpoints :
          \/ CreateEndpoint(e) \/ DeleteEndpoint(e)
          \/ \E enabled \in BOOLEAN : SetEndpointEnabled(e, enabled)
    \/ \E d \in Deliveries : ReplayDelivery(d) \/ Ripen(d)
    \/ \E v \in Events :
          StoreEvent(v) \/ ReadEndpoints(v) \/ CreateDeliveries(v) \/ EmitCutOff(v)
    \/ \E r \in Runners : RunnerStep(r)

Spec == Init /\ [][Next]_vars

-----------------------------------------------------------------------------
(* Properties *)

\* A delivery is given up only after MAX_ATTEMPTS POSTs (or at once, when its
\* secret cannot be decrypted), whatever overlaps or is cut off; "attempts
\* reset": a replayed one after as many new POSTs, unless it was replayed in
\* the middle of an attempt.
ExhaustedWasTried ==
    \A d \in Deliveries \ crossed :
        delivery[d].status = "EXHAUSTED" =>
            posts[d] >= MaxAttempts \/ EndpointOf(d) \in Undecryptable

\* The row never claims more attempts than were made.
AttemptsWereMade ==
    \A d \in Deliveries \ crossed :
        delivery[d].attempts <= posts[d] \/ EndpointOf(d) \in Undecryptable

\* The receiver is bothered with one message MAX_ATTEMPTS times at most, for
\* each time it is queued; each further POST is explained by a runner cut off
\* before it wrote its attempt, or by two runs at work on the same delivery.
PostsBounded == \A d \in Deliveries \ shared : posts[d] <= MaxAttempts + crashes

\* "record every attempt, so 'did you send it?' has an answer": a delivery that
\* SUCCEEDED says so until it is replayed or deleted, unless two runs worked on
\* it.
SucceededIsFinal ==
    [][\A d \in Deliveries \ shared :
          delivery[d].status = "SUCCEEDED" /\ replays' = replays =>
              delivery'[d].status \in {"SUCCEEDED", "NONE"}]_vars

\* A dead endpoint does not stay enabled: whoever saw the streak reach the
\* limit is about to disable it, unless it was cut off.
DeadIsDisabled ==
    \A e \in Endpoints :
        endpoint[e].enabled /\ endpoint[e].failures >= DisableAfter =>
            \/ crashes > 0
            \/ \E r \in Runners : pc[r] = "disable" /\ EndpointOf(current[r]) = e

\* "enqueued in the same transaction as the event": when emitEvent is over,
\* every endpoint that was enabled when the event was stored, and has been
\* neither disabled nor deleted since, has a delivery of it.
EventReachesAudience ==
    \A v \in Events : \A e \in audience[v] \cap Enabled :
        emit[v] = "over" => delivery[<<v, e>>].status # "NONE"
=============================================================================
