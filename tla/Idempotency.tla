---------------------------- MODULE Idempotency ----------------------------
(***************************************************************************)
(* Idempotency keys: src/lib/idempotency.ts and the part of withApiHandler *)
(* (src/lib/api-utils.ts) that claims, completes and releases a key.       *)
(*                                                                         *)
(* Keys do not interact, so there is one: the row of one (organization,    *)
(* key).  A request is one HTTP request that carries it; a client's retry  *)
(* is another request with the same operation (method, path and body).     *)
(* Requests run concurrently and every database call is a step.            *)
(***************************************************************************)
EXTENDS Integers, FiniteSets

CONSTANTS
    Requests,
    Operations,
    OpOf,           \* OpOf[r]: the hash of method, path and body of r
    NoRequest,
    Sweeping,       \* is purgeExpiredIdempotencyKeys scheduled?
    MaxExpiries,    \* bound: times a row's expiresAt passes
    MaxCrashes      \* bound: requests whose instance dies

ASSUME IdempotencyAssumption ==
    /\ IsFiniteSet(Requests)
    /\ OpOf \in [Requests -> Operations]
    /\ NoRequest \notin Requests
    /\ Sweeping \in BOOLEAN
    /\ MaxExpiries \in Nat /\ MaxCrashes \in Nat

VARIABLES
    row,        \* the IdempotencyKey row
    lastId,     \* the last record id handed out
    pc,         \* pc[r]: the step request r is at
    claim,      \* claim[r]: the record id r was given, 0 for none
    slow,       \* requests whose `now` is before the expiry of the row
    effects,    \* requests whose handler has taken effect
    reply,      \* reply[r]: what the client of r was told
    source,     \* source[r]: the request whose response r was given
    expiries, crashes

vars == <<row, lastId, pc, claim, slow, effects, reply, source, expiries, crashes>>

Row == [id : Nat, op : Operations, status : {"ABSENT", "IN_PROGRESS", "COMPLETED"},
        by : Requests \cup {NoRequest}, expired : BOOLEAN]

\* Steps with a request in them; the handler is running from "handler" on.
Steps == {"new", "read", "takeover", "handler", "store", "release", "over"}

Replies == {"none", "done", "replayed", "in progress", "different request", "error"}

TypeOK ==
    /\ row \in Row
    /\ lastId \in Nat
    /\ pc \in [Requests -> Steps]
    /\ claim \in [Requests -> Nat]
    /\ slow \in SUBSET Requests
    /\ effects \in SUBSET Requests
    /\ reply \in [Requests -> Replies]
    /\ source \in [Requests -> Requests \cup {NoRequest}]
    /\ expiries \in Nat /\ crashes \in Nat

Init ==
    /\ row \in {[id |-> 0, op |-> o, status |-> "ABSENT", by |-> NoRequest,
                 expired |-> FALSE] : o \in Operations}
    /\ lastId = 0
    /\ pc = [r \in Requests |-> "new"]
    /\ claim = [r \in Requests |-> 0]
    /\ slow = {}
    /\ effects = {}
    /\ reply = [r \in Requests |-> "none"]
    /\ source = [r \in Requests |-> NoRequest]
    /\ expiries = 0
    /\ crashes = 0

-----------------------------------------------------------------------------
(* beginIdempotentRequest *)

Goto(r, to) == pc' = [pc EXCEPT ![r] = to]

\* The request is over and its client is told `what`.
Answer(r, what) ==
    /\ Goto(r, "over")
    /\ reply' = [reply EXCEPT ![r] = what]
    /\ slow' = slow \ {r}

\* The unique constraint on (organizationId, key).
KeyIsFree == row.status = "ABSENT"

\* `create` succeeds: the key is claimed.
Insert(r) ==
    /\ pc[r] = "new"
    /\ KeyIsFree
    /\ row' = [id |-> lastId + 1, op |-> OpOf[r], status |-> "IN_PROGRESS",
               by |-> NoRequest, expired |-> FALSE]
    /\ lastId' = lastId + 1
    /\ claim' = [claim EXCEPT ![r] = lastId + 1]
    /\ Goto(r, "handler")
    /\ UNCHANGED <<slow, effects, reply, source, expiries, crashes>>

\* `create` fails with P2002: somebody has the key.
InsertConflict(r) ==
    /\ pc[r] = "new"
    /\ row.status # "ABSENT"
    /\ Goto(r, "read")
    /\ UNCHANGED <<row, lastId, claim, slow, effects, reply, source, expiries, crashes>>

\* existing.expiresAt <= now, with the `now` of the beginning of the request.
IsExpired(r) == row.expired /\ r \notin slow

\* The row is gone by the time it is read: the request goes on without a key.
ReadVanished(r) ==
    /\ pc[r] = "read"
    /\ row.status = "ABSENT"
    /\ Goto(r, "handler")
    /\ slow' = slow \ {r}
    /\ UNCHANGED <<row, lastId, claim, effects, reply, source, expiries, crashes>>

\* Expired: take it over, in another database call.
ReadExpired(r) ==
    /\ pc[r] = "read"
    /\ row.status # "ABSENT"
    /\ IsExpired(r)
    /\ Goto(r, "takeover")
    /\ claim' = [claim EXCEPT ![r] = row.id]
    /\ UNCHANGED <<row, lastId, slow, effects, reply, source, expiries, crashes>>

\* Mutant: the body is not compared.
AnyRequest(r) == TRUE

SameRequest(r) == row.op = OpOf[r]

\* 422, 409 or a replay of the stored response.
ReadLive(r) ==
    /\ pc[r] = "read"
    /\ row.status # "ABSENT"
    /\ ~IsExpired(r)
    /\ IF ~SameRequest(r)
       THEN Answer(r, "different request") /\ UNCHANGED source
       ELSE IF row.status = "IN_PROGRESS"
            THEN Answer(r, "in progress") /\ UNCHANGED source
            ELSE Answer(r, "replayed") /\ source' = [source EXCEPT ![r] = row.by]
    /\ UNCHANGED <<row, lastId, claim, effects, expiries, crashes>>

\* `update` by id alone.  It keeps the old responseBody (`undefined`) under a
\* status that is not replayed.  It throws if the row has gone meanwhile.
TakeOver(r) ==
    /\ pc[r] = "takeover"
    /\ IF row.status # "ABSENT" /\ row.id = claim[r]
       THEN /\ row' = [row EXCEPT !.op = OpOf[r], !.status = "IN_PROGRESS", !.expired = FALSE]
            /\ Goto(r, "handler")
            /\ UNCHANGED <<slow, reply>>
       ELSE /\ Answer(r, "error")
            /\ UNCHANGED row
    /\ UNCHANGED <<lastId, claim, effects, source, expiries, crashes>>

-----------------------------------------------------------------------------
(* withApiHandler *)

\* The handler does its work; a keyed response is stored afterwards.
Handle(r) ==
    /\ pc[r] = "handler"
    /\ effects' = effects \cup {r}
    /\ source' = [source EXCEPT ![r] = r]
    /\ IF claim[r] # 0
       THEN Goto(r, "store") /\ UNCHANGED <<reply, slow>>
       ELSE Answer(r, "done")
    /\ UNCHANGED <<row, lastId, claim, expiries, crashes>>

\* The handler throws, before or after its work was committed.
HandlerThrows(r) ==
    /\ pc[r] = "handler"
    /\ effects' \in {effects, effects \cup {r}}
    /\ IF claim[r] # 0
       THEN Goto(r, "release") /\ UNCHANGED <<reply, slow>>
       ELSE Answer(r, "error")
    /\ UNCHANGED <<row, lastId, claim, source, expiries, crashes>>

\* Mutant: rows are found by key instead of by record id.
AnyRow(r) == row.status # "ABSENT"

OwnsRow(r) == row.status # "ABSENT" /\ row.id = claim[r]

\* updateMany by record id.
Stored(r) == IF OwnsRow(r) THEN [row EXCEPT !.status = "COMPLETED", !.by = r] ELSE row

\* completeIdempotentRequest
Store(r) ==
    /\ pc[r] = "store"
    /\ row' = Stored(r)
    /\ Answer(r, "done")
    /\ UNCHANGED <<lastId, claim, effects, source, expiries, crashes>>

\* The database call fails, or only its answer is lost: the catch block
\* releases the claim.
StoreFails(r) ==
    /\ pc[r] = "store"
    /\ row' \in {row, Stored(r)}
    /\ Goto(r, "release")
    /\ UNCHANGED <<lastId, claim, slow, effects, reply, source, expiries, crashes>>

\* Mutants: the catch block keeps the claim; it marks it; it deletes a finished
\* row, too.
Keep(r) == row

MarkedFailed(r) == IF OwnsRow(r) THEN [row EXCEPT !.status = "FAILED"] ELSE row

ReleasedWhateverStatus(r) ==
    IF OwnsRow(r) THEN [row EXCEPT !.status = "ABSENT", !.expired = FALSE] ELSE row

\* deleteMany where id and IN_PROGRESS.
Released(r) ==
    IF OwnsRow(r) /\ row.status = "IN_PROGRESS"
    THEN [row EXCEPT !.status = "ABSENT", !.expired = FALSE] ELSE row

Release(r) ==
    /\ pc[r] = "release"
    /\ row' = Released(r)
    /\ Answer(r, "error")
    /\ UNCHANGED <<lastId, claim, effects, source, expiries, crashes>>

\* The instance dies in the middle of a request (or its release fails, which
\* is swallowed): nothing is released.
Crash(r) ==
    /\ pc[r] \notin {"new", "over"}
    /\ crashes < MaxCrashes
    /\ crashes' = crashes + 1
    /\ Answer(r, "error")
    /\ UNCHANGED <<row, lastId, claim, effects, source, expiries>>

-----------------------------------------------------------------------------
(* Time *)

\* Requests that believe the key is theirs and are working under it.
Claimants == {r \in Requests : claim[r] # 0 /\ pc[r] \in {"handler", "store", "release"}}

\* IDEMPOTENCY_TTL_MS is 24 hours and a request lives five minutes at most, so
\* a row does not expire under the request that has it.
Expire ==
    /\ row.status # "ABSENT"
    /\ ~row.expired
    /\ expiries < MaxExpiries
    /\ \A r \in Claimants : claim[r] # row.id
    /\ row' = [row EXCEPT !.expired = TRUE]
    /\ slow' = {r \in Requests : pc[r] = "read"}
    /\ expiries' = expiries + 1
    /\ UNCHANGED <<lastId, pc, claim, effects, reply, source, crashes>>

\* purgeExpiredIdempotencyKeys: exported, and called by no route or job of this
\* repository; Sweeping says whether a deployment schedules it.
Purge ==
    /\ Sweeping
    /\ row.status # "ABSENT"
    /\ row.expired
    /\ row' = [row EXCEPT !.status = "ABSENT", !.expired = FALSE]
    /\ UNCHANGED <<lastId, pc, claim, slow, effects, reply, source, expiries, crashes>>

-----------------------------------------------------------------------------
Next ==
    \/ \E r \in Requests :
          \/ Insert(r) \/ InsertConflict(r)
          \/ ReadVanished(r) \/ ReadExpired(r) \/ ReadLive(r) \/ TakeOver(r)
          \/ Handle(r) \/ HandlerThrows(r)
          \/ Store(r) \/ StoreFails(r) \/ Release(r)
          \/ Crash(r)
    \/ Expire
    \/ Purge

Spec == Init /\ [][Next]_vars

-----------------------------------------------------------------------------
(* Properties *)

\* "two simultaneous requests race to insert, exactly one wins": the key is
\* claimed by at most one request at a time.
ClaimExclusive == \A r1, r2 \in Claimants : r1 = r2

\* It is, as long as the key has not expired.
ExclusiveWhileLive == expiries = 0 => ClaimExclusive

\* A replay gives a response to the very operation that was asked for, from a
\* request whose handler did its work.
ReplayIsFaithful ==
    \A r \in Requests :
        reply[r] = "replayed" =>
            source[r] \in effects /\ OpOf[source[r]] = OpOf[r]

\* It does, as long as the key has not expired.
FaithfulWhileLive == expiries = 0 => ReplayIsFaithful

\* Record ids keep tenures of the key apart: whatever expires, is purged or is
\* taken over twice, a stored response was written by a request that was given
\* this very record, after its handler did its work.
ResponseOfRecord ==
    row.status = "COMPLETED" => row.by \in effects /\ claim[row.by] = row.id

\* While a key lives, the work behind it is done once.  Each further time is explained by a
\* request that did it and then failed (its claim was released), or by one
\* that found the row gone and ran without the key.
DoneOnceUnlessFailed ==
    LET failed == {r \in effects : reply[r] = "error" \/ pc[r] = "release"}
        unkeyed == {r \in effects : claim[r] = 0}
    IN expiries = 0 => Cardinality(effects) <= 1 + Cardinality(failed) + Cardinality(unkeyed)

\* A failure is not "permanent for 24 hours": a key is in progress only while
\* a request is at work on it, unless an instance died.
InProgressIsOwned ==
    row.status = "IN_PROGRESS" =>
        crashes > 0 \/ \E r \in Claimants : claim[r] = row.id

\* A stored response is neither lost nor replaced before it expires.
CompletedIsStable ==
    [][row.status = "COMPLETED" /\ expiries = 0 =>
          row' = row \/ row' = [row EXCEPT !.expired = TRUE]]_vars
=============================================================================
