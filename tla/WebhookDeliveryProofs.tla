----------------------- MODULE WebhookDeliveryProofs -----------------------
(* Proofs about WebhookDelivery, for any number of events, endpoints and    *)
(* overlapping runners, and any number of crashes and toggles.              *)
EXTENDS MCWebhookDelivery, TLAPS

\* A delivery row whose fields have their types.
LEMMA DeliveryRow ==
    ASSUME NEW st \in {"NONE", "PENDING", "FAILED", "SUCCEEDED", "EXHAUSTED"},
           NEW n \in Nat, NEW b \in BOOLEAN
    PROVE  [status |-> st, attempts |-> n, due |-> b] \in Delivery
  BY Zenon DEF Delivery

\* An endpoint row whose fields have their types.
LEMMA EndpointRow ==
    ASSUME NEW st \in {"absent", "stored", "deleted"}, NEW b \in BOOLEAN,
           NEW n \in Nat, NEW why \in {"none", "user", "auto"}
    PROVE  [state |-> st, enabled |-> b, failures |-> n, reason |-> why] \in Endpoint
  BY Zenon DEF Endpoint

LEMMA KnownRows == NoRow \in Delivery /\ NewRow \in Delivery
  <1>1. "NONE" \in {"NONE", "PENDING", "FAILED", "SUCCEEDED", "EXHAUSTED"}
        /\ "PENDING" \in {"NONE", "PENDING", "FAILED", "SUCCEEDED", "EXHAUSTED"}
        /\ 0 \in Nat /\ TRUE \in BOOLEAN /\ FALSE \in BOOLEAN
    OBVIOUS
  <1> QED
    BY <1>1, DeliveryRow DEF NoRow, NewRow

\* A field of an endpoint row is overwritten with a value of its type.
LEMMA EndpointUpdates ==
    ASSUME NEW w \in Endpoint, NEW b \in BOOLEAN, NEW n \in Nat,
           NEW why \in {"none", "user", "auto"}
    PROVE  /\ [w EXCEPT !.failures = n] \in Endpoint
           /\ [w EXCEPT !.enabled = b, !.failures = n, !.reason = why] \in Endpoint
           /\ [w EXCEPT !.enabled = b, !.reason = why] \in Endpoint
           /\ [w EXCEPT !.state = "stored", !.enabled = b] \in Endpoint
  <1>1. [w EXCEPT !.failures = n] \in Endpoint
    BY Zenon DEF Endpoint
  <1>2. [w EXCEPT !.enabled = b, !.failures = n, !.reason = why] \in Endpoint
    BY Zenon DEF Endpoint
  <1>3. [w EXCEPT !.enabled = b, !.reason = why] \in Endpoint
    BY Zenon DEF Endpoint
  <1>4. "stored" \in {"absent", "stored", "deleted"}
    OBVIOUS
  <1>5. [w EXCEPT !.state = "stored", !.enabled = b] \in Endpoint
    BY <1>4, Zenon DEF Endpoint
  <1> QED
    BY <1>1, <1>2, <1>3, <1>5

\* What the update of setEndpointEnabled leaves in the row.
LEMMA SwitchedFields ==
    ASSUME NEW w \in Endpoint, NEW b \in BOOLEAN, NEW n, NEW why
    PROVE  /\ [w EXCEPT !.enabled = b, !.failures = n, !.reason = why].state = w.state
           /\ [w EXCEPT !.enabled = b, !.failures = n, !.reason = why].enabled = b
           /\ [w EXCEPT !.enabled = b, !.failures = n, !.reason = why].failures = n
  BY Zenon DEF Endpoint

LEMMA DueIsBoolean ==
    ASSUME NEW w \in Delivery PROVE [w EXCEPT !.due = TRUE] \in Delivery
  BY Zenon DEF Delivery

LEMMA InitTypeOK == Init => TypeOK
  <1> SUFFICES ASSUME Init PROVE TypeOK
    OBVIOUS
  <1> USE WebhookAssumption DEF Init
  <1>1. endpoint \in [Endpoints -> Endpoint]
    BY EndpointRow
  <1>2. delivery \in [Deliveries -> Delivery]
    BY KnownRows
  <1> QED
    BY <1>1, <1>2 DEF TypeOK

LEMMA EndpointTypeOK ==
    ASSUME TypeOK, NEW e \in Endpoints,
           \/ CreateEndpoint(e)
           \/ DeleteEndpoint(e)
           \/ \E enabled \in BOOLEAN : SetEndpointEnabled(e, enabled)
    PROVE  TypeOK'
  <1> USE DEF TypeOK, emission, runner, bookkeeping
  <1>1. endpoint[e] \in Endpoint
    OBVIOUS
  <1>2. CASE CreateEndpoint(e)
    <2>1. endpoint' \in [Endpoints -> Endpoint]
      BY <1>1, <1>2, EndpointUpdates DEF CreateEndpoint
    <2> QED
      BY <1>2, <2>1 DEF CreateEndpoint
  <1>3. CASE DeleteEndpoint(e)
    <2>1. endpoint' \in [Endpoints -> Endpoint]
      BY <1>3, EndpointRow DEF DeleteEndpoint
    <2>2. delivery' \in [Deliveries -> Delivery]
      BY <1>3, KnownRows DEF DeleteEndpoint
    <2> QED
      BY <1>3, <2>1, <2>2 DEF DeleteEndpoint
  <1>4. ASSUME NEW enabled \in BOOLEAN, SetEndpointEnabled(e, enabled) PROVE TypeOK'
    <2>1. /\ (IF enabled THEN 0 ELSE endpoint[e].failures) \in Nat
          /\ (IF enabled THEN "none" ELSE "user") \in {"none", "user", "auto"}
      BY <1>1 DEF Endpoint
    <2>2. endpoint' \in [Endpoints -> Endpoint]
      BY <1>1, <1>4, <2>1, EndpointUpdates DEF SetEndpointEnabled
    <2>3. toggles' \in Nat
      <3>1. toggles' = toggles + 1
        BY <1>4, Zenon DEF SetEndpointEnabled
      <3>2. toggles \in Nat
        OBVIOUS
      <3> QED
        BY <3>1, <3>2
    <2> QED
      BY <1>4, <2>2, <2>3 DEF SetEndpointEnabled
  <1> QED
    BY <1>2, <1>3, <1>4

LEMMA DeliveryTypeOK ==
    ASSUME TypeOK, NEW d \in Deliveries, ReplayDelivery(d) \/ Ripen(d)
    PROVE  TypeOK'
  <1> USE DEF TypeOK, emission, runner, bookkeeping
  <1>1. CASE ReplayDelivery(d)
    BY <1>1, KnownRows DEF ReplayDelivery
  <1>2. CASE Ripen(d)
    <2>1. delivery' \in [Deliveries -> Delivery]
      <3>1. delivery[d] \in Delivery
        OBVIOUS
      <3> QED
        BY <1>2, <3>1, DueIsBoolean DEF Ripen
    <2> QED
      BY <1>2, <2>1 DEF Ripen
  <1> QED
    BY <1>1, <1>2

LEMMA EmitTypeOK ==
    ASSUME TypeOK, NEW v \in Events,
           \/ StoreEvent(v)
           \/ ReadEndpoints(v)
           \/ CreateDeliveries(v)
           \/ EmitCutOff(v)
    PROVE  TypeOK'
  <1> USE DEF TypeOK, emission, runner, bookkeeping
  <1>1. Enabled \in SUBSET Endpoints
    BY DEF Enabled
  <1>2. CASE StoreEvent(v)
    BY <1>1, <1>2 DEF StoreEvent
  <1>3. CASE ReadEndpoints(v)
    BY <1>1, <1>3 DEF ReadEndpoints
  <1>4. CASE CreateDeliveries(v)
    <2>1. delivery' \in [Deliveries -> Delivery]
      BY <1>4, KnownRows DEF CreateDeliveries
    <2> QED
      BY <1>4, <2>1 DEF CreateDeliveries
  <1>5. CASE EmitCutOff(v)
    BY <1>5 DEF EmitCutOff
  <1> QED
    BY <1>2, <1>3, <1>4, <1>5

LEMMA RunnerTypeOK ==
    ASSUME TypeOK, NEW r \in Runners, RunnerStep(r)
    PROVE  TypeOK'
  <1> USE DEF TypeOK, emission, runner, bookkeeping, Forget
  <1>1. CASE StartRun(r) \/ EndRun(r)
    BY <1>1 DEF StartRun, EndRun, Due
  <1>2. ASSUME NEW d \in Deliveries, BeginAttempt(r, d) PROVE TypeOK'
    <2>1. delivery[d].attempts + 1 \in Nat
      BY DEF Delivery
    <2> QED
      BY <1>2, <2>1 DEF BeginAttempt
  <1>3. ASSUME NEW d \in Deliveries, AbortOnMissing(r, d) PROVE TypeOK'
    BY <1>3 DEF AbortOnMissing
  <1>4. CASE Post(r)
    <2>1. posts' \in [Deliveries -> Nat]
      <3>1. posts' = [posts EXCEPT ![current[r]] = posts[current[r]] + 1]
        BY <1>4, Zenon DEF Post
      <3>2. \A d \in Deliveries : posts[d] + 1 \in Nat
        OBVIOUS
      <3>3. posts \in [Deliveries -> Nat]
        OBVIOUS
      <3> HIDE DEF TypeOK
      <3> QED
        BY <3>1, <3>2, <3>3
    <2>2. pc' \in [Runners -> {"idle", "loop", "post", "accepted", "refused", "count", "disable"}]
      BY <1>4 DEF Post
    <2> QED
      BY <1>4, <2>1, <2>2 DEF Post
  <1>5. CASE RecordSuccess(r)
    <2>1. delivery' \in [Deliveries -> Delivery]
      <3>1. [status |-> "SUCCEEDED", attempts |-> attempt[r], due |-> FALSE] \in Delivery
        BY DeliveryRow
      <3> QED
        BY <1>5, <3>1 DEF RecordSuccess
    <2>2. endpoint' \in [Endpoints -> Endpoint]
      BY <1>5, EndpointUpdates DEF RecordSuccess
    <2> QED
      BY <1>5, <2>1, <2>2 DEF RecordSuccess
  <1>6. CASE SuccessNotRecorded(r)
    BY <1>6 DEF SuccessNotRecorded
  <1>7. CASE RecordFailure(r)
    <2>1. delivery' \in [Deliveries -> Delivery]
      <3>1. ASSUME NEW st \in {"EXHAUSTED", "FAILED"}
            PROVE  [status |-> st, attempts |-> attempt[r], due |-> FALSE] \in Delivery
        BY DeliveryRow
      <3> QED
        BY <1>7, <3>1 DEF RecordFailure
    <2> QED
      BY <1>7, <2>1 DEF RecordFailure
  <1>8. CASE CountFailure(r)
    <2>1. endpoint' \in [Endpoints -> Endpoint]
      <3>1. ASSUME NEW w \in Endpoint PROVE [w EXCEPT !.failures = w.failures + 1] \in Endpoint
        <4>1. w.failures + 1 \in Nat
          BY DEF Endpoint
        <4> QED
          BY <4>1, EndpointUpdates, Zenon
      <3> QED
        BY <1>8, <3>1, Zenon DEF CountFailure
    <2>2. pc' \in [Runners -> {"idle", "loop", "post", "accepted", "refused", "count", "disable"}]
      BY <1>8 DEF CountFailure
    <2>3. current' \in [Runners -> Deliveries \cup {NoDelivery}] /\ attempt' \in [Runners -> Nat]
      BY <1>8 DEF CountFailure
    <2> QED
      BY <1>8, <2>1, <2>2, <2>3 DEF CountFailure
  <1>9. CASE AutoDisable(r)
    <2>1. endpoint' \in [Endpoints -> Endpoint]
      BY <1>9, EndpointUpdates DEF AutoDisable
    <2> QED
      BY <1>9, <2>1, SMTT(30) DEF AutoDisable
  <1>10. CASE AbortOnDeleted(r) \/ Crash(r)
    BY <1>10 DEF AbortOnDeleted, Crash
  <1> QED
    BY <1>1, <1>2, <1>3, <1>4, <1>5, <1>6, <1>7, <1>8, <1>9, <1>10 DEF RunnerStep

LEMMA NextTypeOK == TypeOK /\ [Next]_vars => TypeOK'
  <1> SUFFICES ASSUME TypeOK, [Next]_vars PROVE TypeOK'
    OBVIOUS
  <1>1. CASE UNCHANGED vars
    BY <1>1 DEF TypeOK, vars
  <1> QED
    BY <1>1, EndpointTypeOK, DeliveryTypeOK, EmitTypeOK, RunnerTypeOK DEF Next

\* The rows, the batches and the bookkeeping keep their types.
THEOREM WebhookTypeCorrect == Spec => []TypeOK
  BY InitTypeOK, NextTypeOK, PTL DEF Spec

-----------------------------------------------------------------------------
(* A dead endpoint is disabled *)

\* Only stored endpoints are enabled, and a new one has no streak.
EnabledIsStored ==
    \A e \in Endpoints :
        /\ endpoint[e].enabled => endpoint[e].state = "stored"
        /\ endpoint[e].state = "absent" => endpoint[e].failures = 0

StreakInv == TypeOK /\ EnabledIsStored /\ DeadIsDisabled

\* The runner that saw the streak reach the limit has the endpoint in hand.
Disabling(r, e) == pc[r] = "disable" /\ EndpointOf(current[r]) = e

\* What a step must do to an endpoint to keep the invariant.
LEMMA StreakStep ==
    ASSUME StreakInv, TypeOK', crashes' >= crashes,
           \A e \in Endpoints :
              \/ endpoint'[e] = endpoint[e]
              \/ /\ endpoint'[e].state = "stored"
                 /\ endpoint'[e].failures < DisableAfter
              \/ /\ endpoint'[e].state = endpoint[e].state
                 /\ endpoint'[e].enabled = endpoint[e].enabled
                 /\ endpoint'[e].failures = 0
              \/ /\ endpoint'[e].state = "stored" \/ endpoint'[e].state = "deleted"
                 /\ ~endpoint'[e].enabled
              \/ /\ endpoint'[e].state = "stored"
                 /\ \E r \in Runners : Disabling(r, e)',
           \A r \in Runners, e \in Endpoints :
              Disabling(r, e) =>
                \/ Disabling(r, e)'
                \/ crashes' > 0
                \/ ~endpoint'[e].enabled
    PROVE  StreakInv'
  <1> USE WebhookAssumption DEF StreakInv
  <1>1. EnabledIsStored'
    BY DEF EnabledIsStored
  <1>2. crashes \in Nat /\ crashes' \in Nat
    BY DEF TypeOK
  <1>3. SUFFICES ASSUME NEW e \in Endpoints, endpoint'[e].enabled,
                        endpoint'[e].failures >= DisableAfter, ~(crashes' > 0)
                 PROVE  \E r \in Runners : Disabling(r, e)'
    BY <1>1 DEF DeadIsDisabled, Disabling
  <1>4. ~(crashes > 0)
    BY <1>2, <1>3
  <1>5. CASE endpoint'[e] = endpoint[e]
    <2>1. PICK r \in Runners : Disabling(r, e)
      BY <1>3, <1>4, <1>5 DEF DeadIsDisabled, Disabling
    <2> QED
      BY <1>3, <2>1
  <1>6. CASE endpoint'[e].failures < DisableAfter \/ endpoint'[e].failures = 0
    <2>1. endpoint'[e].failures \in Nat
      BY DEF TypeOK, Endpoint
    <2> QED
      BY <1>3, <1>6, <2>1
  <1> QED
    BY <1>3, <1>5, <1>6

LEMMA InitStreakInv == Init => StreakInv
  BY InitTypeOK, WebhookAssumption DEF Init, StreakInv, EnabledIsStored, DeadIsDisabled

LEMMA EndpointStreakInv ==
    ASSUME StreakInv, NEW e \in Endpoints,
           \/ CreateEndpoint(e)
           \/ DeleteEndpoint(e)
           \/ \E enabled \in BOOLEAN : SetEndpointEnabled(e, enabled)
    PROVE  StreakInv'
  <1> USE WebhookAssumption DEF StreakInv
  <1>1. TypeOK'
    BY EndpointTypeOK
  <1>2. /\ crashes' = crashes /\ crashes \in Nat
        /\ pc' = pc /\ current' = current
        /\ endpoint \in [Endpoints -> Endpoint]
    BY DEF TypeOK, CreateEndpoint, DeleteEndpoint, SetEndpointEnabled, runner, bookkeeping
  <1>3. \A o \in Endpoints : o # e => endpoint'[o] = endpoint[o]
    BY <1>2 DEF CreateEndpoint, DeleteEndpoint, SetEndpointEnabled
  <1>4. \/ /\ endpoint'[e].state = "stored"
           /\ endpoint'[e].failures < DisableAfter
        \/ /\ endpoint'[e].state \in {"stored", "deleted"}
           /\ ~endpoint'[e].enabled
    <2>1. CASE CreateEndpoint(e)
      BY <1>2, <2>1 DEF CreateEndpoint, EnabledIsStored, Endpoint
    <2>2. CASE DeleteEndpoint(e)
      BY <1>2, <2>2 DEF DeleteEndpoint
    <2>3. ASSUME NEW enabled \in BOOLEAN, SetEndpointEnabled(e, enabled)
          PROVE  /\ endpoint'[e].state = "stored"
                 /\ endpoint'[e].failures < DisableAfter \/ ~endpoint'[e].enabled
      <3> DEFINE streak == IF enabled THEN 0 ELSE endpoint[e].failures
                 reason == IF enabled THEN "none" ELSE "user"
                 row == [endpoint[e] EXCEPT !.enabled = enabled, !.failures = streak,
                                            !.reason = reason]
      <3>1. endpoint' = [endpoint EXCEPT ![e] = row] /\ endpoint[e].state = "stored"
        BY <2>3, Zenon DEF SetEndpointEnabled, Stored
      <3>2. row.state = endpoint[e].state /\ row.enabled = enabled /\ row.failures = streak
        <4>1. endpoint[e] \in Endpoint
          BY <1>2
        <4> HIDE DEF streak, reason
        <4> QED
          BY <4>1, SwitchedFields
      <3> HIDE DEF row
      <3>3. endpoint'[e] = row
        BY <1>2, <3>1
      <3> QED
        BY <3>1, <3>2, <3>3
    <2> QED
      BY <2>1, <2>2, <2>3
  <1> QED
    BY <1>1, <1>2, <1>3, <1>4, StreakStep DEF Disabling

\* Steps that change neither an endpoint nor what a disabling runner does.
LEMMA QuietStreakInv ==
    ASSUME StreakInv, TypeOK', endpoint' = endpoint, crashes' >= crashes,
           \A r \in Runners :
              pc[r] = "disable" =>
                 \/ crashes' > 0
                 \/ pc'[r] = "disable" /\ current'[r] = current[r]
                 \/ ~Stored(EndpointOf(current[r]))
    PROVE  StreakInv'
  <1>1. ASSUME NEW e \in Endpoints, ~Stored(e) PROVE ~endpoint'[e].enabled
    BY <1>1 DEF StreakInv, EnabledIsStored, Stored
  <1> QED
    BY <1>1, StreakStep DEF Disabling

LEMMA RunnerStreakInv ==
    ASSUME StreakInv, NEW r \in Runners, RunnerStep(r)
    PROVE  StreakInv'
  <1> USE WebhookAssumption DEF StreakInv
  <1>1. TypeOK'
    BY RunnerTypeOK
  <1>2. /\ crashes \in Nat /\ r \in Runners
        /\ endpoint \in [Endpoints -> Endpoint]
        /\ DOMAIN current = Runners
        /\ current = [q \in Runners |-> current[q]]
        /\ pc = [q \in Runners |-> pc[q]]
    BY DEF TypeOK
  <1>3. ASSUME endpoint' = endpoint,
               crashes' >= crashes,
               pc[r] # "disable" \/ crashes' > 0 \/ ~Stored(EndpointOf(current[r])),
               \A q \in Runners : q # r => pc'[q] = pc[q] /\ current'[q] = current[q]
        PROVE  StreakInv'
    BY <1>1, <1>3, QuietStreakInv
  <1>4. CASE CountFailure(r)
    <2> DEFINE e == EndpointOf(current[r])
    <2>1. /\ crashes' = crashes /\ pc[r] = "count"
          /\ endpoint[e].state = "stored"
          /\ endpoint' = [endpoint EXCEPT ![e].failures = endpoint[e].failures + 1]
          /\ pc' = [pc EXCEPT ![r] = IF Dead(e) THEN "disable" ELSE "loop"]
          /\ Dead(e) => current' = current
          /\ \A q \in Runners : q # r => current'[q] = current[q]
      BY <1>2, <1>4 DEF CountFailure, bookkeeping, Stored
    <2>2. \A q \in Runners : q # r => pc'[q] = pc[q]
      BY <1>2, <2>1
    <2>3. ASSUME NEW o \in Endpoints, o # e PROVE endpoint'[o] = endpoint[o]
      BY <1>2, <2>1, <2>3
    <2>4. ASSUME e \in Endpoints
          PROVE  /\ endpoint'[e].state = "stored"
                 /\ \/ endpoint'[e].failures < DisableAfter
                    \/ ~endpoint'[e].enabled
                    \/ pc'[r] = "disable" /\ EndpointOf(current'[r]) = e
      <3>1. /\ endpoint'[e].state = "stored"
            /\ endpoint'[e].failures = endpoint[e].failures + 1
            /\ endpoint'[e].enabled = endpoint[e].enabled
            /\ endpoint[e].failures + 1 \in Nat
        BY <1>2, <2>1, <2>4 DEF Endpoint
      <3>2. CASE Dead(e)
        BY <1>2, <2>1, <3>2
      <3>3. CASE ~Dead(e)
        BY <3>1, <3>3 DEF Dead
      <3> QED
        BY <3>1, <3>2, <3>3
    <2>5. \A q \in Runners, o \in Endpoints : Disabling(q, o) => Disabling(q, o)'
      BY <2>1, <2>2 DEF Disabling
    <2> HIDE DEF e
    <2>6. crashes' >= crashes
      BY <1>2, <2>1
    <2>7. \A o \in Endpoints :
             \/ endpoint'[o] = endpoint[o]
             \/ /\ endpoint'[o].state = "stored"
                /\ endpoint'[o].failures < DisableAfter
             \/ /\ endpoint'[o].state = "stored"
                /\ ~endpoint'[o].enabled
             \/ /\ endpoint'[o].state = "stored"
                /\ \E q \in Runners : Disabling(q, o)'
      BY <1>2, <2>3, <2>4 DEF Disabling
    <2> QED
      BY <1>1, <2>5, <2>6, <2>7, StreakStep
  <1>5. CASE AutoDisable(r)
    <2> DEFINE e == EndpointOf(current[r])
    <2>1. /\ crashes' = crashes /\ pc[r] = "disable"
          /\ endpoint[e].state = "stored"
          /\ endpoint' = [endpoint EXCEPT ![e].enabled = FALSE, ![e].reason = "auto"]
          /\ \A q \in Runners : q # r => pc'[q] = pc[q] /\ current'[q] = current[q]
      BY <1>2, <1>5 DEF AutoDisable, bookkeeping, Stored
    <2>2. ASSUME NEW o \in Endpoints, o # e PROVE endpoint'[o] = endpoint[o]
      BY <1>2, <2>1, <2>2
    <2>3. ASSUME e \in Endpoints PROVE endpoint'[e].state = "stored" /\ ~endpoint'[e].enabled
      BY <1>2, <2>1, <2>3 DEF Endpoint
    <2>4. \A q \in Runners, o \in Endpoints :
             Disabling(q, o) => Disabling(q, o)' \/ ~endpoint'[o].enabled
      BY <2>1, <2>3 DEF Disabling
    <2> HIDE DEF e
    <2>5. crashes' >= crashes
      BY <1>2, <2>1
    <2> QED
      BY <1>1, <2>2, <2>3, <2>4, <2>5, StreakStep
  <1>6. CASE RecordSuccess(r)
    <2> DEFINE e == EndpointOf(current[r])
    <2>1. /\ crashes' = crashes /\ pc[r] = "accepted"
          /\ endpoint' = [endpoint EXCEPT ![e].failures = 0]
          /\ \A q \in Runners : q # r => pc'[q] = pc[q] /\ current'[q] = current[q]
      BY <1>2, <1>6 DEF RecordSuccess, bookkeeping
    <2>2. ASSUME NEW o \in Endpoints, o # e PROVE endpoint'[o] = endpoint[o]
      BY <1>2, <2>1, <2>2
    <2>3. ASSUME e \in Endpoints
          PROVE  /\ endpoint'[e].state = endpoint[e].state
                 /\ endpoint'[e].enabled = endpoint[e].enabled
                 /\ endpoint'[e].failures = 0
      BY <1>2, <2>1, <2>3 DEF Endpoint
    <2>4. \A q \in Runners, o \in Endpoints : Disabling(q, o) => Disabling(q, o)'
      BY <2>1 DEF Disabling
    <2> HIDE DEF e
    <2>5. crashes' >= crashes
      BY <1>2, <2>1
    <2> QED
      BY <1>1, <2>2, <2>3, <2>4, <2>5, StreakStep
  <1>7. CASE Crash(r)
    BY <1>2, <1>3, <1>7 DEF Crash, Forget
  <1>8. CASE AbortOnDeleted(r)
    BY <1>2, <1>3, <1>8 DEF AbortOnDeleted, Forget, bookkeeping
  <1>9. ASSUME \/ StartRun(r) \/ EndRun(r)
               \/ \E d \in Deliveries : BeginAttempt(r, d) \/ AbortOnMissing(r, d)
               \/ Post(r) \/ SuccessNotRecorded(r) \/ RecordFailure(r)
        PROVE  StreakInv'
    <2>1. /\ endpoint' = endpoint /\ crashes' = crashes
          /\ pc[r] # "disable"
          /\ \A q \in Runners : q # r => pc'[q] = pc[q] /\ current'[q] = current[q]
      BY <1>2, <1>9 DEF StartRun, EndRun, BeginAttempt, AbortOnMissing, Post,
         SuccessNotRecorded, RecordFailure, Forget, bookkeeping
    <2> QED
      BY <1>2, <1>3, <2>1
  <1> QED
    BY <1>4, <1>5, <1>6, <1>7, <1>8, <1>9 DEF RunnerStep

LEMMA NextStreakInv == StreakInv /\ [Next]_vars => StreakInv'
  <1> SUFFICES ASSUME StreakInv, [Next]_vars PROVE StreakInv'
    OBVIOUS
  <1>1. TypeOK'
    BY NextTypeOK DEF StreakInv
  <1>2. crashes \in Nat
    BY DEF StreakInv, TypeOK
  <1>3. ASSUME NEW d \in Deliveries, ReplayDelivery(d) \/ Ripen(d) PROVE StreakInv'
    <2>1. endpoint' = endpoint /\ crashes' = crashes /\ pc' = pc /\ current' = current
      BY <1>3 DEF ReplayDelivery, Ripen, runner, bookkeeping
    <2> QED
      BY <1>1, <1>2, <2>1, QuietStreakInv
  <1>4. ASSUME NEW v \in Events,
               \/ StoreEvent(v) \/ ReadEndpoints(v)
               \/ CreateDeliveries(v) \/ EmitCutOff(v)
        PROVE  StreakInv'
    <2>1. endpoint' = endpoint /\ crashes' >= crashes /\ pc' = pc /\ current' = current
      BY <1>2, <1>4 DEF StoreEvent, ReadEndpoints, CreateDeliveries, EmitCutOff, runner, bookkeeping
    <2> QED
      BY <1>1, <2>1, QuietStreakInv
  <1>5. CASE UNCHANGED vars
    <2>1. endpoint' = endpoint /\ crashes' = crashes /\ pc' = pc /\ current' = current
      BY <1>5 DEF vars
    <2> QED
      BY <1>1, <1>2, <2>1, QuietStreakInv
  <1> QED
    BY <1>3, <1>4, <1>5, EndpointStreakInv, RunnerStreakInv DEF Next

\* However runners overlap, an endpoint whose streak has reached the limit is
\* disabled, or about to be.
THEOREM DeadEndpointIsDisabled == Spec => []DeadIsDisabled
  <1>1. StreakInv => DeadIsDisabled
    BY DEF StreakInv
  <1> QED
    BY <1>1, InitStreakInv, NextStreakInv, PTL DEF Spec

-----------------------------------------------------------------------------
(* Nothing is given up untried, whatever overlaps, as long as the delivery   *)
(* is not replayed in the middle of an attempt                               *)

\* A runner's attempt number is covered by POSTs: those before it reads the
\* row, and its own.  A replay takes the POSTs back, so a delivery that was
\* replayed under way is excepted.
CountHeld(r) ==
    /\ pc[r] \in {"post", "accepted", "refused"} => current[r] \in Deliveries
    /\ pc[r] = "post" /\ current[r] \notin crossed =>
          \/ attempt[r] <= posts[current[r]] + 1
          \/ EndpointOf(current[r]) \in Undecryptable
    /\ pc[r] \in {"accepted", "refused"} /\ current[r] \notin crossed =>
          \/ attempt[r] <= posts[current[r]]
          \/ EndpointOf(current[r]) \in Undecryptable

HeldCounts == \A r \in Runners : CountHeld(r)

CountInv ==
    /\ TypeOK
    /\ HeldCounts
    /\ AttemptsWereMade
    /\ ExhaustedWasTried

\* What may become of a row, if it was not replayed under way: it is queued
\* afresh, or keeps its attempts, or gets attempts that POSTs were made for.
CoveredRow(d) ==
    \/ delivery'[d].status # "EXHAUSTED" /\ delivery'[d].attempts = 0
    \/ /\ posts'[d] >= posts[d]
       /\ \/ delivery'[d] = delivery[d]
          \/ /\ delivery'[d].status # "EXHAUSTED"
             /\ delivery'[d].attempts = delivery[d].attempts
          \/ /\ delivery'[d].attempts <= posts[d] \/ EndpointOf(d) \in Undecryptable
             /\ delivery'[d].status = "EXHAUSTED" =>
                   posts[d] >= MaxAttempts \/ EndpointOf(d) \in Undecryptable

\* Steps after which every row is covered and every runner's count holds.
LEMMA CoveredCountInv ==
    ASSUME CountInv, TypeOK', crossed \subseteq crossed', HeldCounts',
           \A d \in Deliveries \ crossed' : CoveredRow(d)
    PROVE  CountInv'
  <1> USE WebhookAssumption DEF CountInv
  <1>1. ASSUME NEW d \in Deliveries
        PROVE  posts[d] \in Nat /\ posts'[d] \in Nat /\ delivery[d].attempts \in Nat
               /\ delivery'[d].attempts \in Nat
    BY DEF TypeOK, Delivery
  <1>2. AttemptsWereMade'
    BY <1>1 DEF AttemptsWereMade, CoveredRow
  <1>3. ExhaustedWasTried'
    BY <1>1 DEF ExhaustedWasTried, CoveredRow
  <1> QED
    BY <1>2, <1>3

\* A runner that does nothing keeps its counts: POSTs are only added.
LEMMA IdleCountHeld ==
    ASSUME CountInv, TypeOK', NEW q \in Runners,
           crossed \subseteq crossed',
           \A d \in Deliveries : d = current[q] /\ d \notin crossed' => posts'[d] >= posts[d],
           \/ pc'[q] \notin {"post", "accepted", "refused"}
           \/ pc'[q] = pc[q] /\ current'[q] = current[q] /\ attempt'[q] = attempt[q]
    PROVE  CountHeld(q)'
  <1>1. ASSUME NEW d \in Deliveries PROVE posts[d] \in Nat /\ posts'[d] \in Nat
    BY DEF TypeOK, CountInv
  <1>2. attempt[q] \in Nat /\ CountHeld(q)
    BY DEF TypeOK, CountInv, HeldCounts
  <1> QED
    BY <1>1, <1>2 DEF CountHeld

LEMMA InitCountInv == Init => CountInv
  <1> SUFFICES ASSUME Init PROVE CountInv
    OBVIOUS
  <1>1. TypeOK
    BY InitTypeOK
  <1>2. HeldCounts
    BY DEF Init, HeldCounts, CountHeld
  <1>3. AttemptsWereMade /\ ExhaustedWasTried
    BY DEF Init, AttemptsWereMade, ExhaustedWasTried, NoRow
  <1> QED
    BY <1>1, <1>2, <1>3 DEF CountInv

LEMMA RunnerCountInv ==
    ASSUME CountInv, NEW r \in Runners, RunnerStep(r) PROVE CountInv'
  <1> USE WebhookAssumption
  <1>1. TypeOK /\ TypeOK'
    BY RunnerTypeOK DEF CountInv
  <1>2. /\ pc = [q \in Runners |-> pc[q]]
        /\ current = [q \in Runners |-> current[q]]
        /\ attempt = [q \in Runners |-> attempt[q]]
        /\ posts \in [Deliveries -> Nat]
        /\ \A d \in Deliveries : posts[d] \in Nat /\ delivery[d].attempts \in Nat
        /\ \A q \in Runners : attempt[q] \in Nat
        /\ delivery = [d \in Deliveries |-> delivery[d]]
    BY <1>1 DEF TypeOK, Delivery
  <1>3. /\ crossed' = crossed
        /\ \A q \in Runners \ {r} :
              pc'[q] = pc[q] /\ current'[q] = current[q] /\ attempt'[q] = attempt[q]
    BY <1>2 DEF RunnerStep, StartRun, EndRun, BeginAttempt, AbortOnMissing, Post, RecordSuccess,
       SuccessNotRecorded, RecordFailure, CountFailure, AutoDisable, AbortOnDeleted, Crash,
       Forget, bookkeeping
  <1>h. ASSUME \A d \in Deliveries : posts'[d] >= posts[d], CountHeld(r)'
         PROVE  HeldCounts'
    <2>1. ASSUME NEW q \in Runners, q # r PROVE CountHeld(q)'
      BY <1>1, <1>3, <1>h, <2>1, IdleCountHeld
    <2> QED
      BY <1>h, <2>1 DEF HeldCounts
  <1>4. ASSUME posts' = posts, delivery' = delivery,
               pc'[r] \notin {"post", "accepted", "refused"}
        PROVE  CountInv'
    <2>1. HeldCounts'
      BY <1>2, <1>4, <1>h DEF CountHeld
    <2> QED
      BY <1>1, <1>2, <1>3, <1>4, <2>1, CoveredCountInv DEF CoveredRow
  <1>5. CASE \/ StartRun(r) \/ EndRun(r) \/ CountFailure(r) \/ AutoDisable(r)
             \/ AbortOnDeleted(r) \/ Crash(r)
             \/ \E d \in Deliveries : AbortOnMissing(r, d)
    <2>1. /\ posts' = posts /\ delivery' = delivery
          /\ pc'[r] \notin {"post", "accepted", "refused"}
      BY <1>2, <1>5 DEF StartRun, EndRun, AbortOnMissing, CountFailure, AutoDisable,
         AbortOnDeleted, Crash, Forget
    <2> QED
      BY <1>4, <2>1
  <1>6. ASSUME NEW d \in Deliveries, BeginAttempt(r, d) PROVE CountInv'
    <2>1. /\ posts' = posts /\ delivery' = delivery
          /\ current'[r] = d /\ attempt'[r] = delivery[d].attempts + 1
          /\ \/ pc'[r] = "post"
             \/ pc'[r] = "refused" /\ EndpointOf(d) \in Undecryptable
      BY <1>2, <1>6 DEF BeginAttempt
    <2>2. delivery[d].attempts <= posts[d] \/ EndpointOf(d) \in Undecryptable \/ d \in crossed
      BY DEF CountInv, AttemptsWereMade
    <2>3. HeldCounts'
      BY <1>2, <1>3, <1>h, <2>1, <2>2 DEF CountHeld
    <2> QED
      BY <1>1, <1>2, <1>3, <2>1, <2>3, CoveredCountInv DEF CoveredRow
  <1>7. CASE Post(r)
    <2> DEFINE d == current[r]
    <2>1. /\ pc[r] = "post" /\ pc'[r] \in {"accepted", "refused"}
          /\ posts' = [posts EXCEPT ![d] = posts[d] + 1]
          /\ delivery' = delivery /\ current'[r] = d /\ attempt'[r] = attempt[r]
      <3>1. posts' = [posts EXCEPT ![d] = posts[d] + 1]
        BY <1>7, Zenon DEF Post
      <3> QED
        BY <1>2, <1>7, <3>1 DEF Post
    <2>2. /\ d \in Deliveries
          /\ attempt[r] <= posts[d] + 1 \/ EndpointOf(d) \in Undecryptable \/ d \in crossed
      BY <2>1 DEF CountInv, HeldCounts, CountHeld
    <2> HIDE DEF d
    <2>3. posts'[d] = posts[d] + 1 /\ \A o \in Deliveries : posts'[o] >= posts[o]
      BY <1>2, <2>1, <2>2
    <2>4. HeldCounts'
      <3>1. CountHeld(r)'
        BY <1>2, <1>3, <2>1, <2>2, <2>3 DEF CountHeld
      <3> QED
        BY <1>h, <2>3, <3>1
    <2> QED
      BY <1>1, <1>3, <2>1, <2>3, <2>4, CoveredCountInv DEF CoveredRow
  <1>8. CASE SuccessNotRecorded(r)
    <2>1. /\ posts' = posts /\ delivery' = delivery
          /\ pc[r] = "accepted" /\ pc'[r] = "refused"
          /\ current'[r] = current[r] /\ attempt'[r] = attempt[r]
      BY <1>2, <1>8 DEF SuccessNotRecorded
    <2>2. HeldCounts'
      <3>1. CountHeld(r)'
        BY <1>3, <2>1 DEF CountInv, HeldCounts, CountHeld
      <3> QED
        BY <1>2, <1>h, <2>1, <3>1
    <2> QED
      BY <1>1, <1>2, <1>3, <2>1, <2>2, CoveredCountInv DEF CoveredRow
  <1>9. CASE RecordSuccess(r) \/ RecordFailure(r)
    <2> DEFINE d == current[r]
    <2>1. /\ pc[r] \in {"accepted", "refused"} /\ pc'[r] \in {"loop", "count"}
          /\ posts' = posts
          /\ \/ delivery' = [delivery EXCEPT ![d] =
                   [status |-> "SUCCEEDED", attempts |-> attempt[r], due |-> FALSE]]
             \/ delivery' = [delivery EXCEPT ![d] =
                   [status |-> "FAILED", attempts |-> attempt[r], due |-> FALSE]]
             \/ /\ delivery' = [delivery EXCEPT ![d] =
                      [status |-> "EXHAUSTED", attempts |-> attempt[r], due |-> FALSE]]
                /\ EndpointOf(d) \in Undecryptable \/ attempt[r] >= MaxAttempts
      BY <1>2, <1>9 DEF RecordSuccess, RecordFailure, Exhausted
    <2>2. /\ d \in Deliveries
          /\ attempt[r] <= posts[d] \/ EndpointOf(d) \in Undecryptable \/ d \in crossed
      BY <2>1 DEF CountInv, HeldCounts, CountHeld
    <2> HIDE DEF d
    <2>3. /\ \A o \in Deliveries : o # d => delivery'[o] = delivery[o]
          /\ delivery'[d].attempts = attempt[r]
          /\ delivery'[d].status = "EXHAUSTED" =>
                EndpointOf(d) \in Undecryptable \/ attempt[r] >= MaxAttempts
      BY <1>2, <2>1, <2>2
    <2>4. delivery'[d].status = "EXHAUSTED" =>
             posts[d] >= MaxAttempts \/ EndpointOf(d) \in Undecryptable \/ d \in crossed
      BY <1>2, <2>2, <2>3
    <2>5. HeldCounts'
      BY <1>2, <1>h, <2>1 DEF CountHeld
    <2> QED
      BY <1>1, <1>2, <1>3, <2>1, <2>2, <2>3, <2>4, <2>5, CoveredCountInv DEF CoveredRow
  <1> QED
    BY <1>5, <1>6, <1>7, <1>8, <1>9 DEF RunnerStep

\* Steps of customers and of emitEvent: rows are queued, deleted, ripen.
LEMMA OthersCountInv ==
    ASSUME CountInv, TypeOK', posts' = posts, crossed' = crossed,
           pc' = pc, current' = current, attempt' = attempt,
           \A d \in Deliveries :
              \/ delivery'[d] = delivery[d]
              \/ delivery'[d] = NoRow
              \/ delivery'[d] = NewRow
              \/ /\ delivery'[d].status # "EXHAUSTED"
                 /\ delivery'[d].attempts = delivery[d].attempts
    PROVE  CountInv'
  <1>1. \A d \in Deliveries : posts[d] \in Nat
    BY DEF CountInv, TypeOK
  <1>2. HeldCounts'
    BY DEF CountInv, HeldCounts, CountHeld
  <1>3. /\ NoRow.status # "EXHAUSTED" /\ NoRow.attempts = 0
        /\ NewRow.status # "EXHAUSTED" /\ NewRow.attempts = 0
    BY DEF NoRow, NewRow
  <1> QED
    BY <1>1, <1>2, <1>3, CoveredCountInv DEF CoveredRow

\* A replay starts the count again; the runners that are at work on the
\* delivery are excepted from now on.
LEMMA ReplayCountInv ==
    ASSUME CountInv, TypeOK', NEW d \in Deliveries, ReplayDelivery(d) PROVE CountInv'
  <1>1. /\ posts' = [posts EXCEPT ![d] = 0] /\ delivery' = [delivery EXCEPT ![d] = NewRow]
        /\ pc' = pc /\ current' = current /\ attempt' = attempt
        /\ crossed' = IF \E r \in Runners : current[r] = d THEN crossed \cup {d} ELSE crossed
    BY DEF ReplayDelivery, runner
  <1>2. /\ DOMAIN posts = Deliveries /\ DOMAIN delivery = Deliveries
        /\ \A o \in Deliveries : posts[o] \in Nat
    BY DEF CountInv, TypeOK
  <1>3. HeldCounts'
    <2>1. ASSUME NEW q \in Runners PROVE CountHeld(q)'
      <3>1. \A o \in Deliveries : o = current[q] /\ o \notin crossed' => posts'[o] >= posts[o]
        BY <1>1, <1>2
      <3> QED
        BY <1>1, <3>1, IdleCountHeld
    <2> QED
      BY <2>1 DEF HeldCounts
  <1>4. \A o \in Deliveries \ crossed' : CoveredRow(o)
    BY <1>1, <1>2 DEF CoveredRow, NewRow
  <1> QED
    BY <1>1, <1>3, <1>4, CoveredCountInv

LEMMA NextCountInv == CountInv /\ [Next]_vars => CountInv'
  <1> SUFFICES ASSUME CountInv, [Next]_vars PROVE CountInv'
    OBVIOUS
  <1>1. TypeOK /\ TypeOK'
    BY NextTypeOK DEF CountInv
  <1> USE DEF emission, runner, bookkeeping
  <1>2. ASSUME NEW e \in Endpoints,
               \/ CreateEndpoint(e)
               \/ DeleteEndpoint(e)
               \/ \E enabled \in BOOLEAN : SetEndpointEnabled(e, enabled)
        PROVE  CountInv'
    BY <1>1, <1>2, OthersCountInv DEF CreateEndpoint, DeleteEndpoint, SetEndpointEnabled
  <1>3. ASSUME NEW d \in Deliveries, Ripen(d) PROVE CountInv'
    <2>1. delivery' = [delivery EXCEPT ![d].due = TRUE] /\ delivery[d].status = "FAILED"
      BY <1>3 DEF Ripen
    <2>2. delivery[d] \in Delivery /\ DOMAIN delivery = Deliveries
      BY <1>1 DEF TypeOK
    <2>3. /\ delivery'[d].status = "FAILED"
          /\ delivery'[d].attempts = delivery[d].attempts
          /\ \A o \in Deliveries : o # d => delivery'[o] = delivery[o]
      BY <2>1, <2>2 DEF Delivery
    <2> QED
      BY <1>1, <1>3, <2>3, OthersCountInv DEF Ripen
  <1>6. ASSUME NEW d \in Deliveries, ReplayDelivery(d) PROVE CountInv'
    BY <1>1, <1>6, ReplayCountInv
  <1>4. ASSUME NEW v \in Events,
               \/ StoreEvent(v) \/ ReadEndpoints(v)
               \/ CreateDeliveries(v) \/ EmitCutOff(v)
        PROVE  CountInv'
    BY <1>1, <1>4, OthersCountInv DEF StoreEvent, ReadEndpoints, CreateDeliveries, EmitCutOff
  <1>5. CASE UNCHANGED vars
    BY <1>1, <1>5, OthersCountInv DEF vars
  <1> QED
    BY <1>2, <1>3, <1>4, <1>5, <1>6, RunnerCountInv DEF Next

\* A delivery that is not replayed under way is given up only after
\* MAX_ATTEMPTS POSTs, however many runners overlap.
THEOREM GivenUpOnlyWhenTried == Spec => []ExhaustedWasTried
  <1>1. CountInv => ExhaustedWasTried
    BY DEF CountInv
  <1>2. Init => CountInv
    BY InitCountInv
  <1>3. CountInv /\ [Next]_vars => CountInv'
    BY NextCountInv
  <1> QED
    BY <1>1, <1>2, <1>3, PTL DEF Spec

\* ... and its row never claims more attempts than there were POSTs.
THEOREM NoAttemptIsInvented == Spec => []AttemptsWereMade
  <1>1. CountInv => AttemptsWereMade
    BY DEF CountInv
  <1>2. Init => CountInv
    BY InitCountInv
  <1>3. CountInv /\ [Next]_vars => CountInv'
    BY NextCountInv
  <1> QED
    BY <1>1, <1>2, <1>3, PTL DEF Spec

-----------------------------------------------------------------------------
(* Posting ends, unless two runs work on one delivery *)

\* A runner between two deliveries holds none; a delivery is not tried with a
\* secret that cannot be decrypted.
InHand(r) ==
    /\ pc[r] = "idle" => batch[r] = {}
    /\ pc[r] \in {"idle", "loop"} <=> current[r] = NoDelivery
    /\ current[r] \notin batch[r]
    /\ pc[r] = "post" => EndpointOf(current[r]) \notin Undecryptable

\* The attempt under way has a number no higher than the last, and the POSTs
\* before it are covered by the numbers before it and by crashes.
Tries(r) ==
    LET d == current[r]
    IN pc[r] \in {"post", "accepted", "refused"} /\ d \notin shared
          /\ EndpointOf(d) \notin Undecryptable =>
          /\ attempt[r] <= MaxAttempts
          /\ pc[r] = "post" => posts[d] < attempt[r] + crashes
          /\ pc[r] # "post" => posts[d] <= attempt[r] + crashes

Holds(r, d) == d \in batch[r] \/ current[r] = d

\* A delivery in two hands is in `shared`.
OneHolder == \A d \in Deliveries \ shared : \A r, q \in Runners : Holds(r, d) /\ Holds(q, d) => r = q

\* A POST was made that no row tells of yet.
Untold(d) == \E r \in Runners : current[r] = d /\ pc[r] \in {"accepted", "refused"}

\* The row tells of all POSTs but those cut off and the one under way, and what
\* waits has attempts left.
Told(d) ==
    /\ posts[d] <= MaxAttempts + crashes
    /\ (\E r \in Runners : d \in batch[r]) => Waiting(delivery[d]) \/ delivery[d].status = "NONE"
    /\ EndpointOf(d) \notin Undecryptable =>
          /\ Waiting(delivery[d]) => delivery[d].attempts < MaxAttempts
          /\ delivery[d].status # "NONE" =>
                /\ posts[d] <= delivery[d].attempts + crashes + 1
                /\ ~Untold(d) => posts[d] <= delivery[d].attempts + crashes

\* What emitEvent has not queued is not delivered.
Unqueued(d) ==
    emit[d[1]] # "over" =>
        /\ delivery[d].status = "NONE" /\ posts[d] = 0
        /\ \A r \in Runners : ~Holds(r, d)

PostInv ==
    /\ TypeOK
    /\ \A r \in Runners : InHand(r) /\ Tries(r)
    /\ OneHolder
    /\ \A d \in Deliveries \ shared : Told(d)
    /\ \A d \in Deliveries : Unqueued(d)

LEMMA PostNumbers ==
    ASSUME TypeOK
    PROVE  /\ \A d \in Deliveries : posts[d] \in Nat /\ delivery[d].attempts \in Nat
           /\ \A r \in Runners : attempt[r] \in Nat
           /\ crashes \in Nat /\ MaxAttempts \in Nat
  BY WebhookAssumption DEF TypeOK, Delivery

LEMMA InitPostInv == Init => PostInv
  <1> SUFFICES ASSUME Init PROVE PostInv
    OBVIOUS
  <1> USE WebhookAssumption DEF Init
  <1>1. TypeOK
    BY InitTypeOK
  <1>2. \A r \in Runners : InHand(r) /\ Tries(r) /\ \A d \in Deliveries : ~Holds(r, d)
    BY DEF InHand, Tries, Holds
  <1>3. \A d \in Deliveries : Told(d) /\ Unqueued(d)
    BY <1>2 DEF Told, Unqueued, NoRow, Waiting
  <1> QED
    BY <1>1, <1>2, <1>3 DEF PostInv, OneHolder

\* A row that does not change goes on telling of its POSTs, whoever drops it.
LEMMA ToldStays ==
    ASSUME TypeOK, TypeOK', NEW d \in Deliveries, Told(d),
           delivery'[d] = delivery[d], posts'[d] = posts[d], crashes' >= crashes,
           \A q \in Runners : d \in batch'[q] => d \in batch[q],
           Untold(d) => Untold(d)' \/ crashes' > crashes
    PROVE  Told(d)'
  <1>1. /\ posts[d] \in Nat /\ delivery[d].attempts \in Nat
        /\ crashes \in Nat /\ crashes' \in Nat /\ MaxAttempts \in Nat
    BY PostNumbers DEF TypeOK
  <1>2. (\E r \in Runners : d \in batch'[r]) => \E r \in Runners : d \in batch[r]
    OBVIOUS
  <1>3. ASSUME ~Untold(d)', delivery[d].status # "NONE", EndpointOf(d) \notin Undecryptable
        PROVE  posts[d] <= delivery[d].attempts + crashes'
    BY <1>1, <1>3 DEF Told
  <1> QED
    BY <1>1, <1>2, <1>3 DEF Told, Waiting

\* What a row without POSTs has to tell.
LEMMA NoPostsAreCovered ==
    ASSUME NEW m \in Nat, m # 0, NEW c \in Nat
    PROVE  0 < m /\ 0 <= m + c /\ 0 <= 0 + c + 1 /\ 0 <= 0 + c
  OBVIOUS

\* Steps of customers and of emitEvent: rows are queued, deleted, ripen.
LEMMA RowsPostInv ==
    ASSUME PostInv, TypeOK', pc' = pc, batch' = batch, current' = current, attempt' = attempt,
           shared' = shared, posts' = posts, crashes' >= crashes,
           \A d \in Deliveries : emit'[d[1]] # "over" => emit[d[1]] # "over",
           \A d \in Deliveries :
              \/ delivery'[d] = delivery[d]
              \/ delivery'[d].status = "NONE"
              \/ delivery'[d] = NewRow /\ emit[d[1]] # "over" /\ emit'[d[1]] = "over"
              \/ /\ Waiting(delivery[d]) /\ Waiting(delivery'[d])
                 /\ delivery'[d].attempts = delivery[d].attempts
                 /\ emit'[d[1]] = emit[d[1]]
    PROVE  PostInv'
  <1> USE DEF PostInv
  <1>0. TypeOK
    OBVIOUS
  <1>1. /\ \A d \in Deliveries : posts[d] \in Nat /\ delivery[d].attempts \in Nat
        /\ \A r \in Runners : attempt[r] \in Nat
        /\ crashes \in Nat /\ crashes' \in Nat /\ MaxAttempts \in Nat /\ MaxAttempts # 0
    BY <1>0, PostNumbers, WebhookAssumption DEF TypeOK
  <1>2. \A r \in Runners : InHand(r)'
    BY DEF InHand
  <1>3. \A r \in Runners : current[r] = NoDelivery \/ current[r] \in Deliveries
    BY <1>0 DEF TypeOK
  <1>4. ASSUME NEW r \in Runners PROVE Tries(r)'
    <2>1. CASE current[r] \in Deliveries
      BY <1>1, <2>1 DEF Tries
    <2>2. CASE current[r] = NoDelivery
      BY <2>2 DEF Tries, InHand
    <2> QED
      BY <1>3, <2>1, <2>2
  <1>5. OneHolder'
    BY DEF OneHolder, Holds
  <1>6. ASSUME NEW d \in Deliveries PROVE Unqueued(d)'
    <2>1. \A r \in Runners : Holds(r, d)' <=> Holds(r, d)
      BY DEF Holds
    <2>2. Unqueued(d)
      OBVIOUS
    <2>3. Waiting(delivery[d]) => delivery[d].status # "NONE"
      BY DEF Waiting
    <2> QED
      BY <2>1, <2>2, <2>3 DEF Unqueued
  <1>8. /\ 0 < MaxAttempts /\ 0 <= MaxAttempts + crashes'
        /\ 0 <= 0 + crashes' + 1 /\ 0 <= 0 + crashes'
    BY <1>1, NoPostsAreCovered
  <1>7. ASSUME NEW d \in Deliveries \ shared PROVE Told(d)'
    <2>1. Told(d) /\ (Untold(d)' <=> Untold(d))
      BY DEF Untold
    <2>2. CASE delivery'[d] = delivery[d]
      BY <1>0, <2>1, <2>2, ToldStays
    <2>3. CASE delivery'[d].status = "NONE"
      BY <1>1, <2>1, <2>3 DEF Told, Waiting
    <2>4. CASE delivery'[d] = NewRow /\ emit[d[1]] # "over"
      <3>1. posts[d] = 0
        BY <2>4 DEF Unqueued
      <3>2. /\ delivery'[d].status = "PENDING" /\ delivery'[d].attempts = 0
            /\ posts'[d] = 0
        BY <2>4, <3>1 DEF NewRow
      <3>3. Waiting(delivery'[d])
        BY <3>2 DEF Waiting
      <3> QED
        BY <1>8, <3>2, <3>3 DEF Told
    <2>5. CASE /\ Waiting(delivery[d]) /\ Waiting(delivery'[d])
               /\ delivery'[d].attempts = delivery[d].attempts
      <3>1. delivery[d].status # "NONE"
        BY <2>5 DEF Waiting
      <3> QED
        BY <1>1, <2>1, <2>5, <3>1 DEF Told
    <2> QED
      BY <2>2, <2>3, <2>4, <2>5
  <1> QED
    BY <1>2, <1>4, <1>5, <1>6, <1>7

\* A replay takes the POSTs back.
LEMMA ReplayPostInv ==
    ASSUME PostInv, TypeOK', NEW d \in Deliveries, ReplayDelivery(d) PROVE PostInv'
  <1> USE DEF PostInv
  <1>0. TypeOK
    OBVIOUS
  <1>1. /\ \A o \in Deliveries : posts[o] \in Nat /\ delivery[o].attempts \in Nat
        /\ \A r \in Runners : attempt[r] \in Nat
        /\ crashes \in Nat /\ MaxAttempts \in Nat /\ MaxAttempts # 0
    BY <1>0, PostNumbers, WebhookAssumption
  <1>2. /\ pc' = pc /\ batch' = batch /\ current' = current /\ attempt' = attempt
        /\ shared' = shared /\ crashes' = crashes /\ emit' = emit
        /\ delivery[d].status # "NONE"
        /\ delivery'[d] = NewRow /\ posts'[d] = 0
        /\ \A o \in Deliveries : o # d => delivery'[o] = delivery[o] /\ posts'[o] = posts[o]
    BY DEF ReplayDelivery, emission, runner, TypeOK
  <1>3. \A r \in Runners : InHand(r)'
    BY <1>2 DEF InHand
  <1>4. ASSUME NEW r \in Runners PROVE Tries(r)'
    <2>1. CASE current[r] \in Deliveries
      <3>1. posts'[current[r]] <= posts[current[r]]
        BY <1>1, <1>2, <2>1
      <3>2. posts'[current[r]] \in Nat
        BY <1>1, <1>2, <2>1
      <3> QED
        BY <1>1, <1>2, <2>1, <3>1, <3>2 DEF Tries
    <2>2. CASE current[r] = NoDelivery
      BY <1>2, <2>2 DEF Tries, InHand
    <2> QED
      BY <1>0, <2>1, <2>2 DEF TypeOK
  <1>5. OneHolder'
    BY <1>2 DEF OneHolder, Holds
  <1>6. \A o \in Deliveries : Unqueued(o)'
    BY <1>2 DEF Unqueued, Holds
  <1>7. ASSUME NEW o \in Deliveries \ shared PROVE Told(o)'
    <2>1. Untold(o)' <=> Untold(o)
      BY <1>2 DEF Untold
    <2>2. CASE o = d
      BY <1>1, <1>2, <2>1, <2>2 DEF Told, Waiting, NewRow
    <2>3. CASE o # d
      BY <1>0, <1>1, <1>2, <2>1, <2>3, ToldStays
    <2> QED
      BY <2>2, <2>3
  <1> QED
    BY <1>2, <1>3, <1>4, <1>5, <1>6, <1>7

\* Runner r moves on with what it holds.
LEMMA RunnerPostInv ==
    ASSUME PostInv, TypeOK', NEW r \in Runners,
           emit' = emit, shared' = shared, crashes' >= crashes,
           \A q \in Runners \ {r} : /\ pc'[q] = pc[q] /\ batch'[q] = batch[q]
                                    /\ current'[q] = current[q] /\ attempt'[q] = attempt[q],
           \A d \in Deliveries : Holds(r, d)' => Holds(r, d),
           \A d \in Deliveries : d # current[r] =>
              posts'[d] = posts[d] /\ delivery'[d] = delivery[d],
           InHand(r)', Tries(r)',
           \A d \in Deliveries \ shared : Holds(r, d) => Told(d)'
    PROVE  PostInv'
  <1> USE DEF PostInv
  <1>0. TypeOK
    OBVIOUS
  <1>1. /\ \A d \in Deliveries : posts[d] \in Nat /\ delivery[d].attempts \in Nat
        /\ \A q \in Runners : attempt[q] \in Nat
        /\ crashes \in Nat /\ crashes' \in Nat /\ MaxAttempts \in Nat
    BY <1>0, PostNumbers DEF TypeOK
  <1>2. \A q \in Runners, d \in Deliveries : Holds(q, d)' => Holds(q, d)
    BY DEF Holds
  <1>3. OneHolder'
    BY <1>2 DEF OneHolder
  <1>4. ASSUME NEW q \in Runners PROVE InHand(q)' /\ Tries(q)'
    <2>1. CASE q = r
      BY <2>1
    <2>2. CASE q # r
      <3>0. /\ pc'[q] = pc[q] /\ batch'[q] = batch[q]
            /\ current'[q] = current[q] /\ attempt'[q] = attempt[q]
        BY <2>2
      <3>1. InHand(q)'
        BY <3>0 DEF InHand
      <3>2. CASE current[q] = NoDelivery
        BY <3>0, <3>2 DEF Tries, InHand
      <3>3. CASE current[q] \in Deliveries /\ current[q] \in shared
        BY <3>0, <3>1, <3>3 DEF Tries
      <3>4. CASE current[q] \in Deliveries /\ current[q] \notin shared
        <4>1. current[q] # current[r]
          BY <2>2, <3>4 DEF OneHolder, Holds
        <4>2. posts'[current[q]] = posts[current[q]]
          BY <3>4, <4>1
        <4>3. Tries(q)
          OBVIOUS
        <4>4. /\ posts[current[q]] \in Nat /\ attempt[q] \in Nat
              /\ crashes \in Nat /\ crashes' \in Nat /\ crashes' >= crashes
          BY <1>1, <3>4
        <4>5. /\ posts[current[q]] < attempt[q] + crashes => posts[current[q]] < attempt[q] + crashes'
              /\ posts[current[q]] <= attempt[q] + crashes => posts[current[q]] <= attempt[q] + crashes'
          BY <4>4
        <4> HIDE DEF PostInv
        <4> QED
          BY <3>0, <3>1, <3>4, <4>2, <4>3, <4>5 DEF Tries
      <3> QED
        BY <1>0, <3>1, <3>2, <3>3, <3>4 DEF TypeOK
    <2> QED
      BY <2>1, <2>2
  <1>5. ASSUME NEW d \in Deliveries PROVE Unqueued(d)'
    <2>1. Unqueued(d)
      OBVIOUS
    <2>2. ~Holds(r, d) => d # current[r]
      BY DEF Holds
    <2> QED
      BY <1>2, <2>1, <2>2 DEF Unqueued
  <1>6. ASSUME NEW d \in Deliveries \ shared PROVE Told(d)'
    <2>1. CASE Holds(r, d)
      BY <2>1
    <2>2. CASE ~Holds(r, d)
      <3>1. d # current[r] /\ d \notin batch[r]
        BY <2>2 DEF Holds
      <3>2. \A q \in Runners : d \in batch'[q] => d \in batch[q]
        <4> SUFFICES ASSUME NEW q \in Runners, d \in batch'[q] PROVE d \in batch[q]
          OBVIOUS
        <4>1. q # r
          BY <2>2 DEF Holds
        <4> QED
          BY <4>1
      <3>3. Untold(d) => Untold(d)'
        BY <3>1 DEF Untold
      <3>4. Told(d)
        OBVIOUS
      <3> QED
        BY <1>0, <3>1, <3>2, <3>3, <3>4, ToldStays
    <2> QED
      BY <2>1, <2>2
  <1> QED
    BY <1>3, <1>4, <1>5, <1>6

\* A row that does not change goes on telling of its POSTs when runner r moves on.
LEMMA ToldWhileMoving ==
    ASSUME TypeOK, TypeOK', NEW r \in Runners, NEW d \in Deliveries, Told(d),
           delivery'[d] = delivery[d], posts'[d] = posts[d], crashes' >= crashes,
           \A q \in Runners \ {r} : /\ pc'[q] = pc[q] /\ batch'[q] = batch[q]
                                    /\ current'[q] = current[q],
           d \in batch'[r] => d \in batch[r],
           \/ current[r] # d
           \/ pc[r] \notin {"accepted", "refused"}
           \/ pc'[r] \in {"accepted", "refused"} /\ current'[r] = d
           \/ crashes' > crashes
    PROVE  Told(d)'
  <1>1. \A q \in Runners : d \in batch'[q] => d \in batch[q]
    <2> SUFFICES ASSUME NEW q \in Runners PROVE d \in batch'[q] => d \in batch[q]
      OBVIOUS
    <2>1. CASE q = r
      BY <2>1
    <2>2. CASE q # r
      BY <2>2
    <2> QED
      BY <2>1, <2>2
  <1>2. Untold(d) => Untold(d)' \/ crashes' > crashes
    <2> SUFFICES ASSUME NEW q \in Runners, current[q] = d, pc[q] \in {"accepted", "refused"},
                        ~(crashes' > crashes)
                 PROVE  Untold(d)'
      BY DEF Untold
    <2>1. CASE q = r
      BY <2>1 DEF Untold
    <2>2. CASE q # r
      BY <2>2 DEF Untold
    <2> QED
      BY <2>1, <2>2
  <1> QED
    BY <1>1, <1>2, ToldStays

\* A run begins with what is due; what another run has in hand is shared.
LEMMA StartPostInv ==
    ASSUME PostInv, TypeOK', NEW r \in Runners, StartRun(r) PROVE PostInv'
  <1> USE DEF PostInv
  <1>0. TypeOK
    OBVIOUS
  <1>1. /\ emit' = emit /\ crashes' = crashes /\ posts' = posts /\ delivery' = delivery
        /\ current' = current /\ attempt' = attempt
        /\ pc[r] = "idle" /\ pc'[r] = "loop" /\ batch'[r] = Due
        /\ \A q \in Runners \ {r} : pc'[q] = pc[q] /\ batch'[q] = batch[q]
        /\ shared \subseteq shared'
        /\ \A d \in Due : (\E q \in Runners \ {r} : Holds(q, d)) => d \in shared'
    BY <1>0 DEF StartRun, emission, TypeOK, Holds
  <1>2. current[r] = NoDelivery /\ NoDelivery \notin Deliveries /\ Due \subseteq Deliveries
    BY <1>1, WebhookAssumption DEF InHand, Due
  <1>3. ASSUME NEW q \in Runners PROVE InHand(q)' /\ Tries(q)'
    <2>1. CASE q = r
      BY <1>1, <1>2, <2>1 DEF InHand, Tries
    <2>2. CASE q # r
      <3>1. pc'[q] = pc[q] /\ batch'[q] = batch[q]
        BY <1>1, <2>2
      <3>2. InHand(q)'
        BY <1>1, <3>1 DEF InHand
      <3>3. Tries(q)'
        BY <1>1, <3>1 DEF Tries
      <3> QED
        BY <3>2, <3>3
    <2> QED
      BY <2>1, <2>2
  <1>4. \A q \in Runners \ {r} : \A d \in Deliveries : Holds(q, d)' <=> Holds(q, d)
    BY <1>1 DEF Holds
  <1>5. \A d \in Deliveries : Holds(r, d)' => d \in Due
    BY <1>1, <1>2 DEF Holds
  <1>6. OneHolder'
    <2> SUFFICES ASSUME NEW d \in Deliveries \ shared', NEW q1 \in Runners, NEW q2 \in Runners,
                        Holds(q1, d)', Holds(q2, d)'
                 PROVE  q1 = q2
      BY DEF OneHolder
    <2>1. CASE q1 # r /\ q2 # r
      BY <1>1, <1>4, <2>1 DEF OneHolder
    <2>2. CASE q1 = r /\ q2 # r
      BY <1>1, <1>4, <1>5, <2>2
    <2>3. CASE q1 # r /\ q2 = r
      BY <1>1, <1>4, <1>5, <2>3
    <2> QED
      BY <2>1, <2>2, <2>3
  <1>7. ASSUME NEW d \in Deliveries PROVE Unqueued(d)'
    <2>1. Unqueued(d)
      OBVIOUS
    <2>2. d \in Due => delivery[d].status # "NONE"
      BY DEF Due, Waiting
    <2>3. ASSUME NEW q \in Runners, Holds(q, d)' PROVE Holds(q, d) \/ d \in Due
      BY <1>4, <1>5, <2>3
    <2> QED
      BY <1>1, <2>1, <2>2, <2>3 DEF Unqueued
  <1>8. ASSUME NEW d \in Deliveries \ shared' PROVE Told(d)'
    <2>1. Told(d)
      BY <1>1
    <2>2. Untold(d) => Untold(d)'
      BY <1>1, <1>2 DEF Untold
    <2>3. Untold(d)' => Untold(d)
      BY <1>1, <1>2 DEF Untold
    <2>4. (\E q \in Runners : d \in batch'[q]) => (\E q \in Runners : d \in batch[q]) \/ d \in Due
      BY <1>1
    <2>5. d \in Due => Waiting(delivery[d])
      BY DEF Due
    <2> QED
      BY <1>1, <2>1, <2>2, <2>3, <2>4, <2>5 DEF Told
  <1> QED
    BY <1>3, <1>6, <1>7, <1>8

\* The end of a run.  Only a runner cut off drops a POST that no row tells of.
LEMMA ForgetPostInv ==
    ASSUME PostInv, TypeOK', NEW r \in Runners,
           \/ EndRun(r) \/ AbortOnDeleted(r) \/ Crash(r)
           \/ \E d \in Deliveries : AbortOnMissing(r, d)
    PROVE  PostInv'
  <1> USE DEF PostInv
  <1>0. TypeOK
    OBVIOUS
  <1>1. /\ Forget(r)
        /\ emit' = emit /\ posts' = posts /\ delivery' = delivery /\ shared' = shared
        /\ crashes' = crashes \/ (crashes' = crashes + 1 /\ Crash(r))
    BY DEF EndRun, AbortOnDeleted, Crash, AbortOnMissing, emission, bookkeeping
  <1>2. /\ pc'[r] = "idle" /\ batch'[r] = {} /\ current'[r] = NoDelivery
        /\ \A q \in Runners \ {r} : /\ pc'[q] = pc[q] /\ batch'[q] = batch[q]
                                    /\ current'[q] = current[q] /\ attempt'[q] = attempt[q]
        /\ NoDelivery \notin Deliveries
    BY <1>0, <1>1, WebhookAssumption DEF Forget, TypeOK
  <1>3. crashes \in Nat /\ crashes' \in Nat
    BY <1>0 DEF TypeOK
  <1>4. crashes' >= crashes /\ (Crash(r) => crashes' > crashes)
    <2>1. Crash(r) => crashes' = crashes + 1
      BY DEF Crash
    <2> QED
      BY <1>1, <1>3, <2>1
  <1>5. InHand(r)' /\ Tries(r)' /\ \A d \in Deliveries : ~Holds(r, d)'
    BY <1>2 DEF InHand, Tries, Holds
  <1>6. ASSUME NEW d \in Deliveries \ shared PROVE Told(d)'
    <2>0. Told(d)
      OBVIOUS
    <2>1. CASE \/ current[r] # d
               \/ pc[r] \notin {"accepted", "refused"}
               \/ crashes' > crashes
      BY <1>0, <1>1, <1>2, <1>4, <2>0, <2>1, ToldWhileMoving
    <2>2. CASE current[r] = d /\ pc[r] \in {"accepted", "refused"} /\ ~(crashes' > crashes)
      <3>1. delivery[d].status = "NONE"
        BY <1>4, <2>2 DEF EndRun, AbortOnMissing, AbortOnDeleted, Exists
      <3>2. posts[d] \in Nat /\ MaxAttempts \in Nat
        BY <1>0, PostNumbers
      <3>3. posts[d] <= MaxAttempts + crashes'
        BY <1>3, <1>4, <2>0, <3>2 DEF Told
      <3> QED
        BY <1>1, <3>1, <3>3 DEF Told, Waiting
    <2> QED
      BY <2>1, <2>2
  <1> QED
    BY <1>1, <1>2, <1>4, <1>5, <1>6, RunnerPostInv

\* The row read for an attempt is waiting, nobody else works on it, and its
\* number is the next.
LEMMA BeginPostInv ==
    ASSUME PostInv, TypeOK', NEW r \in Runners, NEW d \in Deliveries, BeginAttempt(r, d)
    PROVE  PostInv'
  <1> USE DEF PostInv
  <1>0. TypeOK
    OBVIOUS
  <1>1. /\ emit' = emit /\ posts' = posts /\ delivery' = delivery /\ shared' = shared
        /\ crashes' = crashes
        /\ pc[r] = "loop" /\ d \in batch[r] /\ delivery[d].status # "NONE"
        /\ pc'[r] = IF EndpointOf(d) \in Undecryptable THEN "refused" ELSE "post"
        /\ batch'[r] = batch[r] \ {d} /\ current'[r] = d
        /\ attempt'[r] = delivery[d].attempts + 1
        /\ \A q \in Runners \ {r} : /\ pc'[q] = pc[q] /\ batch'[q] = batch[q]
                                    /\ current'[q] = current[q] /\ attempt'[q] = attempt[q]
    BY <1>0 DEF BeginAttempt, emission, bookkeeping, TypeOK
  <1>2. /\ posts[d] \in Nat /\ delivery[d].attempts \in Nat
        /\ crashes \in Nat /\ MaxAttempts \in Nat
    BY <1>0, PostNumbers
  <1>3. current[r] = NoDelivery /\ NoDelivery \notin Deliveries
    BY <1>1, WebhookAssumption DEF InHand
  <1>4. InHand(r)'
    BY <1>1, <1>3 DEF InHand
  <1>5. Tries(r)'
    <2>1. CASE d \in shared \/ EndpointOf(d) \in Undecryptable
      BY <1>1, <2>1 DEF Tries
    <2>2. CASE d \notin shared /\ EndpointOf(d) \notin Undecryptable
      <3>1. Told(d) /\ Waiting(delivery[d])
        BY <1>1, <2>2 DEF Told
      <3>2. ~Untold(d)
        <4> SUFFICES ASSUME NEW q \in Runners, current[q] = d, pc[q] \in {"accepted", "refused"}
                     PROVE  FALSE
          BY DEF Untold
        <4>1. q = r
          BY <1>1, <2>2 DEF OneHolder, Holds
        <4> QED
          BY <1>1, <4>1
      <3>3. delivery[d].attempts < MaxAttempts /\ posts[d] <= delivery[d].attempts + crashes
        BY <1>1, <2>2, <3>1, <3>2 DEF Told
      <3>4. delivery[d].attempts + 1 <= MaxAttempts
            /\ posts[d] < delivery[d].attempts + 1 + crashes
        BY <1>2, <3>3
      <3> QED
        BY <1>1, <2>2, <3>4 DEF Tries
    <2> QED
      BY <2>1, <2>2
  <1>6. ASSUME NEW o \in Deliveries \ shared PROVE Told(o)'
    <2>1. Told(o) /\ current[r] # o /\ (o \in batch'[r] => o \in batch[r])
      BY <1>1, <1>3
    <2>2. delivery'[o] = delivery[o] /\ posts'[o] = posts[o] /\ crashes' >= crashes
      BY <1>1, <1>2
    <2> QED
      BY <1>0, <1>1, <2>1, <2>2, ToldWhileMoving
  <1>7. \A o \in Deliveries : Holds(r, o)' => Holds(r, o)
    BY <1>1 DEF Holds
  <1>8. crashes' >= crashes
    BY <1>1, <1>2
  <1> QED
    BY <1>1, <1>4, <1>5, <1>6, <1>7, <1>8, RunnerPostInv

\* The POST of an attempt.
LEMMA PostPostInv ==
    ASSUME PostInv, TypeOK', NEW r \in Runners, Post(r) PROVE PostInv'
  <1> USE DEF PostInv
  <1>0. TypeOK
    OBVIOUS
  <1>1. PICK d \in Deliveries : d = current[r]
    BY <1>0 DEF TypeOK, InHand, Post
  <1>2. /\ pc[r] = "post" /\ pc'[r] \in {"accepted", "refused"}
        /\ posts' = [posts EXCEPT ![d] = posts[d] + 1]
    <2>1. posts' = [posts EXCEPT ![d] = posts[d] + 1]
      BY <1>1, Zenon DEF Post
    <2> QED
      BY <1>0, <2>1 DEF Post, TypeOK
  <1>3. /\ emit' = emit /\ delivery' = delivery /\ shared' = shared /\ crashes' = crashes
        /\ batch' = batch /\ current' = current /\ attempt' = attempt
        /\ \A q \in Runners \ {r} : pc'[q] = pc[q]
    BY <1>0 DEF Post, emission, bookkeeping, TypeOK
  <1>4. /\ posts[d] \in Nat /\ delivery[d].attempts \in Nat /\ attempt[r] \in Nat
        /\ crashes \in Nat /\ MaxAttempts \in Nat
    BY <1>0, <1>1, PostNumbers
  <1>5. EndpointOf(d) \notin Undecryptable
    BY <1>1, <1>2 DEF InHand
  <1>6. current[r] = d /\ InHand(r) /\ Tries(r)
    BY <1>1
  <1>7. posts'[d] = posts[d] + 1 /\ \A o \in Deliveries : o # d => posts'[o] = posts[o]
    BY <1>0, <1>1, <1>2 DEF TypeOK
  <1>8. InHand(r)'
    BY <1>1, <1>2, <1>3, <1>6, WebhookAssumption DEF InHand
  <1>9. d \notin shared => attempt[r] <= MaxAttempts /\ posts[d] < attempt[r] + crashes
    BY <1>2, <1>5, <1>6 DEF Tries
  <1>10. d \notin shared => /\ attempt[r] <= MaxAttempts
                            /\ posts[d] + 1 <= attempt[r] + crashes
                            /\ posts[d] + 1 <= MaxAttempts + crashes
    BY <1>4, <1>9
  <1>11. Tries(r)'
    BY <1>2, <1>3, <1>6, <1>7, <1>10 DEF Tries
  <1>12. ASSUME d \notin shared PROVE Told(d)'
    <2>1. Told(d) /\ d \notin batch[r]
      BY <1>1, <1>6, <1>12 DEF InHand
    <2>2. Untold(d)'
      BY <1>2, <1>3, <1>6 DEF Untold
    <2>3. ~Untold(d)
      <3> SUFFICES ASSUME NEW q \in Runners, current[q] = d, pc[q] \in {"accepted", "refused"}
                   PROVE  FALSE
        BY DEF Untold
      <3>1. q = r
        BY <1>1, <1>6, <1>12 DEF OneHolder, Holds
      <3> QED
        BY <1>2, <3>1
    <2>4. delivery[d].status # "NONE" => posts[d] + 1 <= delivery[d].attempts + crashes + 1
      BY <1>4, <1>5, <2>1, <2>3 DEF Told
    <2> QED
      BY <1>3, <1>7, <1>10, <1>12, <2>1, <2>2, <2>4 DEF Told
  <1>13. ASSUME NEW o \in Deliveries \ shared PROVE Told(o)'
    <2>1. CASE o = d
      BY <1>12, <2>1
    <2>2. CASE o # d
      <3>1. Told(o) /\ current[r] # o
        BY <1>6, <2>2
      <3>2. crashes' >= crashes
        BY <1>3, <1>4
      <3> QED
        BY <1>0, <1>3, <1>7, <2>2, <3>1, <3>2, ToldWhileMoving
    <2> QED
      BY <2>1, <2>2
  <1>14. \A o \in Deliveries : Holds(r, o)' => Holds(r, o)
    BY <1>3 DEF Holds
  <1>15. crashes' >= crashes
    BY <1>3, <1>4
  <1> QED
    BY <1>3, <1>6, <1>7, <1>8, <1>11, <1>13, <1>14, <1>15, RunnerPostInv

\* A row is written with the number of the attempt, and waits only with
\* attempts left.
LEMMA RecordPostInv ==
    ASSUME PostInv, TypeOK', NEW r \in Runners, RecordSuccess(r) \/ RecordFailure(r)
    PROVE  PostInv'
  <1> USE DEF PostInv
  <1>0. TypeOK
    OBVIOUS
  <1>1. pc[r] \in {"accepted", "refused"} /\ pc'[r] \in {"loop", "count"}
    BY <1>0 DEF RecordSuccess, RecordFailure, TypeOK
  <1>2. PICK d \in Deliveries : d = current[r]
    BY <1>0, <1>1 DEF TypeOK, InHand
  <1>3. /\ emit' = emit /\ posts' = posts /\ shared' = shared /\ crashes' = crashes
        /\ batch' = batch
        /\ \A q \in Runners \ {r} : /\ pc'[q] = pc[q]
                                    /\ current'[q] = current[q] /\ attempt'[q] = attempt[q]
        /\ current'[r] = IF pc'[r] = "loop" THEN NoDelivery ELSE d
    BY <1>0, <1>2 DEF RecordSuccess, RecordFailure, emission, bookkeeping, TypeOK
  <1>4. /\ posts[d] \in Nat /\ attempt[r] \in Nat /\ crashes \in Nat /\ MaxAttempts \in Nat
    BY <1>0, <1>2, PostNumbers
  <1>5. \/ delivery' = [delivery EXCEPT ![d] =
              [status |-> "SUCCEEDED", attempts |-> attempt[r], due |-> FALSE]]
        \/ /\ delivery' = [delivery EXCEPT ![d] =
                 [status |-> "FAILED", attempts |-> attempt[r], due |-> FALSE]]
           /\ EndpointOf(d) \notin Undecryptable /\ ~(attempt[r] >= MaxAttempts)
        \/ delivery' = [delivery EXCEPT ![d] =
              [status |-> "EXHAUSTED", attempts |-> attempt[r], due |-> FALSE]]
    BY <1>2 DEF RecordSuccess, RecordFailure, Exhausted
  <1>6. current[r] = d /\ InHand(r) /\ Tries(r)
    BY <1>2
  <1>7. /\ \A o \in Deliveries : o # d => delivery'[o] = delivery[o]
        /\ delivery'[d].attempts = attempt[r]
        /\ delivery'[d].status \in {"SUCCEEDED", "FAILED", "EXHAUSTED"}
        /\ delivery'[d].status = "FAILED" => ~(attempt[r] >= MaxAttempts)
    BY <1>0, <1>2, <1>5 DEF TypeOK
  <1>8. InHand(r)' /\ Tries(r)'
    <2>1. CASE pc'[r] = "loop"
      BY <1>0, <1>3, <2>1, WebhookAssumption DEF InHand, Tries, TypeOK
    <2>2. CASE pc'[r] = "count"
      BY <1>2, <1>3, <1>6, <2>2, WebhookAssumption DEF InHand, Tries
    <2> QED
      BY <1>1, <2>1, <2>2
  <1>9. ASSUME d \notin shared PROVE Told(d)'
    <2>1. Told(d)
      BY <1>2, <1>9
    <2>2. \A q \in Runners : d \notin batch[q]
      BY <1>2, <1>6, <1>9 DEF OneHolder, Holds, InHand
    <2>3. EndpointOf(d) \notin Undecryptable => posts[d] <= attempt[r] + crashes
      BY <1>1, <1>6, <1>9 DEF Tries
    <2>4. EndpointOf(d) \notin Undecryptable => posts[d] <= attempt[r] + crashes + 1
      BY <1>4, <2>3
    <2>5. Waiting(delivery'[d]) => attempt[r] < MaxAttempts
      BY <1>4, <1>7 DEF Waiting
    <2>6. posts[d] <= MaxAttempts + crashes
      BY <2>1 DEF Told
    <2> QED
      BY <1>3, <1>7, <2>2, <2>3, <2>4, <2>5, <2>6 DEF Told
  <1>10. crashes' >= crashes
    BY <1>3, <1>4
  <1>11. ASSUME NEW o \in Deliveries \ shared PROVE Told(o)'
    <2>1. CASE o = d
      BY <1>9, <2>1
    <2>2. CASE o # d
      <3>1. Told(o) /\ current[r] # o
        BY <1>6, <2>2
      <3> QED
        BY <1>0, <1>3, <1>7, <1>10, <2>2, <3>1, ToldWhileMoving
    <2> QED
      BY <2>1, <2>2
  <1>12. \A o \in Deliveries : Holds(r, o)' => Holds(r, o)
    BY <1>3, <1>6, WebhookAssumption DEF Holds
  <1> QED
    BY <1>3, <1>6, <1>7, <1>8, <1>10, <1>11, <1>12, RunnerPostInv

\* Neither a row nor a POST: an answer not recorded, and the endpoint's streak.
LEMMA StreakPostInv ==
    ASSUME PostInv, TypeOK', NEW r \in Runners,
           SuccessNotRecorded(r) \/ CountFailure(r) \/ AutoDisable(r)
    PROVE  PostInv'
  <1> USE DEF PostInv
  <1>0. TypeOK
    OBVIOUS
  <1>1. /\ emit' = emit /\ posts' = posts /\ delivery' = delivery /\ shared' = shared
        /\ crashes' = crashes /\ batch' = batch
        /\ \A q \in Runners \ {r} : /\ pc'[q] = pc[q]
                                    /\ current'[q] = current[q] /\ attempt'[q] = attempt[q]
        /\ \/ /\ pc[r] = "accepted" /\ pc'[r] = "refused"
              /\ current'[r] = current[r] /\ attempt'[r] = attempt[r]
           \/ /\ pc[r] = "count" /\ pc'[r] = "disable" /\ current'[r] = current[r]
           \/ /\ pc[r] \in {"count", "disable"} /\ pc'[r] = "loop" /\ current'[r] = NoDelivery
    BY <1>0 DEF SuccessNotRecorded, CountFailure, AutoDisable, emission, bookkeeping, TypeOK
  <1>2. crashes' >= crashes
    BY <1>0, <1>1 DEF TypeOK
  <1>3. InHand(r) /\ Tries(r) /\ NoDelivery \notin Deliveries /\ batch[r] \subseteq Deliveries
    BY <1>0, WebhookAssumption DEF TypeOK
  <1>4. InHand(r)'
    BY <1>1, <1>3 DEF InHand
  <1>5. Tries(r)'
    BY <1>1, <1>3 DEF Tries
  <1>6. ASSUME NEW d \in Deliveries \ shared PROVE Told(d)'
    <2>1. Told(d)
      OBVIOUS
    <2>2. \/ current[r] # d
          \/ pc[r] \notin {"accepted", "refused"}
          \/ pc'[r] \in {"accepted", "refused"} /\ current'[r] = d
      BY <1>1
    <2> QED
      BY <1>0, <1>1, <1>2, <2>1, <2>2, ToldWhileMoving
  <1>7. \A d \in Deliveries : Holds(r, d)' => Holds(r, d)
    BY <1>1, <1>3 DEF Holds
  <1> QED
    BY <1>1, <1>2, <1>4, <1>5, <1>6, <1>7, RunnerPostInv

LEMMA NextPostInv == PostInv /\ [Next]_vars => PostInv'
  <1> SUFFICES ASSUME PostInv, [Next]_vars PROVE PostInv'
    OBVIOUS
  <1>1. TypeOK /\ TypeOK'
    BY NextTypeOK DEF PostInv
  <1>0. crashes \in Nat
    BY <1>1 DEF TypeOK
  <1> USE DEF emission, runner, bookkeeping
  <1>2. ASSUME NEW e \in Endpoints,
               \/ CreateEndpoint(e)
               \/ DeleteEndpoint(e)
               \/ \E enabled \in BOOLEAN : SetEndpointEnabled(e, enabled)
        PROVE  PostInv'
    <2>1. /\ pc' = pc /\ batch' = batch /\ current' = current /\ attempt' = attempt
          /\ shared' = shared /\ posts' = posts /\ crashes' = crashes /\ emit' = emit
          /\ \A d \in Deliveries : delivery'[d] = delivery[d] \/ delivery'[d] = NoRow
      BY <1>2 DEF CreateEndpoint, DeleteEndpoint, SetEndpointEnabled
    <2>2. crashes' >= crashes
      BY <1>0, <2>1
    <2>3. NoRow.status = "NONE"
      BY DEF NoRow
    <2> QED
      BY <1>1, <2>1, <2>2, <2>3, RowsPostInv
  <1>3. ASSUME NEW d \in Deliveries, Ripen(d) PROVE PostInv'
    <2>1. delivery' = [delivery EXCEPT ![d].due = TRUE] /\ delivery[d].status = "FAILED"
      BY <1>3 DEF Ripen
    <2>2. delivery[d] \in Delivery /\ DOMAIN delivery = Deliveries
      BY <1>1 DEF TypeOK
    <2>3. /\ delivery'[d].status = "FAILED"
          /\ delivery'[d].attempts = delivery[d].attempts
          /\ \A o \in Deliveries : o # d => delivery'[o] = delivery[o]
      BY <2>1, <2>2 DEF Delivery
    <2>4. /\ pc' = pc /\ batch' = batch /\ current' = current /\ attempt' = attempt
          /\ shared' = shared /\ posts' = posts /\ crashes' = crashes /\ emit' = emit
      BY <1>3 DEF Ripen
    <2>5. Waiting(delivery[d]) /\ Waiting(delivery'[d])
      BY <2>1, <2>3 DEF Waiting
    <2>6. crashes' >= crashes
      BY <1>0, <2>4
    <2> QED
      BY <1>1, <2>3, <2>4, <2>5, <2>6, RowsPostInv
  <1>4. ASSUME NEW d \in Deliveries, ReplayDelivery(d) PROVE PostInv'
    BY <1>1, <1>4, ReplayPostInv
  <1>5. ASSUME NEW v \in Events,
               \/ StoreEvent(v) \/ ReadEndpoints(v)
               \/ CreateDeliveries(v) \/ EmitCutOff(v)
        PROVE  PostInv'
    <2>1. /\ pc' = pc /\ batch' = batch /\ current' = current /\ attempt' = attempt
          /\ shared' = shared /\ posts' = posts
          /\ crashes' = crashes \/ crashes' = crashes + 1
      BY <1>5 DEF StoreEvent, ReadEndpoints, CreateDeliveries, EmitCutOff
    <2>2. crashes' >= crashes
      BY <1>0, <2>1
    <2>3. /\ emit[v] # "over"
          /\ \A w \in Events : w # v => emit'[w] = emit[w]
      BY <1>1, <1>5 DEF StoreEvent, ReadEndpoints, CreateDeliveries, EmitCutOff, TypeOK
    <2>4. \A d \in Deliveries : d[1] \in Events
      BY DEF Deliveries
    <2>5. \A d \in Deliveries : emit'[d[1]] # "over" => emit[d[1]] # "over"
      BY <2>3, <2>4
    <2>6. \A d \in Deliveries :
             \/ delivery'[d] = delivery[d]
             \/ delivery'[d] = NewRow /\ emit[d[1]] # "over" /\ emit'[d[1]] = "over"
      <3>1. CASE StoreEvent(v) \/ ReadEndpoints(v) \/ EmitCutOff(v)
        BY <3>1 DEF StoreEvent, ReadEndpoints, EmitCutOff
      <3>2. CASE CreateDeliveries(v)
        <4>1. emit'[v] = "over"
          BY <1>1, <3>2 DEF CreateDeliveries, TypeOK
        <4>2. ASSUME NEW d \in Deliveries PROVE d \in {v} \X fanout[v] => d[1] = v
          OBVIOUS
        <4> QED
          BY <2>3, <3>2, <4>1, <4>2 DEF CreateDeliveries
      <3> QED
        BY <1>5, <3>1, <3>2
    <2> QED
      BY <1>1, <2>1, <2>2, <2>5, <2>6, RowsPostInv
  <1>6. CASE UNCHANGED vars
    <2>1. crashes' >= crashes
      BY <1>0, <1>6 DEF vars
    <2> QED
      BY <1>1, <1>6, <2>1, RowsPostInv DEF vars
  <1>7. ASSUME NEW r \in Runners, RunnerStep(r) PROVE PostInv'
    BY <1>1, <1>7, StartPostInv, ForgetPostInv, BeginPostInv, PostPostInv, RecordPostInv,
       StreakPostInv DEF RunnerStep
  <1> QED
    BY <1>2, <1>3, <1>4, <1>5, <1>6, <1>7 DEF Next

\* The receiver of a delivery that no two runs work on is bothered MAX_ATTEMPTS
\* times for each time it is queued, and once more for each run cut off.
THEOREM PostingComesToAnEnd == Spec => []PostingEnds
  <1>1. PostInv => PostingEnds
    BY DEF PostInv, PostingEnds, PostsBounded, Told
  <1> QED
    BY <1>1, InitPostInv, NextPostInv, PTL DEF Spec

-----------------------------------------------------------------------------
(***************************************************************************)
(* What SUCCEEDED.  No runner that still has an outcome to write has a      *)
(* delivery that succeeded, unless two had it (OneHolder): it was waiting   *)
(* when it was read, and only its holder writes a success.                  *)
(***************************************************************************)
Trying(r) == pc[r] \in {"post", "accepted", "refused"}

Undone ==
    \A r \in Runners : Trying(r) /\ current[r] \notin shared => delivery[current[r]].status # "SUCCEEDED"

\* What a runner in the middle of an attempt has in hand.
LEMMA TryingHasOne ==
    ASSUME PostInv, NEW r \in Runners, Trying(r)
    PROVE  current[r] \in Deliveries /\ delivery[current[r]] \in Delivery
  BY WebhookAssumption DEF PostInv, InHand, TypeOK, Trying

\* A step that writes no success and begins no attempt.
LEMMA UndoneStays ==
    ASSUME PostInv, Undone, shared \subseteq shared',
           \A r \in Runners : Trying(r)' => Trying(r) /\ current'[r] = current[r],
           \A d \in Deliveries : delivery'[d].status = "SUCCEEDED" => delivery[d].status = "SUCCEEDED"
    PROVE  Undone'
  <1> SUFFICES ASSUME NEW r \in Runners, Trying(r)', current'[r] \notin shared'
               PROVE  delivery'[current'[r]].status # "SUCCEEDED"
    BY DEF Undone
  <1>1. Trying(r) /\ current'[r] = current[r] /\ current[r] \notin shared /\ current[r] \in Deliveries
    BY TryingHasOne
  <1> QED
    BY <1>1 DEF Undone

LEMMA OthersUndone ==
    ASSUME PostInv, Undone, Next, \A r \in Runners : ~RunnerStep(r)
    PROVE  Undone'
  <1> USE DEF emission, runner, bookkeeping
  <1>1. UNCHANGED <<pc, current>> /\ shared' = shared
    <2>1. ASSUME NEW e \in Endpoints, NEW on \in BOOLEAN,
                 CreateEndpoint(e) \/ DeleteEndpoint(e) \/ SetEndpointEnabled(e, on)
          PROVE  UNCHANGED <<pc, current>> /\ shared' = shared
      BY <2>1 DEF CreateEndpoint, DeleteEndpoint, SetEndpointEnabled
    <2>2. ASSUME NEW d \in Deliveries, ReplayDelivery(d) \/ Ripen(d)
          PROVE  UNCHANGED <<pc, current>> /\ shared' = shared
      BY <2>2 DEF ReplayDelivery, Ripen
    <2>3. ASSUME NEW v \in Events,
                 StoreEvent(v) \/ ReadEndpoints(v) \/ CreateDeliveries(v) \/ EmitCutOff(v)
          PROVE  UNCHANGED <<pc, current>> /\ shared' = shared
      BY <2>3 DEF StoreEvent, ReadEndpoints, CreateDeliveries, EmitCutOff
    <2> QED
      BY <2>1, <2>2, <2>3 DEF Next
  <1>2. ASSUME NEW d \in Deliveries, delivery'[d].status = "SUCCEEDED" PROVE delivery[d].status = "SUCCEEDED"
    <2>1. delivery \in [Deliveries -> Delivery] /\ NewRow.status = "PENDING" /\ NoRow.status = "NONE"
      BY DEF PostInv, TypeOK, NewRow, NoRow
    <2>2. CASE delivery' = delivery
      BY <1>2, <2>2
    <2>3. ASSUME NEW e \in Endpoints, DeleteEndpoint(e) PROVE delivery[d].status = "SUCCEEDED"
      BY <1>2, <2>1, <2>3 DEF DeleteEndpoint
    <2>4. ASSUME NEW c \in Deliveries, ReplayDelivery(c) \/ Ripen(c) PROVE delivery[d].status = "SUCCEEDED"
      <3>1. CASE c = d
        BY <1>2, <2>1, <2>4, <3>1 DEF ReplayDelivery, Ripen, Delivery
      <3>2. CASE c # d
        BY <1>2, <2>1, <2>4, <3>2 DEF ReplayDelivery, Ripen
      <3> QED
        BY <3>1, <3>2
    <2>5. ASSUME NEW v \in Events, CreateDeliveries(v) PROVE delivery[d].status = "SUCCEEDED"
      BY <1>2, <2>1, <2>5 DEF CreateDeliveries
    <2>6. ASSUME NEW e \in Endpoints, NEW on \in BOOLEAN, CreateEndpoint(e) \/ SetEndpointEnabled(e, on)
          PROVE  delivery' = delivery
      BY <2>6 DEF CreateEndpoint, SetEndpointEnabled
    <2>7. ASSUME NEW v \in Events, StoreEvent(v) \/ ReadEndpoints(v) \/ EmitCutOff(v)
          PROVE  delivery' = delivery
      BY <2>7 DEF StoreEvent, ReadEndpoints, EmitCutOff
    <2> QED
      BY <2>2, <2>3, <2>4, <2>5, <2>6, <2>7 DEF Next
  <1> QED
    BY <1>1, <1>2, UndoneStays DEF Trying

LEMMA RunnerUndone ==
    ASSUME PostInv, Undone, NEW r \in Runners, RunnerStep(r)
    PROVE  Undone'
  <1> USE DEF emission, bookkeeping
  <1>1. /\ pc \in [Runners -> {"idle", "loop", "post", "accepted", "refused", "count", "disable"}]
        /\ current \in [Runners -> Deliveries \cup {NoDelivery}]
        /\ delivery \in [Deliveries -> Delivery]
    BY DEF PostInv, TypeOK
  <1>2. ASSUME ~Trying(r)', delivery' = delivery, shared \subseteq shared',
               \A q \in Runners \ {r} : pc'[q] = pc[q] /\ current'[q] = current[q]
        PROVE  Undone'
    BY <1>2, UndoneStays DEF Trying
  <1>3. CASE StartRun(r)
    BY <1>1, <1>2, <1>3 DEF StartRun, Trying
  <1>4. CASE EndRun(r) \/ AbortOnDeleted(r) \/ Crash(r) \/ \E d \in Deliveries : AbortOnMissing(r, d)
    BY <1>1, <1>2, <1>4 DEF EndRun, AbortOnDeleted, Crash, AbortOnMissing, Forget, Trying
  <1>5. CASE CountFailure(r) \/ AutoDisable(r)
    BY <1>1, <1>2, <1>5 DEF CountFailure, AutoDisable, Trying
  <1>6. CASE Post(r) \/ SuccessNotRecorded(r)
    BY <1>1, <1>6, UndoneStays DEF Post, SuccessNotRecorded, Trying
  <1>7. ASSUME NEW d \in Deliveries, BeginAttempt(r, d) PROVE Undone'
    <2> SUFFICES ASSUME NEW q \in Runners, Trying(q)', current'[q] \notin shared'
                 PROVE  delivery'[current'[q]].status # "SUCCEEDED"
      BY DEF Undone
    <2>1. delivery' = delivery /\ shared' = shared /\ d \in batch[r]
      BY <1>7 DEF BeginAttempt
    <2>2. CASE q = r
      <3>1. current'[q] = d
        BY <1>1, <1>7, <2>2 DEF BeginAttempt
      <3>2. Waiting(delivery[d]) \/ delivery[d].status = "NONE"
        BY <2>1, <3>1 DEF PostInv, Told
      <3> QED
        BY <2>1, <3>1, <3>2 DEF Waiting
    <2>3. CASE q # r
      <3>1. pc'[q] = pc[q] /\ current'[q] = current[q]
        BY <1>1, <1>7, <2>3 DEF BeginAttempt
      <3> QED
        BY <2>1, <3>1 DEF Undone, Trying
    <2> QED
      BY <2>2, <2>3
  <1>8. CASE RecordSuccess(r) \/ RecordFailure(r)
    <2> SUFFICES ASSUME NEW q \in Runners, Trying(q)', current'[q] \notin shared'
                 PROVE  delivery'[current'[q]].status # "SUCCEEDED"
      BY DEF Undone
    <2>1. shared' = shared /\ Trying(r) /\ \A d \in Deliveries : d # current[r] => delivery'[d] = delivery[d]
      BY <1>1, <1>8 DEF RecordSuccess, RecordFailure, Trying
    <2>2. q # r
      BY <1>1, <1>8 DEF RecordSuccess, RecordFailure, Trying
    <2>3. pc'[q] = pc[q] /\ current'[q] = current[q]
      BY <1>1, <1>8, <2>2 DEF RecordSuccess, RecordFailure
    <2>4. current[q] \in Deliveries /\ current[q] \notin shared /\ Trying(q)
      BY <2>1, <2>3, TryingHasOne DEF Trying
    <2>5. current[q] # current[r]
      BY <2>2, <2>4 DEF PostInv, OneHolder, Holds
    <2> QED
      BY <2>1, <2>3, <2>4, <2>5 DEF Undone
  <1> QED
    BY <1>3, <1>4, <1>5, <1>6, <1>7, <1>8 DEF RunnerStep

\* A row that SUCCEEDED is only written by a replay, a deletion, or a success.
LEMMA SucceededStays ==
    ASSUME PostInv, Undone, [Next]_vars, NEW d \in Deliveries \ shared,
           delivery[d].status = "SUCCEEDED", replays' = replays
    PROVE  delivery'[d].status \in {"SUCCEEDED", "NONE"}
  <1>1. delivery \in [Deliveries -> Delivery] /\ replays \in Nat
    BY DEF PostInv, TypeOK
  <1>2. ASSUME NEW e \in Endpoints, DeleteEndpoint(e) PROVE delivery'[d].status \in {"SUCCEEDED", "NONE"}
    BY <1>2 DEF DeleteEndpoint, NoRow
  <1>3. ASSUME NEW c \in Deliveries, ReplayDelivery(c) PROVE FALSE
    BY <1>1, <1>3 DEF ReplayDelivery
  <1>4. ASSUME NEW c \in Deliveries, Ripen(c) PROVE delivery'[d] = delivery[d]
    BY <1>1, <1>4 DEF Ripen
  <1>5. ASSUME NEW v \in Events, CreateDeliveries(v) PROVE delivery'[d] = delivery[d]
    <2>1. Unqueued(d)
      BY DEF PostInv
    <2>2. d \notin {v} \X fanout[v]
      BY <1>5, <2>1 DEF CreateDeliveries, Unqueued
    <2> QED
      BY <1>5, <2>2 DEF CreateDeliveries
  <1>6. ASSUME NEW r \in Runners, RunnerStep(r) PROVE delivery'[d].status \in {"SUCCEEDED", "NONE"}
    <2>1. CASE RecordSuccess(r)
      <3>1. CASE d = current[r]
        BY <1>1, <2>1, <3>1 DEF RecordSuccess
      <3>2. CASE d # current[r]
        BY <1>1, <2>1, <3>2 DEF RecordSuccess
      <3> QED
        BY <3>1, <3>2
    <2>2. CASE RecordFailure(r)
      <3>1. d # current[r]
        BY <2>2 DEF RecordFailure, Undone, Trying
      <3> QED
        BY <1>1, <2>2, <3>1 DEF RecordFailure
    <2>3. CASE delivery' = delivery
      BY <2>3
    <2> QED
      BY <1>6, <2>1, <2>2, <2>3 DEF RunnerStep, StartRun, EndRun, BeginAttempt, AbortOnMissing, Post,
          SuccessNotRecorded, CountFailure, AutoDisable, AbortOnDeleted, Crash
  <1>7. CASE delivery' = delivery
    BY <1>7
  <1>8. ASSUME NEW e \in Endpoints, NEW on \in BOOLEAN, CreateEndpoint(e) \/ SetEndpointEnabled(e, on)
        PROVE  delivery' = delivery
    BY <1>8 DEF CreateEndpoint, SetEndpointEnabled
  <1>9. ASSUME NEW v \in Events, StoreEvent(v) \/ ReadEndpoints(v) \/ EmitCutOff(v)
        PROVE  delivery' = delivery
    BY <1>9 DEF StoreEvent, ReadEndpoints, EmitCutOff
  <1>10. CASE UNCHANGED vars
    BY <1>7, <1>10 DEF vars
  <1>11. CASE delivery'[d] = delivery[d]
    BY <1>11
  <1> QED
    BY <1>2, <1>3, <1>4, <1>5, <1>6, <1>7, <1>8, <1>9, <1>10, <1>11 DEF Next

\* A delivery that SUCCEEDED says so until it is replayed or deleted, however
\* many runs there are, unless two of them worked on it.
THEOREM SucceededStaysFinal == Spec => SucceededIsFinal
  <1> DEFINE Final == \A d \in Deliveries \ shared :
                         delivery[d].status = "SUCCEEDED" /\ replays' = replays =>
                             delivery'[d].status \in {"SUCCEEDED", "NONE"}
  <1>1. Init => PostInv /\ Undone
    BY InitPostInv DEF Init, Undone, Trying
  <1>2. PostInv /\ Undone /\ [Next]_vars => (PostInv /\ Undone)'
    <2> SUFFICES ASSUME PostInv, Undone, [Next]_vars PROVE Undone'
      BY NextPostInv
    <2>1. CASE UNCHANGED vars
      BY <2>1 DEF vars, Undone, Trying
    <2> QED
      BY <2>1, OthersUndone, RunnerUndone
  <1>3. PostInv /\ Undone /\ [Next]_vars => [Final]_vars
    BY SucceededStays
  <1> QED
    BY <1>1, <1>2, <1>3, PTL DEF Spec, SucceededIsFinal
=============================================================================
