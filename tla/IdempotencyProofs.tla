------------------------- MODULE IdempotencyProofs -------------------------
(* Proofs about Idempotency, for any number of requests and operations and  *)
(* any number of crashes: what holds until the key expires for the first    *)
(* time - afterwards two requests may take it over - and, at the end, what  *)
(* holds for ever.                                                          *)
EXTENDS MCIdempotency, TLAPS, FiniteSetTheorems

\* A claimant's record is the row, in progress until its response is stored.
ClaimantHoldsRow ==
    \A r \in Claimants :
        /\ row.id = claim[r]
        /\ \/ row.status = "IN_PROGRESS"
           \/ row.status = "COMPLETED" /\ pc[r] = "release" /\ row.by = r

\* A stored response is that of a request for the operation of the row, whose
\* handler did its work.
StoredIsGenuine ==
    row.status = "COMPLETED" =>
        row.by \in Requests /\ row.by \in effects /\ OpOf[row.by] = row.op

\* Claimants asked for the operation of the row; a request about to store its
\* response has done its work.
ClaimantsAreGenuine ==
    /\ \A r \in Claimants : OpOf[r] = row.op
    /\ \A r \in Requests : pc[r] = "store" => r \in effects
    /\ \A r \in Requests : pc[r] \in {"new", "read"} => claim[r] = 0
    /\ \A r \in Requests : pc[r] \in {"store", "release"} => claim[r] # 0

NothingExpires ==
    /\ ~row.expired
    /\ expiries = 0
    /\ \A r \in Requests : pc[r] # "takeover"

KeyInv ==
    /\ TypeOK
    /\ NothingExpires
    /\ ClaimExclusive
    /\ ClaimantHoldsRow
    /\ ClaimantsAreGenuine
    /\ StoredIsGenuine
    /\ ReplayIsFaithful
    /\ InProgressIsOwned

USE DEF Goto, Answer

\* A row as it is inserted, and the absent one.
LEMMA NewRowInRow ==
    ASSUME NEW n \in Nat, NEW o \in Operations, NEW st \in {"ABSENT", "IN_PROGRESS"}
    PROVE  [id |-> n, op |-> o, status |-> st, by |-> NoRequest, expired |-> FALSE] \in Row
  <1>1. st \in {"ABSENT", "IN_PROGRESS", "COMPLETED"} /\ NoRequest \in Requests \cup {NoRequest}
    OBVIOUS
  <1>2. FALSE \in BOOLEAN
    OBVIOUS
  <1> QED
    BY <1>1, <1>2, Zenon DEF Row

LEMMA InitKeyInv == Init => KeyInv
  <1> SUFFICES ASSUME Init PROVE KeyInv
    OBVIOUS
  <1> USE IdempotencyAssumption DEF Init
  <1>1. TypeOK
    <2>1. row \in Row
      BY NewRowInRow
    <2>2. pc \in [Requests -> Steps] /\ reply \in [Requests -> Replies]
      BY DEF Steps, Replies
    <2> QED
      BY <2>1, <2>2 DEF TypeOK
  <1>2. Claimants = {}
    BY DEF Claimants
  <1>3. row.status = "ABSENT" /\ ~row.expired
    OBVIOUS
  <1> QED
    BY <1>1, <1>2, <1>3 DEF KeyInv, NothingExpires, ClaimExclusive, ClaimantHoldsRow,
       ClaimantsAreGenuine, StoredIsGenuine, ReplayIsFaithful, InProgressIsOwned

\* The key is free: no claimant, and nothing stored.
LEMMA FreeKeyHasNoClaimant ==
    ASSUME KeyInv, row.status = "ABSENT" PROVE Claimants = {}
  BY DEF KeyInv, ClaimantHoldsRow

LEMMA InsertKeyInv ==
    ASSUME KeyInv, NEW r \in Requests, Insert(r) PROVE KeyInv'
  <1> USE IdempotencyAssumption DEF KeyInv, Insert
  <1>1. Claimants = {}
    BY FreeKeyHasNoClaimant DEF KeyIsFree
  <1>2. TypeOK'
    <2>1. lastId' \in Nat /\ lastId + 1 \in Nat /\ OpOf[r] \in Operations
      <3>1. OpOf[r] \in Operations
        OBVIOUS
      <3>2. lastId \in Nat
        BY DEF TypeOK
      <3> QED
        BY <3>1, <3>2
    <2>2. row' \in Row
      BY <2>1, NewRowInRow
    <2>3. pc' \in [Requests -> Steps]
      BY DEF TypeOK, Steps
    <2>4. claim' \in [Requests -> Nat]
      BY <2>1 DEF TypeOK
    <2> QED
      BY <2>1, <2>2, <2>3, <2>4 DEF TypeOK
  <1>3. /\ claim'[r] = lastId + 1 /\ lastId \in Nat
        /\ pc'[r] = "handler"
        /\ \A q \in Requests : q # r => pc'[q] = pc[q] /\ claim'[q] = claim[q]
        /\ row'.status = "IN_PROGRESS" /\ row'.id = lastId + 1 /\ row'.op = OpOf[r]
        /\ ~row'.expired
    BY DEF TypeOK
  <1>4. Claimants' = {r}
    BY <1>1, <1>3 DEF Claimants
  <1>5. NothingExpires'
    BY <1>3 DEF NothingExpires
  <1>6. ClaimExclusive' /\ ClaimantHoldsRow' /\ StoredIsGenuine' /\ InProgressIsOwned'
    BY <1>3, <1>4 DEF ClaimExclusive, ClaimantHoldsRow, StoredIsGenuine, InProgressIsOwned
  <1>7. ClaimantsAreGenuine'
    BY <1>3, <1>4 DEF ClaimantsAreGenuine
  <1>8. ReplayIsFaithful'
    BY DEF ReplayIsFaithful
  <1> QED
    BY <1>2, <1>5, <1>6, <1>7, <1>8

\* A request that only looks at the row keeps the invariant.
LEMMA LookKeyInv ==
    ASSUME KeyInv, NEW r \in Requests,
           InsertConflict(r) \/ ReadVanished(r) \/ ReadLive(r)
    PROVE  KeyInv'
  <1> USE IdempotencyAssumption DEF KeyInv
  <1>1. UNCHANGED <<row, lastId, claim, effects, expiries, crashes>>
    BY DEF InsertConflict, ReadVanished, ReadLive
  <1>2. /\ pc[r] \in {"new", "read"}
        /\ \A q \in Requests : q # r => pc'[q] = pc[q] /\ reply'[q] = reply[q]
        /\ pc'[r] \in {"read", "handler", "over"}
        /\ pc'[r] = "handler" => row.status = "ABSENT"
    BY ZenonT(40) DEF TypeOK, InsertConflict, ReadVanished, ReadLive
  <1>3. TypeOK'
    <2>1. /\ pc' \in [Requests -> Steps]
          /\ slow' \in SUBSET Requests
          /\ reply' \in [Requests -> Replies]
      BY DEF TypeOK, Steps, Replies, InsertConflict, ReadVanished, ReadLive
    <2>2. source' \in [Requests -> Requests \cup {NoRequest}]
      BY DEF TypeOK, Row, InsertConflict, ReadVanished, ReadLive
    <2> QED
      BY <1>1, <2>1, <2>2 DEF TypeOK
  <1>4. Claimants' = Claimants
    BY <1>1, <1>2 DEF Claimants, ClaimantsAreGenuine
  <1>5. NothingExpires' /\ ClaimExclusive' /\ StoredIsGenuine' /\ InProgressIsOwned'
    BY <1>1, <1>2, <1>4 DEF TypeOK, NothingExpires, ClaimExclusive, StoredIsGenuine, InProgressIsOwned
  <1>6. ClaimantHoldsRow'
    <2>1. \A q \in Claimants : pc'[q] = pc[q]
      BY <1>2 DEF Claimants
    <2> QED
      BY <1>1, <1>4, <2>1 DEF ClaimantHoldsRow
  <1>7. ClaimantsAreGenuine'
    BY <1>1, <1>2, <1>4 DEF ClaimantsAreGenuine
  <1>8. ReplayIsFaithful'
    <2>1. CASE reply'[r] = "replayed" /\ ReadLive(r)
      <3>1. row.status = "COMPLETED" /\ source' = [source EXCEPT ![r] = row.by] /\ row.op = OpOf[r]
        BY <2>1 DEF ReadLive, SameRequest, TypeOK, Row
      <3>2. \A q \in Requests : source'[q] = IF q = r THEN row.by ELSE source[q]
        BY <3>1 DEF TypeOK
      <3> QED
        BY <1>1, <1>2, <3>1, <3>2 DEF ReplayIsFaithful, StoredIsGenuine
    <2>2. CASE ReadLive(r) /\ reply'[r] # "replayed"
      <3>1. source' = source
        BY <2>2 DEF ReadLive, TypeOK
      <3> QED
        BY <1>1, <1>2, <2>2, <3>1 DEF ReplayIsFaithful
    <2>3. CASE InsertConflict(r) \/ ReadVanished(r)
      BY <2>3 DEF InsertConflict, ReadVanished, ReplayIsFaithful
    <2> QED
      BY <2>1, <2>2, <2>3
  <1> QED
    BY <1>3, <1>5, <1>6, <1>7, <1>8

\* The handler ends, well or badly.
LEMMA HandlerKeyInv ==
    ASSUME KeyInv, NEW r \in Requests, Handle(r) \/ HandlerThrows(r)
    PROVE  KeyInv'
  <1> USE IdempotencyAssumption DEF KeyInv
  <1>1. /\ UNCHANGED <<row, lastId, claim, expiries, crashes>>
        /\ effects' \in {effects, effects \cup {r}}
        /\ Handle(r) => effects' = effects \cup {r}
    BY DEF Handle, HandlerThrows
  <1>2. /\ pc[r] = "handler"
        /\ \A q \in Requests : q # r => pc'[q] = pc[q] /\ reply'[q] = reply[q] /\ source'[q] = source[q]
        /\ pc'[r] = "store" => Handle(r)
        /\ IF claim[r] # 0 THEN pc'[r] \in {"store", "release"} ELSE pc'[r] = "over"
    BY DEF TypeOK, Handle, HandlerThrows
  <1>3. TypeOK'
    <2>1. pc' \in [Requests -> Steps]
      BY DEF TypeOK, Steps, Handle, HandlerThrows
    <2>2. slow' \in SUBSET Requests /\ reply' \in [Requests -> Replies]
      BY ZenonT(40) DEF TypeOK, Replies, Handle, HandlerThrows
    <2>3. source' \in [Requests -> Requests \cup {NoRequest}]
      BY DEF TypeOK, Handle, HandlerThrows
    <2> QED
      BY <1>1, <2>1, <2>2, <2>3 DEF TypeOK
  <1>4. Claimants' = Claimants
    BY <1>1, <1>2 DEF Claimants
  <1>5. NothingExpires' /\ ClaimExclusive' /\ StoredIsGenuine' /\ InProgressIsOwned'
    BY <1>1, <1>2, <1>4 DEF TypeOK, NothingExpires, ClaimExclusive, StoredIsGenuine, InProgressIsOwned
  <1>6. ClaimantHoldsRow'
    <2>1. \A q \in Claimants : pc[q] = "release" => pc'[q] = "release"
      BY <1>2 DEF Claimants
    <2> QED
      BY <1>1, <1>4, <2>1 DEF ClaimantHoldsRow
  <1>7. ClaimantsAreGenuine'
    BY <1>1, <1>2, <1>4 DEF ClaimantsAreGenuine
  <1>8. ReplayIsFaithful'
    <2>1. reply'[r] # "replayed" \/ (reply'[r] = reply[r] /\ (source'[r] = source[r] \/ source'[r] = r))
      BY DEF TypeOK, Handle, HandlerThrows
    <2> QED
      BY <1>1, <1>2, <2>1 DEF ReplayIsFaithful, Handle, HandlerThrows
  <1> QED
    BY <1>3, <1>5, <1>6, <1>7, <1>8

\* The end of a claim.  Its request is the only claimant, so the row is its own.
LEMMA StoreKeyInv ==
    ASSUME KeyInv, NEW r \in Requests, Store(r) \/ StoreFails(r) \/ Release(r) \/ Crash(r)
    PROVE  KeyInv'
  <1> USE IdempotencyAssumption DEF KeyInv
  <1>1. /\ UNCHANGED <<lastId, claim, effects, source, expiries>>
        /\ \A q \in Requests : q # r => pc'[q] = pc[q] /\ reply'[q] = reply[q]
        /\ pc'[r] \in {"over", "release"}
        /\ pc'[r] = "release" => StoreFails(r) /\ reply' = reply
        /\ pc'[r] = "over" => reply'[r] # "replayed"
        /\ crashes' \in Nat /\ crashes \in Nat /\ crashes' >= crashes
    BY DEF TypeOK, Store, StoreFails, Release, Crash
  <1>2. Claimants' \subseteq Claimants
    BY <1>1 DEF Claimants, StoreFails, ClaimantsAreGenuine
  <1>6. ASSUME row' \in Row PROVE TypeOK'
    <2>1. pc' \in [Requests -> Steps]
      BY DEF TypeOK, Steps, Store, StoreFails, Release, Crash
    <2>2. slow' \in SUBSET Requests /\ reply' \in [Requests -> Replies]
      BY DEF TypeOK, Replies, Store, StoreFails, Release, Crash
    <2> QED
      BY <1>1, <1>6, <2>1, <2>2 DEF TypeOK
  <1>3. r \in Claimants => Claimants = {r}
    BY DEF ClaimExclusive
  <1>4. CASE Crash(r)
    <2>1. row' = row /\ crashes' > 0
      BY <1>1, <1>4 DEF Crash
    <2>2. TypeOK'
      BY <1>6, <2>1 DEF TypeOK
    <2>3. pc'[r] = "over"
      BY <1>4 DEF Crash, TypeOK
    <2>4. \A q \in Claimants' : q \in Claimants /\ pc'[q] = pc[q]
      BY <1>1, <1>2, <2>3 DEF Claimants
    <2>5. NothingExpires' /\ ReplayIsFaithful' /\ StoredIsGenuine' /\ InProgressIsOwned'
      BY <1>1, <2>1, <2>3 DEF NothingExpires, StoredIsGenuine, ReplayIsFaithful, InProgressIsOwned
    <2>6. ClaimExclusive' /\ ClaimantHoldsRow'
      BY <1>1, <2>1, <2>4 DEF ClaimExclusive, ClaimantHoldsRow
    <2>7. ClaimantsAreGenuine'
      BY <1>1, <2>1, <2>3, <2>4 DEF ClaimantsAreGenuine
    <2> QED
      BY <2>2, <2>5, <2>6, <2>7
  <1>5. CASE Store(r) \/ StoreFails(r) \/ Release(r)
    <2>1. r \in Claimants /\ Claimants = {r}
      BY <1>3, <1>5 DEF Claimants, ClaimantsAreGenuine, Store, StoreFails, Release
    <2>2. Claimants' = IF pc'[r] = "release" THEN {r} ELSE {}
      BY <1>1, <1>2, <2>1 DEF Claimants
    <2>3. row.id = claim[r] /\ row.status # "ABSENT" /\ row.op = OpOf[r]
      BY <2>1 DEF ClaimantHoldsRow, ClaimantsAreGenuine
    <2>4. /\ row'.id = row.id /\ row'.op = row.op /\ row'.expired = FALSE
          /\ row' \in Row
          /\ \/ row' = row /\ StoreFails(r)
             \/ row'.status = "COMPLETED" /\ row'.by = r /\ pc[r] = "store"
             \/ row'.status = "ABSENT" /\ Release(r)
             \/ row' = row /\ row.status = "COMPLETED" /\ Release(r)
      <3>1. OwnsRow(r) /\ row \in Row /\ ~row.expired /\ row.expired \in BOOLEAN
        BY <2>3 DEF OwnsRow, TypeOK, Row, NothingExpires
      <3>2. /\ Stored(r) \in Row /\ Stored(r).id = row.id /\ Stored(r).op = row.op
            /\ Stored(r).expired = FALSE /\ Stored(r).status = "COMPLETED" /\ Stored(r).by = r
        BY <3>1 DEF Stored, Row
      <3>3. CASE Store(r)
        BY <3>2, <3>3 DEF Store
      <3>4. CASE StoreFails(r)
        BY <3>1, <3>2, <3>4 DEF StoreFails, Row
      <3>5. CASE Release(r)
        <4>1. row.status = "IN_PROGRESS" \/ row.status = "COMPLETED"
          BY <3>1 DEF OwnsRow, Row
        <4>2. CASE row.status = "IN_PROGRESS"
          BY <3>1, <3>5, <4>2 DEF Release, Released, Row
        <4>3. CASE row.status = "COMPLETED"
          BY <3>1, <3>5, <4>3 DEF Release, Released, Row
        <4> QED
          BY <4>1, <4>2, <4>3
      <3> QED
        BY <1>5, <3>3, <3>4, <3>5
    <2>5. TypeOK'
      BY <1>6, <2>4
    <2>6. pc[r] = "store" => r \in effects
      BY DEF ClaimantsAreGenuine
    <2>7. StoreFails(r) => pc'[r] = "release" /\ pc[r] = "store"
      BY DEF StoreFails, TypeOK
    <2>8. NothingExpires' /\ ClaimExclusive' /\ ReplayIsFaithful' /\ ClaimantsAreGenuine'
      BY <1>1, <2>2, <2>3, <2>4, <2>7 DEF TypeOK, NothingExpires, ClaimExclusive, ReplayIsFaithful,
         ClaimantsAreGenuine
    <2>9. StoredIsGenuine'
      BY <1>1, <2>3, <2>4, <2>6 DEF StoredIsGenuine
    <2>10. ClaimantHoldsRow' /\ InProgressIsOwned'
      <3>1. CASE StoreFails(r)
        <4>1. pc[r] = "store" /\ pc'[r] = "release" /\ claim' = claim
          BY <1>1, <2>7, <3>1
        <4>2. row.status = "IN_PROGRESS"
          BY <2>1, <4>1 DEF ClaimantHoldsRow
        <4>3. /\ row'.id = claim[r]
              /\ \/ row'.status = "IN_PROGRESS"
                 \/ row'.status = "COMPLETED" /\ row'.by = r
          BY <2>3, <2>4, <4>1, <4>2 DEF Release
        <4> QED
          BY <2>2, <4>1, <4>3 DEF ClaimantHoldsRow, InProgressIsOwned
      <3>2. CASE Store(r) \/ Release(r)
        <4>1. pc'[r] = "over" /\ ~StoreFails(r)
          BY <3>2 DEF Store, Release, StoreFails, TypeOK
        <4> QED
          BY <2>2, <2>4, <4>1 DEF ClaimantHoldsRow, InProgressIsOwned
      <3> QED
        BY <1>5, <3>1, <3>2
    <2> QED
      BY <2>5, <2>8, <2>9, <2>10
  <1> QED
    BY <1>4, <1>5

LEMMA NextKeyInv == KeyInv /\ [Next]_vars /\ ~Expire => KeyInv'
  <1> SUFFICES ASSUME KeyInv, [Next]_vars, ~Expire PROVE KeyInv'
    OBVIOUS
  <1>1. ASSUME NEW r \in Requests, Insert(r) PROVE KeyInv'
    BY <1>1, InsertKeyInv
  <1>2. ASSUME NEW r \in Requests, InsertConflict(r) \/ ReadVanished(r) \/ ReadLive(r)
        PROVE  KeyInv'
    BY <1>2, LookKeyInv
  <1>3. ASSUME NEW r \in Requests, ReadExpired(r) \/ TakeOver(r) PROVE FALSE
    BY <1>3 DEF KeyInv, NothingExpires, ReadExpired, IsExpired, TakeOver
  <1>4. ASSUME NEW r \in Requests, Handle(r) \/ HandlerThrows(r) PROVE KeyInv'
    BY <1>4, HandlerKeyInv
  <1>5. ASSUME NEW r \in Requests, Store(r) \/ StoreFails(r) \/ Release(r) \/ Crash(r)
        PROVE  KeyInv'
    BY <1>5, StoreKeyInv
  <1>6. ~Purge
    BY DEF KeyInv, NothingExpires, Purge
  <1>7. CASE UNCHANGED vars
    BY <1>7 DEF vars, KeyInv, TypeOK, NothingExpires, ClaimExclusive, ClaimantHoldsRow,
       ClaimantsAreGenuine, StoredIsGenuine, ReplayIsFaithful, InProgressIsOwned, Claimants
  <1> QED
    BY <1>1, <1>2, <1>3, <1>4, <1>5, <1>6, <1>7 DEF Next

\* Only Expire counts.
LEMMA ExpiriesCount ==
    ASSUME [Next]_vars PROVE UNCHANGED expiries \/ (Expire /\ expiries' = expiries + 1)
  <1>1. ASSUME NEW r \in Requests,
               \/ Insert(r) \/ InsertConflict(r) \/ ReadVanished(r) \/ ReadExpired(r)
               \/ ReadLive(r) \/ TakeOver(r) \/ Handle(r) \/ HandlerThrows(r)
               \/ Store(r) \/ StoreFails(r) \/ Release(r) \/ Crash(r)
        PROVE  UNCHANGED expiries
    BY <1>1 DEF Insert, InsertConflict, ReadVanished, ReadExpired, ReadLive, TakeOver,
       Handle, HandlerThrows, Store, StoreFails, Release, Crash
  <1>2. CASE Expire
    BY <1>2 DEF Expire
  <1>3. CASE Purge
    BY <1>3 DEF Purge
  <1>4. CASE UNCHANGED vars
    BY <1>4 DEF vars
  <1> QED
    BY <1>1, <1>2, <1>3, <1>4 DEF Next

\* KeyInv until the key expires, and no claim about it afterwards.
UntilExpiry == expiries \in Nat /\ (expiries = 0 => KeyInv)

LEMMA SpecUntilExpiry == Spec => []UntilExpiry
  <1>1. Init => UntilExpiry
    BY InitKeyInv DEF UntilExpiry, KeyInv, TypeOK
  <1>2. UntilExpiry /\ [Next]_vars => UntilExpiry'
    <2> SUFFICES ASSUME UntilExpiry, [Next]_vars PROVE UntilExpiry'
      OBVIOUS
    <2>1. CASE Expire /\ expiries' = expiries + 1
      BY <2>1 DEF UntilExpiry
    <2>2. CASE UNCHANGED expiries
      <3>1. Expire => expiries' # expiries
        BY DEF Expire, UntilExpiry
      <3> QED
        BY <2>2, <3>1, NextKeyInv DEF UntilExpiry
    <2> QED
      BY <2>1, <2>2, ExpiriesCount
  <1> QED
    BY <1>1, <1>2, PTL DEF Spec

-----------------------------------------------------------------------------
\* While a key lives, any number of simultaneous requests leave one claimant.
THEOREM LiveKeyIsExclusive == Spec => []ExclusiveWhileLive
  <1>1. UntilExpiry => ExclusiveWhileLive
    BY DEF UntilExpiry, KeyInv, ExclusiveWhileLive
  <1> QED
    BY <1>1, SpecUntilExpiry, PTL

\* While a key lives, a replay answers the operation it was asked for, with the
\* response of a request that did its work.
THEOREM LiveKeyReplaysFaithfully == Spec => []FaithfulWhileLive
  <1>1. UntilExpiry => FaithfulWhileLive
    BY DEF UntilExpiry, KeyInv, FaithfulWhileLive
  <1> QED
    BY <1>1, SpecUntilExpiry, PTL

\* While a key lives, and without a crash, it is in progress only while somebody
\* works on it: a failure releases it.
THEOREM LiveKeyIsReleased == Spec => [](expiries = 0 => InProgressIsOwned)
  <1>1. UntilExpiry => (expiries = 0 => InProgressIsOwned)
    BY DEF UntilExpiry, KeyInv
  <1> QED
    BY <1>1, SpecUntilExpiry, PTL

\* While a key lives, a stored response is neither lost nor replaced.
THEOREM LiveKeyKeepsResponse == Spec => CompletedIsStable
  <1> DEFINE Stable == row.status = "COMPLETED" /\ expiries = 0 =>
                          row' = row \/ row' = [row EXCEPT !.expired = TRUE]
  <1>1. UntilExpiry /\ [Next]_vars => [Stable]_vars
    <2> SUFFICES ASSUME KeyInv, Next, row.status = "COMPLETED"
                 PROVE  row' = row \/ row' = [row EXCEPT !.expired = TRUE]
      BY DEF UntilExpiry
    <2>1. ASSUME NEW r \in Requests,
                 Insert(r) \/ InsertConflict(r) \/ ReadVanished(r) \/ ReadLive(r)
                   \/ Handle(r) \/ HandlerThrows(r) \/ Crash(r)
          PROVE  row' = row
      BY <2>1 DEF Insert, KeyIsFree, InsertConflict, ReadVanished, ReadLive, Handle,
         HandlerThrows, Crash
    <2>2. ASSUME NEW r \in Requests, ReadExpired(r) \/ TakeOver(r) PROVE FALSE
      BY <2>2 DEF KeyInv, NothingExpires, ReadExpired, IsExpired, TakeOver
    <2>3. ASSUME NEW r \in Requests, Store(r) \/ StoreFails(r) PROVE FALSE
      <3>1. r \in Claimants /\ pc[r] = "store"
        BY <2>3 DEF Store, StoreFails, KeyInv, ClaimantsAreGenuine, Claimants
      <3> QED
        BY <3>1 DEF KeyInv, ClaimantHoldsRow
    <2>4. ASSUME NEW r \in Requests, Release(r) PROVE row' = row
      BY <2>4 DEF Release, Released
    <2>5. CASE Expire
      BY <2>5 DEF Expire
    <2>6. ~Purge
      BY DEF KeyInv, NothingExpires, Purge
    <2> QED
      BY <2>1, <2>2, <2>3, <2>4, <2>5, <2>6 DEF Next
  <1> QED
    BY <1>1, SpecUntilExpiry, PTL DEF Spec, CompletedIsStable

-----------------------------------------------------------------------------
(* For ever: whatever expires, is purged or is taken over twice *)

\* A request that stores its response has done its work, and one whose response
\* is in the row is past the steps that would give it another record.
RecordInv ==
    /\ TypeOK
    /\ \A r \in Requests : pc[r] = "store" => r \in effects
    /\ row.status = "COMPLETED" =>
          /\ row.by \in effects
          /\ claim[row.by] = row.id
          /\ pc[row.by] \in {"release", "over"}

\* A request moves: what TypeOK asks of the variables that every move writes.
LEMMA MovesTypeOK ==
    ASSUME TypeOK, NEW r \in Requests, NEW to \in Steps, Goto(r, to)
    PROVE  /\ pc' \in [Requests -> Steps]
           /\ pc'[r] = to
           /\ \A q \in Requests : q # r => pc'[q] = pc[q]
  BY DEF TypeOK

\* ... and when it is over.
LEMMA AnswersTypeOK ==
    ASSUME TypeOK, NEW r \in Requests, NEW what \in Replies, Answer(r, what)
    PROVE  /\ pc' \in [Requests -> Steps]
           /\ reply' \in [Requests -> Replies]
           /\ slow' \in SUBSET Requests
           /\ pc'[r] = "over"
           /\ \A q \in Requests : q # r => pc'[q] = pc[q] /\ reply'[q] = reply[q]
  BY DEF TypeOK, Steps

LEMMA InitRecordInv == Init => RecordInv
  BY InitKeyInv DEF RecordInv, KeyInv, Init

LEMMA InsertRecordInv ==
    ASSUME RecordInv, NEW r \in Requests, Insert(r) PROVE RecordInv'
  <1> USE IdempotencyAssumption DEF RecordInv, Insert
  <1>1. lastId + 1 \in Nat /\ OpOf[r] \in Operations
    <2>1. lastId \in Nat
      BY DEF TypeOK
    <2>2. OpOf[r] \in Operations
      OBVIOUS
    <2> QED
      BY <2>1, <2>2
  <1>2. row' \in Row /\ row'.status = "IN_PROGRESS"
    BY <1>1, NewRowInRow
  <1>3. claim' \in [Requests -> Nat]
    BY <1>1 DEF TypeOK
  <1>4. "handler" \in Steps
    BY DEF Steps
  <1>5. /\ pc' \in [Requests -> Steps] /\ pc'[r] = "handler"
        /\ \A q \in Requests : q # r => pc'[q] = pc[q]
    BY <1>4 DEF TypeOK
  <1>6. TypeOK'
    BY <1>1, <1>2, <1>3, <1>5 DEF TypeOK
  <1> QED
    BY <1>2, <1>5, <1>6

\* Nothing is written to the row.
LEMMA LookRecordInv ==
    ASSUME RecordInv, NEW r \in Requests,
           InsertConflict(r) \/ ReadVanished(r) \/ ReadExpired(r) \/ ReadLive(r)
    PROVE  RecordInv'
  <1> USE IdempotencyAssumption DEF RecordInv
  <1>1. /\ UNCHANGED <<row, lastId, effects, expiries, crashes>>
        /\ pc[r] \in {"new", "read"}
        /\ pc'[r] \in {"read", "handler", "takeover", "over"}
        /\ \A q \in Requests : q # r => pc'[q] = pc[q] /\ claim'[q] = claim[q]
    BY DEF TypeOK, InsertConflict, ReadVanished, ReadExpired, ReadLive
  <1>2. TypeOK'
    <2>1. /\ pc' \in [Requests -> Steps]
          /\ slow' \in SUBSET Requests
          /\ reply' \in [Requests -> Replies]
      BY DEF TypeOK, Steps, Replies, InsertConflict, ReadVanished, ReadExpired, ReadLive
    <2>2. source' \in [Requests -> Requests \cup {NoRequest}]
      BY DEF TypeOK, Row, InsertConflict, ReadVanished, ReadExpired, ReadLive
    <2>3. claim' \in [Requests -> Nat]
      BY DEF TypeOK, Row, InsertConflict, ReadVanished, ReadExpired, ReadLive
    <2> QED
      BY <1>1, <2>1, <2>2, <2>3 DEF TypeOK
  <1>3. row.status = "COMPLETED" => row.by \in Requests /\ row.by # r
    BY <1>1 DEF TypeOK
  <1> QED
    BY <1>1, <1>2, <1>3

\* Taking over ends the tenure of the response that was there.
LEMMA TakeOverRecordInv ==
    ASSUME RecordInv, NEW r \in Requests, TakeOver(r) PROVE RecordInv'
  <1> USE IdempotencyAssumption DEF RecordInv, TakeOver
  <1>1. pc' \in [Requests -> Steps] /\ pc'[r] \in {"handler", "over"}
        /\ \A q \in Requests : q # r => pc'[q] = pc[q]
    BY DEF TypeOK, Steps
  <1>2. slow' \in SUBSET Requests /\ reply' \in [Requests -> Replies]
    BY DEF TypeOK, Replies
  <1>3. OpOf[r] \in Operations
    OBVIOUS
  <1>4. CASE row.status # "ABSENT" /\ row.id = claim[r]
    <2>1. row \in Row
      BY DEF TypeOK
    <2>2. row' = [row EXCEPT !.op = OpOf[r], !.status = "IN_PROGRESS", !.expired = FALSE]
      BY <1>4
    <2>3. row' \in Row /\ row'.status = "IN_PROGRESS"
      BY <1>3, <2>1, <2>2 DEF Row
    <2>4. TypeOK'
      BY <1>1, <1>2, <2>3 DEF TypeOK
    <2> QED
      BY <1>1, <2>3, <2>4
  <1>5. CASE ~(row.status # "ABSENT" /\ row.id = claim[r])
    <2>1. row' = row
      BY <1>5
    <2>2. TypeOK'
      BY <1>1, <1>2, <2>1 DEF TypeOK
    <2>3. row.status = "COMPLETED" => row.by \in Requests
      BY DEF TypeOK
    <2> QED
      BY <1>1, <2>1, <2>2, <2>3
  <1> QED
    BY <1>4, <1>5

LEMMA HandlerRecordInv ==
    ASSUME RecordInv, NEW r \in Requests, Handle(r) \/ HandlerThrows(r) PROVE RecordInv'
  <1> USE IdempotencyAssumption DEF RecordInv
  <1>1. /\ UNCHANGED <<row, lastId, claim, expiries, crashes>>
        /\ effects' \in {effects, effects \cup {r}}
        /\ Handle(r) => effects' = effects \cup {r}
        /\ pc[r] = "handler"
        /\ pc'[r] = "store" => Handle(r)
        /\ \A q \in Requests : q # r => pc'[q] = pc[q]
    BY DEF TypeOK, Handle, HandlerThrows
  <1>2. TypeOK'
    <2>1. pc' \in [Requests -> Steps]
      BY DEF TypeOK, Steps, Handle, HandlerThrows
    <2>2. slow' \in SUBSET Requests /\ reply' \in [Requests -> Replies]
      BY DEF TypeOK, Replies, Handle, HandlerThrows
    <2>3. source' \in [Requests -> Requests \cup {NoRequest}]
      BY DEF TypeOK, Handle, HandlerThrows
    <2> QED
      BY <1>1, <2>1, <2>2, <2>3 DEF TypeOK
  <1>3. row.status = "COMPLETED" => row.by \in Requests /\ row.by # r
    BY <1>1 DEF TypeOK
  <1> QED
    BY <1>1, <1>2, <1>3

\* The end of a claim: a response is stored under the record of the request, or
\* the row is left alone or goes.
LEMMA EndRecordInv ==
    ASSUME RecordInv, NEW r \in Requests, Store(r) \/ StoreFails(r) \/ Release(r) \/ Crash(r)
    PROVE  RecordInv'
  <1> USE IdempotencyAssumption DEF RecordInv
  <1>1. /\ UNCHANGED <<lastId, claim, effects, source, expiries>>
        /\ \A q \in Requests : q # r => pc'[q] = pc[q]
        /\ pc'[r] \in {"over", "release"}
        /\ crashes' \in Nat
    BY DEF TypeOK, Store, StoreFails, Release, Crash
  <1>2. pc' \in [Requests -> Steps] /\ slow' \in SUBSET Requests /\ reply' \in [Requests -> Replies]
    BY DEF TypeOK, Steps, Replies, Store, StoreFails, Release, Crash
  <1>3. row \in Row
    BY DEF TypeOK
  <1>4. /\ row' \in Row
        /\ \/ row' = row
           \/ row'.status = "ABSENT"
           \/ row'.by = r /\ row'.id = claim[r] /\ pc[r] = "store"
    <2>1. OwnsRow(r) => /\ Stored(r) \in Row /\ Stored(r).id = row.id /\ Stored(r).by = r
                        /\ row.id = claim[r]
      BY <1>3 DEF OwnsRow, Stored, Row
    <2>2. ~OwnsRow(r) => Stored(r) = row /\ Released(r) = row
      BY DEF Stored, Released
    <2>3. Released(r) = row \/ (Released(r) \in Row /\ Released(r).status = "ABSENT")
      BY <1>3 DEF Released, Row
    <2>4. CASE Store(r)
      BY <1>3, <2>1, <2>2, <2>4 DEF Store
    <2>5. CASE StoreFails(r)
      BY <1>3, <2>1, <2>2, <2>5 DEF StoreFails
    <2>6. CASE Release(r)
      BY <1>3, <2>3, <2>6 DEF Release
    <2>7. CASE Crash(r)
      BY <1>3, <2>7 DEF Crash
    <2> QED
      BY <2>4, <2>5, <2>6, <2>7
  <1>5. TypeOK'
    BY <1>1, <1>2, <1>4 DEF TypeOK
  <1>6. row.status = "COMPLETED" => row.by \in Requests
    BY DEF TypeOK
  <1> QED
    BY <1>1, <1>4, <1>5, <1>6

LEMMA TimeRecordInv ==
    ASSUME RecordInv, Expire \/ Purge PROVE RecordInv'
  <1> USE DEF RecordInv
  <1>1. row \in Row
    BY DEF TypeOK
  <1>2. /\ UNCHANGED <<lastId, pc, claim, effects, reply, source, crashes>>
        /\ expiries' \in Nat
        /\ slow' \in SUBSET Requests
    BY DEF Expire, Purge, TypeOK
  <1>3. /\ row' \in Row /\ row'.id = row.id /\ row'.by = row.by
        /\ row'.status \in {row.status, "ABSENT"}
    <2>1. CASE Expire
      BY <1>1, <2>1 DEF Expire, Row
    <2>2. CASE Purge
      BY <1>1, <2>2 DEF Purge, Row
    <2> QED
      BY <2>1, <2>2
  <1>4. TypeOK'
    BY <1>2, <1>3 DEF TypeOK
  <1> QED
    BY <1>2, <1>3, <1>4

LEMMA SpecRecordInv == Spec => []RecordInv
  <1>1. RecordInv /\ [Next]_vars => RecordInv'
    <2> SUFFICES ASSUME RecordInv, [Next]_vars PROVE RecordInv'
      OBVIOUS
    <2>1. CASE UNCHANGED vars
      BY <2>1 DEF vars, RecordInv, TypeOK
    <2>2. CASE Next
      BY <2>2, InsertRecordInv, LookRecordInv, TakeOverRecordInv, HandlerRecordInv,
         EndRecordInv, TimeRecordInv DEF Next
    <2> QED
      BY <2>1, <2>2
  <1> QED
    BY <1>1, InitRecordInv, PTL DEF Spec

-----------------------------------------------------------------------------
(* While the key lives: how often the work is done *)

\* Work that was done under the key and has not failed.
Undisputed == {r \in effects : claim[r] # 0 /\ reply[r] # "error" /\ pc[r] # "release"}

\* It is about to be stored, or it is the stored response.
WorkIsKept ==
    /\ \A r \in effects : pc[r] \in {"store", "release", "over"}
    /\ \A r \in Undisputed :
          pc[r] = "store" \/ (row.status = "COMPLETED" /\ row.by = r)

LEMMA LookWorkIsKept ==
    ASSUME KeyInv, WorkIsKept, NEW r \in Requests,
           Insert(r) \/ InsertConflict(r) \/ ReadVanished(r) \/ ReadLive(r)
    PROVE  WorkIsKept'
  <1>1. /\ pc[r] \in {"new", "read"}
        /\ effects' = effects
        /\ \A q \in Requests : q # r => pc'[q] = pc[q] /\ reply'[q] = reply[q] /\ claim'[q] = claim[q]
        /\ row' = row \/ row.status = "ABSENT"
    BY DEF KeyInv, TypeOK, Insert, KeyIsFree, InsertConflict, ReadVanished, ReadLive
  <1>2. r \notin effects /\ effects \subseteq Requests
    BY <1>1 DEF WorkIsKept, KeyInv, TypeOK
  <1> QED
    BY <1>1, <1>2 DEF WorkIsKept, Undisputed

LEMMA HandlerWorkIsKept ==
    ASSUME KeyInv, WorkIsKept, NEW r \in Requests, Handle(r) \/ HandlerThrows(r)
    PROVE  WorkIsKept'
  <1>1. /\ pc[r] = "handler"
        /\ effects' \in {effects, effects \cup {r}}
        /\ \A q \in Requests : q # r => pc'[q] = pc[q] /\ reply'[q] = reply[q]
        /\ UNCHANGED <<row, claim>>
        /\ pc'[r] \in {"store", "release", "over"}
        /\ claim[r] # 0 => pc'[r] \in {"store", "release"}
    BY DEF KeyInv, TypeOK, Handle, HandlerThrows
  <1>2. effects \subseteq Requests
    BY DEF KeyInv, TypeOK
  <1> QED
    BY <1>1, <1>2 DEF WorkIsKept, Undisputed

\* The request that ends its claim is the only claimant: nobody else's work is
\* in the row.
LEMMA EndWorkIsKept ==
    ASSUME KeyInv, WorkIsKept, NEW r \in Requests,
           Store(r) \/ StoreFails(r) \/ Release(r) \/ Crash(r)
    PROVE  WorkIsKept'
  <1>1. /\ UNCHANGED <<claim, effects>>
        /\ effects \subseteq Requests
        /\ \A q \in Requests : q # r => pc'[q] = pc[q] /\ reply'[q] = reply[q]
        /\ pc'[r] \in {"release", "over"}
        /\ pc'[r] = "release" \/ reply'[r] = "error" \/ Store(r)
    BY DEF KeyInv, TypeOK, Store, StoreFails, Release, Crash
  <1>2. CASE Crash(r)
    <2>1. row' = row /\ reply'[r] = "error"
      BY <1>2 DEF Crash, KeyInv, TypeOK
    <2> QED
      BY <1>1, <2>1 DEF WorkIsKept, Undisputed
  <1>3. CASE Store(r) \/ StoreFails(r) \/ Release(r)
    <2>1. r \in Claimants
      BY <1>3 DEF Claimants, KeyInv, ClaimantsAreGenuine, Store, StoreFails, Release
    <2>2. row.id = claim[r] /\ row.status \in {"IN_PROGRESS", "COMPLETED"}
          /\ (row.status = "COMPLETED" => row.by = r)
      BY <2>1 DEF KeyInv, ClaimantHoldsRow
    <2>3. \A q \in Undisputed : q = r
      <3> SUFFICES ASSUME NEW q \in Undisputed, q # r PROVE FALSE
        OBVIOUS
      <3>1. q \in Requests /\ claim[q] # 0
        BY <1>1 DEF Undisputed
      <3>2. CASE pc[q] = "store"
        BY <2>1, <3>1, <3>2 DEF Claimants, KeyInv, ClaimExclusive
      <3>3. CASE row.status = "COMPLETED" /\ row.by = q
        BY <2>2, <3>3
      <3> QED
        BY <3>2, <3>3 DEF WorkIsKept
    <2>4. Undisputed' \subseteq Undisputed \cup {r}
      BY <1>1 DEF Undisputed
    <2>5. Store(r) => row'.status = "COMPLETED" /\ row'.by = r
      BY <2>2 DEF Store, Stored, OwnsRow, KeyInv, TypeOK, Row
    <2>6. \A q \in Undisputed' : q = r /\ Store(r)
      <3>1. r \in Undisputed' => Store(r)
        BY <1>1 DEF Undisputed
      <3> QED
        BY <2>3, <2>4, <3>1
    <2> QED
      BY <1>1, <2>5, <2>6 DEF WorkIsKept
  <1> QED
    BY <1>2, <1>3

\* KeyInv and the work behind it, until the key expires.
WorkInv == UntilExpiry /\ (expiries = 0 => WorkIsKept)

LEMMA SpecWorkInv == Spec => []WorkInv
  <1>1. Init => WorkInv
    <2>1. Init => UntilExpiry
      BY InitKeyInv DEF UntilExpiry, KeyInv, TypeOK
    <2>2. Init => WorkIsKept
      BY DEF Init, WorkIsKept, Undisputed
    <2> QED
      BY <2>1, <2>2 DEF WorkInv
  <1>2. WorkInv /\ UntilExpiry' /\ [Next]_vars => WorkInv'
    <2> SUFFICES ASSUME WorkInv, UntilExpiry', [Next]_vars, expiries' = 0 PROVE WorkIsKept'
      BY DEF WorkInv
    <2>1. expiries = 0 /\ ~Expire
      BY ExpiriesCount DEF WorkInv, UntilExpiry, Expire
    <2>2. KeyInv /\ WorkIsKept
      BY <2>1 DEF WorkInv, UntilExpiry
    <2>3. ASSUME NEW r \in Requests, ReadExpired(r) \/ TakeOver(r) PROVE FALSE
      BY <2>2, <2>3 DEF KeyInv, NothingExpires, ReadExpired, IsExpired, TakeOver
    <2>4. ~Purge
      BY <2>2 DEF KeyInv, NothingExpires, Purge
    <2>5. CASE UNCHANGED vars
      BY <2>2, <2>5 DEF vars, WorkIsKept, Undisputed
    <2>6. CASE Next
      BY <2>1, <2>2, <2>3, <2>4, <2>6, LookWorkIsKept, HandlerWorkIsKept, EndWorkIsKept DEF Next
    <2> QED
      BY <2>5, <2>6
  <1> QED
    BY <1>1, <1>2, SpecUntilExpiry, PTL DEF Spec

\* Undisputed work is one request's: two claimants would share the key, and the
\* row holds one response.
LEMMA UndisputedIsOne ==
    ASSUME KeyInv, WorkIsKept PROVE \A r, q \in Undisputed : r = q
  <1> SUFFICES ASSUME NEW r \in Undisputed, NEW q \in Undisputed PROVE r = q
    OBVIOUS
  <1>1. /\ r \in Requests /\ claim[r] # 0
        /\ q \in Requests /\ claim[q] # 0
    BY DEF Undisputed, KeyInv, TypeOK
  <1>2. CASE pc[r] = "store" /\ pc[q] = "store"
    BY <1>1, <1>2 DEF KeyInv, ClaimExclusive, Claimants
  <1>3. ASSUME NEW s \in Requests, claim[s] # 0, pc[s] = "store" PROVE row.status # "COMPLETED"
    BY <1>3 DEF KeyInv, ClaimantHoldsRow, Claimants
  <1>4. CASE row.status = "COMPLETED"
    BY <1>1, <1>3, <1>4 DEF WorkIsKept
  <1> QED
    BY <1>2, <1>4 DEF WorkIsKept

\* A union has at most as many elements as its parts.
LEMMA UnionIsBounded ==
    ASSUME NEW S, NEW T, IsFiniteSet(S), IsFiniteSet(T)
    PROVE  /\ IsFiniteSet(S \cup T)
           /\ Cardinality(S) \in Nat /\ Cardinality(T) \in Nat
           /\ Cardinality(S \cup T) \in Nat
           /\ Cardinality(S \cup T) <= Cardinality(S) + Cardinality(T)
  <1>1. /\ IsFiniteSet(S \cup T)
        /\ Cardinality(S \cup T) = Cardinality(S) + Cardinality(T) - Cardinality(S \cap T)
    BY FS_Union
  <1>2. IsFiniteSet(S \cap T)
    BY FS_Intersection
  <1>3. /\ Cardinality(S) \in Nat /\ Cardinality(T) \in Nat
        /\ Cardinality(S \cup T) \in Nat /\ Cardinality(S \cap T) \in Nat
    BY <1>1, <1>2, FS_CardinalityType
  <1> QED
    BY <1>1, <1>3

\* Work is done once, but for what failed and what ran without the key.
LEMMA WorkIsCounted ==
    ASSUME KeyInv, WorkIsKept PROVE DoneOnceUnlessFailed
  <1> DEFINE failed == {r \in effects : reply[r] = "error" \/ pc[r] = "release"}
             unkeyed == {r \in effects : claim[r] = 0}
  <1>1. IsFiniteSet(effects) /\ IsFiniteSet(failed) /\ IsFiniteSet(unkeyed)
    <2>1. effects \subseteq Requests /\ failed \subseteq effects /\ unkeyed \subseteq effects
      BY DEF KeyInv, TypeOK
    <2> QED
      BY <2>1, IdempotencyAssumption, FS_Subset
  <1>2. IsFiniteSet(Undisputed) /\ Cardinality(Undisputed) <= 1
    <2>1. CASE Undisputed = {}
      BY <2>1, FS_EmptySet
    <2>2. CASE Undisputed # {}
      <3>1. PICK r \in Undisputed : TRUE
        BY <2>2
      <3>2. Undisputed = {r}
        BY <3>1, UndisputedIsOne
      <3> QED
        BY <3>2, FS_Singleton
    <2> QED
      BY <2>1, <2>2
  <1> HIDE DEF failed, unkeyed
  <1>3. effects \subseteq (Undisputed \cup failed) \cup unkeyed
    BY DEF Undisputed, failed, unkeyed
  <1>4. /\ IsFiniteSet(Undisputed \cup failed)
        /\ Cardinality(Undisputed \cup failed) <= 1 + Cardinality(failed)
    BY <1>1, <1>2, UnionIsBounded
  <1>5. /\ IsFiniteSet((Undisputed \cup failed) \cup unkeyed)
        /\ Cardinality((Undisputed \cup failed) \cup unkeyed)
             <= 1 + Cardinality(failed) + Cardinality(unkeyed)
    BY <1>1, <1>4, UnionIsBounded
  <1>6. Cardinality(effects) <= Cardinality((Undisputed \cup failed) \cup unkeyed)
    BY <1>3, <1>5, FS_Subset
  <1>7. Cardinality(effects) <= 1 + Cardinality(failed) + Cardinality(unkeyed)
    BY <1>1, <1>5, <1>6, FS_CardinalityType
  <1> QED
    BY <1>7 DEF DoneOnceUnlessFailed, failed, unkeyed

\* What a key stands for is kept: while it lives one request has it and work is
\* done again only where an attempt failed or ran without it, and for ever a
\* stored response is the one of the record it is stored under.
THEOREM KeyStaysKept == Spec => []KeyIsKept
  <1>1. RecordInv => TypeOK /\ ResponseOfRecord
    BY DEF RecordInv, ResponseOfRecord
  <1>2. WorkInv => ExclusiveWhileLive
    BY DEF WorkInv, UntilExpiry, KeyInv, ExclusiveWhileLive
  <1>3. WorkInv => DoneOnceUnlessFailed
    <2>1. CASE expiries = 0
      BY <2>1, WorkIsCounted DEF WorkInv, UntilExpiry
    <2>2. CASE expiries # 0
      BY <2>2 DEF DoneOnceUnlessFailed
    <2> QED
      BY <2>1, <2>2
  <1>4. RecordInv /\ WorkInv => KeyIsKept
    BY <1>1, <1>2, <1>3 DEF KeyIsKept
  <1> QED
    BY <1>4, SpecRecordInv, SpecWorkInv, PTL
=============================================================================
