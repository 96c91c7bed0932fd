---------------------------- MODULE PeopleProofs ----------------------------
(* Proofs about Team, SignIn, SecondFactor and SupportAccess, for any number *)
(* of people, organizations and overlapping requests.                        *)
EXTENDS MCPeople, TLAPS, FiniteSetTheorems, SequenceTheorems

-----------------------------------------------------------------------------
(* Team: the invariant.                                                     *)

Changing(r) == req[r].at = "checked" /\ req[r].op \in {"update", "remove"}
Creating(r) == req[r].at \in {"checked", "writing"} /\ req[r].op = "create"
Accepting(r) == req[r].at = "checked" /\ req[r].op = "accept"

\* What a request has in hand is of the kind that its operation needs.
InHand ==
    \A r \in Requests :
        /\ req[r].op \in {"update", "remove"} => req[r].who \in Users /\ req[r].at \in {"entered", "checked"}
        /\ req[r].op = "update" => req[r].to \in Roles
        /\ req[r].op = "remove" => req[r].to = None
        /\ req[r].op \in {"create", "accept"} => req[r].who \in Users /\ req[r].to \in Roles
        /\ req[r].op = "accept" => /\ req[r].inv \in DOMAIN invites
                                   /\ invites[req[r].inv].email = req[r].who
                                   /\ invites[req[r].inv].to = req[r].to
        /\ Changing(r) => role[req[r].who] # None

\* As long as no two changes of members overlapped, one at most is past its
\* checks, and it leaves an Owner.
OneChange ==
    "owners" \notin overlaps =>
        /\ \A r, q \in Requests : Changing(r) /\ Changing(q) => r = q
        /\ \A r \in Requests : Changing(r) /\ req[r].to # "OWNER" =>
              \E u \in Users : u # req[r].who /\ role[u] = "OWNER"

\* Whoever is being invited is no member and joins by nothing else, and what the
\* transaction has not revoked of their invitations is not pending.
InvitesAlone(r) ==
    /\ role[req[r].who] = None
    /\ \A q \in Requests : (Creating(q) \/ Accepting(q)) /\ req[q].who = req[r].who => q = r
    /\ req[r].at = "writing" => Pending(req[r].who) \subseteq req[r].rows

\* So it is as long as no two invitations of one address overlapped.
OneInvitation ==
    "invites" \notin overlaps => \A r \in Requests : Creating(r) => InvitesAlone(r)

\* Two invitations of one address do not wait.
OnePending ==
    "invites" \notin overlaps =>
        \A u \in Users : \A i, j \in Pending(u) : i = j

\* The rows an open transaction has written are of its own address.
OwnRows ==
    \A r \in Requests : \A i \in req[r].rows :
        /\ req[r].at = "writing" /\ req[r].op = "create"
        /\ i \in DOMAIN invites /\ invites[i].email = req[r].who

TeamInv == /\ TypeOK /\ invites \in Seq(Invitation)
           /\ InHand /\ OneChange /\ OneInvitation /\ OnePending /\ OwnRows
           /\ KeepsAnOwner /\ RemovedStaysOut

-----------------------------------------------------------------------------
(* Team: what the steps do to a request.                                    *)

Places == {"idle", "entered", "checked", "writing"}

\* The record of a request, field by field.
LEMMA RequestRecord ==
    ASSUME NEW at \in Places, NEW op \in Ops \cup {None}, NEW as \in Roles \cup {None},
           NEW who \in Users \cup {None}, NEW to \in Roles \cup {None},
           NEW i \in 0..MaxInvites, NEW rows \in SUBSET (1..MaxInvites), NEW fresh \in BOOLEAN
    PROVE  [at |-> at, op |-> op, as |-> as, who |-> who, to |-> to, inv |-> i,
            rows |-> rows, fresh |-> fresh] \in Request
  BY Zenon DEF Request, Places

LEMMA IdleRequest == Idle \in Request
  <1>1. /\ "idle" \in Places /\ None \in Ops \cup {None} /\ None \in Roles \cup {None}
        /\ None \in Users \cup {None} /\ 0 \in 0..MaxInvites /\ {} \in SUBSET (1..MaxInvites)
        /\ FALSE \in BOOLEAN
    BY TeamAssumption DEF Places
  <1> QED
    BY <1>1, RequestRecord, Zenon DEF Idle

LEMMA RequestFields ==
    ASSUME NEW q \in Request
    PROVE  /\ q = [at |-> q.at, op |-> q.op, as |-> q.as, who |-> q.who, to |-> q.to,
                   inv |-> q.inv, rows |-> q.rows, fresh |-> q.fresh]
           /\ q.at \in Places /\ q.op \in Ops \cup {None} /\ q.as \in Roles \cup {None}
           /\ q.who \in Users \cup {None} /\ q.to \in Roles \cup {None}
           /\ q.inv \in 0..MaxInvites /\ q.rows \in SUBSET (1..MaxInvites) /\ q.fresh \in BOOLEAN
  BY DEF Request, Places

\* The request r is at a place with an operation in hand; the others are left
\* alone.
Becomes(r, at, op, who, to, i, rows) ==
    /\ \A q \in Requests \ {r} : req'[q] = req[q]
    /\ req'[r].at = at /\ req'[r].op = op /\ req'[r].who = who
    /\ req'[r].to = to /\ req'[r].inv = i /\ req'[r].rows = rows

Rests(r) == Becomes(r, "idle", None, None, None, 0, {})

\* A request that is given a new record of its type.
LEMMA GivenRecord ==
    ASSUME req \in [Requests -> Request], NEW r \in Requests, NEW at \in Places,
           NEW op \in Ops \cup {None}, NEW as \in Roles \cup {None},
           NEW who \in Users \cup {None}, NEW to \in Roles \cup {None}, NEW i \in 0..MaxInvites,
           NEW rows \in SUBSET (1..MaxInvites), NEW fresh \in BOOLEAN,
           req' = [req EXCEPT ![r] = [at |-> at, op |-> op, as |-> as, who |-> who, to |-> to,
                                      inv |-> i, rows |-> rows, fresh |-> fresh]]
    PROVE  req' \in [Requests -> Request] /\ Becomes(r, at, op, who, to, i, rows)
  <1>1. [at |-> at, op |-> op, as |-> as, who |-> who, to |-> to, inv |-> i, rows |-> rows,
         fresh |-> fresh] \in Request
    BY Zenon DEF Request, Places
  <1>2. req' \in [Requests -> Request]
    BY <1>1
  <1> QED
    BY <1>2 DEF Becomes

LEMMA GivenIdle ==
    ASSUME req \in [Requests -> Request], NEW r \in Requests, req' = [req EXCEPT ![r] = Idle]
    PROVE  req' \in [Requests -> Request] /\ Rests(r)
  <1>1. req' \in [Requests -> Request]
    BY IdleRequest
  <1> QED
    BY <1>1 DEF Becomes, Rests, Idle

\* A step of r leaves the requests what their types say, and does to r what its
\* action says.
LEMMA EnterGives ==
    ASSUME TypeOK, NEW r \in Requests, NEW u \in Users, NEW at \in {"entered", "checked"},
           NEW op \in Ops, NEW who \in Users \cup {None}, NEW to \in Roles \cup {None},
           NEW i \in 0..MaxInvites, Enter(r, u, at, op, who, to, i)
    PROVE  req' \in [Requests -> Request] /\ Becomes(r, at, op, who, to, i, {})
  <1>1. (IF at = "entered" THEN role[u] ELSE None) \in Roles \cup {None}
    BY DEF TypeOK
  <1>2. /\ at \in Places /\ op \in Ops \cup {None} /\ {} \in SUBSET (1..MaxInvites)
        /\ FALSE \in BOOLEAN
    BY DEF Places
  <1> DEFINE as == IF at = "entered" THEN role[u] ELSE None
  <1>3. req' = [req EXCEPT ![r] = [at |-> at, op |-> op, as |-> as, who |-> who, to |-> to,
                                   inv |-> i, rows |-> {}, fresh |-> FALSE]]
    BY DEF Enter
  <1>4. req \in [Requests -> Request]
    BY DEF TypeOK
  <1> QED
    BY <1>1, <1>2, <1>3, <1>4, GivenRecord, Zenon

LEMMA AcceptReadsGives ==
    ASSUME TypeOK, NEW r \in Requests, NEW i \in DOMAIN invites, AcceptReads(r, i),
           invites \in Seq(Invitation)
    PROVE  /\ req' \in [Requests -> Request]
           /\ Becomes(r, "checked", "accept", invites[i].email, invites[i].to, i, {})
  <1>1. invites[i] \in Invitation /\ i \in 1..Len(invites) /\ Len(invites) \in Nat
    OBVIOUS
  <1>2. invites[i].email \in Users \cup {None} /\ invites[i].to \in Roles \cup {None}
    BY <1>1 DEF Invitation
  <1>3. i \in 0..MaxInvites
    BY <1>1, TeamAssumption DEF TypeOK
  <1>4. /\ "checked" \in Places /\ "accept" \in Ops \cup {None} /\ None \in Roles \cup {None}
        /\ {} \in SUBSET (1..MaxInvites) /\ (invites[i].email \notin account) \in BOOLEAN
    BY DEF Places, Ops
  <1>5. req' = [req EXCEPT ![r] = [at |-> "checked", op |-> "accept", as |-> None,
                   who |-> invites[i].email, to |-> invites[i].to, inv |-> i,
                   rows |-> {}, fresh |-> invites[i].email \notin account]]
    BY DEF AcceptReads
  <1>6. req \in [Requests -> Request]
    BY DEF TypeOK
  <1> DEFINE fresh == invites[i].email \notin account
             who == invites[i].email
             to == invites[i].to
  <1>7. who \in Users \cup {None} /\ to \in Roles \cup {None} /\ fresh \in BOOLEAN
    BY <1>2
  <1>8. req' = [req EXCEPT ![r] = [at |-> "checked", op |-> "accept", as |-> None, who |-> who,
                   to |-> to, inv |-> i, rows |-> {}, fresh |-> fresh]]
    BY <1>5
  <1> HIDE DEF fresh, who, to
  <1>9. req' \in [Requests -> Request] /\ Becomes(r, "checked", "accept", who, to, i, {})
    BY <1>3, <1>4, <1>6, <1>7, <1>8, GivenRecord, Zenon
  <1> QED
    BY <1>9 DEF who, to
LEMMA RequestUpdates ==
    ASSUME NEW q \in Request, NEW at \in Places, NEW rows \in SUBSET (1..MaxInvites)
    PROVE  /\ [q EXCEPT !.at = at, !.rows = rows] \in Request
           /\ [q EXCEPT !.at = at, !.as = None] \in Request
  <1>1. [q EXCEPT !.at = at, !.rows = rows] \in Request
    BY Zenon DEF Request, Places
  <1>2. None \in Roles \cup {None}
    OBVIOUS
  <1>3. [q EXCEPT !.at = at, !.as = None] \in Request
    BY <1>2, Zenon DEF Request, Places
  <1> QED
    BY <1>1, <1>3

LEMMA CreateRevokesGives ==
    ASSUME TypeOK, NEW r \in Requests, CreateRevokes(r)
    PROVE  /\ req' \in [Requests -> Request]
           /\ Becomes(r, "writing", "create", req[r].who, req[r].to, req[r].inv,
                      Pending(req[r].who) \ Locked)
  <1> DEFINE rows == Pending(req[r].who) \ Locked
  <1>1. req \in [Requests -> Request] /\ req[r] \in Request
    BY DEF TypeOK
  <1>2. rows \in SUBSET (1..MaxInvites)
    BY TeamAssumption DEF TypeOK, Pending
  <1>3. req' = [req EXCEPT ![r].at = "writing", ![r].rows = rows]
    BY DEF CreateRevokes
  <1> HIDE DEF rows
  <1>4. "writing" \in Places
    BY DEF Places
  <1>5. req'[r] = [req[r] EXCEPT !.at = "writing", !.rows = rows]
    BY <1>1, <1>3
  <1>6. req'[r] \in Request
    <2>1. [req[r] EXCEPT !.at = "writing", !.rows = rows] \in Request
      BY <1>1, <1>2, <1>4, RequestUpdates
    <2> QED
      BY <1>5, <2>1
  <1>7. req' \in [Requests -> Request]
    BY <1>1, <1>3, <1>6
  <1>8. /\ req'[r].at = "writing" /\ req'[r].op = req[r].op /\ req'[r].who = req[r].who
        /\ req'[r].to = req[r].to /\ req'[r].inv = req[r].inv /\ req'[r].rows = rows
    BY <1>1, <1>5 DEF Request
  <1>9. req[r].op = "create"
    BY DEF CreateRevokes
  <1> QED
    BY <1>1, <1>3, <1>7, <1>8, <1>9 DEF Becomes, rows

LEMMA CheckMemberGives ==
    ASSUME TypeOK, NEW r \in Requests, CheckMember(r)
    PROVE  /\ req' \in [Requests -> Request]
           /\ Becomes(r, "checked", req[r].op, req[r].who, req[r].to, req[r].inv, req[r].rows)
  <1>1. req \in [Requests -> Request] /\ req[r] \in Request
    BY DEF TypeOK
  <1>2. req' = [req EXCEPT ![r].at = "checked", ![r].as = None]
    BY DEF CheckMember
  <1>3. "checked" \in Places /\ {} \in SUBSET (1..MaxInvites)
    BY DEF Places
  <1>4. req'[r] = [req[r] EXCEPT !.at = "checked", !.as = None]
    BY <1>1, <1>2
  <1>5. req'[r] \in Request
    BY <1>1, <1>3, <1>4, RequestUpdates, Zenon
  <1>6. req' \in [Requests -> Request]
    BY <1>1, <1>2, <1>5
  <1>7. /\ req'[r].at = "checked" /\ req'[r].op = req[r].op /\ req'[r].who = req[r].who
        /\ req'[r].to = req[r].to /\ req'[r].inv = req[r].inv /\ req'[r].rows = req[r].rows
    BY <1>1, <1>4 DEF Request
  <1> QED
    BY <1>1, <1>2, <1>6, <1>7 DEF Becomes

\* A removal ends the requests that were to write the row.
LEMMA RemoveMemberGives ==
    ASSUME TypeOK, NEW r \in Requests, RemoveMember(r)
    PROVE  /\ req' \in [Requests -> Request]
           /\ \A q \in Requests : req'[q] = IF req[q].who = req[r].who /\ Changing(q) THEN Idle ELSE req[q]
  BY IdleRequest DEF TypeOK, RemoveMember, Without, Changing

\* The steps that end a request.
LEMMA EndsGives ==
    ASSUME TypeOK, NEW r \in Requests,
           Ends(r) \/ CreateCommits(r) \/ Revoke(r) \/ AcceptCommits(r) \/ UpdateMembership(r)
    PROVE  req' \in [Requests -> Request] /\ Rests(r)
  <1>1. req' = [req EXCEPT ![r] = Idle]
    BY DEF Ends, CreateCommits, Revoke, AcceptCommits, UpdateMembership
  <1> QED
    BY <1>1, GivenIdle DEF TypeOK

-----------------------------------------------------------------------------
(* Team: what the steps do to the invitations.                              *)

\* The invitations in marked get a state; all keep their address and role.
Marks(marked, st) ==
    \A i \in DOMAIN invites : /\ i \in DOMAIN invites'
                              /\ invites'[i].email = invites[i].email
                              /\ invites'[i].to = invites[i].to
                              /\ invites'[i].state = IF i \in marked THEN st ELSE invites[i].state

LEMMA InvitationUpdates ==
    ASSUME NEW x \in Invitation, NEW st \in {"pending", "accepted", "revoked"}
    PROVE  /\ [x EXCEPT !.state = st] \in Invitation
           /\ [x EXCEPT !.state = st].email = x.email
           /\ [x EXCEPT !.state = st].to = x.to
           /\ [x EXCEPT !.state = st].state = st
  BY DEF Invitation

\* A sequence whose elements are replaced one by one.
LEMMA Replaced ==
    ASSUME NEW Set, NEW s \in Seq(Set), NEW t, DOMAIN t = DOMAIN s, t = [i \in DOMAIN s |-> t[i]],
           \A i \in DOMAIN s : t[i] \in Set
    PROVE  t \in Seq(Set) /\ Len(t) = Len(s) /\ DOMAIN t = 1..Len(s)
  <1>1. Len(s) \in Nat /\ DOMAIN s = 1..Len(s)
    BY LenProperties
  <1>2. t \in [1..Len(s) -> Set]
    BY <1>1
  <1>3. t \in Seq(Set)
    BY <1>1, <1>2, SeqDef
  <1> QED
    BY <1>1, <1>3, LenProperties

LEMMA CreateCommitsGives ==
    ASSUME TypeOK, InHand, invites \in Seq(Invitation), NEW r \in Requests, CreateCommits(r)
    PROVE  /\ invites' \in Seq(Invitation) /\ Len(invites') = Len(invites) + 1
           /\ Marks(req[r].rows, "revoked")
           /\ invites'[Len(invites) + 1] = [email |-> req[r].who, to |-> req[r].to, state |-> "pending"]
           /\ Len(invites') <= MaxInvites
  <1> DEFINE t == [i \in DOMAIN invites |->
                     IF i \in req[r].rows THEN [invites[i] EXCEPT !.state = "revoked"] ELSE invites[i]]
             new == [email |-> req[r].who, to |-> req[r].to, state |-> "pending"]
  <1>1. invites' = Append(t, new) /\ Len(invites) < MaxInvites
    BY DEF CreateCommits
  <1>2. \A i \in DOMAIN invites : invites[i] \in Invitation
    OBVIOUS
  <1>3. \A i \in DOMAIN invites : /\ t[i] \in Invitation
                                  /\ t[i].email = invites[i].email /\ t[i].to = invites[i].to
                                  /\ t[i].state = IF i \in req[r].rows THEN "revoked" ELSE invites[i].state
    BY <1>2, InvitationUpdates, ZenonT(40)
  <1>4. new \in Invitation
    <2>1. req[r].who \in Users /\ req[r].to \in Roles
      BY DEF InHand, CreateCommits
    <2> QED
      BY <2>1 DEF Invitation
  <1>5. DOMAIN t = DOMAIN invites /\ t = [i \in DOMAIN invites |-> t[i]]
    OBVIOUS
  <1> HIDE DEF t, new
  <1>6. t \in Seq(Invitation) /\ Len(t) = Len(invites) /\ DOMAIN t = 1..Len(invites)
    BY <1>3, <1>5, Replaced
  <1>7. Len(invites) \in Nat /\ DOMAIN invites = 1..Len(invites)
    BY LenProperties
  <1>8. /\ Append(t, new) \in Seq(Invitation) /\ Len(Append(t, new)) = Len(t) + 1
        /\ \A i \in 1..Len(t) : Append(t, new)[i] = t[i]
        /\ Append(t, new)[Len(t) + 1] = new
        /\ DOMAIN Append(t, new) = 1..(Len(t) + 1)
    BY <1>4, <1>6
  <1>9. Marks(req[r].rows, "revoked")
    BY <1>1, <1>3, <1>6, <1>7, <1>8 DEF Marks
  <1> QED
    BY <1>1, <1>6, <1>7, <1>8, <1>9, TeamAssumption DEF new

LEMMA RevokeGives ==
    ASSUME invites \in Seq(Invitation), NEW r \in Requests, Revoke(r)
    PROVE  /\ invites' \in Seq(Invitation) /\ Len(invites') = Len(invites)
           /\ Marks({i \in DOMAIN invites : i = req[r].inv /\ invites[i].state = "pending"}, "revoked")
  <1>1. invites' = [i \in DOMAIN invites |->
                     IF i = req[r].inv /\ invites[i].state = "pending"
                     THEN [invites[i] EXCEPT !.state = "revoked"] ELSE invites[i]]
    BY DEF Revoke
  <1>2. \A i \in DOMAIN invites : invites[i] \in Invitation
    OBVIOUS
  <1>3. \A i \in DOMAIN invites :
           /\ invites'[i] \in Invitation
           /\ invites'[i].email = invites[i].email /\ invites'[i].to = invites[i].to
           /\ invites'[i].state = IF i = req[r].inv /\ invites[i].state = "pending" THEN "revoked"
                                  ELSE invites[i].state
    <2> SUFFICES ASSUME NEW i \in DOMAIN invites
                 PROVE  /\ invites'[i] \in Invitation
                        /\ invites'[i].email = invites[i].email /\ invites'[i].to = invites[i].to
                        /\ invites'[i].state = IF i = req[r].inv /\ invites[i].state = "pending"
                                               THEN "revoked" ELSE invites[i].state
      OBVIOUS
    <2>1. CASE i = req[r].inv /\ invites[i].state = "pending"
      <3>1. invites'[i] = [invites[i] EXCEPT !.state = "revoked"]
        BY <1>1, <2>1
      <3>2. invites[i] \in Invitation /\ "revoked" \in {"pending", "accepted", "revoked"}
        BY <1>2
      <3> DEFINE x == [invites[i] EXCEPT !.state = "revoked"]
      <3>3. /\ x \in Invitation /\ x.email = invites[i].email /\ x.to = invites[i].to
            /\ x.state = "revoked"
        BY <3>2, InvitationUpdates, Zenon
      <3> QED
        BY <2>1, <3>1, <3>3
    <2>2. CASE ~(i = req[r].inv /\ invites[i].state = "pending")
      <3>1. invites'[i] = invites[i]
        BY <1>1, <2>2
      <3> QED
        BY <1>2, <2>2, <3>1
    <2> QED
      BY <2>1, <2>2
  <1>4. DOMAIN invites' = DOMAIN invites /\ invites' = [i \in DOMAIN invites |-> invites'[i]]
    BY <1>1
  <1>5. invites' \in Seq(Invitation) /\ Len(invites') = Len(invites)
    BY <1>3, <1>4, Replaced
  <1> QED
    BY <1>3, <1>4, <1>5 DEF Marks

LEMMA AcceptCommitsGives ==
    ASSUME InHand, invites \in Seq(Invitation), NEW r \in Requests, AcceptCommits(r)
    PROVE  /\ invites' \in Seq(Invitation) /\ Len(invites') = Len(invites)
           /\ Marks({req[r].inv}, "accepted")
           /\ req[r].inv \in DOMAIN invites /\ invites[req[r].inv].state = "pending"
           /\ invites[req[r].inv].email = req[r].who /\ invites[req[r].inv].to = req[r].to
  <1> DEFINE i == req[r].inv
  <1>1. /\ i \in DOMAIN invites /\ invites[i].state = "pending"
        /\ invites[i].email = req[r].who /\ invites[i].to = req[r].to
    BY DEF AcceptCommits, InHand, Claimable
  <1>2. invites' = [invites EXCEPT ![i] = [invites[i] EXCEPT !.state = "accepted"]]
    BY <1>1 DEF AcceptCommits
  <1>3. invites[i] \in Invitation
    BY <1>1
  <1> DEFINE x == [invites[i] EXCEPT !.state = "accepted"]
  <1>4. /\ x \in Invitation /\ x.email = invites[i].email /\ x.to = invites[i].to
        /\ x.state = "accepted"
    BY <1>3, InvitationUpdates
  <1> HIDE DEF i, x
  <1>5. i \in 1..Len(invites) /\ DOMAIN invites = 1..Len(invites)
    BY <1>1, LenProperties
  <1>6. /\ invites' \in Seq(Invitation) /\ Len(invites') = Len(invites)
        /\ \A j \in 1..Len(invites) : invites'[j] = IF j = i THEN x ELSE invites[j]
    BY <1>2, <1>4, <1>5, ExceptSeq DEF x
  <1>7. DOMAIN invites' = 1..Len(invites)
    BY <1>6, LenProperties
  <1>8. Marks({i}, "accepted")
    BY <1>4, <1>5, <1>6, <1>7 DEF Marks
  <1> QED
    BY <1>1, <1>6, <1>8 DEF i
-----------------------------------------------------------------------------
(* Team: the steps that change no row.                                      *)

LEMMA RowlessTypeOK ==
    ASSUME TypeOK, NEW r \in Requests, UNCHANGED <<role, account, invites>>,
           req' \in [Requests -> Request], overlaps' \subseteq {"owners", "invites"},
           \A q \in Requests : req'[q].inv <= Len(invites)
    PROVE  TypeOK'
  BY DEF TypeOK

\* The request that ends.
LEMMA RestKeeps ==
    ASSUME TeamInv, NEW r \in Requests, Rests(r), req' \in [Requests -> Request],
           UNCHANGED <<role, account, invites, overlaps>>
    PROVE  TeamInv'
  <1> USE DEF TeamInv, Rests, Becomes
  <1>1. TypeOK'
    <2>1. Len(invites) \in Nat
      BY LenProperties
    <2>2. \A q \in Requests : req'[q].inv <= Len(invites)
      BY <2>1 DEF TypeOK
    <2> QED
      BY <2>2, RowlessTypeOK DEF TypeOK
  <1>2. InHand'
    BY DEF InHand, Changing, None
  <1>3. OneChange'
    BY DEF OneChange, Changing
  <1>4. OneInvitation'
    BY DEF OneInvitation, InvitesAlone, Creating, Accepting, Pending
  <1>5. OnePending' /\ RemovedStaysOut' /\ KeepsAnOwner'
    BY DEF OnePending, RemovedStaysOut, KeepsAnOwner, Pending, Owners
  <1>6. OwnRows'
    BY DEF OwnRows
  <1> QED
    BY <1>1, <1>2, <1>3, <1>4, <1>5, <1>6
\* An operation that another has checked and not yet written, when it crosses.
LEMMA CrossesGives ==
    ASSUME TypeOK, NEW r \in Requests, NEW kind \in {"owners", "invites"}, NEW others,
           Crosses(r, kind, others)
    PROVE  /\ overlaps \subseteq overlaps' /\ overlaps' \subseteq overlaps \cup {kind}
           /\ overlaps' \subseteq {"owners", "invites"}
           /\ kind \notin overlaps' => \A q \in Requests \ {r} :
                 ~(req[q].at \in {"checked", "writing"} /\ others[q])
  BY DEF Crosses, TypeOK

\* A step that only moves one request keeps what the rows say by themselves.
LEMMA RowlessKeeps ==
    ASSUME TeamInv, UNCHANGED <<role, account, invites>>, overlaps \subseteq overlaps'
    PROVE  KeepsAnOwner' /\ RemovedStaysOut' /\ OnePending' /\ invites' \in Seq(Invitation)
  BY DEF TeamInv, OnePending, RemovedStaysOut, KeepsAnOwner, Pending, Owners

\* A request for an invitation.
LEMMA CreateKeeps ==
    ASSUME TeamInv, NEW r \in Requests, NEW u \in Users, NEW who \in Invitees, NEW to \in Given,
           Create(r, u, who, to)
    PROVE  TeamInv'
  <1> USE DEF TeamInv
  <1>1. who \in Users /\ to \in Roles
    BY TeamAssumption
  <1>2. Enter(r, u, "checked", "create", who, to, 0) /\ role[who] = None
    BY DEF Create, NotAMember
  <1>3. req' \in [Requests -> Request] /\ Becomes(r, "checked", "create", who, to, 0, {})
    BY <1>1, <1>2, EnterGives, TeamAssumption DEF Ops
  <1>4. UNCHANGED <<role, account, invites>> /\ req[r].at = "idle"
    BY <1>2 DEF Enter
  <1> DEFINE others == [q \in Requests |-> req[q].who = who /\ req[q].op \in {"create", "accept"}]
  <1>5. Crosses(r, "invites", others)
    BY DEF Create
  <1>6. /\ overlaps \subseteq overlaps' /\ overlaps' \subseteq {"owners", "invites"}
        /\ overlaps' \subseteq overlaps \cup {"invites"}
        /\ "invites" \notin overlaps' => \A q \in Requests \ {r} :
              ~(req[q].at \in {"checked", "writing"} /\ others[q])
    BY <1>5, CrossesGives
  <1> USE DEF Becomes
  <1>7. TypeOK'
    <2>1. Len(invites) \in Nat
      BY LenProperties
    <2>2. \A q \in Requests : req'[q].inv <= Len(invites)
      BY <1>3, <2>1 DEF TypeOK
    <2> QED
      BY <1>3, <1>4, <1>6, <2>2, RowlessTypeOK
  <1>8. InHand'
    BY <1>1, <1>3, <1>4 DEF InHand, Changing
  <1>9. OneChange'
    BY <1>3, <1>4, <1>6 DEF OneChange, Changing
  <1>10. OneInvitation'
    <2>1. "invites" \notin overlaps' => \A q \in Requests \ {r} :
             Creating(q) \/ Accepting(q) => req[q].who # who
      BY <1>6 DEF Creating, Accepting
    <2>2. \A q \in Requests \ {r} : /\ Creating(q)' <=> Creating(q)
                                    /\ Accepting(q)' <=> Accepting(q)
      BY <1>3 DEF Creating, Accepting
    <2>3. ~Accepting(r)' /\ req'[r].who = who /\ req'[r].at # "writing"
      BY <1>3 DEF Accepting
    <2> SUFFICES ASSUME "invites" \notin overlaps', NEW p \in Requests, Creating(p)'
                 PROVE  InvitesAlone(p)'
      BY DEF OneInvitation
    <2>5. CASE p = r
      BY <1>2, <1>3, <1>4, <2>1, <2>2, <2>3, <2>5 DEF InvitesAlone
    <2>6. CASE p # r
      BY <1>3, <1>4, <1>6, <2>1, <2>2, <2>3, <2>6 DEF OneInvitation, InvitesAlone, Pending
    <2> QED
      BY <2>5, <2>6
  <1>11. OwnRows'
    BY <1>3, <1>4 DEF OwnRows
  <1> QED
    BY <1>4, <1>6, <1>7, <1>8, <1>9, <1>10, <1>11, RowlessKeeps

\* The other requests of a manager.
LEMMA ManagerKeeps ==
    ASSUME TeamInv, NEW r \in Requests, NEW u \in Users,
           \/ \E i \in DOMAIN invites : LoadPending(r, u, i)
           \/ \E who \in Users, to \in Given : Change(r, u, who, to)
           \/ \E who \in Users : Remove(r, u, who)
    PROVE  TeamInv'
  <1> USE DEF TeamInv
  <1>1. PICK at \in {"entered", "checked"}, op \in {"revoke", "update", "remove"},
             who \in Users \cup {None}, to \in Roles \cup {None}, i \in 0..Len(invites) :
             /\ Enter(r, u, at, op, who, to, i) /\ UNCHANGED overlaps
             /\ op = "revoke" => at = "checked"
             /\ op \in {"update", "remove"} => at = "entered" /\ who \in Users
             /\ op = "update" => to \in Roles
             /\ op = "remove" => to = None
    <2>1. Len(invites) \in Nat /\ DOMAIN invites = 1..Len(invites)
      BY LenProperties
    <2>2. ASSUME NEW i \in DOMAIN invites, LoadPending(r, u, i)
          PROVE  Enter(r, u, "checked", "revoke", None, None, i) /\ UNCHANGED overlaps /\ i \in 0..Len(invites)
      BY <2>1, <2>2 DEF LoadPending
    <2>3. ASSUME NEW who \in Users, NEW to \in Given, Change(r, u, who, to)
          PROVE  /\ Enter(r, u, "entered", "update", who, to, 0) /\ UNCHANGED overlaps
                 /\ to \in Roles /\ 0 \in 0..Len(invites)
      BY <2>1, <2>3, TeamAssumption DEF Change
    <2>4. ASSUME NEW who \in Users, Remove(r, u, who)
          PROVE  Enter(r, u, "entered", "remove", who, None, 0) /\ UNCHANGED overlaps /\ 0 \in 0..Len(invites)
      BY <2>1, <2>4 DEF Remove
    <2> QED
      BY <2>2, <2>3, <2>4, Zenon
  <1>2. Len(invites) \in Nat /\ i \in 0..MaxInvites
    BY LenProperties, TeamAssumption DEF TypeOK
  <1>3. req' \in [Requests -> Request] /\ Becomes(r, at, op, who, to, i, {})
    <2>1. op \in Ops /\ Enter(r, u, at, op, who, to, i)
      BY <1>1 DEF Ops
    <2> QED
      BY <1>2, <2>1, EnterGives, Zenon
  <1>4. UNCHANGED <<role, account, invites>> /\ req[r].at = "idle"
    BY <1>1 DEF Enter
  <1> USE DEF Becomes
  <1>5. TypeOK'
    <2>1. \A q \in Requests : req'[q].inv <= Len(invites)
      BY <1>2, <1>3 DEF TypeOK
    <2> QED
      BY <1>1, <1>3, <1>4, <2>1, RowlessTypeOK DEF TypeOK
  <1>6. InHand'
    BY <1>1, <1>3, <1>4 DEF InHand, Changing
  <1>7. OneChange'
    BY <1>1, <1>3, <1>4 DEF OneChange, Changing
  <1>8. OneInvitation'
    BY <1>1, <1>3, <1>4 DEF OneInvitation, InvitesAlone, Creating, Accepting, Pending
  <1>9. OwnRows'
    BY <1>3, <1>4 DEF OwnRows
  <1> QED
    BY <1>1, <1>4, <1>5, <1>6, <1>7, <1>8, <1>9, RowlessKeeps
\* The first statement of a transaction that invites.
LEMMA CreateRevokesKeeps ==
    ASSUME TeamInv, NEW r \in Requests, CreateRevokes(r) PROVE TeamInv'
  <1> USE DEF TeamInv
  <1> DEFINE rows == Pending(req[r].who) \ Locked
  <1>1. /\ req' \in [Requests -> Request]
        /\ Becomes(r, "writing", "create", req[r].who, req[r].to, req[r].inv, rows)
    BY CreateRevokesGives
  <1>2. /\ UNCHANGED <<role, account, invites, overlaps>>
        /\ req[r].at = "checked" /\ req[r].op = "create"
    BY DEF CreateRevokes
  <1>3. \A i \in rows : /\ i \in DOMAIN invites /\ invites[i].email = req[r].who
                        /\ \A q \in Requests : i \notin req[q].rows
    BY DEF Pending, Locked
  <1>4. "invites" \notin overlaps => Pending(req[r].who) \subseteq rows
    <2> SUFFICES ASSUME "invites" \notin overlaps, NEW i \in Pending(req[r].who),
                        NEW q \in Requests, i \in req[q].rows
                 PROVE  FALSE
      BY DEF Locked
    <2>1. req[q].at = "writing" /\ req[q].op = "create" /\ req[q].who = req[r].who
      BY DEF OwnRows, Pending
    <2>2. q = r
      BY <1>2, <2>1 DEF OneInvitation, InvitesAlone, Creating
    <2> QED
      BY <1>2, <2>1, <2>2
  <1> HIDE DEF rows
  <1> USE DEF Becomes
  <1>5. TypeOK'
    BY <1>1, <1>2, RowlessTypeOK DEF TypeOK
  <1>6. InHand'
    BY <1>1, <1>2 DEF InHand, Changing
  <1>7. OneChange'
    BY <1>1, <1>2 DEF OneChange, Changing
  <1>8. OneInvitation'
    <2> SUFFICES ASSUME "invites" \notin overlaps', NEW p \in Requests, Creating(p)'
                 PROVE  InvitesAlone(p)'
      BY DEF OneInvitation
    <2>1. \A q \in Requests : /\ Creating(q)' <=> Creating(q)
                              /\ Accepting(q)' <=> Accepting(q)
                              /\ req'[q].who = req[q].who
      BY <1>1, <1>2 DEF Creating, Accepting
    <2>2. InvitesAlone(p)
      BY <1>2, <2>1 DEF OneInvitation
    <2>3. (req'[p].at = "writing" => Pending(req[p].who) \subseteq req'[p].rows)
      BY <1>1, <1>2, <1>4, <2>2 DEF InvitesAlone
    <2> QED
      BY <1>2, <2>1, <2>2, <2>3 DEF InvitesAlone, Pending
  <1>9. OwnRows'
    BY <1>1, <1>2, <1>3 DEF OwnRows
  <1> QED
    BY <1>2, <1>5, <1>6, <1>7, <1>8, <1>9, RowlessKeeps

\* The invitee's request.
LEMMA AcceptReadsKeeps ==
    ASSUME TeamInv, NEW r \in Requests, NEW i \in DOMAIN invites, AcceptReads(r, i)
    PROVE  TeamInv'
  <1> USE DEF TeamInv
  <1> DEFINE who == invites[i].email
             to == invites[i].to
             others == [q \in Requests |-> req[q].who = who /\ req[q].op = "create"]
  <1>1. req' \in [Requests -> Request] /\ Becomes(r, "checked", "accept", who, to, i, {})
    BY AcceptReadsGives
  <1>2. UNCHANGED <<role, account, invites>> /\ req[r].at = "idle" /\ Crosses(r, "invites", others)
    BY DEF AcceptReads
  <1>3. /\ overlaps \subseteq overlaps' /\ overlaps' \subseteq {"owners", "invites"}
        /\ overlaps' \subseteq overlaps \cup {"invites"}
        /\ "invites" \notin overlaps' => \A q \in Requests \ {r} :
              ~(req[q].at \in {"checked", "writing"} /\ others[q])
    BY <1>2, CrossesGives
  <1>4. who \in Users /\ to \in Roles /\ Len(invites) \in Nat /\ i \in 1..Len(invites)
    <2>1. invites[i] \in Invitation /\ Len(invites) \in Nat /\ i \in 1..Len(invites)
      BY LenProperties
    <2> QED
      BY <2>1 DEF Invitation
  <1>5. "invites" \notin overlaps' => \A q \in Requests \ {r} : Creating(q) => req[q].who # who
    BY <1>3 DEF Creating
  <1> HIDE DEF who, to, others
  <1> USE DEF Becomes
  <1>6. TypeOK'
    <2>1. \A q \in Requests : req'[q].inv <= Len(invites)
      BY <1>1, <1>4 DEF TypeOK
    <2> QED
      BY <1>1, <1>2, <1>3, <2>1, RowlessTypeOK
  <1>7. InHand'
    BY <1>1, <1>2, <1>4 DEF InHand, Changing, who, to
  <1>8. OneChange'
    BY <1>1, <1>2, <1>3 DEF OneChange, Changing
  <1>9. OneInvitation'
    <2> SUFFICES ASSUME "invites" \notin overlaps', NEW p \in Requests, Creating(p)'
                 PROVE  InvitesAlone(p)'
      BY DEF OneInvitation
    <2>1. \A q \in Requests \ {r} : /\ Creating(q)' <=> Creating(q)
                                    /\ Accepting(q)' <=> Accepting(q)
                                    /\ req'[q] = req[q]
      BY <1>1 DEF Creating, Accepting
    <2>2. ~Creating(r)' /\ req'[r].who = who
      BY <1>1 DEF Creating
    <2>3. p # r /\ Creating(p) /\ InvitesAlone(p) /\ req[p].who # who
      BY <1>3, <1>5, <2>1, <2>2 DEF OneInvitation
    <2> QED
      BY <1>2, <2>1, <2>2, <2>3 DEF InvitesAlone, Pending
  <1>10. OwnRows'
    BY <1>1, <1>2 DEF OwnRows
  <1> QED
    BY <1>2, <1>3, <1>6, <1>7, <1>8, <1>9, <1>10, RowlessKeeps

\* More than one of a set: another one than any of it.
LEMMA AnotherOne ==
    ASSUME NEW Set, IsFiniteSet(Set), Cardinality(Set) > 1, NEW x PROVE \E y \in Set : y # x
  <1> SUFFICES ASSUME Set \subseteq {x} PROVE FALSE
    OBVIOUS
  <1>1. IsFiniteSet({x}) /\ Cardinality({x}) = 1
    BY FS_Singleton
  <1>2. Cardinality(Set) <= 1 /\ Cardinality(Set) \in Nat
    BY <1>1, FS_Subset, FS_CardinalityType
  <1> QED
    BY <1>2

\* The check of a change.
LEMMA CheckMemberKeeps ==
    ASSUME TeamInv, NEW r \in Requests, CheckMember(r) PROVE TeamInv'
  <1> USE DEF TeamInv
  <1> DEFINE others == [q \in Requests |-> req[q].op \in {"update", "remove"}]
  <1>1. /\ req' \in [Requests -> Request]
        /\ Becomes(r, "checked", req[r].op, req[r].who, req[r].to, req[r].inv, req[r].rows)
    BY CheckMemberGives
  <1>2. /\ UNCHANGED <<role, account, invites>> /\ Crosses(r, "owners", others)
        /\ req[r].at = "entered" /\ req[r].op \in {"update", "remove"}
        /\ role[req[r].who] # None /\ NotLastOwner(req[r])
    BY DEF CheckMember
  <1>3. /\ overlaps \subseteq overlaps' /\ overlaps' \subseteq {"owners", "invites"}
        /\ overlaps' \subseteq overlaps \cup {"owners"}
        /\ "owners" \notin overlaps' => \A q \in Requests \ {r} :
              ~(req[q].at \in {"checked", "writing"} /\ others[q])
    BY <1>2, CrossesGives
  <1>4. "owners" \notin overlaps' => \A q \in Requests \ {r} : ~Changing(q)
    BY <1>3 DEF Changing
  <1>5. req[r].to # "OWNER" => "owners" \in overlaps \/ \E u \in Users : u # req[r].who /\ role[u] = "OWNER"
    <2> SUFFICES ASSUME req[r].to # "OWNER", "owners" \notin overlaps
                 PROVE  \E u \in Users : u # req[r].who /\ role[u] = "OWNER"
      OBVIOUS
    <2>1. CASE role[req[r].who] = "OWNER"
      <3>1. Cardinality(Owners) > 1
        BY <1>2, <2>1 DEF NotLastOwner, TakesAnOwner
      <3>2. IsFiniteSet(Owners)
        BY TeamAssumption, FS_Subset DEF Owners
      <3> QED
        BY <3>1, <3>2, AnotherOne DEF Owners
    <2>2. CASE role[req[r].who] # "OWNER"
      BY <2>2 DEF KeepsAnOwner, Owners
    <2> QED
      BY <2>1, <2>2
  <1> HIDE DEF others
  <1> USE DEF Becomes
  <1>6. TypeOK'
    BY <1>1, <1>2, <1>3, RowlessTypeOK DEF TypeOK
  <1>7. InHand'
    BY <1>1, <1>2 DEF InHand, Changing
  <1>8. OneChange'
    BY <1>1, <1>2, <1>3, <1>4, <1>5 DEF OneChange, Changing
  <1>9. OneInvitation'
    BY <1>1, <1>2, <1>3 DEF OneInvitation, InvitesAlone, Creating, Accepting, Pending
  <1>10. OwnRows'
    BY <1>1, <1>2 DEF OwnRows
  <1> QED
    BY <1>2, <1>3, <1>6, <1>7, <1>8, <1>9, <1>10, RowlessKeeps
-----------------------------------------------------------------------------
(* Team: the steps that change rows.                                        *)

\* An invitation is added, and those the transaction saw are revoked.
LEMMA CreateCommitsKeeps ==
    ASSUME TeamInv, NEW r \in Requests, CreateCommits(r) PROVE TeamInv'
  <1> USE DEF TeamInv
  <1> DEFINE who == req[r].who
             n == Len(invites) + 1
  <1>1. /\ invites' \in Seq(Invitation) /\ Len(invites') = n /\ n <= MaxInvites
        /\ Marks(req[r].rows, "revoked")
        /\ invites'[n] = [email |-> who, to |-> req[r].to, state |-> "pending"]
    BY CreateCommitsGives
  <1>2. req' \in [Requests -> Request] /\ Rests(r)
    BY EndsGives
  <1>3. UNCHANGED <<role, account, overlaps>> /\ Creating(r) /\ req[r].at = "writing"
    BY DEF CreateCommits, Creating
  <1>4. /\ Len(invites) \in Nat /\ DOMAIN invites = 1..Len(invites)
        /\ DOMAIN invites' = DOMAIN invites \cup {n}
        /\ \A i \in DOMAIN invites' : invites'[i] \in Invitation
    BY <1>1, LenProperties
  <1>5. \A u \in Users : /\ u # who => Pending(u)' \subseteq Pending(u)
                         /\ u = who => Pending(u)' \subseteq (Pending(u) \ req[r].rows) \cup {n}
    BY <1>1, <1>4 DEF Pending, Marks
  <1>6. "invites" \notin overlaps => InvitesAlone(r)
    BY <1>3 DEF OneInvitation
  <1> USE DEF Rests, Becomes
  <1>7. TypeOK'
    <2>1. \A q \in Requests : req[q].inv \in 0..MaxInvites /\ req[q].inv <= Len(invites)
      BY DEF TypeOK, Request
    <2>2. \A q \in Requests : req'[q].inv <= Len(invites')
      BY <1>1, <1>2, <1>4, <2>1, TeamAssumption
    <2> QED
      BY <1>1, <1>2, <1>3, <1>4, <2>2 DEF TypeOK
  <1>8. InHand'
    BY <1>2, <1>1, <1>3, <1>4 DEF InHand, Changing, Marks, None
  <1>9. OneChange' /\ KeepsAnOwner'
    BY <1>2, <1>3 DEF OneChange, Changing, KeepsAnOwner, Owners
  <1>10. OneInvitation'
    <2> SUFFICES ASSUME "invites" \notin overlaps', NEW p \in Requests, Creating(p)'
                 PROVE  InvitesAlone(p)'
      BY DEF OneInvitation
    <2>1. \A q \in Requests \ {r} : /\ Creating(q)' <=> Creating(q)
                                    /\ Accepting(q)' <=> Accepting(q)
                                    /\ req'[q] = req[q]
      BY <1>2 DEF Creating, Accepting
    <2>2. ~Creating(r)' /\ ~Accepting(r)'
      BY <1>2 DEF Creating, Accepting
    <2>3. p # r /\ Creating(p) /\ InvitesAlone(p)
      BY <1>3, <2>1, <2>2 DEF OneInvitation
    <2>4. req[p].who # who /\ req[p].who \in Users
      BY <1>3, <2>3 DEF InvitesAlone, InHand, Creating
    <2>5. \A i \in DOMAIN invites' : invites'[i].email = req[p].who /\ invites'[i].state = "pending" =>
             i \in Pending(req[p].who)
      BY <1>5, <2>4 DEF Pending
    <2> QED
      BY <1>3, <2>1, <2>2, <2>3, <2>5 DEF InvitesAlone, Pending
  <1>11. OnePending'
    BY <1>3, <1>5, <1>6 DEF OnePending, InvitesAlone
  <1>12. RemovedStaysOut'
    BY <1>3, <1>5, <1>6 DEF RemovedStaysOut, InvitesAlone
  <1>13. OwnRows'
    BY <1>1, <1>2, <1>4 DEF OwnRows, Marks
  <1> QED
    BY <1>1, <1>7, <1>8, <1>9, <1>10, <1>11, <1>12, <1>13

\* An invitation is revoked.
LEMMA RevokeKeeps ==
    ASSUME TeamInv, NEW r \in Requests, Revoke(r) PROVE TeamInv'
  <1> USE DEF TeamInv
  <1> DEFINE marked == {i \in DOMAIN invites : i = req[r].inv /\ invites[i].state = "pending"}
  <1>1. invites' \in Seq(Invitation) /\ Len(invites') = Len(invites) /\ Marks(marked, "revoked")
    BY RevokeGives
  <1>2. req' \in [Requests -> Request] /\ Rests(r)
    BY EndsGives
  <1>3. UNCHANGED <<role, account, overlaps>>
    BY DEF Revoke
  <1>4. /\ Len(invites) \in Nat /\ DOMAIN invites' = DOMAIN invites
        /\ \A i \in DOMAIN invites' : invites'[i] \in Invitation
    BY <1>1, LenProperties
  <1> HIDE DEF marked
  <1>5. \A i \in DOMAIN invites : invites'[i].state = "pending" => invites[i].state = "pending"
    BY <1>1 DEF Marks
  <1> USE DEF Rests, Becomes
  <1>6. TypeOK'
    <2>1. \A q \in Requests : req'[q].inv <= Len(invites')
      BY <1>1, <1>2, <1>4 DEF TypeOK
    <2> QED
      BY <1>1, <1>2, <1>3, <1>4, <2>1 DEF TypeOK
  <1>7. InHand'
    BY <1>1, <1>2, <1>3, <1>4 DEF InHand, Changing, Marks, None
  <1>8. OneChange' /\ KeepsAnOwner'
    BY <1>2, <1>3 DEF OneChange, Changing, KeepsAnOwner, Owners
  <1>9. OneInvitation'
    BY <1>1, <1>2, <1>3, <1>4, <1>5 DEF OneInvitation, InvitesAlone, Creating, Accepting, Pending, Marks
  <1>10. OnePending' /\ RemovedStaysOut'
    BY <1>1, <1>3, <1>4, <1>5 DEF OnePending, RemovedStaysOut, Pending, Marks
  <1>11. OwnRows'
    BY <1>1, <1>2, <1>4 DEF OwnRows, Marks
  <1> QED
    BY <1>1, <1>6, <1>7, <1>8, <1>9, <1>10, <1>11

\* The invitee joins.
LEMMA AcceptCommitsKeeps ==
    ASSUME TeamInv, NEW r \in Requests, AcceptCommits(r) PROVE TeamInv'
  <1> USE DEF TeamInv
  <1> DEFINE who == req[r].who
             to == req[r].to
             i == req[r].inv
  <1>1. /\ invites' \in Seq(Invitation) /\ Len(invites') = Len(invites) /\ Marks({i}, "accepted")
        /\ i \in DOMAIN invites /\ invites[i].state = "pending" /\ invites[i].email = who
    BY AcceptCommitsGives
  <1>2. req' \in [Requests -> Request] /\ Rests(r)
    BY EndsGives
  <1>3. /\ role' = [role EXCEPT ![who] = to] /\ account' = account \cup {who} /\ overlaps' = overlaps
        /\ role[who] = None /\ Accepting(r)
    BY DEF AcceptCommits, Accepting
  <1>4. who \in Users /\ to \in Roles /\ role \in [Users -> Roles \cup {None}]
    BY <1>3 DEF InHand, Accepting, TypeOK
  <1>5. \A u \in Users : role'[u] = IF u = who THEN to ELSE role[u]
    BY <1>3, <1>4
  <1>6. /\ Len(invites) \in Nat /\ DOMAIN invites' = DOMAIN invites
        /\ \A j \in DOMAIN invites' : invites'[j] \in Invitation
    BY <1>1, LenProperties
  <1>7. \A u \in Users : Pending(u)' \subseteq Pending(u) \ {i}
    BY <1>1, <1>6 DEF Pending, Marks
  <1>8. i \in Pending(who)
    BY <1>1 DEF Pending
  <1>9. None \notin Roles
    BY DEF None, Roles
  <1> HIDE DEF who, to, i
  <1> USE DEF Rests, Becomes
  <1>10. TypeOK'
    <2>1. \A q \in Requests : req'[q].inv <= Len(invites')
      BY <1>1, <1>2, <1>6 DEF TypeOK
    <2>2. role' \in [Users -> Roles \cup {None}] /\ account' \subseteq Users
      BY <1>3, <1>4 DEF TypeOK
    <2>3. \A u \in Users : role'[u] # None => u \in account'
      BY <1>3, <1>4, <1>5 DEF TypeOK
    <2> QED
      BY <1>1, <1>2, <1>3, <1>6, <2>1, <2>2, <2>3 DEF TypeOK
  <1>11. InHand'
    BY <1>1, <1>2, <1>3, <1>4, <1>5, <1>6, <1>9 DEF InHand, Changing, Marks, None
  <1>12. OneChange'
    BY <1>2, <1>3, <1>5, <1>9 DEF OneChange, Changing, None
  <1>13. KeepsAnOwner'
    BY <1>3, <1>5 DEF KeepsAnOwner, Owners, None
  <1>14. OneInvitation'
    <2> SUFFICES ASSUME "invites" \notin overlaps', NEW p \in Requests, Creating(p)'
                 PROVE  InvitesAlone(p)'
      BY DEF OneInvitation
    <2>1. \A q \in Requests \ {r} : /\ Creating(q)' <=> Creating(q)
                                    /\ Accepting(q)' <=> Accepting(q)
                                    /\ req'[q] = req[q]
      BY <1>2 DEF Creating, Accepting
    <2>2. ~Creating(r)' /\ ~Accepting(r)'
      BY <1>2 DEF Creating, Accepting
    <2>3. p # r /\ Creating(p) /\ InvitesAlone(p)
      BY <1>3, <2>1, <2>2 DEF OneInvitation
    <2>4. req[p].who # who /\ req[p].who \in Users
      BY <1>3, <2>3 DEF InvitesAlone, InHand, Creating, who
    <2>5. \A j \in DOMAIN invites' : invites'[j].email = req[p].who /\ invites'[j].state = "pending" =>
             j \in Pending(req[p].who)
      BY <1>7, <2>4 DEF Pending
    <2> QED
      BY <1>3, <1>5, <2>1, <2>2, <2>3, <2>4, <2>5 DEF InvitesAlone, Pending
  <1>15. OnePending' /\ RemovedStaysOut'
    BY <1>3, <1>4, <1>5, <1>7, <1>8 DEF OnePending, RemovedStaysOut
  <1>16. OwnRows'
    BY <1>1, <1>2, <1>6 DEF OwnRows, Marks
  <1> QED
    BY <1>1, <1>10, <1>11, <1>12, <1>13, <1>14, <1>15, <1>16
\* The membership of somebody is written.
LEMMA UpdateMembershipKeeps ==
    ASSUME TeamInv, NEW r \in Requests, UpdateMembership(r) PROVE TeamInv'
  <1> USE DEF TeamInv
  <1> DEFINE who == req[r].who
             to == req[r].to
  <1>1. req' \in [Requests -> Request] /\ Rests(r)
    BY EndsGives
  <1>2. /\ role' = [role EXCEPT ![who] = to] /\ UNCHANGED <<account, invites, overlaps>>
        /\ Changing(r) /\ req[r].op = "update"
    BY DEF UpdateMembership, Changing
  <1>3. who \in Users /\ to \in Roles /\ role[who] # None /\ role \in [Users -> Roles \cup {None}]
    BY <1>2 DEF InHand, TypeOK
  <1>4. \A u \in Users : role'[u] = IF u = who THEN to ELSE role[u]
    BY <1>2, <1>3
  <1>5. None \notin Roles
    BY DEF None, Roles
  <1>6. "owners" \notin overlaps =>
           /\ \A q \in Requests : Changing(q) => q = r
           /\ to # "OWNER" => \E u \in Users : u # who /\ role[u] = "OWNER"
    BY <1>2 DEF OneChange
  <1> HIDE DEF who, to
  <1> USE DEF Rests, Becomes
  <1>7. TypeOK'
    <2>1. Len(invites) \in Nat
      BY LenProperties
    <2>2. \A q \in Requests : req'[q].inv <= Len(invites)
      BY <1>1, <2>1 DEF TypeOK
    <2>3. role' \in [Users -> Roles \cup {None}]
      BY <1>2, <1>3
    <2> QED
      BY <1>1, <1>2, <1>3, <1>4, <2>2, <2>3 DEF TypeOK
  <1>8. InHand'
    BY <1>1, <1>2, <1>3, <1>4, <1>5 DEF InHand, Changing, None
  <1>9. OneChange'
    BY <1>1, <1>2, <1>6 DEF OneChange, Changing
  <1>10. KeepsAnOwner'
    BY <1>2, <1>3, <1>4, <1>6 DEF KeepsAnOwner, Owners
  <1>11. OneInvitation'
    BY <1>1, <1>2, <1>3, <1>4 DEF OneInvitation, InvitesAlone, Creating, Accepting, Pending
  <1>12. OnePending' /\ RemovedStaysOut'
    BY <1>2, <1>3, <1>4 DEF OnePending, RemovedStaysOut, Pending
  <1>13. OwnRows'
    BY <1>1, <1>2 DEF OwnRows
  <1> QED
    BY <1>2, <1>7, <1>8, <1>9, <1>10, <1>11, <1>12, <1>13

\* The membership of somebody is deleted.
LEMMA RemoveMemberKeeps ==
    ASSUME TeamInv, NEW r \in Requests, RemoveMember(r) PROVE TeamInv'
  <1> USE DEF TeamInv
  <1> DEFINE who == req[r].who
  <1>1. /\ req' \in [Requests -> Request]
        /\ \A q \in Requests : req'[q] = IF req[q].who = who /\ Changing(q) THEN Idle ELSE req[q]
    BY RemoveMemberGives
  <1>2. /\ role' = [role EXCEPT ![who] = None] /\ UNCHANGED <<account, invites, overlaps>>
        /\ Changing(r) /\ req[r].to = None
    BY DEF RemoveMember, Changing, InHand
  <1>3. who \in Users /\ role \in [Users -> Roles \cup {None}]
    BY <1>2 DEF InHand, TypeOK, Changing
  <1>4. \A u \in Users : role'[u] = IF u = who THEN None ELSE role[u]
    BY <1>2, <1>3
  <1>5. "owners" \notin overlaps =>
           /\ \A q \in Requests : Changing(q) => q = r
           /\ \E u \in Users : u # who /\ role[u] = "OWNER"
    BY <1>2 DEF OneChange, None
  <1>6. \A q \in Requests : \/ req'[q] = req[q] /\ ~(req[q].who = who /\ Changing(q))
                            \/ req'[q] = Idle /\ req[q].op \in {"update", "remove"}
    BY <1>1 DEF Changing
  <1>6a. req'[r] = Idle
    BY <1>1, <1>2
  <1> HIDE DEF who
  <1>7. TypeOK'
    <2>1. Len(invites) \in Nat
      BY LenProperties
    <2>2. \A q \in Requests : req'[q].inv <= Len(invites)
      BY <1>6, <2>1 DEF TypeOK, Idle
    <2>3. role' \in [Users -> Roles \cup {None}]
      BY <1>2, <1>3
    <2> QED
      BY <1>1, <1>2, <1>3, <1>4, <2>2, <2>3 DEF TypeOK
  <1>8. InHand'
    BY <1>2, <1>4, <1>6 DEF InHand, Changing, Idle, None
  <1>9. OneChange'
    BY <1>2, <1>5, <1>6, <1>6a DEF OneChange, Changing, Idle
  <1>10. KeepsAnOwner'
    BY <1>2, <1>4, <1>5 DEF KeepsAnOwner, Owners
  <1>11. OneInvitation'
    <2>1. \A q \in Requests : /\ Creating(q)' <=> Creating(q)
                              /\ Accepting(q)' <=> Accepting(q)
                              /\ Creating(q) \/ Accepting(q) => req'[q] = req[q]
      BY <1>6 DEF Creating, Accepting, Idle, None
    <2>2. \A q \in Requests : Creating(q) => req[q].who \in Users
      BY DEF Creating, InHand
    <2> QED
      BY <1>2, <1>4, <2>1, <2>2 DEF OneInvitation, InvitesAlone, Pending
  <1>12. OnePending' /\ RemovedStaysOut'
    BY <1>2, <1>4 DEF OnePending, RemovedStaysOut, Pending
  <1>13. OwnRows'
    BY <1>2, <1>6 DEF OwnRows, Idle
  <1> QED
    BY <1>2, <1>7, <1>8, <1>9, <1>10, <1>11, <1>12, <1>13

LEMMA TeamInvInit == Init => TeamInv
  <1> SUFFICES ASSUME Init PROVE TeamInv
    OBVIOUS
  <1> USE DEF Init
  <1>1. invites \in Seq(Invitation) /\ Len(invites) = 0 /\ DOMAIN invites = {}
    OBVIOUS
  <1>2. req \in [Requests -> Request] /\ \A r \in Requests : req[r] = Idle
    BY IdleRequest
  <1>3. TypeOK
    <2>1. role \in [Users -> Roles \cup {None}]
      BY TeamAssumption
    <2>2. account \subseteq Users /\ \A u \in Users : role[u] # None => u \in account
      BY TeamAssumption
    <2>3. \A r \in Requests : req[r].inv <= Len(invites)
      BY <1>1, <1>2 DEF Idle
    <2> QED
      BY <1>1, <1>2, <2>1, <2>2, <2>3, TeamAssumption DEF TypeOK
  <1>4. InHand /\ OneChange /\ OneInvitation /\ OwnRows
    BY <1>2 DEF InHand, OneChange, OneInvitation, OwnRows, Changing, Creating, Idle, None
  <1>5. OnePending /\ RemovedStaysOut
    BY <1>1 DEF OnePending, RemovedStaysOut, Pending
  <1>6. KeepsAnOwner
    BY TeamAssumption DEF KeepsAnOwner, Owners
  <1> QED
    BY <1>1, <1>3, <1>4, <1>5, <1>6 DEF TeamInv

LEMMA TeamInvStep == ASSUME TeamInv, [Next]_vars PROVE TeamInv'
  <1>1. CASE UNCHANGED vars
    BY <1>1 DEF vars, TeamInv, TypeOK, InHand, OneChange, OneInvitation, InvitesAlone, OnePending,
       OwnRows, KeepsAnOwner, RemovedStaysOut, Changing, Creating, Accepting, Pending, Owners
  <1>2. ASSUME NEW r \in Requests, Ends(r) PROVE TeamInv'
    <2>1. TypeOK
      BY DEF TeamInv
    <2> QED
      BY <1>2, <2>1, EndsGives, RestKeeps DEF Ends
  <1> QED
    BY <1>1, <1>2, CreateKeeps, ManagerKeeps, CreateRevokesKeeps, CreateCommitsKeeps, RevokeKeeps,
       AcceptReadsKeeps, AcceptCommitsKeeps, CheckMemberKeeps, UpdateMembershipKeeps,
       RemoveMemberKeeps DEF Next

\* Whoever joins uses up an invitation.
LEMMA JoinStep ==
    ASSUME TeamInv, [Next]_vars, NEW u \in Users, role[u] = None, role'[u] # None
    PROVE  \E i \in Pending(u) : invites'[i].state = "accepted" /\ role'[u] = invites[i].to
  <1> USE DEF TeamInv
  <1>1. role \in [Users -> Roles \cup {None}]
    BY DEF TypeOK
  <1>2. PICK r \in Requests : AcceptCommits(r) \/ UpdateMembership(r) \/ RemoveMember(r)
    <2>1. ~UNCHANGED role
      OBVIOUS
    <2>2. ASSUME NEW r \in Requests, NEW v \in Users, NEW at, NEW op, NEW who, NEW to, NEW i,
                 Enter(r, v, at, op, who, to, i)
          PROVE  UNCHANGED role
      BY <2>2 DEF Enter
    <2>3. ASSUME NEW r \in Requests, NEW v \in Users,
                 \/ \E who \in Invitees, to \in Given : Create(r, v, who, to)
                 \/ \E i \in DOMAIN invites : LoadPending(r, v, i)
                 \/ \E who \in Users, to \in Given : Change(r, v, who, to)
                 \/ \E who \in Users : Remove(r, v, who)
          PROVE  UNCHANGED role
      BY <2>2, <2>3, Zenon DEF Create, LoadPending, Change, Remove
    <2>4. ASSUME NEW r \in Requests,
                 \/ Ends(r) \/ CreateRevokes(r) \/ CreateCommits(r) \/ Revoke(r)
                 \/ \E i \in DOMAIN invites : AcceptReads(r, i)
                 \/ CheckMember(r)
          PROVE  UNCHANGED role
      BY <2>4 DEF Ends, CreateRevokes, CreateCommits, Revoke, AcceptReads, CheckMember
    <2>5. Next
      BY <2>1 DEF vars
    <2> QED
      BY <2>1, <2>3, <2>4, <2>5, Zenon DEF Next
  <1>3. CASE AcceptCommits(r)
    <2>1. /\ Marks({req[r].inv}, "accepted") /\ req[r].inv \in DOMAIN invites
          /\ invites[req[r].inv].state = "pending" /\ invites[req[r].inv].email = req[r].who
          /\ invites[req[r].inv].to = req[r].to
      BY <1>3, AcceptCommitsGives
    <2>2. role' = [role EXCEPT ![req[r].who] = req[r].to]
      BY <1>3 DEF AcceptCommits
    <2>3. u = req[r].who /\ role'[u] = req[r].to
      BY <1>1, <2>2
    <2>4. req[r].inv \in Pending(u)
      BY <2>1, <2>3 DEF Pending
    <2> QED
      BY <2>1, <2>3, <2>4 DEF Marks
  <1>4. CASE UpdateMembership(r)
    <2>1. role[req[r].who] # None /\ role' = [role EXCEPT ![req[r].who] = req[r].to]
      BY <1>4 DEF UpdateMembership, InHand, Changing
    <2> QED
      BY <1>1, <2>1
  <1>5. CASE RemoveMember(r)
    <2>1. role' = [role EXCEPT ![req[r].who] = None]
      BY <1>5 DEF RemoveMember
    <2> QED
      BY <1>1, <2>1
  <1> QED
    BY <1>2, <1>3, <1>4, <1>5

\* Of the invitations of an address, one at most waits.
LEMMA OneIsNewest == ASSUME OnePending PROVE NewestOnly
  <1> SUFFICES ASSUME "invites" \notin overlaps, NEW u \in Users PROVE Cardinality(Pending(u)) <= 1
    BY DEF NewestOnly
  <1>1. CASE Pending(u) = {}
    BY <1>1, FS_EmptySet
  <1>2. ASSUME NEW i \in Pending(u) PROVE Cardinality(Pending(u)) <= 1
    <2>1. Pending(u) = {i}
      BY <1>2 DEF OnePending
    <2>2. Cardinality({i}) = 1
      BY FS_Singleton
    <2> QED
      BY <2>1, <2>2
  <1> QED
    BY <1>1, <1>2

-----------------------------------------------------------------------------
(* SignIn: the invariant.                                                   *)

At(r, places) == task[r].at \in places

LinkInHand ==
    \A r \in Requests :
        /\ At(r, {"hashing", "resetting"}) => task[r].link \in DOMAIN links
        /\ At(r, {"resetting"}) => task[r].now \in 1..clock
        /\ At(r, {"asking"}) => task[r].seen <= Len(links)
        /\ At(r, {"proven"}) => task[r].seen \in 0..password

\* As long as no two requests for a link overlapped, the one that revokes has
\* seen every link there is.
OneAsks ==
    "links" \notin raced =>
        /\ \A r, q \in Requests : At(r, {"asking"}) /\ At(q, {"asking"}) => r = q
        /\ \A r \in Requests : At(r, {"asking"}) => task[r].seen = Len(links)

\* As long as nothing overlapped with a reset, no sign-in and no other reset is
\* under way beside it, every session is older, and whoever signs in has
\* proven the password of the moment.
OneResets ==
    "sessions" \notin raced =>
        /\ \A r, q \in Requests : At(r, {"hashing", "resetting"})
                /\ At(q, {"hashing", "resetting", "proven"}) => r = q
        /\ \A r \in Requests, s \in sessions :
                /\ At(r, {"hashing"}) => s.authTime < clock
                /\ At(r, {"resetting"}) => s.authTime < task[r].now
        /\ \A r \in Requests : At(r, {"proven"}) => task[r].seen = password

Dated == changedAt <= clock /\ \A s \in sessions : s.authTime <= clock

SignInInv == /\ S!TypeOK /\ LinkInHand /\ OneAsks /\ OneResets /\ Dated
             /\ S!NewestLinkOnly /\ S!ResetsUseLinks /\ S!OldPasswordOut

-----------------------------------------------------------------------------
(* SignIn: the steps.                                                       *)

LEMMA TaskRecord ==
    ASSUME NEW at \in {"idle", "asking", "hashing", "resetting", "proven"},
           NEW link \in 0..MaxLinks, NEW seen \in Nat, NEW now \in 0..MaxClock
    PROVE  [at |-> at, link |-> link, seen |-> seen, now |-> now] \in S!Tasks
  BY Zenon DEF S!Tasks

\* The task of r is where it is said to be; the others are left alone.
TaskBecomes(r, at, link, seen, now) ==
    /\ task' \in [Requests -> S!Tasks]
    /\ \A q \in Requests \ {r} : task'[q] = task[q]
    /\ task'[r].at = at /\ task'[r].link = link /\ task'[r].seen = seen /\ task'[r].now = now

LEMMA TaskGiven ==
    ASSUME task \in [Requests -> S!Tasks], NEW r \in Requests, NEW z \in S!Tasks,
           task' = [task EXCEPT ![r] = z]
    PROVE  TaskBecomes(r, z.at, z.link, z.seen, z.now)
  BY DEF TaskBecomes

\* The records that the steps build.
LEMMA TaskUpdates ==
    ASSUME NEW y \in S!Tasks, NEW link \in 0..MaxLinks, NEW n \in Nat, NEW now \in 0..MaxClock
    PROVE  /\ [y EXCEPT !.at = "asking", !.seen = n] \in S!Tasks
           /\ [y EXCEPT !.at = "proven", !.seen = n] \in S!Tasks
           /\ [y EXCEPT !.at = "hashing", !.link = link] \in S!Tasks
           /\ [y EXCEPT !.at = "resetting", !.now = now] \in S!Tasks
  <1> DEFINE places == {"idle", "asking", "hashing", "resetting", "proven"}
  <1>1. "asking" \in places /\ "proven" \in places /\ "hashing" \in places /\ "resetting" \in places
    OBVIOUS
  <1>2. [y EXCEPT !.at = "asking", !.seen = n] \in S!Tasks
    BY <1>1, Zenon DEF S!Tasks
  <1>3. [y EXCEPT !.at = "proven", !.seen = n] \in S!Tasks
    BY <1>1, Zenon DEF S!Tasks
  <1>4. [y EXCEPT !.at = "hashing", !.link = link] \in S!Tasks
    BY <1>1, Zenon DEF S!Tasks
  <1>5. [y EXCEPT !.at = "resetting", !.now = now] \in S!Tasks
    BY <1>1, Zenon DEF S!Tasks
  <1> QED
    BY <1>2, <1>3, <1>4, <1>5

TaskRests(r) == TaskBecomes(r, "idle", 0, 0, 0)

\* What each step does to its request.
LEMMA TaskSteps ==
    ASSUME SignInInv, NEW r \in Requests
    PROVE  /\ S!AskRevokes(r) => TaskBecomes(r, "asking", 0, Len(links), 0)
           /\ S!SignInProves(r) => TaskBecomes(r, "proven", 0, password, 0)
           /\ \A l \in DOMAIN links : S!ResetReads(r, l) => TaskBecomes(r, "hashing", l, 0, 0)
           /\ S!AskCommits(r) \/ S!ResetCommits(r) \/ S!SignInIssues(r) \/ S!Stops(r) => TaskRests(r)
           /\ S!ResetTimes(r) => TaskBecomes(r, "resetting", task[r].link, task[r].seen, clock)
  <1> USE PeopleAssumption DEF SignInInv, S!TypeOK
  <1>1. /\ task \in [Requests -> S!Tasks] /\ Len(links) \in Nat /\ password \in Nat
        /\ 0 \in 0..MaxLinks /\ 0 \in 0..MaxClock /\ 0 \in Nat /\ clock \in 0..MaxClock
        /\ DOMAIN links = 1..Len(links)
    BY LenProperties
  <1>7. S!Free \in S!Tasks
    BY <1>1, TaskRecord DEF S!Free
  <1>2. ASSUME S!AskRevokes(r) PROVE TaskBecomes(r, "asking", 0, Len(links), 0)
    <2> DEFINE z == [S!Free EXCEPT !.at = "asking", !.seen = Len(links)]
    <2>1. z \in S!Tasks
      BY <1>1, <1>7, TaskUpdates, Zenon
    <2>2. z.at = "asking" /\ z.link = 0 /\ z.seen = Len(links) /\ z.now = 0
      BY <2>1, <1>7 DEF S!Free, S!Tasks
    <2>3. task' = [task EXCEPT ![r] = z]
      BY <1>2 DEF S!AskRevokes
    <2> QED
      BY <1>1, <2>1, <2>2, <2>3, TaskGiven, Zenon
  <1>3. ASSUME S!SignInProves(r) PROVE TaskBecomes(r, "proven", 0, password, 0)
    <2> DEFINE z == [S!Free EXCEPT !.at = "proven", !.seen = password]
    <2>1. z \in S!Tasks
      BY <1>1, <1>7, TaskUpdates, Zenon
    <2>2. z.at = "proven" /\ z.link = 0 /\ z.seen = password /\ z.now = 0
      BY <2>1, <1>7 DEF S!Free, S!Tasks
    <2>3. task' = [task EXCEPT ![r] = z]
      BY <1>3 DEF S!SignInProves
    <2> QED
      BY <1>1, <2>1, <2>2, <2>3, TaskGiven, Zenon
  <1>4. ASSUME NEW l \in DOMAIN links, S!ResetReads(r, l) PROVE TaskBecomes(r, "hashing", l, 0, 0)
    <2>0. l \in 0..MaxLinks
      BY <1>1
    <2> DEFINE z == [S!Free EXCEPT !.at = "hashing", !.link = l]
    <2>1. z \in S!Tasks
      BY <1>1, <1>7, <2>0, TaskUpdates, Zenon
    <2>2. z.at = "hashing" /\ z.link = l /\ z.seen = 0 /\ z.now = 0
      BY <2>1, <1>7 DEF S!Free, S!Tasks
    <2>3. task' = [task EXCEPT ![r] = z]
      BY <1>4 DEF S!ResetReads
    <2> QED
      BY <1>1, <2>1, <2>2, <2>3, TaskGiven, Zenon
  <1>5. S!AskCommits(r) \/ S!ResetCommits(r) \/ S!SignInIssues(r) \/ S!Stops(r) => TaskRests(r)
    <2>1. S!Free.at = "idle" /\ S!Free.link = 0 /\ S!Free.seen = 0 /\ S!Free.now = 0
      BY DEF S!Free
    <2>2. task' = [task EXCEPT ![r] = S!Free] => TaskRests(r)
      BY <1>1, <1>7, <2>1, TaskGiven DEF TaskRests
    <2> QED
      BY <2>2 DEF S!AskCommits, S!ResetCommits, S!SignInIssues, S!Stops
  <1>6. S!ResetTimes(r) => TaskBecomes(r, "resetting", task[r].link, task[r].seen, clock)
    <2> SUFFICES ASSUME S!ResetTimes(r)
                 PROVE  TaskBecomes(r, "resetting", task[r].link, task[r].seen, clock)
      OBVIOUS
    <2>1. task[r] \in S!Tasks
      BY <1>1, SMTT(30)
    <2> DEFINE z == [task[r] EXCEPT !.at = "resetting", !.now = clock]
    <2>2. z \in S!Tasks
      BY <1>1, <2>1, TaskUpdates, Zenon
    <2>3. z.at = "resetting" /\ z.link = task[r].link /\ z.seen = task[r].seen /\ z.now = clock
      BY <2>1, <2>2 DEF S!Tasks
    <2>4. task' = [task EXCEPT ![r] = z]
      BY DEF S!ResetTimes
    <2> QED
      BY <1>1, <2>2, <2>3, <2>4, TaskGiven
  <1> QED
    BY <1>2, <1>3, <1>4, <1>5, <1>6

\* What stays as it is when only requests move.
LEMMA QuietKeeps ==
    ASSUME SignInInv, UNCHANGED <<password, changedAt, links, sessions>>, raced \subseteq raced',
           raced' \subseteq {"links", "sessions"}, task' \in [Requests -> S!Tasks],
           clock' \in {clock, clock + 1}, clock' <= MaxClock
    PROVE  /\ S!TypeOK' /\ Dated' /\ S!NewestLinkOnly' /\ S!ResetsUseLinks' /\ S!OldPasswordOut'
  <1> USE DEF SignInInv
  <1>1. clock \in 1..MaxClock
    BY DEF S!TypeOK
  <1>2. S!TypeOK'
    BY <1>1, PeopleAssumption DEF S!TypeOK
  <1>3. Dated'
    <2>1. changedAt \in 0..MaxClock /\ \A s \in sessions : s.authTime \in 1..MaxClock
      BY DEF S!TypeOK
    <2> QED
      BY <1>1, <2>1, PeopleAssumption DEF Dated
  <1>4. S!NewestLinkOnly' /\ S!ResetsUseLinks' /\ S!OldPasswordOut'
    BY DEF S!NewestLinkOnly, S!ResetsUseLinks, S!OldPasswordOut, S!Live, S!Honoured, S!Predates
  <1> QED
    BY <1>2, <1>3, <1>4

\* What stays as it is of the requests when one moves and no other row does.
LEMMA TickKeeps == ASSUME SignInInv, S!Tick PROVE SignInInv'
  <1> USE DEF S!Tick
  <1>1. clock \in Nat /\ MaxClock \in Nat /\ links \in Seq(BOOLEAN) /\ task \in [Requests -> S!Tasks]
    BY PeopleAssumption DEF SignInInv, S!TypeOK
  <1>2. S!TypeOK' /\ Dated' /\ S!NewestLinkOnly' /\ S!ResetsUseLinks' /\ S!OldPasswordOut'
    <2>1. raced \subseteq {"links", "sessions"}
      BY DEF SignInInv, S!TypeOK
    <2>2. clock + 1 <= MaxClock
      BY <1>1
    <2> QED
      BY <1>1, <2>1, <2>2, QuietKeeps
  <1>3. LinkInHand'
    BY <1>1 DEF SignInInv, LinkInHand, At
  <1>4. OneAsks'
    BY DEF SignInInv, OneAsks, At
  <1>5. OneResets'
    <2>1. \A s \in sessions : s.authTime \in Nat
      BY DEF SignInInv, S!TypeOK
    <2> QED
      BY <1>1, <2>1 DEF SignInInv, OneResets, At
  <1> QED
    BY <1>2, <1>3, <1>4, <1>5 DEF SignInInv

LEMMA AskRevokesKeeps ==
    ASSUME SignInInv, NEW r \in Requests, S!AskRevokes(r) PROVE SignInInv'
  <1>1. TaskBecomes(r, "asking", 0, Len(links), 0)
    BY TaskSteps
  <1>2. /\ UNCHANGED <<clock, password, changedAt, links, sessions>> /\ raced \subseteq raced'
        /\ raced' \subseteq {"links", "sessions"} /\ task[r].at = "idle"
        /\ clock \in Nat /\ MaxClock \in Nat /\ clock <= MaxClock /\ Len(links) \in Nat
        /\ "links" \in raced' \/ \A q \in Requests \ {r} : task[q].at # "asking"
    BY PeopleAssumption, LenProperties DEF S!AskRevokes, SignInInv, S!TypeOK, S!Busy
  <1>3. S!TypeOK' /\ Dated' /\ S!NewestLinkOnly' /\ S!ResetsUseLinks' /\ S!OldPasswordOut'
    BY <1>1, <1>2, QuietKeeps DEF TaskBecomes
  <1>4. LinkInHand'
    BY <1>1, <1>2 DEF SignInInv, LinkInHand, At, TaskBecomes
  <1>5. OneAsks'
    BY <1>1, <1>2 DEF SignInInv, OneAsks, At, TaskBecomes
  <1>6. OneResets'
    BY <1>1, <1>2 DEF SignInInv, OneResets, At, TaskBecomes
  <1> QED
    BY <1>3, <1>4, <1>5, <1>6 DEF SignInInv

\* The sizes that the two modules speak of are the same.
LEMMA SameSize == ASSUME NEW T PROVE S!Cardinality(T) = Cardinality(T)
  BY DEF S!Cardinality, Cardinality

\* The live links are finitely many.
LEMMA LiveIsFinite ==
    ASSUME links \in Seq(BOOLEAN) PROVE IsFiniteSet(S!Live) /\ Cardinality(S!Live) \in Nat
  <1>1. IsFiniteSet(1..Len(links)) /\ S!Live \subseteq 1..Len(links)
    <2>1. DOMAIN links = 1..Len(links) /\ Len(links) \in Nat
      BY LenProperties
    <2> QED
      BY <2>1, FS_Interval DEF S!Live
  <1>2. IsFiniteSet(S!Live)
    BY <1>1, FS_Subset
  <1> QED
    BY <1>2, FS_CardinalityType

LEMMA Appended ==
    ASSUME NEW T, NEW s \in Seq(T), NEW e \in T
    PROVE  /\ Append(s, e) \in Seq(T) /\ Len(Append(s, e)) = Len(s) + 1
           /\ \A i \in 1..Len(s) : Append(s, e)[i] = s[i]
           /\ Append(s, e)[Len(s) + 1] = e
  BY AppendProperties, LenProperties

LEMMA AskCommitsKeeps ==
    ASSUME SignInInv, NEW r \in Requests, S!AskCommits(r) PROVE SignInInv'
  <1>1. TaskRests(r)
    BY TaskSteps
  <1>2. /\ UNCHANGED <<clock, password, changedAt, sessions, raced>>
        /\ task[r].at = "asking" /\ task[r].seen \in Nat
        /\ links \in Seq(BOOLEAN) /\ Len(links) \in Nat /\ DOMAIN links = 1..Len(links)
    BY LenProperties DEF S!AskCommits, SignInInv, S!TypeOK, S!Tasks
  <1> DEFINE older == [l \in DOMAIN links |-> links[l] /\ l > task[r].seen]
  <1>3. older \in Seq(BOOLEAN) /\ Len(older) = Len(links)
    <2>1. older \in [1..Len(links) -> BOOLEAN]
      BY <1>2
    <2>2. older \in Seq(BOOLEAN)
      BY <1>2, <2>1, SeqDef
    <2> QED
      BY <1>2, <2>1, <2>2, LenProperties
  <1>4. links' = Append(older, TRUE) /\ Len(links) < MaxLinks
    BY DEF S!AskCommits
  <1>5. /\ links' \in Seq(BOOLEAN) /\ Len(links') = Len(links) + 1
        /\ DOMAIN links' = 1..(Len(links) + 1)
        /\ \A l \in DOMAIN links : links'[l] = (links[l] /\ l > task[r].seen)
    <2> HIDE DEF older
    <2>1. /\ links' \in Seq(BOOLEAN) /\ Len(links') = Len(links) + 1
          /\ \A l \in 1..Len(links) : links'[l] = older[l]
      <3>1. \A e \in BOOLEAN :
               /\ Append(older, e) \in Seq(BOOLEAN) /\ Len(Append(older, e)) = Len(older) + 1
               /\ \A i \in 1..Len(older) : Append(older, e)[i] = older[i]
        BY ONLY <1>3, Appended
      <3>2. /\ links' \in Seq(BOOLEAN) /\ Len(links') = Len(older) + 1
            /\ \A i \in 1..Len(older) : links'[i] = older[i]
        BY ONLY <1>4, <3>1, Zenon
      <3> QED
        BY <1>2, <1>3, <3>2
    <2>2. \A l \in DOMAIN links : older[l] = (links[l] /\ l > task[r].seen)
      BY DEF older
    <2> QED
      BY <1>2, <2>1, <2>2, LenProperties
  <1> HIDE DEF older
  <1>6. S!TypeOK'
    BY <1>1, <1>2, <1>4, <1>5, PeopleAssumption DEF SignInInv, S!TypeOK, TaskRests, TaskBecomes
  <1>7. LinkInHand'
    <2>1. \A q \in Requests : task[q].seen \in Nat
      BY DEF SignInInv, S!TypeOK, S!Tasks
    <2> QED
      BY <1>1, <1>2, <1>5, <2>1 DEF SignInInv, LinkInHand, At, TaskRests, TaskBecomes
  <1>8. OneAsks'
    BY <1>1, <1>2, <1>5 DEF SignInInv, OneAsks, At, TaskRests, TaskBecomes
  <1>9. OneResets' /\ Dated' /\ S!OldPasswordOut'
    BY <1>1, <1>2 DEF SignInInv, OneResets, At, TaskRests, TaskBecomes, Dated, S!OldPasswordOut,
                      S!Honoured, S!Predates
  <1>10. S!NewestLinkOnly'
    BY <1>2, <1>5 DEF SignInInv, S!NewestLinkOnly, S!Live, OneAsks, At
  <1>11. S!ResetsUseLinks'
    <2>1. S!Live' \subseteq S!Live \cup {Len(links) + 1}
      BY <1>2, <1>5 DEF S!Live
    <2>2. IsFiniteSet(S!Live) /\ Cardinality(S!Live) \in Nat
      BY <1>2, LiveIsFinite
    <2>3. /\ IsFiniteSet(S!Live \cup {Len(links) + 1})
          /\ Cardinality(S!Live \cup {Len(links) + 1}) \in {Cardinality(S!Live), Cardinality(S!Live) + 1}
      BY <2>2, FS_AddElement
    <2>4. /\ Cardinality(S!Live') \in Nat
          /\ Cardinality(S!Live') <= Cardinality(S!Live \cup {Len(links) + 1})
      BY <2>1, <2>3, FS_Subset, FS_CardinalityType
    <2>5. password \in Nat
      BY PeopleAssumption DEF SignInInv, S!TypeOK
    <2> QED
      BY <1>2, <1>5, <2>2, <2>3, <2>4, <2>5, SameSize DEF SignInInv, S!ResetsUseLinks
  <1> QED
    BY <1>6, <1>7, <1>8, <1>9, <1>10, <1>11 DEF SignInInv

LEMMA ResetReadsKeeps ==
    ASSUME SignInInv, NEW r \in Requests, NEW l \in DOMAIN links, S!ResetReads(r, l) PROVE SignInInv'
  <1>1. TaskBecomes(r, "hashing", l, 0, 0)
    BY TaskSteps
  <1>2. /\ UNCHANGED <<password, changedAt, links, sessions>> /\ raced \subseteq raced'
        /\ raced' \subseteq {"links", "sessions"} /\ task[r].at = "idle"
        /\ clock \in Nat /\ MaxClock \in Nat /\ clock' = clock + 1 /\ clock' <= MaxClock
        /\ \/ "sessions" \in raced'
           \/ \A q \in Requests \ {r} : task[q].at \notin {"hashing", "resetting", "proven"}
    BY PeopleAssumption DEF S!ResetReads, SignInInv, S!TypeOK, S!Busy, S!Signing, S!Resetting
  <1>3. S!TypeOK' /\ Dated' /\ S!NewestLinkOnly' /\ S!ResetsUseLinks' /\ S!OldPasswordOut'
    BY <1>1, <1>2, QuietKeeps DEF TaskBecomes
  <1>4. LinkInHand'
    BY <1>1, <1>2 DEF SignInInv, LinkInHand, At, TaskBecomes
  <1>5. OneAsks'
    BY <1>1, <1>2 DEF SignInInv, OneAsks, At, TaskBecomes
  <1>6. OneResets'
    <2>1. \A s \in sessions : s.authTime \in Nat /\ s.authTime <= clock
      BY DEF SignInInv, S!TypeOK, Dated
    <2> QED
      BY <1>1, <1>2, <2>1 DEF SignInInv, OneResets, At, TaskBecomes
  <1> QED
    BY <1>3, <1>4, <1>5, <1>6 DEF SignInInv

LEMMA ResetTimesKeeps ==
    ASSUME SignInInv, NEW r \in Requests, S!ResetTimes(r) PROVE SignInInv'
  <1>1. TaskBecomes(r, "resetting", task[r].link, task[r].seen, clock)
    BY TaskSteps
  <1>2. /\ UNCHANGED <<clock, password, changedAt, links, sessions, raced>> /\ task[r].at = "hashing"
        /\ raced \subseteq {"links", "sessions"}
        /\ clock \in 1..MaxClock /\ MaxClock \in Nat /\ clock <= MaxClock
    BY PeopleAssumption DEF S!ResetTimes, SignInInv, S!TypeOK
  <1>3. S!TypeOK' /\ Dated' /\ S!NewestLinkOnly' /\ S!ResetsUseLinks' /\ S!OldPasswordOut'
    BY <1>1, <1>2, QuietKeeps DEF TaskBecomes
  <1>4. LinkInHand'
    BY <1>1, <1>2 DEF SignInInv, LinkInHand, At, TaskBecomes
  <1>5. OneAsks'
    BY <1>1, <1>2 DEF SignInInv, OneAsks, At, TaskBecomes
  <1>6. OneResets'
    BY <1>1, <1>2 DEF SignInInv, OneResets, At, TaskBecomes
  <1> QED
    BY <1>3, <1>4, <1>5, <1>6 DEF SignInInv

LEMMA ResetCommitsKeeps ==
    ASSUME SignInInv, NEW r \in Requests, S!ResetCommits(r) PROVE SignInInv'
  <1>1. TaskRests(r)
    BY TaskSteps
  <1>2. /\ UNCHANGED <<clock, sessions, raced>> /\ task[r].at = "resetting"
        /\ task[r].now \in 1..clock /\ clock \in Nat /\ clock <= MaxClock /\ MaxClock \in Nat
        /\ password' = password + 1 /\ changedAt' = task[r].now /\ password \in Nat
        /\ links \in Seq(BOOLEAN) /\ Len(links) \in Nat /\ DOMAIN links = 1..Len(links)
        /\ task[r].link \in S!Live
    BY LenProperties, PeopleAssumption
       DEF S!ResetCommits, S!LinkClaimed, S!Live, SignInInv, S!TypeOK, LinkInHand, At
  <1>3. /\ links' \in Seq(BOOLEAN) /\ Len(links') = Len(links) /\ DOMAIN links' = DOMAIN links
        /\ \A l \in DOMAIN links : ~links'[l]
    <2>1. links' = [l \in 1..Len(links) |-> FALSE]
      BY <1>2 DEF S!ResetCommits
    <2>2. links' \in [1..Len(links) -> BOOLEAN]
      BY <2>1
    <2>3. links' \in Seq(BOOLEAN)
      BY <1>2, <2>2, SeqDef
    <2> QED
      BY <1>2, <2>1, <2>2, <2>3, LenProperties
  <1>4. S!ResetsUseLinks' /\ password' <= Len(links)
    <2>1. S!Live' = {}
      BY <1>3 DEF S!Live
    <2>2. IsFiniteSet(S!Live) /\ Cardinality(S!Live) \in Nat
      BY <1>2, LiveIsFinite
    <2>3. Cardinality(S!Live) # 0
      BY <1>2, <2>2, FS_EmptySet
    <2>4. Cardinality(S!Live') = 0
      BY <2>1, FS_EmptySet
    <2> QED
      BY <1>2, <1>3, <2>2, <2>3, <2>4, SameSize DEF SignInInv, S!ResetsUseLinks
  <1>5. S!TypeOK'
    BY <1>1, <1>2, <1>3, <1>4, PeopleAssumption DEF SignInInv, S!TypeOK, TaskRests, TaskBecomes
  <1>6. LinkInHand'
    BY <1>1, <1>2, <1>3 DEF SignInInv, LinkInHand, At, TaskRests, TaskBecomes
  <1>7. OneAsks'
    BY <1>1, <1>2, <1>3 DEF SignInInv, OneAsks, At, TaskRests, TaskBecomes
  <1>8. OneResets'
    BY <1>1, <1>2 DEF SignInInv, OneResets, At, TaskRests, TaskBecomes
  <1>9. Dated'
    BY <1>2 DEF SignInInv, Dated
  <1>10. S!NewestLinkOnly'
    BY <1>3 DEF S!NewestLinkOnly, S!Live
  <1>11. S!OldPasswordOut'
    BY <1>2 DEF SignInInv, OneResets, At, S!OldPasswordOut, S!Honoured, S!Predates
  <1> QED
    BY <1>4, <1>5, <1>6, <1>7, <1>8, <1>9, <1>10, <1>11 DEF SignInInv

LEMMA SignInProvesKeeps ==
    ASSUME SignInInv, NEW r \in Requests, S!SignInProves(r) PROVE SignInInv'
  <1>1. TaskBecomes(r, "proven", 0, password, 0)
    BY TaskSteps
  <1>2. /\ UNCHANGED <<clock, password, changedAt, links, sessions>> /\ raced \subseteq raced'
        /\ raced' \subseteq {"links", "sessions"} /\ task[r].at = "idle"
        /\ clock \in Nat /\ password \in Nat /\ MaxClock \in Nat /\ clock <= MaxClock
        /\ \/ "sessions" \in raced'
           \/ \A q \in Requests \ {r} : task[q].at \notin {"hashing", "resetting"}
    BY PeopleAssumption DEF S!SignInProves, SignInInv, S!TypeOK, S!Busy, S!Resetting
  <1>3. S!TypeOK' /\ Dated' /\ S!NewestLinkOnly' /\ S!ResetsUseLinks' /\ S!OldPasswordOut'
    BY <1>1, <1>2, QuietKeeps DEF TaskBecomes
  <1>4. LinkInHand'
    BY <1>1, <1>2 DEF SignInInv, LinkInHand, At, TaskBecomes
  <1>5. OneAsks'
    BY <1>1, <1>2 DEF SignInInv, OneAsks, At, TaskBecomes
  <1>6. OneResets'
    BY <1>1, <1>2 DEF SignInInv, OneResets, At, TaskBecomes
  <1> QED
    BY <1>3, <1>4, <1>5, <1>6 DEF SignInInv

\* The session is of now and of the password of the moment, and no reset that
\* could be older is under way.
LEMMA SignInIssuesKeeps ==
    ASSUME SignInInv, NEW r \in Requests, S!SignInIssues(r) PROVE SignInInv'
  <1> DEFINE new == [password |-> task[r].seen, authTime |-> clock]
  <1>1. TaskRests(r)
    BY TaskSteps
  <1>2. /\ UNCHANGED <<clock, password, changedAt, links, raced>> /\ task[r].at = "proven"
        /\ sessions' = sessions \cup {new} /\ new.password = task[r].seen /\ new.authTime = clock
        /\ clock \in 1..MaxClock /\ MaxClock \in Nat
    BY PeopleAssumption DEF S!SignInIssues, SignInInv, S!TypeOK
  <1> HIDE DEF new
  <1>3. task[r].seen \in 0..MaxLinks
    BY <1>2, PeopleAssumption DEF SignInInv, S!TypeOK, LinkInHand, At
  <1>4. S!TypeOK'
    BY <1>1, <1>2, <1>3 DEF SignInInv, S!TypeOK, TaskRests, TaskBecomes, new
  <1>5. LinkInHand' /\ OneAsks'
    BY <1>1, <1>2 DEF SignInInv, LinkInHand, OneAsks, At, TaskRests, TaskBecomes
  <1>6. OneResets'
    BY <1>1, <1>2 DEF SignInInv, OneResets, At, TaskRests, TaskBecomes
  <1>7. Dated'
    BY <1>2 DEF SignInInv, Dated
  <1>8. S!NewestLinkOnly' /\ S!ResetsUseLinks'
    BY <1>2 DEF SignInInv, S!NewestLinkOnly, S!ResetsUseLinks, S!Live
  <1>9. S!OldPasswordOut'
    BY <1>2 DEF SignInInv, S!OldPasswordOut, S!Honoured, S!Predates, OneResets, At
  <1> QED
    BY <1>4, <1>5, <1>6, <1>7, <1>8, <1>9 DEF SignInInv

LEMMA StopsKeeps == ASSUME SignInInv, NEW r \in Requests, S!Stops(r) PROVE SignInInv'
  <1>1. TaskRests(r)
    BY TaskSteps
  <1>2. /\ UNCHANGED <<clock, password, changedAt, links, sessions, raced>>
        /\ clock \in Nat /\ MaxClock \in Nat /\ clock <= MaxClock
        /\ raced \subseteq {"links", "sessions"}
    BY PeopleAssumption DEF S!Stops, SignInInv, S!TypeOK
  <1>3. S!TypeOK' /\ Dated' /\ S!NewestLinkOnly' /\ S!ResetsUseLinks' /\ S!OldPasswordOut'
    BY <1>1, <1>2, QuietKeeps DEF TaskRests, TaskBecomes
  <1>4. LinkInHand'
    BY <1>1, <1>2 DEF SignInInv, LinkInHand, At, TaskRests, TaskBecomes
  <1>5. OneAsks'
    BY <1>1, <1>2 DEF SignInInv, OneAsks, At, TaskRests, TaskBecomes
  <1>6. OneResets'
    BY <1>1, <1>2 DEF SignInInv, OneResets, At, TaskRests, TaskBecomes
  <1> QED
    BY <1>3, <1>4, <1>5, <1>6 DEF SignInInv

LEMMA SignInInvInit == S!Init => SignInInv
  <1> SUFFICES ASSUME S!Init PROVE SignInInv
    OBVIOUS
  <1> USE PeopleAssumption DEF S!Init
  <1>1. links \in Seq(BOOLEAN) /\ Len(links) = 0 /\ DOMAIN links = {}
    OBVIOUS
  <1>2. S!Free \in S!Tasks /\ S!Free.at = "idle"
    BY TaskRecord DEF S!Free
  <1>3. task \in [Requests -> S!Tasks] /\ \A r \in Requests : task[r].at = "idle"
    BY <1>2
  <1>4. S!TypeOK
    BY <1>1, <1>3 DEF S!TypeOK
  <1>5. LinkInHand /\ OneAsks /\ OneResets /\ Dated
    BY <1>3 DEF LinkInHand, OneAsks, OneResets, Dated, At
  <1>6. S!Live = {} /\ S!Cardinality(S!Live) = 0
    BY <1>1, SameSize, FS_EmptySet DEF S!Live
  <1>7. S!NewestLinkOnly /\ S!ResetsUseLinks /\ S!OldPasswordOut
    BY <1>1, <1>6 DEF S!NewestLinkOnly, S!ResetsUseLinks, S!OldPasswordOut, S!Honoured
  <1> QED
    BY <1>4, <1>5, <1>7 DEF SignInInv

LEMMA SignInInvStep == ASSUME SignInInv, [S!Next]_signIn PROVE SignInInv'
  <1>1. CASE S!Next
    BY <1>1, TickKeeps, AskRevokesKeeps, AskCommitsKeeps, ResetReadsKeeps, ResetTimesKeeps,
       ResetCommitsKeeps, SignInProvesKeeps, SignInIssuesKeeps, StopsKeeps DEF S!Next
  <1>2. CASE UNCHANGED signIn
    <2> USE <1>2 DEF signIn, SignInInv
    <2>1. S!TypeOK' /\ LinkInHand' /\ OneAsks'
      BY DEF S!TypeOK, LinkInHand, OneAsks, At
    <2>2. OneResets' /\ Dated'
      BY DEF OneResets, Dated, At
    <2>3. S!NewestLinkOnly' /\ S!ResetsUseLinks' /\ S!OldPasswordOut'
      BY DEF S!NewestLinkOnly, S!ResetsUseLinks, S!OldPasswordOut, S!Live, S!Honoured, S!Predates
    <2> QED
      BY <2>1, <2>2, <2>3
  <1> QED
    BY <1>1, <1>2
-----------------------------------------------------------------------------
(* SecondFactor: the invariant.                                             *)

Does(r, places) == job[r].at \in places

\* As long as no enrolment overlapped with another, one at most is under way,
\* of somebody whose factor is off and whom nobody turns off, and it holds the
\* secret that is stored.
Enrols(r) == Does(r, {"beginning", "activating"})

EnrolsAlone(r) ==
    /\ job[r].user \notin enabled
    /\ Does(r, {"activating"}) => secret[job[r].user] = job[r].seen /\ job[r].seen # 0
    /\ \A q \in Requests : Enrols(q) => q = r
    /\ \A q \in Requests : Does(q, {"turning off"}) => job[q].user # job[r].user

OneEnrols == "enrolment" \notin crossed => \A r \in Requests : Enrols(r) => EnrolsAlone(r)

JobInHand ==
    \A r \in Requests :
        /\ ~Does(r, {"idle"}) => job[r].user \in Holders
        /\ Does(r, {"disabling", "turning off"}) => job[r].org \in Orgs /\ job[r].user \in Members[job[r].org]
        /\ Does(r, {"deciding"}) => job[r].org \in Orgs /\ job[r].user \in Managers[job[r].org]
        /\ Does(r, {"activating"}) => job[r].seen \in 0..MaxSecrets

\* A code that is stored has let nobody through, and is one user's.
CodesAreFresh ==
    /\ \A u \in Holders : \A c \in codes[u] :
          /\ c <= made.codes /\ accepted[c] = 0
          /\ \A v \in Holders : c \in codes[v] => v = u
    /\ \A c \in DOMAIN accepted : c > made.codes => accepted[c] = 0

\* As long as no two requests decided at one time, an organization whose policy
\* is being switched on has a manager who has enrolled, and those who turn their
\* factor off do so where it is not required.
OneDecides ==
    "policy" \notin crossed =>
        \A r \in Requests :
            /\ Does(r, {"deciding"}) =>
                  /\ job[r].on => job[r].user \in enabled
                  /\ \A q \in Requests : ~Does(q, {"disabling", "turning off"})
            /\ Does(r, {"disabling", "turning off"}) => job[r].org \notin requireMfa

FactorInv == /\ F!TypeOK /\ JobInHand /\ OneEnrols /\ CodesAreFresh /\ OneDecides
             /\ F!EnabledSecretProven /\ F!CodeOnce /\ F!PolicyReversible

-----------------------------------------------------------------------------
(* SecondFactor: the steps.                                                 *)

Stages == {"idle", "beginning", "activating", "signing in", "disabling", "renewing",
           "turning off", "issuing", "deciding"}

LEMMA JobRecord ==
    ASSUME NEW at \in Stages, NEW u \in Holders \cup {"none"}, NEW o \in Orgs \cup {"none"},
           NEW x \in Nat, NEW on \in BOOLEAN
    PROVE  [at |-> at, user |-> u, org |-> o, seen |-> x, on |-> on] \in F!Job
  BY Zenon DEF F!Job, Stages

\* The job of r is what it is said to be; the others are left alone.
JobBecomes(r, at, u, o, x, on) ==
    /\ job' \in [Requests -> F!Job]
    /\ \A q \in Requests \ {r} : job'[q] = job[q]
    /\ job'[r].at = at /\ job'[r].user = u /\ job'[r].org = o /\ job'[r].seen = x /\ job'[r].on = on

JobRests(r) == JobBecomes(r, "idle", "none", "none", 0, FALSE)

LEMMA JobGiven ==
    ASSUME job \in [Requests -> F!Job], NEW r \in Requests, NEW z \in F!Job,
           job' = [job EXCEPT ![r] = z]
    PROVE  JobBecomes(r, z.at, z.user, z.org, z.seen, z.on)
  BY DEF JobBecomes

LEMMA DoneGives ==
    ASSUME job \in [Requests -> F!Job], NEW r \in Requests, F!Done(r)
    PROVE  JobRests(r)
  <1>1. "idle" \in Stages /\ "none" \in Holders \cup {"none"} /\ "none" \in Orgs \cup {"none"}
        /\ 0 \in Nat /\ FALSE \in BOOLEAN
    BY DEF Stages
  <1>2. F!Waiting \in F!Job
    BY <1>1, JobRecord, Zenon DEF F!Waiting
  <1>3. /\ F!Waiting.at = "idle" /\ F!Waiting.user = "none" /\ F!Waiting.org = "none"
        /\ F!Waiting.seen = 0 /\ F!Waiting.on = FALSE
    BY DEF F!Waiting
  <1>4. job' = [job EXCEPT ![r] = F!Waiting]
    BY DEF F!Done
  <1>5. JobBecomes(r, F!Waiting.at, F!Waiting.user, F!Waiting.org, F!Waiting.seen, F!Waiting.on)
    BY <1>2, <1>4, JobGiven
  <1> QED
    BY <1>3, <1>5, Zenon DEF JobRests

LEMMA StartGives ==
    ASSUME job \in [Requests -> F!Job], NEW r \in Requests, NEW at \in Stages,
           NEW u \in Holders, NEW o \in Orgs \cup {"none"}, NEW x \in Nat, NEW on \in BOOLEAN,
           NEW kind, NEW others, F!Start(r, at, u, o, x, on, kind, others)
    PROVE  /\ JobBecomes(r, at, u, o, x, on) /\ job[r].at = "idle"
           /\ crossed \subseteq crossed' /\ crossed' \subseteq crossed \cup {kind}
           /\ kind \in crossed' \/ \A q \in Requests \ {r} : job[q].at \notin others
  <1> DEFINE z == [at |-> at, user |-> u, org |-> o, seen |-> x, on |-> on]
  <1>1. z \in F!Job
    BY JobRecord
  <1>2. z.at = at /\ z.user = u /\ z.org = o /\ z.seen = x /\ z.on = on
    BY Zenon
  <1>3. job' = [job EXCEPT ![r] = z]
    BY DEF F!Start
  <1> HIDE DEF z
  <1>4. JobBecomes(r, z.at, z.user, z.org, z.seen, z.on)
    BY <1>1, <1>3, JobGiven
  <1>5. JobBecomes(r, at, u, o, x, on)
    BY <1>2, <1>4, Zenon
  <1>6. /\ job[r].at = "idle" /\ crossed \subseteq crossed' /\ crossed' \subseteq crossed \cup {kind}
        /\ kind \in crossed' \/ \A q \in Requests \ {r} : job[q].at \notin others
    BY DEF F!Start
  <1> QED
    BY <1>5, <1>6

LEMMA StartsOff ==
    ASSUME job \in [Requests -> F!Job], NEW r \in Requests, NEW at \in Stages,
           NEW u \in Holders, NEW o \in Orgs \cup {"none"}, NEW x \in Nat,
           NEW kind, NEW others, F!Start(r, at, u, o, x, FALSE, kind, others)
    PROVE  /\ JobBecomes(r, at, u, o, x, FALSE) /\ job[r].at = "idle"
           /\ crossed \subseteq crossed' /\ crossed' \subseteq crossed \cup {kind}
           /\ kind \in crossed' \/ \A q \in Requests \ {r} : job[q].at \notin others
  <1>1. \A on \in BOOLEAN : F!Start(r, at, u, o, x, on, kind, others) =>
           /\ JobBecomes(r, at, u, o, x, on) /\ job[r].at = "idle"
           /\ crossed \subseteq crossed' /\ crossed' \subseteq crossed \cup {kind}
           /\ kind \in crossed' \/ \A q \in Requests \ {r} : job[q].at \notin others
    BY StartGives
  <1>2. FALSE \in BOOLEAN
    OBVIOUS
  <1> QED
    BY <1>1, <1>2, Zenon

\* What stays as it is when only requests move.
LEMMA JobsOnly ==
    ASSUME FactorInv, UNCHANGED <<secret, enabled, app, codes, made, accepted, requireMfa>>,
           crossed \subseteq crossed', crossed' \subseteq {"enrolment", "codes", "policy"},
           job' \in [Requests -> F!Job]
    PROVE  /\ F!TypeOK' /\ CodesAreFresh' /\ F!EnabledSecretProven' /\ F!CodeOnce'
           /\ F!PolicyReversible'
  <1> USE DEF FactorInv
  <1>1. F!TypeOK'
    BY DEF F!TypeOK
  <1>2. CodesAreFresh' /\ F!EnabledSecretProven' /\ F!CodeOnce'
    BY DEF CodesAreFresh, F!EnabledSecretProven, F!CodeOnce
  <1>3. F!PolicyReversible'
    BY DEF F!PolicyReversible, F!Closed
  <1> QED
    BY <1>1, <1>2, <1>3

\* Kinds of places that two requests are said to cross at.
LEMMA FactorTypes ==
    ASSUME FactorInv
    PROVE  /\ job \in [Requests -> F!Job]
           /\ crossed \subseteq {"enrolment", "codes", "policy"} /\ enabled \subseteq Holders
           /\ secret \in [Holders -> 0..MaxSecrets] /\ app \in [Holders -> 0..MaxSecrets]
           /\ codes \in [Holders -> SUBSET (1..MaxCodes)] /\ accepted \in [1..MaxCodes -> Nat]
           /\ made.codes \in 0..MaxCodes /\ made.secrets \in 0..MaxSecrets
           /\ made \in [secrets : 0..MaxSecrets, codes : 0..MaxCodes]
           /\ requireMfa \subseteq Orgs /\ MaxSecrets \in Nat /\ MaxCodes \in Nat
  BY PeopleAssumption DEF FactorInv, F!TypeOK

\* A request that starts, and is not the second one at an enrolment.
LEMMA EnrolsOnStart ==
    ASSUME FactorInv, UNCHANGED <<secret, enabled>>, NEW r \in Requests, crossed \subseteq crossed',
           NEW at, NEW u, NEW o, NEW x, NEW on, JobBecomes(r, at, u, o, x, on),
           at \in {"beginning", "activating"} =>
             /\ u \notin enabled /\ (at = "activating" => secret[u] = x /\ x # 0)
             /\ \/ "enrolment" \in crossed'
                \/ \A q \in Requests \ {r} : job[q].at \notin {"beginning", "activating", "turning off"},
           at # "turning off"
    PROVE  OneEnrols'
  <1> SUFFICES ASSUME "enrolment" \notin crossed', NEW p \in Requests, Enrols(p)'
               PROVE  EnrolsAlone(p)'
    BY DEF OneEnrols
  <1>1. OneEnrols /\ "enrolment" \notin crossed
    BY DEF FactorInv
  <1>2. \A q \in Requests \ {r} : job'[q] = job[q]
    BY DEF JobBecomes
  <1>3. job'[r].at = at /\ job'[r].user = u /\ job'[r].seen = x
    BY DEF JobBecomes
  <1>4. CASE p = r
    <2>1. at \in {"beginning", "activating"}
      BY <1>3, <1>4 DEF Enrols, Does
    <2>2. \A q \in Requests \ {r} : job'[q].at \notin {"beginning", "activating", "turning off"}
      BY <1>2, <2>1
    <2> QED
      BY <1>3, <1>4, <2>1, <2>2 DEF EnrolsAlone, Enrols, Does
  <1>5. CASE p # r
    <2>1. job'[p] = job[p] /\ Enrols(p) /\ EnrolsAlone(p)
      BY <1>1, <1>2, <1>5 DEF OneEnrols, Enrols, Does
    <2>2. at \notin {"beginning", "activating"}
      BY <2>1, <1>5 DEF Enrols, Does
    <2> QED
      BY <1>2, <1>3, <1>5, <2>1, <2>2 DEF EnrolsAlone, Enrols, Does
  <1> QED
    BY <1>4, <1>5

LEMMA CodesAreNumbers ==
    ASSUME FactorInv
    PROVE  made.codes \in Nat /\ 0..made.codes \subseteq Nat /\ \A u \in Holders : secret[u] \in Nat
  <1>1. made.codes \in 0..MaxCodes /\ MaxCodes \in Nat
    BY FactorTypes
  <1>2. \A u \in Holders : secret[u] \in Nat
    BY FactorTypes
  <1> QED
    BY <1>1, <1>2

LEMMA BeginReadsKeeps ==
    ASSUME FactorInv, NEW r \in Requests, NEW u \in Holders, F!BeginReads(r, u)
    PROVE  FactorInv'
  <1> DEFINE others == {"beginning", "activating", "turning off"}
  <1>1. /\ u \notin enabled /\ UNCHANGED <<secret, enabled, app, codes, made, accepted, requireMfa>>
        /\ F!Start(r, "beginning", u, "none", 0, FALSE, "enrolment", others)
    BY DEF F!BeginReads
  <1> HIDE DEF others
  <1>2. /\ JobBecomes(r, "beginning", u, "none", 0, FALSE) /\ job[r].at = "idle"
        /\ crossed \subseteq crossed' /\ crossed' \subseteq crossed \cup {"enrolment"}
        /\ \/ "enrolment" \in crossed'
           \/ \A q \in Requests \ {r} : job[q].at \notin others
    <2>1. "beginning" \in Stages /\ "none" \in Orgs \cup {"none"} /\ 0 \in Nat
      BY DEF Stages
    <2>2. job \in [Requests -> F!Job]
      BY FactorTypes
    <2> QED
      BY <1>1, <2>1, <2>2, StartsOff
  <1>3. F!TypeOK' /\ CodesAreFresh' /\ F!EnabledSecretProven' /\ F!CodeOnce' /\ F!PolicyReversible'
    BY <1>1, <1>2, FactorTypes, JobsOnly DEF JobBecomes
  <1>4. JobInHand'
    BY <1>1, <1>2 DEF FactorInv, JobInHand, Does, JobBecomes, others
  <1>5. OneEnrols'
    BY <1>1, <1>2, EnrolsOnStart DEF others
  <1>6. OneDecides'
    BY <1>1, <1>2 DEF FactorInv, OneDecides, Does, JobBecomes, others
  <1> QED
    BY <1>3, <1>4, <1>5, <1>6 DEF FactorInv

LEMMA ActivateReadsKeeps ==
    ASSUME FactorInv, NEW r \in Requests, NEW u \in Holders, F!ActivateReads(r, u)
    PROVE  FactorInv'
  <1> DEFINE others == {"beginning", "activating", "turning off"}
  <1>1. /\ u \notin enabled /\ secret[u] # 0 /\ secret[u] \in 0..MaxSecrets
        /\ UNCHANGED <<secret, enabled, app, codes, made, accepted, requireMfa>>
        /\ F!Start(r, "activating", u, "none", secret[u], FALSE, "enrolment", others)
    BY FactorTypes DEF F!ActivateReads
  <1> HIDE DEF others
  <1>2. /\ JobBecomes(r, "activating", u, "none", secret[u], FALSE) /\ job[r].at = "idle"
        /\ crossed \subseteq crossed' /\ crossed' \subseteq crossed \cup {"enrolment"}
        /\ \/ "enrolment" \in crossed'
           \/ \A q \in Requests \ {r} : job[q].at \notin others
    <2>1. "activating" \in Stages /\ "none" \in Orgs \cup {"none"} /\ secret[u] \in Nat
      BY CodesAreNumbers DEF Stages
    <2>2. job \in [Requests -> F!Job]
      BY FactorTypes
    <2> QED
      BY <1>1, <2>1, <2>2, StartsOff
  <1>3. F!TypeOK' /\ CodesAreFresh' /\ F!EnabledSecretProven' /\ F!CodeOnce' /\ F!PolicyReversible'
    BY <1>1, <1>2, FactorTypes, JobsOnly DEF JobBecomes
  <1>4. JobInHand'
    BY <1>1, <1>2 DEF FactorInv, JobInHand, Does, JobBecomes, others
  <1>5. OneEnrols'
    BY <1>1, <1>2, EnrolsOnStart DEF others
  <1>6. OneDecides'
    BY <1>1, <1>2 DEF FactorInv, OneDecides, Does, JobBecomes, others
  <1> QED
    BY <1>3, <1>4, <1>5, <1>6 DEF FactorInv

LEMMA VerifyReadsKeeps ==
    ASSUME FactorInv, NEW r \in Requests, NEW u \in Holders, NEW c \in 0..made.codes,
           NEW at \in {"signing in", "renewing"}, F!VerifyReads(r, u, c, at, "none")
    PROVE  FactorInv'
  <1>1. /\ UNCHANGED <<secret, enabled, app, codes, made, accepted, requireMfa>>
        /\ F!Start(r, at, u, "none", c, FALSE, "codes", {})
    BY DEF F!VerifyReads
  <1>2. /\ JobBecomes(r, at, u, "none", c, FALSE) /\ job[r].at = "idle"
        /\ crossed \subseteq crossed' /\ crossed' \subseteq crossed \cup {"codes"}
    <2>1. at \in Stages /\ "none" \in Orgs \cup {"none"} /\ c \in Nat
      BY CodesAreNumbers DEF Stages
    <2>2. job \in [Requests -> F!Job]
      BY FactorTypes
    <2> QED
      BY <1>1, <2>1, <2>2, StartsOff
  <1>3. F!TypeOK' /\ CodesAreFresh' /\ F!EnabledSecretProven' /\ F!CodeOnce' /\ F!PolicyReversible'
    BY <1>1, <1>2, FactorTypes, JobsOnly DEF JobBecomes
  <1>4. JobInHand'
    BY <1>1, <1>2 DEF FactorInv, JobInHand, Does, JobBecomes
  <1>5. OneEnrols'
    BY <1>1, <1>2, EnrolsOnStart
  <1>6. OneDecides'
    BY <1>1, <1>2 DEF FactorInv, OneDecides, Does, JobBecomes
  <1> QED
    BY <1>3, <1>4, <1>5, <1>6 DEF FactorInv

LEMMA DisableReadsKeeps ==
    ASSUME FactorInv, NEW r \in Requests, NEW u \in Holders, NEW c \in 0..made.codes,
           NEW o \in Orgs, F!DisableReads(r, u, c, o)
    PROVE  FactorInv'
  <1>1. /\ u \in Members[o] /\ o \notin requireMfa
        /\ UNCHANGED <<secret, enabled, app, codes, made, accepted, requireMfa>>
        /\ F!Start(r, "disabling", u, o, c, FALSE, "policy", {"deciding"})
    BY DEF F!DisableReads
  <1>2. /\ JobBecomes(r, "disabling", u, o, c, FALSE) /\ job[r].at = "idle"
        /\ crossed \subseteq crossed' /\ crossed' \subseteq crossed \cup {"policy"}
        /\ "policy" \in crossed' \/ \A q \in Requests \ {r} : job[q].at \notin {"deciding"}
    <2>1. "disabling" \in Stages /\ c \in Nat
      BY CodesAreNumbers DEF Stages
    <2>2. job \in [Requests -> F!Job]
      BY FactorTypes
    <2> QED
      BY <1>1, <2>1, <2>2, StartsOff, ZenonT(40)
  <1>3. F!TypeOK' /\ CodesAreFresh' /\ F!EnabledSecretProven' /\ F!CodeOnce' /\ F!PolicyReversible'
    BY <1>1, <1>2, FactorTypes, JobsOnly DEF JobBecomes
  <1>4. JobInHand'
    BY <1>1, <1>2 DEF FactorInv, JobInHand, Does, JobBecomes
  <1>5. OneEnrols'
    BY <1>1, <1>2, EnrolsOnStart
  <1>6. OneDecides'
    BY <1>1, <1>2 DEF FactorInv, OneDecides, Does, JobBecomes
  <1> QED
    BY <1>3, <1>4, <1>5, <1>6 DEF FactorInv

LEMMA PolicyReadsKeeps ==
    ASSUME FactorInv, NEW r \in Requests, NEW u \in Holders, NEW o \in Orgs,
           NEW on \in BOOLEAN, F!PolicyReads(r, u, o, on)
    PROVE  FactorInv'
  <1> DEFINE others == {"disabling", "turning off"}
  <1>1. /\ u \in Managers[o] /\ (on => u \in enabled)
        /\ UNCHANGED <<secret, enabled, app, codes, made, accepted, requireMfa>>
        /\ F!Start(r, "deciding", u, o, 0, on, "policy", others)
    BY DEF F!PolicyReads
  <1> HIDE DEF others
  <1>2. /\ JobBecomes(r, "deciding", u, o, 0, on) /\ job[r].at = "idle"
        /\ crossed \subseteq crossed' /\ crossed' \subseteq crossed \cup {"policy"}
        /\ \/ "policy" \in crossed'
           \/ \A q \in Requests \ {r} : job[q].at \notin others
    <2>1. "deciding" \in Stages /\ 0 \in Nat
      BY DEF Stages
    <2>2. job \in [Requests -> F!Job]
      BY FactorTypes
    <2> QED
      BY <1>1, <2>1, <2>2, StartGives
  <1>3. F!TypeOK' /\ CodesAreFresh' /\ F!EnabledSecretProven' /\ F!CodeOnce' /\ F!PolicyReversible'
    BY <1>1, <1>2, FactorTypes, JobsOnly DEF JobBecomes
  <1>4. JobInHand'
    BY <1>1, <1>2 DEF FactorInv, JobInHand, Does, JobBecomes, others
  <1>5. OneEnrols'
    BY <1>1, <1>2, EnrolsOnStart DEF others
  <1>6. OneDecides'
    BY <1>1, <1>2 DEF FactorInv, OneDecides, Does, JobBecomes, others
  <1> QED
    BY <1>3, <1>4, <1>5, <1>6 DEF FactorInv

\* The secret that changes is of somebody whose factor is off.
LEMMA BeginWritesKeeps ==
    ASSUME FactorInv, NEW r \in Requests, F!BeginWrites(r) PROVE FactorInv'
  <1> DEFINE u == job[r].user
  <1>1. /\ job[r].at = "beginning" /\ u \in Holders /\ made.secrets < MaxSecrets
        /\ secret' = [secret EXCEPT ![u] = made.secrets + 1]
        /\ made' = [made EXCEPT !.secrets = made.secrets + 1]
        /\ UNCHANGED <<enabled, app, codes, accepted, requireMfa, crossed>>
    BY DEF F!BeginWrites, FactorInv, JobInHand, Does
  <1>2. JobRests(r)
    BY FactorTypes, DoneGives DEF F!BeginWrites
  <1>3. made.secrets + 1 \in 0..MaxSecrets
    BY <1>1, FactorTypes
  <1>4. made' \in [secrets : 0..MaxSecrets, codes : 0..MaxCodes] /\ made'.codes = made.codes
    BY <1>1, <1>3, FactorTypes
  <1>5. F!TypeOK'
    BY <1>1, <1>2, <1>3, <1>4, FactorTypes DEF F!TypeOK, JobRests, JobBecomes
  <1>6. JobInHand'
    BY <1>1, <1>2 DEF FactorInv, JobInHand, Does, JobRests, JobBecomes
  <1>7. OneEnrols'
    BY <1>1, <1>2, FactorTypes, ZenonT(40) DEF FactorInv, OneEnrols, EnrolsAlone, Enrols, Does, JobRests, JobBecomes
  <1>8. CodesAreFresh' /\ F!CodeOnce'
    BY <1>1, <1>4 DEF FactorInv, CodesAreFresh, F!CodeOnce
  <1>9. OneDecides'
    BY <1>1, <1>2 DEF FactorInv, OneDecides, Does, JobRests, JobBecomes
  <1>10. F!EnabledSecretProven'
    BY <1>1, FactorTypes, ZenonT(40) DEF FactorInv, F!EnabledSecretProven, OneEnrols, EnrolsAlone, Enrols, Does
  <1>11. F!PolicyReversible'
    BY <1>1 DEF FactorInv, F!PolicyReversible, F!Closed
  <1> QED
    BY <1>5, <1>6, <1>7, <1>8, <1>9, <1>10, <1>11 DEF FactorInv

\* The codes that are made let nobody through before.
LEMMA FreshCodesGives ==
    ASSUME FactorInv, NEW u \in Holders, F!FreshCodes(u, 1), UNCHANGED accepted
    PROVE  /\ codes' \in [Holders -> SUBSET (1..MaxCodes)]
           /\ made' \in [secrets : 0..MaxSecrets, codes : 0..MaxCodes]
           /\ CodesAreFresh' /\ F!CodeOnce'
  <1>1. /\ made.codes + 1 \in 1..MaxCodes /\ made.codes \in Nat
        /\ codes' = [codes EXCEPT ![u] = (made.codes + 1)..(made.codes + 1)]
        /\ made' = [made EXCEPT !.codes = made.codes + 1]
    BY FactorTypes DEF F!FreshCodes
  <1>2. (made.codes + 1)..(made.codes + 1) = {made.codes + 1}
    BY <1>1
  <1>3. /\ codes' \in [Holders -> SUBSET (1..MaxCodes)] /\ codes'[u] = {made.codes + 1}
        /\ \A v \in Holders \ {u} : codes'[v] = codes[v]
    <2>1. {made.codes + 1} \in SUBSET (1..MaxCodes)
      BY <1>1
    <2>2. codes \in [Holders -> SUBSET (1..MaxCodes)]
      BY FactorTypes
    <2>3. codes' = [codes EXCEPT ![u] = {made.codes + 1}]
      BY <1>1, <1>2
    <2> QED
      BY <2>1, <2>2, <2>3
  <1>4. made' \in [secrets : 0..MaxSecrets, codes : 0..MaxCodes] /\ made'.codes = made.codes + 1
    <2>1. made \in [secrets : 0..MaxSecrets, codes : 0..MaxCodes] /\ made.codes + 1 \in 0..MaxCodes
      BY <1>1, FactorTypes
    <2> QED
      BY <1>1, <2>1
  <1>5. CodesAreFresh'
    <2>1. \A v \in Holders : codes[v] \subseteq Nat
      BY FactorTypes
    <2> QED
      BY <1>1, <1>3, <1>4, <2>1, FactorTypes, SMTT(30) DEF FactorInv, CodesAreFresh
  <1>6. F!CodeOnce'
    BY DEF FactorInv, F!CodeOnce
  <1> QED
    BY <1>3, <1>4, <1>5, <1>6

LEMMA ActivateCommitsKeeps ==
    ASSUME FactorInv, NEW r \in Requests, F!ActivateCommits(r) PROVE FactorInv'
  <1> DEFINE u == job[r].user
  <1>1. /\ job[r].at = "activating" /\ u \in Holders /\ job[r].seen \in 0..MaxSecrets
        /\ enabled' = enabled \cup {u} /\ app' = [app EXCEPT ![u] = job[r].seen]
        /\ UNCHANGED <<secret, accepted, requireMfa, crossed>> /\ F!FreshCodes(u, 1)
    BY DEF F!ActivateCommits, FactorInv, JobInHand, Does
  <1>2. JobRests(r)
    BY FactorTypes, DoneGives DEF F!ActivateCommits
  <1>3. /\ codes' \in [Holders -> SUBSET (1..MaxCodes)]
        /\ made' \in [secrets : 0..MaxSecrets, codes : 0..MaxCodes]
        /\ CodesAreFresh' /\ F!CodeOnce'
    BY <1>1, FreshCodesGives
  <1>4. F!TypeOK'
    BY <1>1, <1>2, <1>3, FactorTypes DEF F!TypeOK, JobRests, JobBecomes
  <1>5. JobInHand'
    BY <1>1, <1>2 DEF FactorInv, JobInHand, Does, JobRests, JobBecomes
  <1>6. OneEnrols'
    BY <1>1, <1>2 DEF FactorInv, OneEnrols, EnrolsAlone, Enrols, Does, JobRests, JobBecomes
  <1>7. OneDecides'
    BY <1>1, <1>2 DEF FactorInv, OneDecides, Does, JobRests, JobBecomes
  <1>8. F!EnabledSecretProven'
    <2>1. "enrolment" \notin crossed => secret[u] # 0 /\ secret[u] = job[r].seen
      BY <1>1 DEF FactorInv, OneEnrols, EnrolsAlone, Enrols, Does
    <2>2. app'[u] = job[r].seen /\ \A v \in Holders \ {u} : app'[v] = app[v]
      BY <1>1, FactorTypes
    <2>3. enabled \subseteq Holders
      BY FactorTypes
    <2> QED
      BY <1>1, <2>1, <2>2, <2>3 DEF FactorInv, F!EnabledSecretProven
  <1>9. F!PolicyReversible'
    BY <1>1 DEF FactorInv, F!PolicyReversible, F!Closed
  <1> QED
    BY <1>3, <1>4, <1>5, <1>6, <1>7, <1>8, <1>9 DEF FactorInv

LEMMA EnrolsOnRest ==
    ASSUME FactorInv, UNCHANGED <<secret, enabled, crossed>>, NEW r \in Requests, JobRests(r)
    PROVE  OneEnrols'
  <1>1. JobBecomes(r, "idle", "none", "none", 0, FALSE)
    BY DEF JobRests
  <1> SUFFICES ASSUME "enrolment" \notin crossed', NEW p \in Requests, Enrols(p)'
               PROVE  EnrolsAlone(p)'
    BY DEF OneEnrols
  <1>2. p # r /\ job'[p] = job[p] /\ Enrols(p)
    BY <1>1 DEF Enrols, Does, JobBecomes
  <1>3. EnrolsAlone(p)
    BY <1>2 DEF FactorInv, OneEnrols
  <1> QED
    BY <1>1, <1>2, <1>3 DEF EnrolsAlone, Enrols, Does, JobBecomes

LEMMA RenewCommitsKeeps ==
    ASSUME FactorInv, NEW r \in Requests, F!RenewCommits(r) PROVE FactorInv'
  <1> DEFINE u == job[r].user
  <1>1. /\ job[r].at = "issuing" /\ u \in Holders /\ F!FreshCodes(u, 1)
        /\ UNCHANGED <<secret, enabled, app, accepted, requireMfa, crossed>>
    BY DEF F!RenewCommits, FactorInv, JobInHand, Does
  <1>2. JobRests(r)
    BY FactorTypes, DoneGives DEF F!RenewCommits
  <1>3. /\ codes' \in [Holders -> SUBSET (1..MaxCodes)]
        /\ made' \in [secrets : 0..MaxSecrets, codes : 0..MaxCodes]
        /\ CodesAreFresh' /\ F!CodeOnce'
    BY <1>1, FreshCodesGives
  <1>4. F!TypeOK'
    BY <1>1, <1>2, <1>3, FactorTypes DEF F!TypeOK, JobRests, JobBecomes
  <1>5. JobInHand'
    BY <1>1, <1>2 DEF FactorInv, JobInHand, Does, JobRests, JobBecomes
  <1>6. OneEnrols'
    BY <1>1, <1>2, EnrolsOnRest
  <1>7. OneDecides'
    BY <1>1, <1>2 DEF FactorInv, OneDecides, Does, JobRests, JobBecomes
  <1>8. F!EnabledSecretProven' /\ F!PolicyReversible'
    BY <1>1 DEF FactorInv, F!EnabledSecretProven, F!PolicyReversible, F!Closed
  <1> QED
    BY <1>3, <1>4, <1>5, <1>6, <1>7, <1>8 DEF FactorInv

\* A code that is accepted had let nobody through, and is stored no more.
LEMMA AcceptGives ==
    ASSUME FactorInv, NEW r \in Requests, job[r].at # "idle", NEW next, F!Accept(r, next),
           UNCHANGED made
    PROVE  /\ codes' \in [Holders -> SUBSET (1..MaxCodes)] /\ accepted' \in [1..MaxCodes -> Nat]
           /\ CodesAreFresh' /\ F!CodeOnce'
  <1> DEFINE u == job[r].user
             c == job[r].seen
  <1>1. /\ u \in Holders /\ (c = 0 \/ c \in codes[u])
        /\ codes' = [codes EXCEPT ![u] = codes[u] \ {c}]
        /\ accepted' = [d \in DOMAIN accepted |-> accepted[d] + IF d = c THEN 1 ELSE 0]
    BY DEF F!Accept, F!CodeUnused, FactorInv, JobInHand, Does
  <1>2. codes \in [Holders -> SUBSET (1..MaxCodes)] /\ accepted \in [1..MaxCodes -> Nat]
    BY FactorTypes
  <1>3. made.codes \in 0..MaxCodes /\ MaxCodes \in Nat
    BY FactorTypes
  <1> HIDE DEF c, u
  <1>4. /\ codes' \in [Holders -> SUBSET (1..MaxCodes)] /\ codes'[u] = codes[u] \ {c}
        /\ \A v \in Holders \ {u} : codes'[v] = codes[v]
    BY <1>1, <1>2
  <1>5. /\ accepted' \in [1..MaxCodes -> Nat]
        /\ \A d \in 1..MaxCodes : accepted'[d] = IF d = c THEN accepted[d] + 1 ELSE accepted[d]
    BY <1>1, <1>2
  <1>6. c \in 1..MaxCodes => accepted[c] = 0 /\ c <= made.codes
    BY <1>1, <1>2 DEF FactorInv, CodesAreFresh
  <1>7. \A v \in Holders : c \in codes[v] => v = u
    BY <1>1, <1>2 DEF FactorInv, CodesAreFresh
  <1>8. CodesAreFresh'
    <2>1. ASSUME NEW v \in Holders, NEW d \in codes'[v]
          PROVE  /\ d <= made.codes /\ accepted'[d] = 0
                 /\ \A w \in Holders : d \in codes'[w] => w = v
      <3>1. d \in codes[v] /\ d # c /\ d \in 1..MaxCodes
        BY <1>2, <1>4, <1>7, <2>1
      <3>2. d <= made.codes /\ accepted[d] = 0 /\ \A w \in Holders : d \in codes[w] => w = v
        BY <3>1 DEF FactorInv, CodesAreFresh
      <3> QED
        BY <1>4, <1>5, <3>1, <3>2
    <2>2. ASSUME NEW d \in 1..MaxCodes, d > made.codes PROVE accepted'[d] = 0
      BY <1>2, <1>3, <1>5, <1>6, <2>2 DEF FactorInv, CodesAreFresh
    <2> QED
      BY <1>5, <2>1, <2>2 DEF CodesAreFresh
  <1>9. F!CodeOnce'
    BY <1>2, <1>5, <1>6 DEF FactorInv, F!CodeOnce
  <1> QED
    BY <1>4, <1>5, <1>8, <1>9

LEMMA SignInVerifiesKeeps ==
    ASSUME FactorInv, NEW r \in Requests, F!SignInVerifies(r) PROVE FactorInv'
  <1>1. /\ job[r].at = "signing in" /\ F!Accept(r, F!Waiting) /\ F!Done(r)
        /\ UNCHANGED <<secret, enabled, app, made, requireMfa, crossed>>
    BY DEF F!SignInVerifies, F!Accept, F!Done
  <1>2. JobRests(r)
    BY <1>1, FactorTypes, DoneGives
  <1>3. /\ codes' \in [Holders -> SUBSET (1..MaxCodes)] /\ accepted' \in [1..MaxCodes -> Nat]
        /\ CodesAreFresh' /\ F!CodeOnce'
    BY <1>1, AcceptGives
  <1>4. F!TypeOK'
    BY <1>1, <1>2, <1>3, FactorTypes DEF F!TypeOK, JobRests, JobBecomes
  <1>5. JobInHand'
    BY <1>1, <1>2 DEF FactorInv, JobInHand, Does, JobRests, JobBecomes
  <1>6. OneEnrols'
    BY <1>1, <1>2, EnrolsOnRest
  <1>7. OneDecides'
    BY <1>1, <1>2 DEF FactorInv, OneDecides, Does, JobRests, JobBecomes
  <1>8. F!EnabledSecretProven' /\ F!PolicyReversible'
    BY <1>1 DEF FactorInv, F!EnabledSecretProven, F!PolicyReversible, F!Closed
  <1> QED
    BY <1>3, <1>4, <1>5, <1>6, <1>7, <1>8 DEF FactorInv

\* Whoever turns their factor off has it on, so they are not who enrols.
LEMMA ChangeVerifiesKeeps ==
    ASSUME FactorInv, NEW r \in Requests, F!ChangeVerifies(r) PROVE FactorInv'
  <1> DEFINE at == IF job[r].at = "disabling" THEN "turning off" ELSE "issuing"
             z == [job[r] EXCEPT !.at = at]
  <1>1. /\ job[r].at \in {"disabling", "renewing"} /\ F!Accept(r, z)
        /\ UNCHANGED <<secret, enabled, app, made, requireMfa, crossed>>
    BY DEF F!ChangeVerifies
  <1>2. job[r] \in F!Job /\ job \in [Requests -> F!Job]
    BY FactorTypes
  <1>3. at \in {"idle", "beginning", "activating", "signing in", "disabling", "renewing",
                "turning off", "issuing", "deciding"}
    OBVIOUS
  <1> HIDE DEF at
  <1>4. z \in F!Job
    BY <1>2, <1>3, Zenon DEF F!Job
  <1>5. z.at = at /\ z.user = job[r].user /\ z.org = job[r].org
    BY <1>2 DEF F!Job
  <1>6. job' = [job EXCEPT ![r] = z] /\ job[r].user \in enabled
    BY <1>1 DEF F!Accept
  <1> HIDE DEF z
  <1>7. /\ job' \in [Requests -> F!Job] /\ \A q \in Requests \ {r} : job'[q] = job[q]
        /\ job'[r].at = at /\ job'[r].user = job[r].user /\ job'[r].org = job[r].org
    BY <1>2, <1>4, <1>5, <1>6
  <1>8. /\ at = "turning off" => job[r].at = "disabling"
        /\ at \in {"turning off", "issuing"}
    BY DEF at
  <1>9. /\ codes' \in [Holders -> SUBSET (1..MaxCodes)] /\ accepted' \in [1..MaxCodes -> Nat]
        /\ CodesAreFresh' /\ F!CodeOnce'
    BY <1>1, AcceptGives
  <1>10. F!TypeOK'
    BY <1>1, <1>7, <1>9, FactorTypes DEF F!TypeOK
  <1>11. JobInHand'
    BY <1>1, <1>7, <1>8 DEF FactorInv, JobInHand, Does
  <1>12. OneEnrols'
    <2> SUFFICES ASSUME "enrolment" \notin crossed', NEW p \in Requests, Enrols(p)'
                 PROVE  EnrolsAlone(p)'
      BY DEF OneEnrols
    <2>1. p # r /\ job'[p] = job[p] /\ Enrols(p)
      BY <1>7, <1>8 DEF Enrols, Does
    <2>2. EnrolsAlone(p)
      BY <1>1, <2>1 DEF FactorInv, OneEnrols
    <2> QED
      BY <1>1, <1>6, <1>7, <1>8, <2>1, <2>2 DEF EnrolsAlone, Enrols, Does
  <1>13. OneDecides'
    BY <1>1, <1>7, <1>8 DEF FactorInv, OneDecides, Does
  <1>14. F!EnabledSecretProven' /\ F!PolicyReversible'
    BY <1>1 DEF FactorInv, F!EnabledSecretProven, F!PolicyReversible, F!Closed
  <1> QED
    BY <1>9, <1>10, <1>11, <1>12, <1>13, <1>14 DEF FactorInv

\* Who turns their factor off manages none of the closed organizations that
\* require it: the one they act for does not.
LEMMA DisableCommitsKeeps ==
    ASSUME FactorInv, NEW r \in Requests, F!DisableCommits(r) PROVE FactorInv'
  <1> DEFINE u == job[r].user
  <1>1. /\ job[r].at = "turning off" /\ u \in Holders
        /\ job[r].org \in Orgs /\ u \in Members[job[r].org]
        /\ secret' = [secret EXCEPT ![u] = 0] /\ enabled' = enabled \ {u}
        /\ app' = [app EXCEPT ![u] = 0] /\ codes' = [codes EXCEPT ![u] = {}]
        /\ UNCHANGED <<made, accepted, requireMfa, crossed>>
    BY DEF F!DisableCommits, FactorInv, JobInHand, Does
  <1>2. JobRests(r)
    BY FactorTypes, DoneGives DEF F!DisableCommits
  <1>3. F!TypeOK'
    <2>1. codes' \in [Holders -> SUBSET (1..MaxCodes)]
      <3>1. {} \in SUBSET (1..MaxCodes) /\ codes \in [Holders -> SUBSET (1..MaxCodes)]
        BY FactorTypes
      <3> QED
        BY <1>1, <3>1
    <2>2. secret' \in [Holders -> 0..MaxSecrets] /\ app' \in [Holders -> 0..MaxSecrets]
      <3>1. 0 \in 0..MaxSecrets /\ secret \in [Holders -> 0..MaxSecrets]
            /\ app \in [Holders -> 0..MaxSecrets]
        BY FactorTypes
      <3> QED
        BY <1>1, <3>1
    <2> QED
      BY <1>1, <1>2, <2>1, <2>2, FactorTypes DEF F!TypeOK, JobRests, JobBecomes
  <1>4. JobInHand'
    BY <1>1, <1>2 DEF FactorInv, JobInHand, Does, JobRests, JobBecomes
  <1>5. OneEnrols'
    <2> SUFFICES ASSUME "enrolment" \notin crossed', NEW p \in Requests, Enrols(p)'
                 PROVE  EnrolsAlone(p)'
      BY DEF OneEnrols
    <2>1. p # r /\ job'[p] = job[p] /\ Enrols(p)
      BY <1>2 DEF Enrols, Does, JobRests, JobBecomes
    <2>2. EnrolsAlone(p)
      BY <1>1, <2>1 DEF FactorInv, OneEnrols
    <2>3. job[p].user \in Holders /\ job[p].user # u
      BY <1>1, <2>1, <2>2 DEF FactorInv, JobInHand, Enrols, EnrolsAlone, Does
    <2>4. secret'[job[p].user] = secret[job[p].user]
      BY <1>1, <2>3, FactorTypes
    <2> QED
      BY <1>1, <1>2, <2>1, <2>2, <2>4 DEF EnrolsAlone, Enrols, Does, JobRests, JobBecomes
  <1>6. CodesAreFresh' /\ F!CodeOnce'
    <2>1. \A v \in Holders : codes'[v] \subseteq codes[v]
      BY <1>1, FactorTypes
    <2> QED
      BY <1>1, <2>1, ZenonT(40) DEF FactorInv, CodesAreFresh, F!CodeOnce
  <1>7. OneDecides'
    BY <1>1, <1>2 DEF FactorInv, OneDecides, Does, JobRests, JobBecomes
  <1>8. F!EnabledSecretProven'
    BY <1>1, FactorTypes DEF FactorInv, F!EnabledSecretProven
  <1>9. F!PolicyReversible'
    <2> SUFFICES ASSUME "policy" \notin crossed, NEW o \in requireMfa, F!Closed(o)
                 PROVE  Managers[o] \cap enabled' # {}
      BY <1>1 DEF F!PolicyReversible, F!Closed
    <2>1. Managers[o] \cap enabled # {}
      BY DEF FactorInv, F!PolicyReversible
    <2>2. job[r].org \notin requireMfa
      BY <1>1 DEF FactorInv, OneDecides, Does
    <2>3. u \notin Managers[o]
      BY <1>1, <2>2 DEF F!Closed
    <2> QED
      BY <1>1, <2>1, <2>3
  <1> QED
    BY <1>3, <1>4, <1>5, <1>6, <1>7, <1>8, <1>9 DEF FactorInv

LEMMA PolicyWritesKeeps ==
    ASSUME FactorInv, NEW r \in Requests, F!PolicyWrites(r) PROVE FactorInv'
  <1>1. /\ job[r].at = "deciding" /\ job[r].org \in Orgs /\ job[r].user \in Managers[job[r].org]
        /\ requireMfa' = IF job[r].on THEN requireMfa \cup {job[r].org} ELSE requireMfa \ {job[r].org}
        /\ UNCHANGED <<secret, enabled, app, codes, made, accepted, crossed>>
    BY DEF F!PolicyWrites, FactorInv, JobInHand, Does
  <1>2. JobRests(r)
    BY FactorTypes, DoneGives DEF F!PolicyWrites
  <1>3. F!TypeOK'
    BY <1>1, <1>2, FactorTypes DEF F!TypeOK, JobRests, JobBecomes
  <1>4. JobInHand'
    BY <1>1, <1>2 DEF FactorInv, JobInHand, Does, JobRests, JobBecomes
  <1>5. OneEnrols'
    BY <1>1, <1>2, EnrolsOnRest
  <1>6. CodesAreFresh' /\ F!CodeOnce' /\ F!EnabledSecretProven'
    BY <1>1 DEF FactorInv, CodesAreFresh, F!CodeOnce, F!EnabledSecretProven
  <1>7. OneDecides'
    <2>1. "policy" \notin crossed =>
            \A q \in Requests : job[q].at \notin {"disabling", "turning off"}
      BY <1>1 DEF FactorInv, OneDecides, Does
    <2> QED
      BY <1>1, <1>2, <2>1 DEF FactorInv, OneDecides, Does, JobRests, JobBecomes
  <1>8. F!PolicyReversible'
    <2>1. "policy" \notin crossed /\ job[r].on => job[r].user \in enabled
      BY <1>1 DEF FactorInv, OneDecides, Does
    <2> QED
      BY <1>1, <2>1 DEF FactorInv, F!PolicyReversible, F!Closed
  <1> QED
    BY <1>3, <1>4, <1>5, <1>6, <1>7, <1>8 DEF FactorInv

LEMMA BreaksKeeps == ASSUME FactorInv, NEW r \in Requests, F!Breaks(r) PROVE FactorInv'
  <1>1. UNCHANGED <<secret, enabled, app, codes, made, accepted, requireMfa, crossed>>
    BY DEF F!Breaks
  <1>2. JobRests(r)
    BY FactorTypes, DoneGives DEF F!Breaks
  <1>3. F!TypeOK' /\ CodesAreFresh' /\ F!EnabledSecretProven' /\ F!CodeOnce' /\ F!PolicyReversible'
    BY <1>1, <1>2, FactorTypes, JobsOnly DEF JobRests, JobBecomes
  <1>4. JobInHand'
    BY <1>1, <1>2 DEF FactorInv, JobInHand, Does, JobRests, JobBecomes
  <1>5. OneEnrols'
    BY <1>1, <1>2, EnrolsOnRest
  <1>6. OneDecides'
    BY <1>1, <1>2 DEF FactorInv, OneDecides, Does, JobRests, JobBecomes
  <1> QED
    BY <1>3, <1>4, <1>5, <1>6 DEF FactorInv

LEMMA FactorInvInit == F!Init => FactorInv
  <1> SUFFICES ASSUME F!Init PROVE FactorInv
    OBVIOUS
  <1> USE PeopleAssumption DEF F!Init
  <1>1. "idle" \in Stages /\ 0 \in Nat
    BY DEF Stages
  <1>2. F!Waiting \in F!Job /\ F!Waiting.at = "idle"
    <2>1. FALSE \in BOOLEAN
      OBVIOUS
    <2>2. F!Waiting \in F!Job
      BY <1>1, <2>1, JobRecord, Zenon DEF F!Waiting
    <2> QED
      BY <2>2 DEF F!Waiting
  <1>3. job \in [Requests -> F!Job] /\ \A r \in Requests : job[r].at = "idle"
    BY <1>2
  <1>4. F!TypeOK
    BY <1>3 DEF F!TypeOK
  <1>5. JobInHand /\ OneEnrols /\ OneDecides
    BY <1>3 DEF JobInHand, OneEnrols, Enrols, OneDecides, Does
  <1>6. CodesAreFresh /\ F!EnabledSecretProven /\ F!CodeOnce /\ F!PolicyReversible
    BY DEF CodesAreFresh, F!EnabledSecretProven, F!CodeOnce, F!PolicyReversible
  <1> QED
    BY <1>4, <1>5, <1>6 DEF FactorInv

LEMMA FactorInvStep == ASSUME FactorInv, [F!Next]_factor PROVE FactorInv'
  <1>1. CASE F!Next
    BY <1>1, BeginReadsKeeps, ActivateReadsKeeps, VerifyReadsKeeps, DisableReadsKeeps,
       PolicyReadsKeeps, BeginWritesKeeps, ActivateCommitsKeeps, SignInVerifiesKeeps,
       ChangeVerifiesKeeps, DisableCommitsKeeps, RenewCommitsKeeps, PolicyWritesKeeps,
       BreaksKeeps DEF F!Next
  <1>2. CASE UNCHANGED factor
    <2> USE <1>2 DEF factor, FactorInv
    <2>1. F!TypeOK' /\ JobInHand'
      BY DEF F!TypeOK, JobInHand, Does
    <2>2. OneEnrols' /\ OneDecides'
      BY DEF OneEnrols, EnrolsAlone, Enrols, OneDecides, Does
    <2>3. CodesAreFresh' /\ F!EnabledSecretProven' /\ F!CodeOnce' /\ F!PolicyReversible'
      BY DEF CodesAreFresh, F!EnabledSecretProven, F!CodeOnce, F!PolicyReversible, F!Closed
    <2> QED
      BY <2>1, <2>2, <2>3
  <1> QED
    BY <1>1, <1>2

-----------------------------------------------------------------------------
(* SupportAccess: the invariant.                                            *)

Visit == [admin : Admins, customer : Customers, logged : BOOLEAN, open : BOOLEAN]
Call == [at : A!Starting \cup {"idle", "switching", "ending", "answering"},
         admin : Admins \cup {"none"}, customer : Customers \cup {"none"}, visit : 0..MaxSessions]

Calling(r, places) == call[r].at \in places
Starts(r) == Calling(r, A!Starting)

\* A start that has not created its session.
Early(r) == Calling(r, {"starting", "ended"})

\* A start that has ended the sessions its admin had, and may have its own.
Late(r) == Calling(r, {"ended", "created", "audited"})

\* What a request has in hand.
Hand(r) ==
    /\ Starts(r) => call[r].admin \in Admins /\ call[r].customer \in Customers
    /\ Calling(r, {"switching"}) => call[r].customer \in Customers /\ call[r].admin = "none"
    /\ Calling(r, {"starting", "ended"}) => call[r].visit = 0
    /\ Calling(r, {"created", "audited", "ending", "answering"}) =>
          /\ call[r].admin \in Admins /\ call[r].visit \in DOMAIN visits
          /\ visits[call[r].visit].admin = call[r].admin
    /\ Calling(r, {"audited"}) => visits[call[r].visit].logged
CallInHand == \A r \in Requests : Hand(r)

\* As long as no admin started two sessions at one time, none has two open, what
\* they have open is accounted for, and once a start has ended their sessions
\* it has its own alone.
Named(a, v) == v = cookie[a] \/ v \in strayed \/ A!Announced(v)
StartsAlone(r) ==
    /\ \A q \in Requests : Starts(q) /\ call[q].admin = call[r].admin => q = r
    /\ Late(r) => A!Open(call[r].admin) \subseteq {call[r].visit}
OneStarts ==
    "start" \notin met =>
        /\ \A a \in Admins : \A v, w \in A!Open(a) : v = w
        /\ \A a \in Admins : \A v \in A!Open(a) : Named(a, v)
        /\ \A r \in Requests : Starts(r) => StartsAlone(r)

\* As long as nothing overlapped with a customer's switch, sessions are started
\* where they are allowed.
StartsWhereAllowed ==
    "switch" \notin met => \A r \in Requests : Early(r) => call[r].customer \in allow

SupportInv ==
    /\ A!TypeOK /\ visits \in Seq(Visit) /\ cookie \in [Admins -> Nat]
    /\ CallInHand /\ OneStarts /\ StartsWhereAllowed /\ A!LoggedFirst /\ A!SwitchedOffIsOut

-----------------------------------------------------------------------------
(* SupportAccess: the steps.                                                *)

\* The sessions in X are closed; all keep their admin and customer, and stay on
\* the log.
Shuts(X) ==
    /\ visits' \in Seq(Visit) /\ Len(visits') = Len(visits) /\ DOMAIN visits' = DOMAIN visits
    /\ \A v \in DOMAIN visits :
          /\ visits'[v].admin = visits[v].admin /\ visits'[v].customer = visits[v].customer
          /\ visits[v].logged => visits'[v].logged
          /\ visits'[v].open <=> visits[v].open /\ v \notin X

LEMMA ClosedVisit ==
    ASSUME NEW x \in Visit
    PROVE  /\ [x EXCEPT !.open = FALSE] \in Visit /\ ~[x EXCEPT !.open = FALSE].open
           /\ [x EXCEPT !.open = FALSE].admin = x.admin
           /\ [x EXCEPT !.open = FALSE].customer = x.customer
           /\ [x EXCEPT !.open = FALSE].logged = x.logged
  BY DEF Visit

LEMMA ShutsGiven ==
    ASSUME visits \in Seq(Visit), NEW X, DOMAIN visits' = DOMAIN visits,
           visits' = [v \in DOMAIN visits |-> visits'[v]],
           \A v \in DOMAIN visits :
               visits'[v] = IF v \in X THEN [visits[v] EXCEPT !.open = FALSE] ELSE visits[v]
    PROVE  Shuts(X)
  <1>1. \A v \in DOMAIN visits : visits[v] \in Visit
    OBVIOUS
  <1>2. ASSUME NEW v \in DOMAIN visits
        PROVE  /\ visits'[v] \in Visit
               /\ visits'[v].admin = visits[v].admin /\ visits'[v].customer = visits[v].customer
               /\ visits[v].logged => visits'[v].logged
               /\ visits'[v].open <=> visits[v].open /\ v \notin X
    <2>1. visits[v] \in Visit
      BY <1>1
    <2>2. CASE v \in X
      <3> DEFINE z == [visits[v] EXCEPT !.open = FALSE]
      <3>1. visits'[v] = z
        BY <2>2
      <3>2. z \in Visit /\ ~z.open /\ z.admin = visits[v].admin /\ z.customer = visits[v].customer
            /\ z.logged = visits[v].logged
        BY <2>1, ClosedVisit, Zenon
      <3> HIDE DEF z
      <3> QED
        BY <2>2, <3>1, <3>2
    <2>3. CASE v \notin X
      BY <2>1, <2>3
    <2> QED
      BY <2>2, <2>3
  <1>3. visits' \in Seq(Visit) /\ Len(visits') = Len(visits)
    BY <1>2, Replaced
  <1> QED
    BY <1>2, <1>3 DEF Shuts

LEMMA ShutsNone == ASSUME visits \in Seq(Visit), UNCHANGED visits PROVE Shuts({})
  BY DEF Shuts

CallBecomes(r, at, a, c, n) ==
    /\ call' \in [Requests -> Call]
    /\ \A q \in Requests \ {r} : call'[q] = call[q]
    /\ call'[r].at = at /\ call'[r].admin = a /\ call'[r].customer = c /\ call'[r].visit = n

CallRests(r) == CallBecomes(r, "idle", "none", "none", 0)

LEMMA CallGiven ==
    ASSUME call \in [Requests -> Call], NEW r \in Requests,
           NEW at \in A!Starting \cup {"idle", "switching", "ending", "answering"},
           NEW a \in Admins \cup {"none"}, NEW c \in Customers \cup {"none"}, NEW n \in 0..MaxSessions,
           call' = [call EXCEPT ![r] = [at |-> at, admin |-> a, customer |-> c, visit |-> n]]
    PROVE  CallBecomes(r, at, a, c, n)
  BY DEF CallBecomes, Call

LEMMA CallMoves ==
    ASSUME call \in [Requests -> Call], NEW r \in Requests,
           NEW at \in A!Starting \cup {"idle", "switching", "ending", "answering"},
           call' = [call EXCEPT ![r].at = at]
    PROVE  CallBecomes(r, at, call[r].admin, call[r].customer, call[r].visit)
  <1> DEFINE z == [call[r] EXCEPT !.at = at]
  <1>1. call[r] \in Call
    OBVIOUS
  <1>2. z \in Call /\ z.at = at /\ z.admin = call[r].admin /\ z.customer = call[r].customer
        /\ z.visit = call[r].visit
    BY <1>1 DEF Call
  <1>3. call' = [call EXCEPT ![r] = z]
    OBVIOUS
  <1> HIDE DEF z
  <1> QED
    BY <1>2, <1>3 DEF CallBecomes

LEMMA CallRestsGiven ==
    ASSUME call \in [Requests -> Call], NEW r \in Requests, call' = [call EXCEPT ![r] = A!Resting]
    PROVE  CallRests(r)
  <1>1. call' = [call EXCEPT ![r] = [at |-> "idle", admin |-> "none", customer |-> "none", visit |-> 0]]
    BY DEF A!Resting
  <1>2. 0 \in 0..MaxSessions
    BY PeopleAssumption
  <1> QED
    BY <1>1, <1>2, CallGiven DEF CallRests

LEMMA SupportTypes ==
    ASSUME SupportInv
    PROVE  /\ call \in [Requests -> Call] /\ visits \in Seq(Visit) /\ cookie \in [Admins -> Nat]
           /\ allow \subseteq Customers /\ met \subseteq {"start", "switch"} /\ strayed \subseteq DOMAIN visits
           /\ Len(visits) \in Nat /\ Len(visits) <= MaxSessions /\ DOMAIN visits = 1..Len(visits)
           /\ \A v \in DOMAIN visits : visits[v] \in Visit
           /\ \A a \in Admins : cookie[a] # 0 =>
                 cookie[a] \in DOMAIN visits /\ visits[cookie[a]].admin = a /\ visits[cookie[a]].logged
  <1>1. visits \in Seq(Visit) /\ A!TypeOK /\ cookie \in [Admins -> Nat] /\ A!LoggedFirst
    BY DEF SupportInv
  <1>2. Len(visits) \in Nat /\ DOMAIN visits = 1..Len(visits)
    BY <1>1, LenProperties
  <1> QED
    BY <1>1, <1>2 DEF A!TypeOK, A!LoggedFirst, Call, Visit

\* What the types ask of a step, with Visit and Call for the sets they name.
LEMMA SupportTyped ==
    ASSUME allow' \subseteq Customers, met' \subseteq {"start", "switch"}, strayed' \subseteq DOMAIN visits',
           visits' \in Seq(Visit), Len(visits') <= MaxSessions, call' \in [Requests -> Call],
           \A a \in Admins : cookie'[a] # 0 =>
               cookie'[a] \in DOMAIN visits' /\ visits'[cookie'[a]].admin = a
    PROVE  A!TypeOK'
  <1>1. \A v \in DOMAIN visits' : visits'[v] \in Visit
    OBVIOUS
  <1> QED
    BY <1>1 DEF A!TypeOK, Visit, Call

\* What an admin has open once the sessions in X are closed.
LEMMA ShutsOpen == ASSUME NEW X, Shuts(X) PROVE \A a \in Admins : A!Open(a)' = A!Open(a) \ X
  BY DEF Shuts, A!Open

\* A request that goes on as it was has in hand what it had.
LEMMA HandKept ==
    ASSUME NEW X, Shuts(X), NEW q \in Requests, Hand(q), call'[q] = call[q] PROVE Hand(q)'
  BY DEF Shuts, Hand, Starts, Calling

\* A start that goes on: what it knows of its admin's sessions still holds.
GoesOn(q) ==
    Starts(q)' =>
        /\ Starts(q) /\ call'[q].admin = call[q].admin /\ call'[q].customer = call[q].customer
        /\ Early(q)' => Early(q)
        /\ Late(q)' => \/ A!Open(call[q].admin)' = {}
                       \/ Late(q) /\ call'[q].visit = call[q].visit

\* Steps that close sessions or none, and begin no start.
LEMMA ShutsKeeps ==
    ASSUME SupportInv, NEW X, Shuts(X),
           allow' \subseteq Customers, met \subseteq met', met' \subseteq {"start", "switch"},
           call' \in [Requests -> Call], cookie' \in [Admins -> Nat], strayed' \subseteq DOMAIN visits,
           \A a \in Admins : cookie'[a] # 0 =>
              /\ cookie'[a] \in DOMAIN visits /\ visits[cookie'[a]].admin = a
              /\ visits[cookie'[a]].logged,
           CallInHand', \A q \in Requests : GoesOn(q),
           "start" \notin met' => \A a \in Admins : \A v \in A!Open(a) \ X : Named(a, v)',
           StartsWhereAllowed', A!SwitchedOffIsOut'
    PROVE  SupportInv'
  <1>1. \A a \in Admins : A!Open(a)' = A!Open(a) \ X
    BY ShutsOpen
  <1>2. A!TypeOK' /\ visits' \in Seq(Visit)
    BY SupportTypes, SupportTyped DEF Shuts
  <1>3. A!LoggedFirst'
    BY DEF A!LoggedFirst, Shuts
  <1>4. OneStarts'
    <2> SUFFICES ASSUME "start" \notin met'
                 PROVE  /\ \A a \in Admins : \A v, w \in A!Open(a)' : v = w
                        /\ \A a \in Admins : \A v \in A!Open(a)' : Named(a, v)'
                        /\ \A q \in Requests : Starts(q)' => StartsAlone(q)'
      BY DEF OneStarts
    <2>1. /\ \A a \in Admins : \A v, w \in A!Open(a) : v = w
          /\ \A q \in Requests : Starts(q) => StartsAlone(q)
      BY DEF SupportInv, OneStarts
    <2>2. \A a \in Admins : \A v, w \in A!Open(a)' : v = w
      BY <1>1, <2>1
    <2>3. \A a \in Admins : \A v \in A!Open(a)' : Named(a, v)'
      BY <1>1
    <2>4. ASSUME NEW q \in Requests, Starts(q)' PROVE StartsAlone(q)'
      <3>1. /\ Starts(q) /\ call'[q].admin = call[q].admin /\ StartsAlone(q)
            /\ Late(q)' => \/ A!Open(call[q].admin)' = {}
                           \/ Late(q) /\ call'[q].visit = call[q].visit
        BY <2>1, <2>4 DEF GoesOn
      <3>2. \A p \in Requests : Starts(p)' => Starts(p) /\ call'[p].admin = call[p].admin
        BY DEF GoesOn
      <3>3. call[q].admin \in Admins
        BY <3>1 DEF SupportInv, CallInHand, Hand
      <3>4. A!Open(call[q].admin)' \subseteq A!Open(call[q].admin)
        BY <1>1, <3>1, <3>3
      <3>5. Late(q)' => A!Open(call[q].admin)' \subseteq {call'[q].visit}
        BY <3>1, <3>4 DEF StartsAlone
      <3> QED
        BY <3>1, <3>2, <3>5 DEF StartsAlone, A!Open
    <2> QED
      BY <2>2, <2>3, <2>4
  <1> QED
    BY <1>2, <1>3, <1>4 DEF SupportInv

\* Steps that leave the customers' switches alone.
LEMMA NoSwitch ==
    ASSUME SupportInv, NEW X, Shuts(X), UNCHANGED allow, met \subseteq met',
           \A q \in Requests : GoesOn(q),
           "switch" \in met' \/ \A q \in Requests : call[q].at = "switching" => call'[q] = call[q]
    PROVE  StartsWhereAllowed' /\ A!SwitchedOffIsOut'
  <1>1. StartsWhereAllowed'
    BY DEF SupportInv, StartsWhereAllowed, GoesOn, Starts, Early, Calling, A!Starting
  <1>2. A!SwitchedOffIsOut'
    <2> SUFFICES ASSUME "switch" \notin met', NEW c \in Customers \ allow,
                        ~\E q \in Requests : call'[q].at = "switching" /\ call'[q].customer = c,
                        NEW v \in DOMAIN visits', visits'[v].customer = c
                 PROVE  ~visits'[v].open
      BY DEF A!SwitchedOffIsOut
    <2>1. v \in DOMAIN visits /\ visits[v].customer = c /\ (visits'[v].open => visits[v].open)
      BY DEF Shuts
    <2>2. ~\E q \in Requests : call[q].at = "switching" /\ call[q].customer = c
      OBVIOUS
    <2> QED
      BY <2>1, <2>2 DEF SupportInv, A!SwitchedOffIsOut
  <1> QED
    BY <1>1, <1>2

LEMMA StartReadsKeeps ==
    ASSUME SupportInv, NEW r \in Requests, NEW a \in Admins, NEW c \in Customers,
           A!StartReads(r, a, c)
    PROVE  SupportInv'
  <1>1. /\ call[r].at = "idle" /\ c \in allow /\ UNCHANGED <<allow, visits, cookie, strayed>>
        /\ met \subseteq met' /\ met' \subseteq {"start", "switch"}
        /\ \/ "start" \in met'
           \/ \A q \in Requests \ {r} : ~(call[q].at \in A!Starting /\ call[q].admin = a)
    BY SupportTypes DEF A!StartReads, A!Meets
  <1>2. CallBecomes(r, "starting", a, c, 0)
    <2>1. 0 \in 0..MaxSessions /\ "starting" \in A!Starting
      BY PeopleAssumption DEF A!Starting
    <2> QED
      BY <2>1, SupportTypes, CallGiven DEF A!StartReads
  <1>3. A!TypeOK' /\ visits' \in Seq(Visit) /\ cookie' \in [Admins -> Nat] /\ A!LoggedFirst'
    BY <1>1, <1>2, SupportTypes, SupportTyped DEF CallBecomes, A!LoggedFirst
  <1>4. CallInHand'
    <2>1. Hand(r)'
      BY <1>2 DEF Hand, Starts, Calling, CallBecomes
    <2>2. ASSUME NEW q \in Requests \ {r} PROVE Hand(q)'
      BY <1>1, <1>2, SupportTypes, ShutsNone, HandKept DEF SupportInv, CallInHand, CallBecomes
    <2> QED
      BY <2>1, <2>2 DEF CallInHand
  <1>5. OneStarts'
    <2> SUFFICES ASSUME "start" \notin met'
                 PROVE  /\ \A b \in Admins : \A v, w \in A!Open(b)' : v = w
                        /\ \A b \in Admins : \A v \in A!Open(b)' : Named(b, v)'
                        /\ \A q \in Requests : Starts(q)' => StartsAlone(q)'
      BY DEF OneStarts
    <2>1. /\ \A b \in Admins : \A v, w \in A!Open(b) : v = w
          /\ \A b \in Admins : \A v \in A!Open(b) : Named(b, v)
          /\ \A q \in Requests : Starts(q) => StartsAlone(q)
      BY <1>1 DEF SupportInv, OneStarts
    <2>2. \A b : A!Open(b)' = A!Open(b)
      BY <1>1 DEF A!Open
    <2>3. ASSUME NEW b \in Admins, NEW v \in A!Open(b) PROVE Named(b, v)'
      <3>1. A!Announced(v) => A!Announced(v)'
        BY <1>1, <1>2 DEF A!Announced, CallBecomes
      <3> QED
        BY <1>1, <2>1, <3>1 DEF Named
    <2>4. \A q \in Requests : Starts(q)' => StartsAlone(q)'
      <3>1. \A q \in Requests \ {r} : Starts(q)' => Starts(q) /\ StartsAlone(q) /\ call[q].admin # a
        BY <1>1, <1>2, <2>1 DEF Starts, Calling, CallBecomes
      <3>2. ~Late(r)' /\ call'[r].admin = a
        BY <1>2 DEF Late, Calling, CallBecomes
      <3>3. \A q \in Requests \ {r} : call'[q] = call[q]
        BY <1>2 DEF CallBecomes
      <3>4. ASSUME NEW q \in Requests \ {r}, Starts(q)' PROVE StartsAlone(q)'
        <4>1. StartsAlone(q) /\ call[q].admin # a /\ call'[q] = call[q]
          BY <3>1, <3>3, <3>4
        <4>2. Late(q)' => Late(q)
          BY <4>1 DEF Late, Calling
        <4>3. A!Open(call[q].admin)' = A!Open(call[q].admin)
          BY <2>2, <4>1
        <4>4. ASSUME NEW p \in Requests, Starts(p)', call'[p].admin = call'[q].admin PROVE p = q
          BY <3>1, <3>2, <3>3, <4>1, <4>4 DEF StartsAlone
        <4> QED
          BY <4>1, <4>2, <4>3, <4>4 DEF StartsAlone
      <3>5. StartsAlone(r)'
        BY <3>1, <3>2, <3>3 DEF StartsAlone
      <3> QED
        BY <3>4, <3>5
    <2> QED
      BY <2>1, <2>2, <2>3, <2>4
  <1>6. StartsWhereAllowed'
    BY <1>1, <1>2 DEF SupportInv, StartsWhereAllowed, Early, Calling, CallBecomes
  <1>7. A!SwitchedOffIsOut'
    BY <1>1, <1>2 DEF SupportInv, A!SwitchedOffIsOut, CallBecomes
  <1> QED
    BY <1>3, <1>4, <1>5, <1>6, <1>7 DEF SupportInv

\* A request that changes what it does and no more.
LEMMA StepOfOne ==
    ASSUME SupportInv, NEW r \in Requests, NEW at, NEW a, NEW c, NEW n, CallBecomes(r, at, a, c, n),
           NEW X, Shuts(X), Hand(r)', GoesOn(r)
    PROVE  CallInHand' /\ \A q \in Requests : GoesOn(q)
  <1>1. ASSUME NEW q \in Requests \ {r} PROVE Hand(q)' /\ GoesOn(q)
    <2>1. call'[q] = call[q] /\ Hand(q)
      BY DEF CallBecomes, SupportInv, CallInHand
    <2> QED
      BY <2>1, HandKept DEF GoesOn, Starts, Early, Late, Calling
  <1> QED
    BY <1>1 DEF CallInHand

\* What a session is accounted for by, where a request is no longer about it.
LEMMA StillNamed ==
    ASSUME NEW a \in Admins, NEW v, Named(a, v), NEW r \in Requests,
           \A q \in Requests \ {r} : call'[q] = call[q], strayed \subseteq strayed',
           v = cookie[a] => v = cookie'[a] \/ v \in strayed',
           call[r].at \in {"created", "audited"} /\ call[r].visit = v =>
               v = cookie'[a] \/ v \in strayed'
               \/ (call'[r].at \in {"created", "audited"} /\ call'[r].visit = v)
    PROVE  Named(a, v)'
  BY DEF Named, A!Announced

LEMMA OpenIsNamed ==
    ASSUME SupportInv, "start" \notin met, NEW a \in Admins, NEW v \in A!Open(a)
    PROVE  Named(a, v) /\ v \in DOMAIN visits /\ visits[v].admin = a
  BY DEF SupportInv, OneStarts, A!Open

\* A step of one request, that ends no start of the switch and begins none.
LEMMA StepKeeps ==
    ASSUME SupportInv, NEW r \in Requests, NEW at, NEW b, NEW c, NEW n, CallBecomes(r, at, b, c, n),
           NEW X, Shuts(X), UNCHANGED allow, met \subseteq met', met' \subseteq {"start", "switch"},
           cookie' \in [Admins -> Nat], strayed' \subseteq DOMAIN visits,
           \A a \in Admins : cookie'[a] # 0 =>
              /\ cookie'[a] \in DOMAIN visits /\ visits[cookie'[a]].admin = a
              /\ visits[cookie'[a]].logged,
           Hand(r)', GoesOn(r),
           "start" \notin met' => \A a \in Admins : \A v \in A!Open(a) \ X : Named(a, v)',
           "switch" \in met' \/ call[r].at # "switching"
    PROVE  SupportInv'
  <1>1. CallInHand' /\ \A q \in Requests : GoesOn(q)
    BY StepOfOne
  <1>2. "switch" \in met' \/ \A q \in Requests : call[q].at = "switching" => call'[q] = call[q]
    BY DEF CallBecomes
  <1>3. StartsWhereAllowed' /\ A!SwitchedOffIsOut'
    BY <1>1, <1>2, NoSwitch
  <1>4. allow' \subseteq Customers /\ call' \in [Requests -> Call]
    BY SupportTypes DEF CallBecomes
  <1> QED
    BY <1>1, <1>3, <1>4, ShutsKeeps

LEMMA StartEndsKeeps ==
    ASSUME SupportInv, NEW r \in Requests, A!StartEnds(r) PROVE SupportInv'
  <1> DEFINE X == {v \in DOMAIN visits : visits[v].admin = call[r].admin}
  <1>1. /\ call[r].at = "starting" /\ UNCHANGED <<allow, cookie, strayed, met>>
        /\ visits' = [v \in DOMAIN visits |->
                        IF visits[v].admin = call[r].admin THEN [visits[v] EXCEPT !.open = FALSE]
                        ELSE visits[v]]
        /\ call' = [call EXCEPT ![r].at = "ended"]
    BY DEF A!StartEnds, A!Close
  <1>2. Shuts(X)
    BY <1>1, SupportTypes, ShutsGiven
  <1>3. CallBecomes(r, "ended", call[r].admin, call[r].customer, call[r].visit)
    BY <1>1, SupportTypes, CallMoves DEF A!Starting
  <1>4. /\ Starts(r) /\ call[r].visit = 0 /\ call[r].admin \in Admins /\ call[r].customer \in Customers
        /\ call'[r].at = "ended" /\ call'[r].admin = call[r].admin
        /\ call'[r].customer = call[r].customer /\ call'[r].visit = 0
    BY <1>1, <1>3 DEF SupportInv, CallInHand, Hand, Starts, Calling, A!Starting, CallBecomes
  <1>5. Hand(r)'
    BY <1>4 DEF Hand, Starts, Calling, A!Starting
  <1>6. GoesOn(r)
    <2>1. A!Open(call[r].admin)' = A!Open(call[r].admin) \ X
      BY <1>2, <1>4, ShutsOpen
    <2>2. A!Open(call[r].admin) \subseteq X
      BY DEF A!Open
    <2> QED
      BY <1>1, <1>4, <2>1, <2>2 DEF GoesOn, Early, Calling
  <1>7. ASSUME "start" \notin met', NEW a \in Admins, NEW v \in A!Open(a) PROVE Named(a, v)'
    <2>1. Named(a, v)
      BY <1>1, <1>7, OpenIsNamed
    <2>2. \A q \in Requests \ {r} : call'[q] = call[q]
      BY <1>3 DEF CallBecomes
    <2> QED
      BY <1>1, <2>1, <2>2, StillNamed
  <1> HIDE DEF X
  <1> QED
    BY <1>1, <1>2, <1>3, <1>5, <1>6, <1>7, SupportTypes, StepKeeps

LEMMA StartCreatesKeeps ==
    ASSUME SupportInv, NEW r \in Requests, A!StartCreates(r) PROVE SupportInv'
  <1> DEFINE b == call[r].admin
             n == Len(visits) + 1
             new == [admin |-> b, customer |-> call[r].customer, logged |-> FALSE, open |-> TRUE]
  <1>1. /\ call[r].at = "ended" /\ UNCHANGED <<allow, cookie, strayed, met>> /\ Len(visits) < MaxSessions
        /\ b \in Admins /\ call[r].customer \in Customers /\ call[r].visit = 0 /\ Starts(r) /\ Late(r)
        /\ visits' = Append(visits, new)
        /\ call' = [call EXCEPT ![r].at = "created", ![r].visit = n]
    BY DEF A!StartCreates, SupportInv, CallInHand, Hand, Starts, Late, Calling, A!Starting
  <1>2. new \in Visit /\ new.admin = b /\ new.customer = call[r].customer /\ new.open
    BY <1>1 DEF Visit
  <1>3. visits \in Seq(Visit) /\ Len(visits) \in Nat /\ DOMAIN visits = 1..Len(visits)
        /\ cookie \in [Admins -> Nat] /\ MaxSessions \in Nat
    BY SupportTypes, PeopleAssumption
  <1>4. n \in 0..MaxSessions
    BY <1>1, <1>3
  <1>5. CallBecomes(r, "created", b, call[r].customer, n)
    <2> DEFINE z == [call[r] EXCEPT !.at = "created", !.visit = n]
    <2>1. call' = [call EXCEPT ![r] = z]
      BY <1>1
    <2> HIDE DEF n
    <2>2. call[r] \in Call /\ "created" \in A!Starting
      BY SupportTypes DEF A!Starting
    <2>3. /\ z \in Call /\ z.at = "created" /\ z.admin = b /\ z.customer = call[r].customer
          /\ z.visit = n
      BY <1>4, <2>2 DEF Call
    <2> HIDE DEF z
    <2> QED
      BY <2>1, <2>3, SupportTypes DEF CallBecomes
  <1> HIDE DEF new
  <1>6. /\ visits' \in Seq(Visit) /\ Len(visits') = n /\ visits'[n] = new
        /\ \A v \in 1..Len(visits) : visits'[v] = visits[v]
    BY <1>1, <1>2, <1>3, Appended
  <1>7. DOMAIN visits' = 1..n /\ \A v \in DOMAIN visits : visits'[v] = visits[v]
    BY <1>3, <1>6, LenProperties
  <1> HIDE DEF n
  <1>8. n = Len(visits) + 1
    BY DEF n
  <1>9. /\ call' \in [Requests -> Call] /\ \A q \in Requests \ {r} : call'[q] = call[q]
        /\ call'[r].at = "created" /\ call'[r].admin = b /\ call'[r].customer = call[r].customer
        /\ call'[r].visit = n
    BY <1>5 DEF CallBecomes
  <1>10. A!TypeOK' /\ A!LoggedFirst'
    <2>1. Len(visits') <= MaxSessions /\ strayed' \subseteq DOMAIN visits'
      BY <1>1, <1>3, <1>6, <1>7, <1>8, SupportTypes
    <2>2. \A a \in Admins : cookie'[a] # 0 =>
             /\ cookie'[a] \in DOMAIN visits' /\ visits'[cookie'[a]].admin = a
             /\ visits'[cookie'[a]].logged
      BY <1>1, <1>3, <1>6, <1>7, <1>8, SupportTypes
    <2>3. A!TypeOK'
      BY <1>1, <1>6, <1>9, <2>1, <2>2, SupportTypes, SupportTyped
    <2> QED
      BY <2>2, <2>3 DEF A!LoggedFirst
  <1>11. CallInHand'
    <2>1. Hand(r)'
      <3>1. n \in DOMAIN visits' /\ visits'[n].admin = b
        BY <1>2, <1>3, <1>6, <1>7, <1>8
      <3> QED
        BY <1>1, <1>9, <3>1 DEF Hand, Starts, Calling
    <2>2. ASSUME NEW q \in Requests \ {r} PROVE Hand(q)'
      <3>1. Hand(q) /\ call'[q] = call[q]
        BY <1>9 DEF SupportInv, CallInHand
      <3>2. \A v \in DOMAIN visits : v \in DOMAIN visits'
        BY <1>3, <1>7, <1>8
      <3> QED
        BY <1>7, <3>1, <3>2 DEF Hand, Starts, Calling
    <2> QED
      BY <2>1, <2>2 DEF CallInHand
  <1>12. OneStarts'
    <2> SUFFICES ASSUME "start" \notin met'
                 PROVE  /\ \A a \in Admins : \A v, w \in A!Open(a)' : v = w
                        /\ \A a \in Admins : \A v \in A!Open(a)' : Named(a, v)'
                        /\ \A q \in Requests : Starts(q)' => StartsAlone(q)'
      BY DEF OneStarts
    <2>1. /\ \A a \in Admins : \A v, w \in A!Open(a) : v = w
          /\ \A a \in Admins : \A v \in A!Open(a) : Named(a, v)
          /\ \A q \in Requests : Starts(q) => StartsAlone(q)
      BY <1>1 DEF SupportInv, OneStarts
    <2>2. A!Open(b) = {} /\ \A q \in Requests : Starts(q) /\ call[q].admin = b => q = r
      <3>1. StartsAlone(r)
        BY <1>1, <2>1
      <3>2. A!Open(b) \subseteq {0}
        BY <1>1, <3>1 DEF StartsAlone
      <3>3. 0 \notin A!Open(b)
        BY <1>3 DEF A!Open
      <3> QED
        BY <3>1, <3>2, <3>3 DEF StartsAlone
    <2>3. \A a \in Admins \ {b} : A!Open(a)' = A!Open(a)
      BY <1>2, <1>3, <1>6, <1>7, <1>8 DEF A!Open
    <2>4. ASSUME NEW a \in Admins, a = b PROVE A!Open(a)' \subseteq {n}
      <3> SUFFICES ASSUME NEW v \in DOMAIN visits', visits'[v].admin = b, visits'[v].open PROVE v = n
        BY <2>4 DEF A!Open
      <3>1. v \in DOMAIN visits => visits'[v] = visits[v] /\ v \notin A!Open(b)
        BY <1>7, <2>2
      <3>2. v \notin DOMAIN visits
        BY <3>1 DEF A!Open
      <3> QED
        BY <1>3, <1>7, <1>8, <3>2
    <2>5. \A a \in Admins : \A v, w \in A!Open(a)' : v = w
      BY <2>1, <2>3, <2>4
    <2>6. ASSUME NEW a \in Admins, NEW v \in A!Open(a)' PROVE Named(a, v)'
      <3>1. CASE a = b
        BY <1>9, <2>4, <2>6, <3>1 DEF Named, A!Announced
      <3>2. CASE a # b
        <4>1. Named(a, v)
          BY <2>1, <2>3, <2>6, <3>2
        <4>2. call[r].at \notin {"created", "audited"}
          BY <1>1
        <4> QED
          BY <1>1, <1>9, <4>1, <4>2, StillNamed
      <3> QED
        BY <3>1, <3>2
    <2>7. ASSUME NEW q \in Requests, Starts(q)' PROVE StartsAlone(q)'
      <3>1. \A p \in Requests : Starts(p)' => Starts(p) /\ call'[p].admin = call[p].admin
        BY <1>1, <1>9 DEF Starts, Calling
      <3>2. \A p \in Requests : Starts(p)' /\ call'[p].admin = call'[q].admin => p = q
        BY <2>1, <2>7, <3>1 DEF StartsAlone
      <3>3. CASE q = r
        <4>1. A!Open(call[r].admin)' \subseteq {call'[r].visit}
          BY <1>1, <1>9, <2>4
        <4> QED
          BY <3>2, <3>3, <4>1 DEF StartsAlone
      <3>4. CASE q # r
        <4>1. call'[q] = call[q] /\ Starts(q) /\ StartsAlone(q) /\ call[q].admin # b
          BY <1>9, <2>1, <2>2, <2>7, <3>1, <3>4
        <4>2. call[q].admin \in Admins
          BY <4>1 DEF SupportInv, CallInHand, Hand
        <4>3. A!Open(call[q].admin)' = A!Open(call[q].admin)
          BY <2>3, <4>1, <4>2
        <4> QED
          BY <3>2, <4>1, <4>3 DEF StartsAlone, Late, Calling
      <3> QED
        BY <3>3, <3>4
    <2> QED
      BY <2>5, <2>6, <2>7
  <1>13. StartsWhereAllowed'
    BY <1>1, <1>9 DEF SupportInv, StartsWhereAllowed, Early, Calling
  <1>14. A!SwitchedOffIsOut'
    <2> SUFFICES ASSUME "switch" \notin met', NEW c \in Customers \ allow'
                 PROVE  \/ \E q \in Requests : call'[q].at = "switching" /\ call'[q].customer = c
                        \/ \A v \in DOMAIN visits' : visits'[v].customer = c => ~visits'[v].open
      BY DEF A!SwitchedOffIsOut
    <2>1. call[r].customer \in allow
      BY <1>1 DEF SupportInv, StartsWhereAllowed, Early, Calling
    <2>2. CASE \E q \in Requests : call[q].at = "switching" /\ call[q].customer = c
      BY <1>1, <1>9, <2>2
    <2>3. CASE \A v \in DOMAIN visits : visits[v].customer = c => ~visits[v].open
      <3>1. new.customer # c
        BY <1>1, <1>2, <2>1
      <3> QED
        BY <1>3, <1>6, <1>7, <1>8, <2>3, <3>1
    <2> QED
      BY <1>1, <2>2, <2>3 DEF SupportInv, A!SwitchedOffIsOut
  <1> QED
    BY <1>1, <1>3, <1>6, <1>10, <1>11, <1>12, <1>13, <1>14 DEF SupportInv

LEMMA StartAuditsKeeps ==
    ASSUME SupportInv, NEW r \in Requests, A!StartAudits(r) PROVE SupportInv'
  <1> DEFINE n == call[r].visit
  <1>1. /\ call[r].at = "created" /\ UNCHANGED <<allow, cookie, strayed, met>>
        /\ visits' = [visits EXCEPT ![n].logged = TRUE] /\ call' = [call EXCEPT ![r].at = "audited"]
        /\ call[r].admin \in Admins /\ call[r].customer \in Customers
        /\ n \in DOMAIN visits /\ visits[n].admin = call[r].admin
    BY DEF A!StartAudits, SupportInv, CallInHand, Hand, Starts, Calling, A!Starting
  <1>2. CallBecomes(r, "audited", call[r].admin, call[r].customer, n)
    BY <1>1, SupportTypes, CallMoves DEF A!Starting
  <1>3. visits'[n].logged /\ visits'[n].admin = visits[n].admin /\ Shuts({})
    <2>1. visits \in Seq(Visit) /\ visits[n] \in Visit
      BY <1>1, SupportTypes
    <2>2. /\ visits' = [v \in DOMAIN visits |-> visits'[v]] /\ DOMAIN visits' = DOMAIN visits
          /\ visits'[n] = [visits[n] EXCEPT !.logged = TRUE]
          /\ \A v \in DOMAIN visits \ {n} : visits'[v] = visits[v]
      BY <1>1
    <2>3. /\ visits'[n] \in Visit /\ visits'[n].logged /\ visits'[n].open = visits[n].open
          /\ visits'[n].admin = visits[n].admin /\ visits'[n].customer = visits[n].customer
      BY <2>1, <2>2 DEF Visit
    <2>4. \A v \in DOMAIN visits : visits'[v] \in Visit
      BY <2>2, <2>3, SupportTypes
    <2>5. visits' \in Seq(Visit) /\ Len(visits') = Len(visits)
      BY <2>1, <2>2, <2>4, Replaced
    <2> QED
      BY <2>2, <2>3, <2>5 DEF Shuts
  <1>4. /\ call'[r].at = "audited" /\ call'[r].admin = call[r].admin
        /\ call'[r].customer = call[r].customer /\ call'[r].visit = n
        /\ \A q \in Requests \ {r} : call'[q] = call[q]
    BY <1>2 DEF CallBecomes
  <1>5. Hand(r)'
    <2>1. n \in DOMAIN visits'
      BY <1>1, <1>3 DEF Shuts
    <2> QED
      BY <1>1, <1>3, <1>4, <2>1 DEF Hand, Starts, Calling
  <1>6. GoesOn(r)
    BY <1>1, <1>4 DEF GoesOn, Starts, Early, Late, Calling, A!Starting
  <1>7. ASSUME "start" \notin met', NEW a \in Admins, NEW v \in A!Open(a) PROVE Named(a, v)'
    <2>1. Named(a, v)
      BY <1>1, <1>7, OpenIsNamed
    <2> QED
      BY <1>1, <1>4, <2>1, StillNamed
  <1> HIDE DEF n
  <1> QED
    BY <1>1, <1>2, <1>3, <1>5, <1>6, <1>7, SupportTypes, StepKeeps

\* A request that rests has nothing in hand and starts nothing.
LEMMA RestsKeeps ==
    ASSUME SupportInv, NEW r \in Requests, CallRests(r), NEW X, Shuts(X), UNCHANGED allow,
           met \subseteq met', met' \subseteq {"start", "switch"},
           cookie' \in [Admins -> Nat], strayed' \subseteq DOMAIN visits,
           \A a \in Admins : cookie'[a] # 0 =>
              /\ cookie'[a] \in DOMAIN visits /\ visits[cookie'[a]].admin = a
              /\ visits[cookie'[a]].logged,
           "start" \notin met' => \A a \in Admins : \A v \in A!Open(a) \ X : Named(a, v)',
           "switch" \in met' \/ call[r].at # "switching"
    PROVE  SupportInv'
  <1>1. CallBecomes(r, "idle", "none", "none", 0) /\ call'[r].at = "idle"
    BY DEF CallRests, CallBecomes
  <1>2. Hand(r)' /\ GoesOn(r)
    BY <1>1 DEF Hand, GoesOn, Starts, Calling, A!Starting
  <1> QED
    BY <1>1, <1>2, StepKeeps

LEMMA StartAnswersKeeps ==
    ASSUME SupportInv, NEW r \in Requests, A!StartAnswers(r) PROVE SupportInv'
  <1> DEFINE b == call[r].admin
             n == call[r].visit
  <1>1. /\ call[r].at = "audited" /\ UNCHANGED <<allow, visits, strayed, met>> /\ Starts(r) /\ Late(r)
        /\ cookie' = [cookie EXCEPT ![b] = n] /\ b \in Admins
        /\ n \in DOMAIN visits /\ visits[n].admin = b /\ visits[n].logged
    BY DEF A!StartAnswers, SupportInv, CallInHand, Hand, Starts, Late, Calling, A!Starting
  <1>2. CallRests(r) /\ \A q \in Requests \ {r} : call'[q] = call[q]
    BY SupportTypes, CallRestsGiven DEF A!StartAnswers, CallRests, CallBecomes
  <1>3. n \in Nat
    BY <1>1, SupportTypes
  <1>4. /\ cookie' \in [Admins -> Nat] /\ cookie'[b] = n
        /\ \A a \in Admins \ {b} : cookie'[a] = cookie[a]
    BY <1>1, <1>3, SupportTypes
  <1>5. \A a \in Admins : cookie'[a] # 0 =>
           cookie'[a] \in DOMAIN visits /\ visits[cookie'[a]].admin = a /\ visits[cookie'[a]].logged
    BY <1>1, <1>4, SupportTypes
  <1>6. ASSUME "start" \notin met', NEW a \in Admins, NEW v \in A!Open(a) PROVE Named(a, v)'
    <2>1. Named(a, v) /\ visits[v].admin = a /\ "start" \notin met
      BY <1>1, <1>6, OpenIsNamed
    <2>2. CASE a = b
      <3>1. A!Open(b) \subseteq {n}
        BY <1>1, <2>1 DEF SupportInv, OneStarts, StartsAlone
      <3> QED
        BY <1>4, <1>6, <2>2, <3>1 DEF Named
    <2>3. CASE a # b
      <3>1. cookie'[a] = cookie[a] /\ v # n
        BY <1>1, <1>4, <2>1, <2>3
      <3> QED
        BY <1>1, <1>2, <2>1, <3>1, StillNamed
    <2> QED
      BY <2>2, <2>3
  <1>7. Shuts({})
    BY <1>1, SupportTypes, ShutsNone
  <1> HIDE DEF b, n
  <1> QED
    BY <1>1, <1>2, <1>4, <1>5, <1>6, <1>7, SupportTypes, RestsKeeps

\* Closing one session.
LEMMA ShutsOne ==
    ASSUME SupportInv, NEW v \in DOMAIN visits, visits' = [visits EXCEPT ![v].open = FALSE]
    PROVE  Shuts({v})
  <1>1. visits \in Seq(Visit)
    BY SupportTypes
  <1>2. visits' = [w \in DOMAIN visits |-> visits'[w]] /\ DOMAIN visits' = DOMAIN visits
    OBVIOUS
  <1>3. \A w \in DOMAIN visits :
           visits'[w] = IF w \in {v} THEN [visits[w] EXCEPT !.open = FALSE] ELSE visits[w]
    OBVIOUS
  <1> QED
    BY <1>1, <1>2, <1>3, ShutsGiven

\* Steps of no request: a session is closed, or a cookie dropped.
LEMMA NoCallKeeps ==
    ASSUME SupportInv, NEW X, Shuts(X), UNCHANGED <<allow, call, met>>, cookie' \in [Admins -> Nat],
           strayed \subseteq strayed', strayed' \subseteq DOMAIN visits,
           \A a \in Admins : cookie'[a] = cookie[a] \/ (cookie'[a] = 0 /\ (cookie[a] = 0 \/ cookie[a] \in strayed'))
    PROVE  SupportInv'
  <1>1. /\ allow' \subseteq Customers /\ met \subseteq met' /\ met' \subseteq {"start", "switch"}
        /\ call' \in [Requests -> Call]
    BY SupportTypes
  <1>2. \A a \in Admins : cookie'[a] # 0 =>
           cookie'[a] \in DOMAIN visits /\ visits[cookie'[a]].admin = a /\ visits[cookie'[a]].logged
    BY SupportTypes
  <1>3. CallInHand' /\ \A q \in Requests : GoesOn(q)
    <2>1. \A q \in Requests : Hand(q)'
      BY HandKept DEF SupportInv, CallInHand
    <2> QED
      BY <2>1 DEF CallInHand, GoesOn, Starts, Early, Late, Calling
  <1>4. ASSUME "start" \notin met', NEW a \in Admins, NEW v \in A!Open(a) PROVE Named(a, v)'
    BY <1>4, OpenIsNamed DEF Named, A!Announced
  <1>5. StartsWhereAllowed' /\ A!SwitchedOffIsOut'
    <2>1. \A q \in Requests : call[q].at = "switching" => call'[q] = call[q]
      OBVIOUS
    <2> QED
      BY <1>1, <1>3, <2>1, NoSwitch
  <1> QED
    BY <1>1, <1>2, <1>3, <1>4, <1>5, ShutsKeeps

LEMMA ResolveClosesKeeps ==
    ASSUME SupportInv, NEW a \in Admins, A!ResolveCloses(a) PROVE SupportInv'
  <1>1. cookie[a] \in DOMAIN visits /\ visits' = [visits EXCEPT ![cookie[a]].open = FALSE]
        /\ UNCHANGED <<allow, cookie, strayed, call, met>>
    BY SupportTypes DEF A!ResolveCloses
  <1>2. Shuts({cookie[a]})
    BY <1>1, ShutsOne
  <1> QED
    BY <1>1, <1>2, SupportTypes, NoCallKeeps

\* A browser drops its cookie.
LEMMA DropsCookie ==
    ASSUME SupportInv, NEW a \in Admins, A!Drops(a)
    PROVE  /\ cookie' \in [Admins -> Nat] /\ strayed \subseteq strayed' /\ strayed' \subseteq DOMAIN visits
           /\ \A b \in Admins : \/ cookie'[b] = cookie[b]
                                \/ cookie'[b] = 0 /\ (cookie[b] = 0 \/ cookie[b] \in strayed')
  <1>1. cookie' = [cookie EXCEPT ![a] = 0] /\ strayed' = strayed \cup ({cookie[a]} \ {0})
    BY DEF A!Drops
  <1>2. cookie' \in [Admins -> Nat] /\ cookie'[a] = 0 /\ \A b \in Admins \ {a} : cookie'[b] = cookie[b]
    BY <1>1, SupportTypes
  <1>3. strayed \subseteq strayed' /\ strayed' \subseteq DOMAIN visits /\ (cookie[a] = 0 \/ cookie[a] \in strayed')
    BY <1>1, SupportTypes
  <1> QED
    BY <1>2, <1>3

LEMMA CookieExpiresKeeps ==
    ASSUME SupportInv, NEW a \in Admins, A!CookieExpires(a) PROVE SupportInv'
  <1>1. cookie[a] # 0 /\ A!Drops(a) /\ UNCHANGED <<allow, visits, call, met>>
    BY DEF A!CookieExpires
  <1>2. Shuts({})
    BY <1>1, SupportTypes, ShutsNone
  <1>3. /\ cookie' \in [Admins -> Nat] /\ strayed \subseteq strayed' /\ strayed' \subseteq DOMAIN visits
        /\ \A b \in Admins : \/ cookie'[b] = cookie[b]
                             \/ cookie'[b] = 0 /\ (cookie[b] = 0 \/ cookie[b] \in strayed')
    BY <1>1, DropsCookie
  <1> QED
    BY <1>1, <1>2, <1>3, NoCallKeeps

LEMMA EndReadsKeeps ==
    ASSUME SupportInv, NEW r \in Requests, NEW a \in Admins, A!EndReads(r, a) PROVE SupportInv'
  <1>1. /\ call[r].at = "idle" /\ UNCHANGED <<allow, visits, cookie, strayed, met>>
        /\ cookie[a] \in DOMAIN visits /\ visits[cookie[a]].admin = a
    BY SupportTypes DEF A!EndReads
  <1>2. CallBecomes(r, "ending", a, "none", cookie[a])
    <2>1. cookie[a] \in 0..MaxSessions
      BY <1>1, SupportTypes, PeopleAssumption
    <2> QED
      BY <2>1, SupportTypes, CallGiven DEF A!EndReads
  <1>3. /\ call'[r].at = "ending" /\ call'[r].admin = a /\ call'[r].visit = cookie[a]
        /\ \A q \in Requests \ {r} : call'[q] = call[q]
    BY <1>2 DEF CallBecomes
  <1>4. Hand(r)' /\ GoesOn(r)
    BY <1>1, <1>3 DEF Hand, GoesOn, Starts, Calling, A!Starting
  <1>5. ASSUME "start" \notin met', NEW b \in Admins, NEW v \in A!Open(b) PROVE Named(b, v)'
    <2>1. Named(b, v)
      BY <1>1, <1>5, OpenIsNamed
    <2> QED
      BY <1>1, <1>3, <2>1, StillNamed
  <1>6. Shuts({})
    BY <1>1, SupportTypes, ShutsNone
  <1> QED
    BY <1>1, <1>2, <1>4, <1>5, <1>6, SupportTypes, StepKeeps

LEMMA EndClosesKeeps ==
    ASSUME SupportInv, NEW r \in Requests, A!EndCloses(r) PROVE SupportInv'
  <1> DEFINE n == call[r].visit
  <1>1. /\ call[r].at = "ending" /\ UNCHANGED <<allow, cookie, strayed, met>>
        /\ visits' = [visits EXCEPT ![n].open = FALSE] /\ call' = [call EXCEPT ![r].at = "answering"]
        /\ n \in DOMAIN visits /\ visits[n].admin = call[r].admin /\ call[r].admin \in Admins
    BY DEF A!EndCloses, SupportInv, CallInHand, Hand, Calling
  <1>2. CallBecomes(r, "answering", call[r].admin, call[r].customer, n)
    BY <1>1, SupportTypes, CallMoves
  <1>3. Shuts({n})
    BY <1>1, ShutsOne
  <1>4. /\ call'[r].at = "answering" /\ call'[r].admin = call[r].admin /\ call'[r].visit = n
        /\ \A q \in Requests \ {r} : call'[q] = call[q]
    BY <1>2 DEF CallBecomes
  <1>5. Hand(r)' /\ GoesOn(r)
    BY <1>1, <1>3, <1>4 DEF Hand, GoesOn, Starts, Calling, A!Starting, Shuts
  <1>6. ASSUME "start" \notin met', NEW b \in Admins, NEW v \in A!Open(b) PROVE Named(b, v)'
    <2>1. Named(b, v)
      BY <1>1, <1>6, OpenIsNamed
    <2> QED
      BY <1>1, <1>4, <2>1, StillNamed
  <1> HIDE DEF n
  <1> QED
    BY <1>1, <1>2, <1>3, <1>5, <1>6, SupportTypes, StepKeeps

LEMMA EndAnswersKeeps ==
    ASSUME SupportInv, NEW r \in Requests, A!EndAnswers(r) PROVE SupportInv'
  <1>1. /\ call[r].at \in {"ending", "answering"} /\ call[r].admin \in Admins
        /\ A!Drops(call[r].admin) /\ UNCHANGED <<allow, visits, met>>
    BY DEF A!EndAnswers, SupportInv, CallInHand, Hand, Calling
  <1>2. CallRests(r) /\ \A q \in Requests \ {r} : call'[q] = call[q]
    BY SupportTypes, CallRestsGiven DEF A!EndAnswers, CallRests, CallBecomes
  <1>3. Shuts({})
    BY <1>1, SupportTypes, ShutsNone
  <1>4. /\ cookie' \in [Admins -> Nat] /\ strayed \subseteq strayed' /\ strayed' \subseteq DOMAIN visits
        /\ \A b \in Admins : \/ cookie'[b] = cookie[b]
                             \/ cookie'[b] = 0 /\ (cookie[b] = 0 \/ cookie[b] \in strayed')
    BY <1>1, DropsCookie
  <1>5. \A b \in Admins : cookie'[b] # 0 =>
           cookie'[b] \in DOMAIN visits /\ visits[cookie'[b]].admin = b /\ visits[cookie'[b]].logged
    BY <1>4, SupportTypes
  <1>6. ASSUME "start" \notin met', NEW b \in Admins, NEW v \in A!Open(b) PROVE Named(b, v)'
    <2>1. Named(b, v) /\ v # 0
      BY <1>1, <1>6, OpenIsNamed, SupportTypes
    <2>2. v = cookie[b] => v = cookie'[b] \/ v \in strayed'
      BY <1>4, <2>1
    <2> QED
      BY <1>1, <1>2, <1>4, <2>1, <2>2, StillNamed
  <1> QED
    BY <1>1, <1>2, <1>3, <1>4, <1>5, <1>6, SupportTypes, RestsKeeps

LEMMA FailsKeeps == ASSUME SupportInv, NEW r \in Requests, A!Fails(r) PROVE SupportInv'
  <1>1. /\ call[r].at # "idle" /\ UNCHANGED <<allow, visits, cookie>>
        /\ strayed' = IF call[r].at \in {"created", "audited"} THEN strayed \cup {call[r].visit} ELSE strayed
        /\ met' = IF call[r].at = "switching" THEN met \cup {"switch"} ELSE met
    BY DEF A!Fails
  <1>2. CallRests(r) /\ \A q \in Requests \ {r} : call'[q] = call[q]
    BY SupportTypes, CallRestsGiven DEF A!Fails, CallRests, CallBecomes
  <1>3. strayed \subseteq strayed' /\ strayed' \subseteq DOMAIN visits
    BY <1>1, SupportTypes DEF SupportInv, CallInHand, Hand, Calling
  <1>4. /\ met \subseteq met' /\ met' \subseteq {"start", "switch"}
        /\ "switch" \in met' \/ call[r].at # "switching"
    BY <1>1, SupportTypes
  <1>5. ASSUME "start" \notin met', NEW b \in Admins, NEW v \in A!Open(b) PROVE Named(b, v)'
    <2>1. Named(b, v)
      BY <1>4, <1>5, OpenIsNamed
    <2> QED
      BY <1>1, <1>2, <1>3, <2>1, StillNamed
  <1>6. Shuts({})
    BY <1>1, SupportTypes, ShutsNone
  <1> QED
    BY <1>1, <1>2, <1>3, <1>4, <1>5, <1>6, SupportTypes, RestsKeeps

LEMMA SwitchWritesKeeps ==
    ASSUME SupportInv, NEW r \in Requests, NEW c \in Customers, NEW on \in BOOLEAN,
           A!SwitchWrites(r, c, on)
    PROVE  SupportInv'
  <1>1. /\ call[r].at = "idle" /\ UNCHANGED <<visits, cookie, strayed>>
        /\ allow' = IF on THEN allow \cup {c} ELSE allow \ {c}
        /\ met \subseteq met' /\ met' \subseteq {"start", "switch"}
        /\ \/ "switch" \in met'
           \/ \A q \in Requests \ {r} :
                ~(call[q].at \in {"starting", "ended", "switching"} /\ call[q].customer = c)
    BY SupportTypes DEF A!SwitchWrites, A!Meets
  <1>2. IF on THEN call' = call ELSE CallBecomes(r, "switching", "none", c, 0)
    <2>1. 0 \in 0..MaxSessions
      BY PeopleAssumption
    <2> QED
      BY <2>1, SupportTypes, CallGiven DEF A!SwitchWrites
  <1>3. /\ call' \in [Requests -> Call] /\ \A q \in Requests \ {r} : call'[q] = call[q]
        /\ call'[r].at \in {"idle", "switching"}
        /\ call'[r].at = "switching" => call'[r].customer = c /\ call'[r].admin = "none"
        /\ ~on => call'[r].at = "switching"
    BY <1>1, <1>2, SupportTypes DEF CallBecomes
  <1>4. \A q \in Requests : GoesOn(q) /\ Hand(q)'
    <2>1. \A q \in Requests \ {r} : Hand(q)'
      BY <1>1, <1>3, SupportTypes, ShutsNone, HandKept DEF SupportInv, CallInHand
    <2>2. Hand(r)'
      BY <1>3 DEF Hand, Starts, Calling, A!Starting
    <2>3. \A q \in Requests : GoesOn(q)
      BY <1>3 DEF GoesOn, Starts, Early, Late, Calling, A!Starting
    <2> QED
      BY <2>1, <2>2, <2>3
  <1>5. StartsWhereAllowed'
    BY <1>1, <1>3 DEF SupportInv, StartsWhereAllowed, Early, Calling
  <1>6. A!SwitchedOffIsOut'
    <2> SUFFICES ASSUME "switch" \notin met', NEW d \in Customers \ allow'
                 PROVE  \/ \E q \in Requests : call'[q].at = "switching" /\ call'[q].customer = d
                        \/ \A v \in DOMAIN visits : visits[v].customer = d => ~visits[v].open
      BY <1>1 DEF A!SwitchedOffIsOut
    <2>1. CASE d = c
      BY <1>1, <1>3, <2>1
    <2>2. CASE d # c
      <3>1. d \in Customers \ allow
        BY <1>1, <2>2
      <3> QED
        BY <1>1, <1>3, <3>1 DEF SupportInv, A!SwitchedOffIsOut
    <2> QED
      BY <2>1, <2>2
  <1>7. ASSUME "start" \notin met', NEW b \in Admins, NEW v \in A!Open(b) PROVE Named(b, v)'
    <2>1. Named(b, v)
      BY <1>1, <1>7, OpenIsNamed
    <2> QED
      BY <1>1, <1>3, <2>1, StillNamed
  <1>8. Shuts({}) /\ allow' \subseteq Customers
    BY <1>1, SupportTypes, ShutsNone
  <1>9. CallInHand'
    BY <1>4 DEF CallInHand
  <1> QED
    BY <1>1, <1>3, <1>4, <1>5, <1>6, <1>7, <1>8, <1>9, SupportTypes, ShutsKeeps

LEMMA SwitchEndsKeeps ==
    ASSUME SupportInv, NEW r \in Requests, A!SwitchEnds(r) PROVE SupportInv'
  <1> DEFINE X == {v \in DOMAIN visits : visits[v].customer = call[r].customer}
  <1>1. /\ call[r].at = "switching" /\ UNCHANGED <<allow, cookie, strayed, met>>
        /\ visits' = [v \in DOMAIN visits |->
                        IF visits[v].customer = call[r].customer
                        THEN [visits[v] EXCEPT !.open = FALSE] ELSE visits[v]]
    BY DEF A!SwitchEnds, A!Close
  <1>2. Shuts(X)
    BY <1>1, SupportTypes, ShutsGiven
  <1>3. CallBecomes(r, "idle", "none", "none", 0)
    BY SupportTypes, CallRestsGiven DEF A!SwitchEnds, CallRests
  <1>4. /\ call' \in [Requests -> Call] /\ \A q \in Requests \ {r} : call'[q] = call[q]
        /\ call'[r].at = "idle"
    BY <1>3 DEF CallBecomes
  <1>5. Hand(r)' /\ GoesOn(r)
    BY <1>4 DEF Hand, GoesOn, Starts, Calling, A!Starting
  <1>6. CallInHand' /\ \A q \in Requests : GoesOn(q)
    BY <1>2, <1>3, <1>5, StepOfOne
  <1>7. StartsWhereAllowed'
    BY <1>1, <1>4 DEF SupportInv, StartsWhereAllowed, Early, Calling
  <1>8. A!SwitchedOffIsOut'
    <2> SUFFICES ASSUME "switch" \notin met', NEW d \in Customers \ allow'
                 PROVE  \/ \E q \in Requests : call'[q].at = "switching" /\ call'[q].customer = d
                        \/ \A v \in DOMAIN visits' : visits'[v].customer = d => ~visits'[v].open
      BY DEF A!SwitchedOffIsOut
    <2>1. CASE d = call[r].customer
      BY <1>2, <2>1 DEF Shuts
    <2>2. CASE d # call[r].customer
      BY <1>1, <1>2, <1>4, <2>2 DEF SupportInv, A!SwitchedOffIsOut, Shuts
    <2> QED
      BY <2>1, <2>2
  <1>9. ASSUME "start" \notin met', NEW b \in Admins, NEW v \in A!Open(b) PROVE Named(b, v)'
    <2>1. Named(b, v)
      BY <1>1, <1>9, OpenIsNamed
    <2> QED
      BY <1>1, <1>4, <2>1, StillNamed
  <1> HIDE DEF X
  <1> QED
    BY <1>1, <1>2, <1>4, <1>6, <1>7, <1>8, <1>9, SupportTypes, ShutsKeeps

LEMMA SupportInvInit == A!Init => SupportInv
  <1> SUFFICES ASSUME A!Init PROVE SupportInv
    OBVIOUS
  <1> USE PeopleAssumption DEF A!Init
  <1>1. /\ visits \in Seq(Visit) /\ Len(visits) = 0 /\ DOMAIN visits = {}
        /\ cookie \in [Admins -> Nat] /\ \A a \in Admins : cookie[a] = 0
    OBVIOUS
  <1>2. A!Resting \in Call /\ A!Resting.at = "idle"
    BY DEF A!Resting, Call
  <1>3. call \in [Requests -> Call] /\ \A r \in Requests : call[r].at = "idle"
    BY <1>2
  <1>4. A!TypeOK /\ A!LoggedFirst
    BY <1>1, <1>3 DEF A!TypeOK, A!LoggedFirst, Call
  <1>5. CallInHand /\ OneStarts /\ StartsWhereAllowed /\ A!SwitchedOffIsOut
    BY <1>1, <1>3 DEF CallInHand, Hand, OneStarts, StartsWhereAllowed, A!SwitchedOffIsOut, Starts, Early,
                      Calling, A!Open, A!Starting
  <1> QED
    BY <1>1, <1>4, <1>5 DEF SupportInv

LEMMA SupportInvStep == ASSUME SupportInv, [A!Next]_support PROVE SupportInv'
  <1>1. CASE A!Next
    BY <1>1, StartReadsKeeps, StartEndsKeeps, StartCreatesKeeps, StartAuditsKeeps, StartAnswersKeeps,
       EndReadsKeeps, EndClosesKeeps, EndAnswersKeeps, SwitchWritesKeeps, SwitchEndsKeeps, FailsKeeps,
       ResolveClosesKeeps, CookieExpiresKeeps DEF A!Next
  <1>2. CASE UNCHANGED support
    <2>1. UNCHANGED <<allow, visits, cookie, strayed, call, met>>
      BY <1>2 DEF support
    <2>2. Shuts({})
      BY <2>1, SupportTypes, ShutsNone
    <2> QED
      BY <2>1, <2>2, SupportTypes, NoCallKeeps
  <1> QED
    BY <1>1, <1>2

LEMMA OneIsOpen == ASSUME SupportInv PROVE A!OneSession
  <1> SUFFICES ASSUME "start" \notin met, NEW a \in Admins
               PROVE  /\ A!Cardinality(A!Open(a)) <= 1
                      /\ \A v \in A!Open(a) : v = cookie[a] \/ v \in strayed \/ A!Announced(v)
    BY DEF A!OneSession
  <1>1. /\ \A v, w \in A!Open(a) : v = w
        /\ \A v \in A!Open(a) : v = cookie[a] \/ v \in strayed \/ A!Announced(v)
    BY DEF SupportInv, OneStarts, Named
  <1>2. Cardinality(A!Open(a)) <= 1
    <2>1. CASE A!Open(a) = {}
      BY <2>1, FS_EmptySet
    <2>2. ASSUME NEW v \in A!Open(a) PROVE Cardinality(A!Open(a)) <= 1
      <3>1. A!Open(a) = {v}
        BY <1>1
      <3> QED
        BY <3>1, FS_Singleton
    <2> QED
      BY <2>1, <2>2
  <1>3. A!Cardinality(A!Open(a)) = Cardinality(A!Open(a))
    BY DEF A!Cardinality, Cardinality
  <1> QED
    BY <1>1, <1>2, <1>3

-----------------------------------------------------------------------------
(* The people of an organization.                                           *)

PeopleInv ==
    /\ part \in {"team", "sign-in", "factor", "support"}
    /\ part = "team" => TeamInv
    /\ part = "sign-in" => SignInInv
    /\ part = "factor" => FactorInv
    /\ part = "support" => SupportInv

PeopleVars == <<part, vars, signIn, factor, support>>

LEMMA PeopleInvInit == PeopleInit => PeopleInv
  BY TeamInvInit, SignInInvInit, FactorInvInit, SupportInvInit DEF PeopleInit, PeopleInv

LEMMA PeopleInvStep ==
    ASSUME PeopleInv, [TeamStep \/ SignInStep \/ FactorStep \/ SupportStep]_PeopleVars
    PROVE  PeopleInv'
  <1>1. CASE part = "team"
    <2>1. [Next]_vars /\ part' = part
      BY <1>1 DEF TeamStep, SignInStep, FactorStep, SupportStep, PeopleVars
    <2> QED
      BY <1>1, <2>1, TeamInvStep DEF PeopleInv
  <1>2. CASE part = "sign-in"
    <2>1. [S!Next]_signIn /\ part' = part
      BY <1>2 DEF TeamStep, SignInStep, FactorStep, SupportStep, PeopleVars
    <2> QED
      BY <1>2, <2>1, SignInInvStep DEF PeopleInv
  <1>3. CASE part = "factor"
    <2>1. [F!Next]_factor /\ part' = part
      BY <1>3 DEF TeamStep, SignInStep, FactorStep, SupportStep, PeopleVars
    <2> QED
      BY <1>3, <2>1, FactorInvStep DEF PeopleInv
  <1>4. CASE part = "support"
    <2>1. [A!Next]_support /\ part' = part
      BY <1>4 DEF TeamStep, SignInStep, FactorStep, SupportStep, PeopleVars
    <2> QED
      BY <1>4, <2>1, SupportInvStep DEF PeopleInv
  <1> QED
    BY <1>1, <1>2, <1>3, <1>4 DEF PeopleInv

LEMMA PeopleInvAlways == PeopleSpec => []PeopleInv
  <1>1. PeopleInv /\ [TeamStep \/ SignInStep \/ FactorStep \/ SupportStep]_PeopleVars => PeopleInv'
    BY PeopleInvStep
  <1> QED
    BY <1>1, PeopleInvInit, PTL DEF PeopleSpec, PeopleVars

\* Whatever its managers do at one time, an organization never loses its last
\* owner to a single change, of the invitations of an address only the newest
\* waits, and nobody who was removed is a member again without a new invitation
\* (membership-service.ts, invitation-service.ts): for every team, however many
\* requests run at one time.
THEOREM TeamStaysKept == PeopleSpec => []TeamIsKept
  <1>1. PeopleInv => TeamIsKept
    <2> SUFFICES ASSUME TeamInv PROVE TypeOK /\ KeepsAnOwner /\ NewestOnly /\ RemovedStaysOut
      BY DEF PeopleInv, TeamIsKept
    <2> QED
      BY OneIsNewest DEF TeamInv
  <1> QED
    BY <1>1, PeopleInvAlways, PTL

\* An account opens to its owner alone: of its reset links only the newest works,
\* each once, and a reset signs out the sessions of older passwords; a sign-in
\* asks for a secret the user has proven, takes a recovery code once, and an
\* organization that requires a second factor can go back; support has one
\* session open at most, which its browser names or has lost and the customer's
\* log tells of, and none where the customer switched it off
\* (password-reset-service.ts, session-context.ts, mfa-service.ts, impersonation.ts).
THEOREM AccountsStaySafe == PeopleSpec => []AccountsAreSafe
  <1>1. PeopleInv => AccountsAreSafe
    <2>1. SignInInv => S!TypeOK /\ ResetLinksAreSafe
      BY DEF SignInInv, ResetLinksAreSafe
    <2>2. FactorInv => F!TypeOK /\ SecondFactorIsSafe
      BY DEF FactorInv, SecondFactorIsSafe
    <2>3. SupportInv => A!TypeOK /\ SupportIsBounded
      BY OneIsOpen DEF SupportInv, SupportIsBounded
    <2> QED
      BY <2>1, <2>2, <2>3 DEF PeopleInv, AccountsAreSafe
  <1> QED
    BY <1>1, PeopleInvAlways, PTL

\* Whoever becomes a member had an invitation that waited for them, and nothing
\* beside it gives them another role (invitation-service.ts).
THEOREM JoiningUsesAnInvitation == PeopleSpec => JoinUsesInvitation
  <1> DEFINE Joining == \A u \in Users : role[u] = None /\ role'[u] # None =>
                          \E i \in Pending(u) : invites'[i].state = "accepted" /\ role'[u] = invites[i].to
  <1>1. PeopleInv /\ [TeamStep \/ SignInStep \/ FactorStep \/ SupportStep]_PeopleVars => [Joining]_vars
    <2> SUFFICES ASSUME PeopleInv, [TeamStep \/ SignInStep \/ FactorStep \/ SupportStep]_PeopleVars
                 PROVE  [Joining]_vars
      OBVIOUS
    <2>1. CASE TeamStep
      <3>1. TeamInv /\ [Next]_vars
        BY <2>1 DEF TeamStep, PeopleInv
      <3> QED
        BY <3>1, JoinStep
    <2>2. CASE ~TeamStep
      <3>1. UNCHANGED vars
        BY <2>2, Zenon DEF SignInStep, FactorStep, SupportStep, PeopleVars, vars
      <3> QED
        BY <3>1
    <2> QED
      BY <2>1, <2>2
  <1> QED
    BY <1>1, PeopleInvAlways, PTL DEF PeopleSpec, PeopleVars, JoinUsesInvitation
=============================================================================
