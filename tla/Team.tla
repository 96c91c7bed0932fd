-------------------------------- MODULE Team --------------------------------
(* The people of one organization: invitations (invitation-service.ts), the  *)
(* members they become, and the managers who change and remove each other    *)
(* (member-service.ts, membership-rules.ts).                                 *)
(*                                                                           *)
(* A request resolves its session once, reads what it checks, and writes     *)
(* later; requests overlap.  A link is not a value of its own: the current   *)
(* one leads to its invitation and an older or an expired one to nothing, so *)
(* a refused link is a step that is not taken, and resending an invitation   *)
(* changes nothing but the link.  Grants and vendor companies are data.      *)
EXTENDS Naturals, FiniteSets, Sequences

CONSTANTS Users,        \* the people, each with one e-mail address
          Founders,     \* the members there are at first: a function to roles
          Invitees,     \* the people who get invited
          Given,        \* the roles that invitations and changes give
          Requests,     \* the requests the servers run at one time
          MaxInvites    \* bound: invitations ever created

Roles == {"OWNER", "PORTFOLIO_ADMIN", "TECHNICIAN"}
None == "none"

ASSUME TeamAssumption ==
    /\ IsFiniteSet(Users)
    /\ Invitees \subseteq Users
    /\ Given \subseteq Roles
    /\ DOMAIN Founders \subseteq Users
    /\ \A u \in DOMAIN Founders : Founders[u] \in Roles
    /\ \E u \in DOMAIN Founders : Founders[u] = "OWNER"
    /\ MaxInvites \in Nat

VARIABLES role,      \* the membership of each user: its role, or None
          account,   \* the users there is an account of
          invites,   \* the invitations, in the order of their creation
          req,       \* what each request is doing
          overlaps   \* the kinds of change whose checks have overlapped
vars == <<role, account, invites, req, overlaps>>

Ops == {"create", "revoke", "accept", "update", "remove"}
Idle == [at |-> "idle", op |-> None, as |-> None, who |-> None, to |-> None, inv |-> 0,
         rows |-> {}, fresh |-> FALSE]

Init ==
    /\ role = [u \in Users |-> IF u \in DOMAIN Founders THEN Founders[u] ELSE None]
    /\ account = DOMAIN Founders
    /\ invites = <<>>
    /\ req = [r \in Requests |-> Idle]
    /\ overlaps = {}

canManageTeam(as) == as \in {"OWNER", "PORTFOLIO_ADMIN"}
Owners == {u \in Users : role[u] = "OWNER"}
Pending(u) == {i \in DOMAIN invites : invites[i].email = u /\ invites[i].state = "pending"}

\* The rows a transaction that has not committed has written: others that
\* write them wait.
Locked == UNION {req[r].rows : r \in Requests}

\* r goes on to the place at, and its checks are of a kind that another
\* request has checked and not yet acted on.
Crosses(r, kind, others) ==
    overlaps' = IF \E q \in Requests \ {r} : req[q].at \in {"checked", "writing"} /\ others[q]
                THEN overlaps \cup {kind} ELSE overlaps

------------------------------------------------------------------------------
(* Sessions and the shape of a membership.                                   *)

\* An organization's roles are given out by its team managers, and only an
\* Owner makes an Owner (resolveMembershipShape).
MayGive(as, to) == to \in Roles /\ (to = "OWNER" => as = "OWNER")

\* A manager's request arrives, and goes by the role that its session found
\* from here on.  The checks that need nothing else are part of this step.
Enter(r, u, at, op, who, to, i) ==
    /\ req[r].at = "idle"
    /\ canManageTeam(role[u])
    /\ to # None => MayGive(role[u], to)
    /\ req' = [req EXCEPT ![r] = [at |-> at, op |-> op, as |-> IF at = "entered" THEN role[u] ELSE None,
                                  who |-> who, to |-> to, inv |-> i, rows |-> {}, fresh |-> FALSE]]
    /\ UNCHANGED <<role, account, invites>>

\* A check that fails, a lost database connection or a crash ends a request;
\* a transaction that was open leaves nothing.
Ends(r) ==
    /\ req[r].at # "idle"
    /\ req' = [req EXCEPT ![r] = Idle]
    /\ UNCHANGED <<role, account, invites, overlaps>>

------------------------------------------------------------------------------
(* Invitations.                                                              *)

\* Mutant of NotAMember: anybody can be invited.
Anybody(u) == TRUE

\* The address is nobody's who is a member.
NotAMember(u) == role[u] = None

Create(r, u, who, to) ==
    /\ Enter(r, u, "checked", "create", who, to, 0)
    /\ NotAMember(who)
    /\ Crosses(r, "invites", [q \in Requests |-> req[q].who = who /\ req[q].op \in {"create", "accept"}])

\* Mutant of CreateRevokes: invitations sent before stay as they are.
CreateKeepsOlder(r) ==
    /\ req[r].at = "checked" /\ req[r].op = "create"
    /\ req' = [req EXCEPT ![r].at = "writing"]
    /\ UNCHANGED <<role, account, invites, overlaps>>

\* The transaction's first statement revokes what it sees pending.
CreateRevokes(r) ==
    /\ req[r].at = "checked" /\ req[r].op = "create"
    /\ req' = [req EXCEPT ![r].at = "writing", ![r].rows = Pending(req[r].who) \ Locked]
    /\ UNCHANGED <<role, account, invites, overlaps>>

\* Its second creates the invitation, and it commits.
CreateCommits(r) ==
    /\ req[r].at = "writing" /\ req[r].op = "create"
    /\ Len(invites) < MaxInvites
    /\ invites' = Append([i \in DOMAIN invites |->
                            IF i \in req[r].rows THEN [invites[i] EXCEPT !.state = "revoked"]
                            ELSE invites[i]],
                         [email |-> req[r].who, to |-> req[r].to, state |-> "pending"])
    /\ req' = [req EXCEPT ![r] = Idle]
    /\ UNCHANGED <<role, account, overlaps>>

\* An invitation that is revoked is pending when it is loaded; the update is
\* by id, whatever has become of it.
LoadPending(r, u, i) ==
    /\ Enter(r, u, "checked", "revoke", None, None, i)
    /\ invites[i].state = "pending"
    /\ UNCHANGED overlaps

Revoke(r) ==
    /\ req[r].at = "checked" /\ req[r].op = "revoke" /\ req[r].inv \notin Locked
    /\ invites' = [i \in DOMAIN invites |->
                     IF i = req[r].inv /\ invites[i].state = "pending"
                     THEN [invites[i] EXCEPT !.state = "revoked"] ELSE invites[i]]
    /\ req' = [req EXCEPT ![r] = Idle]
    /\ UNCHANGED <<role, account, overlaps>>

\* The invitee opens the current link of a pending invitation.
AcceptReads(r, i) ==
    /\ req[r].at = "idle"
    /\ invites[i].state = "pending"
    /\ req' = [req EXCEPT ![r] = [at |-> "checked", op |-> "accept", as |-> None,
                                  who |-> invites[i].email, to |-> invites[i].to, inv |-> i,
                                  rows |-> {}, fresh |-> invites[i].email \notin account]]
    /\ Crosses(r, "invites", [q \in Requests |-> /\ req[q].who = invites[i].email
                                                 /\ req[q].op = "create"])
    /\ UNCHANGED <<role, account, invites>>

\* Mutant of Claimable: the invitation is claimed by id.
ClaimedById(i) == TRUE

\* The statement that claims the invitation checks that it is unclaimed.
Claimable(i) == invites[i].state = "pending"

\* Mutant of AcceptCommits: the account is not created.
AcceptWithoutAccount(r) ==
    LET i == req[r].inv
        u == req[r].who
    IN  /\ req[r].at = "checked" /\ req[r].op = "accept" /\ i \notin Locked
        /\ Claimable(i)
        /\ role[u] = None
        /\ invites' = [invites EXCEPT ![i].state = "accepted"]
        /\ role' = [role EXCEPT ![u] = req[r].to]
        /\ req' = [req EXCEPT ![r] = Idle]
        /\ UNCHANGED <<account, overlaps>>

\* One transaction: the claim, the account if there was none, the membership.
\* It leaves nothing when the account or the membership exists by now.
AcceptCommits(r) ==
    LET i == req[r].inv
        u == req[r].who
    IN  /\ req[r].at = "checked" /\ req[r].op = "accept" /\ i \notin Locked
        /\ Claimable(i)
        /\ req[r].fresh => u \notin account
        /\ role[u] = None
        /\ invites' = [invites EXCEPT ![i].state = "accepted"]
        /\ account' = account \cup {u}
        /\ role' = [role EXCEPT ![u] = req[r].to]
        /\ req' = [req EXCEPT ![r] = Idle]
        /\ UNCHANGED overlaps

------------------------------------------------------------------------------
(* Members.                                                                  *)

\* Mutant of TakesAnOwner: a change of role is not asked.
RemovesAnOwner(q) == q.op = "remove" /\ role[q.who] = "OWNER"

\* The update or removal would take the role of an Owner away.
TakesAnOwner(q) == q.op \in {"update", "remove"} /\ role[q.who] = "OWNER" /\ q.to # "OWNER"

\* assertNotLastOwner: it counts the Owners there are now.
NotLastOwner(q) == TakesAnOwner(q) => Cardinality(Owners) > 1

\* Nobody changes or removes themselves.
Change(r, u, who, to) ==
    /\ who # u
    /\ Enter(r, u, "entered", "update", who, to, 0)
    /\ UNCHANGED overlaps

Remove(r, u, who) ==
    /\ who # u
    /\ Enter(r, u, "entered", "remove", who, None, 0)
    /\ UNCHANGED overlaps

CheckMember(r) ==
    /\ req[r].at = "entered" /\ req[r].op \in {"update", "remove"}
    /\ role[req[r].who] # None
    /\ role[req[r].who] = "OWNER" => req[r].as = "OWNER"
    /\ NotLastOwner(req[r])
    /\ req' = [req EXCEPT ![r].at = "checked", ![r].as = None]
    /\ Crosses(r, "owners", [q \in Requests |-> req[q].op \in {"update", "remove"}])
    /\ UNCHANGED <<role, account, invites>>

\* The membership row is gone: a request that was to write it by id fails.
Without(u) ==
    [q \in Requests |-> IF req[q].who = u /\ req[q].op \in {"update", "remove"}
                                /\ req[q].at = "checked"
                        THEN Idle ELSE req[q]]

UpdateMembership(r) ==
    /\ req[r].at = "checked" /\ req[r].op = "update"
    /\ role' = [role EXCEPT ![req[r].who] = req[r].to]
    /\ req' = [req EXCEPT ![r] = Idle]
    /\ UNCHANGED <<account, invites, overlaps>>

RemoveMember(r) ==
    /\ req[r].at = "checked" /\ req[r].op = "remove"
    /\ role' = [role EXCEPT ![req[r].who] = None]
    /\ req' = Without(req[r].who)
    /\ UNCHANGED <<account, invites, overlaps>>

------------------------------------------------------------------------------
Next ==
    \E r \in Requests :
        \/ Ends(r)
        \/ \E u \in Users :
             \/ \E who \in Invitees, to \in Given : Create(r, u, who, to)
             \/ \E i \in DOMAIN invites : LoadPending(r, u, i)
             \/ \E who \in Users, to \in Given : Change(r, u, who, to)
             \/ \E who \in Users : Remove(r, u, who)
        \/ CreateRevokes(r) \/ CreateCommits(r) \/ Revoke(r)
        \/ (\E i \in DOMAIN invites : AcceptReads(r, i)) \/ AcceptCommits(r)
        \/ CheckMember(r) \/ UpdateMembership(r) \/ RemoveMember(r)

Spec == Init /\ [][Next]_vars

------------------------------------------------------------------------------
(* Properties.                                                               *)

Request == [at : {"idle", "entered", "checked", "writing"}, op : Ops \cup {None},
            as : Roles \cup {None}, who : Users \cup {None}, to : Roles \cup {None},
            inv : 0..MaxInvites, rows : SUBSET (1..MaxInvites), fresh : BOOLEAN]
Invitation == [email : Users, to : Roles, state : {"pending", "accepted", "revoked"}]

\* Every variable holds a value of its type; who is a member has an account,
\* and a request acts on an invitation there is.
TypeOK ==
    /\ role \in [Users -> Roles \cup {None}]
    /\ account \subseteq Users
    /\ \A u \in Users : role[u] # None => u \in account
    /\ Len(invites) <= MaxInvites /\ \A i \in DOMAIN invites : invites[i] \in Invitation
    /\ req \in [Requests -> Request]
    /\ \A r \in Requests : req[r].inv <= Len(invites)
    /\ overlaps \subseteq {"owners", "invites"}

\* An organization has an Owner, through all changes and removals of members
\* by managers whose own roles change meanwhile, as long as no two of them
\* check before either has written (member-service.ts:52).
KeepsAnOwner == "owners" \notin overlaps => Owners # {}

\* At most one invitation of an address waits for an answer, so only the
\* newest one sent works, unless two are sent at one time
\* (invitation-service.ts:124).
NewestOnly == "invites" \notin overlaps => \A u \in Users : Cardinality(Pending(u)) <= 1

\* A member has no invitation waiting, so somebody who is removed stays out
\* until invited again, unless the invitation was sent while they joined
\* (invitation-service.ts:117).
RemovedStaysOut == "invites" \notin overlaps => \A u \in Users : role[u] # None => Pending(u) = {}

\* Whoever joins uses up an invitation of theirs, for its role: a link lets
\* in once, however often it is submitted and even if its user was removed
\* in between (invitation-service.ts:306).
JoinUsesInvitation ==
    [][\A u \in Users : role[u] = None /\ role'[u] # None =>
         \E i \in Pending(u) : invites'[i].state = "accepted" /\ role'[u] = invites[i].to]_vars

\* What the rules of member-service.ts say of every organization at all
\* times: it keeps at least one Owner.
AlwaysAnOwner == Owners # {}

=============================================================================
