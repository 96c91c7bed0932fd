------------------------------ MODULE MCPeople ------------------------------
(* The people of an organization for TLC: Team, SignIn, SecondFactor and     *)
(* SupportAccess beside each other.  They share no row that one of them      *)
(* writes, so each behavior follows one of them.                             *)
EXTENDS Team, TLC

CONSTANTS ann, bob, eve, o1, o2,
          Holders,      \* the people whose second factor is looked at
          MaxLinks, MaxClock, Orgs, Members, Managers, MaxSecrets, MaxCodes,
          Admins, Customers, MaxSessions

ASSUME PeopleAssumption ==
    /\ MaxLinks \in Nat /\ MaxClock \in Nat \ {0}
    /\ MaxSecrets \in Nat /\ MaxCodes \in Nat /\ MaxSessions \in Nat

VARIABLES part,
          clock, password, changedAt, links, sessions, task, raced,
          secret, enabled, app, codes, made, accepted, requireMfa, job, crossed,
          allow, visits, cookie, strayed, call, met

S == INSTANCE SignIn
F == INSTANCE SecondFactor WITH Users <- Holders, Servers <- Requests
A == INSTANCE SupportAccess WITH Calls <- Requests

signIn == <<clock, password, changedAt, links, sessions, task, raced>>
factor == <<secret, enabled, app, codes, made, accepted, requireMfa, job, crossed>>
support == <<allow, visits, cookie, strayed, call, met>>

\* Ann and bob manage one organization.  Or ann manages it, and bob, a member,
\* manages another.
MCMembers == o1 :> {ann, bob}
MCMembersOfTwo == o1 :> {ann, bob} @@ o2 :> {bob}
MCManagersOfTwo == o1 :> {ann} @@ o2 :> {bob}
MCFounders == ann :> "OWNER" @@ bob :> "PORTFOLIO_ADMIN"

Symmetry == Permutations(Requests)

PeopleInit == /\ part \in {"team", "sign-in", "factor", "support"}
              /\ Init /\ S!Init /\ F!Init /\ A!Init

TeamStep == part = "team" /\ Next
            /\ UNCHANGED <<part, signIn, factor, support>>
SignInStep == part = "sign-in" /\ S!Next
              /\ UNCHANGED <<part, vars, factor, support>>
FactorStep == part = "factor" /\ F!Next
              /\ UNCHANGED <<part, vars, signIn, support>>
SupportStep == part = "support" /\ A!Next
               /\ UNCHANGED <<part, vars, signIn, factor>>

PeopleSpec ==
    /\ PeopleInit
    /\ [][TeamStep \/ SignInStep \/ FactorStep \/ SupportStep]_<<part, vars, signIn, factor, support>>

\* The team keeps what it is built on, with every value of its type: an
\* organization never loses its last owner to a single change, of the
\* invitations of an address only the newest waits, and nobody who was removed
\* is a member again without a new invitation (Team.tla).
TeamIsKept == part = "team" => TypeOK /\ KeepsAnOwner /\ NewestOnly /\ RemovedStaysOut

\* An account opens to its owner alone (SignIn.tla, SecondFactor.tla).  Of its
\* reset links only the newest works, each once, and a reset signs out the
\* sessions of older passwords.  A sign-in asks for a secret the user has
\* proven, takes a recovery code once, and an organization that requires a
\* second factor can go back.  Support has one session open at most, which its
\* browser names or has lost, the customer's log tells of it, and there is none
\* where the customer switched support access off (SupportAccess.tla).
ResetLinksAreSafe == S!NewestLinkOnly /\ S!ResetsUseLinks /\ S!OldPasswordOut
SecondFactorIsSafe == F!EnabledSecretProven /\ F!CodeOnce /\ F!PolicyReversible
SupportIsBounded == A!OneSession /\ A!LoggedFirst /\ A!SwitchedOffIsOut
AccountsAreSafe ==
    /\ part = "sign-in" => S!TypeOK /\ ResetLinksAreSafe
    /\ part = "factor" => F!TypeOK /\ SecondFactorIsSafe
    /\ part = "support" => A!TypeOK /\ SupportIsBounded

\* An organization that requires a second factor can always go back: what the
\* code does not keep, where one member belongs to two organizations.
PolicyAlwaysReversible == F!PolicyAlwaysReversible
=============================================================================
