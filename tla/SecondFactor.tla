---------------------------- MODULE SecondFactor ----------------------------
(* The second factor of each user (mfa-service.ts): enrolment, the recovery  *)
(* codes, and the policy by which an organization requires it of its         *)
(* members, who are then refused every other request until they enrol        *)
(* (api-utils.ts).                                                           *)
(*                                                                           *)
(* Secrets and recovery codes are numbered in the order they are made.  A    *)
(* user holds the secret they were shown last.                               *)
EXTENDS Naturals, FiniteSets

CONSTANTS Orgs, Users,
          Members,      \* Members[o]: the users of an organization
          Managers,     \* Managers[o]: those of them who manage its team
          Servers,      \* the requests the servers run at one time
          MaxSecrets,   \* bound: secrets ever made
          MaxCodes      \* bound: recovery codes ever made

VARIABLES secret,      \* mfaSecret of each user; 0 is none
          enabled,     \* the users whose mfaEnabledAt is set
          app,         \* the secret each user's authenticator proved last
          codes,       \* the recovery codes stored unused, by user
          made,        \* how many secrets and codes were made
          accepted,    \* how often each code let somebody through
          requireMfa,  \* the organizations with the policy
          job,         \* what each request is doing
          crossed      \* kinds of change whose requests have overlapped
secondFactorVars == <<secret, enabled, app, codes, made, accepted, requireMfa, job, crossed>>

Waiting == [at |-> "idle", user |-> "none", org |-> "none", seen |-> 0, on |-> FALSE]

Init ==
    /\ secret = [u \in Users |-> 0] /\ enabled = {} /\ app = [u \in Users |-> 0]
    /\ codes = [u \in Users |-> {}] /\ made = [secrets |-> 0, codes |-> 0]
    /\ accepted = [c \in 1..MaxCodes |-> 0]
    /\ requireMfa = {}
    /\ job = [r \in Servers |-> Waiting]
    /\ crossed = {}

\* A request of u on another's heels: its kind of change is under way already.
Start(r, at, u, o, x, on, kind, others) ==
    /\ job[r].at = "idle"
    /\ job' = [job EXCEPT ![r] = [at |-> at, user |-> u, org |-> o, seen |-> x, on |-> on]]
    /\ crossed' = IF \E q \in Servers \ {r} : job[q].at \in others THEN crossed \cup {kind}
                  ELSE crossed

Done(r) == job' = [job EXCEPT ![r] = Waiting]

\* The session's organization, and whether its policy lets the request through.
PolicySatisfied(u, o) == o \in requireMfa => u \in enabled

------------------------------------------------------------------------------
(* Enrolment.  Its pages are open to members the policy refuses.             *)

\* Mutant of BeginReads: an enrolment starts over while the factor is on.
BeginAgain(r, u) ==
    /\ made.secrets < MaxSecrets
    /\ Start(r, "beginning", u, "none", 0, FALSE, "enrolment", {"beginning", "activating", "turning off"})
    /\ UNCHANGED <<secret, enabled, app, codes, made, accepted, requireMfa>>

\* An enrolment starts, or starts over before it is complete.
BeginReads(r, u) ==
    /\ u \notin enabled /\ made.secrets < MaxSecrets
    /\ Start(r, "beginning", u, "none", 0, FALSE, "enrolment", {"beginning", "activating", "turning off"})
    /\ UNCHANGED <<secret, enabled, app, codes, made, accepted, requireMfa>>

\* The new secret replaces the one before.
BeginWrites(r) ==
    LET u == job[r].user IN
    /\ job[r].at = "beginning" /\ made.secrets < MaxSecrets
    /\ secret' = [secret EXCEPT ![u] = made.secrets + 1]
    /\ made' = [made EXCEPT !.secrets = made.secrets + 1]
    /\ Done(r)
    /\ UNCHANGED <<enabled, app, codes, accepted, requireMfa, crossed>>

\* The user's code is held against the secret that is stored.
ActivateReads(r, u) ==
    /\ u \notin enabled /\ secret[u] # 0
    /\ Start(r, "activating", u, "none", secret[u], FALSE, "enrolment", {"beginning", "activating", "turning off"})
    /\ UNCHANGED <<secret, enabled, app, codes, made, accepted, requireMfa>>

\* Fresh recovery codes take the place of the old ones; n of them are made.
FreshCodes(u, n) ==
    /\ made.codes + n <= MaxCodes
    /\ codes' = [codes EXCEPT ![u] = (made.codes + 1) .. (made.codes + n)]
    /\ made' = [made EXCEPT !.codes = made.codes + n]

ActivateCommits(r) ==
    LET u == job[r].user IN
    /\ job[r].at = "activating"
    /\ enabled' = enabled \cup {u}
    /\ app' = [app EXCEPT ![u] = job[r].seen]
    /\ FreshCodes(u, 1)
    /\ Done(r)
    /\ UNCHANGED <<secret, accepted, requireMfa, crossed>>

------------------------------------------------------------------------------
(* Codes.                                                                    *)

\* A recovery code somebody has is submitted, or a code of the authenticator
\* (0), for a user who has enrolled.
VerifyReads(r, u, c, at, o) ==
    /\ u \in enabled
    /\ Start(r, at, u, o, c, FALSE, "codes", {})
    /\ UNCHANGED <<secret, enabled, app, codes, made, accepted, requireMfa>>

\* Mutant of CodeUnused: the code's state is not asked again.
CodeKnown(u, c) == TRUE

\* The conditional update that marks the code used finds it unused.
CodeUnused(u, c) == c = 0 \/ c \in codes[u]

\* verifyMfaCode: the user is read once more, and the code is used up.
Accept(r, next) ==
    LET u == job[r].user
        c == job[r].seen
    IN  /\ u \in enabled
        /\ CodeUnused(u, c)
        /\ codes' = [codes EXCEPT ![u] = codes[u] \ {c}]
        /\ accepted' = [d \in DOMAIN accepted |-> accepted[d] + IF d = c THEN 1 ELSE 0]
        /\ job' = [job EXCEPT ![r] = next]

SignInVerifies(r) ==
    /\ job[r].at = "signing in"
    /\ Accept(r, Waiting)
    /\ UNCHANGED <<secret, enabled, app, made, requireMfa, crossed>>

\* Turning it off and renewing the codes take a code first.
ChangeVerifies(r) ==
    /\ job[r].at \in {"disabling", "renewing"}
    /\ Accept(r, [job[r] EXCEPT !.at = IF job[r].at = "disabling" THEN "turning off" ELSE "issuing"])
    /\ UNCHANGED <<secret, enabled, app, made, requireMfa, crossed>>

\* disableMfa: refused where the user's active organization requires it.
DisableReads(r, u, c, o) ==
    /\ u \in Members[o] /\ o \notin requireMfa /\ u \in enabled
    /\ Start(r, "disabling", u, o, c, FALSE, "policy", {"deciding"})
    /\ UNCHANGED <<secret, enabled, app, codes, made, accepted, requireMfa>>

DisableCommits(r) ==
    LET u == job[r].user IN
    /\ job[r].at = "turning off"
    /\ secret' = [secret EXCEPT ![u] = 0]
    /\ enabled' = enabled \ {u}
    /\ app' = [app EXCEPT ![u] = 0]
    /\ codes' = [codes EXCEPT ![u] = {}]
    /\ Done(r)
    /\ UNCHANGED <<made, accepted, requireMfa, crossed>>

RenewCommits(r) ==
    /\ job[r].at = "issuing"
    /\ FreshCodes(job[r].user, 1)
    /\ Done(r)
    /\ UNCHANGED <<secret, enabled, app, accepted, requireMfa, crossed>>

------------------------------------------------------------------------------
(* The policy of an organization.                                            *)

\* Mutant of PolicyReads: a manager without a second factor may switch it on.
PolicyOfAnyone(r, u, o, on) ==
    /\ u \in Managers[o] /\ PolicySatisfied(u, o)
    /\ Start(r, "deciding", u, o, 0, on, "policy", {"disabling", "turning off"})
    /\ UNCHANGED <<secret, enabled, app, codes, made, accepted, requireMfa>>

\* Whoever switches it on has enrolled: otherwise nobody might be left who
\* can switch it off.
PolicyReads(r, u, o, on) ==
    /\ u \in Managers[o] /\ PolicySatisfied(u, o)
    /\ on => u \in enabled
    /\ Start(r, "deciding", u, o, 0, on, "policy", {"disabling", "turning off"})
    /\ UNCHANGED <<secret, enabled, app, codes, made, accepted, requireMfa>>

PolicyWrites(r) ==
    /\ job[r].at = "deciding"
    /\ requireMfa' = IF job[r].on THEN requireMfa \cup {job[r].org} ELSE requireMfa \ {job[r].org}
    /\ Done(r)
    /\ UNCHANGED <<secret, enabled, app, codes, made, accepted, crossed>>

\* A request fails or its server stops between two statements.
Breaks(r) ==
    /\ job[r].at # "idle"
    /\ Done(r)
    /\ UNCHANGED <<secret, enabled, app, codes, made, accepted, requireMfa, crossed>>

Next ==
    \E r \in Servers :
        \/ \E u \in Users :
             \/ BeginReads(r, u) \/ ActivateReads(r, u)
             \/ \E c \in 0..made.codes :
                  \/ VerifyReads(r, u, c, "signing in", "none")
                  \/ VerifyReads(r, u, c, "renewing", "none")
                  \/ \E o \in Orgs : DisableReads(r, u, c, o)
             \/ \E o \in Orgs, on \in BOOLEAN : PolicyReads(r, u, o, on)
        \/ BeginWrites(r) \/ ActivateCommits(r)
        \/ SignInVerifies(r) \/ ChangeVerifies(r) \/ DisableCommits(r) \/ RenewCommits(r)
        \/ PolicyWrites(r)
        \/ Breaks(r)

Spec == Init /\ [][Next]_secondFactorVars
------------------------------------------------------------------------------
(* Properties.                                                               *)

Job == [at : {"idle", "beginning", "activating", "signing in", "disabling", "renewing",
              "turning off", "issuing", "deciding"},
        user : Users \cup {"none"}, org : Orgs \cup {"none"}, seen : Nat, on : BOOLEAN]

\* Every variable holds a value of its type.  Codes may be stored of a user
\* whose second factor is off: a renewal that overlaps the switch-off writes
\* them after it (mfa-service.ts:237).
TypeOK ==
    /\ secret \in [Users -> 0..MaxSecrets] /\ app \in [Users -> 0..MaxSecrets]
    /\ enabled \subseteq Users
    /\ codes \in [Users -> SUBSET (1..MaxCodes)] /\ accepted \in [1..MaxCodes -> Nat]
    /\ made \in [secrets : 0..MaxSecrets, codes : 0..MaxCodes]
    /\ requireMfa \subseteq Orgs
    /\ job \in [Servers -> Job]
    /\ crossed \subseteq {"enrolment", "codes", "policy"}

\* Nobody is held to a secret they have not shown to have: through restarted
\* enrolments, activations and switching off, the secret a sign-in asks for
\* is the one last proven, unless an enrolment overlaps with another
\* (mfa-service.ts:79, 105).
EnabledSecretProven ==
    "enrolment" \notin crossed => \A u \in enabled : secret[u] # 0 /\ secret[u] = app[u]

\* A recovery code lets its user through once, in all the requests that
\* submit it and across renewals of the set (mfa-service.ts:172).
CodeOnce == \A c \in DOMAIN accepted : accepted[c] <= 1

\* The organizations whose managers have no other one to act from.
Closed(o) == \A u \in Managers[o], p \in Orgs : u \in Members[p] => p = o

\* An organization that requires a second factor has a manager who can sign
\* in and switch the policy off, whoever turned their own factor off before
\* or after, as long as its managers belong to no other organization and no
\* two requests decide at one time (mfa-service.ts:262).
PolicyReversible ==
    "policy" \notin crossed =>
        \A o \in requireMfa : Closed(o) => Managers[o] \cap enabled # {}

\* What the comment on setOrganizationMfaPolicy says of every organization:
\* requiring the manager who switches the policy on to have enrolled
\* guarantees that somebody can always sign in and reverse it.
PolicyAlwaysReversible ==
    "policy" \notin crossed => \A o \in requireMfa : Managers[o] \cap enabled # {}
=============================================================================
