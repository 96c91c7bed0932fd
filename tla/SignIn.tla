------------------------------- MODULE SignIn -------------------------------
(* One account: the links that reset its password (password-reset-service.ts)*)
(* and the sessions that a sign-in opens (auth.ts), which every request      *)
(* holds against the time of the last reset (session-context.ts).            *)
(*                                                                           *)
(* Passwords are numbered by the resets that set them.  A link that is       *)
(* expired or unknown, and an attempt over the rate limit, is refused before *)
(* anything is read and is a step that is not taken.                         *)
EXTENDS Naturals, FiniteSets, Sequences

CONSTANTS Requests,     \* the requests the servers run at one time
          MaxLinks,     \* bound: reset links ever sent
          MaxClock      \* bound: the clock

VARIABLES clock,      \* the time, in steps that Date.now() tells apart
          password,   \* the password the account has
          changedAt,  \* passwordChangedAt; 0 while there was no reset
          links,      \* the reset links sent: may each still be used
          sessions,   \* signed-in sessions: the password proven, and authTime
          task,       \* what each request is doing
          raced       \* requests of one kind have overlapped, by kind
signInVars == <<clock, password, changedAt, links, sessions, task, raced>>

Free == [at |-> "idle", link |-> 0, seen |-> 0, now |-> 0]

Init ==
    /\ clock = 1 /\ password = 0 /\ changedAt = 0
    /\ links = <<>> /\ sessions = {}
    /\ task = [r \in Requests |-> Free]
    /\ raced = {}

Live == {l \in DOMAIN links : links[l]}
Signing == {"proven"}
Resetting == {"hashing", "resetting"}

Busy(r, places) == \E q \in Requests \ {r} : task[q].at \in places

Tick ==
    /\ clock < MaxClock
    /\ clock' = clock + 1
    /\ UNCHANGED <<password, changedAt, links, sessions, task, raced>>

------------------------------------------------------------------------------
(* Asking for a link.  The transaction's first statement sees the links that *)
(* are committed when it starts; the second adds the new one.                *)

\* Mutant of AskCommits: the older links stay as they are.
AskKeepsOlder(r) ==
    /\ task[r].at = "asking"
    /\ Len(links) < MaxLinks
    /\ links' = Append(links, TRUE)
    /\ task' = [task EXCEPT ![r] = Free]
    /\ UNCHANGED <<clock, password, changedAt, sessions, raced>>

AskRevokes(r) ==
    /\ task[r].at = "idle"
    /\ task' = [task EXCEPT ![r] = [Free EXCEPT !.at = "asking", !.seen = Len(links)]]
    /\ raced' = IF Busy(r, {"asking"}) THEN raced \cup {"links"} ELSE raced
    /\ UNCHANGED <<clock, password, changedAt, links, sessions>>

AskCommits(r) ==
    /\ task[r].at = "asking"
    /\ Len(links) < MaxLinks
    /\ links' = Append([l \in DOMAIN links |-> links[l] /\ l > task[r].seen], TRUE)
    /\ task' = [task EXCEPT ![r] = Free]
    /\ UNCHANGED <<clock, password, changedAt, sessions, raced>>

------------------------------------------------------------------------------
(* Using a link.                                                             *)

\* The row is read, and the new password is hashed, which takes time.
ResetReads(r, l) ==
    /\ task[r].at = "idle" /\ links[l]
    /\ clock < MaxClock
    /\ clock' = clock + 1
    /\ task' = [task EXCEPT ![r] = [Free EXCEPT !.at = "hashing", !.link = l]]
    /\ raced' = IF Busy(r, Signing \cup Resetting) THEN raced \cup {"sessions"} ELSE raced
    /\ UNCHANGED <<password, changedAt, links, sessions>>

\* The time of the change is taken before the transaction.
ResetTimes(r) ==
    /\ task[r].at = "hashing"
    /\ task' = [task EXCEPT ![r].at = "resetting", ![r].now = clock]
    /\ UNCHANGED <<clock, password, changedAt, links, sessions, raced>>

\* Mutant of LinkClaimed: the link is marked by id.
LinkMarked(l) == TRUE

\* The statement that marks the link used checks that it is not.
LinkClaimed(l) == links[l]

\* One transaction: this link and every other live one are used up.
ResetCommits(r) ==
    /\ task[r].at = "resetting" /\ LinkClaimed(task[r].link)
    /\ password' = password + 1
    /\ changedAt' = task[r].now
    /\ links' = [l \in DOMAIN links |-> FALSE]
    /\ task' = [task EXCEPT ![r] = Free]
    /\ UNCHANGED <<clock, sessions, raced>>

------------------------------------------------------------------------------
(* Signing in, with the password of the moment.                              *)

SignInProves(r) ==
    /\ task[r].at = "idle"
    /\ task' = [task EXCEPT ![r] = [Free EXCEPT !.at = "proven", !.seen = password]]
    /\ raced' = IF Busy(r, Resetting) THEN raced \cup {"sessions"} ELSE raced
    /\ UNCHANGED <<clock, password, changedAt, links, sessions>>

\* The token is issued, with the time it is issued at.
SignInIssues(r) ==
    /\ task[r].at = "proven"
    /\ sessions' = sessions \cup {[password |-> task[r].seen, authTime |-> clock]}
    /\ task' = [task EXCEPT ![r] = Free]
    /\ UNCHANGED <<clock, password, changedAt, links, raced>>

\* A request fails or its server stops; an open transaction leaves nothing.
Stops(r) ==
    /\ task[r].at # "idle"
    /\ task' = [task EXCEPT ![r] = Free]
    /\ UNCHANGED <<clock, password, changedAt, links, sessions, raced>>

\* Mutant of Predates: the comparison lets the last moments in.
PredatesByTwo(s) == changedAt # 0 /\ s.authTime + 1 < changedAt

\* A session is honoured unless it predates the last change.
Predates(s) == changedAt # 0 /\ s.authTime < changedAt

Honoured == {s \in sessions : ~Predates(s)}

Next ==
    \/ Tick
    \/ \E r \in Requests :
        \/ AskRevokes(r) \/ AskCommits(r)
        \/ (\E l \in DOMAIN links : ResetReads(r, l)) \/ ResetTimes(r) \/ ResetCommits(r)
        \/ SignInProves(r) \/ SignInIssues(r)
        \/ Stops(r)

Spec == Init /\ [][Next]_signInVars

------------------------------------------------------------------------------
(* Properties.                                                               *)

Tasks == [at : {"idle", "asking", "hashing", "resetting", "proven"}, link : 0..MaxLinks,
          seen : Nat, now : 0..MaxClock]

\* Every variable holds a value of its type.
TypeOK ==
    /\ clock \in 1..MaxClock /\ password \in 0..MaxLinks /\ changedAt \in 0..MaxClock
    /\ links \in Seq(BOOLEAN) /\ Len(links) <= MaxLinks
    /\ sessions \subseteq [password : 0..MaxLinks, authTime : 1..MaxClock]
    /\ task \in [Requests -> Tasks]
    /\ raced \subseteq {"links", "sessions"}

\* Only the newest link sent works, however the requests for it, the resets
\* and the sign-ins follow each other, unless two are asked for at one time
\* (password-reset-service.ts:90).
NewestLinkOnly ==
    "links" \notin raced => \A l \in Live : l = Len(links)

\* A link sets the password at most once, and after that no link sent before
\* it does (password-reset-service.ts:158).
ResetsUseLinks == password + Cardinality(Live) <= Len(links)

\* A reset signs out every session that an older password opened: whoever is
\* let in has proven the password the account has, unless a sign-in or
\* another reset overlapped with the reset (session-context.ts:66).
OldPasswordOut == "sessions" \notin raced => \A s \in Honoured : s.password = password
=============================================================================
