---------------------------- MODULE SupportAccess ---------------------------
(* Support staff who look into a customer's account (impersonation.ts), and  *)
(* the customer's switch that lets them.  A session is a row; a cookie names *)
(* it, and every request resolves it again.                                  *)
EXTENDS Naturals, FiniteSets, Sequences

CONSTANTS Admins,       \* support staff, each a platform admin
          Customers,    \* the organizations
          Calls,        \* the requests the servers run at one time
          MaxSessions   \* bound: sessions ever started

VARIABLES allow,     \* the customers that allow support access
          visits,    \* the sessions: whose, in whose account, on its audit log, and open or not
          cookie,    \* the session each admin's browser names; 0 is none
          strayed,   \* sessions a browser was not told of, or forgot
          call,      \* what each request is doing, and with which session
          met        \* kinds of requests that have overlapped
supportVars == <<allow, visits, cookie, strayed, call, met>>

Resting == [at |-> "idle", admin |-> "none", customer |-> "none", visit |-> 0]

Init ==
    /\ allow = Customers /\ visits = <<>>
    /\ cookie = [a \in Admins |-> 0] /\ strayed = {}
    /\ call = [r \in Calls |-> Resting]
    /\ met = {}

Close(which(_)) == [v \in DOMAIN visits |->
                      IF which(visits[v]) THEN [visits[v] EXCEPT !.open = FALSE] ELSE visits[v]]
\* Another call is at one of these places, for the same admin or customer.
Meets(r, places, a, c) ==
    \E q \in Calls \ {r} : call[q].at \in places /\ (call[q].admin = a \/ call[q].customer = c)

------------------------------------------------------------------------------
(* Starting: the customer's switch is read, sessions the admin has open are  *)
(* ended, the new one is created, the customer's audit log tells of it, and  *)
(* the answer sets the cookie, in statements of their own.                   *)

Starting == {"starting", "ended", "created", "audited"}

StartReads(r, a, c) ==
    /\ call[r].at = "idle" /\ c \in allow
    /\ call' = [call EXCEPT ![r] = [at |-> "starting", admin |-> a, customer |-> c, visit |-> 0]]
    /\ met' = met \cup (IF Meets(r, Starting, a, "nobody") THEN {"start"} ELSE {})
                  \cup (IF Meets(r, {"switching"}, "nobody", c) THEN {"switch"} ELSE {})
    /\ UNCHANGED <<allow, visits, cookie, strayed>>

\* One active session per admin: endActiveSessionsForAdmin.
StartEnds(r) ==
    /\ call[r].at = "starting"
    /\ visits' = LET OfAdmin(v) == v.admin = call[r].admin IN Close(OfAdmin)
    /\ call' = [call EXCEPT ![r].at = "ended"]
    /\ UNCHANGED <<allow, cookie, strayed, met>>

StartCreates(r) ==
    /\ call[r].at = "ended" /\ Len(visits) < MaxSessions
    /\ visits' = Append(visits, [admin |-> call[r].admin, customer |-> call[r].customer,
                                 logged |-> FALSE, open |-> TRUE])
    /\ call' = [call EXCEPT ![r].at = "created", ![r].visit = Len(visits) + 1]
    /\ UNCHANGED <<allow, cookie, strayed, met>>

StartAudits(r) ==
    /\ call[r].at = "created"
    /\ visits' = [visits EXCEPT ![call[r].visit].logged = TRUE]
    /\ call' = [call EXCEPT ![r].at = "audited"]
    /\ UNCHANGED <<allow, cookie, strayed, met>>

StartAnswers(r) ==
    /\ call[r].at = "audited"
    /\ cookie' = [cookie EXCEPT ![call[r].admin] = call[r].visit]
    /\ call' = [call EXCEPT ![r] = Resting]
    /\ UNCHANGED <<allow, visits, strayed, met>>

------------------------------------------------------------------------------
(* Requests under a session, and its end.                                    *)

\* resolveImpersonation closes a session that it finds revoked, or expired.
ResolveCloses(a) ==
    LET v == cookie[a] IN
    /\ v # 0 /\ visits[v].open
    /\ visits' = [visits EXCEPT ![v].open = FALSE]
    /\ UNCHANGED <<allow, cookie, strayed, call, met>>

\* A browser drops its cookie, whatever session it names by then.
Drops(a) ==
    /\ cookie' = [cookie EXCEPT ![a] = 0]
    /\ strayed' = strayed \cup ({cookie[a]} \ {0})

\* The cookie expires with its session, whose row nobody closes then.
CookieExpires(a) == cookie[a] # 0 /\ Drops(a) /\ UNCHANGED <<allow, visits, call, met>>

\* The end of the session the cookie names.
EndReads(r, a) ==
    /\ call[r].at = "idle" /\ cookie[a] # 0
    /\ call' = [call EXCEPT ![r] = [at |-> "ending", admin |-> a, customer |-> "none", visit |-> cookie[a]]]
    /\ UNCHANGED <<allow, visits, cookie, strayed, met>>

EndCloses(r) ==
    /\ call[r].at = "ending"
    /\ visits' = [visits EXCEPT ![call[r].visit].open = FALSE]
    /\ call' = [call EXCEPT ![r].at = "answering"]
    /\ UNCHANGED <<allow, cookie, strayed, met>>

\* The answer drops the cookie, also when the session could not be closed.
EndAnswers(r) ==
    /\ call[r].at \in {"ending", "answering"}
    /\ Drops(call[r].admin)
    /\ call' = [call EXCEPT ![r] = Resting]
    /\ UNCHANGED <<allow, visits, met>>

------------------------------------------------------------------------------
(* The customer's switch: two statements.                                    *)

SwitchWrites(r, c, on) ==
    /\ call[r].at = "idle"
    /\ allow' = IF on THEN allow \cup {c} ELSE allow \ {c}
    /\ call' = IF on THEN call
               ELSE [call EXCEPT ![r] = [at |-> "switching", admin |-> "none", customer |-> c, visit |-> 0]]
    /\ met' = IF Meets(r, {"starting", "ended", "switching"}, "nobody", c) THEN met \cup {"switch"} ELSE met
    /\ UNCHANGED <<visits, cookie, strayed>>

\* Turning it off stops the sessions that are running.
SwitchEnds(r) ==
    /\ call[r].at = "switching"
    /\ visits' = LET There(v) == v.customer = call[r].customer IN Close(There)
    /\ call' = [call EXCEPT ![r] = Resting]
    /\ UNCHANGED <<allow, cookie, strayed, met>>

\* A statement of a request fails, its server stops, or its answer is lost.
Fails(r) ==
    /\ call[r].at # "idle"
    /\ call' = [call EXCEPT ![r] = Resting]
    /\ strayed' = IF call[r].at \in {"created", "audited"} THEN strayed \cup {call[r].visit} ELSE strayed
    /\ met' = IF call[r].at = "switching" THEN met \cup {"switch"} ELSE met
    /\ UNCHANGED <<allow, visits, cookie>>

Next ==
    \/ \E r \in Calls :
        \/ \E a \in Admins, c \in Customers : StartReads(r, a, c)
        \/ StartEnds(r) \/ StartCreates(r) \/ StartAudits(r) \/ StartAnswers(r)
        \/ \E a \in Admins : EndReads(r, a)
        \/ EndCloses(r) \/ EndAnswers(r)
        \/ \E c \in Customers, on \in BOOLEAN : SwitchWrites(r, c, on)
        \/ SwitchEnds(r) \/ Fails(r)
    \/ \E a \in Admins : ResolveCloses(a) \/ CookieExpires(a)

Spec == Init /\ [][Next]_supportVars

------------------------------------------------------------------------------
(* Properties.                                                               *)

Open(a) == {v \in DOMAIN visits : visits[v].admin = a /\ visits[v].open}

\* A request is about to tell the browser of a session.
Announced(v) == \E r \in Calls : call[r].at \in {"created", "audited"} /\ call[r].visit = v

\* Every variable holds a value of its type; a cookie names a session of its
\* admin's.
TypeOK ==
    /\ allow \subseteq Customers
    /\ Len(visits) <= MaxSessions
    /\ \A v \in DOMAIN visits :
          visits[v] \in [admin : Admins, customer : Customers, logged : BOOLEAN, open : BOOLEAN]
    /\ \A a \in Admins : cookie[a] # 0 => /\ cookie[a] \in DOMAIN visits
                                          /\ visits[cookie[a]].admin = a
    /\ strayed \subseteq DOMAIN visits
    /\ call \in [Calls -> [at : Starting \cup {"idle", "switching", "ending", "answering"},
                           admin : Admins \cup {"none"}, customer : Customers \cup {"none"},
                           visit : 0..MaxSessions]]
    /\ met \subseteq {"start", "switch"}

\* An admin has one session open at most, unless two are started at one time,
\* and none is left running unaccounted for (impersonation.ts:82): their browser
\* names it, or is about to be told, unless the start broke off between the
\* session and the cookie, or the cookie was dropped before the session was
\* closed.  The next start ends such a session, too.
OneSession ==
    "start" \notin met =>
        \A a \in Admins :
            /\ Cardinality(Open(a)) <= 1
            /\ \A v \in Open(a) : v = cookie[a] \/ v \in strayed \/ Announced(v)

\* No browser is given a session the customer's audit log does not tell of
\* (impersonation.ts:97).
LoggedFirst == \A a \in Admins : cookie[a] # 0 => visits[cookie[a]].logged

\* Once a customer has switched support access off, no session in its account
\* is open, so none comes back to life when it is switched on again - unless
\* one was being started, or the request broke off (impersonation.ts:244).
SwitchedOffIsOut ==
    "switch" \notin met =>
        \A c \in Customers \ allow :
            (\E r \in Calls : call[r].at = "switching" /\ call[r].customer = c)
            \/ \A v \in DOMAIN visits : visits[v].customer = c => ~visits[v].open
=============================================================================
