---------------------------- MODULE InteriorTours ----------------------------
(* The 3D tours of one property: the organization's connection to the        *)
(* provider, the spaces known through it and their links to the property     *)
(* (matterport-service.ts, InteriorManager.tsx).                             *)
(*                                                                           *)
(* Every call asks the provider between what it reads and what it writes.    *)
(* The property is a site of capture jobs of different vendors; accepting    *)
(* the site ends the vendor's reach.  Events, the audit log and the health   *)
(* of the property (PropertyHealth.tla) are left out.                        *)
EXTENDS Integers, SequencesExt

CONSTANTS Spaces,       \* the space ids people paste or pick
          Real,         \* those of them the provider knows
          Sites,        \* the job sites that are this property
          Callers,      \* the requests the servers run at one time
          MaxCalls      \* bound on the calls

VARIABLES configured,  \* whether the deployment has the provider's credentials
          connection,  \* the organization's connection
          spaces,      \* the status of each space's row
          links,       \* the property's links, oldest first
          accepted,    \* the sites whose work was accepted
          touring,     \* what each request is doing
          calls        \* how many calls there were
tourVars == <<configured, connection, spaces, links, accepted, touring, calls>>

Own == "own"           \* not for a job site: the organization's
NoRow == "NO_ROW"
Connections == {NoRow, "NOT_CONFIGURED", "VIEWER_ONLY", "CONNECTED", "ERROR", "DISCONNECTED"}
Statuses == {NoRow, "UNVERIFIED", "READY", "ERROR"}
Away == [at |-> "idle", for |-> Own, space |-> NoRow]

TourInit ==
    /\ configured \in BOOLEAN
    /\ connection = NoRow
    /\ spaces = [s \in Spaces |-> NoRow]
    /\ links = <<>> /\ accepted = {}
    /\ touring = [c \in Callers |-> Away]
    /\ calls = 0

Step(c, at) == touring[c].at = at
Begins(c, row) ==
    /\ Step(c, "idle") /\ calls < MaxCalls /\ calls' = calls + 1
    /\ touring' = [touring EXCEPT ![c] = row]
Turn(c, row) == touring' = [touring EXCEPT ![c] = row] /\ UNCHANGED calls

\* Who may still act on the property (propertyScopeWhere).
Reaches(for) == for \notin accepted

\* Whom captureReviewWhere shows a link to: everybody, or reviewers and vendors.
Shown(l) == l.for = Own \/ l.for \in accepted
LinksOf(s) == {i \in DOMAIN links : links[i].space = s}

------------------------------------------------------------------------------
(* The organization's connection.                                            *)

\* connectMatterportForOrg; an administrator's retry is the same call.
AskToConnect(c) ==
    /\ configured
    /\ Begins(c, [Away EXCEPT !.at = "connecting"])
    /\ UNCHANGED <<configured, connection, spaces, links, accepted>>

Connect(c, works) ==
    /\ Step(c, "connecting")
    /\ connection' = IF works THEN "CONNECTED" ELSE "ERROR"
    /\ Turn(c, Away)
    /\ UNCHANGED <<configured, spaces, links, accepted>>

ConnectUnconfigured(c) ==
    /\ ~configured
    /\ connection' = "NOT_CONFIGURED"
    /\ Begins(c, Away)
    /\ UNCHANGED <<configured, spaces, links, accepted>>

DisconnectOrg(c) ==
    /\ connection # NoRow
    /\ connection' = "DISCONNECTED"
    /\ Begins(c, Away)
    /\ UNCHANGED <<configured, spaces, links, accepted>>

------------------------------------------------------------------------------
(* Linking a space.                                                          *)

\* linkSpaceToProperty; the connection is only looked at here.
AskSpace(c, for, s) ==
    /\ Reaches(for) /\ connection = "CONNECTED"
    /\ Begins(c, [Away EXCEPT !.at = "asking", !.for = for, !.space = s])
    /\ UNCHANGED <<configured, connection, spaces, links, accepted>>

\* A space the provider does not know ends the call.
PutAsked(c) ==
    /\ Step(c, "asking") /\ configured
    /\ LET s == touring[c].space IN
         IF s \in Real
         THEN spaces' = [spaces EXCEPT ![s] = "READY"] /\ Turn(c, [touring[c] EXCEPT !.at = "linking"])
         ELSE Turn(c, Away) /\ UNCHANGED spaces
    /\ UNCHANGED <<configured, connection, links, accepted>>

\* linkSpaceByIdDirect: a connection there is stays as it is.
PasteSpace(c, for, s) ==
    /\ Reaches(for)
    /\ connection' = IF connection = NoRow THEN "VIEWER_ONLY" ELSE connection
    /\ Begins(c, [Away EXCEPT !.at = "pasting", !.for = for, !.space = s])
    /\ UNCHANGED <<configured, spaces, links, accepted>>

\* So does a space.
Pasted(old) == IF old = NoRow THEN "UNVERIFIED" ELSE old

PutPasted(c) ==
    /\ Step(c, "pasting")
    /\ spaces' = [spaces EXCEPT ![touring[c].space] = Pasted(@)]
    /\ Turn(c, [touring[c] EXCEPT !.at = "linking"])
    /\ UNCHANGED <<configured, connection, links, accepted>>

\* A link there is stays as it is, whoever links again.
LinksAfter(s, for) ==
    IF LinksOf(s) = {} THEN Append(links, [space |-> s, for |-> for, by |-> for]) ELSE links

\* A vendor who has no open job here any more leaves no tag (reviewSiteIdForUpload).
PutLink(c) ==
    /\ Step(c, "linking")
    /\ links' = LinksAfter(touring[c].space, IF Reaches(touring[c].for) THEN touring[c].for ELSE Own)
    /\ Turn(c, Away)
    /\ UNCHANGED <<configured, connection, spaces, accepted>>

------------------------------------------------------------------------------
(* Refreshing and unlinking.                                                 *)

\* syncPropertyInterior takes the newest link, shown to its caller or not.
AskSync(c, for) ==
    /\ Reaches(for) /\ links # <<>>
    /\ Begins(c, [Away EXCEPT !.at = "syncing", !.for = for, !.space = Last(links).space])
    /\ UNCHANGED <<configured, connection, spaces, links, accepted>>

Sync(c) ==
    /\ Step(c, "syncing") /\ configured
    /\ spaces' = [spaces EXCEPT ![touring[c].space] = IF touring[c].space \in Real THEN "READY" ELSE "ERROR"]
    /\ Turn(c, Away)
    /\ UNCHANGED <<configured, connection, links, accepted>>

\* disconnectPropertyInterior takes any link, in no order and shown or not, and
\* deletes it if it is still there.
AskUnlink(c, for, i) ==
    /\ Reaches(for)
    /\ Begins(c, [Away EXCEPT !.at = "unlinking", !.for = for, !.space = links[i].space])
    /\ UNCHANGED <<configured, connection, spaces, links, accepted>>

Unlink(c) ==
    /\ Step(c, "unlinking")
    /\ \E i \in LinksOf(touring[c].space) : links' = RemoveAt(links, i)
    /\ Turn(c, Away)
    /\ UNCHANGED <<configured, connection, spaces, accepted>>

\* The provider cannot be reached, or the call breaks off.
GiveUp(c) ==
    /\ ~Step(c, "idle")
    /\ Turn(c, Away)
    /\ UNCHANGED <<configured, connection, spaces, links, accepted>>

\* A reviewer accepts a site whose tour is there.
AcceptTour(site) ==
    /\ site \notin accepted /\ links # <<>>
    /\ accepted' = accepted \cup {site}
    /\ UNCHANGED <<configured, connection, spaces, links, touring, calls>>

TourNext ==
    \/ \E c \in Callers :
         \/ AskToConnect(c) \/ ConnectUnconfigured(c) \/ DisconnectOrg(c)
         \/ \E works \in BOOLEAN : Connect(c, works)
         \/ \E for \in Sites \cup {Own} :
              \/ \E s \in Spaces : AskSpace(c, for, s) \/ PasteSpace(c, for, s)
              \/ AskSync(c, for)
              \/ \E i \in DOMAIN links : AskUnlink(c, for, i)
         \/ PutAsked(c) \/ PutPasted(c) \/ PutLink(c) \/ Sync(c) \/ Unlink(c) \/ GiveUp(c)
    \/ \E site \in Sites : AcceptTour(site)

TourSpec == TourInit /\ [][TourNext]_tourVars
------------------------------------------------------------------------------
\* Every variable holds a value of its type.
TourTypeOK ==
    /\ connection \in Connections
    /\ spaces \in [Spaces -> Statuses]
    /\ \A i \in DOMAIN links : links[i].space \in Spaces /\ links[i].for \in Sites \cup {Own}
    /\ accepted \subseteq Sites

\* A space is linked once, however many calls link it at one time, and every
\* linked space has a row.
LinkedOnce ==
    /\ \A i, j \in DOMAIN links : links[i].space = links[j].space => i = j
    /\ \A i \in DOMAIN links : spaces[links[i].space] # NoRow

\* A vendor's tour is not shown before its site is accepted, though the
\* organization or another vendor links the same space again (captureReviewWhere,
\* reviewSiteIdForUpload).
HeldUntilAccepted ==
    \A i \in DOMAIN links : links[i].by \in Sites \ accepted => ~Shown(links[i])

\* What the provider does not know is never called ready, and without the
\* provider's credentials nothing is called connected or ready: linking by id
\* confirms nothing (linkSpaceByIdDirect).
NothingIsClaimed ==
    /\ \A s \in Spaces : spaces[s] = "READY" => s \in Real /\ configured
    /\ ~configured => connection \notin {"CONNECTED", "ERROR"}

\* A space the provider has answered for never goes back to being unverified.
VerifiedStays ==
    \A s \in Spaces : spaces[s] \in {"READY", "ERROR"} => spaces'[s] # "UNVERIFIED"
=============================================================================
