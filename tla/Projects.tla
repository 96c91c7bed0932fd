------------------------------ MODULE Projects ------------------------------
(* Projects of one property with the documents and assessments filed under   *)
(* them (project-service.ts), by overlapping calls of its managers.          *)
(*                                                                           *)
(* Every call loads the project, checks what it asks for against what it     *)
(* loaded and writes later by id; one that finds the row gone is refused by  *)
(* the database.  Archiving, programs, the team and the texts of a project   *)
(* are left out: nothing here depends on them.                               *)
EXTENDS Integers, FiniteSets

CONSTANTS ProjectIds,    \* projects there can be
          Days,          \* dates people choose
          Documents,     \* documents of the property
          Surveys,       \* assessments that may be scheduled
          Managers,      \* the requests the servers run at one time
          MaxCalls       \* bound on the calls

VARIABLES dates,       \* of each project there is: [start, end]
          filed,       \* the project of each document
          scheduled,   \* the project of each assessment, once there is one
          managing,    \* what each request is doing
          calls,       \* how many calls there were
          mistold,     \* where what a deletion said differs from what it did
          crossed      \* history: the overlaps no statement guards against
projectVars == <<dates, filed, scheduled, managing, calls, mistold, crossed>>

None == 0      \* no date, no project
Unborn == -1   \* the assessment is not scheduled yet
Ends == {"start", "end"}
AtRest == [at |-> "idle", on |-> None, given |-> <<>>, item |-> None, to |-> None, was |-> None, counted |-> {}]

Exists(p) == p \in DOMAIN dates
UsesOf(p) == {d \in Documents : filed[d] = p} \cup {s \in Surveys : scheduled[s] = p}

ProjectInit ==
    /\ dates = <<>>
    /\ filed = [d \in Documents |-> None]
    /\ scheduled = [s \in Surveys |-> Unborn]
    /\ managing = [c \in Managers |-> AtRest]
    /\ calls = 0 /\ mistold = {} /\ crossed = {}

Does(c, at) == managing[c].at = at
Turns(c, row) == managing' = [managing EXCEPT ![c] = row]
Crosses(what, when) == crossed' = crossed \cup (IF when THEN {what} ELSE {})
Deleting(ps) == \E q \in Managers : Does(q, "deleting") /\ managing[q].on \in ps
Begins(c) == Does(c, "idle") /\ calls < MaxCalls /\ calls' = calls + 1
Others(c, at) == {q \in Managers \ {c} : Does(q, at) /\ managing[q].on = managing[c].on}

\* assertDates
InOrder(d) == d["start"] # None /\ d["end"] # None => d["start"] <= d["end"]

------------------------------------------------------------------------------
\* createProject; an id nobody remembers stands for a new one.
CreateProject(p, d) ==
    /\ ~Exists(p) /\ (\A q \in Managers : managing[q].on # p) /\ InOrder(d)
    /\ dates' = [q \in DOMAIN dates \cup {p} |-> IF q = p THEN d ELSE dates[q]]
    /\ UNCHANGED <<filed, scheduled, managing, mistold, crossed, calls>>

\* The dates a project is checked with: those given and those it has.
Merged(given, old) == [e \in Ends |-> IF e \in DOMAIN given THEN given[e] ELSE old[e]]

\* updateProject loads the project and checks; given are the dates it names.
LoadUpdate(c, p, given) ==
    /\ Begins(c) /\ Exists(p) /\ InOrder(Merged(given, dates[p]))
    /\ Turns(c, [AtRest EXCEPT !.at = "updating", !.on = p, !.given = given])
    /\ UNCHANGED <<dates, filed, scheduled, mistold, crossed>>

\* Only what was given is written.
UpdateProject(c) ==
    /\ Does(c, "updating")
    /\ LET p == managing[c].on IN
         IF Exists(p)
         THEN /\ dates' = [dates EXCEPT ![p] = [e \in Ends |-> IF e \in DOMAIN managing[c].given
                                                               THEN managing[c].given[e] ELSE @[e]]]
              /\ Crosses("dates", Others(c, "updating") # {})
         ELSE UNCHANGED <<dates, crossed>>
    /\ Turns(c, AtRest)
    /\ UNCHANGED <<filed, scheduled, mistold, calls>>

------------------------------------------------------------------------------
(* What is filed under a project.                                            *)

\* setDocumentProject; a document filed elsewhere is not taken out.
MayFile(p, d, attached) == attached \/ filed[d] = p

LoadFiling(c, p, d, attached) ==
    /\ Begins(c) /\ Exists(p) /\ MayFile(p, d, attached)
    /\ Turns(c, [AtRest EXCEPT !.at = "filing", !.on = p, !.item = d, !.was = filed[d],
                               !.to = IF attached THEN p ELSE None])
    /\ UNCHANGED <<dates, filed, scheduled, mistold, crossed>>

FileDocument(c) ==
    /\ Does(c, "filing")
    /\ LET to == managing[c].to
           d == managing[c].item
       IN IF to = None \/ Exists(to)
          THEN filed' = [filed EXCEPT ![d] = to]
               /\ crossed' = crossed \cup (IF filed[d] # managing[c].was THEN {"filing"} ELSE {})
                                     \cup (IF Deleting({to, filed[d]}) THEN {"uses"} ELSE {})
          ELSE UNCHANGED <<filed, crossed>>
    /\ Turns(c, AtRest)
    /\ UNCHANGED <<dates, scheduled, mistold, calls>>

\* assertProjectForAssessment, and the assessment.
LoadSchedule(c, p, s) ==
    /\ Begins(c) /\ Exists(p) /\ scheduled[s] = Unborn
    /\ \A q \in Managers : managing[q].item # s
    /\ Turns(c, [AtRest EXCEPT !.at = "scheduling", !.on = p, !.item = s])
    /\ UNCHANGED <<dates, filed, scheduled, mistold, crossed>>

ScheduleUnder(c) ==
    /\ Does(c, "scheduling")
    /\ scheduled' = [scheduled EXCEPT ![managing[c].item] = IF Exists(managing[c].on) THEN managing[c].on ELSE @]
    /\ Crosses("uses", Deleting({managing[c].on}))
    /\ Turns(c, AtRest)
    /\ UNCHANGED <<dates, filed, mistold, calls>>

------------------------------------------------------------------------------
(* Deleting a project.                                                       *)

\* What a deletion says it takes off the project.
Unlinked(p) == UsesOf(p)

CountUses(c, p) ==
    /\ Begins(c) /\ Exists(p)
    /\ Turns(c, [AtRest EXCEPT !.at = "deleting", !.on = p, !.counted = Unlinked(p)])
    /\ UNCHANGED <<dates, filed, scheduled, mistold, crossed>>

\* The database takes the project off whatever is filed under it.
DeleteProject(c) ==
    /\ Does(c, "deleting")
    /\ LET p == managing[c].on IN
         IF Exists(p)
         THEN /\ dates' = [q \in DOMAIN dates \ {p} |-> dates[q]]
              /\ filed' = [d \in Documents |-> IF filed[d] = p THEN None ELSE filed[d]]
              /\ scheduled' = [s \in Surveys |-> IF scheduled[s] = p THEN None ELSE scheduled[s]]
              /\ mistold' = (managing[c].counted \cup UsesOf(p)) \ (managing[c].counted \cap UsesOf(p))
         ELSE UNCHANGED <<dates, filed, scheduled, mistold>>
    /\ Turns(c, AtRest)
    /\ UNCHANGED <<calls, crossed>>

ProjectNext ==
    \/ \E p \in ProjectIds, d \in [Ends -> Days \cup {None}] : CreateProject(p, d)
    \/ \E c \in Managers :
         \/ \E p \in ProjectIds, es \in SUBSET Ends \ {{}} :
              \E given \in [es -> Days \cup {None}] : LoadUpdate(c, p, given)
         \/ UpdateProject(c)
         \/ \E p \in ProjectIds, d \in Documents, attached \in BOOLEAN : LoadFiling(c, p, d, attached)
         \/ FileDocument(c)
         \/ \E p \in ProjectIds, s \in Surveys : LoadSchedule(c, p, s)
         \/ ScheduleUnder(c)
         \/ \E p \in ProjectIds : CountUses(c, p)
         \/ DeleteProject(c)

ProjectSpec == ProjectInit /\ [][ProjectNext]_projectVars
------------------------------------------------------------------------------
\* Every variable holds a value of its type.
ProjectTypeOK ==
    /\ DOMAIN dates \subseteq ProjectIds
    /\ \A p \in DOMAIN dates : dates[p] \in [Ends -> Days \cup {None}]
    /\ filed \in [Documents -> ProjectIds \cup {None}]
    /\ scheduled \in [Surveys -> ProjectIds \cup {None, Unborn}]
    /\ crossed \subseteq {"dates", "filing", "uses"}

\* "A project cannot end before it starts" (assertDates, project-service.ts:44).
DatesInOrder == \A p \in DOMAIN dates : InOrder(dates[p])

\* A project does not end before it starts, whichever of its dates an update
\* names, unless two updates of it overlapped.
DatesInOrderAlone == "dates" \notin crossed => DatesInOrder

\* A deletion says what it took off the project, unless somebody filed or
\* scheduled something meanwhile.
UnlinkedIsTold == "uses" \notin crossed => mistold = {}

\* No record is filed under a project there is not.
FiledUnderProjects ==
    /\ \A d \in Documents : filed[d] = None \/ Exists(filed[d])
    /\ \A s \in Surveys : scheduled[s] \in {None, Unborn} \/ Exists(scheduled[s])

\* Taking a document out of one project never takes it out of another one it
\* was filed under since (setDocumentProject returns early): a document that
\* leaves a project while it exists goes where a call puts it, or leaves by a
\* call about that project; unless it moved between the check and the write.
DetachSpares ==
    "filing" \notin crossed' =>
      \A d \in Documents : filed[d] # None /\ filed'[d] = None /\ filed[d] \in DOMAIN dates' =>
        \E c \in Managers : managing[c].at = "filing" /\ managing[c].item = d /\ managing[c].on = filed[d]
=============================================================================
