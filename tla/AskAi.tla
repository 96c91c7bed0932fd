-------------------------------- MODULE AskAi --------------------------------
(* One question asked of the assistant: gateway.ts, the functions it may call *)
(* (tools.ts) and the loop the three providers share.                         *)
(*                                                                            *)
(* The model is outside: a reply of it is an answer or a list of calls, of    *)
(* any function with any argument or none.  A function reads records, and a   *)
(* record stands for its building.  Most functions look only among the        *)
(* buildings the asker may see; those of documents, evidence and the exposure *)
(* of one building do not ask, so that a question about no building may be    *)
(* told of others.  What a function read is given to the model, unless the    *)
(* question is about one building and the record turns out to be of another.  *)
(* A summary of all the buildings names none as its source, and a link to a   *)
(* report names one without reading it.                                       *)
EXTENDS Integers, Sequences, FiniteSets

CONSTANTS Buildings,
          NoBuilding,      \* also whose the documents of no building are
          Calls,           \* what the model may call for: [tool, of]
          MaxIterations,   \* 8 in every provider
          MaxCalls         \* bound on the calls of one reply

VARIABLES standing,   \* the buildings there are
          question,   \* [at, sees, wanted, verified, tokens, saw, called] of the request
          calls,      \* of the last reply, those not answered yet
          turns,      \* the conversation: how many calls each reply had, and answers it got
          told, refs, \* whose records the model was given, and the answer will name
          aside,      \* whose records it names without: not given, or linked to
          billed,     \* what the provider reported over all requests of the loop
          books,      \* [request, input, output] metered
          logged,     \* AIQueryLog: whether the data were sufficient, or "none"
          dropped     \* the rows of the books that were not written
askVars == <<standing, question, calls, turns, told, refs, aside, billed, books, logged, dropped>>

Tools == {"summary", "property", "list", "asset", "files", "exposure", "report", "unheard"}
Rows == {"request", "input", "output"}
Missing == NoBuilding     \* a call without its argument, or with one that is not JSON

Init ==
    /\ standing = Buildings
    /\ question = [at |-> "idle", sees |-> {}, wanted |-> NoBuilding, verified |-> NoBuilding,
                   tokens |-> 0, saw |-> FALSE, called |-> FALSE]
    /\ calls = <<>> /\ turns = <<>>
    /\ told = {} /\ refs = {} /\ aside = {}
    /\ billed = 0 /\ books = [row \in Rows |-> 0]
    /\ logged = "none" /\ dropped = {}

Moves(to) == question' = [question EXCEPT !.at = to]

\* Whose question it is, and what the asker sees, was settled by the session; a
\* building is looked up among those, and without one nothing is scoped.
Ask(wanted, sees) ==
    /\ question.at = "idle"
    /\ question' = [question EXCEPT !.at = "model", !.sees = sees, !.wanted = wanted,
                      !.verified = IF wanted \in standing \cap sees THEN wanted ELSE NoBuilding]
    /\ UNCHANGED <<standing, calls, turns, told, refs, aside, billed, books, logged, dropped>>

Scoped == question.verified # NoBuilding

------------------------------------------------------------------------------
(* The loop.                                                                  *)

\* Mutant of Summed: the usage of the last reply stands for all of them.
SummedLast(reported) == reported

\* Every turn resends the conversation, so usage is summed over the turns.
Summed(reported) == question.tokens + reported

\* A reply of the model; no usage is not a usage of nothing.  Tokens in and
\* tokens out are counted alike, by the same sums.
Reply(next, reported, saw) ==
    /\ question.at = "model" /\ Len(turns) < MaxIterations
    /\ calls' = next
    /\ turns' = IF next = <<>> THEN turns ELSE Append(turns, [calls |-> Len(next), answers |-> 0])
    /\ billed' = billed + reported
    /\ question' = [question EXCEPT !.at = IF next = <<>> THEN "answered" ELSE "tools",
                      !.tokens = IF saw THEN Summed(reported) ELSE @, !.saw = @ \/ saw]
    /\ UNCHANGED <<standing, told, refs, aside, books, logged, dropped>>

\* Out of iterations: the loop answers that it did not finish.
OutOfBudget ==
    /\ question.at = "model" /\ Len(turns) = MaxIterations
    /\ Moves("answered")
    /\ UNCHANGED <<standing, calls, turns, told, refs, aside, billed, books, logged, dropped>>

\* No key is configured, or a request to the provider fails: nothing is
\* metered and nothing logged, whatever earlier turns have cost.
ProviderFails ==
    /\ question.at = "model"
    /\ Moves("ended")
    /\ UNCHANGED <<standing, calls, turns, told, refs, aside, billed, books, logged, dropped>>

\* The functions a question may call; portfolio-wide ones are not among those
\* of a question about one building.
Toolset == Tools \ IF Scoped THEN {"summary", "unheard"} ELSE {"unheard"}

\* The building a function is asked for: in a question about one building that
\* is the one, except for an asset, which has an id of its own.
Forced(call) == IF Scoped /\ call.tool # "asset" THEN question.verified ELSE call.of

\* A function that looks at all buildings at once: the summary, and the exposure
\* of no building in particular.
Portfolio(call) == call.tool = "summary" \/ (call.tool = "exposure" /\ Forced(call) = Missing)

\* Whose records a function may read.  A condition without a value is no
\* condition: any record will do, and a document of no building, too.
Matching(call) ==
    LET within == CASE call.tool = "exposure" -> standing
                    [] call.tool = "files" -> standing \cup {NoBuilding}
                    [] OTHER -> standing \cap question.sees
    IN  IF Forced(call) = Missing THEN within ELSE within \cap {Forced(call)}

\* What it may find there: lists of any length, and one record or none.  Of a
\* building itself it finds one if there is one.
Found(call) ==
    CASE Portfolio(call) -> {standing \cap question.sees}
      [] call.tool \in {"list", "files"} -> SUBSET Matching(call)
      [] call.tool = "report" -> {{}}
      [] call.tool = "property" /\ Matching(call) # {} -> {{b} : b \in Matching(call)}
      [] OTHER -> {{}} \cup {{b} : b \in Matching(call)}

\* What the model gets of it: an asset of another building is not found.
Given(call, found) ==
    IF Scoped /\ call.tool = "asset" THEN found \cap {question.verified} ELSE found

\* What a function notes as sources, before its result is looked at.
Noted(call, found) ==
    CASE Portfolio(call) -> {}
      [] call.tool = "report" -> {Forced(call)} \ {Missing}
      [] OTHER -> found

\* A call is answered, with what is given or with what went wrong.
Answer(given, noted) ==
    /\ question.at = "tools"
    /\ calls' = Tail(calls)
    /\ turns' = [turns EXCEPT ![Len(turns)].answers = @ + 1]
    /\ told' = told \cup given
    /\ refs' = refs \cup noted
    /\ aside' = aside \cup (noted \ given)
    /\ question' = [question EXCEPT !.at = IF Tail(calls) = <<>> THEN "model" ELSE @,
                      !.called = @ \/ Head(calls).tool \in Toolset]
    /\ UNCHANGED <<standing, billed, books, logged, dropped>>

RunTool ==
    /\ question.at = "tools"
    /\ LET call == Head(calls)
       IN  IF call.tool \in Toolset
           THEN \E found \in Found(call) : Answer(Given(call, found), Noted(call, found))
           ELSE Answer({}, {})

\* getProperty and getProperties note a building before they read more about it.
NotesFirst(call) == call.tool \in {"property", "list"} \cap Toolset /\ (call.tool = "list" => ~Scoped)

\* A read fails: what was noted until then stays a source.
ToolFails ==
    /\ question.at = "tools"
    /\ \/ Answer({}, {})
       \/ /\ NotesFirst(Head(calls))
          /\ \E found \in Found(Head(calls)) : Answer({}, found)

------------------------------------------------------------------------------
(* The books.                                                                 *)

\* What a row should say.
Owed == [request |-> 1, input |-> billed, output |-> billed]

\* recordUsage swallows every failure of the insert; one that names a building
\* fails when it has gone.  Nothing is recorded of nothing.
RecordUsage(row, quantity) ==
    \E kept \in BOOLEAN :
      /\ Scoped /\ question.verified \notin standing => ~kept
      /\ books' = IF kept THEN [books EXCEPT ![row] = quantity] ELSE books
      /\ dropped' = IF kept \/ quantity = 0 THEN dropped ELSE dropped \cup {row}

\* The analytics event before it is not on the books.
MeterRequest ==
    /\ question.at = "answered"
    /\ RecordUsage("request", 1)
    /\ Moves(IF question.saw THEN "input" ELSE "log")
    /\ UNCHANGED <<standing, calls, turns, told, refs, aside, billed, logged>>

MeterInput ==
    /\ question.at = "input"
    /\ RecordUsage("input", question.tokens)
    /\ Moves("output")
    /\ UNCHANGED <<standing, calls, turns, told, refs, aside, billed, logged>>

MeterOutput ==
    /\ question.at = "output"
    /\ RecordUsage("output", question.tokens)
    /\ Moves("log")
    /\ UNCHANGED <<standing, calls, turns, told, refs, aside, billed, logged>>

WriteLog ==
    /\ question.at = "log"
    /\ logged' = IF refs # {} \/ ~question.called THEN "sufficient" ELSE "insufficient"
    /\ Moves("ended")
    /\ UNCHANGED <<standing, calls, turns, told, refs, aside, billed, books, dropped>>

\* The server stops.
AskCutOff ==
    /\ question.at \notin {"idle", "ended"}
    /\ Moves("ended")
    /\ UNCHANGED <<standing, calls, turns, told, refs, aside, billed, books, logged, dropped>>

\* A building is deleted.
Demolish(b) ==
    /\ b \in standing /\ standing' = standing \ {b}
    /\ UNCHANGED <<question, calls, turns, told, refs, aside, billed, books, logged, dropped>>

Replies == UNION {[1..n -> Calls] : n \in 0..MaxCalls}

Next ==
    \/ \E wanted \in Buildings \cup {NoBuilding}, sees \in SUBSET Buildings : Ask(wanted, sees)
    \/ \E next \in Replies : \/ Reply(next, 1, TRUE)
                             \/ Reply(next, 0, FALSE)
    \/ OutOfBudget \/ ProviderFails
    \/ RunTool \/ ToolFails
    \/ MeterRequest \/ MeterInput \/ MeterOutput \/ WriteLog \/ AskCutOff
    \/ \E b \in Buildings : Demolish(b)

Spec == Init /\ [][Next]_askVars
------------------------------------------------------------------------------
\* Every variable holds a value of its type.
TypeOK ==
    /\ standing \cup question.sees \subseteq Buildings
    /\ Calls \subseteq [tool : Tools, of : Buildings \cup {Missing}]
    /\ question.at \in {"idle", "model", "tools", "answered", "input", "output", "log", "ended"}
    /\ Len(turns) <= MaxIterations
    /\ told \cup refs \cup aside \subseteq Buildings \cup {NoBuilding}
    /\ dropped \subseteq Rows
    /\ logged \in {"none", "sufficient", "insufficient"}

\* A question about one building is answered from that building, whatever
\* functions the model calls with whatever arguments (scopeToolsToProperty),
\* and also when records are deleted meanwhile.
ScopedStaysThere == Scoped => told \subseteq {question.verified}

\* The conversation a provider gets has an answer for every call of every
\* earlier reply, failed or unknown ones included: without it the provider
\* refuses the next request.
CallsAreAnswered ==
    question.at \in {"model", "answered"} =>
      /\ calls = <<>>
      /\ \A i \in DOMAIN turns : turns[i].answers = turns[i].calls

\* Once a question is on the log, its request is metered and so is what the
\* provider reported over all turns, tokens in and out (AITokenUsage: "summed
\* across every iteration"), except for rows that could not be written: one that
\* is lost takes no other with it, and a question is never charged for a part of
\* its turns.
AnsweredIsMetered ==
    /\ logged # "none" => \A row \in Rows : books[row] = IF row \in dropped THEN 0 ELSE Owed[row]
    /\ \A row \in Rows : books[row] \in {0, Owed[row]}

\* What a question about one building was told is named as its source, and the
\* log calls data sufficient when there were some and only then, apart from
\* sources that were only named (gateway.ts:266), those of a call that failed
\* after it had noted them among them.
SourcesAreNamed ==
    /\ Scoped => told \subseteq refs
    /\ logged = "sufficient" /\ question.called => told # {} \/ aside # {}
    /\ logged = "insufficient" /\ Scoped => told = {}

\* A question about one building is never answered from others (the comment
\* in askPropertyAI: a stale id "must not silently fall back to unscoped"):
\* what the code does not keep once the building has gone.
NeverUnscoped == question.wanted # NoBuilding => told \subseteq {question.wanted}
==============================================================================
