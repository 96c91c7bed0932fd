---------------------------- MODULE RecordsProofs ----------------------------
(* Proofs about AskAi, for any buildings, functions and limits of the loop,    *)
(* about SitePlans and Projects, for any number of overlapping requests, about *)
(* StorageTiering, for any number of objects and passes, about CostMetering,   *)
(* for any usage and rates, and about ImportJobs, for any files and any number *)
(* of overlapping commits and rollbacks.                                       *)
EXTENDS MCRecords, TLAPS, FiniteSetTheorems, SequenceTheorems, WellFoundedInduction

-------------------------------------------------------------------------------
(* AskAi: the invariant.                                                       *)

Stages == {"idle", "model", "tools", "answered", "input", "output", "log", "ended"}
Places == Buildings \cup {NoBuilding}
Question == [at : Stages, sees : SUBSET Buildings, wanted : Buildings \cup {NoBuilding}, verified : Buildings \cup {NoBuilding},
             tokens : Nat, saw : BOOLEAN, called : BOOLEAN]
Turn == [calls : Nat, answers : Nat]

AskTyped ==
    /\ standing \subseteq Buildings /\ question \in Question
    /\ calls \in Seq(AiCalls) /\ turns \in Seq(Turn) /\ Len(turns) <= MaxIterations
    /\ told \subseteq Places /\ refs \subseteq Places /\ aside \subseteq Places
    /\ billed \in Nat /\ books \in [Q!Rows -> Nat]
    /\ logged \in {"none", "sufficient", "insufficient"} /\ dropped \subseteq Q!Rows

\* What the conversation still owes: the calls of the last reply that wait,
\* and nothing of the replies before.
Answered(i) == turns[i].answers = turns[i].calls
Conversation ==
    /\ question.at \in {"idle", "model", "answered"} => calls = <<>> /\ \A i \in DOMAIN turns : Answered(i)
    /\ question.at = "tools" =>
         /\ calls # <<>> /\ turns # <<>>
         /\ turns[Len(turns)].calls = turns[Len(turns)].answers + Len(calls)
         /\ \A i \in DOMAIN turns : i # Len(turns) => Answered(i)

\* How far the books are: a row is blank until its turn comes, and then it says
\* what all turns have cost, or is lost.
Blank(row) == books[row] = 0 /\ row \notin dropped
Settled(row) == books[row] = IF row \in dropped THEN 0 ELSE Q!Owed[row]
Metering ==
    /\ question.tokens = billed /\ (~question.saw => billed = 0)
    /\ question.at \in {"idle", "model", "tools", "answered"} => \A row \in Q!Rows : Blank(row)
    /\ question.at = "input" => Settled("request") /\ Blank("input") /\ Blank("output")
    /\ question.at = "output" => Settled("request") /\ Settled("input") /\ Blank("output")
    /\ question.at = "log" \/ logged # "none" => \A row \in Q!Rows : Settled(row)
    /\ \A row \in Q!Rows : Blank(row) \/ Settled(row)
    /\ logged # "none" => question.at = "ended"

\* Where the sources come from.
Sources ==
    /\ question.at = "idle" => told = {}
    /\ Q!Scoped => told \subseteq {question.verified} /\ told \subseteq refs
    /\ refs \subseteq told \cup aside
    /\ logged = "sufficient" /\ question.called => refs # {}
    /\ logged = "insufficient" => refs = {}

AskInv == AskTyped /\ Conversation /\ Metering /\ Sources

LEMMA AskInvInit == Q!Init => AskInv
  <1> SUFFICES ASSUME Q!Init PROVE AskInv
    OBVIOUS
  <1>1. AskTyped
    <2>1. question \in Question
      BY Zenon DEF Q!Init, Question, Stages
    <2>2. <<>> \in Seq(AiCalls) /\ <<>> \in Seq(Turn) /\ Len(turns) = 0
      BY DEF Q!Init
    <2>3. MaxIterations \in Nat
      BY RecordsAssumption, Zenon
    <2>4. /\ standing = Buildings /\ calls = <<>> /\ turns = <<>> /\ told = {} /\ refs = {} /\ aside = {}
          /\ billed = 0 /\ books = [row \in Q!Rows |-> 0] /\ logged = "none" /\ dropped = {}
      BY Zenon DEF Q!Init
    <2>5. books \in [Q!Rows -> Nat]
      BY <2>4
    <2> QED
      BY <2>1, <2>2, <2>3, <2>4, <2>5 DEF AskTyped
  <1>2. Conversation /\ Metering /\ Sources
    BY DEF Q!Init, Conversation, Metering, Blank, Sources, Q!Scoped, Answered
  <1> QED
    BY <1>1, <1>2 DEF AskInv

\* A question that goes on to another stage.
LEMMA Moved ==
    ASSUME question \in Question, NEW to \in Stages, question' = [question EXCEPT !.at = to]
    PROVE  /\ question' \in Question /\ question'.at = to
           /\ question'.verified = question.verified /\ question'.tokens = question.tokens
           /\ question'.saw = question.saw /\ question'.called = question.called
  BY DEF Question

\* Steps that only move the question on, and steps of the world around it.
LEMMA AskStepTail ==
    ASSUME AskInv, UNCHANGED <<standing, calls, turns, told, refs, aside, billed, books, logged, dropped>>,
           question' = [question EXCEPT !.at = "ended"] \/ question' = [question EXCEPT !.at = "answered"],
           question.at # "idle",
           question'.at = "answered" => question.at = "model"
    PROVE  AskInv'
  <1>1. PICK to \in {"ended", "answered"} : question' = [question EXCEPT !.at = to]
    OBVIOUS
  <1>2. /\ question \in Question /\ to \in Stages
    BY <1>1 DEF AskInv, AskTyped, Stages
  <1>3. /\ question' \in Question /\ question'.at = to
        /\ question'.verified = question.verified /\ question'.tokens = question.tokens
        /\ question'.saw = question.saw /\ question'.called = question.called
    BY <1>1, <1>2, Moved
  <1>4. AskTyped'
    BY <1>3 DEF AskInv, AskTyped
  <1>5. Conversation'
    BY <1>3 DEF AskInv, Conversation, Answered
  <1>6. Metering'
    BY <1>3 DEF AskInv, Metering, Blank, Settled, Q!Owed
  <1>7. Sources'
    BY <1>3 DEF AskInv, Sources, Q!Scoped
  <1> QED
    BY <1>4, <1>5, <1>6, <1>7 DEF AskInv

LEMMA AskBegins ==
    ASSUME AskInv, NEW wanted \in Buildings \cup {NoBuilding}, NEW sees \in SUBSET Buildings,
           Q!Ask(wanted, sees)
    PROVE  AskInv'
  <1> DEFINE there == IF wanted \in standing \cap sees THEN wanted ELSE NoBuilding
  <1>1. /\ question.at = "idle"
        /\ question' = [question EXCEPT !.at = "model", !.sees = sees, !.wanted = wanted, !.verified = there]
        /\ UNCHANGED <<standing, calls, turns, told, refs, aside, billed, books, logged, dropped>>
    BY DEF Q!Ask
  <1>2. there \in Buildings \cup {NoBuilding} /\ question \in Question /\ "model" \in Stages
    BY DEF AskInv, AskTyped, Stages
  <1>3. question' \in Question /\ question'.at = "model" /\ question'.tokens = question.tokens
        /\ question'.saw = question.saw /\ question'.called = question.called
    BY <1>1, <1>2 DEF Question
  <1>4. AskTyped'
    BY <1>1, <1>3 DEF AskInv, AskTyped
  <1>5. Conversation'
    BY <1>1, <1>3 DEF AskInv, Conversation, Answered
  <1>6. Metering'
    BY <1>1, <1>3 DEF AskInv, Metering, Blank, Settled, Q!Owed
  <1>7. Sources'
    BY <1>1, <1>3 DEF AskInv, Sources, Q!Scoped
  <1> QED
    BY <1>4, <1>5, <1>6, <1>7 DEF AskInv

LEMMA ReplyComes ==
    ASSUME AskInv, NEW next \in Seq(AiCalls), NEW reported \in Nat, NEW saw \in BOOLEAN,
           saw \/ reported = 0, Q!Reply(next, reported, saw)
    PROVE  AskInv'
  <1> DEFINE to == IF next = <<>> THEN "answered" ELSE "tools"
             sum == IF saw THEN question.tokens + reported ELSE question.tokens
             row == [calls |-> Len(next), answers |-> 0]
  <1>1. /\ question.at = "model" /\ Len(turns) < MaxIterations /\ calls' = next
        /\ turns' = IF next = <<>> THEN turns ELSE Append(turns, row)
        /\ billed' = billed + reported
        /\ UNCHANGED <<standing, told, refs, aside, books, logged, dropped>>
    BY Zenon DEF Q!Reply
  <1>2. question' = [question EXCEPT !.at = to, !.tokens = sum, !.saw = question.saw \/ saw]
    BY DEF Q!Reply, Q!Summed
  <1>3. question \in Question /\ billed \in Nat /\ question.tokens = billed /\ calls = <<>>
    BY <1>1 DEF AskInv, AskTyped, Metering, Conversation
  <1>4. sum \in Nat /\ sum = billed'
    BY <1>1, <1>3
  <1>5. to \in Stages /\ (question.saw \/ saw) \in BOOLEAN
    BY DEF Stages
  <1>6. question' \in Question
    BY <1>2, <1>3, <1>4, <1>5, Zenon DEF Question
  <1>7. /\ question'.at = to /\ question'.tokens = sum /\ question'.verified = question.verified
        /\ question'.called = question.called /\ question'.saw = (question.saw \/ saw)
    BY <1>2, <1>3 DEF Question
  <1>8. turns \in Seq(Turn) /\ row \in Turn /\ Len(turns) \in Nat /\ MaxIterations \in Nat
    <2>1. turns \in Seq(Turn) /\ MaxIterations \in Nat
      BY RecordsAssumption, Zenon DEF AskInv, AskTyped
    <2>2. Len(next) \in Nat /\ Len(turns) \in Nat
      BY <2>1, LenProperties
    <2> QED
      BY <2>1, <2>2 DEF Turn
  <1>9. /\ turns' \in Seq(Turn) /\ Len(turns') <= MaxIterations
    BY <1>1, <1>8, AppendProperties
  <1>10. AskTyped'
    BY <1>1, <1>4, <1>6, <1>9 DEF AskInv, AskTyped
  <1>11. Conversation'
    <2>1. \A i \in DOMAIN turns : Answered(i)
      BY <1>1 DEF AskInv, Conversation
    <2>2. CASE next = <<>>
      BY <2>1, <2>2, <1>1, <1>7 DEF Conversation, Answered
    <2>3. CASE next # <<>>
      <3>1. /\ turns' = Append(turns, row) /\ Len(turns') = Len(turns) + 1 /\ DOMAIN turns' = 1..Len(turns')
            /\ turns'[Len(turns')] = row
            /\ \A i \in DOMAIN turns' : i # Len(turns') => i \in DOMAIN turns /\ turns'[i] = turns[i]
        BY <1>1, <1>8, <2>3, AppendProperties
      <3>2. row.calls = row.answers + Len(calls')
        BY <1>1, LenProperties
      <3> QED
        BY <2>1, <3>1, <3>2, <1>1, <1>7, <2>3, <1>8, EmptySeq DEF Conversation, Answered
    <2> QED
      BY <2>2, <2>3
  <1>12. Metering'
    <2>1. (\A r \in Q!Rows : Blank(r)) /\ logged = "none" /\ (~question.saw => billed = 0)
      BY <1>1 DEF AskInv, Metering
    <2>2. \A r \in Q!Rows : Blank(r)'
      BY <2>1, <1>1 DEF Blank
    <2>3. question'.at \in {"answered", "tools"} /\ logged' = "none" /\ (~question'.saw => billed' = 0)
      BY <2>1, <1>1, <1>3, <1>4, <1>7
    <2> QED
      BY <2>2, <2>3, <1>4, <1>7 DEF Metering
  <1>13. Sources'
    BY <1>1, <1>7 DEF AskInv, Sources, Q!Scoped
  <1> QED
    BY <1>10, <1>11, <1>12, <1>13 DEF AskInv

\* What a function of the question's toolset finds is of buildings there are,
\* and what the model gets of it is named; in a question about one building
\* it is of that one.
LEMMA FoundIsNamed ==
    ASSUME AskInv, NEW call \in AiCalls, call.tool \in Q!Toolset, NEW found \in Q!Found(call)
    PROVE  /\ found \subseteq Places /\ Q!Given(call, found) \subseteq found
           /\ Q!Noted(call, found) \subseteq Places
           /\ Q!Scoped => /\ Q!Given(call, found) \subseteq {question.verified}
                          /\ Q!Given(call, found) \subseteq Q!Noted(call, found)
  <1>1. call \in [tool : Q!Tools, of : Buildings \cup {NoBuilding}]
    BY RecordsAssumption, Zenon
  <1>2. standing \subseteq Buildings /\ question.verified \in Places
    BY DEF AskInv, AskTyped, Question, Places
  <1>3. Q!Forced(call) \in Places
    BY <1>1, <1>2 DEF Q!Forced, Places
  <1>4. Q!Matching(call) \subseteq Places /\ (Q!Forced(call) # NoBuilding => Q!Matching(call) \subseteq {Q!Forced(call)})
    BY <1>2 DEF Q!Matching, Q!Missing, Places
  <1>5. IF Q!Portfolio(call) THEN found \subseteq standing ELSE found \subseteq Q!Matching(call)
    <2>1. call.tool \in Q!Tools
      BY <1>1
    <2>2. CASE Q!Portfolio(call)
      <3>1. call.tool \in {"summary", "exposure"}
        BY <2>2 DEF Q!Portfolio
      <3>2. Q!Found(call) = {standing \cap question.sees}
        BY <2>2, <3>1, Zenon DEF Q!Found
      <3> QED
        BY <2>2, <3>2
    <2>3. CASE ~Q!Portfolio(call) /\ call.tool \in {"list", "files"}
      BY <2>3 DEF Q!Found
    <2>4. CASE ~Q!Portfolio(call) /\ call.tool = "report"
      BY <2>4 DEF Q!Found
    <2>5. CASE ~Q!Portfolio(call) /\ call.tool \in {"property", "asset", "exposure"}
      <3>1. found \in {{}} \cup {{b} : b \in Q!Matching(call)}
        BY <2>5 DEF Q!Found
      <3> QED
        BY <2>5, <3>1
    <2>6. call.tool # "summary" \/ Q!Portfolio(call)
      BY DEF Q!Portfolio
    <2>7. call.tool # "unheard"
      BY DEF Q!Toolset
    <2> QED
      BY <2>1, <2>2, <2>3, <2>4, <2>5, <2>6, <2>7 DEF Q!Tools
  <1>6. found \subseteq Places
    BY <1>2, <1>4, <1>5 DEF Places
  <1>7. Q!Given(call, found) \subseteq found
    BY DEF Q!Given
  <1>8. Q!Noted(call, found) \subseteq Places
    BY <1>3, <1>6 DEF Q!Noted, Q!Missing
  <1>9. ASSUME Q!Scoped
        PROVE  /\ Q!Given(call, found) \subseteq {question.verified}
               /\ Q!Given(call, found) \subseteq Q!Noted(call, found)
    <2>1. call.tool # "summary" /\ question.verified # NoBuilding
      BY <1>9 DEF Q!Toolset, Q!Scoped
    <2>2. CASE call.tool = "asset"
      BY <2>2, <1>9 DEF Q!Given, Q!Noted, Q!Portfolio
    <2>3. CASE call.tool # "asset"
      <3>1. Q!Forced(call) = question.verified
        BY <1>9, <2>3 DEF Q!Forced
      <3>2. ~Q!Portfolio(call)
        BY <2>1, <3>1 DEF Q!Portfolio, Q!Missing
      <3>3. found \subseteq {question.verified}
        BY <1>4, <1>5, <2>1, <3>1, <3>2
      <3>4. CASE call.tool = "report"
        BY <3>2, <3>3, <3>4, <2>1, <3>1, <1>7 DEF Q!Found, Q!Noted, Q!Missing
      <3>5. CASE call.tool # "report"
        BY <3>2, <3>3, <3>5, <1>7 DEF Q!Noted
      <3> QED
        BY <3>4, <3>5
    <2> QED
      BY <2>2, <2>3
  <1> QED
    BY <1>6, <1>7, <1>8, <1>9

\* A call is answered: its turn has one answer more, and the model is asked again
\* when it was the last.
LEMMA CallAnswered ==
    ASSUME AskInv, NEW given \in SUBSET Places, NEW noted \in SUBSET Places, Q!Answer(given, noted),
           Q!Scoped => given \subseteq {question.verified} /\ given \subseteq noted
    PROVE  AskInv'
  <1> DEFINE n == Len(turns)
             to == IF Tail(calls) = <<>> THEN "model" ELSE "tools"
             called == (question.called \/ Head(calls).tool \in Q!Toolset)
  <1>1. /\ question.at = "tools" /\ calls' = Tail(calls)
        /\ UNCHANGED <<standing, billed, books, logged, dropped>>
    BY Zenon DEF Q!Answer
  <1>2. turns' = [turns EXCEPT ![n].answers = @ + 1]
    BY Zenon DEF Q!Answer
  <1>3. told' = told \cup given /\ refs' = refs \cup noted /\ aside' = aside \cup (noted \ given)
    BY DEF Q!Answer
  <1>4. question' = [question EXCEPT !.at = to, !.called = called]
    BY <1>1 DEF Q!Answer
  <1>5. /\ calls \in Seq(AiCalls) /\ calls # <<>> /\ turns \in Seq(Turn) /\ turns # <<>>
        /\ turns[n].calls = turns[n].answers + Len(calls)
        /\ \A i \in DOMAIN turns : i # n => Answered(i)
        /\ question \in Question
    BY <1>1 DEF AskInv, AskTyped, Conversation
  <1>6. n \in Nat /\ n >= 1 /\ DOMAIN turns = 1..n /\ n \in DOMAIN turns /\ turns[n] \in Turn
    <2>1. n \in Nat /\ n # 0 /\ DOMAIN turns = 1..n
      BY <1>5, LenProperties, EmptySeq
    <2>2. n \in DOMAIN turns
      BY <2>1
    <2> QED
      BY <2>1, <2>2, <1>5, ElementOfSeq
  <1> DEFINE row == [calls |-> turns[n].calls, answers |-> turns[n].answers + 1]
  <1>7. row \in Turn /\ turns' = [turns EXCEPT ![n] = row]
    <2>1. row \in Turn /\ [turns[n] EXCEPT !.answers = turns[n].answers + 1] = row
      BY <1>6 DEF Turn
    <2>2. turns' = [turns EXCEPT ![n] = [turns[n] EXCEPT !.answers = turns[n].answers + 1]]
      BY <1>2, Zenon
    <2> QED
      BY <2>1, <2>2, Zenon
  <1>8. /\ turns' \in Seq(Turn) /\ Len(turns') = n /\ DOMAIN turns' = DOMAIN turns
        /\ turns'[n] = row /\ \A i \in DOMAIN turns : i # n => turns'[i] = turns[i]
    BY <1>5, <1>6, <1>7, ExceptSeq
  <1>9. Tail(calls) \in Seq(AiCalls) /\ Len(Tail(calls)) = Len(calls) - 1 /\ Len(calls) \in Nat
    BY <1>5, HeadTailProperties, LenProperties
  <1>10. to \in Stages /\ called \in BOOLEAN
    BY DEF Stages
  <1>11. question' \in Question
    BY <1>4, <1>5, <1>10, Zenon DEF Question
  <1>12. /\ question'.at = to /\ question'.called = called /\ question'.verified = question.verified
         /\ question'.tokens = question.tokens /\ question'.saw = question.saw
    BY <1>4, <1>5 DEF Question
  <1>13. AskTyped'
    <2>1. told' \subseteq Places /\ refs' \subseteq Places /\ aside' \subseteq Places
      BY <1>3 DEF AskInv, AskTyped
    <2>2. Len(turns) <= MaxIterations
      BY DEF AskInv, AskTyped
    <2> QED
      BY <1>1, <1>8, <1>9, <1>11, <2>1, <2>2 DEF AskInv, AskTyped
  <1>14. Conversation'
    <2>1. \A i \in DOMAIN turns' : i # n => turns'[i].answers = turns'[i].calls
      BY <1>5, <1>8 DEF Answered
    <2>2. turns'[n].calls = turns'[n].answers + Len(calls')
      BY <1>1, <1>5, <1>6, <1>8, <1>9 DEF Turn
    <2>3. CASE Tail(calls) = <<>>
      <3>1. Len(calls') = 0
        BY <2>3, <1>1
      <3>2. turns'[n].answers = turns'[n].calls
        BY <2>2, <3>1, <1>8, <1>6 DEF Turn
      <3>3. question'.at = "model" /\ calls' = <<>>
        BY <2>3, <1>1, <1>12
      <3> QED
        BY <2>1, <3>2, <3>3 DEF Conversation, Answered
    <2>4. CASE Tail(calls) # <<>>
      <3>1. question'.at = "tools" /\ calls' # <<>> /\ turns' # <<>> /\ Len(turns') = n
        BY <2>4, <1>1, <1>6, <1>8, <1>12, EmptySeq
      <3> QED
        BY <2>1, <2>2, <3>1 DEF Conversation, Answered
    <2> QED
      BY <2>3, <2>4
  <1>15. Metering'
    BY <1>1, <1>12 DEF AskInv, Metering, Blank, Settled, Q!Owed
  <1>16. Sources'
    <2>1. logged = "none" /\ question'.at # "idle"
      BY <1>1, <1>12 DEF AskInv, Metering
    <2>2. refs' \subseteq told' \cup aside'
      BY <1>3 DEF AskInv, Sources
    <2>3. Q!Scoped => given \subseteq {question.verified} /\ given \subseteq noted
      OBVIOUS
    <2>4. (Q!Scoped)' => told' \subseteq {question'.verified} /\ told' \subseteq refs'
      BY <1>3, <1>12, <2>3 DEF AskInv, Sources, Q!Scoped
    <2> QED
      BY <1>1, <2>1, <2>2, <2>4 DEF Sources
  <1> QED
    BY <1>13, <1>14, <1>15, <1>16 DEF AskInv

\* A row of the books comes to be what it should be, or is lost.
LEMMA RowSettled ==
    ASSUME AskInv, NEW row \in Q!Rows, NEW quantity \in Nat, quantity = Q!Owed[row], Blank(row),
           Q!RecordUsage(row, quantity), UNCHANGED billed
    PROVE  /\ books' \in [Q!Rows -> Nat] /\ dropped' \subseteq Q!Rows
           /\ Settled(row)'
           /\ \A other \in Q!Rows : other # row => /\ Blank(other) => Blank(other)'
                                                   /\ Settled(other) => Settled(other)'
  <1>1. books \in [Q!Rows -> Nat] /\ dropped \subseteq Q!Rows
    BY DEF AskInv, AskTyped
  <1>2. PICK kept \in BOOLEAN :
           /\ books' = IF kept THEN [books EXCEPT ![row] = quantity] ELSE books
           /\ dropped' = IF kept \/ quantity = 0 THEN dropped ELSE dropped \cup {row}
    BY DEF Q!RecordUsage
  <1>3. Q!Owed' = Q!Owed
    BY DEF Q!Owed
  <1>4. books' \in [Q!Rows -> Nat] /\ dropped' \subseteq Q!Rows
    BY <1>1, <1>2
  <1>5. Settled(row)'
    BY <1>1, <1>2, <1>3 DEF Settled, Blank
  <1>6. ASSUME NEW other \in Q!Rows, other # row
        PROVE  books'[other] = books[other] /\ (other \in dropped' <=> other \in dropped)
    BY <1>1, <1>2, <1>6
  <1> QED
    BY <1>3, <1>4, <1>5, <1>6 DEF Blank, Settled

LEMMA BooksWritten ==
    ASSUME AskInv, Q!MeterRequest \/ Q!MeterInput \/ Q!MeterOutput \/ Q!WriteLog
    PROVE  AskInv'
  <1>1. question \in Question /\ question.tokens = billed /\ billed \in Nat
    BY DEF AskInv, AskTyped, Metering
  <1>2. Q!Rows = {"request", "input", "output"} /\ Q!Owed["request"] = 1
        /\ Q!Owed["input"] = billed /\ Q!Owed["output"] = billed
    BY DEF Q!Rows, Q!Owed
  <1>3. ASSUME NEW to \in Stages, question' = [question EXCEPT !.at = to], to \notin {"idle", "model", "tools", "answered"},
               question.at # "idle", books' \in [Q!Rows -> Nat], dropped' \subseteq Q!Rows,
               UNCHANGED <<standing, calls, turns, told, refs, aside, billed, logged>>, Metering'
        PROVE  AskInv'
    <2>1. /\ question' \in Question /\ question'.at = to
          /\ question'.verified = question.verified /\ question'.tokens = question.tokens
          /\ question'.saw = question.saw /\ question'.called = question.called
      BY <1>1, <1>3, Moved
    <2>2. AskTyped'
      BY <1>3, <2>1 DEF AskInv, AskTyped
    <2>3. Conversation'
      BY <1>3, <2>1 DEF Conversation
    <2>4. Sources'
      BY <1>3, <2>1 DEF AskInv, Sources, Q!Scoped
    <2> QED
      BY <1>3, <2>2, <2>3, <2>4 DEF AskInv
  <1>4. CASE Q!MeterRequest
    <2> DEFINE to == IF question.saw THEN "input" ELSE "log"
    <2>1. /\ question.at = "answered" /\ Q!RecordUsage("request", 1)
          /\ question' = [question EXCEPT !.at = to]
          /\ UNCHANGED <<standing, calls, turns, told, refs, aside, billed, logged>>
      BY <1>4 DEF Q!MeterRequest, Q!Moves
    <2>2. /\ \A row \in Q!Rows : Blank(row)
          /\ logged = "none" /\ (~question.saw => billed = 0)
      BY <2>1 DEF AskInv, Metering
    <2>3. /\ books' \in [Q!Rows -> Nat] /\ dropped' \subseteq Q!Rows
          /\ Settled("request")' /\ Blank("input")' /\ Blank("output")'
      BY <1>2, <2>1, <2>2, RowSettled
    <2>4. /\ to \in Stages /\ question'.at = to /\ question'.tokens = question.tokens /\ question'.saw = question.saw
      BY <1>1, <2>1, Moved DEF Stages
    <2>5. ~question.saw => Settled("input")' /\ Settled("output")'
      BY <1>2, <2>1, <2>2, <2>3 DEF Blank, Settled, Q!Owed
    <2>6. Metering'
      BY <1>1, <1>2, <2>1, <2>2, <2>3, <2>4, <2>5 DEF Metering
    <2> QED
      BY <1>3, <2>1, <2>3, <2>4, <2>6
  <1>5. CASE Q!MeterInput
    <2>1. /\ question.at = "input" /\ Q!RecordUsage("input", question.tokens)
          /\ question' = [question EXCEPT !.at = "output"]
          /\ UNCHANGED <<standing, calls, turns, told, refs, aside, billed, logged>>
      BY <1>5 DEF Q!MeterInput, Q!Moves
    <2>2. /\ Settled("request") /\ Blank("input") /\ Blank("output")
          /\ logged = "none" /\ (~question.saw => billed = 0)
      BY <2>1 DEF AskInv, Metering
    <2>3. /\ books' \in [Q!Rows -> Nat] /\ dropped' \subseteq Q!Rows
          /\ Settled("request")' /\ Settled("input")' /\ Blank("output")'
      BY <1>1, <1>2, <2>1, <2>2, RowSettled
    <2>4. /\ "output" \in Stages /\ question'.at = "output" /\ question'.tokens = question.tokens
          /\ question'.saw = question.saw
      BY <1>1, <2>1, Moved DEF Stages
    <2>5. Metering'
      BY <1>1, <1>2, <2>1, <2>2, <2>3, <2>4 DEF Metering
    <2> QED
      BY <1>3, <2>1, <2>3, <2>4, <2>5
  <1>6. CASE Q!MeterOutput
    <2>1. /\ question.at = "output" /\ Q!RecordUsage("output", question.tokens)
          /\ question' = [question EXCEPT !.at = "log"]
          /\ UNCHANGED <<standing, calls, turns, told, refs, aside, billed, logged>>
      BY <1>6 DEF Q!MeterOutput, Q!Moves
    <2>2. /\ Settled("request") /\ Settled("input") /\ Blank("output")
          /\ logged = "none" /\ (~question.saw => billed = 0)
      BY <2>1 DEF AskInv, Metering
    <2>3. /\ books' \in [Q!Rows -> Nat] /\ dropped' \subseteq Q!Rows
          /\ Settled("request")' /\ Settled("input")' /\ Settled("output")'
      BY <1>1, <1>2, <2>1, <2>2, RowSettled
    <2>4. /\ "log" \in Stages /\ question'.at = "log" /\ question'.tokens = question.tokens
          /\ question'.saw = question.saw
      BY <1>1, <2>1, Moved DEF Stages
    <2>5. Metering'
      BY <1>1, <1>2, <2>1, <2>2, <2>3, <2>4 DEF Metering
    <2> QED
      BY <1>3, <2>1, <2>3, <2>4, <2>5
  <1>7. CASE Q!WriteLog
    <2>1. /\ question.at = "log" /\ question' = [question EXCEPT !.at = "ended"]
          /\ logged' = IF refs # {} \/ ~question.called THEN "sufficient" ELSE "insufficient"
          /\ UNCHANGED <<standing, calls, turns, told, refs, aside, billed, books, dropped>>
      BY <1>7 DEF Q!WriteLog, Q!Moves
    <2>2. /\ question' \in Question /\ question'.at = "ended"
          /\ question'.verified = question.verified /\ question'.tokens = question.tokens
          /\ question'.saw = question.saw /\ question'.called = question.called
      BY <1>1, <2>1, Moved DEF Stages
    <2>3. AskTyped'
      BY <2>1, <2>2 DEF AskInv, AskTyped
    <2>4. Conversation'
      BY <2>1, <2>2 DEF Conversation
    <2>5. Metering'
      BY <2>1, <2>2 DEF AskInv, Metering, Blank, Settled, Q!Owed
    <2>6. Sources'
      BY <2>1, <2>2 DEF AskInv, Sources, Q!Scoped
    <2> QED
      BY <2>3, <2>4, <2>5, <2>6 DEF AskInv
  <1> QED
    BY <1>4, <1>5, <1>6, <1>7

LEMMA AskInvStep == AskInv /\ [Q!Next]_asking => AskInv'
  <1> SUFFICES ASSUME AskInv, [Q!Next]_asking PROVE AskInv'
    OBVIOUS
  <1>1. CASE UNCHANGED asking
    <2>1. UNCHANGED <<standing, question, calls, turns, told, refs, aside, billed, books, logged, dropped>>
      BY <1>1 DEF asking
    <2> QED
      BY <2>1 DEF AskInv, AskTyped, Conversation, Answered, Metering, Blank, Settled, Q!Owed, Sources, Q!Scoped
  <1>2. ASSUME NEW wanted \in Buildings \cup {NoBuilding}, NEW sees \in SUBSET Buildings, Q!Ask(wanted, sees)
        PROVE  AskInv'
    BY <1>2, AskBegins
  <1>3. ASSUME NEW next \in Q!Replies, Q!Reply(next, 1, TRUE) \/ Q!Reply(next, 0, FALSE) PROVE AskInv'
    <2>1. PICK n \in 0..MaxCalls : next \in [1..n -> AiCalls]
      BY DEF Q!Replies
    <2>2. n \in Nat
      BY RecordsAssumption
    <2>3. next \in Seq(AiCalls)
      BY <2>1, <2>2, SeqDef
    <2> QED
      BY <1>3, <2>3, ReplyComes
  <1>4. CASE Q!OutOfBudget
    BY <1>4, AskStepTail DEF Q!OutOfBudget, Q!Moves
  <1>5. CASE Q!ProviderFails
    <2>1. /\ question' = [question EXCEPT !.at = "ended"] /\ question.at = "model"
          /\ UNCHANGED <<standing, calls, turns, told, refs, aside, billed, books, logged, dropped>>
      BY <1>5 DEF Q!ProviderFails, Q!Moves
    <2>2. question \in Question
      BY DEF AskInv, AskTyped
    <2>3. question'.at = "ended"
      BY <2>1, <2>2 DEF Question
    <2> QED
      BY <2>1, <2>3, AskStepTail
  <1>6. CASE Q!RunTool
    <2>1. question.at = "tools" /\ calls \in Seq(AiCalls) /\ calls # <<>>
      BY <1>6 DEF Q!RunTool, AskInv, AskTyped, Conversation
    <2>2. PICK call \in AiCalls : call = Head(calls)
      BY <2>1, HeadTailProperties
    <2>3. CASE call.tool \in Q!Toolset
      <3>1. PICK found \in Q!Found(call) : Q!Answer(Q!Given(call, found), Q!Noted(call, found))
        BY <1>6, <2>2, <2>3, Zenon DEF Q!RunTool
      <3>2. /\ found \subseteq Places /\ Q!Given(call, found) \subseteq found /\ Q!Noted(call, found) \subseteq Places
            /\ Q!Scoped => /\ Q!Given(call, found) \subseteq {question.verified}
                           /\ Q!Given(call, found) \subseteq Q!Noted(call, found)
        BY <2>3, FoundIsNamed
      <3>3. Q!Given(call, found) \in SUBSET Places /\ Q!Noted(call, found) \in SUBSET Places
        BY <3>2
      <3> QED
        BY <3>1, <3>2, <3>3, CallAnswered
    <2>4. CASE call.tool \notin Q!Toolset
      <3>1. Q!Answer({}, {})
        BY <1>6, <2>2, <2>4, Zenon DEF Q!RunTool
      <3> QED
        BY <3>1, CallAnswered
    <2> QED
      BY <2>3, <2>4
  <1>7. CASE Q!ToolFails
    <2>1. question.at = "tools" /\ calls \in Seq(AiCalls) /\ calls # <<>>
      BY <1>7 DEF Q!ToolFails, AskInv, AskTyped, Conversation
    <2>2. PICK call \in AiCalls : call = Head(calls)
      BY <2>1, HeadTailProperties
    <2>3. Q!Answer({}, {}) \/ (Q!NotesFirst(call) /\ \E found \in Q!Found(call) : Q!Answer({}, found))
      BY <1>7, <2>2, Zenon DEF Q!ToolFails
    <2>4. CASE Q!Answer({}, {})
      BY <2>4, CallAnswered
    <2>5. ASSUME Q!NotesFirst(call), NEW found \in Q!Found(call), Q!Answer({}, found)
          PROVE  AskInv'
      <3>1. call.tool \in Q!Toolset
        BY <2>5 DEF Q!NotesFirst
      <3>2. found \in SUBSET Places
        BY <3>1, FoundIsNamed
      <3> QED
        BY <2>5, <3>2, CallAnswered
    <2> QED
      BY <2>3, <2>4, <2>5
  <1>8. CASE Q!MeterRequest \/ Q!MeterInput \/ Q!MeterOutput \/ Q!WriteLog
    BY <1>8, BooksWritten
  <1>9. CASE Q!AskCutOff
    <2>1. /\ question' = [question EXCEPT !.at = "ended"] /\ question.at # "idle"
          /\ UNCHANGED <<standing, calls, turns, told, refs, aside, billed, books, logged, dropped>>
      BY <1>9 DEF Q!AskCutOff, Q!Moves
    <2>2. question \in Question
      BY DEF AskInv, AskTyped
    <2>3. question'.at = "ended"
      BY <2>1, <2>2 DEF Question
    <2> QED
      BY <2>1, <2>3, AskStepTail
  <1>10. ASSUME NEW b \in Buildings, Q!Demolish(b) PROVE AskInv'
    <2>1. /\ standing' \subseteq standing
          /\ UNCHANGED <<question, calls, turns, told, refs, aside, billed, books, logged, dropped>>
      BY <1>10 DEF Q!Demolish
    <2>2. AskTyped'
      BY <2>1 DEF AskInv, AskTyped
    <2> QED
      BY <2>1, <2>2 DEF AskInv, Conversation, Answered, Metering, Blank, Settled, Q!Owed, Sources, Q!Scoped
  <1> QED
    BY <1>1, <1>2, <1>3, <1>4, <1>5, <1>6, <1>7, <1>8, <1>9, <1>10, Zenon DEF Q!Next

LEMMA AskInvTells ==
    ASSUME AskInv
    PROVE  /\ Q!TypeOK /\ Q!ScopedStaysThere /\ Q!CallsAreAnswered
           /\ Q!AnsweredIsMetered /\ Q!SourcesAreNamed
  <1>1. Q!TypeOK
    <2>1. AiCalls \subseteq [tool : Q!Tools, of : Buildings \cup {NoBuilding}]
      BY RecordsAssumption, Zenon
    <2>2. question.at \in Stages /\ question.sees \subseteq Buildings
      BY DEF AskInv, AskTyped, Question
    <2> QED
      BY <2>1, <2>2 DEF AskInv, AskTyped, Q!TypeOK, Q!Missing, Stages, Places
  <1>2. Q!ScopedStaysThere
    BY DEF AskInv, Sources, Q!ScopedStaysThere
  <1>3. Q!CallsAreAnswered
    BY DEF AskInv, Conversation, Answered, Q!CallsAreAnswered
  <1>4. Q!AnsweredIsMetered
    BY DEF AskInv, Metering, Blank, Settled, Q!AnsweredIsMetered
  <1>5. Q!SourcesAreNamed
    BY DEF AskInv, Sources, Q!SourcesAreNamed
  <1> QED
    BY <1>1, <1>2, <1>3, <1>4, <1>5

-------------------------------------------------------------------------------
(* SitePlans: the invariant.                                                   *)

Sides == {"north", "south"}
Overlay == [key : Uploaded, north : Edges, south : Edges]
Embed == [kind : O!Kinds, url : O!Urls]
Given == UNION {[sides -> Edges] : sides \in SUBSET Sides}
Moving == [given : Given, loaded : Overlay]

\* What a request has in hand is what it checked.
MovedTo(row) == O!EdgesWritten(row.given, row.loaded, row.loaded)
PlanInHand(c) ==
    /\ O!Doing(c, "adding") => /\ planning[c].row \in Overlay
                               /\ O!Usable(planning[c].row.north, planning[c].row.south)
    /\ O!Doing(c, "moving") => /\ planning[c].row \in Moving
                               /\ O!Usable(MovedTo(planning[c].row).north, MovedTo(planning[c].row).south)
    /\ O!Doing(c, "removing") => planning[c].row \in Overlay
    /\ O!Doing(c, "changing") => /\ planning[c].row \in Embed
                                 /\ O!Fits(planning[c].row.kind, planning[c].row.url)

PlanTyped ==
    /\ DOMAIN planning = Requests
    /\ DOMAIN minted \subseteq Uploaded /\ files \subseteq DOMAIN minted
    /\ \A k \in DOMAIN minted : minted[k] \in 0..2
    /\ DOMAIN overlays \subseteq OverlayIds
    /\ \A o \in DOMAIN overlays : overlays[o] \in Overlay /\ overlays[o].key \in DOMAIN minted
    /\ DOMAIN embeds \subseteq EmbedIds
    /\ \A e \in DOMAIN embeds : embeds[e] \in Embed
    /\ \A c \in Requests : planning[c].at \in {"adding", "removing"} => planning[c].row.key \in DOMAIN minted

\* Who has registered a key: an overlay, or the removal of one.  A key that was
\* registered once has one of them, and a key that was not has none and its
\* file.
Removing(c, k) == O!Doing(c, "removing") /\ planning[c].row.key = k
KeysAreHeld ==
    \A k \in DOMAIN minted :
        /\ minted[k] = 0 => /\ \A o \in DOMAIN overlays : overlays[o].key # k
                            /\ \A c \in Requests : ~Removing(c, k)
                            /\ \A c \in Requests : O!Doing(c, "adding") /\ planning[c].row.key = k => k \in files
        /\ minted[k] = 1 => /\ \A o, u \in DOMAIN overlays : overlays[o].key = k /\ overlays[u].key = k => o = u
                            /\ \A c, q \in Requests : Removing(c, k) /\ Removing(q, k) => c = q
                            /\ \A c \in Requests, o \in DOMAIN overlays : Removing(c, k) => overlays[o].key # k
                            /\ \A o \in DOMAIN overlays : overlays[o].key = k => k \in files

PlanInv == /\ PlanTyped /\ (\A c \in Requests : PlanInHand(c)) /\ KeysAreHeld
           /\ O!EdgesAreUsable /\ O!LinksFit

LEMMA PlanInvInit == O!PlanInit => PlanInv
  <1> SUFFICES ASSUME O!PlanInit PROVE PlanInv
    OBVIOUS
  <1>1. /\ files = {} /\ minted = <<>> /\ overlays = <<>> /\ embeds = <<>>
        /\ planning = [c \in Requests |-> O!Waiting]
    BY Zenon DEF O!PlanInit
  <1>2. DOMAIN minted = {} /\ DOMAIN overlays = {} /\ DOMAIN embeds = {}
    BY <1>1
  <1>3. DOMAIN planning = Requests /\ \A c \in Requests : planning[c].at = "idle"
    BY <1>1 DEF O!Waiting
  <1>4. PlanTyped
    BY <1>1, <1>2, <1>3 DEF PlanTyped
  <1>5. \A c \in Requests : PlanInHand(c)
    BY <1>3 DEF PlanInHand, O!Doing
  <1>6. KeysAreHeld /\ O!EdgesAreUsable /\ O!LinksFit
    BY <1>2 DEF KeysAreHeld, O!EdgesAreUsable, O!LinksFit
  <1> QED
    BY <1>4, <1>5, <1>6 DEF PlanInv

\* A request goes on with what it has in hand.
LEMMA Proceeded ==
    ASSUME PlanTyped, NEW c \in Requests, NEW row, O!Proceeds(c, row)
    PROVE  /\ DOMAIN planning' = Requests /\ planning'[c] = row
           /\ \A q \in Requests \ {c} : planning'[q] = planning[q]
  BY DEF PlanTyped, O!Proceeds

LEMMA HandedOver ==
    ASSUME NEW at, NEW row
    PROVE  [O!Waiting EXCEPT !.at = at, !.row = row] = [at |-> at, on |-> 0, row |-> row]
  <1>1. [O!Waiting EXCEPT !.at = at, !.row = row] \in [at : {at}, on : {0}, row : {row}]
    BY Zenon DEF O!Waiting
  <1>2. ASSUME NEW r \in [at : {at}, on : {0}, row : {row}] PROVE r = [at |-> at, on |-> 0, row |-> row]
    BY <1>2
  <1> QED
    BY <1>1, <1>2, Zenon

\* The file of an upload is nobody's yet.
LEMMA UploadKeeps ==
    ASSUME PlanInv, NEW k \in Uploaded, O!Upload(k)
    PROVE  PlanInv'
  <1>1. /\ k \notin DOMAIN minted /\ files' = files \cup {k}
        /\ DOMAIN minted' = DOMAIN minted \cup {k} /\ minted'[k] = 0
        /\ \A j \in DOMAIN minted : minted'[j] = minted[j]
        /\ UNCHANGED <<overlays, embeds, planning>>
    BY DEF O!Upload, O!With
  <1>2. PlanTyped'
    BY <1>1 DEF PlanInv, PlanTyped
  <1>3. \A c \in Requests : PlanInHand(c)'
    BY <1>1 DEF PlanInv, PlanInHand, O!Doing
  <1>4. KeysAreHeld'
    <2>1. /\ \A o \in DOMAIN overlays : overlays[o].key # k
          /\ \A c \in Requests : O!Doing(c, "adding") \/ O!Doing(c, "removing") => planning[c].row.key # k
      BY <1>1 DEF PlanInv, PlanTyped, O!Doing
    <2> QED
      BY <1>1, <2>1 DEF PlanInv, KeysAreHeld, Removing, O!Doing
  <1> QED
    BY <1>1, <1>2, <1>3, <1>4 DEF PlanInv, O!EdgesAreUsable, O!LinksFit

LEMMA CheckKeeps ==
    ASSUME PlanInv, NEW c \in Requests, NEW k \in Uploaded, NEW north \in Edges, NEW south \in Edges,
           O!CheckOverlay(c, k, north, south)
    PROVE  PlanInv'
  <1> DEFINE row == [key |-> k, north |-> north, south |-> south]
  <1>1. /\ O!Doing(c, "idle") /\ k \in files /\ O!Usable(north, south)
        /\ O!Proceeds(c, [O!Waiting EXCEPT !.at = "adding", !.row = row])
        /\ UNCHANGED <<files, minted, overlays, embeds>>
    BY DEF O!CheckOverlay
  <1>2. [O!Waiting EXCEPT !.at = "adding", !.row = row] = [at |-> "adding", on |-> 0, row |-> row]
    BY HandedOver
  <1>3. /\ DOMAIN planning' = Requests /\ planning'[c] = [at |-> "adding", on |-> 0, row |-> row]
        /\ \A q \in Requests \ {c} : planning'[q] = planning[q]
    BY <1>1, <1>2, Proceeded DEF PlanInv
  <1>4. planning'[c].at = "adding" /\ planning'[c].row = row /\ row \in Overlay /\ row.key = k
        /\ row.north = north /\ row.south = south
    BY <1>3 DEF Overlay
  <1>5. PlanTyped'
    BY <1>1, <1>3, <1>4 DEF PlanInv, PlanTyped
  <1>6. \A q \in Requests : PlanInHand(q)'
    BY <1>1, <1>3, <1>4 DEF PlanInv, PlanInHand, O!Doing
  <1>7. KeysAreHeld'
    BY <1>1, <1>3, <1>4 DEF PlanInv, KeysAreHeld, Removing, O!Doing
  <1> QED
    BY <1>1, <1>5, <1>6, <1>7 DEF PlanInv, O!EdgesAreUsable, O!LinksFit

\* The edges a call writes: those given, and the others as it loaded them.
LEMMA EdgesGiven ==
    ASSUME NEW given \in Given, NEW loaded \in Overlay, NEW now \in Overlay
    PROVE  /\ O!EdgesWritten(given, loaded, now) \in Overlay
           /\ O!EdgesWritten(given, loaded, now).key = now.key
           /\ O!EdgesWritten(given, loaded, now).north = O!EdgesWritten(given, loaded, loaded).north
           /\ O!EdgesWritten(given, loaded, now).south = O!EdgesWritten(given, loaded, loaded).south
  <1> DEFINE n == IF "north" \in DOMAIN given THEN given["north"] ELSE loaded.north
             s == IF "south" \in DOMAIN given THEN given["south"] ELSE loaded.south
  <1>1. n \in Edges /\ s \in Edges
    <2>1. PICK sides \in SUBSET Sides : given \in [sides -> Edges]
      BY DEF Given
    <2> QED
      BY <2>1 DEF Overlay
  <1>2. ASSUME NEW row \in Overlay
        PROVE  /\ O!EdgesWritten(given, loaded, row) \in Overlay
               /\ O!EdgesWritten(given, loaded, row).key = row.key
               /\ O!EdgesWritten(given, loaded, row).north = n /\ O!EdgesWritten(given, loaded, row).south = s
    <2>1. O!EdgesWritten(given, loaded, row) = [row EXCEPT !.north = n, !.south = s]
      BY Zenon DEF O!EdgesWritten
    <2>2. [row EXCEPT !.north = n, !.south = s] \in Overlay
      BY <1>1, Zenon DEF Overlay
    <2> QED
      BY <2>1, <2>2, <1>1 DEF Overlay
  <1> QED
    BY <1>2

LEMMA AddKeeps ==
    ASSUME PlanInv, NEW c \in Requests, NEW o \in OverlayIds, O!AddOverlay(c, o)
    PROVE  PlanInv'
  <1>1. /\ O!Doing(c, "adding") /\ o \notin DOMAIN overlays /\ UNCHANGED <<files, embeds>>
        /\ overlays' = O!With(overlays, o, planning[c].row)
        /\ minted' = [minted EXCEPT ![planning[c].row.key] = IF @ < O!Often THEN @ + 1 ELSE @]
        /\ O!Proceeds(c, O!Waiting)
    BY DEF O!AddOverlay, O!Fresh
  <1>2. PICK row \in Overlay : row = planning[c].row
    BY <1>1 DEF PlanInv, PlanInHand
  <1>3. row.key \in DOMAIN minted /\ O!Usable(row.north, row.south)
    BY <1>1, <1>2 DEF PlanInv, PlanTyped, PlanInHand, O!Doing
  <1>4. /\ DOMAIN minted' = DOMAIN minted
        /\ minted'[row.key] = IF minted[row.key] < 2 THEN minted[row.key] + 1 ELSE minted[row.key]
        /\ \A k \in DOMAIN minted : k # row.key => minted'[k] = minted[k]
    BY <1>1, <1>2, <1>3 DEF O!Often
  <1>5. /\ DOMAIN overlays' = DOMAIN overlays \cup {o} /\ overlays'[o] = row
        /\ \A u \in DOMAIN overlays : overlays'[u] = overlays[u]
    BY <1>1, <1>2 DEF O!With
  <1>6. /\ DOMAIN planning' = Requests /\ planning'[c].at = "idle"
        /\ \A q \in Requests \ {c} : planning'[q] = planning[q]
    BY <1>1, Proceeded DEF PlanInv, O!Waiting
  <1>7. minted[row.key] \in 0..2 /\ minted'[row.key] \in 1..2
    BY <1>3, <1>4 DEF PlanInv, PlanTyped
  <1>8. PlanTyped'
    <2>1. \A k \in DOMAIN minted' : minted'[k] \in 0..2
      BY <1>4, <1>7 DEF PlanInv, PlanTyped
    <2> QED
      BY <1>1, <1>3, <1>4, <1>5, <1>6, <2>1 DEF PlanInv, PlanTyped
  <1>9. \A q \in Requests : PlanInHand(q)'
    BY <1>6 DEF PlanInv, PlanInHand, O!Doing
  <1>10. KeysAreHeld'
    <2> SUFFICES ASSUME NEW k \in DOMAIN minted
                 PROVE  /\ minted'[k] = 0 => /\ \A u \in DOMAIN overlays' : overlays'[u].key # k
                                             /\ \A q \in Requests : ~Removing(q, k)'
                                             /\ \A q \in Requests : O!Doing(q, "adding")' /\ planning'[q].row.key = k => k \in files
                        /\ minted'[k] = 1 =>
                             /\ \A u, v \in DOMAIN overlays' : overlays'[u].key = k /\ overlays'[v].key = k => u = v
                             /\ \A p, q \in Requests : Removing(p, k)' /\ Removing(q, k)' => p = q
                             /\ \A q \in Requests, u \in DOMAIN overlays' : Removing(q, k)' => overlays'[u].key # k
                             /\ \A u \in DOMAIN overlays' : overlays'[u].key = k => k \in files
      BY <1>1, <1>4 DEF KeysAreHeld
    <2>1. \A q \in Requests : Removing(q, k)' => Removing(q, k)
      BY <1>6 DEF Removing, O!Doing
    <2>2. \A q \in Requests : O!Doing(q, "adding")' => O!Doing(q, "adding") /\ planning'[q].row = planning[q].row
      BY <1>6 DEF O!Doing
    <2>3. CASE k # row.key
      <3>1. minted'[k] = minted[k]
        BY <2>3, <1>4
      <3> QED
        BY <2>1, <2>2, <2>3, <3>1, <1>5 DEF PlanInv, KeysAreHeld
    <2>4. CASE k = row.key
      <3>1. minted'[k] # 0 /\ (minted'[k] = 1 => minted[k] = 0)
        BY <2>4, <1>4, <1>7
      <3>2. ASSUME minted'[k] = 1
            PROVE  /\ \A u \in DOMAIN overlays : overlays[u].key # k
                   /\ \A q \in Requests : ~Removing(q, k)'
                   /\ k \in files
        BY <2>1, <2>4, <3>1, <3>2, <1>1, <1>2 DEF PlanInv, KeysAreHeld
      <3> QED
        BY <2>4, <3>1, <3>2, <1>5
    <2> QED
      BY <2>3, <2>4
  <1>11. O!EdgesAreUsable'
    BY <1>3, <1>5 DEF PlanInv, O!EdgesAreUsable
  <1> QED
    BY <1>1, <1>8, <1>9, <1>10, <1>11 DEF PlanInv, O!LinksFit

LEMMA LoadEdgesKeeps ==
    ASSUME PlanInv, NEW c \in Requests, NEW o \in OverlayIds, NEW given \in Given, O!LoadEdges(c, o, given)
    PROVE  PlanInv'
  <1> DEFINE row == [given |-> given, loaded |-> overlays[o]]
  <1>1. /\ O!Doing(c, "idle") /\ o \in DOMAIN overlays /\ UNCHANGED <<files, minted, overlays, embeds>>
        /\ O!Usable(O!EdgesWritten(given, overlays[o], overlays[o]).north,
                    O!EdgesWritten(given, overlays[o], overlays[o]).south)
        /\ O!Proceeds(c, [at |-> "moving", on |-> o, row |-> row])
    BY DEF O!LoadEdges
  <1>2. /\ DOMAIN planning' = Requests /\ planning'[c] = [at |-> "moving", on |-> o, row |-> row]
        /\ \A q \in Requests \ {c} : planning'[q] = planning[q]
    BY <1>1, Proceeded DEF PlanInv
  <1>3. planning'[c].at = "moving" /\ planning'[c].row = row
    BY <1>2
  <1>4. row \in Moving /\ row.given = given /\ row.loaded = overlays[o]
    BY <1>1 DEF PlanInv, PlanTyped, Moving
  <1>5. PlanTyped'
    BY <1>1, <1>2, <1>3 DEF PlanInv, PlanTyped
  <1>6. \A q \in Requests : PlanInHand(q)'
    <2>1. PlanInHand(c)'
      BY <1>1, <1>3, <1>4 DEF PlanInHand, O!Doing, MovedTo
    <2>2. ASSUME NEW q \in Requests \ {c} PROVE PlanInHand(q)'
      BY <1>2 DEF PlanInv, PlanInHand, O!Doing, MovedTo
    <2> QED
      BY <2>1, <2>2
  <1>7. KeysAreHeld'
    BY <1>1, <1>2, <1>3 DEF PlanInv, KeysAreHeld, Removing, O!Doing
  <1> QED
    BY <1>1, <1>5, <1>6, <1>7 DEF PlanInv, O!EdgesAreUsable, O!LinksFit

LEMMA MoveKeeps ==
    ASSUME PlanInv, NEW c \in Requests, O!MoveEdges(c)
    PROVE  PlanInv'
  <1>1. /\ O!Doing(c, "moving") /\ O!Proceeds(c, O!Waiting) /\ UNCHANGED <<files, minted, embeds>>
        /\ overlays' = IF planning[c].on \in DOMAIN overlays
                       THEN [overlays EXCEPT ![planning[c].on] =
                              O!EdgesWritten(planning[c].row.given, planning[c].row.loaded, @)]
                       ELSE overlays
    BY DEF O!MoveEdges
  <1>2. /\ DOMAIN planning' = Requests /\ planning'[c].at = "idle"
        /\ \A q \in Requests \ {c} : planning'[q] = planning[q]
    BY <1>1, Proceeded DEF PlanInv, O!Waiting
  <1>3. PICK given \in Given, loaded \in Overlay :
          given = planning[c].row.given /\ loaded = planning[c].row.loaded
    BY <1>1 DEF PlanInv, PlanInHand, Moving
  <1>4. O!Usable(O!EdgesWritten(given, loaded, loaded).north, O!EdgesWritten(given, loaded, loaded).south)
    BY <1>1, <1>3 DEF PlanInv, PlanInHand, MovedTo
  <1>5. /\ DOMAIN overlays' = DOMAIN overlays
        /\ \A u \in DOMAIN overlays : /\ overlays'[u] \in Overlay /\ overlays'[u].key = overlays[u].key
                                      /\ O!Usable(overlays'[u].north, overlays'[u].south)
    <2>1. CASE planning[c].on \notin DOMAIN overlays
      BY <2>1, <1>1 DEF PlanInv, PlanTyped, O!EdgesAreUsable
    <2>2. CASE planning[c].on \in DOMAIN overlays
      <3>1. PICK o \in DOMAIN overlays : o = planning[c].on
        BY <2>2
      <3>2. overlays' = [overlays EXCEPT ![o] = O!EdgesWritten(given, loaded, overlays[o])]
        BY <1>1, <1>3, <3>1
      <3>3. overlays[o] \in Overlay
        BY DEF PlanInv, PlanTyped
      <3>4. /\ O!EdgesWritten(given, loaded, overlays[o]) \in Overlay
            /\ O!EdgesWritten(given, loaded, overlays[o]).key = overlays[o].key
            /\ O!Usable(O!EdgesWritten(given, loaded, overlays[o]).north, O!EdgesWritten(given, loaded, overlays[o]).south)
        BY <1>4, <3>3, EdgesGiven
      <3> QED
        BY <3>2, <3>4 DEF PlanInv, PlanTyped, O!EdgesAreUsable
    <2> QED
      BY <2>1, <2>2
  <1>6. PlanTyped'
    BY <1>1, <1>2, <1>5 DEF PlanInv, PlanTyped
  <1>7. \A q \in Requests : PlanInHand(q)'
    BY <1>2 DEF PlanInv, PlanInHand, O!Doing, MovedTo
  <1>8. KeysAreHeld'
    BY <1>1, <1>2, <1>5 DEF PlanInv, KeysAreHeld, Removing, O!Doing
  <1> QED
    BY <1>1, <1>5, <1>6, <1>7, <1>8 DEF PlanInv, O!EdgesAreUsable, O!LinksFit

\* A request that stops leaves what the rest hold alone.
LEMMA StopKeeps ==
    ASSUME PlanInv, NEW c \in Requests, O!Proceeds(c, O!Waiting),
           UNCHANGED <<files, minted, overlays>>,
           DOMAIN embeds' \subseteq EmbedIds,
           \A e \in DOMAIN embeds' : embeds'[e] \in Embed /\ O!Fits(embeds'[e].kind, embeds'[e].url)
    PROVE  PlanInv'
  <1>1. /\ DOMAIN planning' = Requests /\ planning'[c].at = "idle"
        /\ \A q \in Requests \ {c} : planning'[q] = planning[q]
    BY Proceeded DEF PlanInv, O!Waiting
  <1>2. PlanTyped'
    BY <1>1 DEF PlanInv, PlanTyped
  <1>3. \A q \in Requests : PlanInHand(q)'
    BY <1>1 DEF PlanInv, PlanInHand, O!Doing, MovedTo
  <1>4. KeysAreHeld'
    BY <1>1 DEF PlanInv, KeysAreHeld, Removing, O!Doing
  <1> QED
    BY <1>2, <1>3, <1>4 DEF PlanInv, O!EdgesAreUsable, O!LinksFit

\* The request that deletes an overlay takes its key over.
LEMMA DeleteKeeps ==
    ASSUME PlanInv, NEW c \in Requests, NEW o \in OverlayIds, O!DeleteOverlay(c, o)
    PROVE  PlanInv'
  <1>1. /\ O!Doing(c, "idle") /\ o \in DOMAIN overlays /\ UNCHANGED <<files, minted, embeds>>
        /\ overlays' = O!Without(overlays, o)
        /\ O!Proceeds(c, [O!Waiting EXCEPT !.at = "removing", !.row = overlays[o]])
    BY DEF O!DeleteOverlay
  <1>2. /\ DOMAIN overlays' = DOMAIN overlays \ {o}
        /\ \A u \in DOMAIN overlays' : overlays'[u] = overlays[u]
    BY <1>1 DEF O!Without, O!Restrict
  <1>3. PICK row \in Overlay : row = overlays[o] /\ row.key \in DOMAIN minted
    BY <1>1 DEF PlanInv, PlanTyped
  <1>4. [O!Waiting EXCEPT !.at = "removing", !.row = row] = [at |-> "removing", on |-> 0, row |-> row]
    BY HandedOver, Zenon
  <1>5. /\ DOMAIN planning' = Requests /\ planning'[c] = [at |-> "removing", on |-> 0, row |-> row]
        /\ \A q \in Requests \ {c} : planning'[q] = planning[q]
    BY <1>1, <1>3, <1>4, Proceeded DEF PlanInv
  <1>6. planning'[c].at = "removing" /\ planning'[c].row = row
    BY <1>5
  <1>7. PlanTyped'
    BY <1>1, <1>2, <1>3, <1>5, <1>6 DEF PlanInv, PlanTyped
  <1>8. \A q \in Requests : PlanInHand(q)'
    <2>1. PlanInHand(c)'
      BY <1>3, <1>6 DEF PlanInHand, O!Doing
    <2>2. ASSUME NEW q \in Requests \ {c} PROVE PlanInHand(q)'
      BY <1>5 DEF PlanInv, PlanInHand, O!Doing, MovedTo
    <2> QED
      BY <2>1, <2>2
  <1>9. KeysAreHeld'
    <2> SUFFICES ASSUME NEW k \in DOMAIN minted
                 PROVE  /\ minted[k] = 0 => /\ \A u \in DOMAIN overlays' : overlays'[u].key # k
                                            /\ \A q \in Requests : ~Removing(q, k)'
                                            /\ \A q \in Requests : O!Doing(q, "adding")' /\ planning'[q].row.key = k => k \in files
                        /\ minted[k] = 1 =>
                             /\ \A u, v \in DOMAIN overlays' : overlays'[u].key = k /\ overlays'[v].key = k => u = v
                             /\ \A p, q \in Requests : Removing(p, k)' /\ Removing(q, k)' => p = q
                             /\ \A q \in Requests, u \in DOMAIN overlays' : Removing(q, k)' => overlays'[u].key # k
                             /\ \A u \in DOMAIN overlays' : overlays'[u].key = k => k \in files
      BY <1>1 DEF KeysAreHeld
    <2>1. \A q \in Requests : Removing(q, k)' => Removing(q, k) \/ (q = c /\ k = row.key)
      BY <1>5, <1>6 DEF Removing, O!Doing
    <2>2. \A q \in Requests : O!Doing(q, "adding")' => O!Doing(q, "adding") /\ planning'[q].row = planning[q].row
      BY <1>5, <1>6 DEF O!Doing
    <2>3. k = row.key => minted[k] # 0 /\ (minted[k] = 1 => \A q \in Requests : ~Removing(q, k))
      BY <1>1, <1>3 DEF PlanInv, KeysAreHeld
    <2>4. k = row.key /\ minted[k] = 1 => \A u \in DOMAIN overlays' : overlays'[u].key # k
      BY <1>1, <1>2, <1>3 DEF PlanInv, KeysAreHeld
    <2> QED
      BY <2>1, <2>2, <2>3, <2>4, <1>2 DEF PlanInv, KeysAreHeld
  <1> QED
    BY <1>1, <1>2, <1>7, <1>8, <1>9 DEF PlanInv, O!EdgesAreUsable, O!LinksFit

\* The file goes with the last overlay of its key, if the key was registered
\* once.
LEMMA RemoveKeeps ==
    ASSUME PlanInv, NEW c \in Requests, NEW refused \in BOOLEAN, O!RemoveFile(c, refused)
    PROVE  PlanInv'
  <1>1. /\ O!Doing(c, "removing") /\ O!Proceeds(c, O!Waiting) /\ UNCHANGED <<minted, overlays, embeds>>
        /\ files' = files \/ files' = files \ {planning[c].row.key}
    BY DEF O!RemoveFile
  <1>2. /\ DOMAIN planning' = Requests /\ planning'[c].at = "idle"
        /\ \A q \in Requests \ {c} : planning'[q] = planning[q]
    BY <1>1, Proceeded DEF PlanInv, O!Waiting
  <1>3. PlanTyped'
    BY <1>1, <1>2 DEF PlanInv, PlanTyped
  <1>4. \A q \in Requests : PlanInHand(q)'
    BY <1>2 DEF PlanInv, PlanInHand, O!Doing, MovedTo
  <1>5. KeysAreHeld'
    <2> SUFFICES ASSUME NEW k \in DOMAIN minted
                 PROVE  /\ minted[k] = 0 => /\ \A u \in DOMAIN overlays : overlays[u].key # k
                                            /\ \A q \in Requests : ~Removing(q, k)'
                                            /\ \A q \in Requests : O!Doing(q, "adding")' /\ planning'[q].row.key = k => k \in files'
                        /\ minted[k] = 1 =>
                             /\ \A u, v \in DOMAIN overlays : overlays[u].key = k /\ overlays[v].key = k => u = v
                             /\ \A p, q \in Requests : Removing(p, k)' /\ Removing(q, k)' => p = q
                             /\ \A q \in Requests, u \in DOMAIN overlays : Removing(q, k)' => overlays[u].key # k
                             /\ \A u \in DOMAIN overlays : overlays[u].key = k => k \in files'
      BY <1>1 DEF KeysAreHeld
    <2>1. \A q \in Requests : Removing(q, k)' => Removing(q, k)
      BY <1>2 DEF Removing, O!Doing
    <2>2. \A q \in Requests : O!Doing(q, "adding")' => O!Doing(q, "adding") /\ planning'[q].row = planning[q].row
      BY <1>2 DEF O!Doing
    <2>3. k \in files /\ k \notin files' => Removing(c, k)
      BY <1>1 DEF Removing
    <2> QED
      BY <2>1, <2>2, <2>3 DEF PlanInv, KeysAreHeld
  <1> QED
    BY <1>1, <1>3, <1>4, <1>5 DEF PlanInv, O!EdgesAreUsable, O!LinksFit

\* A step that leaves everything but the embeds alone.
LEMMA EmbedsKept ==
    ASSUME PlanInv, UNCHANGED <<files, minted, overlays, planning>>,
           DOMAIN embeds' \subseteq EmbedIds,
           \A e \in DOMAIN embeds' : embeds'[e] \in Embed /\ O!Fits(embeds'[e].kind, embeds'[e].url)
    PROVE  PlanInv'
  <1>1. PlanTyped'
    BY DEF PlanInv, PlanTyped
  <1>2. \A q \in Requests : PlanInHand(q)'
    BY DEF PlanInv, PlanInHand, O!Doing, MovedTo
  <1>3. KeysAreHeld'
    BY DEF PlanInv, KeysAreHeld, Removing, O!Doing
  <1> QED
    BY <1>1, <1>2, <1>3 DEF PlanInv, O!EdgesAreUsable, O!LinksFit

LEMMA EmbedStepKeeps ==
    ASSUME PlanInv, NEW e \in EmbedIds,
           \/ \E kind \in O!Kinds, url \in O!Urls : O!CreateEmbed(e, kind, url)
           \/ O!DeleteEmbed(e)
    PROVE  PlanInv'
  <1>1. /\ DOMAIN embeds \subseteq EmbedIds
        /\ \A d \in DOMAIN embeds : embeds[d] \in Embed /\ O!Fits(embeds[d].kind, embeds[d].url)
    BY DEF PlanInv, PlanTyped, O!LinksFit
  <1>2. ASSUME NEW kind \in O!Kinds, NEW url \in O!Urls, O!CreateEmbed(e, kind, url) PROVE PlanInv'
    <2>1. PICK row \in Embed : row = [kind |-> kind, url |-> url] /\ O!Fits(row.kind, row.url)
      BY <1>2 DEF Embed, O!CreateEmbed
    <2>2. /\ embeds' = O!With(embeds, e, row) /\ UNCHANGED <<files, minted, overlays, planning>>
      BY <1>2, <2>1 DEF O!CreateEmbed
    <2>3. /\ DOMAIN embeds' = DOMAIN embeds \cup {e} /\ embeds'[e] = row
          /\ \A d \in DOMAIN embeds : d # e => embeds'[d] = embeds[d]
      BY <2>2 DEF O!With
    <2> QED
      BY <1>1, <2>1, <2>2, <2>3, EmbedsKept
  <1>3. CASE O!DeleteEmbed(e)
    <2>1. /\ embeds' = O!Without(embeds, e) /\ UNCHANGED <<files, minted, overlays, planning>>
      BY <1>3 DEF O!DeleteEmbed
    <2>2. DOMAIN embeds' = DOMAIN embeds \ {e} /\ \A d \in DOMAIN embeds' : embeds'[d] = embeds[d]
      BY <2>1 DEF O!Without, O!Restrict
    <2> QED
      BY <1>1, <2>1, <2>2, EmbedsKept
  <1> QED
    BY <1>2, <1>3

\* What an embed will be is checked before a request goes on with it; a request
\* that gives nothing goes on with what fits already.
LEMMA LoadEmbedKeeps ==
    ASSUME PlanInv, NEW c \in Requests, NEW e \in EmbedIds, NEW given,
           DOMAIN given \subseteq {"kind", "url"},
           "kind" \in DOMAIN given => given["kind"] \in O!Kinds,
           "url" \in DOMAIN given => given["url"] \in O!Urls,
           given = <<>> <=> DOMAIN given = {},
           O!LoadEmbed(c, e, given)
    PROVE  PlanInv'
  <1> DEFINE next == [field \in {"kind", "url"} |-> IF field \in DOMAIN given THEN given[field] ELSE embeds[e][field]]
  <1>1. /\ O!Doing(c, "idle") /\ e \in DOMAIN embeds /\ UNCHANGED <<files, minted, overlays, embeds>>
        /\ given # <<>> => O!Fits(next.kind, next.url)
        /\ O!Proceeds(c, [at |-> "changing", on |-> e, row |-> next])
    BY DEF O!LoadEmbed
  <1>2. embeds[e] \in Embed /\ O!Fits(embeds[e].kind, embeds[e].url)
    BY <1>1 DEF PlanInv, PlanTyped, O!LinksFit
  <1>3. next.kind \in O!Kinds /\ next.url \in O!Urls
    BY <1>2 DEF Embed
  <1>4. next \in Embed
    <2>1. next = [kind |-> next.kind, url |-> next.url]
      OBVIOUS
    <2> HIDE DEF next
    <2> QED
      BY <1>3, <2>1 DEF Embed
  <1>5. O!Fits(next.kind, next.url)
    <2>1. CASE given = <<>>
      <3>1. next.kind = embeds[e].kind /\ next.url = embeds[e].url
        BY <2>1
      <3> QED
        BY <3>1, <1>2
    <2> QED
      BY <1>1, <2>1
  <1> HIDE DEF next
  <1>6. /\ DOMAIN planning' = Requests /\ planning'[c] = [at |-> "changing", on |-> e, row |-> next]
        /\ \A q \in Requests \ {c} : planning'[q] = planning[q]
    BY <1>1, Proceeded DEF PlanInv
  <1>7. planning'[c].at = "changing" /\ planning'[c].row = next
    BY <1>6
  <1>8. PlanTyped'
    BY <1>1, <1>6, <1>7 DEF PlanInv, PlanTyped
  <1>9. \A q \in Requests : PlanInHand(q)'
    <2>1. PlanInHand(c)'
      BY <1>4, <1>5, <1>7 DEF PlanInHand, O!Doing
    <2>2. ASSUME NEW q \in Requests \ {c} PROVE PlanInHand(q)'
      BY <1>6 DEF PlanInv, PlanInHand, O!Doing, MovedTo
    <2> QED
      BY <2>1, <2>2
  <1>10. KeysAreHeld'
    BY <1>1, <1>6, <1>7 DEF PlanInv, KeysAreHeld, Removing, O!Doing
  <1> QED
    BY <1>1, <1>8, <1>9, <1>10 DEF PlanInv, O!EdgesAreUsable, O!LinksFit

LEMMA ChangeKeeps ==
    ASSUME PlanInv, NEW c \in Requests, O!ChangeEmbed(c)
    PROVE  PlanInv'
  <1>1. /\ O!Doing(c, "changing") /\ O!Proceeds(c, O!Waiting) /\ UNCHANGED <<files, minted, overlays>>
        /\ embeds' = IF planning[c].on \in DOMAIN embeds
                     THEN [embeds EXCEPT ![planning[c].on] = planning[c].row] ELSE embeds
    BY DEF O!ChangeEmbed
  <1>2. PICK row \in Embed : row = planning[c].row /\ O!Fits(row.kind, row.url)
    BY <1>1 DEF PlanInv, PlanInHand
  <1>3. /\ DOMAIN embeds' = DOMAIN embeds
        /\ \A e \in DOMAIN embeds : embeds'[e] = embeds[e] \/ embeds'[e] = row
    BY <1>1, <1>2
  <1> QED
    BY <1>1, <1>2, <1>3, StopKeeps DEF PlanInv, PlanTyped, O!LinksFit

LEMMA BreakOffKeeps ==
    ASSUME PlanInv, NEW c \in Requests, O!BreakOffPlan(c)
    PROVE  PlanInv'
  <1>1. O!Proceeds(c, O!Waiting) /\ UNCHANGED <<files, minted, overlays, embeds>>
    BY DEF O!BreakOffPlan
  <1> QED
    BY <1>1, StopKeeps DEF PlanInv, PlanTyped, O!LinksFit

LEMMA PlanInvStep == PlanInv /\ [O!PlanNext]_plans => PlanInv'
  <1> SUFFICES ASSUME PlanInv, [O!PlanNext]_plans PROVE PlanInv'
    OBVIOUS
  <1>1. CASE UNCHANGED plans
    <2>1. UNCHANGED <<files, minted, overlays, embeds, planning>>
      BY <1>1 DEF plans
    <2> QED
      BY <2>1, EmbedsKept DEF PlanInv, PlanTyped, O!LinksFit
  <1>2. ASSUME NEW k \in Uploaded, O!Upload(k) PROVE PlanInv'
    BY <1>2, UploadKeeps
  <1>3. ASSUME NEW c \in Requests, NEW k \in Uploaded, NEW north \in Edges, NEW south \in Edges,
               O!CheckOverlay(c, k, north, south)
        PROVE PlanInv'
    BY <1>3, CheckKeeps
  <1>4. ASSUME NEW c \in Requests, NEW o \in OverlayIds, O!AddOverlay(c, o) \/ O!DeleteOverlay(c, o) PROVE PlanInv'
    BY <1>4, AddKeeps, DeleteKeeps
  <1>5. ASSUME NEW c \in Requests, NEW o \in OverlayIds, NEW given \in O!Some(Edges), O!LoadEdges(c, o, given)
        PROVE PlanInv'
    <2>1. given \in Given
      BY DEF O!Some, Given, Sides
    <2> QED
      BY <1>5, <2>1, LoadEdgesKeeps
  <1>6. ASSUME NEW c \in Requests, O!MoveEdges(c) PROVE PlanInv'
    BY <1>6, MoveKeeps
  <1>7. ASSUME NEW c \in Requests, NEW refused \in BOOLEAN, O!RemoveFile(c, refused) PROVE PlanInv'
    BY <1>7, RemoveKeeps
  <1>8. ASSUME NEW c \in Requests, NEW e \in EmbedIds,
               \/ O!LoadEmbed(c, e, <<>>)
               \/ \E kind \in O!Kinds : O!LoadEmbed(c, e, [kind |-> kind])
               \/ \E url \in O!Urls : O!LoadEmbed(c, e, [url |-> url])
               \/ \E kind \in O!Kinds, url \in O!Urls : O!LoadEmbed(c, e, [kind |-> kind, url |-> url])
        PROVE PlanInv'
    <2>1. CASE O!LoadEmbed(c, e, <<>>)
      BY <2>1, LoadEmbedKeeps
    <2>2. ASSUME NEW kind \in O!Kinds, O!LoadEmbed(c, e, [kind |-> kind]) PROVE PlanInv'
      BY <2>2, LoadEmbedKeeps
    <2>3. ASSUME NEW url \in O!Urls, O!LoadEmbed(c, e, [url |-> url]) PROVE PlanInv'
      BY <2>3, LoadEmbedKeeps
    <2>4. ASSUME NEW kind \in O!Kinds, NEW url \in O!Urls, O!LoadEmbed(c, e, [kind |-> kind, url |-> url]) PROVE PlanInv'
      BY <2>4, LoadEmbedKeeps
    <2> QED
      BY <1>8, <2>1, <2>2, <2>3, <2>4
  <1>9. ASSUME NEW c \in Requests, O!ChangeEmbed(c) \/ O!BreakOffPlan(c) PROVE PlanInv'
    BY <1>9, ChangeKeeps, BreakOffKeeps
  <1>10. ASSUME NEW e \in EmbedIds,
                \/ \E kind \in O!Kinds, url \in O!Urls : O!CreateEmbed(e, kind, url)
                \/ O!DeleteEmbed(e)
         PROVE PlanInv'
    BY <1>10, EmbedStepKeeps
  <1> QED
    BY <1>1, <1>2, <1>3, <1>4, <1>5, <1>6, <1>7, <1>8, <1>9, <1>10, Zenon DEF O!PlanNext

LEMMA PlanInvTells ==
    ASSUME PlanInv
    PROVE  O!PlanTypeOK /\ O!EdgesAreUsable /\ O!LinksFit /\ O!OverlaysHaveFilesAlone
  <1>1. O!PlanTypeOK
    BY DEF PlanInv, PlanTyped, O!PlanTypeOK, O!Often, Overlay, Embed
  <1>2. O!OverlaysHaveFilesAlone
    BY DEF PlanInv, PlanTyped, KeysAreHeld, O!OverlaysHaveFilesAlone
  <1> QED
    BY <1>1, <1>2 DEF PlanInv

-------------------------------------------------------------------------------
(* Projects: the invariant.                                                    *)

Chosen == Dates \cup {P!None}
Period == [P!Ends -> Chosen]
Asked == UNION {[ends -> Chosen] : ends \in SUBSET P!Ends}

ManagedTyped ==
    /\ DOMAIN managing = Requests
    /\ DOMAIN dates \subseteq ProjectIds /\ (\A p \in DOMAIN dates : dates[p] \in Period)
    /\ filed \in [Documents -> ProjectIds \cup {P!None}]
    /\ scheduled \in [Surveys -> ProjectIds \cup {P!None, P!Unborn}]
    /\ crossed \subseteq {"dates", "filing", "uses"}

\* What a call of a manager found and has not written yet.
InManagersHand(c) ==
    /\ P!Does(c, "updating") => managing[c].on \in ProjectIds /\ managing[c].given \in Asked
    /\ P!Does(c, "filing") => /\ managing[c].item \in Documents
                              /\ managing[c].on \in ProjectIds /\ managing[c].to \in {managing[c].on, P!None}
                              /\ managing[c].to = P!None => managing[c].was = managing[c].on
    /\ P!Does(c, "scheduling") => /\ managing[c].on \in ProjectIds /\ managing[c].item \in Surveys
                                  /\ scheduled[managing[c].item] = P!Unborn
    /\ P!Does(c, "deleting") => managing[c].on \in ProjectIds

\* Unless two updates of a project met, the dates one would write are in order;
\* unless something was filed or scheduled under a project that a deletion has
\* counted, the deletion's count is right.
DatesHold ==
    "dates" \notin crossed =>
        /\ P!DatesInOrder
        /\ \A c \in Requests : P!Does(c, "updating") /\ P!Exists(managing[c].on) =>
              P!InOrder(P!Merged(managing[c].given, dates[managing[c].on]))
CountsHold ==
    "uses" \notin crossed =>
        /\ mistold = {}
        /\ \A c \in Requests : P!Does(c, "deleting") /\ P!Exists(managing[c].on) =>
              managing[c].counted = P!UsesOf(managing[c].on)

\* No two calls schedule the same assessment.
ScheduledOnce ==
    \A c, q \in Requests : P!Does(c, "scheduling") /\ P!Does(q, "scheduling")
                           /\ managing[c].item = managing[q].item => c = q

ProjectInv == /\ ManagedTyped /\ (\A c \in Requests : InManagersHand(c)) /\ ScheduledOnce
              /\ DatesHold /\ CountsHold /\ P!FiledUnderProjects

LEMMA NoProjects == /\ P!None \notin ProjectIds /\ P!Unborn \notin ProjectIds
                    /\ P!None = 0 /\ P!Unborn = -1
  BY RecordsAssumption, Zenon DEF P!None, P!Unborn

LEMMA ProjectInvInit == P!ProjectInit => ProjectInv
  <1> SUFFICES ASSUME P!ProjectInit PROVE ProjectInv
    OBVIOUS
  <1>1. /\ dates = <<>> /\ filed = [d \in Documents |-> P!None] /\ scheduled = [s \in Surveys |-> P!Unborn]
        /\ managing = [c \in Requests |-> P!AtRest] /\ mistold = {} /\ crossed = {}
    BY Zenon DEF P!ProjectInit
  <1>2. DOMAIN dates = {}
    BY <1>1
  <1>3. DOMAIN managing = Requests /\ \A c \in Requests : managing[c].at = "idle"
    BY <1>1 DEF P!AtRest
  <1>4. ManagedTyped
    BY <1>1, <1>2, <1>3 DEF ManagedTyped
  <1>5. \A c \in Requests : InManagersHand(c)
    BY <1>3 DEF InManagersHand, P!Does
  <1>6. ScheduledOnce /\ DatesHold /\ CountsHold
    BY <1>1, <1>2, <1>3 DEF ScheduledOnce, DatesHold, CountsHold, P!Does, P!DatesInOrder
  <1>7. P!FiledUnderProjects
    BY <1>1 DEF P!FiledUnderProjects
  <1> QED
    BY <1>4, <1>5, <1>6, <1>7 DEF ProjectInv

\* A call of a manager goes on with what it found, or is over.
LEMMA TurnedTo ==
    ASSUME ManagedTyped, NEW c \in Requests, NEW row, P!Turns(c, row)
    PROVE  /\ DOMAIN managing' = Requests /\ managing'[c] = row
           /\ \A q \in Requests \ {c} : managing'[q] = managing[q]
  BY DEF ManagedTyped, P!Turns

\* A call is over, and has changed neither projects nor what is filed.
LEMMA TurnOver ==
    ASSUME ManagedTyped, NEW c \in Requests, P!Turns(c, P!AtRest)
    PROVE  /\ DOMAIN managing' = Requests /\ managing'[c].at = "idle"
           /\ \A q \in Requests \ {c} : managing'[q] = managing[q]
  BY TurnedTo DEF P!AtRest

LEMMA InOrderMerged ==
    ASSUME NEW given \in Asked, NEW old \in Period
    PROVE  P!Merged(given, old) \in Period
  <1>1. PICK ends \in SUBSET P!Ends : given \in [ends -> Chosen]
    BY DEF Asked
  <1> QED
    BY <1>1 DEF P!Merged, Period

LEMMA CreateKeeps ==
    ASSUME ProjectInv, NEW p \in ProjectIds, NEW d \in Period, P!CreateProject(p, d)
    PROVE  ProjectInv'
  <1>1. /\ ~P!Exists(p) /\ (\A q \in Requests : managing[q].on # p) /\ P!InOrder(d)
        /\ UNCHANGED <<filed, scheduled, managing, mistold, crossed>>
        /\ DOMAIN dates' = DOMAIN dates \cup {p} /\ dates'[p] = d
        /\ \A q \in DOMAIN dates : q # p => dates'[q] = dates[q]
    BY DEF P!CreateProject
  <1>2. \A q : P!Exists(q) => P!Exists(q)' /\ dates'[q] = dates[q]
    BY <1>1 DEF P!Exists
  <1>3. \A c \in Requests : P!Exists(managing[c].on)' => P!Exists(managing[c].on) 
    BY <1>1 DEF P!Exists
  <1>4. ManagedTyped'
    BY <1>1 DEF ProjectInv, ManagedTyped
  <1>5. (\A c \in Requests : InManagersHand(c))' /\ ScheduledOnce'
    BY <1>1 DEF ProjectInv, InManagersHand, ScheduledOnce, P!Does
  <1>6. DatesHold'
    BY <1>1, <1>2, <1>3 DEF ProjectInv, DatesHold, P!Does, P!DatesInOrder
  <1>7. CountsHold'
    BY <1>1, <1>3 DEF ProjectInv, CountsHold, P!Does, P!UsesOf
  <1>8. P!FiledUnderProjects'
    BY <1>1, <1>2 DEF ProjectInv, P!FiledUnderProjects, P!Exists
  <1> QED
    BY <1>4, <1>5, <1>6, <1>7, <1>8 DEF ProjectInv

\* A call that has only looked: it holds what it found.
LEMMA LookKeeps ==
    ASSUME ProjectInv, NEW c \in Requests, UNCHANGED <<dates, filed, scheduled, mistold, crossed>>,
           DOMAIN managing' = Requests, \A q \in Requests \ {c} : managing'[q] = managing[q],
           InManagersHand(c)',
           P!Does(c, "updating")' /\ P!Exists(managing[c].on)' =>
               P!InOrder(P!Merged(managing'[c].given, dates[managing'[c].on])),
           P!Does(c, "deleting")' => managing'[c].counted = P!UsesOf(managing'[c].on),
           P!Does(c, "scheduling")' => \A q \in Requests \ {c} : managing[q].item # managing'[c].item
    PROVE  ProjectInv'
  <1>1. ManagedTyped'
    BY DEF ProjectInv, ManagedTyped
  <1>2. ASSUME NEW q \in Requests PROVE InManagersHand(q)'
    BY DEF ProjectInv, InManagersHand, P!Does
  <1>3. ScheduledOnce'
    BY DEF ProjectInv, ScheduledOnce, P!Does
  <1>4. DatesHold'
    <2>1. \A q \in Requests \ {c} : managing'[q] = managing[q] /\ (P!Does(q, "updating")' <=> P!Does(q, "updating"))
      BY DEF P!Does
    <2> QED
      BY <2>1 DEF ProjectInv, DatesHold, P!DatesInOrder, P!Exists
  <1>5. CountsHold'
    BY DEF ProjectInv, CountsHold, P!Does, P!Exists, P!UsesOf
  <1>6. P!FiledUnderProjects'
    BY DEF ProjectInv, P!FiledUnderProjects, P!Exists
  <1> QED
    BY <1>1, <1>2, <1>3, <1>4, <1>5, <1>6 DEF ProjectInv

LEMMA LoadUpdateKeeps ==
    ASSUME ProjectInv, NEW c \in Requests, NEW p \in ProjectIds, NEW given \in Asked, P!LoadUpdate(c, p, given)
    PROVE  ProjectInv'
  <1> DEFINE row == [P!AtRest EXCEPT !.at = "updating", !.on = p, !.given = given]
  <1>1. /\ P!InOrder(P!Merged(given, dates[p])) /\ P!Turns(c, row)
        /\ UNCHANGED <<dates, filed, scheduled, mistold, crossed>>
    BY DEF P!LoadUpdate
  <1>2. row.at = "updating" /\ row.on = p /\ row.given = given
    BY DEF P!AtRest
  <1> HIDE DEF row
  <1>3. /\ DOMAIN managing' = Requests /\ managing'[c] = row
        /\ \A q \in Requests \ {c} : managing'[q] = managing[q]
    BY <1>1, TurnedTo DEF ProjectInv
  <1>4. InManagersHand(c)'
    BY <1>2, <1>3 DEF InManagersHand, P!Does
  <1> QED
    BY <1>1, <1>2, <1>3, <1>4, LookKeeps DEF P!Does

LEMMA LoadFilingKeeps ==
    ASSUME ProjectInv, NEW c \in Requests, NEW p \in ProjectIds, NEW d \in Documents, NEW attached \in BOOLEAN,
           P!LoadFiling(c, p, d, attached)
    PROVE  ProjectInv'
  <1> DEFINE to == IF attached THEN p ELSE P!None
             row == [P!AtRest EXCEPT !.at = "filing", !.on = p, !.item = d, !.was = filed[d], !.to = to]
  <1>1. /\ attached \/ filed[d] = p
        /\ P!Turns(c, row) /\ UNCHANGED <<dates, filed, scheduled, mistold, crossed>>
    BY DEF P!LoadFiling, P!MayFile
  <1>2. row.at = "filing" /\ row.on = p /\ row.item = d /\ row.was = filed[d] /\ row.to = to
    BY DEF P!AtRest
  <1> HIDE DEF row
  <1>3. /\ DOMAIN managing' = Requests /\ managing'[c] = row
        /\ \A q \in Requests \ {c} : managing'[q] = managing[q]
    BY <1>1, TurnedTo DEF ProjectInv
  <1>4. InManagersHand(c)'
    BY <1>1, <1>2, <1>3, NoProjects DEF InManagersHand, P!Does
  <1> QED
    BY <1>1, <1>2, <1>3, <1>4, LookKeeps DEF P!Does

LEMMA LoadScheduleKeeps ==
    ASSUME ProjectInv, NEW c \in Requests, NEW p \in ProjectIds, NEW s \in Surveys, P!LoadSchedule(c, p, s)
    PROVE  ProjectInv'
  <1> DEFINE row == [P!AtRest EXCEPT !.at = "scheduling", !.on = p, !.item = s]
  <1>1. /\ scheduled[s] = P!Unborn /\ (\A q \in Requests : managing[q].item # s)
        /\ P!Turns(c, row) /\ UNCHANGED <<dates, filed, scheduled, mistold, crossed>>
    BY DEF P!LoadSchedule
  <1>2. row.at = "scheduling" /\ row.on = p /\ row.item = s
    BY DEF P!AtRest
  <1> HIDE DEF row
  <1>3. /\ DOMAIN managing' = Requests /\ managing'[c] = row
        /\ \A q \in Requests \ {c} : managing'[q] = managing[q]
    BY <1>1, TurnedTo DEF ProjectInv
  <1>4. InManagersHand(c)'
    BY <1>1, <1>2, <1>3 DEF InManagersHand, P!Does
  <1> QED
    BY <1>1, <1>2, <1>3, <1>4, LookKeeps DEF P!Does

LEMMA CountUsesKeeps ==
    ASSUME ProjectInv, NEW c \in Requests, NEW p \in ProjectIds, P!CountUses(c, p)
    PROVE  ProjectInv'
  <1> DEFINE row == [P!AtRest EXCEPT !.at = "deleting", !.on = p, !.counted = P!UsesOf(p)]
  <1>1. P!Turns(c, row) /\ UNCHANGED <<dates, filed, scheduled, mistold, crossed>>
    BY DEF P!CountUses, P!Unlinked
  <1>2. row.at = "deleting" /\ row.on = p /\ row.counted = P!UsesOf(p)
    BY DEF P!AtRest
  <1> HIDE DEF row
  <1>3. /\ DOMAIN managing' = Requests /\ managing'[c] = row
        /\ \A q \in Requests \ {c} : managing'[q] = managing[q]
    BY <1>1, TurnedTo DEF ProjectInv
  <1>4. InManagersHand(c)'
    BY <1>1, <1>2, <1>3 DEF InManagersHand, P!Does
  <1> QED
    BY <1>1, <1>2, <1>3, <1>4, LookKeeps DEF P!Does

LEMMA UpdateProjectKeeps ==
    ASSUME ProjectInv, NEW c \in Requests, P!UpdateProject(c)
    PROVE  ProjectInv'
  <1>1. /\ P!Does(c, "updating") /\ P!Turns(c, P!AtRest) /\ UNCHANGED <<filed, scheduled, mistold>>
    BY DEF P!UpdateProject
  <1>2. PICK p \in ProjectIds, given \in Asked : p = managing[c].on /\ given = managing[c].given
    BY <1>1 DEF ProjectInv, InManagersHand
  <1>3. /\ DOMAIN managing' = Requests /\ managing'[c].at = "idle"
        /\ \A q \in Requests \ {c} : managing'[q] = managing[q]
    BY <1>1, TurnOver DEF ProjectInv
  <1>4. DOMAIN dates' = DOMAIN dates /\ crossed \subseteq crossed' /\ crossed' \subseteq crossed \cup {"dates"}
    BY DEF P!UpdateProject, P!Crosses
  <1>5. \A q \in DOMAIN dates : q # p => dates'[q] = dates[q]
    BY <1>2 DEF P!UpdateProject
  <1>6. P!Exists(p) => dates'[p] = P!Merged(given, dates[p])
    BY <1>2 DEF P!UpdateProject, P!Merged, P!Exists
  <1>7. P!Exists(p) /\ "dates" \notin crossed' => \A q \in Requests \ {c} : ~(P!Does(q, "updating") /\ managing[q].on = p)
    BY <1>2 DEF P!UpdateProject, P!Crosses, P!Others
  <1>8. ManagedTyped'
    <2>1. P!Exists(p) => dates'[p] \in Period
      BY <1>2, <1>6, InOrderMerged DEF ProjectInv, ManagedTyped, P!Exists
    <2> QED
      BY <2>1, <1>1, <1>3, <1>4, <1>5 DEF ProjectInv, ManagedTyped, P!Exists
  <1>9. (\A q \in Requests : InManagersHand(q))' /\ ScheduledOnce'
    BY <1>1, <1>3 DEF ProjectInv, InManagersHand, ScheduledOnce, P!Does
  <1>10. DatesHold'
    <2> SUFFICES ASSUME "dates" \notin crossed'
                 PROVE  /\ P!DatesInOrder'
                        /\ \A q \in Requests : P!Does(q, "updating")' /\ P!Exists(managing[q].on)' =>
                             P!InOrder(P!Merged(managing[q].given, dates[managing[q].on]))'
      BY DEF DatesHold
    <2>1. P!Exists(p) => P!InOrder(dates'[p])
      BY <1>1, <1>2, <1>4, <1>6 DEF ProjectInv, DatesHold
    <2>2. P!DatesInOrder'
      BY <2>1, <1>4, <1>5 DEF ProjectInv, DatesHold, P!DatesInOrder, P!Exists
    <2>3. ASSUME NEW q \in Requests, P!Does(q, "updating")', P!Exists(managing[q].on)'
          PROVE  P!InOrder(P!Merged(managing[q].given, dates[managing[q].on]))'
      <3>1. q # c /\ managing'[q] = managing[q] /\ P!Does(q, "updating") /\ P!Exists(managing[q].on)
        BY <2>3, <1>3, <1>4 DEF P!Does, P!Exists
      <3>2. managing[q].on # p
        BY <3>1, <1>7
      <3>3. dates'[managing[q].on] = dates[managing[q].on]
        BY <3>1, <3>2, <1>5 DEF P!Exists
      <3>4. P!InOrder(P!Merged(managing[q].given, dates[managing[q].on]))
        BY <3>1, <1>4 DEF ProjectInv, DatesHold
      <3> QED
        BY <3>1, <3>3, <3>4
    <2> QED
      BY <2>2, <2>3
  <1>11. CountsHold'
    BY <1>1, <1>3, <1>4 DEF ProjectInv, CountsHold, P!Does, P!Exists, P!UsesOf
  <1>12. P!FiledUnderProjects'
    BY <1>1, <1>4 DEF ProjectInv, P!FiledUnderProjects, P!Exists
  <1> QED
    BY <1>8, <1>9, <1>10, <1>11, <1>12 DEF ProjectInv

LEMMA FileKeeps ==
    ASSUME ProjectInv, NEW c \in Requests, P!FileDocument(c)
    PROVE  ProjectInv'
  <1>1. /\ P!Does(c, "filing") /\ P!Turns(c, P!AtRest) /\ UNCHANGED <<dates, scheduled, mistold>>
    BY DEF P!FileDocument
  <1>2. PICK d \in Documents, to \in ProjectIds \cup {P!None} : d = managing[c].item /\ to = managing[c].to
    BY <1>1 DEF ProjectInv, InManagersHand
  <1>3. /\ DOMAIN managing' = Requests /\ managing'[c].at = "idle"
        /\ \A q \in Requests \ {c} : managing'[q] = managing[q]
    BY <1>1, TurnOver DEF ProjectInv
  <1>4. /\ filed' = [filed EXCEPT ![d] = to] \/ filed' = filed
        /\ crossed \subseteq crossed' /\ crossed' \subseteq crossed \cup {"filing", "uses"}
        /\ filed' # filed => to = P!None \/ P!Exists(to)
        /\ filed' # filed /\ "uses" \notin crossed' => ~P!Deleting({to, filed[d]})
    BY <1>2 DEF P!FileDocument
  <1>5. filed \in [Documents -> ProjectIds \cup {P!None}]
    BY DEF ProjectInv, ManagedTyped
  <1>6. filed' \in [Documents -> ProjectIds \cup {P!None}] /\ \A e \in Documents : e # d => filed'[e] = filed[e]
    BY <1>4, <1>5
  <1>7. ManagedTyped'
    BY <1>1, <1>3, <1>4, <1>6 DEF ProjectInv, ManagedTyped
  <1>8. (\A q \in Requests : InManagersHand(q))' /\ ScheduledOnce'
    BY <1>1, <1>3 DEF ProjectInv, InManagersHand, ScheduledOnce, P!Does
  <1>9. DatesHold'
    BY <1>1, <1>3, <1>4 DEF ProjectInv, DatesHold, P!DatesInOrder, P!Does, P!Exists
  <1>10. CountsHold'
    <2> SUFFICES ASSUME "uses" \notin crossed'
                 PROVE  /\ mistold' = {}
                        /\ \A q \in Requests : P!Does(q, "deleting")' /\ P!Exists(managing[q].on)' =>
                             managing'[q].counted = P!UsesOf(managing[q].on)'
      BY DEF CountsHold
    <2>1. mistold' = {}
      BY <1>1, <1>4 DEF ProjectInv, CountsHold
    <2>2. ASSUME NEW q \in Requests, P!Does(q, "deleting")', P!Exists(managing[q].on)'
          PROVE  managing'[q].counted = P!UsesOf(managing[q].on)'
      <3>1. q # c /\ managing'[q] = managing[q] /\ P!Does(q, "deleting") /\ P!Exists(managing[q].on)
        BY <2>2, <1>1, <1>3 DEF P!Does, P!Exists
      <3>2. PICK p \in ProjectIds : p = managing[q].on
        BY <3>1 DEF ProjectInv, InManagersHand
      <3>3. managing[q].counted = P!UsesOf(p)
        BY <3>1, <3>2, <1>4 DEF ProjectInv, CountsHold
      <3>4. filed' # filed => p # to /\ p # filed[d]
        BY <3>1, <3>2, <1>4 DEF P!Deleting
      <3>5. \A e \in Documents : filed'[e] = p <=> filed[e] = p
        BY <3>4, <1>4, <1>5
      <3>6. P!UsesOf(p)' = P!UsesOf(p)
        BY <3>5, <1>1 DEF P!UsesOf
      <3> QED
        BY <3>1, <3>2, <3>3, <3>6
    <2> QED
      BY <2>1, <2>2
  <1>11. P!FiledUnderProjects'
    BY <1>1, <1>4, <1>5 DEF ProjectInv, P!FiledUnderProjects, P!Exists
  <1> QED
    BY <1>7, <1>8, <1>9, <1>10, <1>11 DEF ProjectInv

LEMMA ScheduleKeeps ==
    ASSUME ProjectInv, NEW c \in Requests, P!ScheduleUnder(c)
    PROVE  ProjectInv'
  <1>1. /\ P!Does(c, "scheduling") /\ P!Turns(c, P!AtRest) /\ UNCHANGED <<dates, filed, mistold>>
    BY DEF P!ScheduleUnder
  <1>2. PICK s \in Surveys, p \in ProjectIds :
          s = managing[c].item /\ p = managing[c].on /\ scheduled[s] = P!Unborn
    BY <1>1 DEF ProjectInv, InManagersHand
  <1>3. /\ DOMAIN managing' = Requests /\ managing'[c].at = "idle"
        /\ \A q \in Requests \ {c} : managing'[q] = managing[q]
    BY <1>1, TurnOver DEF ProjectInv
  <1>4. /\ scheduled' = [scheduled EXCEPT ![s] = IF P!Exists(p) THEN p ELSE scheduled[s]]
        /\ crossed \subseteq crossed' /\ crossed' \subseteq crossed \cup {"uses"}
        /\ "uses" \notin crossed' => ~P!Deleting({p})
    BY <1>2 DEF P!ScheduleUnder, P!Crosses
  <1>5. scheduled \in [Surveys -> ProjectIds \cup {P!None, P!Unborn}]
    BY DEF ProjectInv, ManagedTyped
  <1>6. /\ scheduled' \in [Surveys -> ProjectIds \cup {P!None, P!Unborn}]
        /\ \A u \in Surveys : u # s => scheduled'[u] = scheduled[u]
        /\ scheduled'[s] = IF P!Exists(p) THEN p ELSE P!Unborn
    BY <1>2, <1>4, <1>5
  <1>7. ManagedTyped'
    BY <1>1, <1>3, <1>4, <1>6 DEF ProjectInv, ManagedTyped
  <1>8. ScheduledOnce'
    BY <1>1, <1>3 DEF ProjectInv, ScheduledOnce, P!Does
  <1>9. (\A q \in Requests : InManagersHand(q))'
    <2> SUFFICES ASSUME NEW q \in Requests PROVE InManagersHand(q)'
      OBVIOUS
    <2>1. CASE q = c
      BY <2>1, <1>3 DEF InManagersHand, P!Does
    <2>2. CASE q # c
      <3>1. managing'[q] = managing[q] /\ InManagersHand(q)
        BY <2>2, <1>3 DEF ProjectInv
      <3>2. P!Does(q, "scheduling") => managing[q].item # s /\ managing[q].item \in Surveys
        BY <2>2, <1>1, <1>2, <3>1 DEF ProjectInv, ScheduledOnce, InManagersHand
      <3> QED
        BY <3>1, <3>2, <1>6 DEF InManagersHand, P!Does
    <2> QED
      BY <2>1, <2>2
  <1>10. DatesHold'
    BY <1>1, <1>3, <1>4 DEF ProjectInv, DatesHold, P!DatesInOrder, P!Does, P!Exists
  <1>11. CountsHold'
    <2> SUFFICES ASSUME "uses" \notin crossed'
                 PROVE  /\ mistold' = {}
                        /\ \A q \in Requests : P!Does(q, "deleting")' /\ P!Exists(managing[q].on)' =>
                             managing'[q].counted = P!UsesOf(managing[q].on)'
      BY DEF CountsHold
    <2>1. mistold' = {}
      BY <1>1, <1>4 DEF ProjectInv, CountsHold
    <2>2. ASSUME NEW q \in Requests, P!Does(q, "deleting")', P!Exists(managing[q].on)'
          PROVE  managing'[q].counted = P!UsesOf(managing[q].on)'
      <3>1. q # c /\ managing'[q] = managing[q] /\ P!Does(q, "deleting") /\ P!Exists(managing[q].on)
        BY <2>2, <1>1, <1>3 DEF P!Does, P!Exists
      <3>2. PICK o \in ProjectIds : o = managing[q].on
        BY <3>1 DEF ProjectInv, InManagersHand
      <3>3. managing[q].counted = P!UsesOf(o)
        BY <3>1, <3>2, <1>4 DEF ProjectInv, CountsHold
      <3>4. o # p
        BY <3>1, <3>2, <1>4 DEF P!Deleting
      <3>5. \A u \in Surveys : scheduled'[u] = o <=> scheduled[u] = o
        BY <3>4, <1>2, <1>6, NoProjects
      <3>6. P!UsesOf(o)' = P!UsesOf(o)
        BY <3>5, <1>1 DEF P!UsesOf
      <3> QED
        BY <3>1, <3>2, <3>3, <3>6
    <2> QED
      BY <2>1, <2>2
  <1>12. P!FiledUnderProjects'
    BY <1>1, <1>2, <1>6 DEF ProjectInv, P!FiledUnderProjects, P!Exists
  <1> QED
    BY <1>7, <1>8, <1>9, <1>10, <1>11, <1>12 DEF ProjectInv

LEMMA DeleteProjectKeeps ==
    ASSUME ProjectInv, NEW c \in Requests, P!DeleteProject(c)
    PROVE  ProjectInv'
  <1>1. /\ P!Does(c, "deleting") /\ P!Turns(c, P!AtRest) /\ UNCHANGED crossed
    BY DEF P!DeleteProject
  <1>2. PICK p \in ProjectIds : p = managing[c].on
    BY <1>1 DEF ProjectInv, InManagersHand
  <1>3. /\ DOMAIN managing' = Requests /\ managing'[c].at = "idle"
        /\ \A q \in Requests \ {c} : managing'[q] = managing[q]
    BY <1>1, TurnOver DEF ProjectInv
  <1>4. CASE ~P!Exists(p)
    <2>1. UNCHANGED <<dates, filed, scheduled, mistold>>
      BY <1>2, <1>4 DEF P!DeleteProject
    <2> QED
      BY <2>1, <1>1, <1>3, LookKeeps DEF InManagersHand, P!Does
  <1>5. CASE P!Exists(p)
    <2>1. /\ dates' = [q \in DOMAIN dates \ {p} |-> dates[q]]
          /\ filed' = [d \in Documents |-> IF filed[d] = p THEN P!None ELSE filed[d]]
          /\ scheduled' = [s \in Surveys |-> IF scheduled[s] = p THEN P!None ELSE scheduled[s]]
          /\ mistold' = (managing[c].counted \cup P!UsesOf(p)) \ (managing[c].counted \cap P!UsesOf(p))
      BY <1>2, <1>5 DEF P!DeleteProject
    <2>2. DOMAIN dates' = DOMAIN dates \ {p} /\ \A q \in DOMAIN dates' : dates'[q] = dates[q]
      BY <2>1
    <2>3. \A q : P!Exists(q)' <=> P!Exists(q) /\ q # p
      BY <2>2 DEF P!Exists
    <2>4. ManagedTyped'
      BY <2>1, <2>2, <1>1, <1>3 DEF ProjectInv, ManagedTyped
    <2>5. \A s \in Surveys : scheduled[s] = P!Unborn => scheduled'[s] = P!Unborn
      BY <2>1, NoProjects
    <2>6. (\A q \in Requests : InManagersHand(q))' /\ ScheduledOnce'
      BY <2>5, <1>3 DEF ProjectInv, InManagersHand, ScheduledOnce, P!Does
    <2>7. DatesHold'
      BY <2>2, <2>3, <1>1, <1>3 DEF ProjectInv, DatesHold, P!DatesInOrder, P!Does, P!Exists
    <2>8. CountsHold'
      <3> SUFFICES ASSUME "uses" \notin crossed
                   PROVE  /\ mistold' = {}
                          /\ \A q \in Requests : P!Does(q, "deleting")' /\ P!Exists(managing[q].on)' =>
                               managing'[q].counted = P!UsesOf(managing[q].on)'
        BY <1>1 DEF CountsHold
      <3>1. mistold' = {}
        BY <2>1, <1>1, <1>2, <1>5 DEF ProjectInv, CountsHold
      <3>2. ASSUME NEW q \in Requests, P!Does(q, "deleting")', P!Exists(managing[q].on)'
            PROVE  managing'[q].counted = P!UsesOf(managing[q].on)'
        <4>1. q # c /\ managing'[q] = managing[q] /\ P!Does(q, "deleting")
          BY <3>2, <1>3 DEF P!Does
        <4>2. PICK o \in ProjectIds : o = managing[q].on /\ o # p /\ P!Exists(o)
          BY <3>2, <4>1, <2>3 DEF ProjectInv, InManagersHand
        <4>3. managing[q].counted = P!UsesOf(o)
          BY <4>1, <4>2 DEF ProjectInv, CountsHold
        <4>4. P!UsesOf(o)' = P!UsesOf(o)
          BY <2>1, <4>2, NoProjects DEF P!UsesOf
        <4> QED
          BY <4>1, <4>2, <4>3, <4>4
      <3> QED
        BY <3>1, <3>2
    <2>9. P!FiledUnderProjects'
      BY <2>1, <2>3 DEF ProjectInv, P!FiledUnderProjects
    <2> QED
      BY <2>4, <2>6, <2>7, <2>8, <2>9 DEF ProjectInv
  <1> QED
    BY <1>4, <1>5

LEMMA ProjectInvStep == ProjectInv /\ [P!ProjectNext]_projects => ProjectInv'
  <1> SUFFICES ASSUME ProjectInv, [P!ProjectNext]_projects PROVE ProjectInv'
    OBVIOUS
  <1>1. CASE UNCHANGED projects
    <2>1. UNCHANGED <<dates, filed, scheduled, managing, mistold, crossed>>
      BY <1>1 DEF projects
    <2>2. ManagedTyped' /\ (\A c \in Requests : InManagersHand(c))' /\ ScheduledOnce'
      BY <2>1 DEF ProjectInv, ManagedTyped, InManagersHand, ScheduledOnce, P!Does
    <2>3. DatesHold' /\ CountsHold' /\ P!FiledUnderProjects'
      BY <2>1 DEF ProjectInv, DatesHold, CountsHold, P!DatesInOrder, P!FiledUnderProjects, P!UsesOf, P!Does, P!Exists
    <2> QED
      BY <2>2, <2>3 DEF ProjectInv
  <1>2. ASSUME NEW p \in ProjectIds, NEW d \in [P!Ends -> Dates \cup {P!None}], P!CreateProject(p, d)
        PROVE  ProjectInv'
    BY <1>2, CreateKeeps DEF Period, Chosen
  <1>3. ASSUME NEW c \in Requests, NEW p \in ProjectIds, NEW ends \in SUBSET P!Ends \ {{}},
               NEW given \in [ends -> Dates \cup {P!None}], P!LoadUpdate(c, p, given)
        PROVE  ProjectInv'
    <2>1. given \in Asked
      BY DEF Asked, Chosen
    <2> QED
      BY <1>3, <2>1, LoadUpdateKeeps
  <1>4. ASSUME NEW c \in Requests, NEW p \in ProjectIds, NEW d \in Documents, NEW attached \in BOOLEAN,
               P!LoadFiling(c, p, d, attached)
        PROVE  ProjectInv'
    BY <1>4, LoadFilingKeeps
  <1>5. ASSUME NEW c \in Requests, NEW p \in ProjectIds, NEW s \in Surveys, P!LoadSchedule(c, p, s)
        PROVE  ProjectInv'
    BY <1>5, LoadScheduleKeeps
  <1>6. ASSUME NEW c \in Requests, NEW p \in ProjectIds, P!CountUses(c, p) PROVE ProjectInv'
    BY <1>6, CountUsesKeeps
  <1>7. ASSUME NEW c \in Requests, P!UpdateProject(c) \/ P!FileDocument(c) \/ P!ScheduleUnder(c) \/ P!DeleteProject(c)
        PROVE  ProjectInv'
    BY <1>7, UpdateProjectKeeps, FileKeeps, ScheduleKeeps, DeleteProjectKeeps
  <1> QED
    BY <1>1, <1>2, <1>3, <1>4, <1>5, <1>6, <1>7, Zenon DEF P!ProjectNext

LEMMA ProjectInvTells ==
    ASSUME ProjectInv
    PROVE  P!ProjectTypeOK /\ P!DatesInOrderAlone /\ P!UnlinkedIsTold /\ P!FiledUnderProjects
  <1>1. P!ProjectTypeOK
    BY DEF ProjectInv, ManagedTyped, Period, Chosen, P!ProjectTypeOK
  <1> QED
    BY <1>1 DEF ProjectInv, DatesHold, CountsHold, P!DatesInOrderAlone, P!UnlinkedIsTold

\* A document only leaves a project there still is by a call about that project.
LEMMA DetachesOwn == ProjectInv /\ [P!ProjectNext]_projects => P!DetachSpares
  <1> SUFFICES ASSUME ProjectInv, [P!ProjectNext]_projects, "filing" \notin crossed',
                      NEW d \in Documents, filed[d] # P!None, filed'[d] = P!None, filed[d] \in DOMAIN dates'
               PROVE  \E c \in Requests : managing[c].at = "filing" /\ managing[c].item = d /\ managing[c].on = filed[d]
    BY DEF P!DetachSpares
  <1>1. filed' # filed
    OBVIOUS
  <1>2. PICK c \in Requests : P!FileDocument(c) \/ P!DeleteProject(c)
    <2>1. P!ProjectNext
      BY <1>1 DEF projects
    <2>2. ASSUME NEW p, NEW e, P!CreateProject(p, e) PROVE FALSE
      BY <1>1, <2>2 DEF P!CreateProject
    <2>3. ASSUME NEW q, NEW p, NEW given, P!LoadUpdate(q, p, given) PROVE FALSE
      BY <1>1, <2>3 DEF P!LoadUpdate
    <2>4. ASSUME NEW q, NEW p, NEW e, NEW attached, P!LoadFiling(q, p, e, attached) PROVE FALSE
      BY <1>1, <2>4 DEF P!LoadFiling
    <2>5. ASSUME NEW q, NEW p, NEW s, P!LoadSchedule(q, p, s) PROVE FALSE
      BY <1>1, <2>5 DEF P!LoadSchedule
    <2>6. ASSUME NEW q, NEW p, P!CountUses(q, p) PROVE FALSE
      BY <1>1, <2>6 DEF P!CountUses
    <2>7. ASSUME NEW q, P!UpdateProject(q) \/ P!ScheduleUnder(q) PROVE FALSE
      BY <1>1, <2>7 DEF P!UpdateProject, P!ScheduleUnder
    <2> QED
      BY <2>1, <2>2, <2>3, <2>4, <2>5, <2>6, <2>7, Zenon DEF P!ProjectNext
  <1>3. filed \in [Documents -> ProjectIds \cup {P!None}]
    BY DEF ProjectInv, ManagedTyped
  <1>4. CASE P!FileDocument(c)
    <2>1. /\ managing[c].at = "filing" /\ managing[c].on \in ProjectIds
          /\ managing[c].to = P!None => managing[c].was = managing[c].on
      BY <1>4 DEF P!FileDocument, P!Does, ProjectInv, InManagersHand
    <2>2. PICK e, to : e = managing[c].item /\ to = managing[c].to
      OBVIOUS
    <2>3. /\ filed' = [filed EXCEPT ![e] = to]
          /\ filed[e] # managing[c].was => "filing" \in crossed'
      BY <1>1, <1>4, <2>2 DEF P!FileDocument
    <2>4. e = d /\ to = P!None
      BY <1>3, <2>3
    <2> QED
      BY <2>1, <2>2, <2>3, <2>4
  <1>5. CASE P!DeleteProject(c)
    <2>1. PICK p : p = managing[c].on
      OBVIOUS
    <2>2. /\ dates' = [q \in DOMAIN dates \ {p} |-> dates[q]]
          /\ filed' = [e \in Documents |-> IF filed[e] = p THEN P!None ELSE filed[e]]
      BY <1>1, <1>5, <2>1 DEF P!DeleteProject
    <2>3. filed[d] = p
      BY <2>2
    <2> QED
      BY <2>2, <2>3
  <1> QED
    BY <1>2, <1>4, <1>5

-------------------------------------------------------------------------------
(* StorageTiering: the invariant.                                              *)

Class == 0 .. 3
Row == [known : BOOLEAN, tier : Class, restore : {"NOT_REQUESTED", "IN_PROGRESS", "AVAILABLE", "FAILED"}]
Stored == [here : BOOLEAN, tier : Class, thaw : {"none", "ongoing", "ready"}]
Pass == [at : {"idle", "policy", "move", "record"}, after : Schedules \cup {T!Idle.after},
         todo : SUBSET Objects, now : SUBSET Objects, target : [Objects -> Class]]
Restore == [at : {"idle", "asked", "answered"}, obj : Objects \cup {"none"},
            outcome : {"none", "IN_PROGRESS", "AVAILABLE", "FAILED"}]

TierTyped ==
    /\ policy \in [enabled : BOOLEAN, after : Schedules \cup {T!Idle.after}]
    /\ ledger \in [Objects -> Row] /\ store \in [Objects -> Stored]
    /\ age \in [Objects -> 0 .. OldestAge] /\ pass \in [Passes -> Pass]
    /\ ask \in Restore /\ (ask.at # "idle" => ask.obj \in Objects)
    /\ ask.at = "answered" => ask.outcome # "none"
    /\ behind \subseteq Objects

\* Where a pass is: what it has in hand is on its list, and only a pass that
\* goes through its list has one.
PassesInOrder ==
    \A p \in Passes : /\ pass[p].now \subseteq pass[p].todo
                      /\ pass[p].now # {} => pass[p].at = "record"
                      /\ \A o, u \in pass[p].now : o = u
                      /\ pass[p].at \in {"idle", "policy"} => pass[p].todo = {}

\* An object that no two passes had on their lists, and that no pass died over:
\* its row is that of the store, a pass that has it on its list moves it
\* colder, and one that has moved it finds the row as it was.
InOneHand(o) ==
    /\ \A p, q \in Passes : o \in pass[p].todo /\ o \in pass[q].todo => p = q
    /\ \A p \in Passes : o \in pass[p].todo => ledger[o].known /\ ledger[o].tier < pass[p].target[o]
    /\ \A p \in Passes : o \in pass[p].now => store[o].tier = pass[p].target[o] /\ store[o].thaw = "none"
    /\ ~T!Recording(o) => store[o].tier = IF ledger[o].known THEN ledger[o].tier ELSE 0

\* Its restore: only what is in the deep archive is asked for, thaws or is on
\* record as restored.
RestoreInHand(o) ==
    /\ store[o].thaw = "ongoing" =>
         /\ store[o].tier = 3
         /\ ledger[o].restore \in {"IN_PROGRESS", "FAILED"} \/ (ask.at = "answered" /\ ask.obj = o)
    /\ ledger[o].restore # "NOT_REQUESTED" => ledger[o].tier = 3 /\ ledger[o].known
    /\ ask.at # "idle" /\ ask.obj = o => ledger[o].known /\ ledger[o].tier = 3
    /\ ask.at = "answered" /\ ask.obj = o /\ ask.outcome = "AVAILABLE" => store[o].thaw # "ongoing"

TierInv == /\ TierTyped /\ PassesInOrder
           /\ \A o \in Objects \ behind : InOneHand(o) /\ RestoreInHand(o)

LEMMA TierInvInit == T!Init => TierInv
  <1> SUFFICES ASSUME T!Init PROVE TierInv
    OBVIOUS
  <1>1. /\ policy = [enabled |-> FALSE, after |-> T!Idle.after]
        /\ ledger = [o \in Objects |-> T!NoRow]
        /\ store = [o \in Objects |-> [here |-> FALSE, tier |-> 0, thaw |-> "none"]]
        /\ age = [o \in Objects |-> 0] /\ pass = [p \in Passes |-> T!Idle]
        /\ ask = T!NoAsk /\ behind = {}
    BY Zenon DEF T!Init
  <1>2. OldestAge \in Nat
    BY RecordsAssumption, Zenon
  <1>3. T!NoRow \in Row /\ T!NoRow.tier = 0 /\ ~T!NoRow.known /\ T!NoRow.restore = "NOT_REQUESTED"
    BY DEF T!NoRow, Row, Class
  <1>4. [here |-> FALSE, tier |-> 0, thaw |-> "none"] \in Stored
    BY DEF Stored, Class
  <1>5. T!Idle \in Pass /\ T!Idle.at = "idle" /\ T!Idle.todo = {} /\ T!Idle.now = {}
    BY DEF T!Idle, Pass, Class
  <1>6. ask.at = "idle" /\ ask \in Restore
    BY <1>1 DEF T!NoAsk, Restore
  <1>7. TierTyped
    <2>1. policy \in [enabled : BOOLEAN, after : Schedules \cup {T!Idle.after}]
      BY <1>1
    <2>2. ledger \in [Objects -> Row] /\ store \in [Objects -> Stored]
      BY <1>1, <1>3, <1>4
    <2>3. age \in [Objects -> 0 .. OldestAge] /\ pass \in [Passes -> Pass]
      BY <1>1, <1>2, <1>5
    <2> QED
      BY <1>1, <1>6, <2>1, <2>2, <2>3 DEF TierTyped
  <1>8. PassesInOrder
    BY <1>1, <1>5 DEF PassesInOrder
  <1>9. ASSUME NEW o \in Objects PROVE InOneHand(o) /\ RestoreInHand(o)
    <2>1. /\ \A p \in Passes : pass[p].todo = {} /\ pass[p].now = {}
          /\ ledger[o] = T!NoRow /\ store[o].tier = 0 /\ store[o].thaw = "none"
      BY <1>1, <1>5
    <2> QED
      BY <2>1, <1>3, <1>6 DEF InOneHand, RestoreInHand
  <1> QED
    BY <1>7, <1>8, <1>9 DEF TierInv

\* What one row or one object becomes leaves the others as they are.
LEMMA OneRow ==
    ASSUME TierTyped, NEW o \in Objects, NEW row \in Row, ledger' = [ledger EXCEPT ![o] = row]
    PROVE  /\ ledger' \in [Objects -> Row] /\ ledger'[o] = row
           /\ \A u \in Objects : u # o => ledger'[u] = ledger[u]
  BY DEF TierTyped

LEMMA OneObject ==
    ASSUME TierTyped, NEW o \in Objects, NEW object \in Stored, store' = [store EXCEPT ![o] = object]
    PROVE  /\ store' \in [Objects -> Stored] /\ store'[o] = object
           /\ \A u \in Objects : u # o => store'[u] = store[u]
  BY DEF TierTyped

LEMMA OnePass ==
    ASSUME TierTyped, NEW p \in Passes, NEW next \in Pass, pass' = [pass EXCEPT ![p] = next]
    PROVE  /\ pass' \in [Passes -> Pass] /\ pass'[p] = next
           /\ \A q \in Passes : q # p => pass'[q] = pass[q]
  BY DEF TierTyped

\* Uploads, deletions and thaws: the class of an object stays, and nothing
\* begins to thaw.
LEMMA ObjectsKept ==
    ASSUME TierInv, store' \in [Objects -> Stored],
           \A o \in Objects : store'[o].tier = store[o].tier /\ store'[o].thaw \in {store[o].thaw, "none", "ready"},
           \A o \in Objects : store[o].thaw = "none" => store'[o].thaw = "none",
           UNCHANGED <<policy, ledger, age, pass, ask, behind>>
    PROVE  TierInv'
  <1>1. TierTyped' /\ PassesInOrder'
    BY DEF TierInv, TierTyped, PassesInOrder
  <1>2. ASSUME NEW o \in Objects \ behind' PROVE InOneHand(o)' /\ RestoreInHand(o)'
    <2>1. InOneHand(o) /\ RestoreInHand(o)
      BY DEF TierInv
    <2>2. InOneHand(o)'
      BY <2>1 DEF InOneHand, T!Recording
    <2>3. RestoreInHand(o)'
      BY <2>1 DEF RestoreInHand
    <2> QED
      BY <2>2, <2>3
  <1> QED
    BY <1>1, <1>2 DEF TierInv

LEMMA ObjectStepKeeps ==
    ASSUME TierInv, NEW o \in Objects, T!Upload(o) \/ T!DeleteObject(o) \/ T!Thaw(o)
    PROVE  TierInv'
  <1>1. UNCHANGED <<policy, ledger, age, pass, ask, behind>>
    BY DEF T!Upload, T!DeleteObject, T!Thaw
  <1>2. store \in [Objects -> Stored] /\ store[o] \in Stored
    BY DEF TierInv, TierTyped
  <1>3. CASE T!Upload(o)
    <2>1. store' = [store EXCEPT ![o].here = TRUE]
      BY <1>3 DEF T!Upload
    <2> QED
      BY <1>1, <1>2, <2>1, ObjectsKept DEF Stored
  <1>4. CASE T!DeleteObject(o)
    <2>1. store' = [store EXCEPT ![o].here = FALSE, ![o].thaw = "none"]
      BY <1>4 DEF T!DeleteObject
    <2> QED
      BY <1>1, <1>2, <2>1, ObjectsKept DEF Stored
  <1>5. CASE T!Thaw(o)
    <2>1. store[o].thaw # "none" /\ store' = [store EXCEPT ![o].thaw = IF @ = "ongoing" THEN "ready" ELSE "none"]
      BY <1>5 DEF T!Thaw
    <2>2. \A x \in Objects : store'[x].tier = store[x].tier /\ store'[x].thaw \in {store[x].thaw, "none", "ready"}
      BY <1>2, <2>1 DEF Stored
    <2>3. \A x \in Objects : store[x].thaw = "none" => store'[x].thaw = "none"
      BY <1>2, <2>1 DEF Stored
    <2>4. store' \in [Objects -> Stored]
      BY <1>2, <2>1 DEF Stored
    <2> QED
      BY <1>1, <2>2, <2>3, <2>4, ObjectsKept
  <1> QED
    BY <1>3, <1>4, <1>5

LEMMA RegisterKeeps ==
    ASSUME TierInv, NEW o \in Objects, T!Register(o)
    PROVE  TierInv'
  <1>1. ledger' = [ledger EXCEPT ![o] = T!Registered(ledger[o])] /\ UNCHANGED <<policy, store, age, pass, ask, behind>>
    BY DEF T!Register
  <1>2. ledger \in [Objects -> Row] /\ ledger[o] \in Row
    BY DEF TierInv, TierTyped
  <1>3. PICK row \in Row : /\ row = T!Registered(ledger[o]) /\ row.known
                           /\ ledger[o].known => row = ledger[o]
                           /\ ~ledger[o].known => row.tier = 0 /\ row.restore = "NOT_REQUESTED"
    <2>1. CASE ledger[o].known
      BY <1>2, <2>1 DEF T!Registered
    <2>2. CASE ~ledger[o].known
      <3>1. T!Registered(ledger[o]) = [T!NoRow EXCEPT !.known = TRUE]
        BY <2>2 DEF T!Registered
      <3>2. [T!NoRow EXCEPT !.known = TRUE] \in Row
        <4>1. 0 \in Class /\ TRUE \in BOOLEAN
          BY DEF Class
        <4>2. "NOT_REQUESTED" \in {"NOT_REQUESTED", "IN_PROGRESS", "AVAILABLE", "FAILED"}
          OBVIOUS
        <4> QED
          BY <4>1, <4>2, Zenon DEF T!NoRow, Row
      <3>3. ASSUME NEW row \in Row, row = [T!NoRow EXCEPT !.known = TRUE]
            PROVE  row.known /\ row.tier = 0 /\ row.restore = "NOT_REQUESTED"
        BY <3>3 DEF T!NoRow
      <3> QED
        BY <2>2, <3>1, <3>2, <3>3
    <2> QED
      BY <2>1, <2>2
  <1>4. /\ ledger' \in [Objects -> Row] /\ ledger'[o] = row
        /\ \A u \in Objects : u # o => ledger'[u] = ledger[u]
    BY <1>1, <1>3, OneRow DEF TierInv
  <1>5. TierTyped' /\ PassesInOrder'
    BY <1>1, <1>4 DEF TierInv, TierTyped, PassesInOrder
  <1>6. ASSUME NEW x \in Objects \ behind' PROVE InOneHand(x)' /\ RestoreInHand(x)'
    <2>1. InOneHand(x) /\ RestoreInHand(x)
      BY <1>1 DEF TierInv
    <2>2. CASE x # o \/ ledger[o].known
      <3>1. ledger'[x] = ledger[x]
        BY <2>2, <1>3, <1>4
      <3> QED
        BY <1>1, <2>1, <3>1 DEF InOneHand, RestoreInHand, T!Recording
    <2>3. CASE x = o /\ ~ledger[o].known
      <3>1. \A p \in Passes : o \notin pass[p].todo /\ o \notin pass[p].now
        BY <2>1, <2>3 DEF InOneHand, TierInv, PassesInOrder
      <3>2. store[o].tier = 0
        BY <2>1, <2>3, <3>1 DEF InOneHand, T!Recording
      <3>3. store[o].thaw # "ongoing" /\ ~(ask.at # "idle" /\ ask.obj = o)
        BY <2>1, <2>3, <3>2 DEF RestoreInHand
      <3>4. InOneHand(o)'
        BY <3>1, <3>2, <1>1, <1>3, <1>4, <2>3 DEF InOneHand, T!Recording
      <3>5. RestoreInHand(o)'
        BY <2>1, <2>3, <3>3, <1>1, <1>3, <1>4 DEF RestoreInHand
      <3> QED
        BY <2>3, <3>4, <3>5
    <2> QED
      BY <2>2, <2>3
  <1> QED
    BY <1>5, <1>6 DEF TierInv

\* The policy and the age of objects matter to a pass only when it begins.
LEMMA PolicyStepKeeps ==
    ASSUME TierInv,
           \/ \E on \in BOOLEAN, after \in Schedules : T!UpdatePolicy(on, after)
           \/ T!DayPasses
    PROVE  TierInv'
  <1>1. UNCHANGED <<ledger, store, pass, ask, behind>>
    BY DEF T!UpdatePolicy, T!DayPasses
  <1>2. policy' \in [enabled : BOOLEAN, after : Schedules \cup {T!Idle.after}]
    BY DEF TierInv, TierTyped, T!UpdatePolicy, T!DayPasses
  <1>3. age' \in [Objects -> 0 .. OldestAge]
    <2>1. OldestAge \in Nat
      BY RecordsAssumption, Zenon
    <2>2. age \in [Objects -> 0 .. OldestAge]
      BY DEF TierInv, TierTyped
    <2>3. ASSUME T!DayPasses PROVE age' = [o \in Objects |-> IF T!Ages(o) THEN age[o] + 1 ELSE age[o]]
      BY <2>3 DEF T!DayPasses
    <2> QED
      BY <2>1, <2>2, <2>3 DEF T!UpdatePolicy, T!Ages
  <1>4. TierTyped' /\ PassesInOrder'
    BY <1>1, <1>2, <1>3 DEF TierInv, TierTyped, PassesInOrder
  <1> QED
    BY <1>1, <1>4 DEF TierInv, InOneHand, RestoreInHand, T!Recording

LEMMA AskRestoreKeeps ==
    ASSUME TierInv, NEW o \in Objects, T!AskRestore(o)
    PROVE  TierInv'
  <1>1. /\ ask.at = "idle" /\ ledger[o].known /\ ledger[o].tier = 3
        /\ ask' = [at |-> "asked", obj |-> o, outcome |-> "none"]
        /\ UNCHANGED <<policy, ledger, store, age, pass, behind>>
    BY DEF T!AskRestore, T!DEEP_ARCHIVE
  <1>2. ask' \in Restore /\ ask'.at = "asked" /\ ask'.obj = o
    BY <1>1 DEF Restore
  <1>3. TierTyped' /\ PassesInOrder'
    BY <1>1, <1>2 DEF TierInv, TierTyped, PassesInOrder
  <1> QED
    BY <1>1, <1>2, <1>3 DEF TierInv, InOneHand, RestoreInHand, T!Recording

LEMMA CallStoreKeeps ==
    ASSUME TierInv, T!CallStore
    PROVE  TierInv'
  <1>1. PICK o \in Objects : o = ask.obj /\ ask.at = "asked"
    BY DEF T!CallStore, TierInv, TierTyped
  <1>2. store[o] \in Stored
    BY DEF TierInv, TierTyped
  <1>3. PICK outcome \in {"IN_PROGRESS", "AVAILABLE", "FAILED"} :
          /\ ask' = [ask EXCEPT !.at = "answered", !.outcome = outcome]
          /\ \/ store' = [store EXCEPT ![o].thaw = "ongoing"] /\ store[o].tier = 3 /\ outcome = "IN_PROGRESS"
             \/ store' = store /\ (outcome = "AVAILABLE" => store[o].thaw = "ready")
    BY <1>1 DEF T!CallStore, T!DEEP_ARCHIVE
  <1>4. UNCHANGED <<policy, ledger, age, pass, behind>>
    BY DEF T!CallStore
  <1>5. /\ store' \in [Objects -> Stored]
        /\ \A x \in Objects : store'[x].tier = store[x].tier /\ (x # o => store'[x] = store[x])
        /\ store'[o].thaw = store[o].thaw \/ (store'[o].thaw = "ongoing" /\ store[o].tier = 3 /\ outcome = "IN_PROGRESS")
    <2>1. CASE store' = [store EXCEPT ![o].thaw = "ongoing"] /\ store[o].tier = 3 /\ outcome = "IN_PROGRESS"
      <3>1. PICK object \in Stored : object = [store[o] EXCEPT !.thaw = "ongoing"]
        BY <1>2 DEF Stored
      <3>2. object.tier = store[o].tier /\ object.thaw = "ongoing"
        BY <1>2, <3>1 DEF Stored
      <3>3. store' = [store EXCEPT ![o] = object]
        BY <2>1, <3>1
      <3> QED
        BY <2>1, <3>2, <3>3, OneObject DEF TierInv
    <2>2. CASE store' = store
      <3>1. store' \in [Objects -> Stored]
        BY <2>2 DEF TierInv, TierTyped
      <3> QED
        BY <2>2, <3>1
    <2> QED
      BY <1>3, <2>1, <2>2
  <1>6. ask' \in Restore /\ ask'.at = "answered" /\ ask'.obj = o /\ ask'.outcome = outcome
    BY <1>1, <1>3 DEF TierInv, TierTyped, Restore
  <1>7. TierTyped' /\ PassesInOrder'
    BY <1>4, <1>5, <1>6 DEF TierInv, TierTyped, PassesInOrder
  <1>8. ASSUME NEW x \in Objects \ behind' PROVE InOneHand(x)' /\ RestoreInHand(x)'
    <2>1. InOneHand(x) /\ RestoreInHand(x)
      BY <1>4 DEF TierInv
    <2>2. x = o => ledger[o].tier = 3 /\ ledger[o].known
      BY <1>1, <2>1 DEF RestoreInHand
    <2>3. x = o => \A p \in Passes : o \notin pass[p].now
      BY <2>1, <2>2, SMTT(30) DEF InOneHand, TierInv, TierTyped, PassesInOrder, Pass, Class, Row
    <2>4. InOneHand(x)'
      BY <2>1, <2>3, <1>4, <1>5 DEF InOneHand, T!Recording
    <2>5. RestoreInHand(x)'
      BY <2>1, <2>2, <1>1, <1>3, <1>4, <1>5, <1>6 DEF RestoreInHand
    <2> QED
      BY <2>4, <2>5
  <1> QED
    BY <1>7, <1>8 DEF TierInv

LEMMA RecordRestoreKeeps ==
    ASSUME TierInv, T!RecordRestore
    PROVE  TierInv'
  <1>1. PICK o \in Objects : o = ask.obj /\ ask.at = "answered"
    BY DEF T!RecordRestore, TierInv, TierTyped
  <1>2. PICK outcome \in {"IN_PROGRESS", "AVAILABLE", "FAILED"} : outcome = ask.outcome
    BY <1>1 DEF TierInv, TierTyped, Restore
  <1>3. /\ ledger' = [ledger EXCEPT ![o].restore = outcome]
        /\ ask' = T!NoAsk /\ UNCHANGED <<policy, store, age, pass, behind>>
    BY <1>1, <1>2 DEF T!RecordRestore
  <1>4. ask' \in Restore /\ ask'.at = "idle"
    BY <1>3 DEF T!NoAsk, Restore
  <1>5. ledger[o] \in Row
    BY DEF TierInv, TierTyped
  <1>6. PICK row \in Row : row = [ledger[o] EXCEPT !.restore = outcome]
    BY <1>5 DEF Row
  <1>7. row.known = ledger[o].known /\ row.tier = ledger[o].tier /\ row.restore = outcome
    BY <1>5, <1>6 DEF Row
  <1>8. ledger' = [ledger EXCEPT ![o] = row]
    BY <1>3, <1>6
  <1>9. /\ ledger' \in [Objects -> Row] /\ ledger'[o] = row
        /\ \A u \in Objects : u # o => ledger'[u] = ledger[u]
    BY <1>8, OneRow DEF TierInv
  <1>10. TierTyped' /\ PassesInOrder'
    BY <1>3, <1>4, <1>9 DEF TierInv, TierTyped, PassesInOrder
  <1>11. ASSUME NEW x \in Objects \ behind' PROVE InOneHand(x)' /\ RestoreInHand(x)'
    <2>1. InOneHand(x) /\ RestoreInHand(x)
      BY <1>3 DEF TierInv
    <2>2. ledger'[x].known = ledger[x].known /\ ledger'[x].tier = ledger[x].tier
      BY <1>7, <1>9
    <2>3. InOneHand(x)'
      BY <2>1, <2>2, <1>3 DEF InOneHand, T!Recording
    <2>4. RestoreInHand(x)'
      BY <2>1, <1>1, <1>2, <1>3, <1>4, <1>7, <1>9 DEF RestoreInHand
    <2> QED
      BY <2>3, <2>4
  <1> QED
    BY <1>10, <1>11 DEF TierInv

\* A pass that has taken objects off its list, or has nothing in hand, leaves
\* what the others hold alone.
LEMMA PassesKept ==
    ASSUME TierInv, NEW p \in Passes, NEW next \in Pass, pass' = [pass EXCEPT ![p] = next],
           next.todo \subseteq pass[p].todo, next.now = {},
           next.at \in {"idle", "policy"} => next.todo = {},
           \A o \in next.todo : next.target[o] = pass[p].target[o],
           behind' \subseteq Objects, behind \cup pass[p].now \subseteq behind',
           UNCHANGED <<policy, ledger, store, age, ask>>
    PROVE  TierInv'
  <1>1. /\ pass' \in [Passes -> Pass] /\ pass'[p] = next
        /\ \A q \in Passes : q # p => pass'[q] = pass[q]
    BY OnePass DEF TierInv
  <1>2. TierTyped' /\ PassesInOrder'
    BY <1>1 DEF TierInv, TierTyped, PassesInOrder
  <1>3. ASSUME NEW o \in Objects \ behind' PROVE InOneHand(o)' /\ RestoreInHand(o)'
    <2>1. InOneHand(o) /\ RestoreInHand(o) /\ o \notin pass[p].now
      BY DEF TierInv
    <2>2. \A q \in Passes : /\ o \in pass'[q].todo => o \in pass[q].todo /\ pass'[q].target[o] = pass[q].target[o]
                            /\ o \in pass'[q].now <=> o \in pass[q].now
                            /\ o \in pass'[q].now => pass'[q] = pass[q]
      BY <2>1, <1>1
    <2>3. T!Recording(o)' <=> T!Recording(o)
      BY <2>2 DEF T!Recording
    <2>4. InOneHand(o)'
      BY <2>1, <2>2, <2>3 DEF InOneHand
    <2>5. RestoreInHand(o)'
      BY <2>1 DEF RestoreInHand
    <2> QED
      BY <2>4, <2>5
  <1> QED
    BY <1>2, <1>3 DEF TierInv

\* Done with an object, a pass has the rest of its list.
LEMMA DoneWith ==
    ASSUME TierInv, NEW p \in Passes, NEW o \in Objects, pass[p].at \in {"move", "record"}
    PROVE  /\ T!Done(p, o) \in Pass /\ T!Done(p, o).now = {}
           /\ T!Done(p, o).todo \subseteq pass[p].todo \ {o}
           /\ T!Done(p, o).at \in {"idle", "policy"} => T!Done(p, o).todo = {}
           /\ \A x \in T!Done(p, o).todo : T!Done(p, o).target[x] = pass[p].target[x]
  <1>1. pass[p] \in Pass
    BY DEF TierInv, TierTyped
  <1>2. CASE pass[p].todo = {o}
    <2>1. T!Done(p, o) = T!Idle
      BY <1>2 DEF T!Done
    <2>2. T!Idle \in Pass /\ T!Idle.todo = {} /\ T!Idle.now = {}
      BY DEF T!Idle, Pass, Class
    <2> QED
      BY <2>1, <2>2
  <1>3. CASE pass[p].todo # {o}
    <2> DEFINE target == [pass[p].target EXCEPT ![o] = 0]
               todo == pass[p].todo \ {o}
    <2>1. T!Done(p, o) = [pass[p] EXCEPT !.at = "move", !.todo = todo, !.now = {}, !.target = target]
      BY <1>3 DEF T!Done
    <2>2. target \in [Objects -> Class] /\ \A x \in todo : target[x] = pass[p].target[x]
      BY <1>1 DEF Pass, Class
    <2>3. todo \in SUBSET Objects /\ {} \in SUBSET Objects /\ "move" \in {"idle", "policy", "move", "record"}
      BY <1>1 DEF Pass
    <2>4. [pass[p] EXCEPT !.at = "move", !.todo = todo, !.now = {}, !.target = target] \in Pass
      BY <1>1, <2>2, <2>3, Zenon DEF Pass
    <2>5. PICK next \in Pass : next = T!Done(p, o)
      BY <2>1, <2>4
    <2>6. next.at = "move" /\ next.todo = todo /\ next.now = {} /\ next.target = target
      BY <1>1, <2>1, <2>5 DEF Pass
    <2> QED
      BY <2>2, <2>5, <2>6
  <1> QED
    BY <1>2, <1>3

LEMMA PassStopsKeeps ==
    ASSUME TierInv, NEW p \in Passes,
           \/ T!StartPass(p) \/ T!CutOff(p)
           \/ \E o \in Objects : T!MoveFails(p, o)
    PROVE  TierInv'
  <1>1. pass[p] \in Pass /\ pass[p].now \subseteq pass[p].todo /\ pass[p].now \subseteq Objects /\ behind \subseteq Objects
    BY DEF TierInv, TierTyped, PassesInOrder, Pass
  <1>2. T!Idle \in Pass /\ T!Idle.todo = {} /\ T!Idle.now = {}
    BY DEF T!Idle, Pass, Class
  <1>3. CASE T!StartPass(p)
    <2>1. /\ pass[p].at = "idle" /\ UNCHANGED <<policy, ledger, store, age, ask, behind>>
          /\ pass' = [pass EXCEPT ![p] = [T!Idle EXCEPT !.at = "policy", !.after = policy.after]]
      BY <1>3 DEF T!StartPass
    <2>2. policy.after \in Schedules \cup {T!Idle.after} /\ "policy" \in {"idle", "policy", "move", "record"}
      BY DEF TierInv, TierTyped
    <2>3. [T!Idle EXCEPT !.at = "policy", !.after = policy.after] \in Pass
      BY <1>2, <2>2, Zenon DEF Pass
    <2>4. PICK next \in Pass : next = [T!Idle EXCEPT !.at = "policy", !.after = policy.after]
      BY <2>3
    <2>5. next.todo = {} /\ next.now = {}
      BY <2>4, <1>2 DEF Pass
    <2>6. pass[p].now = {}
      BY <2>1 DEF TierInv, PassesInOrder
    <2> QED
      BY <1>1, <2>1, <2>4, <2>5, <2>6, PassesKept
  <1>4. CASE T!CutOff(p)
    <2>1. /\ pass' = [pass EXCEPT ![p] = T!Idle] /\ behind' = behind \cup pass[p].now
          /\ UNCHANGED <<policy, ledger, store, age, ask>>
      BY <1>4 DEF T!CutOff
    <2> QED
      BY <1>1, <1>2, <2>1, PassesKept
  <1>5. ASSUME NEW o \in Objects, T!MoveFails(p, o) PROVE TierInv'
    <2>1. /\ pass[p].at = "move" /\ pass' = [pass EXCEPT ![p] = T!Done(p, o)]
          /\ UNCHANGED <<policy, ledger, store, age, ask, behind>>
      BY <1>5 DEF T!MoveFails
    <2>2. pass[p].now = {}
      BY <2>1 DEF TierInv, PassesInOrder
    <2>3. /\ T!Done(p, o) \in Pass /\ T!Done(p, o).now = {}
          /\ T!Done(p, o).todo \subseteq pass[p].todo \ {o}
          /\ T!Done(p, o).at \in {"idle", "policy"} => T!Done(p, o).todo = {}
          /\ \A x \in T!Done(p, o).todo : T!Done(p, o).target[x] = pass[p].target[x]
      BY <2>1, DoneWith
    <2> QED
      BY <1>1, <2>1, <2>2, <2>3, PassesKept
  <1> QED
    BY <1>3, <1>4, <1>5

\* A pass lists what is due and puts behind what another one has on its list.
LEMMA TargetIsClass == ASSUME NEW days, NEW after PROVE T!Target(days, after) \in Class
  <1> DEFINE due == {t \in 1 .. 3 : after[t] /= Never /\ days >= after[t]}
  <1>1. T!Target(days, after) = IF due = {} THEN 0 ELSE CHOOSE t \in due : \A s \in due : s <= t
    BY DEF T!Target
  <1>2. due \subseteq 1 .. 3
    OBVIOUS
  <1> HIDE DEF due
  <1>3. CASE due # {}
    <2>1. PICK t \in due : \A s \in due : s <= t
      <3>1. \A s \in due : s = 1 \/ s = 2 \/ s = 3
        BY <1>2
      <3>2. CASE 3 \in due
        BY <3>1, <3>2
      <3>3. CASE 3 \notin due /\ 2 \in due
        BY <3>1, <3>3
      <3>4. CASE 3 \notin due /\ 2 \notin due
        BY <1>3, <3>1, <3>4
      <3> QED
        BY <3>2, <3>3, <3>4
    <2>2. (CHOOSE u \in due : \A s \in due : s <= u) \in due
      BY <2>1, Zenon
    <2>3. T!Target(days, after) \in due
      BY <1>1, <1>3, <2>2, Zenon
    <2>4. \A s \in due : s \in Class
      BY <1>2 DEF Class
    <2> QED
      BY <2>3, <2>4
  <1> QED
    BY <1>1, <1>3 DEF Class

LEMMA ReadLedgerKeeps ==
    ASSUME TierInv, NEW p \in Passes, T!ReadLedger(p)
    PROVE  TierInv'
  <1> DEFINE due == [o \in Objects |-> T!Target(age[o], pass[p].after)]
             todo == {o \in Objects : ledger[o].known /\ T!Colder(due[o], ledger[o].tier)}
             target == [o \in Objects |-> IF o \in todo THEN due[o] ELSE 0]
  <1>1. /\ pass[p].at = "policy" /\ UNCHANGED <<policy, ledger, store, age, ask>>
        /\ pass' = [pass EXCEPT ![p] = IF todo = {} THEN T!Idle
                                       ELSE [T!Idle EXCEPT !.at = "move", !.todo = todo, !.target = target]]
        /\ behind' = behind \cup {o \in todo : \E q \in Passes \ {p} : o \in pass[q].todo}
    BY DEF T!ReadLedger
  <1>2. pass[p] \in Pass /\ pass[p].todo = {} /\ pass[p].now = {}
    BY <1>1 DEF TierInv, TierTyped, PassesInOrder
  <1>3. T!Idle \in Pass /\ T!Idle.todo = {} /\ T!Idle.now = {}
    BY DEF T!Idle, Pass, Class
  <1>4. target \in [Objects -> Class] /\ \A o \in todo : target[o] = due[o] /\ due[o] \in Class
    BY TargetIsClass DEF Class
  <1>5. todo \in SUBSET Objects /\ \A o \in todo : ledger[o].known /\ ledger[o].tier < due[o]
    <2>1. \A o \in Objects : due[o] \in Class /\ ledger[o].tier \in Class
      BY TargetIsClass DEF TierInv, TierTyped, Row
    <2> QED
      BY <2>1 DEF T!Colder, Class
  <1> HIDE DEF due, todo, target
  <1>6. PICK next \in Pass : /\ pass' = [pass EXCEPT ![p] = next]
                             /\ next.todo = todo /\ next.now = {}
                             /\ next.at \in {"idle", "policy"} => todo = {}
                             /\ todo # {} => next.target = target
    <2>1. CASE todo = {}
      BY <1>1, <1>3, <2>1
    <2>2. CASE todo # {}
      <3>1. [T!Idle EXCEPT !.at = "move", !.todo = todo, !.target = target] \in Pass
        <4>1. "move" \in {"idle", "policy", "move", "record"}
          OBVIOUS
        <4> QED
          BY <1>3, <1>4, <1>5, <4>1, Zenon DEF Pass
      <3>2. ASSUME NEW next \in Pass, next = [T!Idle EXCEPT !.at = "move", !.todo = todo, !.target = target]
            PROVE  next.at = "move" /\ next.todo = todo /\ next.now = {} /\ next.target = target
        BY <3>2, <1>3 DEF Pass
      <3> QED
        BY <1>1, <2>2, <3>1, <3>2
    <2> QED
      BY <2>1, <2>2
  <1>7. /\ pass' \in [Passes -> Pass] /\ pass'[p] = next
        /\ \A q \in Passes : q # p => pass'[q] = pass[q]
    BY <1>6, OnePass DEF TierInv
  <1>8. TierTyped' /\ PassesInOrder'
    <2>1. behind' \subseteq Objects
      BY <1>1, <1>5 DEF TierInv, TierTyped
    <2>2. TierTyped'
      BY <1>1, <1>7, <2>1 DEF TierInv, TierTyped
    <2>3. PassesInOrder'
      BY <1>6, <1>7 DEF TierInv, PassesInOrder
    <2> QED
      BY <2>2, <2>3
  <1>9. ASSUME NEW o \in Objects \ behind' PROVE InOneHand(o)' /\ RestoreInHand(o)'
    <2>1. InOneHand(o) /\ RestoreInHand(o)
      BY <1>1 DEF TierInv
    <2>2. o \in todo => \A q \in Passes \ {p} : o \notin pass[q].todo
      BY <1>1
    <2>3. \A q \in Passes : o \in pass'[q].now <=> o \in pass[q].now
      BY <1>2, <1>6, <1>7
    <2>4. \A q, r \in Passes : o \in pass'[q].todo /\ o \in pass'[r].todo => q = r
      BY <2>1, <2>2, <1>6, <1>7 DEF InOneHand
    <2>5. \A q \in Passes : o \in pass'[q].todo => ledger[o].known /\ ledger[o].tier < pass'[q].target[o]
      BY <2>1, <1>4, <1>5, <1>6, <1>7 DEF InOneHand
    <2>6. \A q \in Passes : o \in pass'[q].now => pass'[q] = pass[q]
      BY <1>6, <1>7
    <2>7. InOneHand(o)'
      BY <2>1, <2>3, <2>4, <2>5, <2>6, <1>1 DEF InOneHand, T!Recording
    <2>8. RestoreInHand(o)'
      BY <2>1, <1>1 DEF RestoreInHand
    <2> QED
      BY <2>7, <2>8
  <1> QED
    BY <1>8, <1>9 DEF TierInv

\* A move: the object is in the class the pass wants, its row not yet.
LEMMA MoveObjectKeeps ==
    ASSUME TierInv, NEW p \in Passes, NEW o \in Objects, T!Move(p, o)
    PROVE  TierInv' /\ (o \notin behind => store'[o].tier > store[o].tier)
                    /\ \A x \in Objects : x # o => store'[x] = store[x]
  <1>1. /\ pass[p].at = "move" /\ o \in pass[p].todo
        /\ store' = [store EXCEPT ![o].tier = pass[p].target[o], ![o].thaw = "none"]
        /\ pass' = [pass EXCEPT ![p].at = "record", ![p].now = {o}]
        /\ UNCHANGED <<policy, ledger, age, ask, behind>>
    BY DEF T!Move, T!Oldest
  <1>2. /\ pass[p] \in Pass /\ pass[p].now = {} /\ pass[p].target[o] \in Class
        /\ store[o] \in Stored /\ ledger[o] \in Row
    BY <1>1 DEF TierInv, TierTyped, PassesInOrder, Pass
  <1> DEFINE to == pass[p].target[o]
  <1>3. PICK object \in Stored : /\ store' = [store EXCEPT ![o] = object]
                                 /\ object.tier = to /\ object.thaw = "none"
    <2>1. [store[o] EXCEPT !.tier = to, !.thaw = "none"] \in Stored
      BY <1>2 DEF Stored
    <2>2. store' = [store EXCEPT ![o] = [store[o] EXCEPT !.tier = to, !.thaw = "none"]]
      BY <1>1
    <2>3. ASSUME NEW object \in Stored, object = [store[o] EXCEPT !.tier = to, !.thaw = "none"]
          PROVE  object.tier = to /\ object.thaw = "none"
      BY <2>3, <1>2 DEF Stored
    <2> QED
      BY <2>1, <2>2, <2>3
  <1>4. PICK next \in Pass : /\ pass' = [pass EXCEPT ![p] = next]
                             /\ next.at = "record" /\ next.now = {o}
                             /\ next.todo = pass[p].todo /\ next.target = pass[p].target
    <2>1. [pass[p] EXCEPT !.at = "record", !.now = {o}] \in Pass
      BY <1>2, Zenon DEF Pass
    <2>2. pass' = [pass EXCEPT ![p] = [pass[p] EXCEPT !.at = "record", !.now = {o}]]
      BY <1>1
    <2>3. ASSUME NEW next \in Pass, next = [pass[p] EXCEPT !.at = "record", !.now = {o}]
          PROVE  /\ next.at = "record" /\ next.now = {o}
                 /\ next.todo = pass[p].todo /\ next.target = pass[p].target
      BY <2>3, <1>2 DEF Pass
    <2> QED
      BY <2>1, <2>2, <2>3
  <1>5. /\ store' \in [Objects -> Stored] /\ store'[o] = object
        /\ \A x \in Objects : x # o => store'[x] = store[x]
    BY <1>3, OneObject DEF TierInv
  <1>6. /\ pass' \in [Passes -> Pass] /\ pass'[p] = next
        /\ \A q \in Passes : q # p => pass'[q] = pass[q]
    BY <1>4, OnePass DEF TierInv
  <1>7. TierTyped' /\ PassesInOrder'
    BY <1>1, <1>4, <1>5, <1>6 DEF TierInv, TierTyped, PassesInOrder
  <1>8. /\ \A q \in Passes : pass'[q].todo = pass[q].todo /\ pass'[q].target = pass[q].target
        /\ \A q \in Passes, x \in Objects : x \in pass'[q].now <=> x \in pass[q].now \/ (q = p /\ x = o)
    BY <1>2, <1>4, <1>6
  <1>9. ASSUME NEW x \in Objects \ behind', x # o PROVE InOneHand(x)' /\ RestoreInHand(x)'
    <2>1. InOneHand(x) /\ RestoreInHand(x) /\ store'[x] = store[x]
      BY <1>1, <1>5, <1>9 DEF TierInv
    <2>2. \A q \in Passes : x \in pass'[q].now <=> x \in pass[q].now
      BY <1>8, <1>9
    <2>3. T!Recording(x)' <=> T!Recording(x)
      BY <2>2 DEF T!Recording
    <2>4. InOneHand(x)'
      BY <2>1, <2>2, <2>3, <1>1, <1>8, ZenonT(40) DEF InOneHand
    <2>5. RestoreInHand(x)'
      BY <2>1, <1>1 DEF RestoreInHand
    <2> QED
      BY <2>4, <2>5
  <1>10. ASSUME o \notin behind PROVE InOneHand(o)' /\ RestoreInHand(o)' /\ store'[o].tier > store[o].tier
    <2>1. InOneHand(o) /\ RestoreInHand(o)
      BY <1>10 DEF TierInv
    <2>2. ledger[o].known /\ ledger[o].tier < to /\ ledger[o].tier # 3
      BY <2>1, <1>1, <1>2 DEF InOneHand, Class, Row
    <2>3. \A q \in Passes : o \notin pass[q].now
      BY <2>1, <1>1, <1>2 DEF InOneHand, TierInv, PassesInOrder
    <2>4. store[o].tier = ledger[o].tier
      BY <2>1, <2>2, <2>3 DEF InOneHand, T!Recording
    <2>5. store'[o].tier > store[o].tier
      BY <2>2, <2>4, <1>2, <1>3, <1>5 DEF Class, Row
    <2>6. InOneHand(o)'
      <3>1. \A q \in Passes : o \in pass'[q].now => store'[o].tier = pass'[q].target[o] /\ store'[o].thaw = "none"
        BY <2>3, <1>3, <1>5, <1>8
      <3>2. T!Recording(o)'
        BY <1>8 DEF T!Recording
      <3> QED
        BY <2>1, <3>1, <3>2, <1>1, <1>8 DEF InOneHand
    <2>7. RestoreInHand(o)'
      BY <2>1, <2>2, <1>1, <1>3, <1>5 DEF RestoreInHand
    <2> QED
      BY <2>5, <2>6, <2>7
  <1> QED
    BY <1>1, <1>5, <1>7, <1>9, <1>10 DEF TierInv

\* The row catches up.
LEMMA RecordMoveKeeps ==
    ASSUME TierInv, NEW p \in Passes, NEW o \in Objects, T!RecordMove(p, o)
    PROVE  TierInv'
  <1>1. /\ pass[p].at = "record" /\ o \in pass[p].now /\ o \in pass[p].todo
        /\ ledger' = [ledger EXCEPT ![o] = T!Recorded(ledger[o], pass[p].target[o])]
        /\ pass' = [pass EXCEPT ![p] = T!Done(p, o)]
        /\ UNCHANGED <<policy, store, age, ask, behind>>
    BY DEF T!RecordMove, TierInv, PassesInOrder
  <1>2. pass[p] \in Pass /\ pass[p].target[o] \in Class /\ ledger[o] \in Row
    BY DEF TierInv, TierTyped, Pass
  <1> DEFINE to == pass[p].target[o]
  <1>3. PICK row \in Row : /\ row = T!Recorded(ledger[o], to)
                           /\ row.known = ledger[o].known /\ row.tier = to /\ row.restore = "NOT_REQUESTED"
    <2>1. "NOT_REQUESTED" \in {"NOT_REQUESTED", "IN_PROGRESS", "AVAILABLE", "FAILED"}
      OBVIOUS
    <2>2. [ledger[o] EXCEPT !.tier = to, !.restore = "NOT_REQUESTED"] \in Row
      BY <1>2, <2>1, Zenon DEF Row
    <2>3. ASSUME NEW row \in Row, row = [ledger[o] EXCEPT !.tier = to, !.restore = "NOT_REQUESTED"]
          PROVE  row.known = ledger[o].known /\ row.tier = to /\ row.restore = "NOT_REQUESTED"
      BY <2>3, <1>2 DEF Row
    <2> QED
      BY <2>2, <2>3, Zenon DEF T!Recorded
  <1>4. /\ ledger' \in [Objects -> Row] /\ ledger'[o] = row
        /\ \A u \in Objects : u # o => ledger'[u] = ledger[u]
    BY <1>1, <1>3, OneRow DEF TierInv
  <1>5. PICK next \in Pass : /\ pass' = [pass EXCEPT ![p] = next] /\ next.now = {}
                             /\ next.todo \subseteq pass[p].todo \ {o}
                             /\ next.at \in {"idle", "policy"} => next.todo = {}
                             /\ \A x \in next.todo : next.target[x] = pass[p].target[x]
    BY <1>1, DoneWith
  <1>6. /\ pass' \in [Passes -> Pass] /\ pass'[p] = next
        /\ \A q \in Passes : q # p => pass'[q] = pass[q]
    BY <1>5, OnePass DEF TierInv
  <1>7. TierTyped' /\ PassesInOrder'
    BY <1>1, <1>4, <1>5, <1>6 DEF TierInv, TierTyped, PassesInOrder
  <1>8. \A q \in Passes, x \in Objects :
          /\ x \in pass'[q].todo => x \in pass[q].todo /\ pass'[q].target[x] = pass[q].target[x]
          /\ x \in pass'[q].now => x \in pass[q].now /\ q # p
    BY <1>5, <1>6
  <1>9. ASSUME NEW x \in Objects \ behind', x # o PROVE InOneHand(x)' /\ RestoreInHand(x)'
    <2>1. InOneHand(x) /\ RestoreInHand(x) /\ ledger'[x] = ledger[x]
      BY <1>1, <1>4, <1>9 DEF TierInv
    <2>2. pass[p].now = {o}
      BY <1>1 DEF TierInv, PassesInOrder
    <2>3. T!Recording(x)' <=> T!Recording(x)
      BY <2>2, <1>6, <1>8, <1>9 DEF T!Recording
    <2>4. InOneHand(x)'
      BY <2>1, <2>3, <1>1, <1>8 DEF InOneHand
    <2>5. RestoreInHand(x)'
      BY <2>1, <1>1 DEF RestoreInHand
    <2> QED
      BY <2>4, <2>5
  <1>10. ASSUME o \notin behind PROVE InOneHand(o)' /\ RestoreInHand(o)'
    <2>1. InOneHand(o) /\ RestoreInHand(o)
      BY <1>10 DEF TierInv
    <2>2. ledger[o].known /\ ledger[o].tier < to /\ store[o].tier = to /\ store[o].thaw = "none" /\ ledger[o].tier # 3
      BY <2>1, <1>1, <1>2 DEF InOneHand, Class, Row
    <2>3. \A q \in Passes : o \notin pass'[q].todo /\ o \notin pass'[q].now
      BY <2>1, <1>1, <1>5, <1>6 DEF InOneHand, TierInv, PassesInOrder
    <2>4. InOneHand(o)'
      BY <2>2, <2>3, <1>1, <1>3, <1>4 DEF InOneHand, T!Recording
    <2>5. RestoreInHand(o)'
      BY <2>1, <2>2, <1>1, <1>3, <1>4 DEF RestoreInHand
    <2> QED
      BY <2>4, <2>5
  <1> QED
    BY <1>1, <1>7, <1>9, <1>10 DEF TierInv

LEMMA TierInvStep == TierInv /\ [T!Next]_tiering => TierInv' /\ T!MovesColder
  <1> SUFFICES ASSUME TierInv, [T!Next]_tiering PROVE TierInv' /\ T!MovesColder
    OBVIOUS
  <1>1. \A o \in Objects : store[o].tier \in Int
    BY DEF TierInv, TierTyped, Stored, Class
  <1>2. ASSUME TierInv', UNCHANGED store PROVE TierInv' /\ T!MovesColder
    BY <1>1, <1>2 DEF T!MovesColder
  <1>3. CASE UNCHANGED tiering
    <2>1. UNCHANGED <<policy, ledger, store, age, pass, ask, behind>>
      BY <1>3 DEF tiering
    <2>2. TierInv'
      BY <2>1 DEF TierInv, TierTyped, PassesInOrder, InOneHand, RestoreInHand, T!Recording
    <2> QED
      BY <1>2, <2>1, <2>2
  <1>4. ASSUME NEW o \in Objects, T!Upload(o) \/ T!DeleteObject(o) \/ T!Thaw(o) PROVE TierInv' /\ T!MovesColder
    <2>1. \A x \in Objects : store'[x].tier = store[x].tier
      BY <1>4, SMTT(30) DEF T!Upload, T!DeleteObject, T!Thaw, TierInv, TierTyped, Stored
    <2> QED
      BY <1>1, <1>4, <2>1, ObjectStepKeeps DEF T!MovesColder
  <1>5. ASSUME NEW o \in Objects, T!Register(o) \/ T!AskRestore(o) PROVE TierInv' /\ T!MovesColder
    <2>1. UNCHANGED store
      BY <1>5 DEF T!Register, T!AskRestore
    <2> QED
      BY <1>2, <1>5, <2>1, RegisterKeeps, AskRestoreKeeps
  <1>6. ASSUME \/ \E on \in BOOLEAN, after \in Schedules : T!UpdatePolicy(on, after)
               \/ T!DayPasses
        PROVE  TierInv' /\ T!MovesColder
    <2>1. UNCHANGED store
      BY <1>6 DEF T!UpdatePolicy, T!DayPasses
    <2> QED
      BY <1>2, <1>6, <2>1, PolicyStepKeeps
  <1>7. CASE T!CallStore
    <2>1. \A x \in Objects : store'[x].tier = store[x].tier
      BY <1>7 DEF T!CallStore, TierInv, TierTyped, Stored
    <2> QED
      BY <1>1, <1>7, <2>1, CallStoreKeeps DEF T!MovesColder
  <1>8. CASE T!RecordRestore
    <2>1. UNCHANGED store
      BY <1>8 DEF T!RecordRestore
    <2> QED
      BY <1>2, <1>8, <2>1, RecordRestoreKeeps
  <1>9. ASSUME NEW p \in Passes,
               \/ T!StartPass(p) \/ T!CutOff(p)
               \/ \E o \in Objects : T!MoveFails(p, o)
        PROVE  TierInv' /\ T!MovesColder
    <2>1. UNCHANGED store
      BY <1>9 DEF T!StartPass, T!CutOff, T!MoveFails
    <2> QED
      BY <1>2, <1>9, <2>1, PassStopsKeeps
  <1>10. ASSUME NEW p \in Passes, T!ReadLedger(p) PROVE TierInv' /\ T!MovesColder
    <2>1. UNCHANGED store
      BY <1>10 DEF T!ReadLedger
    <2> QED
      BY <1>2, <1>10, <2>1, ReadLedgerKeeps
  <1>11. ASSUME NEW p \in Passes, NEW o \in Objects, T!Move(p, o) PROVE TierInv' /\ T!MovesColder
    <2>1. TierInv' /\ (o \notin behind => store'[o].tier > store[o].tier)
                   /\ \A x \in Objects : x # o => store'[x] = store[x]
      BY <1>11, MoveObjectKeeps
    <2>2. behind' = behind
      BY <1>11 DEF T!Move
    <2>3. \A x \in Objects : store'[x].tier \in Int
      BY <2>1 DEF TierInv, TierTyped, Stored, Class
    <2> QED
      BY <1>1, <2>1, <2>2, <2>3 DEF T!MovesColder
  <1>12. ASSUME NEW p \in Passes, NEW o \in Objects, T!RecordMove(p, o) PROVE TierInv' /\ T!MovesColder
    <2>1. UNCHANGED store
      BY <1>12 DEF T!RecordMove
    <2> QED
      BY <1>2, <1>12, <2>1, RecordMoveKeeps
  <1> QED
    BY <1>3, <1>4, <1>5, <1>6, <1>7, <1>8, <1>9, <1>10, <1>11, <1>12, Zenon DEF T!Next

LEMMA TierInvTells ==
    ASSUME TierInv
    PROVE  T!TypeOK /\ T!LedgerTellsStore /\ T!RestoreOnRecord
  <1>1. T!TypeOK
    <2>1. policy \in [enabled : BOOLEAN, after : Schedules \cup {T!Idle.after}]
      BY DEF TierInv, TierTyped
    <2>2. \A o \in Objects : ledger[o] \in Row /\ store[o] \in Stored /\ age[o] \in 0 .. OldestAge
      BY DEF TierInv, TierTyped
    <2>3. \A p \in Passes : /\ pass[p].at \in {"idle", "policy", "move", "record"}
                            /\ pass[p].todo \subseteq Objects /\ pass[p].now \subseteq pass[p].todo
                            /\ pass[p].target \in [Objects -> Class]
      BY DEF TierInv, TierTyped, PassesInOrder, Pass
    <2>4. ask.at \in {"idle", "asked", "answered"} /\ behind \subseteq Objects
      BY DEF TierInv, TierTyped, Restore
    <2> QED
      BY <2>1, <2>2, <2>3, <2>4, Zenon DEF T!TypeOK, T!Tiers, Row, Stored, Class
  <1>2. T!LedgerTellsStore
    BY DEF TierInv, InOneHand, T!LedgerTellsStore
  <1>3. T!RestoreOnRecord
    BY DEF TierInv, RestoreInHand, T!RestoreOnRecord, T!DEEP_ARCHIVE
  <1> QED
    BY <1>1, <1>2, <1>3

-------------------------------------------------------------------------------
(* Sums over finite sets, as MapThenSumSet adds them up: element by element.   *)

\* Induction over the subsets of a finite set: of those that are wrong one has
\* nothing wrong within.
LEMMA SmallestSet ==
    ASSUME NEW S, IsFiniteSet(S), NEW Odd \in SUBSET (SUBSET S), Odd # {}
    PROVE  \E A \in Odd : \A B \in Odd : B \subseteq A => B = A
  <1>1. IsWellFoundedOn(StrictSubsetOrdering(S), FiniteSubsetsOf(S))
    BY FS_StrictSubsetOrderingWellFounded
  <1>2. Odd \subseteq FiniteSubsetsOf(S)
    BY FS_Subset DEF FiniteSubsetsOf
  <1>3. \E A \in Odd : \A B \in Odd : ~ (<<B, A>> \in StrictSubsetOrdering(S))
    BY <1>1, <1>2, WFMin, Zenon
  <1>4. ASSUME NEW A \in SUBSET S, NEW B \in SUBSET S, ~ (<<B, A>> \in StrictSubsetOrdering(S)), B \subseteq A
        PROVE  B = A
    BY <1>4 DEF StrictSubsetOrdering
  <1>5. PICK A \in Odd : \A B \in Odd : ~ (<<B, A>> \in StrictSubsetOrdering(S))
    BY <1>3
  <1>6. ASSUME NEW B \in Odd, B \subseteq A PROVE B = A
    BY <1>4, <1>5, <1>6
  <1> QED
    BY <1>6

Pick(s) == CHOOSE x \in s : TRUE
Iterates(f, S, g) ==
    g = [s \in SUBSET S |-> IF s = {} THEN 0 ELSE f[Pick(s)] + g[s \ {Pick(s)}]]
SumOver(f, S) == (CHOOSE g : Iterates(f, S, g))[S]

LEMMA PickIsOneOfThem == ASSUME NEW s, s # {} PROVE Pick(s) \in s
  BY DEF Pick

LEMMA IteratesAgree ==
    ASSUME NEW f, NEW S, IsFiniteSet(S), NEW A \in SUBSET S, NEW g, NEW h, Iterates(f, S, g), Iterates(f, A, h)
    PROVE  \A s \in SUBSET A : g[s] = h[s]
  <1> DEFINE Odd == {s \in SUBSET A : g[s] # h[s]}
  <1>1. SUFFICES ASSUME Odd # {} PROVE FALSE
    OBVIOUS
  <1>2. IsFiniteSet(A)
    BY FS_Subset
  <1>3. PICK s \in Odd : \A B \in Odd : B \subseteq s => B = s
    <2>1. Odd \in SUBSET (SUBSET A)
      OBVIOUS
    <2> HIDE DEF Odd
    <2> QED
      BY <1>1, <1>2, <2>1, SmallestSet
  <1>4. g[s] = (IF s = {} THEN 0 ELSE f[Pick(s)] + g[s \ {Pick(s)}]) /\ s \in SUBSET S
    BY DEF Iterates
  <1>5. h[s] = IF s = {} THEN 0 ELSE f[Pick(s)] + h[s \ {Pick(s)}]
    BY DEF Iterates
  <1>6. s # {}
    BY <1>4, <1>5
  <1>7. s \ {Pick(s)} \in SUBSET A /\ s \ {Pick(s)} # s
    BY <1>6, PickIsOneOfThem
  <1>8. g[s \ {Pick(s)}] = h[s \ {Pick(s)}]
    BY <1>3, <1>7
  <1> QED
    BY <1>4, <1>5, <1>6, <1>8

LEMMA IterationExists == ASSUME NEW f, NEW S, IsFiniteSet(S) PROVE \E g : Iterates(f, S, g)
  <1> DEFINE Odd == {A \in SUBSET S : ~ \E g : Iterates(f, A, g)}
  <1>1. SUFFICES ASSUME Odd # {} PROVE FALSE
    OBVIOUS
  <1>2. PICK A \in Odd : \A B \in Odd : B \subseteq A => B = A
    <2>1. Odd \in SUBSET (SUBSET S)
      OBVIOUS
    <2> HIDE DEF Odd
    <2> QED
      BY <1>1, <2>1, SmallestSet
  <1> DEFINE h(s) == CHOOSE g : Iterates(f, s, g)
             H == [s \in SUBSET A |-> IF s = A THEN IF A = {} THEN 0 ELSE f[Pick(A)] + h(A \ {Pick(A)})[A \ {Pick(A)}]
                                      ELSE h(s)[s]]
  <1>3. ASSUME NEW s \in SUBSET A, s # A PROVE Iterates(f, s, h(s)) /\ IsFiniteSet(s)
    <2>1. \E g : Iterates(f, s, g)
      BY <1>2, <1>3
    <2> QED
      BY <2>1, FS_Subset
  <1>4. ASSUME NEW s \in SUBSET A
        PROVE  H[s] = IF s = {} THEN 0 ELSE f[Pick(s)] + H[s \ {Pick(s)}]
    <2>1. s # {} => s \ {Pick(s)} \in SUBSET A /\ s \ {Pick(s)} # A /\ s \ {Pick(s)} # s
      BY PickIsOneOfThem
    <2>2. CASE s = A
      BY <2>1, <2>2
    <2>3. CASE s # A
      <3>1. Iterates(f, s, h(s)) /\ IsFiniteSet(s)
        BY <1>3, <2>3
      <3> HIDE DEF h
      <3>2. h(s)[s] = IF s = {} THEN 0 ELSE f[Pick(s)] + h(s)[s \ {Pick(s)}]
        BY <3>1 DEF Iterates
      <3>3. H[s] = h(s)[s]
        BY <2>3
      <3>4. ASSUME s # {} PROVE h(s)[s \ {Pick(s)}] = H[s \ {Pick(s)}]
        <4> DEFINE r == s \ {Pick(s)}
        <4>1. r \in SUBSET A /\ r # A /\ r \in SUBSET s
          BY <2>1, <3>4
        <4>2. Iterates(f, r, h(r))
          BY <1>3, <4>1
        <4>3. h(s)[r] = h(r)[r]
          BY <3>1, <4>1, <4>2, IteratesAgree
        <4> QED
          BY <4>1, <4>3
      <3> QED
        BY <3>2, <3>3, <3>4
    <2> QED
      BY <2>2, <2>3
  <1>5. Iterates(f, A, H)
    <2> HIDE DEF h
    <2> DEFINE G == [s \in SUBSET A |-> IF s = {} THEN 0 ELSE f[Pick(s)] + H[s \ {Pick(s)}]]
    <2>1. \A s \in SUBSET A : H[s] = G[s]
      BY <1>4
    <2>2. H = G
      BY <2>1
    <2> HIDE DEF H
    <2> QED
      BY <2>2 DEF Iterates
  <1> HIDE DEF H
  <1> QED
    BY <1>2, <1>5

\* A sum takes one element after the other, whatever set it is part of.
LEMMA SumUnfolds ==
    ASSUME NEW f, NEW S, IsFiniteSet(S)
    PROVE  /\ SumOver(f, {}) = 0
           /\ S # {} => SumOver(f, S) = f[Pick(S)] + SumOver(f, S \ {Pick(S)})
  <1>1. ASSUME NEW A, IsFiniteSet(A)
        PROVE  Iterates(f, A, CHOOSE g : Iterates(f, A, g))
    BY <1>1, IterationExists
  <1>2. SumOver(f, {}) = 0
    <2>1. PICK g : g = (CHOOSE k : Iterates(f, {}, k))
      OBVIOUS
    <2>2. Iterates(f, {}, g)
      BY <1>1, <2>1, FS_EmptySet
    <2>3. {} \in SUBSET {}
      OBVIOUS
    <2> QED
      BY <2>1, <2>2, <2>3 DEF SumOver, Iterates
  <1>3. ASSUME S # {} PROVE SumOver(f, S) = f[Pick(S)] + SumOver(f, S \ {Pick(S)})
    <2> DEFINE r == S \ {Pick(S)}
    <2>1. PICK g : g = (CHOOSE k : Iterates(f, S, k))
      OBVIOUS
    <2>2. PICK h : h = (CHOOSE k : Iterates(f, r, k))
      OBVIOUS
    <2>3. IsFiniteSet(r)
      BY FS_Subset
    <2>4. Iterates(f, S, g) /\ Iterates(f, r, h)
      BY <1>1, <2>1, <2>2, <2>3
    <2>5. g[r] = h[r]
      BY <2>4, IteratesAgree
    <2>6. g[S] = f[Pick(S)] + g[r]
      BY <1>3, <2>4 DEF Iterates
    <2> QED
      BY <2>1, <2>2, <2>5, <2>6 DEF SumOver
  <1> QED
    BY <1>2, <1>3

LEMMA SumIsNumber ==
    ASSUME NEW Numbers, Numbers = Nat \/ Numbers = Int, NEW S, IsFiniteSet(S), NEW f, \A x \in S : f[x] \in Numbers
    PROVE  SumOver(f, S) \in Numbers
  <1> DEFINE Odd == {A \in SUBSET S : SumOver(f, A) \notin Numbers}
  <1>1. SUFFICES ASSUME Odd # {} PROVE FALSE
    OBVIOUS
  <1>2. PICK A \in Odd : \A B \in Odd : B \subseteq A => B = A
    <2>1. Odd \in SUBSET (SUBSET S)
      OBVIOUS
    <2> HIDE DEF Odd
    <2> QED
      BY <1>1, <2>1, SmallestSet
  <1>3. IsFiniteSet(A) /\ SumOver(f, A) \notin Numbers /\ 0 \in Numbers
    BY FS_Subset
  <1>4. A # {} /\ SumOver(f, A) = f[Pick(A)] + SumOver(f, A \ {Pick(A)})
    BY <1>3, SumUnfolds
  <1>5. SumOver(f, A \ {Pick(A)}) \in Numbers /\ f[Pick(A)] \in Numbers
    BY <1>2, <1>4, PickIsOneOfThem
  <1> HIDE DEF Odd
  <1> QED
    BY <1>2, <1>4, <1>5 DEF Odd

\* An element more.
LEMMA SumAdds ==
    ASSUME NEW S, IsFiniteSet(S), NEW f, \A x \in S : f[x] \in Int, NEW x \in S
    PROVE  SumOver(f, S) = f[x] + SumOver(f, S \ {x})
  <1> DEFINE Odd == {A \in SUBSET S : \E y \in A : SumOver(f, A) # f[y] + SumOver(f, A \ {y})}
  <1>1. SUFFICES ASSUME Odd # {} PROVE FALSE
    OBVIOUS
  <1>2. PICK A \in Odd : \A B \in Odd : B \subseteq A => B = A
    <2>1. Odd \in SUBSET (SUBSET S)
      OBVIOUS
    <2> HIDE DEF Odd
    <2> QED
      BY <1>1, <2>1, SmallestSet
  <1>3. IsFiniteSet(A) /\ A \in SUBSET S
    BY FS_Subset
  <1>4. PICK y \in A : SumOver(f, A) # f[y] + SumOver(f, A \ {y})
    OBVIOUS
  <1> DEFINE z == Pick(A)
             rest == A \ {y, z}
  <1>5. z \in A /\ SumOver(f, A) = f[z] + SumOver(f, A \ {z})
    BY <1>3, <1>4, SumUnfolds, PickIsOneOfThem
  <1> HIDE DEF z
  <1>6. z # y
    BY <1>4, <1>5
  <1>7. SumOver(f, A \ {z}) = f[y] + SumOver(f, rest)
    <2>1. A \ {z} \notin Odd /\ A \ {z} \in SUBSET S /\ y \in A \ {z} /\ rest = (A \ {z}) \ {y}
      BY <1>2, <1>4, <1>5, <1>6
    <2> QED
      BY <2>1
  <1>8. SumOver(f, A \ {y}) = f[z] + SumOver(f, rest)
    <2>1. A \ {y} \notin Odd /\ A \ {y} \in SUBSET S /\ z \in A \ {y} /\ rest = (A \ {y}) \ {z}
      BY <1>2, <1>4, <1>5, <1>6
    <2> QED
      BY <2>1
  <1>9. IsFiniteSet(rest) /\ \A w \in rest : f[w] \in Int
    BY <1>3, FS_Subset
  <1>10. SumOver(f, rest) \in Int
    <2> HIDE DEF rest
    <2> QED
      BY <1>9, SumIsNumber
  <1>11. f[y] \in Int /\ f[z] \in Int
    BY <1>3, <1>4, <1>5
  <1> QED
    BY <1>4, <1>5, <1>7, <1>8, <1>10, <1>11

\* Sums of what is the same, element by element.
LEMMA SumOfSame ==
    ASSUME NEW S, IsFiniteSet(S), NEW f, NEW g, \A x \in S : f[x] = g[x] PROVE SumOver(f, S) = SumOver(g, S)
  <1> DEFINE Odd == {A \in SUBSET S : SumOver(f, A) # SumOver(g, A)}
  <1>1. SUFFICES ASSUME Odd # {} PROVE FALSE
    OBVIOUS
  <1>2. PICK A \in Odd : \A B \in Odd : B \subseteq A => B = A
    <2>1. Odd \in SUBSET (SUBSET S)
      OBVIOUS
    <2> HIDE DEF Odd
    <2> QED
      BY <1>1, <2>1, SmallestSet
  <1>3. IsFiniteSet(A) /\ A \in SUBSET S /\ SumOver(f, A) # SumOver(g, A)
    BY FS_Subset
  <1>4. /\ A # {}
        /\ SumOver(f, A) = f[Pick(A)] + SumOver(f, A \ {Pick(A)})
        /\ SumOver(g, A) = g[Pick(A)] + SumOver(g, A \ {Pick(A)})
    BY <1>3, SumUnfolds
  <1>5. SumOver(f, A \ {Pick(A)}) = SumOver(g, A \ {Pick(A)}) /\ f[Pick(A)] = g[Pick(A)]
    BY <1>2, <1>4, PickIsOneOfThem
  <1> QED
    BY <1>3, <1>4, <1>5

\* A sum over two parts.
LEMMA SumOfParts ==
    ASSUME NEW S, IsFiniteSet(S), NEW f, \A x \in S : f[x] \in Int, NEW B \in SUBSET S
    PROVE  SumOver(f, S) = SumOver(f, B) + SumOver(f, S \ B)
  <1> DEFINE Odd == {A \in SUBSET B : SumOver(f, A \cup (S \ B)) # SumOver(f, A) + SumOver(f, S \ B)}
  <1>1. B \notin Odd => SumOver(f, S) = SumOver(f, B) + SumOver(f, S \ B)
    <2>1. B \cup (S \ B) = S
      OBVIOUS
    <2> QED
      BY <2>1
  <1>2. SUFFICES ASSUME Odd # {} PROVE FALSE
    BY <1>1
  <1>3. PICK A \in Odd : \A D \in Odd : D \subseteq A => D = A
    <2>1. Odd \in SUBSET (SUBSET B) /\ IsFiniteSet(B)
      BY FS_Subset
    <2> HIDE DEF Odd
    <2> QED
      BY <1>2, <2>1, SmallestSet
  <1>4. /\ A \in SUBSET B /\ IsFiniteSet(A) /\ IsFiniteSet(S \ B) /\ IsFiniteSet(A \cup (S \ B))
        /\ SumOver(f, A \cup (S \ B)) # SumOver(f, A) + SumOver(f, S \ B)
    <2>1. A \in SUBSET S /\ S \ B \in SUBSET S /\ A \cup (S \ B) \in SUBSET S
      OBVIOUS
    <2> QED
      BY <2>1, FS_Subset
  <1>5. SumOver(f, S \ B) \in Int
    BY <1>4, SumIsNumber
  <1>6. A # {}
    <2>1. SUFFICES ASSUME A = {} PROVE FALSE
      OBVIOUS
    <2>2. A \cup (S \ B) = S \ B /\ SumOver(f, {}) = 0
      BY <2>1, <1>4, SumUnfolds
    <2> QED
      BY <1>4, <1>5, <2>1, <2>2
  <1>7. PICK x : x \in A
    BY <1>6
  <1>8. SumOver(f, A) = f[x] + SumOver(f, A \ {x})
    BY <1>4, <1>7, SumAdds
  <1>9. SumOver(f, A \cup (S \ B)) = f[x] + SumOver(f, (A \ {x}) \cup (S \ B))
    <2>1. (A \cup (S \ B)) \ {x} = (A \ {x}) \cup (S \ B)
      BY <1>4, <1>7
    <2>2. x \in A \cup (S \ B) /\ \A y \in A \cup (S \ B) : f[y] \in Int
      BY <1>4, <1>7
    <2> QED
      BY <1>4, <2>1, <2>2, SumAdds
  <1>10. SumOver(f, (A \ {x}) \cup (S \ B)) = SumOver(f, A \ {x}) + SumOver(f, S \ B)
    <2>1. A \ {x} \in SUBSET B /\ A \ {x} \subseteq A /\ A \ {x} # A
      BY <1>4, <1>7
    <2>2. A \ {x} \notin Odd
      BY <1>3, <2>1
    <2> QED
      BY <2>1, <2>2
  <1>11. SumOver(f, A \ {x}) \in Int /\ f[x] \in Int
    <2>1. IsFiniteSet(A \ {x}) /\ \A y \in A \ {x} : f[y] \in Int
      BY <1>4, FS_Subset
    <2> QED
      BY <1>4, <1>7, <2>1, SumIsNumber
  <1> QED
    BY <1>4, <1>5, <1>8, <1>9, <1>10, <1>11

\* Elements that add nothing.
LEMMA SumOfNothing ==
    ASSUME NEW S, IsFiniteSet(S), NEW f, \A x \in S : f[x] = 0 PROVE SumOver(f, S) = 0
  <1> DEFINE Odd == {A \in SUBSET S : SumOver(f, A) # 0}
  <1>1. SUFFICES ASSUME Odd # {} PROVE FALSE
    OBVIOUS
  <1>2. PICK A \in Odd : \A B \in Odd : B \subseteq A => B = A
    <2>1. Odd \in SUBSET (SUBSET S)
      OBVIOUS
    <2> HIDE DEF Odd
    <2> QED
      BY <1>1, <2>1, SmallestSet
  <1>3. IsFiniteSet(A) /\ A \in SUBSET S /\ SumOver(f, A) # 0
    BY FS_Subset
  <1>4. A # {} /\ SumOver(f, A) = f[Pick(A)] + SumOver(f, A \ {Pick(A)})
    BY <1>3, SumUnfolds
  <1>5. SumOver(f, A \ {Pick(A)}) = 0 /\ f[Pick(A)] = 0
    BY <1>2, <1>3, <1>4, PickIsOneOfThem
  <1> QED
    BY <1>3, <1>4, <1>5

\* A sum by groups: of[x] is the group of x.
Group(S, of, k) == {x \in S : of[x] = k}

LEMMA SumByGroups ==
    ASSUME NEW S, IsFiniteSet(S), NEW f, \A x \in S : f[x] \in Int, NEW Groups, IsFiniteSet(Groups),
           NEW of, \A x \in S : of[x] \in Groups, NEW g,
           \A k \in Groups : g[k] = SumOver(f, Group(S, of, k))
    PROVE  SumOver(g, Groups) = SumOver(f, S)
  <1> DEFINE Within(K) == {x \in S : of[x] \in K}
             Odd == {K \in SUBSET Groups : SumOver(g, K) # SumOver(f, Within(K))}
  <1>1. Groups \notin Odd => SumOver(g, Groups) = SumOver(f, S)
    <2>1. Within(Groups) = S
      OBVIOUS
    <2> QED
      BY <2>1
  <1>2. SUFFICES ASSUME Odd # {} PROVE FALSE
    BY <1>1
  <1>3. PICK K \in Odd : \A L \in Odd : L \subseteq K => L = K
    <2>1. Odd \in SUBSET (SUBSET Groups)
      OBVIOUS
    <2> HIDE DEF Odd
    <2> QED
      BY <1>2, <2>1, SmallestSet
  <1>4. K \in SUBSET Groups /\ IsFiniteSet(K) /\ SumOver(g, K) # SumOver(f, Within(K))
    BY FS_Subset
  <1>5. ASSUME NEW L \in SUBSET Groups
        PROVE  IsFiniteSet(Within(L)) /\ (\A x \in Within(L) : f[x] \in Int) /\ SumOver(f, Within(L)) \in Int
    <2>1. IsFiniteSet(Within(L)) /\ \A x \in Within(L) : f[x] \in Int
      BY FS_Subset
    <2> HIDE DEF Within
    <2> QED
      BY <2>1, SumIsNumber
  <1>6. K # {}
    <2>1. SUFFICES ASSUME K = {} PROVE FALSE
      OBVIOUS
    <2>2. Within(K) = {} /\ SumOver(f, {}) = 0 /\ SumOver(g, {}) = 0
      BY <2>1, <1>4, SumUnfolds
    <2> QED
      BY <1>4, <2>1, <2>2
  <1>7. PICK k : k \in K
    BY <1>6
  <1> DEFINE L == K \ {k}
             G == Group(S, of, k)
  <1>8. SumOver(f, Within(K)) = SumOver(f, G) + SumOver(f, Within(L))
    <2>1. G \in SUBSET Within(K) /\ Within(K) \ G = Within(L)
      BY <1>7 DEF Group
    <2>2. IsFiniteSet(Within(K)) /\ \A x \in Within(K) : f[x] \in Int
      BY <1>4, <1>5
    <2> HIDE DEF G, Within, L
    <2> QED
      BY <2>1, <2>2, SumOfParts
  <1>9. g[k] = SumOver(f, G) /\ \A l \in K : g[l] \in Int
    <2>1. ASSUME NEW l \in K PROVE g[l] \in Int
      <3>1. Group(S, of, l) = Within({l}) /\ {l} \in SUBSET Groups
        BY <1>4 DEF Group
      <3>2. SumOver(f, Within({l})) \in Int
        BY <1>5, <3>1
      <3> QED
        BY <1>4, <3>1, <3>2
    <2> QED
      BY <1>4, <1>7, <2>1
  <1>10. SumOver(g, K) = g[k] + SumOver(g, L)
    BY <1>4, <1>7, <1>9, SumAdds
  <1>11. SumOver(g, L) = SumOver(f, Within(L))
    <2>1. L \subseteq K /\ L # K /\ L \in SUBSET Groups
      BY <1>4, <1>7
    <2>2. L \notin Odd
      BY <1>3, <2>1
    <2> HIDE DEF L, Within
    <2> QED
      BY <2>1, <2>2
  <1> QED
    BY <1>4, <1>8, <1>9, <1>10, <1>11

\* A sum over the images of a map that keeps elements apart.
LEMMA SumOfImages ==
    ASSUME NEW S, IsFiniteSet(S), NEW m, \A x, y \in S : m[x] = m[y] => x = y,
           NEW f, NEW g, \A x \in S : f[m[x]] = g[x] /\ g[x] \in Int
    PROVE  IsFiniteSet({m[x] : x \in S}) /\ SumOver(f, {m[x] : x \in S}) = SumOver(g, S)
  <1> DEFINE Image(A) == {m[x] : x \in A}
             Odd == {A \in SUBSET S : ~ (IsFiniteSet(Image(A)) /\ SumOver(f, Image(A)) = SumOver(g, A))}
  <1>1. SUFFICES ASSUME Odd # {} PROVE FALSE
    OBVIOUS
  <1>2. PICK A \in Odd : \A B \in Odd : B \subseteq A => B = A
    <2>1. Odd \in SUBSET (SUBSET S)
      OBVIOUS
    <2> HIDE DEF Odd
    <2> QED
      BY <1>1, <2>1, SmallestSet
  <1>3. A \in SUBSET S /\ IsFiniteSet(A) /\ ~ (IsFiniteSet(Image(A)) /\ SumOver(f, Image(A)) = SumOver(g, A))
    BY FS_Subset
  <1>4. A # {}
    <2>1. SUFFICES ASSUME A = {} PROVE FALSE
      OBVIOUS
    <2>2. Image(A) = {} /\ SumOver(f, {}) = 0 /\ SumOver(g, {}) = 0 /\ IsFiniteSet({})
      BY <2>1, FS_EmptySet, SumUnfolds
    <2> QED
      BY <1>3, <2>1, <2>2
  <1>5. PICK x : x \in A
    BY <1>4
  <1> DEFINE B == A \ {x}
  <1>6. IsFiniteSet(Image(B)) /\ SumOver(f, Image(B)) = SumOver(g, B)
    <2>1. B \in SUBSET S /\ B \subseteq A /\ B # A
      BY <1>3, <1>5
    <2>2. B \notin Odd
      BY <1>2, <2>1
    <2> HIDE DEF B, Image
    <2> QED
      BY <2>1, <2>2
  <1>7. Image(A) = Image(B) \cup {m[x]} /\ Image(A) \ {m[x]} = Image(B)
    BY <1>3, <1>5
  <1>8. IsFiniteSet(Image(A)) /\ \A y \in Image(A) : f[y] \in Int
    <2>1. \A y \in Image(A) : f[y] \in Int
      BY <1>3
    <2> HIDE DEF Image
    <2>2. IsFiniteSet(Image(B) \cup {m[x]})
      BY <1>6, FS_AddElement
    <2> QED
      BY <1>7, <2>1, <2>2
  <1>9. SumOver(f, Image(A)) = f[m[x]] + SumOver(f, Image(B))
    <2>1. PICK z : z = m[x]
      OBVIOUS
    <2>2. z \in Image(A)
      BY <1>5, <2>1
    <2> HIDE DEF Image
    <2>3. SumOver(f, Image(A)) = f[z] + SumOver(f, Image(A) \ {z})
      BY <1>8, <2>2, SumAdds
    <2> QED
      BY <1>7, <2>1, <2>3
  <1>10. SumOver(g, A) = g[x] + SumOver(g, B)
    BY <1>3, <1>5, SumAdds
  <1> QED
    BY <1>3, <1>5, <1>6, <1>8, <1>9, <1>10

-------------------------------------------------------------------------------
(* Metering: the prices of usage.                                              *)

LEMMA SumIsSumOver ==
    ASSUME NEW f PROVE C!SumFunction(f) = SumOver(f, DOMAIN f)
  BY DEF C!SumFunction, C!SumFunctionOnSet, C!FoldFunctionOnSet, C!MapThenFoldSet, SumOver, Iterates, Pick

UsageTyped(rows) == rows \subseteq C!Usage /\ IsFiniteSet(rows)
OneRateADay(rs) ==
    /\ rs \subseteq C!Rate
    /\ \A r, s \in rs : r.own = s.own /\ r.metric = s.metric /\ r.from = s.from => r = s

MeterInv ==
    /\ today \in C!Days /\ UsageTyped(usage) /\ OneRateADay(rates) /\ alive \subseteq Properties
    /\ \A u \in usage : u.id <= Cardinality(usage)
    /\ \A u, v \in usage : u.id = v.id => u = v

LEMMA UsageFields ==
    ASSUME NEW u \in C!Usage
    PROVE  /\ u.quantity \in Nat /\ u.at \in C!Days /\ u.at \in Nat /\ u.metric \in Metrics
           /\ u.property \in Properties \cup {NoProperty} /\ u.id \in 1 .. MaxUsage
  <1>1. /\ u.quantity \in Quantities /\ u.at \in C!Days /\ u.metric \in Metrics
        /\ u.property \in Properties \cup {NoProperty} /\ u.id \in 1 .. MaxUsage
    BY DEF C!Usage
  <1>2. u.at \in Nat
    <2>1. C!Days \subseteq Nat
      BY RecordsAssumption DEF C!Days
    <2> QED
      BY <1>1, <2>1
  <1>3. Quantities \subseteq Nat
    BY RecordsAssumption
  <1> QED
    BY <1>1, <1>2, <1>3

LEMMA RateFields ==
    ASSUME NEW r \in C!Rate
    PROVE  r.own \in BOOLEAN /\ r.metric \in Metrics /\ r.cost \in Nat /\ r.from \in C!Days /\ r.from \in Nat
  <1>1. r.own \in BOOLEAN /\ r.metric \in Metrics /\ r.cost \in UnitCosts /\ r.from \in C!Days
    BY DEF C!Rate
  <1>2. r.from \in Nat
    <2>1. C!Days \subseteq Nat
      BY RecordsAssumption DEF C!Days
    <2> QED
      BY <1>1, <2>1
  <1>3. UnitCosts \subseteq Nat
    BY RecordsAssumption
  <1> QED
    BY <1>1, <1>2, <1>3

\* What a row costs: nothing, if it has no rate.
Unresolved(rs, u) == C!ResolveRate(rs, u.metric, u.at) = {}
PriceOf(rs, u) == IF Unresolved(rs, u) THEN 0 ELSE C!CostOf(rs, u)
Prices(rs, rows) == [u \in rows |-> PriceOf(rs, u)]

LEMMA PricesAreNumbers ==
    ASSUME NEW rs, rs \subseteq C!Rate, NEW u \in C!Usage
    PROVE  PriceOf(rs, u) \in Nat /\ (~Unresolved(rs, u) => C!CostOf(rs, u) \in Nat)
  <1>1. ASSUME ~Unresolved(rs, u) PROVE C!CostOf(rs, u) \in Nat
    <2> DEFINE them == C!ResolveRate(rs, u.metric, u.at)
    <2>1. them \subseteq rs
      BY DEF C!ResolveRate
    <2>2. them # {}
      BY <1>1 DEF Unresolved
    <2> HIDE DEF them
    <2>3. (CHOOSE r \in them : TRUE) \in C!Rate
      BY <2>1, <2>2
    <2>4. (CHOOSE r \in them : TRUE).cost \in Nat /\ u.quantity \in Nat
      BY <2>3, RateFields, UsageFields
    <2>5. C!CostOf(rs, u) = u.quantity * (CHOOSE r \in them : TRUE).cost
      BY DEF them, C!CostOf
    <2>6. PICK p, q : p = u.quantity /\ q = (CHOOSE r \in them : TRUE).cost
      OBVIOUS
    <2> QED
      BY <2>4, <2>5, <2>6
  <1> QED
    BY <1>1 DEF PriceOf

\* The value of a function at all elements of a finite set.
LEMMA ImageIsFinite ==
    ASSUME NEW S, IsFiniteSet(S), NEW m PROVE IsFiniteSet({m[x] : x \in S})
  <1> DEFINE I == {m[x] : x \in S}
             h == [x \in S |-> m[x]]
  <1>1. h \in Surjection(S, I)
    BY DEF Surjection
  <1> HIDE DEF I, h
  <1> QED
    BY <1>1, FS_Surjection DEF I

\* A line says what the rows of its metric cost.
LEMMA LineCost ==
    ASSUME NEW rs, rs \subseteq C!Rate, NEW rows, UsageTyped(rows), NEW metric
    PROVE  LET line == C!Line(rs, rows, metric)
               mine == {u \in rows : u.metric = metric}
           IN  /\ (IF line.cost = C!NoCost THEN 0 ELSE line.cost) = SumOver(Prices(rs, rows), mine)
               /\ line.unpriced <=> \E u \in mine : Unresolved(rs, u)
  <1> DEFINE mine == {u \in rows : u.metric = metric}
             priced == {u \in mine : C!ResolveRate(rs, metric, u.at) # {}}
             costs == [u \in priced |-> C!CostOf(rs, u)]
             cost == C!SumFunction(costs)
             prices == Prices(rs, rows)
  <1>1. /\ C!Line(rs, rows, metric).cost = IF priced # mine /\ cost = 0 THEN C!NoCost ELSE cost
        /\ C!Line(rs, rows, metric).unpriced <=> priced # mine
    BY DEF C!Line
  <1>2. IsFiniteSet(mine) /\ IsFiniteSet(priced) /\ rows \subseteq C!Usage
    <2>1. mine \in SUBSET rows /\ priced \in SUBSET rows
      OBVIOUS
    <2> HIDE DEF mine, priced
    <2> QED
      BY <2>1, FS_Subset DEF UsageTyped
  <1>3. \A u \in mine : u \in priced <=> ~Unresolved(rs, u)
    BY DEF Unresolved
  <1>4. \A u \in priced : u \in rows /\ costs[u] = prices[u] /\ costs[u] \in Nat
    <2>1. ASSUME NEW u \in priced PROVE u \in rows /\ costs[u] = prices[u] /\ costs[u] \in Nat
      <3>1. ~Unresolved(rs, u) /\ u \in C!Usage /\ u \in rows
        BY <1>2, <1>3
      <3> QED
        BY <3>1, PricesAreNumbers DEF Prices, PriceOf
    <2> QED
      BY <2>1
  <1>5. cost = SumOver(prices, priced) /\ cost \in Nat
    <2>1. DOMAIN costs = priced
      OBVIOUS
    <2>2. cost = SumOver(costs, priced)
      BY <2>1, SumIsSumOver
    <2> HIDE DEF costs, priced, prices
    <2>3. SumOver(costs, priced) = SumOver(prices, priced)
      BY <1>2, <1>4, SumOfSame
    <2>4. SumOver(costs, priced) \in Nat
      BY <1>2, <1>4, SumIsNumber
    <2> QED
      BY <2>2, <2>3, <2>4
  <1>6. SumOver(prices, mine) = cost
    <2>1. \A u \in mine : prices[u] \in Int
      <3>1. \A u \in rows : prices[u] \in Nat
        BY <1>2, PricesAreNumbers DEF Prices
      <3> QED
        BY <3>1
    <2>2. priced \in SUBSET mine /\ \A u \in mine \ priced : prices[u] = 0
      BY <1>3 DEF Prices, PriceOf
    <2>3. IsFiniteSet(mine \ priced)
      <3> HIDE DEF mine, priced
      <3> QED
        BY <1>2, FS_Subset
    <2> HIDE DEF mine, priced, prices, costs
    <2>4. SumOver(prices, mine) = SumOver(prices, priced) + SumOver(prices, mine \ priced)
      BY <1>2, <2>1, <2>2, SumOfParts
    <2>5. SumOver(prices, mine \ priced) = 0
      BY <2>2, <2>3, SumOfNothing
    <2> QED
      BY <1>5, <2>4, <2>5
  <1>7. (IF C!Line(rs, rows, metric).cost = C!NoCost THEN 0 ELSE C!Line(rs, rows, metric).cost) = cost
    <2> HIDE DEF cost, mine, priced
    <2> QED
      BY <1>1, <1>5 DEF C!NoCost
  <1>8. C!Line(rs, rows, metric).unpriced <=> \E u \in mine : Unresolved(rs, u)
    BY <1>1, <1>3
  <1> QED
    BY <1>6, <1>7, <1>8

LEMMA RowsCost ==
    ASSUME NEW rs, rs \subseteq C!Rate, NEW rows, UsageTyped(rows)
    PROVE  /\ C!PriceRows(rs, rows).cost = SumOver(Prices(rs, rows), rows)
           /\ C!PriceRows(rs, rows).unpriced <=> \E u \in rows : Unresolved(rs, u)
  <1> DEFINE metrics == {u.metric : u \in rows}
             lines == [metric \in metrics |-> C!Line(rs, rows, metric)]
             g == [x \in metrics |-> IF lines[x].cost = C!NoCost THEN 0 ELSE lines[x].cost]
             of == [u \in rows |-> u.metric]
             prices == Prices(rs, rows)
  <1>1. /\ C!PriceRows(rs, rows).cost = C!SumFunction(g)
        /\ C!PriceRows(rs, rows).unpriced <=> \E x \in metrics : lines[x].unpriced
    BY DEF C!PriceRows
  <1>2. ASSUME NEW k \in metrics
        PROVE  /\ g[k] = SumOver(prices, {u \in rows : of[u] = k})
               /\ lines[k].unpriced <=> \E u \in rows : u.metric = k /\ Unresolved(rs, u)
    <2>1. {u \in rows : of[u] = k} = {u \in rows : u.metric = k}
      OBVIOUS
    <2>2. lines[k] = C!Line(rs, rows, k) /\ g[k] = IF lines[k].cost = C!NoCost THEN 0 ELSE lines[k].cost
      OBVIOUS
    <2>3. /\ (IF C!Line(rs, rows, k).cost = C!NoCost THEN 0 ELSE C!Line(rs, rows, k).cost)
                 = SumOver(prices, {u \in rows : u.metric = k})
          /\ C!Line(rs, rows, k).unpriced <=> \E u \in {v \in rows : v.metric = k} : Unresolved(rs, u)
      BY LineCost
    <2> HIDE DEF of, lines, g, prices
    <2> QED
      BY <2>1, <2>2, <2>3
  <1>3. IsFiniteSet(rows) /\ IsFiniteSet(metrics)
    <2>1. metrics = {of[u] : u \in rows} /\ IsFiniteSet(rows)
      BY DEF UsageTyped
    <2> HIDE DEF of, metrics
    <2> QED
      BY <2>1, ImageIsFinite
  <1>4. \A u \in rows : prices[u] \in Int
    <2>1. \A u \in rows : prices[u] \in Nat
      BY PricesAreNumbers DEF Prices, UsageTyped
    <2> QED
      BY <2>1
  <1>5. \A u \in rows : of[u] \in metrics
    OBVIOUS
  <1>6. C!SumFunction(g) = SumOver(g, metrics)
    <2>1. DOMAIN g = metrics
      OBVIOUS
    <2> QED
      BY <2>1, SumIsSumOver
  <1>7. C!PriceRows(rs, rows).unpriced <=> \E u \in rows : Unresolved(rs, u)
    BY <1>1, <1>2
  <1> HIDE DEF g, of, metrics, prices
  <1>8. SumOver(g, metrics) = SumOver(prices, rows)
    <2>1. \A k \in metrics : g[k] = SumOver(prices, Group(rows, of, k))
      BY <1>2 DEF Group
    <2> QED
      BY <1>3, <1>4, <1>5, <2>1, SumByGroups
  <1> QED
    BY <1>1, <1>6, <1>7, <1>8 DEF prices

InPeriod(rows, start, end) == {u \in rows : start <= u.at /\ u.at < end}

\* However a report groups the rows of its period, it adds up their prices.
LEMMA ReportTotal ==
    ASSUME NEW rs, rs \subseteq C!Rate, NEW rows, UsageTyped(rows), NEW start, NEW end
    PROVE  LET window == InPeriod(rows, start, end)
               report == C!Report(rs, rows, start, end)
           IN  /\ report.total = SumOver(Prices(rs, window), window)
               /\ report.unpriced <=> \E u \in window : Unresolved(rs, u)
  <1> DEFINE window == {u \in rows : start <= u.at /\ u.at < end}
             named == {u.property : u \in window} \ {NoProperty}
             Of(p) == C!PriceRows(rs, {u \in window : u.property = p})
             report == C!Report(rs, rows, start, end)
             g == [p \in named \cup {NoProperty} |-> Of(p).cost]
             h == [p \in named |-> Of(p).cost]
             of == [u \in window |-> u.property]
             prices == Prices(rs, window)
  <1>1. /\ report.total = C!SumFunction(h) + Of(NoProperty).cost
        /\ report.unpriced <=> Of(NoProperty).unpriced \/ \E p \in named : Of(p).unpriced
    BY DEF C!Report
  <1>2. UsageTyped(window) /\ IsFiniteSet(window)
    <2>1. window \in SUBSET rows
      OBVIOUS
    <2> HIDE DEF window
    <2> QED
      BY <2>1, FS_Subset DEF UsageTyped
  <1>3. ASSUME NEW p
        PROVE  /\ Of(p).cost = SumOver(prices, {u \in window : u.property = p})
               /\ Of(p).unpriced <=> \E u \in window : u.property = p /\ Unresolved(rs, u)
    <2> DEFINE share == {u \in window : u.property = p}
    <2>1. share \in SUBSET window
      OBVIOUS
    <2>2. UsageTyped(share) /\ IsFiniteSet(share)
      <3> HIDE DEF share, window
      <3> QED
        BY <1>2, <2>1, FS_Subset DEF UsageTyped
    <2>3. /\ Of(p).cost = SumOver(Prices(rs, share), share)
          /\ Of(p).unpriced <=> \E u \in share : Unresolved(rs, u)
      <3> HIDE DEF share
      <3>1. /\ C!PriceRows(rs, share).cost = SumOver(Prices(rs, share), share)
            /\ C!PriceRows(rs, share).unpriced <=> \E u \in share : Unresolved(rs, u)
        BY <2>2, RowsCost
      <3> QED
        BY <3>1 DEF share
    <2>4. SumOver(Prices(rs, share), share) = SumOver(prices, share)
      <3>1. \A u \in share : Prices(rs, share)[u] = prices[u]
        BY <2>1 DEF Prices
      <3> HIDE DEF share, prices
      <3> QED
        BY <2>2, <3>1, SumOfSame
    <2> QED
      BY <2>3, <2>4
  <1>4. report.unpriced <=> \E u \in window : Unresolved(rs, u)
    <2>1. \A u \in window : u.property = NoProperty \/ u.property \in named
      OBVIOUS
    <2> HIDE DEF Of, report, window
    <2> QED
      BY <1>1, <1>3, <2>1
  <1>5. IsFiniteSet(named) /\ IsFiniteSet(named \cup {NoProperty})
    <2>1. IsFiniteSet({of[u] : u \in window}) /\ {of[u] : u \in window} = {u.property : u \in window}
      <3>1. {of[u] : u \in window} = {u.property : u \in window}
        OBVIOUS
      <3> HIDE DEF of, window
      <3> QED
        BY <1>2, <3>1, ImageIsFinite
    <2>2. IsFiniteSet(named)
      <3>1. named \in SUBSET {of[u] : u \in window}
        BY <2>1
      <3> HIDE DEF named, of, window
      <3> QED
        BY <2>1, <3>1, FS_Subset
    <2> HIDE DEF named
    <2> QED
      BY <2>2, FS_AddElement
  <1>6. \A u \in window : prices[u] \in Int /\ of[u] \in named \cup {NoProperty}
    <2>1. \A u \in window : prices[u] \in Nat
      <3> HIDE DEF window
      <3> QED
        BY <1>2, PricesAreNumbers DEF Prices, UsageTyped
    <2> QED
      BY <2>1
  <1>7. \A p \in named \cup {NoProperty} :
            g[p] = Of(p).cost /\ g[p] = SumOver(prices, {u \in window : of[u] = p})
    <2>1. ASSUME NEW p \in named \cup {NoProperty}
          PROVE  g[p] = Of(p).cost /\ g[p] = SumOver(prices, {u \in window : of[u] = p})
      <3>1. {u \in window : of[u] = p} = {u \in window : u.property = p}
        OBVIOUS
      <3>2. g[p] = Of(p).cost
        OBVIOUS
      <3> QED
        BY <1>3, <3>1, <3>2
    <2> QED
      BY <2>1
  <1>8. C!SumFunction(h) = SumOver(h, named) /\ \A p \in named : h[p] = g[p]
    <2>1. DOMAIN h = named
      OBVIOUS
    <2> QED
      BY <2>1, SumIsSumOver
  <1>9. NoProperty \notin named
    OBVIOUS
  <1> HIDE DEF g, h, of, named, window, prices, Of, report
  <1>10. SumOver(g, named \cup {NoProperty}) = SumOver(prices, window)
    <2>1. \A p \in named \cup {NoProperty} : g[p] = SumOver(prices, Group(window, of, p))
      BY <1>7 DEF Group
    <2> QED
      BY <1>2, <1>5, <1>6, <2>1, SumByGroups
  <1>11. \A p \in named \cup {NoProperty} : g[p] \in Int
    <2>1. ASSUME NEW p \in named \cup {NoProperty} PROVE g[p] \in Int
      <3> DEFINE share == {u \in window : of[u] = p}
      <3>1. share \in SUBSET window /\ g[p] = SumOver(prices, share)
        BY <1>7
      <3> HIDE DEF share
      <3>2. IsFiniteSet(share) /\ \A u \in share : prices[u] \in Int
        BY <1>2, <1>6, <3>1, FS_Subset
      <3> QED
        BY <3>1, <3>2, SumIsNumber
    <2> QED
      BY <2>1
  <1>12. SumOver(g, named \cup {NoProperty}) = g[NoProperty] + SumOver(g, named)
    <2>1. (named \cup {NoProperty}) \ {NoProperty} = named /\ NoProperty \in named \cup {NoProperty}
      BY <1>9
    <2> QED
      BY <1>5, <1>11, <2>1, SumAdds
  <1>13. SumOver(h, named) = SumOver(g, named) /\ SumOver(g, named) \in Int /\ g[NoProperty] \in Int
    BY <1>5, <1>8, <1>11, SumOfSame, SumIsNumber
  <1>14. report.total = SumOver(prices, window)
    <2>1. g[NoProperty] = Of(NoProperty).cost
      BY <1>7
    <2>2. report.total = SumOver(h, named) + g[NoProperty]
      BY <1>1, <1>8, <2>1
    <2> QED
      BY <1>10, <1>12, <1>13, <2>2
  <1>15. window = InPeriod(rows, start, end)
    BY DEF window, InPeriod
  <1> QED
    BY <1>4, <1>14, <1>15 DEF report, prices

\* The rows that have a rate add up to what all rows cost.
LEMMA PricedRowsAddUp ==
    ASSUME NEW rs, rs \subseteq C!Rate, NEW rows, UsageTyped(rows), NEW costs,
           DOMAIN costs = {u \in rows : ~Unresolved(rs, u)},
           \A u \in DOMAIN costs : costs[u] = C!CostOf(rs, u)
    PROVE  C!SumFunction(costs) = SumOver(Prices(rs, rows), rows)
  <1> DEFINE priced == DOMAIN costs
             prices == Prices(rs, rows)
  <1>1. IsFiniteSet(rows) /\ IsFiniteSet(priced) /\ IsFiniteSet(rows \ priced) /\ priced \in SUBSET rows
    <2>1. priced \in SUBSET rows /\ IsFiniteSet(rows)
      BY DEF UsageTyped
    <2> HIDE DEF priced
    <2> QED
      BY <2>1, FS_Subset
  <1>2. \A u \in rows : prices[u] \in Nat
    BY PricesAreNumbers DEF Prices, UsageTyped
  <1>3. \A u \in priced : costs[u] = prices[u]
    BY DEF Prices, PriceOf
  <1>4. \A u \in rows \ priced : prices[u] = 0
    BY DEF Prices, PriceOf
  <1>5. \A u \in rows : prices[u] \in Int
    BY <1>2
  <1>6. C!SumFunction(costs) = SumOver(costs, priced)
    BY SumIsSumOver
  <1> HIDE DEF priced, prices
  <1>7. SumOver(costs, priced) = SumOver(prices, priced)
    BY <1>1, <1>3, SumOfSame
  <1>8. SumOver(prices, rows) = SumOver(prices, priced) + SumOver(prices, rows \ priced)
    BY <1>1, <1>5, SumOfParts
  <1>9. SumOver(prices, rows \ priced) = 0
    BY <1>1, <1>4, SumOfNothing
  <1>10. SumOver(prices, priced) \in Nat
    BY <1>1, <1>2, SumIsNumber
  <1> QED
    BY <1>6, <1>7, <1>8, <1>9, <1>10 DEF prices

\* The rate the code resolves is the one in effect.
LEMMA RateInEffect ==
    ASSUME OneRateADay(rates), NEW metric, NEW at
    PROVE  C!ResolveRate(rates, metric, at) = {r \in rates : C!InEffect(r, metric, at)}
  <1> DEFINE candidates == {r \in rates : r.metric = metric /\ r.from <= at}
             orgSpecific == {r \in candidates : r.own}
             from == IF orgSpecific # {} THEN orgSpecific ELSE candidates
  <1>1. C!ResolveRate(rates, metric, at) = {r \in from : \A s \in from : s.from <= r.from}
    BY DEF C!ResolveRate
  <1>2. \A r \in rates : r.own \in BOOLEAN /\ r.from \in Nat
    BY RateFields DEF OneRateADay
  <1>3. ASSUME NEW r \in from, \A s \in from : s.from <= r.from
        PROVE  r \in rates /\ C!InEffect(r, metric, at)
    <2>1. r \in candidates /\ r \in rates
      OBVIOUS
    <2>2. ASSUME NEW s \in rates, s.metric = metric, s.from <= at, s # r
          PROVE  (r.own /\ ~s.own) \/ (r.own = s.own /\ s.from < r.from)
      <3>1. s \in candidates
        BY <2>2
      <3>2. ASSUME r.own = s.own PROVE s.from < r.from
        <4>1. s \in from
          BY <1>2, <2>1, <3>1, <3>2
        <4>2. s.from <= r.from /\ s.from # r.from
          BY <1>3, <2>1, <2>2, <3>2, <4>1 DEF OneRateADay
        <4> QED
          BY <1>2, <2>1, <4>2
      <3>3. ASSUME s.own PROVE r.own
        BY <3>1, <3>3
      <3> QED
        BY <1>2, <2>1, <3>2, <3>3
    <2> QED
      BY <2>1, <2>2 DEF C!InEffect
  <1>4. ASSUME NEW r \in rates, C!InEffect(r, metric, at)
        PROVE  r \in from /\ \A s \in from : s.from <= r.from
    <2>1. r \in candidates
      BY <1>4 DEF C!InEffect
    <2>2. \A s \in candidates : s # r => (r.own /\ ~s.own) \/ (r.own = s.own /\ s.from < r.from)
      BY <1>4 DEF C!InEffect
    <2>3. r \in from
      BY <1>2, <2>1, <2>2
    <2>4. ASSUME NEW s \in from PROVE s.from <= r.from
      <3>1. s \in candidates /\ s \in rates
        OBVIOUS
      <3>2. CASE s = r
        BY <1>2, <3>2
      <3>3. CASE s # r
        <4>1. ~(r.own /\ ~s.own)
          BY <2>3
        <4> QED
          BY <1>2, <2>2, <3>1, <3>3, <4>1
      <3> QED
        BY <3>2, <3>3
    <2> QED
      BY <2>3, <2>4
  <1> HIDE DEF from
  <1> QED
    BY <1>1, <1>3, <1>4

LEMMA ReportsAddUp == ASSUME MeterInv PROVE C!ReportAddsUp
  <1> SUFFICES ASSUME NEW period \in C!Periods
               PROVE  LET report == C!Report(rates, usage, period[1], period[2])
                          window == {u \in usage : period[1] <= u.at /\ u.at < period[2]}
                          Prices1(u) == {r \in rates : C!InEffect(r, u.metric, u.at)}
                          priced == {u \in window : Prices1(u) # {}}
                      IN  /\ report.total = C!SumFunction([u \in priced |-> u.quantity * (CHOOSE r \in Prices1(u) : TRUE).cost])
                          /\ report.unpriced <=> priced # window
    BY DEF C!ReportAddsUp
  <1> DEFINE report == C!Report(rates, usage, period[1], period[2])
             window == {u \in usage : period[1] <= u.at /\ u.at < period[2]}
             Prices1(u) == {r \in rates : C!InEffect(r, u.metric, u.at)}
             priced == {u \in window : Prices1(u) # {}}
             costs == [u \in priced |-> u.quantity * (CHOOSE r \in Prices1(u) : TRUE).cost]
  <1>1. /\ report.total = SumOver(Prices(rates, window), window)
        /\ report.unpriced <=> \E u \in window : Unresolved(rates, u)
    <2>1. window = InPeriod(usage, period[1], period[2])
      BY DEF InPeriod
    <2>2. rates \subseteq C!Rate /\ UsageTyped(usage)
      BY DEF MeterInv, OneRateADay
    <2> HIDE DEF window
    <2> QED
      BY <2>1, <2>2, ReportTotal
  <1>2. UsageTyped(window)
    <2>1. window \in SUBSET usage
      OBVIOUS
    <2> HIDE DEF window
    <2> QED
      BY <2>1, FS_Subset DEF UsageTyped, MeterInv
  <1>3. \A u \in window : Prices1(u) = C!ResolveRate(rates, u.metric, u.at)
    BY RateInEffect DEF MeterInv
  <1>4. priced = {u \in window : ~Unresolved(rates, u)}
    BY <1>3 DEF Unresolved
  <1>5. \A u \in DOMAIN costs : costs[u] = C!CostOf(rates, u)
    BY <1>3 DEF C!CostOf
  <1>6. DOMAIN costs = {u \in window : ~Unresolved(rates, u)}
    BY <1>4
  <1>7. C!SumFunction(costs) = SumOver(Prices(rates, window), window)
    <2>1. rates \subseteq C!Rate
      BY DEF MeterInv, OneRateADay
    <2> HIDE DEF costs, window
    <2> QED
      BY <1>2, <1>5, <1>6, <2>1, PricedRowsAddUp
  <1>8. report.unpriced <=> priced # window
    BY <1>1, <1>4
  <1> QED
    BY <1>1, <1>7, <1>8

\* Two reports agree if the rows of the one are those of the other, renamed,
\* and cost the same.
LEMMA SameReport ==
    ASSUME NEW start, NEW end, NEW rs, rs \subseteq C!Rate, NEW rows, UsageTyped(rows),
           NEW rs2, rs2 \subseteq C!Rate, NEW rows2, UsageTyped(rows2),
           NEW window, window = InPeriod(rows, start, end),
           NEW m, \A u, v \in window : m[u] = m[v] => u = v,
           \A x : x \in InPeriod(rows2, start, end) <=> \E u \in window : x = m[u],
           \A u \in window : PriceOf(rs2, m[u]) = PriceOf(rs, u) /\ (Unresolved(rs2, m[u]) <=> Unresolved(rs, u))
    PROVE  /\ C!Report(rs2, rows2, start, end).total = C!Report(rs, rows, start, end).total
           /\ C!Report(rs2, rows2, start, end).unpriced <=> C!Report(rs, rows, start, end).unpriced
  <1> DEFINE window2 == {m[u] : u \in window}
             f == Prices(rs2, window2)
             g == Prices(rs, window)
  <1>1. /\ C!Report(rs, rows, start, end).total = SumOver(g, window)
        /\ C!Report(rs, rows, start, end).unpriced <=> \E u \in window : Unresolved(rs, u)
    <2> HIDE DEF g
    <2> QED
      BY ReportTotal DEF g
  <1>2. /\ C!Report(rs2, rows2, start, end).total = SumOver(f, window2)
        /\ C!Report(rs2, rows2, start, end).unpriced <=> \E u \in window2 : Unresolved(rs2, u)
    <2> HIDE DEF window2
    <2>1. InPeriod(rows2, start, end) = window2
      BY DEF window2
    <2> QED
      BY <2>1, ReportTotal
  <1>3. \A u \in window : f[m[u]] = g[u] /\ g[u] \in Int
    <2>1. \A u \in window : g[u] \in Nat
      BY PricesAreNumbers DEF Prices, UsageTyped, InPeriod
    <2>2. \A u \in window : f[m[u]] = g[u]
      BY DEF Prices
    <2> QED
      BY <2>1, <2>2
  <1>4. IsFiniteSet(window)
    <2>1. window \in SUBSET rows
      BY DEF InPeriod
    <2> QED
      BY <2>1, FS_Subset DEF UsageTyped
  <1>5. SumOver(f, window2) = SumOver(g, window)
    <2> HIDE DEF f, g
    <2> QED
      BY <1>3, <1>4, SumOfImages
  <1>6. (\E u \in window2 : Unresolved(rs2, u)) <=> (\E u \in window : Unresolved(rs, u))
    OBVIOUS
  <1> QED
    BY <1>1, <1>2, <1>5, <1>6

LEMMA MeterInvInit == C!Init => MeterInv
  <1> SUFFICES ASSUME C!Init PROVE MeterInv
    OBVIOUS
  <1>1. today \in C!Days
    BY RecordsAssumption DEF C!Init, C!Days
  <1>2. usage = {} /\ rates = {} /\ alive = Properties
    BY DEF C!Init
  <1> QED
    BY <1>1, <1>2, FS_EmptySet DEF MeterInv, UsageTyped, OneRateADay

\* What stays the same when neither the rates nor the rows of any period do.
LEMMA PeriodsKept ==
    ASSUME MeterInv, MeterInv', NEW start, NEW end, rates' = rates,
           InPeriod(usage', start, end) = InPeriod(usage, start, end)
    PROVE  /\ C!Report(rates', usage', start, end).total = C!Report(rates, usage, start, end).total
           /\ C!Report(rates', usage', start, end).unpriced <=> C!Report(rates, usage, start, end).unpriced
  <1>1. /\ rates \subseteq C!Rate /\ rates' \subseteq C!Rate /\ UsageTyped(usage) /\ UsageTyped(usage')
    BY DEF MeterInv, OneRateADay
  <1>2. PICK total, unpriced :
          /\ C!Report(rates, usage, start, end).total = total
          /\ total = SumOver(Prices(rates, InPeriod(usage, start, end)), InPeriod(usage, start, end))
          /\ C!Report(rates, usage, start, end).unpriced <=> unpriced
          /\ unpriced <=> \E u \in InPeriod(usage, start, end) : Unresolved(rates, u)
    BY <1>1, ReportTotal
  <1> QED
    BY <1>1, <1>2, ReportTotal

LEMMA NextDayKeeps == ASSUME MeterInv, C!NextDay PROVE MeterInv' /\ C!KeepsClosedPeriods
  <1>1. usage' = usage /\ rates' = rates /\ alive' = alive /\ today' \in C!Days
    BY RecordsAssumption DEF C!NextDay, MeterInv, C!Days
  <1>2. MeterInv'
    BY <1>1 DEF MeterInv, UsageTyped, OneRateADay
  <1> QED
    BY <1>1, <1>2 DEF C!KeepsClosedPeriods

LEMMA RecordUsageKeeps ==
    ASSUME MeterInv, NEW metric \in Metrics, NEW p \in Properties \cup {NoProperty}, NEW q \in Quantities,
           C!RecordUsage(metric, p, q)
    PROVE  MeterInv' /\ C!KeepsClosedPeriods
  <1> DEFINE n == Cardinality(usage)
             row == [id |-> n + 1, metric |-> metric, property |-> p, quantity |-> q, at |-> today]
  <1>1. n < MaxUsage /\ usage' = usage \cup {row} /\ rates' = rates /\ alive' = alive /\ today' = today
    <2>1. C!Cardinality(usage) = n
      BY DEF C!Cardinality, Cardinality
    <2> HIDE DEF n
    <2> QED
      BY <2>1 DEF C!RecordUsage
  <1>2. n \in Nat /\ MaxUsage \in Nat /\ IsFiniteSet(usage) /\ usage \subseteq C!Usage
    BY RecordsAssumption, FS_CardinalityType DEF MeterInv, UsageTyped
  <1>3. row \in C!Usage /\ row.id = n + 1
    BY <1>1, <1>2 DEF C!Usage, MeterInv
  <1>4. \A u \in usage : u.id \in Nat /\ u.id <= n
    BY <1>2, UsageFields DEF MeterInv
  <1>5. row \notin usage
    BY <1>2, <1>3, <1>4
  <1>6. Cardinality(usage') = n + 1 /\ IsFiniteSet(usage')
    <2> HIDE DEF row
    <2> QED
      BY <1>1, <1>2, <1>5, FS_AddElement
  <1>7. MeterInv'
    <2>1. \A u \in usage' : u.id <= Cardinality(usage')
      <3> HIDE DEF row, n
      <3> QED
        BY <1>1, <1>2, <1>3, <1>4, <1>6
    <2>2. \A u, v \in usage' : u.id = v.id => u = v
      <3> HIDE DEF row, n
      <3> QED
        BY <1>1, <1>2, <1>3, <1>4 DEF MeterInv
    <2>3. UsageTyped(usage')
      <3> HIDE DEF row
      <3> QED
        BY <1>1, <1>2, <1>3, <1>6 DEF UsageTyped
    <2> QED
      BY <1>1, <2>1, <2>2, <2>3 DEF MeterInv, OneRateADay
  <1>8. C!KeepsClosedPeriods
    <2> SUFFICES ASSUME NEW period \in C!Periods,
                        {u.id : u \in {v \in usage' : period[1] <= v.at /\ v.at < period[2]}} \subseteq {u.id : u \in usage}
                 PROVE  /\ C!Report(rates, usage, period[1], period[2]).total = C!Report(rates', usage', period[1], period[2]).total
                        /\ C!Report(rates, usage, period[1], period[2]).unpriced = C!Report(rates', usage', period[1], period[2]).unpriced
      BY DEF C!KeepsClosedPeriods
    <2>1. row \notin InPeriod(usage', period[1], period[2])
      <3>1. SUFFICES ASSUME row \in InPeriod(usage', period[1], period[2]) PROVE FALSE
        OBVIOUS
      <3>2. row.id \in {u.id : u \in usage}
        BY <3>1 DEF InPeriod
      <3> HIDE DEF row, n
      <3> QED
        BY <1>2, <1>3, <1>4, <3>2
    <2>2. InPeriod(usage', period[1], period[2]) = InPeriod(usage, period[1], period[2])
      <3> HIDE DEF row
      <3> QED
        BY <1>1, <2>1 DEF InPeriod
    <2>3. C!Report(rates, usage, period[1], period[2]).unpriced \in BOOLEAN
          /\ C!Report(rates', usage', period[1], period[2]).unpriced \in BOOLEAN
      BY DEF C!Report, C!PriceRows
    <2> QED
      BY <1>1, <1>7, <2>2, <2>3, PeriodsKept
  <1> QED
    BY <1>7, <1>8

LEMMA SetRateKeeps == ASSUME MeterInv, NEW rate \in C!Rate, C!SetRate(rate) PROVE MeterInv' /\ C!KeepsClosedPeriods
  <1>1. /\ usage' = usage /\ rates' = rates \cup {rate} /\ alive' = alive /\ today' = today
        /\ \A r \in rates : ~(r.own = rate.own /\ r.metric = rate.metric /\ r.from = rate.from)
    BY DEF C!SetRate
  <1>2. MeterInv'
    <2>1. OneRateADay(rates')
      BY <1>1 DEF MeterInv, OneRateADay
    <2> QED
      BY <1>1, <2>1 DEF MeterInv, UsageTyped
  <1>3. C!KeepsClosedPeriods
    <2> SUFFICES ASSUME NEW period \in C!Periods, \A r \in rates' \ rates : r.from >= period[2]
                 PROVE  /\ C!Report(rates, usage, period[1], period[2]).total = C!Report(rates', usage', period[1], period[2]).total
                        /\ C!Report(rates, usage, period[1], period[2]).unpriced = C!Report(rates', usage', period[1], period[2]).unpriced
      BY DEF C!KeepsClosedPeriods
    <2> DEFINE window == InPeriod(usage, period[1], period[2])
               m == [u \in window |-> u]
    <2>1. rate.from >= period[2] /\ rate.from \in Nat /\ period[2] \in Nat
      <3>1. rate \in rates' \ rates
        BY <1>1
      <3>2. 0 .. LastDay + 1 \subseteq Nat
        BY RecordsAssumption
      <3> QED
        BY <3>1, <3>2, RateFields DEF C!Periods
    <2>2. rates \subseteq C!Rate /\ rates' \subseteq C!Rate /\ UsageTyped(usage) /\ UsageTyped(usage')
      BY <1>2 DEF MeterInv, OneRateADay
    <2>3. ASSUME NEW u \in window
          PROVE  C!ResolveRate(rates', u.metric, u.at) = C!ResolveRate(rates, u.metric, u.at)
      <3>1. u.at \in Nat /\ u.at < period[2]
        BY <2>2, UsageFields DEF InPeriod, UsageTyped
      <3>2. ~(rate.from <= u.at)
        BY <2>1, <3>1
      <3>3. {r \in rates' : r.metric = u.metric /\ r.from <= u.at} = {r \in rates : r.metric = u.metric /\ r.from <= u.at}
        BY <1>1, <3>2
      <3> QED
        BY <3>3, Zenon DEF C!ResolveRate
    <2>4. \A u \in window : /\ PriceOf(rates', u) = PriceOf(rates, u)
                            /\ Unresolved(rates', u) <=> Unresolved(rates, u)
      <3>1. \A u \in window : Unresolved(rates', u) <=> Unresolved(rates, u)
        BY <2>3 DEF Unresolved
      <3>2. \A u \in window : C!CostOf(rates', u) = C!CostOf(rates, u)
        BY <2>3, Zenon DEF C!CostOf
      <3> QED
        BY <3>1, <3>2, Zenon DEF PriceOf
    <2>5. \A x : x \in InPeriod(usage', period[1], period[2]) <=> \E u \in window : x = m[u]
      BY <1>1 DEF InPeriod
    <2>6. /\ \A u, v \in window : m[u] = m[v] => u = v
          /\ \A u \in window : /\ PriceOf(rates', m[u]) = PriceOf(rates, u)
                               /\ Unresolved(rates', m[u]) <=> Unresolved(rates, u)
      BY <2>4
    <2>7. /\ C!Report(rates, usage, period[1], period[2]).unpriced \in BOOLEAN
          /\ C!Report(rates', usage', period[1], period[2]).unpriced \in BOOLEAN
      BY DEF C!Report, C!PriceRows
    <2>8. /\ C!Report(rates', usage', period[1], period[2]).total = C!Report(rates, usage, period[1], period[2]).total
          /\ C!Report(rates', usage', period[1], period[2]).unpriced <=> C!Report(rates, usage, period[1], period[2]).unpriced
      <3>1. window = InPeriod(usage, period[1], period[2])
        OBVIOUS
      <3>2. \A u, v \in window : m[u] = m[v] => u = v
        BY <2>6
      <3>3. \A u \in window : /\ PriceOf(rates', m[u]) = PriceOf(rates, u)
                              /\ Unresolved(rates', m[u]) <=> Unresolved(rates, u)
        BY <2>6
      <3> HIDE DEF m, window
      <3> QED
        BY <2>2, <2>5, <3>1, <3>2, <3>3, SameReport
    <2> QED
      BY <2>7, <2>8
  <1> QED
    BY <1>2, <1>3

\* A deleted property leaves its rows, of the same metric, day and quantity.
Unattributed(u, p) == IF u.property = p THEN [u EXCEPT !.property = NoProperty] ELSE u

LEMMA UnattributedRow ==
    ASSUME NEW u \in C!Usage, NEW p
    PROVE  /\ Unattributed(u, p) \in C!Usage /\ Unattributed(u, p).id = u.id
           /\ Unattributed(u, p).metric = u.metric /\ Unattributed(u, p).at = u.at
           /\ Unattributed(u, p).quantity = u.quantity
  <1>1. CASE u.property = p
    <2>1. Unattributed(u, p) = [u EXCEPT !.property = NoProperty]
      BY <1>1 DEF Unattributed
    <2> QED
      BY <2>1 DEF C!Usage
  <1>2. CASE u.property # p
    BY <1>2 DEF Unattributed
  <1> QED
    BY <1>1, <1>2

LEMMA DeletePropertyKeeps ==
    ASSUME MeterInv, NEW p \in Properties, C!DeleteProperty(p) PROVE MeterInv' /\ C!KeepsClosedPeriods
  <1> DEFINE m == [u \in usage |-> Unattributed(u, p)]
  <1>1. /\ usage' = {m[u] : u \in usage} /\ rates' = rates /\ alive' = alive \ {p} /\ today' = today
    <2>1. usage' = {Unattributed(u, p) : u \in usage}
      BY Zenon DEF C!DeleteProperty, Unattributed
    <2> QED
      BY <2>1 DEF C!DeleteProperty
  <1>2. \A u \in usage : /\ m[u] \in C!Usage /\ m[u].id = u.id /\ m[u].metric = u.metric
                         /\ m[u].at = u.at /\ m[u].quantity = u.quantity
    BY UnattributedRow DEF MeterInv, UsageTyped
  <1>3. \A u, v \in usage : m[u] = m[v] => u = v
    BY <1>2 DEF MeterInv
  <1>4. IsFiniteSet(usage') /\ Cardinality(usage') = Cardinality(usage)
    <2>1. m \in Bijection(usage, usage')
      <3>1. m \in [usage -> usage'] /\ \A y \in usage' : \E x \in usage : m[x] = y
        BY <1>1
      <3> HIDE DEF m
      <3> QED
        BY <1>3, <3>1 DEF Bijection, Injection, Surjection, IsInjective
    <2>2. IsFiniteSet(usage)
      BY DEF MeterInv, UsageTyped
    <2> HIDE DEF m
    <2>3. ExistsBijection(usage, usage')
      BY <2>1 DEF ExistsBijection
    <2> QED
      BY <2>2, <2>3, FS_Bijection
  <1>5. MeterInv'
    <2> HIDE DEF m
    <2>1. UsageTyped(usage')
      BY <1>1, <1>2, <1>4 DEF UsageTyped
    <2>2. \A u \in usage' : u.id <= Cardinality(usage')
      BY <1>1, <1>2, <1>4 DEF MeterInv
    <2>3. \A u, v \in usage' : u.id = v.id => u = v
      BY <1>1, <1>2 DEF MeterInv
    <2> QED
      BY <1>1, <2>1, <2>2, <2>3 DEF MeterInv, OneRateADay
  <1>6. C!KeepsClosedPeriods
    <2> HIDE DEF m
    <2> SUFFICES ASSUME NEW period \in C!Periods
                 PROVE  /\ C!Report(rates, usage, period[1], period[2]).total = C!Report(rates', usage', period[1], period[2]).total
                        /\ C!Report(rates, usage, period[1], period[2]).unpriced = C!Report(rates', usage', period[1], period[2]).unpriced
      BY DEF C!KeepsClosedPeriods
    <2> DEFINE window == InPeriod(usage, period[1], period[2])
    <2>1. rates \subseteq C!Rate /\ rates' \subseteq C!Rate /\ UsageTyped(usage) /\ UsageTyped(usage')
      BY <1>5 DEF MeterInv, OneRateADay
    <2>2. \A x : x \in InPeriod(usage', period[1], period[2]) <=> \E u \in window : x = m[u]
      BY <1>1, <1>2 DEF InPeriod
    <2>3. \A u, v \in window : m[u] = m[v] => u = v
      BY <1>3 DEF InPeriod
    <2>4. \A u \in window : /\ PriceOf(rates', m[u]) = PriceOf(rates, u)
                            /\ Unresolved(rates', m[u]) <=> Unresolved(rates, u)
      <3>1. ASSUME NEW u \in window
            PROVE  /\ PriceOf(rates', m[u]) = PriceOf(rates, u)
                   /\ Unresolved(rates', m[u]) <=> Unresolved(rates, u)
        <4>1. PICK v : v = m[u]
          OBVIOUS
        <4>2. v.metric = u.metric /\ v.at = u.at /\ v.quantity = u.quantity /\ rates' = rates
          BY <1>1, <1>2, <4>1 DEF InPeriod
        <4>3. Unresolved(rates', v) <=> Unresolved(rates, u)
          BY <4>2, Zenon DEF Unresolved
        <4>4. C!CostOf(rates', v) = C!CostOf(rates, u)
          BY <4>2, Zenon DEF C!CostOf
        <4> QED
          BY <4>1, <4>3, <4>4, Zenon DEF PriceOf
      <3> QED
        BY <3>1
    <2>5. /\ C!Report(rates, usage, period[1], period[2]).unpriced \in BOOLEAN
          /\ C!Report(rates', usage', period[1], period[2]).unpriced \in BOOLEAN
      BY DEF C!Report, C!PriceRows
    <2>6. /\ C!Report(rates', usage', period[1], period[2]).total = C!Report(rates, usage, period[1], period[2]).total
          /\ C!Report(rates', usage', period[1], period[2]).unpriced <=> C!Report(rates, usage, period[1], period[2]).unpriced
      <3>1. window = InPeriod(usage, period[1], period[2])
        OBVIOUS
      <3> HIDE DEF window, m
      <3> QED
        BY <2>1, <2>2, <2>3, <2>4, <3>1, SameReport
    <2> QED
      BY <2>5, <2>6
  <1> QED
    BY <1>5, <1>6

LEMMA MeterInvStep == MeterInv /\ [C!Next]_metering => MeterInv' /\ C!KeepsClosedPeriods
  <1> SUFFICES ASSUME MeterInv, [C!Next]_metering PROVE MeterInv' /\ C!KeepsClosedPeriods
    OBVIOUS
  <1>1. CASE UNCHANGED metering
    <2>1. usage' = usage /\ rates' = rates /\ alive' = alive /\ today' = today
      BY <1>1 DEF metering
    <2>2. MeterInv'
      BY <2>1 DEF MeterInv, UsageTyped, OneRateADay
    <2> QED
      BY <2>1, <2>2 DEF C!KeepsClosedPeriods
  <1>2. CASE C!NextDay
    BY <1>2, NextDayKeeps
  <1>3. CASE \E metric \in Metrics, p \in Properties \cup {NoProperty}, q \in Quantities : C!RecordUsage(metric, p, q)
    BY <1>3, RecordUsageKeeps
  <1>4. CASE \E rate \in C!Rate : C!SetRate(rate)
    BY <1>4, SetRateKeeps
  <1>5. CASE \E p \in Properties : C!DeleteProperty(p)
    BY <1>5, DeletePropertyKeeps
  <1> QED
    BY <1>1, <1>2, <1>3, <1>4, <1>5 DEF C!Next

LEMMA MeterInvTells == ASSUME MeterInv PROVE C!TypeOK /\ C!ReportAddsUp
  BY ReportsAddUp DEF MeterInv, UsageTyped, OneRateADay, C!TypeOK

-------------------------------------------------------------------------------
(* Bulk import: what a commit does, row by row, and what undoing it does.      *)

\* Induction over the first numbers, for a set of good ones.
LEMMA UpTo ==
    ASSUME NEW N \in Nat, NEW Good, 0 \in Good, \A n \in 0 .. N : n # 0 /\ n - 1 \in Good => n \in Good
    PROVE  N \in Good
  <1> DEFINE Odd == {S \in SUBSET (1 .. N) : \E n \in 0 .. N : S = 1 .. n /\ n \notin Good}
  <1>1. SUFFICES ASSUME N \notin Good PROVE FALSE
    OBVIOUS
  <1>2. 1 .. N \in Odd
    BY <1>1
  <1>3. PICK S \in Odd : \A B \in Odd : B \subseteq S => B = S
    <2>1. IsFiniteSet(1 .. N)
      BY FS_Interval
    <2>2. Odd \in SUBSET (SUBSET (1 .. N)) /\ Odd # {}
      BY <1>2
    <2> DEFINE U == 1 .. N
    <2>3. IsFiniteSet(U) /\ Odd \in SUBSET (SUBSET U) /\ Odd # {}
      BY <2>1, <2>2
    <2> HIDE DEF Odd, U
    <2> QED
      BY <2>3, SmallestSet
  <1>4. PICK n \in 0 .. N : S = 1 .. n /\ n \notin Good
    OBVIOUS
  <1>5. n # 0 /\ n - 1 \notin Good /\ n - 1 \in 0 .. N
    BY <1>4
  <1>6. 1 .. (n - 1) \in Odd
    BY <1>5
  <1>7. 1 .. (n - 1) = 1 .. n
    <2> HIDE DEF Odd
    <2> QED
      BY <1>3, <1>4, <1>5, <1>6
  <1>8. n \in 1 .. n /\ n \notin 1 .. (n - 1)
    BY <1>5
  <1> QED
    BY <1>7, <1>8

Images == UNION {[filled -> STRING] : filled \in SUBSET (TextCols \cup Cols)}
ResultRow == [action : {"CREATED", "UPDATED", "SKIPPED_ERROR", "SKIPPED_DUPLICATE"},
              record : Records \cup {NoRecord}, image : Images]

LEMMA NothingIsAnImage == <<>> \in Images
  <1>1. <<>> \in [{} -> STRING]
    OBVIOUS
  <1>2. [{} -> STRING] \in {[filled -> STRING] : filled \in SUBSET (TextCols \cup Cols)}
    OBVIOUS
  <1> QED
    BY <1>1, <1>2 DEF Images

LEMMA ImageFields ==
    ASSUME NEW image \in Images
    PROVE  DOMAIN image \subseteq TextCols \cup Cols /\ \A c \in DOMAIN image : image[c] \in STRING
  BY DEF Images

\* What a row fills, and what is written of it.
LEMMA FilledCells ==
    ASSUME NEW row, RowOK(row)
    PROVE  /\ Writable(row) \subseteq TextCols \cup Cols
           /\ \A c \in Writable(row) : Cell(row, c) \in STRING
           /\ [c \in Writable(row) |-> Cell(row, c)] \in Images
  <1>1. Writable(row) \subseteq TextCols \cup Cols
    BY DEF RowOK, Writable
  <1>2. \A c \in Writable(row) : Cell(row, c) \in STRING
    <2>1. ASSUME NEW c \in Writable(row) PROVE Cell(row, c) \in STRING
      <3>1. CASE c \in TextCols
        BY <3>1 DEF RowOK, TextCols, Cell
      <3>2. CASE c \notin TextCols
        BY <2>1, <3>2 DEF RowOK, Writable, Cell
      <3> QED
        BY <3>1, <3>2
    <2> QED
      BY <2>1
  <1>3. [c \in Writable(row) |-> Cell(row, c)] \in [Writable(row) -> STRING]
    BY <1>2
  <1> QED
    BY <1>1, <1>2, <1>3 DEF Images

LEMMA RecordCells ==
    ASSUME NEW rec \in Identity
    PROVE  /\ \A c \in TextCols \cup Cols : Cell(rec, c) \in STRING
           /\ rec.ext \subseteq STRING
  BY DEF Identity, Cell, TextCols

\* A write of an image to one record of a table.
Table(d) == DOMAIN d \subseteq Records /\ \A r \in DOMAIN d : d[r] \in Identity

LEMMA RewrittenRecord ==
    ASSUME NEW old \in Identity, NEW w \in STRING, NEW x \in STRING, NEW y \in STRING, NEW z \in STRING,
           NEW v \in [Cols -> STRING]
    PROVE  [old EXCEPT !.cid = w, !.addr = x, !.name = y, !.city = z, !.vals = v] \in Identity
  BY DEF Identity

LEMMA WriteWrites ==
    ASSUME NEW d, Table(d), NEW r, NEW image \in Images
    PROVE  /\ Table(Write(d, r, image)) /\ DOMAIN Write(d, r, image) = DOMAIN d
           /\ \A o \in DOMAIN d : o # r => Write(d, r, image)[o] = d[o]
           /\ r \in DOMAIN d => \A c \in TextCols \cup Cols :
                Cell(Write(d, r, image)[r], c) = IF c \in DOMAIN image THEN image[c] ELSE Cell(d[r], c)
  <1>1. CASE r \notin DOMAIN d
    BY <1>1 DEF Write
  <1>2. CASE r \in DOMAIN d
    <2> DEFINE Becomes(c) == IF c \in DOMAIN image THEN image[c] ELSE Cell(d[r], c)
               rec == [d[r] EXCEPT !.cid = Becomes("cid"), !.addr = Becomes("addr"),
                                   !.name = Becomes("name"), !.city = Becomes("city"),
                                   !.vals = [c \in Cols |-> Becomes(c)]]
    <2>1. Write(d, r, image) = [d EXCEPT ![r] = rec]
      BY <1>2 DEF Write
    <2>2. \A c \in TextCols \cup Cols : Becomes(c) \in STRING
      BY <1>2, ImageFields, RecordCells DEF Table
    <2>3. PICK old : old = d[r] /\ old \in Identity
      BY <1>2 DEF Table
    <2>4. PICK w : w = Becomes("cid") /\ w \in STRING
      BY <2>2 DEF TextCols
    <2>5. PICK x : x = Becomes("addr") /\ x \in STRING
      BY <2>2 DEF TextCols
    <2>6. PICK y : y = Becomes("name") /\ y \in STRING
      BY <2>2 DEF TextCols
    <2>7. PICK z : z = Becomes("city") /\ z \in STRING
      BY <2>2 DEF TextCols
    <2>8. PICK v : v = [c \in Cols |-> Becomes(c)] /\ v \in [Cols -> STRING]
      <3>1. \A c \in Cols : Becomes(c) \in STRING
        BY <2>2
      <3> DEFINE vals == [c \in Cols |-> Becomes(c)]
      <3>2. vals \in [Cols -> STRING]
        BY <3>1, Zenon
      <3> HIDE DEF vals
      <3>3. \E v : v = vals /\ v \in [Cols -> STRING]
        BY <3>2
      <3> QED
        BY <3>3 DEF vals
    <2>9. rec = [old EXCEPT !.cid = w, !.addr = x, !.name = y, !.city = z, !.vals = v]
      BY <2>3, <2>4, <2>5, <2>6, <2>7, <2>8, Zenon
    <2>10. /\ rec.cid = w /\ rec.addr = x /\ rec.name = y /\ rec.city = z /\ rec.vals = v
           /\ rec \in Identity
      <3> HIDE DEF rec
      <3>1. rec.cid = w /\ rec.addr = x /\ rec.name = y /\ rec.city = z /\ rec.vals = v
        BY <2>3, <2>9 DEF Identity
      <3>2. rec \in Identity
        <4>1. old \in Identity /\ w \in STRING /\ x \in STRING /\ y \in STRING /\ z \in STRING /\ v \in [Cols -> STRING]
          BY <2>3, <2>4, <2>5, <2>6, <2>7, <2>8
        <4>2. PICK new : new = [old EXCEPT !.cid = w, !.addr = x, !.name = y, !.city = z, !.vals = v] /\ new \in Identity
          BY <4>1, RewrittenRecord
        <4>3. rec = new
          BY <2>9, <4>2
        <4> QED
          BY <4>2, <4>3
      <3> QED
        BY <3>1, <3>2
    <2>11. \A c \in TextCols \cup Cols : Cell(rec, c) = Becomes(c)
      <3>1. ASSUME NEW c \in TextCols \cup Cols PROVE Cell(rec, c) = Becomes(c)
        <4> HIDE DEF rec
        <4>1. CASE c \in TextCols
          <5> HIDE DEF Becomes
          <5> QED
            BY <2>4, <2>5, <2>6, <2>7, <2>10, <4>1 DEF Cell, TextCols
        <4>2. CASE c \notin TextCols
          <5>1. Cell(rec, c) = v[c]
            BY <2>10, <4>2 DEF Cell
          <5> HIDE DEF Becomes
          <5> QED
            BY <2>8, <4>2, <5>1
        <4> QED
          BY <4>1, <4>2
      <3> QED
        BY <3>1
    <2> HIDE DEF rec
    <2> QED
      BY <1>2, <2>1, <2>10, <2>11 DEF Table
  <1> QED
    BY <1>1, <1>2

\* A commit applies one row after the other.
Start == [db |-> db, results |-> <<>>, ok |-> TRUE, ids |-> UsedIds]

LEMMA ApplyIterates ==
    ASSUME NEW rows, Len(rows) \in Nat, NEW plan, NEW update
    PROVE  \E acc : /\ acc[0] = Start
                    /\ \A n \in 1 .. Len(rows) : acc[n] = ApplyNext(acc[n - 1], rows[n], plan[n], update)
                    /\ ApplyAll(rows, plan, update) = acc[Len(rows)]
  <1> DEFINE Step(v, n) == ApplyNext(v, rows[n], plan[n], update)
             Steps(g, N) == g = [n \in 0 .. N |-> IF n = 0 THEN Start ELSE Step(g[n - 1], n)]
             Good == {N \in 0 .. Len(rows) : \E g : Steps(g, N)}
  <1>1. 0 \in Good
    <2>1. Steps([n \in 0 .. 0 |-> Start], 0)
      <3> HIDE DEF Step
      <3> QED
        OBVIOUS
    <2> HIDE DEF Steps
    <2> QED
      BY <2>1
  <1>2. ASSUME NEW N \in 0 .. Len(rows), N # 0, N - 1 \in Good PROVE N \in Good
    <2>1. PICK g : Steps(g, N - 1)
      BY <1>2
    <2> DEFINE h == [n \in 0 .. N |-> IF n < N THEN g[n] ELSE Step(g[N - 1], N)]
    <2> HIDE DEF Step
    <2>2. \A n \in 0 .. N : h[n] = IF n = 0 THEN Start ELSE Step(h[n - 1], n)
      <3>1. ASSUME NEW n \in 0 .. N PROVE h[n] = IF n = 0 THEN Start ELSE Step(h[n - 1], n)
        <4>1. CASE n = 0
          BY <1>2, <2>1, <4>1
        <4>2. CASE n # 0 /\ n < N
          <5>1. h[n] = g[n] /\ h[n - 1] = g[n - 1] /\ n \in 0 .. (N - 1)
            BY <1>2, <4>2
          <5>2. g[n] = Step(g[n - 1], n)
            BY <2>1, <4>2, <5>1
          <5> QED
            BY <4>2, <5>1, <5>2
        <4>3. CASE n = N
          <5>1. h[n] = Step(g[N - 1], N) /\ h[n - 1] = g[N - 1]
            BY <1>2, <4>3
          <5> QED
            BY <1>2, <4>3, <5>1
        <4> QED
          BY <1>2, <4>1, <4>2, <4>3
      <3> QED
        BY <3>1
    <2>3. h = [n \in 0 .. N |-> h[n]]
      OBVIOUS
    <2>4. Steps(h, N)
      <3> HIDE DEF h
      <3> QED
        BY <2>2, <2>3
    <2> HIDE DEF Steps
    <2> QED
      BY <2>4
  <1>3. Len(rows) \in Good
    <2>1. \A N \in 0 .. Len(rows) : N # 0 /\ N - 1 \in Good => N \in Good
      BY <1>2
    <2> HIDE DEF Good
    <2> QED
      BY <1>1, <2>1, UpTo
  <1>4. PICK acc : acc = CHOOSE g : Steps(g, Len(rows))
    OBVIOUS
  <1>5. Steps(acc, Len(rows))
    <2> HIDE DEF Steps
    <2> QED
      BY <1>3, <1>4
  <1>6. acc[0] = Start /\ \A n \in 1 .. Len(rows) : acc[n] = Step(acc[n - 1], n)
    <2>1. \A n \in 0 .. Len(rows) : acc[n] = IF n = 0 THEN Start ELSE Step(acc[n - 1], n)
      <3> HIDE DEF Step
      <3> QED
        BY <1>5
    <2>2. 1 .. Len(rows) \subseteq 0 .. Len(rows) /\ 0 \in 0 .. Len(rows)
      OBVIOUS
    <2> HIDE DEF Step
    <2> QED
      BY <2>1, <2>2
  <1>7. ApplyAll(rows, plan, update) = acc[Len(rows)]
    BY <1>4, Zenon DEF ApplyAll, Start
  <1> QED
    BY <1>6, <1>7

\* A rollback undoes one row result after the other.
LEMMA UndoIterates ==
    ASSUME NEW d, NEW order, Len(order) \in Nat
    PROVE  \E left : /\ left[0] = d
                     /\ \A n \in 1 .. Len(order) : left[n] = UndoRow(left[n - 1], order[n])
                     /\ Undo(d, order) = left[Len(order)]
  <1> DEFINE Step(v, n) == UndoRow(v, order[n])
             Steps(g, N) == g = [n \in 0 .. N |-> IF n = 0 THEN d ELSE Step(g[n - 1], n)]
             Good == {N \in 0 .. Len(order) : \E g : Steps(g, N)}
  <1>1. 0 \in Good
    <2>1. Steps([n \in 0 .. 0 |-> d], 0)
      <3> HIDE DEF Step
      <3> QED
        OBVIOUS
    <2> HIDE DEF Steps
    <2> QED
      BY <2>1
  <1>2. ASSUME NEW N \in 0 .. Len(order), N # 0, N - 1 \in Good PROVE N \in Good
    <2>1. PICK g : Steps(g, N - 1)
      BY <1>2
    <2> DEFINE h == [n \in 0 .. N |-> IF n < N THEN g[n] ELSE Step(g[N - 1], N)]
    <2> HIDE DEF Step
    <2>2. \A n \in 0 .. N : h[n] = IF n = 0 THEN d ELSE Step(h[n - 1], n)
      <3>1. ASSUME NEW n \in 0 .. N PROVE h[n] = IF n = 0 THEN d ELSE Step(h[n - 1], n)
        <4>1. CASE n = 0
          BY <1>2, <2>1, <4>1
        <4>2. CASE n # 0 /\ n < N
          <5>1. h[n] = g[n] /\ h[n - 1] = g[n - 1] /\ n \in 0 .. (N - 1)
            BY <1>2, <4>2
          <5>2. g[n] = Step(g[n - 1], n)
            BY <2>1, <4>2, <5>1
          <5> QED
            BY <4>2, <5>1, <5>2
        <4>3. CASE n = N
          <5>1. h[n] = Step(g[N - 1], N) /\ h[n - 1] = g[N - 1]
            BY <1>2, <4>3
          <5> QED
            BY <1>2, <4>3, <5>1
        <4> QED
          BY <1>2, <4>1, <4>2, <4>3
      <3> QED
        BY <3>1
    <2>3. h = [n \in 0 .. N |-> h[n]]
      OBVIOUS
    <2>4. Steps(h, N)
      <3> HIDE DEF h
      <3> QED
        BY <2>2, <2>3
    <2> HIDE DEF Steps
    <2> QED
      BY <2>4
  <1>3. Len(order) \in Good
    <2>1. \A N \in 0 .. Len(order) : N # 0 /\ N - 1 \in Good => N \in Good
      BY <1>2
    <2> HIDE DEF Good
    <2> QED
      BY <1>1, <2>1, UpTo
  <1>4. PICK left : left = CHOOSE g : Steps(g, Len(order))
    OBVIOUS
  <1>5. Steps(left, Len(order))
    <2> HIDE DEF Steps
    <2> QED
      BY <1>3, <1>4
  <1>6. left[0] = d /\ \A n \in 1 .. Len(order) : left[n] = Step(left[n - 1], n)
    <2>1. \A n \in 0 .. Len(order) : left[n] = IF n = 0 THEN d ELSE Step(left[n - 1], n)
      <3> HIDE DEF Step
      <3> QED
        BY <1>5
    <2>2. 1 .. Len(order) \subseteq 0 .. Len(order) /\ 0 \in 0 .. Len(order)
      OBVIOUS
    <2> HIDE DEF Step
    <2> QED
      BY <2>1, <2>2
  <1>7. Undo(d, order) = left[Len(order)]
    BY <1>4, Zenon DEF Undo
  <1> QED
    BY <1>6, <1>7

\* What n rows of a commit have made of the table it found.
Created(r) == Result("CREATED", r, <<>>)
Updates(res, r) == res.action = "UPDATED" /\ res.record = r
FirstUpdate(s, k, r) == Updates(s[k], r) /\ \A l \in 1 .. (k - 1) : ~Updates(s[l], r)

AppliedRows(acc, rows, plan, n) ==
    /\ acc.results \in Seq(ResultRow) /\ Len(acc.results) = n
    /\ UsedIds \subseteq acc.ids /\ acc.ids \subseteq Records
    /\ Cardinality(acc.ids) <= Cardinality(UsedIds) + n
    /\ Table(acc.db) /\ DOMAIN acc.db \subseteq acc.ids /\ DOMAIN db \subseteq DOMAIN acc.db
    /\ \A r \in DOMAIN acc.db \ DOMAIN db : \E k \in 1 .. n : acc.results[k] = Created(r)
    /\ \A k \in 1 .. n : acc.results[k].action = "CREATED" =>
          /\ acc.results[k] = Created(acc.results[k].record)
          /\ acc.results[k].record \in DOMAIN acc.db \ UsedIds
          /\ plan[k].verdict = "NEW"
    /\ \A r \in DOMAIN db : (\A k \in 1 .. n : ~Updates(acc.results[k], r)) => acc.db[r] = db[r]
    /\ \A r \in DOMAIN db, k \in 1 .. n : FirstUpdate(acc.results, k, r) =>
          acc.results[k].image = [c \in Writable(rows[k]) |-> Cell(db[r], c)]
    /\ (\A k \in 1 .. n : acc.results[k].action # "UPDATED") =>
          \A k \in 1 .. n, r \in Records : acc.results[k] = Created(r) => acc.db[r] = NewRecord(rows[k])

ApplyInv(acc, rows, plan, n) ==
    /\ DOMAIN acc = {"db", "results", "ok", "ids"} /\ acc.ok \in BOOLEAN
    /\ acc.ok => AppliedRows(acc, rows, plan, n)

\* A plan as a commit has made it.
Planned == [verdict : {"ERROR", "DUPLICATE", "NEEDS_REVIEW", "NEW"}, match : Records \cup {NoRecord}]
FileOK(rows) == Len(rows) \in Nat /\ DOMAIN rows = 1 .. Len(rows) /\ \A i \in DOMAIN rows : RowOK(rows[i])

LEMMA NewRecordIsRecord ==
    ASSUME NEW row, RowOK(row) PROVE NewRecord(row) \in Identity
  <1>1. [c \in Cols |-> IF c \in DOMAIN row.vals THEN row.vals[c] ELSE Null] \in [Cols -> STRING]
    BY ImportAssumption DEF RowOK
  <1> QED
    BY <1>1 DEF NewRecord, Identity, RowOK

LEMMA ResultFields ==
    ASSUME NEW action, NEW r, NEW image
    PROVE  /\ Result(action, r, image).action = action /\ Result(action, r, image).record = r
           /\ Result(action, r, image).image = image
  BY DEF Result

\* A row result is appended after the ones there are.
LEMMA OneMoreResult ==
    ASSUME NEW s \in Seq(ResultRow), NEW res \in ResultRow
    PROVE  /\ Append(s, res) \in Seq(ResultRow) /\ Len(Append(s, res)) = Len(s) + 1
           /\ Append(s, res)[Len(s) + 1] = res /\ \A k \in 1 .. Len(s) : Append(s, res)[k] = s[k]
           /\ Len(s) \in Nat
  OBVIOUS

\* A row that is skipped.
LEMMA SkipRowKeeps ==
    ASSUME NEW rows, NEW plan, NEW n \in Nat, NEW acc, ApplyInv(acc, rows, plan, n), acc.ok,
           NEW action \in {"SKIPPED_ERROR", "SKIPPED_DUPLICATE"}, NEW r \in Records \cup {NoRecord}, NEW next,
           next.db = acc.db, next.ids = acc.ids, next.results = Append(acc.results, Result(action, r, <<>>))
    PROVE  AppliedRows(next, rows, plan, n + 1)
  <1> DEFINE res == Result(action, r, <<>>)
             s == acc.results
  <1>1. AppliedRows(acc, rows, plan, n)
    BY DEF ApplyInv
  <1>2. res \in ResultRow /\ res.action = action /\ \A o : res # Created(o)
    <2>1. res \in ResultRow
      BY NothingIsAnImage DEF ResultRow, Result
    <2>2. res.action = action /\ \A o : Created(o).action = "CREATED"
      BY DEF Result, Created
    <2> QED
      BY <2>1, <2>2
  <1>3. /\ next.results \in Seq(ResultRow) /\ Len(next.results) = n + 1
        /\ next.results[n + 1] = res /\ \A k \in 1 .. n : next.results[k] = s[k]
    <2> HIDE DEF res
    <2> QED
      BY <1>1, <1>2, OneMoreResult DEF AppliedRows, res
  <1>4. \A k \in 1 .. (n + 1) : k \in 1 .. n \/ k = n + 1
    OBVIOUS
  <1>5. /\ \A o : ~Updates(next.results[n + 1], o)
        /\ next.results[n + 1].action # "CREATED" /\ next.results[n + 1].action # "UPDATED"
    BY <1>2, <1>3 DEF Updates
  <1> HIDE DEF res
  <1>6. Cardinality(next.ids) <= Cardinality(UsedIds) + (n + 1)
    <2>1. IsFiniteSet(acc.ids) /\ IsFiniteSet(UsedIds)
      BY <1>1, ImportAssumption, FS_Subset DEF AppliedRows
    <2>2. Cardinality(acc.ids) \in Nat /\ Cardinality(UsedIds) \in Nat
      BY <2>1, FS_CardinalityType
    <2> QED
      BY <1>1, <2>2 DEF AppliedRows
  <1>7. \A o \in DOMAIN next.db \ DOMAIN db : \E k \in 1 .. (n + 1) : next.results[k] = Created(o)
    BY <1>1, <1>3 DEF AppliedRows
  <1>8. \A k \in 1 .. (n + 1) : next.results[k].action = "CREATED" =>
          /\ next.results[k] = Created(next.results[k].record)
          /\ next.results[k].record \in DOMAIN next.db \ UsedIds
          /\ plan[k].verdict = "NEW"
    BY <1>1, <1>3, <1>4, <1>5 DEF AppliedRows
  <1>9. \A o \in DOMAIN db : (\A k \in 1 .. (n + 1) : ~Updates(next.results[k], o)) => next.db[o] = db[o]
    <2>1. ASSUME NEW o \in DOMAIN db, \A k \in 1 .. (n + 1) : ~Updates(next.results[k], o)
          PROVE  next.db[o] = db[o]
      <3>1. \A k \in 1 .. n : ~Updates(s[k], o)
        <4>1. \A k \in 1 .. n : k \in 1 .. (n + 1) /\ next.results[k] = s[k]
          BY <1>3
        <4> QED
          BY <2>1, <4>1
      <3> QED
        BY <1>1, <3>1 DEF AppliedRows
    <2> QED
      BY <2>1
  <1>10. \A o \in DOMAIN db, k \in 1 .. (n + 1) : FirstUpdate(next.results, k, o) =>
          next.results[k].image = [c \in Writable(rows[k]) |-> Cell(db[o], c)]
    <2>1. ASSUME NEW o \in DOMAIN db, NEW k \in 1 .. (n + 1), FirstUpdate(next.results, k, o)
          PROVE  k \in 1 .. n /\ FirstUpdate(s, k, o) /\ next.results[k] = s[k]
      <3>1. k \in 1 .. n
        BY <1>4, <1>5, <2>1 DEF FirstUpdate
      <3>2. \A l \in 1 .. (k - 1) : l \in 1 .. n
        BY <3>1
      <3> QED
        BY <1>3, <2>1, <3>1, <3>2 DEF FirstUpdate
    <2> QED
      BY <1>1, <2>1 DEF AppliedRows
  <1>11. (\A k \in 1 .. (n + 1) : next.results[k].action # "UPDATED") =>
          \A k \in 1 .. (n + 1), o \in Records : next.results[k] = Created(o) => next.db[o] = NewRecord(rows[k])
    BY <1>1, <1>2, <1>3, <1>4 DEF AppliedRows
  <1>12. /\ UsedIds \subseteq next.ids /\ next.ids \subseteq Records
         /\ Table(next.db) /\ DOMAIN next.db \subseteq next.ids /\ DOMAIN db \subseteq DOMAIN next.db
    BY <1>1 DEF AppliedRows
  <1> QED
    BY <1>3, <1>6, <1>7, <1>8, <1>9, <1>10, <1>11, <1>12 DEF AppliedRows

\* A row that updates the record it matches.
LEMMA UpdateRowKeeps ==
    ASSUME NEW rows, NEW plan, NEW n \in Nat, NEW acc, ApplyInv(acc, rows, plan, n), acc.ok,
           RowOK(rows[n + 1]), NEW r \in Records, NEW next, next.ids = acc.ids,
           next.db = Write(acc.db, r, [c \in Writable(rows[n + 1]) |-> Cell(rows[n + 1], c)]),
           next.results = Append(acc.results, Result("UPDATED", r, BeforeImage(acc.db, r, rows[n + 1])))
    PROVE  AppliedRows(next, rows, plan, n + 1)
  <1> DEFINE row == rows[n + 1]
             cells == [c \in Writable(row) |-> Cell(row, c)]
             image == BeforeImage(acc.db, r, row)
             res == Result("UPDATED", r, image)
             s == acc.results
  <1>1. AppliedRows(acc, rows, plan, n)
    BY DEF ApplyInv
  <1>2. image \in Images
    <2>1. CASE r \notin DOMAIN acc.db
      BY <2>1, NothingIsAnImage DEF BeforeImage
    <2>2. CASE r \in DOMAIN acc.db
      <3>1. image = [c \in Writable(row) |-> Cell(acc.db[r], c)]
        BY <2>2 DEF BeforeImage
      <3>2. Writable(row) \subseteq TextCols \cup Cols
        BY FilledCells
      <3>3. acc.db[r] \in Identity
        BY <1>1, <2>2 DEF AppliedRows, Table
      <3>4. \A c \in Writable(row) : Cell(acc.db[r], c) \in STRING
        BY <3>2, <3>3, RecordCells
      <3>5. image \in [Writable(row) -> STRING]
        BY <3>1, <3>4
      <3> HIDE DEF image
      <3> QED
        BY <3>2, <3>5 DEF Images
    <2> QED
      BY <2>1, <2>2
  <1>3. res \in ResultRow /\ res.action = "UPDATED" /\ res.record = r /\ res.image = image /\ \A o : res # Created(o)
    <2> HIDE DEF image
    <2>1. res \in ResultRow
      BY <1>2 DEF ResultRow, Result
    <2>2. /\ res.action = "UPDATED" /\ res.record = r /\ res.image = image
          /\ \A o : Created(o).action = "CREATED"
      BY DEF Result, Created
    <2> QED
      BY <2>1, <2>2
  <1>4. /\ next.results \in Seq(ResultRow) /\ Len(next.results) = n + 1
        /\ next.results[n + 1] = res /\ \A k \in 1 .. n : next.results[k] = s[k]
    <2> HIDE DEF res
    <2> QED
      BY <1>1, <1>3, OneMoreResult DEF AppliedRows, res, image, row
  <1>5. \A k \in 1 .. (n + 1) : k \in 1 .. n \/ k = n + 1
    OBVIOUS
  <1>6. \A k \in 1 .. n : k \in 1 .. (n + 1) /\ next.results[k] = s[k]
    BY <1>4
  <1>7. /\ Table(next.db) /\ DOMAIN next.db = DOMAIN acc.db
        /\ \A o \in DOMAIN acc.db : o # r => next.db[o] = acc.db[o]
    <2>1. next.db = Write(acc.db, r, cells) /\ cells \in Images
      BY FilledCells
    <2>2. Table(acc.db)
      BY <1>1 DEF AppliedRows
    <2> HIDE DEF cells
    <2> QED
      BY <2>1, <2>2, WriteWrites
  <1> HIDE DEF res, image
  <1>8. Cardinality(next.ids) <= Cardinality(UsedIds) + (n + 1)
    <2>1. IsFiniteSet(acc.ids) /\ IsFiniteSet(UsedIds)
      BY <1>1, ImportAssumption, FS_Subset DEF AppliedRows
    <2>2. Cardinality(acc.ids) \in Nat /\ Cardinality(UsedIds) \in Nat
      BY <2>1, FS_CardinalityType
    <2> QED
      BY <1>1, <2>2 DEF AppliedRows
  <1>9. \A o \in DOMAIN next.db \ DOMAIN db : \E k \in 1 .. (n + 1) : next.results[k] = Created(o)
    BY <1>1, <1>6, <1>7 DEF AppliedRows
  <1>10. \A k \in 1 .. (n + 1) : next.results[k].action = "CREATED" =>
          /\ next.results[k] = Created(next.results[k].record)
          /\ next.results[k].record \in DOMAIN next.db \ UsedIds
          /\ plan[k].verdict = "NEW"
    BY <1>1, <1>3, <1>4, <1>5, <1>7 DEF AppliedRows
  <1>11. \A o \in DOMAIN db : (\A k \in 1 .. (n + 1) : ~Updates(next.results[k], o)) => next.db[o] = db[o]
    <2>1. ASSUME NEW o \in DOMAIN db, \A k \in 1 .. (n + 1) : ~Updates(next.results[k], o)
          PROVE  next.db[o] = db[o]
      <3>1. \A k \in 1 .. n : ~Updates(s[k], o)
        BY <1>6, <2>1
      <3>2. o # r
        <4>1. n + 1 \in 1 .. (n + 1)
          OBVIOUS
        <4> QED
          BY <1>3, <1>4, <2>1, <4>1 DEF Updates
      <3>3. acc.db[o] = db[o] /\ o \in DOMAIN acc.db
        BY <1>1, <3>1 DEF AppliedRows
      <3> QED
        BY <1>7, <3>2, <3>3
    <2> QED
      BY <2>1
  <1>12. \A o \in DOMAIN db, k \in 1 .. (n + 1) : FirstUpdate(next.results, k, o) =>
          next.results[k].image = [c \in Writable(rows[k]) |-> Cell(db[o], c)]
    <2>1. ASSUME NEW o \in DOMAIN db, NEW k \in 1 .. n, FirstUpdate(next.results, k, o)
          PROVE  next.results[k].image = [c \in Writable(rows[k]) |-> Cell(db[o], c)]
      <3>1. \A l \in 1 .. (k - 1) : l \in 1 .. n
        OBVIOUS
      <3>2. FirstUpdate(s, k, o) /\ next.results[k] = s[k]
        BY <1>4, <2>1, <3>1 DEF FirstUpdate
      <3> QED
        BY <1>1, <3>2 DEF AppliedRows
    <2>2. ASSUME NEW o \in DOMAIN db, FirstUpdate(next.results, n + 1, o)
          PROVE  next.results[n + 1].image = [c \in Writable(rows[n + 1]) |-> Cell(db[o], c)]
      <3>1. o = r
        BY <1>3, <1>4, <2>2 DEF FirstUpdate, Updates
      <3>2. \A k \in 1 .. n : ~Updates(s[k], o)
        <4>1. \A k \in 1 .. n : k \in 1 .. ((n + 1) - 1)
          OBVIOUS
        <4> QED
          BY <1>4, <2>2, <4>1 DEF FirstUpdate
      <3>3. acc.db[o] = db[o] /\ o \in DOMAIN acc.db
        BY <1>1, <3>2 DEF AppliedRows
      <3>4. image = [c \in Writable(row) |-> Cell(db[o], c)]
        BY <3>1, <3>3 DEF image, BeforeImage
      <3> QED
        BY <1>3, <1>4, <3>4
    <2> QED
      BY <1>5, <2>1, <2>2
  <1>13. ~ \A k \in 1 .. (n + 1) : next.results[k].action # "UPDATED"
    <2>1. n + 1 \in 1 .. (n + 1)
      OBVIOUS
    <2> QED
      BY <1>3, <1>4, <2>1
  <1>14. /\ UsedIds \subseteq next.ids /\ next.ids \subseteq Records
         /\ DOMAIN next.db \subseteq next.ids /\ DOMAIN db \subseteq DOMAIN next.db
    BY <1>1, <1>7 DEF AppliedRows
  <1> QED
    BY <1>4, <1>7, <1>8, <1>9, <1>10, <1>11, <1>12, <1>13, <1>14 DEF AppliedRows

\* A row that makes a new record.
LEMMA CreateRowKeeps ==
    ASSUME NEW rows, NEW plan, NEW n \in Nat, NEW acc, ApplyInv(acc, rows, plan, n), acc.ok,
           RowOK(rows[n + 1]), plan[n + 1].verdict = "NEW",
           NEW new \in Records, new \notin acc.ids, NEW next, next.ids = acc.ids \cup {new},
           DOMAIN next.db = DOMAIN acc.db \cup {new}, next.db[new] = NewRecord(rows[n + 1]),
           \A r \in DOMAIN acc.db : r # new => next.db[r] = acc.db[r],
           next.results = Append(acc.results, Created(new))
    PROVE  AppliedRows(next, rows, plan, n + 1)
  <1> DEFINE row == rows[n + 1]
             s == acc.results
  <1>1. AppliedRows(acc, rows, plan, n)
    BY DEF ApplyInv
  <1>2. /\ Created(new) \in ResultRow
        /\ \A o : Created(o).action = "CREATED" /\ Created(o).record = o
    <2>1. Created(new) \in ResultRow
      BY NothingIsAnImage DEF ResultRow, Created, Result
    <2> QED
      BY <2>1 DEF Created, Result
  <1>3. /\ next.results \in Seq(ResultRow) /\ Len(next.results) = n + 1
        /\ next.results[n + 1] = Created(new) /\ \A k \in 1 .. n : next.results[k] = s[k]
    BY <1>1, <1>2, OneMoreResult DEF AppliedRows
  <1>4. \A k \in 1 .. (n + 1) : k \in 1 .. n \/ k = n + 1
    OBVIOUS
  <1>5. \A k \in 1 .. n : k \in 1 .. (n + 1) /\ next.results[k] = s[k]
    BY <1>3
  <1>6. /\ DOMAIN next.db = DOMAIN acc.db \cup {new} /\ next.db[new] = NewRecord(row)
        /\ new \notin DOMAIN acc.db /\ \A o \in DOMAIN acc.db : next.db[o] = acc.db[o]
    <2>1. new \notin DOMAIN acc.db
      BY <1>1 DEF AppliedRows
    <2> QED
      BY <2>1
  <1>7. Table(next.db)
    BY <1>1, <1>6, NewRecordIsRecord DEF AppliedRows, Table
  <1>8. Cardinality(next.ids) <= Cardinality(UsedIds) + (n + 1)
    <2>1. IsFiniteSet(acc.ids) /\ IsFiniteSet(UsedIds)
      BY <1>1, ImportAssumption, FS_Subset DEF AppliedRows
    <2>2. Cardinality(acc.ids) \in Nat /\ Cardinality(UsedIds) \in Nat
      BY <2>1, FS_CardinalityType
    <2>3. Cardinality(next.ids) = Cardinality(acc.ids) + 1
      BY <2>1, FS_AddElement
    <2> QED
      BY <1>1, <2>2, <2>3 DEF AppliedRows
  <1>9. \A o \in DOMAIN next.db \ DOMAIN db : \E k \in 1 .. (n + 1) : next.results[k] = Created(o)
    <2>1. ASSUME NEW o \in DOMAIN acc.db \ DOMAIN db PROVE \E k \in 1 .. (n + 1) : next.results[k] = Created(o)
      BY <1>1, <1>5, <2>1 DEF AppliedRows
    <2>2. n + 1 \in 1 .. (n + 1)
      OBVIOUS
    <2> QED
      BY <1>3, <1>6, <2>1, <2>2
  <1>10. \A k \in 1 .. (n + 1) : next.results[k].action = "CREATED" =>
          /\ next.results[k] = Created(next.results[k].record)
          /\ next.results[k].record \in DOMAIN next.db \ UsedIds
          /\ plan[k].verdict = "NEW"
    <2>1. ASSUME NEW k \in 1 .. n, next.results[k].action = "CREATED"
          PROVE  /\ next.results[k] = Created(next.results[k].record)
                 /\ next.results[k].record \in DOMAIN next.db \ UsedIds
                 /\ plan[k].verdict = "NEW"
      BY <1>1, <1>3, <1>6, <2>1 DEF AppliedRows
    <2>2. new \notin UsedIds
      BY <1>1 DEF AppliedRows
    <2> QED
      BY <1>2, <1>3, <1>4, <2>1, <2>2
  <1>11. \A o \in DOMAIN db : (\A k \in 1 .. (n + 1) : ~Updates(next.results[k], o)) => next.db[o] = db[o]
    <2>1. ASSUME NEW o \in DOMAIN db, \A k \in 1 .. (n + 1) : ~Updates(next.results[k], o)
          PROVE  next.db[o] = db[o]
      <3>1. \A k \in 1 .. n : ~Updates(s[k], o)
        BY <1>5, <2>1
      <3>2. acc.db[o] = db[o] /\ o \in DOMAIN acc.db
        BY <1>1, <3>1 DEF AppliedRows
      <3> QED
        BY <1>6, <3>2
    <2> QED
      BY <2>1
  <1>12. \A o \in DOMAIN db, k \in 1 .. (n + 1) : FirstUpdate(next.results, k, o) =>
          next.results[k].image = [c \in Writable(rows[k]) |-> Cell(db[o], c)]
    <2>1. ASSUME NEW o \in DOMAIN db, NEW k \in 1 .. n, FirstUpdate(next.results, k, o)
          PROVE  next.results[k].image = [c \in Writable(rows[k]) |-> Cell(db[o], c)]
      <3>1. \A l \in 1 .. (k - 1) : l \in 1 .. n
        OBVIOUS
      <3>2. FirstUpdate(s, k, o) /\ next.results[k] = s[k]
        BY <1>3, <2>1, <3>1 DEF FirstUpdate
      <3> QED
        BY <1>1, <3>2 DEF AppliedRows
    <2>2. \A o : ~FirstUpdate(next.results, n + 1, o)
      BY <1>2, <1>3 DEF FirstUpdate, Updates
    <2> QED
      BY <1>4, <2>1, <2>2
  <1>13. (\A k \in 1 .. (n + 1) : next.results[k].action # "UPDATED") =>
          \A k \in 1 .. (n + 1), o \in Records : next.results[k] = Created(o) => next.db[o] = NewRecord(rows[k])
    <2>1. ASSUME \A k \in 1 .. (n + 1) : next.results[k].action # "UPDATED",
                 NEW k \in 1 .. n, NEW o \in Records, next.results[k] = Created(o)
          PROVE  next.db[o] = NewRecord(rows[k])
      <3>1. \A l \in 1 .. n : s[l].action # "UPDATED"
        BY <1>5, <2>1
      <3>2. s[k] = Created(o)
        BY <1>5, <2>1
      <3>3. acc.db[o] = NewRecord(rows[k])
        BY <1>1, <3>1, <3>2 DEF AppliedRows
      <3>4. o \in DOMAIN acc.db
        BY <1>1, <1>2, <3>2 DEF AppliedRows
      <3>5. next.db[o] = acc.db[o]
        BY <1>6, <3>4
      <3> QED
        BY <3>3, <3>5
    <2>2. ASSUME NEW o \in Records, next.results[n + 1] = Created(o) PROVE next.db[o] = NewRecord(rows[n + 1])
      <3>1. o = new
        <4>1. Created(new) = Created(o)
          BY <1>3, <2>2
        <4>2. Created(new).record = new /\ Created(o).record = o
          BY <1>2
        <4> QED
          BY <4>1, <4>2
      <3> QED
        BY <1>6, <3>1
    <2> QED
      BY <1>4, <2>1, <2>2
  <1>14. /\ UsedIds \subseteq next.ids /\ next.ids \subseteq Records
         /\ DOMAIN next.db \subseteq next.ids /\ DOMAIN db \subseteq DOMAIN next.db
    BY <1>1, <1>6 DEF AppliedRows
  <1> QED
    BY <1>3, <1>7, <1>8, <1>9, <1>10, <1>11, <1>12, <1>13, <1>14 DEF AppliedRows

LEMMA FreshRecord ==
    ASSUME NEW rows, NEW plan, NEW n \in Nat, NEW acc, AppliedRows(acc, rows, plan, n),
           NEW N \in Nat, n < N, Cardinality(Records \ UsedIds) >= N
    PROVE  (CHOOSE r \in FreshIn(acc) : TRUE) \in Records /\ (CHOOSE r \in FreshIn(acc) : TRUE) \notin acc.ids
  <1>1. acc.ids \subseteq Records /\ UsedIds \subseteq Records /\ Cardinality(acc.ids) <= Cardinality(UsedIds) + n
    BY DEF AppliedRows
  <1>2. IsFiniteSet(Records) /\ IsFiniteSet(acc.ids) /\ IsFiniteSet(UsedIds)
    BY <1>1, ImportAssumption, FS_Subset
  <1>3. Cardinality(Records) \in Nat /\ Cardinality(acc.ids) \in Nat /\ Cardinality(UsedIds) \in Nat
    BY <1>2, FS_CardinalityType
  <1>4. Cardinality(Records \ UsedIds) = Cardinality(Records) - Cardinality(UsedIds)
    <2>1. Records \cap UsedIds = UsedIds
      BY <1>1
    <2>2. Cardinality(Records \ UsedIds) = Cardinality(Records) - Cardinality(Records \cap UsedIds)
      BY <1>2, FS_Difference
    <2> QED
      BY <2>1, <2>2
  <1>5. acc.ids # Records
    BY <1>1, <1>3, <1>4
  <1>6. FreshIn(acc) # {}
    BY <1>1, <1>5 DEF FreshIn
  <1>7. PICK new : new = CHOOSE r \in FreshIn(acc) : TRUE
    OBVIOUS
  <1>8. new \in FreshIn(acc)
    BY <1>6, <1>7
  <1> QED
    BY <1>7, <1>8 DEF FreshIn

LEMMA ApplyNextKeeps ==
    ASSUME NEW rows, FileOK(rows), NEW plan, \A i \in DOMAIN rows : plan[i] \in Planned, NEW update \in BOOLEAN,
           Cardinality(Records \ UsedIds) >= Len(rows), NEW n \in Nat, n + 1 \in DOMAIN rows,
           NEW acc, ApplyInv(acc, rows, plan, n)
    PROVE  ApplyInv(ApplyNext(acc, rows[n + 1], plan[n + 1], update), rows, plan, n + 1)
  <1>1. PICK row, p, then : row = rows[n + 1] /\ p = plan[n + 1] /\ then = ApplyNext(acc, row, p, update)
    OBVIOUS
  <1>2. CASE ~acc.ok
    <2>1. then = acc
      BY <1>1, <1>2 DEF ApplyNext
    <2> QED
      BY <1>1, <1>2, <2>1 DEF ApplyInv
  <1>3. CASE acc.ok
    <2> DEFINE next == ApplyRow(acc, row, p, update)
               duplicate == p.verdict \in {"DUPLICATE", "NEEDS_REVIEW"}
               fields == {"db", "results", "ok", "ids"}
               Fits(to) == DOMAIN to = fields /\ to.ok \in BOOLEAN /\ (to.ok => AppliedRows(to, rows, plan, n + 1))
    <2>1. then = [next EXCEPT !.ok = @ /\ Unique(next.db)]
      BY <1>1, <1>3 DEF ApplyNext
    <2>2. DOMAIN acc = fields /\ AppliedRows(acc, rows, plan, n)
      BY <1>3 DEF ApplyInv
    <2>3. RowOK(row) /\ p \in Planned
      BY <1>1 DEF FileOK
    <2>4. SUFFICES Fits(next)
      <3>1. PICK to : to = next
        OBVIOUS
      <3> HIDE DEF next
      <3>2. SUFFICES ASSUME Fits(to) PROVE ApplyInv(then, rows, plan, n + 1)
        BY <1>1, <3>1
      <3>3. PICK fine : fine = (to.ok /\ Unique(to.db)) /\ fine \in BOOLEAN
        BY <3>2
      <3>4. then = [to EXCEPT !.ok = fine]
        BY <2>1, <3>1, <3>3
      <3>5. /\ DOMAIN then = fields /\ then.ok = fine /\ then.db = to.db
            /\ then.results = to.results /\ then.ids = to.ids
        BY <3>2, <3>4
      <3>6. fine => AppliedRows(then, rows, plan, n + 1)
        BY <3>2, <3>3, <3>5 DEF AppliedRows
      <3> QED
        BY <3>3, <3>5, <3>6 DEF ApplyInv
    <2>5. ASSUME NEW action \in {"SKIPPED_ERROR", "SKIPPED_DUPLICATE"},
                 next = [acc EXCEPT !.results = Append(@, Result(action, p.match, <<>>))]
          PROVE  Fits(next)
      <3>1. PICK to : to = next
        OBVIOUS
      <3>2. PICK more : more = Append(acc.results, Result(action, p.match, <<>>))
        OBVIOUS
      <3> HIDE DEF next
      <3>3. to = [acc EXCEPT !.results = more]
        BY <2>5, <3>1, <3>2
      <3>4. /\ DOMAIN to = fields /\ to.ok = acc.ok /\ to.db = acc.db /\ to.results = more /\ to.ids = acc.ids
        BY <2>2, <3>3
      <3>5. p.match \in Records \cup {NoRecord}
        BY <2>3 DEF Planned
      <3>6. AppliedRows(to, rows, plan, n + 1)
        BY <1>3, <3>2, <3>4, <3>5, SkipRowKeeps
      <3> QED
        BY <1>3, <3>1, <3>4, <3>6
    <2>6. CASE p.verdict = "ERROR"
      <3>1. next = [acc EXCEPT !.results = Append(@, Result("SKIPPED_ERROR", p.match, <<>>))]
        BY <2>6, Zenon DEF ApplyRow
      <3> QED
        BY <2>5, <3>1
    <2>7. CASE p.verdict # "ERROR" /\ duplicate /\ (~update \/ p.match = NoRecord)
      <3>1. next = [acc EXCEPT !.results = Append(@, Result("SKIPPED_DUPLICATE", p.match, <<>>))]
        BY <2>7, Zenon DEF ApplyRow
      <3> QED
        BY <2>5, <3>1
    <2>8. CASE p.verdict # "ERROR" /\ duplicate /\ ~(~update \/ p.match = NoRecord)
      <3>1. next = [acc EXCEPT !.db = Write(@, p.match, [c \in Writable(row) |-> Cell(row, c)]),
                               !.results = Append(@, Result("UPDATED", p.match, BeforeImage(acc.db, p.match, row)))]
        BY <2>8, Zenon DEF ApplyRow
      <3>2. PICK to : to = next
        OBVIOUS
      <3>3. PICK more : more = Append(acc.results, Result("UPDATED", p.match, BeforeImage(acc.db, p.match, row)))
        OBVIOUS
      <3>4. PICK table : table = Write(acc.db, p.match, [c \in Writable(row) |-> Cell(row, c)])
        OBVIOUS
      <3> HIDE DEF next
      <3>5. to = [acc EXCEPT !.db = table, !.results = more]
        BY <3>1, <3>2, <3>3, <3>4
      <3>6. /\ DOMAIN to = fields /\ to.ok = acc.ok /\ to.db = table /\ to.results = more /\ to.ids = acc.ids
        BY <2>2, <3>5
      <3>7. p.match \in Records
        BY <2>3, <2>8 DEF Planned
      <3>8. AppliedRows(to, rows, plan, n + 1)
        BY <1>1, <1>3, <2>3, <3>3, <3>4, <3>6, <3>7, UpdateRowKeeps
      <3> QED
        BY <1>3, <3>2, <3>6, <3>8
    <2>9. CASE p.verdict # "ERROR" /\ ~duplicate /\ ~row.resolves
      <3>1. next = [acc EXCEPT !.ok = FALSE]
        BY <2>9, Zenon DEF ApplyRow
      <3>2. PICK to : to = next
        OBVIOUS
      <3> HIDE DEF next
      <3>3. DOMAIN to = fields /\ to.ok = FALSE
        BY <2>2, <3>1, <3>2
      <3> QED
        BY <3>2, <3>3
    <2>10. CASE p.verdict # "ERROR" /\ ~duplicate /\ row.resolves
      <3> DEFINE new == CHOOSE r \in FreshIn(acc) : TRUE
      <3>1. next = [acc EXCEPT !.db = [r \in DOMAIN @ \cup {new} |-> IF r = new THEN NewRecord(row) ELSE @[r]],
                               !.ids = @ \cup {new}, !.results = Append(@, Result("CREATED", new, <<>>))]
        BY <2>10, Zenon DEF ApplyRow
      <3>2. new \in Records /\ new \notin acc.ids
        <4>1. Len(rows) \in Nat /\ n < Len(rows)
          BY DEF FileOK
        <4> QED
          BY <2>2, <4>1, FreshRecord
      <3>3. PICK to : to = next
        OBVIOUS
      <3>4. PICK more : more = Append(acc.results, Created(new))
        OBVIOUS
      <3>5. PICK table : table = [r \in DOMAIN acc.db \cup {new} |-> IF r = new THEN NewRecord(row) ELSE acc.db[r]]
        OBVIOUS
      <3> HIDE DEF next, new
      <3>6. to = [acc EXCEPT !.db = table, !.ids = acc.ids \cup {new}, !.results = more]
        BY <3>1, <3>3, <3>4, <3>5, Zenon DEF Created
      <3>7. /\ DOMAIN to = fields /\ to.ok = acc.ok /\ to.db = table /\ to.results = more
            /\ to.ids = acc.ids \cup {new}
        BY <2>2, <3>6
      <3>8. p.verdict = "NEW"
        BY <2>3, <2>10 DEF Planned
      <3>9. AppliedRows(to, rows, plan, n + 1)
        <4>1. /\ DOMAIN table = DOMAIN acc.db \cup {new} /\ table[new] = NewRecord(row)
              /\ \A r \in DOMAIN acc.db : r # new => table[r] = acc.db[r]
          BY <3>5
        <4>2. RowOK(rows[n + 1]) /\ plan[n + 1].verdict = "NEW"
          BY <1>1, <2>3, <3>8
        <4>3. /\ DOMAIN to.db = DOMAIN acc.db \cup {new} /\ to.db[new] = NewRecord(rows[n + 1])
              /\ \A r \in DOMAIN acc.db : r # new => to.db[r] = acc.db[r]
          BY <1>1, <3>7, <4>1
        <4>4. to.ids = acc.ids \cup {new} /\ to.results = Append(acc.results, Created(new))
          BY <3>4, <3>7
        <4> QED
          BY <1>3, <3>2, <4>2, <4>3, <4>4, CreateRowKeeps
      <3> QED
        BY <1>3, <3>3, <3>7, <3>9
    <2> QED
      BY <2>6, <2>7, <2>8, <2>9, <2>10
  <1> QED
    BY <1>2, <1>3

LEMMA ApplyAllApplies ==
    ASSUME NEW rows, FileOK(rows), NEW plan, \A i \in DOMAIN rows : plan[i] \in Planned, NEW update \in BOOLEAN,
           Cardinality(Records \ UsedIds) >= Len(rows), Table(db), DOMAIN db \subseteq UsedIds,
           ApplyAll(rows, plan, update).ok
    PROVE  AppliedRows(ApplyAll(rows, plan, update), rows, plan, Len(rows))
  <1>1. Len(rows) \in Nat
    BY DEF FileOK
  <1>2. PICK acc : /\ acc[0] = Start
                   /\ \A n \in 1 .. Len(rows) : acc[n] = ApplyNext(acc[n - 1], rows[n], plan[n], update)
                   /\ ApplyAll(rows, plan, update) = acc[Len(rows)]
    BY <1>1, ApplyIterates
  <1> DEFINE Good == {n \in 0 .. Len(rows) : ApplyInv(acc[n], rows, plan, n)}
  <1>3. 0 \in Good
    <2>1. PICK to : to = Start
      OBVIOUS
    <2>2. DOMAIN to = {"db", "results", "ok", "ids"} /\ to.ok = TRUE /\ to.db = db /\ to.results = <<>> /\ to.ids = UsedIds
      BY <2>1 DEF Start
    <2>3. UsedIds \subseteq Records /\ IsFiniteSet(UsedIds) /\ Cardinality(UsedIds) \in Nat
      <3>1. UsedIds \subseteq Records
        BY ImportAssumption DEF UsedIds
      <3> QED
        BY <3>1, ImportAssumption, FS_Subset, FS_CardinalityType
    <2>4. <<>> \in Seq(ResultRow) /\ Len(<<>>) = 0 /\ 1 .. 0 = {}
      OBVIOUS
    <2>5. AppliedRows(to, rows, plan, 0)
      BY <2>2, <2>3, <2>4 DEF AppliedRows
    <2>6. ApplyInv(to, rows, plan, 0)
      BY <2>2, <2>5 DEF ApplyInv
    <2>7. acc[0] = to /\ 0 \in 0 .. Len(rows)
      BY <1>1, <1>2, <2>1
    <2> QED
      BY <2>6, <2>7
  <1>4. ASSUME NEW n \in 0 .. Len(rows), n # 0, n - 1 \in Good PROVE n \in Good
    <2>1. ApplyInv(acc[n - 1], rows, plan, n - 1) /\ n - 1 \in Nat /\ (n - 1) + 1 = n /\ n \in DOMAIN rows
      BY <1>4 DEF FileOK
    <2>2. PICK m : m = n - 1 /\ m \in Nat /\ m + 1 = n
      BY <2>1
    <2>3. ApplyInv(ApplyNext(acc[m], rows[m + 1], plan[m + 1], update), rows, plan, m + 1)
      BY <2>1, <2>2, ApplyNextKeeps
    <2>4. acc[n] = ApplyNext(acc[m], rows[n], plan[n], update)
      BY <1>1, <1>2, <1>4, <2>2
    <2> QED
      BY <2>2, <2>3, <2>4
  <1>5. Len(rows) \in Good
    <2>1. \A n \in 0 .. Len(rows) : n # 0 /\ n - 1 \in Good => n \in Good
      BY <1>4
    <2> HIDE DEF Good
    <2> QED
      BY <1>1, <1>3, <2>1, UpTo
  <1> QED
    BY <1>2, <1>5 DEF ApplyInv

\* What undoing n row results has made of a table.
UndoneRows(d, left, order, n) ==
    /\ Table(left)
    /\ \A r \in Records : r \in DOMAIN left <=>
          r \in DOMAIN d /\ \A k \in 1 .. n : ~(order[k].action = "CREATED" /\ order[k].record = r)
    /\ \A r \in DOMAIN left : (\A k \in 1 .. n : ~Updates(order[k], r)) => left[r] = d[r]
    /\ \A r \in DOMAIN left, image \in Images :
          /\ \E k \in 1 .. n : Updates(order[k], r)
          /\ \A k \in 1 .. n : Updates(order[k], r) => order[k].image = image
          => \A c \in TextCols \cup Cols :
                Cell(left[r], c) = IF c \in DOMAIN image THEN image[c] ELSE Cell(d[r], c)

LEMMA UndoRowUndoes ==
    ASSUME NEW d, Table(d), NEW left, NEW order, NEW n \in Nat, UndoneRows(d, left, order, n),
           order[n + 1] \in ResultRow
    PROVE  UndoneRows(d, UndoRow(left, order[n + 1]), order, n + 1)
  <1> DEFINE res == order[n + 1]
  <1>1. PICK then : then = UndoRow(left, res)
    OBVIOUS
  <1>2. /\ res.action \in {"CREATED", "UPDATED", "SKIPPED_ERROR", "SKIPPED_DUPLICATE"}
        /\ res.record \in Records \cup {NoRecord} /\ res.image \in Images
    BY DEF ResultRow
  <1>3. \A k \in 1 .. (n + 1) : k \in 1 .. n \/ k = n + 1
    OBVIOUS
  <1>4. n + 1 \in 1 .. (n + 1) /\ \A k \in 1 .. n : k \in 1 .. (n + 1)
    OBVIOUS
  <1>5. CASE res.action = "CREATED"
    <2>1. then = [r \in DOMAIN left \ {res.record} |-> left[r]]
      BY <1>1, <1>5 DEF UndoRow
    <2>2. DOMAIN then = DOMAIN left \ {res.record} /\ \A r \in DOMAIN then : then[r] = left[r]
      BY <2>1
    <2>3. Table(then)
      BY <2>2 DEF UndoneRows, Table
    <2>4. \A r : ~Updates(res, r)
      BY <1>5 DEF Updates
    <2>5. \A r \in Records : r \in DOMAIN then <=>
            r \in DOMAIN d /\ \A k \in 1 .. (n + 1) : ~(order[k].action = "CREATED" /\ order[k].record = r)
      BY <1>3, <1>4, <1>5, <2>2 DEF UndoneRows
    <2>6. \A r \in DOMAIN then : (\A k \in 1 .. (n + 1) : ~Updates(order[k], r)) => then[r] = d[r]
      BY <1>4, <2>2 DEF UndoneRows
    <2>7. \A r \in DOMAIN then, image \in Images :
            /\ \E k \in 1 .. (n + 1) : Updates(order[k], r)
            /\ \A k \in 1 .. (n + 1) : Updates(order[k], r) => order[k].image = image
            => \A c \in TextCols \cup Cols :
                  Cell(then[r], c) = IF c \in DOMAIN image THEN image[c] ELSE Cell(d[r], c)
      <3>1. ASSUME NEW r \in DOMAIN then, NEW image \in Images,
                   \E k \in 1 .. (n + 1) : Updates(order[k], r),
                   \A k \in 1 .. (n + 1) : Updates(order[k], r) => order[k].image = image
            PROVE  \A c \in TextCols \cup Cols :
                      Cell(then[r], c) = IF c \in DOMAIN image THEN image[c] ELSE Cell(d[r], c)
        <4>1. \E k \in 1 .. n : Updates(order[k], r)
          BY <1>3, <2>4, <3>1
        <4>2. \A k \in 1 .. n : Updates(order[k], r) => order[k].image = image
          BY <1>4, <3>1
        <4>3. r \in DOMAIN left /\ then[r] = left[r]
          BY <2>2
        <4> QED
          BY <4>1, <4>2, <4>3 DEF UndoneRows
      <3> QED
        BY <3>1
    <2> QED
      BY <1>1, <2>3, <2>5, <2>6, <2>7 DEF UndoneRows
  <1>6. CASE res.action = "UPDATED"
    <2>1. then = Write(left, res.record, res.image)
      BY <1>1, <1>6 DEF UndoRow
    <2>2. Table(left)
      BY DEF UndoneRows
    <2>3. /\ Table(then) /\ DOMAIN then = DOMAIN left
          /\ \A o \in DOMAIN left : o # res.record => then[o] = left[o]
          /\ res.record \in DOMAIN left => \A c \in TextCols \cup Cols :
                Cell(then[res.record], c) = IF c \in DOMAIN res.image THEN res.image[c] ELSE Cell(left[res.record], c)
      BY <1>2, <2>1, <2>2, WriteWrites
    <2>4. \A r : Updates(res, r) <=> r = res.record
      BY <1>6 DEF Updates
    <2>5. \A r \in Records : r \in DOMAIN then <=>
            r \in DOMAIN d /\ \A k \in 1 .. (n + 1) : ~(order[k].action = "CREATED" /\ order[k].record = r)
      BY <1>3, <1>4, <1>6, <2>3 DEF UndoneRows
    <2>6. \A r \in DOMAIN then : (\A k \in 1 .. (n + 1) : ~Updates(order[k], r)) => then[r] = d[r]
      BY <1>4, <2>3, <2>4 DEF UndoneRows
    <2>7. \A r \in DOMAIN then, image \in Images :
            /\ \E k \in 1 .. (n + 1) : Updates(order[k], r)
            /\ \A k \in 1 .. (n + 1) : Updates(order[k], r) => order[k].image = image
            => \A c \in TextCols \cup Cols :
                  Cell(then[r], c) = IF c \in DOMAIN image THEN image[c] ELSE Cell(d[r], c)
      <3>1. ASSUME NEW r \in DOMAIN then, NEW image \in Images,
                   \E k \in 1 .. (n + 1) : Updates(order[k], r),
                   \A k \in 1 .. (n + 1) : Updates(order[k], r) => order[k].image = image,
                   NEW c \in TextCols \cup Cols
            PROVE  Cell(then[r], c) = IF c \in DOMAIN image THEN image[c] ELSE Cell(d[r], c)
        <4>1. \A k \in 1 .. n : Updates(order[k], r) => order[k].image = image
          BY <1>4, <3>1
        <4>2. r \in DOMAIN left
          BY <2>3
        <4>3. \/ \E k \in 1 .. n : Updates(order[k], r)
              \/ \A k \in 1 .. n : ~Updates(order[k], r)
          OBVIOUS
        <4>4. Cell(left[r], c) = (IF c \in DOMAIN image THEN image[c] ELSE Cell(d[r], c)) \/ left[r] = d[r]
          BY <4>1, <4>2, <4>3 DEF UndoneRows
        <4>5. CASE r # res.record
          <5>1. \E k \in 1 .. n : Updates(order[k], r)
            BY <1>3, <2>4, <3>1, <4>5
          <5>2. then[r] = left[r]
            BY <2>3, <4>2, <4>5
          <5> QED
            BY <4>1, <4>2, <5>1, <5>2 DEF UndoneRows
        <4>6. CASE r = res.record
          <5>1. res.image = image
            BY <1>4, <2>4, <3>1, <4>6
          <5>2. Cell(then[r], c) = IF c \in DOMAIN image THEN image[c] ELSE Cell(left[r], c)
            BY <2>3, <4>2, <4>6, <5>1
          <5> QED
            BY <4>4, <5>2
        <4> QED
          BY <4>5, <4>6
      <3> QED
        BY <3>1
    <2> QED
      BY <1>1, <2>3, <2>5, <2>6, <2>7 DEF UndoneRows
  <1>7. CASE res.action \notin {"CREATED", "UPDATED"}
    <2>1. then = left
      BY <1>1, <1>7 DEF UndoRow
    <2>2. \A r : ~Updates(res, r)
      BY <1>7 DEF Updates
    <2>3. \A r \in Records : r \in DOMAIN then <=>
            r \in DOMAIN d /\ \A k \in 1 .. (n + 1) : ~(order[k].action = "CREATED" /\ order[k].record = r)
      BY <1>3, <1>4, <1>7, <2>1 DEF UndoneRows
    <2>4. \A r \in DOMAIN then : (\A k \in 1 .. (n + 1) : ~Updates(order[k], r)) => then[r] = d[r]
      BY <1>4, <2>1 DEF UndoneRows
    <2>5. \A r \in DOMAIN then, image \in Images :
            /\ \E k \in 1 .. (n + 1) : Updates(order[k], r)
            /\ \A k \in 1 .. (n + 1) : Updates(order[k], r) => order[k].image = image
            => \A c \in TextCols \cup Cols :
                  Cell(then[r], c) = IF c \in DOMAIN image THEN image[c] ELSE Cell(d[r], c)
      <3>1. ASSUME NEW r \in DOMAIN then, NEW image \in Images,
                   \E k \in 1 .. (n + 1) : Updates(order[k], r),
                   \A k \in 1 .. (n + 1) : Updates(order[k], r) => order[k].image = image
            PROVE  \A c \in TextCols \cup Cols :
                      Cell(then[r], c) = IF c \in DOMAIN image THEN image[c] ELSE Cell(d[r], c)
        <4>1. \E k \in 1 .. n : Updates(order[k], r)
          BY <1>3, <2>2, <3>1
        <4>2. \A k \in 1 .. n : Updates(order[k], r) => order[k].image = image
          BY <1>4, <3>1
        <4> QED
          BY <2>1, <4>1, <4>2 DEF UndoneRows
      <3> QED
        BY <3>1
    <2>6. Table(then)
      BY <2>1 DEF UndoneRows
    <2> QED
      BY <1>1, <2>3, <2>4, <2>5, <2>6 DEF UndoneRows
  <1> QED
    BY <1>5, <1>6, <1>7

LEMMA UndoUndoes ==
    ASSUME NEW d, Table(d), NEW order, Len(order) \in Nat, \A k \in 1 .. Len(order) : order[k] \in ResultRow
    PROVE  UndoneRows(d, Undo(d, order), order, Len(order))
  <1>1. PICK left : /\ left[0] = d
                    /\ \A n \in 1 .. Len(order) : left[n] = UndoRow(left[n - 1], order[n])
                    /\ Undo(d, order) = left[Len(order)]
    BY UndoIterates
  <1> DEFINE Good == {n \in 0 .. Len(order) : UndoneRows(d, left[n], order, n)}
  <1>2. 0 \in Good
    <2>1. UndoneRows(d, d, order, 0)
      <3>1. 1 .. 0 = {}
        OBVIOUS
      <3> QED
        BY <3>1 DEF UndoneRows
    <2> QED
      BY <1>1, <2>1
  <1>3. ASSUME NEW n \in 0 .. Len(order), n # 0, n - 1 \in Good PROVE n \in Good
    <2>1. PICK m : m = n - 1 /\ m \in Nat /\ m + 1 = n
      BY <1>3
    <2>2. UndoneRows(d, left[m], order, m) /\ order[m + 1] \in ResultRow
      BY <1>3, <2>1
    <2>3. UndoneRows(d, UndoRow(left[m], order[m + 1]), order, m + 1)
      BY <2>1, <2>2, UndoRowUndoes
    <2>4. left[n] = UndoRow(left[m], order[n])
      BY <1>1, <1>3, <2>1
    <2> QED
      BY <2>1, <2>3, <2>4
  <1>4. Len(order) \in Good
    <2>1. \A n \in 0 .. Len(order) : n # 0 /\ n - 1 \in Good => n \in Good
      BY <1>3
    <2> HIDE DEF Good
    <2> QED
      BY <1>2, <2>1, UpTo
  <1> QED
    BY <1>1, <1>4

-------------------------------------------------------------------------------
(* Bulk import: the invariant.                                                 *)

RequestOK(d) ==
    /\ d.at \in {"idle", "commit", "rollback"} /\ d.job \in Jobs \cup {NoJob} /\ d.update \in BOOLEAN
    /\ d.at = "commit" =>
         /\ d.job \in Jobs
         /\ \A i \in DOMAIN Rows(d.job) : /\ d.plan[i] \in Planned
                                          /\ d.plan[i].verdict = "NEW" => /\ Rows(d.job)[i].valid
                                                                          /\ i \notin IntraFile(Rows(d.job))
    /\ d.at = "rollback" => d.job \in Jobs /\ d.plan \in Seq(ResultRow)

ImportTyped ==
    /\ file \in [Jobs -> DOMAIN Files] /\ status \in [Jobs -> {"OPEN", "COMPLETED", "ROLLED_BACK"}]
    /\ results \in [Jobs -> Seq(ResultRow)] /\ applied \in [Jobs -> Nat]
    /\ maker \in [Records -> Jobs \cup {NoJob}] /\ edits \in 0 .. MaxEdits
    /\ overlapped \in BOOLEAN /\ merged \in BOOLEAN
    /\ DOMAIN base = Jobs /\ DOMAIN doing = Requests /\ Table(db)
    /\ \A q \in Requests : RequestOK(doing[q])

\* A job that has been completed was applied, and so was one that made a record;
\* a rollback has read the row results that are there, as long as no commit
\* follows the first.
JobsInOrder ==
    /\ DOMAIN db \subseteq UsedIds
    /\ \A j \in Jobs : status[j] # "OPEN" => applied[j] > 0
    /\ \A r \in Records : maker[r] # NoJob => applied[maker[r]] > 0
    /\ \A q \in Requests : doing[q].at = "rollback" =>
         /\ applied[doing[q].job] > 0
         /\ applied[doing[q].job] = 1 => doing[q].plan = results[doing[q].job]

MadeIsListed ==
    \A r \in Records : maker[r] # NoJob /\ applied[maker[r]] = 1 =>
        /\ \E k \in DOMAIN results[maker[r]] : results[maker[r]][k] = Created(r)
        /\ r \in DOMAIN db => status[maker[r]] # "ROLLED_BACK"

NoneUpdates(s) == \A k \in DOMAIN s : s[k].action # "UPDATED"
MergedIsKnown ==
    ~merged => /\ \A j \in Jobs : NoneUpdates(results[j])
               /\ \A q \in Requests : doing[q].at = "rollback" => NoneUpdates(doing[q].plan)

OneCommit ==
    ~overlapped => \A p, q \in Requests : doing[p].at = "commit" /\ doing[q].at = "commit" => p = q

\* No two records are one property, and no row that is to be a new record is
\* one of them.
Separate(d) == \A r, o \in DOMAIN d : r # o => ~SameIdentity(d[r], d[o])
Apart ==
    ~overlapped /\ ~merged =>
        /\ Separate(db)
        /\ \A q \in Requests : doing[q].at = "commit" =>
             \A i \in DOMAIN Rows(doing[q].job) : doing[q].plan[i].verdict = "NEW" =>
                \A r \in DOMAIN db : ~SameIdentity(Rows(doing[q].job)[i], db[r])

\* What the row results of a job's only commit hold of the table it found.
ImagesOf(d, rows, s) ==
    \A k \in DOMAIN s :
        /\ k \in DOMAIN rows
        /\ s[k].action = "CREATED" => s[k].record \notin DOMAIN d
        /\ \A r \in DOMAIN d : FirstUpdate(s, k, r) =>
              s[k].image = [c \in Writable(rows[k]) |-> Cell(d[r], c)]
ImagesKept == \A j \in Jobs : applied[j] = 1 => ImagesOf(base[j], Rows(j), results[j])

ImportInv ==
    /\ ImportTyped /\ JobsInOrder /\ MadeIsListed /\ MergedIsKnown /\ OneCommit /\ Apart /\ ImagesKept

LEMMA FilesAreOK == ASSUME ImportTyped, NEW j \in Jobs PROVE FileOK(Rows(j))
  <1>1. file[j] \in DOMAIN Files
    BY DEF ImportTyped
  <1>2. PICK f : f = file[j] /\ f \in DOMAIN Files
    BY <1>1
  <1> QED
    BY <1>2, ImportAssumption DEF FileOK, Rows

\* The rules that match and the identity they stand for.
LEMMA SameIsMatched ==
    ASSUME NEW s, NEW r, SameIdentity(s, r) PROVE Confidence(s, r) \in {88, 90, 95, 100}
  BY DEF SameIdentity, Confidence

LEMMA ConfidenceIs ==
    ASSUME NEW s, NEW r PROVE Confidence(s, r) \in {0, 60, 88, 90, 95, 100}
  BY DEF Confidence

LEMMA UnmatchedIsNone ==
    ASSUME NEW s, NEW d, Table(d), NEW match \in Matches(s, d), Verdict(s, d, match) = "NEW", NEW r \in DOMAIN d
    PROVE  ~SameIdentity(s, d[r])
  <1> DEFINE score == [x \in DOMAIN d |-> Confidence(s, d[x])]
             best == {x \in DOMAIN d : score[x] > 0 /\ \A o \in DOMAIN d : score[o] <= score[x]}
  <1>1. match \in IF best = {} THEN {NoRecord} ELSE best
    BY DEF Matches
  <1>2. \A x \in DOMAIN d : score[x] \in {0, 60, 88, 90, 95, 100}
    BY ConfidenceIs
  <1>3. SUFFICES ASSUME SameIdentity(s, d[r]) PROVE FALSE
    OBVIOUS
  <1>4. score[r] >= 88
    BY <1>3, SameIsMatched
  <1>5. \E x \in DOMAIN d : \A o \in DOMAIN d : score[o] <= score[x]
    <2> HIDE DEF score
    <2>1. CASE \E x \in DOMAIN d : score[x] = 100
      BY <1>2, <2>1
    <2>2. CASE (\E x \in DOMAIN d : score[x] = 95) /\ ~(\E x \in DOMAIN d : score[x] = 100)
      BY <1>2, <2>2
    <2>3. CASE (\E x \in DOMAIN d : score[x] = 90) /\ ~(\E x \in DOMAIN d : score[x] \in {95, 100})
      BY <1>2, <2>3
    <2>4. CASE ~(\E x \in DOMAIN d : score[x] \in {90, 95, 100})
      BY <1>2, <1>4, <2>4
    <2> QED
      BY <2>1, <2>2, <2>3, <2>4
  <1>6. best # {}
    <2> HIDE DEF score
    <2> QED
      BY <1>2, <1>4, <1>5
  <1>7. match \in DOMAIN d /\ score[r] <= score[match]
    BY <1>1, <1>6
  <1>8. Confidence(s, d[match]) >= 88
    <2>1. score[match] >= 88
      <3> HIDE DEF score
      <3> QED
        BY <1>2, <1>4, <1>7
    <2> QED
      BY <1>7, <2>1
  <1>9. match = NoRecord
    <2>1. Confidence(s, d[match]) >= 85
      BY <1>2, <1>7, <1>8
    <2> QED
      BY <2>1 DEF Verdict
  <1>10. match # NoRecord
    BY <1>7, ImportAssumption DEF Table
  <1> QED
    BY <1>9, <1>10

\* The strongest candidates are records of the table, if they are any.
LEMMA MatchIsRecord ==
    ASSUME NEW s, NEW d, Table(d), NEW match \in Matches(s, d) PROVE match \in Records \cup {NoRecord}
  BY DEF Matches, Table

\* What a commit plans of a file and the table it reads.
LEMMA PlanIsMade ==
    ASSUME NEW f, NEW d, Table(d), NEW match, \A i \in DOMAIN f : match[i] \in Matches(f[i], d), NEW i \in DOMAIN f
    PROVE  /\ Plan(f, d, match)[i] \in Planned
           /\ Plan(f, d, match)[i].verdict = "NEW" =>
                /\ f[i].valid /\ i \notin IntraFile(f)
                /\ \A r \in DOMAIN d : ~SameIdentity(f[i], d[r])
  <1>1. PICK m : m = match[i] /\ m \in Matches(f[i], d)
    OBVIOUS
  <1>2. m \in Records \cup {NoRecord}
    BY <1>1, MatchIsRecord
  <1>3. PICK v : v = Verdict(f[i], d, m) /\ v \in {"NEW", "DUPLICATE", "NEEDS_REVIEW"}
    BY DEF Verdict
  <1>4. v = "NEW" => \A r \in DOMAIN d : ~SameIdentity(f[i], d[r])
    BY <1>1, <1>3, UnmatchedIsNone
  <1>5. Plan(f, d, match)[i] = IF ~f[i].valid THEN [verdict |-> "ERROR", match |-> NoRecord]
                               ELSE IF i \in IntraFile(f) THEN [verdict |-> "DUPLICATE", match |-> NoRecord]
                               ELSE [verdict |-> v, match |-> m]
    BY <1>1, <1>3 DEF Plan
  <1>6. CASE ~f[i].valid
    <2>1. Plan(f, d, match)[i] = [verdict |-> "ERROR", match |-> NoRecord]
      BY <1>5, <1>6
    <2> QED
      BY <2>1 DEF Planned
  <1>7. CASE f[i].valid /\ i \in IntraFile(f)
    <2>1. Plan(f, d, match)[i] = [verdict |-> "DUPLICATE", match |-> NoRecord]
      BY <1>5, <1>7
    <2> QED
      BY <2>1 DEF Planned
  <1>8. CASE f[i].valid /\ i \notin IntraFile(f)
    <2>1. Plan(f, d, match)[i] = [verdict |-> v, match |-> m]
      BY <1>5, <1>8
    <2>2. Plan(f, d, match)[i] \in Planned /\ Plan(f, d, match)[i].verdict = v
      BY <1>2, <1>3, <2>1 DEF Planned
    <2> QED
      BY <1>4, <1>8, <2>2
  <1> QED
    BY <1>6, <1>7, <1>8

LEMMA ImportInvInit == Init => ImportInv
  <1> SUFFICES ASSUME Init PROVE ImportInv
    OBVIOUS
  <1> USE DEF Init
  <1>1. \A q \in Requests : doing[q] = Idle /\ doing[q].at = "idle" /\ RequestOK(doing[q])
    <2>1. Idle.at = "idle" /\ Idle.job = NoJob /\ Idle.update = FALSE
      BY DEF Idle
    <2>2. \A q \in Requests : doing[q] = Idle
      OBVIOUS
    <2> QED
      BY <2>1, <2>2 DEF RequestOK
  <1>2. ImportTyped
    <2>1. results \in [Jobs -> Seq(ResultRow)]
      <3>1. <<>> \in Seq(ResultRow)
        OBVIOUS
      <3> QED
        BY <3>1
    <2>2. Table(db)
      BY ImportAssumption DEF Table
    <2>3. /\ file \in [Jobs -> DOMAIN Files] /\ status \in [Jobs -> {"OPEN", "COMPLETED", "ROLLED_BACK"}]
          /\ applied \in [Jobs -> Nat] /\ maker \in [Records -> Jobs \cup {NoJob}] /\ edits \in 0 .. MaxEdits
          /\ overlapped \in BOOLEAN /\ merged \in BOOLEAN /\ DOMAIN base = Jobs /\ DOMAIN doing = Requests
      <3>1. applied \in [Jobs -> Nat] /\ status \in [Jobs -> {"OPEN", "COMPLETED", "ROLLED_BACK"}]
        OBVIOUS
      <3>2. maker \in [Records -> Jobs \cup {NoJob}]
        OBVIOUS
      <3>3. MaxEdits \in Nat
        BY ImportAssumption
      <3>4. edits \in 0 .. MaxEdits
        BY <3>3
      <3> QED
        BY <3>1, <3>2, <3>4
    <2> QED
      BY <1>1, <2>1, <2>2, <2>3 DEF ImportTyped
  <1>3. JobsInOrder
    BY <1>1 DEF JobsInOrder, UsedIds
  <1>4. MadeIsListed /\ OneCommit
    BY <1>1 DEF MadeIsListed, OneCommit
  <1>5. MergedIsKnown
    BY <1>1 DEF MergedIsKnown, NoneUpdates
  <1>6. Apart
    BY <1>1, ImportAssumption DEF Apart, Separate
  <1>7. ImagesKept
    BY DEF ImagesKept
  <1> QED
    BY <1>2, <1>3, <1>4, <1>5, <1>6, <1>7 DEF ImportInv

\* Table e has no record that d has not, and each with the identity it has there.
Sparer(d, e) ==
    /\ Table(e) /\ DOMAIN e \subseteq DOMAIN d
    /\ \A r \in DOMAIN e : /\ e[r].cid = d[r].cid /\ e[r].ext = d[r].ext /\ e[r].addr = d[r].addr
                           /\ e[r].name = d[r].name /\ e[r].city = d[r].city

LEMMA SparerIsTable == ASSUME NEW d, NEW e, Sparer(d, e) PROVE Table(e) /\ DOMAIN e \subseteq DOMAIN d
  BY DEF Sparer

LEMMA SparerIsSeparate ==
    ASSUME NEW d, NEW e, Sparer(d, e)
    PROVE  /\ Separate(d) => Separate(e)
           /\ \A s, r : r \in DOMAIN e /\ SameIdentity(s, e[r]) => r \in DOMAIN d /\ SameIdentity(s, d[r])
  <1>1. \A s, r : r \in DOMAIN e /\ SameIdentity(s, e[r]) => r \in DOMAIN d /\ SameIdentity(s, d[r])
    BY DEF Sparer, SameIdentity
  <1>2. ASSUME NEW r \in DOMAIN e, NEW o \in DOMAIN e, SameIdentity(e[r], e[o]) PROVE SameIdentity(d[r], d[o])
    BY <1>2 DEF Sparer, SameIdentity
  <1>3. DOMAIN e \subseteq DOMAIN d
    BY DEF Sparer
  <1> QED
    BY <1>1, <1>2, <1>3 DEF Separate

\* Steps that make no record and start no request: previews, requests that end,
\* rollbacks, and what people edit and delete.
LEMMA NothingNewKeeps ==
    ASSUME ImportInv, UNCHANGED <<file, results, applied, base, maker, overlapped, merged>>,
           edits' \in 0 .. MaxEdits, Table(db'), DOMAIN db' \subseteq DOMAIN db, merged \/ Sparer(db, db'),
           DOMAIN doing' = Requests, \A q \in Requests : doing'[q] = doing[q] \/ doing'[q] = Idle,
           status' \in [Jobs -> {"OPEN", "COMPLETED", "ROLLED_BACK"}],
           \A j \in Jobs : \/ status'[j] = status[j] \/ status'[j] = "OPEN"
                           \/ /\ applied[j] > 0
                              /\ applied[j] = 1 => \A r \in DOMAIN db' : maker[r] # j
    PROVE  ImportInv'
  <1>1. Idle.at = "idle" /\ Idle.job = NoJob /\ Idle.update = FALSE
    BY DEF Idle
  <1>2. \A q \in Requests : doing'[q].at # "idle" => doing'[q] = doing[q]
    BY <1>1
  <1>3. Table(db') /\ DOMAIN db' \subseteq DOMAIN db
    OBVIOUS
  <1>4. ImportTyped'
    <2>1. ASSUME NEW q \in Requests PROVE RequestOK(doing[q])'
      <3>1. CASE doing'[q] = doing[q]
        BY <3>1 DEF ImportInv, ImportTyped, RequestOK, Rows
      <3>2. CASE doing'[q] = Idle
        BY <1>1, <3>2 DEF RequestOK
      <3> QED
        BY <3>1, <3>2
    <2> QED
      BY <1>3, <2>1 DEF ImportInv, ImportTyped
  <1>5. JobsInOrder'
    <2>1. UsedIds' = UsedIds
      BY DEF UsedIds
    <2>2. \A j \in Jobs : status'[j] # "OPEN" => applied'[j] > 0
      BY DEF ImportInv, JobsInOrder
    <2>3. \A r \in Records : maker'[r] # NoJob => applied'[maker'[r]] > 0
      BY DEF ImportInv, JobsInOrder
    <2>4. \A q \in Requests : doing'[q].at = "rollback" =>
            /\ applied'[doing'[q].job] > 0
            /\ applied'[doing'[q].job] = 1 => doing'[q].plan = results'[doing'[q].job]
      BY <1>2 DEF ImportInv, JobsInOrder
    <2> QED
      BY <1>3, <2>1, <2>2, <2>3, <2>4 DEF ImportInv, JobsInOrder
  <1>6. MadeIsListed'
    <2>1. ASSUME NEW r \in Records, maker[r] # NoJob, applied[maker[r]] = 1
          PROVE  /\ \E k \in DOMAIN results[maker[r]] : results[maker[r]][k] = Created(r)
                 /\ r \in DOMAIN db' => status'[maker[r]] # "ROLLED_BACK"
      <3>1. PICK j : j = maker[r] /\ j \in Jobs /\ applied[j] = 1
        BY <2>1 DEF ImportInv, ImportTyped
      <3>2. r \in DOMAIN db' => status[j] # "ROLLED_BACK"
        BY <1>3, <2>1, <3>1 DEF ImportInv, MadeIsListed
      <3>3. r \in DOMAIN db' => status'[j] # "ROLLED_BACK"
        BY <3>1, <3>2
      <3> QED
        BY <2>1, <3>1, <3>3 DEF ImportInv, MadeIsListed
    <2> QED
      BY <2>1 DEF MadeIsListed, Created
  <1>7. MergedIsKnown' /\ OneCommit'
    BY <1>2 DEF ImportInv, MergedIsKnown, OneCommit, NoneUpdates
  <1>8. Apart'
    <2>1. SUFFICES ASSUME ~overlapped, ~merged
                   PROVE  /\ Separate(db')
                          /\ \A q \in Requests : doing'[q].at = "commit" =>
                               \A i \in DOMAIN Rows(doing'[q].job) : doing'[q].plan[i].verdict = "NEW" =>
                                  \A r \in DOMAIN db' : ~SameIdentity(Rows(doing'[q].job)[i], db'[r])
      BY DEF Apart, Separate, Rows
    <2>2. Separate(db')
      BY <2>1, SparerIsSeparate DEF ImportInv, Apart
    <2>3. ASSUME NEW q \in Requests, doing'[q].at = "commit", NEW i \in DOMAIN Rows(doing'[q].job),
                 doing'[q].plan[i].verdict = "NEW", NEW r \in DOMAIN db'
          PROVE  ~SameIdentity(Rows(doing'[q].job)[i], db'[r])
      <3>1. doing'[q] = doing[q]
        BY <1>2, <2>3
      <3>2. \A o \in DOMAIN db : ~SameIdentity(Rows(doing'[q].job)[i], db[o])
        BY <2>1, <2>3, <3>1 DEF ImportInv, Apart
      <3> QED
        BY <2>1, <3>2, SparerIsSeparate
    <2> QED
      BY <2>2, <2>3
  <1>9. ImagesKept'
    BY DEF ImportInv, ImagesKept, ImagesOf, Rows, FirstUpdate, Updates
  <1> QED
    BY <1>4, <1>5, <1>6, <1>7, <1>8, <1>9 DEF ImportInv

LEMMA SameTable == ASSUME Table(db) PROVE Sparer(db, db)
  BY DEF Sparer

LEMMA PreviewKeeps == ASSUME ImportInv, NEW j \in Jobs, Preview(j) PROVE ImportInv' /\ RollbackRestores
  <1>1. Table(db) /\ edits \in 0 .. MaxEdits /\ DOMAIN doing = Requests
    BY DEF ImportInv, ImportTyped
  <1>2. Sparer(db, db')
    BY <1>1, SameTable DEF Preview
  <1>3. status' \in [Jobs -> {"OPEN", "COMPLETED", "ROLLED_BACK"}] /\ \A o \in Jobs : status'[o] = status[o] \/ status'[o] = "OPEN"
    BY DEF Preview, ImportInv, ImportTyped
  <1>4. ImportInv'
    BY <1>1, <1>2, <1>3, SparerIsTable, NothingNewKeeps DEF Preview, history
  <1>5. RollbackRestores
    BY <1>3 DEF RollbackRestores
  <1> QED
    BY <1>4, <1>5

LEMMA RequestEndsKeeps ==
    ASSUME ImportInv, NEW q \in Requests, Done(q), UNCHANGED <<file, db, status, results, edits, history>>
    PROVE  ImportInv' /\ RollbackRestores
  <1>1. Table(db) /\ edits \in 0 .. MaxEdits /\ DOMAIN doing = Requests
        /\ status \in [Jobs -> {"OPEN", "COMPLETED", "ROLLED_BACK"}]
    BY DEF ImportInv, ImportTyped
  <1>2. Sparer(db, db')
    BY <1>1, SameTable
  <1>3. DOMAIN doing' = Requests /\ \A o \in Requests : doing'[o] = doing[o] \/ doing'[o] = Idle
    BY <1>1 DEF Done
  <1>4. ImportInv'
    BY <1>1, <1>2, <1>3, SparerIsTable, NothingNewKeeps DEF history
  <1>5. RollbackRestores
    BY DEF RollbackRestores
  <1> QED
    BY <1>4, <1>5

LEMMA EditNumberKeeps ==
    ASSUME ImportInv, NEW r \in Records, NEW c \in Cols, EditNumber(r, c) PROVE ImportInv' /\ RollbackRestores
  <1>1. Table(db) /\ edits \in 0 .. MaxEdits /\ DOMAIN doing = Requests
        /\ status \in [Jobs -> {"OPEN", "COMPLETED", "ROLLED_BACK"}]
    BY DEF ImportInv, ImportTyped
  <1>2. PICK rec : rec = db[r] /\ rec \in Identity /\ r \in DOMAIN db
    BY <1>1 DEF Table, EditNumber
  <1>3. PICK new : new = [rec EXCEPT !.vals[c] = Edited]
    OBVIOUS
  <1>4. /\ new \in Identity /\ new.cid = rec.cid /\ new.ext = rec.ext /\ new.addr = rec.addr
        /\ new.name = rec.name /\ new.city = rec.city
    BY <1>2, <1>3, ImportAssumption DEF Identity
  <1>5. db' = [db EXCEPT ![r] = new]
    BY <1>2, <1>3 DEF EditNumber
  <1>6. Sparer(db, db')
    BY <1>1, <1>2, <1>4, <1>5 DEF Sparer, Table
  <1>7. edits' \in 0 .. MaxEdits
    BY <1>1, ImportAssumption DEF EditNumber
  <1>8. ImportInv'
    BY <1>1, <1>6, <1>7, SparerIsTable, NothingNewKeeps DEF history, EditNumber
  <1>9. RollbackRestores
    BY DEF RollbackRestores, EditNumber
  <1> QED
    BY <1>8, <1>9

LEMMA DeleteRecordKeeps ==
    ASSUME ImportInv, NEW r \in Records, DeleteRecord(r) PROVE ImportInv' /\ RollbackRestores
  <1>1. Table(db) /\ edits \in 0 .. MaxEdits /\ DOMAIN doing = Requests
        /\ status \in [Jobs -> {"OPEN", "COMPLETED", "ROLLED_BACK"}]
    BY DEF ImportInv, ImportTyped
  <1>2. Sparer(db, db')
    BY <1>1 DEF Sparer, Table, DeleteRecord
  <1>3. edits' \in 0 .. MaxEdits
    BY <1>1, ImportAssumption DEF DeleteRecord
  <1>4. ImportInv'
    BY <1>1, <1>2, <1>3, SparerIsTable, NothingNewKeeps DEF history, DeleteRecord
  <1>5. RollbackRestores
    BY DEF RollbackRestores, DeleteRecord
  <1> QED
    BY <1>4, <1>5

\* A request takes up a commit or a rollback.
LEMMA BeginCommitKeeps ==
    ASSUME ImportInv, NEW q \in Requests, NEW j \in Jobs, NEW update \in BOOLEAN, BeginCommit(q, j, update)
    PROVE  ImportInv' /\ RollbackRestores
  <1> DEFINE f == Rows(j)
  <1>1. PICK match : /\ \A i \in DOMAIN f : match[i] \in Matches(f[i], db)
                     /\ doing' = [doing EXCEPT ![q] = [at |-> "commit", job |-> j, update |-> update,
                                                       plan |-> Plan(f, db, match)]]
    BY DEF BeginCommit
  <1>2. PICK plan : plan = Plan(f, db, match)
    OBVIOUS
  <1>3. Table(db) /\ DOMAIN doing = Requests
    BY DEF ImportInv, ImportTyped
  <1>4. \A i \in DOMAIN f : /\ plan[i] \in Planned
                            /\ plan[i].verdict = "NEW" => /\ f[i].valid /\ i \notin IntraFile(f)
                                                          /\ \A r \in DOMAIN db : ~SameIdentity(f[i], db[r])
    BY <1>1, <1>2, <1>3, PlanIsMade
  <1>5. PICK d : d = doing'[q] /\ d.at = "commit" /\ d.job = j /\ d.update = update /\ d.plan = plan
    BY <1>1, <1>2, <1>3
  <1>6. \A o \in Requests : o # q => doing'[o] = doing[o]
    BY <1>1, <1>3
  <1>7. /\ UNCHANGED <<file, db, status, results, edits, applied, base, maker, merged>>
        /\ overlapped' = (overlapped \/ \E o \in Requests : doing[o].at = "commit")
    BY DEF BeginCommit
  <1>8. \A x : Rows(x)' = Rows(x)
    BY <1>7 DEF Rows
  <1>9. ImportTyped'
    <2>1. ASSUME NEW o \in Requests PROVE RequestOK(doing[o])'
      <3>1. CASE o = q
        BY <1>4, <1>5, <1>8, <3>1 DEF RequestOK
      <3>2. CASE o # q
        BY <1>6, <1>8, <3>2 DEF ImportInv, ImportTyped, RequestOK
      <3> QED
        BY <3>1, <3>2
    <2>2. overlapped' \in BOOLEAN /\ DOMAIN doing' = Requests
      BY <1>1, <1>3, <1>7
    <2> QED
      BY <1>7, <2>1, <2>2 DEF ImportInv, ImportTyped, Table
  <1>10. \A o \in Requests : doing'[o].at = "rollback" => doing'[o] = doing[o]
    BY <1>5, <1>6
  <1>11. JobsInOrder'
    BY <1>7, <1>10 DEF ImportInv, JobsInOrder, UsedIds
  <1>12. MadeIsListed'
    BY <1>7 DEF ImportInv, MadeIsListed, Created
  <1>13. MergedIsKnown'
    BY <1>7, <1>10 DEF ImportInv, MergedIsKnown, NoneUpdates
  <1>14. OneCommit'
    BY <1>6, <1>7 DEF OneCommit
  <1>15. Apart'
    <2>1. SUFFICES ASSUME ~overlapped', ~merged'
                   PROVE  /\ Separate(db)
                          /\ \A o \in Requests : doing'[o].at = "commit" =>
                               \A i \in DOMAIN Rows(doing'[o].job) : doing'[o].plan[i].verdict = "NEW" =>
                                  \A r \in DOMAIN db : ~SameIdentity(Rows(doing'[o].job)[i], db[r])
      BY <1>7, <1>8 DEF Apart, Separate
    <2>2. Separate(db)
      BY <1>7, <2>1 DEF ImportInv, Apart
    <2>3. ASSUME NEW o \in Requests, doing'[o].at = "commit"
          PROVE  o = q
      BY <1>6, <1>7, <2>1, <2>3
    <2>4. \A i \in DOMAIN Rows(doing'[q].job) : doing'[q].plan[i].verdict = "NEW" =>
             \A r \in DOMAIN db : ~SameIdentity(Rows(doing'[q].job)[i], db[r])
      BY <1>4, <1>5
    <2> QED
      BY <2>2, <2>3, <2>4
  <1>16. ImagesKept'
    BY <1>7, <1>8 DEF ImportInv, ImagesKept, ImagesOf, FirstUpdate, Updates
  <1>17. RollbackRestores
    BY <1>7 DEF RollbackRestores
  <1> QED
    BY <1>9, <1>11, <1>12, <1>13, <1>14, <1>15, <1>16, <1>17 DEF ImportInv

LEMMA BeginRollbackKeeps ==
    ASSUME ImportInv, NEW q \in Requests, NEW j \in Jobs, BeginRollback(q, j) PROVE ImportInv' /\ RollbackRestores
  <1>1. DOMAIN doing = Requests /\ results[j] \in Seq(ResultRow) /\ applied[j] > 0
    BY DEF ImportInv, ImportTyped, JobsInOrder, BeginRollback
  <1>2. PICK d : /\ d = doing'[q] /\ d.at = "rollback" /\ d.job = j /\ d.update = FALSE /\ d.plan = results[j]
    BY <1>1 DEF BeginRollback
  <1>3. \A o \in Requests : o # q => doing'[o] = doing[o]
    BY <1>1 DEF BeginRollback
  <1>4. UNCHANGED <<file, db, status, results, edits, applied, base, maker, overlapped, merged>>
    BY DEF BeginRollback, history
  <1>5. \A x : Rows(x)' = Rows(x)
    BY <1>4 DEF Rows
  <1>6. ImportTyped'
    <2>1. ASSUME NEW o \in Requests PROVE RequestOK(doing[o])'
      <3>1. CASE o = q
        BY <1>1, <1>2, <3>1 DEF RequestOK
      <3>2. CASE o # q
        BY <1>3, <1>5, <3>2 DEF ImportInv, ImportTyped, RequestOK
      <3> QED
        BY <3>1, <3>2
    <2>2. DOMAIN doing' = Requests
      BY <1>1 DEF BeginRollback
    <2> QED
      BY <1>4, <2>1, <2>2 DEF ImportInv, ImportTyped, Table
  <1>7. JobsInOrder'
    <2>1. \A o \in Requests : doing'[o].at = "rollback" =>
            /\ applied[doing'[o].job] > 0
            /\ applied[doing'[o].job] = 1 => doing'[o].plan = results[doing'[o].job]
      BY <1>1, <1>2, <1>3 DEF ImportInv, JobsInOrder
    <2> QED
      BY <1>4, <2>1 DEF ImportInv, JobsInOrder, UsedIds
  <1>8. MadeIsListed'
    BY <1>4 DEF ImportInv, MadeIsListed, Created
  <1>9. MergedIsKnown'
    BY <1>2, <1>3, <1>4 DEF ImportInv, MergedIsKnown, NoneUpdates
  <1>10. \A o \in Requests : doing'[o].at = "commit" => doing'[o] = doing[o]
    BY <1>2, <1>3
  <1>11. OneCommit'
    BY <1>4, <1>10 DEF ImportInv, OneCommit
  <1>12. Apart'
    BY <1>4, <1>5, <1>10 DEF ImportInv, Apart, Separate
  <1>13. ImagesKept'
    BY <1>4, <1>5 DEF ImportInv, ImagesKept, ImagesOf, FirstUpdate, Updates
  <1>14. RollbackRestores
    BY <1>4 DEF RollbackRestores
  <1> QED
    BY <1>6, <1>7, <1>8, <1>9, <1>11, <1>12, <1>13, <1>14 DEF ImportInv

\* The row results in another order are the same ones.
LEMMA OrderFacts ==
    ASSUME NEW s \in Seq(ResultRow), NEW order \in Orders(s)
    PROVE  /\ Len(order) = Len(s) /\ DOMAIN order = 1 .. Len(order) /\ Len(order) \in Nat
           /\ \A k \in 1 .. Len(order) : order[k] \in ResultRow
           /\ \A k \in 1 .. Len(order) : \E l \in DOMAIN s : order[k] = s[l]
           /\ \A l \in DOMAIN s : \E k \in 1 .. Len(order) : order[k] = s[l]
  <1>1. PICK n : n = Len(s) /\ n \in Nat /\ DOMAIN s = 1 .. n /\ \A l \in 1 .. n : s[l] \in ResultRow
    OBVIOUS
  <1>2. PICK p \in Bijection(1 .. n, 1 .. n) : order = [k \in 1 .. n |-> s[p[k]]]
    BY <1>1 DEF Orders
  <1>3. p \in [1 .. n -> 1 .. n] /\ \A l \in 1 .. n : \E k \in 1 .. n : p[k] = l
    BY DEF Bijection, Injection, Surjection
  <1>4. order \in Seq(ResultRow) /\ Len(order) = n /\ DOMAIN order = 1 .. n
    <2>1. order \in [1 .. n -> ResultRow]
      BY <1>1, <1>2, <1>3
    <2> QED
      BY <1>1, <2>1
  <1>5. \A k \in 1 .. n : order[k] = s[p[k]] /\ p[k] \in 1 .. n
    BY <1>2, <1>3
  <1>6. ASSUME NEW l \in 1 .. n PROVE \E k \in 1 .. n : order[k] = s[l]
    <2>1. PICK k \in 1 .. n : p[k] = l
      BY <1>3
    <2>2. order[k] = s[l]
      BY <1>5, <2>1
    <2> QED
      BY <2>2
  <1>7. \A k \in 1 .. n : order[k] \in ResultRow /\ \E l \in DOMAIN s : order[k] = s[l]
    BY <1>1, <1>5
  <1> QED
    BY <1>1, <1>4, <1>6, <1>7

\* A record that one row result updated was updated first by that one.
LEMMA OnlyUpdateIsFirst ==
    ASSUME NEW j, results[j] \in Seq(ResultRow), NEW r, UpdatedOnce(j, r)
    PROVE  \E i \in DOMAIN results[j] : /\ FirstUpdate(results[j], i, r)
                                        /\ \A l \in DOMAIN results[j] : Updates(results[j][l], r) => l = i
  <1> DEFINE s == results[j]
             hits == {i \in DOMAIN s : s[i].action = "UPDATED" /\ s[i].record = r}
  <1>1. Len(s) \in Nat /\ DOMAIN s = 1 .. Len(s)
    OBVIOUS
  <1>2. IsFiniteSet(1 .. Len(s))
    <2>1. PICK n : n = Len(s) /\ n \in Nat
      BY <1>1
    <2>2. IsFiniteSet(1 .. n)
      BY <2>1, FS_Interval
    <2> QED
      BY <2>1, <2>2
  <1>3. IsFiniteSet(hits)
    <2>1. hits \subseteq 1 .. Len(s)
      BY <1>1
    <2> HIDE DEF hits
    <2> QED
      BY <1>2, <2>1, FS_Subset
  <1>4. PICK i : hits = {i}
    <2>1. Cardinality(hits) = 1
      BY DEF UpdatedOnce
    <2> HIDE DEF hits
    <2> QED
      BY <1>3, <2>1, FS_Singleton
  <1>5. i \in DOMAIN s /\ Updates(s[i], r)
    BY <1>4 DEF Updates
  <1>6. \A l \in DOMAIN s : Updates(s[l], r) => l = i
    BY <1>4 DEF Updates
  <1>7. \A l \in 1 .. (i - 1) : l \in DOMAIN s /\ l # i
    BY <1>1, <1>5
  <1> QED
    BY <1>5, <1>6, <1>7 DEF FirstUpdate

LEMMA RollbackKeeps == ASSUME ImportInv, NEW q \in Requests, Rollback(q) PROVE ImportInv' /\ RollbackRestores
  <1>1. PICK j, s : /\ j = doing[q].job /\ s = doing[q].plan /\ j \in Jobs /\ s \in Seq(ResultRow)
                    /\ doing[q].at = "rollback"
    BY DEF ImportInv, ImportTyped, RequestOK, Rollback
  <1>2. applied[j] > 0 /\ (applied[j] = 1 => s = results[j])
    BY <1>1 DEF ImportInv, JobsInOrder
  <1>3. PICK order \in Orders(s) : db' = Undo(db, order)
    BY <1>1 DEF Rollback
  <1>4. Table(db)
    BY DEF ImportInv, ImportTyped
  <1>5. PICK n : /\ n = Len(order) /\ UndoneRows(db, db', order, n)
                 /\ \A k \in 1 .. n : \E l \in DOMAIN s : order[k] = s[l]
                 /\ \A l \in DOMAIN s : \E k \in 1 .. n : order[k] = s[l]
    <2>1. PICK n : n = Len(order) /\ n \in Nat
      BY <1>1, <1>3, OrderFacts
    <2>2. /\ \A k \in 1 .. n : order[k] \in ResultRow
          /\ \A k \in 1 .. n : \E l \in DOMAIN s : order[k] = s[l]
          /\ \A l \in DOMAIN s : \E k \in 1 .. n : order[k] = s[l]
      BY <1>1, <1>3, <2>1, OrderFacts
    <2>3. UndoneRows(db, Undo(db, order), order, Len(order))
      <3>1. Len(order) \in Nat /\ \A k \in 1 .. Len(order) : order[k] \in ResultRow
        BY <2>1, <2>2
      <3> QED
        BY <1>4, <3>1, UndoUndoes
    <2>4. UndoneRows(db, db', order, n)
      BY <1>3, <2>1, <2>3
    <2> QED
      BY <2>1, <2>2, <2>4
  <1>6. /\ UNCHANGED <<file, results, edits, applied, base, maker, overlapped, merged>>
        /\ status' = [status EXCEPT ![j] = "ROLLED_BACK"]
    BY <1>1 DEF Rollback, history
  <1>7. /\ DOMAIN doing' = Requests /\ \A o \in Requests : doing'[o] = doing[o] \/ doing'[o] = Idle
        /\ status' \in [Jobs -> {"OPEN", "COMPLETED", "ROLLED_BACK"}]
        /\ \A o \in Jobs : o # j => status'[o] = status[o]
        /\ edits' \in 0 .. MaxEdits
    BY <1>6 DEF Rollback, Done, ImportInv, ImportTyped
  <1>8. ASSUME applied[j] = 1, NEW r \in DOMAIN db' PROVE maker[r] # j
    <2>1. r \in Records /\ \A k \in 1 .. n : ~(order[k].action = "CREATED" /\ order[k].record = r)
      BY <1>5, <1>8 DEF UndoneRows, Table
    <2>2. SUFFICES ASSUME maker[r] = j PROVE FALSE
      OBVIOUS
    <2>3. j # NoJob
      BY <1>1, ImportAssumption
    <2>4. PICK l \in DOMAIN s : s[l] = Created(r)
      BY <1>2, <1>8, <2>1, <2>2, <2>3 DEF ImportInv, MadeIsListed
    <2>5. PICK k \in 1 .. n : order[k] = Created(r)
      BY <1>5, <2>4
    <2> QED
      BY <2>1, <2>5 DEF Created, Result
  <1>9. ASSUME NEW r \in DOMAIN db, NEW i \in DOMAIN s, applied[j] = 1, r \in DOMAIN base[j], FirstUpdate(s, i, r),
               \A l \in DOMAIN s : Updates(s[l], r) => l = i
        PROVE  /\ i \in DOMAIN Rows(j) /\ r \in DOMAIN db'
               /\ \A c \in TextCols \cup Cols : Cell(db'[r], c) = IF c \in Writable(Rows(j)[i])
                                                                THEN Cell(base[j][r], c) ELSE Cell(db[r], c)
    <2>1. /\ i \in DOMAIN Rows(j)
          /\ s[i].image = [c \in Writable(Rows(j)[i]) |-> Cell(base[j][r], c)]
          /\ \A k \in DOMAIN s : s[k].action = "CREATED" => s[k].record # r
      <3>1. ImagesOf(base[j], Rows(j), s)
        BY <1>1, <1>2, <1>9 DEF ImportInv, ImagesKept
      <3> QED
        BY <1>9, <3>1 DEF ImagesOf
    <2>2. r \in DOMAIN db'
      <3>1. \A k \in 1 .. n : ~(order[k].action = "CREATED" /\ order[k].record = r)
        BY <1>5, <2>1
      <3> QED
        BY <1>4, <1>5, <3>1 DEF UndoneRows, Table
    <2>3. PICK image : image = s[i].image /\ image \in Images
      <3>1. s[i] \in ResultRow
        BY <1>1, <1>9
      <3> QED
        BY <3>1 DEF ResultRow
    <2>4. \E k \in 1 .. n : Updates(order[k], r)
      BY <1>5, <1>9 DEF FirstUpdate
    <2>5. \A k \in 1 .. n : Updates(order[k], r) => order[k].image = image
      BY <1>5, <1>9, <2>3
    <2>6. \A c \in TextCols \cup Cols : Cell(db'[r], c) = IF c \in DOMAIN image THEN image[c] ELSE Cell(db[r], c)
      <3>1. \A o \in DOMAIN db', x \in Images :
               /\ \E k \in 1 .. n : Updates(order[k], o)
               /\ \A k \in 1 .. n : Updates(order[k], o) => order[k].image = x
               => \A c \in TextCols \cup Cols :
                     Cell(db'[o], c) = IF c \in DOMAIN x THEN x[c] ELSE Cell(db[o], c)
        BY <1>5, Zenon DEF UndoneRows
      <3> QED
        BY <2>2, <2>3, <2>4, <2>5, <3>1
    <2>7. DOMAIN image = Writable(Rows(j)[i]) /\ \A c \in DOMAIN image : image[c] = Cell(base[j][r], c)
      BY <2>1, <2>3
    <2> QED
      BY <2>1, <2>2, <2>6, <2>7
  <1>10. RollbackRestores
    <2>1. SUFFICES ASSUME NEW o \in Jobs, status[o] # "ROLLED_BACK", status'[o] = "ROLLED_BACK", applied[o] = 1,
                          NEW r \in DOMAIN db \cap DOMAIN base[o], UpdatedOnce(o, r)
                   PROVE  /\ r \in DOMAIN db'
                          /\ \E i \in DOMAIN Rows(o) : \A c \in TextCols \cup Cols :
                                Cell(db'[r], c) = IF c \in Writable(Rows(o)[i])
                                                  THEN Cell(base[o][r], c) ELSE Cell(db[r], c)
      BY DEF RollbackRestores
    <2>2. o = j
      BY <1>7, <2>1
    <2>3. results[j] = s /\ applied[j] = 1
      BY <1>2, <2>1, <2>2
    <2>4. PICK i \in DOMAIN s : FirstUpdate(s, i, r) /\ \A l \in DOMAIN s : Updates(s[l], r) => l = i
      BY <1>1, <2>1, <2>2, <2>3, OnlyUpdateIsFirst
    <2> QED
      BY <1>9, <2>1, <2>2, <2>3, <2>4
  <1>11. Table(db') /\ DOMAIN db' \subseteq DOMAIN db
    BY <1>5 DEF UndoneRows, Table
  <1>12. merged \/ Sparer(db, db')
    <2>1. SUFFICES ASSUME ~merged PROVE Sparer(db, db')
      OBVIOUS
    <2>2. \A l \in DOMAIN s : s[l].action # "UPDATED"
      BY <1>1, <2>1 DEF ImportInv, MergedIsKnown, NoneUpdates
    <2>3. \A k \in 1 .. n : order[k].action # "UPDATED"
      BY <1>5, <2>2
    <2>4. \A r \in DOMAIN db' : db'[r] = db[r]
      BY <1>5, <2>3 DEF UndoneRows, Updates
    <2> QED
      BY <1>11, <2>4 DEF Sparer
  <1>13. \A o \in Jobs : \/ status'[o] = status[o] \/ status'[o] = "OPEN"
                        \/ /\ applied[o] > 0
                           /\ applied[o] = 1 => \A r \in DOMAIN db' : maker[r] # o
    BY <1>2, <1>7, <1>8
  <1>14. ImportInv'
    BY <1>6, <1>7, <1>11, <1>12, <1>13, NothingNewKeeps
  <1> QED
    BY <1>10, <1>14

\* Rows that the file does not find repeated do not mean one property.
LEMMA DistinctKeys ==
    ASSUME NEW a, NEW b, a.city # None, Keys(a) \cap Keys(b) = {} PROVE ~SameIdentity(a, b) /\ ~SameIdentity(b, a)
  <1>1. \A c : c # None => Named("cid", c) = {<<"cid", c>>} /\ Named("addr", c) = {<<"addr", c>>}
    BY DEF Named
  <1>2. a.cid # None /\ a.cid = b.cid => <<"cid", a.cid>> \in Keys(a) \cap Keys(b)
    BY <1>1 DEF Keys
  <1>3. a.addr # None /\ a.addr = b.addr => <<"addr", a.addr>> \in Keys(a) \cap Keys(b)
    BY <1>1 DEF Keys
  <1>4. \A e \in a.ext \cap b.ext : <<"ext", e>> \in Keys(a) \cap Keys(b)
    BY DEF Keys
  <1>5. a.name = b.name /\ a.city = b.city => <<"namecity", a.name, a.city>> \in Keys(a) \cap Keys(b)
    BY DEF Keys, Placed
  <1> QED
    BY <1>2, <1>3, <1>4, <1>5 DEF SameIdentity

LEMMA RowsApart ==
    ASSUME NEW f, FileOK(f), NEW k \in DOMAIN f, NEW l \in DOMAIN f, k # l,
           f[k].valid, f[l].valid, k \notin IntraFile(f), l \notin IntraFile(f)
    PROVE  ~SameIdentity(f[k], f[l])
  <1>1. f[k].city # None /\ f[l].city # None
    BY DEF FileOK, RowOK
  <1>2. k \in Nat /\ l \in Nat /\ k >= 1 /\ l >= 1
    BY DEF FileOK
  <1>3. CASE k < l
    <2>1. Keys(f[k]) \cap Keys(f[l]) = {}
      BY <1>2, <1>3 DEF IntraFile
    <2> QED
      BY <1>1, <2>1, DistinctKeys
  <1>4. CASE l < k
    <2>1. Keys(f[l]) \cap Keys(f[k]) = {}
      BY <1>2, <1>4 DEF IntraFile
    <2> QED
      BY <1>1, <2>1, DistinctKeys
  <1> QED
    BY <1>2, <1>3, <1>4

LEMMA SameEitherWay == ASSUME NEW a, NEW b PROVE SameIdentity(a, b) <=> SameIdentity(b, a)
  BY DEF SameIdentity

LEMMA NewRecordIsTheRow ==
    ASSUME NEW row, NEW x
    PROVE  /\ SameIdentity(NewRecord(row), x) <=> SameIdentity(row, x)
           /\ SameIdentity(x, NewRecord(row)) <=> SameIdentity(x, row)
  <1>1. PICK rec : rec = NewRecord(row)
    OBVIOUS
  <1>2. rec.cid = row.cid /\ rec.ext = row.ext /\ rec.addr = row.addr /\ rec.name = row.name /\ rec.city = row.city
    BY <1>1 DEF NewRecord
  <1> QED
    BY <1>1, <1>2 DEF SameIdentity

\* The records of a commit that only creates are apart from each other and from
\* those that were there.
LEMMA CommitKeepsApart ==
    ASSUME NEW rows, FileOK(rows), NEW plan, NEW acc, AppliedRows(acc, rows, plan, Len(rows)),
           \A k \in DOMAIN rows : acc.results[k].action # "UPDATED", Separate(db),
           \A k \in DOMAIN rows : plan[k].verdict = "NEW" =>
              /\ rows[k].valid /\ k \notin IntraFile(rows)
              /\ \A r \in DOMAIN db : ~SameIdentity(rows[k], db[r])
    PROVE  Separate(acc.db)
  <1>1. PICK n : n = Len(rows) /\ n \in Nat /\ DOMAIN rows = 1 .. n /\ AppliedRows(acc, rows, plan, n)
    BY DEF FileOK
  <1>2. DOMAIN acc.db \subseteq Records /\ DOMAIN db \subseteq DOMAIN acc.db
    BY <1>1 DEF AppliedRows
  <1>3. \A r \in DOMAIN db : acc.db[r] = db[r]
    BY <1>1 DEF AppliedRows, Updates
  <1>4. ASSUME NEW r \in DOMAIN acc.db \ DOMAIN db
        PROVE  \E k \in DOMAIN rows : /\ acc.results[k] = Created(r) /\ acc.db[r] = NewRecord(rows[k])
                                      /\ plan[k].verdict = "NEW"
    <2>1. PICK k \in 1 .. n : acc.results[k] = Created(r)
      BY <1>1 DEF AppliedRows
    <2>2. acc.results[k].action = "CREATED"
      BY <2>1 DEF Created, Result
    <2>3. plan[k].verdict = "NEW"
      BY <1>1, <2>2 DEF AppliedRows
    <2>4. acc.db[r] = NewRecord(rows[k])
      BY <1>1, <1>2, <2>1 DEF AppliedRows
    <2> QED
      BY <1>1, <2>1, <2>3, <2>4
  <1>5. ASSUME NEW r \in DOMAIN acc.db, NEW o \in DOMAIN acc.db, r # o PROVE ~SameIdentity(acc.db[r], acc.db[o])
    <2>1. CASE r \in DOMAIN db /\ o \in DOMAIN db
      BY <1>3, <1>5, <2>1 DEF Separate
    <2>2. CASE r \notin DOMAIN db /\ o \in DOMAIN db
      BY <1>3, <1>4, <2>2, NewRecordIsTheRow
    <2>3. CASE r \in DOMAIN db /\ o \notin DOMAIN db
      BY <1>3, <1>4, <2>3, NewRecordIsTheRow, SameEitherWay
    <2>4. CASE r \notin DOMAIN db /\ o \notin DOMAIN db
      <3>1. PICK k \in DOMAIN rows : /\ acc.results[k] = Created(r) /\ acc.db[r] = NewRecord(rows[k])
                                     /\ plan[k].verdict = "NEW"
        BY <1>4, <2>4
      <3>2. PICK l \in DOMAIN rows : /\ acc.results[l] = Created(o) /\ acc.db[o] = NewRecord(rows[l])
                                     /\ plan[l].verdict = "NEW"
        BY <1>4, <2>4
      <3>3. k # l
        BY <1>5, <3>1, <3>2 DEF Created, Result
      <3>4. ~SameIdentity(rows[k], rows[l])
        BY <3>1, <3>2, <3>3, RowsApart
      <3> QED
        BY <3>1, <3>2, <3>4, NewRecordIsTheRow
    <2> QED
      BY <2>1, <2>2, <2>3, <2>4
  <1> QED
    BY <1>5 DEF Separate

\* What the transaction of a commit makes of the table and of the books.
CommitMakes(q, j, plan, after, n) ==
    /\ j = doing[q].job /\ plan = doing[q].plan /\ doing[q].at = "commit"
    /\ FileOK(Rows(j)) /\ n = Len(Rows(j)) /\ DOMAIN Rows(j) = 1 .. n
    /\ AppliedRows(after, Rows(j), plan, n) /\ DOMAIN after.results = 1 .. n
    /\ db' = after.db /\ results' = [results EXCEPT ![j] = after.results]
    /\ \A r \in Records : maker'[r] = IF \E k \in 1 .. n : after.results[k] = Created(r) THEN j ELSE maker[r]
    /\ merged' = (merged \/ \E k \in 1 .. n : after.results[k].action = "UPDATED")

LEMMA CommitApplies ==
    ASSUME ImportInv, NEW q \in Requests, Commit(q)
    PROVE  \E plan, after, j, n : j \in Jobs /\ n \in Nat /\ CommitMakes(q, j, plan, after, n)
  <1>1. PICK j, plan, update : j = doing[q].job /\ plan = doing[q].plan /\ update = doing[q].update
    OBVIOUS
  <1>2. doing[q].at = "commit" /\ RequestOK(doing[q])
    BY DEF Commit, ImportInv, ImportTyped
  <1>3. j \in Jobs /\ update \in BOOLEAN /\ \A i \in DOMAIN Rows(j) : plan[i] \in Planned
    <2>1. PICK d : d = doing[q] /\ d.at = "commit" /\ RequestOK(d) /\ d.job = j /\ d.plan = plan /\ d.update = update
      BY <1>1, <1>2
    <2>2. d.job \in Jobs /\ d.update \in BOOLEAN /\ \A i \in DOMAIN Rows(d.job) : d.plan[i] \in Planned
      BY <2>1 DEF RequestOK
    <2> QED
      BY <2>1, <2>2
  <1>4. PICK n \in Nat : FileOK(Rows(j)) /\ n = Len(Rows(j)) /\ DOMAIN Rows(j) = 1 .. n
    <2>1. FileOK(Rows(j))
      BY <1>3, FilesAreOK DEF ImportInv
    <2>2. Len(Rows(j)) \in Nat /\ DOMAIN Rows(j) = 1 .. Len(Rows(j))
      BY <2>1, Zenon DEF FileOK
    <2> HIDE DEF FileOK
    <2> QED
      BY <2>1, <2>2, Zenon
  <1>5. PICK after : after = ApplyAll(Rows(j), plan, update)
    OBVIOUS
  <1>6. Cardinality(Records \ UsedIds) >= Len(Rows(j)) /\ after.ok
    BY <1>1, <1>5 DEF Commit
  <1>7. Table(db) /\ DOMAIN db \subseteq UsedIds
    BY DEF ImportInv, ImportTyped, JobsInOrder
  <1>8. AppliedRows(after, Rows(j), plan, n)
    BY <1>3, <1>4, <1>5, <1>6, <1>7, ApplyAllApplies
  <1>9. DOMAIN after.results = 1 .. n
    <2>1. after.results \in Seq(ResultRow) /\ Len(after.results) = n
      BY <1>8 DEF AppliedRows
    <2> QED
      BY <2>1
  <1>10. /\ db' = after.db /\ results' = [results EXCEPT ![j] = after.results]
         /\ maker' = [r \in Records |-> IF \E k \in DOMAIN after.results : after.results[k] = Created(r)
                                        THEN j ELSE maker[r]]
         /\ merged' = (merged \/ \E k \in DOMAIN after.results : after.results[k].action = "UPDATED")
    BY <1>1, <1>5, Zenon DEF Commit, Created
  <1>11. \A r \in Records : maker'[r] = IF \E k \in 1 .. n : after.results[k] = Created(r) THEN j ELSE maker[r]
    BY <1>9, <1>10
  <1> QED
    <2>1. CommitMakes(q, j, plan, after, n)
      BY <1>1, <1>2, <1>4, <1>8, <1>9, <1>10, <1>11 DEF CommitMakes
    <2> QED
      BY <1>3, <2>1

LEMMA CommitKeeps == ASSUME ImportInv, NEW q \in Requests, Commit(q) PROVE ImportInv' /\ RollbackRestores
  <1>1. PICK plan, after, j, n : j \in Jobs /\ n \in Nat /\ CommitMakes(q, j, plan, after, n)
    BY CommitApplies
  <1>2. /\ j \in Jobs /\ n \in Nat
        /\ j = doing[q].job /\ plan = doing[q].plan /\ doing[q].at = "commit"
        /\ FileOK(Rows(j)) /\ n = Len(Rows(j)) /\ DOMAIN Rows(j) = 1 .. n
        /\ AppliedRows(after, Rows(j), plan, n) /\ DOMAIN after.results = 1 .. n
        /\ db' = after.db /\ results' = [results EXCEPT ![j] = after.results]
        /\ \A r \in Records : maker'[r] = IF \E k \in 1 .. n : after.results[k] = Created(r) THEN j ELSE maker[r]
        /\ merged' = (merged \/ \E k \in 1 .. n : after.results[k].action = "UPDATED")
    BY <1>1 DEF CommitMakes
  <1> DEFINE s == after.results
  <1>3. s \in Seq(ResultRow) /\ Table(db') /\ DOMAIN db \subseteq DOMAIN db'
    BY <1>2 DEF AppliedRows
  <1>4. /\ \A r \in DOMAIN db' \ DOMAIN db : \E k \in 1 .. n : s[k] = Created(r)
        /\ \A k \in 1 .. n : s[k].action = "CREATED" =>
              s[k] = Created(s[k].record) /\ s[k].record \notin UsedIds /\ plan[k].verdict = "NEW"
        /\ \A r \in DOMAIN db, k \in 1 .. n : FirstUpdate(s, k, r) =>
              s[k].image = [c \in Writable(Rows(j)[k]) |-> Cell(db[r], c)]
    <2>1. PICK d, rows : d = after.db /\ d = db' /\ rows = Rows(j) /\ AppliedRows(after, rows, plan, n)
      BY <1>2
    <2>2. \A r \in DOMAIN d \ DOMAIN db : \E k \in 1 .. n : s[k] = Created(r)
      BY <2>1, Zenon DEF AppliedRows
    <2>3. \A k \in 1 .. n : s[k].action = "CREATED" =>
              s[k] = Created(s[k].record) /\ s[k].record \notin UsedIds /\ plan[k].verdict = "NEW"
      BY <2>1 DEF AppliedRows
    <2>4. \A r \in DOMAIN db, k \in 1 .. n : FirstUpdate(s, k, r) =>
              s[k].image = [c \in Writable(rows[k]) |-> Cell(db[r], c)]
      BY <2>1, Zenon DEF AppliedRows
    <2> QED
      BY <2>1, <2>2, <2>3, <2>4
  <1>5. /\ results \in [Jobs -> Seq(ResultRow)] /\ applied \in [Jobs -> Nat] /\ DOMAIN doing = Requests
        /\ DOMAIN base = Jobs /\ maker \in [Records -> Jobs \cup {NoJob}] /\ DOMAIN db \subseteq UsedIds
        /\ status \in [Jobs -> {"OPEN", "COMPLETED", "ROLLED_BACK"}]
    <2>1. ImportTyped /\ JobsInOrder
      BY DEF ImportInv
    <2>2. DOMAIN db \subseteq UsedIds
      BY <2>1, Zenon DEF JobsInOrder
    <2> QED
      BY <2>1, <2>2, Zenon DEF ImportTyped
  <1>6. /\ UNCHANGED <<file, edits, overlapped>> /\ status' = [status EXCEPT ![j] = "COMPLETED"]
        /\ applied' = [applied EXCEPT ![j] = @ + 1] /\ base' = [base EXCEPT ![j] = db]
        /\ doing' = [doing EXCEPT ![q] = Idle]
    BY <1>2, Zenon DEF Commit, Done
  <1>7. \A x : Rows(x)' = Rows(x)
    BY <1>6 DEF Rows
  <1>8. Idle.at = "idle" /\ Idle.job = NoJob /\ Idle.update = FALSE
    BY DEF Idle
  <1>9. \A o \in Requests : doing'[o].at # "idle" => o # q /\ doing'[o] = doing[o]
    BY <1>5, <1>6, <1>8
  <1>10. /\ results'[j] = s /\ applied'[j] = applied[j] + 1 /\ base'[j] = db /\ status'[j] = "COMPLETED"
         /\ \A o \in Jobs : o # j => /\ results'[o] = results[o] /\ applied'[o] = applied[o]
                                     /\ base'[o] = base[o] /\ status'[o] = status[o]
         /\ \A o \in Jobs : applied[o] \in Nat /\ applied'[o] >= applied[o]
    BY <1>2, <1>5, <1>6
  <1>11. ASSUME NEW r \in Records, maker'[r] # maker[r] PROVE maker'[r] = j /\ maker[r] = NoJob
    <2>1. PICK k \in 1 .. n : s[k] = Created(r) /\ maker'[r] = j
      BY <1>2, <1>11
    <2>2. s[k].action = "CREATED" /\ s[k].record = r
      BY <2>1 DEF Created, Result
    <2>3. r \notin UsedIds
      BY <1>4, <2>2
    <2> QED
      BY <2>1, <2>3 DEF UsedIds
  <1>12. ImportTyped'
    <2>1. ASSUME NEW o \in Requests PROVE RequestOK(doing[o])'
      <3>1. CASE doing'[o] = doing[o]
        BY <1>7, <3>1 DEF ImportInv, ImportTyped, RequestOK
      <3>2. CASE doing'[o] = Idle
        BY <1>8, <3>2 DEF RequestOK
      <3> QED
        BY <1>5, <1>6, <3>1, <3>2
    <2>2. results' \in [Jobs -> Seq(ResultRow)] /\ DOMAIN base' = Jobs /\ DOMAIN doing' = Requests
      BY <1>2, <1>3, <1>5, <1>6
    <2>3. applied' \in [Jobs -> Nat] /\ status' \in [Jobs -> {"OPEN", "COMPLETED", "ROLLED_BACK"}]
      <3>1. PICK x \in Nat : x = applied[j]
        BY <1>2, <1>5
      <3>2. applied' = [applied EXCEPT ![j] = x + 1]
        BY <1>6, <3>1
      <3>3. x + 1 \in Nat
        OBVIOUS
      <3>4. applied' \in [Jobs -> Nat]
        BY <1>5, <3>2, <3>3
      <3> QED
        BY <1>5, <1>6, <3>4
    <2>4. maker' \in [Records -> Jobs \cup {NoJob}]
      BY <1>5 DEF Commit, ImportInv, ImportTyped, RequestOK
    <2>5. merged' \in BOOLEAN
      BY <1>2 DEF ImportInv, ImportTyped
    <2>6. file' \in [Jobs -> DOMAIN Files] /\ edits' \in 0 .. MaxEdits /\ overlapped' \in BOOLEAN
      BY <1>6 DEF ImportInv, ImportTyped
    <2> QED
      BY <1>3, <2>1, <2>2, <2>3, <2>4, <2>5, <2>6 DEF ImportTyped
  <1>13. JobsInOrder'
    <2>1. \A r \in Records : maker[r] # NoJob => maker'[r] # NoJob
      BY <1>2, ImportAssumption
    <2>2. \A r \in DOMAIN db' : r \in UsedIds'
      <3>1. \A r \in DOMAIN db : r \in UsedIds'
        BY <1>5, <2>1 DEF UsedIds
      <3>2. \A r \in DOMAIN db' \ DOMAIN db : r \in Records /\ maker'[r] = j
        BY <1>2, <1>3, <1>4 DEF Table
      <3>3. j # NoJob
        BY <1>2, ImportAssumption
      <3> QED
        BY <3>1, <3>2, <3>3 DEF UsedIds
    <2>3. \A o \in Jobs : status'[o] # "OPEN" => applied'[o] > 0
      BY <1>10 DEF ImportInv, JobsInOrder
    <2>4. \A r \in Records : maker'[r] # NoJob => applied'[maker'[r]] > 0
      <3>1. ASSUME NEW r \in Records, maker'[r] # NoJob PROVE applied'[maker'[r]] > 0
        <4>1. CASE maker'[r] = j
          BY <1>2, <1>10, <4>1
        <4>2. CASE maker'[r] # j
          <5>1. PICK i : i = maker[r] /\ i = maker'[r] /\ i \in Jobs
            BY <1>5, <1>11, <3>1, <4>2
          <5>2. applied[i] > 0
            BY <3>1, <5>1 DEF ImportInv, JobsInOrder
          <5> QED
            BY <1>10, <5>1, <5>2
        <4> QED
          BY <4>1, <4>2
      <3> QED
        BY <3>1
    <2>5. ASSUME NEW o \in Requests, doing'[o].at = "rollback"
          PROVE  /\ applied'[doing'[o].job] > 0
                 /\ applied'[doing'[o].job] = 1 => doing'[o].plan = results'[doing'[o].job]
      <3>1. PICK i : i = doing[o].job /\ i \in Jobs /\ doing'[o] = doing[o] /\ applied[i] > 0
        BY <1>9, <2>5 DEF ImportInv, ImportTyped, RequestOK, JobsInOrder
      <3>2. applied'[i] > 0
        BY <1>10, <3>1
      <3>3. applied'[i] = 1 => i # j /\ applied[i] = 1
        BY <1>10, <3>1
      <3> QED
        BY <1>10, <2>5, <3>1, <3>2, <3>3 DEF ImportInv, JobsInOrder
    <2> QED
      BY <2>2, <2>3, <2>4, <2>5 DEF JobsInOrder
  <1>14. MadeIsListed'
    <2>1. ASSUME NEW r \in Records, maker'[r] # NoJob, applied'[maker'[r]] = 1
          PROVE  /\ \E k \in DOMAIN results'[maker'[r]] : results'[maker'[r]][k] = Created(r)
                 /\ r \in DOMAIN db' => status'[maker'[r]] # "ROLLED_BACK"
      <3>1. CASE maker'[r] = j
        <4>1. applied[j] = 0
          BY <1>2, <1>10, <2>1, <3>1
        <4>2. maker[r] # j
          BY <1>2, <4>1, ImportAssumption DEF ImportInv, JobsInOrder
        <4>3. \E k \in 1 .. n : s[k] = Created(r)
          BY <1>2, <3>1, <4>2
        <4> QED
          BY <1>2, <1>10, <3>1, <4>3
      <3>2. CASE maker'[r] # j
        <4>1. PICK i : i = maker[r] /\ i = maker'[r] /\ i \in Jobs /\ i # j
          BY <1>5, <1>11, <2>1, <3>2
        <4>2. /\ \E k \in DOMAIN results[i] : results[i][k] = Created(r)
              /\ r \in DOMAIN db => status[i] # "ROLLED_BACK"
          <5>1. applied[i] = 1
            BY <1>10, <2>1, <4>1
          <5>2. MadeIsListed /\ i # NoJob
            BY <2>1, <4>1 DEF ImportInv
          <5> QED
            BY <4>1, <5>1, <5>2 DEF MadeIsListed
        <4>3. r \in DOMAIN db' => r \in DOMAIN db
          BY <1>2, <1>4, <4>1
        <4> QED
          BY <1>10, <4>1, <4>2, <4>3
      <3> QED
        BY <3>1, <3>2
    <2> QED
      BY <2>1 DEF MadeIsListed, Created
  <1>15. MergedIsKnown'
    <2>1. SUFFICES ASSUME ~merged' PROVE /\ \A o \in Jobs : NoneUpdates(results'[o])
                                         /\ \A o \in Requests : doing'[o].at = "rollback" => NoneUpdates(doing'[o].plan)
      BY DEF MergedIsKnown, NoneUpdates
    <2>2. ~merged /\ NoneUpdates(s)
      BY <1>2, <2>1 DEF NoneUpdates
    <2> QED
      BY <1>9, <1>10, <2>2 DEF ImportInv, MergedIsKnown
  <1>16. OneCommit'
    BY <1>6, <1>9 DEF ImportInv, OneCommit
  <1>17. Apart'
    <2>1. SUFFICES ASSUME ~overlapped, ~merged'
                   PROVE  /\ Separate(db')
                          /\ \A o \in Requests : doing'[o].at # "commit"
      BY <1>6 DEF Apart, Separate
    <2>2. ~merged /\ \A k \in 1 .. n : s[k].action # "UPDATED"
      BY <1>2, <2>1
    <2>3. ASSUME NEW o \in Requests PROVE doing'[o].at # "commit"
      BY <1>2, <1>9, <2>1 DEF ImportInv, OneCommit
    <2>4. Separate(db)
      BY <2>1, <2>2 DEF ImportInv, Apart
    <2>5. \A k \in DOMAIN Rows(j) : plan[k].verdict = "NEW" =>
              /\ Rows(j)[k].valid /\ k \notin IntraFile(Rows(j))
              /\ \A r \in DOMAIN db : ~SameIdentity(Rows(j)[k], db[r])
      BY <1>2, <2>1, <2>2 DEF ImportInv, ImportTyped, RequestOK, Apart
    <2>6. Separate(after.db)
      BY <1>2, <2>2, <2>4, <2>5, CommitKeepsApart
    <2> QED
      BY <1>2, <2>3, <2>6
  <1>18. ImagesKept'
    <2>1. SUFFICES ASSUME NEW o \in Jobs, applied'[o] = 1 PROVE ImagesOf(base'[o], Rows(o), results'[o])
      BY <1>7 DEF ImagesKept, ImagesOf, FirstUpdate, Updates
    <2>2. CASE o # j
      BY <1>10, <2>1, <2>2 DEF ImportInv, ImagesKept
    <2>3. CASE o = j
      <3>1. \A k \in 1 .. n : s[k].action = "CREATED" => s[k].record \notin DOMAIN db
        BY <1>4, <1>5
      <3>2. ImagesOf(db, Rows(j), s)
        BY <1>2, <1>4, <3>1 DEF ImagesOf
      <3> QED
        BY <1>10, <2>3, <3>2
    <2> QED
      BY <2>2, <2>3
  <1>19. RollbackRestores
    BY <1>10 DEF RollbackRestores
  <1> QED
    BY <1>12, <1>13, <1>14, <1>15, <1>16, <1>17, <1>18, <1>19 DEF ImportInv

LEMMA ImportInvStep == ImportInv /\ [Next]_vars => ImportInv' /\ RollbackRestores
  <1>1. ASSUME ImportInv, UNCHANGED vars PROVE ImportInv' /\ RollbackRestores
    <2>1. Table(db) /\ edits \in 0 .. MaxEdits /\ DOMAIN doing = Requests
          /\ status \in [Jobs -> {"OPEN", "COMPLETED", "ROLLED_BACK"}]
      BY <1>1 DEF ImportInv, ImportTyped
    <2>2. Sparer(db, db')
      BY <1>1, <2>1, SameTable DEF vars
    <2>3. ImportInv'
      BY <1>1, <2>1, <2>2, SparerIsTable, NothingNewKeeps DEF vars
    <2>4. RollbackRestores
      BY <1>1 DEF RollbackRestores, vars
    <2> QED
      BY <2>3, <2>4
  <1>2. ASSUME ImportInv, NEW q \in Requests, CommitFails(q) PROVE ImportInv' /\ RollbackRestores
    BY <1>2, RequestEndsKeeps DEF CommitFails
  <1>3. ASSUME ImportInv, NEW q \in Requests, RollbackFails(q) PROVE ImportInv' /\ RollbackRestores
    BY <1>3, RequestEndsKeeps DEF RollbackFails
  <1>4. ASSUME ImportInv, NEW q \in Requests,
               \/ \E j \in Jobs, update \in BOOLEAN : BeginCommit(q, j, update)
               \/ \E j \in Jobs : BeginRollback(q, j)
               \/ Commit(q) \/ CommitFails(q) \/ Rollback(q) \/ RollbackFails(q)
        PROVE  ImportInv' /\ RollbackRestores
    BY <1>2, <1>3, <1>4, BeginCommitKeeps, BeginRollbackKeeps, CommitKeeps, RollbackKeeps
  <1>5. ASSUME ImportInv, NEW r \in Records, DeleteRecord(r) \/ \E c \in Cols : EditNumber(r, c)
        PROVE  ImportInv' /\ RollbackRestores
    BY <1>5, DeleteRecordKeeps, EditNumberKeeps
  <1>6. ASSUME ImportInv, Next PROVE ImportInv' /\ RollbackRestores
    BY <1>4, <1>5, <1>6, PreviewKeeps DEF Next
  <1> QED
    BY <1>1, <1>6

LEMMA PreviewAgrees == PreviewTellsCommit
  <1>1. ASSUME NEW f, NEW d, NEW match, NEW i \in DOMAIN f
        PROVE  IF PreviewVerdicts(f, d, match)[i] # "ERROR"
               THEN Plan(f, d, match)[i].verdict = PreviewVerdicts(f, d, match)[i]
               ELSE Plan(f, d, match)[i].verdict = "ERROR" \/ ~f[i].resolves
    <2>1. PICK v : v = Verdict(f[i], d, match[i]) /\ v # "ERROR"
      BY DEF Verdict
    <2>2. PreviewVerdicts(f, d, match)[i] = IF ~f[i].valid \/ ~f[i].resolves THEN "ERROR"
                                            ELSE IF i \in IntraFile(f) THEN "DUPLICATE" ELSE v
      BY <2>1 DEF PreviewVerdicts
    <2>3. Plan(f, d, match)[i] = IF ~f[i].valid THEN [verdict |-> "ERROR", match |-> NoRecord]
                                 ELSE IF i \in IntraFile(f) THEN [verdict |-> "DUPLICATE", match |-> NoRecord]
                                 ELSE [verdict |-> v, match |-> match[i]]
      BY <2>1 DEF Plan
    <2>4. CASE ~f[i].valid
      BY <2>2, <2>3, <2>4
    <2>5. CASE f[i].valid /\ i \in IntraFile(f)
      BY <2>2, <2>3, <2>5
    <2>6. CASE f[i].valid /\ i \notin IntraFile(f)
      BY <2>1, <2>2, <2>3, <2>6
    <2> QED
      BY <2>4, <2>5, <2>6
  <1> QED
    BY <1>1, Zenon DEF PreviewTellsCommit

LEMMA ImportInvTells == ASSUME ImportInv PROVE TypeOK /\ NoSecondIdentity /\ CreatedIsListed /\ PreviewTellsCommit
  <1>1. TypeOK
    <2>1. ASSUME NEW j \in Jobs, NEW i \in DOMAIN results[j]
          PROVE  /\ results[j][i].action \in {"CREATED", "UPDATED", "SKIPPED_ERROR", "SKIPPED_DUPLICATE"}
                 /\ results[j][i].record \in Records \cup {NoRecord}
                 /\ DOMAIN results[j][i].image \subseteq TextCols \cup Cols
      <3>1. results[j] \in Seq(ResultRow)
        BY DEF ImportInv, ImportTyped
      <3>2. results[j][i] \in ResultRow
        BY <3>1
      <3> QED
        BY <3>2, ImageFields DEF ResultRow
    <2>2. ASSUME NEW q \in Requests
          PROVE  doing[q].at \in {"idle", "commit", "rollback"} /\ doing[q].job \in Jobs \cup {NoJob}
      BY DEF ImportInv, ImportTyped, RequestOK
    <2> QED
      BY <2>1, <2>2 DEF ImportInv, ImportTyped, Table, TypeOK
  <1>2. NoSecondIdentity
    BY DEF ImportInv, Apart, Separate, NoSecondIdentity
  <1>3. CreatedIsListed
    <2>1. ASSUME NEW r \in DOMAIN db, maker[r] # NoJob, applied[maker[r]] = 1
          PROVE  /\ status[maker[r]] # "ROLLED_BACK"
                 /\ Result("CREATED", r, <<>>) \in Range(results[maker[r]])
      <3>1. r \in Records
        BY DEF ImportInv, ImportTyped, Table
      <3>2. /\ \E k \in DOMAIN results[maker[r]] : results[maker[r]][k] = Created(r)
            /\ status[maker[r]] # "ROLLED_BACK"
        BY <2>1, <3>1 DEF ImportInv, MadeIsListed
      <3> QED
        BY <3>2 DEF Range, Created
    <2> QED
      BY <2>1 DEF CreatedIsListed
  <1> QED
    BY <1>1, <1>2, <1>3, PreviewAgrees
-------------------------------------------------------------------------------
(* The theorems.  No part writes what another one reads, so each keeps its     *)
(* invariant while the others move.                                            *)

RecordsInv == TierInv /\ AskInv /\ PlanInv /\ ProjectInv /\ MeterInv /\ ImportInv

LEMMA RecordsInvInit == RecordsInit => RecordsInv
  BY TierInvInit, AskInvInit, PlanInvInit, ProjectInvInit, MeterInvInit, ImportInvInit DEF RecordsInit, RecordsInv

\* A part in which nothing happens keeps its invariant.
LEMMA PartsAtRest ==
    ASSUME RecordsInv
    PROVE  /\ UNCHANGED tiering => TierInv'
           /\ UNCHANGED asking => AskInv'
           /\ UNCHANGED plans => PlanInv'
           /\ UNCHANGED projects => ProjectInv'
           /\ UNCHANGED metering => MeterInv'
           /\ UNCHANGED vars => ImportInv'
  BY TierInvStep, AskInvStep, PlanInvStep, ProjectInvStep, MeterInvStep, ImportInvStep DEF RecordsInv

LEMMA RecordsInvStep == RecordsInv /\ [RecordsNext]_all => RecordsInv'
  <1> SUFFICES ASSUME RecordsInv, [RecordsNext]_all PROVE RecordsInv'
    OBVIOUS
  <1>1. CASE UNCHANGED all
    BY <1>1, PartsAtRest DEF all, RecordsInv
  <1>2. CASE ImportStep
    BY <1>2, PartsAtRest, ImportInvStep DEF ImportStep, RecordsInv
  <1>3. CASE TieringStep
    BY <1>3, PartsAtRest, TierInvStep DEF TieringStep, RecordsInv
  <1>4. CASE MeteringStep
    BY <1>4, PartsAtRest, MeterInvStep DEF MeteringStep, RecordsInv
  <1>5. CASE AskStep
    BY <1>5, PartsAtRest, AskInvStep DEF AskStep, RecordsInv
  <1>6. CASE PlanStep
    BY <1>6, PartsAtRest, PlanInvStep DEF PlanStep, RecordsInv
  <1>7. CASE ProjectStep
    BY <1>7, PartsAtRest, ProjectInvStep DEF ProjectStep, RecordsInv
  <1> QED
    BY <1>1, <1>2, <1>3, <1>4, <1>5, <1>6, <1>7 DEF RecordsNext

\* Every state of the books satisfies the invariant.
THEOREM RecordsStaySound == RecordsSpec => []RecordsInv
  BY RecordsInvInit, RecordsInvStep, PTL DEF RecordsSpec

\* The tier ledger names the class and the restore of what is stored, for any
\* number of objects and overlapping passes, whatever policies and failures.
THEOREM LedgerStaysTrue == RecordsSpec => []LedgerIsTrue
  <1>1. RecordsInv => LedgerIsTrue
    BY TierInvTells DEF RecordsInv, LedgerIsTrue
  <1> QED
    BY <1>1, RecordsStaySound, PTL

\* Questions to the assistant are answered in scope, accounted for and metered,
\* however many buildings there are and however long its loop may run.
THEOREM AnswersStayAccounted == RecordsSpec => []AnswersAreAccounted
  <1>1. RecordsInv => AnswersAreAccounted
    BY AskInvTells DEF RecordsInv, AnswersAreAccounted
  <1> QED
    BY <1>1, RecordsStaySound, PTL

\* The edges, links and files of a site plan, and the dates and the filing of
\* projects, agree however many calls overlap.
THEOREM PlansStayFit == RecordsSpec => []PlansFit
  <1>1. RecordsInv => PlansFit
    BY PlanInvTells, ProjectInvTells DEF RecordsInv, PlansFit
  <1> QED
    BY <1>1, RecordsStaySound, PTL

\* Imports that do not overlap leave no two records with one identity, what an
\* import created stays listed in its results and the preview tells what the
\* commit does, for files of any length and any number of requests; a cost report
\* adds up, each row at the rate of its day, whatever was metered.
THEOREM BooksStayTrue == RecordsSpec => []BooksAreTrue
  <1>1. RecordsInv => BooksAreTrue
    BY ImportInvTells, MeterInvTells DEF RecordsInv, BooksAreTrue
  <1> QED
    BY <1>1, RecordsStaySound, PTL

\* A rollback gives records the values of before its commit, a pass only ever
\* moves an object colder, later rates and deleted properties leave the reports
\* of earlier days alone, and taking a document out of one project spares the
\* one it was filed under since.
THEOREM PastStaysKept == RecordsSpec => BooksKeepThePast
  <1>1. ASSUME RecordsInv, [RecordsNext]_all PROVE [BooksStep]_all
    <2>1. CASE UNCHANGED all
      BY <2>1
    <2>2. ASSUME part = "import", RecordsNext PROVE RollbackRestores
      <3>1. Next
        BY <2>2, Zenon DEF RecordsNext, ImportStep, TieringStep, MeteringStep, AskStep, PlanStep, ProjectStep
      <3> QED
        BY <1>1, <3>1, ImportInvStep DEF RecordsInv
    <2>3. ASSUME part = "tiering", RecordsNext PROVE T!MovesColder
      <3>1. T!Next
        BY <2>3, Zenon DEF RecordsNext, ImportStep, TieringStep, MeteringStep, AskStep, PlanStep, ProjectStep
      <3> QED
        BY <1>1, <3>1, TierInvStep DEF RecordsInv
    <2>4. ASSUME part = "metering", RecordsNext PROVE C!KeepsClosedPeriods
      <3>1. C!Next
        BY <2>4, Zenon DEF RecordsNext, ImportStep, TieringStep, MeteringStep, AskStep, PlanStep, ProjectStep
      <3> QED
        BY <1>1, <3>1, MeterInvStep DEF RecordsInv
    <2>5. ASSUME part = "projects", RecordsNext PROVE P!DetachSpares
      <3>1. P!ProjectNext
        BY <2>5, Zenon DEF RecordsNext, ImportStep, TieringStep, MeteringStep, AskStep, PlanStep, ProjectStep
      <3> QED
        BY <1>1, <3>1, DetachesOwn DEF RecordsInv
    <2>6. RecordsNext => BooksStep
      BY <2>2, <2>3, <2>4, <2>5 DEF BooksStep
    <2> QED
      BY <1>1, <2>1, <2>6
  <1> QED
    BY <1>1, RecordsStaySound, PTL DEF RecordsSpec, BooksKeepThePast
===============================================================================
