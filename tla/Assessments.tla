----------------------------- MODULE Assessments -----------------------------
(* One assessment and one task of its template, with one required question:  *)
(* answers, task responses, completion and the life of the assessment        *)
(* (assessment-service.ts).                                                  *)
(*                                                                           *)
(* Every call loads the assessment, refuses when it is locked, and writes    *)
(* later by id.  A sheet of answers (assessment-sheet-service.ts) is a       *)
(* sequence of such calls, each loading again.  A retry that carries a       *)
(* device's id finds the row it made and changes nothing, so it is left out. *)
EXTENDS Integers, Sequences, FiniteSets

CONSTANTS Tasks,          \* what a template may say of a task and its question
          Calls,          \* the requests the servers run at one time
          MaxInstances,   \* bound on the numbers of task responses
          MaxRows         \* bound on the answer rows of one response

VARIABLES status,
          task,       \* [completable, repeatable, photo] of the template
          responses,  \* the numbers of the task responses there are
          answers,    \* for each, its answer rows: whether the row answers
          complete,   \* for each, isComplete
          call,       \* what each request is doing
          raced       \* which of the code's unguarded races have happened
assessmentVars == <<status, task, responses, answers, complete, call, raced>>

Instances == 1..MaxInstances
Statuses == {"DRAFT", "IN_PROGRESS", "COMPLETED", "RELEASED"}
Gone == -1    \* the response a call works on was deleted
First == 0    \* the answer names no response
Resting == [at |-> "idle", op |-> "none", seen |-> "DRAFT", to |-> "DRAFT",
            on |-> First, row |-> 0, value |-> FALSE]

Init ==
    /\ status = "DRAFT"
    /\ task \in Tasks
    /\ responses = {}
    /\ answers = [i \in Instances |-> <<>>]
    /\ complete = [i \in Instances |-> FALSE]
    /\ call = [c \in Calls |-> Resting]
    /\ raced = {}

Locked(s) == s \in {"COMPLETED", "RELEASED"}

\* The operations that start an assessment that is a draft.
Starting == {"save", "add"}

\* A call of the operation op loads the assessment.
Loads(c, op, fields) ==
    /\ call[c].at = "idle"
    /\ call' = [call EXCEPT ![c] = [fields EXCEPT !.op = op, !.seen = IF op \in Starting THEN status ELSE @]]
    /\ UNCHANGED <<status, task, responses, answers, complete, raced>>

Ends(c) == call' = [call EXCEPT ![c] = Resting]

At(c, op, step) == call[c].op = op /\ call[c].at = step

\* markStarted, from the status the call has seen.
Started(seen) == IF seen = "DRAFT" THEN "IN_PROGRESS" ELSE status

------------------------------------------------------------------------------
(* Task responses.                                                           *)

\* Mutant of MayAdd: a task that is not repeatable gets a second response.
MayAddAny(n) == TRUE

MayAdd(n) == task.repeatable \/ n = 1

\* addTaskResponse asks for the next number, ensureTaskResponse (a sheet's
\* "Response #") for one it names.
LoadAdd(c, n) ==
    /\ n \in Instances \ responses
    /\ ~Locked(status) /\ MayAdd(n)
    /\ Loads(c, "add", [Resting EXCEPT !.at = "loaded", !.on = n])

\* Two responses of one number are refused by the database.
AddResponse(c) ==
    /\ At(c, "add", "loaded")
    /\ IF call[c].on \in responses
       THEN UNCHANGED <<status, responses>>
       ELSE responses' = responses \cup {call[c].on} /\ status' = Started(call[c].seen)
    /\ Ends(c)
    /\ UNCHANGED <<task, answers, complete, raced>>

LoadDelete(c, i) ==
    /\ i \in responses /\ task.repeatable /\ ~Locked(status)
    /\ Loads(c, "delete", [Resting EXCEPT !.at = "loaded", !.on = i])

\* The answers go with the response; whoever works on it finds it gone.
DeleteResponse(c) ==
    /\ At(c, "delete", "loaded")
    /\ responses' = responses \ {call[c].on}
    /\ answers' = [i \in Instances |-> IF i = call[c].on THEN <<>> ELSE answers[i]]
    /\ complete' = [i \in Instances |-> i # call[c].on /\ complete[i]]
    /\ call' = [q \in Calls |->
                  IF q = c THEN Resting
                  ELSE IF call[q].at # "idle" /\ call[q].on = call[c].on /\ call[q].op # "add"
                       THEN [call[q] EXCEPT !.on = Gone]
                  ELSE call[q]]
    /\ UNCHANGED <<status, task, raced>>

------------------------------------------------------------------------------
(* Answers.                                                                  *)

LoadSave(c, i, v) ==
    /\ ~Locked(status)
    /\ i \in responses \cup {First}
    /\ Loads(c, "save", [Resting EXCEPT !.at = "loaded", !.on = i, !.value = v])

\* Mutant of RowsOf: an existing answer is never found.
RowsOfNone(i) == {0}

\* The rows an answer may be found in; 0 is none.
RowsOf(i) == IF answers[i] = <<>> THEN {0} ELSE DOMAIN answers[i]

\* The call is about to make the first answer of response i.
Creating(q, i) == call[q].at = "found" /\ call[q].on = i /\ call[q].row = 0

\* The response an answer is for: firstResponse, when it names none.
AnswersFor(on) ==
    IF on # First THEN {on}
    ELSE IF responses = {} THEN {1} ELSE {i \in responses : \A j \in responses : i <= j}

\* The response (the first one, made if there is none), the start of the
\* assessment, and the answer there is.
FindAnswer(c) ==
    /\ At(c, "save", "loaded")
    /\ IF call[c].on = Gone
       THEN Ends(c) /\ UNCHANGED <<status, responses, raced>>
       ELSE \E i \in AnswersFor(call[c].on) :
              /\ responses' = responses \cup {i}
              /\ status' = Started(call[c].seen)
              /\ \E k \in RowsOf(i) :
                   call' = [call EXCEPT ![c] = [@ EXCEPT !.at = "found", !.on = i, !.row = k, !.seen = "DRAFT"]]
              /\ raced' = raced \cup {"answer" : q \in {q \in Calls \ {c} : Creating(q, i)}}
    /\ UNCHANGED <<task, answers, complete>>

\* A file for an answer there is: a photo question is answered by its files.
LoadFile(c, i) ==
    /\ i \in responses /\ answers[i] # <<>> /\ ~Locked(status)
    /\ \E k \in RowsOf(i) :
         Loads(c, "file", [Resting EXCEPT !.at = "found", !.on = i, !.row = k, !.value = TRUE])

\* What a row says after the call's write, when it said old before.
RowAfter(c, old) ==
    IF task.photo THEN old \/ call[c].op = "file" ELSE IF call[c].op = "file" THEN old ELSE call[c].value

\* The answers to a question with the row the call makes or changes.
RowsAfter(c, said) ==
    IF call[c].row = 0 THEN Append(said, RowAfter(c, FALSE))
    ELSE [said EXCEPT ![call[c].row] = RowAfter(c, @)]

WriteAnswer(c) ==
    /\ call[c].at = "found"
    /\ IF call[c].on = Gone
       THEN Ends(c) /\ UNCHANGED <<answers, raced>>
       ELSE /\ call[c].row = 0 => Len(answers[call[c].on]) < MaxRows
            /\ answers' = [answers EXCEPT ![call[c].on] = RowsAfter(c, @)]
            /\ call' = [call EXCEPT ![c] = [Resting EXCEPT !.at = "wrote", !.on = call[c].on]]
            /\ raced' = raced \cup {"completion" : q \in {q \in Calls : call[q].at = "decided" /\ call[q].on = call[c].on}}
    /\ UNCHANGED <<status, task, responses, complete>>

\* Whether a read of the answers may find the required question answered, or
\* may not: of several rows, any may be the last.
AnsweredSomehow(i) == {answers[i][k] : k \in DOMAIN answers[i]} \cup (IF answers[i] = <<>> THEN {FALSE} ELSE {})

\* Mutant of NextComplete: what somebody marked complete is never taken back.
NextCompleteSticks(i, satisfied) == IF task.completable THEN complete[i] ELSE satisfied

NextComplete(i, satisfied) == IF task.completable THEN complete[i] /\ satisfied ELSE satisfied

\* refreshCompletion: the read and the decision.
ReadCompletion(c) ==
    /\ call[c].at = "wrote"
    /\ \/ call[c].on = Gone /\ Ends(c)
       \/ /\ call[c].on # Gone
          /\ \E satisfied \in AnsweredSomehow(call[c].on) :
               LET next == NextComplete(call[c].on, satisfied)
               IN IF next = complete[call[c].on] THEN Ends(c)
                  ELSE call' = [call EXCEPT ![c].at = "decided", ![c].value = next]
    /\ UNCHANGED <<status, task, responses, answers, complete, raced>>

\* setTaskResponseComplete: nobody completes a task that misses an answer.
LoadMark(c, i, v) ==
    /\ i \in responses /\ ~Locked(status) /\ task.completable
    /\ v => TRUE \in AnsweredSomehow(i)
    /\ Loads(c, "none", [Resting EXCEPT !.at = "decided", !.on = i, !.value = v])

WriteCompletion(c) ==
    /\ call[c].at = "decided"
    /\ complete' = IF call[c].on = Gone THEN complete ELSE [complete EXCEPT ![call[c].on] = call[c].value]
    /\ Ends(c)
    /\ UNCHANGED <<status, task, responses, answers, raced>>

------------------------------------------------------------------------------
(* The life of the assessment.                                               *)

\* Mutant of MayChange: a released assessment may be reopened.
MayChangeReleased(manager, from, to) ==
    IF to = "RELEASED" THEN manager /\ from = "COMPLETED"
    ELSE IF from \in {"COMPLETED", "RELEASED"} THEN manager /\ to = "IN_PROGRESS"
    ELSE to # "DRAFT"

MayChange(manager, from, to) ==
    /\ from # "RELEASED"
    /\ IF to = "RELEASED" THEN manager /\ from = "COMPLETED"
       ELSE IF from = "COMPLETED" THEN manager /\ to = "IN_PROGRESS"
       ELSE to # "DRAFT"

LoadStatus(c, manager, to) ==
    /\ to # status /\ MayChange(manager, status, to)
    /\ Loads(c, "status", [Resting EXCEPT !.at = "loaded", !.to = to])

ChangeStatus(c) ==
    /\ At(c, "status", "loaded")
    /\ status' = call[c].to
    /\ Ends(c)
    /\ raced' = raced \cup {"status" : q \in {q \in Calls \ {c} : call[q].at # "idle"}}
    /\ UNCHANGED <<task, responses, answers, complete>>

\* The server stops, or the connection fails, between two writes of a call.
BreakOff(c) ==
    /\ call[c].at \in {"wrote", "decided"}
    /\ Ends(c) /\ raced' = raced \cup {"completion"}
    /\ UNCHANGED <<status, task, responses, answers, complete>>

Next ==
    \E c \in Calls :
      \/ \E n \in Instances : LoadAdd(c, n)
      \/ AddResponse(c)
      \/ \E i \in Instances : LoadDelete(c, i) \/ LoadFile(c, i)
      \/ DeleteResponse(c)
      \/ \E i \in Instances \cup {First}, v \in BOOLEAN : LoadSave(c, i, v)
      \/ FindAnswer(c) \/ WriteAnswer(c) \/ ReadCompletion(c)
      \/ \E i \in Instances, v \in BOOLEAN : LoadMark(c, i, v)
      \/ WriteCompletion(c)
      \/ \E manager \in BOOLEAN, to \in Statuses : LoadStatus(c, manager, to)
      \/ ChangeStatus(c)
      \/ BreakOff(c)

Spec == Init /\ [][Next]_assessmentVars
------------------------------------------------------------------------------
\* Every variable holds a value of its type.
TypeOK ==
    /\ status \in Statuses
    /\ responses \subseteq Instances
    /\ \A i \in Instances : answers[i] \in Seq(BOOLEAN) /\ Len(answers[i]) <= MaxRows
    /\ complete \in [Instances -> BOOLEAN]
    /\ \A c \in Calls : call[c].on \in Instances \cup {First, Gone}
    /\ raced \subseteq {"answer", "completion", "status"}

\* What is complete is answered (refreshCompletion): no response is complete
\* while its required question has no answer, and a task nobody marks is
\* complete exactly when it is answered, once no call is between its answer
\* and the completion; unless an answer was written after another call had
\* decided on the completion, or a call broke off.
CompleteIsAnswered ==
    raced \cap {"answer", "completion"} = {} /\ (\A c \in Calls : call[c].at \notin {"wrote", "decided"}) =>
      \A i \in Instances :
        LET answered == \E k \in DOMAIN answers[i] : answers[i][k]
        IN (complete[i] => answered) /\ (~task.completable /\ answered => complete[i])

\* A question is answered once per response: saving again changes the answer
\* there is (saveAnswer finds it itself, since the database does not treat
\* two rows without an asset as the same), unless two calls found none.
OneAnswer == "answer" \notin raced => \A i \in Instances : Len(answers[i]) <= 1

\* A task that is not repeatable never has a second response, however many
\* calls add one at a time.
OneResponse == ~task.repeatable => Cardinality(responses) <= 1

\* Once an assessment is completed nothing on it changes until it is reopened,
\* and a released one is never reopened; unless the status changed under a
\* call that had read it.
LockedStays ==
    [][ "status" \notin raced' /\ Locked(status) =>
          /\ status' = status => UNCHANGED <<responses, answers, complete>>
          /\ status = "RELEASED" => status' = "RELEASED" ]_assessmentVars
=============================================================================
