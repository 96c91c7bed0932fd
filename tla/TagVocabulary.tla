---------------------------- MODULE TagVocabulary ----------------------------
(* The tag types and tags of an organization (tag-service.ts): every call    *)
(* reads what there is and adds to it later.  The names of types are kept    *)
(* apart by the database, those of tags by nothing but the calls' checks.    *)
EXTENDS Integers, FiniteSets

CONSTANTS TagRows,      \* tags there can be: [type, place, name, copy]
          Standard,     \* the standard tags: [type, name]
          Editors       \* the requests the servers run at one time

VARIABLES kinds,      \* the tag types there are
          words,      \* the tags there are
          gone,       \* the tags that were deleted: their ids do not come back
          editing,    \* what each request is doing
          doubled     \* history: tags were added that no check compares
wordVars == <<kinds, words, gone, editing, doubled>>

TagTypes == {r.type : r \in TagRows}
Everywhere == "everywhere"   \* the place of an organization-wide tag
Places == {r.place : r \in TagRows}
Offered(rows, place) == {r \in rows : r.place \in {Everywhere, place}}
Alike(r, q) == r.type = q.type /\ r.name = q.name
Distinct(rows) == \A r, q \in rows : Alike(r, q) => r = q

NotEditing == [at |-> "idle", new |-> {}, sees |-> {}, types |-> {}, todo |-> {}]

WordInit ==
    /\ kinds = {} /\ words = {} /\ gone = {}
    /\ editing = [c \in Editors |-> NotEditing]
    /\ doubled = FALSE

Edits(c, row) == editing' = [editing EXCEPT ![c] = row]

\* createTagType
CreateType(k) ==
    /\ k \in TagTypes \ kinds /\ kinds' = kinds \cup {k}
    /\ UNCHANGED <<words, gone, editing, doubled>>

\* Mutant of Clashes: a property's own tag is compared with its own only.
ClashesOwn(r) == \E q \in words : Alike(q, r) /\ q.place = r.place

\* createTagValue's check: with what is offered in the same place.
Clashes(r) == \E q \in Offered(words, r.place) : Alike(q, r)

CheckTag(c, r) ==
    /\ editing[c].at = "idle" /\ r.type \in kinds /\ ~Clashes(r)
    /\ Edits(c, [NotEditing EXCEPT !.at = "checked", !.new = {r}, !.sees = words])
    /\ UNCHANGED <<kinds, words, gone, doubled>>

\* Tags are added beside others that mean the same: ones the call did not see
\* when it read, or a property's own, which the check for an organization-wide
\* tag does not ask for.
Doubles(c, rows) ==
    \E r \in rows, q \in words :
      Alike(q, r) /\ (q \in editing[c].sees => r.place = Everywhere /\ q.place # Everywhere)

Adds(c, rows) ==
    /\ rows \cap (words \cup gone) = {}
    /\ words' = words \cup rows
    /\ doubled' = (doubled \/ Doubles(c, rows))

CreateTag(c) ==
    /\ editing[c].at = "checked"
    /\ IF \A r \in editing[c].new : r.type \in kinds
       THEN Adds(c, editing[c].new)
       ELSE UNCHANGED <<words, doubled>>
    /\ Edits(c, NotEditing)
    /\ UNCHANGED <<kinds, gone>>

\* addStandardTagTypes reads the vocabulary once ...
ReadVocabulary(c) ==
    /\ editing[c].at = "idle"
    /\ Edits(c, [NotEditing EXCEPT !.at = "adding", !.todo = {s.type : s \in Standard},
                                   !.types = kinds, !.sees = Offered(words, Everywhere)])
    /\ UNCHANGED <<kinds, words, gone, doubled>>

\* Mutant of Missing: the standard tags are added whatever there is.
MissingAll(k, rows) == {s \in Standard : s.type = k}

Missing(k, rows) == {s \in Standard : s.type = k /\ \A r \in rows : ~Alike(r, s)}

\* ... then adds what it lacks, a type at a time.  A type that came meanwhile,
\* or went, ends it with those it has added.
AddStandard(c, k) ==
    /\ editing[c].at = "adding" /\ k \in editing[c].todo
    /\ LET known == k \in editing[c].types
           missing == Missing(k, editing[c].sees)
           fails == IF known THEN k \notin kinds /\ missing # {} ELSE k \in kinds
       IN /\ IF fails
             THEN UNCHANGED <<kinds, words, doubled>>
             ELSE /\ kinds' = IF known THEN kinds ELSE kinds \cup {k}
                  /\ \E row \in [missing -> TagRows] :
                       /\ \A s \in missing : row[s].place = Everywhere /\ Alike(row[s], s)
                       /\ Adds(c, {row[s] : s \in missing})
          /\ Edits(c, IF fails \/ editing[c].todo = {k} THEN NotEditing ELSE [editing[c] EXCEPT !.todo = @ \ {k}])
    /\ UNCHANGED gone

\* deleteTagValue
DeleteTag(r) ==
    /\ r \in words /\ words' = words \ {r} /\ gone' = gone \cup {r}
    /\ UNCHANGED <<kinds, editing, doubled>>

\* deleteTagType, with its tags
DeleteType(k) ==
    LET its == {r \in words : r.type = k}
    IN /\ k \in kinds /\ kinds' = kinds \ {k}
       /\ words' = words \ its /\ gone' = gone \cup its
       /\ UNCHANGED <<editing, doubled>>

WordNext ==
    \/ \E c \in Editors :
         \/ \E r \in TagRows : CheckTag(c, r)
         \/ CreateTag(c) \/ ReadVocabulary(c)
         \/ \E k \in TagTypes : AddStandard(c, k)
    \/ \E k \in TagTypes : CreateType(k) \/ DeleteType(k)
    \/ \E r \in TagRows : DeleteTag(r)

WordSpec == WordInit /\ [][WordNext]_wordVars
------------------------------------------------------------------------------
\* Every variable holds a value of its type; every tag has its type.
WordTypeOK ==
    /\ kinds \subseteq TagTypes
    /\ words \subseteq {r \in TagRows : r.type \in kinds}
    /\ gone \subseteq TagRows \ words
    /\ doubled \in BOOLEAN

\* No two tags offered in one place mean the same (createTagValue: "unique by
\* name among the values offered in the same place"), unless one was added
\* unseen by the call that added the other, or the organization-wide one came
\* after a property's own.
NamesAreDistinct == doubled \/ \A p \in Places : Distinct(Offered(words, p))

\* Known limit, not checked: nor when the organization-wide one comes second.
NamesStayDistinct ==
    (\A c \in Editors : editing[c].at = "idle") => \A p \in Places : Distinct(Offered(words, p))
=============================================================================
