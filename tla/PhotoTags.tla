------------------------------ MODULE PhotoTags ------------------------------
(* The tags of one photo and of the task response it was taken for, at one   *)
(* property (tag-service.ts, setTaskResponseTags of assessment-service.ts).  *)
(*                                                                           *)
(* A set of tags is checked before the transaction that replaces an item's   *)
(* rows, what a response or photo starts with is copied outside of any, and  *)
(* nothing in the database keeps a second tag of a kind away.  Tags may go   *)
(* at any time; those that come later are taken to be there from the start,  *)
(* since nobody has to choose them.  Flags and comments are left out.        *)
EXTENDS Integers, FiniteSets

CONSTANTS TagRows,      \* tags there can be: [id, type, place]
          Multiple,     \* the types of which an item may have several
          Taggers,      \* the requests the servers run at one time
          MaxChoices    \* bound on the sets of tags people choose

VARIABLES stored,     \* the tags there are
          defaults,   \* what the template's task gives a new response
          items,      \* which of the response and the photo there are
          tags,       \* the tags of each
          tagging,    \* what each request is doing
          choices,    \* the sets of tags people have chosen
          mingled     \* history: the overlaps no statement guards against
tagVars == <<stored, defaults, items, tags, tagging, choices, mingled>>

Items == {"response", "photo"}
Everywhere == "everywhere"   \* the place of an organization-wide tag
Here == "here"               \* the property of the photo
Offered(rows, place) == {r \in rows : r.place \in {Everywhere, place}}

SingleIn(rows) == \A r, q \in rows : r.type = q.type /\ r.type \notin Multiple => r = q

AtHand == [at |-> "idle", on |-> "photo", new |-> {}, sees |-> {}]

TagInit ==
    /\ stored = TagRows
    /\ defaults \in {S \in SUBSET Offered(stored, Everywhere) : SingleIn(S)}
    /\ items = {}
    /\ tags = [x \in Items |-> {}]
    /\ tagging = [c \in Taggers |-> AtHand]
    /\ choices = 0
    /\ mingled = {}

Is(c, at) == tagging[c].at = at
Becomes(c, row) == tagging' = [tagging EXCEPT ![c] = row]
Marks(what, when) == mingled' = mingled \cup (IF when THEN {what} ELSE {})

\* The calls that will write the tags of x whatever comes to it now: a
\* transaction whose DELETE has begun, a photo's inheritance whose own tags
\* were read, a new response on its way to its defaults.
Committed(x) == {c \in Taggers : tagging[c].on = x /\ tagging[c].at \in {"deleting", "filing", "added", "defaulting"}}

------------------------------------------------------------------------------
(* Replacing the tags of an item.                                            *)

\* Mutant of Resolves: several tags of one kind are taken.
ResolvesCrowd(ids) == ids \subseteq Offered(stored, Here)

\* resolveTagValues
Resolves(ids) == ids \subseteq Offered(stored, Here) /\ SingleIn(ids)

\* setEvidenceTags, setTaskResponseTags
Resolve(c, x, ids) ==
    /\ Is(c, "idle") /\ x \in items /\ Resolves(ids)
    /\ choices < MaxChoices /\ choices' = choices + 1
    /\ Becomes(c, [AtHand EXCEPT !.at = "resolved", !.on = x, !.new = ids])
    /\ UNCHANGED <<stored, defaults, items, tags, mingled>>

\* The DELETE sees the rows there are; it waits for whoever is deleting them.
BeginReplaceTags(c) ==
    /\ Is(c, "resolved")
    /\ Becomes(c, [tagging[c] EXCEPT !.at = "deleting", !.sees = tags[tagging[c].on]])
    /\ UNCHANGED <<stored, defaults, items, tags, choices, mingled>>

\* A tag that went meanwhile, or came from somebody else, refuses the rows
\* and with them the deletion.  Rows written again are new ones to a
\* transaction that saw the old.
ReplaceTags(c) ==
    /\ Is(c, "deleting")
    /\ LET x == tagging[c].on
           rest == tags[x] \ tagging[c].sees
       IN IF tagging[c].new \subseteq stored /\ rest \cap tagging[c].new = {}
          THEN /\ tags' = [tags EXCEPT ![x] = rest \cup tagging[c].new]
               /\ tagging' = [d \in Taggers |->
                    IF d = c THEN AtHand
                    ELSE IF tagging[d].on = x THEN [tagging[d] EXCEPT !.sees = @ \ tagging[c].sees]
                    ELSE tagging[d]]
               /\ Marks(x, Committed(x) # {c})
          ELSE Becomes(c, AtHand) /\ UNCHANGED <<tags, mingled>>
    /\ UNCHANGED <<stored, defaults, items, choices>>

------------------------------------------------------------------------------
(* What a response and a photo start with.                                   *)

AddItem(c, x) ==
    /\ Is(c, "idle") /\ x \notin items /\ (x = "photo" => "response" \in items)
    /\ items' = items \cup {x}
    /\ Becomes(c, [AtHand EXCEPT !.at = IF x = "photo" THEN "uploaded" ELSE "added", !.on = x])
    /\ UNCHANGED <<stored, defaults, tags, choices, mingled>>

\* applyTaskDefaultTags
ReadDefaults(c) ==
    /\ Is(c, "added")
    /\ Becomes(c, IF defaults = {} THEN AtHand ELSE [tagging[c] EXCEPT !.at = "defaulting", !.new = defaults])
    /\ UNCHANGED <<stored, defaults, items, tags, choices, mingled>>

\* inheritTaskResponseTags
ReadInherited(c) ==
    /\ Is(c, "uploaded")
    /\ Becomes(c, IF tags["response"] = {} THEN AtHand
                  ELSE [tagging[c] EXCEPT !.at = "inheriting", !.new = tags["response"]])
    /\ UNCHANGED <<stored, defaults, items, tags, choices, mingled>>

\* Mutant of Lacking: a photo inherits whatever it has already.
LackingAll(inherited, own) == inherited

\* What of the response's tags a photo inherits.
Lacking(inherited, own) == {r \in inherited : r.type \in Multiple \/ \A q \in own : q.type # r.type}

ReadOwn(c) ==
    /\ Is(c, "inheriting")
    /\ Becomes(c, [tagging[c] EXCEPT !.at = "filing", !.new = Lacking(@, tags["photo"])])
    /\ UNCHANGED <<stored, defaults, items, tags, choices, mingled>>

\* One statement that skips the tags the item has: one that went refuses all.
Copy(c) ==
    /\ tagging[c].at \in {"defaulting", "filing"}
    /\ LET x == tagging[c].on
       IN IF tagging[c].new \subseteq stored
          THEN tags' = [tags EXCEPT ![x] = @ \cup tagging[c].new] /\ Marks(x, Committed(x) # {c})
          ELSE UNCHANGED <<tags, mingled>>
    /\ Becomes(c, AtHand)
    /\ UNCHANGED <<stored, defaults, items, choices>>

------------------------------------------------------------------------------
\* deleteTagValue, and deleteTagType with all tags of a type: whatever carries
\* a tag loses it.
Drop(rows) ==
    /\ rows # {} /\ stored' = stored \ rows
    /\ defaults' = defaults \ rows
    /\ tags' = [x \in Items |-> tags[x] \ rows]
    /\ UNCHANGED <<items, tagging, choices, mingled>>

\* The server stops, or the connection fails, between two statements.
BreakOffTags(c) ==
    /\ tagging[c].at \in {"added", "defaulting", "uploaded", "inheriting", "filing"}
    /\ Becomes(c, AtHand)
    /\ UNCHANGED <<stored, defaults, items, tags, choices, mingled>>

TagNext ==
    \/ \E c \in Taggers :
         \/ \E x \in items, ids \in SUBSET stored : Resolve(c, x, ids)
         \/ BeginReplaceTags(c) \/ ReplaceTags(c)
         \/ \E x \in Items : AddItem(c, x)
         \/ ReadDefaults(c) \/ ReadInherited(c) \/ ReadOwn(c) \/ Copy(c) \/ BreakOffTags(c)
    \/ \E r \in stored : Drop({r}) \/ Drop({q \in stored : q.type = r.type})

TagSpec == TagInit /\ [][TagNext]_tagVars
------------------------------------------------------------------------------
\* Every variable holds a value of its type, and what is tagged is tagged with
\* what there is.
TagTypeOK ==
    /\ stored \subseteq TagRows
    /\ defaults \subseteq Offered(stored, Everywhere)
    /\ \A x \in Items : tags[x] \subseteq stored /\ (x \notin items => tags[x] = {})
    /\ choices \in 0..MaxChoices /\ mingled \subseteq Items

\* An item has one tag of a kind where several are not meant (resolveTagValues
\* for what is chosen, inheritTaskResponseTags for what is copied), unless two
\* writers of its tags, or of those it inherited, overlapped.
OneOfAKind == \A x \in Items : mingled \cap {x, "response"} = {} => SingleIn(tags[x])

\* A tag of another property is never put on a photo.
TagsAreOffered == \A x \in Items : tags[x] \subseteq Offered(stored, Here)
=============================================================================
