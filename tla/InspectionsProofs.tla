--------------------------- MODULE InspectionsProofs ---------------------------
(* Proofs about what inspections leave behind, for any number of requests at *)
(* one time: the tags of photos and their vocabulary (PhotoTags.tla,         *)
(* TagVocabulary.tla), the templates (SurveyTemplates.tla), the answers of   *)
(* an assessment (Assessments.tla), the spreadsheet and the page they are    *)
(* given on (AnswerSheets.tla, AnswerForms.tla), and the health of the       *)
(* property (PropertyHealth.tla).                                            *)
EXTENDS MCInspections, SequenceTheorems, FiniteSetTheorems, WellFoundedInduction, TLAPS

(* The tags of a photo and of its response. *)

TagSteps == {"idle", "resolved", "deleting", "uploaded", "added", "defaulting", "inheriting", "filing"}

TagRow == [at : TagSteps, on : P!Items, new : SUBSET Tags, sees : SUBSET Tags]

TagTypes ==
    /\ stored \subseteq Tags /\ items \subseteq P!Items
    /\ defaults \subseteq P!Offered(stored, P!Everywhere) /\ P!SingleIn(defaults)
    /\ tags \in [P!Items -> SUBSET stored]
    /\ \A x \in P!Items : tags[x] \subseteq P!Offered(stored, P!Here) /\ (x \notin items => tags[x] = {})
    /\ tagging \in [Calls -> TagRow]
    /\ choices \in 0 .. MaxChoices /\ mingled \subseteq P!Items

\* No tag of one set is of a kind that one of the other has, if an item has one
\* of that kind.
Apart(new, own) == \A r \in new, q \in own : r.type = q.type => r.type \in Multiple

\* What a request is about to write is offered at the property; it is one tag
\* of a kind and beside none of that kind, if no other writer came between.
TaggingKept(c) ==
    LET g == tagging[c]
        mine == mingled \cap {g.on}
    IN /\ g.new \subseteq P!Offered(Tags, P!Here)
       /\ g.at # "idle" => g.on \in items
       /\ g.at \in {"resolved", "deleting", "defaulting"} => P!SingleIn(g.new)
       /\ g.at = "deleting" /\ mine = {} => tags[g.on] \subseteq g.sees
       /\ g.at \in {"added", "defaulting"} => g.on = "response" /\ (mine = {} => tags["response"] = {})
       /\ g.at \in {"uploaded", "inheriting", "filing"} => g.on = "photo" /\ "response" \in items
       /\ g.at \in {"inheriting", "filing"} /\ "response" \notin mingled => P!SingleIn(g.new)
       /\ g.at = "filing" /\ mine = {} => Apart(g.new, tags["photo"])

TagInv == TagTypes /\ P!OneOfAKind /\ \A c \in Calls : TaggingKept(c)

LEMMA TagRowFields == ASSUME NEW g \in TagRow
    PROVE /\ g.at \in TagSteps /\ g.on \in P!Items /\ g.new \in SUBSET Tags /\ g.sees \in SUBSET Tags
  BY DEF TagRow

LEMMA AtHandRow == P!AtHand \in TagRow /\ P!AtHand.at = "idle" /\ P!AtHand.new = {}
  BY DEF P!AtHand, TagRow, TagSteps, P!Items

LEMMA TagRowUpdates ==
    ASSUME NEW g \in TagRow, NEW at \in TagSteps, NEW x \in P!Items, NEW new \in SUBSET Tags,
           NEW sees \in SUBSET Tags
    PROVE  /\ [g EXCEPT !.at = at, !.on = x, !.new = new] \in TagRow
           /\ [g EXCEPT !.at = at, !.on = x] \in TagRow
           /\ [g EXCEPT !.at = at, !.new = new] \in TagRow
           /\ [g EXCEPT !.at = at, !.sees = sees] \in TagRow
           /\ [g EXCEPT !.sees = sees] \in TagRow
  BY Zenon DEF TagRow

LEMMA BecomesTyped ==
    ASSUME TagTypes, NEW c \in Calls, NEW row \in TagRow, P!Becomes(c, row)
    PROVE  /\ tagging' \in [Calls -> TagRow] /\ tagging'[c] = row
           /\ \A d \in Calls \ {c} : tagging'[d] = tagging[d]
  BY DEF TagTypes, P!Becomes

\* A request another one's step leaves alone keeps what it is about, if the tags
\* it relies on did not grow, or it is noted that they did.
LEMMA OtherTagging ==
    ASSUME TagTypes, NEW d \in Calls, TaggingKept(d),
           tagging'[d].at = tagging[d].at, tagging'[d].on = tagging[d].on,
           tagging'[d].new = tagging[d].new,
           items \subseteq items', mingled \subseteq mingled',
           tagging[d].at = "deleting" => tagging'[d].sees = tagging[d].sees \/ tagging[d].on \in mingled',
           tagging[d].at \in {"deleting", "added", "defaulting", "filing"}
             => tags'[tagging[d].on] \subseteq tags[tagging[d].on] \/ tagging[d].on \in mingled'
    PROVE  TaggingKept(d)'
  <1> DEFINE g == tagging[d]
  <1>1. g.at \in TagSteps /\ g.on \in P!Items
    BY TagRowFields DEF TagTypes
  <1>2. /\ g.new \subseteq P!Offered(Tags, P!Here)
        /\ g.at # "idle" => g.on \in items
        /\ g.at \in {"resolved", "deleting", "defaulting"} => P!SingleIn(g.new)
        /\ g.at = "deleting" /\ mingled \cap {g.on} = {} => tags[g.on] \subseteq g.sees
        /\ g.at \in {"added", "defaulting"} =>
             g.on = "response" /\ (mingled \cap {g.on} = {} => tags["response"] = {})
        /\ g.at \in {"uploaded", "inheriting", "filing"} => g.on = "photo" /\ "response" \in items
        /\ g.at \in {"inheriting", "filing"} /\ "response" \notin mingled => P!SingleIn(g.new)
        /\ g.at = "filing" /\ mingled \cap {g.on} = {} => Apart(g.new, tags["photo"])
    BY DEF TaggingKept
  <1>3. g.at = "deleting" /\ g.on \notin mingled' => tags'[g.on] \subseteq tagging'[d].sees
    BY <1>2
  <1>4. g.at \in {"added", "defaulting"} /\ g.on \notin mingled' => tags'["response"] = {}
    BY <1>2
  <1>5. g.at = "filing" /\ g.on \notin mingled' => Apart(g.new, tags'["photo"])
    BY <1>2 DEF Apart
  <1>6. g.at \in {"inheriting", "filing"} /\ "response" \notin mingled' => P!SingleIn(g.new)
    BY <1>2
  <1> HIDE DEF g
  <1>7. /\ tagging'[d].at = g.at /\ tagging'[d].on = g.on /\ tagging'[d].new = g.new
    BY DEF g
  <1> QED
    BY <1>2, <1>3, <1>4, <1>5, <1>6, <1>7 DEF TaggingKept

\* The tags, those there are and what is known of them, stay as they are.
LEMMA TagsStay ==
    ASSUME TagInv, NEW c \in Calls, NEW row \in TagRow, P!Becomes(c, row),
           UNCHANGED <<stored, defaults, tags, mingled>>, items \subseteq items', items' \subseteq P!Items,
           choices' \in 0 .. MaxChoices, TaggingKept(c)'
    PROVE  TagInv'
  <1>1. /\ tagging' \in [Calls -> TagRow] /\ \A d \in Calls \ {c} : tagging'[d] = tagging[d]
    BY BecomesTyped DEF TagInv
  <1>2. TagTypes'
    BY <1>1 DEF TagInv, TagTypes
  <1>3. P!OneOfAKind'
    BY DEF TagInv, P!OneOfAKind
  <1>4. ASSUME NEW d \in Calls PROVE TaggingKept(d)'
    <2>1. CASE d = c
      BY <2>1
    <2>2. CASE d # c
      BY <2>2, <1>1, OtherTagging DEF TagInv
    <2> QED
      BY <2>1, <2>2
  <1> QED
    BY <1>2, <1>3, <1>4 DEF TagInv

LEMMA TagInvInit == P!TagInit => TagInv
  <1> SUFFICES ASSUME P!TagInit PROVE TagInv
    OBVIOUS
  <1>1. tags \in [P!Items -> SUBSET stored] /\ \A x \in P!Items : tags[x] = {}
    BY DEF P!TagInit
  <1>2. tagging \in [Calls -> TagRow] /\ \A c \in Calls : tagging[c] = P!AtHand
    BY AtHandRow DEF P!TagInit
  <1>3. TagTypes
    BY <1>1, <1>2, InspectionAssumption DEF P!TagInit, TagTypes
  <1>4. P!OneOfAKind
    BY <1>1 DEF P!OneOfAKind, P!SingleIn
  <1>5. \A c \in Calls : TaggingKept(c)
    BY <1>2, AtHandRow DEF TaggingKept, P!Offered
  <1> QED
    BY <1>3, <1>4, <1>5 DEF TagInv

LEMMA ResolveKeeps ==
    ASSUME TagInv, NEW c \in Calls, NEW x \in items, NEW ids \in SUBSET stored, P!Resolve(c, x, ids)
    PROVE  TagInv'
  <1> DEFINE row == [P!AtHand EXCEPT !.at = "resolved", !.on = x, !.new = ids]
  <1>1. x \in P!Items /\ ids \in SUBSET Tags /\ "resolved" \in TagSteps
    BY SMTT(30) DEF TagInv, TagTypes, TagSteps
  <1>2. row \in TagRow
    BY <1>1, AtHandRow, TagRowUpdates, Zenon
  <1>3. row.at = "resolved" /\ row.on = x /\ row.new = ids
    BY DEF P!AtHand
  <1>4. P!Becomes(c, row) /\ choices' \in 0 .. MaxChoices
    BY InspectionAssumption DEF P!Resolve, TagInv, TagTypes
  <1>5. ids \subseteq P!Offered(Tags, P!Here) /\ P!SingleIn(ids)
    BY <1>1 DEF P!Resolve, P!Resolves, P!Offered, TagInv, TagTypes
  <1>6. UNCHANGED <<stored, defaults, items, tags, mingled>> /\ tagging'[c] = row
    BY <1>2, <1>4, BecomesTyped DEF P!Resolve, TagInv
  <1> HIDE DEF row
  <1>7. TaggingKept(c)'
    BY <1>3, <1>5, <1>6 DEF TaggingKept
  <1> QED
    BY <1>2, <1>4, <1>6, <1>7, TagsStay DEF TagInv, TagTypes

LEMMA BeginReplaceTagsKeeps ==
    ASSUME TagInv, NEW c \in Calls, P!BeginReplaceTags(c) PROVE TagInv'
  <1> DEFINE g == tagging[c]
             sees == tags[g.on]
             row == [g EXCEPT !.at = "deleting", !.sees = sees]
  <1>1. g \in TagRow /\ g.at = "resolved" /\ g.on \in P!Items
    BY TagRowFields DEF TagInv, TagTypes, P!BeginReplaceTags, P!Is
  <1>2. sees \in SUBSET Tags /\ "deleting" \in TagSteps
    BY <1>1, SMTT(30) DEF TagInv, TagTypes, TagSteps
  <1>3. row \in TagRow
    BY <1>1, <1>2, TagRowUpdates, Zenon
  <1>4. row.at = "deleting" /\ row.on = g.on /\ row.new = g.new /\ row.sees = tags[g.on]
    BY <1>1 DEF TagRow
  <1>5. P!Becomes(c, row) /\ UNCHANGED <<stored, defaults, items, tags, choices, mingled>>
    BY DEF P!BeginReplaceTags
  <1>6. tagging'[c] = row
    BY <1>3, <1>5, BecomesTyped DEF TagInv
  <1>7. g.new \subseteq P!Offered(Tags, P!Here) /\ g.on \in items /\ P!SingleIn(g.new)
    BY <1>1 DEF TagInv, TaggingKept
  <1> HIDE DEF row, g
  <1>8. TaggingKept(c)'
    BY <1>4, <1>5, <1>6, <1>7 DEF TaggingKept
  <1> QED
    BY <1>3, <1>5, <1>8, TagsStay DEF TagInv, TagTypes

LEMMA AddItemKeeps ==
    ASSUME TagInv, NEW c \in Calls, NEW x \in P!Items, P!AddItem(c, x) PROVE TagInv'
  <1> DEFINE at == IF x = "photo" THEN "uploaded" ELSE "added"
             row == [P!AtHand EXCEPT !.at = at, !.on = x]
  <1>1. at \in TagSteps
    BY SMTT(30) DEF TagSteps
  <1>2. row \in TagRow
    BY <1>1, AtHandRow, TagRowUpdates, Zenon
  <1>3. row.at = at /\ row.on = x /\ row.new = {}
    BY DEF P!AtHand
  <1>4. /\ P!Becomes(c, row) /\ UNCHANGED <<stored, defaults, tags, choices, mingled>>
        /\ x \notin items /\ items' = items \cup {x} /\ (x = "photo" => "response" \in items)
    BY DEF P!AddItem
  <1>5. tagging'[c] = row
    BY <1>2, <1>4, BecomesTyped DEF TagInv
  <1>6. x = "photo" \/ x = "response"
    BY DEF P!Items
  <1>7. tags[x] = {} /\ P!SingleIn({})
    BY <1>4 DEF TagInv, TagTypes, P!SingleIn
  <1> HIDE DEF row
  <1>8. TaggingKept(c)'
    BY <1>3, <1>4, <1>5, <1>6, <1>7 DEF TaggingKept
  <1> QED
    BY <1>2, <1>4, <1>8, TagsStay DEF TagInv, TagTypes

LEMMA EndsTagging ==
    ASSUME TagInv, NEW c \in Calls, P!Becomes(c, P!AtHand),
           UNCHANGED <<stored, defaults, items, tags, choices, mingled>>
    PROVE  TagInv'
  <1>1. tagging'[c] = P!AtHand
    BY AtHandRow, BecomesTyped DEF TagInv
  <1>2. TaggingKept(c)'
    BY <1>1, AtHandRow DEF TaggingKept
  <1> QED
    BY <1>2, AtHandRow, TagsStay DEF TagInv, TagTypes

LEMMA ReadDefaultsKeeps ==
    ASSUME TagInv, NEW c \in Calls, P!ReadDefaults(c) PROVE TagInv'
  <1>1. CASE defaults = {}
    BY <1>1, EndsTagging DEF P!ReadDefaults
  <1>2. CASE defaults # {}
    <2> DEFINE g == tagging[c]
               row == [g EXCEPT !.at = "defaulting", !.new = defaults]
    <2>1. g \in TagRow /\ g.at = "added"
      BY DEF TagInv, TagTypes, P!ReadDefaults, P!Is
    <2>2. defaults \in SUBSET Tags /\ "defaulting" \in TagSteps
      BY SMTT(30) DEF TagInv, TagTypes, TagSteps, P!Offered
    <2>3. row \in TagRow
      BY <2>1, <2>2, TagRowUpdates, TagRowFields, Zenon
    <2>4. row.at = "defaulting" /\ row.on = g.on /\ row.new = defaults
      BY <2>1 DEF TagRow
    <2>5. P!Becomes(c, row) /\ UNCHANGED <<stored, defaults, items, tags, choices, mingled>>
      BY <1>2 DEF P!ReadDefaults
    <2>6. tagging'[c] = row
      BY <2>3, <2>5, BecomesTyped DEF TagInv
    <2>7. /\ g.on \in items /\ g.on = "response"
          /\ mingled \cap {g.on} = {} => tags["response"] = {}
      BY <2>1 DEF TagInv, TaggingKept
    <2>8. defaults \subseteq P!Offered(Tags, P!Here) /\ P!SingleIn(defaults)
      BY <2>2 DEF TagInv, TagTypes, P!Offered
    <2> HIDE DEF row, g
    <2>9. TaggingKept(c)'
      BY <2>4, <2>5, <2>6, <2>7, <2>8 DEF TaggingKept
    <2> QED
      BY <2>3, <2>5, <2>9, TagsStay DEF TagInv, TagTypes
  <1> QED
    BY <1>1, <1>2

LEMMA ReadInheritedKeeps ==
    ASSUME TagInv, NEW c \in Calls, P!ReadInherited(c) PROVE TagInv'
  <1>1. CASE tags["response"] = {}
    BY <1>1, EndsTagging DEF P!ReadInherited
  <1>2. CASE tags["response"] # {}
    <2> DEFINE g == tagging[c]
               new == tags["response"]
               row == [g EXCEPT !.at = "inheriting", !.new = new]
    <2>1. g \in TagRow /\ g.at = "uploaded" /\ "response" \in P!Items
      BY DEF TagInv, TagTypes, P!ReadInherited, P!Is, P!Items
    <2>2. new \in SUBSET Tags /\ "inheriting" \in TagSteps /\ new \subseteq P!Offered(Tags, P!Here)
      BY <2>1, SMTT(30) DEF TagInv, TagTypes, TagSteps, P!Offered
    <2>3. row \in TagRow
      BY <2>1, <2>2, TagRowUpdates, Zenon
    <2>4. row.at = "inheriting" /\ row.on = g.on /\ row.new = new
      BY <2>1 DEF TagRow
    <2>5. P!Becomes(c, row) /\ UNCHANGED <<stored, defaults, items, tags, choices, mingled>>
      BY <1>2 DEF P!ReadInherited
    <2>6. tagging'[c] = row
      BY <2>3, <2>5, BecomesTyped DEF TagInv
    <2>7. g.on \in items /\ g.on = "photo" /\ "response" \in items
      BY <2>1 DEF TagInv, TaggingKept
    <2>8. "response" \notin mingled => P!SingleIn(new)
      BY <2>1 DEF TagInv, P!OneOfAKind
    <2> HIDE DEF row, g, new
    <2>9. TaggingKept(c)'
      BY <2>2, <2>4, <2>5, <2>6, <2>7, <2>8 DEF TaggingKept
    <2> QED
      BY <2>3, <2>5, <2>9, TagsStay DEF TagInv, TagTypes
  <1> QED
    BY <1>1, <1>2

LEMMA ReadOwnKeeps ==
    ASSUME TagInv, NEW c \in Calls, P!ReadOwn(c) PROVE TagInv'
  <1> DEFINE g == tagging[c]
             new == P!Lacking(g.new, tags["photo"])
             row == [g EXCEPT !.at = "filing", !.new = new]
  <1>1. g \in TagRow /\ g.at = "inheriting" /\ g.new \in SUBSET Tags
    BY TagRowFields DEF TagInv, TagTypes, P!ReadOwn, P!Is
  <1>2. new \subseteq g.new /\ Apart(new, tags["photo"])
    BY DEF P!Lacking, Apart
  <1>3. new \in SUBSET Tags /\ "filing" \in TagSteps
    BY <1>1, <1>2, SMTT(30) DEF TagSteps
  <1>4. row \in TagRow
    BY <1>1, <1>3, TagRowUpdates, TagRowFields, Zenon
  <1>5. row.at = "filing" /\ row.on = g.on /\ row.new = new
    BY <1>1 DEF TagRow
  <1>6. P!Becomes(c, row) /\ UNCHANGED <<stored, defaults, items, tags, choices, mingled>>
    BY <1>1 DEF P!ReadOwn, TagRow
  <1>7. tagging'[c] = row
    BY <1>4, <1>6, BecomesTyped DEF TagInv
  <1>8. /\ g.on \in items /\ g.on = "photo" /\ "response" \in items
        /\ g.new \subseteq P!Offered(Tags, P!Here) /\ ("response" \notin mingled => P!SingleIn(g.new))
    BY <1>1 DEF TagInv, TaggingKept
  <1>9. new \subseteq P!Offered(Tags, P!Here) /\ ("response" \notin mingled => P!SingleIn(new))
    BY <1>2, <1>8 DEF P!SingleIn
  <1> HIDE DEF row, g, new
  <1>10. TaggingKept(c)'
    BY <1>2, <1>5, <1>6, <1>7, <1>8, <1>9 DEF TaggingKept
  <1> QED
    BY <1>4, <1>6, <1>10, TagsStay DEF TagInv, TagTypes

\* A request writes the tags of an item: those it wrote are one of a kind, unless
\* another writer of them came between.
LEMMA TagsWritten ==
    ASSUME TagInv, NEW c \in Calls, NEW x \in items, c \in P!Committed(x),
           NEW own \in SUBSET stored, own \subseteq P!Offered(stored, P!Here),
           tags' = [tags EXCEPT ![x] = own],
           UNCHANGED <<stored, defaults, items, choices>>,
           P!Marks(x, P!Committed(x) # {c}),
           mingled' \cap {x, "response"} = {} => P!SingleIn(own),
           tagging' \in [Calls -> TagRow], tagging'[c] = P!AtHand,
           \A d \in Calls \ {c} :
             /\ tagging'[d].at = tagging[d].at /\ tagging'[d].on = tagging[d].on
             /\ tagging'[d].new = tagging[d].new
             /\ tagging'[d].sees = tagging[d].sees \/ tagging[d].on = x
    PROVE  TagInv'
  <1>1. /\ x \in P!Items /\ mingled \subseteq mingled' /\ mingled' \subseteq P!Items
        /\ tags'[x] = own /\ \A y \in P!Items \ {x} : tags'[y] = tags[y]
        /\ tags' \in [P!Items -> SUBSET stored]
    BY DEF TagInv, TagTypes, P!Marks
  <1>2. TagTypes'
    BY <1>1 DEF TagInv, TagTypes
  <1>3. P!OneOfAKind'
    BY <1>1 DEF TagInv, P!OneOfAKind
  <1>4. TaggingKept(c)'
    BY AtHandRow DEF TaggingKept
  <1>5. ASSUME NEW d \in Calls, d # c PROVE TaggingKept(d)'
    <2>1. tagging[d].at \in {"deleting", "added", "defaulting", "filing"} /\ tagging[d].on = x => x \in mingled'
      BY <1>5 DEF P!Marks, P!Committed
    <2>2. tagging[d].on \in P!Items
      BY TagRowFields DEF TagInv, TagTypes
    <2>3. tagging[d].at \in {"deleting", "added", "defaulting", "filing"}
            => tags'[tagging[d].on] \subseteq tags[tagging[d].on] \/ tagging[d].on \in mingled'
      BY <1>1, <2>1, <2>2
    <2>4. tagging[d].at = "deleting" => tagging'[d].sees = tagging[d].sees \/ tagging[d].on \in mingled'
      BY <1>5, <2>1
    <2> QED
      BY <1>1, <1>5, <2>3, <2>4, OtherTagging DEF TagInv
  <1> QED
    BY <1>2, <1>3, <1>4, <1>5 DEF TagInv

LEMMA ReplaceTagsKeeps ==
    ASSUME TagInv, NEW c \in Calls, P!ReplaceTags(c) PROVE TagInv'
  <1> DEFINE g == tagging[c]
             x == g.on
             rest == tags[x] \ g.sees
  <1>1. /\ g \in TagRow /\ g.at = "deleting" /\ x \in P!Items /\ g.new \in SUBSET Tags /\ g.sees \in SUBSET Tags
    BY TagRowFields DEF TagInv, TagTypes, P!ReplaceTags, P!Is
  <1>2. CASE g.new \subseteq stored /\ rest \cap g.new = {}
    <2> DEFINE own == rest \cup g.new
    <2>1. /\ g.new \subseteq P!Offered(Tags, P!Here) /\ x \in items /\ P!SingleIn(g.new)
          /\ mingled \cap {x} = {} => tags[x] \subseteq g.sees
      BY <1>1 DEF TagInv, TaggingKept
    <2>2. c \in P!Committed(x)
      BY <1>1 DEF P!Committed
    <2>3. own \in SUBSET stored /\ own \subseteq P!Offered(stored, P!Here)
      BY <1>1, <1>2, <2>1 DEF TagInv, TagTypes, P!Offered
    <2>4. /\ tags' = [tags EXCEPT ![x] = own] /\ UNCHANGED <<stored, defaults, items, choices>>
          /\ P!Marks(x, P!Committed(x) # {c})
      BY <1>2 DEF P!ReplaceTags
    <2>5. mingled' \cap {x, "response"} = {} => P!SingleIn(own)
      <3>1. mingled' \cap {x, "response"} = {} => own = g.new
        BY <2>1, <2>4 DEF P!Marks
      <3> QED
        BY <2>1, <3>1
    <2>6. tagging' = [d \in Calls |->
                        IF d = c THEN P!AtHand
                        ELSE IF tagging[d].on = x THEN [tagging[d] EXCEPT !.sees = tagging[d].sees \ g.sees]
                        ELSE tagging[d]]
      BY <1>1, <1>2 DEF P!ReplaceTags, TagInv, TagTypes, TagRow
    <2>7. ASSUME NEW d \in Calls
          PROVE  [tagging[d] EXCEPT !.sees = tagging[d].sees \ g.sees] \in TagRow
      <3>1. tagging[d] \in TagRow /\ tagging[d].sees \ g.sees \in SUBSET Tags
        BY TagRowFields DEF TagInv, TagTypes
      <3>2. "idle" \in TagSteps /\ {} \in SUBSET Tags
        BY DEF TagSteps
      <3> HIDE DEF g
      <3> QED
        BY <1>1, <3>1, <3>2, TagRowUpdates, Zenon
    <2>8. tagging' \in [Calls -> TagRow] /\ tagging'[c] = P!AtHand
      BY <2>6, <2>7, AtHandRow DEF TagInv, TagTypes
    <2>9. ASSUME NEW d \in Calls \ {c}
          PROVE  /\ tagging'[d].at = tagging[d].at /\ tagging'[d].on = tagging[d].on
                 /\ tagging'[d].new = tagging[d].new
                 /\ tagging'[d].sees = tagging[d].sees \/ tagging[d].on = x
      <3>1. tagging[d] \in TagRow
        BY DEF TagInv, TagTypes
      <3> QED
        BY <2>6, <3>1 DEF TagRow
    <2> HIDE DEF own, rest, x, g
    <2> QED
      BY <2>1, <2>2, <2>3, <2>4, <2>5, <2>8, <2>9, TagsWritten
  <1>3. CASE ~(g.new \subseteq stored /\ rest \cap g.new = {})
    BY <1>3, EndsTagging DEF P!ReplaceTags
  <1> QED
    BY <1>2, <1>3

LEMMA CopyKeeps == ASSUME TagInv, NEW c \in Calls, P!Copy(c) PROVE TagInv'
  <1> DEFINE g == tagging[c]
             x == g.on
  <1>1. g \in TagRow /\ g.at \in {"defaulting", "filing"} /\ x \in P!Items /\ g.new \in SUBSET Tags
    BY TagRowFields DEF TagInv, TagTypes, P!Copy
  <1>2. CASE g.new \subseteq stored
    <2> DEFINE own == tags[x] \cup g.new
    <2>1. g.new \subseteq P!Offered(Tags, P!Here) /\ x \in items
      BY <1>1 DEF TagInv, TaggingKept
    <2>2. c \in P!Committed(x)
      BY <1>1 DEF P!Committed
    <2>3. own \in SUBSET stored /\ own \subseteq P!Offered(stored, P!Here)
      BY <1>1, <1>2, <2>1 DEF TagInv, TagTypes, P!Offered
    <2>4. /\ tags' = [tags EXCEPT ![x] = own] /\ UNCHANGED <<stored, defaults, items, choices>>
          /\ P!Marks(x, P!Committed(x) # {c}) /\ P!Becomes(c, P!AtHand)
      BY <1>1, <1>2 DEF P!Copy, TagInv, TagTypes
    <2>5. mingled' \cap {x, "response"} = {} => P!SingleIn(own)
      <3> SUFFICES ASSUME mingled' \cap {x, "response"} = {} PROVE P!SingleIn(own)
        OBVIOUS
      <3>1. mingled \cap {x, "response"} = {} /\ mingled \cap {x} = {} /\ "response" \notin mingled
        BY <2>4 DEF P!Marks
      <3>2. CASE g.at = "defaulting"
        <4>1. own = g.new /\ P!SingleIn(g.new)
          BY <3>1, <3>2 DEF TagInv, TaggingKept
        <4> QED
          BY <4>1
      <3>3. CASE g.at = "filing"
        <4>1. x = "photo" /\ P!SingleIn(g.new) /\ Apart(g.new, tags[x])
          BY <3>1, <3>3 DEF TagInv, TaggingKept
        <4>2. P!SingleIn(tags[x])
          BY <1>1, <3>1 DEF TagInv, P!OneOfAKind
        <4> QED
          BY <4>1, <4>2 DEF P!SingleIn, Apart
      <3> QED
        BY <1>1, <3>2, <3>3
    <2>6. /\ tagging' \in [Calls -> TagRow] /\ tagging'[c] = P!AtHand
          /\ \A d \in Calls \ {c} : tagging'[d] = tagging[d]
      BY <2>4, AtHandRow, BecomesTyped DEF TagInv
    <2> HIDE DEF own, x, g
    <2> QED
      BY <2>1, <2>2, <2>3, <2>4, <2>5, <2>6, TagsWritten
  <1>3. CASE ~(g.new \subseteq stored)
    BY <1>3, EndsTagging DEF P!Copy
  <1> QED
    BY <1>2, <1>3

LEMMA DropKeeps == ASSUME TagInv, NEW dropped \in SUBSET stored, P!Drop(dropped) PROVE TagInv'
  <1>1. /\ stored' = stored \ dropped /\ defaults' = defaults \ dropped
        /\ tags' = [x \in P!Items |-> tags[x] \ dropped]
        /\ UNCHANGED <<items, tagging, choices, mingled>>
    BY DEF P!Drop
  <1>2. \A x \in P!Items : tags'[x] \subseteq tags[x] /\ tags'[x] = tags[x] \ dropped
    BY <1>1
  <1>3. TagTypes'
    <2>1. P!SingleIn(defaults) => P!SingleIn(defaults')
      BY <1>1 DEF P!SingleIn
    <2> QED
      BY <1>1, <1>2, <2>1 DEF TagInv, TagTypes, P!Offered
  <1>4. P!OneOfAKind'
    <2> SUFFICES ASSUME NEW x \in P!Items, mingled' \cap {x, "response"} = {} PROVE P!SingleIn(tags'[x])
      BY DEF P!OneOfAKind
    <2>1. P!SingleIn(tags[x])
      BY <1>1 DEF TagInv, P!OneOfAKind
    <2> QED
      BY <1>2, <2>1 DEF P!SingleIn
  <1>5. ASSUME NEW d \in Calls PROVE TaggingKept(d)'
    <2>1. tagging[d].on \in P!Items
      BY TagRowFields DEF TagInv, TagTypes
    <2> QED
      BY <1>1, <1>2, <2>1, OtherTagging DEF TagInv
  <1> QED
    BY <1>3, <1>4, <1>5 DEF TagInv

LEMMA TagInvStep == ASSUME TagInv, [P!TagNext]_filing PROVE TagInv'
  <1>1. CASE P!TagNext
    <2>1. ASSUME NEW c \in Calls, P!BreakOffTags(c) PROVE TagInv'
      BY <2>1, EndsTagging DEF P!BreakOffTags
    <2>2. ASSUME NEW r \in stored, P!Drop({r}) \/ P!Drop({q \in stored : q.type = r.type}) PROVE TagInv'
      <3>1. {r} \in SUBSET stored /\ {q \in stored : q.type = r.type} \in SUBSET stored
        OBVIOUS
      <3> QED
        BY <2>2, <3>1, DropKeeps
    <2> QED
      BY <1>1, <2>1, <2>2, ResolveKeeps, BeginReplaceTagsKeeps, ReplaceTagsKeeps, AddItemKeeps,
         ReadDefaultsKeeps, ReadInheritedKeeps, ReadOwnKeeps, CopyKeeps, Zenon DEF P!TagNext
  <1>2. CASE UNCHANGED filing
    <2> USE <1>2 DEF filing, TagInv
    <2>1. TagTypes' /\ P!OneOfAKind'
      BY DEF TagTypes, P!OneOfAKind
    <2>2. ASSUME NEW c \in Calls PROVE TaggingKept(c)'
      BY OtherTagging
    <2> QED
      BY <2>1, <2>2
  <1> QED
    BY <1>1, <1>2

-----------------------------------------------------------------------------
(* The vocabulary.                                                          *)

WordSteps == {"idle", "checked", "adding"}

WordRow == [at : WordSteps, new : SUBSET Words, sees : SUBSET Words, types : SUBSET V!TagTypes,
            todo : SUBSET {s.type : s \in Standard}]

\* A tag on its way was compared with those its request saw.
CheckedKept(c) ==
    editing[c].at = "checked" =>
      \E r \in Words : /\ editing[c].new = {r}
                       /\ \A q \in editing[c].sees : V!Alike(q, r) => q.place \notin {V!Everywhere, r.place}

WordInv ==
    /\ V!WordTypeOK /\ V!NamesAreDistinct
    /\ editing \in [Calls -> WordRow] /\ \A c \in Calls : CheckedKept(c)

LEMMA NotEditingRow == V!NotEditing \in WordRow /\ V!NotEditing.at = "idle"
  BY DEF V!NotEditing, WordRow, WordSteps

LEMMA WordInvInit == V!WordInit => WordInv
  <1> SUFFICES ASSUME V!WordInit PROVE WordInv
    OBVIOUS
  <1>1. editing \in [Calls -> WordRow] /\ \A c \in Calls : editing[c] = V!NotEditing
    BY NotEditingRow DEF V!WordInit
  <1>2. \A c \in Calls : CheckedKept(c)
    BY <1>1, NotEditingRow DEF CheckedKept
  <1>3. V!WordTypeOK /\ V!NamesAreDistinct
    BY DEF V!WordInit, V!WordTypeOK, V!NamesAreDistinct, V!Distinct, V!Offered
  <1> QED
    BY <1>1, <1>2, <1>3 DEF WordInv

\* A request goes on with another row.
LEMMA EditsRow ==
    ASSUME WordInv, NEW c \in Calls, NEW row \in WordRow, V!Edits(c, row),
           row.at = "checked" =>
             \E r \in Words : /\ row.new = {r}
                              /\ \A q \in row.sees : V!Alike(q, r) => q.place \notin {V!Everywhere, r.place}
    PROVE  editing' \in [Calls -> WordRow] /\ \A d \in Calls : CheckedKept(d)'
  <1>1. /\ editing' \in [Calls -> WordRow] /\ editing'[c] = row
        /\ \A d \in Calls \ {c} : editing'[d] = editing[d]
    BY DEF V!Edits, WordInv
  <1>2. ASSUME NEW d \in Calls PROVE CheckedKept(d)'
    <2>1. CASE d = c
      BY <1>1, <2>1 DEF CheckedKept
    <2>2. CASE d # c
      <3>1. editing'[d] = editing[d] /\ CheckedKept(d)
        BY <1>1, <2>2 DEF WordInv
      <3> QED
        BY <3>1 DEF CheckedKept
    <2> QED
      BY <2>1, <2>2
  <1> QED
    BY <1>1, <1>2

\* Tags are added: each compared with those its request saw, and no two alike.
LEMMA AddsKeeps ==
    ASSUME WordInv, NEW c \in Calls, NEW added \in SUBSET Words, V!Adds(c, added),
           kinds \subseteq kinds', kinds' \subseteq V!TagTypes, gone' = gone,
           \A r \in added : r.type \in kinds',
           \A r, q \in added : V!Alike(r, q) => r = q,
           \A r \in added, q \in editing[c].sees : V!Alike(q, r) => q.place \notin {V!Everywhere, r.place}
    PROVE  V!WordTypeOK' /\ V!NamesAreDistinct'
  <1>1. /\ added \cap (words \cup gone) = {} /\ words' = words \cup added
        /\ doubled' = (doubled \/ V!Doubles(c, added))
    BY DEF V!Adds
  <1>2. V!WordTypeOK'
    BY <1>1 DEF WordInv, V!WordTypeOK
  <1>3. V!NamesAreDistinct'
    <2> SUFFICES ASSUME ~doubled', NEW p \in V!Places, NEW r \in V!Offered(words', p),
                        NEW q \in V!Offered(words', p), V!Alike(r, q)
                 PROVE  r = q
      BY DEF V!NamesAreDistinct, V!Distinct
    <2>1. ~doubled /\ ~V!Doubles(c, added)
      BY <1>1
    <2>2. ASSUME NEW x \in added, NEW y \in words, V!Alike(x, y),
                 x.place \in {V!Everywhere, p}, y.place \in {V!Everywhere, p}
          PROVE  FALSE
      <3>1. V!Alike(y, x)
        BY <2>2 DEF V!Alike
      <3>2. y \in editing[c].sees /\ ~(x.place = V!Everywhere /\ y.place # V!Everywhere)
        BY <2>1, <3>1 DEF V!Doubles
      <3>3. y.place \notin {V!Everywhere, x.place}
        BY <3>1, <3>2
      <3> QED
        BY <2>2, <3>2, <3>3
    <2>3. V!Alike(q, r)
      BY DEF V!Alike
    <2>4. /\ r \in words \cup added /\ q \in words \cup added
          /\ r.place \in {V!Everywhere, p} /\ q.place \in {V!Everywhere, p}
      BY <1>1 DEF V!Offered
    <2>5. CASE r \in words /\ q \in words
      BY <2>1, <2>4, <2>5 DEF WordInv, V!NamesAreDistinct, V!Distinct, V!Offered
    <2>6. CASE r \in added /\ q \in added
      BY <2>6
    <2>7. CASE r \in added /\ q \in words
      BY <2>2, <2>4, <2>7
    <2>8. CASE r \in words /\ q \in added
      BY <2>2, <2>3, <2>4, <2>8
    <2> QED
      BY <2>4, <2>5, <2>6, <2>7, <2>8
  <1> QED
    BY <1>2, <1>3

\* Tags go, and with a type all of its.
LEMMA WordsGo ==
    ASSUME WordInv, kinds' \subseteq kinds, words' \subseteq words, doubled' = doubled,
           gone' = gone \cup (words \ words'), \A r \in words' : r.type \in kinds', UNCHANGED editing
    PROVE  WordInv'
  <1>1. V!WordTypeOK'
    BY DEF WordInv, V!WordTypeOK
  <1>2. V!NamesAreDistinct'
    BY DEF WordInv, V!NamesAreDistinct, V!Distinct, V!Offered
  <1>3. editing' \in [Calls -> WordRow] /\ \A c \in Calls : CheckedKept(c)'
    BY DEF WordInv, CheckedKept
  <1> QED
    BY <1>1, <1>2, <1>3 DEF WordInv

LEMMA CheckTagKeeps ==
    ASSUME WordInv, NEW c \in Calls, NEW r \in Words, V!CheckTag(c, r) PROVE WordInv'
  <1> DEFINE row == [V!NotEditing EXCEPT !.at = "checked", !.new = {r}, !.sees = words]
  <1>1. words \in SUBSET Words
    BY DEF WordInv, V!WordTypeOK
  <1>2. row \in WordRow /\ row.at = "checked" /\ row.new = {r} /\ row.sees = words
    BY <1>1 DEF V!NotEditing, WordRow, WordSteps
  <1>3. \A q \in words : V!Alike(q, r) => q.place \notin {V!Everywhere, r.place}
    BY DEF V!CheckTag, V!Clashes, V!Offered
  <1>4. V!Edits(c, row) /\ UNCHANGED <<kinds, words, gone, doubled>>
    BY DEF V!CheckTag
  <1> HIDE DEF row
  <1>5. editing' \in [Calls -> WordRow] /\ \A d \in Calls : CheckedKept(d)'
    BY <1>2, <1>3, <1>4, EditsRow
  <1>6. V!WordTypeOK' /\ V!NamesAreDistinct'
    BY <1>4 DEF WordInv, V!WordTypeOK, V!NamesAreDistinct
  <1> QED
    BY <1>5, <1>6 DEF WordInv

LEMMA CreateTagKeeps == ASSUME WordInv, NEW c \in Calls, V!CreateTag(c) PROVE WordInv'
  <1>1. editing' \in [Calls -> WordRow] /\ \A d \in Calls : CheckedKept(d)'
    BY NotEditingRow, EditsRow DEF V!CreateTag
  <1>2. V!WordTypeOK' /\ V!NamesAreDistinct'
    <2>1. PICK r \in Words :
            /\ editing[c].new = {r}
            /\ \A q \in editing[c].sees : V!Alike(q, r) => q.place \notin {V!Everywhere, r.place}
      BY DEF V!CreateTag, WordInv, CheckedKept
    <2>2. CASE r.type \in kinds
      <3>1. V!Adds(c, {r}) /\ UNCHANGED <<kinds, gone>>
        BY <2>1, <2>2 DEF V!CreateTag
      <3> QED
        BY <2>1, <2>2, <3>1, AddsKeeps DEF WordInv, V!WordTypeOK
    <2>3. CASE r.type \notin kinds
      <3>1. UNCHANGED <<kinds, words, gone, doubled>>
        BY <2>1, <2>3 DEF V!CreateTag
      <3> QED
        BY <3>1 DEF WordInv, V!WordTypeOK, V!NamesAreDistinct
    <2> QED
      BY <2>2, <2>3
  <1> QED
    BY <1>1, <1>2 DEF WordInv

LEMMA ReadVocabularyKeeps == ASSUME WordInv, NEW c \in Calls, V!ReadVocabulary(c) PROVE WordInv'
  <1> DEFINE todo == {s.type : s \in Standard}
             sees == V!Offered(words, V!Everywhere)
             row == [V!NotEditing EXCEPT !.at = "adding", !.todo = todo, !.types = kinds, !.sees = sees]
  <1>1. sees \in SUBSET Words /\ kinds \in SUBSET V!TagTypes /\ todo \in SUBSET todo
    BY DEF WordInv, V!WordTypeOK, V!Offered
  <1>2. V!Edits(c, row) /\ UNCHANGED <<kinds, words, gone, doubled>>
    BY SMTT(30) DEF V!ReadVocabulary
  <1>3. row \in WordRow /\ row.at = "adding"
    <2> HIDE DEF todo, sees
    <2>1. row \in [at : WordSteps, new : SUBSET Words, sees : SUBSET Words, types : SUBSET V!TagTypes,
                   todo : SUBSET todo]
      BY <1>1 DEF V!NotEditing, WordSteps
    <2> QED
      BY <2>1 DEF WordRow, todo, V!NotEditing
  <1> HIDE DEF row
  <1>4. editing' \in [Calls -> WordRow] /\ \A d \in Calls : CheckedKept(d)'
    BY <1>2, <1>3, EditsRow
  <1>5. V!WordTypeOK' /\ V!NamesAreDistinct'
    BY <1>2 DEF WordInv, V!WordTypeOK, V!NamesAreDistinct
  <1> QED
    BY <1>4, <1>5 DEF WordInv

LEMMA AddStandardKeeps ==
    ASSUME WordInv, NEW c \in Calls, NEW k \in V!TagTypes, V!AddStandard(c, k) PROVE WordInv'
  <1> DEFINE g == editing[c]
             missing == V!Missing(k, g.sees)
             row == [g EXCEPT !.todo = g.todo \ {k}]
  <1>1. g \in WordRow /\ g.at = "adding" /\ gone' = gone
    BY DEF WordInv, V!AddStandard
  <1>2. row \in WordRow /\ row.at = "adding"
    <2>1. g.todo \ {k} \in SUBSET {s.type : s \in Standard}
      BY <1>1 DEF WordRow
    <2>2. row \in WordRow
      BY <1>1, <2>1, Zenon DEF WordRow
    <2>3. row.at = g.at
      BY <1>1 DEF WordRow
    <2> QED
      BY <1>1, <2>2, <2>3
  <1>3. V!Edits(c, V!NotEditing) \/ V!Edits(c, row)
    BY Zenon, <1>1 DEF V!AddStandard
  <1>4. editing' \in [Calls -> WordRow] /\ \A d \in Calls : CheckedKept(d)'
    <2> HIDE DEF row
    <2> QED
      BY <1>2, <1>3, NotEditingRow, EditsRow
  <1>5. V!WordTypeOK' /\ V!NamesAreDistinct'
    <2>1. CASE UNCHANGED <<kinds, words, doubled>>
      BY <1>1, <2>1 DEF WordInv, V!WordTypeOK, V!NamesAreDistinct
    <2>2. CASE ~UNCHANGED <<kinds, words, doubled>>
      <3> DEFINE known == k \in g.types
                 added(tag) == {tag[s] : s \in missing}
      <3>1. /\ known => k \in kinds \/ missing = {}
            /\ kinds' = IF known THEN kinds ELSE kinds \cup {k}
            /\ \E tag \in [missing -> Words] :
                 /\ \A s \in missing : tag[s].place = V!Everywhere /\ V!Alike(tag[s], s)
                 /\ V!Adds(c, added(tag))
        BY Zenon, <2>2 DEF V!AddStandard
      <3>2. PICK tag \in [missing -> Words] :
              /\ \A s \in missing : tag[s].place = V!Everywhere /\ V!Alike(tag[s], s)
              /\ V!Adds(c, added(tag))
        BY <3>1
      <3>3. \A s \in missing : s \in Standard /\ s.type = k /\ \A q \in g.sees : ~V!Alike(q, s)
        BY DEF V!Missing
      <3>4. added(tag) \in SUBSET Words
        BY <3>2
      <3>5. \A r \in added(tag) : r.type \in kinds'
        BY <3>1, <3>2, <3>3 DEF V!Alike
      <3>6. \A r, q \in added(tag) : V!Alike(r, q) => r = q
        BY <3>2, <3>3, InspectionAssumption DEF V!Alike
      <3>7. \A r \in added(tag), q \in g.sees : V!Alike(q, r) => q.place \notin {V!Everywhere, r.place}
        BY <3>2, <3>3 DEF V!Alike
      <3>8. kinds \subseteq kinds' /\ kinds' \subseteq V!TagTypes
        BY <3>1 DEF WordInv, V!WordTypeOK
      <3> HIDE DEF added
      <3> QED
        BY <1>1, <3>2, <3>4, <3>5, <3>6, <3>7, <3>8, AddsKeeps
    <2> QED
      BY <2>1, <2>2
  <1> QED
    BY <1>4, <1>5 DEF WordInv

LEMMA WordInvStep == ASSUME WordInv, [V!WordNext]_naming PROVE WordInv'
  <1>1. CASE V!WordNext
    <2>1. ASSUME NEW k \in V!TagTypes, V!CreateType(k) PROVE WordInv'
      <3>1. UNCHANGED <<words, gone, editing, doubled>> /\ kinds' = kinds \cup {k}
        BY <2>1 DEF V!CreateType
      <3> QED
        BY <3>1 DEF WordInv, V!WordTypeOK, V!NamesAreDistinct, CheckedKept
    <2>2. ASSUME NEW k \in V!TagTypes, V!DeleteType(k) PROVE WordInv'
      <3>1. /\ kinds' = kinds \ {k} /\ words' = words \ {r \in words : r.type = k}
            /\ gone' = gone \cup {r \in words : r.type = k} /\ UNCHANGED <<editing, doubled>>
        BY <2>2 DEF V!DeleteType
      <3>2. gone' = gone \cup (words \ words') /\ \A r \in words' : r.type \in kinds'
        BY <3>1 DEF WordInv, V!WordTypeOK
      <3> QED
        BY <3>1, <3>2, WordsGo
    <2>3. ASSUME NEW r \in Words, V!DeleteTag(r) PROVE WordInv'
      <3>1. /\ words' = words \ {r} /\ gone' = gone \cup {r} /\ r \in words
            /\ UNCHANGED <<kinds, editing, doubled>>
        BY <2>3 DEF V!DeleteTag
      <3>2. gone' = gone \cup (words \ words') /\ \A q \in words' : q.type \in kinds'
        BY <3>1 DEF WordInv, V!WordTypeOK
      <3> QED
        BY <3>1, <3>2, WordsGo
    <2> QED
      BY <1>1, <2>1, <2>2, <2>3, CheckTagKeeps, CreateTagKeeps, ReadVocabularyKeeps, AddStandardKeeps
      DEF V!WordNext
  <1>2. CASE UNCHANGED naming
    BY <1>2 DEF naming, WordInv, V!WordTypeOK, V!NamesAreDistinct, CheckedKept
  <1> QED
    BY <1>1, <1>2

-----------------------------------------------------------------------------
(* The templates.                                                           *)

SurveyRow == [active : BOOLEAN, sections : SUBSET (0 .. MaxWrites), used : BOOLEAN,
              answered : SUBSET (0 .. MaxWrites)]
SavingSteps == {"idle", "counted", "deleting", "created", "scheduling"}
SavingRow == [at : SavingSteps, on : Surveys \cup {S!NoSurvey}, sees : SUBSET (0 .. MaxWrites),
              made : Surveys \cup {S!NoSurvey}]

SurveyTypes ==
    /\ template \in [Surveys -> SurveyRow]
    /\ from \in [Surveys -> Surveys \cup {S!NoSurvey}]
    /\ writes \in 0 .. MaxWrites /\ mixed \subseteq S!Kinds \X Surveys
    /\ asked \in [Surveys -> SUBSET (0 .. MaxWrites)]
    /\ saving \in [Calls -> SavingRow]

Noted(what, t) == <<what, t>> \in mixed

\* A row without sections is none, a row has those of one writer, and the
\* questions it was first used with; none that is answered goes.
SurveyKept(t) ==
    /\ template[t].sections = {} => template[t] = S!NoRow
    /\ template[t].sections # {} /\ ~Noted("written", t) => \E n \in 0 .. MaxWrites : template[t].sections = {n}
    /\ template[t].used /\ ~Noted("used", t) => template[t].sections = asked[t]
    /\ template[t].answered \subseteq template[t].sections
    /\ (\E u \in Surveys : from[u] = t) => template[t].sections # {}
    /\ (\E u \in Surveys : from[u] = t) /\ ~Noted("versioned", t) /\ ~Noted("restored", t)
       => ~template[t].active \/ \E c \in Calls : S!Stands(c, "created", t)

\* A request works on a template there is; what it replaces was not used when it
\* was counted, and its DELETE saw all of it.
SavingKept(c, t) ==
    saving[c].at # "idle" /\ saving[c].on = t =>
      /\ template[t].sections # {}
      /\ saving[c].at \in {"counted", "deleting"} /\ template[t].used => Noted("used", t)
      /\ saving[c].at = "deleting" /\ ~Noted("written", t) => template[t].sections \subseteq saving[c].sees

SurveyInv ==
    /\ SurveyTypes /\ \A t \in Surveys : SurveyKept(t)
    /\ \A c \in Calls : saving[c].at # "idle" => saving[c].on \in Surveys
    /\ \A c \in Calls, t \in Surveys : SavingKept(c, t)

LEMMA AtRestRow == S!AtRest \in SavingRow /\ S!AtRest.at = "idle"
  BY DEF S!AtRest, SavingRow, SavingSteps

LEMMA NoRowRow == S!NoRow \in SurveyRow /\ S!NoRow.sections = {} /\ S!NoRow.active = FALSE
  BY DEF S!NoRow, SurveyRow

LEMMA NewRowRow ==
    ASSUME NEW n \in 0 .. MaxWrites
    PROVE  /\ S!NewRow(n) \in SurveyRow /\ S!NewRow(n).sections = {n} /\ S!NewRow(n).answered = {}
           /\ S!NewRow(n).used = FALSE /\ S!NewRow(n).active = TRUE
  <1>1. S!NewRow(n) = [active |-> TRUE, sections |-> {n}, used |-> FALSE, answered |-> {}]
    <2>1. S!NewRow(n) = [[active |-> FALSE, sections |-> {}, used |-> FALSE, answered |-> {}]
                           EXCEPT !.active = TRUE, !.sections = {n}]
      BY Zenon DEF S!NewRow, S!NoRow
    <2> QED
      BY <2>1
  <1>2. {n} \in SUBSET (0 .. MaxWrites) /\ {} \in SUBSET (0 .. MaxWrites)
    OBVIOUS
  <1>3. S!NewRow(n) \in SurveyRow
    BY <1>1, <1>2 DEF SurveyRow
  <1> QED
    BY <1>1, <1>3

LEMMA SavingRowUpdates ==
    ASSUME NEW g \in SavingRow, NEW at \in SavingSteps, NEW t \in Surveys, NEW u \in Surveys,
           NEW sees \in SUBSET (0 .. MaxWrites)
    PROVE  /\ [g EXCEPT !.at = at, !.on = t] \in SavingRow
           /\ [g EXCEPT !.at = at, !.on = t, !.made = u] \in SavingRow
           /\ [g EXCEPT !.at = at, !.sees = sees] \in SavingRow
  <1>1. t \in Surveys \cup {S!NoSurvey} /\ u \in Surveys \cup {S!NoSurvey}
    OBVIOUS
  <1> QED
    BY <1>1, Zenon DEF SavingRow

LEMMA SurveyRowUpdates ==
    ASSUME NEW row \in SurveyRow, NEW b \in BOOLEAN, NEW new \in SUBSET (0 .. MaxWrites)
    PROVE  /\ [row EXCEPT !.active = b] \in SurveyRow /\ [row EXCEPT !.used = b] \in SurveyRow
           /\ [row EXCEPT !.sections = new] \in SurveyRow /\ [row EXCEPT !.answered = new] \in SurveyRow
  BY Zenon DEF SurveyRow

LEMMA GoesTyped ==
    ASSUME SurveyTypes, NEW c \in Calls, NEW row \in SavingRow, S!Goes(c, row)
    PROVE  /\ saving' \in [Calls -> SavingRow] /\ saving'[c] = row
           /\ \A d \in Calls \ {c} : saving'[d] = saving[d]
  BY DEF SurveyTypes, S!Goes

LEMMA NotesGrow ==
    ASSUME SurveyTypes, NEW what \in S!Kinds, NEW t, NEW when, when => t \in Surveys,
           S!Notes(what, t, when)
    PROVE  /\ mixed \subseteq mixed' /\ mixed' \subseteq S!Kinds \X Surveys
           /\ when => Noted(what, t)'
  BY DEF SurveyTypes, S!Notes, Noted

\* A template a step leaves alone stays as it should be.
LEMMA OtherSurvey ==
    ASSUME SurveyInv, NEW t \in Surveys, template'[t] = template[t], asked'[t] = asked[t],
           mixed \subseteq mixed',
           (\E u \in Surveys : from'[u] = t) => \E u \in Surveys : from[u] = t,
           \A c \in Calls : S!Stands(c, "created", t) => S!Stands(c, "created", t)' \/ Noted("versioned", t)'
    PROVE  SurveyKept(t)'
  <1>1. SurveyKept(t)
    BY DEF SurveyInv
  <1>2. ASSUME NEW what, Noted(what, t) PROVE Noted(what, t)'
    BY <1>2 DEF Noted
  <1>3. \A what : Noted(what, t) => Noted(what, t)'
    BY <1>2
  <1> QED
    BY <1>1, <1>3 DEF SurveyKept

\* A request a step leaves alone stays as it should be.
LEMMA OtherSaving ==
    ASSUME SurveyInv, NEW c \in Calls, NEW t \in Surveys, saving'[c] = saving[c], mixed \subseteq mixed',
           template[t].sections # {} => template'[t].sections # {},
           saving[c].at \in {"counted", "deleting"} /\ saving[c].on = t /\ template'[t].used
             => template[t].used \/ Noted("used", t)',
           saving[c].at = "deleting" /\ saving[c].on = t
             => template'[t].sections \subseteq template[t].sections \/ Noted("written", t)'
    PROVE  SavingKept(c, t)'
  <1>1. SavingKept(c, t)
    BY DEF SurveyInv
  <1>2. ASSUME NEW what, Noted(what, t) PROVE Noted(what, t)'
    BY <1>2 DEF Noted
  <1>3. /\ Noted("used", t) => Noted("used", t)'
        /\ Noted("written", t) => Noted("written", t)'
    BY <1>2
  <1> QED
    BY <1>1, <1>3 DEF SavingKept

\* A request goes on and leaves the templates alone.
LEMMA SavingMoves ==
    ASSUME SurveyInv, NEW c \in Calls, NEW row \in SavingRow, S!Goes(c, row),
           row.at # "idle" => row.on \in Surveys,
           UNCHANGED <<template, from, asked, writes>>,
           mixed \subseteq mixed', mixed' \subseteq S!Kinds \X Surveys,
           \A t \in Surveys : SavingKept(c, t)',
           \A t \in Surveys : S!Stands(c, "created", t) => Noted("versioned", t)'
    PROVE  SurveyInv'
  <1>1. /\ saving' \in [Calls -> SavingRow] /\ saving'[c] = row
        /\ \A d \in Calls \ {c} : saving'[d] = saving[d]
    BY GoesTyped DEF SurveyInv
  <1>2. SurveyTypes'
    BY <1>1 DEF SurveyInv, SurveyTypes
  <1>3. ASSUME NEW t \in Surveys PROVE SurveyKept(t)'
    <2>1. ASSUME NEW d \in Calls, S!Stands(d, "created", t)
          PROVE  S!Stands(d, "created", t)' \/ Noted("versioned", t)'
      BY <1>1, <2>1 DEF S!Stands
    <2> QED
      BY <2>1, OtherSurvey
  <1>4. ASSUME NEW d \in Calls, NEW t \in Surveys PROVE SavingKept(d, t)'
    <2>1. CASE d = c
      BY <2>1
    <2>2. CASE d # c
      BY <1>1, <2>2, OtherSaving
    <2> QED
      BY <2>1, <2>2
  <1>5. \A d \in Calls : saving'[d].at # "idle" => saving'[d].on \in Surveys
    BY <1>1 DEF SurveyInv
  <1> QED
    BY <1>2, <1>3, <1>4, <1>5 DEF SurveyInv

LEMMA SurveyInvInit == S!SurveyInit => SurveyInv
  <1> SUFFICES ASSUME S!SurveyInit PROVE SurveyInv
    OBVIOUS
  <1>1. PICK t \in Surveys : template = [u \in Surveys |-> IF u = t THEN S!NewRow(0) ELSE S!NoRow]
    BY DEF S!SurveyInit
  <1>2. /\ S!NewRow(0) \in SurveyRow /\ S!NewRow(0).sections = {0} /\ S!NewRow(0).answered = {}
        /\ S!NewRow(0).used = FALSE /\ S!NewRow(0).active = TRUE
    <2>1. 0 \in 0 .. MaxWrites
      BY InspectionAssumption
    <2> QED
      BY <2>1, NewRowRow
  <1>3. template \in [Surveys -> SurveyRow]
    BY <1>1, <1>2, NoRowRow
  <1>4. saving \in [Calls -> SavingRow] /\ \A c \in Calls : saving[c] = S!AtRest
    BY AtRestRow DEF S!SurveyInit
  <1>5. SurveyTypes
    BY <1>3, <1>4, InspectionAssumption DEF S!SurveyInit, SurveyTypes
  <1>6. ASSUME NEW u \in Surveys PROVE SurveyKept(u)
    <2>1. \A v \in Surveys : from[v] # u
      BY InspectionAssumption DEF S!SurveyInit
    <2>2. 0 \in 0 .. MaxWrites
      BY InspectionAssumption
    <2>3. template[u] = S!NoRow \/ template[u] = S!NewRow(0)
      BY <1>1
    <2>4. S!NoRow.used = FALSE /\ S!NoRow.answered = {}
      BY DEF S!NoRow
    <2> QED
      BY <1>2, <2>1, <2>2, <2>3, <2>4, NoRowRow DEF SurveyKept
  <1>7. \A c \in Calls, u \in Surveys : SavingKept(c, u)
    BY <1>4, AtRestRow DEF SavingKept
  <1>8. \A c \in Calls : saving[c].at = "idle"
    BY <1>4, AtRestRow
  <1> QED
    BY <1>5, <1>6, <1>7, <1>8 DEF SurveyInv

LEMMA CountUsesKeeps ==
    ASSUME SurveyInv, NEW c \in Calls, NEW t \in Surveys, S!CountUses(c, t) PROVE SurveyInv'
  <1> DEFINE row == [S!AtRest EXCEPT !.at = "counted", !.on = t]
  <1>1. row \in SavingRow /\ row.at = "counted" /\ row.on = t
    <2>1. "counted" \in SavingSteps
      BY SMTT(30) DEF SavingSteps
    <2>2. row \in SavingRow
      BY <2>1, AtRestRow, SavingRowUpdates
    <2> QED
      BY <2>2 DEF S!AtRest
  <1>2. /\ S!Goes(c, row) /\ UNCHANGED <<template, from, asked, writes, mixed>>
        /\ saving[c].at = "idle" /\ template[t] # S!NoRow /\ ~template[t].used
    BY DEF S!CountUses, S!Stored, S!MayReplace
  <1>3. template[t].sections # {}
    BY <1>2 DEF SurveyInv, SurveyKept
  <1> HIDE DEF row
  <1>4. saving'[c] = row
    BY <1>1, <1>2, GoesTyped DEF SurveyInv
  <1>5. \A u \in Surveys : SavingKept(c, u)'
    BY <1>1, <1>2, <1>3, <1>4 DEF SavingKept
  <1>6. \A u \in Surveys : ~S!Stands(c, "created", u)
    BY <1>2 DEF S!Stands
  <1> QED
    BY <1>1, <1>2, <1>5, <1>6, SavingMoves DEF SurveyInv, SurveyTypes

LEMMA BeginReplaceKeeps ==
    ASSUME SurveyInv, NEW c \in Calls, NEW t \in Surveys, S!BeginReplace(c, t) PROVE SurveyInv'
  <1> DEFINE g == saving[c]
             sees == template[t].sections
             row == [g EXCEPT !.at = "deleting", !.sees = sees]
  <1>1. g \in SavingRow /\ g.at = "counted" /\ g.on = t
    BY DEF SurveyInv, SurveyTypes, S!BeginReplace, S!Stands
  <1>2. template[t] \in SurveyRow
    BY DEF SurveyInv, SurveyTypes
  <1>3. sees \in SUBSET (0 .. MaxWrites) /\ "deleting" \in SavingSteps
    BY <1>2, SMTT(30) DEF SurveyRow, SavingSteps
  <1>4. row \in SavingRow
    BY <1>1, <1>3, SavingRowUpdates
  <1>5. row.at = "deleting" /\ row.on = t /\ row.sees = template[t].sections
    BY <1>1 DEF SavingRow
  <1>6. S!Goes(c, row) /\ UNCHANGED <<template, from, asked, writes, mixed>>
    BY DEF S!BeginReplace
  <1>7. SavingKept(c, t)
    BY DEF SurveyInv
  <1>8. template[t].sections # {} /\ (template[t].used => Noted("used", t))
    BY <1>1, <1>7 DEF SavingKept
  <1>9. \A u \in Surveys : ~S!Stands(c, "created", u)
    BY <1>1 DEF S!Stands
  <1> HIDE DEF row, g
  <1>10. saving'[c] = row
    BY <1>4, <1>6, GoesTyped DEF SurveyInv
  <1>11. \A u \in Surveys : SavingKept(c, u)'
    BY <1>5, <1>6, <1>8, <1>10 DEF SavingKept, Noted
  <1> QED
    BY <1>4, <1>5, <1>6, <1>9, <1>11, SavingMoves DEF SurveyInv, SurveyTypes

LEMMA LoadScheduleKeeps ==
    ASSUME SurveyInv, NEW c \in Calls, NEW t \in Surveys, S!LoadSchedule(c, t) PROVE SurveyInv'
  <1> DEFINE row == [S!AtRest EXCEPT !.at = "scheduling", !.on = t]
  <1>1. row \in SavingRow /\ row.at = "scheduling" /\ row.on = t
    <2>1. "scheduling" \in SavingSteps
      BY SMTT(30) DEF SavingSteps
    <2>2. row \in SavingRow
      BY <2>1, AtRestRow, SavingRowUpdates
    <2> QED
      BY <2>2 DEF S!AtRest
  <1>2. /\ S!Goes(c, row) /\ UNCHANGED <<template, from, asked, writes, mixed>>
        /\ saving[c].at = "idle" /\ template[t].active
    BY DEF S!LoadSchedule
  <1>3. template[t].sections # {}
    BY <1>2, NoRowRow DEF SurveyInv, SurveyKept
  <1> HIDE DEF row
  <1>4. saving'[c] = row
    BY <1>1, <1>2, GoesTyped DEF SurveyInv
  <1>5. \A u \in Surveys : SavingKept(c, u)'
    BY <1>1, <1>2, <1>3, <1>4 DEF SavingKept
  <1>6. \A u \in Surveys : ~S!Stands(c, "created", u)
    BY <1>2 DEF S!Stands
  <1> QED
    BY <1>1, <1>2, <1>5, <1>6, SavingMoves DEF SurveyInv, SurveyTypes

LEMMA BreakOffVersionKeeps ==
    ASSUME SurveyInv, NEW c \in Calls, NEW t \in Surveys, S!BreakOffVersion(c, t) PROVE SurveyInv'
  <1>1. /\ S!Goes(c, S!AtRest) /\ UNCHANGED <<template, from, asked, writes>>
        /\ saving[c].on = t /\ S!Notes("versioned", t, TRUE) /\ "versioned" \in S!Kinds
    BY DEF S!BreakOffVersion, S!Stands, S!Kinds
  <1>2. mixed \subseteq mixed' /\ mixed' \subseteq S!Kinds \X Surveys /\ Noted("versioned", t)'
    BY <1>1, NotesGrow DEF SurveyInv
  <1>3. \A u \in Surveys : S!Stands(c, "created", u) => u = t
    BY <1>1 DEF S!Stands
  <1>4. saving'[c] = S!AtRest
    BY <1>1, AtRestRow, GoesTyped DEF SurveyInv
  <1>5. \A u \in Surveys : SavingKept(c, u)'
    BY <1>4, AtRestRow DEF SavingKept
  <1> QED
    BY <1>1, <1>2, <1>3, <1>5, AtRestRow, SavingMoves

\* A step changes one template, and at most one request with it.
LEMMA SurveyChanges ==
    ASSUME SurveyInv, NEW t \in Surveys, NEW row \in SurveyRow,
           template' = [template EXCEPT ![t] = row],
           template[t].sections # {} => row.sections # {},
           asked' \in [Surveys -> SUBSET (0 .. MaxWrites)], from' \in [Surveys -> Surveys \cup {S!NoSurvey}],
           writes' \in 0 .. MaxWrites, mixed \subseteq mixed', mixed' \subseteq S!Kinds \X Surveys,
           saving' \in [Calls -> SavingRow], SurveyKept(t)',
           \A u \in Surveys \ {t} :
             /\ asked'[u] = asked[u]
             /\ (\E v \in Surveys : from'[v] = u) => \E v \in Surveys : from[v] = u
             /\ \A d \in Calls : S!Stands(d, "created", u) => S!Stands(d, "created", u)' \/ Noted("versioned", u)',
           \A d \in Calls : \/ saving'[d] = saving[d] /\ SavingKept(d, t)'
                            \/ saving'[d].at = "idle"
    PROVE  SurveyInv'
  <1>1. /\ template' \in [Surveys -> SurveyRow] /\ template'[t] = row
        /\ \A u \in Surveys \ {t} : template'[u] = template[u]
    BY DEF SurveyInv, SurveyTypes
  <1>2. SurveyTypes'
    BY <1>1 DEF SurveyTypes
  <1>3. ASSUME NEW u \in Surveys PROVE SurveyKept(u)'
    <2>1. CASE u = t
      BY <2>1
    <2>2. CASE u # t
      BY <1>1, <2>2, OtherSurvey
    <2> QED
      BY <2>1, <2>2
  <1>4. ASSUME NEW d \in Calls, NEW u \in Surveys PROVE SavingKept(d, u)'
    <2>1. CASE saving'[d].at = "idle"
      BY <2>1 DEF SavingKept
    <2>2. CASE saving'[d] = saving[d] /\ SavingKept(d, t)'
      <3>1. CASE u = t
        BY <2>2, <3>1
      <3>2. CASE u # t
        BY <1>1, <2>2, <3>2, OtherSaving
      <3> QED
        BY <3>1, <3>2
    <2> QED
      BY <2>1, <2>2
  <1>5. \A d \in Calls : saving'[d].at # "idle" => saving'[d].on \in Surveys
    BY DEF SurveyInv
  <1> QED
    BY <1>2, <1>3, <1>4, <1>5 DEF SurveyInv

LEMMA CommitReplaceKeeps ==
    ASSUME SurveyInv, NEW c \in Calls, NEW t \in Surveys, S!CommitReplace(c, t) PROVE SurveyInv'
  <1>1. /\ S!Goes(c, S!AtRest) /\ UNCHANGED <<from, asked>> /\ saving[c].at = "deleting" /\ saving[c].on = t
    BY DEF S!CommitReplace, S!Stands
  <1>2. /\ saving' \in [Calls -> SavingRow] /\ saving'[c] = S!AtRest
        /\ \A d \in Calls \ {c} : saving'[d] = saving[d]
    BY <1>1, AtRestRow, GoesTyped DEF SurveyInv
  <1>3. \A u \in Surveys : ~S!Stands(c, "created", u)
    BY <1>1 DEF S!Stands
  <1>4. CASE S!Answered(c, t)
    <2>1. UNCHANGED <<template, writes, mixed>>
      BY <1>4 DEF S!CommitReplace
    <2>2. \A u \in Surveys : SavingKept(c, u)'
      BY <1>2, AtRestRow DEF SavingKept
    <2> QED
      BY <1>1, <1>3, <2>1, <2>2, AtRestRow, SavingMoves DEF SurveyInv, SurveyTypes
  <1>5. CASE ~S!Answered(c, t)
    <2> DEFINE n == writes + 1
               left == template[t].sections \ saving[c].sees
               new == left \cup {n}
               row == [template[t] EXCEPT !.sections = new]
               overlaps == \E d \in Calls \ {c} : S!Stands(d, "deleting", t)
    <2>1. /\ writes < MaxWrites /\ writes' = n /\ template' = [template EXCEPT ![t] = row]
          /\ S!Notes("written", t, overlaps) /\ "written" \in S!Kinds
      <3>1. template' = [template EXCEPT ![t].sections = new]
        BY <1>5 DEF S!CommitReplace, S!Kept
      <3> QED
        BY <1>5, <3>1 DEF S!CommitReplace, S!Kinds
    <2>2. template[t] \in SurveyRow /\ writes \in 0 .. MaxWrites
      BY DEF SurveyInv, SurveyTypes
    <2>3. n \in 0 .. MaxWrites /\ template[t].sections \in SUBSET (0 .. MaxWrites)
      BY <2>1, <2>2, InspectionAssumption DEF SurveyRow
    <2>4. new \in SUBSET (0 .. MaxWrites) /\ new # {}
      BY <2>3
    <2>5. row \in SurveyRow
      BY <2>2, <2>4, SurveyRowUpdates
    <2>6. /\ row.sections = new /\ row.used = template[t].used /\ row.active = template[t].active
          /\ row.answered = template[t].answered
      BY <2>2 DEF SurveyRow
    <2>7. /\ mixed \subseteq mixed' /\ mixed' \subseteq S!Kinds \X Surveys
          /\ overlaps => Noted("written", t)'
      <3> HIDE DEF overlaps
      <3> QED
        BY <2>1, NotesGrow DEF SurveyInv
    <2>8. SavingKept(c, t) /\ SurveyKept(t)
      BY DEF SurveyInv
    <2>9. /\ template[t].sections # {} /\ (template[t].used => Noted("used", t))
          /\ ~Noted("written", t) => left = {}
      BY <1>1, <2>8 DEF SavingKept
    <2>10. template[t].answered \subseteq new
      BY <1>5, <2>8 DEF S!Answered, SurveyKept
    <2>11. /\ template' \in [Surveys -> SurveyRow] /\ template'[t] = row
      BY <2>1, <2>5 DEF SurveyInv, SurveyTypes
    <2>12. \A what : Noted(what, t) => Noted(what, t)'
      BY <2>7 DEF Noted
    <2>13. \A d \in Calls : S!Stands(d, "created", t) => S!Stands(d, "created", t)'
      BY <1>2, <1>3 DEF S!Stands
    <2> HIDE DEF row
    <2>14. SurveyKept(t)'
      <3>1. template'[t].sections = new /\ new # {}
        BY <2>4, <2>6, <2>11
      <3>2. ~Noted("written", t)' => \E m \in 0 .. MaxWrites : new = {m}
        BY <2>3, <2>9, <2>12
      <3>3. template'[t].used => Noted("used", t)'
        BY <2>6, <2>9, <2>11, <2>12
      <3>4. template'[t].answered \subseteq new
        BY <2>6, <2>10, <2>11
      <3>5. (\E u \in Surveys : from'[u] = t) /\ ~Noted("versioned", t)' /\ ~Noted("restored", t)'
            => ~template'[t].active \/ \E d \in Calls : S!Stands(d, "created", t)'
        BY <1>1, <2>6, <2>8, <2>11, <2>12, <2>13 DEF SurveyKept
      <3> HIDE DEF new
      <3> QED
        BY <3>1, <3>2, <3>3, <3>4, <3>5 DEF SurveyKept
    <2>15. ASSUME NEW d \in Calls
           PROVE (saving'[d] = saving[d] /\ SavingKept(d, t)') \/ saving'[d].at = "idle"
      <3>1. CASE d = c
        BY <1>2, <3>1, AtRestRow
      <3>2. CASE d # c
        <4>1. saving'[d] = saving[d]
          BY <1>2, <3>2
        <4>2. saving[d].at = "deleting" /\ saving[d].on = t => Noted("written", t)'
          BY <2>7, <3>2 DEF S!Stands
        <4>3. template'[t].used = template[t].used /\ template'[t].sections # {}
          BY <2>4, <2>6, <2>11
        <4> QED
          BY <2>7, <4>1, <4>2, <4>3, OtherSaving
      <3> QED
        BY <3>1, <3>2
    <2>16. \A u \in Surveys, d \in Calls : S!Stands(d, "created", u) => S!Stands(d, "created", u)'
      BY <1>2, <1>3 DEF S!Stands
    <2> HIDE DEF n, new, overlaps
    <2> QED
      BY <1>1, <1>2, <2>1, <2>3, <2>4, <2>5, <2>6, <2>7, <2>14, <2>15, <2>16, SurveyChanges
      DEF SurveyInv, SurveyTypes
  <1> QED
    BY <1>4, <1>5

LEMMA ScheduleKeeps ==
    ASSUME SurveyInv, NEW c \in Calls, NEW t \in Surveys, S!Schedule(c, t) PROVE SurveyInv'
  <1> DEFINE row == [template[t] EXCEPT !.used = TRUE]
             overlaps == \E d \in Calls : S!Stands(d, "counted", t) \/ S!Stands(d, "deleting", t)
  <1>1. /\ S!Goes(c, S!AtRest) /\ UNCHANGED <<from, writes>> /\ saving[c].at = "scheduling" /\ saving[c].on = t
        /\ template' = [template EXCEPT ![t] = row] /\ S!Notes("used", t, overlaps) /\ "used" \in S!Kinds
        /\ asked' = [asked EXCEPT ![t] = IF template[t].used THEN asked[t] ELSE template[t].sections]
    BY DEF S!Schedule, S!Stands, S!Kinds
  <1>2. /\ saving' \in [Calls -> SavingRow] /\ saving'[c] = S!AtRest
        /\ \A d \in Calls \ {c} : saving'[d] = saving[d]
    BY <1>1, AtRestRow, GoesTyped DEF SurveyInv
  <1>3. \A u \in Surveys : ~S!Stands(c, "created", u)
    BY <1>1 DEF S!Stands
  <1>4. template[t] \in SurveyRow /\ SurveyKept(t) /\ SavingKept(c, t)
    BY DEF SurveyInv, SurveyTypes
  <1>5. row \in SurveyRow
    BY <1>4, SurveyRowUpdates
  <1>6. /\ row.sections = template[t].sections /\ row.active = template[t].active
        /\ row.answered = template[t].answered
    BY <1>4 DEF SurveyRow
  <1>7. /\ mixed \subseteq mixed' /\ mixed' \subseteq S!Kinds \X Surveys
        /\ overlaps => Noted("used", t)'
    <2> HIDE DEF overlaps
    <2> QED
      BY <1>1, NotesGrow DEF SurveyInv
  <1>8. template[t].sections # {} /\ template[t].sections \in SUBSET (0 .. MaxWrites)
    BY <1>1, <1>4 DEF SavingKept, SurveyRow
  <1>9. template'[t] = row
    BY <1>1, <1>5 DEF SurveyInv, SurveyTypes
  <1>10. /\ asked' \in [Surveys -> SUBSET (0 .. MaxWrites)]
         /\ asked'[t] = IF template[t].used THEN asked[t] ELSE template[t].sections
         /\ \A u \in Surveys \ {t} : asked'[u] = asked[u]
    BY <1>1, <1>8 DEF SurveyInv, SurveyTypes
  <1>11. \A what : Noted(what, t) => Noted(what, t)'
    BY <1>7 DEF Noted
  <1>12. \A u \in Surveys, d \in Calls : S!Stands(d, "created", u) => S!Stands(d, "created", u)'
    BY <1>2, <1>3 DEF S!Stands
  <1> HIDE DEF row
  <1>13. SurveyKept(t)'
    <2>1. /\ template'[t].sections = template[t].sections /\ template'[t].answered = template[t].answered
          /\ template'[t].active = template[t].active
      BY <1>6, <1>9
    <2>2. (\E u \in Surveys : from'[u] = t) /\ ~Noted("versioned", t)' /\ ~Noted("restored", t)'
          => ~template'[t].active \/ \E d \in Calls : S!Stands(d, "created", t)'
      BY <1>1, <1>4, <1>11, <1>12, <2>1 DEF SurveyKept
    <2>3. ~Noted("used", t)' => template'[t].sections = asked'[t]
      BY <1>4, <1>10, <1>11, <2>1 DEF SurveyKept
    <2>4. ~Noted("written", t)' => \E m \in 0 .. MaxWrites : template'[t].sections = {m}
      BY <1>4, <1>8, <1>11, <2>1 DEF SurveyKept
    <2> QED
      BY <1>4, <1>8, <2>1, <2>2, <2>3, <2>4 DEF SurveyKept
  <1>14. ASSUME NEW d \in Calls
         PROVE (saving'[d] = saving[d] /\ SavingKept(d, t)') \/ saving'[d].at = "idle"
    <2>1. CASE d = c
      BY <1>2, <2>1, AtRestRow
    <2>2. CASE d # c
      <3>1. saving'[d] = saving[d]
        BY <1>2, <2>2
      <3>2. saving[d].at \in {"counted", "deleting"} /\ saving[d].on = t => Noted("used", t)'
        BY <1>7 DEF S!Stands
      <3>3. template'[t].sections = template[t].sections
        BY <1>6, <1>9
      <3> QED
        BY <1>7, <3>1, <3>2, <3>3, OtherSaving
    <2> QED
      BY <2>1, <2>2
  <1> HIDE DEF overlaps
  <1> QED
    BY <1>1, <1>2, <1>5, <1>6, <1>7, <1>10, <1>12, <1>13, <1>14, SurveyChanges, ZenonT(40)
    DEF SurveyInv, SurveyTypes

LEMMA CreateTemplateKeeps ==
    ASSUME SurveyInv, NEW c \in Calls, NEW u \in Surveys, NEW p \in Surveys \cup {S!NoSurvey},
           S!CreateTemplate(c, p, u)
    PROVE  SurveyInv'
  <1> DEFINE n == writes + 1
             new == S!NewRow(n)
             row == IF p = S!NoSurvey THEN S!AtRest ELSE [S!AtRest EXCEPT !.at = "created", !.on = p, !.made = u]
             again == p # S!NoSurvey /\ \E v \in Surveys : from[v] = p
  <1>1. /\ S!Goes(c, row) /\ UNCHANGED asked /\ saving[c].at = "idle" /\ template[u] = S!NoRow
        /\ p # S!NoSurvey => template[p] # S!NoRow
        /\ writes < MaxWrites /\ writes' = n /\ template' = [template EXCEPT ![u] = new]
        /\ from' = [from EXCEPT ![u] = p] /\ S!Notes("versioned", p, again) /\ "versioned" \in S!Kinds
    BY DEF S!CreateTemplate, S!Stored, S!Kinds
  <1>2. row \in SavingRow /\ (row.at # "idle" => row.at = "created" /\ row.on = p /\ p \in Surveys)
        /\ (p # S!NoSurvey => row.at = "created" /\ row.on = p)
    <2>1. CASE p = S!NoSurvey
      BY <2>1, AtRestRow
    <2>2. CASE p # S!NoSurvey
      <3>1. "created" \in SavingSteps /\ p \in Surveys
        BY <2>2, SMTT(30) DEF SavingSteps
      <3>2. row \in SavingRow
        BY <2>2, <3>1, AtRestRow, SavingRowUpdates
      <3> QED
        BY <2>2, <3>1, <3>2 DEF S!AtRest
    <2> QED
      BY <2>1, <2>2
  <1>3. n \in 0 .. MaxWrites
    BY <1>1, InspectionAssumption DEF SurveyInv, SurveyTypes
  <1>4. /\ new \in SurveyRow /\ new.sections = {n} /\ new.answered = {}
        /\ new.used = FALSE /\ new.active = TRUE
    BY <1>3, NewRowRow
  <1>5. /\ mixed \subseteq mixed' /\ mixed' \subseteq S!Kinds \X Surveys /\ (again => Noted("versioned", p)')
    <2>1. again => p \in Surveys
      OBVIOUS
    <2> HIDE DEF again
    <2> QED
      BY <1>1, <2>1, NotesGrow DEF SurveyInv
  <1> HIDE DEF row, new
  <1>6. /\ saving' \in [Calls -> SavingRow] /\ saving'[c] = row
        /\ \A d \in Calls \ {c} : saving'[d] = saving[d]
    BY <1>1, <1>2, GoesTyped DEF SurveyInv
  <1>7. /\ template' \in [Surveys -> SurveyRow] /\ template'[u] = new
        /\ \A v \in Surveys \ {u} : template'[v] = template[v]
    BY <1>1, <1>4 DEF SurveyInv, SurveyTypes
  <1>8. /\ from' \in [Surveys -> Surveys \cup {S!NoSurvey}] /\ from'[u] = p
        /\ \A v \in Surveys \ {u} : from'[v] = from[v]
    BY <1>1 DEF SurveyInv, SurveyTypes
  <1>9. SurveyTypes'
    BY <1>1, <1>3, <1>5, <1>6, <1>7, <1>8 DEF SurveyInv, SurveyTypes
  <1>10. template[u].sections = {} /\ (\A v \in Surveys : from[v] # u) /\ p # u
    BY <1>1, NoRowRow, InspectionAssumption DEF SurveyInv, SurveyKept
  <1>11. \A w \in Surveys, d \in Calls : S!Stands(d, "created", w) => S!Stands(d, "created", w)'
    BY <1>1, <1>6 DEF S!Stands
  <1>12. ASSUME NEW w \in Surveys PROVE SurveyKept(w)'
    <2>1. CASE w = u
      <3>1. \A v \in Surveys : from'[v] # u
        BY <1>8, <1>10
      <3> QED
        BY <1>3, <1>4, <1>7, <2>1, <3>1 DEF SurveyKept
    <2>2. CASE w = p
      <3>1. S!Stands(c, "created", w)'
        BY <1>2, <1>6, <2>2, InspectionAssumption DEF S!Stands
      <3>2. template'[w] = template[w] /\ template[w].sections # {} /\ asked'[w] = asked[w]
        BY <1>1, <1>7, <1>10, <2>2, InspectionAssumption DEF SurveyInv, SurveyKept
      <3>3. \A what : Noted(what, w) => Noted(what, w)'
        BY <1>5 DEF Noted
      <3>4. SurveyKept(w)
        BY DEF SurveyInv
      <3> QED
        BY <3>1, <3>2, <3>3, <3>4 DEF SurveyKept
    <2>3. CASE w # u /\ w # p
      <3>1. (\E v \in Surveys : from'[v] = w) => \E v \in Surveys : from[v] = w
        BY <1>8, <2>3
      <3>2. asked'[w] = asked[w]
        BY <1>1
      <3> QED
        BY <1>5, <1>7, <1>11, <2>3, <3>1, <3>2, OtherSurvey
    <2> QED
      BY <2>1, <2>2, <2>3
  <1>13. ASSUME NEW d \in Calls, NEW w \in Surveys PROVE SavingKept(d, w)'
    <2>1. CASE d = c
      <3>1. saving'[d] = row
        BY <1>6, <2>1
      <3>2. row.at # "idle" /\ row.on = w => w # u /\ template[w].sections # {}
        BY <1>1, <1>2, <1>10, InspectionAssumption DEF SurveyInv, SurveyKept
      <3> QED
        BY <1>2, <1>7, <3>1, <3>2 DEF SavingKept
    <2>2. CASE d # c
      <3>1. saving'[d] = saving[d] /\ SavingKept(d, w)
        BY <1>6, <2>2 DEF SurveyInv
      <3>2. CASE w = u
        BY <1>10, <3>1, <3>2 DEF SavingKept
      <3>3. CASE w # u
        BY <1>5, <1>7, <3>1, <3>3, OtherSaving
      <3> QED
        BY <3>2, <3>3
    <2> QED
      BY <2>1, <2>2
  <1>14. \A d \in Calls : saving'[d].at # "idle" => saving'[d].on \in Surveys
    BY <1>2, <1>6 DEF SurveyInv
  <1> QED
    BY <1>9, <1>12, <1>13, <1>14 DEF SurveyInv

LEMMA RetireKeeps ==
    ASSUME SurveyInv, NEW c \in Calls, NEW t \in Surveys, S!Retire(c, t) PROVE SurveyInv'
  <1> DEFINE row == [template[t] EXCEPT !.active = FALSE]
  <1>1. /\ S!Goes(c, S!AtRest) /\ UNCHANGED <<from, asked, writes, mixed>>
        /\ saving[c].at = "created" /\ saving[c].on = t
    BY DEF S!Retire, S!Stands
  <1>2. template' = [template EXCEPT ![t] = row]
    BY DEF S!Retire, S!Retires
  <1>3. /\ saving' \in [Calls -> SavingRow] /\ saving'[c] = S!AtRest
        /\ \A d \in Calls \ {c} : saving'[d] = saving[d]
    BY <1>1, AtRestRow, GoesTyped DEF SurveyInv
  <1>4. template[t] \in SurveyRow /\ SurveyKept(t) /\ SavingKept(c, t)
    BY DEF SurveyInv, SurveyTypes
  <1>5. row \in SurveyRow
    BY <1>4, SurveyRowUpdates
  <1>6. /\ row.sections = template[t].sections /\ row.active = FALSE /\ row.used = template[t].used
        /\ row.answered = template[t].answered
    BY <1>4 DEF SurveyRow
  <1>7. template[t].sections # {}
    BY <1>1, <1>4 DEF SavingKept
  <1>8. template'[t] = row
    BY <1>2, <1>5 DEF SurveyInv, SurveyTypes
  <1>9. \A u \in Surveys \ {t}, d \in Calls : S!Stands(d, "created", u) => S!Stands(d, "created", u)'
    BY <1>1, <1>3 DEF S!Stands
  <1> HIDE DEF row
  <1>10. SurveyKept(t)'
    BY <1>1, <1>4, <1>6, <1>7, <1>8 DEF SurveyKept, Noted
  <1>11. ASSUME NEW d \in Calls
         PROVE (saving'[d] = saving[d] /\ SavingKept(d, t)') \/ saving'[d].at = "idle"
    <2>1. CASE d = c
      BY <1>3, <2>1, AtRestRow
    <2>2. CASE d # c
      <3>1. saving'[d] = saving[d] /\ mixed' = mixed
        BY <1>1, <1>3, <2>2
      <3> QED
        BY <1>6, <1>8, <3>1, OtherSaving
    <2> QED
      BY <2>1, <2>2
  <1> QED
    BY <1>1, <1>2, <1>3, <1>5, <1>6, <1>7, <1>9, <1>10, <1>11, SurveyChanges DEF SurveyInv, SurveyTypes

LEMMA SetActiveKeeps ==
    ASSUME SurveyInv, NEW t \in Surveys, NEW b \in BOOLEAN, S!SetActive(t, b) PROVE SurveyInv'
  <1> DEFINE row == [template[t] EXCEPT !.active = b]
  <1>1. /\ UNCHANGED <<from, asked, writes, saving>> /\ template[t] # S!NoRow
        /\ S!Notes("restored", t, b) /\ "restored" \in S!Kinds
    BY DEF S!SetActive, S!Stored, S!Kinds
  <1>2. template' = [template EXCEPT ![t] = row]
    BY DEF S!SetActive
  <1>3. template[t] \in SurveyRow /\ SurveyKept(t)
    BY DEF SurveyInv, SurveyTypes
  <1>4. row \in SurveyRow
    BY <1>3, SurveyRowUpdates
  <1>5. /\ row.sections = template[t].sections /\ row.active = b /\ row.used = template[t].used
        /\ row.answered = template[t].answered
    BY <1>3 DEF SurveyRow
  <1>6. template[t].sections # {}
    BY <1>1, <1>3 DEF SurveyKept
  <1>7. template'[t] = row
    BY <1>2, <1>4 DEF SurveyInv, SurveyTypes
  <1>8. /\ mixed \subseteq mixed' /\ mixed' \subseteq S!Kinds \X Surveys
        /\ b => Noted("restored", t)'
    BY <1>1, NotesGrow DEF SurveyInv
  <1>9. \A what : Noted(what, t) => Noted(what, t)'
    BY <1>8 DEF Noted
  <1>10. \A u \in Surveys, d \in Calls : S!Stands(d, "created", u) => S!Stands(d, "created", u)'
    BY <1>1 DEF S!Stands
  <1> HIDE DEF row
  <1>11. SurveyKept(t)'
    BY <1>1, <1>3, <1>5, <1>6, <1>7, <1>8, <1>9 DEF SurveyKept
  <1>12. ASSUME NEW d \in Calls PROVE saving'[d] = saving[d] /\ SavingKept(d, t)'
    BY <1>1, <1>5, <1>7, <1>8, OtherSaving
  <1> QED
    BY <1>1, <1>2, <1>4, <1>5, <1>6, <1>8, <1>10, <1>11, <1>12, SurveyChanges DEF SurveyInv, SurveyTypes

LEMMA AnswerKeeps ==
    ASSUME SurveyInv, NEW t \in Surveys, NEW sec, S!Answer(t, sec) PROVE SurveyInv'
  <1> DEFINE said == template[t].answered \cup {sec}
             row == [template[t] EXCEPT !.answered = said]
  <1>1. /\ UNCHANGED <<from, asked, writes, saving, mixed>> /\ sec \in template[t].sections
    BY DEF S!Answer
  <1>2. template' = [template EXCEPT ![t] = row]
    BY DEF S!Answer
  <1>3. template[t] \in SurveyRow /\ SurveyKept(t)
    BY DEF SurveyInv, SurveyTypes
  <1>4. said \in SUBSET (0 .. MaxWrites) /\ said \subseteq template[t].sections
    BY <1>1, <1>3 DEF SurveyRow, SurveyKept
  <1>5. row \in SurveyRow
    BY <1>3, <1>4, SurveyRowUpdates
  <1>6. /\ row.sections = template[t].sections /\ row.active = template[t].active
        /\ row.used = template[t].used /\ row.answered = said
    BY <1>3 DEF SurveyRow
  <1>7. template'[t] = row
    BY <1>2, <1>5 DEF SurveyInv, SurveyTypes
  <1>8. \A u \in Surveys, d \in Calls : S!Stands(d, "created", u) => S!Stands(d, "created", u)'
    BY <1>1 DEF S!Stands
  <1> HIDE DEF row
  <1>9. SurveyKept(t)'
    BY <1>1, <1>3, <1>4, <1>6, <1>7, <1>8 DEF SurveyKept, Noted
  <1>10. ASSUME NEW d \in Calls PROVE saving'[d] = saving[d] /\ SavingKept(d, t)'
    <2>1. saving'[d] = saving[d] /\ mixed' = mixed
      BY <1>1
    <2> QED
      BY <1>6, <1>7, <2>1, OtherSaving
  <1> QED
    BY <1>1, <1>2, <1>5, <1>6, <1>8, <1>9, <1>10, SurveyChanges DEF SurveyInv, SurveyTypes

LEMMA SurveyInvStep == ASSUME SurveyInv, [S!SurveyNext]_survey PROVE SurveyInv'
  <1>1. CASE S!SurveyNext
    <2>1. ASSUME NEW c \in Calls, NEW t \in Surveys, S!CountUses(c, t) PROVE SurveyInv'
      BY <2>1, CountUsesKeeps
    <2>2. ASSUME NEW c \in Calls, NEW t \in Surveys, S!BeginReplace(c, t) PROVE SurveyInv'
      BY <2>2, BeginReplaceKeeps
    <2>3. ASSUME NEW c \in Calls, NEW t \in Surveys, S!CommitReplace(c, t) PROVE SurveyInv'
      BY <2>3, CommitReplaceKeeps
    <2>4. ASSUME NEW c \in Calls, NEW t \in Surveys, NEW p \in Surveys \cup {S!NoSurvey},
                 S!CreateTemplate(c, p, t)
          PROVE  SurveyInv'
      BY <2>4, CreateTemplateKeeps
    <2>5. ASSUME NEW c \in Calls, NEW t \in Surveys, S!Retire(c, t) PROVE SurveyInv'
      BY <2>5, RetireKeeps
    <2>6. ASSUME NEW c \in Calls, NEW t \in Surveys, S!BreakOffVersion(c, t) PROVE SurveyInv'
      BY <2>6, BreakOffVersionKeeps
    <2>7. ASSUME NEW c \in Calls, NEW t \in Surveys, S!LoadSchedule(c, t) PROVE SurveyInv'
      BY <2>7, LoadScheduleKeeps
    <2>8. ASSUME NEW c \in Calls, NEW t \in Surveys, S!Schedule(c, t) PROVE SurveyInv'
      BY <2>8, ScheduleKeeps
    <2>9. ASSUME NEW t \in Surveys, NEW b \in BOOLEAN, S!SetActive(t, b) PROVE SurveyInv'
      BY <2>9, SetActiveKeeps
    <2>10. ASSUME NEW t \in Surveys, NEW sec \in template[t].sections, S!Answer(t, sec) PROVE SurveyInv'
      BY <2>10, AnswerKeeps
    <2> QED
      BY <1>1, <2>1, <2>2, <2>3, <2>4, <2>5, <2>6, <2>7, <2>8, <2>9, <2>10, Zenon DEF S!SurveyNext
  <1>2. CASE UNCHANGED survey
    BY <1>2 DEF survey, SurveyInv, SurveyTypes, SurveyKept, SavingKept, Noted, S!Stands
  <1> QED
    BY <1>1, <1>2

-----------------------------------------------------------------------------
(* An assessment.                                                           *)

AnswerSteps == {"idle", "loaded", "found", "wrote", "decided"}
AnswerOps == {"none", "add", "delete", "save", "file", "status"}
AnswerRow == [at : AnswerSteps, op : AnswerOps, seen : A!Statuses, to : A!Statuses,
              on : A!Instances \cup {A!First, A!Gone}, row : 0 .. MaxRows, value : BOOLEAN]

AnswerTypes ==
    /\ status \in A!Statuses /\ task \in Tasks /\ responses \subseteq A!Instances
    /\ answers \in [A!Instances -> Seq(BOOLEAN)] /\ \A i \in A!Instances : Len(answers[i]) <= MaxRows
    /\ complete \in [A!Instances -> BOOLEAN]
    /\ assessmentCall \in [Calls -> AnswerRow]
    /\ raced \subseteq {"answer", "completion", "status"}

\* What a request holds between two steps of its operation.
CallFits(g) ==
    /\ g.at = "idle" => g = A!Resting
    /\ g.at = "loaded" => g.op \in {"add", "delete", "save", "status"}
    /\ g.at = "found" => g.op \in {"save", "file"} /\ g.on # A!First
    /\ g.at \in {"wrote", "decided"} => g.op = "none" /\ g.on # A!First
    /\ g.op = "add" => g.on \in A!Instances /\ (~task.repeatable => g.on = 1)

IsAnswered(i) == \E k \in DOMAIN answers[i] : answers[i][k]

\* What a request will write to response i is still to be written: the row it
\* found is there, and the completion it decided on is that of the answers.
RequestKept(c, i) ==
    assessmentCall[c].on = i =>
      /\ assessmentCall[c].op \in {"save", "file"} => i \in responses
      /\ assessmentCall[c].at = "found" =>
           /\ assessmentCall[c].row # 0 => assessmentCall[c].row \in DOMAIN answers[i]
           /\ assessmentCall[c].row = 0 /\ "answer" \notin raced => answers[i] = <<>>
      /\ assessmentCall[c].at = "decided" /\ "answer" \notin raced /\ "completion" \notin raced =>
           /\ assessmentCall[c].value => IsAnswered(i)
           /\ ~task.completable => assessmentCall[c].value = IsAnswered(i)

\* A response whose completion is not that of its answers has a request that
\* will say so.
On(c, at, i) == assessmentCall[c].at = at /\ assessmentCall[c].on = i
Awaits(c, i, v) == On(c, "wrote", i) \/ (On(c, "decided", i) /\ assessmentCall[c].value = v)
CompletionKept(i) ==
    "answer" \notin raced /\ "completion" \notin raced =>
      /\ complete[i] /\ ~IsAnswered(i) => \E c \in Calls : Awaits(c, i, FALSE)
      /\ ~task.completable /\ IsAnswered(i) /\ ~complete[i] => \E c \in Calls : Awaits(c, i, TRUE)

OneCreates ==
    "answer" \notin raced =>
      \A i \in A!Instances, c, d \in Calls : A!Creating(c, i) /\ A!Creating(d, i) => c = d

\* A locked assessment has no request that loaded it before.
LockKept(c) ==
    "status" \notin raced /\ A!Locked(status) =>
      assessmentCall[c].at = "idle" \/ (status # "RELEASED" /\ assessmentCall[c].op = "status")

AnswerInv ==
    /\ AnswerTypes
    /\ \A c \in Calls : CallFits(assessmentCall[c]) /\ LockKept(c)
    /\ \A c \in Calls, i \in A!Instances : RequestKept(c, i)
    /\ \A i \in A!Instances : CompletionKept(i)
    /\ A!OneAnswer /\ OneCreates
    /\ ~task.repeatable => responses \subseteq {1}

LEMMA InstanceFacts ==
    /\ 1 \in A!Instances /\ A!Gone \notin A!Instances /\ A!First \notin A!Instances /\ A!First # A!Gone
    /\ A!Instances \subseteq Nat
  BY InspectionAssumption DEF A!Instances, A!Gone, A!First

LEMMA RestingRow ==
    /\ A!Resting \in AnswerRow /\ A!Resting.at = "idle" /\ A!Resting.op = "none" /\ A!Resting.on = A!First
    /\ CallFits(A!Resting)
  BY InspectionAssumption DEF A!Resting, AnswerRow, AnswerSteps, AnswerOps, A!Statuses, CallFits

LEMMA AnswerRowUpdates ==
    ASSUME NEW g \in AnswerRow, NEW at \in AnswerSteps, NEW op \in AnswerOps, NEW s \in A!Statuses,
           NEW on \in A!Instances \cup {A!First, A!Gone}, NEW row \in 0 .. MaxRows, NEW v \in BOOLEAN
    PROVE  /\ [g EXCEPT !.op = op, !.seen = s] \in AnswerRow
           /\ [g EXCEPT !.at = at, !.on = on] \in AnswerRow
           /\ [g EXCEPT !.at = at, !.on = on, !.value = v] \in AnswerRow
           /\ [g EXCEPT !.at = at, !.on = on, !.row = row, !.value = v] \in AnswerRow
           /\ [g EXCEPT !.at = at, !.on = on, !.row = row, !.seen = s] \in AnswerRow
           /\ [g EXCEPT !.at = at, !.to = s] \in AnswerRow
           /\ [g EXCEPT !.at = at, !.value = v] \in AnswerRow
           /\ [g EXCEPT !.on = on] \in AnswerRow
  BY Zenon DEF AnswerRow

LEMMA AnswerRowDecides ==
    ASSUME NEW g \in AnswerRow, NEW at \in AnswerSteps, NEW v \in BOOLEAN
    PROVE  [g EXCEPT !.at = at, !.value = v] \in AnswerRow
  BY Zenon DEF AnswerRow

LEMMA AnswerRowFields == ASSUME NEW g \in AnswerRow
    PROVE /\ g.at \in AnswerSteps /\ g.op \in AnswerOps /\ g.seen \in A!Statuses /\ g.to \in A!Statuses
          /\ g.on \in A!Instances \cup {A!First, A!Gone} /\ g.row \in 0 .. MaxRows /\ g.value \in BOOLEAN
  BY DEF AnswerRow

\* A request goes on, and may add a response or change the status, but leaves
\* the answers alone.
LEMMA AnswersStay ==
    ASSUME AnswerInv, NEW c \in Calls, NEW row \in AnswerRow,
           assessmentCall' = [assessmentCall EXCEPT ![c] = row],
           UNCHANGED <<task, answers, complete>>, status' \in A!Statuses,
           responses \subseteq responses', responses' \subseteq A!Instances,
           ~task.repeatable => responses' \subseteq {1},
           raced \subseteq raced', raced' \subseteq {"answer", "completion", "status"},
           CallFits(row), \A i \in A!Instances : RequestKept(c, i)',
           \A i \in A!Instances : On(c, "wrote", i) \/ On(c, "decided", i) => CompletionKept(i)',
           OneCreates', \A d \in Calls : LockKept(d)'
    PROVE  AnswerInv'
  <1>1. /\ assessmentCall' \in [Calls -> AnswerRow] /\ assessmentCall'[c] = row
        /\ \A d \in Calls \ {c} : assessmentCall'[d] = assessmentCall[d]
    BY DEF AnswerInv, AnswerTypes
  <1>2. AnswerTypes'
    BY <1>1 DEF AnswerInv, AnswerTypes
  <1>3. ASSUME NEW d \in Calls PROVE CallFits(assessmentCall[d])'
    <2>1. CallFits(assessmentCall'[d])
      BY <1>1 DEF AnswerInv
    <2> QED
      BY <2>1 DEF CallFits
  <1>4. ASSUME NEW d \in Calls, NEW i \in A!Instances PROVE RequestKept(d, i)'
    <2>1. CASE d = c
      BY <2>1
    <2>2. CASE d # c
      <3>1. assessmentCall'[d] = assessmentCall[d] /\ RequestKept(d, i)
        BY <1>1, <2>2 DEF AnswerInv
      <3> QED
        BY <3>1 DEF RequestKept, IsAnswered
    <2> QED
      BY <2>1, <2>2
  <1>5. ASSUME NEW i \in A!Instances PROVE CompletionKept(i)'
    <2>1. CASE On(c, "wrote", i) \/ On(c, "decided", i)
      BY <2>1
    <2>2. CASE ~(On(c, "wrote", i) \/ On(c, "decided", i))
      <3>1. CompletionKept(i)
        BY DEF AnswerInv
      <3>2. \A v : \A d \in Calls : Awaits(d, i, v) => Awaits(d, i, v)'
        BY <1>1, <2>2 DEF Awaits, On
      <3>3. IsAnswered(i)' = IsAnswered(i)
        BY DEF IsAnswered
      <3> QED
        BY <3>1, <3>2, <3>3 DEF CompletionKept
    <2> QED
      BY <2>1, <2>2
  <1>6. A!OneAnswer' /\ (~task.repeatable => responses \subseteq {1})'
    BY DEF AnswerInv, A!OneAnswer
  <1> QED
    BY <1>2, <1>3, <1>4, <1>5, <1>6 DEF AnswerInv

\* A request goes on and leaves the assessment alone.
LEMMA CallMoves ==
    ASSUME AnswerInv, NEW c \in Calls, NEW row \in AnswerRow,
           assessmentCall' = [assessmentCall EXCEPT ![c] = row],
           UNCHANGED <<status, task, responses, answers, complete>>,
           raced \subseteq raced', raced' \subseteq {"answer", "completion", "status"},
           CallFits(row), \A i \in A!Instances : RequestKept(c, i)',
           row.at = "found" => row.row # 0,
           \A i \in A!Instances : On(c, "wrote", i) \/ On(c, "decided", i) => CompletionKept(i)',
           "status" \notin raced' /\ A!Locked(status) =>
             row.at = "idle" \/ (status # "RELEASED" /\ row.op = "status")
    PROVE  AnswerInv'
  <1>1. /\ assessmentCall'[c] = row
        /\ \A d \in Calls \ {c} : assessmentCall'[d] = assessmentCall[d]
    BY DEF AnswerInv, AnswerTypes
  <1>2. OneCreates'
    <2>1. \A d \in Calls, i \in A!Instances : A!Creating(d, i)' => A!Creating(d, i)
      BY <1>1 DEF A!Creating
    <2> QED
      BY <2>1 DEF AnswerInv, OneCreates
  <1>3. ASSUME NEW d \in Calls PROVE LockKept(d)'
    <2>1. CASE d = c
      BY <1>1, <2>1 DEF LockKept, A!Locked
    <2>2. CASE d # c
      <3>1. assessmentCall'[d] = assessmentCall[d] /\ LockKept(d)
        BY <1>1, <2>2 DEF AnswerInv
      <3> QED
        BY <3>1 DEF LockKept, A!Locked
    <2> QED
      BY <2>1, <2>2
  <1>4. /\ status \in A!Statuses /\ responses \subseteq A!Instances /\ (~task.repeatable => responses \subseteq {1})
    BY DEF AnswerInv, AnswerTypes
  <1> QED
    BY <1>2, <1>3, <1>4, AnswersStay

\* A request loads the assessment.
LEMMA LoadsKeeps ==
    ASSUME AnswerInv, NEW c \in Calls, NEW op \in AnswerOps, NEW fields \in AnswerRow,
           A!Loads(c, op, fields),
           ~A!Locked(status) \/ (status # "RELEASED" /\ op = "status"),
           fields.at \in {"loaded", "found", "decided"},
           fields.at = "loaded" => op \in {"add", "delete", "save", "status"},
           fields.at = "found" => op = "file" /\ fields.on \in responses /\ fields.row # 0
                                  /\ fields.row \in DOMAIN answers[fields.on],
           fields.at = "decided" => op = "none" /\ fields.on \in A!Instances /\ task.completable
                                    /\ (fields.value => IsAnswered(fields.on)),
           op = "save" => fields.on \in responses \cup {A!First},
           op = "add" => fields.on \in A!Instances /\ (~task.repeatable => fields.on = 1)
    PROVE  AnswerInv'
  <1> DEFINE seen == IF op \in A!Starting THEN status ELSE fields.seen
             row == [fields EXCEPT !.op = op, !.seen = seen]
  <1>1. /\ assessmentCall[c].at = "idle" /\ assessmentCall' = [assessmentCall EXCEPT ![c] = row]
        /\ UNCHANGED <<status, task, responses, answers, complete, raced>>
    BY DEF A!Loads
  <1>2. seen \in A!Statuses
    BY AnswerRowFields DEF AnswerInv, AnswerTypes
  <1>3. row \in AnswerRow
    <2> HIDE DEF seen
    <2> QED
      BY <1>2, AnswerRowUpdates, AnswerRowFields, Zenon
  <1>4. row.at = fields.at /\ row.op = op /\ row.on = fields.on /\ row.row = fields.row /\ row.value = fields.value
    BY DEF AnswerRow
  <1> HIDE DEF row
  <1>5. assessmentCall'[c] = row
    BY <1>1, <1>3 DEF AnswerInv, AnswerTypes
  <1>6. CallFits(row)
    BY <1>4, InstanceFacts, ZenonT(40) DEF CallFits, AnswerInv, AnswerTypes
  <1>7. ASSUME NEW i \in A!Instances PROVE RequestKept(c, i)'
    BY <1>1, <1>4, <1>5, InstanceFacts, ZenonT(40) DEF RequestKept, IsAnswered
  <1>8. \A i \in A!Instances : ~On(c, "wrote", i) /\ ~On(c, "decided", i)
    BY <1>1 DEF On
  <1>9. raced \subseteq {"answer", "completion", "status"}
    BY DEF AnswerInv, AnswerTypes
  <1> QED
    BY <1>1, <1>3, <1>4, <1>6, <1>7, <1>8, <1>9, CallMoves

LEMMA LoadAddKeeps ==
    ASSUME AnswerInv, NEW c \in Calls, NEW n \in A!Instances, A!LoadAdd(c, n) PROVE AnswerInv'
  <1> DEFINE fields == [A!Resting EXCEPT !.at = "loaded", !.on = n]
  <1>1. /\ ~A!Locked(status) /\ A!Loads(c, "add", fields) /\ (~task.repeatable => n = 1)
    BY DEF A!LoadAdd, A!MayAdd
  <1>2. fields \in AnswerRow
    <2>1. "loaded" \in AnswerSteps
      BY DEF AnswerSteps
    <2> QED
      BY <2>1, RestingRow, AnswerRowUpdates, AnswerRowFields, Zenon
  <1>3. fields.at = "loaded" /\ fields.on = n /\ "add" \in AnswerOps
    BY DEF A!Resting, AnswerOps
  <1> HIDE DEF fields
  <1> QED
    BY <1>1, <1>2, <1>3, LoadsKeeps

LEMMA LoadDeleteKeeps ==
    ASSUME AnswerInv, NEW c \in Calls, NEW i \in A!Instances, A!LoadDelete(c, i) PROVE AnswerInv'
  <1> DEFINE fields == [A!Resting EXCEPT !.at = "loaded", !.on = i]
  <1>1. /\ ~A!Locked(status) /\ A!Loads(c, "delete", fields)
    BY DEF A!LoadDelete
  <1>2. fields \in AnswerRow
    <2>1. "loaded" \in AnswerSteps
      BY DEF AnswerSteps
    <2> QED
      BY <2>1, RestingRow, AnswerRowUpdates, AnswerRowFields
  <1>3. fields.at = "loaded" /\ fields.on = i /\ "delete" \in AnswerOps
    BY DEF A!Resting, AnswerOps
  <1> HIDE DEF fields
  <1> QED
    BY <1>1, <1>2, <1>3, LoadsKeeps

LEMMA LoadSaveKeeps ==
    ASSUME AnswerInv, NEW c \in Calls, NEW i \in A!Instances \cup {A!First}, NEW v \in BOOLEAN,
           A!LoadSave(c, i, v)
    PROVE  AnswerInv'
  <1> DEFINE fields == [A!Resting EXCEPT !.at = "loaded", !.on = i, !.value = v]
  <1>1. /\ ~A!Locked(status) /\ i \in responses \cup {A!First} /\ A!Loads(c, "save", fields)
    BY DEF A!LoadSave
  <1>2. fields \in AnswerRow
    <2>1. "loaded" \in AnswerSteps /\ i \in A!Instances \cup {A!First, A!Gone}
      BY DEF AnswerSteps
    <2> QED
      BY <2>1, RestingRow, Zenon DEF AnswerRow
  <1>3. fields.at = "loaded" /\ fields.on = i /\ "save" \in AnswerOps
    BY DEF A!Resting, AnswerOps
  <1> HIDE DEF fields
  <1> QED
    BY <1>1, <1>2, <1>3, LoadsKeeps

LEMMA LoadFileKeeps ==
    ASSUME AnswerInv, NEW c \in Calls, NEW i \in A!Instances, A!LoadFile(c, i) PROVE AnswerInv'
  <1>1. /\ i \in responses /\ answers[i] # <<>> /\ ~A!Locked(status)
    BY DEF A!LoadFile
  <1>2. PICK k \in A!RowsOf(i) :
          A!Loads(c, "file", [A!Resting EXCEPT !.at = "found", !.on = i, !.row = k, !.value = TRUE])
    BY DEF A!LoadFile
  <1> DEFINE fields == [A!Resting EXCEPT !.at = "found", !.on = i, !.row = k, !.value = TRUE]
  <1>3. k \in DOMAIN answers[i] /\ k \in 0 .. MaxRows /\ k # 0
    <2>1. answers[i] \in Seq(BOOLEAN) /\ Len(answers[i]) <= MaxRows /\ k \in DOMAIN answers[i]
      BY <1>1, <1>2 DEF A!RowsOf, AnswerInv, AnswerTypes
    <2>2. k \in 1 .. Len(answers[i]) /\ Len(answers[i]) \in Nat
      BY <2>1, SMTT(30)
    <2> QED
      BY <2>1, <2>2, InspectionAssumption
  <1>4. fields \in AnswerRow
    <2>1. "found" \in AnswerSteps /\ i \in A!Instances \cup {A!First, A!Gone} /\ TRUE \in BOOLEAN
      BY DEF AnswerSteps
    <2> QED
      BY <1>3, <2>1, RestingRow, AnswerRowUpdates, AnswerRowFields, Zenon
  <1>5. fields.at = "found" /\ fields.on = i /\ fields.row = k /\ "file" \in AnswerOps
    BY DEF A!Resting, AnswerOps
  <1>6. A!Loads(c, "file", fields)
    BY <1>2
  <1> HIDE DEF fields
  <1> QED
    BY <1>1, <1>3, <1>4, <1>5, <1>6, LoadsKeeps

LEMMA LoadMarkKeeps ==
    ASSUME AnswerInv, NEW c \in Calls, NEW i \in A!Instances, NEW v \in BOOLEAN, A!LoadMark(c, i, v)
    PROVE  AnswerInv'
  <1> DEFINE fields == [A!Resting EXCEPT !.at = "decided", !.on = i, !.value = v]
  <1>1. /\ ~A!Locked(status) /\ task.completable /\ A!Loads(c, "none", fields)
        /\ v => TRUE \in A!AnsweredSomehow(i)
    BY DEF A!LoadMark
  <1>2. v => IsAnswered(i)
    BY <1>1 DEF A!AnsweredSomehow, IsAnswered
  <1>3. fields \in AnswerRow
    <2>1. "decided" \in AnswerSteps /\ i \in A!Instances \cup {A!First, A!Gone}
      BY DEF AnswerSteps
    <2> QED
      BY <2>1, RestingRow, Zenon DEF AnswerRow
  <1>4. fields.at = "decided" /\ fields.on = i /\ fields.value = v /\ "none" \in AnswerOps
    BY DEF A!Resting, AnswerOps
  <1> HIDE DEF fields
  <1> QED
    BY <1>1, <1>2, <1>3, <1>4, LoadsKeeps

LEMMA LoadStatusKeeps ==
    ASSUME AnswerInv, NEW c \in Calls, NEW manager \in BOOLEAN, NEW to \in A!Statuses,
           A!LoadStatus(c, manager, to)
    PROVE  AnswerInv'
  <1> DEFINE fields == [A!Resting EXCEPT !.at = "loaded", !.to = to]
  <1>1. status # "RELEASED" /\ A!Loads(c, "status", fields)
    BY SMTT(30) DEF A!LoadStatus, A!MayChange
  <1>2. fields \in AnswerRow
    <2>1. "loaded" \in AnswerSteps
      BY DEF AnswerSteps
    <2> QED
      BY <2>1, RestingRow, AnswerRowUpdates, AnswerRowFields, Zenon
  <1>3. fields.at = "loaded" /\ "status" \in AnswerOps
    BY DEF A!Resting, AnswerOps
  <1> HIDE DEF fields
  <1> QED
    BY <1>1, <1>2, <1>3, LoadsKeeps

\* A request is over, and nothing was waiting for what it would have written.
LEMMA EndsKeeps ==
    ASSUME AnswerInv, NEW c \in Calls, A!Ends(c),
           UNCHANGED <<status, task, responses, answers, complete>>,
           raced \subseteq raced', raced' \subseteq {"answer", "completion", "status"},
           \A i \in A!Instances : On(c, "wrote", i) \/ On(c, "decided", i) => CompletionKept(i)'
    PROVE  AnswerInv'
  <1>1. assessmentCall' = [assessmentCall EXCEPT ![c] = A!Resting]
    BY DEF A!Ends
  <1>2. assessmentCall'[c] = A!Resting
    BY <1>1 DEF AnswerInv, AnswerTypes
  <1>3. \A i \in A!Instances : RequestKept(c, i)'
    BY <1>2, RestingRow, InstanceFacts DEF RequestKept
  <1> QED
    BY <1>1, <1>3, RestingRow, CallMoves

LEMMA BreakOffKeeps == ASSUME AnswerInv, NEW c \in Calls, A!BreakOff(c) PROVE AnswerInv'
  <1>1. /\ A!Ends(c) /\ UNCHANGED <<status, task, responses, answers, complete>>
        /\ raced' = raced \cup {"completion"} /\ raced \subseteq {"answer", "completion", "status"}
    BY DEF A!BreakOff, AnswerInv, AnswerTypes
  <1>2. \A i \in A!Instances : CompletionKept(i)'
    BY <1>1 DEF CompletionKept
  <1> QED
    BY <1>1, <1>2, EndsKeeps

\* With one row at most, the answers say one thing.
LEMMA SomehowIsAnswered ==
    ASSUME AnswerInv, NEW i \in A!Instances, "answer" \notin raced, NEW v \in A!AnsweredSomehow(i)
    PROVE  v = IsAnswered(i)
  <1>1. answers[i] \in Seq(BOOLEAN) /\ Len(answers[i]) <= 1
    BY DEF AnswerInv, AnswerTypes, A!OneAnswer
  <1>2. DOMAIN answers[i] = 1 .. Len(answers[i]) /\ Len(answers[i]) \in Nat
    BY <1>1
  <1>3. CASE Len(answers[i]) = 0
    <2>1. answers[i] = <<>>
      BY <1>1, <1>3, EmptySeq
    <2> QED
      BY <1>2, <1>3, <2>1 DEF A!AnsweredSomehow, IsAnswered
  <1>4. CASE Len(answers[i]) = 1
    <2>1. DOMAIN answers[i] = {1} /\ answers[i] # <<>> /\ answers[i][1] \in BOOLEAN
      BY <1>1, <1>2, <1>4
    <2> QED
      BY <2>1 DEF A!AnsweredSomehow, IsAnswered
  <1> QED
    <2>1. \A n \in Nat : n <= 1 => n = 0 \/ n = 1
      OBVIOUS
    <2> QED
      BY <1>1, <1>2, <1>3, <1>4, <2>1, Zenon

LEMMA ReadCompletionKeeps == ASSUME AnswerInv, NEW c \in Calls, A!ReadCompletion(c) PROVE AnswerInv'
  <1> DEFINE g == assessmentCall[c]
  <1>0. PICK on : on = g.on
    OBVIOUS
  <1>1. g \in AnswerRow /\ g.at = "wrote" /\ CallFits(g)
    BY DEF A!ReadCompletion, AnswerInv, AnswerTypes
  <1>2. /\ UNCHANGED <<status, task, responses, answers, complete, raced>>
        /\ raced \subseteq {"answer", "completion", "status"} /\ task \in Tasks
    BY DEF A!ReadCompletion, AnswerInv, AnswerTypes
  <1>3. CASE on = A!Gone /\ A!Ends(c)
    <2>1. \A i \in A!Instances : ~On(c, "wrote", i) /\ ~On(c, "decided", i)
      BY <1>0, <1>1, <1>3, InstanceFacts DEF On
    <2> QED
      BY <1>2, <1>3, <2>1, EndsKeeps
  <1>4. CASE on # A!Gone
    <2>1. on \in A!Instances
      BY <1>0, <1>1, <1>4, AnswerRowFields DEF CallFits
    <2>2. PICK satisfied \in A!AnsweredSomehow(on) :
            LET next == A!NextComplete(on, satisfied)
            IN IF next = complete[on] THEN A!Ends(c)
               ELSE assessmentCall' = [assessmentCall EXCEPT ![c].at = "decided", ![c].value = next]
      BY <1>0, <1>4 DEF A!ReadCompletion
    <2>0. PICK next : next = A!NextComplete(on, satisfied)
      OBVIOUS
    <2>3. complete[on] \in BOOLEAN /\ CompletionKept(on)
      BY <2>1 DEF AnswerInv, AnswerTypes
    <2>4. "answer" \notin raced => satisfied = IsAnswered(on)
      BY <2>1, <2>2, SomehowIsAnswered
    <2>5. satisfied \in BOOLEAN
      <3>1. answers[on] \in Seq(BOOLEAN)
        BY <2>1 DEF AnswerInv, AnswerTypes
      <3>2. \A k \in DOMAIN answers[on] : answers[on][k] \in BOOLEAN
        BY <3>1
      <3> QED
        BY <2>2, <3>2 DEF A!AnsweredSomehow
    <2>6. /\ task.completable => next = (complete[on] /\ satisfied)
          /\ ~task.completable => next = satisfied
      BY <2>0 DEF A!NextComplete
    <2>7. \A i \in A!Instances : On(c, "wrote", i) \/ On(c, "decided", i) => i = on
      BY <1>0 DEF On
    <2>8. IsAnswered(on)' = IsAnswered(on) /\ IsAnswered(on) \in BOOLEAN
      BY <1>2 DEF IsAnswered
    <2>9. CASE next = complete[on] /\ A!Ends(c)
      <3>1. CompletionKept(on)'
        <4>1. SUFFICES ASSUME "answer" \notin raced
              PROVE  (complete[on] => IsAnswered(on)) /\ (~task.completable /\ IsAnswered(on) => complete[on])
          BY <1>2, <2>8 DEF CompletionKept
        <4> QED
          BY <2>3, <2>4, <2>5, <2>6, <2>8, <2>9, <4>1
      <3> QED
        BY <1>2, <2>7, <2>9, <3>1, EndsKeeps
    <2>10. CASE next # complete[on] /\ assessmentCall' = [assessmentCall EXCEPT ![c].at = "decided", ![c].value = next]
      <3> DEFINE row == [g EXCEPT !.at = "decided", !.value = next]
      <3>1. assessmentCall' = [assessmentCall EXCEPT ![c] = row]
        BY <2>10, Zenon DEF AnswerInv, AnswerTypes
      <3>2. next \in BOOLEAN
        BY <2>3, <2>5, <2>6
      <3>3. row \in AnswerRow
        <4>1. "decided" \in AnswerSteps
          BY DEF AnswerSteps
        <4> HIDE DEF g
        <4> QED
          BY <1>1, <3>2, <4>1, AnswerRowDecides, Zenon
      <3>4. row.at = "decided" /\ row.op = "none" /\ row.on = on /\ row.value = next
        BY <1>0, <1>1 DEF AnswerRow, CallFits
      <3>5. assessmentCall'[c] = row
        BY <3>1, <3>3 DEF AnswerInv, AnswerTypes
      <3> HIDE DEF row
      <3>6. CallFits(row)
        BY <1>0, <1>1, <3>4 DEF CallFits
      <3>7. ASSUME NEW i \in A!Instances PROVE RequestKept(c, i)'
        BY <1>2, <2>3, <2>4, <2>5, <2>6, <2>8, <2>10, <3>2, <3>4, <3>5 DEF RequestKept
      <3>8. CompletionKept(on)'
        <4>1. Awaits(c, on, next)'
          BY <3>4, <3>5 DEF Awaits, On
        <4> QED
          BY <1>2, <2>3, <2>4, <2>5, <2>6, <2>8, <2>10, <4>1 DEF CompletionKept
      <3>9. "status" \notin raced' => ~A!Locked(status)
        <4>1. LockKept(c)
          BY DEF AnswerInv
        <4> QED
          BY <1>1, <1>2, <4>1 DEF LockKept, CallFits
      <3> QED
        BY <1>2, <2>7, <3>1, <3>3, <3>4, <3>6, <3>7, <3>8, <3>9, CallMoves
    <2> QED
      BY <2>0, <2>2, <2>9, <2>10
  <1> QED
    BY <1>0, <1>3, <1>4 DEF A!ReadCompletion

LEMMA AddResponseKeeps == ASSUME AnswerInv, NEW c \in Calls, A!AddResponse(c) PROVE AnswerInv'
  <1>1. PICK i : i = assessmentCall[c].on
    OBVIOUS
  <1>2. /\ assessmentCall[c] \in AnswerRow /\ assessmentCall[c].op = "add" /\ assessmentCall[c].at = "loaded"
        /\ CallFits(assessmentCall[c]) /\ LockKept(c)
    BY DEF A!AddResponse, A!At, AnswerInv, AnswerTypes
  <1>3. i \in A!Instances /\ (~task.repeatable => i = 1)
    BY <1>1, <1>2 DEF CallFits
  <1>4. A!Ends(c) /\ UNCHANGED <<task, answers, complete, raced>>
    BY DEF A!AddResponse
  <1>5. CASE i \in responses
    <2>1. UNCHANGED <<status, responses>>
      BY <1>1, <1>5 DEF A!AddResponse
    <2>2. \A k \in A!Instances : ~On(c, "wrote", k) /\ ~On(c, "decided", k)
      BY <1>2 DEF On
    <2> QED
      BY <1>4, <2>1, <2>2, EndsKeeps DEF AnswerInv, AnswerTypes
  <1>6. CASE i \notin responses
    <2>1. responses' = responses \cup {i} /\ status' = A!Started(assessmentCall[c].seen)
      BY <1>1, <1>6 DEF A!AddResponse
    <2>2. assessmentCall' = [assessmentCall EXCEPT ![c] = A!Resting]
      BY <1>4 DEF A!Ends
    <2>3. /\ assessmentCall'[c] = A!Resting
          /\ \A d \in Calls \ {c} : assessmentCall'[d] = assessmentCall[d]
      BY <2>2 DEF AnswerInv, AnswerTypes
    <2>4. status' \in A!Statuses /\ (A!Locked(status') => status' = status)
      BY <2>1 DEF A!Started, A!Statuses, A!Locked, AnswerInv, AnswerTypes
    <2>5. \A k \in A!Instances : RequestKept(c, k)'
      BY <2>3, RestingRow, InstanceFacts DEF RequestKept
    <2>6. \A k \in A!Instances : ~On(c, "wrote", k) /\ ~On(c, "decided", k)
      BY <1>2 DEF On
    <2>7. OneCreates'
      <3>1. \A d \in Calls, k \in A!Instances : A!Creating(d, k)' => A!Creating(d, k)
        BY <2>3, RestingRow DEF A!Creating
      <3> QED
        BY <1>4, <3>1 DEF AnswerInv, OneCreates
    <2>8. ASSUME NEW d \in Calls PROVE LockKept(d)'
      <3>1. LockKept(d)
        BY DEF AnswerInv
      <3>2. assessmentCall'[d] = assessmentCall[d] \/ assessmentCall'[d].at = "idle"
        BY <2>3, RestingRow
      <3> QED
        BY <1>4, <2>4, <3>1, <3>2 DEF LockKept, A!Locked
    <2>9. /\ responses' \subseteq A!Instances /\ (~task.repeatable => responses' \subseteq {1})
      BY <1>3, <2>1 DEF AnswerInv, AnswerTypes
    <2> QED
      BY <1>4, <2>1, <2>2, <2>4, <2>5, <2>6, <2>7, <2>8, <2>9, RestingRow, AnswersStay DEF AnswerInv, AnswerTypes
  <1> QED
    BY <1>5, <1>6

LEMMA ChangeStatusKeeps == ASSUME AnswerInv, NEW c \in Calls, A!ChangeStatus(c) PROVE AnswerInv'
  <1>1. /\ assessmentCall[c].op = "status" /\ assessmentCall[c].at = "loaded" /\ status' = assessmentCall[c].to
        /\ assessmentCall' = [assessmentCall EXCEPT ![c] = A!Resting]
        /\ raced' = raced \cup {"status" : q \in {q \in Calls \ {c} : assessmentCall[q].at # "idle"}}
        /\ UNCHANGED <<task, responses, answers, complete>>
    BY DEF A!ChangeStatus, A!At, A!Ends
  <1>2. assessmentCall[c] \in AnswerRow
    BY DEF AnswerInv, AnswerTypes
  <1>3. /\ status' \in A!Statuses /\ raced \subseteq raced'
        /\ raced' \subseteq {"answer", "completion", "status"}
    BY <1>1, <1>2, AnswerRowFields DEF AnswerInv, AnswerTypes
  <1>4. /\ assessmentCall'[c] = A!Resting
        /\ \A d \in Calls \ {c} : assessmentCall'[d] = assessmentCall[d]
    BY <1>1 DEF AnswerInv, AnswerTypes
  <1>5. \A i \in A!Instances : RequestKept(c, i)'
    BY <1>4, RestingRow, InstanceFacts DEF RequestKept
  <1>6. \A i \in A!Instances : ~On(c, "wrote", i) /\ ~On(c, "decided", i)
    BY <1>1 DEF On
  <1>7. OneCreates'
    <2>1. \A d \in Calls, i \in A!Instances : A!Creating(d, i)' => A!Creating(d, i)
      BY <1>4, RestingRow DEF A!Creating
    <2> QED
      BY <1>3, <2>1 DEF AnswerInv, OneCreates
  <1>8. ASSUME NEW d \in Calls PROVE LockKept(d)'
    <2>1. CASE d = c
      BY <1>4, <2>1, RestingRow DEF LockKept
    <2>2. CASE d # c
      <3>1. assessmentCall[d].at # "idle" => "status" \in raced'
        BY <1>1, <2>2
      <3> QED
        BY <1>4, <2>2, <3>1 DEF LockKept
    <2> QED
      BY <2>1, <2>2
  <1> QED
    BY <1>1, <1>3, <1>5, <1>6, <1>7, <1>8, RestingRow, AnswersStay DEF AnswerInv, AnswerTypes

LEMMA FindAnswerKeeps == ASSUME AnswerInv, NEW c \in Calls, A!FindAnswer(c) PROVE AnswerInv'
  <1> DEFINE g == assessmentCall[c]
  <1>1. /\ g \in AnswerRow /\ g.op = "save" /\ g.at = "loaded" /\ UNCHANGED <<task, answers, complete>>
        /\ CallFits(g) /\ LockKept(c)
    BY DEF A!FindAnswer, A!At, AnswerInv, AnswerTypes
  <1>2. \A k \in A!Instances : ~On(c, "wrote", k) /\ ~On(c, "decided", k)
    BY <1>1 DEF On
  <1>3. CASE g.on = A!Gone
    <2>1. A!Ends(c) /\ UNCHANGED <<status, responses, raced>>
      BY <1>3 DEF A!FindAnswer
    <2> QED
      BY <1>1, <1>2, <2>1, EndsKeeps DEF AnswerInv, AnswerTypes
  <1>4. CASE g.on # A!Gone
    <2>1. PICK i \in A!AnswersFor(g.on) :
            /\ responses' = responses \cup {i}
            /\ status' = A!Started(g.seen)
            /\ \E k \in A!RowsOf(i) :
                 assessmentCall' = [assessmentCall EXCEPT ![c] = [g EXCEPT !.at = "found", !.on = i, !.row = k, !.seen = "DRAFT"]]
            /\ raced' = raced \cup {"answer" : q \in {q \in Calls \ {c} : A!Creating(q, i)}}
      <3>1. \E i \in A!AnswersFor(g.on) :
              /\ responses' = responses \cup {i}
              /\ status' = A!Started(g.seen)
              /\ \E k \in A!RowsOf(i) :
                   assessmentCall' = [assessmentCall EXCEPT ![c] = [@ EXCEPT !.at = "found", !.on = i, !.row = k, !.seen = "DRAFT"]]
              /\ raced' = raced \cup {"answer" : q \in {q \in Calls \ {c} : A!Creating(q, i)}}
        BY <1>4, Zenon DEF A!FindAnswer
      <3> QED
        BY <3>1, Zenon
    <2>2. PICK k \in A!RowsOf(i) :
            assessmentCall' = [assessmentCall EXCEPT ![c] = [g EXCEPT !.at = "found", !.on = i, !.row = k, !.seen = "DRAFT"]]
      BY <2>1
    <2> DEFINE row == [g EXCEPT !.at = "found", !.on = i, !.row = k, !.seen = "DRAFT"]
    <2>3. i \in A!Instances /\ (~task.repeatable => i = 1)
      <3>1. CASE g.on = A!First
        BY <2>1, <3>1, InstanceFacts DEF A!AnswersFor, AnswerInv, AnswerTypes
      <3>2. CASE g.on # A!First
        <4>1. g.on \in A!Instances /\ i = g.on
          BY <1>1, <1>4, <2>1, <3>2, AnswerRowFields DEF A!AnswersFor
        <4>2. RequestKept(c, i)
          BY <4>1 DEF AnswerInv
        <4>3. i \in responses
          BY <1>1, <4>1, <4>2 DEF RequestKept
        <4> QED
          BY <4>1, <4>3 DEF AnswerInv
      <3> QED
        BY <3>1, <3>2
    <2>4. answers[i] \in Seq(BOOLEAN) /\ Len(answers[i]) <= MaxRows
      BY <2>3 DEF AnswerInv, AnswerTypes
    <2>5. k \in 0 .. MaxRows /\ (k = 0 => answers[i] = <<>>) /\ (k # 0 => k \in DOMAIN answers[i])
      <3>1. CASE answers[i] = <<>>
        BY <2>2, <3>1, InspectionAssumption DEF A!RowsOf
      <3>2. CASE answers[i] # <<>>
        <4>1. k \in DOMAIN answers[i] /\ DOMAIN answers[i] = 1 .. Len(answers[i]) /\ Len(answers[i]) \in Nat
          BY <2>2, <2>4, <3>2, SMTT(30) DEF A!RowsOf
        <4> QED
          BY <2>4, <4>1, InspectionAssumption
      <3> QED
        BY <3>1, <3>2
    <2>6. row \in AnswerRow
      <3>1. "found" \in AnswerSteps /\ "DRAFT" \in A!Statuses /\ i \in A!Instances \cup {A!First, A!Gone}
        BY <2>3 DEF AnswerSteps, A!Statuses
      <3> HIDE DEF g
      <3> QED
        BY <1>1, <2>5, <3>1, AnswerRowUpdates, AnswerRowFields, Zenon
    <2>7. row.at = "found" /\ row.on = i /\ row.row = k /\ row.op = "save"
      BY <1>1 DEF AnswerRow
    <2>8. assessmentCall' = [assessmentCall EXCEPT ![c] = row]
      BY <2>2
    <2> HIDE DEF row
    <2>9. /\ assessmentCall'[c] = row
          /\ \A d \in Calls \ {c} : assessmentCall'[d] = assessmentCall[d]
      BY <2>8 DEF AnswerInv, AnswerTypes
    <2>10. /\ status' \in A!Statuses /\ (A!Locked(status') => status' = status)
      BY <2>1 DEF A!Started, A!Statuses, A!Locked, AnswerInv, AnswerTypes
    <2>11. /\ raced \subseteq raced' /\ raced' \subseteq {"answer", "completion", "status"}
           /\ (\E q \in Calls \ {c} : A!Creating(q, i)) => "answer" \in raced'
           /\ "status" \in raced' => "status" \in raced
      BY <2>1 DEF AnswerInv, AnswerTypes
    <2>12. CallFits(row)
      BY <2>3, <2>7, InstanceFacts DEF CallFits
    <2>13. \A j \in A!Instances : RequestKept(c, j)'
      BY <1>1, <2>1, <2>5, <2>7, <2>9 DEF RequestKept
    <2>14. OneCreates'
      <3>1. SUFFICES ASSUME "answer" \notin raced', NEW j \in A!Instances, NEW d \in Calls, NEW e \in Calls,
                            A!Creating(d, j)', A!Creating(e, j)'
                     PROVE  d = e
        BY DEF OneCreates
      <3>2. \A q \in Calls \ {c} : ~A!Creating(q, i)
        BY <2>11, <3>1
      <3>3. \A q \in Calls \ {c} : A!Creating(q, j)' => A!Creating(q, j)
        BY <2>9 DEF A!Creating
      <3>4. A!Creating(c, j)' => j = i
        BY <2>7, <2>9 DEF A!Creating
      <3>5. "answer" \notin raced
        BY <2>11, <3>1
      <3> QED
        BY <3>1, <3>2, <3>3, <3>4, <3>5 DEF AnswerInv, OneCreates
    <2>15. ASSUME NEW d \in Calls PROVE LockKept(d)'
      <3>1. LockKept(d)
        BY DEF AnswerInv
      <3>2. "status" \notin raced' => ~A!Locked(status)
        BY <1>1, <2>11 DEF LockKept
      <3> QED
        BY <2>10, <3>2 DEF LockKept
    <2>16. /\ responses' \subseteq A!Instances /\ (~task.repeatable => responses' \subseteq {1})
           /\ responses \subseteq responses'
      BY <2>1, <2>3 DEF AnswerInv, AnswerTypes
    <2> QED
      BY <1>1, <1>2, <2>6, <2>8, <2>10, <2>11, <2>12, <2>13, <2>14, <2>15, <2>16, AnswersStay
  <1> QED
    BY <1>3, <1>4

\* The answer that is written is the one that was found, or the first.
LEMMA RowWritten ==
    ASSUME AnswerInv, NEW i \in A!Instances, NEW k \in Nat, NEW v \in BOOLEAN, NEW rows_ \in Seq(BOOLEAN),
           k # 0 => k \in DOMAIN answers[i], k = 0 => Len(answers[i]) < MaxRows,
           rows_ = IF k = 0 THEN Append(answers[i], v) ELSE [answers[i] EXCEPT ![k] = v]
    PROVE  /\ Len(rows_) <= MaxRows /\ DOMAIN answers[i] \subseteq DOMAIN rows_
           /\ Len(rows_) = IF k = 0 THEN Len(answers[i]) + 1 ELSE Len(answers[i])
  <1>1. answers[i] \in Seq(BOOLEAN) /\ Len(answers[i]) <= MaxRows /\ MaxRows \in Nat
    BY InspectionAssumption DEF AnswerInv, AnswerTypes
  <1>2. Len(answers[i]) \in Nat /\ DOMAIN answers[i] = 1 .. Len(answers[i]) /\ DOMAIN rows_ = 1 .. Len(rows_)
    BY <1>1, LenProperties
  <1>3. CASE k = 0
    <2>1. rows_ = Append(answers[i], v)
      BY <1>3
    <2>2. Len(rows_) = Len(answers[i]) + 1
      BY <1>1, <2>1, AppendProperties
    <2> QED
      BY <1>1, <1>2, <1>3, <2>2
  <1>4. CASE k # 0
    <2>1. Len(rows_) = Len(answers[i])
      BY <1>1, <1>4, ExceptSeq
    <2> QED
      BY <1>1, <1>2, <1>4, <2>1
  <1> QED
    BY <1>3, <1>4

LEMMA WriteAnswerKeeps == ASSUME AnswerInv, NEW c \in Calls, A!WriteAnswer(c) PROVE AnswerInv'
  <1>1. PICK i, k : i = assessmentCall[c].on /\ k = assessmentCall[c].row
    OBVIOUS
  <1>2. /\ assessmentCall[c] \in AnswerRow /\ assessmentCall[c].at = "found" /\ CallFits(assessmentCall[c])
        /\ LockKept(c)
    BY DEF A!WriteAnswer, AnswerInv, AnswerTypes
  <1>3. /\ assessmentCall[c].op \in {"save", "file"} /\ i # A!First /\ i \in A!Instances \cup {A!First, A!Gone}
        /\ k \in 0 .. MaxRows /\ assessmentCall[c].value \in BOOLEAN
    BY <1>1, <1>2, AnswerRowFields DEF CallFits
  <1>4. UNCHANGED <<status, task, responses, complete>>
    BY DEF A!WriteAnswer
  <1>5. CASE i = A!Gone
    <2>1. A!Ends(c) /\ UNCHANGED <<answers, raced>>
      BY <1>1, <1>5 DEF A!WriteAnswer
    <2>2. \A j \in A!Instances : ~On(c, "wrote", j) /\ ~On(c, "decided", j)
      BY <1>2 DEF On
    <2> QED
      BY <1>4, <2>1, <2>2, EndsKeeps DEF AnswerInv, AnswerTypes
  <1>6. CASE i # A!Gone
    <2>1. i \in A!Instances
      BY <1>3, <1>6
    <2>2. PICK new : new = A!RowsAfter(c, answers[i])
      OBVIOUS
    <2> DEFINE row == [A!Resting EXCEPT !.at = "wrote", !.on = i]
    <2>3. /\ k = 0 => Len(answers[i]) < MaxRows
          /\ answers' = [answers EXCEPT ![i] = new]
          /\ assessmentCall' = [assessmentCall EXCEPT ![c] = row]
          /\ raced' = raced \cup {"completion" : q \in {q \in Calls : assessmentCall[q].at = "decided" /\ assessmentCall[q].on = i}}
      BY <1>1, <1>6, <2>2, Zenon DEF A!WriteAnswer
    <2>4. answers[i] \in Seq(BOOLEAN) /\ RequestKept(c, i) /\ (k # 0 => k \in DOMAIN answers[i])
      BY <1>1, <1>2, <2>1 DEF AnswerInv, AnswerTypes, RequestKept
    <2>5. PICK v \in BOOLEAN : new = IF k = 0 THEN Append(answers[i], v) ELSE [answers[i] EXCEPT ![k] = v]
      <3>1. \A old \in BOOLEAN : A!RowAfter(c, old) \in BOOLEAN
        BY <1>3 DEF A!RowAfter
      <3>2. k # 0 => answers[i][k] \in BOOLEAN
        BY <2>4
      <3>3. CASE k = 0
        <4>1. A!RowAfter(c, FALSE) \in BOOLEAN
          BY <3>1
        <4> QED
          BY <1>1, <2>2, <3>3, <4>1 DEF A!RowsAfter
      <3>4. CASE k # 0
        <4>1. A!RowAfter(c, answers[i][k]) \in BOOLEAN
          BY <3>1, <3>2, <3>4
        <4> QED
          BY <1>1, <2>2, <3>4, <4>1 DEF A!RowsAfter
      <3> QED
        BY <3>3, <3>4
    <2>6. new \in Seq(BOOLEAN)
      <3>1. CASE k = 0
        BY <2>4, <2>5, <3>1, AppendProperties
      <3>2. CASE k # 0
        BY <2>4, <2>5, <3>2, ExceptSeq
      <3> QED
        BY <3>1, <3>2
    <2>7. /\ Len(new) <= MaxRows /\ DOMAIN answers[i] \subseteq DOMAIN new
          /\ Len(new) = IF k = 0 THEN Len(answers[i]) + 1 ELSE Len(answers[i])
      <3>1. k \in Nat
        BY <1>3, InspectionAssumption
      <3> QED
        BY <2>1, <2>3, <2>4, <2>5, <2>6, <3>1, RowWritten
    <2>8. row \in AnswerRow
      <3>1. "wrote" \in AnswerSteps /\ i \in A!Instances \cup {A!First, A!Gone}
        BY <2>1 DEF AnswerSteps
      <3> QED
        BY <3>1, RestingRow, Zenon DEF AnswerRow
    <2>9. row.at = "wrote" /\ row.on = i /\ row.op = "none"
      BY DEF A!Resting
    <2> HIDE DEF row
    <2>10. /\ assessmentCall' \in [Calls -> AnswerRow] /\ assessmentCall'[c] = row
           /\ \A d \in Calls \ {c} : assessmentCall'[d] = assessmentCall[d]
      BY <2>3, <2>8 DEF AnswerInv, AnswerTypes
    <2>11. /\ answers' \in [A!Instances -> Seq(BOOLEAN)] /\ answers'[i] = new
           /\ \A j \in A!Instances \ {i} : answers'[j] = answers[j]
      BY <2>1, <2>3, <2>6 DEF AnswerInv, AnswerTypes
    <2>12. /\ raced \subseteq raced' /\ raced' \subseteq {"answer", "completion", "status"}
           /\ (\E q \in Calls : On(q, "decided", i)) => "completion" \in raced'
           /\ "answer" \in raced' => "answer" \in raced
           /\ "status" \in raced' => "status" \in raced
      BY <2>3 DEF AnswerInv, AnswerTypes, On
    <2>13. AnswerTypes'
      BY <1>4, <2>7, <2>10, <2>11, <2>12 DEF AnswerInv, AnswerTypes
    <2>14. ASSUME NEW d \in Calls PROVE CallFits(assessmentCall[d])'
      <3>1. CallFits(assessmentCall'[d])
        BY <1>3, <2>9, <2>10 DEF AnswerInv, CallFits
      <3> QED
        BY <1>4, <3>1 DEF CallFits
    <2>15. ASSUME NEW d \in Calls PROVE LockKept(d)'
      <3>1. LockKept(d) /\ ("status" \notin raced => ~A!Locked(status))
        BY <1>2, <1>3 DEF AnswerInv, LockKept
      <3> QED
        BY <1>4, <2>12, <3>1 DEF LockKept, A!Locked
    <2>16. ASSUME NEW d \in Calls, NEW j \in A!Instances PROVE RequestKept(d, j)'
      <3>1. CASE d = c
        BY <2>9, <2>10, <3>1 DEF RequestKept
      <3>2. CASE d # c /\ j # i
        <4>1. /\ assessmentCall'[d] = assessmentCall[d] /\ answers'[j] = answers[j] /\ RequestKept(d, j)
          BY <2>10, <2>11, <3>2 DEF AnswerInv
        <4>2. IsAnswered(j)' = IsAnswered(j)
          BY <4>1 DEF IsAnswered
        <4> QED
          BY <1>4, <2>12, <4>1, <4>2 DEF RequestKept
      <3>3. CASE d # c /\ j = i
        <4>1. /\ assessmentCall'[d] = assessmentCall[d] /\ answers'[j] = new /\ RequestKept(d, j)
          BY <2>10, <2>11, <3>3 DEF AnswerInv
        <4>2. On(d, "decided", j) => "completion" \in raced'
          BY <2>12, <3>3
        <4>3. "answer" \in raced \/ ~A!Creating(d, j)
          <5>1. SUFFICES ASSUME "answer" \notin raced, A!Creating(d, j) PROVE FALSE
            OBVIOUS
          <5>2. answers[i] = <<>>
            BY <3>3, <4>1, <5>1 DEF RequestKept, A!Creating
          <5>3. k = 0
            BY <2>4, <5>2
          <5>4. A!Creating(c, j)
            BY <1>1, <1>2, <3>3, <5>3 DEF A!Creating
          <5> QED
            BY <3>3, <5>1, <5>4 DEF AnswerInv, OneCreates
        <4> QED
          BY <1>4, <2>7, <2>12, <3>3, <4>1, <4>2, <4>3 DEF RequestKept, On, A!Creating
      <3> QED
        BY <3>1, <3>2, <3>3
    <2>17. ASSUME NEW j \in A!Instances PROVE CompletionKept(j)'
      <3>1. CASE j = i
        <4>1. \A v_ : Awaits(c, i, v_)'
          BY <2>9, <2>10 DEF Awaits, On
        <4> QED
          BY <3>1, <4>1 DEF CompletionKept
      <3>2. CASE j # i
        <4>1. CompletionKept(j) /\ answers'[j] = answers[j]
          BY <2>11, <3>2 DEF AnswerInv
        <4>2. \A v_ : \A d \in Calls : Awaits(d, j, v_) => Awaits(d, j, v_)'
          BY <1>2, <2>10 DEF Awaits, On
        <4>3. IsAnswered(j)' = IsAnswered(j)
          BY <4>1 DEF IsAnswered
        <4> QED
          BY <1>4, <2>12, <4>1, <4>2, <4>3 DEF CompletionKept
      <3> QED
        BY <3>1, <3>2
    <2>18. A!OneAnswer'
      <3>1. SUFFICES ASSUME "answer" \notin raced', NEW j \in A!Instances PROVE Len(answers'[j]) <= 1
        BY DEF A!OneAnswer
      <3>2. "answer" \notin raced /\ Len(answers[j]) <= 1
        BY <2>12, <3>1 DEF AnswerInv, A!OneAnswer
      <3>3. CASE j # i
        BY <2>11, <3>2, <3>3
      <3>4. CASE j = i /\ k = 0
        <4>1. answers[i] = <<>>
          BY <1>1, <1>2, <2>4, <3>2, <3>4 DEF RequestKept
        <4>2. Len(answers[i]) = 0
          BY <4>1
        <4>3. Len(new) = 1
          BY <2>7, <3>4, <4>2
        <4> QED
          <5>1. answers'[j] = new
            BY <2>11, <3>4
          <5>2. 1 <= 1
            OBVIOUS
          <5> QED
            BY <4>3, <5>1, <5>2, Zenon
      <3>5. CASE j = i /\ k # 0
        BY <2>7, <2>11, <3>2, <3>5
      <3> QED
        BY <3>3, <3>4, <3>5
    <2>19. OneCreates'
      <3>1. \A d \in Calls, j \in A!Instances : A!Creating(d, j)' => A!Creating(d, j)
        BY <2>9, <2>10 DEF A!Creating
      <3> QED
        BY <2>12, <3>1 DEF AnswerInv, OneCreates
    <2>20. (~task.repeatable => responses \subseteq {1})'
      BY <1>4 DEF AnswerInv
    <2> QED
      BY <2>13, <2>14, <2>15, <2>16, <2>17, <2>18, <2>19, <2>20 DEF AnswerInv
  <1> QED
    BY <1>5, <1>6

LEMMA WriteCompletionKeeps == ASSUME AnswerInv, NEW c \in Calls, A!WriteCompletion(c) PROVE AnswerInv'
  <1>1. PICK i, v : i = assessmentCall[c].on /\ v = assessmentCall[c].value
    OBVIOUS
  <1>2. /\ assessmentCall[c] \in AnswerRow /\ assessmentCall[c].at = "decided" /\ CallFits(assessmentCall[c])
        /\ LockKept(c) /\ A!Ends(c) /\ UNCHANGED <<status, task, responses, answers, raced>>
    BY DEF A!WriteCompletion, AnswerInv, AnswerTypes
  <1>3. /\ i # A!First /\ i \in A!Instances \cup {A!First, A!Gone} /\ v \in BOOLEAN
    BY <1>1, <1>2, AnswerRowFields DEF CallFits
  <1>4. CASE i = A!Gone
    <2>1. complete' = complete
      BY <1>1, <1>4 DEF A!WriteCompletion
    <2>2. \A j \in A!Instances : ~On(c, "wrote", j) /\ ~On(c, "decided", j)
      BY <1>1, <1>4, InstanceFacts DEF On
    <2> QED
      BY <1>2, <2>1, <2>2, EndsKeeps DEF AnswerInv, AnswerTypes
  <1>5. CASE i # A!Gone
    <2>1. i \in A!Instances /\ complete' = [complete EXCEPT ![i] = v]
      BY <1>1, <1>3, <1>5 DEF A!WriteCompletion
    <2>2. /\ assessmentCall' \in [Calls -> AnswerRow] /\ assessmentCall'[c] = A!Resting
          /\ \A d \in Calls \ {c} : assessmentCall'[d] = assessmentCall[d]
      BY <1>2, RestingRow DEF AnswerInv, AnswerTypes, A!Ends
    <2>3. /\ complete' \in [A!Instances -> BOOLEAN] /\ complete'[i] = v
          /\ \A j \in A!Instances \ {i} : complete'[j] = complete[j]
      BY <1>3, <2>1 DEF AnswerInv, AnswerTypes
    <2>4. AnswerTypes'
      BY <1>2, <2>2, <2>3 DEF AnswerInv, AnswerTypes
    <2>5. ASSUME NEW d \in Calls PROVE CallFits(assessmentCall[d])' /\ LockKept(d)'
      <3>1. CallFits(assessmentCall'[d])
        BY <2>2, RestingRow DEF AnswerInv
      <3>2. LockKept(d) /\ (assessmentCall'[d] = assessmentCall[d] \/ assessmentCall'[d].at = "idle")
        BY <2>2, RestingRow DEF AnswerInv
      <3> QED
        BY <1>2, <3>1, <3>2 DEF CallFits, LockKept, A!Locked
    <2>6. \A j \in A!Instances : IsAnswered(j)' = IsAnswered(j)
      BY <1>2 DEF IsAnswered
    <2>7. ASSUME NEW d \in Calls, NEW j \in A!Instances PROVE RequestKept(d, j)'
      <3>1. CASE d = c
        BY <2>2, <3>1, RestingRow, InstanceFacts DEF RequestKept
      <3>2. CASE d # c
        <4>1. assessmentCall'[d] = assessmentCall[d] /\ RequestKept(d, j)
          BY <2>2, <3>2 DEF AnswerInv
        <4> QED
          BY <1>2, <2>6, <4>1 DEF RequestKept
      <3> QED
        BY <3>1, <3>2
    <2>8. ASSUME NEW j \in A!Instances PROVE CompletionKept(j)'
      <3>1. CASE j = i
        <4>1. RequestKept(c, i)
          BY <2>1 DEF AnswerInv
        <4>2. "answer" \notin raced /\ "completion" \notin raced =>
                (v => IsAnswered(i)) /\ (~task.completable => v = IsAnswered(i))
          BY <1>1, <1>2, <4>1 DEF RequestKept
        <4> QED
          BY <1>2, <2>1, <2>3, <2>6, <3>1, <4>2 DEF CompletionKept
      <3>2. CASE j # i
        <4>1. CompletionKept(j) /\ complete'[j] = complete[j]
          BY <2>3, <3>2 DEF AnswerInv
        <4>2. \A v_ : \A d \in Calls : Awaits(d, j, v_) => Awaits(d, j, v_)'
          BY <1>1, <2>2, <3>2 DEF Awaits, On
        <4> QED
          BY <1>2, <2>6, <4>1, <4>2 DEF CompletionKept
      <3> QED
        BY <3>1, <3>2
    <2>9. OneCreates'
      <3>1. \A d \in Calls, j \in A!Instances : A!Creating(d, j)' => A!Creating(d, j)
        BY <2>2, RestingRow DEF A!Creating
      <3> QED
        BY <1>2, <3>1 DEF AnswerInv, OneCreates
    <2>10. A!OneAnswer' /\ (~task.repeatable => responses \subseteq {1})'
      BY <1>2 DEF AnswerInv, A!OneAnswer
    <2> QED
      BY <2>4, <2>5, <2>7, <2>8, <2>9, <2>10 DEF AnswerInv
  <1> QED
    BY <1>4, <1>5

LEMMA DeleteResponseKeeps == ASSUME AnswerInv, NEW c \in Calls, A!DeleteResponse(c) PROVE AnswerInv'
  <1>1. PICK i : i = assessmentCall[c].on
    OBVIOUS
  <1>2. /\ assessmentCall[c].op = "delete" /\ assessmentCall[c].at = "loaded" /\ responses' = responses \ {i}
        /\ answers' = [j \in A!Instances |-> IF j = i THEN <<>> ELSE answers[j]]
        /\ complete' = [j \in A!Instances |-> j # i /\ complete[j]]
        /\ assessmentCall' = [q \in Calls |->
             IF q = c THEN A!Resting
             ELSE IF assessmentCall[q].at # "idle" /\ assessmentCall[q].on = i /\ assessmentCall[q].op # "add"
                  THEN [assessmentCall[q] EXCEPT !.on = A!Gone]
             ELSE assessmentCall[q]]
        /\ UNCHANGED <<status, task, raced>>
    BY <1>1 DEF A!DeleteResponse, A!At
  <1>3. /\ answers' \in [A!Instances -> Seq(BOOLEAN)] /\ \A j \in A!Instances : Len(answers'[j]) <= MaxRows
    <2>1. <<>> \in Seq(BOOLEAN) /\ Len(<<>>) = 0 /\ 0 <= MaxRows
      BY InspectionAssumption
    <2> QED
      BY <1>2, <2>1 DEF AnswerInv, AnswerTypes
  <1>4. complete' \in [A!Instances -> BOOLEAN]
    BY <1>2 DEF AnswerInv, AnswerTypes
  \* What becomes of another request: it goes on, or its response is gone.
  <1>5. ASSUME NEW d \in Calls, d # c
        PROVE  /\ assessmentCall'[d] \in AnswerRow
               /\ \/ assessmentCall'[d] = assessmentCall[d]
                     /\ (assessmentCall[d].at = "idle" \/ assessmentCall[d].on # i \/ assessmentCall[d].op = "add")
                  \/ /\ assessmentCall'[d].on = A!Gone /\ assessmentCall[d].on = i
                     /\ assessmentCall'[d].at = assessmentCall[d].at /\ assessmentCall'[d].op = assessmentCall[d].op
                     /\ assessmentCall[d].at # "idle" /\ assessmentCall[d].op # "add"
    <2>1. assessmentCall[d] \in AnswerRow
      BY DEF AnswerInv, AnswerTypes
    <2>2. CASE assessmentCall[d].at # "idle" /\ assessmentCall[d].on = i /\ assessmentCall[d].op # "add"
      <3>1. assessmentCall'[d] = [assessmentCall[d] EXCEPT !.on = A!Gone]
        BY <1>2, <1>5, <2>2
      <3>2. A!Gone \in A!Instances \cup {A!First, A!Gone}
        OBVIOUS
      <3>3. [assessmentCall[d] EXCEPT !.on = A!Gone] \in AnswerRow
        BY <2>1, <3>2, Zenon DEF AnswerRow
      <3>4. /\ [assessmentCall[d] EXCEPT !.on = A!Gone].on = A!Gone
            /\ [assessmentCall[d] EXCEPT !.on = A!Gone].at = assessmentCall[d].at
            /\ [assessmentCall[d] EXCEPT !.on = A!Gone].op = assessmentCall[d].op
        BY <2>1 DEF AnswerRow
      <3> QED
        BY <2>2, <3>1, <3>3, <3>4
    <2>3. CASE ~(assessmentCall[d].at # "idle" /\ assessmentCall[d].on = i /\ assessmentCall[d].op # "add")
      <3>1. assessmentCall'[d] = assessmentCall[d]
        BY <1>2, <1>5, <2>3
      <3> QED
        BY <2>1, <2>3, <3>1
    <2> QED
      BY <2>2, <2>3
  <1>6. assessmentCall'[c] = A!Resting
    BY <1>2
  <1>7. assessmentCall' \in [Calls -> AnswerRow]
    <2>1. \A d \in Calls : assessmentCall'[d] \in AnswerRow
      BY <1>5, <1>6, RestingRow
    <2>2. assessmentCall' = [q \in Calls |-> assessmentCall'[q]]
      BY <1>2
    <2> QED
      BY <2>1, <2>2
  <1>8. AnswerTypes'
    BY <1>2, <1>3, <1>4, <1>7 DEF AnswerInv, AnswerTypes
  <1>9. ASSUME NEW d \in Calls PROVE CallFits(assessmentCall[d])' /\ LockKept(d)'
    <2>1. CASE d = c
      <3>1. CallFits(assessmentCall'[d])
        BY <1>6, <2>1, RestingRow
      <3> QED
        BY <1>2, <1>6, <2>1, <3>1, RestingRow DEF CallFits, LockKept
    <2>2. CASE d # c
      <3>1. CallFits(assessmentCall[d]) /\ LockKept(d)
        BY DEF AnswerInv
      <3> QED
        BY <1>2, <1>5, <2>2, <3>1, InstanceFacts DEF CallFits, LockKept, A!Locked
    <2> QED
      BY <2>1, <2>2
  <1>10. \A j \in A!Instances : j # i => IsAnswered(j)' = IsAnswered(j) /\ answers'[j] = answers[j] /\ complete'[j] = complete[j]
    BY <1>2 DEF IsAnswered, AnswerInv, AnswerTypes
  <1>11. ASSUME NEW d \in Calls, NEW j \in A!Instances PROVE RequestKept(d, j)'
    <2>1. CASE d = c
      BY <1>6, <2>1, RestingRow, InstanceFacts DEF RequestKept
    <2>2. CASE d # c
      <3>1. RequestKept(d, j) /\ CallFits(assessmentCall[d])
        BY DEF AnswerInv
      <3>2. CASE assessmentCall'[d].on = A!Gone
        BY <3>2, InstanceFacts DEF RequestKept
      <3>3. CASE assessmentCall'[d] = assessmentCall[d] /\ assessmentCall[d].on # i
        <4>1. CASE assessmentCall[d].on # j
          BY <3>3, <4>1 DEF RequestKept
        <4>2. CASE assessmentCall[d].on = j
          BY <1>2, <1>10, <3>1, <3>3, <4>2 DEF RequestKept
        <4> QED
          BY <4>1, <4>2
      <3>4. CASE assessmentCall'[d] = assessmentCall[d] /\ (assessmentCall[d].at = "idle" \/ assessmentCall[d].op = "add")
        BY <3>1, <3>4, RestingRow DEF RequestKept, CallFits
      <3> QED
        BY <1>5, <2>2, <3>2, <3>3, <3>4
    <2> QED
      BY <2>1, <2>2
  <1>12. ASSUME NEW j \in A!Instances PROVE CompletionKept(j)'
    <2>1. CASE j = i
      <3>1. answers'[j] = <<>> /\ complete'[j] = FALSE
        BY <1>2, <2>1
      <3>2. ~IsAnswered(j)'
        BY <3>1 DEF IsAnswered
      <3> QED
        BY <3>1, <3>2 DEF CompletionKept
    <2>2. CASE j # i
      <3>1. \A v : \A d \in Calls : Awaits(d, j, v) => Awaits(d, j, v)'
        <4>1. ASSUME NEW v, NEW d \in Calls, Awaits(d, j, v) PROVE Awaits(d, j, v)'
          <5>1. d # c
            BY <1>2, <4>1 DEF Awaits, On
          <5>2. assessmentCall'[d] = assessmentCall[d]
            BY <1>5, <2>2, <4>1, <5>1 DEF Awaits, On
          <5> QED
            BY <4>1, <5>2 DEF Awaits, On
        <4> QED
          BY <4>1
      <3>2. CompletionKept(j)
        BY DEF AnswerInv
      <3> QED
        BY <1>2, <1>10, <2>2, <3>1, <3>2 DEF CompletionKept
    <2> QED
      BY <2>1, <2>2
  <1>13. OneCreates'
    <2>1. ASSUME NEW d \in Calls, NEW j \in A!Instances, A!Creating(d, j)' PROVE A!Creating(d, j)
      <3>1. d # c
        BY <1>6, <2>1, RestingRow DEF A!Creating
      <3>2. assessmentCall'[d] = assessmentCall[d]
        BY <1>5, <2>1, <3>1, InstanceFacts DEF A!Creating
      <3> QED
        BY <2>1, <3>2 DEF A!Creating
    <2> QED
      BY <1>2, <2>1 DEF AnswerInv, OneCreates
  <1>14. A!OneAnswer' /\ (~task.repeatable => responses \subseteq {1})'
    <2>1. \A j \in A!Instances : answers'[j] = answers[j] \/ Len(answers'[j]) = 0
      BY <1>2, <1>10
    <2> QED
      BY <1>2, <2>1 DEF AnswerInv, A!OneAnswer
  <1> QED
    BY <1>8, <1>9, <1>11, <1>12, <1>13, <1>14 DEF AnswerInv

LEMMA AnswerInvInit == A!Init => AnswerInv
  <1> SUFFICES ASSUME A!Init PROVE AnswerInv
    OBVIOUS
  <1>1. assessmentCall \in [Calls -> AnswerRow] /\ \A c \in Calls : assessmentCall[c] = A!Resting
    BY RestingRow DEF A!Init
  <1>2. AnswerTypes
    BY <1>1, InspectionAssumption DEF A!Init, AnswerTypes, A!Statuses
  <1>3. \A c \in Calls : CallFits(assessmentCall[c]) /\ LockKept(c)
    BY <1>1, RestingRow DEF LockKept
  <1>4. \A c \in Calls, i \in A!Instances : RequestKept(c, i)
    BY <1>1, RestingRow, InstanceFacts DEF RequestKept
  <1>5. \A i \in A!Instances : CompletionKept(i)
    BY DEF CompletionKept, IsAnswered, A!Init
  <1>6. A!OneAnswer /\ OneCreates
    BY <1>1, RestingRow DEF A!OneAnswer, OneCreates, A!Creating, A!Init
  <1> QED
    BY <1>2, <1>3, <1>4, <1>5, <1>6 DEF AnswerInv, A!Init

LEMMA AnswerInvStep == ASSUME AnswerInv, [A!Next]_assessment PROVE AnswerInv'
  <1>1. CASE A!Next
    <2>1. ASSUME NEW c \in Calls, NEW i \in A!Instances,
                 A!LoadAdd(c, i) \/ A!LoadDelete(c, i) \/ A!LoadFile(c, i)
          PROVE  AnswerInv'
      BY <2>1, LoadAddKeeps, LoadDeleteKeeps, LoadFileKeeps
    <2>2. ASSUME NEW c \in Calls, NEW i \in A!Instances \cup {A!First}, NEW v \in BOOLEAN, A!LoadSave(c, i, v)
          PROVE  AnswerInv'
      BY <2>2, LoadSaveKeeps
    <2>3. ASSUME NEW c \in Calls, NEW i \in A!Instances, NEW v \in BOOLEAN, A!LoadMark(c, i, v) PROVE AnswerInv'
      BY <2>3, LoadMarkKeeps
    <2>4. ASSUME NEW c \in Calls, NEW manager \in BOOLEAN, NEW to \in A!Statuses, A!LoadStatus(c, manager, to)
          PROVE  AnswerInv'
      BY <2>4, LoadStatusKeeps
    <2>5. ASSUME NEW c \in Calls,
                 A!AddResponse(c) \/ A!DeleteResponse(c) \/ A!FindAnswer(c) \/ A!WriteAnswer(c)
          PROVE  AnswerInv'
      BY <2>5, AddResponseKeeps, DeleteResponseKeeps, FindAnswerKeeps, WriteAnswerKeeps
    <2>6. ASSUME NEW c \in Calls,
                 A!ReadCompletion(c) \/ A!WriteCompletion(c) \/ A!ChangeStatus(c) \/ A!BreakOff(c)
          PROVE  AnswerInv'
      BY <2>6, ReadCompletionKeeps, WriteCompletionKeeps, ChangeStatusKeeps, BreakOffKeeps
    <2> QED
      BY <1>1, <2>1, <2>2, <2>3, <2>4, <2>5, <2>6, Zenon DEF A!Next
  <1>2. CASE UNCHANGED assessment
    <2>1. UNCHANGED <<status, task, responses, answers, complete, assessmentCall, raced>>
      BY <1>2 DEF assessment
    <2> QED
      <3>1. AnswerTypes'
        BY <2>1 DEF AnswerInv, AnswerTypes
      <3>2. ASSUME NEW c \in Calls PROVE CallFits(assessmentCall[c])' /\ LockKept(c)'
        BY <2>1 DEF AnswerInv, CallFits, LockKept, A!Locked
      <3>3. ASSUME NEW i \in A!Instances PROVE CompletionKept(i)' /\ \A c \in Calls : RequestKept(c, i)'
        <4>1. IsAnswered(i)' = IsAnswered(i) /\ CompletionKept(i) /\ \A c \in Calls : RequestKept(c, i)
          BY <2>1 DEF AnswerInv, IsAnswered
        <4>2. \A v : \A c \in Calls : Awaits(c, i, v)' = Awaits(c, i, v)
          BY <2>1 DEF Awaits, On
        <4>3. CompletionKept(i)'
          BY <2>1, <4>1, <4>2 DEF CompletionKept
        <4>4. \A c \in Calls : RequestKept(c, i)'
          BY <2>1, <4>1 DEF RequestKept
        <4> QED
          BY <4>3, <4>4
      <3>4. A!OneAnswer' /\ OneCreates' /\ (~task.repeatable => responses \subseteq {1})'
        BY <2>1 DEF AnswerInv, A!OneAnswer, OneCreates, A!Creating
      <3> QED
        BY <3>1, <3>2, <3>3, <3>4 DEF AnswerInv
  <1> QED
    BY <1>1, <1>2

-----------------------------------------------------------------------------
(* The health of the property.                                              *)

HealthSteps == {"idle", "planned", "changing", "committed", "computed"}
HealthRow == [at : HealthSteps, on : Findings \cup {NoFinding}, to : Scores \cup {Unrated},
              from : Scores \cup {Unrated}, rule : BOOLEAN, fresh : BOOLEAN, old : BOOLEAN]

HealthTypes ==
    /\ TypeOK /\ call \in [Calls -> HealthRow]
    /\ made \in [Findings -> Nat] /\ entries \in [Findings -> Nat] /\ lost \in BOOLEAN

\* A planned change has a score; a claimed finding is one request's; and as long
\* as no two transactions crossed, one at most changes the condition, from the
\* score there is.
ReviewKept(c) ==
    /\ call[c].at \in {"planned", "changing"} => call[c].to \in Scores
    /\ call[c].at = "planned" => call[c].on \in Findings
    /\ \A f \in Findings : Claiming(c, f) => finding[f] = "SUGGESTED" /\ \A d \in Calls : Claiming(d, f) => d = c
    /\ ~crossed /\ Changing(c) => call[c].from = score /\ \A d \in Calls : Changing(d) => d = c

\* A request that will store the property as it is.
Renewing(c) == call[c].at = "committed" \/ (call[c].at = "computed" /\ call[c].fresh)

\* As long as nothing was forgotten, the newest snapshot is of the property as it
\* is or a request will make it so, and so it is when a request that computed
\* none such stores it.
SnapshotKept ==
    /\ ~behind => fresh \/ \E c \in Calls : Renewing(c)
    /\ \A d \in Calls : call[d].at = "computed" /\ ~call[d].old /\ ~call[d].fresh => \E c \in Calls : Renewing(c)

HealthInv == HealthTypes /\ ConfirmedOnce /\ (\A c \in Calls : ReviewKept(c)) /\ SnapshotKept

LEMMA LessIsScore == ASSUME NEW s \in Scores PROVE Less(s) \in Scores
  <1>1. s \in Int /\ 0 <= s /\ s <= MaxScore /\ Hit \in Nat /\ MaxScore \in Nat
    BY HealthAssumption DEF Scores
  <1>2. PICK m \in {0, s - Hit} : 0 <= m /\ s - Hit <= m
    BY <1>1
  <1>3. \E x \in {0, s - Hit} : \A y \in {0, s - Hit} : x >= y
    BY <1>1, <1>2
  <1>4. Less(s) \in {0, s - Hit} /\ \A y \in {0, s - Hit} : Less(s) >= y
    BY <1>3, Zenon DEF Less, Max
  <1> QED
    BY <1>1, <1>4 DEF Scores

LEMMA NewScoreIsScore ==
    ASSUME HealthTypes, NEW f \in Findings, NEW typed \in Scores \cup {Unrated}, CanPlan(f, typed)
    PROVE  NewScore(f, typed) \in Scores
  BY LessIsScore, HealthAssumption DEF HealthTypes, TypeOK, CanPlan, NewScore

LEMMA HealthRowFields == ASSUME NEW g \in HealthRow
    PROVE /\ g.at \in HealthSteps /\ g.on \in Findings \cup {NoFinding} /\ g.to \in Scores \cup {Unrated}
          /\ g.from \in Scores \cup {Unrated} /\ g.rule \in BOOLEAN /\ g.fresh \in BOOLEAN /\ g.old \in BOOLEAN
  BY DEF HealthRow

LEMMA AtRestInHealth == Resting \in HealthRow /\ Resting.at = "idle" /\ Resting.on = NoFinding /\ Resting.old = FALSE
  BY DEF Resting, HealthRow, HealthSteps

LEMMA HealthRowUpdates ==
    ASSUME NEW g \in HealthRow, NEW at \in HealthSteps, NEW f \in Findings \cup {NoFinding},
           NEW to \in Scores \cup {Unrated}, NEW s \in Scores \cup {Unrated}, NEW b \in BOOLEAN
    PROVE  /\ [g EXCEPT !.at = at, !.on = f, !.to = to, !.from = s, !.rule = b] \in HealthRow
           /\ [g EXCEPT !.at = at, !.to = to, !.from = s] \in HealthRow
           /\ [g EXCEPT !.at = at, !.from = s] \in HealthRow
           /\ [g EXCEPT !.at = at, !.fresh = b] \in HealthRow
           /\ [g EXCEPT !.at = at] \in HealthRow
           /\ [g EXCEPT !.fresh = b] \in HealthRow /\ [g EXCEPT !.old = b] \in HealthRow
  BY Zenon DEF HealthRow

\* What a step makes of a request that it only tells its snapshot is not the
\* newest any more.
LEMMA MarkedRow ==
    ASSUME NEW g \in HealthRow
    PROVE  /\ [g EXCEPT !.fresh = FALSE] \in HealthRow /\ [g EXCEPT !.old = TRUE] \in HealthRow
           /\ [g EXCEPT !.fresh = FALSE].at = g.at /\ [g EXCEPT !.fresh = FALSE].on = g.on
           /\ [g EXCEPT !.fresh = FALSE].to = g.to /\ [g EXCEPT !.fresh = FALSE].from = g.from
           /\ [g EXCEPT !.fresh = FALSE].old = g.old
           /\ [g EXCEPT !.old = TRUE].at = g.at /\ [g EXCEPT !.old = TRUE].on = g.on
           /\ [g EXCEPT !.old = TRUE].to = g.to /\ [g EXCEPT !.old = TRUE].from = g.from
           /\ [g EXCEPT !.old = TRUE].fresh = g.fresh /\ [g EXCEPT !.old = TRUE].old
  <1>1. TRUE \in BOOLEAN /\ FALSE \in BOOLEAN
    OBVIOUS
  <1>2. [g EXCEPT !.fresh = FALSE] \in HealthRow /\ [g EXCEPT !.old = TRUE] \in HealthRow
    BY <1>1, Zenon DEF HealthRow
  <1> QED
    BY <1>2 DEF HealthRow

\* A step that no review takes leaves the reviews as they are, unless it writes the
\* score while one is at it.
LEMMA ReviewsStay ==
    ASSUME HealthInv, UNCHANGED <<finding, made, entries>>,
           ~crossed' => ~crossed /\ (score' = score \/ \A d \in Calls : ~Changing(d)),
           \A d \in Calls : \/ /\ call'[d].at = call[d].at /\ call'[d].on = call[d].on
                               /\ call'[d].to = call[d].to /\ call'[d].from = call[d].from
                            \/ call'[d].at \notin {"planned", "changing"}
    PROVE  ConfirmedOnce' /\ \A c \in Calls : ReviewKept(c)'
  <1>1. ConfirmedOnce'
    BY DEF HealthInv, ConfirmedOnce
  <1>2. ASSUME NEW c \in Calls PROVE ReviewKept(c)'
    <2>1. ReviewKept(c)
      BY DEF HealthInv
    <2>2. \A d \in Calls : Changing(d)' => Changing(d)
      BY DEF Changing
    <2>3. \A d \in Calls, f \in Findings : Claiming(d, f)' => Claiming(d, f)
      BY DEF Claiming
    <2> QED
      BY <2>1, <2>2, <2>3 DEF ReviewKept, Changing
  <1> QED
    BY <1>1, <1>2

LEMMA HealthInvInit == Init => HealthInv
  <1> SUFFICES ASSUME Init PROVE HealthInv
    OBVIOUS
  <1>1. call \in [Calls -> HealthRow] /\ \A c \in Calls : call[c] = Resting
    BY AtRestInHealth DEF Init
  <1>2. HealthTypes
    <2>1. score \in Scores \cup {Unrated}
      BY HealthAssumption DEF Init, Scores
    <2>2. \A c \in Calls : call[c].at \in {"idle", "planned", "changing", "committed", "computed"}
      BY <1>1, AtRestInHealth
    <2> QED
      BY <1>1, <2>1, <2>2 DEF HealthTypes, TypeOK, Init
  <1>3. ConfirmedOnce
    BY DEF ConfirmedOnce, Init
  <1>4. \A c \in Calls : ReviewKept(c)
    BY <1>1, AtRestInHealth DEF ReviewKept, Claiming, Changing
  <1>5. SnapshotKept
    BY <1>1, AtRestInHealth DEF SnapshotKept, Init
  <1> QED
    BY <1>2, <1>3, <1>4, <1>5 DEF HealthInv

\* What is true after a commit: the request will store a new snapshot, and none
\* that another has computed is of the property as it is.
LEMMA CommitsFacts ==
    ASSUME HealthInv, NEW c \in Calls, Commits(c)
    PROVE  /\ call' \in [Calls -> HealthRow] /\ fresh' = FALSE /\ SnapshotKept'
           /\ call'[c].at = "committed" /\ call'[c].on = NoFinding
           /\ \A d \in Calls \ {c} : /\ call'[d].at = call[d].at /\ call'[d].on = call[d].on
                                     /\ call'[d].to = call[d].to /\ call'[d].from = call[d].from
  <1> DEFINE row == [Resting EXCEPT !.at = "committed"]
  <1>1. fresh' = FALSE /\ call' = [q \in Calls |-> IF q = c THEN row ELSE [call[q] EXCEPT !.fresh = FALSE]]
    BY DEF Commits
  <1>2. row \in HealthRow /\ row.at = "committed" /\ row.on = NoFinding
    <2>1. "committed" \in HealthSteps
      BY DEF HealthSteps
    <2>2. row \in HealthRow
      BY <2>1, AtRestInHealth, Zenon DEF HealthRow
    <2> QED
      BY <2>2 DEF Resting
  <1> HIDE DEF row
  <1>3. \A d \in Calls : call[d] \in HealthRow
    BY DEF HealthInv, HealthTypes
  <1>4. ASSUME NEW d \in Calls, d # c
        PROVE  /\ call'[d] \in HealthRow /\ call'[d].at = call[d].at /\ call'[d].on = call[d].on
               /\ call'[d].to = call[d].to /\ call'[d].from = call[d].from
    <2>1. call'[d] = [call[d] EXCEPT !.fresh = FALSE]
      BY <1>1, <1>4
    <2>2. call[d] \in HealthRow
      BY <1>3
    <2> QED
      BY <2>1, <2>2, MarkedRow, ZenonT(40)
  <1>5. call'[c] = row
    BY <1>1
  <1>6. call' \in [Calls -> HealthRow]
    <2>1. call' = [q \in Calls |-> call'[q]]
      BY <1>1
    <2>2. \A q \in Calls : call'[q] \in HealthRow
      BY <1>2, <1>4, <1>5
    <2> QED
      BY <2>1, <2>2
  <1>7. SnapshotKept'
    <2>1. Renewing(c)'
      BY <1>2, <1>5 DEF Renewing
    <2> QED
      BY <2>1 DEF SnapshotKept
  <1> QED
    BY <1>1, <1>2, <1>4, <1>5, <1>6, <1>7

\* A row that a snapshot is made from changes, and no finding.
LEMMA CommitsKeeps ==
    ASSUME HealthInv, NEW c \in Calls, Commits(c), UNCHANGED <<score, finding, made, entries, lost, crossed, behind>>,
           active' \in BOOLEAN, open' \subseteq Findings, capture' \in {"UPLOADING", "READY", "FAILED"}
    PROVE  HealthInv'
  <1>1. /\ call' \in [Calls -> HealthRow] /\ fresh' = FALSE /\ SnapshotKept'
        /\ call'[c].at = "committed"
        /\ \A d \in Calls \ {c} : /\ call'[d].at = call[d].at /\ call'[d].on = call[d].on
                                  /\ call'[d].to = call[d].to /\ call'[d].from = call[d].from
    BY CommitsFacts
  <1>2. \A d \in Calls : call'[d].at \in HealthSteps
    BY <1>1, HealthRowFields
  <1>3. HealthTypes'
    BY <1>1, <1>2 DEF HealthInv, HealthTypes, TypeOK, HealthSteps
  <1>4. ConfirmedOnce' /\ \A d \in Calls : ReviewKept(d)'
    BY <1>1, ReviewsStay
  <1> QED
    BY <1>1, <1>3, <1>4 DEF HealthInv

LEMMA EditAssetKeeps == ASSUME HealthInv, NEW c \in Calls, EditAsset(c) PROVE HealthInv'
  BY CommitsKeeps DEF EditAsset, HealthInv, HealthTypes, TypeOK

LEMMA EditIssueKeeps ==
    ASSUME HealthInv, NEW c \in Calls, NEW f \in Findings, EditIssue(c, f) PROVE HealthInv'
  BY CommitsKeeps DEF EditIssue, HealthInv, HealthTypes, TypeOK

LEMMA MarkCaptureReadyKeeps == ASSUME HealthInv, NEW c \in Calls, MarkCaptureReady(c) PROVE HealthInv'
  BY CommitsKeeps DEF MarkCaptureReady, HealthInv, HealthTypes, TypeOK

LEMMA ChangeOtherKeeps == ASSUME HealthInv, NEW c \in Calls, ChangeOther(c) PROVE HealthInv'
  BY CommitsKeeps DEF ChangeOther, HealthInv, HealthTypes, TypeOK

\* What a request that computed a snapshot learns when a newer one is stored.
LEMMA OutdatesFacts ==
    ASSUME HealthInv, NEW d \in Calls
    PROVE  /\ Outdates[d] \in HealthRow /\ Outdates[d].at = call[d].at /\ Outdates[d].on = call[d].on
           /\ Outdates[d].to = call[d].to /\ Outdates[d].from = call[d].from
           /\ Outdates[d].fresh = call[d].fresh /\ (Outdates[d].at = "computed" => Outdates[d].old)
  <1>1. call[d] \in HealthRow
    BY DEF HealthInv, HealthTypes
  <1>2. Outdates[d] = IF call[d].at = "computed" THEN [call[d] EXCEPT !.old = TRUE] ELSE call[d]
    BY DEF Outdates
  <1>3. CASE call[d].at = "computed"
    <2>1. Outdates[d] = [call[d] EXCEPT !.old = TRUE]
      BY <1>2, <1>3
    <2> QED
      BY <1>1, <2>1, MarkedRow, ZenonT(40)
  <1>4. CASE call[d].at # "computed"
    BY <1>1, <1>2, <1>4
  <1> QED
    BY <1>3, <1>4

\* A row that is no longer fresh is as it was otherwise.
LEMMA UnfreshRow ==
    ASSUME NEW row \in HealthRow, NEW marked, marked = [row EXCEPT !.fresh = FALSE]
    PROVE  /\ marked \in HealthRow /\ marked.at = row.at /\ marked.on = row.on
           /\ marked.to = row.to /\ marked.from = row.from /\ marked.old = row.old
  <1>1. FALSE \in BOOLEAN
    OBVIOUS
  <1>2. marked \in HealthRow
    BY <1>1, Zenon DEF HealthRow
  <1> QED
    BY <1>2 DEF HealthRow

LEMMA ForgetsKeeps ==
    ASSUME HealthInv, Forgets, open' \subseteq Findings, capture' \in {"UPLOADING", "READY", "FAILED"},
           score' \in Scores \cup {Unrated}, crossed' \in BOOLEAN,
           ~crossed' => ~crossed /\ (score' = score \/ \A d \in Calls : ~Changing(d))
    PROVE  HealthInv'
  <1>1. /\ fresh' = FALSE /\ behind' = TRUE /\ UNCHANGED <<active, finding, made, entries, lost>>
        /\ call' = [q \in Calls |-> [Outdates[q] EXCEPT !.fresh = FALSE]]
    BY DEF Forgets
  <1>2. ASSUME NEW d \in Calls
        PROVE  /\ call'[d] \in HealthRow /\ call'[d].at = call[d].at /\ call'[d].on = call[d].on
               /\ call'[d].to = call[d].to /\ call'[d].from = call[d].from
               /\ (call'[d].at = "computed" => call'[d].old)
    <2>1. call'[d] = [Outdates[d] EXCEPT !.fresh = FALSE]
      BY <1>1
    <2>2. /\ Outdates[d] \in HealthRow /\ Outdates[d].at = call[d].at /\ Outdates[d].on = call[d].on
          /\ Outdates[d].to = call[d].to /\ Outdates[d].from = call[d].from
          /\ (Outdates[d].at = "computed" => Outdates[d].old)
      BY OutdatesFacts
    <2>3. PICK row : row = Outdates[d]
      OBVIOUS
    <2>4. row \in HealthRow
      BY <2>2, <2>3
    <2>5. PICK marked : marked = call'[d]
      OBVIOUS
    <2>6. marked = [row EXCEPT !.fresh = FALSE]
      BY <2>1, <2>3, <2>5
    <2>7. /\ marked \in HealthRow /\ marked.at = row.at /\ marked.on = row.on
          /\ marked.to = row.to /\ marked.from = row.from /\ marked.old = row.old
      BY <2>4, <2>6, UnfreshRow
    <2> QED
      BY <2>2, <2>3, <2>5, <2>7
  <1>3. call' \in [Calls -> HealthRow]
    <2>1. call' = [q \in Calls |-> call'[q]]
      BY <1>1
    <2> QED
      BY <1>2, <2>1
  <1>4. \A d \in Calls : call'[d].at \in HealthSteps
    BY <1>2, HealthRowFields
  <1>5. HealthTypes'
    BY <1>1, <1>3, <1>4 DEF HealthInv, HealthTypes, TypeOK, HealthSteps
  <1>6. ConfirmedOnce' /\ \A d \in Calls : ReviewKept(d)'
    BY <1>1, <1>2, ReviewsStay
  <1>7. SnapshotKept'
    BY <1>1, <1>2 DEF SnapshotKept
  <1> QED
    BY <1>5, <1>6, <1>7 DEF HealthInv

LEMMA CaptureKeeps ==
    ASSUME HealthInv, NEW to \in {"UPLOADING", "FAILED"}, MoveCapture(to) \/ LeaveReady(to) PROVE HealthInv'
  <1>1. CASE LeaveReady(to)
    BY <1>1, ForgetsKeeps DEF LeaveReady, HealthInv, HealthTypes, TypeOK
  <1>2. CASE MoveCapture(to)
    <2>1. /\ capture' = to
          /\ UNCHANGED <<score, active, finding, made, open, entries, lost, fresh, call, crossed, behind>>
      BY <1>2 DEF MoveCapture
    <2>2. HealthTypes'
      BY <2>1 DEF HealthInv, HealthTypes, TypeOK
    <2>3. ConfirmedOnce' /\ \A d \in Calls : ReviewKept(d)'
      BY <2>1, ReviewsStay
    <2>4. SnapshotKept'
      BY <2>1 DEF HealthInv, SnapshotKept, Renewing
    <2> QED
      BY <2>2, <2>3, <2>4 DEF HealthInv
  <1> QED
    BY <1>1, <1>2

LEMMA SubmitRepairKeeps == ASSUME HealthInv, NEW f \in Findings, SubmitRepair(f) PROVE HealthInv'
  BY ForgetsKeeps DEF SubmitRepair, HealthInv, HealthTypes, TypeOK

LEMMA SendBackRepairKeeps == ASSUME HealthInv, NEW f \in Findings, SendBackRepair(f) PROVE HealthInv'
  BY ForgetsKeeps DEF SendBackRepair, HealthInv, HealthTypes, TypeOK

LEMMA ImportAssetsKeeps ==
    ASSUME HealthInv, NEW s \in Scores \cup {Unrated}, ImportAssets(s) PROVE HealthInv'
  <1>1. /\ Forgets /\ UNCHANGED <<open, capture>> /\ score' = s
        /\ crossed' = (crossed \/ \E c \in Calls : Changing(c))
    BY DEF ImportAssets
  <1>2. crossed \in BOOLEAN /\ open \subseteq Findings /\ capture \in {"UPLOADING", "READY", "FAILED"}
    BY DEF HealthInv, HealthTypes, TypeOK
  <1> QED
    BY <1>1, <1>2, ForgetsKeeps

\* One request's row changes, and nothing but what a review is about.
LEMMA RequestMoves ==
    ASSUME HealthInv, NEW c \in Calls, NEW row \in HealthRow, call' = [call EXCEPT ![c] = row],
           UNCHANGED <<score, active, finding, made, open, entries, lost, capture, fresh, behind>>,
           crossed' \in BOOLEAN, ReviewKept(c)', \A d \in Calls \ {c} : ReviewKept(d)',
           Renewing(c) => row.at = "computed" /\ row.fresh,
           row.at = "computed" => row.fresh
    PROVE  HealthInv'
  <1>1. /\ call' \in [Calls -> HealthRow] /\ call'[c] = row
        /\ \A d \in Calls \ {c} : call'[d] = call[d]
    BY DEF HealthInv, HealthTypes
  <1>2. \A d \in Calls : call'[d].at \in HealthSteps
    BY <1>1, HealthRowFields
  <1>3. HealthTypes'
    BY <1>1, <1>2 DEF HealthInv, HealthTypes, TypeOK, HealthSteps
  <1>4. \A d \in Calls : ReviewKept(d)'
    OBVIOUS
  <1>5. SnapshotKept'
    <2>1. \A d \in Calls : Renewing(d) => Renewing(d)'
      BY <1>1 DEF Renewing
    <2>2. \A d \in Calls : call'[d].at = "computed" /\ ~call'[d].fresh => call'[d] = call[d]
      BY <1>1
    <2> QED
      BY <2>1, <2>2 DEF HealthInv, SnapshotKept
  <1> QED
    BY <1>3, <1>4, <1>5 DEF HealthInv, ConfirmedOnce

LEMMA ComputesKeeps ==
    ASSUME HealthInv, NEW c \in Calls, ComputeHealth(c) \/ AskHealth(c) PROVE HealthInv'
  <1> DEFINE row == [Resting EXCEPT !.at = "computed", !.fresh = TRUE]
  <1>1. /\ call' = [call EXCEPT ![c] = row]
        /\ UNCHANGED <<score, active, finding, made, open, entries, lost, capture, fresh, crossed, behind>>
    BY DEF ComputeHealth, AskHealth
  <1>2. row \in HealthRow /\ row.at = "computed" /\ row.fresh
    <2>1. "computed" \in HealthSteps /\ TRUE \in BOOLEAN
      BY DEF HealthSteps
    <2>2. row \in HealthRow
      BY <2>1, AtRestInHealth, Zenon DEF HealthRow
    <2> QED
      BY <2>2 DEF Resting
  <1> HIDE DEF row
  <1>3. \A d \in Calls : call'[d] = call[d] \/ call'[d] = row
    BY <1>1 DEF HealthInv, HealthTypes
  <1>4. \A d \in Calls : ReviewKept(d)'
    BY <1>1, <1>2, <1>3, ReviewsStay
  <1>5. crossed' \in BOOLEAN
    BY <1>1 DEF HealthInv, HealthTypes, TypeOK
  <1> QED
    BY <1>1, <1>2, <1>4, <1>5, RequestMoves

LEMMA LoadReviewKeeps ==
    ASSUME HealthInv, NEW c \in Calls, NEW f \in Findings, NEW typed \in Scores \cup {Unrated},
           LoadReview(c, f, typed)
    PROVE  HealthInv'
  <1> DEFINE to == NewScore(f, typed)
             byRule == typed = Unrated /\ f \in Rated
             row == [Resting EXCEPT !.at = "planned", !.on = f, !.to = to, !.from = score, !.rule = byRule]
  <1>1. /\ call[c].at = "idle" /\ call' = [call EXCEPT ![c] = row]
        /\ UNCHANGED <<score, active, finding, made, open, entries, lost, capture, fresh, crossed, behind>>
    BY DEF LoadReview
  <1>2. to \in Scores
    BY NewScoreIsScore DEF LoadReview, HealthInv
  <1>3. score \in Scores \cup {Unrated} /\ crossed \in BOOLEAN
    BY DEF HealthInv, HealthTypes, TypeOK
  <1>4. row \in HealthRow
    <2>1. /\ "planned" \in HealthSteps /\ f \in Findings \cup {NoFinding} /\ to \in Scores \cup {Unrated}
          /\ byRule \in BOOLEAN
      BY <1>2 DEF HealthSteps
    <2> HIDE DEF to, byRule
    <2> QED
      BY <1>3, <2>1, AtRestInHealth, Zenon DEF HealthRow
  <1>5. row.at = "planned" /\ row.on = f /\ row.to = to
    BY DEF Resting
  <1> HIDE DEF row, to
  <1>6. /\ call'[c] = row
        /\ \A d \in Calls \ {c} : call'[d] = call[d]
    BY <1>1, <1>4 DEF HealthInv, HealthTypes
  <1>7. \A d \in Calls : /\ Changing(d)' => Changing(d) /\ call'[d] = call[d]
                         /\ \A e \in Findings : Claiming(d, e)' => Claiming(d, e)
    BY <1>5, <1>6 DEF Changing, Claiming
  <1>8. ReviewKept(c)'
    BY <1>2, <1>5, <1>6, <1>7 DEF ReviewKept, Changing, Claiming
  <1>9. ASSUME NEW d \in Calls \ {c} PROVE ReviewKept(d)'
    <2>1. ReviewKept(d) /\ call'[d] = call[d]
      BY <1>6 DEF HealthInv
    <2> QED
      BY <1>1, <1>7, <2>1 DEF ReviewKept
  <1>10. ~Renewing(c)
    BY <1>1 DEF Renewing
  <1> QED
    BY <1>1, <1>3, <1>4, <1>5, <1>8, <1>9, <1>10, RequestMoves

LEMMA RejectKeeps == ASSUME HealthInv, NEW f \in Findings, Reject(f) PROVE HealthInv'
  <1>1. /\ finding[f] = "SUGGESTED" /\ Free(f) /\ finding' = [finding EXCEPT ![f] = "REJECTED"]
        /\ UNCHANGED <<score, active, made, open, entries, lost, capture, fresh, call, crossed, behind>>
    BY DEF Reject
  <1>2. HealthTypes'
    BY <1>1 DEF HealthInv, HealthTypes, TypeOK
  <1>3. ConfirmedOnce'
    BY <1>1 DEF HealthInv, HealthTypes, TypeOK, ConfirmedOnce
  <1>4. ASSUME NEW c \in Calls PROVE ReviewKept(c)'
    <2>1. ReviewKept(c)
      BY DEF HealthInv
    <2>2. \A e \in Findings : Claiming(c, e)' => Claiming(c, e) /\ finding'[e] = finding[e]
      BY <1>1 DEF Free, Claiming, HealthInv, HealthTypes, TypeOK
    <2>3. \A d \in Calls, e \in Findings : Claiming(d, e)' = Claiming(d, e)
      BY <1>1 DEF Claiming
    <2>4. \A d \in Calls : Changing(d)' = Changing(d)
      BY <1>1 DEF Changing
    <2> QED
      BY <1>1, <2>1, <2>2, <2>3, <2>4 DEF ReviewKept
  <1>5. SnapshotKept'
    BY <1>1 DEF HealthInv, SnapshotKept, Renewing
  <1> QED
    BY <1>2, <1>3, <1>4, <1>5 DEF HealthInv

\* A request enters a transaction that changes the condition, with a finding
\* nobody else has claimed or none.
LEMMA EntersKeeps ==
    ASSUME HealthInv, NEW c \in Calls, NEW row \in HealthRow, call' = [call EXCEPT ![c] = row],
           UNCHANGED <<score, active, finding, made, open, entries, lost, capture, fresh, behind>>,
           crossed' = (crossed \/ \E q \in Calls \ {c} : Changing(q)),
           call[c].at \in {"idle", "planned"}, row.at = "changing", row.to \in Scores, row.from = score,
           \A f \in Findings : row.on = f => finding[f] = "SUGGESTED" /\ Free(f)
    PROVE  HealthInv'
  <1>1. /\ call'[c] = row /\ \A d \in Calls \ {c} : call'[d] = call[d]
    BY DEF HealthInv, HealthTypes
  <1>2. crossed' \in BOOLEAN
    BY DEF HealthInv, HealthTypes, TypeOK
  <1>3. \A d \in Calls \ {c} : Changing(d)' = Changing(d)
    BY <1>1 DEF Changing
  <1>4. \A d \in Calls \ {c}, f \in Findings : Claiming(d, f)' = Claiming(d, f)
    BY <1>1 DEF Claiming
  <1>5. \A f \in Findings : Claiming(c, f)' => finding[f] = "SUGGESTED" /\ \A d \in Calls : ~Claiming(d, f)
    BY <1>1 DEF Claiming, Free
  <1>6. ~crossed' => ~crossed /\ \A d \in Calls \ {c} : ~Changing(d)
    BY <1>2
  <1>7. ReviewKept(c)'
    BY <1>1, <1>3, <1>4, <1>5, <1>6 DEF ReviewKept
  <1>8. ASSUME NEW d \in Calls \ {c} PROVE ReviewKept(d)'
    <2>1. ReviewKept(d) /\ call'[d] = call[d]
      BY <1>1 DEF HealthInv
    <2>2. ASSUME NEW f \in Findings, Claiming(d, f)' PROVE ~Claiming(c, f)'
      BY <1>4, <1>5, <2>2
    <2>3. \A f \in Findings : Claiming(d, f)' =>
            finding'[f] = "SUGGESTED" /\ \A e \in Calls : Claiming(e, f)' => e = d
      BY <1>4, <2>1, <2>2 DEF ReviewKept
    <2>4. ~crossed' => ~Changing(d)'
      BY <1>3, <1>6
    <2> QED
      BY <2>1, <2>3, <2>4 DEF ReviewKept
  <1>9. ~Renewing(c)
    BY DEF Renewing
  <1> QED
    BY <1>2, <1>7, <1>8, <1>9, RequestMoves

LEMMA BeginConfirmKeeps == ASSUME HealthInv, NEW c \in Calls, BeginConfirm(c) PROVE HealthInv'
  <1> DEFINE g == call[c]
  <1>1. /\ g \in HealthRow /\ g.at = "planned" /\ Free(g.on) /\ ReviewKept(c)
        /\ UNCHANGED <<score, active, finding, made, open, entries, lost, capture, fresh, behind>>
    BY DEF BeginConfirm, HealthInv, HealthTypes
  <1>2. g.to \in Scores /\ g.on \in Findings
    BY <1>1 DEF ReviewKept
  <1>3. CASE MayClaim(g.on)
    <2> DEFINE row == [g EXCEPT !.at = "changing", !.from = score]
    <2>1. Enters(c, score)
      BY <1>3 DEF BeginConfirm, Previous
    <2>2. call' = [call EXCEPT ![c] = row] /\ crossed' = (crossed \/ \E q \in Calls \ {c} : Changing(q))
      BY <2>1 DEF Enters, HealthInv, HealthTypes
    <2>3. row \in HealthRow
      <3>1. "changing" \in HealthSteps /\ score \in Scores \cup {Unrated}
        BY DEF HealthSteps, HealthInv, HealthTypes, TypeOK
      <3> QED
        BY <1>1, <3>1, Zenon DEF HealthRow
    <2>4. row.at = "changing" /\ row.from = score /\ row.to = g.to /\ row.on = g.on
      BY <1>1 DEF HealthRow
    <2> HIDE DEF row
    <2> QED
      BY <1>1, <1>2, <1>3, <2>2, <2>3, <2>4, EntersKeeps DEF MayClaim
  <1>4. CASE ~MayClaim(g.on)
    <2>1. call' = [call EXCEPT ![c] = Resting] /\ crossed' = crossed
      BY <1>4 DEF BeginConfirm, Ends
    <2>2. \A d \in Calls : call'[d] = call[d] \/ call'[d] = Resting
      BY <2>1 DEF HealthInv, HealthTypes
    <2>3. \A d \in Calls : ReviewKept(d)'
      BY <1>1, <2>1, <2>2, AtRestInHealth, ReviewsStay
    <2>4. ~Renewing(c) /\ crossed \in BOOLEAN
      BY <1>1 DEF Renewing, HealthInv, HealthTypes, TypeOK
    <2> QED
      BY <1>1, <2>1, <2>3, <2>4, AtRestInHealth, RequestMoves
  <1> QED
    BY <1>3, <1>4

LEMMA BeginRecordKeeps ==
    ASSUME HealthInv, NEW c \in Calls, NEW s \in Scores, BeginRecord(c, s) PROVE HealthInv'
  <1> DEFINE row == [Resting EXCEPT !.at = "changing", !.to = s, !.from = score]
  <1>1. /\ call[c].at = "idle" /\ call' = [call EXCEPT ![c] = row]
        /\ crossed' = (crossed \/ \E q \in Calls \ {c} : Changing(q))
        /\ UNCHANGED <<score, active, finding, made, open, entries, lost, capture, fresh, behind>>
    BY DEF BeginRecord
  <1>2. row \in HealthRow
    <2>1. "changing" \in HealthSteps /\ score \in Scores \cup {Unrated} /\ s \in Scores \cup {Unrated}
      BY DEF HealthSteps, HealthInv, HealthTypes, TypeOK
    <2> QED
      BY <2>1, AtRestInHealth, Zenon DEF HealthRow
  <1>3. row.at = "changing" /\ row.to = s /\ row.from = score /\ row.on = NoFinding
    BY DEF Resting
  <1> HIDE DEF row
  <1> QED
    BY <1>1, <1>2, <1>3, HealthAssumption, EntersKeeps

LEMMA CommitChangeKeeps == ASSUME HealthInv, NEW c \in Calls, CommitChange(c) PROVE HealthInv'
  <1>1. PICK f : f = call[c].on
    OBVIOUS
  <1>2. /\ call[c].at = "changing" /\ score' = call[c].to /\ Commits(c)
        /\ lost' = (call[c].rule /\ call[c].to # Less(call[c].from))
        /\ UNCHANGED <<active, capture, crossed, behind>> /\ call[c] \in HealthRow /\ ReviewKept(c)
    BY DEF CommitChange, Changing, HealthInv, HealthTypes
  <1>3. /\ f = NoFinding => UNCHANGED <<finding, made, open, entries>>
        /\ f # NoFinding => /\ finding' = [finding EXCEPT ![f] = "HUMAN_VERIFIED"]
                            /\ made' = [made EXCEPT ![f] = @ + 1] /\ open' = open \cup {f}
                            /\ entries' = [entries EXCEPT ![f] = @ + 1]
    BY <1>1, Zenon DEF CommitChange
  <1>4. f \in Findings \cup {NoFinding} /\ call[c].to \in Scores /\ call[c].rule \in BOOLEAN
    BY <1>1, <1>2, HealthRowFields DEF ReviewKept
  <1>5. /\ call' \in [Calls -> HealthRow] /\ fresh' = FALSE /\ SnapshotKept' /\ call'[c].at = "committed"
        /\ \A d \in Calls \ {c} : /\ call'[d].at = call[d].at /\ call'[d].on = call[d].on
                                  /\ call'[d].to = call[d].to /\ call'[d].from = call[d].from
    BY <1>2, CommitsFacts
  <1>6. \A d \in Calls : call'[d].at \in HealthSteps
    BY <1>5, HealthRowFields
  <1>7. f \in Findings => finding[f] = "SUGGESTED" /\ \A d \in Calls \ {c} : ~Claiming(d, f)
    BY <1>1, <1>2 DEF ReviewKept, Claiming
  <1>8. HealthTypes'
    <2>1. /\ finding' \in [Findings -> {"SUGGESTED", "REJECTED", "HUMAN_VERIFIED"}] /\ open' \subseteq Findings
          /\ made' \in [Findings -> Nat] /\ entries' \in [Findings -> Nat]
      BY <1>3, <1>4 DEF HealthInv, HealthTypes, TypeOK
    <2>2. lost' \in BOOLEAN /\ score' \in Scores \cup {Unrated}
      BY <1>2, <1>4
    <2> QED
      BY <1>2, <1>5, <1>6, <2>1, <2>2 DEF HealthInv, HealthTypes, TypeOK, HealthSteps
  <1>9. ConfirmedOnce'
    <2>1. CASE f = NoFinding
      BY <1>3, <2>1 DEF HealthInv, ConfirmedOnce
    <2>2. CASE f # NoFinding
      <3>1. f \in Findings /\ made[f] = 0 /\ entries[f] = 0
        BY <1>4, <1>7, <2>2 DEF HealthInv, ConfirmedOnce
      <3>2. /\ finding'[f] = "HUMAN_VERIFIED" /\ made'[f] = 1 /\ entries'[f] = 1
            /\ \A e \in Findings \ {f} : finding'[e] = finding[e] /\ made'[e] = made[e] /\ entries'[e] = entries[e]
        BY <1>3, <2>2, <3>1 DEF HealthInv, HealthTypes, TypeOK
      <3> QED
        BY <3>1, <3>2 DEF HealthInv, ConfirmedOnce
    <2> QED
      BY <2>1, <2>2
  <1>10. ASSUME NEW d \in Calls PROVE ReviewKept(d)'
    <2>1. \A e \in Calls : Changing(e)' => Changing(e) /\ e # c
      BY <1>5 DEF Changing
    <2>2. \A e \in Calls, h \in Findings : Claiming(e, h)' => Claiming(e, h) /\ e # c
      BY <1>5 DEF Claiming
    <2>3. CASE d = c
      BY <1>5, <2>1, <2>2, <2>3 DEF ReviewKept
    <2>4. CASE d # c
      <3>1. ReviewKept(d) /\ Changing(c)
        BY <1>2 DEF HealthInv, Changing
      <3>2. ~crossed' => ~Changing(d)'
        BY <1>2, <2>1, <2>4, <3>1 DEF ReviewKept
      <3>3. \A h \in Findings : Claiming(d, h)' => finding'[h] = finding[h]
        BY <1>3, <1>7, <2>2, <2>4 DEF HealthInv, HealthTypes, TypeOK
      <3> QED
        BY <1>5, <2>2, <2>4, <3>1, <3>2, <3>3 DEF ReviewKept
    <2> QED
      BY <2>3, <2>4
  <1> QED
    BY <1>5, <1>8, <1>9, <1>10 DEF HealthInv

\* A request is over; whoever has computed a snapshot holds an old one.
LEMMA SnapshotLeaves ==
    ASSUME HealthInv, NEW c \in Calls, call[c].at \in {"committed", "computed"},
           call' = [Outdates EXCEPT ![c] = Resting],
           UNCHANGED <<score, active, finding, made, open, entries, lost, capture, crossed>>,
           fresh' \in BOOLEAN, behind' \in BOOLEAN,
           ~behind' => fresh' \/ \E d \in Calls \ {c} : Renewing(d)
    PROVE  HealthInv'
  <1>1. /\ call'[c] = Resting /\ \A d \in Calls \ {c} : call'[d] = Outdates[d]
        /\ call' = [q \in Calls |-> call'[q]]
    BY DEF Outdates
  <1>2. \A d \in Calls :
          /\ Outdates[d] \in HealthRow /\ Outdates[d].at = call[d].at /\ Outdates[d].on = call[d].on
          /\ Outdates[d].to = call[d].to /\ Outdates[d].from = call[d].from
          /\ Outdates[d].fresh = call[d].fresh /\ (Outdates[d].at = "computed" => Outdates[d].old)
    BY OutdatesFacts
  <1>3. \A d \in Calls : call'[d] \in HealthRow
    BY <1>1, <1>2, AtRestInHealth
  <1>4. call' \in [Calls -> HealthRow]
    BY <1>1, <1>3
  <1>5. \A d \in Calls : call'[d].at \in HealthSteps
    BY <1>3, HealthRowFields
  <1>6. HealthTypes'
    BY <1>4, <1>5 DEF HealthInv, HealthTypes, TypeOK, HealthSteps
  <1>7. \A d \in Calls : \/ call'[d].at \notin {"planned", "changing"}
                         \/ /\ call'[d].at = call[d].at /\ call'[d].on = call[d].on
                            /\ call'[d].to = call[d].to /\ call'[d].from = call[d].from
    BY <1>1, <1>2, AtRestInHealth
  <1>8. ConfirmedOnce' /\ \A d \in Calls : ReviewKept(d)'
    BY <1>7, ReviewsStay
  <1>9. SnapshotKept'
    <2>1. \A d \in Calls \ {c} : Renewing(d) => Renewing(d)'
      BY <1>1, <1>2 DEF Renewing
    <2>2. \A d \in Calls : call'[d].at = "computed" => call'[d].old
      BY <1>1, <1>2, AtRestInHealth
    <2> QED
      BY <2>1, <2>2 DEF SnapshotKept
  <1> QED
    BY <1>6, <1>8, <1>9 DEF HealthInv

LEMMA StoreSnapshotKeeps == ASSUME HealthInv, NEW c \in Calls, StoreSnapshot(c) PROVE HealthInv'
  <1>1. /\ call[c].at = "computed" /\ fresh' = call[c].fresh /\ behind' = call[c].old
        /\ call' = [Outdates EXCEPT ![c] = Resting]
        /\ UNCHANGED <<score, active, finding, made, open, entries, lost, capture, crossed>>
        /\ call[c] \in HealthRow
    BY DEF StoreSnapshot, HealthInv, HealthTypes
  <1>2. fresh' \in BOOLEAN /\ behind' \in BOOLEAN
    BY <1>1, HealthRowFields
  <1>3. ~behind' /\ ~fresh' => \E d \in Calls \ {c} : Renewing(d)
    BY <1>1 DEF HealthInv, SnapshotKept, Renewing
  <1> QED
    BY <1>1, <1>2, <1>3, SnapshotLeaves

LEMMA BreakOffHealthKeeps == ASSUME HealthInv, NEW c \in Calls, BreakOff(c) PROVE HealthInv'
  <1>1. fresh \in BOOLEAN
    BY DEF HealthInv, HealthTypes, TypeOK
  <1> QED
    BY <1>1, SnapshotLeaves DEF BreakOff

LEMMA HealthInvStep == ASSUME HealthInv, [Next]_healthVars PROVE HealthInv'
  <1>1. CASE Next
    <2>1. ASSUME NEW c \in Calls, NEW f \in Findings, NEW typed \in Scores \cup {Unrated}, LoadReview(c, f, typed)
          PROVE  HealthInv'
      BY <2>1, LoadReviewKeeps
    <2>2. ASSUME NEW c \in Calls, BeginConfirm(c) \/ CommitChange(c) PROVE HealthInv'
      BY <2>2, BeginConfirmKeeps, CommitChangeKeeps
    <2>3. ASSUME NEW c \in Calls, NEW s \in Scores, BeginRecord(c, s) PROVE HealthInv'
      BY <2>3, BeginRecordKeeps
    <2>4. ASSUME NEW c \in Calls,
                 EditAsset(c) \/ MarkCaptureReady(c) \/ ChangeOther(c) \/ AskHealth(c) \/ ComputeHealth(c)
          PROVE  HealthInv'
      BY <2>4, EditAssetKeeps, MarkCaptureReadyKeeps, ChangeOtherKeeps, ComputesKeeps
    <2>5. ASSUME NEW c \in Calls, NEW f \in Findings, EditIssue(c, f) PROVE HealthInv'
      BY <2>5, EditIssueKeeps
    <2>6. ASSUME NEW c \in Calls, StoreSnapshot(c) \/ BreakOff(c) PROVE HealthInv'
      BY <2>6, StoreSnapshotKeeps, BreakOffHealthKeeps
    <2>7. ASSUME NEW f \in Findings, Reject(f) \/ SubmitRepair(f) \/ SendBackRepair(f) PROVE HealthInv'
      BY <2>7, RejectKeeps, SubmitRepairKeeps, SendBackRepairKeeps
    <2>8. ASSUME NEW to \in {"UPLOADING", "FAILED"}, MoveCapture(to) \/ LeaveReady(to) PROVE HealthInv'
      BY <2>8, CaptureKeeps
    <2>9. ASSUME NEW s \in Scores \cup {Unrated}, ImportAssets(s) PROVE HealthInv'
      BY <2>9, ImportAssetsKeeps
    <2> QED
      BY <1>1, <2>1, <2>2, <2>3, <2>4, <2>5, <2>6, <2>7, <2>8, <2>9, Zenon DEF Next
  <1>2. CASE UNCHANGED healthVars
    <2>1. UNCHANGED <<score, active, finding, made, open, entries, lost, capture, fresh, call, crossed, behind>>
      BY <1>2 DEF healthVars
    <2>2. HealthTypes'
      BY <2>1 DEF HealthInv, HealthTypes, TypeOK
    <2>3. ConfirmedOnce' /\ \A d \in Calls : ReviewKept(d)'
      BY <2>1, ReviewsStay
    <2>4. SnapshotKept'
      BY <2>1 DEF HealthInv, SnapshotKept, Renewing
    <2> QED
      BY <2>2, <2>3, <2>4 DEF HealthInv
  <1> QED
    BY <1>1, <1>2

-----------------------------------------------------------------------------
(* The spreadsheet of an assessment.                                        *)

\* What a row's cell may hold: what was exported, what somebody fills in.
Cells == {H!FormatAnswerCell(v) : v \in H!Values(kind)} \cup H!Values(kind) \cup {H!Blank, "wrong"}

Questions == {"site", "task"}
SheetRow == {r \in [mine : BOOLEAN, q : Questions, n : H!Numbers, cell : Cells] : r.q = "site" => r.n = 1}
Sheets == Seq(SheetRow)

Given == [Questions -> [H!Numbers -> H!Values(kind) \cup {H!Blank, "none"}]]
Asides == [Questions -> [H!Numbers -> H!Values(kind) \cup {H!Blank}]]

Results == [rows : Sheets, applied : BOOLEAN, errors : Nat, saved : Nat]
Panels == [file : Sheets, busy : {"none", "check", "load"}, sends : Nat, result : Results]
Loads == [at : {"idle", "check", "write"}, rows : Sheets, dry : BOOLEAN, open : SUBSET Nat, save : SUBSET Nat]
Pasts == [was : Given, edited : BOOLEAN, others : Nat, loaded : BOOLEAN]

SheetTypes ==
    /\ written \in Given /\ ofAssets \in Asides /\ rows \in Sheets /\ panel \in Panels
    /\ loading \in Loads /\ since \in Pasts /\ races \subseteq {"half", "file"}

\* Before there is a sheet there is no file of it.
NoSheetYet ==
    rows = H!NoFile => /\ panel.file = H!NoFile /\ panel.result = H!NoResult
                       /\ loading.at = "idle" /\ loading.rows = H!NoFile

\* The cells of a sheet that say something say what was there at the export, where
\* there was no answer about an asset they may say.
CellsSay(s) ==
    \A i \in DOMAIN s : s[i].cell # H!Blank /\ ofAssets[s[i].q][s[i].n] = H!Blank =>
        /\ since.was[s[i].q][s[i].n] \notin {H!Blank, "none"}
        /\ s[i].cell = H!FormatAnswerCell(since.was[s[i].q][s[i].n])

Unedited == ~since.edited /\ since.others = 0 => CellsSay(rows) /\ CellsSay(panel.file) /\ CellsSay(loading.rows)

\* What the file being loaded, and the one whose result is shown, would save.
LoadPlan == H!Planned(loading.rows)
LoadErrors == H!Errors(loading.rows)
ShownPlan == H!Planned(panel.result.rows)
ShownErrors == H!Errors(panel.result.rows)

\* Only a checked sheet is written, its responses before its answers.
WritesPlanned ==
    loading.at = "write" =>
        /\ ~loading.dry /\ LoadErrors = {}
        /\ loading.save \subseteq LoadPlan
        /\ \A i \in loading.open : i \in LoadPlan /\ loading.rows[i].q = "task"
        /\ loading.open # {} => loading.save = LoadPlan

\* The answer of a row is there.
IsWritten(r) == written[r.q][r.n] = H!ParseAnswerCell(r.cell)

\* What a load has gone through is there, and so is what the panel calls loaded,
\* beside which nothing is being loaded.
LoadWritten == \A i \in LoadPlan \ loading.save : IsWritten(loading.rows[i])
ShownWritten == \A i \in ShownPlan : IsWritten(panel.result.rows[i])

LoadedSoFar ==
    since.others = 0 => /\ loading.at = "write" => LoadWritten
                        /\ panel.result.applied => ShownWritten

AppliedIsLast ==
    panel.result.applied => ShownErrors = {} /\ (loading.at = "idle" \/ loading.dry)

\* What the panel shows is of the file it shows, and what is loading, too.
PanelKept ==
    /\ loading.at # "idle" => panel.busy # "none"
    /\ panel.result.errors = H!Cardinality(ShownErrors)
    /\ "file" \notin races =>
         /\ panel.result.rows \in {H!NoFile, panel.file}
         /\ panel.busy # "none" => loading.rows = panel.file
         /\ panel.busy = "load" => panel.result.rows = panel.file /\ panel.result.errors = 0

\* Until a load ends, or breaks off, half way, nothing has changed.
NothingYet ==
    since.others = 0 /\ rows # H!NoFile /\ ~since.loaded /\ "half" \notin races /\ loading.at # "write"
        => written = since.was

SheetInv ==
    /\ SheetTypes /\ NoSheetYet /\ Unedited /\ H!RoundTrip /\ WritesPlanned
    /\ LoadedSoFar /\ AppliedIsLast /\ PanelKept /\ NothingYet

LEMMA FirstIsOneOfThem == ASSUME NEW Some \in SUBSET Nat, Some # {} PROVE H!First(Some) \in Some
  <1> DEFINE Smaller == {p \in Nat \X Nat : p[1] < p[2]}
  <1>1. IsWellFoundedOn(Smaller, Nat)
    BY NatLessThanWellFounded DEF OpToRel
  <1>2. ASSUME NEW x \in Nat, NEW y \in Nat, ~ (<<y, x>> \in Smaller) PROVE x <= y
    <2>1. <<y, x>> \in Nat \X Nat /\ <<y, x>>[1] = y /\ <<y, x>>[2] = x
      OBVIOUS
    <2>2. ~ (y < x)
      BY <1>2, <2>1, Zenon
    <2> QED
      BY <2>2
  <1> HIDE DEF Smaller
  <1>3. \E x \in Some : \A y \in Some : ~ (<<y, x>> \in Smaller)
    BY <1>1, WFMin, Zenon
  <1>4. \E x \in Some : \A y \in Some : x <= y
    BY <1>2, <1>3, Zenon
  <1> QED
    BY <1>4, Zenon DEF H!First

\* Everything but the rows of a sheet is of a type that stays.
SameForm == UNCHANGED <<kind, repeatable>>

LEMMA TypesStay ==
    ASSUME SameForm
    PROVE  /\ SheetRow' = SheetRow /\ Sheets' = Sheets /\ Given' = Given /\ Asides' = Asides
           /\ Results' = Results /\ Panels' = Panels /\ Loads' = Loads /\ Pasts' = Pasts
  <1>1. Cells' = Cells
    BY DEF SameForm, Cells, H!Values, H!FormatAnswerCell
  <1>2. SheetRow' = SheetRow
    BY <1>1 DEF SheetRow
  <1>3. Sheets' = Sheets
    BY <1>2 DEF Sheets
  <1>4. Given' = Given /\ Asides' = Asides
    BY DEF SameForm, Given, Asides, H!Values
  <1>5. Results' = Results /\ Loads' = Loads
    BY <1>3 DEF Results, Loads
  <1>6. Panels' = Panels /\ Pasts' = Pasts
    BY <1>3, <1>4, <1>5 DEF Panels, Pasts
  <1> QED
    BY <1>2, <1>3, <1>4, <1>5, <1>6

\* The verdicts on a sheet depend on the sheet alone.
LEMMA LoadPlanStays ==
    ASSUME SameForm, loading'.rows = loading.rows
    PROVE  LoadPlan' = LoadPlan /\ LoadErrors' = LoadErrors
  BY DEF SameForm, LoadPlan, LoadErrors, H!Planned, H!Errors, H!StatusOf, H!Readable, H!SameQuestion,
     H!ParseAnswerCell

LEMMA ShownPlanStays ==
    ASSUME SameForm, panel'.result.rows = panel.result.rows
    PROVE  ShownPlan' = ShownPlan /\ ShownErrors' = ShownErrors
  BY DEF SameForm, ShownPlan, ShownErrors, H!Planned, H!Errors, H!StatusOf, H!Readable, H!SameQuestion,
     H!ParseAnswerCell

LEMMA ShownPlanIsLoads ==
    ASSUME SameForm, panel'.result.rows = loading.rows
    PROVE  ShownPlan' = LoadPlan /\ ShownErrors' = LoadErrors
  BY DEF SameForm, ShownPlan, ShownErrors, LoadPlan, LoadErrors, H!Planned, H!Errors, H!StatusOf, H!Readable,
     H!SameQuestion, H!ParseAnswerCell

LEMMA NothingShown ==
    panel.result.rows = H!NoFile => ShownPlan = {} /\ ShownErrors = {}
  BY DEF ShownPlan, ShownErrors, H!Planned, H!Errors, H!NoFile

\* What is planned can be read, and answers different questions; a sheet without
\* an error is planned but for its blanks.
LEMMA PlanFacts ==
    ASSUME NEW s \in Sheets
    PROVE  /\ H!Planned(s) \subseteq DOMAIN s
           /\ \A i \in H!Planned(s) : H!Readable(s[i])
           /\ \A i, j \in H!Planned(s) : i # j => ~H!SameQuestion(s[i], s[j])
           /\ H!Errors(s) = {} => \A i \in DOMAIN s : s[i].mine /\ (s[i].cell # H!Blank /\ kind # "photo" => i \in H!Planned(s))
  <1>1. H!Planned(s) \subseteq DOMAIN s
    BY DEF H!Planned
  <1>2. \A i \in H!Planned(s) : H!Readable(s[i]) /\ \A j \in 1 .. i - 1 : ~(H!Readable(s[j]) /\ H!SameQuestion(s[i], s[j]))
    BY DEF H!Planned, H!StatusOf
  <1>3. ASSUME NEW i \in H!Planned(s), NEW j \in H!Planned(s), i # j PROVE ~H!SameQuestion(s[i], s[j])
    <2>1. i \in Nat /\ j \in Nat /\ i >= 1 /\ j >= 1
      BY <1>1 DEF Sheets
    <2>2. CASE j < i
      <3>1. j \in 1 .. i - 1
        BY <2>1, <2>2
      <3> QED
        BY <1>2, <3>1
    <2>3. CASE i < j
      <3>1. i \in 1 .. j - 1
        BY <2>1, <2>3
      <3>2. ~H!SameQuestion(s[j], s[i])
        BY <1>2, <3>1
      <3> QED
        BY <3>2 DEF H!SameQuestion
    <2> QED
      BY <1>3, <2>1, <2>2, <2>3
  <1>4. ASSUME H!Errors(s) = {}, NEW i \in DOMAIN s
        PROVE  s[i].mine /\ (s[i].cell # H!Blank /\ kind # "photo" => i \in H!Planned(s))
    <2>1. H!StatusOf(s, i) # "error"
      BY <1>4 DEF H!Errors
    <2>2. H!StatusOf(s, i) \in {"error", "skip", "save"}
      BY DEF H!StatusOf
    <2> QED
      BY <1>4, <2>1, <2>2 DEF H!StatusOf, H!Planned
  <1> QED
    BY <1>1, <1>2, <1>3, <1>4

\* A cell that can be read is an answer of the question.
LEMMA ParsedFits ==
    ASSUME NEW r \in SheetRow, H!Readable(r)
    PROVE  /\ r.cell # H!Blank /\ r.q \in Questions /\ r.n \in H!Numbers
           /\ H!ParseAnswerCell(r.cell) \in H!Values(kind)
           /\ r.q = "site" => r.n = 1
  <1>1. /\ r.cell # H!Blank /\ r.q \in Questions /\ r.n \in H!Numbers /\ r.cell \in Cells
        /\ H!ParseAnswerCell(r.cell) # H!Bad /\ (r.q = "site" => r.n = 1)
    BY DEF SheetRow, H!Readable
  <1>2. r.cell \in H!Values(kind) \cup {"wrong"} \/ \E v \in H!Values(kind) : r.cell = H!FormatAnswerCell(v)
    BY <1>1 DEF Cells
  <1>3. H!ParseAnswerCell(r.cell) \in H!Values(kind)
    <2>1. CASE r.cell \in H!Values(kind) \cup {"wrong"}
      BY <1>1, <2>1 DEF H!Values, H!ParseAnswerCell, H!Bad
    <2>2. ASSUME NEW v \in H!Values(kind), r.cell = H!FormatAnswerCell(v)
          PROVE  H!ParseAnswerCell(r.cell) \in H!Values(kind)
      BY <1>1, <2>2 DEF H!Values, H!ParseAnswerCell, H!FormatAnswerCell, H!Bad
    <2> QED
      BY <1>2, <2>1, <2>2
  <1> QED
    BY <1>1, <1>3

\* The answers that survive their cell.
LEMMA ExactReadsBack ==
    ASSUME NEW v \in H!Exact, v # H!Blank PROVE H!ParseAnswerCell(H!FormatAnswerCell(v)) = v
  BY DEF H!Exact, H!Blank, H!ParseAnswerCell, H!FormatAnswerCell

-----------------------------------------------------------------------------
\* What the steps share.

LEMMA SheetFields ==
    ASSUME SheetTypes
    PROVE  /\ panel.file \in Sheets /\ panel.busy \in {"none", "check", "load"} /\ panel.sends \in Nat
           /\ panel.result \in Results /\ panel.result.rows \in Sheets /\ panel.result.applied \in BOOLEAN
           /\ loading.at \in {"idle", "check", "write"} /\ loading.rows \in Sheets /\ loading.dry \in BOOLEAN
           /\ loading.open \subseteq Nat /\ loading.save \subseteq Nat
           /\ since.was \in Given /\ since.edited \in BOOLEAN /\ since.others \in Nat /\ since.loaded \in BOOLEAN
  BY DEF SheetTypes, Panels, Loads, Pasts, Results

LEMMA NothingShownNext ==
    ASSUME panel'.result.rows = H!NoFile PROVE ShownPlan' = {} /\ ShownErrors' = {}
  BY DEF ShownPlan, ShownErrors, H!Planned, H!Errors, H!NoFile

LEMMA NoErrors == ASSUME NEW s \in Sheets, H!Cardinality(H!Errors(s)) = 0 PROVE H!Errors(s) = {}
  <1>1. H!Errors(s) \subseteq 1 .. Len(s) /\ Len(s) \in Nat
    BY DEF H!Errors, Sheets
  <1>2. IsFiniteSet(H!Errors(s))
    <2>1. IsFiniteSet(1 .. Len(s))
      BY <1>1, FS_Interval
    <2> QED
      BY <1>1, <2>1, FS_Subset
  <1>3. H!Cardinality(H!Errors(s)) = Cardinality(H!Errors(s))
    BY DEF H!Cardinality, Cardinality
  <1> QED
    BY <1>2, <1>3, FS_EmptySet

LEMMA CountsAreNumbers ==
    ASSUME NEW s \in Sheets
    PROVE  /\ H!Cardinality(H!Errors(s)) \in Nat /\ H!Cardinality(H!Planned(s)) \in Nat
  <1>1. H!Errors(s) \subseteq 1 .. Len(s) /\ H!Planned(s) \subseteq 1 .. Len(s) /\ Len(s) \in Nat
    BY DEF H!Errors, H!Planned, Sheets
  <1>2. IsFiniteSet(H!Errors(s)) /\ IsFiniteSet(H!Planned(s))
    <2>1. IsFiniteSet(1 .. Len(s))
      BY <1>1, FS_Interval
    <2> QED
      BY <1>1, <2>1, FS_Subset
  <1>3. Cardinality(H!Errors(s)) \in Nat /\ Cardinality(H!Planned(s)) \in Nat
    BY <1>2, FS_CardinalityType
  <1>4. H!Cardinality(H!Errors(s)) = Cardinality(H!Errors(s)) /\ H!Cardinality(H!Planned(s)) = Cardinality(H!Planned(s))
    BY DEF H!Cardinality, Cardinality
  <1> QED
    BY <1>3, <1>4

\* Steps that leave the files, the panel and the answers alone.
LEMMA LoadFrame ==
    ASSUME SameForm, UNCHANGED <<written, loading>>, since'.others = since.others
    PROVE  /\ WritesPlanned => WritesPlanned'
           /\ LoadWritten' = LoadWritten
  <1>1. LoadPlan' = LoadPlan /\ LoadErrors' = LoadErrors
    BY LoadPlanStays
  <1> QED
    BY <1>1 DEF WritesPlanned, LoadWritten, IsWritten, H!ParseAnswerCell, SameForm

LEMMA ShownFrame ==
    ASSUME SameForm, written' = written, panel'.result = panel.result
    PROVE  ShownWritten' = ShownWritten /\ ShownErrors' = ShownErrors
  <1>1. ShownPlan' = ShownPlan /\ ShownErrors' = ShownErrors
    BY ShownPlanStays
  <1> QED
    BY <1>1 DEF ShownWritten, IsWritten, H!ParseAnswerCell, SameForm

LEMMA PanelFrame ==
    ASSUME SheetInv, SameForm, UNCHANGED <<written, panel, loading, races>>, since'.others = since.others
    PROVE  WritesPlanned' /\ LoadedSoFar' /\ AppliedIsLast' /\ PanelKept'
  <1>1. WritesPlanned' /\ LoadWritten' = LoadWritten
    BY LoadFrame DEF SheetInv
  <1>2. ShownWritten' = ShownWritten /\ ShownErrors' = ShownErrors
    BY ShownFrame
  <1> QED
    BY <1>1, <1>2 DEF SheetInv, LoadedSoFar, AppliedIsLast, PanelKept

\* One answer is written, and the others stay.
LEMMA OneIsWritten ==
    ASSUME written \in Given, NEW q \in Questions, NEW n \in H!Numbers,
           NEW v \in H!Values(kind) \cup {H!Blank, "none"}, written' = [written EXCEPT ![q][n] = v]
    PROVE  /\ written' \in Given /\ written'[q][n] = v
           /\ \A p \in Questions, m \in H!Numbers : p # q \/ m # n => written'[p][m] = written[p][m]
           /\ written[q][n] = v => written' = written
  <1>1. written' \in Given /\ written'[q][n] = v
    BY DEF Given
  <1>2. \A p \in Questions, m \in H!Numbers : p # q \/ m # n => written'[p][m] = written[p][m]
    BY DEF Given
  <1>3. ASSUME written[q][n] = v PROVE written' = written
    <2>1. [written[q] EXCEPT ![n] = v] = written[q]
      BY <1>3 DEF Given
    <2> QED
      BY <2>1 DEF Given
  <1> QED
    BY <1>1, <1>2, <1>3

\* A sheet as it is exported says what is there.
TrueTo(r) == r.cell # H!Blank /\ ofAssets[r.q][r.n] = H!Blank =>
                                 /\ written[r.q][r.n] \notin {H!Blank, "none"}
                                 /\ r.cell = H!FormatAnswerCell(written[r.q][r.n])

LEMMA RowFits ==
    ASSUME SheetTypes, NEW q \in Questions, NEW n \in H!Numbers, q = "site" => n = 1, NEW v \in H!Shown(q, n)
    PROVE  H!Row(q, n, v) \in {r \in SheetRow : TrueTo(r)}
  <1>1. /\ written[q][n] \in H!Values(kind) \cup {H!Blank, "none"}
        /\ ofAssets[q][n] \in H!Values(kind) \cup {H!Blank}
    BY DEF SheetTypes, Given, Asides
  <1>2. H!FormatAnswerCell(H!Blank) = H!Blank
    BY DEF H!FormatAnswerCell, H!Blank
  <1>3. /\ v \in H!Values(kind) \cup {H!Blank}
        /\ v # H!Blank /\ ofAssets[q][n] = H!Blank => v = written[q][n] /\ v # "none"
    BY <1>1 DEF H!Shown
  <1>4. H!Row(q, n, v).cell = H!FormatAnswerCell(v) /\ H!FormatAnswerCell(v) \in Cells
    BY <1>2, <1>3 DEF H!Row, Cells
  <1>5. H!Row(q, n, v) \in SheetRow /\ H!Row(q, n, v).q = q /\ H!Row(q, n, v).n = n
    BY <1>4 DEF H!Row, SheetRow
  <1>6. TrueTo(H!Row(q, n, v))
    BY <1>2, <1>3, <1>4, <1>5 DEF TrueTo
  <1> QED
    BY <1>5, <1>6

LEMMA ExportFits ==
    ASSUME SheetTypes, NEW s \in H!Shown("site", 1), NEW f \in H!Shown("task", 1), NEW g \in H!Shown("task", 2)
    PROVE  /\ H!RowsFor(s, f, g) \in Sheets /\ H!RowsFor(s, f, g) # H!NoFile
           /\ \A i \in DOMAIN H!RowsFor(s, f, g) : TrueTo(H!RowsFor(s, f, g)[i])
  <1> DEFINE Honest == {r \in SheetRow : TrueTo(r)}
             one == IF 1 \in H!Responses \/ H!Responses = {} THEN <<H!Row("task", 1, f)>> ELSE <<>>
             two == IF 2 \in H!Responses THEN <<H!Row("task", 2, g)>> ELSE <<>>
             site == <<H!Row("site", 1, s)>>
             sheetRows == H!RowsFor(s, f, g)
  <1>1. H!Row("site", 1, s) \in Honest /\ H!Row("task", 1, f) \in Honest /\ H!Row("task", 2, g) \in Honest
    BY RowFits DEF Questions, H!Numbers
  <1>2. sheetRows = (site \o one) \o two
    BY DEF H!RowsFor
  <1> HIDE DEF Honest, sheetRows
  <1>3. one \in Seq(Honest) /\ two \in Seq(Honest) /\ site \in Seq(Honest) /\ Len(site) = 1
    BY <1>1
  <1> HIDE DEF one, two, site
  <1>4. site \o one \in Seq(Honest) /\ Len(site \o one) = Len(site) + Len(one)
    BY <1>3, ConcatProperties
  <1>5. (site \o one) \o two \in Seq(Honest) /\ Len((site \o one) \o two) = Len(site \o one) + Len(two)
    BY <1>3, <1>4, ConcatProperties
  <1>6. sheetRows \in Seq(Honest) /\ Len(sheetRows) >= 1
    BY <1>2, <1>3, <1>4, <1>5, LenProperties
  <1>7. \A i \in DOMAIN sheetRows : sheetRows[i] \in Honest
    BY <1>6
  <1>8. sheetRows \in Sheets
    <2>1. Honest \subseteq SheetRow
      BY DEF Honest
    <2> QED
      BY <1>6, <2>1 DEF Sheets
  <1>9. sheetRows # H!NoFile /\ \A i \in DOMAIN sheetRows : TrueTo(sheetRows[i])
    BY <1>6, <1>7 DEF Honest, H!NoFile
  <1> QED
    BY <1>8, <1>9 DEF sheetRows

-----------------------------------------------------------------------------
\* What the panel hears.

\* What a result says of the file that is being loaded.
ResultFits(res) ==
    /\ res \in Results
    /\ \/ res.rows = H!NoFile /\ res.errors = 0
       \/ res.rows = loading.rows /\ res.errors = H!Cardinality(LoadErrors)
    /\ res.applied => res.rows = loading.rows /\ LoadErrors = {}

AllWritten == \A i \in LoadPlan : IsWritten(loading.rows[i])

LEMMA AnsweredMoves ==
    ASSUME SheetTypes, NEW res \in Results, H!Answered(res)
    PROVE  /\ panel' \in Panels /\ loading' \in Loads /\ since' \in Pasts
           /\ panel'.file = panel.file /\ panel'.busy = "none" /\ panel'.result \in {res, panel.result}
           /\ loading'.at = "idle" /\ loading'.rows = loading.rows /\ loading'.dry = loading.dry
           /\ since'.was = since.was /\ since'.edited = since.edited /\ since'.others = since.others
           /\ since'.loaded = (since.loaded \/ res.applied)
  <1>1. PICK heard \in {res, panel.result} : panel' = [panel EXCEPT !.busy = "none", !.result = heard]
    BY DEF H!Answered
  <1>2. loading' = [loading EXCEPT !.at = "idle", !.open = {}, !.save = {}]
    BY DEF H!Answered
  <1>3. since' = [since EXCEPT !.loaded = since.loaded \/ res.applied]
    BY DEF H!Answered
  <1>4. /\ panel' \in Panels /\ panel'.file = panel.file /\ panel'.busy = "none" /\ panel'.result = heard
    BY <1>1 DEF SheetTypes, Panels
  <1>5. /\ loading' \in Loads /\ loading'.at = "idle" /\ loading'.rows = loading.rows
        /\ loading'.dry = loading.dry
    BY <1>2 DEF SheetTypes, Loads
  <1>6. res.applied \in BOOLEAN
    BY DEF Results
  <1>7. /\ since' \in Pasts /\ since'.was = since.was /\ since'.edited = since.edited
        /\ since'.others = since.others /\ since'.loaded = (since.loaded \/ res.applied)
    BY <1>3, <1>6 DEF SheetTypes, Pasts
  <1> QED
    BY <1>1, <1>4, <1>5, <1>7

LEMMA AnsweredKeeps ==
    ASSUME SheetInv, loading.at # "idle", SameForm, UNCHANGED <<rows, ofAssets>>, written' \in Given,
           races' \in {races, races \cup {"half"}},
           NEW res, ResultFits(res), H!Answered(res),
           res.applied /\ since.others = 0 => AllWritten',
           written' = written \/ ~panel.result.applied,
           ~res.applied /\ "half" \notin races' => written' = written /\ loading.at # "write",
           H!RoundTrip'
    PROVE  SheetInv'
  <1>1. /\ SheetTypes /\ res \in Results
    BY DEF SheetInv, ResultFits
  <1>2. /\ panel' \in Panels /\ loading' \in Loads /\ since' \in Pasts
        /\ panel'.file = panel.file /\ panel'.busy = "none" /\ panel'.result \in {res, panel.result}
        /\ loading'.at = "idle" /\ loading'.rows = loading.rows /\ loading'.dry = loading.dry
        /\ since'.was = since.was /\ since'.edited = since.edited /\ since'.others = since.others
        /\ since'.loaded = (since.loaded \/ res.applied)
    BY <1>1, AnsweredMoves
  <1>3. rows # H!NoFile
    BY DEF SheetInv, NoSheetYet
  <1>4. SheetTypes'
    BY <1>1, <1>2, TypesStay DEF SheetTypes
  <1>5. NoSheetYet' /\ WritesPlanned'
    BY <1>2, <1>3 DEF NoSheetYet, WritesPlanned
  <1>6. Unedited'
    BY <1>2 DEF SheetInv, Unedited, CellsSay
  <1>7. ASSUME panel'.result = panel.result PROVE LoadedSoFar' /\ AppliedIsLast' /\ PanelKept'
    <2>1. ShownErrors' = ShownErrors
      BY <1>7, ShownPlanStays
    <2>2. panel.result.applied => ShownWritten' = ShownWritten
      BY <1>7, ShownFrame
    <2>3. LoadedSoFar'
      BY <1>2, <1>7, <2>2 DEF LoadedSoFar, SheetInv
    <2>4. AppliedIsLast' /\ PanelKept'
      BY <1>2, <1>7, <2>1 DEF AppliedIsLast, PanelKept, SheetInv
    <2> QED
      BY <2>3, <2>4
  <1>8. ASSUME panel'.result = res PROVE LoadedSoFar' /\ AppliedIsLast' /\ PanelKept'
    <2>1. CASE res.rows = H!NoFile /\ res.errors = 0
      <3>1. ShownPlan' = {} /\ ShownErrors' = {}
        BY <1>8, <2>1, NothingShownNext
      <3>2. H!Cardinality({}) = 0
        BY FS_EmptySet DEF H!Cardinality, Cardinality
      <3>3. LoadedSoFar' /\ AppliedIsLast'
        BY <1>2, <3>1 DEF LoadedSoFar, AppliedIsLast, ShownWritten
      <3>4. PanelKept'
        BY <1>2, <1>8, <2>1, <3>1, <3>2 DEF PanelKept
      <3> QED
        BY <3>3, <3>4
    <2>2. CASE res.rows = loading.rows /\ res.errors = H!Cardinality(LoadErrors)
      <3>1. ShownPlan' = LoadPlan /\ ShownErrors' = LoadErrors
        BY <1>8, <2>2, ShownPlanIsLoads
      <3>2. LoadPlan' = LoadPlan
        BY <1>2, LoadPlanStays
      <3>3. res.applied /\ since.others = 0 => ShownWritten'
        BY <1>2, <1>8, <2>2, <3>1, <3>2 DEF AllWritten, ShownWritten, IsWritten, H!ParseAnswerCell
      <3>4. LoadedSoFar'
        BY <1>2, <1>8, <3>3 DEF LoadedSoFar
      <3>5. AppliedIsLast'
        BY <1>2, <1>8, <3>1 DEF AppliedIsLast, ResultFits
      <3>6. "file" \notin races' => loading.rows = panel.file
        BY DEF SheetInv, PanelKept
      <3>7. PanelKept'
        BY <1>2, <1>8, <2>2, <3>1, <3>6 DEF PanelKept
      <3> QED
        BY <3>4, <3>5, <3>7
    <2> QED
      BY <1>8, <2>1, <2>2 DEF ResultFits
  <1>9. NothingYet'
    <2>1. SUFFICES ASSUME since'.others = 0, ~since'.loaded, "half" \notin races' PROVE written' = since'.was
      BY DEF NothingYet
    <2>2. ~res.applied /\ ~since.loaded /\ "half" \notin races
      BY <1>2, <2>1
    <2> QED
      BY <1>2, <1>3, <2>1, <2>2 DEF SheetInv, NothingYet
  <1> QED
    BY <1>2, <1>4, <1>5, <1>6, <1>7, <1>8, <1>9 DEF SheetInv

LEMMA NoResultFits == ResultFits(H!NoResult) /\ ~H!NoResult.applied
  <1>1. H!NoFile \in Sheets
    BY DEF H!NoFile, Sheets
  <1> QED
    BY <1>1 DEF ResultFits, H!NoResult, Results

LEMMA OutcomeFits ==
    ASSUME SheetTypes, NEW applied \in BOOLEAN, applied => LoadErrors = {}
    PROVE  ResultFits(H!Outcome(applied)) /\ H!Outcome(applied).applied = applied
  <1>1. loading.rows \in Sheets
    BY SheetFields
  <1>2. H!Cardinality(H!Errors(loading.rows)) \in Nat /\ H!Cardinality(H!Planned(loading.rows)) \in Nat
    BY <1>1, CountsAreNumbers
  <1>3. H!Outcome(applied) \in Results
    BY <1>1, <1>2 DEF H!Outcome, Results
  <1> QED
    BY <1>3 DEF ResultFits, H!Outcome, LoadErrors

-----------------------------------------------------------------------------
\* The sheet and the panel.

LEMMA SheetBegins == ASSUME H!SheetInit PROVE SheetInv
  <1> USE DEF H!SheetInit
  <1>1. written \in Given /\ ofAssets \in Asides
    <2>1. PICK v \in H!Values(kind) \cup {H!Blank}, first \in H!Values(kind) \cup {H!Blank, "none"} :
            written = [site |-> H!Only(v, "none"), task |-> H!Only(first, "none")]
      OBVIOUS
    <2>2. PICK w \in H!Values(kind) \cup {H!Blank}, u \in H!Values(kind) \cup {H!Blank} :
            ofAssets = [site |-> H!Only(w, H!Blank), task |-> H!Only(u, H!Blank)]
      OBVIOUS
    <2>3. /\ H!Only(v, "none") \in [H!Numbers -> H!Values(kind) \cup {H!Blank, "none"}]
          /\ H!Only(first, "none") \in [H!Numbers -> H!Values(kind) \cup {H!Blank, "none"}]
          /\ H!Only(w, H!Blank) \in [H!Numbers -> H!Values(kind) \cup {H!Blank}]
          /\ H!Only(u, H!Blank) \in [H!Numbers -> H!Values(kind) \cup {H!Blank}]
      BY DEF H!Only
    <2>4. written \in Given
      BY <2>1, <2>3 DEF Given, Questions
    <2>5. ofAssets \in Asides
      BY <2>2, <2>3 DEF Asides, Questions
    <2> QED
      BY <2>4, <2>5
  <1>2. rows = H!NoFile /\ H!NoFile \in Sheets /\ DOMAIN H!NoFile = {}
    BY DEF H!NoFile, Sheets
  <1>3. panel = [file |-> H!NoFile, busy |-> "none", sends |-> 0, result |-> H!NoResult] /\ panel \in Panels
    BY <1>2, NoResultFits DEF Panels, ResultFits
  <1>4. loading \in Loads /\ loading.at = "idle" /\ loading.rows = H!NoFile
    BY <1>2 DEF Loads
  <1>5. since \in Pasts /\ since.was = written
    BY <1>1 DEF Pasts
  <1>6. SheetTypes /\ NoSheetYet
    BY <1>1, <1>2, <1>3, <1>4, <1>5 DEF SheetTypes, NoSheetYet
  <1>7. ShownErrors = {} /\ H!Cardinality({}) = 0
    BY <1>3, NothingShown, FS_EmptySet DEF H!NoResult, H!Cardinality, Cardinality
  <1>8. ~panel.result.applied /\ panel.result.rows = H!NoFile /\ panel.result.errors = 0 /\ panel.busy = "none"
    BY <1>3 DEF H!NoResult
  <1>9. PanelKept /\ AppliedIsLast /\ LoadedSoFar /\ WritesPlanned
    BY <1>4, <1>7, <1>8 DEF PanelKept, AppliedIsLast, LoadedSoFar, WritesPlanned
  <1>10. Unedited /\ H!RoundTrip /\ NothingYet
    BY <1>2, <1>3, <1>4, <1>5 DEF Unedited, CellsSay, H!RoundTrip, NothingYet
  <1> QED
    BY <1>6, <1>9, <1>10 DEF SheetInv

LEMMA ExportKeeps == ASSUME SheetInv, H!Export PROVE SheetInv'
  <1> USE DEF H!Export
  <1>1. SheetTypes /\ SameForm /\ UNCHANGED <<written, ofAssets, panel, loading, races>>
    BY DEF SheetInv, SameForm
  <1>2. rows' \in Sheets /\ rows' # H!NoFile /\ \A i \in DOMAIN rows' : TrueTo(rows'[i])
    BY <1>1, ExportFits
  <1>3. /\ since' \in Pasts /\ since'.was = written /\ since'.others = since.others
        /\ since'.edited = since.edited
    BY <1>1 DEF SheetTypes, Pasts
  <1>4. panel.file = H!NoFile /\ loading.rows = H!NoFile /\ DOMAIN H!NoFile = {}
    BY DEF SheetInv, NoSheetYet, H!NoFile
  <1>5. SheetTypes' /\ NoSheetYet'
    BY <1>1, <1>2, <1>3, TypesStay DEF SheetTypes, NoSheetYet
  <1>6. Unedited'
    BY <1>1, <1>2, <1>3, <1>4 DEF Unedited, CellsSay, TrueTo
  <1>7. WritesPlanned' /\ LoadedSoFar' /\ AppliedIsLast' /\ PanelKept'
    BY <1>1, <1>3, PanelFrame
  <1>8. H!RoundTrip' /\ NothingYet'
    BY <1>1, <1>3 DEF H!RoundTrip, NothingYet
  <1> QED
    BY <1>5, <1>6, <1>7, <1>8 DEF SheetInv

LEMMA EditKeeps == ASSUME SheetInv, H!Edit PROVE SheetInv'
  <1> USE DEF H!Edit
  <1>1. SheetTypes /\ SameForm /\ UNCHANGED <<written, ofAssets, panel, loading, races>>
    BY DEF SheetInv, SameForm
  <1>2. PICK i \in DOMAIN rows :
          \/ \E cell \in Cells : H!Fill(i, cell) \/ \E n \in H!Numbers : H!CopyRow(i, n, cell)
          \/ H!Misplace(i)
    BY DEF Cells
  <1>3. rows \in Sheets /\ rows[i] \in SheetRow /\ rows # H!NoFile
    BY <1>1 DEF SheetTypes, Sheets, H!NoFile
  <1>4. rows' \in Sheets /\ rows' # H!NoFile
    <2>1. ASSUME NEW cell \in Cells, H!Fill(i, cell) PROVE rows' \in Sheets /\ rows' # H!NoFile
      <3>1. [rows[i] EXCEPT !.cell = cell] \in SheetRow
        BY <1>3 DEF SheetRow
      <3>2. rows' = [rows EXCEPT ![i] = [rows[i] EXCEPT !.cell = cell]]
        BY <2>1 DEF H!Fill
      <3> QED
        BY <1>3, <3>1, <3>2 DEF Sheets, H!NoFile
    <2>2. ASSUME NEW cell \in Cells, NEW n \in H!Numbers, H!CopyRow(i, n, cell)
          PROVE  rows' \in Sheets /\ rows' # H!NoFile
      <3>1. [rows[i] EXCEPT !.n = n, !.cell = cell] \in SheetRow
        BY <1>3, <2>2 DEF SheetRow, H!CopyRow
      <3>2. rows' = Append(rows, [rows[i] EXCEPT !.n = n, !.cell = cell])
        BY <2>2 DEF H!CopyRow
      <3> QED
        BY <1>3, <3>1, <3>2 DEF Sheets, H!NoFile
    <2>3. ASSUME H!Misplace(i) PROVE rows' \in Sheets /\ rows' # H!NoFile
      <3>1. [rows[i] EXCEPT !.mine = FALSE] \in SheetRow
        BY <1>3 DEF SheetRow
      <3>2. rows' = [rows EXCEPT ![i] = [rows[i] EXCEPT !.mine = FALSE]]
        BY <2>3 DEF H!Misplace
      <3> QED
        BY <1>3, <3>1, <3>2 DEF Sheets, H!NoFile
    <2> QED
      BY <1>2, <2>1, <2>2, <2>3
  <1>5. /\ since' \in Pasts /\ since'.edited /\ since'.was = since.was /\ since'.others = since.others
        /\ since'.loaded = since.loaded
    BY <1>1 DEF SheetTypes, Pasts
  <1>6. SheetTypes' /\ NoSheetYet'
    BY <1>1, <1>4, <1>5, TypesStay DEF SheetTypes, NoSheetYet
  <1>7. WritesPlanned' /\ LoadedSoFar' /\ AppliedIsLast' /\ PanelKept'
    BY <1>1, <1>5, PanelFrame
  <1>8. Unedited' /\ H!RoundTrip' /\ NothingYet'
    BY <1>1, <1>3, <1>5 DEF Unedited, H!RoundTrip, NothingYet, SheetInv
  <1> QED
    BY <1>6, <1>7, <1>8 DEF SheetInv

LEMMA PickFileKeeps == ASSUME SheetInv, H!PickFile PROVE SheetInv'
  <1> USE DEF H!PickFile
  <1>1. SheetTypes /\ SameForm /\ UNCHANGED <<written, ofAssets, rows, loading, since>> /\ rows # H!NoFile
    BY DEF SheetInv, SameForm
  <1>2. /\ panel' \in Panels /\ panel'.file = rows /\ panel'.result = H!NoResult /\ panel'.busy = panel.busy
    BY <1>1, NoResultFits DEF SheetTypes, Panels, ResultFits
  <1>3. SheetTypes' /\ NoSheetYet'
    BY <1>1, <1>2, TypesStay DEF SheetTypes, NoSheetYet
  <1>4. Unedited' /\ H!RoundTrip' /\ NothingYet'
    <2>1. Unedited'
      BY <1>1, <1>2 DEF Unedited, CellsSay, SheetInv
    <2>2. H!RoundTrip'
      BY <1>1 DEF H!RoundTrip, SheetInv
    <2>3. NothingYet'
      BY <1>1 DEF NothingYet, SheetInv
    <2> QED
      BY <2>1, <2>2, <2>3
  <1>5. WritesPlanned' /\ LoadWritten' = LoadWritten
    BY <1>1, LoadFrame DEF SheetInv
  <1>6. panel'.result.rows = H!NoFile /\ ~panel'.result.applied /\ panel'.result.errors = 0
    BY <1>2 DEF H!NoResult
  <1>7. ShownErrors' = {} /\ H!Cardinality({}) = 0
    BY <1>6, NothingShownNext, FS_EmptySet DEF H!Cardinality, Cardinality
  <1>8. LoadedSoFar' /\ AppliedIsLast'
    BY <1>1, <1>5, <1>6 DEF LoadedSoFar, AppliedIsLast, SheetInv
  <1>9. PanelKept'
    BY <1>1, <1>2, <1>6, <1>7 DEF PanelKept, SheetInv
  <1> QED
    BY <1>3, <1>4, <1>5, <1>8, <1>9 DEF SheetInv

LEMMA SendKeeps == ASSUME SheetInv, NEW dry \in BOOLEAN, H!Send(dry) PROVE SheetInv'
  <1> USE DEF H!Send
  <1>1. SheetTypes /\ SameForm /\ UNCHANGED <<written, ofAssets, rows, since, races>>
    BY DEF SheetInv, SameForm
  <1>2. /\ panel' \in Panels /\ panel'.file = panel.file /\ panel'.result = panel.result
        /\ panel'.busy = IF dry THEN "check" ELSE "load"
    <2>1. PICK b \in {"check", "load"} :
            b = (IF dry THEN "check" ELSE "load") /\ panel' = [panel EXCEPT !.busy = b, !.sends = @ + 1]
      OBVIOUS
    <2>2. panel.sends + 1 \in Nat
      BY <1>1, SheetFields
    <2> QED
      BY <1>1, <2>1, <2>2 DEF SheetTypes, Panels
  <1>3. /\ loading' \in Loads /\ loading'.at = "check" /\ loading'.rows = panel.file /\ loading'.dry = dry
    BY <1>1, SheetFields DEF Loads
  <1>4. rows # H!NoFile /\ loading.at = "idle"
    BY <1>1, SheetFields DEF SheetInv, NoSheetYet, PanelKept
  <1>5. SheetTypes' /\ NoSheetYet'
    BY <1>1, <1>2, <1>3, <1>4, TypesStay DEF SheetTypes, NoSheetYet
  <1>6. Unedited' /\ H!RoundTrip' /\ NothingYet' /\ WritesPlanned'
    <2>1. Unedited'
      BY <1>1, <1>2, <1>3 DEF Unedited, CellsSay, SheetInv
    <2>2. H!RoundTrip'
      BY <1>1 DEF H!RoundTrip, SheetInv
    <2>3. NothingYet' /\ WritesPlanned'
      BY <1>1, <1>3, <1>4 DEF NothingYet, WritesPlanned, SheetInv
    <2> QED
      BY <2>1, <2>2, <2>3
  <1>7. ShownWritten' = ShownWritten /\ ShownErrors' = ShownErrors
    BY <1>1, <1>2, ShownFrame
  <1>8. LoadedSoFar' /\ AppliedIsLast'
    BY <1>1, <1>2, <1>3, <1>7 DEF LoadedSoFar, AppliedIsLast, SheetInv, H!MayLoad
  <1>9. PanelKept'
    BY <1>1, <1>2, <1>3, <1>7 DEF PanelKept, SheetInv, H!MayLoad
  <1> QED
    BY <1>5, <1>6, <1>8, <1>9 DEF SheetInv

-----------------------------------------------------------------------------
\* The load.

LEMMA LoadPlanFacts ==
    ASSUME SheetTypes
    PROVE  /\ LoadPlan \subseteq DOMAIN loading.rows /\ LoadPlan \subseteq Nat
           /\ \A i \in LoadPlan :
                /\ loading.rows[i] \in SheetRow /\ loading.rows[i].cell # H!Blank
                /\ loading.rows[i].q \in Questions /\ loading.rows[i].n \in H!Numbers
                /\ H!ParseAnswerCell(loading.rows[i].cell) \in H!Values(kind)
           /\ \A i, j \in LoadPlan :
                i # j => loading.rows[i].q # loading.rows[j].q \/ loading.rows[i].n # loading.rows[j].n
  <1>1. loading.rows \in Sheets
    BY SheetFields
  <1>2. /\ LoadPlan \subseteq DOMAIN loading.rows
        /\ \A i \in LoadPlan : H!Readable(loading.rows[i])
        /\ \A i, j \in LoadPlan : i # j => ~H!SameQuestion(loading.rows[i], loading.rows[j])
    BY <1>1, PlanFacts DEF LoadPlan
  <1>3. \A i \in DOMAIN loading.rows : i \in Nat /\ loading.rows[i] \in SheetRow
    BY <1>1 DEF Sheets
  <1> QED
    BY <1>2, <1>3, ParsedFits DEF H!SameQuestion

\* Where nothing was edited, an answer survives its cell and has none about an asset
\* beside it, what its row would write is there.
LEMMA UneditedRow ==
    ASSUME SheetInv, ~since.edited, since.others = 0, NEW i \in LoadPlan,
           since.was[loading.rows[i].q][loading.rows[i].n] \in H!Exact \cup {"none"},
           ofAssets[loading.rows[i].q][loading.rows[i].n] = H!Blank
    PROVE  /\ written[loading.rows[i].q][loading.rows[i].n] = H!ParseAnswerCell(loading.rows[i].cell)
           /\ loading.rows[i].q = "task" => loading.rows[i].n \in H!Responses
  <1> DEFINE q == loading.rows[i].q
             n == loading.rows[i].n
  <1>1. /\ i \in DOMAIN loading.rows /\ loading.rows[i] \in SheetRow /\ loading.rows[i].cell # H!Blank
        /\ q \in Questions /\ n \in H!Numbers /\ (q = "site" => n = 1)
    BY LoadPlanFacts DEF SheetInv, SheetRow
  <1>2. since.was[q][n] \notin {H!Blank, "none"} /\ loading.rows[i].cell = H!FormatAnswerCell(since.was[q][n])
    BY <1>1 DEF SheetInv, Unedited, CellsSay
  <1>3. since.was[q][n] \in H!Exact
    BY <1>2
  <1>4. H!ParseAnswerCell(loading.rows[i].cell) = since.was[q][n]
    BY <1>2, <1>3, ExactReadsBack
  <1>5. written[q][n] = since.was[q][n]
    <2>1. [q |-> q, n |-> n] \in H!Places
      BY <1>1 DEF H!Places, Questions, H!Numbers
    <2>2. [q |-> q, n |-> n].q = q /\ [q |-> q, n |-> n].n = n
      OBVIOUS
    <2> HIDE DEF q, n
    <2>3. since.was[q][n] \in H!Exact \cup {"none"} /\ ofAssets[q][n] = H!Blank
      BY <1>3 DEF q, n
    <2> QED
      BY <2>1, <2>2, <2>3 DEF SheetInv, H!RoundTrip
  <1> QED
    BY <1>1, <1>2, <1>4, <1>5 DEF H!Responses

\* A sheet stays true to its export where only an answer it repeats is written.
LEMMA RoundTripStays ==
    ASSUME SheetInv, ofAssets' = ofAssets, since'.was = since.was, since'.edited = since.edited,
           since'.others = since.others,
           ~since.edited /\ since.others = 0 =>
             \A p \in H!Places : since.was[p.q][p.n] \in H!Exact \cup {"none"} /\ ofAssets[p.q][p.n] = H!Blank =>
                 written'[p.q][p.n] = written[p.q][p.n]
    PROVE  H!RoundTrip'
  <1>1. SUFFICES ASSUME ~since.edited, since.others = 0, NEW p \in H!Places,
                        since.was[p.q][p.n] \in H!Exact \cup {"none"}, ofAssets[p.q][p.n] = H!Blank
                 PROVE  written'[p.q][p.n] = since.was[p.q][p.n]
    BY DEF H!RoundTrip
  <1>2. written[p.q][p.n] = since.was[p.q][p.n]
    BY <1>1 DEF SheetInv, H!RoundTrip
  <1> QED
    BY <1>1, <1>2

\* A load that is cut off, or refused, has told nobody it was done.
LEMMA GivesUpKeeps ==
    ASSUME SheetInv, loading.at # "idle", SameForm, UNCHANGED <<rows, written, ofAssets>>, H!Answered(H!NoResult),
           races' = races \cup {"half"} \/ (races' = races /\ loading.at = "check")
    PROVE  SheetInv'
  <1>1. written' \in Given /\ races' \in {races, races \cup {"half"}}
    BY DEF SheetInv, SheetTypes
  <1>2. ResultFits(H!NoResult) /\ ~H!NoResult.applied
    BY NoResultFits
  <1>3. since'.was = since.was /\ since'.edited = since.edited /\ since'.others = since.others
    BY <1>2, AnsweredMoves DEF ResultFits, SheetInv
  <1>4. H!RoundTrip'
    BY <1>3, RoundTripStays
  <1> QED
    BY <1>1, <1>2, <1>4, AnsweredKeeps

LEMMA BreakOffSheetKeeps == ASSUME SheetInv, H!BreakOffSheet PROVE SheetInv'
  <1>1. /\ loading.at # "idle" /\ SameForm /\ UNCHANGED <<rows, written, ofAssets>> /\ H!Answered(H!NoResult)
        /\ races' = races \cup {"half"} \/ (races' = races /\ loading.at = "check")
    BY SheetFields DEF H!BreakOffSheet, SameForm, SheetInv
  <1> QED
    BY <1>1, GivesUpKeeps

LEMMA CheckKeeps == ASSUME SheetInv, H!Check PROVE SheetInv'
  <1>1. /\ loading.at = "check" /\ SameForm /\ UNCHANGED <<rows, written, ofAssets, races>> /\ SheetTypes
    BY DEF H!Check, SameForm, SheetInv
  <1>2. CASE H!Answered(H!NoResult)
    BY <1>1, <1>2, GivesUpKeeps
  <1>3. CASE H!Answered(H!Outcome(FALSE))
    <2>1. ResultFits(H!Outcome(FALSE)) /\ ~H!Outcome(FALSE).applied
      BY <1>1, <1>3, OutcomeFits
    <2>2. /\ since'.was = since.was /\ since'.edited = since.edited /\ since'.others = since.others
          /\ loading'.rows = loading.rows
      BY <1>1, <1>3, <2>1, AnsweredMoves DEF ResultFits
    <2>3. H!RoundTrip'
      BY <1>1, <2>2, RoundTripStays
    <2>4. written' \in Given /\ races' \in {races, races \cup {"half"}}
      BY <1>1 DEF SheetTypes
    <2> QED
      BY <1>1, <1>3, <2>1, <2>3, <2>4, AnsweredKeeps
  <1>4. CASE /\ ~loading.dry /\ LoadErrors = {}
             /\ loading' = [loading EXCEPT !.at = "write", !.open = H!OfTasks(loading.rows), !.save = LoadPlan]
             /\ UNCHANGED <<panel, since>>
    <2>1. LoadPlan \subseteq Nat /\ H!OfTasks(loading.rows) \subseteq LoadPlan
      BY <1>1, LoadPlanFacts DEF H!OfTasks, LoadPlan
    <2>2. H!OfTasks(loading.rows) \subseteq Nat
      BY <2>1
    <2>3. /\ loading' \in Loads /\ loading'.at = "write" /\ loading'.rows = loading.rows
          /\ loading'.dry = loading.dry /\ loading'.save = LoadPlan /\ loading'.open = H!OfTasks(loading.rows)
      BY <1>1, <1>4, <2>1, <2>2 DEF SheetTypes, Loads
    <2>4. LoadPlan' = LoadPlan /\ LoadErrors' = LoadErrors
      BY <1>1, <2>3, LoadPlanStays
    <2>5. rows # H!NoFile
      BY <1>1 DEF SheetInv, NoSheetYet
    <2>6. SheetTypes' /\ NoSheetYet'
      BY <1>1, <1>4, <2>3, <2>5, TypesStay DEF SheetTypes, NoSheetYet
    <2>7. Unedited' /\ H!RoundTrip' /\ NothingYet'
      <3>1. Unedited'
        BY <1>1, <1>4, <2>3 DEF SheetInv, Unedited, CellsSay
      <3>2. H!RoundTrip'
        BY <1>1, <1>4, RoundTripStays
      <3>3. NothingYet'
        BY <2>3 DEF NothingYet
      <3> QED
        BY <3>1, <3>2, <3>3
    <2>8. WritesPlanned'
      BY <1>4, <2>1, <2>3, <2>4 DEF WritesPlanned, H!OfTasks
    <2>9. ~panel.result.applied
      BY <1>1, <1>4 DEF SheetInv, AppliedIsLast
    <2>10. LoadedSoFar' /\ AppliedIsLast'
      BY <1>4, <2>3, <2>4, <2>9 DEF LoadedSoFar, AppliedIsLast, LoadWritten
    <2>11. ShownErrors' = ShownErrors
      BY <1>1, <1>4, ShownFrame
    <2>12. PanelKept'
      BY <1>1, <1>4, <2>3, <2>11 DEF SheetInv, PanelKept
    <2> QED
      BY <2>6, <2>7, <2>8, <2>10, <2>12 DEF SheetInv
  <1> QED
    BY <1>2, <1>3, <1>4 DEF H!Check, LoadPlan, LoadErrors

\* A load gives up only where somebody locked the assessment.
LEMMA GiveUpKeeps ==
    ASSUME SheetInv, loading.at = "write", SameForm, UNCHANGED <<rows, ofAssets>>, H!GiveUp PROVE SheetInv'
  BY GivesUpKeeps DEF H!GiveUp

LEMMA WritingFacts ==
    ASSUME SheetInv, loading.at = "write"
    PROVE  /\ SheetTypes /\ ~panel.result.applied /\ ~loading.dry /\ rows # H!NoFile /\ LoadErrors = {}
           /\ loading.save \subseteq LoadPlan /\ loading.open \subseteq LoadPlan
           /\ loading.save \subseteq Nat /\ loading.open \subseteq Nat
  BY SheetFields DEF SheetInv, WritesPlanned, AppliedIsLast, NoSheetYet

LEMMA OpenResponseKeeps == ASSUME SheetInv, H!OpenResponse PROVE SheetInv'
  <1>1. /\ loading.at = "write" /\ loading.open # {} /\ SameForm /\ UNCHANGED <<rows, ofAssets>>
    BY DEF H!OpenResponse, SameForm
  <1>2. /\ SheetTypes /\ ~panel.result.applied /\ rows # H!NoFile
        /\ loading.open \subseteq LoadPlan /\ loading.open \subseteq Nat
    BY <1>1, WritingFacts
  <1>3. PICK i \in loading.open : i = H!First(loading.open)
    BY <1>1, <1>2, FirstIsOneOfThem
  <1> DEFINE n == loading.rows[i].n
  <1>4. loading.rows[i].q = "task" /\ n \in H!Numbers /\ i \in LoadPlan
    BY <1>1, <1>2, <1>3, LoadPlanFacts DEF SheetInv, WritesPlanned
  <1>5. CASE H!GiveUp
    BY <1>1, <1>5, GiveUpKeeps
  <1>6. CASE /\ written' = IF n \in H!Responses THEN written ELSE [written EXCEPT !.task[n] = H!Blank]
             /\ loading' = [loading EXCEPT !.open = @ \ {i}]
             /\ UNCHANGED <<panel, since, races>>
    <2>1. written' \in Given
      <3>1. CASE n \in H!Responses
        BY <1>2, <1>6, <3>1 DEF SheetTypes
      <3>2. CASE n \notin H!Responses
        <4>1. written' = [written EXCEPT !["task"][n] = H!Blank] /\ "task" \in Questions /\ written \in Given
          BY <1>2, <1>6, <3>2 DEF Questions, SheetTypes
        <4> QED
          BY <1>4, <4>1, OneIsWritten
      <3> QED
        BY <3>1, <3>2
    <2>2. /\ loading' \in Loads /\ loading'.at = "write" /\ loading'.rows = loading.rows
          /\ loading'.dry = loading.dry /\ loading'.save = loading.save /\ loading'.open = loading.open \ {i}
      BY <1>1, <1>2, <1>6 DEF SheetTypes, Loads
    <2>3. LoadPlan' = LoadPlan /\ LoadErrors' = LoadErrors
      BY <1>1, <2>2, LoadPlanStays
    <2>4. SheetTypes' /\ NoSheetYet'
      BY <1>1, <1>2, <1>6, <2>1, <2>2, TypesStay DEF SheetTypes, NoSheetYet
    <2>5. Unedited' /\ NothingYet'
      BY <1>1, <1>6, <2>2 DEF SheetInv, Unedited, CellsSay, NothingYet
    <2>6. H!RoundTrip'
      <3>1. SUFFICES ASSUME ~since.edited, since.others = 0, NEW p \in H!Places,
                            since.was[p.q][p.n] \in H!Exact \cup {"none"}, ofAssets[p.q][p.n] = H!Blank
                     PROVE  written'[p.q][p.n] = written[p.q][p.n]
        BY <1>1, <1>6, RoundTripStays
      <3>2. CASE n \in H!Responses
        BY <1>6, <3>2
      <3>3. CASE n \notin H!Responses /\ p.q = "task" /\ p.n = n
        BY <1>4, <3>1, <3>3, UneditedRow
      <3>4. CASE n \notin H!Responses /\ ~(p.q = "task" /\ p.n = n)
        <4>1. written' = [written EXCEPT !["task"][n] = H!Blank] /\ "task" \in Questions /\ written \in Given
          BY <1>2, <1>6, <3>4 DEF Questions, SheetTypes
        <4>2. p.q \in Questions /\ p.n \in H!Numbers
          BY DEF H!Places, Questions, H!Numbers
        <4>3. H!Blank \in H!Values(kind) \cup {H!Blank, "none"}
          OBVIOUS
        <4> HIDE DEF n
        <4> QED
          BY <1>4, <3>4, <4>1, <4>2, <4>3, OneIsWritten
      <3> QED
        BY <3>2, <3>3, <3>4
    <2>7. WritesPlanned'
      BY <1>1, <2>2, <2>3 DEF SheetInv, WritesPlanned
    <2>8. LoadedSoFar'
      BY <1>1, <1>2, <1>6, <2>2, <2>3 DEF SheetInv, WritesPlanned, LoadedSoFar, LoadWritten
    <2>9. ShownErrors' = ShownErrors
      BY <1>1, <1>6, ShownPlanStays
    <2>10. AppliedIsLast' /\ PanelKept'
      BY <1>1, <1>2, <1>6, <2>2, <2>9 DEF SheetInv, AppliedIsLast, PanelKept
    <2> QED
      BY <2>4, <2>5, <2>6, <2>7, <2>8, <2>10 DEF SheetInv
  <1> QED
    BY <1>1, <1>3, <1>5, <1>6 DEF H!OpenResponse

LEMMA SaveAnswerKeeps == ASSUME SheetInv, H!SaveAnswer PROVE SheetInv'
  <1>1. /\ loading.at = "write" /\ loading.open = {} /\ loading.save # {}
        /\ SameForm /\ UNCHANGED <<rows, ofAssets>>
    BY DEF H!SaveAnswer, SameForm
  <1>2. /\ SheetTypes /\ ~panel.result.applied /\ rows # H!NoFile /\ LoadErrors = {}
        /\ loading.save \subseteq LoadPlan /\ loading.save \subseteq Nat
    BY <1>1, WritingFacts
  <1>3. PICK i \in loading.save : i = H!First(loading.save)
    BY <1>1, <1>2, FirstIsOneOfThem
  <1> DEFINE q == loading.rows[i].q
             n == loading.rows[i].n
             v == H!ParseAnswerCell(loading.rows[i].cell)
  <1>4. i \in LoadPlan /\ q \in Questions /\ n \in H!Numbers /\ v \in H!Values(kind)
    BY <1>2, <1>3, LoadPlanFacts
  <1>5. CASE H!GiveUp
    BY <1>1, <1>5, GiveUpKeeps
  <1>6. ASSUME written' = [written EXCEPT ![q][n] = v], loading' = [loading EXCEPT !.save = @ \ {i}],
               UNCHANGED <<panel, since, races>>
        PROVE  SheetInv'
    <2>1. /\ written' \in Given /\ written'[q][n] = v
          /\ \A p \in Questions, k \in H!Numbers : p # q \/ k # n => written'[p][k] = written[p][k]
          /\ written[q][n] = v => written' = written
      <3>1. written \in Given /\ v \in H!Values(kind) \cup {H!Blank, "none"}
        BY <1>2, <1>4 DEF SheetTypes
      <3>2. written' = [written EXCEPT ![q][n] = v] /\ q \in Questions /\ n \in H!Numbers
        BY <1>4, <1>6
      <3> HIDE DEF q, n, v
      <3>3. written' \in Given /\ written'[q][n] = v
        BY ONLY <3>1, <3>2 DEF Given
      <3>4. \A p \in Questions, k \in H!Numbers : p # q \/ k # n => written'[p][k] = written[p][k]
        BY ONLY <3>1, <3>2 DEF Given
      <3>5. written[q][n] = v => written' = written
        <4>1. SUFFICES ASSUME written[q][n] = v PROVE written' = written
          OBVIOUS
        <4>2. [written[q] EXCEPT ![n] = v] = written[q]
          BY ONLY <3>1, <3>2, <4>1 DEF Given
        <4>3. [written EXCEPT ![q] = written[q]] = written
          BY ONLY <3>1, <3>2 DEF Given
        <4> QED
          BY <3>2, <4>2, <4>3
      <3> QED
        BY <3>3, <3>4, <3>5
    <2>2. /\ loading' \in Loads /\ loading'.at = "write" /\ loading'.rows = loading.rows
          /\ loading'.dry = loading.dry /\ loading'.save = loading.save \ {i} /\ loading'.open = {}
      BY <1>1, <1>2, <1>6 DEF SheetTypes, Loads
    <2>3. LoadPlan' = LoadPlan /\ LoadErrors' = LoadErrors
      BY <1>1, <2>2, LoadPlanStays
    <2>4. H!RoundTrip'
      <3>1. SUFFICES ASSUME ~since.edited, since.others = 0, NEW p \in H!Places,
                            since.was[p.q][p.n] \in H!Exact \cup {"none"}, ofAssets[p.q][p.n] = H!Blank
                     PROVE  written'[p.q][p.n] = written[p.q][p.n]
        BY <1>1, <1>6, RoundTripStays
      <3>2. p.q \in Questions /\ p.n \in H!Numbers
        BY DEF H!Places, Questions, H!Numbers
      <3>3. CASE p.q = q /\ p.n = n
        BY <1>4, <2>1, <3>1, <3>3, UneditedRow
      <3>4. CASE p.q # q \/ p.n # n
        BY <2>1, <3>2, <3>4
      <3> QED
        BY <3>3, <3>4
    <2>5. ASSUME since.others = 0, NEW j \in LoadPlan, j \in LoadPlan \ (loading.save \ {i})
          PROVE  IsWritten(loading.rows[j])'
      <3>1. IsWritten(loading.rows[j])' <=>
              written'[loading.rows[j].q][loading.rows[j].n] = H!ParseAnswerCell(loading.rows[j].cell)
        BY <1>1, <2>2 DEF IsWritten, SameForm, H!ParseAnswerCell
      <3>2. CASE j = i
        BY <2>1, <3>1, <3>2
      <3>3. CASE j # i
        <4>1. written[loading.rows[j].q][loading.rows[j].n] = H!ParseAnswerCell(loading.rows[j].cell)
          BY <1>1, <2>5, <3>3 DEF SheetInv, LoadedSoFar, LoadWritten, IsWritten
        <4>2. /\ loading.rows[j].q \in Questions /\ loading.rows[j].n \in H!Numbers
              /\ loading.rows[j].q # q \/ loading.rows[j].n # n
          BY <1>2, <1>4, <3>3, LoadPlanFacts
        <4> QED
          BY <2>1, <3>1, <4>1, <4>2
      <3> QED
        BY <3>2, <3>3
    <2>6. SheetTypes' /\ NoSheetYet'
      BY <1>1, <1>2, <1>6, <2>1, <2>2, TypesStay DEF SheetTypes, NoSheetYet
    <2>7. Unedited' /\ NothingYet'
      <3>1. Unedited'
        BY <1>1, <1>6, <2>2 DEF SheetInv, Unedited, CellsSay
      <3>2. NothingYet'
        BY <2>2 DEF NothingYet
      <3> QED
        BY <3>1, <3>2
    <2>8. WritesPlanned'
      BY <1>1, <1>2, <2>2, <2>3 DEF SheetInv, WritesPlanned
    <2>9. since.others = 0 => LoadWritten'
      BY <2>2, <2>3, <2>5 DEF LoadWritten
    <2>10. LoadedSoFar'
      BY <1>2, <1>6, <2>9 DEF LoadedSoFar
    <2>11. ShownErrors' = ShownErrors
      BY <1>1, <1>6, ShownPlanStays
    <2>12. AppliedIsLast' /\ PanelKept'
      BY <1>1, <1>2, <1>6, <2>2, <2>11 DEF SheetInv, AppliedIsLast, PanelKept
    <2> QED
      BY <2>4, <2>6, <2>7, <2>8, <2>10, <2>12 DEF SheetInv
  <1> QED
    BY <1>1, <1>3, <1>5, <1>6 DEF H!SaveAnswer

LEMMA LogImportKeeps == ASSUME SheetInv, H!LogImport PROVE SheetInv'
  <1>1. /\ loading.at = "write" /\ loading.save = {} /\ SameForm
        /\ UNCHANGED <<written, ofAssets, rows, races>> /\ H!Answered(H!Outcome(TRUE))
    BY DEF H!LogImport, SameForm
  <1>2. SheetTypes /\ ~panel.result.applied /\ LoadErrors = {}
    BY <1>1, WritingFacts
  <1>3. ResultFits(H!Outcome(TRUE)) /\ H!Outcome(TRUE).applied
    BY <1>2, OutcomeFits
  <1>4. /\ since'.was = since.was /\ since'.edited = since.edited /\ since'.others = since.others
        /\ loading'.rows = loading.rows
    BY <1>1, <1>2, <1>3, AnsweredMoves DEF ResultFits
  <1>5. H!RoundTrip'
    BY <1>1, <1>4, RoundTripStays
  <1>6. LoadPlan' = LoadPlan
    BY <1>1, <1>4, LoadPlanStays
  <1>7. since.others = 0 => AllWritten'
    BY <1>1, <1>4, <1>6 DEF SheetInv, LoadedSoFar, LoadWritten, AllWritten, IsWritten, SameForm, H!ParseAnswerCell
  <1>8. written' \in Given /\ races' \in {races, races \cup {"half"}}
    BY <1>1, <1>2 DEF SheetTypes
  <1> QED
    BY <1>1, <1>2, <1>3, <1>5, <1>7, <1>8, AnsweredKeeps

LEMMA AnswerInAppKeeps == ASSUME SheetInv, H!AnswerInApp PROVE SheetInv'
  <1>1. SheetTypes /\ written \in Given
    BY DEF SheetInv, SheetTypes
  <1>2. /\ written' \in Given /\ ofAssets' \in Asides
        /\ SameForm /\ UNCHANGED <<rows, panel, loading, races>> /\ since' = [since EXCEPT !.others = @ + 1]
    <2>1. ASSUME NEW q \in Questions, NEW n \in H!Numbers, NEW v \in H!Values(kind) \cup {H!Blank, "none"}
          PROVE  [written EXCEPT ![q][n] = v] \in Given
      BY <1>1 DEF Given
    <2>2. ASSUME NEW q \in Questions, NEW n \in H!Numbers, NEW v \in H!Values(kind) \cup {H!Blank}
          PROVE  [ofAssets EXCEPT ![q][n] = v] \in Asides
      BY <1>1 DEF SheetTypes, Asides
    <2>3. /\ 1 \in H!Numbers /\ H!Responses \subseteq H!Numbers /\ "site" \in Questions /\ "task" \in Questions
          /\ \A n \in H!Numbers : written["task"][n] \in H!Values(kind) \cup {H!Blank, "none"}
      BY <1>1 DEF H!Numbers, H!Responses, Questions, Given
    <2>4. PICK next \in Given, nextOfAssets \in Asides : H!Others(next, nextOfAssets)
      <3>1. written \in Given /\ ofAssets \in Asides
        BY <1>1 DEF SheetTypes
      <3>2. CASE \E v \in H!Values(kind) \cap Typed : H!Others([written EXCEPT !.site[1] = v], ofAssets)
        BY <2>1, <2>3, <3>1, <3>2
      <3>3. CASE \E v \in H!Values(kind) \cap Typed : H!Others(written, [ofAssets EXCEPT !.site[1] = v])
        BY <2>2, <2>3, <3>1, <3>3
      <3>4. CASE \E v \in H!Values(kind) \cap Typed, n \in H!Responses \cup {1} :
                   H!Others([written EXCEPT !.task[n] = v], ofAssets)
        BY <2>1, <2>3, <3>1, <3>4
      <3>5. CASE \E v \in H!Values(kind) \cap Typed, n \in H!Responses \cup {1} :
                   H!Others([written EXCEPT !.task[n] = IF @ = "none" THEN H!Blank ELSE @],
                            [ofAssets EXCEPT !.task[n] = v])
        <4>1. PICK v \in H!Values(kind) \cap Typed, n \in H!Responses \cup {1} :
                   H!Others([written EXCEPT !.task[n] = IF @ = "none" THEN H!Blank ELSE @],
                            [ofAssets EXCEPT !.task[n] = v])
          BY <3>5
        <4>2. PICK w \in H!Values(kind) \cup {H!Blank, "none"} :
                w = IF written["task"][n] = "none" THEN H!Blank ELSE written["task"][n]
          BY <2>3
        <4>3. [written EXCEPT !.task[n] = IF @ = "none" THEN H!Blank ELSE @] = [written EXCEPT !["task"][n] = w]
          BY <4>2, <2>3, <3>1 DEF Given
        <4> QED
          BY <2>1, <2>2, <2>3, <4>1, <4>3
      <3>6. CASE \E n \in H!Responses :
                   H!Others([written EXCEPT !.task[n] = "none"], [ofAssets EXCEPT !.task[n] = H!Blank])
        BY <2>1, <2>2, <2>3, <3>6
      <3> QED
        BY <3>2, <3>3, <3>4, <3>5, <3>6 DEF H!AnswerInApp
    <2> QED
      BY <2>4 DEF H!Others, SameForm
  <1>3. since' \in Pasts /\ since'.others = since.others + 1 /\ since'.was = since.was /\ since'.edited = since.edited
    BY <1>1, <1>2 DEF SheetTypes, Pasts
  <1>4. since'.others # 0
    BY <1>1, <1>3, SheetFields
  <1>5. SheetTypes' /\ NoSheetYet'
    BY <1>1, <1>2, <1>3, TypesStay DEF SheetInv, SheetTypes, NoSheetYet
  <1>6. Unedited' /\ H!RoundTrip' /\ NothingYet' /\ LoadedSoFar'
    BY <1>2, <1>3, <1>4 DEF SheetInv, Unedited, CellsSay, H!RoundTrip, NothingYet, LoadedSoFar
  <1>7. LoadPlan' = LoadPlan /\ LoadErrors' = LoadErrors /\ ShownErrors' = ShownErrors
    BY <1>2, LoadPlanStays, ShownPlanStays
  <1>8. WritesPlanned' /\ AppliedIsLast' /\ PanelKept'
    BY <1>2, <1>7 DEF SheetInv, WritesPlanned, AppliedIsLast, PanelKept
  <1> QED
    BY <1>5, <1>6, <1>8 DEF SheetInv

LEMMA SheetStays ==
    ASSUME SheetInv, SameForm, UNCHANGED <<written, ofAssets, rows, panel, loading, since, races>>
    PROVE  SheetInv'
  <1>1. SheetTypes' /\ NoSheetYet'
    BY TypesStay DEF SheetInv, SheetTypes, NoSheetYet
  <1>2. WritesPlanned' /\ LoadedSoFar' /\ AppliedIsLast' /\ PanelKept'
    BY PanelFrame
  <1>3. Unedited' /\ H!RoundTrip' /\ NothingYet'
    BY DEF SheetInv, Unedited, CellsSay, H!RoundTrip, NothingYet
  <1> QED
    BY <1>1, <1>2, <1>3 DEF SheetInv

LEMMA SheetInvStep == ASSUME SheetInv, [H!SheetNext]_sheet PROVE SheetInv'
  <1>1. CASE H!Export \/ H!Edit \/ H!PickFile \/ \E dry \in BOOLEAN : H!Send(dry)
    BY <1>1, ExportKeeps, EditKeeps, PickFileKeeps, SendKeeps
  <1>2. CASE H!Check \/ H!OpenResponse \/ H!SaveAnswer \/ H!LogImport \/ H!BreakOffSheet
    BY <1>2, CheckKeeps, OpenResponseKeeps, SaveAnswerKeeps, LogImportKeeps, BreakOffSheetKeeps
  <1>3. CASE H!AnswerInApp
    BY <1>3, AnswerInAppKeeps
  <1>4. CASE H!Lock \/ UNCHANGED sheet
    BY <1>4, SheetStays DEF H!Lock, sheet, SameForm
  <1> QED
    BY <1>1, <1>2, <1>3, <1>4 DEF H!SheetNext

\* What the invariant says of the properties.
LEMMA SheetInvTells ==
    ASSUME SheetInv PROVE H!SheetTypeOK /\ H!RoundTrip /\ H!LoadedIsWhole /\ H!LoadIsChecked
  <1>1. H!SheetTypeOK
    <2>1. \A p \in H!Places : p.q \in Questions /\ p.n \in H!Numbers
      BY DEF H!Places, Questions, H!Numbers
    <2>2. \A p \in H!Places : /\ written[p.q][p.n] \in H!Values(kind) \cup {H!Blank, "none"}
                              /\ ofAssets[p.q][p.n] \in H!Values(kind) \cup {H!Blank}
      BY <2>1 DEF SheetInv, SheetTypes, Given, Asides
    <2> QED
      BY <2>2, SheetFields DEF SheetInv, SheetTypes, H!SheetTypeOK
  <1>2. H!LoadedIsWhole
    <2>1. SUFFICES ASSUME since.others = 0, panel.result.applied, NEW i \in DOMAIN panel.result.rows,
                          panel.result.rows[i].mine, panel.result.rows[i].cell # H!Blank, kind # "photo"
                   PROVE  written[panel.result.rows[i].q]
                                 [IF panel.result.rows[i].q = "site" THEN 1 ELSE panel.result.rows[i].n]
                            = H!ParseAnswerCell(panel.result.rows[i].cell)
      BY DEF H!LoadedIsWhole, SheetInv, NothingYet
    <2>2. panel.result.rows \in Sheets
      BY SheetFields DEF SheetInv
    <2>3. panel.result.rows[i] \in SheetRow
      BY <2>2 DEF Sheets
    <2>4. i \in ShownPlan
      BY <2>1, <2>2, PlanFacts DEF SheetInv, AppliedIsLast, ShownErrors, ShownPlan
    <2>5. IsWritten(panel.result.rows[i])
      BY <2>1, <2>4 DEF SheetInv, LoadedSoFar, ShownWritten
    <2> QED
      BY <2>3, <2>5 DEF IsWritten, SheetRow
  <1>3. H!LoadIsChecked
    <2>1. SUFFICES ASSUME panel.busy = "load", "file" \notin races
                   PROVE  panel.result.rows = loading.rows /\ H!Errors(loading.rows) = {}
      BY DEF H!LoadIsChecked
    <2>2. panel.result.rows = loading.rows /\ H!Cardinality(ShownErrors) = 0
      BY <2>1 DEF SheetInv, PanelKept
    <2>3. loading.rows \in Sheets
      BY SheetFields DEF SheetInv
    <2> QED
      BY <2>2, <2>3, NoErrors DEF ShownErrors
  <1> QED
    BY <1>1, <1>2, <1>3 DEF SheetInv

-----------------------------------------------------------------------------
(* The page an assessment is answered on.                                   *)

Shelf == [note : Answers, number : Answers, choice : Answers, labels : SUBSET Labels]

\* A save carries the field it is of, and the number beside a note.
NoteSave == [field : {"note"}, value : [note : Answers, number : Answers],
             at : {"sent", "stored", "refused", "done"}]
ChoiceSave == [field : {"choice"}, value : [choice : Answers], at : {"sent", "stored", "refused", "done"}]
LabelSave == [field : {"labels"}, value : [labels : SUBSET Labels], at : {"sent", "stored", "refused", "done"}]

PageTypes ==
    /\ shelf \in Shelf
    /\ form \in [drawn : Shelf, note : Answers, labels : SUBSET Labels, busy : BOOLEAN,
                 error : BOOLEAN, asked : BOOLEAN]
    /\ saves \in Seq(NoteSave \cup ChoiceSave \cup LabelSave)
    /\ unseen \in [others : Nat, fields : SUBSET {"note", "number"}]
    /\ mishap \subseteq {"hidden", "overlap"}

\* A save is sent when those before it of its field have been heard of.
InTurn == mishap = {} => \A i, j \in DOMAIN saves :
              i < j /\ saves[i].field = saves[j].field => saves[i].at = "done"

Fine == mishap = {} /\ ~form.error

\* Tags that are not on their way are stored as they are shown.
LabelsKept ==
    Fine => /\ \A i \in DOMAIN saves : saves[i].field = "labels" /\ saves[i].at = "sent" =>
                 saves[i].value.labels = form.labels
            /\ (\A i \in DOMAIN saves : saves[i].field = "labels" => saves[i].at \in {"stored", "done"}) =>
                 form.labels = shelf.labels

LastNote(i) == saves[i].field = "note" /\ \A j \in DOMAIN saves : j > i => saves[j].field # "note"

\* The note of the last save is stored once that save is.
NoteKept ==
    Fine /\ "note" \notin unseen.fields =>
        \A i \in DOMAIN saves : LastNote(i) /\ saves[i].at \in {"stored", "done"} =>
            shelf.note = saves[i].value.note

\* What was stored since the page was rendered is about to be heard, or rendered.
DrawnKept ==
    /\ Fine /\ ~form.asked /\ unseen.fields = {} /\ (\A i \in DOMAIN saves : saves[i].at # "stored") =>
          form.drawn = shelf
    /\ "number" \notin unseen.fields =>
          /\ shelf.number = form.drawn.number
          /\ \A i \in DOMAIN saves : saves[i].field = "note" => saves[i].value.number = form.drawn.number

PageInv == PageTypes /\ InTurn /\ LabelsKept /\ NoteKept /\ DrawnKept

PageSave == NoteSave \cup ChoiceSave \cup LabelSave

LEMMA PageFields ==
    ASSUME PageTypes
    PROVE  /\ shelf.note \in Answers /\ shelf.number \in Answers /\ shelf.choice \in Answers
           /\ shelf.labels \subseteq Labels /\ form.note \in Answers /\ form.labels \subseteq Labels
           /\ form.drawn \in Shelf /\ form.drawn.labels \subseteq Labels /\ form.drawn.number \in Answers
           /\ saves \in Seq(PageSave) /\ \A i \in DOMAIN saves : saves[i] \in PageSave
           /\ DOMAIN saves = 1..Len(saves) /\ Len(saves) \in Nat
  <1>1. shelf \in Shelf /\ form.drawn \in Shelf /\ form.note \in Answers /\ form.labels \subseteq Labels
    BY DEF PageTypes
  <1>2. /\ shelf.note \in Answers /\ shelf.number \in Answers /\ shelf.choice \in Answers
        /\ shelf.labels \subseteq Labels /\ form.drawn.labels \subseteq Labels /\ form.drawn.number \in Answers
    BY <1>1 DEF Shelf
  <1>3. saves \in Seq(PageSave)
    BY DEF PageTypes, PageSave
  <1> QED
    BY <1>1, <1>2, <1>3

LEMMA PageBegins == ASSUME F!FormInit PROVE PageInv
  <1>1. 0 \in Answers
    BY InspectionAssumption
  <1>2. PICK n \in Answers : shelf = [note |-> 0, number |-> n, choice |-> 0, labels |-> {}]
    BY DEF F!FormInit
  <1>3. /\ form = [drawn |-> shelf, note |-> 0, labels |-> {}, busy |-> FALSE, error |-> FALSE, asked |-> FALSE]
        /\ saves = <<>> /\ unseen = [others |-> 0, fields |-> {}] /\ mishap = {}
    BY DEF F!FormInit
  <1>4. shelf \in Shelf
    BY <1>1, <1>2 DEF Shelf
  <1>5. PageTypes
    BY <1>1, <1>3, <1>4 DEF PageTypes
  <1>6. DOMAIN saves = {}
    BY <1>3
  <1>7. form.labels = shelf.labels /\ form.drawn = shelf
    BY <1>2, <1>3
  <1> QED
    BY <1>5, <1>6, <1>7 DEF PageInv, InTurn, LabelsKept, NoteKept, DrawnKept

\* What a save does to the list of saves, and to what is stored.
LEMMA SaveIsSent ==
    ASSUME saves \in Seq(PageSave), NEW s \in PageSave, saves' = Append(saves, s)
    PROVE  /\ saves' \in Seq(PageSave) /\ DOMAIN saves' = DOMAIN saves \cup {Len(saves) + 1}
           /\ DOMAIN saves = 1..Len(saves) /\ Len(saves) \in Nat
           /\ saves'[Len(saves) + 1] = s /\ \A i \in DOMAIN saves : saves'[i] = saves[i]
  <1>1. saves' \in Seq(PageSave) /\ Len(saves') = Len(saves) + 1 /\ Len(saves) \in Nat
    OBVIOUS
  <1>2. saves'[Len(saves) + 1] = s /\ \A i \in 1..Len(saves) : saves'[i] = saves[i]
    OBVIOUS
  <1>3. DOMAIN saves = 1..Len(saves) /\ DOMAIN saves' = 1..Len(saves) + 1
    BY <1>1
  <1>4. 1..Len(saves) + 1 = 1..Len(saves) \cup {Len(saves) + 1}
    BY <1>1
  <1> QED
    BY <1>1, <1>2, <1>3, <1>4

LEMMA SaveMovesOn ==
    ASSUME saves \in Seq(PageSave), NEW i \in DOMAIN saves,
           NEW at \in {"sent", "stored", "refused", "done"}, saves' = [saves EXCEPT ![i].at = at]
    PROVE  /\ saves' \in Seq(PageSave) /\ DOMAIN saves' = DOMAIN saves
           /\ saves'[i].at = at /\ saves'[i].field = saves[i].field /\ saves'[i].value = saves[i].value
           /\ \A j \in DOMAIN saves : j # i => saves'[j] = saves[j]
           /\ \A j \in DOMAIN saves : saves'[j].field = saves[j].field /\ saves'[j].value = saves[j].value
  <1>1. PICK s : s = [saves[i] EXCEPT !.at = at]
    OBVIOUS
  <1>2. saves' = [saves EXCEPT ![i] = s] /\ saves[i] \in PageSave
    BY <1>1
  <1>3. s \in PageSave /\ s.at = at /\ s.field = saves[i].field /\ s.value = saves[i].value
    BY <1>1, <1>2 DEF PageSave, NoteSave, ChoiceSave, LabelSave
  <1>4. DOMAIN saves' = DOMAIN saves /\ saves'[i] = s /\ \A j \in DOMAIN saves : j # i => saves'[j] = saves[j]
    BY <1>2
  <1>5. saves' \in Seq(PageSave)
    BY <1>2, <1>3
  <1> QED
    BY <1>3, <1>4, <1>5

LEMMA StoredNote ==
    ASSUME shelf \in Shelf, NEW s \in NoteSave
    PROVE  /\ F!Stored(s) \in Shelf /\ F!Stored(s).labels = shelf.labels
           /\ F!Stored(s).note = s.value.note /\ F!Stored(s).number = s.value.number
  <1>1. DOMAIN s.value = {"note", "number"} /\ s.value.note \in Answers /\ s.value.number \in Answers
    BY DEF NoteSave
  <1>2. DOMAIN shelf = {"note", "number", "choice", "labels"}
    BY DEF Shelf
  <1>3. F!Stored(s) = [note |-> s.value.note, number |-> s.value.number, choice |-> shelf.choice, labels |-> shelf.labels]
    BY <1>1, <1>2 DEF F!Stored
  <1> QED
    BY <1>1, <1>3 DEF Shelf

LEMMA StoredChoice ==
    ASSUME shelf \in Shelf, NEW s \in ChoiceSave
    PROVE  /\ F!Stored(s) \in Shelf /\ F!Stored(s).labels = shelf.labels
           /\ F!Stored(s).note = shelf.note /\ F!Stored(s).number = shelf.number
  <1>1. DOMAIN s.value = {"choice"} /\ s.value.choice \in Answers
    BY DEF ChoiceSave
  <1>2. DOMAIN shelf = {"note", "number", "choice", "labels"}
    BY DEF Shelf
  <1>3. F!Stored(s) = [note |-> shelf.note, number |-> shelf.number, choice |-> s.value.choice, labels |-> shelf.labels]
    BY <1>1, <1>2 DEF F!Stored
  <1> QED
    BY <1>1, <1>3 DEF Shelf

LEMMA StoredLabels ==
    ASSUME shelf \in Shelf, NEW s \in LabelSave
    PROVE  /\ F!Stored(s) \in Shelf /\ F!Stored(s).labels = s.value.labels
           /\ F!Stored(s).note = shelf.note /\ F!Stored(s).number = shelf.number
  <1>1. DOMAIN s.value = {"labels"} /\ s.value.labels \in SUBSET Labels
    BY DEF LabelSave
  <1>2. DOMAIN shelf = {"note", "number", "choice", "labels"}
    BY DEF Shelf
  <1>3. F!Stored(s) = [note |-> shelf.note, number |-> shelf.number, choice |-> shelf.choice, labels |-> s.value.labels]
    BY <1>1, <1>2 DEF F!Stored
  <1> QED
    BY <1>1, <1>3 DEF Shelf

\* What any save stores, by the field it is of.
LEMMA StoredIs ==
    ASSUME shelf \in Shelf, NEW s \in PageSave
    PROVE  /\ F!Stored(s) \in Shelf
           /\ F!Stored(s).labels = IF s.field = "labels" THEN s.value.labels ELSE shelf.labels
           /\ F!Stored(s).note = IF s.field = "note" THEN s.value.note ELSE shelf.note
           /\ F!Stored(s).number = IF s.field = "note" THEN s.value.number ELSE shelf.number
  <1>1. CASE s \in NoteSave
    <2>1. s.field = "note"
      BY <1>1 DEF NoteSave
    <2> QED
      BY <1>1, <2>1, StoredNote
  <1>2. CASE s \in ChoiceSave
    <2>1. s.field = "choice"
      BY <1>2 DEF ChoiceSave
    <2> QED
      BY <1>2, <2>1, StoredChoice
  <1>3. CASE s \in LabelSave
    <2>1. s.field = "labels"
      BY <1>3 DEF LabelSave
    <2> QED
      BY <1>3, <2>1, StoredLabels
  <1> QED
    BY <1>1, <1>2, <1>3 DEF PageSave

LEMMA TypeNoteKeeps == ASSUME PageInv, NEW v \in Answers, F!TypeNote(v) PROVE PageInv'
  <1>1. /\ form' = [form EXCEPT !.note = v] /\ UNCHANGED <<shelf, saves, unseen, mishap>>
    BY DEF F!TypeNote
  <1>2. PageTypes' /\ form'.drawn = form.drawn /\ form'.labels = form.labels
        /\ form'.error = form.error /\ form'.asked = form.asked
    BY <1>1 DEF PageInv, PageTypes
  <1> QED
    BY <1>1, <1>2 DEF PageInv, InTurn, Fine, LabelsKept, LastNote, NoteKept, DrawnKept

\* A save is sent: one that shows no error follows one that showed none, and
\* those of its field are done.
LEMMA RunFollows ==
    ASSUME PageInv, NEW field, NEW value, F!Run(field, value),
           [field |-> field, value |-> value, at |-> "sent"] \in PageSave
    PROVE  /\ shelf' = shelf /\ unseen' = unseen /\ mishap' \subseteq {"hidden", "overlap"}
           /\ saves' \in Seq(PageSave) /\ DOMAIN saves' = DOMAIN saves \cup {Len(saves) + 1}
           /\ DOMAIN saves = 1..Len(saves) /\ Len(saves) \in Nat
           /\ saves'[Len(saves) + 1] = [field |-> field, value |-> value, at |-> "sent"]
           /\ \A i \in DOMAIN saves : saves'[i] = saves[i]
           /\ mishap' = {} => Fine /\ \A i \in DOMAIN saves : saves[i].field = field => saves[i].at = "done"
           /\ InTurn'
  <1> DEFINE s == [field |-> field, value |-> value, at |-> "sent"]
  <1>1. /\ shelf' = shelf /\ unseen' = unseen /\ saves' = Append(saves, s)
        /\ mishap' = mishap \cup (IF form.error THEN {"hidden"} ELSE {})
                        \cup (IF \E i \in F!Under : saves[i].field = field THEN {"overlap"} ELSE {})
    BY DEF F!Run
  <1>2. saves \in Seq(PageSave) /\ mishap \subseteq {"hidden", "overlap"}
    BY PageFields DEF PageInv, PageTypes
  <1>3. /\ saves' \in Seq(PageSave) /\ DOMAIN saves' = DOMAIN saves \cup {Len(saves) + 1}
        /\ DOMAIN saves = 1..Len(saves) /\ Len(saves) \in Nat
        /\ saves'[Len(saves) + 1] = s /\ \A i \in DOMAIN saves : saves'[i] = saves[i]
    BY <1>1, <1>2, SaveIsSent
  <1>4. ASSUME mishap' = {}
        PROVE  Fine /\ \A i \in DOMAIN saves : saves[i].field = field => saves[i].at = "done"
    <2>1. mishap = {} /\ ~form.error /\ ~ \E i \in F!Under : saves[i].field = field
      BY <1>1, <1>4
    <2> QED
      BY <2>1 DEF Fine, F!Under
  <1>5. mishap' \subseteq {"hidden", "overlap"}
    BY <1>1, <1>2
  <1>6. InTurn'
    <2>1. SUFFICES ASSUME mishap' = {}, NEW i \in DOMAIN saves', NEW j \in DOMAIN saves',
                          i < j, saves'[i].field = saves'[j].field
                   PROVE  saves'[i].at = "done"
      BY DEF InTurn
    <2>2. i \in DOMAIN saves /\ (j \in DOMAIN saves \/ j = Len(saves) + 1)
      BY <1>3, <2>1
    <2>3. CASE j \in DOMAIN saves
      BY <1>3, <1>4, <2>1, <2>2, <2>3 DEF PageInv, InTurn, Fine
    <2>4. CASE j = Len(saves) + 1
      <3>1. saves[i].field = field
        BY <1>3, <2>1, <2>2, <2>4
      <3> QED
        BY <1>3, <1>4, <2>1, <2>2, <3>1
    <2> QED
      BY <2>2, <2>3, <2>4
  <1> QED
    BY <1>1, <1>3, <1>4, <1>5, <1>6

LEMMA LeaveNoteKeeps == ASSUME PageInv, F!LeaveNote PROVE PageInv'
  <1> DEFINE s == [field |-> "note", value |-> [note |-> form.note, number |-> form.drawn.number], at |-> "sent"]
             last == Len(saves) + 1
  <1>1. /\ form' = [form EXCEPT !.busy = TRUE, !.error = FALSE]
        /\ F!Run("note", [note |-> form.note, number |-> form.drawn.number])
    BY DEF F!LeaveNote, F!AnswerValues
  <1>2. s \in PageSave
    BY PageFields DEF PageInv, PageSave, NoteSave
  <1>3. /\ shelf' = shelf /\ unseen' = unseen /\ mishap' \subseteq {"hidden", "overlap"}
        /\ saves' \in Seq(PageSave) /\ DOMAIN saves' = DOMAIN saves \cup {last}
        /\ DOMAIN saves = 1..Len(saves) /\ Len(saves) \in Nat
        /\ saves'[last] = s /\ \A i \in DOMAIN saves : saves'[i] = saves[i]
        /\ mishap' = {} => Fine
        /\ InTurn'
    BY <1>1, <1>2, RunFollows
  <1>4. /\ PageTypes' /\ form'.drawn = form.drawn /\ form'.labels = form.labels /\ form'.asked = form.asked
    BY <1>1, <1>3 DEF PageInv, PageTypes, PageSave
  <1>5. LabelsKept'
    BY <1>3, <1>4 DEF PageInv, LabelsKept, Fine
  <1>6. NoteKept'
    <2>1. SUFFICES ASSUME NEW i \in DOMAIN saves', LastNote(i)', saves'[i].at \in {"stored", "done"}
                   PROVE  FALSE
      BY DEF NoteKept
    <2>2. i # last /\ i < last
      BY <1>3, <2>1
    <2> QED
      BY <1>3, <2>1, <2>2 DEF LastNote
  <1>7. DrawnKept'
    <2>1. s.value.number = form.drawn.number /\ s.at = "sent"
      OBVIOUS
    <2> HIDE DEF s
    <2> QED
      BY <1>3, <1>4, <2>1 DEF PageInv, DrawnKept, Fine
  <1> QED
    BY <1>3, <1>4, <1>5, <1>6, <1>7 DEF PageInv

LEMMA ChooseKeeps == ASSUME PageInv, NEW v \in Answers, F!Choose(v) PROVE PageInv'
  <1> DEFINE s == [field |-> "choice", value |-> [choice |-> v], at |-> "sent"]
             last == Len(saves) + 1
  <1>1. form' = [form EXCEPT !.busy = TRUE, !.error = FALSE] /\ F!Run("choice", [choice |-> v])
    BY DEF F!Choose
  <1>2. s \in PageSave
    BY DEF PageSave, ChoiceSave
  <1>3. /\ shelf' = shelf /\ unseen' = unseen /\ mishap' \subseteq {"hidden", "overlap"}
        /\ saves' \in Seq(PageSave) /\ DOMAIN saves' = DOMAIN saves \cup {last}
        /\ DOMAIN saves = 1..Len(saves) /\ Len(saves) \in Nat
        /\ saves'[last] = s /\ \A i \in DOMAIN saves : saves'[i] = saves[i]
        /\ mishap' = {} => Fine
        /\ InTurn'
    BY <1>1, <1>2, RunFollows
  <1>4. /\ PageTypes' /\ form'.drawn = form.drawn /\ form'.labels = form.labels /\ form'.asked = form.asked
    BY <1>1, <1>3 DEF PageInv, PageTypes, PageSave
  <1>5. s.field = "choice" /\ s.at = "sent"
    OBVIOUS
  <1> HIDE DEF s
  <1>6. LabelsKept'
    BY <1>3, <1>4, <1>5 DEF PageInv, LabelsKept, Fine
  <1>7. NoteKept'
    BY <1>3, <1>4, <1>5 DEF PageInv, NoteKept, LastNote, Fine
  <1>8. DrawnKept'
    BY <1>3, <1>4, <1>5 DEF PageInv, DrawnKept, Fine
  <1> QED
    BY <1>3, <1>4, <1>6, <1>7, <1>8 DEF PageInv

LEMMA SaveResponseTagsKeeps == ASSUME PageInv, NEW t \in Labels, F!SaveResponseTags(t) PROVE PageInv'
  <1> DEFINE picked == F!Toggled(t)
             s == [field |-> "labels", value |-> [labels |-> picked], at |-> "sent"]
             last == Len(saves) + 1
  <1>1. /\ form' = [form EXCEPT !.labels = picked, !.busy = TRUE, !.error = FALSE]
        /\ F!Run("labels", [labels |-> picked])
    BY DEF F!SaveResponseTags
  <1>2. picked \subseteq Labels
    BY PageFields DEF PageInv, F!Toggled
  <1> HIDE DEF picked
  <1>3. s \in PageSave
    BY <1>2 DEF PageSave, LabelSave
  <1>4. /\ shelf' = shelf /\ unseen' = unseen /\ mishap' \subseteq {"hidden", "overlap"}
        /\ saves' \in Seq(PageSave) /\ DOMAIN saves' = DOMAIN saves \cup {last}
        /\ DOMAIN saves = 1..Len(saves) /\ Len(saves) \in Nat
        /\ saves'[last] = s /\ \A i \in DOMAIN saves : saves'[i] = saves[i]
        /\ mishap' = {} => Fine /\ \A i \in DOMAIN saves : saves[i].field = "labels" => saves[i].at = "done"
        /\ InTurn'
    BY <1>1, <1>3, RunFollows
  <1>5. /\ PageTypes' /\ form'.drawn = form.drawn /\ form'.labels = picked /\ form'.asked = form.asked
    BY <1>1, <1>2, <1>4 DEF PageInv, PageTypes, PageSave
  <1>6. s.field = "labels" /\ s.at = "sent" /\ s.value.labels = picked
    OBVIOUS
  <1> HIDE DEF s
  <1>7. LabelsKept'
    BY <1>4, <1>5, <1>6 DEF LabelsKept, Fine
  <1>8. NoteKept'
    BY <1>4, <1>5, <1>6 DEF PageInv, NoteKept, LastNote, Fine
  <1>9. DrawnKept'
    BY <1>4, <1>5, <1>6 DEF PageInv, DrawnKept, Fine
  <1> QED
    BY <1>4, <1>5, <1>7, <1>8, <1>9 DEF PageInv

LEMMA ServeKeeps == ASSUME PageInv, NEW i \in F!Under, F!Serve(i) PROVE PageInv'
  <1>1. i \in DOMAIN saves /\ saves[i].at = "sent" /\ UNCHANGED <<form, unseen, mishap>>
    BY DEF F!Serve, F!Under
  <1>2. /\ PageTypes /\ shelf \in Shelf /\ saves[i] \in PageSave /\ saves \in Seq(PageSave)
        /\ DOMAIN saves = 1..Len(saves) /\ Len(saves) \in Nat
    BY <1>1, PageFields DEF PageInv, PageTypes
  <1>3. ASSUME NEW at \in {"stored", "refused"}, saves' = [saves EXCEPT ![i].at = at],
               shelf' = IF at = "stored" THEN F!Stored(saves[i]) ELSE shelf
        PROVE  PageInv'
    <2>1. /\ saves' \in Seq(PageSave) /\ DOMAIN saves' = DOMAIN saves /\ saves'[i].at = at
          /\ \A j \in DOMAIN saves : j # i => saves'[j] = saves[j]
          /\ \A j \in DOMAIN saves : saves'[j].field = saves[j].field /\ saves'[j].value = saves[j].value
      BY <1>1, <1>2, <1>3, SaveMovesOn
    <2>2. /\ shelf' \in Shelf
          /\ shelf'.labels = IF at = "stored" /\ saves[i].field = "labels" THEN saves[i].value.labels ELSE shelf.labels
          /\ shelf'.note = IF at = "stored" /\ saves[i].field = "note" THEN saves[i].value.note ELSE shelf.note
          /\ shelf'.number = IF at = "stored" /\ saves[i].field = "note" THEN saves[i].value.number ELSE shelf.number
      BY <1>2, <1>3, StoredIs
    <2>3. PageTypes'
      BY <1>1, <1>2, <2>1, <2>2 DEF PageTypes, PageSave
    <2>4. InTurn'
      BY <1>1, <1>2, <2>1 DEF PageInv, InTurn
    <2>5. LabelsKept'
      BY <1>1, <1>2, <1>3, <2>1, <2>2 DEF PageInv, LabelsKept, Fine
    <2>6. NoteKept'
      <3>1. SUFFICES ASSUME Fine, "note" \notin unseen.fields, NEW j \in DOMAIN saves, LastNote(j),
                            saves'[j].at \in {"stored", "done"}
                     PROVE  shelf'.note = saves[j].value.note
        BY <1>1, <2>1 DEF NoteKept, Fine, LastNote
      <3>2. CASE j = i
        BY <1>3, <2>1, <2>2, <3>1, <3>2 DEF LastNote
      <3>3. CASE j # i
        <4>1. saves[i].field # "note"
          BY <1>1, <1>2, <3>1, <3>3 DEF PageInv, InTurn, Fine, LastNote
        <4> QED
          BY <2>1, <2>2, <3>1, <3>3, <4>1 DEF PageInv, NoteKept
      <3> QED
        BY <3>2, <3>3
    <2>7. DrawnKept'
      <3>1. CASE at = "stored"
        BY <1>1, <2>1, <2>2, <3>1 DEF PageInv, DrawnKept
      <3>2. CASE at = "refused"
        BY <1>1, <1>3, <2>1, <2>2, <3>2 DEF PageInv, DrawnKept, Fine
      <3> QED
        BY <3>1, <3>2
    <2> QED
      BY <2>3, <2>4, <2>5, <2>6, <2>7 DEF PageInv
  <1> QED
    BY <1>3 DEF F!Serve

LEMMA HearKeeps == ASSUME PageInv, NEW i \in F!Under, F!Hear(i) PROVE PageInv'
  <1>1. /\ i \in DOMAIN saves /\ saves[i].at \in {"stored", "refused"} /\ UNCHANGED <<shelf, unseen, mishap>>
        /\ saves' = [saves EXCEPT ![i].at = "done"]
    BY DEF F!Hear, F!Under
  <1>2. PageTypes /\ saves \in Seq(PageSave) /\ DOMAIN saves = 1..Len(saves) /\ Len(saves) \in Nat
    BY PageFields DEF PageInv
  <1>3. /\ saves' \in Seq(PageSave) /\ DOMAIN saves' = DOMAIN saves /\ saves'[i].at = "done"
        /\ \A j \in DOMAIN saves : j # i => saves'[j] = saves[j]
        /\ \A j \in DOMAIN saves : saves'[j].field = saves[j].field /\ saves'[j].value = saves[j].value
    BY <1>1, <1>2, SaveMovesOn
  <1>4. InTurn'
    BY <1>1, <1>2, <1>3 DEF PageInv, InTurn
  <1>5. /\ form'.drawn = form.drawn /\ form'.labels = form.labels
        /\ \/ saves[i].at = "stored" /\ form'.error = form.error /\ form'.asked
           \/ form'.error
        /\ PageTypes'
    <2>1. CASE saves[i].at = "stored" /\ form' = [form EXCEPT !.busy = FALSE, !.asked = TRUE]
      BY <1>1, <1>2, <1>3, <2>1 DEF PageTypes, PageSave
    <2>2. CASE form' = [form EXCEPT !.busy = FALSE, !.error = TRUE]
      BY <1>1, <1>2, <1>3, <2>2 DEF PageTypes, PageSave
    <2> QED
      BY <2>1, <2>2 DEF F!Hear
  <1>6. Fine' => Fine /\ saves[i].at = "stored" /\ form'.asked
    BY <1>1, <1>5 DEF Fine
  <1>7. LabelsKept'
    BY <1>1, <1>3, <1>5, <1>6 DEF PageInv, LabelsKept
  <1>8. NoteKept'
    BY <1>1, <1>3, <1>6 DEF PageInv, NoteKept, LastNote
  <1>9. DrawnKept'
    BY <1>1, <1>3, <1>5, <1>6 DEF PageInv, DrawnKept
  <1> QED
    BY <1>4, <1>5, <1>7, <1>8, <1>9 DEF PageInv

LEMMA RefreshKeeps == ASSUME PageInv, F!Refresh PROVE PageInv'
  <1>1. form' = [form EXCEPT !.drawn = shelf, !.asked = FALSE] /\ UNCHANGED <<shelf, saves, unseen, mishap>>
    BY DEF F!Refresh
  <1>2. PageTypes' /\ form'.drawn = shelf /\ form'.labels = form.labels /\ form'.error = form.error
    BY <1>1 DEF PageInv, PageTypes
  <1>3. InTurn' /\ LabelsKept' /\ NoteKept' /\ DrawnKept'
    BY <1>1, <1>2 DEF PageInv, InTurn, Fine, LabelsKept, LastNote, NoteKept, DrawnKept
  <1> QED
    BY <1>2, <1>3 DEF PageInv

LEMMA OthersAnswerKeeps == ASSUME PageInv, F!OthersAnswer PROVE PageInv'
  <1>1. PICK k \in {"note", "number"}, v \in Answers \ {0} :
          /\ shelf' = [shelf EXCEPT ![k] = v]
          /\ unseen' = [others |-> unseen.others + 1, fields |-> unseen.fields \cup {k}]
    BY DEF F!OthersAnswer
  <1>2. UNCHANGED <<form, saves, mishap>> /\ PageTypes
    BY DEF F!OthersAnswer, PageInv
  <1>3. shelf' \in Shelf /\ shelf'.labels = shelf.labels
        /\ (k # "note" => shelf'.note = shelf.note) /\ (k # "number" => shelf'.number = shelf.number)
    <2>1. CASE k = "note"
      <3>1. shelf' = [shelf EXCEPT !.note = v] /\ shelf \in Shelf
        BY <1>1, <1>2, <2>1 DEF PageTypes
      <3> QED
        BY <2>1, <3>1 DEF Shelf
    <2>2. CASE k = "number"
      <3>1. shelf' = [shelf EXCEPT !.number = v] /\ shelf \in Shelf
        BY <1>1, <1>2, <2>2 DEF PageTypes
      <3> QED
        BY <2>2, <3>1 DEF Shelf
    <2> QED
      BY <2>1, <2>2
  <1>4. unseen' \in [others : Nat, fields : SUBSET {"note", "number"}] /\ unseen'.fields = unseen.fields \cup {k}
    BY <1>1, <1>2 DEF PageTypes
  <1>5. PageTypes'
    BY <1>2, <1>3, <1>4 DEF PageTypes
  <1>6. InTurn' /\ LabelsKept' /\ NoteKept' /\ DrawnKept'
    BY <1>2, <1>3, <1>4 DEF PageInv, InTurn, Fine, LabelsKept, LastNote, NoteKept, DrawnKept
  <1> QED
    BY <1>5, <1>6 DEF PageInv

LEMMA PageInvStep == ASSUME PageInv, [F!FormNext]_page PROVE PageInv'
  <1>1. CASE \E v \in Answers : F!TypeNote(v) \/ F!Choose(v)
    BY <1>1, TypeNoteKeeps, ChooseKeeps
  <1>2. CASE F!LeaveNote \/ \E t \in Labels : F!SaveResponseTags(t)
    BY <1>2, LeaveNoteKeeps, SaveResponseTagsKeeps
  <1>3. CASE \E i \in F!Under : F!Serve(i) \/ F!Hear(i)
    BY <1>3, ServeKeeps, HearKeeps
  <1>4. CASE F!Refresh \/ F!OthersAnswer
    BY <1>4, RefreshKeeps, OthersAnswerKeeps
  <1>5. CASE UNCHANGED page
    BY <1>5 DEF page, PageInv, PageTypes, InTurn, Fine, LabelsKept, LastNote, NoteKept, DrawnKept
  <1> QED
    BY <1>1, <1>2, <1>3, <1>4, <1>5 DEF F!FormNext

\* What the invariant says of the properties.
LEMMA PageInvTells == ASSUME PageInv PROVE F!FormTypeOK /\ F!ShownIsStored /\ F!OthersStay
  <1>1. F!FormTypeOK
    <2>1. \A i \in DOMAIN saves : saves[i].at \in {"sent", "stored", "refused", "done"}
      BY PageFields DEF PageInv, PageSave, NoteSave, ChoiceSave, LabelSave
    <2> QED
      BY <2>1, PageFields DEF PageInv, PageTypes, F!FormTypeOK
  <1>2. F!ShownIsStored
    <2>1. SUFFICES ASSUME F!Under = {}, Fine
                   PROVE  /\ form.labels = shelf.labels
                          /\ F!NoteLeft /\ "note" \notin unseen.fields => form.note = shelf.note
                          /\ ~form.asked /\ unseen.fields = {} => form.drawn = shelf
      BY DEF F!ShownIsStored, Fine
    <2>2. \A i \in DOMAIN saves : saves[i].at = "done"
      BY <2>1 DEF F!Under
    <2> QED
      BY <2>1, <2>2 DEF PageInv, LabelsKept, NoteKept, DrawnKept, LastNote, F!NoteLeft
  <1>3. F!OthersStay
    BY DEF PageInv, DrawnKept, F!OthersStay
  <1> QED
    BY <1>1, <1>2, <1>3

-----------------------------------------------------------------------------
(* What inspections leave behind.                                           *)

InspectionInv ==
    /\ part \in Parts
    /\ part = "filing" => TagInv
    /\ part = "naming" => WordInv
    /\ part = "survey" => SurveyInv
    /\ part = "assessment" => AnswerInv
    /\ part = "health" => HealthInv
    /\ part = "sheet" => SheetInv
    /\ part = "page" => PageInv

LEMMA InspectionInvInit == InspectionInit => InspectionInv
  BY TagInvInit, WordInvInit, SurveyInvInit, AnswerInvInit, HealthInvInit, SheetBegins, PageBegins
     DEF InspectionInit, InspectionInv

LEMMA InspectionInvStep == ASSUME InspectionInv, [InspectionNext]_all PROVE InspectionInv'
  <1> USE DEF InspectionNext, HealthStep, AssessmentStep, SurveyStep, FilingStep, NamingStep, SheetStep, PageStep, all
  <1>1. CASE part = "filing"
    <2>1. [P!TagNext]_filing /\ part' = part
      BY <1>1
    <2> QED
      BY <1>1, <2>1, TagInvStep DEF InspectionInv
  <1>2. CASE part = "naming"
    <2>1. [V!WordNext]_naming /\ part' = part
      BY <1>2
    <2> QED
      BY <1>2, <2>1, WordInvStep DEF InspectionInv
  <1>3. CASE part = "survey"
    <2>1. [S!SurveyNext]_survey /\ part' = part
      BY <1>3
    <2> QED
      BY <1>3, <2>1, SurveyInvStep DEF InspectionInv
  <1>4. CASE part = "assessment"
    <2>1. [A!Next]_assessment /\ part' = part
      BY <1>4
    <2> QED
      BY <1>4, <2>1, AnswerInvStep DEF InspectionInv
  <1>5. CASE part = "health"
    <2>1. [Next]_healthVars /\ part' = part
      BY <1>5
    <2> QED
      BY <1>5, <2>1, HealthInvStep DEF InspectionInv
  <1>6. CASE part = "sheet"
    <2>1. [H!SheetNext]_sheet /\ part' = part
      BY <1>6
    <2> QED
      BY <1>6, <2>1, SheetInvStep DEF InspectionInv
  <1>7. CASE part = "page"
    <2>1. [F!FormNext]_page /\ part' = part
      BY <1>7
    <2> QED
      BY <1>7, <2>1, PageInvStep DEF InspectionInv
  <1> QED
    BY <1>1, <1>2, <1>3, <1>4, <1>5, <1>6, <1>7 DEF InspectionInv, Parts

LEMMA InspectionInvAlways == InspectionSpec => []InspectionInv
  <1>1. InspectionInv /\ [InspectionNext]_all => InspectionInv'
    BY InspectionInvStep
  <1> QED
    BY <1>1, InspectionInvInit, PTL DEF InspectionSpec

\* However many requests file tags at one time, a photo and a response have one
\* tag of a kind, of those their property offers, unless two of them wrote to it
\* together; and no two words of the vocabulary mean the same (lib/tags.ts,
\* tag-service.ts).
THEOREM TagsStayFiled == InspectionSpec => []TagsAreFiled
  <1>1. TagInv => P!TagTypeOK /\ P!OneOfAKind /\ P!TagsAreOffered
    <2> SUFFICES ASSUME TagInv PROVE P!TagTypeOK /\ P!OneOfAKind /\ P!TagsAreOffered
      OBVIOUS
    <2>1. P!TagTypeOK
      BY TagRowFields DEF TagInv, TagTypes, P!TagTypeOK
    <2>2. P!TagsAreOffered
      BY DEF TagInv, TagTypes, P!TagsAreOffered
    <2> QED
      BY <2>1, <2>2 DEF TagInv
  <1>2. InspectionInv => TagsAreFiled
    BY <1>1 DEF InspectionInv, TagsAreFiled, WordInv
  <1> QED
    BY <1>2, InspectionInvAlways, PTL

\* With one section, a template has one.
LEMMA OneSection == ASSUME NEW s, NEW n, s = {n} PROVE S!Cardinality(s) = 1
  <1>1. Cardinality(s) = 1
    BY FS_Singleton
  <1> QED
    BY <1>1 DEF S!Cardinality, Cardinality

\* However many pages save templates and schedule assessments at one time, an
\* assessment keeps the questions it was scheduled with, answered questions stay,
\* a template is what one writer wrote, and one that has a new version is no
\* longer offered, unless two of those calls overlapped (template-service.ts).
THEOREM TemplatesStayKept == InspectionSpec => []TemplatesAreKept
  <1>1. SurveyInv => /\ S!SurveyTypeOK /\ S!UsedIsUnchanged /\ S!AnsweredStays
                     /\ S!OneStructure /\ S!SupersededIsRetired
    <2> SUFFICES ASSUME SurveyInv
                 PROVE  /\ S!SurveyTypeOK /\ S!UsedIsUnchanged /\ S!AnsweredStays
                        /\ S!OneStructure /\ S!SupersededIsRetired
      OBVIOUS
    <2>1. S!SurveyTypeOK
      <3>1. \A t \in Surveys : template[t] \in SurveyRow
        BY DEF SurveyInv, SurveyTypes
      <3> QED
        BY <3>1 DEF SurveyInv, SurveyTypes, S!SurveyTypeOK, SurveyRow
    <2>2. S!UsedIsUnchanged /\ S!AnsweredStays
      BY DEF SurveyInv, SurveyKept, Noted, S!UsedIsUnchanged, S!AnsweredStays
    <2>3. S!OneStructure
      <3>1. SUFFICES ASSUME NEW t \in Surveys, template[t] # S!NoRow, <<"written", t>> \notin mixed
                     PROVE  S!Cardinality(template[t].sections) = 1
        BY DEF S!OneStructure, S!Stored
      <3>2. PICK n \in 0 .. MaxWrites : template[t].sections = {n}
        BY <3>1 DEF SurveyInv, SurveyKept, Noted
      <3> QED
        BY <3>2, OneSection
    <2>4. S!SupersededIsRetired
      BY DEF SurveyInv, SurveyKept, Noted, S!SupersededIsRetired
    <2> QED
      BY <2>1, <2>2, <2>3, <2>4
  <1>2. InspectionInv => TemplatesAreKept
    BY <1>1 DEF InspectionInv, TemplatesAreKept
  <1> QED
    BY <1>2, InspectionInvAlways, PTL

\* However many people answer an assessment at one time, what is complete is
\* answered, a question is answered once per response, unless calls crossed in
\* one of the ways the history notes, and a task that is not repeatable has one
\* response whatever crossed (assessment-service.ts).
THEOREM AnswersStayWhole == InspectionSpec => []AnswersAreWhole
  <1>1. AnswerInv => A!TypeOK /\ A!CompleteIsAnswered /\ A!OneAnswer /\ A!OneResponse
    <2> SUFFICES ASSUME AnswerInv PROVE A!TypeOK /\ A!CompleteIsAnswered /\ A!OneAnswer /\ A!OneResponse
      OBVIOUS
    <2>1. A!TypeOK
      <3>1. \A c \in Calls : assessmentCall[c] \in AnswerRow
        BY DEF AnswerInv, AnswerTypes
      <3>2. \A c \in Calls : assessmentCall[c].on \in A!Instances \cup {A!First, A!Gone}
        BY <3>1, AnswerRowFields
      <3> QED
        BY <3>2 DEF AnswerInv, AnswerTypes, A!TypeOK
    <2>2. A!CompleteIsAnswered
      <3>1. SUFFICES ASSUME raced \cap {"answer", "completion"} = {},
                            \A c \in Calls : assessmentCall[c].at \notin {"wrote", "decided"},
                            NEW i \in A!Instances
                     PROVE  (complete[i] => IsAnswered(i)) /\ (~task.completable /\ IsAnswered(i) => complete[i])
        BY DEF A!CompleteIsAnswered, IsAnswered
      <3>2. \A c \in Calls : \A v : ~Awaits(c, i, v)
        BY <3>1 DEF Awaits, On
      <3>3. "answer" \notin raced /\ "completion" \notin raced /\ CompletionKept(i)
        BY <3>1 DEF AnswerInv
      <3> QED
        BY <3>2, <3>3 DEF CompletionKept
    <2>3. A!OneResponse
      <3>1. SUFFICES ASSUME ~task.repeatable PROVE A!Cardinality(responses) <= 1
        BY DEF A!OneResponse
      <3>2. responses \subseteq {1} /\ IsFiniteSet({1}) /\ Cardinality({1}) = 1
        BY <3>1, FS_Singleton DEF AnswerInv
      <3>3. Cardinality(responses) <= 1
        BY <3>2, FS_Subset
      <3> QED
        BY <3>3 DEF A!Cardinality, Cardinality
    <2> QED
      BY <2>1, <2>2, <2>3 DEF AnswerInv
  <1>2. InspectionInv => AnswersAreWhole
    BY <1>1 DEF InspectionInv, AnswersAreWhole
  <1> QED
    BY <1>2, InspectionInvAlways, PTL

\* However many people review findings and record conditions at one time, a
\* confirmed finding took its hit once, the history of the asset leads to its
\* score, and the newest snapshot is of the property's present state, unless
\* the history notes how it came behind (ai/photo-analysis.ts,
\* asset-condition.ts, scoring.ts).
THEOREM ReviewsCountOnce == InspectionSpec => []ReviewCountsOnce
  <1>1. HealthInv => TypeOK /\ ConfirmedOnce /\ HistoryLeadsToScore /\ SnapshotIsCurrent
    <2>1. HealthInv => TypeOK /\ ConfirmedOnce
      BY DEF HealthInv, HealthTypes
    <2>2. HealthInv => HistoryLeadsToScore
      BY DEF HealthInv, ReviewKept, HistoryLeadsToScore
    <2>3. HealthInv => SnapshotIsCurrent
      BY DEF HealthInv, SnapshotKept, Renewing, SnapshotIsCurrent
    <2> QED
      BY <2>1, <2>2, <2>3
  <1>2. InspectionInv => ReviewCountsOnce
    BY <1>1 DEF InspectionInv, ReviewCountsOnce
  <1> QED
    BY <1>2, InspectionInvAlways, PTL

\* Nothing changes on a completed assessment until it is reopened, and a released
\* one stays so, whoever has it open, unless its status changed under a call that
\* had read it (assessment-service.ts).
THEOREM LockedStaysLocked == InspectionSpec => LockedStays
  <1> DEFINE Stays == "status" \notin raced' /\ A!Locked(status) =>
                        /\ status' = status => UNCHANGED <<responses, answers, complete>>
                        /\ status = "RELEASED" => status' = "RELEASED"
  <1>1. ASSUME AnswerInv, A!Next PROVE Stays
    <2>1. SUFFICES ASSUME "status" \notin raced', A!Locked(status) PROVE Stays
      OBVIOUS
    <2>2. PICK c \in Calls :
            \/ \E n \in A!Instances : A!LoadAdd(c, n)
            \/ A!AddResponse(c)
            \/ \E i \in A!Instances : A!LoadDelete(c, i) \/ A!LoadFile(c, i)
            \/ A!DeleteResponse(c)
            \/ \E i \in A!Instances \cup {A!First}, v \in BOOLEAN : A!LoadSave(c, i, v)
            \/ A!FindAnswer(c) \/ A!WriteAnswer(c) \/ A!ReadCompletion(c)
            \/ \E i \in A!Instances, v \in BOOLEAN : A!LoadMark(c, i, v)
            \/ A!WriteCompletion(c)
            \/ \E manager \in BOOLEAN, to \in A!Statuses : A!LoadStatus(c, manager, to)
            \/ A!ChangeStatus(c)
            \/ A!BreakOff(c)
      BY <1>1, Zenon DEF A!Next
    <2>3. CASE \/ \E n \in A!Instances : A!LoadAdd(c, n) \/ A!LoadDelete(c, n) \/ A!LoadFile(c, n)
               \/ \E i \in A!Instances \cup {A!First}, v \in BOOLEAN : A!LoadSave(c, i, v)
               \/ \E i \in A!Instances, v \in BOOLEAN : A!LoadMark(c, i, v)
               \/ \E manager \in BOOLEAN, to \in A!Statuses : A!LoadStatus(c, manager, to)
               \/ A!ReadCompletion(c)
      <3>1. UNCHANGED <<status, responses, answers, complete>>
        BY <2>3, Zenon DEF A!LoadAdd, A!LoadDelete, A!LoadFile, A!LoadSave, A!LoadMark, A!LoadStatus, A!Loads,
                    A!ReadCompletion
      <3> QED
        BY <3>1, SMTT(30)
    <2>4. CASE A!BreakOff(c)
      BY <2>4 DEF A!BreakOff
    <2>5. CASE A!ChangeStatus(c)
      <3>1. /\ UNCHANGED <<responses, answers, complete>> /\ raced \subseteq raced'
            /\ assessmentCall[c].at = "loaded"
        BY <2>5 DEF A!ChangeStatus, A!At
      <3>2. LockKept(c)
        BY <1>1 DEF AnswerInv
      <3>3. status # "RELEASED"
        BY <2>1, <3>1, <3>2 DEF LockKept
      <3> QED
        BY <3>1, <3>3
    <2>6. CASE A!AddResponse(c) \/ A!DeleteResponse(c) \/ A!FindAnswer(c) \/ A!WriteAnswer(c) \/ A!WriteCompletion(c)
      <3>1. raced \subseteq raced'
        BY <2>6, ZenonT(40) DEF A!AddResponse, A!DeleteResponse, A!FindAnswer, A!WriteAnswer, A!WriteCompletion
      <3>2. /\ assessmentCall[c].at # "idle"
            /\ assessmentCall[c].op \in {"add", "delete", "save"} \/ assessmentCall[c].at \in {"found", "decided"}
        BY <2>6 DEF A!AddResponse, A!DeleteResponse, A!FindAnswer, A!WriteAnswer, A!WriteCompletion, A!At
      <3>3. LockKept(c) /\ CallFits(assessmentCall[c])
        BY <1>1 DEF AnswerInv
      <3> QED
        BY <2>1, <3>1, <3>2, <3>3, SMTT(30) DEF LockKept, CallFits
    <2> QED
      BY <2>2, <2>3, <2>4, <2>5, <2>6
  <1>2. InspectionInv /\ [InspectionNext]_all => [Stays]_(A!assessmentVars)
    <2> SUFFICES ASSUME InspectionInv, [InspectionNext]_all PROVE [Stays]_(A!assessmentVars)
      OBVIOUS
    <2>1. CASE AssessmentStep
      BY <1>1, <2>1 DEF AssessmentStep, InspectionInv
    <2>2. CASE ~AssessmentStep
      <3>1. UNCHANGED assessment
        BY <2>2, Zenon DEF InspectionNext, HealthStep, SurveyStep, FilingStep, NamingStep, SheetStep, PageStep, all
      <3> QED
        BY <3>1 DEF assessment, A!assessmentVars
    <2> QED
      BY <2>1, <2>2
  <1> QED
    BY <1>2, InspectionInvAlways, PTL DEF InspectionSpec, LockedStays, A!LockedStays

\* What people filled in is what is stored.  A sheet loads whole, as it was
\* checked, and what it was exported from when nobody changed it: unless others
\* answer meanwhile, another file is picked while one is under way, or an answer
\* is of those its cell does not tell (assessment-sheet-service.ts).  A page at
\* rest shows what is stored and its saves wipe nothing, unless saves of a field
\* overlap, an error is hidden, or others answer (AssessmentRunner.tsx).
THEOREM SheetsStayTrue == InspectionSpec => []SheetsAreTrue
  <1>1. InspectionInv => SheetsAreTrue
    BY SheetInvTells, PageInvTells DEF InspectionInv, SheetsAreTrue
  <1> QED
    BY <1>1, InspectionInvAlways, PTL
===============================================================================
