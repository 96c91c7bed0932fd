------------------------------ MODULE SitePlans ------------------------------
(* The map overlays and the 3D embeds of one property (overlay-service.ts,   *)
(* embed-service.ts), added, changed and removed by overlapping calls.       *)
(*                                                                           *)
(* An overlay is an uploaded image with edges: one axis stands for both.  A  *)
(* call that changes an edge, or the kind or link of an embed, checks it     *)
(* with the rest of the row it loaded and writes later, by id.               *)
EXTENDS Integers, Functions

CONSTANTS OverlayIds, EmbedIds,
          Edges,        \* coordinates on one axis
          Widest,       \* the width past which edges cover more than a site
          UploadKeys,   \* the keys uploads get
          Planners      \* the requests the servers run at one time

VARIABLES files,      \* the objects in the store
          minted,     \* of each key an upload got: how often it was registered
          overlays,   \* of each overlay there is: [key, north, south]
          embeds,     \* of each embed there is: [kind, url]
          planning    \* what each request is doing
planVars == <<files, minted, overlays, embeds, planning>>

Kinds == {"MATTERPORT", "OTHER"}
Urls == {"show", "elsewhere"}     \* a Matterport share link, or another https link
Often == 2                        \* bound on the count of registrations
Waiting == [at |-> "idle", on |-> 0, row |-> <<>>]

PlanInit ==
    /\ files = {} /\ minted = <<>>
    /\ overlays = <<>> /\ embeds = <<>>
    /\ planning = [c \in Planners |-> Waiting]

Doing(c, at) == planning[c].at = at
Proceeds(c, row) == planning' = [planning EXCEPT ![c] = row]
With(rows, i, row) == [j \in DOMAIN rows \cup {i} |-> IF j = i THEN row ELSE rows[j]]
Without(rows, i) == Restrict(rows, DOMAIN rows \ {i})

\* An id nobody remembers stands for a new one.
Fresh(i, rows) == i \notin DOMAIN rows /\ \A q \in Planners : planning[q].on # i

\* boundsProblem
Usable(north, south) == north > south /\ north - south <= Widest

\* embedUrlProblem: a Matterport embed is a Matterport share link.
Fits(kind, url) == kind = "MATTERPORT" => url = "show"

------------------------------------------------------------------------------
(* Overlays.                                                                 *)

\* The file is sent to a key nobody else gets.
Upload(k) ==
    /\ k \notin DOMAIN minted
    /\ minted' = With(minted, k, 0) /\ files' = files \cup {k}
    /\ UNCHANGED <<overlays, embeds, planning>>

\* createOverlay reads the file and checks the edges.
CheckOverlay(c, k, north, south) ==
    /\ Doing(c, "idle") /\ k \in files /\ Usable(north, south)
    /\ Proceeds(c, [Waiting EXCEPT !.at = "adding", !.row = [key |-> k, north |-> north, south |-> south]])
    /\ UNCHANGED <<files, minted, overlays, embeds>>

AddOverlay(c, o) ==
    /\ Doing(c, "adding") /\ Fresh(o, overlays)
    /\ overlays' = With(overlays, o, planning[c].row)
    /\ minted' = [minted EXCEPT ![planning[c].row.key] = IF @ < Often THEN @ + 1 ELSE @]
    /\ Proceeds(c, Waiting)
    /\ UNCHANGED <<files, embeds>>

\* Mutant of EdgesWritten: only the edges that were given are written.
EdgesWrittenGiven(given, loaded, now) == [now EXCEPT !.north = IF "north" \in DOMAIN given THEN given["north"] ELSE @,
                                                     !.south = IF "south" \in DOMAIN given THEN given["south"] ELSE @]

\* updateOverlay writes all edges, those it was not given as it loaded them.
EdgesWritten(given, loaded, now) == [now EXCEPT !.north = IF "north" \in DOMAIN given THEN given["north"] ELSE loaded.north,
                                                !.south = IF "south" \in DOMAIN given THEN given["south"] ELSE loaded.south]

LoadEdges(c, o, given) ==
    /\ Doing(c, "idle") /\ o \in DOMAIN overlays
    /\ LET next == EdgesWritten(given, overlays[o], overlays[o]) IN Usable(next.north, next.south)
    /\ Proceeds(c, [at |-> "moving", on |-> o, row |-> [given |-> given, loaded |-> overlays[o]]])
    /\ UNCHANGED <<files, minted, overlays, embeds>>

MoveEdges(c) ==
    /\ Doing(c, "moving")
    /\ LET o == planning[c].on IN
         overlays' = IF o \in DOMAIN overlays
                     THEN [overlays EXCEPT ![o] = EdgesWritten(planning[c].row.given, planning[c].row.loaded, @)]
                     ELSE overlays
    /\ Proceeds(c, Waiting)
    /\ UNCHANGED <<files, minted, embeds>>

\* deleteOverlay: the row, and then its file.
DeleteOverlay(c, o) ==
    /\ Doing(c, "idle") /\ o \in DOMAIN overlays
    /\ overlays' = Without(overlays, o)
    /\ Proceeds(c, [Waiting EXCEPT !.at = "removing", !.row = overlays[o]])
    /\ UNCHANGED <<files, minted, embeds>>

\* The store may refuse, which is not reported.
RemoveFile(c, refused) ==
    /\ Doing(c, "removing")
    /\ files' = IF refused THEN files ELSE files \ {planning[c].row.key}
    /\ Proceeds(c, Waiting)
    /\ UNCHANGED <<minted, overlays, embeds>>

------------------------------------------------------------------------------
(* Embeds.                                                                   *)

CreateEmbed(e, kind, url) ==
    /\ Fresh(e, embeds) /\ Fits(kind, url)
    /\ embeds' = With(embeds, e, [kind |-> kind, url |-> url])
    /\ UNCHANGED <<files, minted, overlays, planning>>

\* updateEmbed writes the kind and the link the embed will have, and checks them.
LoadEmbed(c, e, given) ==
    /\ Doing(c, "idle") /\ e \in DOMAIN embeds
    /\ LET next == [field \in {"kind", "url"} |-> IF field \in DOMAIN given THEN given[field] ELSE embeds[e][field]] IN
         /\ given # <<>> => Fits(next.kind, next.url)
         /\ Proceeds(c, [at |-> "changing", on |-> e, row |-> next])
    /\ UNCHANGED <<files, minted, overlays, embeds>>

ChangeEmbed(c) ==
    /\ Doing(c, "changing")
    /\ embeds' = IF planning[c].on \in DOMAIN embeds
                 THEN [embeds EXCEPT ![planning[c].on] = planning[c].row] ELSE embeds
    /\ Proceeds(c, Waiting)
    /\ UNCHANGED <<files, minted, overlays>>

DeleteEmbed(e) ==
    /\ e \in DOMAIN embeds
    /\ embeds' = Without(embeds, e)
    /\ UNCHANGED <<files, minted, overlays, planning>>

\* A call breaks off between what it read and what it writes.
BreakOffPlan(c) ==
    /\ ~Doing(c, "idle")
    /\ Proceeds(c, Waiting)
    /\ UNCHANGED <<files, minted, overlays, embeds>>

\* The values a call may give for some of the fields.
Some(values) == UNION {[fields -> values] : fields \in SUBSET {"north", "south"} \ {{}}}

PlanNext ==
    \/ \E k \in UploadKeys : Upload(k)
    \/ \E c \in Planners :
         \/ \E k \in UploadKeys, north, south \in Edges : CheckOverlay(c, k, north, south)
         \/ \E o \in OverlayIds : AddOverlay(c, o) \/ DeleteOverlay(c, o)
         \/ \E o \in OverlayIds, given \in Some(Edges) : LoadEdges(c, o, given)
         \/ MoveEdges(c)
         \/ \E refused \in BOOLEAN : RemoveFile(c, refused)
         \/ \E e \in EmbedIds :
              \/ LoadEmbed(c, e, <<>>)
              \/ \E kind \in Kinds : LoadEmbed(c, e, [kind |-> kind])
              \/ \E url \in Urls : LoadEmbed(c, e, [url |-> url])
              \/ \E kind \in Kinds, url \in Urls : LoadEmbed(c, e, [kind |-> kind, url |-> url])
         \/ ChangeEmbed(c) \/ BreakOffPlan(c)
    \/ \E e \in EmbedIds, kind \in Kinds, url \in Urls : CreateEmbed(e, kind, url)
    \/ \E e \in EmbedIds : DeleteEmbed(e)

PlanSpec == PlanInit /\ [][PlanNext]_planVars
------------------------------------------------------------------------------
\* Every variable holds a value of its type.
PlanTypeOK ==
    /\ DOMAIN minted \subseteq UploadKeys /\ files \subseteq DOMAIN minted
    /\ \A k \in DOMAIN minted : minted[k] \in 0..Often
    /\ DOMAIN overlays \subseteq OverlayIds
    /\ \A o \in DOMAIN overlays : overlays[o] \in [key : UploadKeys, north : Edges, south : Edges]
    /\ DOMAIN embeds \subseteq EmbedIds
    /\ \A e \in DOMAIN embeds : embeds[e] \in [kind : Kinds, url : Urls]

\* The edges of an overlay are usable however many calls move one of them at a
\* time (boundsProblem: swapped edges are drawn inside out).
EdgesAreUsable == \A o \in DOMAIN overlays : Usable(overlays[o].north, overlays[o].south)

\* What is called a Matterport tour leads to one, though one call may change
\* the kind while another changes the link (embedUrlProblem).
LinksFit == \A e \in DOMAIN embeds : Fits(embeds[e].kind, embeds[e].url)

\* Every overlay has its file: deleteOverlay, "The file goes too: nothing else
\* points at it."  What the code does not keep: a key may be registered again.
OverlaysHaveFiles == \A o \in DOMAIN overlays : overlays[o].key \in files

\* An overlay whose file was registered once has it.
OverlaysHaveFilesAlone == \A o \in DOMAIN overlays : minted[overlays[o].key] = 1 => overlays[o].key \in files
=============================================================================
