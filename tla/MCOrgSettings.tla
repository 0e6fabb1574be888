--------------------------- MODULE MCOrgSettings ---------------------------
(***************************************************************************)
(* Small instances of OrgSettings: two or three people, the documents an   *)
(* organization may start with, and the bulk updates of the runs.          *)
(***************************************************************************)
EXTENDS OrgSettings, TLC

CONSTANTS
    p1, p2, p3, r1, r2, r3,
    Actors        \* people of the requests that run one after another

Pair == {p1, p2}
Trio == {p1, p2, p3}

NoOne == [p \in People |-> Absent]

(* The record with the given entries; the rest of both lists is empty.     *)
With(writers, auditors) ==
    [l \in Roles |-> (IF l = "writer" THEN writers ELSE auditors) @@ NoOne]

Writer(status)  == Entry(status, "writer")
Auditor(status) == Entry(status, "auditor")

(* Nobody yet; one admin; two admins; an admin and a lapsed auditor.       *)
SingleEntries == {
    EmptyRecord,
    With(p1 :> Writer("accepted"), <<>>),
    With(p1 :> Writer("accepted") @@ p2 :> Writer("accepted"), <<>>),
    With(p1 :> Writer("accepted"), p2 :> Auditor("lapsed")) }

(* ... and what one operation makes of these: an invitation, to one role   *)
(* or again after a removal.                                               *)
InvitedEntries == {
    With(<<>>, p2 :> Auditor("pending")),
    With(p2 :> Writer("pending"), <<>>),
    With(p1 :> Writer("accepted") @@ p2 :> Writer("pending"), <<>>),
    With(p1 :> Writer("accepted"), p2 :> Auditor("pending")),
    With(p1 :> Writer("accepted"), p2 :> Auditor("accepted")) }

AllEntries == SingleEntries \union InvitedEntries

(* Bulk updates: no auditors; p2, once invited as an auditor, the only     *)
(* admin and p1 pending in both lists.                                     *)
BulkUpdates == {
    [given |-> {"auditor"}, lists |-> EmptyRecord],
    [given |-> Roles,       lists |-> With(p2 :> Auditor("accepted") @@ p1 :> Writer("pending"),
                                           p1 :> Auditor("pending"))] }

(* Bulk updates that list accepted people only. *)
AcceptedUpdates == {
    [given |-> {"auditor"}, lists |-> EmptyRecord],
    [given |-> {"writer"},  lists |-> With(p2 :> Writer("accepted"), <<>>)],
    [given |-> Roles,       lists |-> With(p1 :> Writer("accepted"),
                                           p1 :> Auditor("accepted"))] }

NoUpdates  == {}
AllUpdates == BulkUpdates \union AcceptedUpdates

TwoRequests   == {r1, r2}

Symmetry == Permutations(Requests)

----------------------------------------------------------------------------
(***************************************************************************)
(* Two kinds of behaviours in one instance: requests of two people one     *)
(* after another without failures, and requests beside each other.         *)
(***************************************************************************)
VARIABLE alone    \* chosen at the start

Calls(r) == op[r] = NoOp /\ op'[r] # NoOp
Bulks(updates) == \A r \in Requests : Calls(r) /\ op'[r] = Bulk =>
    [given |-> sync'[r], lists |-> new'[r]] \in updates

AtMostOne == \A q, r \in Busy : q = r

(* No bulk update lists anybody as pending. *)
BulksUnpending == \A r \in Requests : Calls(r) /\ op'[r] = Bulk =>
    \A l \in sync'[r], p \in People : new'[r][l][p].status # "pending"

OneByOne ==
    /\ AtMostOne'
    /\ faults' = 0
    /\ registered' \subseteq Actors
    /\ \A r \in Requests : op'[r].who \notin People \ Actors
    /\ BulksUnpending

(* Who is pending in one list has nothing live in the other.               *)
Regular(d) == \A l \in Roles, p \in People : d[l][p].status = "pending" =>
    \A k \in Roles \ {l} : ~Live(d[k][p])

MCInit ==
    /\ Init
    /\ alone \in BOOLEAN
    /\ IF alone THEN Regular(doc) ELSE doc \in SingleEntries
MCNext ==
    /\ Next
    /\ UNCHANGED alone
    /\ IF alone THEN OneByOne ELSE Bulks(BulkUpdates)
MCSpec == MCInit /\ [][MCNext]_<<vars, alone>>

(* Operations one after another leave the tuples and the search document   *)
(* as the stored lists (publishAfterWrite).                                *)
PublishedAlone == alone => Published

(* ... and nobody who has an account, and no event on its way, pending     *)
(* (invite_accepted.go, promote).                                          *)
PendingAlone == alone => PendingHasNoAccount
=============================================================================
