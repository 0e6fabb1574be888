--------------------------- MODULE SettingsRecord ---------------------------
(***************************************************************************)
(* What the org-settings operations promise of the stored document: each   *)
(* is one atomic change of the current document that touches the entries   *)
(* of one person only, or, for a bulk update, replaces the lists given.    *)
(* OrgSettings, where an operation reads, computes and writes in separate  *)
(* steps beside others, implements it.                                     *)
(***************************************************************************)
EXTENDS SettingsData

CONSTANTS
    Initial,      \* documents an organization may start with
    Payloads      \* bulk updates: the lists given, and their new content

VARIABLE record

(* d and e differ in the entries of p only. *)
OthersKept(d, e, p) == \A l \in Roles, q \in People \ {p} : e[l][q] = d[l][q]

OnlyIn(e, p, l) == /\ e[l][p] # Absent
                   /\ \A k \in Roles \ {l} : e[k][p] = Absent

(* p had no live entry and gets one, in the list asked for. *)
Added(d, e, p, l) ==
    /\ \A k \in Roles : ~Live(d[k][p])
    /\ OthersKept(d, e, p)
    /\ OnlyIn(e, p, l)
    /\ Live(e[l][p])
    /\ WithinCap(e, l)

(* All entries of p become one in the list asked for, with the status that *)
(* conferred the most access; the last admin stays one.                    *)
Moved(d, e, p, l) ==
    /\ OthersKept(d, e, p)
    /\ OnlyIn(e, p, l)
    /\ \E k \in Roles : e[l][p].status = d[k][p].status
    /\ \A k \in Roles : Liveness(d[k][p]) <= Liveness(e[l][p])
    /\ WithinCap(e, l)
    /\ KeepsAdmin(d, e)

(* Every entry of p goes; the last admin stays. *)
Removed(d, e, p) ==
    /\ \E k \in Roles : d[k][p] # Absent
    /\ OthersKept(d, e, p)
    /\ \A k \in Roles : e[k][p] = Absent
    /\ KeepsAdmin(d, e)

(* A pending entry of p is accepted where it stands. *)
Promoted(d, e, p) ==
    \E l \in Roles : /\ d[l][p].status = "pending"
                     /\ e = [d EXCEPT ![l][p].status = "accepted"]

Replaced(d, e, given, lists) ==
    \A l \in Roles : IF l \in given THEN e[l] = lists[l] /\ WithinCap(e, l)
                                    ELSE e[l] = d[l]

----------------------------------------------------------------------------
Init == record \in Initial

Add(p, l)    == record' \in Records /\ Added(record, record', p, l)
Move(p, l)   == record' \in Records /\ Moved(record, record', p, l)
Remove(p)    == record' \in Records /\ Removed(record, record', p)
Promote(p)   == record' \in Records /\ Promoted(record, record', p)
Replace(u)   == record' \in Records /\ Replaced(record, record', u.given, u.lists)

Next == \/ \E p \in People, l \in Roles : Add(p, l) \/ Move(p, l)
        \/ \E p \in People : Remove(p) \/ Promote(p)
        \/ \E u \in Payloads : Replace(u)

Spec == Init /\ [][Next]_record

=============================================================================
