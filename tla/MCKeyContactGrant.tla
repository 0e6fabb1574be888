------------------------- MODULE MCKeyContactGrant -------------------------
(***************************************************************************)
(* Three kinds of behaviours of KeyContactGrant in one instance: calm      *)
(* ones, where calls and changes come one after another; overtaken ones,   *)
(* where a record may change at any moment of the call that is running;    *)
(* and interleaved ones, where calls run beside one another.               *)
(***************************************************************************)
EXTENDS KeyContactGrant, TLC

CONSTANTS MaxInterleaved

Sym == Permutations(Contacts) \cup Permutations(Pairs)

VARIABLE pace    \* chosen at the start

calm == pace = "calm"
mcvars == <<vars, pace>>

MCInit == Init /\ pace \in {"calm", "overtaken", "interleaved"}

Busy == {w \in Workers : work[w] # Idle}
Starting == \E w \in Workers : work[w] = Idle /\ work'[w] # Idle

MCNext ==
    /\ Next
    /\ UNCHANGED pace
    /\ Starting /\ pace # "interleaved" => Busy = {} /\ \A w \in Workers : wire[w] = <<>>
    /\ IF calm
       THEN sf' # sf => Busy \subseteq {w \in Workers : work'[w] # work[w]}
       ELSE faults' = 0
    /\ pace = "interleaved" => changes' <= MaxInterleaved

MCSpec == MCInit /\ [][MCNext]_mcvars

(* In calm behaviours a tuple that nothing justifies is never left       *)
(* without an entry that names it (key_contact_grant.go, publishKeyContactFGA*)
(* to clearPendingRevoke), failures and crashes included.                    *)
CalmNoDangling == calm => NoDangling

(* Calm behaviours without failures withdraw every tuple that its last    *)
(* record stops justifying (revokeKeyContactPairIfUnjustified,               *)
(* revokeKeyContactGrantIfNoLongerLive), but for a marker that the entry of  *)
(* an active record carries on (clearRevokedGrant).                          *)
CalmWithdrawn == calm /\ faults = 0 => Withdrawn

(* In calm behaviours no revoke takes a tuple that a record justifies     *)
(* (keyContactPairJustified).                                                *)
CalmGranted == calm => Granted

(* The same without failures when records change inside a running call: what *)
(* a scan, a recheck or a reread found is out of date when the remove or the *)
(* put goes out ("the racing sibling can itself deactivate between the       *)
(* recheck read and the put", key_contact_grant.go:462), and the look after  *)
(* the put, the hand-over and the change's own event have to make up for it. *)
OvertakenSettled == pace = "overtaken" => NoDangling /\ Withdrawn /\ Granted

(* In calm behaviours clearRevokedGrant and clearPendingRevoke never drop *)
(* the only address of a pair whose remove is not made. Two revokes at once  *)
(* may: each finds the pair in the other's entry (pairDurablyOwned,          *)
(* key_contact_grant.go:1011) and both clear their own.                      *)
CalmAddressKept == [][calm => KeepsAddresses]_mcvars
=============================================================================
