---------------------------- MODULE MCRepairQueue ----------------------------
(***************************************************************************)
(* What an operator runs to repair the index, each on its own in one       *)
(* instance: drains of the repair queue, and reindex runs.  Drains come in *)
(* two kinds of behaviours: one drain beside a consumer that only queues,  *)
(* and every drain beside a consumer that queues and publishes, with       *)
(* smaller bounds.                                                         *)
(***************************************************************************)
EXTENDS RepairQueue, BackfillRun, TLC

CONSTANTS
    First,             \* the drain of the behaviours with one
    SharedChanges,     \* bounds of the others
    SharedFaults

VARIABLES
    part,              \* what is run
    alone              \* one drain, chosen at the start

MCInit ==
    /\ Init /\ BInit
    /\ part \in {"drain", "reindex"}
    /\ alone \in BOOLEAN
    /\ part = "drain" =>
          /\ plan = <<Full>> /\ day = 0
          /\ \A r \in Assets : asset[r].state = "live" /\ shown[r] = 1
    /\ part = "reindex" => alone

QueueOnly ==
    /\ handling' = Idle
    /\ deleted' = {}
    /\ \A d \in Drains \ {First} : step'[d] = "idle"

DrainNext ==
    /\ Next
    /\ IF alone THEN QueueOnly
       ELSE clock' <= SharedChanges /\ faults' <= SharedFaults

MCNext ==
    /\ \/ part = "drain" /\ DrainNext /\ UNCHANGED bvars
       \/ part = "reindex" /\ BNext /\ UNCHANGED vars
    /\ UNCHANGED <<part, alone>>

MCSpec == MCInit /\ [][MCNext]_<<vars, bvars, part, alone>>

(* Memberships of a reindex are alike, and so are the plans for them. *)
Symmetry == Permutations(Assets)

(* With one drain of the queue at a time (cdc_repair.go, RunRepair), once  *)
(* the queue is drained the search index shows every record's last change. *)
ConvergesAlone == alone => Converges
=============================================================================
