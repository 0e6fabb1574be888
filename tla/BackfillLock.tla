---------------------------- MODULE BackfillLock ----------------------------
(***************************************************************************)
(* The cluster-wide lock of a full reindex of one type:                    *)
(* AcquireFullRunLock of internal/infrastructure/nats/backfill_lock.go and *)
(* its use by Runner.Run of internal/service/backfill_runner.go.  A run is *)
(* one full-mode request, served by a goroutine of some pod.  What it does *)
(* while it holds the lock is left out.                                    *)
(*                                                                         *)
(* A lock is stale once two hours have passed since its holder asked for   *)
(* it.  A run lasts less than that, unless LongRuns, and then it counts    *)
(* as a loss like a pod that dies or a call that fails.  A malformed value *)
(* of the key, which the code takes for stale, is never written.           *)
(***************************************************************************)
EXTENDS Naturals

CONSTANTS
    Runs,        \* full-mode requests for the type
    LongRuns,    \* a run may hold the lock for more than two hours
    MaxLosses    \* bound: pods that die, calls that fail, runs that are too long

ASSUME LockAssumption ==
    /\ "none" \notin Runs
    /\ LongRuns \in BOOLEAN
    /\ MaxLosses \in Nat

VARIABLES
    lock,     \* the KV entry: NoLock, or its run and whether it is stale
    pc,       \* where each run stands
    losses

vars == <<lock, pc, losses>>

NoLock == [run |-> "none", stale |-> FALSE]
Locks  == [run : Runs, stale : BOOLEAN] \union {NoLock}

Holding == {"running", "releasing"}
Ended   == {"ended", "dead"}

Goto(r, s) == pc' = [pc EXCEPT ![r] = s]
Loss   == losses < MaxLosses /\ losses' = losses + 1
NoLoss == UNCHANGED losses

Own(r) == [run |-> r, stale |-> FALSE]

----------------------------------------------------------------------------
(* Mutant: Put instead of Create.                                          *)
CreateAlways(r) ==
    /\ pc[r] = "create"
    /\ lock' = Own(r)
    /\ Goto(r, "running")
    /\ NoLoss

(* kv.Create: only the run that finds no key gets the lock.  A call that   *)
(* times out may have been applied; the request is skipped all the same.   *)
Create(r) ==
    /\ pc[r] = "create"
    /\ \/ lock = NoLock /\ lock' = Own(r) /\ Goto(r, "running") /\ NoLoss
       \/ lock # NoLock /\ UNCHANGED lock /\ Goto(r, "inspect") /\ NoLoss
       \/ Loss /\ lock' \in {lock, IF lock = NoLock THEN Own(r) ELSE lock}
               /\ Goto(r, "ended")

(* Mutant: a held lock is refused whatever its age.                        *)
InspectRefuses(r) ==
    /\ pc[r] = "inspect"
    /\ Goto(r, "ended")
    /\ UNCHANGED <<lock, losses>>

(* kv.Get: a stale lock is forced; a live one, or none, ends the request.  *)
Inspect(r) ==
    /\ pc[r] = "inspect"
    /\ \/ lock # NoLock /\ lock.stale /\ Goto(r, "delete") /\ NoLoss
       \/ (lock = NoLock \/ ~lock.stale) /\ Goto(r, "ended") /\ NoLoss
       \/ Loss /\ Goto(r, "ended")
    /\ UNCHANGED lock

(* kv.Delete, whatever the key holds by now. *)
Delete(r) ==
    /\ pc[r] = "delete"
    /\ \/ lock' = NoLock /\ Goto(r, "recreate") /\ NoLoss
       \/ Loss /\ lock' \in {lock, NoLock} /\ Goto(r, "ended")

(* kv.Create again: a run that got in between keeps the lock.              *)
Recreate(r) ==
    /\ pc[r] = "recreate"
    /\ \/ lock = NoLock /\ lock' = Own(r) /\ Goto(r, "running") /\ NoLoss
       \/ lock # NoLock /\ UNCHANGED lock /\ Goto(r, "ended") /\ NoLoss
       \/ Loss /\ lock' \in {lock, IF lock = NoLock THEN Own(r) ELSE lock}
               /\ Goto(r, "ended")

(* runType returns.                                                        *)
RunType(r) ==
    /\ pc[r] = "running"
    /\ Goto(r, "releasing")
    /\ UNCHANGED <<lock, losses>>

(* release: the key is deleted, whoever holds it; a failure is only logged. *)
Release(r) ==
    /\ pc[r] = "releasing"
    /\ \/ lock' = NoLock /\ NoLoss
       \/ Loss /\ UNCHANGED lock
    /\ Goto(r, "ended")

(* The pod serving the run dies. *)
Die(r) ==
    /\ pc[r] \notin Ended
    /\ Loss
    /\ Goto(r, "dead")
    /\ UNCHANGED lock

(* Two hours pass. *)
Expire ==
    /\ lock # NoLock
    /\ ~lock.stale
    /\ lock' = [lock EXCEPT !.stale = TRUE]
    /\ \/ pc[lock.run] \notin Holding /\ NoLoss
       \/ pc[lock.run] \in Holding /\ LongRuns /\ Loss
    /\ UNCHANGED pc

----------------------------------------------------------------------------
Init ==
    /\ lock = NoLock
    /\ pc = [r \in Runs |-> "create"]
    /\ losses = 0

AcquireFullRunLock(r) == Create(r) \/ Inspect(r) \/ Delete(r) \/ Recreate(r)

Run(r) == AcquireFullRunLock(r) \/ RunType(r) \/ Release(r)

Next == \/ \E r \in Runs : Run(r) \/ Die(r)
        \/ Expire

Spec == Init /\ [][Next]_vars

(* Every goroutine keeps running; time passes. *)
FairSpec == /\ Spec
            /\ \A r \in Runs : WF_vars(Run(r))
            /\ WF_vars(Expire)

----------------------------------------------------------------------------
(* The shape of the state. *)
TypeOK ==
    /\ lock \in Locks
    /\ pc \in [Runs -> {"create", "inspect", "delete", "recreate"}
                         \union Holding \union Ended]
    /\ losses \in 0..MaxLosses

(* backfill_lock.go: "It uses an atomic NATS KV Create (revision 0) so     *)
(* only one pod can hold the lock per type at a time."                     *)
MutualExclusion ==
    \A r, s \in Runs : pc[r] \in Holding /\ pc[s] \in Holding => r = s

(* What Create alone achieves: as long as no pod died, no call failed and  *)
(* no run was too long, no lock is ever taken over, and one run holds it.  *)
ExclusiveUntilLoss == losses = 0 => MutualExclusion

(* A lock left behind does not block its type: a request that comes after  *)
(* it went stale, once pods and calls no longer fail, is followed by a     *)
(* full run, its own or another's.                                         *)
Takeover ==
    \A r \in Runs :
        (losses = MaxLosses /\ lock # NoLock /\ lock.stale /\ pc[r] = "create")
            ~> \E s \in Runs : pc[s] \in Holding

=============================================================================
