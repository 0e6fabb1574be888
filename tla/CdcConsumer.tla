---------------------------- MODULE CdcConsumer ----------------------------
(***************************************************************************)
(* The Change Data Capture consumer of internal/service/cdc_consumer.go:   *)
(* one goroutine that takes Salesforce events in order, turns each into    *)
(* search-index and authorization messages on one NATS connection, and     *)
(* commits the replay cursor once the event needs nothing more.            *)
(*                                                                         *)
(* The model covers the Account and the Asset handlers.  A record is a     *)
(* model value; its Salesforce state, its search document and its tuples   *)
(* are what the properties tell apart.  Left out: Project_Role__c, parent  *)
(* and child links (is_parent, hierarchy tuples), the owner re-check       *)
(* (RepairQueue has it), undecodable events and the start without any      *)
(* cursor (PubSubStream).  After a purge fga-sync may keep auditor-team    *)
(* subjects of an organization; they grant nothing there and count as gone.*)
(*                                                                         *)
(* Every failing call, quota pause, crash and reconnect spends one unit of *)
(* a fault budget, so that "eventually" is not refuted by a dependency     *)
(* that never answers again.                                               *)
(***************************************************************************)
EXTENDS Integers, Sequences, FiniteSets

CONSTANTS
    Accounts,      \* Salesforce Accounts, projected as b2b_org
    Assets,        \* Salesforce membership Assets, projected as project_membership
    MaxEvents,     \* bound: Salesforce changes logged
    MaxFaults,     \* bound: failures, crashes and reconnects
    Buffered       \* events the subscriber's channel may hold ahead of the consumer

Records == Accounts \union Assets

ASSUME ConsumerAssumption ==
    /\ Accounts \intersect Assets = {}
    /\ MaxEvents \in Nat
    /\ MaxFaults \in Nat
    /\ Buffered \in Nat

(***************************************************************************)
(* The tuples of a record fall in two groups: "team" stands for everything *)
(* an ordinary upsert writes (configured teams, structural references) and *)
(* "user" for the per-user grants only a restore or another component      *)
(* writes (org writers and auditors, key contacts of a membership).        *)
(***************************************************************************)
Groups == {"team", "user"}

(* What a Salesforce read shows of a record.  "unqualified" is live but     *)
(* outside the service's query; "unconvertible" is returned but malformed.  *)
Live   == {"qualifying", "unqualified", "unconvertible"}
Status == Live \union {"deleted"}

Messages == [op : {"put", "drop", "purge"}, id : Records]
              \union [op : {"grant"}, id : Records, rels : SUBSET Groups]

Put(r)      == [op |-> "put",   id |-> r]
Drop(r)     == [op |-> "drop",  id |-> r]
Purge(r)    == [op |-> "purge", id |-> r]
Grant(r, g) == [op |-> "grant", id |-> r, rels |-> g]

Kinds  == {"delete", "upsert", "restore"}
Events == [kind : Kinds, ids : SUBSET Records]

DeleteStages == {"delete", "flush", "purgeMarker", "indexMarker"}
UpsertStages == {"upsert", "absent", "absentFlush", "absentMarker",
                 "publish", "restoreFlush"}
Stages == {"idle", "save"} \union DeleteStages \union UpsertStages

(***************************************************************************)
(* A marker in the cdc-repair bucket.  "index" markers are drained by      *)
(* /admin/reindex; "purge" markers are kept for an operator.               *)
(***************************************************************************)
Markers == {"index", "purge"} \X Records

VARIABLES
    sf,        \* Salesforce: the state of every record
    log,       \* Salesforce: the change events, in order
    saved,     \* replay store: position of the committed cursor
    repair,    \* cdc-repair bucket: the pending markers
    logged,    \* records an ERROR log names for an operator's reindex
    index,     \* search index: the records with a document
    fga,       \* authorization model: the groups of tuples each record has
    wire,      \* messages handed to the NATS connection, not yet received
    at,        \* consumer: position of the last event taken
    stage,     \* consumer: where the handler stands
    todo,      \* delete: ids not handled yet; absent path: ids to queue
    hold,      \* delete: ids whose purge has no recovery left but a retry
    fetched,   \* upsert: qualifying records the Salesforce read returned
    absent,    \* upsert: requested ids the read did not return
    failed,    \* delete: the index delete failed; restore: a step failed
    faults,    \* faults spent
    again      \* history: records whose delete was handed out again from at or
               \* before the committed cursor and not followed by their last
               \* restore yet

external == <<sf, log, again>>
durable  == <<saved, repair, logged>>
outside  == <<index, fga, wire>>
volatile == <<at, stage, todo, hold, fetched, absent, failed>>
vars     == <<external, durable, outside, volatile, faults>>

----------------------------------------------------------------------------
Current == log[at]
Restoring == Current.kind = "restore"

(* No event past position n names r. *)
Settled(r, n) == \A i \in 1..Len(log) : r \in log[i].ids => i <= n

CanFail == faults < MaxFaults
Fault   == CanFail /\ faults' = faults + 1
NoFault == UNCHANGED faults

(* A step in which the call either succeeds (ok) or spends a fault. *)
Outcome(ok) == IF ok THEN NoFault ELSE Fault

(* The event's handler starts at its first stage, over the given ids. *)
Start(kind, ids) ==
    /\ stage' = IF kind = "delete" THEN "delete" ELSE "upsert"
    /\ todo' = ids
    /\ hold' = {}
    /\ fetched' = {}
    /\ absent' = {}
    /\ failed' = FALSE

Forget ==
    /\ todo' = {}
    /\ hold' = {}
    /\ fetched' = {}
    /\ absent' = {}
    /\ failed' = FALSE

Goto(s) == stage' = s

Send(msgs) == /\ wire' = wire \o msgs
              /\ UNCHANGED <<index, fga>>

(* The marker writes of one batch: those in ok land, the rest are logged. *)
QueueForRepair(ids, ok) ==
    /\ repair' = repair \union ({"index"} \X ok)
    /\ logged' = logged \union (ids \ ok)

(* The id a handler's loop is at.  Events carry their ids in some order;   *)
(* ids of one entity differ in nothing else, so one order stands for all.  *)
Id == CHOOSE r \in todo : TRUE

(* The messages of a step, when only some of its publishes are accepted.   *)
Optional(sent, msg) == IF sent THEN <<msg>> ELSE <<>>

----------------------------------------------------------------------------
(***************************************************************************)
(* Salesforce, and the broker with the services behind it.                 *)
(***************************************************************************)
Batches == ((SUBSET Accounts) \union (SUBSET Assets)) \ {{}}

Emit(kind, ids) ==
    /\ Len(log) < MaxEvents
    /\ log' = Append(log, [kind |-> kind, ids |-> ids])
    /\ UNCHANGED <<durable, outside, volatile, faults, again>>

DeleteRecords(ids) ==
    /\ \A r \in ids : sf[r] # "deleted"
    /\ sf' = [r \in Records |-> IF r \in ids THEN "deleted" ELSE sf[r]]
    /\ Emit("delete", ids)

ChangeRecords(ids, status) ==
    /\ \A r \in ids : sf[r] # "deleted"
    /\ sf' = [r \in Records |-> IF r \in ids THEN status ELSE sf[r]]
    /\ Emit("upsert", ids)

UndeleteRecords(ids, status) ==
    /\ \A r \in ids : sf[r] = "deleted"
    /\ sf' = [r \in Records |-> IF r \in ids THEN status ELSE sf[r]]
    /\ Emit("restore", ids)

(* The broker receives the oldest message and its subscriber applies it.   *)
(* A grant adds what the sender manages and preserves the rest; a purge    *)
(* withdraws every tuple of the object.                                    *)
Deliver ==
    /\ wire # <<>>
    /\ wire' = Tail(wire)
    /\ LET m == Head(wire) IN
         /\ index' = CASE m.op = "put"  -> index \union {m.id}
                       [] m.op = "drop" -> index \ {m.id}
                       [] OTHER         -> index
         /\ fga' = CASE m.op = "grant" -> [fga EXCEPT ![m.id] = @ \union m.rels]
                     [] m.op = "purge" -> [fga EXCEPT ![m.id] = {}]
                     [] OTHER          -> fga
    /\ UNCHANGED <<external, durable, volatile, faults>>

----------------------------------------------------------------------------
(***************************************************************************)
(* Run: take the next event, and commit the cursor after it.               *)
(***************************************************************************)
Take ==
    /\ stage = "idle"
    /\ at < Len(log)
    /\ at' = at + 1
    /\ Start(log[at + 1].kind, log[at + 1].ids)
    /\ again' = IF log[at + 1].kind = "delete" /\ at + 1 <= saved
                  THEN again \union log[at + 1].ids
                  ELSE again
    /\ UNCHANGED <<sf, log, durable, outside, faults>>

(* A failed Save is logged only; the loop moves on to the next event.      *)
Save ==
    /\ stage = "save"
    /\ \/ saved' = at /\ NoFault
       \/ Fault /\ UNCHANGED saved
    /\ Goto("idle")
    /\ Forget
    /\ again' = again \ {r \in Current.ids : Restoring /\ Settled(r, at)}
    /\ UNCHANGED <<sf, log, repair, logged, outside, at>>

(* Mutant: the keepalive commits a position it has not reached.            *)
KeepaliveAhead ==
    /\ stage = "idle"
    /\ at = Len(log)
    /\ saved # at
    /\ saved' = at + 1
    /\ UNCHANGED <<external, repair, logged, outside, volatile, faults>>

(* The keepalive of a stream with no event left passes through the same    *)
(* channel and commits its cursor without handling anything.               *)
Keepalive ==
    /\ stage = "idle"
    /\ at = Len(log)
    /\ saved # at
    /\ saved' = at
    /\ UNCHANGED <<external, repair, logged, outside, volatile, faults>>

(* The pod dies: what the connection had not yet sent is gone, and the     *)
(* next pod starts from the committed cursor.                              *)
Crash ==
    /\ Fault
    /\ wire' = <<>>
    /\ at' = saved
    /\ Goto("idle")
    /\ Forget
    /\ UNCHANGED <<external, durable, index, fga>>

(* The subscriber reconnects from the committed cursor while the channel   *)
(* still holds events that follow it: once these are handled, they come    *)
(* again.                                                                  *)
Reconnect ==
    /\ stage = "idle"
    /\ Fault
    /\ \E n \in 0..at :
         /\ n = saved \/ at - n <= Buffered
         /\ at' = n
    /\ UNCHANGED <<external, durable, outside, stage, todo, hold, fetched,
                   absent, failed>>

----------------------------------------------------------------------------
(***************************************************************************)
(* handleAccountDelete and handleAssetDelete, for one id after another.    *)
(***************************************************************************)
PublishDelete ==
    /\ stage = "delete"
    /\ todo # {}
    /\ \E drop, purge \in BOOLEAN :
         /\ Send(Optional(drop, Drop(Id)) \o Optional(purge, Purge(Id)))
         /\ failed' = ~drop
         /\ Goto(IF purge THEN "flush" ELSE "purgeMarker")
         /\ Outcome(drop /\ purge)
    /\ UNCHANGED <<external, durable, at, todo, hold, fetched, absent>>

(* Flush returns once the broker has everything sent before it, or fails   *)
(* and leaves the receipt unknown.                                         *)
ConfirmDelete ==
    /\ stage = "flush"
    /\ \/ /\ wire = <<>>
          /\ NoFault
          /\ IF failed
               THEN Goto("indexMarker") /\ UNCHANGED todo
               ELSE Goto("delete") /\ todo' = todo \ {Id}
       \/ /\ Fault
          /\ Goto("purgeMarker")
          /\ UNCHANGED todo
    /\ UNCHANGED <<external, durable, outside, at, hold, fetched, absent, failed>>

(* Mutant: an unrecorded purge is logged like any other failure.           *)
RecordFailedPurgeLogged ==
    /\ stage = "purgeMarker"
    /\ \/ /\ repair' = repair \union {<<"purge", Id>>}
          /\ NoFault
       \/ /\ Fault
          /\ UNCHANGED repair
    /\ Goto("indexMarker")
    /\ UNCHANGED <<external, saved, logged, outside, at, todo, hold, fetched,
                   absent, failed>>

(* recordFailedDeleteAccess, its three attempts taken together.            *)
RecordFailedPurge ==
    /\ stage = "purgeMarker"
    /\ \/ /\ repair' = repair \union {<<"purge", Id>>}
          /\ NoFault
          /\ UNCHANGED hold
       \/ /\ Fault
          /\ hold' = hold \union {Id}
          /\ UNCHANGED repair
    /\ Goto("indexMarker")
    /\ UNCHANGED <<external, saved, logged, outside, at, todo, fetched, absent,
                   failed>>

QueueUnconfirmedDelete ==
    /\ stage = "indexMarker"
    /\ \E ok \in SUBSET {Id} : QueueForRepair({Id}, ok) /\ Outcome(ok = {Id})
    /\ todo' = todo \ {Id}
    /\ Goto("delete")
    /\ UNCHANGED <<external, saved, outside, at, hold, fetched, absent, failed>>

(* Every id was tried: commit, or run the event again for the ids whose    *)
(* purge is neither delivered nor recorded.                                *)
FinishDelete ==
    /\ stage = "delete"
    /\ todo = {}
    /\ IF hold = {}
         THEN Goto("save") /\ UNCHANGED <<todo, hold, fetched, absent, failed>>
         ELSE Start("delete", hold)
    /\ UNCHANGED <<external, durable, outside, at, faults>>

----------------------------------------------------------------------------
(***************************************************************************)
(* handleAccountUpsertBatch and handleAssetUpsertBatch.  A restore whose   *)
(* tuples are not rebuilt and confirmed runs again; any other upsert moves *)
(* on whatever fails.                                                      *)
(***************************************************************************)
RetryOrSkip ==
    IF Restoring
      THEN Start("restore", Current.ids)
      ELSE Goto("save") /\ UNCHANGED <<todo, hold, fetched, absent, failed>>

(* The Salesforce quota guard: no read, every id to the repair queue.      *)
SkipForQuota ==
    /\ stage = "upsert"
    /\ Fault
    /\ \E ok \in SUBSET todo : QueueForRepair(todo, ok)
    /\ RetryOrSkip
    /\ UNCHANGED <<external, saved, outside, at>>

(* The batched read fails.  Accounts are queued for the repair run; Assets *)
(* are named in the log only; a restore leaves nothing and runs again.     *)
FetchFails ==
    /\ stage = "upsert"
    /\ Fault
    /\ IF Restoring
         THEN UNCHANGED <<repair, logged>>
         ELSE \E ok \in SUBSET (todo \intersect Accounts) : QueueForRepair(todo, ok)
    /\ RetryOrSkip
    /\ UNCHANGED <<external, saved, outside, at>>

(* A record the read returns but cannot convert counts as returned: it is  *)
(* neither published nor removed.                                          *)
Fetch ==
    /\ stage = "upsert"
    /\ fetched' = {r \in todo : sf[r] = "qualifying"}
    /\ absent' = {r \in todo : sf[r] \in {"unqualified", "deleted"}}
    /\ todo' = absent'
    /\ Goto("absent")
    /\ UNCHANGED <<external, durable, outside, at, hold, failed, faults>>

(* Mutant: the absent path withdraws authorization as a delete does.       *)
PublishAbsentPurges ==
    /\ stage = "absent"
    /\ todo # {}
    /\ \E ok \in BOOLEAN :
         /\ Send(Optional(ok, Drop(Id)) \o <<Purge(Id)>>)
         /\ hold' = IF ok THEN hold ELSE hold \union {Id}
         /\ Outcome(ok)
    /\ todo' = todo \ {Id}
    /\ UNCHANGED <<external, durable, at, stage, fetched, absent, failed>>

(* removeAbsentFromIndex: an index delete per absent id, one flush, and a  *)
(* marker for every id the flush did not confirm.                          *)
PublishAbsent ==
    /\ stage = "absent"
    /\ todo # {}
    /\ \E ok \in BOOLEAN :
         /\ Send(Optional(ok, Drop(Id)))
         /\ hold' = IF ok THEN hold ELSE hold \union {Id}
         /\ Outcome(ok)
    /\ todo' = todo \ {Id}
    /\ UNCHANGED <<external, durable, at, stage, fetched, absent, failed>>

(* Mutant: one failed publish skips the flush of the others.               *)
AbsentPublishedUnflushed ==
    /\ stage = "absent"
    /\ todo = {}
    /\ Goto(IF hold = {} /\ absent # {} THEN "absentFlush" ELSE "absentMarker")
    /\ UNCHANGED <<external, durable, outside, at, todo, hold, fetched, absent,
                   failed, faults>>

AbsentPublished ==
    /\ stage = "absent"
    /\ todo = {}
    /\ Goto(IF absent # hold THEN "absentFlush" ELSE "absentMarker")
    /\ UNCHANGED <<external, durable, outside, at, todo, hold, fetched, absent,
                   failed, faults>>

(* Mutant: a failed flush queues only the deletes that were not published. *)
ConfirmAbsentForgets ==
    /\ stage = "absentFlush"
    /\ \/ wire = <<>> /\ NoFault
       \/ Fault
    /\ Goto("absentMarker")
    /\ UNCHANGED <<external, durable, outside, at, todo, hold, fetched, absent,
                   failed>>

ConfirmAbsent ==
    /\ stage = "absentFlush"
    /\ \/ wire = <<>> /\ NoFault /\ UNCHANGED hold
       \/ Fault /\ hold' = absent
    /\ Goto("absentMarker")
    /\ UNCHANGED <<external, durable, outside, at, todo, fetched, absent, failed>>

QueueAbsent ==
    /\ stage = "absentMarker"
    /\ \E ok \in SUBSET hold : QueueForRepair(hold, ok) /\ Outcome(ok = hold)
    /\ hold' = {}
    /\ todo' = fetched
    /\ Goto("publish")
    /\ UNCHANGED <<external, saved, outside, at, fetched, absent, failed>>

(* publishB2BOrgUpsertEvents and the membership publishers: a failed       *)
(* publish is swallowed, and nothing is flushed.                           *)
PublishUpsert ==
    /\ stage = "publish"
    /\ ~Restoring
    /\ todo # {}
    /\ \E put, grant \in BOOLEAN :
         /\ Send(Optional(put, Put(Id)) \o Optional(grant, Grant(Id, {"team"})))
         /\ Outcome(put /\ grant)
    /\ todo' = todo \ {Id}
    /\ UNCHANGED <<external, durable, at, stage, hold, fetched, absent, failed>>

(* restoreOrgAccess sends one message with teams and users; a restored     *)
(* membership sends its structure and then its key contacts.  A source     *)
(* that cannot be read fails the restore even when all else was sent.      *)
RestoreMessages(r, first, second) ==
    IF r \in Accounts
      THEN Optional(first /\ second, Grant(r, Groups))
      ELSE Optional(first, Grant(r, {"team"})) \o Optional(second, Grant(r, {"user"}))

PublishRestore ==
    /\ stage = "publish"
    /\ Restoring
    /\ todo # {}
    /\ \E put, first, second, ok \in BOOLEAN :
         /\ ok => first /\ second
         /\ Send(Optional(put, Put(Id)) \o RestoreMessages(Id, first, second))
         /\ failed' = (failed \/ ~ok)
         /\ Outcome(put /\ ok)
    /\ todo' = todo \ {Id}
    /\ UNCHANGED <<external, durable, at, stage, hold, fetched, absent>>

(* Mutant: a restore whose records are all absent holds the cursor.        *)
FinishPublishHolds ==
    /\ stage = "publish"
    /\ todo = {}
    /\ IF Restoring /\ fetched = {}
         THEN Start("restore", Current.ids)
         ELSE /\ Goto(IF Restoring THEN "restoreFlush" ELSE "save")
              /\ UNCHANGED <<todo, hold, fetched, absent, failed>>
    /\ UNCHANGED <<external, durable, outside, at, faults>>

FinishPublish ==
    /\ stage = "publish"
    /\ todo = {}
    /\ Goto(IF Restoring /\ fetched # {} THEN "restoreFlush" ELSE "save")
    /\ UNCHANGED <<external, durable, outside, at, todo, hold, fetched, absent,
                   failed, faults>>

(* Mutant: a restore advances although its flush failed.                   *)
ConfirmRestoreAdvances ==
    /\ stage = "restoreFlush"
    /\ \/ /\ failed
          /\ NoFault
          /\ Start("restore", Current.ids)
       \/ /\ ~failed
          /\ \/ wire = <<>> /\ NoFault
             \/ Fault
          /\ Goto("save")
          /\ UNCHANGED <<todo, hold, fetched, absent, failed>>
    /\ UNCHANGED <<external, durable, outside, at>>

ConfirmRestore ==
    /\ stage = "restoreFlush"
    /\ \/ /\ failed
          /\ NoFault
          /\ Start("restore", Current.ids)
       \/ /\ ~failed
          /\ wire = <<>>
          /\ NoFault
          /\ Goto("save")
          /\ UNCHANGED <<todo, hold, fetched, absent, failed>>
       \/ Fault /\ Start("restore", Current.ids)
    /\ UNCHANGED <<external, durable, outside, at>>

----------------------------------------------------------------------------
Init ==
    /\ sf = [r \in Records |-> "qualifying"]
    /\ log = <<>>
    /\ saved = 0
    /\ repair = {}
    /\ logged = {}
    /\ index = Records
    /\ fga = [r \in Records |-> Groups]
    /\ wire = <<>>
    /\ at = 0
    /\ stage = "idle"
    /\ todo = {}
    /\ hold = {}
    /\ fetched = {}
    /\ absent = {}
    /\ failed = FALSE
    /\ faults = 0
    /\ again = {}

Salesforce ==
    \/ \E ids \in Batches : DeleteRecords(ids)
    \/ \E ids \in Batches, status \in Live : ChangeRecords(ids, status)
    \/ \E ids \in Batches, status \in Live : UndeleteRecords(ids, status)

HandleDelete == \/ PublishDelete
                \/ ConfirmDelete
                \/ RecordFailedPurge
                \/ QueueUnconfirmedDelete
                \/ FinishDelete

HandleUpsert == \/ SkipForQuota
                \/ FetchFails
                \/ Fetch
                \/ PublishAbsent
                \/ AbsentPublished
                \/ ConfirmAbsent
                \/ QueueAbsent
                \/ PublishUpsert
                \/ PublishRestore
                \/ FinishPublish
                \/ ConfirmRestore

Run == Take \/ HandleDelete \/ HandleUpsert \/ Save

Next == \/ Salesforce
        \/ Deliver
        \/ Run
        \/ Keepalive
        \/ Crash
        \/ Reconnect

Spec == Init /\ [][Next]_vars

(* The consumer's goroutine, the broker and Salesforce's keepalives keep   *)
(* going; nothing obliges Salesforce to change or a fault to happen.       *)
Fairness == WF_vars(Run) /\ WF_vars(Deliver) /\ WF_vars(Keepalive)

FairSpec == Spec /\ Fairness

----------------------------------------------------------------------------
(* The shape of the state, and that no position leaves the log.            *)
TypeOK ==
    /\ sf \in [Records -> Status]
    /\ log \in Seq(Events)
    /\ saved \in 0..Len(log)
    /\ repair \subseteq Markers
    /\ logged \subseteq Records
    /\ index \subseteq Records
    /\ fga \in [Records -> SUBSET Groups]
    /\ wire \in Seq(Messages)
    /\ at \in 0..Len(log)
    /\ stage \in Stages
    /\ todo \subseteq Records
    /\ hold \subseteq Records
    /\ fetched \subseteq Records
    /\ absent \subseteq Records
    /\ failed \in BOOLEAN
    /\ faults \in 0..MaxFaults
    /\ again \subseteq Records
    /\ stage # "idle" => at > 0

(* A record Salesforce deleted, whose events are all behind the committed  *)
(* cursor, keeps no tuple unless a purge marker names it: the purge is the *)
(* one message nothing but redelivery could bring back.                    *)
PurgeAddressed ==
    \A r \in Records :
        sf[r] = "deleted" /\ Settled(r, saved) /\ fga[r] # {}
            => <<"purge", r>> \in repair

(* A record outside the service's query, whose events are all behind the   *)
(* committed cursor, has left the search index or is named for repair: a   *)
(* full reindex would never visit it again.                                *)
RemovalQueued ==
    \A r \in index :
        sf[r] \in {"unqualified", "deleted"} /\ Settled(r, saved)
            => <<"index", r>> \in repair \/ r \in logged

(* The last event of r is a restore, at or before position n.              *)
RestoredBy(r, n) ==
    \E i \in 1..Len(log) : /\ i <= n
                           /\ r \in log[i].ids
                           /\ log[i].kind = "restore"
                           /\ Settled(r, i)

(* A restored record has all its tuples once the cursor has passed its     *)
(* restore: no reindex rebuilds the per-user ones.  The one exception is a *)
(* record whose delete came once more from before the cursor, until its    *)
(* restore has come again behind it; RedeliverySafe asks for those too.    *)
RestoredTuples ==
    \A r \in Records \ again :
        sf[r] = "qualifying" /\ RestoredBy(r, saved) => fga[r] = Groups

(* The consumer has handled and committed every event and everything it    *)
(* sent has arrived.                                                       *)
Quiet == /\ stage = "idle"
         /\ at = Len(log)
         /\ saved = Len(log)
         /\ wire = <<>>

(* docs/cdc-consumer.md on redelivery: "The indexer and fga-sync messages  *)
(* are all idempotent upserts, so re-delivery is safe."  Once everything   *)
(* has been handled, a restored record has its tuples, whatever was        *)
(* redelivered on the way.                                                 *)
RedeliverySafe ==
    Quiet => \A r \in Records :
                sf[r] = "qualifying" /\ RestoredBy(r, saved) => fga[r] = Groups

(* Tuples are withdrawn only from a record with a delete event behind the  *)
(* consumer: a record that merely stopped qualifying, or that a read did   *)
(* not return, keeps its authorization.                                    *)
WithdrawnOnlyByDelete ==
    [][\A r \in Records :
          ~(fga[r] \subseteq fga'[r]) =>
              \E i \in 1..Len(log) : r \in log[i].ids /\ log[i].kind = "delete"]_vars

(* Once the faults are over, the consumer handles every event and commits  *)
(* the last one: neither a hold nor an absent restore stalls the channel.  *)
CatchesUp == <>[](stage = "idle" /\ saved = Len(log))

=============================================================================
