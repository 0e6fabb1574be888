---------------------------- MODULE RepairQueue ----------------------------
(***************************************************************************)
(* The cdc-repair queue: markers the consumer writes for records it could  *)
(* not bring up to date (internal/infrastructure/nats/cdc_repair.go), and  *)
(* the /admin/reindex drains that reindex a page of them and remove each   *)
(* marker at the revision they selected (internal/service/                 *)
(* backfill_runner.go).  Drains run on any replica and take no lock.       *)
(*                                                                         *)
(* An account and its Membership Asset share a model value.  The Account   *)
(* is an organization exactly while the Asset exists (no Company Account   *)
(* rule), so a first membership makes its owner eligible without an        *)
(* Account event.  A search document is the version of its record, 0 for   *)
(* none.  A message is delivered in the step that publishes it; the        *)
(* connection and its flush are in CdcConsumer.  Authorization, key        *)
(* contacts and parent links are left out, and so is UNDELETE.             *)
(***************************************************************************)
EXTENDS Integers, FiniteSets

CONSTANTS
    Accounts,      \* an Account and the Membership Asset it may own
    Drains,        \* repair drains that may run at the same time
    PageCap,       \* markers a drain selects at most (repairPageCap)
    Kinds,         \* changes that happen: "create", "update", "delete"
    Handling,      \* what the consumer does with an upsert: "publish", "queue"
    MaxChanges,    \* bound: Salesforce changes
    MaxFaults      \* bound: failed calls, quota stops and drain crashes

ASSUME RepairAssumption ==
    /\ PageCap \in Nat \ {0}
    /\ Kinds \subseteq {"create", "update", "delete"}
    /\ Handling \subseteq {"publish", "queue"}
    /\ MaxChanges \in Nat
    /\ MaxFaults \in Nat

Types   == {"b2b_org", "project_membership"}
Records == Types \X Accounts

Org(a)        == <<"b2b_org", a>>
Membership(a) == <<"project_membership", a>>
TypeOf(r)     == r[1]
Owner(r)      == Org(r[2])

None     == 0
NoRecord == <<"none", "none">>
Steps == {"idle", "snapshot", "next", "owner", "project", "clear"}

VARIABLES
    version,     \* Salesforce: the last change of every record, None if there is none
    deleted,     \* Salesforce: deleted records; an id is never used again
    clock,       \* Salesforce: changes so far
    pending,     \* consumer: change events not taken yet
    handling,    \* consumer: the change being published, with the document read for it
    markers,     \* repair bucket: the revision of every marker, None if absent
    revision,    \* repair bucket: last revision given
    logged,      \* records an ERROR log names for an operator
    index,       \* search index: the document of every record
    step,        \* drain: where it stands
    page,        \* drain: selected markers not processed yet
    eligible,    \* drain: the accounts its page read found eligible
    item,        \* drain: the marker in hand
    doc,         \* drain: the document read for it
    readAt,      \* history: the bucket's revision when the drain's data was read
    covered,     \* history: latest readAt of a record's confirmed projections
    skipped,     \* history: revision of the last marker written for a record
    faults

salesforce == <<version, deleted, clock>>
consumer   == <<pending, handling>>
bucket     == <<markers, revision, skipped>>
drain      == <<step, page, eligible, item, doc, readAt>>
vars == <<salesforce, consumer, bucket, logged, index, drain, covered, faults>>

----------------------------------------------------------------------------
Fault   == faults < MaxFaults /\ faults' = faults + 1
NoFault == UNCHANGED faults

(* model.IsB2BOrgEligible for an Account that is no Company Account. *)
Eligible(a) == version[Org(a)] # None /\ version[Membership(a)] # None

(* PutPending: a plain Put, so a later marker replaces an earlier one. *)
PutPending(r) ==
    /\ revision' = revision + 1
    /\ markers' = [markers EXCEPT ![r] = revision + 1]
    /\ skipped' = [skipped EXCEPT ![r] = revision + 1]

----------------------------------------------------------------------------
(***************************************************************************)
(* Salesforce.                                                             *)
(***************************************************************************)
Change(kind, r, v) ==
    /\ kind \in Kinds
    /\ clock < MaxChanges
    /\ clock' = clock + 1
    /\ version' = [version EXCEPT ![r] = v]
    /\ pending' = pending \union {[rec |-> r, kind |-> kind]}
    /\ UNCHANGED <<handling, bucket, logged, index, drain, covered, faults>>

Create(r) ==
    /\ version[r] = None
    /\ r \notin deleted
    /\ Change("create", r, clock + 2)
    /\ UNCHANGED deleted

Update(r) ==
    /\ version[r] # None
    /\ Change("update", r, clock + 2)
    /\ UNCHANGED deleted

Delete(r) ==
    /\ version[r] # None
    /\ Change("delete", r, None)
    /\ deleted' = deleted \union {r}

----------------------------------------------------------------------------
(***************************************************************************)
(* The consumer: skip a change for its quota, or read and publish it.      *)
(***************************************************************************)
Idle == [rec |-> NoRecord, kind |-> "none", doc |-> None]

(* recordSkippedForRepair: a marker per record, the ids it could not write *)
(* in the log.                                                             *)
Queue(r) == \/ PutPending(r) /\ NoFault /\ UNCHANGED logged
            \/ Fault /\ logged' = logged \union {r} /\ UNCHANGED bucket

Skip ==
    /\ "queue" \in Handling
    /\ handling = Idle
    /\ \E e \in pending :
         /\ e.kind # "delete"
         /\ pending' = pending \ {e}
         /\ Queue(e.rec)
    /\ UNCHANGED <<salesforce, handling, index, drain, covered>>

Document(r) == IF TypeOf(r) = "b2b_org" /\ ~Eligible(r[2]) THEN None ELSE version[r]

(* A delete event is handled without a read and whatever the quota.        *)
Read ==
    /\ handling = Idle
    /\ \E e \in pending :
         /\ e.kind = "delete" \/ "publish" \in Handling
         /\ pending' = pending \ {e}
         /\ handling' = [rec |-> e.rec, kind |-> e.kind,
                         doc |-> IF e.kind = "delete" THEN None ELSE Document(e.rec)]
    /\ UNCHANGED <<salesforce, bucket, logged, index, drain, covered, faults>>

(* A failed index delete is queued, a failed upsert only logged.  The      *)
(* owner of a created membership is then read and published in turn.       *)
Publish ==
    /\ handling # Idle
    /\ LET r == handling.rec IN
         /\ \/ index' = [index EXCEPT ![r] = handling.doc] /\ NoFault
                 /\ UNCHANGED <<bucket, logged>>
            \/ Fault /\ UNCHANGED index
                 /\ IF handling.doc = None
                      THEN PutPending(r) /\ UNCHANGED logged
                      ELSE logged' = logged \union {r} /\ UNCHANGED bucket
         /\ handling' =
              IF TypeOf(r) = "project_membership" /\ handling.kind = "create" /\ handling.doc # None
                THEN [rec |-> Owner(r), kind |-> "update", doc |-> Document(Owner(r))]
                ELSE Idle
    /\ UNCHANGED <<salesforce, pending, drain, covered>>

----------------------------------------------------------------------------
(***************************************************************************)
(* A drain: PrepareRepair, then RunRepair over the selected page.          *)
(***************************************************************************)
Goto(d, s) == step' = [step EXCEPT ![d] = s]

Smaller(m, n) == IF m < n THEN m ELSE n

(* Mutant: a marker drained between the listing of its key and its Get is  *)
(* selected without a revision.                                            *)
SelectAbsent(d) ==
    /\ step[d] = "idle"
    /\ \E r \in Records :
         /\ page' = [page EXCEPT ![d] = {[rec |-> r, rev |-> markers[r]]}]
         /\ Goto(d, IF TypeOf(r) = "b2b_org" THEN "snapshot" ELSE "next")
    /\ UNCHANGED <<salesforce, consumer, bucket, logged, index, eligible, item,
                   doc, readAt, covered, faults>>

(* ListPending: up to PageCap markers of one type, in no promised order,   *)
(* each with its revision.                                                 *)
Select(d) ==
    /\ step[d] = "idle"
    /\ \E t \in Types :
         LET keys == {r \in {t} \X Accounts : markers[r] # None} IN
         \E ks \in SUBSET keys :
           /\ ks # {}
           /\ Cardinality(ks) = Smaller(PageCap, Cardinality(keys))
           /\ page' = [page EXCEPT ![d] = {[rec |-> r, rev |-> markers[r]] : r \in ks}]
           /\ Goto(d, IF t = "b2b_org" THEN "snapshot" ELSE "next")
    /\ UNCHANGED <<salesforce, consumer, bucket, logged, index, eligible, item,
                   doc, readAt, covered, faults>>

(* Eligibility is read once for the page. *)
Snapshot(d) ==
    /\ step[d] = "snapshot"
    /\ eligible' = [eligible EXCEPT ![d] = {a \in Accounts : Eligible(a)}]
    /\ readAt' = [readAt EXCEPT ![d] = revision]
    /\ Goto(d, "next")
    /\ UNCHANGED <<salesforce, consumer, bucket, logged, index, page, item, doc,
                   covered, faults>>

(* reindexItem up to its publishes.  An Account outside the snapshot, and  *)
(* a record Salesforce no longer has, is to be removed from the index.     *)
Fetch(d) ==
    /\ step[d] = "next"
    /\ \E m \in page[d] :
         LET r == m.rec
             org == TypeOf(r) = "b2b_org"
             found == IF org /\ r[2] \notin eligible[d] THEN None ELSE version[r]
         IN
         /\ page' = [page EXCEPT ![d] = @ \ {m}]
         /\ item' = [item EXCEPT ![d] = m]
         /\ doc' = [doc EXCEPT ![d] = found]
         /\ readAt' = IF org THEN readAt ELSE [readAt EXCEPT ![d] = revision]
         /\ Goto(d, IF org \/ found = None THEN "project" ELSE "owner")
    /\ UNCHANGED <<salesforce, consumer, bucket, logged, index, eligible, covered,
                   faults>>

(* Mutant: a published membership does not queue its owner.                *)
QueueOwnerForgets(d) ==
    /\ step[d] = "owner"
    /\ NoFault
    /\ Goto(d, "project")
    /\ UNCHANGED <<salesforce, consumer, bucket, logged, index, page, eligible,
                   item, doc, readAt, covered>>

(* The owner of a membership is queued before the membership is published; *)
(* without its marker the membership's own marker stays.                   *)
QueueOwner(d) ==
    /\ step[d] = "owner"
    /\ \/ PutPending(Owner(item[d].rec)) /\ NoFault /\ Goto(d, "project")
       \/ Fault /\ Goto(d, "next") /\ UNCHANGED bucket
    /\ UNCHANGED <<salesforce, consumer, logged, index, page, eligible, item, doc,
                   readAt, covered>>

Cover(d) ==
    covered' = [covered EXCEPT ![item[d].rec] = IF @ < readAt[d] THEN readAt[d] ELSE @]

(* confirmPublished and removeFromIndex: published and flushed, or a retry *)
(* that may have delivered all the same.                                   *)
Project(d) ==
    /\ step[d] = "project"
    /\ \/ /\ NoFault
          /\ index' = [index EXCEPT ![item[d].rec] = doc[d]]
          /\ Cover(d)
          /\ Goto(d, "clear")
       \/ /\ Fault
          /\ \/ index' = [index EXCEPT ![item[d].rec] = doc[d]]
             \/ UNCHANGED index
          /\ Goto(d, "next")
          /\ UNCHANGED covered
    /\ UNCHANGED <<salesforce, consumer, bucket, logged, page, eligible, item, doc,
                   readAt>>

(* Mutant: the marker is deleted whatever its revision.                    *)
ClearUnconditionally(d) ==
    /\ step[d] = "clear"
    /\ markers' = [markers EXCEPT ![item[d].rec] = None]
    /\ NoFault
    /\ Goto(d, "next")
    /\ UNCHANGED <<salesforce, consumer, revision, skipped, logged, index, page,
                   eligible, item, doc, readAt, covered>>

(* DeletePending: at another revision it is a conflict and the marker      *)
(* stays, and one already absent is as good as deleted.                    *)
Clear(d) ==
    /\ step[d] = "clear"
    /\ \/ /\ markers[item[d].rec] = item[d].rev
          /\ markers' = [markers EXCEPT ![item[d].rec] = None]
          /\ NoFault
       \/ markers[item[d].rec] # item[d].rev /\ NoFault /\ UNCHANGED markers
       \/ Fault /\ UNCHANGED markers
    /\ Goto(d, "next")
    /\ UNCHANGED <<salesforce, consumer, revision, skipped, logged, index, page,
                   eligible, item, doc, readAt, covered>>

Finish(d) ==
    /\ step[d] = "next"
    /\ page[d] = {}
    /\ Goto(d, "idle")
    /\ UNCHANGED <<salesforce, consumer, bucket, logged, index, page, eligible,
                   item, doc, readAt, covered, faults>>

(* The quota stop between two items, a failed eligibility read, a failed   *)
(* read of the last item, or the death of the replica.                     *)
Abandon(d) ==
    /\ step[d] # "idle"
    /\ Fault
    /\ page' = [page EXCEPT ![d] = {}]
    /\ Goto(d, "idle")
    /\ UNCHANGED <<salesforce, consumer, bucket, logged, index, eligible, item,
                   doc, readAt, covered>>

(* A failed read or dependency of one item: its marker is retained.        *)
Retain(d) ==
    /\ step[d] = "next"
    /\ Fault
    /\ \E m \in page[d] : page' = [page EXCEPT ![d] = @ \ {m}]
    /\ UNCHANGED <<salesforce, consumer, bucket, logged, index, step, eligible,
                   item, doc, readAt, covered>>

----------------------------------------------------------------------------
NoMarker == [rec |-> NoRecord, rev |-> None]

(* Every Account exists and is indexed only through a membership; there    *)
(* are no memberships yet.                                                 *)
Init ==
    /\ version = [r \in Records |-> IF TypeOf(r) = "b2b_org" THEN 1 ELSE None]
    /\ deleted = {}
    /\ clock = 0
    /\ pending = {}
    /\ handling = Idle
    /\ markers = [r \in Records |-> None]
    /\ revision = 0
    /\ logged = {}
    /\ index = [r \in Records |-> None]
    /\ step = [d \in Drains |-> "idle"]
    /\ page = [d \in Drains |-> {}]
    /\ eligible = [d \in Drains |-> {}]
    /\ item = [d \in Drains |-> NoMarker]
    /\ doc = [d \in Drains |-> None]
    /\ readAt = [d \in Drains |-> 0]
    /\ covered = [r \in Records |-> 0]
    /\ skipped = [r \in Records |-> 0]
    /\ faults = 0

Salesforce == \E r \in Records : Create(r) \/ Update(r) \/ Delete(r)

Consume == Skip \/ Read \/ Publish

RunRepair(d) == \/ Snapshot(d)
                \/ Fetch(d)
                \/ QueueOwner(d)
                \/ Project(d)
                \/ Clear(d)
                \/ Finish(d)
                \/ Abandon(d)
                \/ Retain(d)

Next == \/ Salesforce
        \/ Consume
        \/ \E d \in Drains : Select(d) \/ RunRepair(d)

Spec == Init /\ [][Next]_vars

----------------------------------------------------------------------------
Marker == [rec : Records, rev : Nat \ {None}]

(* The shape of the state; a drain past its read has a marker in hand, and *)
(* a marker is the last one written for its record.                        *)
TypeOK ==
    /\ version \in [Records -> Nat]
    /\ deleted \subseteq Records
    /\ clock \in 0..MaxChanges
    /\ pending \subseteq [rec : Records, kind : Kinds]
    /\ handling = Idle \/ handling \in [rec : Records, kind : Kinds \union {"update"}, doc : Nat]
    /\ markers \in [Records -> Nat]
    /\ revision \in Nat
    /\ logged \subseteq Records
    /\ index \in [Records -> Nat]
    /\ step \in [Drains -> Steps]
    /\ page \in [Drains -> SUBSET Marker]
    /\ eligible \in [Drains -> SUBSET Accounts]
    /\ item \in [Drains -> Marker \union {NoMarker}]
    /\ doc \in [Drains -> Nat]
    /\ readAt \in [Drains -> Nat]
    /\ covered \in [Records -> Nat]
    /\ skipped \in [Records -> Nat]
    /\ faults \in 0..MaxFaults
    /\ \A d \in Drains : step[d] \in {"owner", "project", "clear"} => item[d] # NoMarker

(* A marker leaves the bucket only after a confirmed projection of its     *)
(* record whose Salesforce data was read after the marker was written:     *)
(* with any number of drains, no skipped change is dropped unread.         *)
NoMarkerLost ==
    \A r \in Records : markers[r] = None => covered[r] >= skipped[r]

(* Nothing is left to do and nothing failed beyond repair. *)
Drained ==
    /\ pending = {}
    /\ handling = Idle
    /\ \A r \in Records : markers[r] = None
    /\ logged = {}
    /\ \A d \in Drains : step[d] = "idle"

(* docs/backfill-reindex.md on the queue: "Concurrent cdc_repair runs for  *)
(* the same type are safe by design".  Once the queue is drained, every    *)
(* membership and every eligible organization shows its last change in the *)
(* search index, and a deleted record is not found there.                  *)
Converges ==
    Drained => \A r \in Records :
                  \/ index[r] = Document(r)
                  \/ TypeOf(r) = "b2b_org" /\ version[r] # None /\ ~Eligible(r[2])

=============================================================================
