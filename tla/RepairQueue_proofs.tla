------------------------- MODULE RepairQueue_proofs -------------------------
(***************************************************************************)
(* Proofs about what an operator runs to repair the search index.          *)
(*                                                                         *)
(* The cdc-repair queue, for any accounts, any number of concurrent        *)
(* drains, any page size and any number of changes and faults: its type    *)
(* correctness, that no marker is lost (NoMarkerLost), and that one drain  *)
(* beside a consumer that only queues leaves the index right               *)
(* (ConvergesAlone).                                                       *)
(*                                                                         *)
(* The reindex runs, for any number of records, changes and failures: a    *)
(* completed plan leaves every record in its scope as it should be, but    *)
(* for those the log names and those that a handled change overtook.       *)
(***************************************************************************)
EXTENDS MCRepairQueue, TLAPS

(***************************************************************************)
(* The inductive invariant.                                                *)
(***************************************************************************)

(* A marker present is the last one written, and no revision is ahead of   *)
(* the bucket's.                                                           *)
LastWritten == \A r \in Records : /\ skipped[r] <= revision
                                  /\ markers[r] # None => markers[r] = skipped[r]

(* A drain selected its markers before it read the data for them.          *)
Selected ==
    \A d \in Drains : \A m \in page[d] :
        /\ m.rev <= revision
        /\ TypeOf(m.rec) = "b2b_org" /\ step[d] # "snapshot" => m.rev <= readAt[d]

InHand == {"owner", "project", "clear"}

(* The marker in hand is older than the data read for it, and its record's *)
(* projection is confirmed once the drain is about to remove it.           *)
Held ==
    \A d \in Drains :
        /\ step[d] \in InHand => item[d].rev <= readAt[d]
        /\ step[d] = "clear" => readAt[d] <= covered[item[d].rec]

Rest == LastWritten /\ Selected /\ Held /\ NoMarkerLost
IInv == TypeOK /\ Rest

----------------------------------------------------------------------------
(***************************************************************************)
(* Type correctness.                                                       *)
(***************************************************************************)
LEMMA OwnerIsRecord == ASSUME NEW r \in Records PROVE Owner(r) \in Records
  BY DEF Owner, Org, Records, Types

LEMMA DocumentIsVersion ==
  ASSUME version \in [Records -> Nat], NEW r \in Records PROVE Document(r) \in Nat
  BY DEF Document, None

LEMMA MarkerInHand ==
  ASSUME TypeOK, NEW d \in Drains, step[d] \in InHand
  PROVE  item[d] \in Marker /\ item[d].rec \in Records /\ item[d].rev \in Nat
  BY DEF TypeOK, InHand, Marker

LEMMA PutTyped ==
  ASSUME TypeOK, NEW r \in Records, PutPending(r)
  PROVE  /\ markers' \in [Records -> Nat]
         /\ revision' \in Nat
         /\ skipped' \in [Records -> Nat]
  BY DEF TypeOK, PutPending

LEMMA FaultTyped == ASSUME TypeOK, Fault PROVE faults' \in 0..MaxFaults
  BY RepairAssumption DEF TypeOK, Fault

LEMMA InitTyped == ASSUME Init PROVE TypeOK
<1>1. /\ version \in [Records -> Nat]
      /\ markers \in [Records -> Nat]
      /\ index \in [Records -> Nat]
      /\ covered \in [Records -> Nat]
      /\ skipped \in [Records -> Nat]
  BY DEF Init, None
<1>2. /\ step \in [Drains -> Steps]
      /\ page \in [Drains -> SUBSET Marker]
      /\ eligible \in [Drains -> SUBSET Accounts]
      /\ item \in [Drains -> Marker \union {NoMarker}]
      /\ doc \in [Drains -> Nat]
      /\ readAt \in [Drains -> Nat]
  BY DEF Init, Steps, None
<1>3. \A d \in Drains : step[d] \notin {"owner", "project", "clear"}
  BY DEF Init
<1> QED BY <1>1, <1>2, <1>3, RepairAssumption DEF Init, TypeOK, None

LEMMA NextTyped == ASSUME TypeOK, [Next]_vars PROVE TypeOK'
<1> USE DEF None
<1>1. ASSUME NEW r \in Records, Create(r) \/ Update(r) \/ Delete(r) PROVE TypeOK'
  <2>1. PICK kind \in Kinds, v \in Nat : Change(kind, r, v)
    <3>1. clock + 2 \in Nat
      BY RepairAssumption DEF TypeOK
    <3> QED BY <1>1, <3>1 DEF Create, Update, Delete, Change
  <2>2. /\ version' \in [Records -> Nat]
        /\ clock' \in 0..MaxChanges
        /\ pending' \subseteq [rec : Records, kind : Kinds]
    BY <2>1, RepairAssumption DEF Change, TypeOK
  <2>3. deleted' \subseteq Records
    BY <1>1 DEF Create, Update, Delete, TypeOK
  <2> QED BY <2>1, <2>2, <2>3 DEF Change, TypeOK, bucket, drain
<1>2. CASE Skip
  <2>1. PICK e \in pending : pending' = pending \ {e} /\ Queue(e.rec)
    BY <1>2 DEF Skip
  <2>2. e.rec \in Records
    BY DEF TypeOK
  <2>3. /\ markers' \in [Records -> Nat]
        /\ revision' \in Nat
        /\ skipped' \in [Records -> Nat]
        /\ logged' \subseteq Records
        /\ faults' \in 0..MaxFaults
    BY <2>1, <2>2, PutTyped, FaultTyped DEF Queue, NoFault, bucket, TypeOK
  <2> QED BY <1>2, <2>1, <2>3 DEF Skip, TypeOK, salesforce, drain
<1>3. CASE Read
  <2>1. PICK e \in pending :
          /\ pending' = pending \ {e}
          /\ handling' = [rec |-> e.rec, kind |-> e.kind,
                          doc |-> IF e.kind = "delete" THEN None ELSE Document(e.rec)]
    BY <1>3 DEF Read
  <2>2. e.rec \in Records /\ e.kind \in Kinds
    BY DEF TypeOK
  <2>3. (IF e.kind = "delete" THEN None ELSE Document(e.rec)) \in Nat
    BY <2>2, DocumentIsVersion DEF TypeOK
  <2>4. handling' \in [rec : Records, kind : Kinds \union {"update"}, doc : Nat]
    BY <2>1, <2>2, <2>3
  <2> QED BY <1>3, <2>1, <2>4 DEF Read, TypeOK, salesforce, bucket, drain
<1>4. CASE Publish
  <2>1. handling \in [rec : Records, kind : Kinds \union {"update"}, doc : Nat]
    BY <1>4 DEF Publish, TypeOK
  <2> DEFINE r == handling.rec
  <2>2. r \in Records /\ handling.doc \in Nat /\ Owner(r) \in Records
    BY <2>1, OwnerIsRecord
  <2>3. /\ markers' \in [Records -> Nat]
        /\ revision' \in Nat
        /\ skipped' \in [Records -> Nat]
        /\ logged' \subseteq Records
        /\ index' \in [Records -> Nat]
        /\ faults' \in 0..MaxFaults
    <3>1. CASE index' = [index EXCEPT ![r] = handling.doc] /\ NoFault
                 /\ UNCHANGED <<bucket, logged>>
      BY <2>2, <3>1 DEF NoFault, bucket, TypeOK
    <3>2. CASE Fault /\ UNCHANGED index /\ PutPending(r) /\ UNCHANGED logged
      BY <2>2, <3>2, PutTyped, FaultTyped DEF TypeOK
    <3>3. CASE Fault /\ UNCHANGED index /\ logged' = logged \union {r} /\ UNCHANGED bucket
      BY <2>2, <3>3, FaultTyped DEF bucket, TypeOK
    <3> QED BY <1>4, <3>1, <3>2, <3>3 DEF Publish
  <2>4. handling' = Idle
          \/ handling' \in [rec : Records, kind : Kinds \union {"update"}, doc : Nat]
    <3>1. Document(Owner(r)) \in Nat
      BY <2>2, DocumentIsVersion DEF TypeOK
    <3> QED BY <1>4, <2>2, <3>1 DEF Publish
  <2> QED BY <1>4, <2>3, <2>4 DEF Publish, TypeOK, salesforce, drain
<1>5. ASSUME NEW d \in Drains, Select(d) PROVE TypeOK'
  <2>1. PICK t \in Types :
          \E ks \in SUBSET {r \in {t} \X Accounts : markers[r] # None} :
            /\ page' = [page EXCEPT ![d] = {[rec |-> r, rev |-> markers[r]] : r \in ks}]
            /\ Goto(d, IF t = "b2b_org" THEN "snapshot" ELSE "next")
    BY <1>5 DEF Select
  <2>2. PICK ks \in SUBSET {r \in {t} \X Accounts : markers[r] # None} :
            /\ page' = [page EXCEPT ![d] = {[rec |-> r, rev |-> markers[r]] : r \in ks}]
            /\ Goto(d, IF t = "b2b_org" THEN "snapshot" ELSE "next")
    BY <2>1
  <2>3. {[rec |-> r, rev |-> markers[r]] : r \in ks} \subseteq Marker
    BY DEF TypeOK, Records, Marker
  <2>4. page' \in [Drains -> SUBSET Marker]
    BY <2>2, <2>3 DEF TypeOK
  <2>5. step' \in [Drains -> Steps] /\ step'[d] \notin {"owner", "project", "clear"}
        /\ \A b \in Drains \ {d} : step'[b] = step[b]
    BY <2>2 DEF Goto, TypeOK, Steps
  <2> QED BY <1>5, <2>4, <2>5 DEF Select, TypeOK, salesforce, consumer, bucket
<1>6. ASSUME NEW d \in Drains, Snapshot(d) PROVE TypeOK'
  BY <1>6 DEF Snapshot, Goto, TypeOK, Steps, salesforce, consumer, bucket
<1>7. ASSUME NEW d \in Drains, Fetch(d) PROVE TypeOK'
  <2>1. PICK m \in page[d] :
          /\ page' = [page EXCEPT ![d] = @ \ {m}]
          /\ item' = [item EXCEPT ![d] = m]
          /\ \E v \in {None, version[m.rec]} : doc' = [doc EXCEPT ![d] = v]
          /\ readAt' \in {readAt, [readAt EXCEPT ![d] = revision]}
          /\ \E s \in {"project", "owner"} : Goto(d, s)
    BY <1>7 DEF Fetch
  <2>2. m \in Marker /\ m.rec \in Records /\ m # NoMarker
    BY DEF TypeOK, Marker, NoMarker
  <2>3. /\ page' \in [Drains -> SUBSET Marker]
        /\ item' \in [Drains -> Marker \union {NoMarker}]
        /\ item'[d] # NoMarker
        /\ \A b \in Drains \ {d} : item'[b] = item[b]
    BY <2>1, <2>2 DEF TypeOK
  <2>4. doc' \in [Drains -> Nat] /\ readAt' \in [Drains -> Nat]
    BY <2>1, <2>2 DEF TypeOK
  <2>5. step' \in [Drains -> Steps] /\ \A b \in Drains \ {d} : step'[b] = step[b]
    BY <2>1 DEF Goto, TypeOK, Steps
  <2> QED BY <1>7, <2>3, <2>4, <2>5 DEF Fetch, TypeOK, salesforce, consumer, bucket
<1>8. ASSUME NEW d \in Drains, QueueOwner(d) PROVE TypeOK'
  <2>1. Owner(item[d].rec) \in Records /\ item[d] # NoMarker
    BY <1>8, MarkerInHand, OwnerIsRecord DEF QueueOwner, InHand, TypeOK
  <2>2. /\ markers' \in [Records -> Nat]
        /\ revision' \in Nat
        /\ skipped' \in [Records -> Nat]
        /\ faults' \in 0..MaxFaults
    BY <1>8, <2>1, PutTyped, FaultTyped DEF QueueOwner, NoFault, bucket, TypeOK
  <2>3. step' \in [Drains -> Steps] /\ \A b \in Drains \ {d} : step'[b] = step[b]
    BY <1>8 DEF QueueOwner, Goto, TypeOK, Steps
  <2> QED BY <1>8, <2>1, <2>2, <2>3 DEF QueueOwner, TypeOK, salesforce, consumer
<1>9. ASSUME NEW d \in Drains, Project(d) PROVE TypeOK'
  <2>1. item[d].rec \in Records /\ item[d] # NoMarker
    BY <1>9, MarkerInHand DEF Project, InHand, TypeOK
  <2>2. index' \in [Records -> Nat] /\ covered' \in [Records -> Nat]
    BY <1>9, <2>1 DEF Project, Cover, TypeOK
  <2>3. step' \in [Drains -> Steps] /\ \A b \in Drains \ {d} : step'[b] = step[b]
    BY <1>9 DEF Project, Goto, TypeOK, Steps
  <2>4. faults' \in 0..MaxFaults
    BY <1>9, FaultTyped DEF Project, NoFault, TypeOK
  <2> QED BY <1>9, <2>1, <2>2, <2>3, <2>4
          DEF Project, TypeOK, salesforce, consumer, bucket
<1>10. ASSUME NEW d \in Drains, Clear(d) PROVE TypeOK'
  <2>1. markers' \in [Records -> Nat] /\ faults' \in 0..MaxFaults
    BY <1>10, FaultTyped DEF Clear, NoFault, TypeOK
  <2>2. step' \in [Drains -> Steps] /\ \A b \in Drains : step'[b] \in {step[b], "next"}
    BY <1>10 DEF Clear, Goto, TypeOK, Steps
  <2> QED BY <1>10, <2>1, <2>2 DEF Clear, TypeOK, salesforce, consumer
<1>11. ASSUME NEW d \in Drains, Finish(d) \/ Abandon(d) \/ Retain(d) PROVE TypeOK'
  <2>1. faults' \in 0..MaxFaults
    BY <1>11, FaultTyped DEF Finish, Abandon, Retain, TypeOK
  <2>2. page' \in [Drains -> SUBSET Marker]
    BY <1>11 DEF Finish, Abandon, Retain, TypeOK
  <2>3. step' \in [Drains -> Steps] /\ \A b \in Drains : step'[b] \in {step[b], "idle"}
    BY <1>11 DEF Finish, Abandon, Retain, Goto, TypeOK, Steps
  <2> QED BY <1>11, <2>1, <2>2, <2>3
          DEF Finish, Abandon, Retain, TypeOK, salesforce, consumer, bucket
<1>12. CASE UNCHANGED vars
  BY <1>12 DEF vars, TypeOK, salesforce, consumer, bucket, drain
<1> QED BY <1>1, <1>2, <1>3, <1>4, <1>5, <1>6, <1>7, <1>8, <1>9, <1>10, <1>11, <1>12
        DEF Next, Salesforce, Consume, RunRepair

(* Every state of the queue and its drains has the declared shape.         *)
THEOREM TypeCorrect == Spec => []TypeOK
<1>1. Init => TypeOK
  BY InitTyped
<1>2. TypeOK /\ [Next]_vars => TypeOK'
  BY NextTyped
<1> QED BY <1>1, <1>2, PTL DEF Spec

----------------------------------------------------------------------------
(***************************************************************************)
(* No marker is lost.                                                      *)
(***************************************************************************)

(* Writing a marker disturbs nothing a drain relies on.                    *)
LEMMA PutKept ==
  ASSUME IInv, NEW r \in Records, PutPending(r), covered' = covered
  PROVE  /\ LastWritten'
         /\ NoMarkerLost'
         /\ revision <= revision'
<1>1. \A q \in Records : skipped[q] \in Nat /\ markers[q] \in Nat /\ covered[q] \in Nat
  BY DEF IInv, TypeOK
<1>2. revision' = revision + 1 /\ revision \in Nat
  BY DEF PutPending, IInv, TypeOK
<1>3. ASSUME NEW q \in Records, q = r
      PROVE  markers'[q] = revision + 1 /\ skipped'[q] = revision + 1
  BY <1>3 DEF PutPending, IInv, TypeOK
<1>4. ASSUME NEW q \in Records, q # r
      PROVE  markers'[q] = markers[q] /\ skipped'[q] = skipped[q]
  BY <1>4 DEF PutPending, IInv, TypeOK
<1>5. LastWritten'
  BY <1>1, <1>2, <1>3, <1>4 DEF LastWritten, IInv, Rest
<1>6. NoMarkerLost'
  BY <1>1, <1>2, <1>3, <1>4 DEF NoMarkerLost, IInv, Rest, None
<1> QED BY <1>2, <1>5, <1>6

(* The bucket is written by PutPending or not at all.                      *)
LEMMA BucketKept ==
  ASSUME IInv, covered' = covered,
         UNCHANGED bucket \/ \E r \in Records : PutPending(r)
  PROVE  LastWritten' /\ NoMarkerLost' /\ revision <= revision'
<1>1. CASE UNCHANGED bucket
  <2>1. revision <= revision'
    BY <1>1 DEF bucket, IInv, TypeOK
  <2> QED BY <1>1, <2>1 DEF bucket, IInv, Rest, LastWritten, NoMarkerLost
<1>2. CASE \E r \in Records : PutPending(r)
  BY <1>2, PutKept
<1> QED BY <1>1, <1>2

(* A later revision leaves a drain's own state as it was.                  *)
LEMMA DrainsKept ==
  ASSUME IInv, revision <= revision', revision' \in Nat,
         UNCHANGED <<drain, covered>>
  PROVE  Selected' /\ Held'
<1>1. \A d \in Drains : \A m \in page[d] : m.rev \in Nat
  BY DEF IInv, TypeOK, Marker
<1>2. Selected'
  BY <1>1 DEF drain, Selected, IInv, Rest, TypeOK
<1> QED BY <1>2 DEF drain, Held, IInv, Rest

LEMMA InitRest == ASSUME Init PROVE Rest
<1>1. /\ \A r \in Records : markers[r] = 0 /\ covered[r] = 0 /\ skipped[r] = 0
      /\ revision = 0
      /\ \A d \in Drains : page[d] = {} /\ step[d] = "idle"
  BY DEF Init, None
<1> QED BY <1>1 DEF Rest, LastWritten, Selected, Held, NoMarkerLost, InHand, None

LEMMA NextRest == ASSUME IInv, [Next]_vars PROVE Rest'
<1> USE DEF None
<1>0. TypeOK /\ TypeOK'
  BY NextTyped DEF IInv
<1>1. CASE Salesforce \/ Read \/ UNCHANGED vars
  <2>1. UNCHANGED <<bucket, drain, covered>>
    BY <1>1 DEF Salesforce, Create, Update, Delete, Change, Read, vars
  <2>2. revision' = revision /\ revision \in Nat
    BY <2>1, <1>0 DEF bucket, TypeOK
  <2> QED BY <1>0, <2>1, <2>2, BucketKept, DrainsKept DEF Rest
<1>2. CASE Skip \/ Publish
  <2>1. UNCHANGED <<drain, covered>>
    BY <1>2 DEF Skip, Publish
  <2>2. UNCHANGED bucket \/ \E r \in Records : PutPending(r)
    <3>1. CASE Skip
      BY <3>1, <1>0 DEF Skip, Queue, TypeOK
    <3>2. CASE Publish
      <4>1. handling.rec \in Records
        BY <3>2, <1>0 DEF Publish, TypeOK
      <4> QED BY <3>2, <4>1 DEF Publish
    <3> QED BY <1>2, <3>1, <3>2
  <2>3. revision' \in Nat
    BY <1>0 DEF TypeOK
  <2> QED BY <2>1, <2>2, <2>3, BucketKept, DrainsKept DEF Rest
<1>3. ASSUME NEW d \in Drains, Select(d) PROVE Rest'
  <2>1. UNCHANGED <<bucket, covered, item, readAt>>
    BY <1>3 DEF Select
  <2>2. PICK t \in Types :
          \E ks \in SUBSET {r \in {t} \X Accounts : markers[r] # None} :
            /\ page' = [page EXCEPT ![d] = {[rec |-> r, rev |-> markers[r]] : r \in ks}]
            /\ Goto(d, IF t = "b2b_org" THEN "snapshot" ELSE "next")
    BY <1>3 DEF Select
  <2>3. PICK ks \in SUBSET {r \in {t} \X Accounts : markers[r] # None} :
            /\ page' = [page EXCEPT ![d] = {[rec |-> r, rev |-> markers[r]] : r \in ks}]
            /\ Goto(d, IF t = "b2b_org" THEN "snapshot" ELSE "next")
    BY <2>2
  <2>4. \A r \in ks : r \in Records /\ TypeOf(r) = t /\ markers[r] <= revision
    BY DEF Records, TypeOf, LastWritten, IInv, Rest, TypeOK
  <2>5. /\ step'[d] = IF t = "b2b_org" THEN "snapshot" ELSE "next"
        /\ page'[d] = {[rec |-> r, rev |-> markers[r]] : r \in ks}
        /\ \A b \in Drains \ {d} : step'[b] = step[b] /\ page'[b] = page[b]
    BY <2>3, <1>0 DEF Goto, TypeOK
  <2>6. \A m \in page'[d] : m.rev <= revision /\ TypeOf(m.rec) = t
    BY <2>4, <2>5
  <2>7. Selected'
    BY <2>1, <2>5, <2>6 DEF Selected, IInv, Rest, bucket
  <2>8. Held'
    BY <2>1, <2>5 DEF Held, InHand, IInv, Rest
  <2> QED BY <2>1, <2>7, <2>8, BucketKept DEF Rest
<1>4. ASSUME NEW d \in Drains, Snapshot(d) PROVE Rest'
  <2>1. UNCHANGED <<bucket, covered, item, page>>
    BY <1>4 DEF Snapshot
  <2>2. /\ step'[d] = "next"
        /\ readAt'[d] = revision
        /\ \A b \in Drains \ {d} : step'[b] = step[b] /\ readAt'[b] = readAt[b]
    BY <1>4, <1>0 DEF Snapshot, Goto, TypeOK
  <2>3. Selected'
    BY <2>1, <2>2 DEF Selected, IInv, Rest, bucket
  <2>4. Held'
    BY <2>1, <2>2 DEF Held, InHand, IInv, Rest
  <2> QED BY <2>1, <2>3, <2>4, BucketKept DEF Rest
<1>5. ASSUME NEW d \in Drains, Fetch(d) PROVE Rest'
  <2>1. UNCHANGED <<bucket, covered>> /\ step[d] = "next"
    BY <1>5 DEF Fetch
  <2>2. PICK m \in page[d] :
          /\ page' = [page EXCEPT ![d] = @ \ {m}]
          /\ item' = [item EXCEPT ![d] = m]
          /\ readAt' = IF TypeOf(m.rec) = "b2b_org" THEN readAt
                                                   ELSE [readAt EXCEPT ![d] = revision]
          /\ \E s \in {"project", "owner"} : Goto(d, s)
    BY <1>5 DEF Fetch
  <2>3. m.rev <= revision /\ (TypeOf(m.rec) = "b2b_org" => m.rev <= readAt[d])
    BY <2>1 DEF Selected, IInv, Rest
  <2>4. /\ item'[d] = m
        /\ page'[d] = page[d] \ {m}
        /\ step'[d] \in {"project", "owner"}
        /\ \A b \in Drains \ {d} :
              /\ step'[b] = step[b]
              /\ readAt'[b] = readAt[b]
              /\ page'[b] = page[b]
              /\ item'[b] = item[b]
    BY <2>2, <1>0 DEF Goto, TypeOK
  <2>5. readAt'[d] = revision \/ (TypeOf(m.rec) = "b2b_org" /\ readAt'[d] = readAt[d])
    BY <2>2, <1>0 DEF TypeOK
  <2>6. \A n \in page'[d] :
          n.rev <= revision /\ (TypeOf(n.rec) = "b2b_org" => n.rev <= readAt'[d])
    BY <2>1, <2>4, <2>5 DEF Selected, IInv, Rest
  <2>7. Selected'
    BY <2>1, <2>4, <2>6 DEF Selected, IInv, Rest, bucket
  <2>8. item'[d].rev <= readAt'[d]
    BY <2>3, <2>4, <2>5
  <2>9. Held'
    BY <2>1, <2>4, <2>8 DEF Held, InHand, IInv, Rest
  <2> QED BY <2>1, <2>7, <2>9, BucketKept DEF Rest
<1>6. ASSUME NEW d \in Drains, QueueOwner(d) PROVE Rest'
  <2>1. UNCHANGED <<covered, item, page, readAt>> /\ step[d] = "owner"
    BY <1>6 DEF QueueOwner
  <2>2. /\ step'[d] \in {"project", "next"}
        /\ \A b \in Drains \ {d} : step'[b] = step[b]
    BY <1>6, <1>0 DEF QueueOwner, Goto, TypeOK
  <2>3. Owner(item[d].rec) \in Records
    BY <1>0, <2>1, MarkerInHand, OwnerIsRecord DEF InHand
  <2>4. UNCHANGED bucket \/ \E r \in Records : PutPending(r)
    BY <1>6, <2>3 DEF QueueOwner
  <2>5. LastWritten' /\ NoMarkerLost' /\ revision <= revision'
    BY <2>1, <2>4, BucketKept
  <2>6. \A b \in Drains : \A m \in page[b] : m.rev \in Nat /\ m.rev <= revision'
    BY <1>0, <2>5 DEF TypeOK, Marker, Selected, IInv, Rest
  <2>7. Selected'
    BY <2>1, <2>2, <2>6 DEF Selected, IInv, Rest
  <2>8. Held'
    BY <2>1, <2>2 DEF Held, InHand, IInv, Rest
  <2> QED BY <2>5, <2>7, <2>8 DEF Rest
<1>7. ASSUME NEW d \in Drains, Project(d) PROVE Rest'
  <2> DEFINE r == item[d].rec
  <2>1. UNCHANGED <<bucket, item, page, readAt>> /\ step[d] = "project"
    BY <1>7 DEF Project
  <2>2. r \in Records /\ item[d].rev <= readAt[d]
    BY <1>0, <2>1, MarkerInHand DEF InHand, Held, IInv, Rest
  <2>3. /\ step'[d] \in {"clear", "next"}
        /\ \A b \in Drains \ {d} : step'[b] = step[b]
    BY <1>7, <1>0 DEF Project, Goto, TypeOK
  <2>4. \A q \in Records : covered[q] <= covered'[q] /\ covered'[q] \in Nat
    BY <1>7, <1>0, <2>2 DEF Project, Cover, TypeOK
  <2>5. step'[d] = "clear" => readAt[d] <= covered'[r]
    BY <1>7, <1>0, <2>2 DEF Project, Cover, Goto, TypeOK
  <2>6. Selected'
    BY <2>1, <2>3 DEF Selected, IInv, Rest, bucket
  <2>7. ASSUME NEW b \in Drains, b # d, step[b] = "clear"
        PROVE  readAt[b] <= covered'[item[b].rec]
    <3>1. item[b].rec \in Records /\ readAt[b] \in Nat
      BY <1>0, <2>7, MarkerInHand DEF InHand, TypeOK
    <3>2. readAt[b] <= covered[item[b].rec] /\ covered[item[b].rec] \in Nat
      BY <2>7, <3>1, <1>0 DEF Held, IInv, Rest, TypeOK
    <3> QED BY <2>4, <3>1, <3>2
  <2>8. Held'
    BY <2>1, <2>2, <2>3, <2>5, <2>7 DEF Held, InHand, IInv, Rest
  <2>9. LastWritten'
    BY <2>1 DEF LastWritten, bucket, IInv, Rest
  <2>10. NoMarkerLost'
    <3>1. \A q \in Records : covered[q] \in Nat /\ skipped[q] \in Nat
      BY <1>0 DEF TypeOK
    <3> QED BY <2>1, <2>4, <3>1 DEF NoMarkerLost, bucket, IInv, Rest
  <2> QED BY <2>6, <2>8, <2>9, <2>10 DEF Rest
<1>8. ASSUME NEW d \in Drains, Clear(d) PROVE Rest'
  <2> DEFINE r == item[d].rec
  <2>1. UNCHANGED <<revision, skipped, covered, item, page, readAt>> /\ step[d] = "clear"
    BY <1>8 DEF Clear
  <2>2. /\ r \in Records
        /\ item[d].rev \in Nat
        /\ item[d].rev <= readAt[d]
        /\ readAt[d] <= covered[r]
    BY <1>0, <2>1, MarkerInHand DEF InHand, Held, IInv, Rest
  <2>3. /\ step'[d] = "next"
        /\ \A b \in Drains \ {d} : step'[b] = step[b]
    BY <1>8, <1>0 DEF Clear, Goto, TypeOK
  <2>4. \A q \in Records : markers'[q] = markers[q]
                            \/ (q = r /\ markers'[q] = None /\ markers[q] = item[d].rev)
    BY <1>8, <1>0, <2>2 DEF Clear, TypeOK
  <2>5. LastWritten'
    BY <2>1, <2>4 DEF LastWritten, IInv, Rest
  <2>6. ASSUME NEW q \in Records, markers'[q] = None PROVE covered[q] >= skipped[q]
    <3>1. CASE markers[q] = None
      BY <3>1 DEF NoMarkerLost, IInv, Rest
    <3>2. CASE markers[q] # None
      <4>1. q = r /\ markers[q] = item[d].rev
        BY <2>4, <2>6, <3>2
      <4>2. skipped[q] = item[d].rev
        BY <3>2, <4>1 DEF LastWritten, IInv, Rest
      <4>3. readAt[d] \in Nat /\ covered[r] \in Nat
        BY <1>0, <2>2 DEF TypeOK
      <4> QED BY <2>2, <4>1, <4>2, <4>3
    <3> QED BY <3>1, <3>2
  <2>7. NoMarkerLost'
    BY <2>1, <2>6 DEF NoMarkerLost
  <2>8. Selected'
    BY <2>1, <2>3 DEF Selected, IInv, Rest
  <2>9. Held'
    BY <2>1, <2>3 DEF Held, InHand, IInv, Rest
  <2> QED BY <2>5, <2>7, <2>8, <2>9 DEF Rest
<1>9. ASSUME NEW d \in Drains, Finish(d) \/ Abandon(d) \/ Retain(d) PROVE Rest'
  <2>1. UNCHANGED <<bucket, covered, item, readAt>>
    BY <1>9 DEF Finish, Abandon, Retain
  <2>2. /\ page'[d] = {} \/ (step'[d] = step[d] /\ step[d] = "next" /\ page'[d] \subseteq page[d])
        /\ step'[d] \in {"idle", "next"}
        /\ \A b \in Drains \ {d} : step'[b] = step[b] /\ page'[b] = page[b]
    BY <1>9, <1>0 DEF Finish, Abandon, Retain, Goto, TypeOK
  <2>3. Selected'
    BY <2>1, <2>2 DEF Selected, IInv, Rest, bucket
  <2>4. Held'
    BY <2>1, <2>2 DEF Held, InHand, IInv, Rest
  <2> QED BY <2>1, <2>3, <2>4, BucketKept DEF Rest
<1> QED BY <1>1, <1>2, <1>3, <1>4, <1>5, <1>6, <1>7, <1>8, <1>9
        DEF Next, Consume, RunRepair

(* With any number of concurrent drains, a marker leaves the bucket only   *)
(* after a confirmed projection of data read since it was written.         *)
THEOREM MarkersAreHonoured == Spec => []NoMarkerLost
<1>1. Init => IInv
  BY InitTyped, InitRest DEF IInv
<1>2. IInv /\ [Next]_vars => IInv'
  BY NextTyped, NextRest DEF IInv
<1>3. IInv => NoMarkerLost
  BY DEF IInv, Rest
<1> QED BY <1>1, <1>2, <1>3, PTL DEF Spec

----------------------------------------------------------------------------
(***************************************************************************)
(* One drain beside a consumer that only queues.                           *)
(***************************************************************************)
IsOrg(r) == TypeOf(r) = "b2b_org"

(* A change of the record is on its way to the queue, or an operator has   *)
(* to see to it; or it is due from the queue, or has come after a marker.  *)
Coming(r) == (\E e \in pending : e.rec = r) \/ r \in logged
Due(r)    == Coming(r) \/ markers[r] # None
Anew(m)   == Coming(m.rec) \/ markers[m.rec] > m.rev

(* Nothing but the first drain works, and no record is ever deleted.       *)
Solo ==
    /\ handling = Idle
    /\ deleted = {}
    /\ \A d \in Drains \ {First} : step[d] = "idle"
    /\ \A a \in Accounts : version[Org(a)] # None

(* The document in hand is the last version of its record, or the record   *)
(* comes again, or it is an Account outside the drain's snapshot.          *)
ItemCurrent ==
    \A d \in Drains : step[d] \in InHand =>
        /\ item[d].rev <= revision
        /\ \/ doc[d] = version[item[d].rec]
           \/ Anew(item[d])
           \/ IsOrg(item[d].rec) /\ doc[d] = None /\ item[d].rec[2] \notin eligible[d]
        /\ step[d] = "owner" => ~IsOrg(item[d].rec)
        /\ step[d] = "clear" => index[item[d].rec] = doc[d]

(* The owner of a membership that is published is in the queue. *)
OwnerQueued ==
    \A d \in Drains :
        step[d] \in {"project", "clear"} /\ ~IsOrg(item[d].rec) /\ doc[d] # None
            => markers[Owner(item[d].rec)] # None

(* A page is all organizations or all memberships. *)
OneType ==
    \A d \in Drains : \A m \in page[d] :
        /\ \A n \in page[d] : IsOrg(m.rec) <=> IsOrg(n.rec)
        /\ step[d] \in InHand => (IsOrg(m.rec) <=> IsOrg(item[d].rec))

OfOrgs(d) ==
    \/ step[d] = "next" /\ \E m \in page[d] : IsOrg(m.rec)
    \/ step[d] \in InHand /\ IsOrg(item[d].rec)

(* An account that became eligible since the snapshot of the page of       *)
(* organizations in hand has its membership still to come.                 *)
SnapshotCurrent ==
    \A d \in Drains : OfOrgs(d) =>
        \A a \in Accounts : a \in eligible[d] \/ ~Eligible(a) \/ Due(Membership(a))

(* The index shows a record's last change, or its repair is to come; the   *)
(* repair of a membership queues its owner.                                *)
Shown ==
    \A a \in Accounts :
        /\ index[Membership(a)] = version[Membership(a)] \/ Due(Membership(a))
        /\ \/ index[Org(a)] = Document(Org(a))
           \/ ~Eligible(a) \/ Due(Org(a)) \/ Due(Membership(a))

AloneInv == Solo /\ ItemCurrent /\ OwnerQueued /\ OneType /\ SnapshotCurrent /\ Shown

(* A record is an Account or the Membership Asset of one.                  *)
LEMMA RecordShape ==
  ASSUME NEW r \in Records
  PROVE  \E a \in Accounts : \/ r = Org(a) /\ IsOrg(r) /\ r[2] = a
                             \/ r = Membership(a) /\ ~IsOrg(r) /\ r[2] = a /\ Owner(r) = Org(a)
  BY DEF Records, Types, Org, Membership, IsOrg, TypeOf, Owner

LEMMA AccountRecords ==
  ASSUME NEW a \in Accounts
  PROVE  /\ Org(a) \in Records /\ Membership(a) \in Records
         /\ IsOrg(Org(a)) /\ ~IsOrg(Membership(a)) /\ Org(a)[2] = a /\ Membership(a)[2] = a
         /\ Owner(Membership(a)) = Org(a)
         /\ Org(a) # Membership(a)
  BY DEF Records, Types, Org, Membership, IsOrg, TypeOf, Owner

(* What an Account or its membership shows.                                *)
LEMMA DocumentShape ==
  ASSUME NEW a \in Accounts
  PROVE  /\ Document(Membership(a)) = version[Membership(a)]
         /\ Eligible(a) => Document(Org(a)) = version[Org(a)]
  BY DEF Document, Org, Membership, TypeOf

LEMMA InitAlone == ASSUME Init PROVE AloneInv
<1>1. Solo
  BY AccountRecords DEF Init, Solo, IsOrg, None
<1>2. ItemCurrent /\ OwnerQueued /\ OneType /\ SnapshotCurrent
  BY DEF Init, ItemCurrent, OwnerQueued, OneType, SnapshotCurrent, OfOrgs, InHand
<1>3. \A a \in Accounts : ~Eligible(a) /\ index[Membership(a)] = version[Membership(a)]
  BY AccountRecords DEF Init, IsOrg, Eligible, None
<1> QED BY <1>1, <1>2, <1>3 DEF AloneInv, Shown

(* A step beside the drains: what was due remains so, a record that        *)
(* changed is coming, and what is written to the queue comes later.        *)
Beside ==
    /\ UNCHANGED <<drain, index, handling>>
    /\ deleted' = {}
    /\ revision <= revision' /\ revision' \in Nat
    /\ \A r \in Records :
          /\ Coming(r) => Coming(r)' \/ markers'[r] = revision + 1
          /\ markers'[r] = markers[r] \/ markers'[r] = revision + 1
          /\ version'[r] = version[r] \/ (Coming(r)' /\ version'[r] # None)

LEMMA SalesforceBeside ==
  ASSUME TypeOK, NEW r \in Records, Create(r) \/ Update(r) \/ Delete(r), deleted' = {}
  PROVE  Beside
<1>1. PICK kind \in Kinds, v \in Nat \ {None} : Change(kind, r, v)
  <2>1. ~Delete(r)
    BY DEF Delete
  <2>2. clock + 2 \in Nat \ {None}
    BY RepairAssumption DEF TypeOK, None
  <2>3. \E kind \in Kinds : Change(kind, r, clock + 2)
    BY <2>1 DEF Create, Update, Change
  <2> QED BY <2>2, <2>3
<1>2. UNCHANGED <<drain, index, handling, bucket, logged>>
  BY <1>1 DEF Change
<1>3. revision' = revision /\ markers' = markers /\ revision \in Nat
  BY <1>2 DEF bucket, TypeOK
<1>4. ASSUME NEW q \in Records, Coming(q) PROVE Coming(q)'
  BY <1>1, <1>2, <1>4 DEF Coming, Change
<1>5. Coming(r)'
  <2>1. [rec |-> r, kind |-> kind] \in pending'
    BY <1>1 DEF Change
  <2>2. \E e \in pending' : e.rec = r
    BY <2>1
  <2> QED BY <2>2 DEF Coming
<1>6. ASSUME NEW q \in Records PROVE version'[q] = version[q] \/ (q = r /\ version'[q] # None)
  BY <1>1 DEF Change, TypeOK
<1> QED BY <1>2, <1>3, <1>4, <1>5, <1>6 DEF Beside

LEMMA SkipBeside ==
  ASSUME TypeOK, Skip, deleted' = {}
  PROVE  Beside
<1>1. PICK e \in pending : pending' = pending \ {e} /\ Queue(e.rec)
  BY DEF Skip
<1>2. UNCHANGED <<drain, index, handling, version>>
  BY DEF Skip, salesforce
<1>3. e.rec \in Records /\ revision \in Nat
  BY DEF TypeOK
<1>4. CASE PutPending(e.rec) /\ UNCHANGED logged
  <2>1. revision' = revision + 1
    BY <1>4 DEF PutPending
  <2>2. \A r \in Records : markers'[r] = IF r = e.rec THEN revision + 1 ELSE markers[r]
    BY <1>4 DEF PutPending, TypeOK
  <2>3. ASSUME NEW r \in Records, Coming(r), r # e.rec PROVE Coming(r)'
    BY <1>1, <1>4, <2>3 DEF Coming
  <2> QED BY <1>2, <1>3, <2>1, <2>2, <2>3 DEF Beside
<1>5. CASE logged' = logged \union {e.rec} /\ UNCHANGED bucket
  <2>1. revision' = revision /\ markers' = markers
    BY <1>5 DEF bucket
  <2>2. ASSUME NEW r \in Records, Coming(r) PROVE Coming(r)'
    BY <1>1, <1>5, <2>2 DEF Coming
  <2> QED BY <1>2, <1>3, <2>1, <2>2 DEF Beside
<1> QED BY <1>1, <1>4, <1>5 DEF Queue

LEMMA BesideAlone ==
  ASSUME IInv, AloneInv, TypeOK', Beside
  PROVE  AloneInv'
<1> USE DEF None
<1>1. revision \in Nat /\ revision' \in Nat /\ \A r \in Records : markers[r] \in Nat
  BY DEF IInv, TypeOK
<1>2. ASSUME NEW r \in Records, Due(r) PROVE Due(r)'
  BY <1>1, <1>2 DEF Due, Beside
<1>3. ASSUME NEW m \in Marker, m.rev <= revision, Anew(m)
      PROVE  Coming(m.rec)' \/ markers'[m.rec] > m.rev
  <2>1. m.rec \in Records /\ m.rev \in Nat
    BY DEF Marker
  <2> QED BY <1>1, <1>3, <2>1 DEF Anew, Beside
<1>4. ASSUME NEW r \in Records PROVE version'[r] = version[r] \/ Due(r)'
  BY DEF Beside, Due
<1>5. Solo'
  <2>1. \A a \in Accounts : version'[Org(a)] # None
    BY AccountRecords DEF AloneInv, Solo, Beside
  <2> QED BY <2>1 DEF AloneInv, Solo, Beside, drain
<1>6. ASSUME NEW d \in Drains, NEW m \in Marker, m = item[d], step[d] \in InHand
      PROVE  /\ m.rev <= revision'
             /\ \/ doc[d] = version'[m.rec]
                \/ Coming(m.rec)' \/ markers'[m.rec] > m.rev
                \/ IsOrg(m.rec) /\ doc[d] = None /\ m.rec[2] \notin eligible[d]
  <2>1. m.rec \in Records /\ m.rev \in Nat
    BY DEF Marker
  <2>2. m.rev <= revision
    BY <1>6 DEF AloneInv, ItemCurrent
  <2>3. m.rev <= revision'
    BY <1>1, <2>1, <2>2 DEF Beside
  <2>4. Anew(m) => Coming(m.rec)' \/ markers'[m.rec] > m.rev
    BY <1>3, <2>2
  <2>5. version'[m.rec] = version[m.rec] \/ Coming(m.rec)'
    BY <2>1 DEF Beside
  <2> QED BY <1>6, <2>3, <2>4, <2>5 DEF AloneInv, ItemCurrent
<1>7. ItemCurrent'
  <2>1. UNCHANGED <<step, item, doc, eligible, index>>
    BY DEF Beside, drain
  <2>2. ASSUME NEW d \in Drains, step[d] \in InHand
        PROVE  /\ item[d].rev <= revision'
               /\ \/ doc[d] = version'[item[d].rec]
                  \/ Anew(item[d])'
                  \/ IsOrg(item[d].rec) /\ doc[d] = None /\ item[d].rec[2] \notin eligible[d]
    <3>1. item'[d] \in Marker /\ item'[d] = item[d]
      BY <2>1, <2>2, MarkerInHand DEF IInv
    <3> QED BY <1>6, <2>2, <3>1 DEF Anew
  <2> QED BY <2>1, <2>2 DEF ItemCurrent, AloneInv
<1>8. OwnerQueued'
  <2>1. ASSUME NEW d \in Drains, step[d] \in InHand PROVE Owner(item[d].rec) \in Records
    BY <2>1, MarkerInHand, OwnerIsRecord DEF IInv
  <2>2. \A r \in Records : markers[r] # None => markers'[r] # None
    BY <1>1 DEF Beside
  <2> QED BY <2>1, <2>2 DEF OwnerQueued, AloneInv, Beside, drain, InHand
<1>9. OneType'
  BY DEF OneType, AloneInv, Beside, drain
<1>10. ASSUME NEW a \in Accounts, ~Due(Membership(a))'
       PROVE  /\ ~Due(Membership(a))
              /\ version'[Membership(a)] = version[Membership(a)]
              /\ Eligible(a)' <=> Eligible(a)
  <2>1. /\ ~Due(Membership(a))
        /\ version'[Membership(a)] = version[Membership(a)]
    BY <1>2, <1>4, <1>10, AccountRecords
  <2>2. version'[Org(a)] # None /\ version[Org(a)] # None
    BY <1>5 DEF AloneInv, Solo
  <2> QED BY <2>1, <2>2 DEF Eligible
<1>11. SnapshotCurrent'
  <2>1. \A d \in Drains : OfOrgs(d)' => OfOrgs(d)
    BY DEF OfOrgs, Beside, drain
  <2> QED BY <1>10, <2>1 DEF SnapshotCurrent, AloneInv, Beside, drain
<1>12. ASSUME NEW a \in Accounts
       PROVE  /\ index'[Membership(a)] = version'[Membership(a)] \/ Due(Membership(a))'
              /\ \/ index'[Org(a)] = Document(Org(a))'
                 \/ ~Eligible(a)' \/ Due(Org(a))' \/ Due(Membership(a))'
  <2>1. index' = index
    BY DEF Beside
  <2>2. index[Membership(a)] = version[Membership(a)] \/ Due(Membership(a))
    BY DEF AloneInv, Shown
  <2>3. CASE Due(Membership(a))'
    BY <2>3
  <2>4. CASE ~Due(Membership(a))' /\ Due(Org(a))'
    BY <2>1, <2>2, <2>4, <1>10
  <2>5. CASE ~Due(Membership(a))' /\ ~Due(Org(a))'
    <3>1. ~Due(Org(a)) /\ version'[Org(a)] = version[Org(a)]
      BY <1>2, <1>4, <2>5, AccountRecords
    <3>2. index[Org(a)] = Document(Org(a)) \/ ~Eligible(a)
      BY <1>10, <2>5, <3>1 DEF AloneInv, Shown
    <3>3. Eligible(a)' => Document(Org(a))' = version'[Org(a)]
      BY DEF Document, Org, TypeOf
    <3> QED BY <2>1, <2>2, <2>5, <1>10, <3>1, <3>2, <3>3, DocumentShape
  <2> QED BY <2>3, <2>4, <2>5
<1>13. Shown'
  BY <1>12 DEF Shown
<1> QED BY <1>5, <1>7, <1>8, <1>9, <1>11, <1>13 DEF AloneInv

(* Only the first drain takes a step. *)
LEMMA OnlyFirst ==
  ASSUME IInv, AloneInv, NEW d \in Drains, Select(d) \/ RunRepair(d),
         \A b \in Drains \ {First} : step'[b] = "idle"
  PROVE  /\ d = First
         /\ UNCHANGED <<version, deleted, pending, handling, logged>>
         /\ \A b \in Drains \ {d} : /\ step[b] = "idle" /\ step'[b] = "idle"
                                    /\ page'[b] = page[b]
<1>1. TypeOK
  BY DEF IInv
<1>2. UNCHANGED <<version, deleted, pending, handling, logged>>
  BY DEF Select, RunRepair, Snapshot, Fetch, QueueOwner, Project, Clear, Finish, Abandon, Retain,
         salesforce, consumer
<1>3. \A b \in Drains \ {d} : page'[b] = page[b]
  BY <1>1 DEF TypeOK, Select, RunRepair, Snapshot, Fetch, QueueOwner, Project, Clear, Finish,
              Abandon, Retain
<1>4. d = First
  <2>1. CASE Select(d)
    BY <1>1, <2>1 DEF Select, Goto, TypeOK
  <2>2. CASE RunRepair(d)
    <3>1. step[d] # "idle"
      BY <2>2 DEF RunRepair, Snapshot, Fetch, QueueOwner, Project, Clear, Finish, Abandon, Retain
    <3> QED BY <3>1 DEF AloneInv, Solo
  <2> QED BY <2>1, <2>2
<1> QED BY <1>2, <1>3, <1>4 DEF AloneInv, Solo

(* What the drains' steps leave of the invariant as it was. *)
LEMMA SalesforceKept ==
  ASSUME AloneInv, UNCHANGED <<version, deleted, pending, handling, logged>>,
         \A b \in Drains \ {First} : step'[b] = "idle"
  PROVE  /\ Solo'
         /\ \A r \in Records : Coming(r)' <=> Coming(r)
         /\ \A a \in Accounts : Eligible(a)' <=> Eligible(a)
         /\ \A r \in Records : Document(r)' = Document(r)
<1>1. Solo'
  BY DEF AloneInv, Solo
<1>2. \A r \in Records : Coming(r)' <=> Coming(r)
  BY DEF Coming
<1>3. ASSUME NEW a \in Accounts PROVE Eligible(a)' <=> Eligible(a)
  BY DEF Eligible
<1>4. \A r \in Records : Document(r)' = Document(r)
  BY DEF Document, Eligible
<1> QED BY <1>1, <1>2, <1>3, <1>4

(* With the queue or the index as they were, what is shown is as well.     *)
LEMMA ShownKept ==
  ASSUME AloneInv, UNCHANGED <<version, deleted, pending, handling, logged, index>>,
         \A r \in Records : markers[r] # None => markers'[r] # None
  PROVE  Shown'
<1>1. \A r \in Records : Due(r) => Due(r)'
  BY DEF Due, Coming
<1>2. \A r \in Records : Document(r)' = Document(r)
  BY DEF Document, Eligible
<1>3. \A a \in Accounts : Eligible(a)' => Eligible(a)
  BY DEF Eligible
<1> QED BY <1>1, <1>2, <1>3, AccountRecords DEF AloneInv, Shown

LEMMA SelectAlone ==
  ASSUME IInv, AloneInv, NEW d \in Drains, Select(d),
         \A b \in Drains \ {First} : step'[b] = "idle"
  PROVE  AloneInv'
<1>0. TypeOK
  BY DEF IInv
<1>1. /\ d = First
      /\ UNCHANGED <<version, deleted, pending, handling, logged>>
      /\ \A b \in Drains \ {d} : /\ step[b] = "idle" /\ step'[b] = "idle"
                                 /\ page'[b] = page[b]
  BY OnlyFirst
<1>2. UNCHANGED <<markers, index, eligible>>
  BY DEF Select, bucket
<1>3. PICK t \in Types :
          \E ks \in SUBSET {r \in {t} \X Accounts : markers[r] # None} :
            /\ page' = [page EXCEPT ![d] = {[rec |-> r, rev |-> markers[r]] : r \in ks}]
            /\ Goto(d, IF t = "b2b_org" THEN "snapshot" ELSE "next")
  BY DEF Select
<1>4. PICK ks \in SUBSET {r \in {t} \X Accounts : markers[r] # None} :
            /\ page' = [page EXCEPT ![d] = {[rec |-> r, rev |-> markers[r]] : r \in ks}]
            /\ Goto(d, IF t = "b2b_org" THEN "snapshot" ELSE "next")
  BY <1>3
<1>5. /\ step'[d] = IF t = "b2b_org" THEN "snapshot" ELSE "next"
      /\ page'[d] = {[rec |-> r, rev |-> markers[r]] : r \in ks}
  BY <1>0, <1>4 DEF Goto, TypeOK
<1>6. \A m \in page'[d] : IsOrg(m.rec) <=> t = "b2b_org"
  BY <1>4, <1>5 DEF IsOrg, TypeOf
<1>7. step'[d] \notin InHand /\ ~OfOrgs(d)'
  BY <1>5, <1>6 DEF InHand, OfOrgs
<1>8. ItemCurrent' /\ OwnerQueued'
  BY <1>1, <1>7 DEF ItemCurrent, OwnerQueued, InHand
<1>9. OneType'
  BY <1>1, <1>6, <1>7 DEF OneType, AloneInv, InHand
<1>10. SnapshotCurrent'
  BY <1>1, <1>7 DEF SnapshotCurrent, OfOrgs, InHand
<1> QED BY <1>1, <1>2, <1>8, <1>9, <1>10, SalesforceKept, ShownKept DEF AloneInv

LEMMA SnapshotAlone ==
  ASSUME IInv, AloneInv, NEW d \in Drains, Snapshot(d),
         \A b \in Drains \ {First} : step'[b] = "idle"
  PROVE  AloneInv'
<1>0. TypeOK
  BY DEF IInv
<1>1. /\ d = First
      /\ UNCHANGED <<version, deleted, pending, handling, logged>>
      /\ \A b \in Drains \ {d} : /\ step[b] = "idle" /\ step'[b] = "idle"
                                 /\ page'[b] = page[b]
  BY OnlyFirst DEF RunRepair
<1>2. UNCHANGED <<markers, index, page>>
  BY DEF Snapshot, bucket
<1>3. step'[d] = "next" /\ eligible'[d] = {a \in Accounts : Eligible(a)}
  BY <1>0 DEF Snapshot, Goto, TypeOK
<1>4. ItemCurrent' /\ OwnerQueued'
  BY <1>1, <1>3 DEF ItemCurrent, OwnerQueued, InHand
<1>5. OneType'
  BY <1>1, <1>2, <1>3 DEF OneType, AloneInv, InHand
<1>6. \A a \in Accounts : a \in eligible'[d] \/ ~Eligible(a)'
  BY <1>1, <1>3, SalesforceKept
<1>7. SnapshotCurrent'
  BY <1>1, <1>6 DEF SnapshotCurrent, OfOrgs, InHand
<1> QED BY <1>1, <1>2, <1>4, <1>5, <1>7, SalesforceKept, ShownKept DEF AloneInv

LEMMA FetchAlone ==
  ASSUME IInv, AloneInv, NEW d \in Drains, Fetch(d),
         \A b \in Drains \ {First} : step'[b] = "idle"
  PROVE  AloneInv'
<1>0. TypeOK
  BY DEF IInv
<1>1. /\ d = First
      /\ UNCHANGED <<version, deleted, pending, handling, logged>>
      /\ \A b \in Drains \ {d} : /\ step[b] = "idle" /\ step'[b] = "idle"
                                 /\ page'[b] = page[b]
  BY OnlyFirst DEF RunRepair
<1>2. UNCHANGED <<markers, revision, index, eligible>> /\ step[d] = "next"
  BY DEF Fetch, bucket
<1>3. PICK m \in page[d] :
          LET r == m.rec
              org == TypeOf(r) = "b2b_org"
              found == IF org /\ r[2] \notin eligible[d] THEN None ELSE version[r]
          IN  /\ page' = [page EXCEPT ![d] = @ \ {m}]
              /\ item' = [item EXCEPT ![d] = m]
              /\ doc' = [doc EXCEPT ![d] = found]
              /\ Goto(d, IF org \/ found = None THEN "project" ELSE "owner")
  BY DEF Fetch
<1> DEFINE found == IF IsOrg(m.rec) /\ m.rec[2] \notin eligible[d] THEN None ELSE version[m.rec]
<1>4. /\ page'[d] = page[d] \ {m}
      /\ item'[d] = m
      /\ doc'[d] = found
      /\ step'[d] = IF IsOrg(m.rec) \/ found = None THEN "project" ELSE "owner"
  BY <1>0, <1>3 DEF Goto, TypeOK, IsOrg
<1>5. m.rev <= revision
  BY DEF IInv, Rest, Selected
<1>6. ItemCurrent'
  BY <1>1, <1>2, <1>4, <1>5 DEF ItemCurrent, InHand
<1>7. OwnerQueued'
  BY <1>1, <1>4 DEF OwnerQueued
<1>8. OneType'
  BY <1>1, <1>4 DEF OneType, AloneInv, InHand
<1>9. OfOrgs(d)' => OfOrgs(d)
  BY <1>2, <1>4 DEF OfOrgs
<1>10. \A a \in Accounts : Due(Membership(a)) => Due(Membership(a))'
  BY <1>1, <1>2 DEF Due, Coming
<1>11. SnapshotCurrent'
  BY <1>1, <1>2, <1>9, <1>10, SalesforceKept DEF SnapshotCurrent, OfOrgs, AloneInv, InHand
<1> QED BY <1>1, <1>2, <1>6, <1>7, <1>8, <1>11, SalesforceKept, ShownKept DEF AloneInv

LEMMA QueueOwnerAlone ==
  ASSUME IInv, AloneInv, NEW d \in Drains, QueueOwner(d),
         \A b \in Drains \ {First} : step'[b] = "idle"
  PROVE  AloneInv'
<1> USE DEF None
<1>0. TypeOK
  BY DEF IInv
<1>1. /\ d = First
      /\ UNCHANGED <<version, deleted, pending, handling, logged>>
      /\ \A b \in Drains \ {d} : /\ step[b] = "idle" /\ step'[b] = "idle"
                                 /\ page'[b] = page[b]
  BY OnlyFirst DEF RunRepair
<1>2. UNCHANGED <<index, page, eligible, item, doc>> /\ step[d] = "owner"
  BY DEF QueueOwner
<1>3. /\ item[d].rec \in Records /\ item[d].rev \in Nat
      /\ Owner(item[d].rec) \in Records
      /\ ~IsOrg(item[d].rec)
      /\ item[d].rev <= revision /\ revision \in Nat
  BY <1>0, <1>2, MarkerInHand, OwnerIsRecord DEF InHand, AloneInv, ItemCurrent, TypeOK
<1>4. \/ step'[d] = "project" /\ PutPending(Owner(item[d].rec))
      \/ step'[d] = "next" /\ UNCHANGED bucket
  BY <1>0 DEF QueueOwner, Goto, TypeOK
<1>5. \A r \in Records : markers'[r] = markers[r] \/ markers'[r] = revision + 1
  <2>1. CASE PutPending(Owner(item[d].rec))
    BY <1>0, <1>3, <2>1 DEF PutPending, TypeOK
  <2>2. CASE UNCHANGED bucket
    BY <2>2 DEF bucket
  <2> QED BY <1>4, <2>1, <2>2
<1>6. \A r \in Records : /\ markers[r] # None => markers'[r] # None
                         /\ markers[r] > item[d].rev => markers'[r] > item[d].rev
  BY <1>0, <1>3, <1>5 DEF TypeOK
<1>7. step'[d] = "project" => markers'[Owner(item[d].rec)] # None
  BY <1>0, <1>3, <1>4 DEF PutPending, TypeOK
<1>8. ItemCurrent'
  <2>1. item[d].rev <= revision'
    BY <1>0, <1>3, <1>4 DEF PutPending, bucket
  <2>2. Anew(item[d]) => Anew(item[d])'
    BY <1>1, <1>2, <1>3, <1>6 DEF Anew, Coming
  <2>3. doc[d] = version[item[d].rec] \/ Anew(item[d])
    BY <1>2, <1>3 DEF AloneInv, ItemCurrent, InHand
  <2> QED BY <1>1, <1>2, <1>4, <2>1, <2>2, <2>3 DEF ItemCurrent, InHand
<1>9. OwnerQueued'
  BY <1>1, <1>2, <1>4, <1>7 DEF OwnerQueued
<1>10. OneType'
  BY <1>1, <1>2, <1>4 DEF OneType, AloneInv, InHand
<1>11. SnapshotCurrent'
  <2>1. ~OfOrgs(d)'
    BY <1>2, <1>3, <1>4 DEF OfOrgs, AloneInv, OneType, InHand
  <2> QED BY <1>1, <2>1 DEF SnapshotCurrent, OfOrgs, InHand
<1> QED BY <1>1, <1>2, <1>6, <1>8, <1>9, <1>10, <1>11, SalesforceKept, ShownKept DEF AloneInv

(* What the document in hand says of its record, once it is in the index.  *)
LEMMA DocumentInHand ==
  ASSUME IInv, AloneInv, NEW d \in Drains, step[d] \in {"project", "clear"},
         NEW a \in Accounts
  PROVE  /\ item[d].rec = Membership(a) =>
              doc[d] = version[Membership(a)] \/ Due(Membership(a))
         /\ item[d].rec = Org(a) =>
              doc[d] = Document(Org(a)) \/ ~Eligible(a) \/ Due(Org(a)) \/ Due(Membership(a))
<1>0. TypeOK /\ step[d] \in InHand
  BY DEF IInv, InHand
<1>1. Anew(item[d]) => Due(item[d].rec)
  BY <1>0, MarkerInHand DEF Anew, Due, TypeOK, None
<1>2. CASE item[d].rec = Membership(a)
  BY <1>0, <1>1, <1>2, AccountRecords DEF AloneInv, ItemCurrent
<1>3. CASE item[d].rec = Org(a)
  <2>1. IsOrg(item[d].rec) /\ item[d].rec[2] = a
    BY <1>3, AccountRecords
  <2>2. a \in eligible[d] \/ ~Eligible(a) \/ Due(Membership(a))
    BY <1>0, <2>1 DEF AloneInv, SnapshotCurrent, OfOrgs
  <2>3. doc[d] = version[Org(a)] \/ Due(Org(a)) \/ a \notin eligible[d]
    BY <1>0, <1>1, <1>3, <2>1 DEF AloneInv, ItemCurrent
  <2> QED BY <1>3, <2>2, <2>3, DocumentShape, AccountRecords
<1> QED BY <1>2, <1>3, AccountRecords

LEMMA ProjectAlone ==
  ASSUME IInv, AloneInv, NEW d \in Drains, Project(d),
         \A b \in Drains \ {First} : step'[b] = "idle"
  PROVE  AloneInv'
<1>0. TypeOK
  BY DEF IInv
<1>1. /\ d = First
      /\ UNCHANGED <<version, deleted, pending, handling, logged>>
      /\ \A b \in Drains \ {d} : /\ step[b] = "idle" /\ step'[b] = "idle"
                                 /\ page'[b] = page[b]
  BY OnlyFirst DEF RunRepair
<1>2. UNCHANGED <<markers, revision, page, eligible, item, doc>> /\ step[d] = "project"
  BY DEF Project, bucket
<1>3. item[d].rec \in Records
  BY <1>0, <1>2, MarkerInHand DEF InHand
<1>4. \/ step'[d] = "clear" /\ index'[item[d].rec] = doc[d]
      \/ step'[d] = "next"
  BY <1>0, <1>3 DEF Project, Goto, TypeOK
<1>5. \A r \in Records : index'[r] = index[r] \/ (r = item[d].rec /\ index'[r] = doc[d])
  BY <1>0 DEF Project, TypeOK
<1>6. ItemCurrent'
  <2>1. Anew(item[d])' <=> Anew(item[d])
    BY <1>1, <1>2 DEF Anew, Coming
  <2> QED BY <1>1, <1>2, <1>4, <2>1 DEF ItemCurrent, AloneInv, InHand
<1>7. OwnerQueued'
  BY <1>1, <1>2, <1>4 DEF OwnerQueued, AloneInv
<1>8. OneType'
  BY <1>1, <1>2, <1>4 DEF OneType, AloneInv, InHand
<1>9. \A r \in Records : Due(r) <=> Due(r)'
  BY <1>1, <1>2 DEF Due, Coming
<1>10. SnapshotCurrent'
  <2>1. OfOrgs(d)' => OfOrgs(d)
    BY <1>2, <1>4 DEF OfOrgs, AloneInv, OneType, InHand
  <2> QED BY <1>1, <1>2, <1>9, <2>1, SalesforceKept, AccountRecords
          DEF SnapshotCurrent, OfOrgs, AloneInv, InHand
<1>11. Shown'
  <2>1. \A r \in Records : Document(r)' = Document(r)
    BY <1>1, SalesforceKept
  <2>2. ASSUME NEW a \in Accounts
        PROVE  /\ index'[Membership(a)] = version[Membership(a)] \/ Due(Membership(a))
               /\ \/ index'[Org(a)] = Document(Org(a))
                  \/ ~Eligible(a) \/ Due(Org(a)) \/ Due(Membership(a))
    BY <1>2, <1>5, DocumentInHand, AccountRecords DEF AloneInv, Shown
  <2>3. \A a \in Accounts : Eligible(a)' <=> Eligible(a)
    BY <1>1, SalesforceKept
  <2> QED BY <1>1, <1>9, <2>1, <2>2, <2>3, AccountRecords DEF Shown
<1> QED BY <1>1, <1>6, <1>7, <1>8, <1>10, <1>11, SalesforceKept DEF AloneInv

LEMMA ClearAlone ==
  ASSUME IInv, AloneInv, NEW d \in Drains, Clear(d),
         \A b \in Drains \ {First} : step'[b] = "idle"
  PROVE  AloneInv'
<1>0. TypeOK
  BY DEF IInv
<1>1. /\ d = First
      /\ UNCHANGED <<version, deleted, pending, handling, logged>>
      /\ \A b \in Drains \ {d} : /\ step[b] = "idle" /\ step'[b] = "idle"
                                 /\ page'[b] = page[b]
  BY OnlyFirst DEF RunRepair
<1>2. UNCHANGED <<index, page, eligible>> /\ step[d] = "clear"
  BY DEF Clear
<1>3. item[d].rec \in Records /\ item[d].rev \in Nat
  BY <1>0, <1>2, MarkerInHand DEF InHand
<1>4. step'[d] = "next"
  BY <1>0 DEF Clear, Goto, TypeOK
<1>5. \A r \in Records : \/ markers'[r] = markers[r]
                         \/ r = item[d].rec /\ markers[r] = item[d].rev
  BY <1>0 DEF Clear, TypeOK
<1>6. ItemCurrent' /\ OwnerQueued'
  BY <1>1, <1>4 DEF ItemCurrent, OwnerQueued, InHand
<1>7. OneType'
  BY <1>1, <1>2, <1>4 DEF OneType, AloneInv, InHand
<1>8. ASSUME NEW r \in Records, r # item[d].rec, Due(r) PROVE Due(r)'
  BY <1>1, <1>5, <1>8 DEF Due, Coming
<1>9. ASSUME NEW r \in Records, r = item[d].rec, Due(r), ~Due(r)'
      PROVE  ~Coming(r) /\ ~Anew(item[d])
  <2>1. ~Coming(r) /\ markers[r] = item[d].rev
    BY <1>1, <1>5, <1>9 DEF Due, Coming
  <2> QED BY <1>3, <1>9, <2>1 DEF Anew
<1>10. SnapshotCurrent'
  <2>1. OfOrgs(d)' => IsOrg(item[d].rec)
    BY <1>2, <1>4 DEF OfOrgs, AloneInv, OneType, InHand
  <2>2. IsOrg(item[d].rec) => \A a \in Accounts : Due(Membership(a)) => Due(Membership(a))'
    BY <1>8, AccountRecords
  <2>3. IsOrg(item[d].rec) => OfOrgs(d)
    BY <1>2 DEF OfOrgs, InHand
  <2> QED BY <1>1, <1>2, <2>1, <2>2, <2>3, SalesforceKept DEF SnapshotCurrent, OfOrgs, AloneInv, InHand
<1>11. ASSUME NEW a \in Accounts
       PROVE  /\ index[Membership(a)] = version[Membership(a)] \/ Due(Membership(a))'
              /\ \/ index[Org(a)] = Document(Org(a))
                 \/ ~Eligible(a) \/ Due(Org(a))' \/ Due(Membership(a))'
  <2>1. step[d] \in InHand /\ index[item[d].rec] = doc[d]
    BY <1>2 DEF AloneInv, ItemCurrent, InHand
  <2>2. CASE item[d].rec = Membership(a)
    <3>1. ~IsOrg(item[d].rec) /\ Owner(item[d].rec) = Org(a) /\ Org(a) # Membership(a)
      BY <2>2, AccountRecords
    <3>2. Due(Org(a)) => Due(Org(a))'
      BY <1>8, <2>2, <3>1, AccountRecords
    <3>3. CASE Due(Membership(a))'
      BY <3>2, <3>3 DEF AloneInv, Shown
    <3>4. CASE Due(Membership(a)) /\ ~Due(Membership(a))'
      <4>1. ~Anew(item[d])
        BY <1>9, <2>2, <3>4, AccountRecords
      <4>2. doc[d] = version[Membership(a)]
        BY <2>1, <2>2, <3>1, <4>1 DEF AloneInv, ItemCurrent
      <4>3. doc[d] = None \/ Due(Org(a))
        BY <1>2, <3>1 DEF AloneInv, OwnerQueued, Due
      <4> QED BY <2>1, <2>2, <3>2, <4>2, <4>3 DEF Eligible
    <3>5. CASE ~Due(Membership(a))
      BY <3>2, <3>5 DEF AloneInv, Shown
    <3> QED BY <3>3, <3>4, <3>5
  <2>3. CASE item[d].rec = Org(a)
    <3>1. Due(Membership(a)) => Due(Membership(a))'
      BY <1>8, <2>3, AccountRecords
    <3>2. IsOrg(item[d].rec) /\ item[d].rec[2] = a
      BY <2>3, AccountRecords
    <3>3. CASE Due(Org(a)) /\ ~Due(Org(a))'
      <4>1. ~Anew(item[d])
        BY <1>9, <2>3, <3>3, AccountRecords
      <4>2. doc[d] = version[Org(a)] \/ a \notin eligible[d]
        BY <2>1, <2>3, <3>2, <4>1 DEF AloneInv, ItemCurrent
      <4>3. a \in eligible[d] \/ ~Eligible(a) \/ Due(Membership(a))
        BY <2>1, <3>2 DEF AloneInv, SnapshotCurrent, OfOrgs
      <4> QED BY <2>1, <2>3, <3>1, <4>2, <4>3, DocumentShape DEF AloneInv, Shown
    <3>4. CASE Due(Org(a)) => Due(Org(a))'
      BY <3>1, <3>4 DEF AloneInv, Shown
    <3> QED BY <3>3, <3>4
  <2>4. CASE item[d].rec # Membership(a) /\ item[d].rec # Org(a)
    BY <1>8, <2>4, AccountRecords DEF AloneInv, Shown
  <2> QED BY <2>2, <2>3, <2>4
<1>12. Shown'
  <2>1. \A r \in Records : Document(r)' = Document(r)
    BY <1>1, SalesforceKept
  <2>2. \A a \in Accounts : Eligible(a)' <=> Eligible(a)
    BY <1>1, SalesforceKept
  <2> QED BY <1>1, <1>2, <1>11, <2>1, <2>2, AccountRecords DEF Shown
<1> QED BY <1>1, <1>6, <1>7, <1>10, <1>12, SalesforceKept DEF AloneInv

LEMMA LeaveAlone ==
  ASSUME IInv, AloneInv, NEW d \in Drains, Finish(d) \/ Abandon(d) \/ Retain(d),
         \A b \in Drains \ {First} : step'[b] = "idle"
  PROVE  AloneInv'
<1>0. TypeOK
  BY DEF IInv
<1>1. /\ d = First
      /\ UNCHANGED <<version, deleted, pending, handling, logged>>
      /\ \A b \in Drains \ {d} : /\ step[b] = "idle" /\ step'[b] = "idle"
                                 /\ page'[b] = page[b]
  BY OnlyFirst DEF RunRepair
<1>2. UNCHANGED <<markers, index, eligible>>
  BY DEF Finish, Abandon, Retain, bucket
<1>3. /\ page'[d] \subseteq page[d]
      /\ step'[d] = "idle" \/ (step'[d] = "next" /\ step[d] = "next")
  BY <1>0 DEF Finish, Abandon, Retain, Goto, TypeOK
<1>4. ItemCurrent' /\ OwnerQueued'
  BY <1>1, <1>3 DEF ItemCurrent, OwnerQueued, InHand
<1>5. OneType'
  BY <1>1, <1>3 DEF OneType, AloneInv, InHand
<1>6. \A a \in Accounts : Due(Membership(a)) => Due(Membership(a))'
  BY <1>1, <1>2 DEF Due, Coming
<1>7. SnapshotCurrent'
  <2>1. OfOrgs(d)' => OfOrgs(d)
    BY <1>3 DEF OfOrgs, InHand
  <2> QED BY <1>1, <1>2, <1>6, <2>1, SalesforceKept DEF SnapshotCurrent, OfOrgs, AloneInv, InHand
<1> QED BY <1>1, <1>2, <1>4, <1>5, <1>7, SalesforceKept, ShownKept DEF AloneInv

LEMMA NextAlone ==
  ASSUME IInv, AloneInv, Next, QueueOnly
  PROVE  AloneInv'
<1>0. TypeOK /\ TypeOK'
  BY NextTyped DEF IInv
<1>1. deleted' = {} /\ \A b \in Drains \ {First} : step'[b] = "idle"
  BY DEF QueueOnly
<1>2. CASE Salesforce \/ Skip
  BY <1>0, <1>1, <1>2, SalesforceBeside, SkipBeside, BesideAlone DEF Salesforce
<1>3. ~Read
  <2>1. SUFFICES ASSUME Read PROVE FALSE
    OBVIOUS
  <2>2. PICK e \in pending : handling'.rec = e.rec
    BY <2>1 DEF Read
  <2>3. e.rec[1] \in {"b2b_org", "project_membership"}
    BY <1>0 DEF TypeOK, Records, Types
  <2> QED BY <2>2, <2>3 DEF QueueOnly, Idle, NoRecord
<1>4. ~Publish
  BY DEF Publish, AloneInv, Solo
<1>5. ASSUME NEW d \in Drains, Select(d) \/ RunRepair(d) PROVE AloneInv'
  BY <1>1, <1>5, SelectAlone, SnapshotAlone, FetchAlone, QueueOwnerAlone, ProjectAlone,
     ClearAlone, LeaveAlone DEF RunRepair
<1> QED BY <1>2, <1>3, <1>4, <1>5 DEF Next, Consume

(* With one drain at a time and a consumer that only queues, once the      *)
(* queue is drained the index shows every record's last change: a drain    *)
(* that read before a change leaves a marker for it, and a membership      *)
(* that makes its owner eligible has queued the owner.                     *)
THEOREM DrainedIndexShows == MCSpec => []ConvergesAlone
<1> DEFINE Inv == IInv /\ (alone => AloneInv)
<1>1. MCInit => Inv
  BY InitTyped, InitRest, InitAlone DEF MCInit, IInv
<1>2. Inv /\ [MCNext]_<<vars, bvars, part, alone>> => Inv'
  <2> SUFFICES ASSUME Inv, [MCNext]_<<vars, bvars, part, alone>> PROVE Inv'
    OBVIOUS
  <2>1. [Next]_vars /\ alone' = alone
    BY DEF MCNext, DrainNext
  <2>2. IInv'
    BY <2>1, NextTyped, NextRest DEF IInv
  <2>3. CASE UNCHANGED vars
    BY <2>1, <2>2, <2>3 DEF vars, salesforce, consumer, bucket, drain, AloneInv, Solo, ItemCurrent,
       OwnerQueued, OneType, SnapshotCurrent, OfOrgs, Shown, Due, Coming, Anew, Document, Eligible
  <2>4. CASE DrainNext /\ alone
    BY <2>1, <2>2, <2>4, NextAlone DEF DrainNext
  <2> QED BY <2>1, <2>2, <2>3, <2>4 DEF MCNext
<1>3. Inv => ConvergesAlone
  <2> SUFFICES ASSUME Inv, alone, Drained, NEW r \in Records
               PROVE  \/ index[r] = Document(r)
                      \/ TypeOf(r) = "b2b_org" /\ version[r] # None /\ ~Eligible(r[2])
    BY DEF ConvergesAlone, Converges
  <2>1. \A q \in Records : ~Due(q)
    BY DEF Drained, Due, Coming
  <2>2. PICK a \in Accounts : r = Org(a) \/ r = Membership(a)
    BY RecordShape
  <2>3. CASE r = Membership(a)
    BY <2>1, <2>3, AccountRecords, DocumentShape DEF AloneInv, Shown
  <2>4. CASE r = Org(a)
    BY <2>1, <2>4, AccountRecords DEF AloneInv, Shown, Solo, IsOrg
  <2> QED BY <2>2, <2>3, <2>4
<1> QED BY <1>1, <1>2, <1>3, PTL DEF MCSpec

----------------------------------------------------------------------------
(***************************************************************************)
(* Reindex runs: the shape of the state.                                   *)
(***************************************************************************)

(* A record counts its changes, and a run is always for a request.         *)
Bounded ==
    /\ \A r \in Assets : asset[r].version <= edits + 2
    /\ turn <= Len(plan) + 1
    /\ scan.at # "idle" => turn <= Len(plan)

BTyped == BTypeOK /\ Bounded

(* Two requests at most, each with its window and its list.                *)
LEMMA PlanShape ==
  ASSUME plan \in Plans
  PROVE  /\ Len(plan) \in {1, 2}
         /\ \A t \in 1 .. Len(plan) :
               /\ plan[t].items \subseteq Assets
               /\ plan[t].mode = "targeted" => Len(plan) = 1
               /\ plan[t].mode \in {"full", "filtered", "targeted"}
<1>1. CASE plan = <<Full>>
  BY <1>1 DEF Full
<1>2. ASSUME NEW k \in Days,
             plan = <<Window(0, k), Window(k, LastDay)>> \/ plan = <<Window(k, LastDay), Window(0, k)>>
      PROVE  /\ Len(plan) = 2
             /\ \A t \in 1 .. 2 : plan[t].mode = "filtered" /\ plan[t].items = {}
  BY <1>2 DEF Window
<1>3. ASSUME NEW uids \in SUBSET Assets, plan = <<Items(uids)>>
      PROVE  Len(plan) = 1 /\ plan[1].mode = "targeted" /\ plan[1].items = uids
  BY <1>3 DEF Items
<1> QED BY <1>1, <1>2, <1>3 DEF Plans

(* A set of reads is a function on the records that were read.             *)
LEMMA ReadsShape ==
  ASSUME NEW f
  PROVE  f \in ManyReads <=> DOMAIN f \subseteq Assets /\ f \in [DOMAIN f -> AssetRead]
BY DEF ManyReads

(* What is read of a record now is a read.                                 *)
LEMMA NowShape ==
  ASSUME BTypeOK, NEW r \in Assets
  PROVE  [live |-> Live(r), version |-> asset[r].version] \in AssetRead
BY DEF BTypeOK, AssetRead, Live

LEMMA AsItIsShape ==
  ASSUME BTypeOK, NEW uids \in SUBSET Assets
  PROVE  AsItIs(uids) \in ManyReads /\ DOMAIN AsItIs(uids) = uids
BY NowShape, ReadsShape DEF AsItIs

LEMMA NoReadsShape == NoReads \in ManyReads /\ DOMAIN NoReads = {}
BY ReadsShape DEF NoReads

(* What a page brings: each record as at the query or as it is now, and    *)
(* none is dropped that still qualifies.                                   *)
LEMMA PageRead ==
  ASSUME BTypeOK, NextPage, scan' # NoScan
  PROVE  /\ scan' \in [at : {"publish"}, rest : ManyReads, page : ManyReads]
         /\ DOMAIN scan.page' \union DOMAIN scan.rest' \subseteq DOMAIN scan.rest
         /\ \A r \in DOMAIN scan.rest : Live(r) => r \in DOMAIN scan.page' \union DOMAIN scan.rest'
         /\ \A r \in DOMAIN scan.rest' : scan.rest'[r] = scan.rest[r]
         /\ \A r \in DOMAIN scan.page' :
               \/ scan.page'[r] = scan.rest[r]
               \/ scan.page'[r] = [live |-> Live(r), version |-> asset[r].version]
<1>1. PICK uids \in SUBSET DOMAIN scan.rest : \E now \in SUBSET uids :
        LET present == uids \ {r \in now : ~Live(r)}
            read    == [r \in present |-> IF r \in now THEN AsItIs(present)[r] ELSE scan.rest[r]]
            left    == DOMAIN scan.rest \ uids
        IN scan' = [at |-> "publish", page |-> read, rest |-> [r \in left |-> scan.rest[r]]]
  BY DEF NextPage
<1>0. PICK now \in SUBSET uids :
        LET present == uids \ {r \in now : ~Live(r)}
            read    == [r \in present |-> IF r \in now THEN AsItIs(present)[r] ELSE scan.rest[r]]
            left    == DOMAIN scan.rest \ uids
        IN scan' = [at |-> "publish", page |-> read, rest |-> [r \in left |-> scan.rest[r]]]
  BY <1>1
<1> DEFINE present == uids \ {r \in now : ~Live(r)}
           read == [r \in present |-> IF r \in now THEN AsItIs(present)[r] ELSE scan.rest[r]]
           left == DOMAIN scan.rest \ uids
<1>2. scan' = [at |-> "publish", page |-> read, rest |-> [r \in left |-> scan.rest[r]]]
  BY <1>0
<1>3. DOMAIN scan.rest \subseteq Assets /\ scan.rest \in [DOMAIN scan.rest -> AssetRead]
  BY ReadsShape DEF BTypeOK
<1>4. \A r \in present : AsItIs(present)[r] = [live |-> Live(r), version |-> asset[r].version]
  BY DEF AsItIs
<1>5. read \in [present -> AssetRead]
  BY <1>3, <1>4, NowShape
<1>6. [r \in left |-> scan.rest[r]] \in [left -> AssetRead]
  BY <1>3
<1> HIDE DEF left
<1>7. read \in ManyReads /\ [r \in left |-> scan.rest[r]] \in ManyReads
  BY <1>3, <1>5, <1>6 DEF ManyReads, left
<1>8. scan' \in [at : {"publish"}, rest : ManyReads, page : ManyReads]
  BY <1>2, <1>7
<1>9. DOMAIN scan.page' = present /\ DOMAIN scan.rest' = left
  BY <1>2
<1>10. \A r \in left : scan.rest'[r] = scan.rest[r]
  BY <1>2
<1>11. \A r \in present :
          \/ scan.page'[r] = scan.rest[r]
          \/ scan.page'[r] = [live |-> Live(r), version |-> asset[r].version]
  BY <1>2, <1>4
<1> QED BY <1>8, <1>9, <1>10, <1>11 DEF left

(* Nothing has run and nothing has changed yet.                            *)
LEMMA InitBTyped == ASSUME BInit PROVE BTyped
<1>1. Len(plan) \in {1, 2}
  BY PlanShape DEF BInit
<1>2. \A r \in Assets : asset[r] \in [state : States, day : 0 .. day, version : {2}]
  BY DEF BInit
<1>3. {2} \subseteq 2 .. MaxEdits + 2 /\ 0 .. day \subseteq Days
  BY BackfillAssumption DEF BInit, Days
<1>4. asset \in [Assets -> [state : States, day : Days, version : 2 .. MaxEdits + 2]]
  BY <1>3 DEF BInit
<1>5. shown \in [Assets -> 0 .. MaxEdits + 2]
  BY BackfillAssumption DEF BInit
<1>6. scan \in [at : {"idle", "query", "publish"}, rest : ManyReads, page : ManyReads]
  BY NoReadsShape DEF BInit, NoScan
<1>7. granted \in [Assets -> BOOLEAN]
  BY DEF BInit
<1>8. edits \in 0 .. MaxEdits /\ breaks \in 0 .. MaxBreaks
  BY BackfillAssumption DEF BInit
<1>9. Bounded
  BY <1>1, <1>2 DEF BInit, Bounded, NoScan
<1> QED BY <1>1, <1>4, <1>5, <1>6, <1>7, <1>8, <1>9 DEF BInit, BTyped, BTypeOK

(* A broken call stays within the bound.                                   *)
LEMMA BreakTyped ==
  ASSUME BTypeOK, Break \/ breaks' = breaks
  PROVE  breaks' \in 0 .. MaxBreaks
BY BackfillAssumption DEF BTypeOK, Break

(* Taking a record off the page leaves the rest of the run as it is.       *)
LEMMA OffShape ==
  ASSUME BTypeOK, NEW r, Off(r)
  PROVE  /\ scan' \in [at : {scan.at}, rest : {scan.rest}, page : ManyReads]
         /\ DOMAIN scan.page' = DOMAIN scan.page \ {r}
         /\ \A s \in DOMAIN scan.page' : scan.page'[s] = scan.page[s]
<1> DEFINE left == DOMAIN scan.page \ {r}
           read == [s \in left |-> scan.page[s]]
<1>1. scan' = [scan EXCEPT !.page = read]
  BY DEF Off
<1>2. DOMAIN scan.page \subseteq Assets /\ scan.page \in [DOMAIN scan.page -> AssetRead]
  BY ReadsShape DEF BTypeOK
<1>3. read \in ManyReads
  <2>1. read \in [left -> AssetRead] /\ left \in SUBSET Assets
    BY <1>2
  <2> QED BY <2>1 DEF ManyReads
<1>4. DOMAIN read = left /\ \A s \in left : read[s] = scan.page[s]
  OBVIOUS
<1> HIDE DEF read
<1>5. scan' = [at |-> scan.at, rest |-> scan.rest, page |-> read]
  BY <1>1 DEF BTypeOK
<1> QED BY <1>3, <1>4, <1>5

(* One case per action.                                                    *)
LEMMA NextBTyped == ASSUME BTyped, [BNext]_bvars PROVE BTyped'
<1>0. BTypeOK /\ Bounded
  BY DEF BTyped
<1>1. Len(plan) \in {1, 2} /\ turn \in 1 .. 3
  BY <1>0, PlanShape DEF BTypeOK
<1>2. ASSUME NEW r \in Assets, Edit(r) PROVE BTyped'
  <2>1. PICK to \in States :
           asset' = [asset EXCEPT ![r] = [state |-> to, day |-> day, version |-> @.version + 1]]
    BY <1>2 DEF Edit
  <2>2. edits \in 0 .. MaxEdits - 1 /\ edits' = edits + 1
    BY <1>0, <1>2, BackfillAssumption DEF Edit, BTypeOK
  <2>3. asset[r].version + 1 \in 2 .. MaxEdits + 2
    BY <1>0, <2>2, BackfillAssumption DEF BTypeOK, Bounded
  <2>4. asset' \in [Assets -> [state : States, day : Days, version : 2 .. MaxEdits + 2]]
    BY <1>0, <2>1, <2>3 DEF BTypeOK
  <2>5. \A s \in Assets : asset'[s].version <= edits' + 2
    BY <1>0, <2>1, <2>2 DEF BTypeOK, Bounded
  <2>6. feed' \subseteq Assets /\ edits' \in 0 .. MaxEdits
    BY <1>0, <1>2, <2>2, BackfillAssumption DEF Edit, BTypeOK
  <2>7. Bounded'
    BY <1>0, <1>2, <2>5 DEF Edit, Bounded
  <2>8. BTypeOK'
    BY <1>0, <1>2, <2>4, <2>6 DEF Edit, BTypeOK
  <2> QED BY <2>7, <2>8 DEF BTyped
<1>3. CASE NextDay
  BY <1>0, <1>3, BackfillAssumption DEF NextDay, BTyped, BTypeOK, Bounded, Days
<1>4. ASSUME NEW r \in Assets, Handle(r) PROVE BTyped'
  <2>1. shown' \in [Assets -> 0 .. MaxEdits + 2]
    <3>1. asset[r].version \in 0 .. MaxEdits + 2 /\ 0 \in 0 .. MaxEdits + 2
      BY <1>0, BackfillAssumption DEF BTypeOK
    <3> QED BY <1>0, <1>4, <3>1 DEF Handle, BTypeOK
  <2>2. granted' \in [Assets -> BOOLEAN]
    BY <1>0, <1>4 DEF Handle, BTypeOK, Live
  <2> QED BY <1>0, <1>4, <2>1, <2>2 DEF Handle, BTyped, BTypeOK, Bounded
<1>5. ASSUME NEW r \in Assets, PublishAsset(r) \/ MissAsset(r) PROVE BTyped'
  <2>1. scan.page[r] \in AssetRead /\ Off(r) /\ scan.at = "publish"
    BY <1>0, <1>5, ReadsShape DEF PublishAsset, MissAsset, Publishing, BTypeOK
  <2>2. scan' \in [at : {"idle", "query", "publish"}, rest : ManyReads, page : ManyReads] /\ scan'.at = scan.at
    BY <1>0, <2>1, OffShape DEF BTypeOK
  <2>3. scan.page[r].version \in 0 .. MaxEdits + 2 /\ scan.page[r].live \in BOOLEAN
    BY <2>1, BackfillAssumption DEF AssetRead
  <2>4. shown' \in [Assets -> 0 .. MaxEdits + 2]
    BY <1>0, <1>5, <2>3, BackfillAssumption DEF PublishAsset, MissAsset, BTypeOK
  <2>5. granted' \in [Assets -> BOOLEAN]
    BY <1>0, <1>5, <2>3 DEF PublishAsset, MissAsset, BTypeOK
  <2>6. missed' \subseteq Assets /\ overtaken' \subseteq Assets
    BY <1>0, <1>5 DEF PublishAsset, MissAsset, BTypeOK
  <2>7. breaks' \in 0 .. MaxBreaks
    BY <1>0, <1>5, BreakTyped DEF PublishAsset, MissAsset
  <2> QED BY <1>0, <1>5, <2>2, <2>4, <2>5, <2>6, <2>7
          DEF PublishAsset, MissAsset, BTyped, BTypeOK, Bounded
<1>6. CASE Start
  <2>1. {r \in Assets : InWindow(r)} \in SUBSET Assets
    OBVIOUS
  <2>2. scan' \in [at : {"query"}, rest : ManyReads, page : ManyReads]
    BY <1>0, <1>6, <2>1, AsItIsShape, NoReadsShape DEF Start, NoScan
  <2>3. breaks' \in 0 .. MaxBreaks /\ gauge' \in {"none", "low", "high"}
    BY <1>0, <1>6, BreakTyped DEF Start, StartGate, BTypeOK
  <2> QED BY <1>0, <1>1, <1>6, <2>2, <2>3 DEF Start, Done, BTyped, BTypeOK, Bounded
<1>7. CASE Refuse
  BY <1>0, <1>7 DEF Refuse, BTyped, BTypeOK, Bounded
<1>8. CASE NextPage
  <2>1. scan' \in [at : {"idle", "publish"}, rest : ManyReads, page : ManyReads]
    <3>1. CASE scan' = NoScan
      BY <3>1, NoReadsShape DEF NoScan
    <3>2. CASE scan' # NoScan
      BY <1>0, <1>8, <3>2, PageRead
    <3> QED BY <3>1, <3>2
  <2> QED BY <1>0, <1>1, <1>8, <2>1 DEF NextPage, Answered, BTyped, BTypeOK, Bounded
<1>9. CASE FetchItems
  <2>1. Request.items \in SUBSET Assets
    BY <1>0, <1>1, <1>9, PlanShape DEF FetchItems, Request, BTypeOK, Bounded
  <2>2. scan' \in [at : {"publish"}, rest : ManyReads, page : ManyReads]
    BY <1>0, <1>9, <2>1, AsItIsShape, NoReadsShape DEF FetchItems
  <2> QED BY <1>0, <1>1, <1>9, <2>2 DEF FetchItems, Answered, BTyped, BTypeOK, Bounded
<1>10. CASE End
  <2>1. scan' \in [at : {"idle"}, rest : ManyReads, page : ManyReads]
    BY <1>10, NoReadsShape DEF End, NoScan
  <2> QED BY <1>0, <1>10, <2>1, BreakTyped DEF End, BTyped, BTypeOK, Bounded
<1>11. CASE PageDone
  <2>1. CASE DOMAIN scan.rest = {}
    <3>1. scan' \in [at : {"idle"}, rest : ManyReads, page : ManyReads] /\ turn' = turn + 1
      BY <1>11, <2>1, NoReadsShape DEF PageDone, NoScan
    <3>2. turn <= Len(plan)
      BY <1>0, <1>11 DEF PageDone, Bounded
    <3>3. UNCHANGED <<asset, day, feed, shown, granted, plan, gauge, missed, overtaken,
                      edits, breaks>>
      BY <1>11 DEF PageDone
    <3>4. turn' \in 1 .. 3 /\ turn' <= Len(plan) + 1
      <4>1. \A m \in 1 .. 3, n \in {1, 2} : m <= n => m + 1 \in 1 .. 3 /\ m + 1 <= n + 1
        OBVIOUS
      <4>2. turn' = turn + 1
        BY <3>1
      <4> QED BY <1>1, <3>2, <4>1, <4>2
    <3>5. Bounded'
      BY <1>0, <3>1, <3>3, <3>4 DEF Bounded
    <3>6. BTypeOK'
      BY <1>0, <3>1, <3>3, <3>4 DEF BTypeOK
    <3> QED BY <3>5, <3>6 DEF BTyped
  <2>2. CASE DOMAIN scan.rest # {}
    <3>1. scan' \in [at : {"query"}, rest : ManyReads, page : ManyReads] /\ turn' = turn
      BY <1>0, <1>11, <2>2 DEF PageDone, BTypeOK
    <3>2. turn <= Len(plan)
      BY <1>0, <1>11 DEF PageDone, Bounded
    <3>3. UNCHANGED <<asset, day, feed, shown, granted, plan, turn, gauge, missed, overtaken,
                      edits, breaks>>
      BY <1>11, <3>1 DEF PageDone
    <3> QED BY <1>0, <3>1, <3>2, <3>3 DEF BTyped, BTypeOK, Bounded
  <2> QED BY <2>1, <2>2
<1>12. CASE UNCHANGED bvars
  BY <1>0, <1>12 DEF bvars, BTyped, BTypeOK, Bounded
<1> QED BY <1>2, <1>3, <1>4, <1>5, <1>6, <1>7, <1>8, <1>9, <1>10, <1>11, <1>12 DEF BNext

(* The state of a reindex keeps its shape.                                 *)
THEOREM ReindexTypeCorrect == BSpec => []BTypeOK
<1>1. BInit => BTyped BY InitBTyped
<1>2. BTyped /\ [BNext]_bvars => BTyped' BY NextBTyped
<1>3. BTyped => BTypeOK BY DEF BTyped
<1> QED BY <1>1, <1>2, <1>3, PTL DEF BSpec

----------------------------------------------------------------------------
(***************************************************************************)
(* Reindex runs: what has been repaired.                                   *)
(***************************************************************************)

(* The record changed since the feed skipped its second version.           *)
Changed(r) == asset[r].version > 2

InScope(t, r) ==
    \/ plan[t].mode = "targeted" /\ r \in plan[t].items
    \/ /\ plan[t].mode # "targeted"
       /\ plan[t].since <= asset[r].day /\ asset[r].day <= plan[t].until

(* Index and grants are what the record's state calls for.                 *)
Exact(r) ==
    /\ Live(r) => shown[r] = asset[r].version /\ granted[r]
    /\ asset[r].state = "outside" => shown[r] = 0
    /\ asset[r].state = "deleted" => shown[r] = 0 /\ ~granted[r]

(* Request t has repaired the record.                                      *)
Seen(t, r) ==
    /\ Live(r) => shown[r] = 2 /\ granted[r]
    /\ ~Live(r) /\ plan[t].mode = "targeted" => shown[r] = 0

(* A read is not ahead of Salesforce, and true of the version it has.      *)
Truthful(read) ==
    \A r \in DOMAIN read :
        /\ read[r].version <= asset[r].version
        /\ read[r].version = asset[r].version => read[r].live = Live(r)

RunReads ==
    /\ Truthful(scan.rest) /\ Truthful(scan.page)
    /\ scan.at = "query" => DOMAIN scan.page = {}

(* A change that was handled is exact, or the log or a late read names it. *)
Repaired ==
    \A r \in Assets : Changed(r) => r \in feed \union missed \union overtaken \/ Exact(r)

(* Only an overtaken read restores grants of a deleted record.             *)
Withdrawn ==
    \A r \in Assets :
        Changed(r) /\ asset[r].state = "deleted" => r \in feed \union overtaken \/ ~granted[r]

(* Every request that completed has repaired what was in its scope.        *)
Past ==
    \A t \in 1 .. turn - 1, r \in Assets :
        ~Changed(r) /\ InScope(t, r) => r \in missed \/ Seen(t, r)

(* The run under way has, or has still to come to it.                      *)
Present ==
    \A r \in Assets :
        scan.at # "idle" /\ ~Changed(r) /\ InScope(turn, r) =>
            \/ r \in missed \/ Seen(turn, r)
            \/ r \in DOMAIN scan.rest \union DOMAIN scan.page
            \/ Request.mode = "targeted" /\ scan.at = "query"

Reindexed == RunReads /\ Repaired /\ Withdrawn /\ Past /\ Present

BInv == BTyped /\ Reindexed

(* What a plan promises, one of its requests has in its scope.             *)
LEMMA PlanCovers ==
  ASSUME BTypeOK, NEW r \in Assets, Promised(r)
  PROVE  \E t \in 1 .. Len(plan) :
            InScope(t, r) /\ (plan[t].mode = "targeted" <=> plan[1].mode = "targeted")
<1>0. asset[r].day \in 0 .. LastDay /\ LastDay \in Nat
  BY BackfillAssumption DEF BTypeOK, Days
<1>1. CASE plan = <<Full>>
  <2>1. Len(plan) = 1 /\ InScope(1, r)
    BY <1>0, <1>1 DEF Full, InScope
  <2> QED BY <2>1
<1>2. ASSUME NEW k \in Days, plan = <<Window(0, k), Window(k, LastDay)>>
      PROVE  Len(plan) = 2 /\ (InScope(1, r) \/ InScope(2, r))
             /\ plan[1].mode = "filtered" /\ plan[2].mode = "filtered"
  BY <1>0, <1>2 DEF Window, InScope, Days
<1>3. ASSUME NEW k \in Days, plan = <<Window(k, LastDay), Window(0, k)>>
      PROVE  Len(plan) = 2 /\ (InScope(1, r) \/ InScope(2, r))
             /\ plan[1].mode = "filtered" /\ plan[2].mode = "filtered"
  BY <1>0, <1>3 DEF Window, InScope, Days
<1>4. ASSUME NEW uids \in SUBSET Assets, plan = <<Items(uids)>>
      PROVE  Len(plan) = 1 /\ InScope(1, r)
  BY <1>4 DEF Items, InScope, Promised
<1>5. plan \in Plans
  BY DEF BTypeOK
<1>6. CASE \E k \in Days : plan \in {<<Window(0, k), Window(k, LastDay)>>, <<Window(k, LastDay), Window(0, k)>>}
  <2>1. Len(plan) = 2 /\ (InScope(1, r) \/ InScope(2, r))
             /\ plan[1].mode = "filtered" /\ plan[2].mode = "filtered"
    BY <1>2, <1>3, <1>6
  <2> QED BY <2>1
<1>7. CASE \E uids \in SUBSET Assets : plan = <<Items(uids)>>
  <2>1. Len(plan) = 1 /\ InScope(1, r)
    BY <1>4, <1>7
  <2> QED BY <2>1
<1> QED BY <1>1, <1>5, <1>6, <1>7 DEF Plans

(* A read made now is true, and stays true while records change.           *)
LEMMA TruthfulNow == ASSUME BTypeOK, NEW uids \in SUBSET Assets PROVE Truthful(AsItIs(uids))
BY DEF Truthful, AsItIs, BTypeOK

LEMMA TruthfulNone == Truthful(NoReads)
BY NoReadsShape DEF Truthful

(* The steps of a run leave what was repaired as it is.                    *)
LEMMA RunKeeps ==
  ASSUME BInv, UNCHANGED <<asset, feed, shown, granted, plan, missed, overtaken>>
  PROVE  /\ Repaired' /\ Withdrawn'
         /\ turn' = turn => Past'
         /\ \A read : Truthful(read) => Truthful(read)'
         /\ \A t, r : /\ Seen(t, r)' <=> Seen(t, r)
                      /\ InScope(t, r)' <=> InScope(t, r)
                      /\ Changed(r)' <=> Changed(r)
BY DEF BInv, Reindexed, Repaired, Withdrawn, Past, Truthful, Changed, Exact, Live, InScope, Seen

(* A record Salesforce changes waits for the consumer.                     *)
LEMMA EditReindexed == ASSUME BInv, NEW e \in Assets, Edit(e) PROVE Reindexed'
<1>0. BTypeOK
  BY DEF BInv, BTyped
<1>1. /\ UNCHANGED <<shown, granted, plan, turn, scan, missed, overtaken>>
      /\ feed' = feed \union {e}
      /\ \A r \in Assets : r # e => asset'[r] = asset[r]
      /\ asset'[e].version = asset[e].version + 1
  BY <1>0 DEF Edit, BTypeOK
<1>2. \A r \in Assets : asset[r].version \in Nat /\ asset[r].version >= 2
  BY <1>0, BackfillAssumption DEF BTypeOK
<1>3. Changed(e)'
  BY <1>1, <1>2 DEF Changed
<1>4. \A t : \A r \in Assets : r # e =>
         /\ Seen(t, r)' <=> Seen(t, r)
         /\ InScope(t, r)' <=> InScope(t, r)
         /\ Changed(r)' <=> Changed(r)
         /\ Exact(r)' <=> Exact(r)
         /\ Live(r)' <=> Live(r)
  BY <1>1 DEF Seen, InScope, Changed, Exact, Live
<1>5. RunReads'
  <2>1. ASSUME NEW read \in ManyReads, Truthful(read) PROVE Truthful(read)'
    <3> SUFFICES ASSUME NEW r \in DOMAIN read
                 PROVE  /\ read[r].version <= asset'[r].version
                        /\ read[r].version = asset'[r].version => read[r].live = Live(r)'
      BY DEF Truthful
    <3>1. r \in Assets /\ read[r].version \in Int
      BY <2>1, ReadsShape DEF AssetRead
    <3>2. CASE r = e
      BY <1>1, <1>2, <2>1, <3>1, <3>2 DEF Truthful
    <3>3. CASE r # e
      BY <1>1, <2>1, <3>1, <3>3 DEF Truthful, Live
    <3> QED BY <3>2, <3>3
  <2>2. scan.rest \in ManyReads /\ scan.page \in ManyReads
    BY <1>0 DEF BTypeOK
  <2>3. Truthful(scan.rest)' /\ Truthful(scan.page)'
    BY <1>1, <2>1, <2>2 DEF BInv, Reindexed, RunReads, Truthful
  <2> QED BY <1>1, <2>3 DEF BInv, Reindexed, RunReads
<1>6. Repaired' /\ Withdrawn'
  BY <1>1, <1>4 DEF BInv, Reindexed, Repaired, Withdrawn
<1>7. Past' /\ Present'
  BY <1>1, <1>3, <1>4 DEF BInv, Reindexed, Past, Present, Request
<1> QED BY <1>5, <1>6, <1>7 DEF Reindexed

(* The consumer leaves the record exact.                                   *)
LEMMA HandleReindexed == ASSUME BInv, NEW h \in Assets, Handle(h) PROVE Reindexed'
<1>0. BTypeOK
  BY DEF BInv, BTyped
<1>1. /\ UNCHANGED <<asset, plan, turn, scan>>
      /\ feed' = feed \ {h} /\ missed' = missed \ {h} /\ overtaken' = overtaken \ {h}
      /\ \A r \in Assets : r # h => shown'[r] = shown[r] /\ granted'[r] = granted[r]
      /\ shown'[h] = IF Live(h) THEN asset[h].version ELSE 0
      /\ granted'[h] = (Live(h) \/ (asset[h].state = "outside" /\ granted[h]))
  BY <1>0 DEF Handle, BTypeOK
<1>2. Exact(h)'
  BY <1>1 DEF Exact, Live
<1>3. \A t : ~Changed(h)' => Seen(t, h)'
  <2>1. asset[h].version \in 2 .. MaxEdits + 2
    BY <1>0 DEF BTypeOK
  <2>2. ~Changed(h)' => asset[h].version = 2
    BY <1>1, <2>1, BackfillAssumption DEF Changed
  <2> QED BY <1>1, <2>2 DEF Seen, Live
<1>4. \A t : \A r \in Assets :
         /\ InScope(t, r)' <=> InScope(t, r)
         /\ Changed(r)' <=> Changed(r)
         /\ r # h => (Seen(t, r)' <=> Seen(t, r)) /\ (Exact(r)' <=> Exact(r))
  BY <1>1 DEF Seen, InScope, Changed, Exact, Live
<1>5. RunReads'
  BY <1>1 DEF BInv, Reindexed, RunReads, Truthful, Live
<1>6. Repaired' /\ Withdrawn'
  BY <1>1, <1>2, <1>4 DEF BInv, Reindexed, Repaired, Withdrawn, Exact
<1>7. Past' /\ Present'
  BY <1>1, <1>3, <1>4 DEF BInv, Reindexed, Past, Present, Request
<1> QED BY <1>5, <1>6, <1>7 DEF Reindexed

(* A record that is published becomes exact, or its read was overtaken; a  *)
(* record that is not is named.                                            *)
LEMMA PublishReindexed ==
  ASSUME BInv, NEW p \in Assets, PublishAsset(p) \/ MissAsset(p)
  PROVE  Reindexed'
<1>0. BTypeOK
  BY DEF BInv, BTyped
<1>1. /\ UNCHANGED <<asset, feed, plan, turn>>
      /\ p \in DOMAIN scan.page /\ scan.at = "publish" /\ Off(p)
      /\ \A r \in Assets : r # p =>
            /\ shown'[r] = shown[r] /\ granted'[r] = granted[r]
            /\ r \in missed' <=> r \in missed
            /\ r \in overtaken => r \in overtaken'
  BY <1>0 DEF PublishAsset, MissAsset, Publishing, BTypeOK
<1>2. /\ scan.page[p] \in AssetRead
      /\ scan.page[p].version <= asset[p].version
      /\ scan.page[p].version = asset[p].version => scan.page[p].live = Live(p)
      /\ asset[p].version \in 2 .. MaxEdits + 2
  BY <1>0, <1>1, ReadsShape DEF BInv, Reindexed, RunReads, Truthful, BTypeOK
<1>3. /\ scan'.at = scan.at /\ scan.rest' = scan.rest
      /\ DOMAIN scan.page' = DOMAIN scan.page \ {p}
      /\ \A r \in DOMAIN scan.page' : scan.page'[r] = scan.page[r]
  BY <1>0, <1>1, OffShape
<1>4. RunReads'
  BY <1>1, <1>3 DEF BInv, Reindexed, RunReads, Truthful, Live
<1>5. \A t : \A r \in Assets :
         /\ InScope(t, r)' <=> InScope(t, r)
         /\ Changed(r)' <=> Changed(r)
         /\ r # p => (Seen(t, r)' <=> Seen(t, r)) /\ (Exact(r)' <=> Exact(r))
  BY <1>1 DEF Seen, InScope, Changed, Exact, Live
<1>6. CASE PublishAsset(p)
  <2>1. /\ shown'[p] = IF scan.page[p].live THEN scan.page[p].version ELSE 0
        /\ granted'[p] = (scan.page[p].live \/ granted[p])
        /\ p \in overtaken' <=> \/ p \in overtaken /\ ~scan.page[p].live
                                \/ Overtaken(p)
    BY <1>0, <1>6 DEF PublishAsset, BTypeOK
  <2>2. scan.page[p].version = asset[p].version \/ p \in feed \/ p \in overtaken'
    BY <2>1 DEF Overtaken
  <2>3. Changed(p)' /\ asset[p].state = "deleted" => p \in feed \union overtaken' \/ ~granted'[p]
    <3> SUFFICES ASSUME Changed(p), asset[p].state = "deleted", p \notin feed, p \notin overtaken'
                 PROVE  ~granted'[p]
      BY <1>5
    <3>1. ~scan.page[p].live
      BY <1>2, <2>2 DEF Live
    <3> QED BY <2>1, <3>1 DEF BInv, Reindexed, Withdrawn
  <2>4. Changed(p)' => p \in feed \union overtaken' \/ Exact(p)'
    <3> SUFFICES ASSUME Changed(p)', p \notin feed, p \notin overtaken'
                 PROVE  Exact(p)'
      OBVIOUS
    <3>1. scan.page[p].version = asset[p].version /\ scan.page[p].live = Live(p)
      BY <1>2, <2>2
    <3> QED BY <1>1, <2>1, <2>3, <3>1 DEF Exact, Live
  <2>5. \A t : ~Changed(p)' => Seen(t, p)'
    <3> SUFFICES ASSUME ~Changed(p) PROVE \A t : Seen(t, p)'
      BY <1>5
    <3>1. scan.page[p].version = 2 /\ asset[p].version = 2
      BY <1>2, BackfillAssumption DEF Changed, AssetRead
    <3>2. scan.page[p].live = Live(p)
      BY <1>2, <3>1
    <3> QED BY <1>1, <2>1, <3>1, <3>2 DEF Seen, Live
  <2>6. Repaired' /\ Withdrawn'
    BY <1>1, <1>5, <2>3, <2>4 DEF BInv, Reindexed, Repaired, Withdrawn
  <2>7. Past' /\ Present'
    BY <1>1, <1>3, <1>5, <2>5 DEF BInv, Reindexed, Past, Present, Request
  <2> QED BY <1>4, <2>6, <2>7 DEF Reindexed
<1>7. CASE MissAsset(p)
  <2>1. /\ p \in missed'
        /\ p \in overtaken' <=> p \in overtaken \/ Overtaken(p)
        /\ granted'[p] = granted[p] \/ scan.page[p].live
    BY <1>0, <1>7 DEF MissAsset, BTypeOK
  <2>2. Changed(p)' /\ asset[p].state = "deleted" => p \in feed \union overtaken' \/ ~granted'[p]
    <3> SUFFICES ASSUME Changed(p), asset[p].state = "deleted", p \notin feed, p \notin overtaken'
                 PROVE  ~granted'[p]
      BY <1>5
    <3>1. ~scan.page[p].live
      BY <1>2, <2>1 DEF Live, Overtaken
    <3> QED BY <2>1, <3>1 DEF BInv, Reindexed, Withdrawn
  <2>3. Repaired' /\ Withdrawn'
    BY <1>1, <1>5, <2>1, <2>2 DEF BInv, Reindexed, Repaired, Withdrawn
  <2>4. Past' /\ Present'
    BY <1>1, <1>3, <1>5, <2>1 DEF BInv, Reindexed, Past, Present, Request
  <2> QED BY <1>4, <2>3, <2>4 DEF Reindexed
<1> QED BY <1>6, <1>7

(* A run that starts has everything in its scope ahead of it.              *)
LEMMA StartReindexed == ASSUME BInv, Start PROVE Reindexed'
<1>0. BTypeOK
  BY DEF BInv, BTyped
<1>1. /\ UNCHANGED <<asset, feed, shown, granted, plan, turn, missed, overtaken>>
      /\ scan' = [at |-> "query", rest |-> AsItIs({r \in Assets : InWindow(r)}), page |-> NoReads]
  BY DEF Start, NoScan
<1>2. DOMAIN scan.rest' = {r \in Assets : InWindow(r)} /\ DOMAIN scan.page' = {}
  BY <1>0, <1>1, AsItIsShape, NoReadsShape
<1>3. RunReads'
  BY <1>0, <1>1, <1>2, RunKeeps, TruthfulNow, TruthfulNone DEF RunReads
<1>4. Present'
  <2> SUFFICES ASSUME NEW r \in Assets, InScope(turn, r)
               PROVE  \/ Seen(turn, r) \/ r \in DOMAIN scan.rest'
                      \/ Request.mode = "targeted"
    BY <1>1, RunKeeps DEF Present, Request
  <2> QED BY <1>2 DEF InScope, InWindow, Seen, Request
<1> QED BY <1>1, <1>3, <1>4, RunKeeps DEF Reindexed

(* A page takes over from the query what still qualifies.                  *)
LEMMA NextPageReindexed == ASSUME BInv, NextPage PROVE Reindexed'
<1>0. BTypeOK
  BY DEF BInv, BTyped
<1>1. /\ UNCHANGED <<asset, feed, shown, granted, plan, turn, missed, overtaken>>
      /\ scan.at = "query" /\ Request.mode # "targeted" /\ DOMAIN scan.page = {}
  BY DEF NextPage, BInv, Reindexed, RunReads
<1>2. CASE scan' = NoScan
  <2>1. RunReads' /\ Present'
    BY <1>1, <1>2, RunKeeps, TruthfulNone DEF RunReads, Present, NoScan
  <2> QED BY <1>1, <2>1, RunKeeps DEF Reindexed
<1>3. CASE scan' # NoScan
  <2>1. /\ scan'.at = "publish"
        /\ DOMAIN scan.page' \union DOMAIN scan.rest' \subseteq DOMAIN scan.rest
        /\ \A r \in DOMAIN scan.rest : Live(r) => r \in DOMAIN scan.page' \union DOMAIN scan.rest'
        /\ \A r \in DOMAIN scan.rest' : scan.rest'[r] = scan.rest[r]
        /\ \A r \in DOMAIN scan.page' :
              \/ scan.page'[r] = scan.rest[r]
              \/ scan.page'[r] = [live |-> Live(r), version |-> asset[r].version]
    BY <1>0, <1>3, PageRead
  <2>2. DOMAIN scan.rest \subseteq Assets /\ \A r \in Assets : asset[r].version \in Int
    BY <1>0, ReadsShape DEF BTypeOK
  <2>3. Truthful(scan.rest) 
    BY DEF BInv, Reindexed, RunReads
  <2>4. Truthful(scan.rest')
    BY <2>1, <2>3 DEF Truthful
  <2>7. Truthful(scan.page')
    <3> SUFFICES ASSUME NEW r \in DOMAIN scan.page'
                 PROVE  /\ scan.page'[r].version <= asset[r].version
                        /\ scan.page'[r].version = asset[r].version => scan.page'[r].live = Live(r)
      BY DEF Truthful
    <3>1. r \in DOMAIN scan.rest
      BY <2>1
    <3>2. CASE scan.page'[r] = scan.rest[r]
      BY <2>3, <3>1, <3>2 DEF Truthful
    <3>3. CASE scan.page'[r] = [live |-> Live(r), version |-> asset[r].version]
      <4>1. asset[r].version \in Int
        BY <2>2, <3>1
      <4>2. scan.page'[r].version = asset[r].version /\ scan.page'[r].live = Live(r)
        BY <3>3
      <4> QED BY <4>1, <4>2
    <3> QED BY <2>1, <3>2, <3>3
  <2>5. RunReads'
    BY <1>1, <2>1, <2>4, <2>7, RunKeeps DEF RunReads, Truthful, Live
  <2>6. Present'
    <3> SUFFICES ASSUME NEW r \in Assets, ~Changed(r), InScope(turn, r), r \notin missed
                 PROVE  \/ Seen(turn, r)
                        \/ r \in DOMAIN scan.rest' \union DOMAIN scan.page'
      BY <1>1, RunKeeps DEF Present
    <3>1. CASE Live(r)
      <4>1. Seen(turn, r) \/ r \in DOMAIN scan.rest
        BY <1>1, <3>1 DEF BInv, Reindexed, Present
      <4> QED BY <2>1, <3>1, <4>1
    <3>2. CASE ~Live(r)
      BY <1>1, <3>2 DEF Seen, Request
    <3> QED BY <3>1, <3>2
  <2> QED BY <1>1, <2>5, <2>6, RunKeeps DEF Reindexed
<1> QED BY <1>2, <1>3

(* A list is read as a whole.                                              *)
LEMMA FetchReindexed == ASSUME BInv, FetchItems PROVE Reindexed'
<1>0. BTypeOK
  BY DEF BInv, BTyped
<1>1. /\ UNCHANGED <<asset, feed, shown, granted, plan, turn, missed, overtaken>>
      /\ scan.at = "query" /\ Request.mode = "targeted"
      /\ scan' = [at |-> "publish", rest |-> NoReads, page |-> AsItIs(Request.items)]
  BY DEF FetchItems
<1>2. Request.items \in SUBSET Assets
  BY <1>0, <1>1, PlanShape DEF Request, BInv, BTyped, BTypeOK, Bounded
<1>3. DOMAIN scan.page' = Request.items
  BY <1>0, <1>1, <1>2, AsItIsShape
<1>4. RunReads'
  BY <1>0, <1>1, <1>2, RunKeeps, TruthfulNow, TruthfulNone DEF RunReads
<1>5. Present'
  <2> SUFFICES ASSUME NEW r \in Assets, InScope(turn, r)
               PROVE  r \in DOMAIN scan.page'
    BY <1>1, RunKeeps DEF Present
  <2> QED BY <1>1, <1>3 DEF InScope, Request
<1> QED BY <1>1, <1>4, <1>5, RunKeeps DEF Reindexed

(* A run that completed has nothing left of its scope.                     *)
LEMMA PageDoneReindexed == ASSUME BInv, PageDone PROVE Reindexed'
<1>0. BTypeOK
  BY DEF BInv, BTyped
<1>1. /\ UNCHANGED <<asset, feed, shown, granted, plan, missed, overtaken>>
      /\ scan.at = "publish" /\ DOMAIN scan.page = {}
  BY DEF PageDone
<1>2. CASE DOMAIN scan.rest = {}
  <2>1. scan' = NoScan /\ turn' = turn + 1
    BY <1>2 DEF PageDone
  <2>2. RunReads' /\ Present'
    BY <1>1, <2>1, RunKeeps, TruthfulNone DEF RunReads, Present, NoScan
  <2>3. Past'
    <3> SUFFICES ASSUME NEW t \in 1 .. turn, NEW r \in Assets, ~Changed(r), InScope(t, r)
                 PROVE  r \in missed \/ Seen(t, r)
      <4>1. turn' - 1 = turn
        BY <1>0, <2>1 DEF BTypeOK
      <4>2. \A t \in 1 .. turn, r \in Assets : ~Changed(r) /\ InScope(t, r) => r \in missed \/ Seen(t, r)
        OBVIOUS
      <4>3. \A t \in 1 .. turn, r \in Assets :
               ~Changed(r)' /\ InScope(t, r)' => r \in missed' \/ Seen(t, r)'
        BY <1>1, <4>2, RunKeeps
      <4> QED BY <4>1, <4>3 DEF Past
    <3>1. CASE t = turn
      BY <1>1, <1>2, <3>1 DEF BInv, Reindexed, Present
    <3>2. CASE t # turn
      <4>1. t \in 1 .. turn - 1
        BY <1>0, <3>2 DEF BTypeOK
      <4> QED BY <4>1 DEF BInv, Reindexed, Past
    <3> QED BY <3>1, <3>2
  <2> QED BY <1>1, <2>2, <2>3, RunKeeps DEF Reindexed
<1>3. CASE DOMAIN scan.rest # {}
  <2>1. scan' = [at |-> "query", rest |-> scan.rest, page |-> scan.page] /\ turn' = turn
    BY <1>0, <1>3 DEF PageDone, BTypeOK
  <2>2. RunReads'
    BY <1>1, <2>1, RunKeeps DEF BInv, Reindexed, RunReads
  <2>3. Present'
    BY <1>1, <2>1, RunKeeps DEF BInv, Reindexed, Present, Request
  <2> QED BY <1>1, <2>1, <2>2, <2>3, RunKeeps DEF Reindexed
<1> QED BY <1>2, <1>3

(* One case per action; those that only wait leave everything.             *)
LEMMA NextReindexed == ASSUME BInv, [BNext]_bvars PROVE Reindexed'
<1>1. CASE End
  <2>1. UNCHANGED <<asset, feed, shown, granted, plan, turn, missed, overtaken>> /\ scan' = NoScan
    BY <1>1 DEF End
  <2>2. RunReads' /\ Present'
    BY <2>1, RunKeeps, TruthfulNone DEF RunReads, Present, NoScan
  <2> QED BY <2>1, <2>2, RunKeeps DEF Reindexed
<1>2. CASE NextDay \/ Refuse \/ UNCHANGED bvars
  <2>1. UNCHANGED <<asset, feed, shown, granted, plan, turn, scan, missed, overtaken>>
    BY <1>2 DEF NextDay, Refuse, bvars
  <2>2. RunReads' /\ Present'
    BY <2>1, RunKeeps DEF BInv, Reindexed, RunReads, Present, Request
  <2> QED BY <2>1, <2>2, RunKeeps DEF Reindexed
<1> QED BY <1>1, <1>2, EditReindexed, HandleReindexed, PublishReindexed, StartReindexed,
           NextPageReindexed, FetchReindexed, PageDoneReindexed DEF BNext

(* Once the plan has completed and the feed is handled, every record in    *)
(* its scope is as it should be, but for those the log names and those a   *)
(* handled change overtook.                                                *)
THEOREM ReindexIsExact == BSpec => []ReindexExact
<1>1. BInit => BInv
  <2>1. ASSUME BInit PROVE Reindexed
    <3>1. \A r \in Assets : asset[r].version = 2
      BY <2>1 DEF BInit
    <3>2. RunReads /\ Present
      BY <2>1, TruthfulNone DEF BInit, RunReads, Present, NoScan
    <3> QED BY <2>1, <3>1, <3>2 DEF BInit, Reindexed, Repaired, Withdrawn, Past, Changed
  <2> QED BY <2>1, InitBTyped DEF BInv
<1>2. BInv /\ [BNext]_bvars => BInv'
  BY NextBTyped, NextReindexed DEF BInv
<1>3. ASSUME BInv PROVE ReindexExact
  <2>0. BTypeOK
    BY <1>3 DEF BInv, BTyped
  <2> SUFFICES ASSUME Done, feed = {}, NEW r \in Assets, r \notin missed, r \notin overtaken
               PROVE  /\ Promised(r) /\ Live(r) => shown[r] = asset[r].version /\ granted[r]
                      /\ plan[1].mode = "targeted" /\ Promised(r) /\ ~Live(r) => shown[r] = 0
                      /\ asset[r].version > 2 /\ asset[r].state = "deleted"
                            => shown[r] = 0 /\ ~granted[r]
    BY DEF ReindexExact
  <2>1. CASE Changed(r)
    <3>1. Exact(r)
      BY <1>3, <2>1 DEF BInv, Reindexed, Repaired
    <3>2. asset[r].state \in States
      BY <2>0 DEF BTypeOK
    <3> QED BY <3>1, <3>2 DEF Exact, Live, States
  <2>2. CASE ~Changed(r)
    <3>1. asset[r].version = 2
      BY <2>0, <2>2, BackfillAssumption DEF BTypeOK, Changed
    <3>2. ASSUME Promised(r)
          PROVE  \E t \in 1 .. Len(plan) :
                    Seen(t, r) /\ (plan[t].mode = "targeted" <=> plan[1].mode = "targeted")
      <4>1. PICK t \in 1 .. Len(plan) :
               InScope(t, r) /\ (plan[t].mode = "targeted" <=> plan[1].mode = "targeted")
        BY <2>0, <3>2, PlanCovers
      <4>2. t \in 1 .. turn - 1
        <5>1. Len(plan) \in {1, 2} /\ turn \in 1 .. 3
          BY <2>0, PlanShape DEF BTypeOK
        <5> QED BY <5>1 DEF Done
      <4> QED BY <1>3, <2>2, <4>1, <4>2 DEF BInv, Reindexed, Past
    <3> QED BY <2>2, <3>1, <3>2 DEF Seen
  <2> QED BY <2>1, <2>2
<1> QED BY <1>1, <1>2, <1>3, PTL DEF BSpec

=============================================================================
