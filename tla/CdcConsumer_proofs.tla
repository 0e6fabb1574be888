------------------------- MODULE CdcConsumer_proofs -------------------------
(***************************************************************************)
(* Proofs about the CDC consumer, for any sets of Accounts and Assets, any *)
(* number of events and faults and any channel capacity: its type          *)
(* correctness; that a handled deletion leaves no tuple that is neither    *)
(* withdrawn nor recorded (PurgeAddressed); that only a delete withdraws   *)
(* (WithdrawnOnlyByDelete); that what is outside the query leaves the      *)
(* index or is named for repair (RemovalQueued); and that a restore leaves *)
(* every tuple rebuilt (RestoredTuples), whatever is redelivered.          *)
(***************************************************************************)
EXTENDS CdcConsumer, TLAPS, SequenceTheorems

(***************************************************************************)
(* The inductive invariant.                                                *)
(***************************************************************************)

(* No message on the connection grants r anything.                         *)
GrantFree(r) == \A i \in 1..Len(wire) : wire[i].op = "grant" => wire[i].id # r

(* What handling a deletion must leave behind.                             *)
Safe(r) == <<"purge", r>> \in repair \/ (fga[r] = {} /\ GrantFree(r))

(* The ids of the current delete event that are still to be handled.       *)
Unhandled == IF stage \in DeleteStages THEN todo \union hold ELSE {}

(* Every event of r has been handled: all are committed, or before the     *)
(* current one, or the current one is through with r.                      *)
Handled(r) == \/ Settled(r, saved)
              \/ Settled(r, at - 1)
              \/ Settled(r, at) /\ r \notin Unhandled

(* The last event of a deleted record is its delete.                       *)
DeletedLast ==
    \A r \in Records : sf[r] = "deleted" =>
        \A i \in 1..Len(log) :
            r \in log[i].ids /\ log[i].kind # "delete" => ~Settled(r, i)

(* A record read as qualifying and deleted since has its delete ahead.     *)
FetchedLive ==
    \A r \in fetched : sf[r] = "deleted" => ~Settled(r, saved) /\ ~Settled(r, at)

Looping == stage \in {"flush", "purgeMarker", "indexMarker"} => todo # {}

Publishing == stage = "publish" => todo \subseteq fetched

(* While a flush is awaited, the purge is the last message sent.           *)
Flushing ==
    stage = "flush" =>
        IF wire = <<>> THEN fga[Id] = {} ELSE wire[Len(wire)] = Purge(Id)

(* Past the purge, it was confirmed or recorded, or the id is held.        *)
Marked == stage = "indexMarker" => Safe(Id) \/ Id \in hold

PurgeInv == \A r \in Records : sf[r] = "deleted" /\ Handled(r) => Safe(r)

IInv == /\ TypeOK
        /\ DeletedLast
        /\ FetchedLive
        /\ Looping
        /\ Publishing
        /\ Flushing
        /\ Marked
        /\ PurgeInv

----------------------------------------------------------------------------
(***************************************************************************)
(* Facts about the operators the actions are built from.                   *)
(***************************************************************************)

(* The id a loop is at is one of the ids it has left.                      *)
LEMMA IdInTodo == ASSUME todo # {} PROVE Id \in todo
  BY DEF Id

(* The messages a handler step sends are messages.                         *)
LEMMA SentMessages ==
  ASSUME NEW r \in Records, NEW b \in BOOLEAN, NEW c \in BOOLEAN, NEW d \in BOOLEAN
  PROVE  /\ Optional(b, Drop(r)) \in Seq(Messages)
         /\ Optional(b, Drop(r)) \o Optional(c, Purge(r)) \in Seq(Messages)
         /\ Optional(b, Put(r)) \o Optional(c, Grant(r, {"team"})) \in Seq(Messages)
         /\ Optional(b, Put(r)) \o RestoreMessages(r, c, d) \in Seq(Messages)
<1>1. /\ Drop(r) \in Messages
      /\ Purge(r) \in Messages
      /\ Put(r) \in Messages
      /\ \A g \in SUBSET Groups : Grant(r, g) \in Messages
  BY DEF Drop, Purge, Put, Grant, Messages
<1>2. \A e \in BOOLEAN, m \in Messages : Optional(e, m) \in Seq(Messages)
  BY DEF Optional
<1>3. RestoreMessages(r, c, d) \in Seq(Messages)
  <2>1. /\ Groups \in SUBSET Groups
        /\ {"team"} \in SUBSET Groups
        /\ {"user"} \in SUBSET Groups
    BY DEF Groups
  <2>2. /\ Optional(c /\ d, Grant(r, Groups)) \in Seq(Messages)
        /\ Optional(c, Grant(r, {"team"})) \in Seq(Messages)
        /\ Optional(d, Grant(r, {"user"})) \in Seq(Messages)
    BY <1>1, <1>2, <2>1
  <2> QED BY <2>2, ConcatProperties DEF RestoreMessages
<1>4. {"team"} \in SUBSET Groups
  BY DEF Groups
<1>5. /\ Optional(b, Drop(r)) \in Seq(Messages)
      /\ Optional(b, Put(r)) \in Seq(Messages)
      /\ Optional(c, Purge(r)) \in Seq(Messages)
      /\ Optional(c, Grant(r, {"team"})) \in Seq(Messages)
  BY <1>1, <1>2, <1>4
<1> QED BY <1>3, <1>5, ConcatProperties

(* Appending a message sequence keeps the connection well typed.           *)
LEMMA SendType ==
  ASSUME TypeOK, NEW msgs \in Seq(Messages), Send(msgs)
  PROVE  /\ wire' \in Seq(Messages)
         /\ index' \subseteq Records
         /\ fga' \in [Records -> SUBSET Groups]
  BY ConcatProperties DEF TypeOK, Send

(* A fault never exceeds the budget.                                       *)
LEMMA FaultType ==
  ASSUME TypeOK, Fault \/ NoFault
  PROVE  faults' \in 0..MaxFaults
  BY ConsumerAssumption DEF TypeOK, Fault, NoFault, CanFail

----------------------------------------------------------------------------
(* Type correctness, together with the loops never being at no id, which   *)
(* the marker writes need to name a record.                                *)
Typed == TypeOK /\ Looping

LEMMA InitTyped == ASSUME Init PROVE Typed
<1>1. <<>> \in Seq(Events) /\ <<>> \in Seq(Messages) /\ Len(<<>>) = 0
  OBVIOUS
<1>2. /\ sf \in [Records -> Status]
      /\ fga \in [Records -> SUBSET Groups]
  BY DEF Init, Status, Live
<1>3. /\ log \in Seq(Events)
      /\ wire \in Seq(Messages)
      /\ saved \in 0..Len(log)
      /\ at \in 0..Len(log)
  BY <1>1 DEF Init
<1>4. faults \in 0..MaxFaults
  BY ConsumerAssumption DEF Init
<1>5. stage \in Stages /\ stage = "idle"
  BY DEF Init, Stages
<1>6. /\ repair \subseteq Markers
      /\ logged \subseteq Records
      /\ index \subseteq Records
      /\ todo \subseteq Records
      /\ hold \subseteq Records
      /\ fetched \subseteq Records
      /\ absent \subseteq Records
      /\ failed \in BOOLEAN
      /\ again \subseteq Records
  BY DEF Init
<1> QED BY <1>2, <1>3, <1>4, <1>5, <1>6 DEF Typed, TypeOK, Looping

LEMMA NextTyped == ASSUME Typed, [Next]_vars PROVE Typed'
<1> USE DEF Typed
<1>t. TypeOK OBVIOUS
<1>1. CASE Salesforce
  <2> SUFFICES ASSUME NEW ids \in Batches, NEW kind \in Kinds,
                      sf' \in [Records -> Status],
                      Emit(kind, ids)
               PROVE  Typed'
    <3>1. ASSUME NEW ids \in Batches, DeleteRecords(ids)
          PROVE  Typed'
      <4>1. sf' \in [Records -> Status] /\ Emit("delete", ids) /\ "delete" \in Kinds
        BY <1>t, <3>1 DEF TypeOK, DeleteRecords, Status, Kinds
      <4> QED BY <4>1
    <3>2. ASSUME NEW ids \in Batches, NEW status \in Live, ChangeRecords(ids, status)
          PROVE  Typed'
      <4>1. sf' \in [Records -> Status] /\ Emit("upsert", ids) /\ "upsert" \in Kinds
        BY <1>t, <3>2 DEF TypeOK, ChangeRecords, Status, Kinds
      <4> QED BY <4>1
    <3>3. ASSUME NEW ids \in Batches, NEW status \in Live, UndeleteRecords(ids, status)
          PROVE  Typed'
      <4>1. sf' \in [Records -> Status] /\ Emit("restore", ids) /\ "restore" \in Kinds
        BY <1>t, <3>3 DEF TypeOK, UndeleteRecords, Status, Kinds
      <4> QED BY <4>1
    <3> QED BY <1>1, <3>1, <3>2, <3>3 DEF Salesforce
  <2>1. [kind |-> kind, ids |-> ids] \in Events
    <3>1. ids \in SUBSET Records
      BY DEF Batches, Records
    <3>2. kind \in Kinds
      OBVIOUS
    <3> QED BY <3>1, <3>2 DEF Events
  <2>2. log' \in Seq(Events) /\ Len(log') = Len(log) + 1
    BY <1>t, <2>1, AppendProperties DEF TypeOK, Emit
  <2> QED BY <1>t, <2>2 DEF TypeOK, Looping, Emit, durable, outside, volatile
<1>2. CASE Deliver
  <2>1. wire' \in Seq(Messages) /\ Head(wire) \in Messages
    BY <1>t, <1>2, HeadTailProperties DEF TypeOK, Deliver
  <2>2. index' \subseteq Records
    BY <1>t, <1>2, <2>1 DEF TypeOK, Deliver, Messages
  <2>3. fga' \in [Records -> SUBSET Groups]
    BY <1>t, <1>2, <2>1 DEF TypeOK, Deliver, Messages
  <2> QED BY <1>t, <1>2, <2>1, <2>2, <2>3 DEF TypeOK, Looping, Deliver, external, durable, volatile
<1>3. CASE Take
  <2>1. log[at + 1] \in Events /\ at + 1 \in 1..Len(log)
    BY <1>t, <1>3 DEF TypeOK, Take
  <2>2. log[at + 1].ids \subseteq Records
    BY <2>1 DEF Events
  <2>3. stage' \in {"delete", "upsert"} /\ todo' = log[at + 1].ids
    BY <1>3 DEF Take, Start
  <2>4. /\ hold' = {}
        /\ fetched' = {}
        /\ absent' = {}
        /\ failed' = FALSE
        /\ at' = at + 1
        /\ UNCHANGED <<sf, log, durable, outside, faults>>
    BY <1>3 DEF Take, Start
  <2>5. stage' \in Stages /\ stage' \notin {"flush", "purgeMarker", "indexMarker"}
    BY <2>3 DEF Stages, DeleteStages, UpsertStages
  <2>6. at' \in 0..Len(log) /\ at' > 0
    BY <1>t, <2>1, <2>4 DEF TypeOK
  <2>7. again' \subseteq Records
    BY <1>t, <1>3, <2>2 DEF TypeOK, Take
  <2> QED BY <1>t, <2>2, <2>3, <2>4, <2>5, <2>6, <2>7 DEF TypeOK, Looping,
             durable, outside
<1>4. CASE Save
  BY <1>t, <1>4, FaultType DEF TypeOK, Looping, Save, Forget, Goto, Stages, external, outside
<1>5. CASE Keepalive
  BY <1>t, <1>5 DEF TypeOK, Looping, Keepalive, external, outside, volatile
<1>6. CASE Crash
  <2>1. wire' \in Seq(Messages)
    <3>1. <<>> \in Seq(Messages) OBVIOUS
    <3> QED BY <1>6, <3>1 DEF Crash
  <2>2. faults' \in 0..MaxFaults BY <1>t, <1>6, FaultType DEF Crash
  <2>3. at' = saved /\ stage' = "idle" /\ "idle" \in Stages
    BY <1>6 DEF Crash, Goto, Stages
  <2>4. /\ todo' = {}
        /\ hold' = {}
        /\ fetched' = {}
        /\ absent' = {}
        /\ failed' = FALSE
        /\ UNCHANGED <<external, durable, index, fga>>
    BY <1>6 DEF Crash, Forget
  <2> QED BY <1>t, <2>1, <2>2, <2>3, <2>4 DEF TypeOK, Looping, external, durable
<1>7. CASE Reconnect
  BY <1>t, <1>7, FaultType DEF TypeOK, Looping, Reconnect, external, durable, outside
<1>8. CASE HandleDelete
  <2> SUFFICES ASSUME Typed, HandleDelete PROVE Typed' BY <1>8
  <2>a. stage \in {"flush", "purgeMarker", "indexMarker"} => Id \in Records
    BY <1>t, IdInTodo DEF Looping, TypeOK
  <2>1. CASE PublishDelete
    <3>1. Id \in Records
      BY <1>t, <2>1, IdInTodo DEF PublishDelete, TypeOK
    <3>2. PICK drop, purge \in BOOLEAN :
             /\ Send(Optional(drop, Drop(Id)) \o Optional(purge, Purge(Id)))
             /\ failed' = ~drop
             /\ Goto(IF purge THEN "flush" ELSE "purgeMarker")
             /\ Outcome(drop /\ purge)
      BY <2>1 DEF PublishDelete
    <3>3. /\ wire' \in Seq(Messages)
          /\ index' \subseteq Records
          /\ fga' \in [Records -> SUBSET Groups]
      BY <1>t, <3>1, <3>2, SentMessages, SendType
    <3>4. faults' \in 0..MaxFaults
      BY <1>t, <3>2, FaultType DEF Outcome
    <3> QED BY <1>t, <2>1, <3>2, <3>3, <3>4 DEF TypeOK, Looping, PublishDelete, Goto,
               Stages, DeleteStages, external, durable
  <2>2. CASE ConfirmDelete
    BY <1>t, <2>2, FaultType DEF TypeOK, Looping, ConfirmDelete, Goto, Stages,
       DeleteStages, external, durable, outside
  <2>3. CASE RecordFailedPurge
    BY <1>t, <2>a, <2>3, FaultType DEF TypeOK, Looping, RecordFailedPurge, Goto, Stages,
       DeleteStages, external, outside, Markers
  <2>4. CASE QueueUnconfirmedDelete
    BY <1>t, <2>a, <2>4, FaultType DEF TypeOK, Looping, QueueUnconfirmedDelete, Goto,
       Stages, DeleteStages, external, outside, Markers, QueueForRepair, Outcome
  <2>5. CASE FinishDelete
    BY <1>t, <2>5 DEF TypeOK, Looping, FinishDelete, Start, Goto, Stages, DeleteStages,
       external, durable, outside
  <2> QED BY <1>8, <2>1, <2>2, <2>3, <2>4, <2>5 DEF HandleDelete
<1>9. CASE HandleUpsert
  <2>a. stage # "idle" => Current.ids \subseteq Records
    <3> SUFFICES ASSUME stage # "idle" PROVE Current.ids \subseteq Records OBVIOUS
    <3>1. log[at] \in Events BY <1>t DEF TypeOK
    <3> QED BY <3>1 DEF Current, Events
  <2>b. ASSUME RetryOrSkip, stage # "idle", stage' # "idle" => at' > 0
        PROVE  /\ stage' \in Stages
               /\ stage' \notin {"flush", "purgeMarker", "indexMarker"}
               /\ todo' \subseteq Records
               /\ hold' \subseteq Records
               /\ fetched' \subseteq Records
               /\ absent' \subseteq Records
               /\ failed' \in BOOLEAN
    BY <1>t, <2>a, <2>b DEF RetryOrSkip, Start, Goto, TypeOK, Stages, UpsertStages
  <2>1. CASE SkipForQuota
    <3>1. repair' \subseteq Markers /\ logged' \subseteq Records
      BY <1>t, <2>1 DEF TypeOK, SkipForQuota, QueueForRepair, Markers
    <3> QED BY <1>t, <2>1, <2>b, <3>1, FaultType DEF TypeOK, Looping, SkipForQuota, external, outside
  <2>2. CASE FetchFails
    <3>1. repair' \subseteq Markers /\ logged' \subseteq Records
      BY <1>t, <2>2 DEF TypeOK, FetchFails, QueueForRepair, Markers
    <3> QED BY <1>t, <2>2, <2>b, <3>1, FaultType DEF TypeOK, Looping, FetchFails, external, outside
  <2>3. CASE Fetch
    BY <1>t, <2>3 DEF TypeOK, Looping, Fetch, Goto, Stages, UpsertStages, external, durable, outside
  <2>4. CASE PublishAbsent
    <3>1. Id \in Records
      BY <1>t, <2>4, IdInTodo DEF PublishAbsent, TypeOK
    <3>2. PICK ok \in BOOLEAN :
             /\ Send(Optional(ok, Drop(Id)))
             /\ hold' = IF ok THEN hold ELSE hold \union {Id}
             /\ Outcome(ok)
      BY <2>4 DEF PublishAbsent
    <3>3. /\ wire' \in Seq(Messages)
          /\ index' \subseteq Records
          /\ fga' \in [Records -> SUBSET Groups]
      BY <1>t, <3>1, <3>2, SentMessages, SendType
    <3>4. faults' \in 0..MaxFaults
      BY <1>t, <3>2, FaultType DEF Outcome
    <3> QED BY <1>t, <2>4, <3>1, <3>2, <3>3, <3>4 DEF TypeOK, Looping, PublishAbsent,
               external, durable
  <2>5. CASE AbsentPublished
    BY <1>t, <2>5 DEF TypeOK, Looping, AbsentPublished, Goto, Stages, UpsertStages,
       external, durable, outside
  <2>6. CASE ConfirmAbsent
    BY <1>t, <2>6, FaultType DEF TypeOK, Looping, ConfirmAbsent, Goto, Stages,
       UpsertStages, external, durable, outside
  <2>7. CASE QueueAbsent
    <3>1. repair' \subseteq Markers /\ logged' \subseteq Records
      BY <1>t, <2>7 DEF TypeOK, QueueAbsent, QueueForRepair, Markers
    <3>2. faults' \in 0..MaxFaults
      BY <1>t, <2>7, FaultType DEF QueueAbsent, Outcome
    <3> QED BY <1>t, <2>7, <3>1, <3>2 DEF TypeOK, Looping, QueueAbsent, Goto, Stages,
               UpsertStages, external, outside
  <2>8. CASE PublishUpsert
    <3>1. Id \in Records
      BY <1>t, <2>8, IdInTodo DEF PublishUpsert, TypeOK
    <3>2. PICK put, grant \in BOOLEAN :
             /\ Send(Optional(put, Put(Id)) \o Optional(grant, Grant(Id, {"team"})))
             /\ Outcome(put /\ grant)
      BY <2>8 DEF PublishUpsert
    <3>3. /\ wire' \in Seq(Messages)
          /\ index' \subseteq Records
          /\ fga' \in [Records -> SUBSET Groups]
      BY <1>t, <3>1, <3>2, SentMessages, SendType
    <3>4. faults' \in 0..MaxFaults
      BY <1>t, <3>2, FaultType DEF Outcome
    <3> QED BY <1>t, <2>8, <3>3, <3>4 DEF TypeOK, Looping, PublishUpsert, external, durable
  <2>9. CASE PublishRestore
    <3>1. Id \in Records
      BY <1>t, <2>9, IdInTodo DEF PublishRestore, TypeOK
    <3>2. PICK put, first, second, ok \in BOOLEAN :
             /\ Send(Optional(put, Put(Id)) \o RestoreMessages(Id, first, second))
             /\ failed' = (failed \/ ~ok)
             /\ Outcome(put /\ ok)
      BY <2>9 DEF PublishRestore
    <3>3. /\ wire' \in Seq(Messages)
          /\ index' \subseteq Records
          /\ fga' \in [Records -> SUBSET Groups]
      BY <1>t, <3>1, <3>2, SentMessages, SendType
    <3>4. faults' \in 0..MaxFaults
      BY <1>t, <3>2, FaultType DEF Outcome
    <3> QED BY <1>t, <2>9, <3>2, <3>3, <3>4 DEF TypeOK, Looping, PublishRestore, external, durable
  <2>10. CASE FinishPublish
    BY <1>t, <2>10 DEF TypeOK, Looping, FinishPublish, Goto, Stages, UpsertStages,
       external, durable, outside
  <2>11. CASE ConfirmRestore
    BY <1>t, <2>a, <2>11, FaultType DEF TypeOK, Looping, ConfirmRestore, Start, Goto, Stages,
       UpsertStages, external, durable, outside
  <2> QED BY <1>9, <2>1, <2>2, <2>3, <2>4, <2>5, <2>6, <2>7, <2>8, <2>9, <2>10,
             <2>11 DEF HandleUpsert
<1>10. CASE UNCHANGED vars
  BY <1>t, <1>10 DEF TypeOK, Looping, vars, external, durable, outside, volatile
<1> QED BY <1>1, <1>2, <1>3, <1>4, <1>5, <1>6, <1>7, <1>8, <1>9, <1>10
        DEF Next, Run

(* The consumer's state keeps its shape and no position leaves the log.    *)
THEOREM TypeCorrect == Spec => []TypeOK
<1>1. Init => Typed BY InitTyped
<1>2. Typed /\ [Next]_vars => Typed' BY NextTyped
<1>3. Typed => TypeOK BY DEF Typed
<1> QED BY <1>1, <1>2, <1>3, PTL DEF Spec

----------------------------------------------------------------------------
(***************************************************************************)
(* Lemmas for the purge invariant.                                         *)
(***************************************************************************)

(* A later position settles whatever an earlier one does.                  *)
LEMMA SettledLater ==
  ASSUME TypeOK, NEW r, NEW m \in Int, NEW n \in Int, m <= n, Settled(r, m)
  PROVE  Settled(r, n)
  BY DEF Settled, TypeOK

(* A new event unsettles the records it names, at every position the       *)
(* consumer can be at, and no other.                                       *)
LEMMA EmitSettled ==
  ASSUME TypeOK, NEW ids \in Batches, NEW kind \in Kinds, Emit(kind, ids),
         NEW r, NEW n \in Int, n <= Len(log)
  PROVE  /\ r \in ids => ~(\A i \in 1..Len(log') : r \in log'[i].ids => i <= n)
         /\ r \notin ids => ((\A i \in 1..Len(log') : r \in log'[i].ids => i <= n)
                                <=> Settled(r, n))
<1>1. /\ Len(log') = Len(log) + 1
      /\ \A i \in 1..Len(log) : log'[i] = log[i]
      /\ log'[Len(log) + 1].ids = ids
  BY AppendProperties DEF Emit, TypeOK
<1>2. Len(log) \in Nat
  BY DEF TypeOK
<1>3. ASSUME r \in ids
      PROVE  ~(\A i \in 1..Len(log') : r \in log'[i].ids => i <= n)
  <2>1. /\ Len(log) + 1 \in 1..Len(log')
        /\ r \in log'[Len(log) + 1].ids
        /\ ~(Len(log) + 1 <= n)
    BY <1>1, <1>2, <1>3
  <2> QED BY <2>1
<1>4. ASSUME r \notin ids
      PROVE  (\A i \in 1..Len(log') : r \in log'[i].ids => i <= n) <=> Settled(r, n)
  BY <1>1, <1>2, <1>4 DEF Settled
<1> QED BY <1>3, <1>4

(* A safe record stays safe while the broker receives messages.            *)
LEMMA SafeDeliver ==
  ASSUME TypeOK, Deliver, NEW r \in Records, Safe(r)
  PROVE  Safe(r)'
<1>1. CASE <<"purge", r>> \in repair
  BY <1>1 DEF Safe, Deliver, durable
<1>2. CASE fga[r] = {} /\ GrantFree(r)
  <2>1. /\ wire \in Seq(Messages) /\ wire # <<>>
        /\ wire' = Tail(wire)
        /\ Len(wire) \in Nat
    BY DEF TypeOK, Deliver
  <2>2. /\ Len(wire') = Len(wire) - 1
        /\ \A i \in 1..Len(wire') : i + 1 \in 1..Len(wire) /\ wire'[i] = wire[i + 1]
    BY <2>1
  <2>3. GrantFree(r)'
    BY <1>2, <2>2 DEF GrantFree
  <2>4. Head(wire) = wire[1] /\ 1 \in 1..Len(wire)
    BY <2>1
  <2>5. Head(wire).op = "grant" => Head(wire).id # r
    BY <1>2, <2>4 DEF GrantFree
  <2>6. fga'[r] = {}
    BY <1>2, <2>5 DEF Deliver, TypeOK
  <2> QED BY <2>3, <2>6 DEF Safe
<1> QED BY <1>1, <1>2 DEF Safe

(* A safe record stays safe when nothing sent grants it anything.          *)
LEMMA SafeSend ==
  ASSUME TypeOK, NEW msgs \in Seq(Messages), Send(msgs), repair \subseteq repair',
         NEW r \in Records, Safe(r),
         \A i \in 1..Len(msgs) : msgs[i].op = "grant" => msgs[i].id # r
  PROVE  Safe(r)'
<1>1. ASSUME GrantFree(r) PROVE GrantFree(r)'
  <2>1. wire \in Seq(Messages) /\ wire' = wire \o msgs
    BY DEF TypeOK, Send
  <2>2. \A i \in 1..Len(wire') :
            \/ i \in 1..Len(wire) /\ wire'[i] = wire[i]
            \/ i - Len(wire) \in 1..Len(msgs) /\ wire'[i] = msgs[i - Len(wire)]
    BY <2>1
  <2> QED BY <1>1, <2>2 DEF GrantFree
<1> QED BY <1>1 DEF Safe, Send

(* A safe record stays safe when the connection is left alone or lost.     *)
LEMMA SafeKept ==
  ASSUME NEW r, Safe(r), repair \subseteq repair', fga' = fga,
         wire' = wire \/ wire' = <<>>
  PROVE  Safe(r)'
<1>1. GrantFree(r) => GrantFree(r)'
  BY DEF GrantFree
<1> QED BY <1>1 DEF Safe

(* A step of the current event keeps the purge invariant when every        *)
(* handled deletion stays safe and what leaves Unhandled has become safe.  *)
LEMMA PurgeStep ==
  ASSUME PurgeInv, UNCHANGED <<sf, log, saved, at>>,
         \A r \in Records : sf[r] = "deleted" /\ Handled(r) /\ Safe(r) => Safe(r)',
         \A r \in Records : r \in Unhandled /\ r \notin Unhandled' => Safe(r)'
  PROVE  PurgeInv'
  BY DEF PurgeInv, Handled, Settled

(***************************************************************************)
(* The steps that preserve the purge invariant.                            *)
(***************************************************************************)
Rest == /\ DeletedLast
        /\ FetchedLive
        /\ Publishing
        /\ Flushing
        /\ Marked
        /\ PurgeInv

(* A change in Salesforce: its event is ahead of everything handled.       *)
LEMMA SalesforceRest == ASSUME IInv, Salesforce PROVE Rest'
<1> SUFFICES ASSUME NEW ids \in Batches, NEW kind \in Kinds, Emit(kind, ids),
                    \A r \in Records \ ids : sf'[r] = sf[r],
                    \A r \in Records : r \in ids /\ sf'[r] = "deleted" => kind = "delete"
             PROVE  Rest'
  <2>1. ASSUME NEW ids \in Batches, DeleteRecords(ids) PROVE Rest'
    BY <2>1 DEF DeleteRecords, Kinds
  <2>2. ASSUME NEW ids \in Batches, NEW status \in Live,
               ChangeRecords(ids, status) \/ UndeleteRecords(ids, status)
        PROVE  Rest'
    <3>1. \A r \in Records : r \in ids => sf'[r] # "deleted"
      BY <2>2 DEF ChangeRecords, UndeleteRecords, Live
    <3> QED BY <2>2, <3>1 DEF ChangeRecords, UndeleteRecords, Kinds
  <2> QED BY <2>1, <2>2 DEF Salesforce
<1>0. TypeOK
  BY DEF IInv
<1>1. /\ UNCHANGED <<saved, at, repair, fga, wire, stage, todo, hold, fetched>>
      /\ Id' = Id
  BY DEF Emit, durable, outside, volatile, Id
<1>2. /\ saved \in Int /\ saved <= Len(log)
      /\ at \in Int /\ at <= Len(log)
      /\ at - 1 \in Int /\ at - 1 <= Len(log)
      /\ Len(log) \in Nat
  BY <1>0 DEF TypeOK
<1>3. \A r \in Records : r \in ids =>
         ~Settled(r, saved)' /\ ~Settled(r, at)' /\ ~Settled(r, at - 1)'
  BY <1>0, <1>1, <1>2, EmitSettled DEF Settled
<1>4. \A r \in Records : r \notin ids =>
         /\ Settled(r, saved)' <=> Settled(r, saved)
         /\ Settled(r, at)' <=> Settled(r, at)
         /\ Settled(r, at - 1)' <=> Settled(r, at - 1)
  BY <1>0, <1>1, <1>2, EmitSettled DEF Settled
<1>5. DeletedLast'
  <2> SUFFICES ASSUME NEW r \in Records, sf'[r] = "deleted", NEW i \in 1..Len(log'),
                      r \in log'[i].ids, log'[i].kind # "delete"
               PROVE  ~(\A j \in 1..Len(log') : r \in log'[j].ids => j <= i)
    BY DEF DeletedLast, Settled
  <2>1. /\ Len(log') = Len(log) + 1
        /\ \A j \in 1..Len(log) : log'[j] = log[j]
        /\ log'[Len(log) + 1].ids = ids
        /\ log'[Len(log) + 1].kind = kind
    BY <1>0, AppendProperties DEF Emit, TypeOK
  <2>2. CASE r \in ids
    <3>1. i <= Len(log) /\ i \in Int
      BY <1>2, <2>1, <2>2
    <3> QED BY <1>0, <2>2, <3>1, EmitSettled
  <2>3. CASE r \notin ids
    <3>1. i \in 1..Len(log) /\ log'[i] = log[i] /\ i <= Len(log) /\ i \in Int
      BY <1>2, <2>1, <2>3
    <3>2. ~Settled(r, i)
      BY <2>3, <3>1 DEF IInv, DeletedLast
    <3> QED BY <1>0, <2>3, <3>1, <3>2, EmitSettled
  <2> QED BY <2>2, <2>3
<1>6. FetchedLive'
  <2> SUFFICES ASSUME NEW r \in fetched, sf'[r] = "deleted"
               PROVE  ~Settled(r, saved)' /\ ~Settled(r, at)'
    BY <1>1 DEF FetchedLive
  <2>1. r \in Records
    BY <1>0 DEF TypeOK
  <2> QED BY <1>3, <1>4, <2>1 DEF IInv, FetchedLive
<1>7. \A r : Safe(r)' <=> Safe(r)
  BY <1>1 DEF Safe, GrantFree
<1>8. Publishing' /\ Flushing' /\ Marked'
  BY <1>1, <1>7 DEF IInv, Publishing, Flushing, Marked, Purge
<1>9. PurgeInv'
  BY <1>1, <1>3, <1>4, <1>7 DEF IInv, PurgeInv, Handled, Unhandled
<1> QED BY <1>5, <1>6, <1>8, <1>9 DEF Rest

(* The broker receives a message.                                          *)
LEMMA DeliverRest == ASSUME IInv, Deliver PROVE Rest'
<1>0. TypeOK
  BY DEF IInv
<1>1. UNCHANGED <<sf, log, saved, at, repair, stage, todo, hold, fetched>> /\ Id' = Id
  BY DEF Deliver, external, durable, volatile, Id
<1>2. DeletedLast' /\ FetchedLive' /\ Publishing'
  BY <1>1 DEF IInv, DeletedLast, FetchedLive, Publishing, Settled
<1>3. \A r \in Records : Safe(r) => Safe(r)'
  BY <1>0, SafeDeliver
<1>4. stage \in {"flush", "indexMarker"} => Id \in Records
  BY <1>0, IdInTodo DEF IInv, Looping, TypeOK
<1>5. Marked'
  BY <1>1, <1>3, <1>4 DEF IInv, Marked
<1>6. Flushing'
  <2> SUFFICES ASSUME stage = "flush"
               PROVE  IF wire' = <<>> THEN fga'[Id] = {} ELSE wire'[Len(wire')] = Purge(Id)
    BY <1>1 DEF Flushing, Purge
  <2>1. /\ wire \in Seq(Messages) /\ wire # <<>> /\ wire' = Tail(wire)
        /\ Len(wire) \in Nat \ {0}
        /\ wire[Len(wire)] = Purge(Id)
    BY <1>0 DEF IInv, TypeOK, Deliver, Flushing
  <2>2. CASE Len(wire) = 1
    <3>1. wire' = <<>> /\ Head(wire) = Purge(Id)
      BY <2>1, <2>2
    <3>2. fga'[Id] = {}
      BY <1>0, <1>4, <3>1 DEF Deliver, Purge, TypeOK
    <3> QED BY <3>1, <3>2
  <2>3. CASE Len(wire) > 1
    <3>1. /\ Len(wire') = Len(wire) - 1
          /\ \A i \in 1..Len(wire') : wire'[i] = wire[i + 1]
      BY <2>1
    <3>2. Len(wire') \in 1..Len(wire') /\ Len(wire') + 1 = Len(wire)
      BY <2>1, <2>3, <3>1
    <3>3. wire'[Len(wire')] = wire[Len(wire)]
      BY <3>1, <3>2
    <3>4. wire' # <<>>
      BY <3>2
    <3> QED BY <2>1, <3>3, <3>4
  <2>4. Len(wire) = 1 \/ Len(wire) > 1
    <3>1. Len(wire) \in Nat \ {0}
      BY <2>1
    <3> QED BY <3>1
  <2> QED BY <2>2, <2>3, <2>4
<1>7. PurgeInv'
  <2>1. Unhandled' = Unhandled
    BY <1>1 DEF Unhandled
  <2> QED BY <1>1, <1>3, <2>1, PurgeStep DEF IInv
<1> QED BY <1>2, <1>5, <1>6, <1>7 DEF Rest

(* Taking, committing and losing the place in the stream.                  *)
LEMMA CursorRest ==
  ASSUME IInv, Take \/ Save \/ Keepalive \/ Crash \/ Reconnect
  PROVE  Rest'
<1>0. TypeOK
  BY DEF IInv
<1>1. /\ UNCHANGED <<sf, log, repair, fga>>
      /\ wire' = wire \/ wire' = <<>>
  BY DEF Take, Save, Keepalive, Crash, Reconnect, external, durable, outside
<1>2. DeletedLast'
  BY <1>1 DEF IInv, DeletedLast, Settled
<1>3. \A r : Safe(r) => Safe(r)'
  BY <1>1, SafeKept
<1>4. stage' \notin {"publish", "flush", "indexMarker"}
  BY DEF Take, Save, Keepalive, Crash, Reconnect, Start, Goto, volatile
<1>5. Publishing' /\ Flushing' /\ Marked'
  BY <1>4 DEF Publishing, Flushing, Marked
<1>6. /\ saved \in Int /\ at \in Int /\ at - 1 \in Int /\ at + 1 \in Int
      /\ Len(log) \in Nat
  BY <1>0 DEF TypeOK
<1>7. CASE Take
  <2>1. FetchedLive'
    BY <1>7 DEF Take, Start, FetchedLive
  <2>2. ASSUME NEW r \in Records, sf'[r] = "deleted", Handled(r)'
        PROVE  Safe(r)'
    <3>1. sf[r] = "deleted" /\ saved' = saved /\ at' = at + 1 /\ at + 1 \in 1..Len(log)
      BY <1>0, <1>1, <1>7, <2>2 DEF Take, durable, TypeOK
    <3>2. Unhandled = {}
      BY <1>7 DEF Take, Unhandled, DeleteStages
    <3>3. Settled(r, saved) \/ Settled(r, at) \/ (Settled(r, at + 1) /\ r \notin Unhandled')
      <4>1. (at + 1) - 1 = at
        BY <1>6
      <4> QED BY <1>1, <2>2, <3>1, <4>1 DEF Handled, Settled
    <3>4. ASSUME Settled(r, at + 1), r \notin Unhandled' PROVE Settled(r, at)
      <4>1. r \notin log[at + 1].ids
        <5>1. CASE log[at + 1].kind = "delete"
          <6>1. Unhandled' = log[at + 1].ids
            BY <1>7, <5>1 DEF Take, Start, Unhandled, DeleteStages
          <6> QED BY <3>4, <6>1
        <5>2. CASE log[at + 1].kind # "delete"
          BY <3>1, <3>4, <5>2 DEF IInv, DeletedLast
        <5> QED BY <5>1, <5>2
      <4>2. \A i \in 1..Len(log) : r \in log[i].ids => i <= at + 1 /\ i # at + 1
        BY <3>4, <4>1 DEF Settled
      <4> QED BY <1>6, <4>2 DEF Settled
    <3>5. Handled(r)
      BY <3>2, <3>3, <3>4 DEF Handled
    <3> QED BY <1>3, <3>1, <3>5 DEF IInv, PurgeInv
  <2> QED BY <1>2, <1>5, <2>1, <2>2 DEF Rest, PurgeInv
<1>8. CASE Save \/ Keepalive
  <2>1. /\ at' = at
        /\ saved' = at \/ saved' = saved
        /\ fetched' \subseteq fetched
        /\ stage \in {"save", "idle"} /\ stage' = "idle"
    BY <1>8 DEF Save, Keepalive, Forget, Goto, volatile
  <2>2. FetchedLive'
    BY <1>1, <2>1 DEF IInv, FetchedLive, Settled
  <2>3. Unhandled = {} /\ Unhandled' = {}
    BY <2>1 DEF Unhandled, DeleteStages
  <2>4. \A r : Handled(r)' => Handled(r)
    BY <1>1, <2>1, <2>3 DEF Handled, Settled
  <2>5. PurgeInv'
    BY <1>1, <1>3, <2>4 DEF IInv, PurgeInv
  <2> QED BY <1>2, <1>5, <2>2, <2>5 DEF Rest
<1>9. CASE Crash \/ Reconnect
  <2>1. /\ saved' = saved
        /\ at' \in Int
        /\ at' <= at \/ at' = saved
        /\ fetched' \subseteq fetched
        /\ stage' = "idle"
    BY <1>0, <1>6, <1>9 DEF Crash, Reconnect, Forget, Goto, durable, TypeOK
  <2>2. Unhandled' = {}
    BY <2>1 DEF Unhandled, DeleteStages
  <2>3. \A r : Settled(r, at)' => Settled(r, at) \/ Settled(r, saved)
    <3>1. \A r : Settled(r, at)' =>
                   \A i \in 1..Len(log) : r \in log[i].ids => i <= at'
      BY <1>1 DEF Settled
    <3>2. \A i \in 1..Len(log) : i <= at' /\ at' <= at => i <= at
      BY <1>6, <2>1
    <3>3. \A i \in 1..Len(log) : i <= at' /\ at' = saved => i <= saved
      OBVIOUS
    <3>4. CASE at' <= at
      BY <3>1, <3>2, <3>4 DEF Settled
    <3>5. CASE at' = saved
      BY <3>1, <3>3, <3>5 DEF Settled
    <3> QED BY <2>1, <3>4, <3>5
  <2>4. FetchedLive'
    <3> SUFFICES ASSUME NEW r \in fetched, sf[r] = "deleted"
                 PROVE  ~Settled(r, saved)' /\ ~Settled(r, at)'
      BY <1>1, <2>1 DEF FetchedLive
    <3>1. ~Settled(r, saved) /\ ~Settled(r, at)
      BY DEF IInv, FetchedLive
    <3>2. Settled(r, saved)' => Settled(r, saved)
      BY <1>1, <2>1 DEF Settled
    <3> QED BY <2>3, <3>1, <3>2
  <2>5. ASSUME NEW r \in Records, Handled(r)' PROVE Handled(r)
    <3>1. Settled(r, saved)' => Settled(r, saved)
      BY <1>1, <2>1 DEF Settled
    <3>2. Settled(r, at - 1)' => Settled(r, at)'
      <4>1. \A i, n \in Int : i <= n - 1 => i <= n
        OBVIOUS
      <4>2. \A i \in 1..Len(log) : i <= at' - 1 => i <= at'
        <5>1. at' \in Int BY <2>1
        <5>2. \A i \in 1..Len(log) : i \in Int BY <1>6
        <5> QED BY <4>1, <5>1, <5>2
      <4> QED BY <1>1, <4>2 DEF Settled
    <3>3. CASE Crash
      <4>1. Settled(r, at)' => Settled(r, saved)
        BY <1>1, <3>3 DEF Crash, Settled
      <4> QED BY <2>5, <3>1, <3>2, <4>1 DEF Handled
    <3>4. CASE Reconnect
      <4>1. Unhandled = {}
        BY <3>4 DEF Reconnect, Unhandled, DeleteStages
      <4> QED BY <2>3, <2>5, <3>1, <3>2, <4>1 DEF Handled
    <3> QED BY <1>9, <3>3, <3>4
  <2>6. PurgeInv'
    BY <1>1, <1>3, <2>5 DEF IInv, PurgeInv
  <2> QED BY <1>2, <1>5, <2>4, <2>6 DEF Rest
<1> QED BY <1>7, <1>8, <1>9

(* The delete handler, one id after another.                               *)
LEMMA DeleteRest == ASSUME IInv, HandleDelete PROVE Rest'
<1>0. TypeOK
  BY DEF IInv
<1>1. UNCHANGED <<sf, log, saved, at, fetched>> \/ FinishDelete
  BY DEF HandleDelete, PublishDelete, ConfirmDelete, RecordFailedPurge,
         QueueUnconfirmedDelete, external, durable
<1>2. UNCHANGED <<sf, log, saved, at>> /\ (fetched' = fetched \/ fetched' = {})
  BY <1>1 DEF FinishDelete, Start, external, durable
<1>3. DeletedLast' /\ FetchedLive'
  BY <1>2 DEF IInv, DeletedLast, FetchedLive, Settled
<1>4. Publishing'
  BY DEF HandleDelete, PublishDelete, ConfirmDelete, RecordFailedPurge,
         QueueUnconfirmedDelete, FinishDelete, Start, Goto, Publishing
<1>5. CASE PublishDelete
  <2>1. Id \in Records /\ Id' = Id
    BY <1>0, <1>5, IdInTodo DEF PublishDelete, TypeOK, Id
  <2>2. PICK drop, purge \in BOOLEAN :
           /\ Send(Optional(drop, Drop(Id)) \o Optional(purge, Purge(Id)))
           /\ Goto(IF purge THEN "flush" ELSE "purgeMarker")
    BY <1>5 DEF PublishDelete
  <2> DEFINE msgs == Optional(drop, Drop(Id)) \o Optional(purge, Purge(Id))
  <2>3. msgs \in Seq(Messages)
    BY <2>1, SentMessages
  <2>4. /\ \A i \in 1..Len(msgs) : msgs[i].op # "grant"
        /\ purge => Len(msgs) > 0 /\ msgs[Len(msgs)] = Purge(Id)
    BY DEF Optional, Drop, Purge
  <2>5. \A r \in Records : Safe(r) => Safe(r)'
    <3>1. repair \subseteq repair' /\ Send(msgs)
      BY <1>5, <2>2 DEF PublishDelete, durable
    <3> HIDE DEF msgs
    <3> QED BY <1>0, <2>3, <2>4, <3>1, SafeSend
  <2>6. Flushing'
    <3> SUFFICES ASSUME stage' = "flush"
                 PROVE  wire' # <<>> /\ wire'[Len(wire')] = Purge(Id)
      BY <2>1 DEF Flushing, Purge
    <3>1. purge
      BY <2>2 DEF Goto
    <3>2. wire' = wire \o msgs /\ wire \in Seq(Messages)
      BY <1>0, <2>2 DEF Send, TypeOK
    <3> HIDE DEF msgs
    <3>3. /\ Len(wire') = Len(wire) + Len(msgs)
          /\ Len(wire') > 0
          /\ wire'[Len(wire')] = msgs[Len(msgs)]
      BY <2>3, <2>4, <3>1, <3>2
    <3> QED BY <2>4, <3>1, <3>3
  <2>7. stage' # "indexMarker"
    BY <2>2 DEF Goto
  <2>8. Unhandled' = Unhandled
    BY <1>5, <2>2 DEF PublishDelete, Goto, Unhandled, DeleteStages
  <2>9. PurgeInv'
    BY <1>2, <2>5, <2>8, PurgeStep DEF IInv
  <2> QED BY <1>3, <1>4, <2>6, <2>7, <2>9 DEF Rest, Marked
<1>6. CASE ConfirmDelete
  <2>1. /\ UNCHANGED <<repair, fga, wire, hold>>
        /\ stage = "flush" /\ stage' \in {"delete", "purgeMarker", "indexMarker"}
        /\ Id \in todo /\ Id \in Records
    BY <1>0, <1>6, IdInTodo DEF ConfirmDelete, Goto, durable, outside, IInv, Looping, TypeOK
  <2>2. \A r : Safe(r) => Safe(r)'
    BY <2>1, SafeKept
  <2>3. ASSUME wire = <<>> PROVE Safe(Id)
    <3>1. fga[Id] = {}
      BY <2>1, <2>3 DEF IInv, Flushing
    <3>2. GrantFree(Id)
      BY <2>3 DEF GrantFree
    <3> QED BY <3>1, <3>2 DEF Safe
  <2>4. Marked'
    <3> SUFFICES ASSUME stage' = "indexMarker" PROVE Safe(Id)'
      BY DEF Marked
    <3>1. wire = <<>> /\ todo' = todo
      BY <1>6 DEF ConfirmDelete, Goto
    <3>2. Id' = Id
      BY <3>1 DEF Id
    <3> QED BY <2>2, <2>3, <3>1, <3>2
  <2>5. \A r : r \in Unhandled /\ r \notin Unhandled' => Safe(r)'
    <3>1. Unhandled = todo \union hold /\ Unhandled' = todo' \union hold'
      BY <2>1 DEF Unhandled, DeleteStages
    <3>2. \/ todo' = todo
          \/ todo' = todo \ {Id} /\ wire = <<>>
      BY <1>6 DEF ConfirmDelete
    <3> QED BY <2>1, <2>2, <2>3, <3>1, <3>2
  <2>6. PurgeInv'
    BY <1>2, <2>2, <2>5, PurgeStep DEF IInv
  <2> QED BY <1>3, <1>4, <2>1, <2>4, <2>6 DEF Rest, Flushing
<1>7. CASE RecordFailedPurge
  <2>1. /\ UNCHANGED <<fga, wire, todo>> /\ Id' = Id
        /\ repair \subseteq repair'
        /\ stage = "purgeMarker" /\ stage' = "indexMarker"
        /\ \/ <<"purge", Id>> \in repair' /\ hold' = hold
           \/ hold' = hold \union {Id}
    BY <1>7 DEF RecordFailedPurge, Goto, outside, Id
  <2>2. \A r : Safe(r) => Safe(r)'
    BY <2>1, SafeKept
  <2>3. Marked'
    BY <2>1 DEF Marked, Safe
  <2>4. Unhandled \subseteq Unhandled'
    BY <2>1 DEF Unhandled, DeleteStages
  <2>5. PurgeInv'
    BY <1>2, <2>2, <2>4, PurgeStep DEF IInv
  <2> QED BY <1>3, <1>4, <2>1, <2>3, <2>5 DEF Rest, Flushing
<1>8. CASE QueueUnconfirmedDelete
  <2>1. /\ UNCHANGED <<fga, wire, hold>>
        /\ repair \subseteq repair'
        /\ stage = "indexMarker" /\ stage' = "delete"
        /\ todo' = todo \ {Id}
    BY <1>8 DEF QueueUnconfirmedDelete, QueueForRepair, Goto, outside
  <2>2. \A r : Safe(r) => Safe(r)'
    BY <2>1, SafeKept
  <2>3. \A r : r \in Unhandled /\ r \notin Unhandled' => Safe(r)'
    <3>1. Unhandled = todo \union hold /\ Unhandled' = (todo \ {Id}) \union hold
      BY <2>1 DEF Unhandled, DeleteStages
    <3>2. Safe(Id) \/ Id \in hold
      BY <2>1 DEF IInv, Marked
    <3> QED BY <2>2, <3>1, <3>2
  <2>4. PurgeInv'
    BY <1>2, <2>2, <2>3, PurgeStep DEF IInv
  <2> QED BY <1>3, <1>4, <2>1, <2>4 DEF Rest, Flushing, Marked
<1>9. CASE FinishDelete
  <2>1. /\ UNCHANGED <<repair, fga, wire>>
        /\ stage = "delete" /\ todo = {}
        /\ \/ hold = {} /\ stage' = "save"
           \/ stage' = "delete" /\ todo' = hold /\ hold' = {}
    BY <1>9 DEF FinishDelete, Start, Goto, durable, outside
  <2>2. \A r : Safe(r) => Safe(r)'
    BY <2>1, SafeKept
  <2>3. Unhandled' = Unhandled
    BY <2>1 DEF Unhandled, DeleteStages
  <2>4. PurgeInv'
    BY <1>2, <2>2, <2>3, PurgeStep DEF IInv
  <2> QED BY <1>3, <1>4, <2>1, <2>4 DEF Rest, Flushing, Marked
<1> QED BY <1>5, <1>6, <1>7, <1>8, <1>9 DEF HandleDelete

(* Messages that are all about one record.                                 *)
About(msgs, r) == \A i \in 1..Len(msgs) : msgs[i].id = r

(* An optional message is about the record of the message.                 *)
LEMMA AboutOptional ==
  ASSUME NEW e \in BOOLEAN, NEW m \in Messages
  PROVE  /\ Optional(e, m) \in Seq(Messages)
         /\ About(Optional(e, m), m.id)
<1>1. CASE e
  BY <1>1 DEF Optional, About
<1>2. CASE ~e
  BY <1>2 DEF Optional, About
<1> QED BY <1>1, <1>2

(* Two sequences about one record are, appended, about that record.        *)
LEMMA AboutConcat ==
  ASSUME NEW s \in Seq(Messages), NEW t \in Seq(Messages), NEW r,
         About(s, r), About(t, r)
  PROVE  /\ s \o t \in Seq(Messages)
         /\ About(s \o t, r)
<1>1. \A i \in 1..Len(s \o t) :
          \/ i \in 1..Len(s) /\ (s \o t)[i] = s[i]
          \/ i - Len(s) \in 1..Len(t) /\ (s \o t)[i] = t[i - Len(s)]
  OBVIOUS
<1> QED BY <1>1, ConcatProperties DEF About

(* What the upsert handler sends for a record is about that record.        *)
LEMMA AboutOneRecord ==
  ASSUME NEW r \in Records, NEW b \in BOOLEAN, NEW c \in BOOLEAN, NEW d \in BOOLEAN
  PROVE  /\ About(Optional(b, Put(r)) \o Optional(c, Grant(r, {"team"})), r)
         /\ About(Optional(b, Put(r)) \o RestoreMessages(r, c, d), r)
<1>1. /\ Put(r) \in Messages /\ Put(r).id = r
      /\ \A g \in SUBSET Groups : Grant(r, g) \in Messages /\ Grant(r, g).id = r
  BY DEF Put, Grant, Messages
<1>2. /\ Groups \in SUBSET Groups
      /\ {"team"} \in SUBSET Groups
      /\ {"user"} \in SUBSET Groups
  BY DEF Groups
<1>3. \A e \in BOOLEAN, g \in SUBSET Groups :
         /\ Optional(e, Grant(r, g)) \in Seq(Messages)
         /\ About(Optional(e, Grant(r, g)), r)
  BY <1>1, AboutOptional
<1>4. Optional(b, Put(r)) \in Seq(Messages) /\ About(Optional(b, Put(r)), r)
  BY <1>1, AboutOptional
<1>5. /\ RestoreMessages(r, c, d) \in Seq(Messages)
      /\ About(RestoreMessages(r, c, d), r)
  <2>1. CASE r \in Accounts
    <3>1. RestoreMessages(r, c, d) = Optional(c /\ d, Grant(r, Groups))
      BY <2>1 DEF RestoreMessages
    <3>2. (c /\ d) \in BOOLEAN
      OBVIOUS
    <3> QED BY <1>2, <1>3, <3>1, <3>2
  <2>2. CASE r \notin Accounts
    <3>1. RestoreMessages(r, c, d)
            = Optional(c, Grant(r, {"team"})) \o Optional(d, Grant(r, {"user"}))
      BY <2>2 DEF RestoreMessages
    <3> QED BY <1>2, <1>3, <3>1, AboutConcat
  <2> QED BY <2>1, <2>2
<1> QED BY <1>2, <1>3, <1>4, <1>5, AboutConcat

(* The upsert handler: it grants only what was read as live, and what was  *)
(* read as live has not been handled as deleted.                           *)
LEMMA UpsertRest == ASSUME IInv, HandleUpsert PROVE Rest'
<1>0. TypeOK
  BY DEF IInv
<1>1. /\ UNCHANGED <<sf, log, saved, at>>
      /\ repair \subseteq repair'
  BY DEF HandleUpsert, SkipForQuota, FetchFails, Fetch, PublishAbsent, AbsentPublished,
         ConfirmAbsent, QueueAbsent, PublishUpsert, PublishRestore, FinishPublish,
         ConfirmRestore, QueueForRepair, external, durable
<1>2. stage \in UpsertStages
  BY DEF HandleUpsert, SkipForQuota, FetchFails, Fetch, PublishAbsent, AbsentPublished,
         ConfirmAbsent, QueueAbsent, PublishUpsert, PublishRestore, FinishPublish,
         ConfirmRestore, UpsertStages
<1>3. stage' \in UpsertStages \union {"save"}
  BY DEF HandleUpsert, SkipForQuota, FetchFails, Fetch, PublishAbsent, AbsentPublished,
         ConfirmAbsent, QueueAbsent, PublishUpsert, PublishRestore, FinishPublish,
         ConfirmRestore, UpsertStages, RetryOrSkip, Start, Goto
<1>4. DeletedLast'
  BY <1>1 DEF IInv, DeletedLast, Settled
<1>5. FetchedLive'
  <2>1. \/ fetched' \subseteq fetched
        \/ \A r \in fetched' : sf[r] = "qualifying"
    BY DEF HandleUpsert, SkipForQuota, FetchFails, Fetch, PublishAbsent, AbsentPublished,
           ConfirmAbsent, QueueAbsent, PublishUpsert, PublishRestore, FinishPublish,
           ConfirmRestore, RetryOrSkip, Start
  <2> QED BY <1>1, <2>1 DEF IInv, FetchedLive, Settled
<1>6. Publishing'
  <2> SUFFICES ASSUME stage' = "publish" PROVE todo' \subseteq fetched'
    BY DEF Publishing
  <2>1. QueueAbsent \/ PublishUpsert \/ PublishRestore
    BY DEF HandleUpsert, SkipForQuota, FetchFails, Fetch, PublishAbsent, AbsentPublished,
           ConfirmAbsent, QueueAbsent, FinishPublish, ConfirmRestore, RetryOrSkip, Start, Goto
  <2> QED BY <2>1 DEF QueueAbsent, PublishUpsert, PublishRestore, IInv, Publishing
<1>7. Flushing' /\ Marked'
  BY <1>3 DEF Flushing, Marked, UpsertStages
<1>8. Unhandled = {} /\ Unhandled' = {}
  BY <1>2, <1>3 DEF Unhandled, DeleteStages, UpsertStages
<1>9. ASSUME NEW r \in Records, sf[r] = "deleted", Handled(r), Safe(r)
      PROVE  Safe(r)'
  <2>1. CASE PublishAbsent
    <3>1. Id \in Records
      BY <1>0, <2>1, IdInTodo DEF PublishAbsent, TypeOK
    <3>2. PICK ok \in BOOLEAN : Send(Optional(ok, Drop(Id)))
      BY <2>1 DEF PublishAbsent
    <3>3. Optional(ok, Drop(Id)) \in Seq(Messages)
      BY <3>1, SentMessages
    <3>4. \A i \in 1..Len(Optional(ok, Drop(Id))) : Optional(ok, Drop(Id))[i].op # "grant"
      BY DEF Optional, Drop
    <3> QED BY <1>0, <1>1, <1>9, <3>2, <3>3, <3>4, SafeSend
  <2>2. CASE PublishUpsert \/ PublishRestore
    <3>1. Id \in Records /\ Id \in fetched
      BY <1>0, <2>2, IdInTodo DEF PublishUpsert, PublishRestore, TypeOK, IInv, Publishing
    <3>2. r # Id
      <4>1. \A n \in Int : n <= at /\ ~Settled(Id, at) => ~Settled(Id, n)
        BY <1>0, SettledLater DEF TypeOK
      <4>2. at - 1 \in Int /\ at - 1 <= at
        BY <1>0 DEF TypeOK
      <4>3. sf[Id] = "deleted" => ~Handled(Id)
        BY <3>1, <4>1, <4>2 DEF IInv, FetchedLive, Handled
      <4> QED BY <1>9, <4>3
    <3>3. \E msgs \in Seq(Messages) : Send(msgs) /\ About(msgs, Id)
      <4>1. CASE PublishUpsert
        <5>1. PICK put, grant \in BOOLEAN :
                 Send(Optional(put, Put(Id)) \o Optional(grant, Grant(Id, {"team"})))
          BY <4>1 DEF PublishUpsert
        <5>2. Optional(put, Put(Id)) \o Optional(grant, Grant(Id, {"team"}))
                \in Seq(Messages)
          BY <3>1, SentMessages
        <5> QED BY <3>1, <5>1, <5>2, AboutOneRecord
      <4>2. CASE PublishRestore
        <5>1. PICK put, first, second \in BOOLEAN :
                 Send(Optional(put, Put(Id)) \o RestoreMessages(Id, first, second))
          BY <4>2 DEF PublishRestore
        <5>2. Optional(put, Put(Id)) \o RestoreMessages(Id, first, second)
                \in Seq(Messages)
          BY <3>1, SentMessages
        <5> QED BY <3>1, <5>1, <5>2, AboutOneRecord
      <4> QED BY <2>2, <4>1, <4>2
    <3>4. PICK msgs \in Seq(Messages) : Send(msgs) /\ About(msgs, Id)
      BY <3>3
    <3>5. \A i \in 1..Len(msgs) : msgs[i].op = "grant" => msgs[i].id # r
      BY <3>2, <3>4 DEF About
    <3> QED BY <1>0, <1>1, <1>9, <3>4, <3>5, SafeSend
  <2>3. CASE ~(PublishAbsent \/ PublishUpsert \/ PublishRestore)
    <3>1. UNCHANGED <<fga, wire>>
      BY <2>3 DEF HandleUpsert, SkipForQuota, FetchFails, Fetch, AbsentPublished,
                  ConfirmAbsent, QueueAbsent, FinishPublish, ConfirmRestore, outside
    <3> QED BY <1>1, <1>9, <3>1, SafeKept
  <2> QED BY <2>1, <2>2, <2>3
<1>10. PurgeInv'
  BY <1>1, <1>8, <1>9, PurgeStep DEF IInv
<1> QED BY <1>4, <1>5, <1>6, <1>7, <1>10 DEF Rest

LEMMA InitRest == ASSUME Init PROVE Rest
<1>1. /\ \A r \in Records : sf[r] = "qualifying"
      /\ fetched = {}
      /\ stage = "idle"
  BY DEF Init
<1> QED BY <1>1 DEF Rest, DeletedLast, FetchedLive, Publishing, Flushing, Marked, PurgeInv

LEMMA NextRest == ASSUME IInv, [Next]_vars PROVE Rest'
<1>1. CASE Next
  BY <1>1, SalesforceRest, DeliverRest, CursorRest, DeleteRest, UpsertRest DEF Next, Run
<1>2. CASE UNCHANGED vars
  BY <1>2 DEF vars, external, durable, outside, volatile, IInv, Rest, DeletedLast,
     FetchedLive, Publishing, Flushing, Marked, PurgeInv, Handled, Settled, Unhandled, Safe,
     GrantFree, Id, Purge
<1> QED BY <1>1, <1>2

(* A record Salesforce deleted, whose events are all behind the committed  *)
(* cursor, keeps no tuple unless a purge marker names it.                  *)
THEOREM PurgesAreAddressed == Spec => []PurgeAddressed
<1>1. Init => IInv
  BY InitTyped, InitRest DEF IInv, Rest, Typed
<1>2. IInv /\ [Next]_vars => IInv'
  BY NextTyped, NextRest DEF IInv, Rest, Typed
<1>3. IInv => PurgeAddressed
  BY DEF IInv, PurgeInv, Handled, Safe, PurgeAddressed
<1> QED BY <1>1, <1>2, <1>3, PTL DEF Spec

----------------------------------------------------------------------------
(***************************************************************************)
(* Withdrawals: a purge is sent only by the handler of a delete event.     *)
(***************************************************************************)

(* Salesforce deleted r at some time.                                      *)
DeletedOnce(r) ==
    \E i \in 1..Len(log) : r \in log[i].ids /\ log[i].kind = "delete"

Deleting ==
    stage \in DeleteStages =>
        at > 0 /\ Current.kind = "delete" /\ todo \union hold \subseteq Current.ids

PurgesFollow ==
    \A i \in 1..Len(wire) : wire[i].op = "purge" => DeletedOnce(wire[i].id)

Withdrawing == Typed /\ Deleting /\ PurgesFollow

(* What was deleted once stays so, because the log only grows.             *)
LEMMA DeletedOnceKept ==
  ASSUME TypeOK, [Next]_vars, NEW r, DeletedOnce(r)
  PROVE  DeletedOnce(r)'
<1>1. /\ Len(log') >= Len(log) /\ Len(log') \in Nat /\ Len(log) \in Nat
      /\ \A i \in 1..Len(log) : log'[i] = log[i]
  <2>1. CASE Salesforce
    <3>1. PICK kind, ids : log' = Append(log, [kind |-> kind, ids |-> ids])
      BY <2>1 DEF Salesforce, DeleteRecords, ChangeRecords, UndeleteRecords, Emit
    <3> QED BY <3>1 DEF TypeOK
  <2>2. CASE ~Salesforce
    <3>1. log' = log
      BY <2>2 DEF Next, Deliver, Run, Take, Save, Keepalive, Crash, Reconnect, HandleDelete,
         PublishDelete, ConfirmDelete, RecordFailedPurge, QueueUnconfirmedDelete, FinishDelete,
         HandleUpsert, SkipForQuota, FetchFails, Fetch, PublishAbsent, AbsentPublished,
         ConfirmAbsent, QueueAbsent, PublishUpsert, PublishRestore, FinishPublish,
         ConfirmRestore, external, vars
    <3> QED BY <3>1 DEF TypeOK
  <2> QED BY <2>1, <2>2
<1>2. PICK i \in 1..Len(log) : r \in log[i].ids /\ log[i].kind = "delete"
  BY DEF DeletedOnce
<1>3. i \in 1..Len(log') /\ log'[i] = log[i]
  BY <1>1, <1>2
<1> QED BY <1>2, <1>3 DEF DeletedOnce

(* The handler of a delete event stays with that event and its ids.        *)
LEMMA NextDeleting == ASSUME Withdrawing, [Next]_vars PROVE Deleting'
<1>0. TypeOK
  BY DEF Withdrawing, Typed
<1>1. CASE Salesforce
  <2>1. PICK kind, ids : Emit(kind, ids)
    BY <1>1 DEF Salesforce, DeleteRecords, ChangeRecords, UndeleteRecords
  <2>2. at \in 1..Len(log) => log'[at] = log[at]
    BY <1>0, <2>1 DEF TypeOK, Emit
  <2>3. UNCHANGED <<at, stage, todo, hold>>
    BY <2>1 DEF Emit, volatile
  <2>4. at \in 0..Len(log)
    BY <1>0 DEF TypeOK
  <2>5. at > 0 => at \in 1..Len(log)
    BY <2>4
  <2> QED BY <2>2, <2>3, <2>5 DEF Withdrawing, Deleting, Current
<1>2. CASE Take
  <2>1. stage' = "delete" => log[at + 1].kind = "delete"
    BY <1>2 DEF Take, Start
  <2>2. /\ at' = at + 1 /\ at' > 0 /\ log' = log
        /\ todo' = log[at + 1].ids /\ hold' = {}
        /\ stage' \in {"delete", "upsert"}
    BY <1>0, <1>2 DEF Take, Start, external, TypeOK
  <2> QED BY <2>1, <2>2 DEF Deleting, DeleteStages, Current
<1>3. CASE HandleDelete
  <2>1. UNCHANGED <<log, at>> /\ stage \in DeleteStages
    BY <1>3 DEF HandleDelete, PublishDelete, ConfirmDelete, RecordFailedPurge,
       QueueUnconfirmedDelete, FinishDelete, external, DeleteStages
  <2>2. stage \in {"purgeMarker"} => Id \in todo
    BY IdInTodo DEF Withdrawing, Typed, Looping
  <2>3. todo' \union hold' \subseteq todo \union hold
    BY <1>3, <2>2 DEF HandleDelete, PublishDelete, ConfirmDelete, RecordFailedPurge,
       QueueUnconfirmedDelete, FinishDelete, Start
  <2> QED BY <2>1, <2>3 DEF Withdrawing, Deleting, Current
<1>4. CASE Deliver \/ UNCHANGED vars
  BY <1>4 DEF Deliver, vars, external, volatile, Withdrawing, Deleting, Current
<1>5. CASE Save \/ Keepalive \/ Crash \/ Reconnect \/ HandleUpsert
  <2>1. stage' \notin DeleteStages
    BY <1>5 DEF Save, Keepalive, Crash, Reconnect, HandleUpsert, SkipForQuota, FetchFails,
       Fetch, PublishAbsent, AbsentPublished, ConfirmAbsent, QueueAbsent, PublishUpsert,
       PublishRestore, FinishPublish, ConfirmRestore, RetryOrSkip, Start, Goto, volatile,
       DeleteStages
  <2> QED BY <2>1 DEF Deleting
<1> QED BY <1>1, <1>2, <1>3, <1>4, <1>5 DEF Next, Run

(* No message other than that handler's is a purge.                        *)
LEMMA SendFollow ==
  ASSUME Withdrawing, [Next]_vars, NEW msgs \in Seq(Messages), Send(msgs),
         \A i \in 1..Len(msgs) : msgs[i].op = "purge" => DeletedOnce(msgs[i].id)
  PROVE  PurgesFollow'
<1>1. wire \in Seq(Messages) /\ wire' = wire \o msgs
  BY DEF Withdrawing, Typed, TypeOK, Send
<1>2. \A i \in 1..Len(wire') :
          \/ i \in 1..Len(wire) /\ wire'[i] = wire[i]
          \/ i - Len(wire) \in 1..Len(msgs) /\ wire'[i] = msgs[i - Len(wire)]
  BY <1>1
<1>3. \A i \in 1..Len(wire') : wire'[i].op = "purge" => DeletedOnce(wire'[i].id)
  BY <1>2 DEF Withdrawing, PurgesFollow
<1> QED BY <1>3, DeletedOnceKept DEF Withdrawing, Typed, PurgesFollow

(* No upsert or restore sends a purge.                                     *)
LEMMA UpsertSends ==
  ASSUME TypeOK, PublishAbsent \/ PublishUpsert \/ PublishRestore
  PROVE  \E msgs \in Seq(Messages) :
            Send(msgs) /\ \A i \in 1..Len(msgs) : msgs[i].op # "purge"
<1>1. Id \in Records
  BY IdInTodo DEF PublishAbsent, PublishUpsert, PublishRestore, TypeOK
<1>2. \A b, c, d \in BOOLEAN :
         /\ \A i \in 1..Len(Optional(b, Put(Id)) \o Optional(c, Grant(Id, {"team"}))) :
               (Optional(b, Put(Id)) \o Optional(c, Grant(Id, {"team"})))[i].op # "purge"
         /\ \A i \in 1..Len(Optional(b, Put(Id)) \o RestoreMessages(Id, c, d)) :
               (Optional(b, Put(Id)) \o RestoreMessages(Id, c, d))[i].op # "purge"
  BY DEF RestoreMessages, Optional, Drop, Put, Grant
<1>3. CASE PublishAbsent
  <2>1. PICK ok \in BOOLEAN : Send(Optional(ok, Drop(Id)))
    BY <1>3 DEF PublishAbsent
  <2>2. Optional(ok, Drop(Id)) \in Seq(Messages)
    BY <1>1, SentMessages
  <2>3. \A i \in 1..Len(Optional(ok, Drop(Id))) : Optional(ok, Drop(Id))[i].op # "purge"
    BY DEF Optional, Drop
  <2> QED BY <2>1, <2>2, <2>3
<1>4. CASE PublishUpsert
  <2>1. PICK put, grant \in BOOLEAN :
           Send(Optional(put, Put(Id)) \o Optional(grant, Grant(Id, {"team"})))
    BY <1>4 DEF PublishUpsert
  <2>2. Optional(put, Put(Id)) \o Optional(grant, Grant(Id, {"team"})) \in Seq(Messages)
    BY <1>1, SentMessages
  <2> QED BY <1>2, <2>1, <2>2
<1>5. CASE PublishRestore
  <2>1. PICK put, first, second \in BOOLEAN :
           Send(Optional(put, Put(Id)) \o RestoreMessages(Id, first, second))
    BY <1>5 DEF PublishRestore
  <2>2. Optional(put, Put(Id)) \o RestoreMessages(Id, first, second) \in Seq(Messages)
    BY <1>1, SentMessages
  <2> QED BY <1>2, <2>1, <2>2
<1> QED BY <1>3, <1>4, <1>5

(* Every purge on the connection follows a delete event.                   *)
LEMMA NextPurgesFollow == ASSUME Withdrawing, [Next]_vars PROVE PurgesFollow'
<1>0. TypeOK
  BY DEF Withdrawing, Typed
<1>1. ASSUME wire' = wire \/ wire' = <<>> PROVE PurgesFollow'
  <2>1. \A i \in 1..Len(wire') : wire'[i].op = "purge" => DeletedOnce(wire'[i].id)
    BY <1>1 DEF Withdrawing, PurgesFollow
  <2> QED BY <1>0, <2>1, DeletedOnceKept DEF PurgesFollow
<1>2. CASE Deliver
  <2>1. wire \in Seq(Messages) /\ wire # <<>> /\ wire' = Tail(wire)
    BY <1>0, <1>2 DEF TypeOK, Deliver
  <2>2. \A i \in 1..Len(wire') : i + 1 \in 1..Len(wire) /\ wire'[i] = wire[i + 1]
    BY <2>1
  <2>3. \A i \in 1..Len(wire') : wire'[i].op = "purge" => DeletedOnce(wire'[i].id)
    BY <2>2 DEF Withdrawing, PurgesFollow
  <2> QED BY <1>0, <2>3, DeletedOnceKept DEF PurgesFollow
<1>3. CASE PublishDelete
  <2>1. Id \in todo /\ Id \in Records /\ DeletedOnce(Id)
    <3>1. Id \in todo /\ Id \in Records
      BY <1>0, <1>3, IdInTodo DEF PublishDelete, TypeOK
    <3>2. at \in 1..Len(log) /\ Id \in log[at].ids /\ log[at].kind = "delete"
      BY <1>0, <1>3, <3>1 DEF PublishDelete, Withdrawing, Deleting, DeleteStages, Current, TypeOK
    <3> QED BY <3>1, <3>2 DEF DeletedOnce
  <2>2. PICK drop, purge \in BOOLEAN :
           Send(Optional(drop, Drop(Id)) \o Optional(purge, Purge(Id)))
    BY <1>3 DEF PublishDelete
  <2> DEFINE msgs == Optional(drop, Drop(Id)) \o Optional(purge, Purge(Id))
  <2>3. msgs \in Seq(Messages)
    BY <2>1, SentMessages
  <2>4. \A i \in 1..Len(msgs) : msgs[i].id = Id
    BY DEF Optional, Drop, Purge
  <2> HIDE DEF msgs
  <2>5. Send(msgs)
    BY <2>2 DEF msgs
  <2> QED BY <2>1, <2>3, <2>4, <2>5, SendFollow
<1>4. CASE PublishAbsent \/ PublishUpsert \/ PublishRestore
  BY <1>0, <1>4, UpsertSends, SendFollow
<1>5. CASE ~(Deliver \/ PublishDelete \/ PublishAbsent \/ PublishUpsert \/ PublishRestore)
  <2>1. wire' = wire \/ wire' = <<>>
    BY <1>5 DEF Next, Salesforce, DeleteRecords, ChangeRecords, UndeleteRecords, Emit,
       Run, Take, Save, Keepalive, Crash, Reconnect, HandleDelete, ConfirmDelete,
       RecordFailedPurge, QueueUnconfirmedDelete, FinishDelete, HandleUpsert, SkipForQuota,
       FetchFails, Fetch, AbsentPublished, ConfirmAbsent, QueueAbsent, FinishPublish,
       ConfirmRestore, outside, vars
  <2> QED BY <1>1, <2>1
<1> QED BY <1>2, <1>3, <1>4, <1>5

(* Tuples are withdrawn only from a record with a delete event behind the  *)
(* consumer.                                                               *)
THEOREM WithdrawalsFollowDeletes == Spec => WithdrawnOnlyByDelete
<1>1. Init => Withdrawing
  <2>1. ASSUME Init PROVE Deleting /\ PurgesFollow
    BY <2>1 DEF Init, Deleting, DeleteStages, PurgesFollow
  <2> QED BY <2>1, InitTyped DEF Withdrawing
<1>2. Withdrawing /\ [Next]_vars => Withdrawing'
  BY NextTyped, NextDeleting, NextPurgesFollow DEF Withdrawing
<1>3. ASSUME Withdrawing, [Next]_vars, NEW r \in Records, ~(fga[r] \subseteq fga'[r])
      PROVE  DeletedOnce(r)
  <2>0. TypeOK
    BY <1>3 DEF Withdrawing, Typed
  <2>1. Deliver
    BY <1>3 DEF Next, Salesforce, DeleteRecords, ChangeRecords, UndeleteRecords, Emit,
       Run, Take, Save, Keepalive, Crash, Reconnect, HandleDelete, PublishDelete,
       ConfirmDelete, RecordFailedPurge, QueueUnconfirmedDelete, FinishDelete,
       HandleUpsert, SkipForQuota, FetchFails, Fetch, PublishAbsent, AbsentPublished,
       ConfirmAbsent, QueueAbsent, PublishUpsert, PublishRestore, FinishPublish,
       ConfirmRestore, Send, outside, vars
  <2>2. Head(wire).op = "purge" /\ Head(wire).id = r
    BY <1>3, <2>0, <2>1 DEF Deliver, TypeOK
  <2>3. 1 \in 1..Len(wire) /\ Head(wire) = wire[1]
    BY <2>0, <2>1 DEF Deliver, TypeOK
  <2> QED BY <1>3, <2>2, <2>3 DEF Withdrawing, PurgesFollow
<1>4. Withdrawing /\ [Next]_vars
        => [\A r \in Records :
              ~(fga[r] \subseteq fga'[r]) =>
                  \E i \in 1..Len(log) : r \in log[i].ids /\ log[i].kind = "delete"]_vars
  BY <1>3 DEF DeletedOnce
<1> QED BY <1>1, <1>2, <1>4, PTL DEF Spec, WithdrawnOnlyByDelete

----------------------------------------------------------------------------
(***************************************************************************)
(* Removals: what is outside the query leaves the index or is named.       *)
(***************************************************************************)

Gone(r)    == sf[r] \in {"unqualified", "deleted"}
Named(r)   == <<"index", r>> \in repair \/ r \in logged
PutFree(r) == \A i \in 1..Len(wire) : wire[i] # Put(r)

(* What handling a removal must leave behind.                              *)
Out(r) == Named(r) \/ (r \notin index /\ PutFree(r))

(* Once the connection is drained, r is out of the index: after the last   *)
(* drop of r, or from now on, nothing puts it back.                        *)
Departing(r) ==
    \E i \in 0..Len(wire) :
        /\ IF i = 0 THEN r \notin index ELSE wire[i] = Drop(r)
        /\ \A j \in 1..Len(wire) : j > i => wire[j] # Put(r)

(* The ids of the current event whose removal is not settled yet.          *)
Owed ==
    CASE stage \in DeleteStages -> todo \union hold
      [] stage = "upsert" -> todo
      [] stage \in {"absent", "absentFlush", "absentMarker"} -> absent
      [] OTHER -> {}

(* Every event of r has been handled, as Handled says of purges.           *)
Through(r) == \/ Settled(r, saved)
              \/ Settled(r, at - 1)
              \/ Settled(r, at) /\ r \notin Owed

(* The ids whose drop was accepted and is to be confirmed by the flush.    *)
Dropped ==
    CASE stage = "flush" /\ ~failed -> {Id}
      [] stage = "absent" -> absent \ (todo \union hold)
      [] stage = "absentFlush" -> absent \ hold
      [] OTHER -> {}

Dropping == \A r \in Dropped : Departing(r)

Confirmed == stage = "absentMarker" =>
                 \A r \in absent \ hold : r \notin index /\ PutFree(r)

(* A record read as qualifying and gone since has an event ahead.          *)
FetchedStays ==
    \A r \in fetched : Gone(r) => ~Settled(r, saved) /\ ~Settled(r, at)

RemovalInv == \A r \in Records : Gone(r) /\ Through(r) => Out(r)

Reading == stage = "upsert" => todo \subseteq Current.ids

Removals == Dropping /\ Confirmed /\ FetchedStays /\ Reading /\ Publishing /\ RemovalInv

RInv == Typed /\ Removals

(* A drained connection leaves a leaving record out.                       *)
LEMMA LeavingDrained ==
  ASSUME NEW r, Departing(r), wire = <<>>
  PROVE  r \notin index /\ PutFree(r)
<1>1. Len(wire) = 0
  OBVIOUS
<1> QED BY <1>1 DEF Departing, PutFree

(* A leaving record is still leaving after the next message is received.   *)
LEMMA LeavingDeliver ==
  ASSUME TypeOK, Deliver, NEW r \in Records, Departing(r)
  PROVE  Departing(r)'
<1>1. /\ wire \in Seq(Messages) /\ wire # <<>> /\ wire' = Tail(wire)
      /\ Head(wire) = wire[1] /\ Len(wire) \in Nat \ {0}
      /\ Len(wire') = Len(wire) - 1
      /\ \A i \in 1..Len(wire') : wire'[i] = wire[i + 1]
  BY DEF TypeOK, Deliver
<1>2. PICK i \in 0..Len(wire) :
        /\ IF i = 0 THEN r \notin index ELSE wire[i] = Drop(r)
        /\ \A j \in 1..Len(wire) : j > i => wire[j] # Put(r)
  BY DEF Departing
<1>3. CASE i > 1
  <2>1. i - 1 \in 0..Len(wire') /\ i - 1 # 0 /\ wire'[i - 1] = Drop(r)
    BY <1>1, <1>2, <1>3
  <2>2. \A j \in 1..Len(wire') : j > i - 1 => wire'[j] # Put(r)
    BY <1>1, <1>2
  <2>3. Drop(r)' = Drop(r) /\ Put(r)' = Put(r)
    BY DEF Drop, Put
  <2> QED BY <2>1, <2>2, <2>3 DEF Departing
<1>4. CASE i \in {0, 1}
  <2>1. \A j \in 1..Len(wire') : wire'[j] # Put(r)
    BY <1>1, <1>2, <1>4
  <2>2. i = 0 => Head(wire) # Put(r)
    BY <1>1, <1>2
  <2>3. r \notin index'
    <3>1. Head(wire) \in Messages
      BY <1>1
    <3>2. CASE i = 0
      <4>1. r \notin index
        BY <1>2, <3>2
      <4>2. Head(wire).op = "put" => Head(wire).id # r
        BY <2>2, <3>1, <3>2 DEF Messages, Put
      <4> QED BY <4>1, <4>2 DEF Deliver
    <3>3. CASE i = 1
      <4>1. Head(wire) = Drop(r)
        BY <1>1, <1>2, <3>3
      <4> QED BY <4>1 DEF Deliver, Drop
    <3> QED BY <1>4, <3>2, <3>3
  <2>4. 0 \in 0..Len(wire') /\ Put(r)' = Put(r)
    BY <1>1 DEF Put
  <2> QED BY <2>1, <2>3, <2>4 DEF Departing
<1> QED BY <1>2, <1>3, <1>4

(* Sending keeps a leaving record leaving unless it puts it, and makes one *)
(* leaving if it drops it.                                                 *)
LEMMA LeavingSend ==
  ASSUME TypeOK, NEW msgs \in Seq(Messages), Send(msgs), NEW r \in Records,
         \A i \in 1..Len(msgs) : msgs[i] # Put(r),
         Departing(r) \/ \E i \in 1..Len(msgs) : msgs[i] = Drop(r)
  PROVE  Departing(r)'
<1>1. /\ wire \in Seq(Messages) /\ wire' = wire \o msgs /\ index' = index
      /\ Len(wire) \in Nat /\ Len(msgs) \in Nat
  BY DEF TypeOK, Send
<1>2. /\ Len(wire') = Len(wire) + Len(msgs)
      /\ \A i \in 1..Len(wire) : wire'[i] = wire[i]
      /\ \A i \in 1..Len(msgs) : wire'[Len(wire) + i] = msgs[i]
  BY <1>1
<1>3. \A j \in 1..Len(wire') : j > Len(wire) => wire'[j] # Put(r)
  <2> SUFFICES ASSUME NEW j \in 1..Len(wire'), j > Len(wire) PROVE wire'[j] # Put(r)
    OBVIOUS
  <2>1. j - Len(wire) \in 1..Len(msgs) /\ j = Len(wire) + (j - Len(wire))
    BY <1>1, <1>2
  <2> QED BY <1>2, <2>1
<1>4. Drop(r)' = Drop(r) /\ Put(r)' = Put(r)
  BY DEF Drop, Put
<1>5. CASE Departing(r)
  <2>1. PICK i \in 0..Len(wire) :
          /\ IF i = 0 THEN r \notin index ELSE wire[i] = Drop(r)
          /\ \A j \in 1..Len(wire) : j > i => wire[j] # Put(r)
    BY <1>5 DEF Departing
  <2>2. /\ i \in 0..Len(wire')
        /\ IF i = 0 THEN r \notin index' ELSE wire'[i] = Drop(r)
    BY <1>1, <1>2, <2>1
  <2>3. \A j \in 1..Len(wire') : j > i => wire'[j] # Put(r)
    BY <1>1, <1>2, <1>3, <2>1
  <2> QED BY <1>4, <2>2, <2>3 DEF Departing
<1>6. CASE \E i \in 1..Len(msgs) : msgs[i] = Drop(r)
  <2>1. PICK i \in 1..Len(msgs) : msgs[i] = Drop(r)
    BY <1>6
  <2>2. /\ Len(wire) + i \in 0..Len(wire') /\ Len(wire) + i # 0
        /\ wire'[Len(wire) + i] = Drop(r)
    BY <1>1, <1>2, <2>1
  <2>3. \A j \in 1..Len(wire') : j > Len(wire) + i => wire'[j] # Put(r)
    BY <1>1, <1>2, <1>3
  <2> QED BY <1>4, <2>2, <2>3 DEF Departing
<1> QED BY <1>5, <1>6

(* What is out stays out while messages are received.                      *)
LEMMA OutDeliver ==
  ASSUME TypeOK, Deliver, NEW r \in Records
  PROVE  /\ Out(r) => Out(r)'
         /\ r \notin index /\ PutFree(r) => (r \notin index /\ PutFree(r))'
<1>1. /\ wire \in Seq(Messages) /\ wire # <<>> /\ wire' = Tail(wire)
      /\ Head(wire) = wire[1] /\ 1 \in 1..Len(wire)
      /\ \A i \in 1..Len(wire') : i + 1 \in 1..Len(wire) /\ wire'[i] = wire[i + 1]
  BY DEF TypeOK, Deliver
<1>2. ASSUME r \notin index, PutFree(r) PROVE r \notin index' /\ PutFree(r)'
  <2>1. PutFree(r)'
    BY <1>1, <1>2 DEF PutFree, Put
  <2>2. Head(wire).op = "put" => Head(wire).id # r
    BY <1>1, <1>2 DEF PutFree, Put, Messages
  <2> QED BY <1>2, <2>1, <2>2 DEF Deliver
<1>3. Named(r)' <=> Named(r)
  BY DEF Named, Deliver, durable
<1> QED BY <1>2, <1>3 DEF Out

(* What is out stays out when nothing sent puts it back.                   *)
LEMMA OutSend ==
  ASSUME TypeOK, NEW msgs \in Seq(Messages), Send(msgs), UNCHANGED <<repair, logged>>,
         NEW r \in Records, Out(r),
         \A i \in 1..Len(msgs) : msgs[i] # Put(r)
  PROVE  Out(r)'
<1>1. ASSUME PutFree(r) PROVE PutFree(r)'
  <2>1. wire \in Seq(Messages) /\ wire' = wire \o msgs
    BY DEF TypeOK, Send
  <2>2. \A i \in 1..Len(wire') :
            \/ i \in 1..Len(wire) /\ wire'[i] = wire[i]
            \/ i - Len(wire) \in 1..Len(msgs) /\ wire'[i] = msgs[i - Len(wire)]
    BY <2>1
  <2> QED BY <1>1, <2>2 DEF PutFree, Put
<1> QED BY <1>1 DEF Out, Named, Send

(* What is out stays out when the connection is left alone or lost.        *)
LEMMA OutKept ==
  ASSUME NEW r, Out(r), repair \subseteq repair', logged \subseteq logged',
         index' = index, wire' = wire \/ wire' = <<>>
  PROVE  Out(r)'
<1>1. PutFree(r) => PutFree(r)'
  BY DEF PutFree, Put
<1> QED BY <1>1 DEF Out, Named

(* A step of the current event keeps the removal invariant when what is    *)
(* out stays out and what is no longer owed has come out.                  *)
LEMMA RemovalStep ==
  ASSUME RemovalInv, UNCHANGED <<sf, log, saved, at>>,
         \A r \in Records : Gone(r) /\ Through(r) /\ Out(r) => Out(r)',
         \A r \in Records : Gone(r) /\ r \in Owed /\ r \notin Owed' => Out(r)'
  PROVE  RemovalInv'
  BY DEF RemovalInv, Through, Settled, Gone

(* A change in Salesforce: its event is ahead of everything handled.       *)
LEMMA SalesforceRemovals == ASSUME RInv, Salesforce PROVE Removals'
<1> SUFFICES ASSUME NEW ids \in Batches, NEW kind \in Kinds, Emit(kind, ids),
                    \A r \in Records \ ids : sf'[r] = sf[r]
             PROVE  Removals'
  BY DEF Salesforce, DeleteRecords, ChangeRecords, UndeleteRecords, Kinds
<1>0. TypeOK
  BY DEF RInv, Typed
<1>1. /\ UNCHANGED <<saved, at, repair, logged, index, wire, stage, todo, hold, fetched,
                     absent, failed>>
      /\ Id' = Id
  BY DEF Emit, durable, outside, volatile, Id
<1>2. /\ saved \in Int /\ saved <= Len(log)
      /\ at \in Int /\ at <= Len(log)
      /\ at - 1 \in Int /\ at - 1 <= Len(log)
  BY <1>0 DEF TypeOK
<1>3. \A r \in Records : r \in ids =>
         ~Settled(r, saved)' /\ ~Settled(r, at)' /\ ~Settled(r, at - 1)'
  BY <1>0, <1>1, <1>2, EmitSettled DEF Settled
<1>4. \A r \in Records : r \notin ids =>
         /\ Settled(r, saved)' <=> Settled(r, saved)
         /\ Settled(r, at)' <=> Settled(r, at)
         /\ Settled(r, at - 1)' <=> Settled(r, at - 1)
         /\ Gone(r)' <=> Gone(r)
  BY <1>0, <1>1, <1>2, EmitSettled DEF Settled, Gone
<1>5. FetchedStays'
  <2>1. fetched \subseteq Records
    BY <1>0 DEF TypeOK
  <2> QED BY <1>1, <1>3, <1>4, <2>1 DEF RInv, Removals, FetchedStays
<1>6. \A r : /\ Out(r)' <=> Out(r)
             /\ Departing(r)' <=> Departing(r)
             /\ PutFree(r)' <=> PutFree(r)
  BY <1>1 DEF Out, Named, PutFree, Departing, Put, Drop
<1>7. Dropping' /\ Confirmed' /\ Publishing'
  <2>1. Dropped' = Dropped
    BY <1>1 DEF Dropped
  <2> QED BY <1>1, <1>6, <2>1 DEF RInv, Removals, Dropping, Confirmed, Publishing
<1>8. RemovalInv'
  <2>1. Owed' = Owed
    BY <1>1 DEF Owed
  <2> QED BY <1>1, <1>3, <1>4, <1>6, <2>1 DEF RInv, Removals, RemovalInv, Through
<1>9. Reading'
  <2> SUFFICES ASSUME stage = "upsert" PROVE log'[at] = log[at]
    BY <1>1 DEF RInv, Removals, Reading, Current
  <2>1. at \in 1..Len(log)
    BY <1>0 DEF TypeOK
  <2> QED BY <1>0, <2>1, AppendProperties DEF TypeOK, Emit
<1> QED BY <1>5, <1>7, <1>8, <1>9 DEF Removals

(* The ids a flush is to confirm are records.                              *)
LEMMA DroppedRecords == ASSUME Typed PROVE Dropped \subseteq Records
<1>1. stage = "flush" => Id \in Records
  BY IdInTodo DEF Typed, TypeOK, Looping
<1> QED BY <1>1 DEF Dropped, Typed, TypeOK

(* The broker receives a message.                                          *)
LEMMA DeliverRemovals == ASSUME RInv, Deliver PROVE Removals'
<1>0. TypeOK
  BY DEF RInv, Typed
<1>1. /\ UNCHANGED <<sf, log, saved, at, repair, logged, stage, todo, hold, fetched,
                     absent, failed>>
      /\ Id' = Id
  BY DEF Deliver, external, durable, volatile, Id
<1>2. FetchedStays' /\ Reading' /\ Publishing'
  BY <1>1 DEF RInv, Removals, FetchedStays, Reading, Publishing, Settled, Gone, Current
<1>3. Dropping'
  <2>1. Dropped' = Dropped
    BY <1>1 DEF Dropped
  <2> QED BY <1>0, <2>1, DroppedRecords, LeavingDeliver DEF RInv, Removals, Dropping
<1>4. Confirmed'
  <2>1. absent \subseteq Records
    BY <1>0 DEF TypeOK
  <2> QED BY <1>0, <1>1, <2>1, OutDeliver DEF RInv, Removals, Confirmed
<1>5. RemovalInv'
  <2>1. Owed' = Owed
    BY <1>1 DEF Owed
  <2> QED BY <1>0, <1>1, <2>1, OutDeliver, RemovalStep DEF RInv, Removals
<1> QED BY <1>2, <1>3, <1>4, <1>5 DEF Removals

(* Taking, committing and losing the place in the stream.                  *)
LEMMA CursorRemovals ==
  ASSUME RInv, Take \/ Save \/ Keepalive \/ Crash \/ Reconnect
  PROVE  Removals'
<1>0. TypeOK
  BY DEF RInv, Typed
<1>1. /\ UNCHANGED <<sf, log, repair, logged, index>>
      /\ wire' = wire \/ wire' = <<>>
  BY DEF Take, Save, Keepalive, Crash, Reconnect, external, durable, outside
<1>2. \A r : Out(r) => Out(r)'
  BY <1>1, OutKept
<1>3. stage' \in {"idle", "delete", "upsert"}
  BY DEF Take, Save, Keepalive, Crash, Reconnect, Start, Goto, volatile
<1>4. Publishing' /\ Confirmed' /\ Dropping'
  BY <1>3 DEF Publishing, Confirmed, Dropping, Dropped
<1>5. /\ saved \in Int /\ at \in Int /\ at - 1 \in Int /\ at + 1 \in Int
      /\ Len(log) \in Nat
  BY <1>0 DEF TypeOK
<1>6. \A r : Gone(r)' <=> Gone(r)
  BY <1>1 DEF Gone
<1>7. CASE Take
  <2>1. FetchedStays'
    BY <1>7 DEF Take, Start, FetchedStays
  <2>2. /\ saved' = saved /\ at' = at + 1 /\ at + 1 \in 1..Len(log)
        /\ Owed = {} /\ Owed' = log[at + 1].ids
    BY <1>0, <1>7 DEF Take, Start, durable, TypeOK, Owed, DeleteStages
  <2>3. ASSUME NEW r \in Records, Through(r)'
        PROVE  Through(r)
    <3>1. Settled(r, saved) \/ Settled(r, at) \/ (Settled(r, at + 1) /\ r \notin log[at + 1].ids)
      <4>1. (at + 1) - 1 = at
        BY <1>5
      <4> QED BY <1>1, <2>2, <2>3, <4>1 DEF Through, Settled
    <3>2. ASSUME Settled(r, at + 1), r \notin log[at + 1].ids PROVE Settled(r, at)
      <4>1. \A i \in 1..Len(log) : r \in log[i].ids => i <= at + 1 /\ i # at + 1
        BY <3>2 DEF Settled
      <4> QED BY <1>5, <4>1 DEF Settled
    <3> QED BY <2>2, <3>1, <3>2 DEF Through
  <2>4. RemovalInv'
    BY <1>2, <1>6, <2>3 DEF RInv, Removals, RemovalInv
  <2>5. Reading'
    BY <1>1, <1>7, <2>2 DEF Take, Start, Reading, Current
  <2> QED BY <1>4, <2>1, <2>4, <2>5 DEF Removals
<1>8. CASE Save \/ Keepalive
  <2>1. /\ at' = at
        /\ saved' = at \/ saved' = saved
        /\ fetched' \subseteq fetched
        /\ stage \in {"save", "idle"} /\ stage' = "idle"
    BY <1>8 DEF Save, Keepalive, Forget, Goto, volatile
  <2>2. FetchedStays'
    BY <1>1, <1>6, <2>1 DEF RInv, Removals, FetchedStays, Settled
  <2>3. Owed = {} /\ Owed' = {}
    BY <2>1 DEF Owed, DeleteStages
  <2>4. \A r : Through(r)' => Through(r)
    BY <1>1, <2>1, <2>3 DEF Through, Settled
  <2>5. RemovalInv'
    BY <1>2, <1>6, <2>4 DEF RInv, Removals, RemovalInv
  <2> QED BY <1>4, <2>1, <2>2, <2>5 DEF Removals, Reading
<1>9. CASE Crash \/ Reconnect
  <2>1. /\ saved' = saved
        /\ at' \in Int
        /\ at' <= at \/ at' = saved
        /\ fetched' \subseteq fetched
        /\ stage' = "idle"
    BY <1>0, <1>5, <1>9 DEF Crash, Reconnect, Forget, Goto, durable, TypeOK
  <2>2. Owed' = {}
    BY <2>1 DEF Owed, DeleteStages
  <2>3. \A r : Settled(r, at)' => Settled(r, at) \/ Settled(r, saved)
    BY <1>0, <1>1, <1>5, <2>1 DEF Settled, TypeOK
  <2>4. \A r : Settled(r, saved)' => Settled(r, saved)
    BY <1>1, <2>1 DEF Settled
  <2>5. FetchedStays'
    BY <1>6, <2>1, <2>3, <2>4 DEF RInv, Removals, FetchedStays
  <2>6. ASSUME NEW r \in Records, Through(r)' PROVE Through(r)
    <3>1. Settled(r, at - 1)' => Settled(r, at)'
      <4>1. \A i, n \in Int : i <= n - 1 => i <= n
        OBVIOUS
      <4>2. \A i \in 1..Len(log) : i <= at' - 1 => i <= at'
        <5>1. at' \in Int BY <2>1
        <5>2. \A i \in 1..Len(log) : i \in Int BY <1>5
        <5> QED BY <4>1, <5>1, <5>2
      <4> QED BY <1>1, <4>2 DEF Settled
    <3>2. CASE Crash
      <4>1. Settled(r, at)' => Settled(r, saved)
        BY <1>1, <3>2 DEF Crash, Settled
      <4> QED BY <2>6, <2>4, <3>1, <4>1 DEF Through
    <3>3. CASE Reconnect
      <4>1. Owed = {}
        BY <3>3 DEF Reconnect, Owed, DeleteStages
      <4> QED BY <2>3, <2>4, <2>6, <3>1, <4>1 DEF Through
    <3> QED BY <1>9, <3>2, <3>3
  <2>7. RemovalInv'
    BY <1>2, <1>6, <2>6 DEF RInv, Removals, RemovalInv
  <2> QED BY <1>4, <2>1, <2>5, <2>7 DEF Removals, Reading
<1> QED BY <1>7, <1>8, <1>9

(* The delete handler: a drop it sent is confirmed, or the id is named.    *)
LEMMA DeleteRemovals == ASSUME RInv, HandleDelete PROVE Removals'
<1>0. TypeOK /\ Looping
  BY DEF RInv, Typed
<1>1. UNCHANGED <<sf, log, saved, at>> /\ (fetched' = fetched \/ fetched' = {})
  BY DEF HandleDelete, PublishDelete, ConfirmDelete, RecordFailedPurge,
     QueueUnconfirmedDelete, FinishDelete, Start, external, durable
<1>2. FetchedStays'
  BY <1>1 DEF RInv, Removals, FetchedStays, Settled, Gone
<1>3. stage' \in DeleteStages \union {"save"}
  BY DEF HandleDelete, PublishDelete, ConfirmDelete, RecordFailedPurge,
     QueueUnconfirmedDelete, FinishDelete, Start, Goto, DeleteStages
<1>4. Publishing' /\ Confirmed' /\ Reading'
  BY <1>3 DEF Publishing, Confirmed, Reading, DeleteStages
<1>5. CASE PublishDelete
  <2>1. Id \in Records /\ Id' = Id
    BY <1>0, <1>5, IdInTodo DEF PublishDelete, TypeOK, Id
  <2>2. PICK drop, purge \in BOOLEAN :
           /\ Send(Optional(drop, Drop(Id)) \o Optional(purge, Purge(Id)))
           /\ failed' = ~drop
           /\ Goto(IF purge THEN "flush" ELSE "purgeMarker")
    BY <1>5 DEF PublishDelete
  <2> DEFINE msgs == Optional(drop, Drop(Id)) \o Optional(purge, Purge(Id))
  <2>3. msgs \in Seq(Messages)
    BY <2>1, SentMessages
  <2>4. /\ \A i \in 1..Len(msgs) : msgs[i].op # "put"
        /\ drop => 1 \in 1..Len(msgs) /\ msgs[1] = Drop(Id)
    BY DEF Optional, Drop, Purge
  <2>5. Send(msgs)
    BY <2>2
  <2> HIDE DEF msgs
  <2>6. \A r, i : i \in 1..Len(msgs) => msgs[i] # Put(r)
    BY <2>4 DEF Put
  <2>7. Dropping'
    <3> SUFFICES ASSUME NEW r \in Dropped' PROVE Departing(r)'
      BY DEF Dropping
    <3>1. r = Id /\ drop
      BY <1>3, <2>1, <2>2 DEF Dropped, DeleteStages
    <3> QED BY <1>0, <2>1, <2>3, <2>4, <2>5, <2>6, <3>1, LeavingSend
  <2>8. \A r \in Records : Out(r) => Out(r)'
    <3>1. UNCHANGED <<repair, logged>>
      BY <1>5 DEF PublishDelete, durable
    <3> QED BY <1>0, <2>3, <2>5, <2>6, <3>1, OutSend
  <2>9. Owed' = Owed
    BY <1>5, <2>2 DEF PublishDelete, Goto, Owed, DeleteStages
  <2>10. RemovalInv'
    BY <1>1, <2>8, <2>9, RemovalStep DEF RInv, Removals
  <2> QED BY <1>2, <1>4, <2>7, <2>10 DEF Removals
<1>6. CASE ConfirmDelete
  <2>1. /\ UNCHANGED <<repair, logged, index, wire, hold, failed>>
        /\ stage = "flush" /\ stage' \in {"delete", "purgeMarker", "indexMarker"}
    BY <1>6 DEF ConfirmDelete, Goto, durable, outside
  <2>2. \A r : Out(r) => Out(r)'
    BY <2>1, OutKept
  <2>3. Owed = todo \union hold /\ Owed' = todo' \union hold
    BY <2>1 DEF Owed, DeleteStages
  <2>4. \/ todo' = todo
        \/ todo' = todo \ {Id} /\ wire = <<>> /\ ~failed
    BY <1>6 DEF ConfirmDelete
  <2>5. wire = <<>> /\ ~failed => Out(Id)
    <3> SUFFICES ASSUME wire = <<>>, ~failed PROVE Out(Id)
      OBVIOUS
    <3>1. Departing(Id)
      BY <2>1 DEF RInv, Removals, Dropping, Dropped
    <3> QED BY <3>1, LeavingDrained DEF Out
  <2>6. RemovalInv'
    BY <1>1, <2>2, <2>3, <2>4, <2>5, RemovalStep DEF RInv, Removals
  <2> QED BY <1>2, <1>4, <2>1, <2>6 DEF Removals, Dropping, Dropped
<1>7. CASE RecordFailedPurge
  <2>1. /\ UNCHANGED <<index, wire, todo, logged>>
        /\ repair \subseteq repair' /\ hold \subseteq hold'
        /\ stage = "purgeMarker" /\ stage' = "indexMarker"
    BY <1>7 DEF RecordFailedPurge, Goto, outside
  <2>2. \A r : Out(r) => Out(r)'
    BY <2>1, OutKept
  <2>3. Owed \subseteq Owed'
    BY <2>1 DEF Owed, DeleteStages
  <2>4. RemovalInv'
    BY <1>1, <2>2, <2>3, RemovalStep DEF RInv, Removals
  <2> QED BY <1>2, <1>4, <2>1, <2>4 DEF Removals, Dropping, Dropped
<1>8. CASE QueueUnconfirmedDelete
  <2>1. PICK ok \in SUBSET {Id} : QueueForRepair({Id}, ok)
    BY <1>8 DEF QueueUnconfirmedDelete
  <2>2. /\ UNCHANGED <<index, wire, hold>>
        /\ repair \subseteq repair' /\ logged \subseteq logged'
        /\ <<"index", Id>> \in repair' \/ Id \in logged'
        /\ stage = "indexMarker" /\ stage' = "delete"
        /\ todo' = todo \ {Id}
    BY <1>8, <2>1 DEF QueueUnconfirmedDelete, QueueForRepair, Goto, outside
  <2>3. \A r : Out(r) => Out(r)'
    BY <2>2, OutKept
  <2>4. \A r : r \in Owed /\ r \notin Owed' => Out(r)'
    BY <2>2 DEF Owed, DeleteStages, Out, Named
  <2>5. RemovalInv'
    BY <1>1, <2>3, <2>4, RemovalStep DEF RInv, Removals
  <2> QED BY <1>2, <1>4, <2>2, <2>5 DEF Removals, Dropping, Dropped
<1>9. CASE FinishDelete
  <2>1. /\ UNCHANGED <<repair, logged, index, wire>>
        /\ stage = "delete" /\ todo = {}
        /\ \/ hold = {} /\ stage' = "save"
           \/ stage' = "delete" /\ todo' = hold /\ hold' = {}
    BY <1>9 DEF FinishDelete, Start, Goto, durable, outside
  <2>2. \A r : Out(r) => Out(r)'
    BY <2>1, OutKept
  <2>3. Owed' = Owed
    BY <2>1 DEF Owed, DeleteStages
  <2>4. RemovalInv'
    BY <1>1, <2>2, <2>3, RemovalStep DEF RInv, Removals
  <2> QED BY <1>2, <1>4, <2>1, <2>4 DEF Removals, Dropping, Dropped
<1> QED BY <1>5, <1>6, <1>7, <1>8, <1>9 DEF HandleDelete

(* The upsert handler: what the read did not return is dropped and         *)
(* confirmed, or named; what a step skips is named or read again.          *)
LEMMA UpsertRemovals == ASSUME RInv, HandleUpsert PROVE Removals'
<1>0. TypeOK
  BY DEF RInv, Typed
<1>1. /\ UNCHANGED <<sf, log, saved, at, index>>
      /\ repair \subseteq repair' /\ logged \subseteq logged'
  BY DEF HandleUpsert, SkipForQuota, FetchFails, Fetch, PublishAbsent, AbsentPublished,
         ConfirmAbsent, QueueAbsent, PublishUpsert, PublishRestore, FinishPublish,
         ConfirmRestore, QueueForRepair, Send, external, durable, outside
<1>2. FetchedStays'
  <2>1. \/ fetched' \subseteq fetched
        \/ \A r \in fetched' : sf[r] = "qualifying"
    BY DEF HandleUpsert, SkipForQuota, FetchFails, Fetch, PublishAbsent, AbsentPublished,
           ConfirmAbsent, QueueAbsent, PublishUpsert, PublishRestore, FinishPublish,
           ConfirmRestore, RetryOrSkip, Start
  <2> QED BY <1>1, <2>1 DEF RInv, Removals, FetchedStays, Settled, Gone
<1>3. Publishing'
  <2> SUFFICES ASSUME stage' = "publish" PROVE todo' \subseteq fetched'
    BY DEF Publishing
  <2>1. QueueAbsent \/ PublishUpsert \/ PublishRestore
    BY DEF HandleUpsert, SkipForQuota, FetchFails, Fetch, PublishAbsent, AbsentPublished,
           ConfirmAbsent, QueueAbsent, FinishPublish, ConfirmRestore, RetryOrSkip, Start, Goto
  <2> QED BY <2>1 DEF QueueAbsent, PublishUpsert, PublishRestore, RInv, Removals, Publishing
<1>4. Reading'
  <2> SUFFICES ASSUME stage' = "upsert" PROVE todo' = Current.ids /\ Current' = Current
    BY DEF Reading
  <2> QED BY <1>1 DEF HandleUpsert, SkipForQuota, FetchFails, Fetch, PublishAbsent,
         AbsentPublished, ConfirmAbsent, QueueAbsent, PublishUpsert, PublishRestore,
         FinishPublish, ConfirmRestore, RetryOrSkip, Start, Goto, Current
<1>5. ASSUME UNCHANGED wire PROVE \A r : Out(r) => Out(r)'
  BY <1>1, <1>5, OutKept
<1>6. CASE SkipForQuota \/ FetchFails \/ Fetch
  <2>1. /\ stage = "upsert" /\ wire' = wire
        /\ stage' \in {"upsert", "save", "absent"}
        /\ stage' = "absent" => todo' = absent'
    BY <1>6 DEF SkipForQuota, FetchFails, Fetch, RetryOrSkip, Start, Goto, outside
  <2>2. Dropping' /\ Confirmed'
    BY <2>1 DEF Dropping, Dropped, Confirmed
  <2>3. \A r \in Records : Gone(r) /\ r \in Owed /\ r \notin Owed' => Out(r)'
    <3> SUFFICES ASSUME NEW r \in Records, Gone(r), r \in todo, r \notin Owed'
                 PROVE  Out(r)'
      BY <2>1 DEF Owed, DeleteStages
    <3>1. CASE Fetch
      <4>1. r \in absent' /\ Owed' = absent'
        BY <3>1 DEF Fetch, Goto, Gone, Owed, DeleteStages
      <4> QED BY <4>1
    <3>2. CASE (SkipForQuota \/ FetchFails) /\ ~Restoring
      <4>1. \E ok : QueueForRepair(todo, ok)
        BY <3>2 DEF SkipForQuota, FetchFails
      <4> QED BY <4>1 DEF QueueForRepair, Out, Named
    <3>3. CASE (SkipForQuota \/ FetchFails) /\ Restoring
      <4>1. Owed' = Current.ids
        BY <3>3 DEF SkipForQuota, FetchFails, RetryOrSkip, Start, Owed, DeleteStages
      <4> QED BY <2>1, <4>1 DEF RInv, Removals, Reading
    <3> QED BY <1>6, <3>1, <3>2, <3>3
  <2>4. RemovalInv'
    BY <1>1, <1>5, <2>1, <2>3, RemovalStep DEF RInv, Removals
  <2> QED BY <1>2, <1>3, <1>4, <2>2, <2>4 DEF Removals
<1>7. CASE PublishAbsent
  <2>1. Id \in Records
    BY <1>0, <1>7, IdInTodo DEF PublishAbsent, TypeOK
  <2>2. PICK ok \in BOOLEAN :
           /\ Send(Optional(ok, Drop(Id)))
           /\ hold' = IF ok THEN hold ELSE hold \union {Id}
    BY <1>7 DEF PublishAbsent
  <2> DEFINE msgs == Optional(ok, Drop(Id))
  <2>3. msgs \in Seq(Messages)
    BY <2>1, SentMessages
  <2>4. /\ \A r, i : i \in 1..Len(msgs) => msgs[i] # Put(r)
        /\ ok => 1 \in 1..Len(msgs) /\ msgs[1] = Drop(Id)
    BY DEF Optional, Drop, Put
  <2>5. Send(msgs)
    BY <2>2
  <2> HIDE DEF msgs
  <2>6. /\ stage = "absent" /\ stage' = "absent"
        /\ todo' = todo \ {Id} /\ absent' = absent
        /\ UNCHANGED <<repair, logged>>
    BY <1>7 DEF PublishAbsent, durable
  <2>7. Dropping'
    <3> SUFFICES ASSUME NEW r \in Dropped' PROVE Departing(r)'
      BY DEF Dropping
    <3>1. r \in absent /\ r \in Records /\ r \notin hold' /\ r \notin todo \ {Id}
      BY <1>0, <2>6 DEF Dropped, TypeOK
    <3>2. CASE r \in todo
      <4>1. r = Id /\ ok
        BY <2>2, <3>1, <3>2
      <4> QED BY <1>0, <2>1, <2>3, <2>4, <2>5, <4>1, LeavingSend
    <3>3. CASE r \notin todo
      <4>1. Departing(r)
        BY <2>2, <2>6, <3>1, <3>3 DEF RInv, Removals, Dropping, Dropped
      <4> QED BY <1>0, <2>3, <2>4, <2>5, <3>1, <4>1, LeavingSend
    <3> QED BY <3>2, <3>3
  <2>8. \A r \in Records : Out(r) => Out(r)'
    BY <1>0, <2>3, <2>4, <2>5, <2>6, OutSend
  <2>9. Owed' = Owed
    BY <2>6 DEF Owed, DeleteStages
  <2>10. RemovalInv'
    BY <1>1, <2>8, <2>9, RemovalStep DEF RInv, Removals
  <2> QED BY <1>2, <1>3, <1>4, <2>6, <2>7, <2>10 DEF Removals, Confirmed
<1>8. CASE AbsentPublished \/ ConfirmAbsent
  <2>1. /\ wire' = wire /\ absent' = absent /\ todo' = todo
        /\ stage \in {"absent", "absentFlush"} /\ stage' \in {"absentFlush", "absentMarker"}
    BY <1>8 DEF AbsentPublished, ConfirmAbsent, Goto, outside
  <2>2. \A r : /\ Departing(r) => Departing(r)'
               /\ r \notin index /\ PutFree(r) => (r \notin index /\ PutFree(r))'
    BY <1>1, <2>1 DEF Departing, PutFree, Put, Drop
  <2>3. CASE AbsentPublished
    <3>1. /\ stage = "absent" /\ todo = {} /\ hold' = hold
          /\ stage' = IF absent # hold THEN "absentFlush" ELSE "absentMarker"
      BY <2>3 DEF AbsentPublished, Goto
    <3>2. Dropping'
      BY <2>1, <2>2, <3>1 DEF RInv, Removals, Dropping, Dropped
    <3>3. Confirmed'
      BY <2>1, <3>1 DEF Confirmed
    <3> QED BY <3>2, <3>3, <1>1, <1>2, <1>3, <1>4, <1>5, <2>1, RemovalStep
            DEF RInv, Removals, Owed, DeleteStages
  <2>4. CASE ConfirmAbsent
    <3>1. /\ stage = "absentFlush" /\ stage' = "absentMarker"
          /\ hold' = absent \/ (hold' = hold /\ wire = <<>>)
      BY <2>4 DEF ConfirmAbsent, Goto
    <3>2. Dropping'
      BY <3>1 DEF Dropping, Dropped
    <3>3. Confirmed'
      <4> SUFFICES ASSUME NEW r \in absent, r \notin hold'
                   PROVE  (r \notin index /\ PutFree(r))'
        BY <2>1 DEF Confirmed
      <4>1. hold' = hold /\ wire = <<>>
        BY <3>1
      <4>2. Departing(r)
        BY <3>1, <4>1 DEF RInv, Removals, Dropping, Dropped
      <4> QED BY <2>2, <4>1, <4>2, LeavingDrained
    <3> QED BY <3>2, <3>3, <1>1, <1>2, <1>3, <1>4, <1>5, <2>1, RemovalStep
            DEF RInv, Removals, Owed, DeleteStages
  <2> QED BY <1>8, <2>3, <2>4
<1>9. CASE QueueAbsent
  <2>1. PICK ok : QueueForRepair(hold, ok)
    BY <1>9 DEF QueueAbsent
  <2>2. /\ wire' = wire /\ stage = "absentMarker" /\ stage' = "publish"
        /\ \A r \in hold : Named(r)'
    BY <1>9, <2>1 DEF QueueAbsent, QueueForRepair, Named, Goto, outside
  <2>3. Dropping' /\ Confirmed'
    BY <2>2 DEF Dropping, Dropped, Confirmed
  <2>4. \A r : r \in Owed => Out(r)'
    <3> SUFFICES ASSUME NEW r \in absent PROVE Out(r)'
      BY <2>2 DEF Owed, DeleteStages
    <3>1. CASE r \in hold
      BY <2>2, <3>1 DEF Out
    <3>2. CASE r \notin hold
      <4>1. Out(r)
        BY <2>2, <3>2 DEF RInv, Removals, Confirmed, Out
      <4> QED BY <1>5, <2>2, <4>1
    <3> QED BY <3>1, <3>2
  <2>5. RemovalInv'
    BY <1>1, <1>5, <2>2, <2>4, RemovalStep DEF RInv, Removals
  <2> QED BY <1>2, <1>3, <1>4, <2>3, <2>5 DEF Removals
<1>10. CASE PublishUpsert \/ PublishRestore
  <2>1. /\ Id \in Records /\ Id \in fetched
        /\ stage = "publish" /\ stage' = "publish"
        /\ UNCHANGED <<repair, logged>>
    BY <1>0, <1>10, IdInTodo DEF PublishUpsert, PublishRestore, TypeOK, RInv, Removals,
       Publishing, durable
  <2>2. \E msgs \in Seq(Messages) : Send(msgs) /\ About(msgs, Id)
    <3>1. CASE PublishUpsert
      <4>1. PICK put, grant \in BOOLEAN :
               Send(Optional(put, Put(Id)) \o Optional(grant, Grant(Id, {"team"})))
        BY <3>1 DEF PublishUpsert
      <4>2. Optional(put, Put(Id)) \o Optional(grant, Grant(Id, {"team"})) \in Seq(Messages)
        BY <2>1, SentMessages
      <4> QED BY <2>1, <4>1, <4>2, AboutOneRecord
    <3>2. CASE PublishRestore
      <4>1. PICK put, first, second \in BOOLEAN :
               Send(Optional(put, Put(Id)) \o RestoreMessages(Id, first, second))
        BY <3>2 DEF PublishRestore
      <4>2. Optional(put, Put(Id)) \o RestoreMessages(Id, first, second) \in Seq(Messages)
        BY <2>1, SentMessages
      <4> QED BY <2>1, <4>1, <4>2, AboutOneRecord
    <3> QED BY <1>10, <3>1, <3>2
  <2>3. PICK msgs \in Seq(Messages) : Send(msgs) /\ About(msgs, Id)
    BY <2>2
  <2>4. ASSUME NEW r \in Records, Gone(r), Through(r), Out(r) PROVE Out(r)'
    <3>1. r # Id
      <4>1. \A n \in Int : n <= at /\ ~Settled(Id, at) => ~Settled(Id, n)
        BY <1>0, SettledLater DEF TypeOK
      <4>2. at - 1 \in Int /\ at - 1 <= at
        BY <1>0 DEF TypeOK
      <4>3. Gone(Id) => ~Through(Id)
        BY <2>1, <4>1, <4>2 DEF RInv, Removals, FetchedStays, Through
      <4> QED BY <2>4, <4>3
    <3>2. \A i \in 1..Len(msgs) : msgs[i] # Put(r)
      BY <2>3, <3>1 DEF About, Put
    <3> QED BY <1>0, <2>1, <2>3, <2>4, <3>2, OutSend
  <2>5. Owed = {} /\ Owed' = {}
    BY <2>1 DEF Owed, DeleteStages
  <2>6. RemovalInv'
    BY <1>1, <2>4, <2>5, RemovalStep DEF RInv, Removals
  <2> QED BY <1>2, <1>3, <1>4, <2>1, <2>6 DEF Removals, Dropping, Dropped, Confirmed
<1>11. CASE FinishPublish \/ ConfirmRestore
  <2>1. /\ wire' = wire
        /\ stage \in {"publish", "restoreFlush"} /\ stage' \in {"upsert", "restoreFlush", "save"}
    BY <1>11 DEF FinishPublish, ConfirmRestore, Start, Goto, outside
  <2>2. Owed = {}
    BY <2>1 DEF Owed, DeleteStages
  <2>3. RemovalInv'
    BY <1>1, <1>5, <2>1, <2>2, RemovalStep DEF RInv, Removals
  <2> QED BY <1>2, <1>3, <1>4, <2>1, <2>3 DEF Removals, Dropping, Dropped, Confirmed
<1> QED BY <1>6, <1>7, <1>8, <1>9, <1>10, <1>11 DEF HandleUpsert

(* Every step keeps the removal invariant.                                 *)
LEMMA NextRemovals == ASSUME RInv, [Next]_vars PROVE Removals'
<1>1. CASE Next
  BY <1>1, SalesforceRemovals, DeliverRemovals, CursorRemovals, DeleteRemovals,
     UpsertRemovals DEF Next, Run
<1>2. CASE UNCHANGED vars
  BY <1>2 DEF vars, external, durable, outside, volatile, RInv, Removals, Dropping, Dropped,
     Confirmed, FetchedStays, Reading, Current, Publishing, RemovalInv, Through, Settled, Owed,
     Gone, Out, Named, PutFree, Departing, Id, Put, Drop
<1> QED BY <1>1, <1>2

(* A record outside the query, whose events are all behind the committed   *)
(* cursor, has left the search index or is named for repair.               *)
THEOREM RemovalsAreQueued == Spec => []RemovalQueued
<1>1. Init => RInv
  <2>1. ASSUME Init PROVE Removals
    BY <2>1 DEF Init, Removals, Dropping, Dropped, Confirmed, FetchedStays, Reading,
       Publishing, RemovalInv, Gone
  <2> QED BY <2>1, InitTyped DEF RInv
<1>2. RInv /\ [Next]_vars => RInv'
  BY NextTyped, NextRemovals DEF RInv
<1>3. RInv => RemovalQueued
  BY DEF RInv, Typed, TypeOK, Removals, RemovalInv, Through, Gone, Out, Named, RemovalQueued
<1> QED BY <1>1, <1>2, <1>3, PTL DEF Spec

----------------------------------------------------------------------------
(***************************************************************************)
(* Restores: what a restore rebuilds is whole once the cursor passed it.   *)
(***************************************************************************)

(* No purge of r is on the connection.                                     *)
PurgeFree(r) == \A k \in 1..Len(wire) : wire[k] # Purge(r)

(* Once the connection is drained r has the tuples of group g: after the   *)
(* last grant of it, or from now on, nothing withdraws them.               *)
Granted(r, g) ==
    \E k \in 0..Len(wire) :
        /\ IF k = 0 THEN g \in fga[r]
                    ELSE wire[k].op = "grant" /\ wire[k].id = r /\ g \in wire[k].rels
        /\ \A j \in 1..Len(wire) : j > k => wire[j] # Purge(r)

(* All tuples of r are there, and none is about to go.                     *)
Rebuilt(r) == fga[r] = Groups /\ PurgeFree(r)

(* Event i is the last one of r, and restored it.                          *)
Restored(r, i) == /\ i \in 1..Len(log)
                  /\ r \in log[i].ids
                  /\ log[i].kind = "restore"
                  /\ Settled(r, i)
                  /\ sf[r] = "qualifying"

(* The consumer is through with event i.                                   *)
Behind(i) == i < at \/ (i = at /\ stage \in {"idle", "save"})

(* A handler starts over the ids of its event, whole.                      *)
ReadAll == stage = "upsert" => todo = Current.ids

(* A restore that was handled, or whose event is committed, has left its   *)
(* record whole, but for one whose delete has come again since.            *)
RestoredWhole ==
    \A r \in Records \ again, i \in 1..Len(log) :
        Restored(r, i) /\ (Behind(i) \/ i <= saved) => Rebuilt(r)

(* A restore about to be committed has left its record whole, so that none *)
(* of its records needs the exception any longer.                          *)
RestoredSaving ==
    \A r \in Records, i \in 1..Len(log) :
        Restored(r, i) /\ i = at /\ stage = "save" => Rebuilt(r)

(* While a delete from before the cursor is handled again, its records are *)
(* excepted.                                                               *)
Repeating ==
    stage # "idle" /\ Current.kind = "delete" /\ at <= saved => Current.ids \subseteq again

(* A restored record is among those the handler read and goes on with.     *)
AfterRead == {"absent", "absentFlush", "absentMarker", "publish", "restoreFlush"}

RestoredRead ==
    \A r \in Records, i \in 1..Len(log) :
        Restored(r, i) /\ i = at /\ stage \in AfterRead => r \in fetched

(* The messages of r are out, and no step of the restore has failed: what  *)
(* the flush confirms is that every group is granted.                      *)
Confirming(r) ==
    ~failed /\ ((stage = "publish" /\ r \notin todo) \/ stage = "restoreFlush")

RestoredSent ==
    \A r \in Records, i \in 1..Len(log) :
        Restored(r, i) /\ i = at /\ Confirming(r) => \A g \in Groups : Granted(r, g)

Restores == /\ ReadAll
            /\ RestoredWhole
            /\ RestoredSaving
            /\ RestoredRead
            /\ RestoredSent
            /\ Repeating

RestoreInv == Typed /\ Deleting /\ PurgesFollow /\ Restores

(* A drained connection leaves a granted group among the tuples.           *)
LEMMA GrantedDrained ==
  ASSUME NEW r, wire = <<>>, \A g \in Groups : Granted(r, g), fga[r] \subseteq Groups
  PROVE  Rebuilt(r)
<1>1. Len(wire) = 0
  OBVIOUS
<1>2. \A g \in Groups : g \in fga[r]
  BY <1>1 DEF Granted
<1>3. fga[r] = Groups
  BY <1>2
<1>4. PurgeFree(r)
  BY <1>1 DEF PurgeFree
<1> QED BY <1>3, <1>4 DEF Rebuilt

(* Receiving the next message keeps a granted group granted, and a whole   *)
(* record whole.                                                           *)
LEMMA GrantedDeliver ==
  ASSUME TypeOK, Deliver, NEW r \in Records
  PROVE  /\ \A g \in Groups : Granted(r, g) => Granted(r, g)'
         /\ Rebuilt(r) => Rebuilt(r)'
<1>1. /\ wire \in Seq(Messages) /\ wire # <<>> /\ wire' = Tail(wire)
      /\ Head(wire) = wire[1] /\ Len(wire) \in Nat \ {0}
      /\ Len(wire') = Len(wire) - 1
      /\ \A i \in 1..Len(wire') : i + 1 \in 1..Len(wire) /\ wire'[i] = wire[i + 1]
  BY DEF TypeOK, Deliver
<1>2. /\ Head(wire) \in Messages
      /\ 1 \in 1..Len(wire)
      /\ fga \in [Records -> SUBSET Groups]
      /\ Head(wire).id \in Records
      /\ Purge(r)' = Purge(r)
  BY <1>1 DEF TypeOK, Messages, Purge
<1>3. Head(wire) # Purge(r) => fga[r] \subseteq fga'[r]
  <2>1. Head(wire).op = "purge" => Head(wire) = Purge(Head(wire).id)
    BY <1>2 DEF Messages, Purge
  <2>2. CASE Head(wire).op = "purge"
    <3>1. Head(wire).id # r \/ Head(wire) = Purge(r)
      BY <2>1, <2>2
    <3>2. fga' = [fga EXCEPT ![Head(wire).id] = {}]
      BY <2>2 DEF Deliver
    <3> QED BY <1>2, <3>1, <3>2
  <2>3. CASE Head(wire).op = "grant"
    <3>1. fga' = [fga EXCEPT ![Head(wire).id] = @ \union Head(wire).rels]
      BY <2>3 DEF Deliver
    <3> QED BY <1>2, <3>1
  <2>4. CASE Head(wire).op \notin {"grant", "purge"}
    BY <2>4 DEF Deliver
  <2> QED BY <2>2, <2>3, <2>4
<1>4. /\ fga' \in [Records -> SUBSET Groups]
      /\ Head(wire).op = "grant" => Head(wire).rels \subseteq fga'[Head(wire).id]
  <2>1. CASE Head(wire).op = "purge"
    BY <1>2, <2>1 DEF Deliver
  <2>2. CASE Head(wire).op = "grant"
    <3>1. fga' = [fga EXCEPT ![Head(wire).id] = @ \union Head(wire).rels]
      BY <2>2 DEF Deliver
    <3>2. Head(wire).rels \in SUBSET Groups
      BY <1>2, <2>2 DEF Messages
    <3> QED BY <1>2, <3>1, <3>2
  <2>3. CASE Head(wire).op \notin {"grant", "purge"}
    BY <1>2, <2>3 DEF Deliver
  <2> QED BY <2>1, <2>2, <2>3
<1>5. ASSUME NEW g \in Groups, Granted(r, g) PROVE Granted(r, g)'
  <2>1. PICK k \in 0..Len(wire) :
          /\ IF k = 0 THEN g \in fga[r]
                      ELSE wire[k].op = "grant" /\ wire[k].id = r /\ g \in wire[k].rels
          /\ \A j \in 1..Len(wire) : j > k => wire[j] # Purge(r)
    BY <1>5 DEF Granted
  <2>2. CASE k > 1
    <3>1. k - 1 \in 1..Len(wire') /\ wire'[k - 1] = wire[k]
      BY <1>1, <2>2
    <3>2. wire'[k - 1].op = "grant" /\ wire'[k - 1].id = r /\ g \in wire'[k - 1].rels
      BY <2>1, <2>2, <3>1
    <3>3. \A j \in 1..Len(wire') : j > k - 1 => wire'[j] # Purge(r)
      BY <1>1, <2>1, <2>2
    <3>4. k - 1 \in 0..Len(wire') /\ k - 1 # 0
      BY <1>1, <2>2
    <3> QED BY <1>2, <3>2, <3>3, <3>4 DEF Granted
  <2>3. CASE k \in {0, 1}
    <3>1. \A j \in 1..Len(wire') : wire'[j] # Purge(r)
      BY <1>1, <2>1, <2>3
    <3>2. g \in fga'[r]
      <4>1. CASE k = 0
        <5>1. wire[1] # Purge(r)
          BY <1>2, <2>1, <4>1
        <5> QED BY <1>1, <1>3, <2>1, <4>1, <5>1
      <4>2. CASE k = 1
        <5>1. Head(wire).op = "grant" /\ Head(wire).id = r /\ g \in Head(wire).rels
          BY <1>1, <2>1, <4>2
        <5> QED BY <1>4, <5>1
      <4> QED BY <2>3, <4>1, <4>2
    <3>3. 0 \in 0..Len(wire') /\ \A j \in 1..Len(wire') : j > 0 => wire'[j] # Purge(r)'
      BY <1>1, <1>2, <3>1
    <3> QED BY <3>2, <3>3 DEF Granted
  <2> QED BY <2>1, <2>2, <2>3
<1>6. ASSUME Rebuilt(r) PROVE Rebuilt(r)'
  <2>1. \A j \in 1..Len(wire') : wire'[j] # Purge(r)
    BY <1>1, <1>6 DEF Rebuilt, PurgeFree
  <2>2. fga[r] \subseteq fga'[r]
    BY <1>1, <1>2, <1>3, <1>6 DEF Rebuilt, PurgeFree
  <2>3. fga'[r] = Groups
    BY <1>4, <1>6, <2>2 DEF Rebuilt
  <2> QED BY <1>2, <2>1, <2>3 DEF Rebuilt, PurgeFree
<1> QED BY <1>5, <1>6

(* Messages without a purge of r do as much.                               *)
LEMMA GrantedSend ==
  ASSUME TypeOK, NEW msgs \in Seq(Messages), Send(msgs), NEW r \in Records,
         \A i \in 1..Len(msgs) : msgs[i] # Purge(r)
  PROVE  /\ \A g \in Groups : Granted(r, g) => Granted(r, g)'
         /\ \A g \in Groups :
               (\E i \in 1..Len(msgs) :
                   msgs[i].op = "grant" /\ msgs[i].id = r /\ g \in msgs[i].rels)
               => Granted(r, g)'
         /\ Rebuilt(r) => Rebuilt(r)'
<1>1. /\ wire \in Seq(Messages) /\ wire' = wire \o msgs /\ fga' = fga
      /\ Purge(r)' = Purge(r)
  BY DEF TypeOK, Send, Purge
<1>2. /\ Len(wire) \in Nat /\ Len(msgs) \in Nat
      /\ Len(wire') = Len(wire) + Len(msgs)
      /\ \A i \in 1..Len(wire) : wire'[i] = wire[i]
      /\ \A i \in 1..Len(msgs) : wire'[Len(wire) + i] = msgs[i]
      /\ \A i \in 1..Len(wire') :
            \/ i \in 1..Len(wire) /\ wire'[i] = wire[i]
            \/ i - Len(wire) \in 1..Len(msgs) /\ wire'[i] = msgs[i - Len(wire)]
  BY <1>1
<1>3. \A j \in 1..Len(wire') : j > Len(wire) => wire'[j] # Purge(r)
  <2> SUFFICES ASSUME NEW j \in 1..Len(wire'), j > Len(wire) PROVE wire'[j] # Purge(r)
    OBVIOUS
  <2>1. j - Len(wire) \in 1..Len(msgs) /\ wire'[j] = msgs[j - Len(wire)]
    BY <1>2
  <2> QED BY <2>1
<1>4. ASSUME NEW g \in Groups, Granted(r, g) PROVE Granted(r, g)'
  <2>1. PICK k \in 0..Len(wire) :
          /\ IF k = 0 THEN g \in fga[r]
                      ELSE wire[k].op = "grant" /\ wire[k].id = r /\ g \in wire[k].rels
          /\ \A j \in 1..Len(wire) : j > k => wire[j] # Purge(r)
    BY <1>4 DEF Granted
  <2>2. k \in 0..Len(wire') /\ (k # 0 => wire'[k] = wire[k])
    BY <1>2
  <2>3. \A j \in 1..Len(wire') : j > k => wire'[j] # Purge(r)
    <3> SUFFICES ASSUME NEW j \in 1..Len(wire'), j > k PROVE wire'[j] # Purge(r)
      OBVIOUS
    <3>1. CASE j \in 1..Len(wire)
      BY <1>2, <2>1, <3>1
    <3>2. CASE j > Len(wire)
      BY <1>3, <3>2
    <3> QED BY <1>2, <3>1, <3>2
  <2> QED BY <1>1, <2>1, <2>2, <2>3 DEF Granted
<1>5. ASSUME NEW g \in Groups, NEW i \in 1..Len(msgs),
             msgs[i].op = "grant" /\ msgs[i].id = r /\ g \in msgs[i].rels
      PROVE  Granted(r, g)'
  <2>1. Len(wire) + i \in 0..Len(wire') /\ Len(wire) + i # 0 /\ Len(wire) + i > Len(wire)
    BY <1>2
  <2>2. wire'[Len(wire) + i] = msgs[i]
    BY <1>2
  <2>3. \A j \in 1..Len(wire') : j > Len(wire) + i => wire'[j] # Purge(r)
    BY <1>2, <1>3, <2>1
  <2> QED BY <1>1, <1>5, <2>1, <2>2, <2>3 DEF Granted
<1>6. ASSUME Rebuilt(r) PROVE Rebuilt(r)'
  <2>1. \A j \in 1..Len(wire') : wire'[j] # Purge(r)
    BY <1>2, <1>3, <1>6 DEF Rebuilt, PurgeFree
  <2> QED BY <1>1, <1>6, <2>1 DEF Rebuilt, PurgeFree
<1> QED BY <1>4, <1>5, <1>6

(* No event of a record follows the one that restored it.                  *)
LEMMA RestoredHere ==
  ASSUME TypeOK, NEW r \in Records, NEW i \in 1..Len(log), Restored(r, i),
         NEW j \in 1..Len(log), r \in log[j].ids
  PROVE  j <= i
  BY DEF Restored, Settled

(* Salesforce changes r only together with an event, which is its last.    *)
LEMMA SalesforceRestores == ASSUME RestoreInv, Salesforce PROVE Restores'
<1> SUFFICES ASSUME NEW ids \in Batches, NEW kind \in Kinds, Emit(kind, ids),
                    \A r \in Records \ ids : sf'[r] = sf[r]
             PROVE  Restores'
  BY DEF Salesforce, DeleteRecords, ChangeRecords, UndeleteRecords, Kinds
<1>0. TypeOK
  BY DEF RestoreInv, Typed
<1>1. UNCHANGED <<saved, at, stage, todo, fetched, failed, fga, wire, again>>
  BY DEF Emit, durable, outside, volatile
<1>2. /\ log \in Seq(Events) /\ log' = Append(log, [kind |-> kind, ids |-> ids])
      /\ at \in 0..Len(log) /\ saved \in 0..Len(log)
  BY <1>0 DEF TypeOK, Emit
<1>3. /\ Len(log') = Len(log) + 1 /\ Len(log) \in Nat
      /\ \A i \in 1..Len(log) : log'[i] = log[i] /\ i \in 1..Len(log')
      /\ log'[Len(log) + 1].ids = ids
      /\ Len(log) + 1 \in 1..Len(log')
  BY <1>2
<1>4. ASSUME NEW r \in Records, NEW i \in 1..Len(log'), Restored(r, i)',
             i <= at \/ i <= saved
      PROVE  i \in 1..Len(log) /\ Restored(r, i)
  <2>1. i \in 1..Len(log)
    BY <1>2, <1>3, <1>4
  <2>2. r \notin ids
    BY <1>3, <1>4, <2>1 DEF Restored, Settled
  <2>3. Settled(r, i)
    BY <1>3, <1>4 DEF Restored, Settled
  <2> QED BY <1>3, <1>4, <2>1, <2>2, <2>3 DEF Restored
<1>5. stage # "idle" => Current' = Current
  BY <1>0, <1>1, <1>3 DEF TypeOK, Current
<1>6. /\ \A r : Rebuilt(r)' = Rebuilt(r)
      /\ \A r, g : Granted(r, g)' = Granted(r, g)
  BY <1>1 DEF Rebuilt, PurgeFree, Granted, Purge
<1>7. \A i \in 1..Len(log') : (Behind(i)' => Behind(i) /\ i <= at) /\ (i = at' => i <= at)
  BY <1>1, <1>2, <1>3 DEF Behind
<1>8. ReadAll' /\ Repeating'
  BY <1>1, <1>5 DEF RestoreInv, Restores, ReadAll, Repeating
<1>9. RestoredWhole'
  BY <1>1, <1>4, <1>6, <1>7 DEF RestoreInv, Restores, RestoredWhole
<1>10. RestoredSaving' /\ RestoredRead' /\ RestoredSent'
  BY <1>1, <1>4, <1>6, <1>7 DEF RestoreInv, Restores, RestoredSaving, RestoredRead,
     RestoredSent, Confirming
<1> QED BY <1>8, <1>9, <1>10 DEF Restores

(* What was granted before a delivery is granted after it.                 *)
LEMMA DeliverRestores == ASSUME RestoreInv, Deliver PROVE Restores'
<1>0. TypeOK
  BY DEF RestoreInv, Typed
<1>1. UNCHANGED <<sf, log, saved, at, stage, todo, fetched, failed, again>>
  BY DEF Deliver, external, durable, volatile
<1>2. /\ \A r \in Records : Rebuilt(r) => Rebuilt(r)'
      /\ \A r \in Records, g \in Groups : Granted(r, g) => Granted(r, g)'
  BY <1>0, GrantedDeliver
<1>3. /\ \A i : Behind(i)' = Behind(i)
      /\ \A r, i : Restored(r, i)' = Restored(r, i)
      /\ \A r : Confirming(r)' = Confirming(r)
      /\ Current' = Current
  BY <1>1 DEF Behind, Restored, Settled, Confirming, Current
<1> QED BY <1>1, <1>2, <1>3 DEF RestoreInv, Restores, ReadAll, RestoredWhole, RestoredSaving,
       RestoredRead, RestoredSent, Repeating

(* The cursor and the position: no event is skipped, a delete that is      *)
(* handed out again excepts its records, and only a completed restore ends *)
(* an exception.                                                           *)
LEMMA CursorRestores ==
  ASSUME RestoreInv,
         Take \/ Save \/ Keepalive \/ Crash \/ Reconnect
  PROVE  Restores'
<1>0. TypeOK
  BY DEF RestoreInv, Typed
<1>1. /\ UNCHANGED <<sf, log, fga>>
      /\ wire' = wire \/ wire' = <<>>
      /\ stage' \in {"idle", "delete", "upsert"}
      /\ \A r : Purge(r)' = Purge(r)
  BY DEF Take, Start, Save, Keepalive, Crash, Reconnect, Goto, external, durable, outside,
         volatile, RestoreInv, Purge
<1>2. \A r : Rebuilt(r) => Rebuilt(r)'
  <2>1. CASE wire' = wire
    BY <1>1, <2>1 DEF Rebuilt, PurgeFree
  <2>2. CASE wire' = <<>>
    <3>1. Len(wire') = 0
      BY <2>2
    <3> QED BY <1>1, <3>1 DEF Rebuilt, PurgeFree
  <2> QED BY <1>1, <2>1, <2>2
<1>3. \A r, i : Restored(r, i)' = Restored(r, i)
  BY <1>1 DEF Restored, Settled
<1>4. \A i \in 1..Len(log) : Behind(i)' \/ i <= saved' => Behind(i) \/ i <= saved
  <2> SUFFICES ASSUME NEW i \in 1..Len(log), Behind(i)' \/ i <= saved'
               PROVE  Behind(i) \/ i <= saved
    OBVIOUS
  <2>0. i \in Int /\ at \in Int /\ saved \in Int
    BY <1>0 DEF TypeOK
  <2>1. CASE Take
    <3>1. /\ stage = "idle" /\ at' = at + 1 /\ stage' \in {"delete", "upsert"}
          /\ saved' = saved
      BY <2>1 DEF Take, Start, durable
    <3> QED BY <2>0, <3>1 DEF Behind
  <2>2. CASE Save
    <3>1. stage = "save" /\ at' = at /\ (saved' = at \/ saved' = saved)
      BY <2>2 DEF Save
    <3> QED BY <2>0, <3>1 DEF Behind
  <2>3. CASE Keepalive
    <3>1. stage = "idle" /\ at' = at /\ saved' = at
      BY <2>3 DEF Keepalive, volatile
    <3> QED BY <2>0, <3>1 DEF Behind
  <2>4. CASE Crash
    <3>1. at' = saved /\ saved' = saved
      BY <2>4 DEF Crash, durable
    <3> QED BY <2>0, <3>1 DEF Behind
  <2>5. CASE Reconnect
    <3>1. stage = "idle" /\ at' \in 0..at /\ saved' = saved
      BY <2>5 DEF Reconnect, durable
    <3> QED BY <2>0, <3>1 DEF Behind
  <2> QED BY <2>1, <2>2, <2>3, <2>4, <2>5
<1>5. RestoredWhole'
  <2> SUFFICES ASSUME NEW r \in Records, r \notin again', NEW i \in 1..Len(log),
                      Restored(r, i), Behind(i)' \/ i <= saved'
               PROVE  Rebuilt(r)'
    BY <1>1, <1>3 DEF RestoredWhole
  <2>1. CASE r \notin again
    BY <1>2, <1>4, <2>1 DEF RestoreInv, Restores, RestoredWhole
  <2>2. CASE r \in again
    <3>1. Save /\ Restoring /\ r \in Current.ids /\ Settled(r, at)
      BY <2>2 DEF Take, Save, Keepalive, Crash, Reconnect, external
    <3>2. stage = "save" /\ at \in 1..Len(log)
      BY <1>0, <3>1 DEF Save, TypeOK
    <3>3. Restored(r, at)
      BY <3>1, <3>2 DEF Restored, Restoring, Current
    <3> QED BY <1>2, <3>2, <3>3 DEF RestoreInv, Restores, RestoredSaving
  <2> QED BY <2>1, <2>2
<1>6. RestoredSaving' /\ RestoredRead' /\ RestoredSent'
  BY <1>1 DEF RestoredSaving, RestoredRead, RestoredSent, AfterRead, Confirming
<1>7. ReadAll'
  <2> SUFFICES ASSUME stage' = "upsert" PROVE todo' = Current.ids'
    BY DEF ReadAll
  <2>1. Take
    BY DEF Save, Keepalive, Crash, Reconnect, Goto, volatile, RestoreInv, Restores, ReadAll
  <2> QED BY <2>1 DEF Take, Start, Current
<1>8. Repeating'
  <2>1. CASE Take
    <3> SUFFICES ASSUME Current'.kind = "delete", at' <= saved'
                 PROVE  Current'.ids \subseteq again'
      BY DEF Repeating
    <3>1. at' = at + 1 /\ saved' = saved /\ Current' = log[at + 1]
      BY <2>1 DEF Take, durable, Current
    <3> QED BY <2>1, <3>1 DEF Take
  <2>2. CASE ~Take
    <3>1. stage' = "idle"
      BY <2>2 DEF Save, Keepalive, Crash, Reconnect, Goto, volatile
    <3> QED BY <3>1 DEF Repeating
  <2> QED BY <2>1, <2>2
<1> QED BY <1>5, <1>6, <1>7, <1>8 DEF Restores

(* The delete handler purges no restored record that is behind it: its     *)
(* ids are those of a later event.                                         *)
LEMMA DeleteRestores == ASSUME RestoreInv, HandleDelete PROVE Restores'
<1>0. TypeOK
  BY DEF RestoreInv, Typed
<1>1. UNCHANGED <<sf, log, saved, at, again>> /\ stage \in DeleteStages
  BY DEF HandleDelete, PublishDelete, ConfirmDelete, RecordFailedPurge,
         QueueUnconfirmedDelete, FinishDelete, external, durable, DeleteStages
<1>2. stage' \in DeleteStages \union {"save"}
  BY DEF HandleDelete, PublishDelete, ConfirmDelete, RecordFailedPurge,
         QueueUnconfirmedDelete, FinishDelete, Start, Goto, DeleteStages
<1>3. at \in 1..Len(log) /\ log[at].kind = "delete" /\ todo \subseteq log[at].ids
  BY <1>0, <1>1 DEF RestoreInv, Deleting, Current, TypeOK
<1>4. \A r, i : Restored(r, i)' = Restored(r, i)
  BY <1>1 DEF Restored, Settled
<1>5. ASSUME NEW r \in Records, NEW i \in 1..Len(log), Restored(r, i)
      PROVE  i # at
  BY <1>3, <1>5 DEF Restored
<1>6. RestoredSaving' /\ RestoredRead' /\ RestoredSent'
  BY <1>1, <1>4, <1>5 DEF RestoredSaving, RestoredRead, RestoredSent
<1>7. ReadAll' /\ Repeating'
  <2>1. Current' = Current /\ stage # "idle"
    BY <1>1 DEF Current, DeleteStages
  <2> QED BY <1>1, <1>2, <2>1 DEF ReadAll, Repeating, DeleteStages, RestoreInv, Restores
<1>8. RestoredWhole'
  <2> SUFFICES ASSUME NEW r \in Records, r \notin again', NEW i \in 1..Len(log'),
                      Restored(r, i)', Behind(i)' \/ i <= saved'
               PROVE  Rebuilt(r)'
    BY DEF RestoredWhole
  <2>1. i \in 1..Len(log) /\ Restored(r, i) /\ r \notin again /\ (i < at \/ i <= saved)
    BY <1>1, <1>4, <1>5 DEF Behind
  <2>2. Rebuilt(r)
    BY <2>1 DEF RestoreInv, Restores, RestoredWhole, Behind
  <2>3. CASE PublishDelete
    <3>1. Id \in todo /\ Id \in Records
      BY <1>0, <2>3, IdInTodo DEF PublishDelete, TypeOK
    <3>2. Id # r
      <4>1. ASSUME r \in log[at].ids PROVE FALSE
        <5>1. at <= i
          BY <1>0, <1>3, <2>1, <4>1, RestoredHere
        <5>2. at <= saved
          BY <1>0, <2>1, <5>1 DEF TypeOK
        <5>3. log[at].ids \subseteq again
          BY <1>1, <1>3, <5>2 DEF RestoreInv, Restores, Repeating, Current, DeleteStages
        <5> QED BY <2>1, <4>1, <5>3
      <4> QED BY <1>3, <3>1, <4>1
    <3>3. PICK drop, purge \in BOOLEAN :
             Send(Optional(drop, Drop(Id)) \o Optional(purge, Purge(Id)))
      BY <2>3 DEF PublishDelete
    <3> DEFINE msgs == Optional(drop, Drop(Id)) \o Optional(purge, Purge(Id))
    <3>4. msgs \in Seq(Messages)
      BY <3>1, SentMessages
    <3>5. \A k \in 1..Len(msgs) : msgs[k].id = Id
      BY DEF Optional, Drop, Purge
    <3>6. Send(msgs)
      BY <3>3
    <3> HIDE DEF msgs
    <3>7. \A k \in 1..Len(msgs) : msgs[k] # Purge(r)
      BY <3>2, <3>5 DEF Purge
    <3> QED BY <1>0, <2>2, <3>4, <3>6, <3>7, GrantedSend
  <2>4. CASE ~PublishDelete
    <3>1. UNCHANGED <<fga, wire>>
      BY <2>4 DEF HandleDelete, ConfirmDelete, RecordFailedPurge,
         QueueUnconfirmedDelete, FinishDelete, outside
    <3> QED BY <2>2, <3>1 DEF Rebuilt, PurgeFree, Purge
  <2> QED BY <2>3, <2>4
<1> QED BY <1>6, <1>7, <1>8 DEF Restores

(* The messages of a restore whose sources were all read grant a record    *)
(* every group.                                                            *)
LEMMA RestoreGrants ==
  ASSUME NEW r \in Records, NEW head \in Seq(Messages), NEW g \in Groups,
         NEW msgs, msgs = head \o RestoreMessages(r, TRUE, TRUE)
  PROVE  \E k \in 1..Len(msgs) :
            msgs[k].op = "grant" /\ msgs[k].id = r /\ g \in msgs[k].rels
<1>1. \A c \in SUBSET Groups :
         /\ Grant(r, c) \in Messages
         /\ Grant(r, c).op = "grant" /\ Grant(r, c).id = r /\ Grant(r, c).rels = c
  BY DEF Grant, Messages
<1>2. Groups \in SUBSET Groups /\ {"team"} \in SUBSET Groups /\ {"user"} \in SUBSET Groups
  BY DEF Groups
<1>3. ASSUME NEW S, NEW a \in Seq(S), NEW b \in Seq(S)
      PROVE  /\ a \o b \in Seq(S)
             /\ \A k \in 1..Len(a) : k \in 1..Len(a \o b) /\ (a \o b)[k] = a[k]
             /\ \A k \in 1..Len(b) : /\ Len(a) + k \in 1..Len(a \o b)
                                     /\ (a \o b)[Len(a) + k] = b[k]
  BY ONLY <1>3
<1>4. ASSUME NEW S, NEW m \in S
      PROVE  <<m>> \in Seq(S) /\ 1 \in 1..Len(<<m>>) /\ <<m>>[1] = m
  BY ONLY <1>4
<1>5. ASSUME NEW rest \in Seq(Messages), msgs = head \o rest,
             NEW k \in 1..Len(rest), NEW c \in SUBSET Groups,
             rest[k] = Grant(r, c), g \in c
      PROVE  \E n \in 1..Len(msgs) :
                msgs[n].op = "grant" /\ msgs[n].id = r /\ g \in msgs[n].rels
  <2>1. Len(head) + k \in 1..Len(msgs) /\ msgs[Len(head) + k] = rest[k]
    BY ONLY <1>3, <1>5, head \in Seq(Messages)
  <2>2. rest[k].op = "grant" /\ rest[k].id = r /\ g \in rest[k].rels
    BY <1>1, <1>5
  <2> QED BY <2>1, <2>2, Zenon
<1>6. CASE r \in Accounts
  <2>1. msgs = head \o <<Grant(r, Groups)>>
    BY <1>6 DEF RestoreMessages, Optional
  <2>2. \E rest \in Seq(Messages) :
           msgs = head \o rest /\ 1 \in 1..Len(rest) /\ rest[1] = Grant(r, Groups)
    BY ONLY <1>1, <1>2, <1>4, <2>1
  <2> QED BY ONLY <1>2, <1>5, <2>2, g \in Groups
<1>7. CASE r \notin Accounts
  <2>1. msgs = head \o (<<Grant(r, {"team"})>> \o <<Grant(r, {"user"})>>)
    BY <1>7 DEF RestoreMessages, Optional
  <2>2. PICK a \in Seq(Messages) :
           a = <<Grant(r, {"team"})>> /\ 1 \in 1..Len(a) /\ a[1] = Grant(r, {"team"})
    BY ONLY <1>1, <1>2, <1>4
  <2>3. PICK b \in Seq(Messages) :
           b = <<Grant(r, {"user"})>> /\ 1 \in 1..Len(b) /\ b[1] = Grant(r, {"user"})
    BY ONLY <1>1, <1>2, <1>4
  <2>4. PICK rest \in Seq(Messages) :
           /\ rest = a \o b
           /\ 1 \in 1..Len(rest) /\ rest[1] = a[1]
           /\ Len(a) + 1 \in 1..Len(rest) /\ rest[Len(a) + 1] = b[1]
    <3>1. 1 \in 1..Len(a) /\ 1 \in 1..Len(b)
      BY <2>2, <2>3
    <3>2. ASSUME NEW j \in 1..Len(a), NEW k \in 1..Len(b)
          PROVE  /\ a \o b \in Seq(Messages)
                 /\ j \in 1..Len(a \o b) /\ (a \o b)[j] = a[j]
                 /\ Len(a) + k \in 1..Len(a \o b) /\ (a \o b)[Len(a) + k] = b[k]
      BY ONLY <1>3, <3>2, a \in Seq(Messages), b \in Seq(Messages)
    <3> QED BY ONLY <3>1, <3>2
  <2>5. msgs = head \o rest
    BY ONLY <2>1, <2>2, <2>3, <2>4
  <2>6. g \in {"team"} \/ g \in {"user"}
    BY DEF Groups
  <2>7. CASE g \in {"team"}
    BY ONLY <1>2, <1>5, <2>2, <2>4, <2>5, <2>7
  <2>8. CASE g \in {"user"}
    BY ONLY <1>2, <1>5, <2>3, <2>4, <2>5, <2>8
  <2> QED BY ONLY <2>6, <2>7, <2>8
<1> QED BY <1>6, <1>7

(* The upsert handler: a restore advances only when every record it read   *)
(* has been granted everything and the connection is drained.              *)
LEMMA UpsertRestores == ASSUME RestoreInv, HandleUpsert PROVE Restores'
<1>0. TypeOK
  BY DEF RestoreInv, Typed
<1>1. UNCHANGED <<sf, log, saved, at, again>> /\ stage \in UpsertStages
  BY DEF HandleUpsert, SkipForQuota, FetchFails, Fetch, PublishAbsent, AbsentPublished,
         ConfirmAbsent, QueueAbsent, PublishUpsert, PublishRestore, FinishPublish,
         ConfirmRestore, external, durable, UpsertStages
<1>2. stage # "idle" /\ stage # "save"
  BY <1>1 DEF UpsertStages
<1>3. \A r, i : Restored(r, i)' = Restored(r, i)
  BY <1>1 DEF Restored, Settled
<1>4. Current' = Current
  BY <1>1 DEF Current
<1>5. /\ \A r \in Records : Rebuilt(r) => Rebuilt(r)'
      /\ \A r \in Records, g \in Groups : Granted(r, g) => Granted(r, g)'
  <2>1. CASE PublishAbsent \/ PublishUpsert \/ PublishRestore
    <3>1. PICK msgs \in Seq(Messages) :
             Send(msgs) /\ \A i \in 1..Len(msgs) : msgs[i].op # "purge"
      BY <1>0, <2>1, UpsertSends
    <3>2. \A r : \A i \in 1..Len(msgs) : msgs[i] # Purge(r)
      BY <3>1 DEF Purge
    <3> QED BY <1>0, <3>1, <3>2, GrantedSend
  <2>2. CASE ~(PublishAbsent \/ PublishUpsert \/ PublishRestore)
    <3>1. UNCHANGED <<fga, wire>>
      BY <2>2 DEF HandleUpsert, SkipForQuota, FetchFails, Fetch, AbsentPublished,
         ConfirmAbsent, QueueAbsent, FinishPublish, ConfirmRestore, outside
    <3> QED BY <3>1 DEF Rebuilt, PurgeFree, Granted, Purge
  <2> QED BY <2>1, <2>2
<1>6. ReadAll' /\ Repeating'
  <2>1. ReadAll'
    BY <1>4 DEF RestoreInv, Restores, ReadAll, HandleUpsert, SkipForQuota, FetchFails, Fetch,
       PublishAbsent, AbsentPublished, ConfirmAbsent, QueueAbsent, PublishUpsert,
       PublishRestore, FinishPublish, ConfirmRestore, RetryOrSkip, Start, Goto
  <2>2. Repeating'
    BY <1>1, <1>2, <1>4 DEF Repeating, RestoreInv, Restores
  <2> QED BY <2>1, <2>2
<1>7. ASSUME NEW r \in Records, Restored(r, at), at \in 1..Len(log)
      PROVE  /\ Restoring
             /\ r \in Current.ids
             /\ sf[r] = "qualifying"
             /\ stage \in AfterRead => r \in fetched
             /\ Confirming(r) => \A g \in Groups : Granted(r, g)
  BY <1>7 DEF Restored, Restoring, Current, RestoreInv, Restores, RestoredRead, RestoredSent
<1>8. RestoredRead'
  <2> SUFFICES ASSUME NEW r \in Records, Restored(r, at), at \in 1..Len(log),
                      stage' \in AfterRead
               PROVE  r \in fetched'
    BY <1>1, <1>3 DEF RestoredRead
  <2>1. CASE Fetch
    <3>1. r \in todo
      BY <1>7, <2>1 DEF Fetch, RestoreInv, Restores, ReadAll
    <3> QED BY <1>7, <2>1, <3>1 DEF Fetch
  <2>2. CASE ~Fetch
    <3>1. stage \in AfterRead /\ fetched' = fetched
      BY <2>2 DEF HandleUpsert, SkipForQuota, FetchFails,
         PublishAbsent, AbsentPublished, ConfirmAbsent, QueueAbsent, PublishUpsert,
         PublishRestore, FinishPublish, ConfirmRestore, RetryOrSkip, Start, Goto, AfterRead
    <3> QED BY <1>7, <3>1
  <2> QED BY <2>1, <2>2
<1>9. RestoredSent'
  <2> SUFFICES ASSUME NEW r \in Records, Restored(r, at), at \in 1..Len(log), Confirming(r)',
                      NEW g \in Groups
               PROVE  Granted(r, g)'
    BY <1>1, <1>3 DEF RestoredSent
  <2>1. CASE PublishRestore
    <3>1. /\ stage = "publish" /\ stage' = "publish"
          /\ Id \in Records
          /\ r \notin todo \ {Id} /\ ~failed'
      BY <1>0, <2>1, IdInTodo DEF PublishRestore, Confirming, TypeOK
    <3>2. PICK put, first, second, ok \in BOOLEAN :
             /\ ok => first /\ second
             /\ Send(Optional(put, Put(Id)) \o RestoreMessages(Id, first, second))
             /\ failed' = (failed \/ ~ok)
      BY <2>1 DEF PublishRestore
    <3>3. ~failed /\ ok /\ first = TRUE /\ second = TRUE
      BY <3>1, <3>2
    <3>4. CASE r # Id
      <4>1. Confirming(r)
        BY <3>1, <3>3, <3>4 DEF Confirming
      <4> QED BY <1>5, <1>7, <4>1
    <3>5. CASE r = Id
      <4>1. PICK msgs : msgs = Optional(put, Put(r)) \o RestoreMessages(r, TRUE, TRUE)
        OBVIOUS
      <4>2. Send(msgs)
        BY <3>2, <3>3, <3>5, <4>1
      <4>3. msgs \in Seq(Messages)
        BY <4>1, SentMessages
      <4>4. \A k \in 1..Len(msgs) : msgs[k] # Purge(r)
        BY <4>1 DEF RestoreMessages, Optional, Put, Grant, Purge
      <4>5. \E k \in 1..Len(msgs) :
               msgs[k].op = "grant" /\ msgs[k].id = r /\ g \in msgs[k].rels
        <5>1. PICK head \in Seq(Messages) : head = Optional(put, Put(r))
          BY AboutOptional DEF Put, Messages
        <5>2. msgs = head \o RestoreMessages(r, TRUE, TRUE)
          BY ONLY <4>1, <5>1
        <5> QED BY ONLY <5>2, RestoreGrants, r \in Records, g \in Groups, head \in Seq(Messages)
      <4> QED BY <1>0, <4>2, <4>3, <4>4, <4>5, GrantedSend
    <3> QED BY <3>4, <3>5
  <2>2. CASE QueueAbsent
    <3>1. r \in todo' /\ stage' = "publish"
      BY <1>7, <2>2 DEF QueueAbsent, Goto, AfterRead
    <3> QED BY <3>1 DEF Confirming
  <2>3. CASE FinishPublish
    <3>1. Confirming(r)
      BY <2>3 DEF FinishPublish, Confirming
    <3> QED BY <1>5, <1>7, <3>1
  <2>4. CASE ~(PublishRestore \/ QueueAbsent \/ FinishPublish)
    <3>1. ~PublishUpsert
      BY <1>7 DEF PublishUpsert
    <3>2. stage' \notin {"publish", "restoreFlush"}
      BY <2>4, <3>1 DEF HandleUpsert, SkipForQuota, FetchFails, Fetch, PublishAbsent,
         AbsentPublished, ConfirmAbsent, ConfirmRestore, RetryOrSkip, Start, Goto
    <3> QED BY <3>2 DEF Confirming
  <2> QED BY <2>1, <2>2, <2>3, <2>4
<1>10. ASSUME NEW r \in Records, Restored(r, at), at \in 1..Len(log),
              stage' \in {"idle", "save"}
       PROVE  Rebuilt(r)'
  <2>1. /\ Restoring
        /\ stage \in AfterRead => r \in fetched
        /\ Confirming(r) => \A g \in Groups : Granted(r, g)
    BY <1>7, <1>10
  <2>2. ConfirmRestore
    BY <1>10, <2>1 DEF HandleUpsert, SkipForQuota, FetchFails, Fetch, PublishAbsent,
       AbsentPublished, ConfirmAbsent, QueueAbsent, PublishUpsert, PublishRestore,
       FinishPublish, RetryOrSkip, Start, Goto, AfterRead
  <2>3. stage = "restoreFlush" /\ ~failed /\ wire = <<>>
    BY <1>10, <2>2 DEF ConfirmRestore, Start, Goto
  <2>4. \A g \in Groups : Granted(r, g)
    BY <2>1, <2>3 DEF Confirming
  <2>5. fga[r] \subseteq Groups
    BY <1>0 DEF TypeOK
  <2> QED BY <1>5, <2>3, <2>4, <2>5, GrantedDrained
<1>11. RestoredSaving'
  BY <1>1, <1>3, <1>10 DEF RestoredSaving
<1>12. RestoredWhole'
  <2> SUFFICES ASSUME NEW r \in Records, r \notin again, NEW i \in 1..Len(log),
                      Restored(r, i), Behind(i)' \/ i <= saved
               PROVE  Rebuilt(r)'
    BY <1>1, <1>3 DEF RestoredWhole
  <2>1. CASE i < at \/ i <= saved
    BY <1>5, <2>1 DEF RestoreInv, Restores, RestoredWhole, Behind
  <2>2. CASE i = at /\ stage' \in {"idle", "save"}
    BY <1>10, <2>2
  <2> QED BY <1>1, <2>1, <2>2 DEF Behind
<1> QED BY <1>6, <1>8, <1>9, <1>11, <1>12 DEF Restores

(* Every step keeps the restore invariant.                                 *)
LEMMA NextRestores == ASSUME RestoreInv, [Next]_vars PROVE Restores'
<1>1. CASE Next
  BY <1>1, SalesforceRestores, DeliverRestores, CursorRestores, DeleteRestores,
     UpsertRestores DEF Next, Run
<1>2. CASE UNCHANGED vars
  BY <1>2 DEF vars, external, durable, outside, volatile, RestoreInv, Restores, ReadAll,
     Current, RestoredWhole, RestoredSaving, RestoredRead, RestoredSent, Repeating, Restored,
     Settled, Behind, Confirming, Rebuilt, PurgeFree, Granted, Purge
<1> QED BY <1>1, <1>2

(* Nothing has been restored yet.                                          *)
LEMMA InitRestores == ASSUME Init PROVE RestoreInv
<1>1. /\ stage = "idle" /\ Len(log) = 0 /\ 1..0 = {} /\ wire = <<>>
  BY DEF Init
<1>2. Restores
  BY <1>1 DEF Restores, ReadAll, RestoredWhole, RestoredSaving, RestoredRead, RestoredSent,
     Repeating
<1>3. Deleting /\ PurgesFollow
  BY DEF Init, Deleting, DeleteStages, PurgesFollow
<1> QED BY <1>2, <1>3, InitTyped DEF RestoreInv

(* A restored record has all its tuples once the cursor has passed its     *)
(* restore, whatever fails and whatever the subscription hands out again:  *)
(* but for a record whose delete itself came again from before the cursor, *)
(* until its restore has come again too.                                   *)
THEOREM RestoresRebuild == Spec => []RestoredTuples
<1>1. RestoreInv /\ [Next]_vars => RestoreInv'
  BY NextTyped, NextDeleting, NextPurgesFollow, NextRestores DEF RestoreInv, Withdrawing
<1>2. Init => RestoreInv
  BY InitRestores
<1>3. RestoreInv => RestoredTuples
  BY DEF RestoreInv, Restores, RestoredWhole, Restored, Rebuilt, RestoredTuples, RestoredBy
<1> QED BY <1>1, <1>2, <1>3, PTL DEF Spec

(* The event being handled is not committed yet.                           *)
Uncommitted == stage # "idle" => saved < at

(* With no event waiting in the subscriber's channel, a reconnect hands    *)
(* out nothing from before the committed cursor.                           *)
LEMMA NextAhead ==
  ASSUME Buffered = 0, Typed, saved <= at, Uncommitted, [Next]_vars
  PROVE  (saved <= at)' /\ Uncommitted'
<1>0. saved \in Int /\ at \in Int
  BY DEF Typed, TypeOK
<1>1. CASE Take
  <2>1. at' = at + 1 /\ saved' = saved
    BY <1>1 DEF Take, durable
  <2> QED BY <1>0, <2>1 DEF Uncommitted
<1>2. CASE Save
  <2>1. at' = at /\ stage' = "idle" /\ (saved' = at \/ saved' = saved)
    BY <1>2 DEF Save, Goto
  <2> QED BY <1>0, <2>1 DEF Uncommitted
<1>3. CASE Keepalive
  <2>1. at' = at /\ stage' = "idle" /\ saved' = at
    BY <1>3 DEF Keepalive, volatile
  <2> QED BY <1>0, <2>1 DEF Uncommitted
<1>4. CASE Crash
  <2>1. at' = saved /\ saved' = saved /\ stage' = "idle"
    BY <1>4 DEF Crash, Goto, durable
  <2> QED BY <1>0, <2>1 DEF Uncommitted
<1>5. CASE Reconnect
  <2>1. PICK n \in 0..at : (n = saved \/ at - n <= Buffered) /\ at' = n
    BY <1>5 DEF Reconnect
  <2>2. saved' = saved /\ stage' = "idle"
    BY <1>5 DEF Reconnect, durable
  <2>3. saved <= n
    BY <1>0, <2>1
  <2> QED BY <2>1, <2>2, <2>3 DEF Uncommitted
<1>6. CASE ~(Take \/ Save \/ Keepalive \/ Crash \/ Reconnect)
  <2>1. UNCHANGED <<saved, at>> /\ (stage = "idle" => stage' = "idle")
    BY <1>6 DEF Next, Salesforce, DeleteRecords, ChangeRecords, UndeleteRecords, Emit, Run,
       Deliver, HandleDelete, PublishDelete, ConfirmDelete, RecordFailedPurge,
       QueueUnconfirmedDelete, FinishDelete, HandleUpsert, SkipForQuota, FetchFails, Fetch,
       PublishAbsent, AbsentPublished, ConfirmAbsent, QueueAbsent, PublishUpsert,
       PublishRestore, FinishPublish, ConfirmRestore, vars, durable, volatile
  <2> QED BY <2>1 DEF Uncommitted
<1> QED BY <1>1, <1>2, <1>3, <1>4, <1>5, <1>6

(* A subscription read without a buffer never hands out a delete from      *)
(* before the cursor, so that no record is excepted.                       *)
THEOREM UnbufferedRestoresRebuild ==
  ASSUME Buffered = 0
  PROVE  Spec => [](again = {} /\ RestoredTuples)
<1> DEFINE I == Typed /\ saved <= at /\ Uncommitted /\ again = {}
<1>1. Init => I
  <2>1. ASSUME Init PROVE saved = 0 /\ at = 0 /\ stage = "idle" /\ again = {}
    BY <2>1 DEF Init
  <2> QED BY <2>1, InitTyped DEF Uncommitted
<1>2. I /\ [Next]_vars => I'
  <2> SUFFICES ASSUME I, [Next]_vars PROVE I'
    OBVIOUS
  <2>1. Typed' /\ (saved <= at)' /\ Uncommitted'
    BY NextTyped, NextAhead
  <2>2. again' = {}
    <3>1. CASE Take
      <4>1. ~(at + 1 <= saved)
        BY DEF Typed, TypeOK
      <4> QED BY <3>1, <4>1 DEF Take
    <3>2. CASE Save
      BY <3>2 DEF Save
    <3>3. CASE ~(Take \/ Save)
      <4>1. again' = again
        BY <3>3 DEF Next, Salesforce, DeleteRecords, ChangeRecords, UndeleteRecords, Emit, Run,
           Deliver, HandleDelete, PublishDelete, ConfirmDelete, RecordFailedPurge,
           QueueUnconfirmedDelete, FinishDelete, HandleUpsert, SkipForQuota, FetchFails, Fetch,
           PublishAbsent, AbsentPublished, ConfirmAbsent, QueueAbsent, PublishUpsert,
           PublishRestore, FinishPublish, ConfirmRestore, Keepalive, Crash, Reconnect, vars,
           external
      <4> QED BY <4>1
    <3> QED BY <3>1, <3>2, <3>3
  <2> QED BY <2>1, <2>2
<1>3. I => again = {}
  OBVIOUS
<1> QED BY <1>1, <1>2, <1>3, RestoresRebuild, PTL DEF Spec

=============================================================================
