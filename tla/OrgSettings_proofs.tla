------------------------- MODULE OrgSettings_proofs -------------------------
(***************************************************************************)
(* Proofs about the org-settings operations, for any people, any number of *)
(* concurrent requests, any bulk updates and any failures: type            *)
(* correctness; that every change of the document is one whole operation   *)
(* on the document it replaces (OrgSettings implements SettingsRecord);    *)
(* and, from that, that only a bulk update takes the last admin away and   *)
(* that no list exceeds its cap.  For requests served one after another:   *)
(* that what is published follows the document, and that nobody who has an *)
(* account stays pending.                                                  *)
(***************************************************************************)
EXTENDS MCOrgSettings, FiniteSetTheorems, TLAPS

----------------------------------------------------------------------------
(***************************************************************************)
(* Documents.                                                              *)
(***************************************************************************)
LEMMA EntryTyped ==
    ASSUME NEW s \in Statuses, NEW l \in Roles
    PROVE  Entry(s, l) \in Entries
BY DEF Entry, Entries

LEMMA EmptyTyped == EmptyRecord \in Records
BY DEF EmptyRecord, Records, Lists

LEMMA WithoutTyped ==
    ASSUME NEW d \in Records, NEW p \in People
    PROVE  Without(d, p) \in Records
BY DEF Without, Records, Lists

LEMMA PlacedTyped ==
    ASSUME NEW d \in Records, NEW p \in People, NEW l \in Roles, NEW e \in Entries
    PROVE  Placed(d, p, l, e) \in Records
<1>1. d[l] \in Lists
  BY DEF Records
<1>2. [d[l] EXCEPT ![p] = e] \in Lists
  BY <1>1 DEF Lists
<1>3. Placed(d, p, l, e) = [d EXCEPT ![l] = [d[l] EXCEPT ![p] = e]]
  BY DEF Placed
<1> QED
  BY <1>2, <1>3 DEF Records

(* An entry whose status is one of Statuses is not Absent. *)
LEMMA PresentEntry ==
    ASSUME NEW d \in Records, NEW l \in Roles, NEW p \in People
    PROVE  /\ d[l][p] \in Entries \/ d[l][p] = Absent
           /\ d[l][p].status \in Statuses => d[l][p] \in Entries
           /\ d[l][p] # Absent => d[l][p].status \in Statuses /\ d[l][p].as \in Roles
           /\ d[l][p] = Absent => d[l][p].status = "absent"
<1>1. d[l][p] \in Entries \union {Absent}
  BY DEF Records, Lists
<1>2. Absent.status = "absent" /\ "absent" \notin Statuses
  BY DEF Absent, Statuses
<1> QED
  BY <1>1, <1>2 DEF Entries

LEMMA AcceptedTyped ==
    ASSUME NEW d \in Records, NEW l \in Roles, NEW p \in People,
           d[l][p].status = "pending"
    PROVE  /\ [d EXCEPT ![l][p].status = "accepted"] \in Records
           /\ \E e \in Entries : [d EXCEPT ![l][p].status = "accepted"] = Placed(d, p, l, e)
<1>1. d[l][p] \in Entries
  BY PresentEntry DEF Statuses
<1> DEFINE e == [d[l][p] EXCEPT !.status = "accepted"]
<1>2. e \in Entries
  BY <1>1 DEF Entries, Statuses
<1>3. [d EXCEPT ![l][p].status = "accepted"] = Placed(d, p, l, e)
  BY DEF Placed
<1> QED
  BY <1>2, <1>3, PlacedTyped

(* The lists of e given, the others of d. *)
LEMMA MergedTyped ==
    ASSUME NEW d \in Records, NEW e \in Records, NEW given \in SUBSET Roles
    PROVE  [l \in Roles |-> IF l \in given THEN e[l] ELSE d[l]] \in Records
BY DEF Records

LEMMA MostLiveEntry ==
    ASSUME NEW d \in Records, NEW p \in People, Held(d, p) # {}
    PROVE  /\ MostLive(d, p) \in Entries
           /\ \E k \in Roles : MostLive(d, p) = d[k][p]
           /\ \A k \in Roles : Liveness(d[k][p]) <= Liveness(MostLive(d, p))
<1> DEFINE w == d["writer"][p]
           a == d["auditor"][p]
<1>1. /\ w \in Entries \/ w = Absent
      /\ a \in Entries \/ a = Absent
  BY PresentEntry DEF Roles
<1>2. Liveness(Absent) = 0
  BY DEF Absent, Liveness
<1>3. \A x \in Entries : Liveness(x) \in 1..4
  BY DEF Entries, Statuses, Liveness
<1>4. w # Absent \/ a # Absent
  BY DEF Held, Roles
<1>5. Liveness(w) \in 0..4 /\ Liveness(a) \in 0..4
  BY <1>1, <1>2, <1>3
<1>6. MostLive(d, p) = IF Liveness(a) > Liveness(w) THEN a ELSE w
  BY DEF MostLive
<1>7. CASE Liveness(a) > Liveness(w)
  <2>1. MostLive(d, p) = a
    BY <1>6, <1>7
  <2>2. a # Absent
    BY <1>2, <1>5, <1>7
  <2> QED
    BY <1>1, <1>5, <1>7, <2>1, <2>2 DEF Roles
<1>8. CASE ~(Liveness(a) > Liveness(w))
  <2>1. MostLive(d, p) = w
    BY <1>6, <1>8
  <2>2. w # Absent
    BY <1>1, <1>2, <1>3, <1>4, <1>5, <1>8
  <2> QED
    BY <1>1, <1>5, <1>8, <2>1, <2>2 DEF Roles
<1> QED
  BY <1>7, <1>8

----------------------------------------------------------------------------
(***************************************************************************)
(* Type correctness.                                                       *)
(***************************************************************************)
LEMMA FaultTyped ==
    /\ TypeOK /\ Fault => faults' \in 0..MaxFaults
    /\ TypeOK /\ NoFault => faults' \in 0..MaxFaults
BY SettingsAssumption DEF TypeOK, Fault, NoFault

(* A request is at a step of its operation and has an attempt left when it *)
(* begins one.                                                             *)
InStep == \A r \in Requests :
             /\ pc[r] = "snapshot" => op[r].kind = "promote"
             /\ pc[r] = "lookup" => op[r].kind = "add"
             /\ pc[r] \in {"idle", "snapshot"} => tries[r] < Attempts

Typed == TypeOK /\ InStep

LEMMA InitTyped == ASSUME Init PROVE Typed
<1>1. doc \in Records /\ index \in Records /\ revision \in Nat
  BY SettingsAssumption DEF Init
<1>2. fga \in [Roles -> SUBSET People]
  BY DEF Init, Active
<1>3. /\ pc \in [Requests -> Steps] /\ op \in [Requests -> Ops \union {NoOp}]
      /\ match \in [Requests -> Nat] /\ base \in [Requests -> Nat]
      /\ sync \in [Requests -> SUBSET Roles] /\ tries \in [Requests -> 0..Attempts]
  BY DEF Init, Steps, Waiting, AnyMatch, Attempts
<1>4. new \in [Requests -> Records]
  BY EmptyTyped DEF Init
<1>5. \A r \in Requests : op[r] = NoOp <=> pc[r] = "idle"
  BY DEF Init
<1>6. faults \in 0..MaxFaults /\ registered \subseteq People /\ events \subseteq People
  BY SettingsAssumption DEF Init
<1>7. InStep
  BY DEF Init, InStep, Attempts
<1> QED
  BY <1>1, <1>2, <1>3, <1>4, <1>5, <1>6, <1>7 DEF TypeOK, Typed

(* What an operation is, by its kind. *)
LEMMA OpShape ==
    ASSUME TypeOK, NEW r \in Requests, pc[r] # "idle"
    PROVE  /\ op[r] \in Ops
           /\ op[r].kind \in {"add", "change"} => Person(r) \in People /\ Role(r) \in Roles
           /\ op[r].kind = "remove" => Person(r) \in People
           /\ op[r].kind = "promote" =>
                 Person(r) \in People /\ Role(r) \in Roles \union {"none"}
           /\ op[r].kind = "replace" => op[r] = Bulk
           /\ op[r].kind \in {"add", "change", "remove", "promote", "replace"}
BY DEF TypeOK, Ops, Bulk, Person, Role

(* A step in which request r goes from one busy state to another state.    *)
LEMMA GotoTyped ==
    ASSUME Typed, NEW r \in Requests, NEW s \in Steps \ {"idle", "snapshot", "lookup"},
           pc[r] # "idle", Goto(r, s), UNCHANGED op, \A q \in Requests \ {r} : tries'[q] = tries[q]
    PROVE  /\ pc' \in [Requests -> Steps]
           /\ op' \in [Requests -> Ops \union {NoOp}]
           /\ \A q \in Requests : op'[q] = NoOp <=> pc'[q] = "idle"
           /\ InStep'
BY DEF Typed, TypeOK, InStep, Goto

LEMMA CalledTyped ==
    ASSUME Typed, NEW r \in Requests, Called(r)
    PROVE  Typed'
<1>1. ASSUME NEW o \in Ops, NEW s \in Steps \ {"idle"}, Arrive(r, o, s)
      PROVE  /\ pc' \in [Requests -> Steps]
             /\ op' \in [Requests -> Ops \union {NoOp}]
             /\ \A q \in Requests : op'[q] = NoOp <=> pc'[q] = "idle"
             /\ UNCHANGED <<bucket, outside, base, tries, faults>>
             /\ (s = "snapshot" /\ o.kind = "promote") \/ s = "read" => InStep'
  <2>1. o # NoOp
    BY DEF Ops, Bulk, NoOp
  <2> QED
    BY <1>1, <2>1 DEF Arrive, Goto, Typed, TypeOK, InStep
<1>2. ASSUME NEW kind, NEW p, NEW l, [kind |-> kind, who |-> p, role |-> l] \in Ops,
             Call(r, kind, p, l)
      PROVE  Typed'
  <2>1. "read" \in Steps \ {"idle"}
    BY DEF Steps, Waiting
  <2>2. match' \in [Requests -> Nat]
    BY <1>2 DEF Call, Typed, TypeOK, AnyMatch
  <2> QED
    BY <1>1, <1>2, <2>1, <2>2 DEF Call, Typed, TypeOK, bucket, people, outside
<1>3. ASSUME NEW u \in Payloads, BulkUpdate(r, u)
      PROVE  Typed'
  <2>1. "read" \in Steps \ {"idle"} /\ Bulk \in Ops
    BY DEF Steps, Waiting, Ops
  <2>2. match' \in [Requests -> Nat]
    BY <1>3 DEF BulkUpdate, Typed, TypeOK, AnyMatch
  <2>3. u.given \in SUBSET Roles /\ u.lists \in Records
    BY SettingsAssumption
  <2>4. new' \in [Requests -> Records] /\ sync' \in [Requests -> SUBSET Roles]
    BY <1>3, <2>3 DEF BulkUpdate, Typed, TypeOK
  <2> QED
    BY <1>1, <1>3, <2>1, <2>2, <2>4 DEF BulkUpdate, Typed, TypeOK, bucket, people, outside
<1>4. ASSUME NEW p \in People, NEW l \in Roles \union {"none"}, InviteAccepted(r, p, l)
      PROVE  Typed'
  <2>1. /\ "snapshot" \in Steps \ {"idle"}
        /\ [kind |-> "promote", who |-> p, role |-> l] \in Ops
    BY DEF Steps, Ops
  <2> QED
    BY <1>1, <1>4, <2>1 DEF InviteAccepted, Typed, TypeOK, bucket, people, outside
<1>5. \A p \in People, l \in Roles :
         /\ [kind |-> "add", who |-> p, role |-> l] \in Ops
         /\ [kind |-> "change", who |-> p, role |-> l] \in Ops
         /\ [kind |-> "remove", who |-> p, role |-> "none"] \in Ops
  BY DEF Ops
<1>6. ASSUME NEW p \in People, NEW l \in Roles,
             Call(r, "add", p, l) \/ Call(r, "change", p, l) \/ Call(r, "remove", p, "none")
      PROVE  Typed'
  <2>1. CASE Call(r, "add", p, l)
    BY <1>2, <1>5, <2>1
  <2>2. CASE Call(r, "change", p, l)
    BY <1>2, <1>5, <2>2
  <2>3. CASE Call(r, "remove", p, "none")
    BY <1>2, <1>5, <2>3
  <2> QED
    BY <1>6, <2>1, <2>2, <2>3
<1>7. "writer" \in Roles
  BY DEF Roles
<1> QED
  BY <1>3, <1>4, <1>6, <1>7 DEF Called

(* What the computing steps have in common. *)
ComputeTyped(r) ==
    /\ pc' \in [Requests -> Steps]
    /\ \A q \in Requests :
          /\ pc'[q] = "idle" <=> pc[q] = "idle"
          /\ pc'[q] = "snapshot" =>
                pc[q] = "snapshot" \/ (op[q].kind = "promote" /\ tries[q] < Attempts)
          /\ pc'[q] = "lookup" => pc[q] = "lookup" \/ op[q].kind = "add"
    /\ base' \in [Requests -> Nat]
    /\ new' \in [Requests -> Records]
    /\ sync' \in [Requests -> SUBSET Roles]

LEMMA ComputesTyped ==
    ASSUME TypeOK, NEW r \in Requests, pc[r] # "idle"
    PROVE  /\ \A e \in Records, lists \in SUBSET Roles :
                 Compute(r, e, lists) => ComputeTyped(r)
           /\ \A s \in {"ok", "failed"} : End(r, s) => ComputeTyped(r)
           /\ Conflict(r) => ComputeTyped(r)
BY DEF TypeOK, Compute, End, Conflict, ComputeTyped, Goto, Steps, Waiting

LEMMA ReadTyped ==
    ASSUME TypeOK, NEW r \in Requests, Read(r)
    PROVE  ComputeTyped(r)
<1> DEFINE p == Person(r)
<1>1. pc[r] = "read" /\ pc[r] # "idle" /\ doc \in Records
  BY DEF Read, TypeOK
<1>2. ASSUME op[r].kind = "add", ReadForAdd(r)
      PROVE  ComputeTyped(r)
  <2>1. p \in People /\ Role(r) \in Roles
    BY <1>1, <1>2, OpShape
  <2>2. CASE Compute(r, doc, {Role(r)})
    BY <1>1, <2>1, <2>2, ComputesTyped
  <2>3. CASE End(r, "failed")
    BY <1>1, <2>3, ComputesTyped
  <2>4. CASE /\ base' = [base EXCEPT ![r] = revision]
             /\ new' = [new EXCEPT ![r] = Without(doc, p)]
             /\ sync' = [sync EXCEPT ![r] =
                           IF Held(doc, p) = {} THEN {Role(r)} ELSE Roles]
             /\ Goto(r, "lookup")
    <3>1. Without(doc, p) \in Records
      BY <1>1, <2>1, WithoutTyped
    <3>2. /\ base' \in [Requests -> Nat]
          /\ new' \in [Requests -> Records]
          /\ sync' \in [Requests -> SUBSET Roles]
      BY <2>1, <2>4, <3>1 DEF TypeOK
    <3>3. pc' = [pc EXCEPT ![r] = "lookup"] /\ "lookup" \in Steps
      BY <2>4 DEF Goto, Steps
    <3> QED
      BY <1>1, <1>2, <3>2, <3>3 DEF TypeOK, ComputeTyped
  <2> QED
    BY <1>2, <2>2, <2>3, <2>4 DEF ReadForAdd
<1>3. ASSUME op[r].kind = "change", ReadForChange(r)
      PROVE  ComputeTyped(r)
  <2> DEFINE moved == MostLive(doc, p)
             e == Placed(Without(doc, p), p, Role(r), Entry(moved.status, Role(r)))
  <2>1. p \in People /\ Role(r) \in Roles
    BY <1>1, <1>3, OpShape
  <2>2. CASE End(r, "failed") \/ End(r, "ok")
    BY <1>1, <2>2, ComputesTyped
  <2>3. CASE Held(doc, p) # {} /\ Moves(r, e)
    <3>1. moved.status \in Statuses
      BY <1>1, <2>1, <2>3, MostLiveEntry DEF Entries
    <3>2. e \in Records
      BY <1>1, <2>1, <3>1, EntryTyped, WithoutTyped, PlacedTyped
    <3> QED
      BY <1>1, <2>3, <3>2, ComputesTyped DEF Moves
  <2> QED
    BY <1>3, <2>2, <2>3 DEF ReadForChange
<1>4. ASSUME op[r].kind = "remove", ReadForRemove(r)
      PROVE  ComputeTyped(r)
  <2>1. p \in People /\ Without(doc, p) \in Records
    BY <1>1, <1>4, OpShape, WithoutTyped
  <2>2. Held(doc, p) \in SUBSET Roles
    BY DEF Held
  <2> QED
    BY <1>1, <1>4, <2>1, <2>2, ComputesTyped DEF ReadForRemove
<1>5. ASSUME ReadForUpdate(r)
      PROVE  ComputeTyped(r)
  <2>1. new[r] \in Records /\ sync[r] \in SUBSET Roles
    BY DEF TypeOK
  <2>2. [l \in Roles |-> IF l \in sync[r] THEN new[r][l] ELSE doc[l]] \in Records
    BY <1>1, <2>1, MergedTyped
  <2> QED
    BY <1>1, <1>5, <2>1, <2>2, ComputesTyped DEF ReadForUpdate
<1>6. \/ op[r].kind = "add" /\ ReadForAdd(r)
      \/ op[r].kind = "change" /\ ReadForChange(r)
      \/ op[r].kind = "remove" /\ ReadForRemove(r)
      \/ ReadForUpdate(r)
      \/ Conflict(r)
      \/ End(r, "failed")
  BY DEF Read
<1> QED
  BY <1>1, <1>2, <1>3, <1>4, <1>5, <1>6, ComputesTyped

(* A step of ComputeTyped, with the variables it does not speak of.        *)
LEMMA ComputedTyped ==
    ASSUME Typed, NEW r \in Requests, ComputeTyped(r), faults' \in 0..MaxFaults,
           doc' \in Records, revision' \in Nat,
           UNCHANGED <<people, outside, op, match, tries>>
    PROVE  Typed'
BY DEF Typed, TypeOK, InStep, ComputeTyped, people, outside

LEMMA NextTyped == ASSUME Typed, [Next]_vars PROVE Typed'
<1> USE DEF Typed
<1>1. CASE Outside
  BY <1>1, FaultTyped
  DEF Outside, Register, LoseEvent, TypeOK, InStep, bucket, people, outside, request
<1>2. ASSUME NEW r \in Requests, Called(r)
      PROVE  Typed'
  BY <1>2, CalledTyped
<1>3. ASSUME NEW r \in Requests, Serve(r)
      PROVE  Typed'
  <2>1. pc[r] # "idle" /\ op[r] \in Ops
    BY <1>3, OpShape DEF Serve, Snapshot, Read, Lookup, Write, PublishAccess, PublishIndex
  <2>2. CASE Snapshot(r)
    <3>1. faults' \in 0..MaxFaults
      BY <2>2, FaultTyped DEF Snapshot
    <3>2. ASSUME NEW l \in PendingIn(doc, Person(r)), Promotion(r, l)
          PROVE  Typed'
      <4>1. l \in Roles /\ doc[l][Person(r)].status = "pending"
        BY <3>2 DEF PendingIn
      <4>2. Person(r) \in People
        BY <2>2, OpShape DEF Snapshot, InStep
      <4>3. [doc EXCEPT ![l][Person(r)].status = "accepted"] \in Records
        BY <4>1, <4>2, AcceptedTyped DEF TypeOK
      <4>4. new' \in [Requests -> Records] /\ sync' \in [Requests -> SUBSET Roles]
        BY <3>2, <4>1, <4>3 DEF Promotion, TypeOK
      <4>5. tries[r] + 1 \in 0..Attempts
        BY <2>2 DEF Snapshot, InStep, TypeOK, Attempts
      <4>6. match' \in [Requests -> Nat] /\ tries' \in [Requests -> 0..Attempts]
        BY <3>2, <4>5 DEF Promotion, TypeOK
      <4>7. Goto(r, "read") /\ \A q \in Requests \ {r} : tries'[q] = tries[q]
        BY <3>2 DEF Promotion, TypeOK
      <4> QED
        BY <2>1, <2>2, <3>1, <4>4, <4>6, <4>7, GotoTyped
        DEF Snapshot, TypeOK, bucket, people, outside, Steps
    <3>3. CASE Goto(r, "failed") /\ UNCHANGED <<new, sync, match, tries>>
      BY <2>1, <2>2, <3>1, <3>3, GotoTyped
      DEF Snapshot, TypeOK, bucket, people, outside, Steps, Waiting
    <3> QED
      BY <2>2, <3>2, <3>3 DEF Snapshot
  <2>3. CASE Read(r)
    <3>1. faults' \in 0..MaxFaults
      BY <2>3, FaultTyped DEF Read
    <3> QED
      BY <2>3, <3>1, ReadTyped, ComputedTyped DEF Read, TypeOK, bucket
  <2>4. CASE Lookup(r)
    <3> DEFINE s == IF Person(r) \in registered THEN "accepted" ELSE "pending"
               e == Placed(new[r], Person(r), Role(r), Entry(s, Role(r)))
    <3>1. faults' \in 0..MaxFaults
      BY <2>4, FaultTyped DEF Lookup
    <3>2. Person(r) \in People /\ Role(r) \in Roles
      BY <2>4, OpShape DEF Lookup, InStep
    <3>3. s \in Statuses /\ new[r] \in Records
      BY DEF Statuses, TypeOK
    <3>4. e \in Records
      BY <3>2, <3>3, EntryTyped, PlacedTyped
    <3>5. new' \in [Requests -> Records]
      BY <2>4, <3>4 DEF Lookup, TypeOK
    <3>6. Goto(r, "write") \/ Goto(r, "failed")
      BY <2>4 DEF Lookup
    <3> QED
      BY <2>1, <2>4, <3>1, <3>5, <3>6, GotoTyped
      DEF Lookup, TypeOK, bucket, people, outside, Steps, Waiting
  <2>5. CASE Write(r)
    <3>1. faults' \in 0..MaxFaults
      BY <2>5, FaultTyped DEF Write
    <3>2. CASE /\ base[r] = revision
               /\ doc' = new[r]
               /\ revision' = revision + 1
               /\ Goto(r, "access") \/ Goto(r, "failed")
               /\ UNCHANGED <<base, new, sync>>
      BY <2>1, <2>5, <3>1, <3>2, GotoTyped
      DEF Write, TypeOK, people, outside, Steps, Waiting
    <3>3. CASE Conflict(r) /\ UNCHANGED bucket
      BY <2>1, <2>5, <3>1, <3>3, ComputesTyped, ComputedTyped DEF Write, TypeOK, bucket
    <3>4. CASE End(r, "failed") /\ UNCHANGED bucket
      BY <2>1, <2>5, <3>1, <3>4, ComputesTyped, ComputedTyped DEF Write, TypeOK, bucket
    <3> QED
      BY <2>5, <3>2, <3>3, <3>4 DEF Write
  <2>6. CASE PublishAccess(r)
    <3>1. faults' \in 0..MaxFaults
      BY <2>6, FaultTyped DEF PublishAccess
    <3>2. fga' \in [Roles -> SUBSET People]
      BY <2>6 DEF PublishAccess, TypeOK, Active
    <3>3. Goto(r, "index") \/ Goto(r, "ok")
      BY <2>6 DEF PublishAccess
    <3> QED
      BY <2>1, <2>6, <3>1, <3>2, <3>3, GotoTyped
      DEF PublishAccess, TypeOK, bucket, people, Steps, Waiting
  <2>7. CASE PublishIndex(r)
    <3>1. faults' \in 0..MaxFaults
      BY <2>7, FaultTyped DEF PublishIndex
    <3>2. index' \in Records
      BY <2>7 DEF PublishIndex, TypeOK
    <3> QED
      BY <2>1, <2>7, <3>1, <3>2, GotoTyped
      DEF PublishIndex, TypeOK, bucket, people, Steps, Waiting
  <2> QED
    BY <1>3, <2>2, <2>3, <2>4, <2>5, <2>6, <2>7 DEF Serve
<1>4. CASE UNCHANGED vars
  BY <1>4 DEF TypeOK, InStep, vars, bucket, people, outside, request
<1> QED
  BY <1>1, <1>2, <1>3, <1>4 DEF Next

(* The state keeps its shape, whatever the number of requests, the bulk    *)
(* updates and the failures.                                               *)
THEOREM TypeCorrect == Spec => []TypeOK
<1>1. Init => Typed
  BY InitTyped
<1>2. Typed /\ [Next]_vars => Typed'
  BY NextTyped
<1>3. Typed => TypeOK
  BY DEF Typed
<1> QED
  BY <1>1, <1>2, <1>3, PTL DEF Spec

----------------------------------------------------------------------------
(***************************************************************************)
(* Every change is one whole operation on the current document.            *)
(***************************************************************************)

(* From d, e is what the operation of request r promises.                  *)
Whole(r, d, e) ==
    \/ e = d
    \/ op[r].kind = "add" /\ Record!Added(d, e, Person(r), Role(r))
    \/ op[r].kind = "change" /\ Record!Moved(d, e, Person(r), Role(r))
    \/ op[r].kind = "remove" /\ Record!Removed(d, e, Person(r))
    \/ op[r].kind = "promote" /\ Record!Promoted(d, e, Person(r))
    \/ op[r] = Bulk /\ \E u \in Payloads : Record!Replaced(d, e, u.given, u.lists)

(* While the document is still the one a request read, what it computed    *)
(* from it is right for the stored document.  A promotion brings its       *)
(* document from an earlier read and the revision it was read at.          *)
Current(r) ==
    /\ base[r] <= revision
    /\ pc[r] = "write" /\ base[r] = revision => Whole(r, doc, new[r])
    /\ pc[r] = "lookup" /\ base[r] = revision =>
          /\ \A k \in Roles : ~Live(doc[k][Person(r)])
          /\ new[r] = Without(doc, Person(r))
    /\ pc[r] = "read" /\ op[r] = Bulk =>
          \E u \in Payloads : new[r] = u.lists /\ sync[r] = u.given
    /\ pc[r] = "read" /\ op[r].kind = "promote" =>
          /\ match[r] # AnyMatch
          /\ match[r] <= revision
          /\ match[r] = revision =>
                \E l \in Roles : /\ doc[l][Person(r)].status = "pending"
                                 /\ new[r] = [doc EXCEPT ![l][Person(r)].status = "accepted"]
                                 /\ sync[r] = {l}

(* No revision means no document. *)
Unwritten == revision = 0 => doc = EmptyRecord

IInv == Typed /\ Unwritten /\ \A r \in Requests : Current(r)

(* The abstract specification counts a list as the detailed one does. *)
LEMMA SameCap ==
    ASSUME NEW d, NEW l
    PROVE  Record!WithinCap(d, l) <=> WithinCap(d, l)
<1>1. Record!Members(d, l) = Members(d, l)
  BY DEF Record!Members, Members, Record!Absent, Absent
<1>2. Record!Cardinality(Members(d, l)) = Cardinality(Members(d, l))
  BY DEF Record!Cardinality, Cardinality
<1> QED
  BY <1>1, <1>2 DEF Record!WithinCap, WithinCap

LEMMA PlacedWithout ==
    ASSUME NEW d \in Records, NEW p \in People, NEW l \in Roles, NEW e \in Entries,
           NEW x, x = Placed(Without(d, p), p, l, e)
    PROVE  Record!OthersKept(d, x, p) /\ Record!OnlyIn(x, p, l) /\ x[l][p] = e
<1>1. Without(d, p) \in Records
  BY WithoutTyped
<1>2. x \in Records
  BY <1>1, PlacedTyped
<1>3. \A k \in Roles, q \in People :
         x[k][q] = IF q = p THEN (IF k = l THEN e ELSE Absent) ELSE d[k][q]
  BY <1>1 DEF Placed, Without, Records, Lists
<1>4. e # Absent
  BY DEF Entries, Absent, Statuses
<1> QED
  BY <1>3, <1>4 DEF Record!OthersKept, Record!OnlyIn, Record!Absent, Absent,
                    Record!Roles, Roles

LEMMA WithoutRemoved ==
    ASSUME NEW d \in Records, NEW p \in People, Held(d, p) # {},
           KeepsAdmin(d, Without(d, p))
    PROVE  Record!Removed(d, Without(d, p), p)
<1>1. \A k \in Roles, q \in People :
         Without(d, p)[k][q] = IF q = p THEN Absent ELSE d[k][q]
  BY DEF Without, Records, Lists
<1> QED
  BY <1>1 DEF Held, KeepsAdmin, Admins, Active, Record!Removed, Record!OthersKept,
              Record!KeepsAdmin, Record!Admins, Record!Active, Record!Absent, Absent,
              Record!Roles, Roles

(* A request that takes no step, while the document stays or is replaced.  *)
LEMMA BesideKept ==
    ASSUME IInv, NEW q \in Requests,
           pc'[q] = pc[q], op'[q] = op[q], match'[q] = match[q], base'[q] = base[q],
           new'[q] = new[q], sync'[q] = sync[q],
           UNCHANGED bucket \/ revision' = revision + 1
    PROVE  Current(q)'
<1>1. revision \in Nat /\ base[q] \in Nat /\ match[q] \in Nat
  BY DEF IInv, Typed, TypeOK
<1>2. CASE UNCHANGED bucket
  BY <1>2 DEF IInv, Current, Whole, Person, Role, bucket
<1>3. CASE revision' = revision + 1
  <2>1. base[q] <= revision /\ base[q] # revision' /\ base[q] <= revision'
    BY <1>1, <1>3 DEF IInv, Current
  <2>2. pc[q] = "read" /\ op[q].kind = "promote" =>
           match[q] # AnyMatch /\ match[q] # revision' /\ match[q] <= revision'
    BY <1>1, <1>3 DEF IInv, Current
  <2> QED
    BY <2>1, <2>2 DEF IInv, Current
<1> QED
  BY <1>2, <1>3

(* Nothing is asked of a request that waits or publishes.                  *)
LEMMA SettledCurrent ==
    ASSUME NEW r \in Requests, pc'[r] \notin {"read", "lookup", "write"},
           base'[r] <= revision'
    PROVE  Current(r)'
BY DEF Current

LEMMA InitIInv == ASSUME Init PROVE IInv
<1>1. Unwritten /\ revision \in Nat
  BY DEF Init, Unwritten
<1>2. \A r \in Requests : Current(r)
  BY <1>1 DEF Init, Current
<1> QED
  BY <1>1, <1>2, InitTyped DEF IInv

LEMMA CalledKept ==
    ASSUME IInv, NEW r \in Requests, Called(r)
    PROVE  Current(r)'
<1>1. base' = base /\ UNCHANGED bucket /\ base[r] <= revision
  BY DEF IInv, Current, Called, Call, BulkUpdate, InviteAccepted, Arrive
<1>2. ASSUME NEW o, NEW s, Arrive(r, o, s)
      PROVE  pc'[r] = s /\ op'[r] = o
  BY <1>2 DEF IInv, Typed, TypeOK, Arrive, Goto
<1>3. ASSUME NEW p, NEW l, Call(r, "add", p, l) \/ Call(r, "change", p, l)
                             \/ Call(r, "remove", p, l)
      PROVE  Current(r)'
  BY <1>1, <1>2, <1>3 DEF Call, Current, Bulk, bucket
<1>4. ASSUME NEW u \in Payloads, BulkUpdate(r, u)
      PROVE  Current(r)'
  <2>1. new'[r] = u.lists /\ sync'[r] = u.given
    BY <1>4 DEF BulkUpdate, IInv, Typed, TypeOK
  <2>2. pc'[r] = "read" /\ op'[r] = Bulk
    BY <1>2, <1>4 DEF BulkUpdate
  <2> QED
    BY <1>1, <2>1, <2>2 DEF Current, Bulk, bucket
<1>5. ASSUME NEW p, NEW l, InviteAccepted(r, p, l)
      PROVE  Current(r)'
  BY <1>1, <1>2, <1>5, SettledCurrent DEF InviteAccepted, bucket
<1> QED
  BY <1>3, <1>4, <1>5 DEF Called

(* A request on its way to the write of what it computed. *)
LEMMA WritingCurrent ==
    ASSUME NEW r \in Requests, UNCHANGED <<bucket, op>>, pc'[r] = "write",
           base'[r] <= revision, base'[r] = revision => Whole(r, doc, new'[r])
    PROVE  Current(r)'
BY DEF Current, Whole, Person, Role, bucket

(* A request that computes e from the document it has just read.           *)
LEMMA ComputeCurrent ==
    ASSUME IInv, NEW r \in Requests, NEW e, NEW lists, Compute(r, e, lists),
           UNCHANGED <<bucket, op>>, Whole(r, doc, e)
    PROVE  Current(r)'
<1>1. pc'[r] = "write" /\ base'[r] = revision /\ new'[r] = e /\ revision \in Nat
  BY DEF Compute, Goto, IInv, Typed, TypeOK
<1> QED
  BY <1>1 DEF Current, Whole, Person, Role, bucket

LEMMA EndCurrent ==
    ASSUME IInv, NEW r \in Requests, End(r, "ok") \/ End(r, "failed"), UNCHANGED bucket
    PROVE  Current(r)'
<1>1. pc'[r] \in {"ok", "failed"} /\ base' = base /\ base[r] <= revision
  BY DEF End, Goto, IInv, Typed, TypeOK, Current
<1> QED
  BY <1>1, SettledCurrent DEF bucket

LEMMA ConflictCurrent ==
    ASSUME IInv, NEW r \in Requests, Conflict(r), UNCHANGED bucket
    PROVE  Current(r)'
<1>1. pc'[r] \in {"snapshot", "failed"} /\ base' = base /\ base[r] <= revision
  BY DEF Conflict, Goto, IInv, Typed, TypeOK, Current
<1> QED
  BY <1>1, SettledCurrent DEF bucket

LEMMA ReadKept ==
    ASSUME IInv, NEW r \in Requests, Read(r)
    PROVE  Current(r)'
<1> DEFINE p == Person(r)
<1>1. /\ pc[r] = "read" /\ doc \in Records
      /\ revision \in Nat /\ TypeOK
      /\ UNCHANGED <<bucket, op>>
  BY DEF Read, IInv, Typed, TypeOK
<1>2. ASSUME op[r].kind = "add", ReadForAdd(r)
      PROVE  Current(r)'
  <2>1. CASE Compute(r, doc, {Role(r)})
    BY <1>1, <2>1, ComputeCurrent DEF Whole
  <2>2. CASE End(r, "failed")
    BY <1>1, <2>2, EndCurrent
  <2>3. CASE /\ \A l \in Roles : ~Live(doc[l][p])
             /\ base' = [base EXCEPT ![r] = revision]
             /\ new' = [new EXCEPT ![r] = Without(doc, p)]
             /\ Goto(r, "lookup")
    <3>1. base'[r] = revision /\ new'[r] = Without(doc, p) /\ pc'[r] = "lookup"
      BY <1>1, <2>3 DEF TypeOK, Goto
    <3> QED
      BY <1>1, <2>3, <3>1 DEF Current, Person, bucket
  <2> QED
    BY <1>2, <2>1, <2>2, <2>3 DEF ReadForAdd
<1>3. ASSUME op[r].kind = "change", ReadForChange(r)
      PROVE  Current(r)'
  <2> DEFINE moved == MostLive(doc, p)
             y == Entry(moved.status, Role(r))
             e == Placed(Without(doc, p), p, Role(r), y)
  <2>1. p \in People /\ Role(r) \in Roles
    BY <1>1, <1>3, OpShape
  <2>2. CASE End(r, "failed") \/ End(r, "ok")
    BY <1>1, <2>2, EndCurrent
  <2>3. CASE Held(doc, p) # {} /\ Moves(r, e)
    <3>1. CASE End(r, "failed")
      BY <1>1, <3>1, EndCurrent
    <3>2. CASE WithinCap(e, Role(r)) /\ KeepsAdmin(doc, e) /\ Compute(r, e, Roles)
      <4>1. moved \in Entries /\ moved.status \in Statuses
        BY <1>1, <2>1, <2>3, MostLiveEntry DEF Entries
      <4>2. y \in Entries /\ y.status = moved.status
        BY <2>1, <4>1, EntryTyped DEF Entry
      <4>3. /\ Record!OthersKept(doc, e, p)
            /\ Record!OnlyIn(e, p, Role(r))
            /\ e[Role(r)][p] = y
        BY <1>1, <2>1, <4>2, PlacedWithout
      <4>4. \E k \in Roles : y.status = doc[k][p].status
        BY <1>1, <2>1, <2>3, <4>2, MostLiveEntry
      <4>5. Liveness(y) = Liveness(moved)
        BY <4>2 DEF Liveness
      <4>6. \A k \in Roles : Liveness(doc[k][p]) <= Liveness(y)
        BY <1>1, <2>1, <2>3, <4>5, MostLiveEntry
      <4>7. \A k \in Roles : Record!Liveness(doc[k][p]) <= Record!Liveness(y)
        BY <4>6 DEF Record!Liveness, Liveness
      <4>8. Record!WithinCap(e, Role(r)) /\ Record!KeepsAdmin(doc, e)
        BY <3>2, SameCap DEF Record!KeepsAdmin, KeepsAdmin, Record!Admins, Admins,
                             Record!Active, Active
      <4>9. Record!Moved(doc, e, p, Role(r))
        BY <4>3, <4>4, <4>7, <4>8 DEF Record!Moved, Record!Roles, Roles
      <4> QED
        BY <1>1, <1>3, <3>2, <4>9, ComputeCurrent DEF Whole
    <3> QED
      BY <2>3, <3>1, <3>2 DEF Moves
  <2> QED
    BY <1>3, <2>2, <2>3 DEF ReadForChange
<1>4. ASSUME op[r].kind = "remove", ReadForRemove(r)
      PROVE  Current(r)'
  <2>1. p \in People
    BY <1>1, <1>4, OpShape
  <2>2. CASE End(r, "failed")
    BY <1>1, <2>2, EndCurrent
  <2>3. CASE /\ Held(doc, p) # {} /\ KeepsAdmin(doc, Without(doc, p))
             /\ Compute(r, Without(doc, p), Held(doc, p))
    <3>1. Record!Removed(doc, Without(doc, p), p)
      BY <1>1, <2>1, <2>3, WithoutRemoved
    <3> QED
      BY <1>1, <1>4, <2>3, <3>1, ComputeCurrent DEF Whole
  <2> QED
    BY <1>4, <2>2, <2>3 DEF ReadForRemove
<1>5. ASSUME op[r].kind \notin {"add", "change", "remove"}, ReadForUpdate(r), Matches(r)
      PROVE  Current(r)'
  <2> DEFINE e == [l \in Roles |-> IF l \in sync[r] THEN new[r][l] ELSE doc[l]]
  <2>1. CASE End(r, "failed")
    BY <1>1, <2>1, EndCurrent
  <2>2. CASE (\A l \in sync[r] : WithinCap(new[r], l)) /\ Compute(r, e, sync[r])
    <3>1. CASE op[r].kind = "promote"
      <4>1. match[r] # AnyMatch /\ match[r] = revision
        BY <1>1, <1>5, <3>1 DEF IInv, Current, Matches
      <4>2. PICK k \in Roles : /\ doc[k][p].status = "pending"
                               /\ new[r] = [doc EXCEPT ![k][p].status = "accepted"]
                               /\ sync[r] = {k}
        BY <1>1, <3>1, <4>1 DEF IInv, Current
      <4>3. e = new[r]
        BY <1>1, <4>2 DEF Records
      <4>4. Record!Promoted(doc, e, p)
        BY <4>2, <4>3 DEF Record!Promoted, Record!Roles, Roles
      <4> QED
        BY <1>1, <2>2, <3>1, <4>4, ComputeCurrent DEF Whole
    <3>2. CASE op[r] = Bulk
      <4>1. PICK u \in Payloads : new[r] = u.lists /\ sync[r] = u.given
        BY <1>1, <3>2 DEF IInv, Current
      <4>2. \A l \in Roles : IF l \in u.given THEN e[l] = u.lists[l] ELSE e[l] = doc[l]
        BY <4>1
      <4>3. \A l \in u.given : WithinCap(u.lists, l)
        BY <2>2, <4>1
      <4>4. \A l \in Roles : l \in u.given => Record!WithinCap(e, l)
        <5> SUFFICES ASSUME NEW l \in Roles, l \in u.given
                     PROVE  WithinCap(e, l)
          BY SameCap
        <5>1. e[l] = u.lists[l]
          BY <4>2
        <5> QED
          BY <4>3, <5>1 DEF WithinCap, Members
      <4>5. Record!Replaced(doc, e, u.given, u.lists)
        BY <4>2, <4>4 DEF Record!Replaced, Record!Roles, Roles
      <4> QED
        BY <1>1, <2>2, <3>2, <4>5, ComputeCurrent DEF Whole
    <3> QED
      BY <1>1, <1>5, <3>1, <3>2, OpShape
  <2> QED
    BY <1>5, <2>1, <2>2 DEF ReadForUpdate
<1>6. \/ op[r].kind = "add" /\ ReadForAdd(r)
      \/ op[r].kind = "change" /\ ReadForChange(r)
      \/ op[r].kind = "remove" /\ ReadForRemove(r)
      \/ op[r].kind \notin {"add", "change", "remove"} /\ ReadForUpdate(r) /\ Matches(r)
      \/ Conflict(r)
      \/ End(r, "failed")
  BY DEF Read
<1> QED
  BY <1>1, <1>2, <1>3, <1>4, <1>5, <1>6, ConflictCurrent, EndCurrent

LEMMA LookupKept ==
    ASSUME IInv, NEW r \in Requests, Lookup(r)
    PROVE  Current(r)'
<1> DEFINE p == Person(r)
           l == Role(r)
           y == Entry(IF p \in registered THEN "accepted" ELSE "pending", l)
           e == Placed(new[r], p, l, y)
<1>1. /\ pc[r] = "lookup" /\ op[r].kind = "add"
      /\ p \in People /\ l \in Roles /\ doc \in Records
      /\ UNCHANGED <<bucket, op, base>>
      /\ base[r] <= revision
  BY OpShape DEF Lookup, IInv, Typed, TypeOK, InStep, Current
<1>2. CASE Goto(r, "failed")
  BY <1>1, <1>2, SettledCurrent DEF Goto, bucket, IInv, Typed, TypeOK
<1>3. CASE WithinCap(e, l) /\ new' = [new EXCEPT ![r] = e] /\ Goto(r, "write")
  <2>1. pc'[r] = "write" /\ new'[r] = e
    BY <1>3 DEF Goto, IInv, Typed, TypeOK
  <2>2. ASSUME base[r] = revision
        PROVE  Record!Added(doc, e, p, l)
    <3>1. new[r] = Without(doc, p) /\ \A k \in Roles : ~Live(doc[k][p])
      BY <1>1, <2>2 DEF IInv, Current
    <3>2. y \in Entries /\ Live(y)
      BY <1>1 DEF Entry, Entries, Statuses, Live
    <3>3. Record!OthersKept(doc, e, p) /\ Record!OnlyIn(e, p, l) /\ e[l][p] = y
      BY <1>1, <3>1, <3>2, PlacedWithout
    <3>4. Record!WithinCap(e, l)
      BY <1>3, SameCap
    <3> QED
      BY <3>1, <3>2, <3>3, <3>4 DEF Record!Added, Record!Live, Live, Record!Roles, Roles
  <2>3. base[r] = revision => Whole(r, doc, e)
    BY <1>1, <2>2 DEF Whole
  <2>4. base'[r] = base[r]
    BY <1>1
  <2> QED
    BY <1>1, <2>1, <2>3, <2>4, WritingCurrent
<1> QED
  BY <1>2, <1>3 DEF Lookup

LEMMA SnapshotKept ==
    ASSUME IInv, NEW r \in Requests, Snapshot(r)
    PROVE  Current(r)'
<1> DEFINE p == Person(r)
<1>1. /\ pc[r] = "snapshot" /\ op[r].kind = "promote" /\ p \in People
      /\ UNCHANGED <<bucket, op, base>>
      /\ base[r] <= revision /\ revision \in Nat
  BY OpShape DEF Snapshot, IInv, Typed, TypeOK, InStep, Current
<1>2. CASE Goto(r, "failed")
  BY <1>1, <1>2, SettledCurrent DEF Goto, bucket, IInv, Typed, TypeOK
<1>3. ASSUME NEW l \in PendingIn(doc, p), Promotion(r, l)
      PROVE  Current(r)'
  <2>1. l \in Roles /\ doc[l][p].status = "pending"
    BY DEF PendingIn
  <2>2. /\ pc'[r] = "read" /\ match'[r] = revision
        /\ new'[r] = [doc EXCEPT ![l][p].status = "accepted"] /\ sync'[r] = {l}
    BY <1>3 DEF Promotion, Goto, IInv, Typed, TypeOK
  <2>3. EmptyRecord[l][p].status # "pending"
    BY <1>1, <2>1 DEF EmptyRecord, Absent
  <2>4. revision # AnyMatch
    BY <2>1, <2>3 DEF IInv, Unwritten, AnyMatch
  <2>5. /\ doc' = doc /\ revision' = revision /\ op'[r].kind = "promote"
        /\ Person(r)' = p /\ op'[r] # Bulk /\ base'[r] <= revision'
    BY <1>1 DEF Person, Bulk, bucket
  <2> HIDE DEF p
  <2>6. \E k \in Roles : /\ doc'[k][p].status = "pending"
                         /\ new'[r] = [doc' EXCEPT ![k][p].status = "accepted"]
                         /\ sync'[r] = {k}
    BY <2>1, <2>2, <2>5
  <2>7. match'[r] # AnyMatch /\ match'[r] <= revision'
    BY <1>1, <2>2, <2>4, <2>5
  <2> QED
    BY <2>2, <2>5, <2>6, <2>7 DEF Current
<1> QED
  BY <1>2, <1>3 DEF Snapshot

LEMMA WriteKept ==
    ASSUME IInv, NEW r \in Requests, Write(r)
    PROVE  Current(r)'
<1>1. revision \in Nat /\ base[r] <= revision
  BY DEF IInv, Typed, TypeOK, Current
<1>2. CASE /\ revision' = revision + 1
           /\ Goto(r, "access") \/ Goto(r, "failed")
           /\ UNCHANGED base
  <2>1. base'[r] <= revision'
    BY <1>1, <1>2 DEF IInv, Typed, TypeOK
  <2>2. pc'[r] \in {"access", "failed"}
    BY <1>2 DEF Goto, IInv, Typed, TypeOK
  <2> QED
    BY <2>1, <2>2, SettledCurrent
<1>3. CASE Conflict(r) /\ UNCHANGED bucket
  BY <1>3, ConflictCurrent
<1>4. CASE End(r, "failed") /\ UNCHANGED bucket
  BY <1>4, EndCurrent
<1> QED
  BY <1>2, <1>3, <1>4 DEF Write

LEMMA PublishKept ==
    ASSUME IInv, NEW r \in Requests, PublishAccess(r) \/ PublishIndex(r)
    PROVE  Current(r)'
<1>1. pc'[r] \in {"index", "ok"}
  BY DEF PublishAccess, PublishIndex, Goto, IInv, Typed, TypeOK
<1>2. base'[r] <= revision'
  BY DEF PublishAccess, PublishIndex, bucket, IInv, Current
<1> QED
  BY <1>1, <1>2, SettledCurrent

(* A write leaves the bucket alone or raises its revision.                 *)
LEMMA BucketStep ==
    ASSUME IInv, [Next]_vars
    PROVE  (UNCHANGED bucket \/ revision' = revision + 1) /\ Unwritten'
<1>1. UNCHANGED bucket \/ revision' = revision + 1
  BY DEF Next, Outside, Register, LoseEvent, Called, Call, BulkUpdate, InviteAccepted, Arrive,
         Serve, Snapshot, Read, Lookup, Write, PublishAccess, PublishIndex, vars, bucket
<1>2. revision \in Nat
  BY DEF IInv, Typed, TypeOK
<1> QED
  BY <1>1, <1>2 DEF IInv, Unwritten, bucket

(* A request's step touches the fields of no other request. *)
LEMMA OneRequestSteps ==
    ASSUME TypeOK, NEW r \in Requests, Called(r) \/ Serve(r), NEW q \in Requests \ {r}
    PROVE  /\ pc'[q] = pc[q] /\ op'[q] = op[q] /\ match'[q] = match[q]
           /\ base'[q] = base[q] /\ new'[q] = new[q] /\ sync'[q] = sync[q]
<1>1. CASE Called(r)
  BY <1>1 DEF TypeOK, Called, Call, BulkUpdate, InviteAccepted, Arrive, Goto
<1>2. CASE Snapshot(r)
  BY <1>2 DEF TypeOK, Snapshot, Promotion, Goto
<1>3. CASE Read(r)
  <2>1. /\ \A e, lists : Compute(r, e, lists) =>
              /\ pc'[q] = pc[q] /\ base'[q] = base[q]
              /\ new'[q] = new[q] /\ sync'[q] = sync[q]
        /\ \A s : End(r, s) =>
              /\ pc'[q] = pc[q] /\ base'[q] = base[q]
              /\ new'[q] = new[q] /\ sync'[q] = sync[q]
    BY DEF TypeOK, Compute, End, Goto
  <2>2. ReadForAdd(r) => /\ pc'[q] = pc[q] /\ base'[q] = base[q]
                         /\ new'[q] = new[q] /\ sync'[q] = sync[q]
    BY <2>1 DEF TypeOK, ReadForAdd, Goto
  <2>3. ReadForChange(r) \/ ReadForRemove(r) \/ ReadForUpdate(r) =>
              /\ pc'[q] = pc[q] /\ base'[q] = base[q]
              /\ new'[q] = new[q] /\ sync'[q] = sync[q]
    BY <2>1 DEF ReadForChange, Moves, ReadForRemove, ReadForUpdate
  <2>4. Conflict(r) => /\ pc'[q] = pc[q] /\ base'[q] = base[q]
                       /\ new'[q] = new[q] /\ sync'[q] = sync[q]
    BY DEF TypeOK, Conflict, Goto
  <2>5. op' = op /\ match' = match
    BY <1>3 DEF Read
  <2>6. \/ ReadForAdd(r)
        \/ ReadForChange(r) \/ ReadForRemove(r) \/ ReadForUpdate(r)
        \/ Conflict(r)
        \/ End(r, "failed")
    BY <1>3 DEF Read
  <2> QED
    BY <2>1, <2>2, <2>3, <2>4, <2>5, <2>6
<1>4. CASE Lookup(r)
  BY <1>4 DEF TypeOK, Lookup, Goto
<1>5. CASE Write(r)
  BY <1>5 DEF TypeOK, Write, Conflict, End, Goto
<1>6. CASE PublishAccess(r) \/ PublishIndex(r)
  BY <1>6 DEF TypeOK, PublishAccess, PublishIndex, Goto
<1> QED
  BY <1>1, <1>2, <1>3, <1>4, <1>5, <1>6 DEF Serve

LEMMA NextIInv == ASSUME IInv, [Next]_vars PROVE IInv'
<1>1. Typed' /\ Unwritten'
  BY NextTyped, BucketStep DEF IInv
<1>2. ASSUME UNCHANGED <<bucket, request>>, NEW q \in Requests
      PROVE  Current(q)'
  BY <1>2, BesideKept DEF request
<1>3. ASSUME NEW r \in Requests, Called(r) \/ Serve(r), NEW q \in Requests
      PROVE  Current(q)'
  <2>1. CASE q = r
    BY <1>3, <2>1, CalledKept, SnapshotKept, ReadKept, LookupKept, WriteKept, PublishKept
    DEF Serve
  <2>2. CASE q # r
    <3>1. TypeOK
      BY DEF IInv, Typed
    <3> QED
      BY <1>3, <2>2, <3>1, BucketStep, BesideKept, OneRequestSteps
  <2> QED
    BY <2>1, <2>2
<1>4. Outside \/ UNCHANGED vars => UNCHANGED <<bucket, request>>
  BY DEF Outside, Register, LoseEvent, vars
<1> QED
  BY <1>1, <1>2, <1>3, <1>4 DEF IInv, Next

----------------------------------------------------------------------------
(* A change of the document is the write of a request whose result is      *)
(* whole with respect to the document it replaces.                         *)
LEMMA WholeWrite ==
    ASSUME IInv, [Next]_vars, doc' # doc
    PROVE  /\ doc' \in Records
           /\ \E r \in Requests : pc[r] = "write" /\ Whole(r, doc, doc')
<1>1. PICK r \in Requests : Write(r)
  BY DEF Next, Outside, Register, LoseEvent, Called, Call, BulkUpdate, InviteAccepted, Arrive,
         Serve, Snapshot, Read, Lookup, PublishAccess, PublishIndex, vars, bucket
<1>2. pc[r] = "write" /\ base[r] = revision /\ doc' = new[r]
  BY <1>1 DEF Write, bucket
<1>3. Whole(r, doc, new[r])
  BY <1>2 DEF IInv, Current
<1>4. new[r] \in Records
  BY DEF IInv, Typed, TypeOK
<1> QED
  BY <1>2, <1>3, <1>4

LEMMA StepsAtomic ==
    ASSUME IInv, [Next]_vars
    PROVE  [Record!Next]_doc
<1>1. SUFFICES ASSUME doc' # doc PROVE Record!Next
  OBVIOUS
<1>2. doc' \in Record!Records
  BY <1>1, WholeWrite DEF Record!Records, Record!Lists, Record!Entries, Record!Statuses,
     Record!Roles, Record!Absent, Records, Lists, Entries, Statuses, Roles, Absent
<1>3. PICK r \in Requests : pc[r] = "write" /\ Whole(r, doc, doc')
  BY <1>1, WholeWrite
<1>4. TypeOK /\ pc[r] # "idle"
  BY <1>3 DEF IInv, Typed
<1>5. CASE op[r].kind = "add" /\ Record!Added(doc, doc', Person(r), Role(r))
  BY <1>2, <1>4, <1>5, OpShape DEF Record!Next, Record!Add, Record!Roles, Roles
<1>6. CASE op[r].kind = "change" /\ Record!Moved(doc, doc', Person(r), Role(r))
  BY <1>2, <1>4, <1>6, OpShape DEF Record!Next, Record!Move, Record!Roles, Roles
<1>7. CASE op[r].kind = "remove" /\ Record!Removed(doc, doc', Person(r))
  BY <1>2, <1>4, <1>7, OpShape DEF Record!Next, Record!Remove
<1>8. CASE op[r].kind = "promote" /\ Record!Promoted(doc, doc', Person(r))
  BY <1>2, <1>4, <1>8, OpShape DEF Record!Next, Record!Promote
<1>9. CASE \E u \in Payloads : Record!Replaced(doc, doc', u.given, u.lists)
  BY <1>2, <1>9 DEF Record!Next, Record!Replace
<1> QED
  BY <1>1, <1>3, <1>5, <1>6, <1>7, <1>8, <1>9 DEF Whole

(* Every change of the document is one whole operation on the document it  *)
(* replaces: the compare-and-set write of UpdateSettings makes each        *)
(* operation atomic, however many run at the same time.                    *)
THEOREM OperationsAreAtomic == Spec => Atomic
<1>1. Init => IInv
  BY InitIInv
<1>2. IInv /\ [Next]_vars => IInv'
  BY NextIInv
<1>3. Init => Record!Init
  BY DEF Init, Record!Init
<1>4. IInv /\ [Next]_vars => [Record!Next]_doc
  BY StepsAtomic
<1> QED
  BY <1>1, <1>2, <1>3, <1>4, PTL DEF Spec, Atomic, Record!Spec

----------------------------------------------------------------------------
(***************************************************************************)
(* What follows for the last admin and for the size of the lists.          *)
(***************************************************************************)

(* The operations on one principal never take the last admin away.         *)
LEMMA AdminKept ==
    ASSUME NEW d \in Records, NEW e, NEW p \in People, NEW l \in Roles,
           \/ Record!Added(d, e, p, l)
           \/ Record!Moved(d, e, p, l)
           \/ Record!Removed(d, e, p)
           \/ Record!Promoted(d, e, p)
    PROVE  KeepsAdmin(d, e)
<1>1. CASE Record!Added(d, e, p, l)
  <2>1. \A q \in People \ {p} : e["writer"][q] = d["writer"][q]
    BY <1>1 DEF Record!Added, Record!OthersKept, Record!Roles
  <2>2. d["writer"][p].status # "accepted"
    BY <1>1 DEF Record!Added, Record!Live, Record!Roles
  <2> QED
    BY <2>1, <2>2 DEF KeepsAdmin, Admins, Active
<1>2. CASE Record!Moved(d, e, p, l) \/ Record!Removed(d, e, p)
  BY <1>2 DEF Record!Moved, Record!Removed, Record!KeepsAdmin, Record!Admins, Record!Active,
              KeepsAdmin, Admins, Active
<1>3. CASE Record!Promoted(d, e, p)
  <2>1. PICK k \in Roles : /\ d[k][p].status = "pending"
                           /\ e = [d EXCEPT ![k][p].status = "accepted"]
    BY <1>3 DEF Record!Promoted, Record!Roles, Roles
  <2>2. PICK x \in Entries : e = Placed(d, p, k, x)
    BY <2>1, AcceptedTyped
  <2>3. \A q \in People \ {p} : e["writer"][q] = d["writer"][q]
    BY <2>2 DEF Placed, Records, Lists, Roles
  <2>4. k # "writer" => e["writer"][p] = d["writer"][p]
    BY <2>2 DEF Placed, Records, Lists, Roles
  <2>5. k = "writer" => d["writer"][p].status # "accepted"
    BY <2>1
  <2> QED
    BY <2>3, <2>4, <2>5 DEF KeepsAdmin, Admins, Active
<1> QED
  BY <1>1, <1>2, <1>3

(* No step but the write of a bulk update leaves an organization that had  *)
(* an accepted admin without one, although each request checks a document  *)
(* it read before others wrote.                                            *)
THEOREM LastAdminKept == Spec => LastAdmin
<1> DEFINE Kept == KeepsAdmin(doc, doc') \/ \E r \in Requests : op[r] = Bulk /\ pc[r] = "write"
<1>1. ASSUME IInv, [Next]_vars
      PROVE  Kept
  <2>1. CASE doc' = doc
    BY <2>1 DEF KeepsAdmin
  <2>2. CASE doc' # doc
    <3>1. PICK r \in Requests : pc[r] = "write" /\ Whole(r, doc, doc')
      BY <1>1, <2>2, WholeWrite
    <3>2. TypeOK /\ pc[r] # "idle" /\ doc \in Records
      BY <1>1, <3>1 DEF IInv, Typed, TypeOK
    <3>3. "writer" \in Roles
      BY DEF Roles
    <3>4. CASE op[r].kind = "add" /\ Record!Added(doc, doc', Person(r), Role(r))
      BY <3>2, <3>4, OpShape, AdminKept
    <3>5. CASE op[r].kind = "change" /\ Record!Moved(doc, doc', Person(r), Role(r))
      BY <3>2, <3>5, OpShape, AdminKept
    <3>6. CASE op[r].kind = "remove" /\ Record!Removed(doc, doc', Person(r))
      BY <3>2, <3>3, <3>6, OpShape, AdminKept
    <3>7. CASE op[r].kind = "promote" /\ Record!Promoted(doc, doc', Person(r))
      BY <3>2, <3>3, <3>7, OpShape, AdminKept
    <3> QED
      BY <2>2, <3>1, <3>4, <3>5, <3>6, <3>7 DEF Whole
  <2> QED
    BY <2>1, <2>2
<1>2. Init => IInv
  BY InitIInv
<1>3. IInv /\ [Next]_vars => IInv'
  BY NextIInv
<1>4. IInv /\ [Next]_vars => [Kept]_vars
  BY <1>1
<1> QED
  BY <1>2, <1>3, <1>4, PTL DEF Spec, LastAdmin

(* A list that loses entries or keeps them stays within its cap.           *)
LEMMA SmallerList ==
    ASSUME NEW d, NEW e, NEW l, WithinCap(d, l), Members(e, l) \subseteq Members(d, l)
    PROVE  WithinCap(e, l)
<1>1. IsFiniteSet(Members(d, l))
  BY DataAssumption, FS_Subset DEF Members
<1>2. Cardinality(Members(e, l)) <= Cardinality(Members(d, l))
  BY <1>1, FS_Subset
<1>3. Cardinality(Members(e, l)) \in Nat /\ Cardinality(Members(d, l)) \in Nat
  BY <1>1, FS_Subset, FS_CardinalityType
<1> QED
  BY <1>2, <1>3, DataAssumption DEF WithinCap

(* The operations that place an entry count its list; the others add none. *)
LEMMA BoundKept ==
    ASSUME NEW d \in Records, NEW e, NEW p \in People, NEW k \in Roles,
           \A l \in Roles : WithinCap(d, l),
           \/ Record!Added(d, e, p, k)
           \/ Record!Moved(d, e, p, k)
           \/ Record!Removed(d, e, p)
           \/ Record!Promoted(d, e, p)
    PROVE  \A l \in Roles : WithinCap(e, l)
<1> SUFFICES ASSUME NEW l \in Roles PROVE WithinCap(e, l)
  OBVIOUS
<1>1. CASE Record!Added(d, e, p, k) \/ Record!Moved(d, e, p, k)
  <2>1. CASE l = k
    BY <1>1, <2>1, SameCap DEF Record!Added, Record!Moved
  <2>2. CASE l # k
    <3>1. e[l][p] = Absent /\ \A q \in People \ {p} : e[l][q] = d[l][q]
      BY <1>1, <2>2 DEF Record!Added, Record!Moved, Record!OthersKept, Record!OnlyIn,
                        Record!Absent, Absent, Record!Roles, Roles
    <3> QED
      BY <3>1, SmallerList DEF Members
  <2> QED
    BY <2>1, <2>2
<1>2. CASE Record!Removed(d, e, p)
  <2>1. e[l][p] = Absent /\ \A q \in People \ {p} : e[l][q] = d[l][q]
    BY <1>2 DEF Record!Removed, Record!OthersKept, Record!Absent, Absent,
                Record!Roles, Roles
  <2> QED
    BY <2>1, SmallerList DEF Members
<1>3. CASE Record!Promoted(d, e, p)
  <2>1. PICK m \in Roles : /\ d[m][p].status = "pending"
                           /\ e = [d EXCEPT ![m][p].status = "accepted"]
    BY <1>3 DEF Record!Promoted, Record!Roles, Roles
  <2>2. PICK x \in Entries : e = Placed(d, p, m, x)
    BY <2>1, AcceptedTyped
  <2>3. d[m][p] # Absent
    BY <2>1 DEF Absent
  <2>4. \A q \in People : e[l][q] = IF l = m /\ q = p THEN x ELSE d[l][q]
    BY <2>2 DEF Placed, Records, Lists
  <2> QED
    BY <2>3, <2>4, SmallerList DEF Members
<1> QED
  BY <1>1, <1>2, <1>3

(* Every step keeps the lists within their cap. *)
LEMMA NextBounded ==
    ASSUME IInv, ListsBounded, [Next]_vars
    PROVE  ListsBounded'
<1>1. CASE doc' = doc
  BY <1>1 DEF ListsBounded
<1>2. CASE doc' # doc
  <2>1. PICK r \in Requests : pc[r] = "write" /\ Whole(r, doc, doc')
    BY <1>2, WholeWrite
  <2>2. /\ TypeOK /\ pc[r] # "idle" /\ doc \in Records
        /\ \A l \in Roles : WithinCap(doc, l)
    BY <2>1 DEF IInv, Typed, TypeOK, ListsBounded
  <2>3. SUFFICES \A l \in Roles : WithinCap(doc', l)
    BY DEF ListsBounded, WithinCap, Members
  <2>4. "writer" \in Roles
    BY DEF Roles
  <2>5. CASE op[r].kind = "add" /\ Record!Added(doc, doc', Person(r), Role(r))
    BY <2>2, <2>5, OpShape, BoundKept
  <2>6. CASE op[r].kind = "change" /\ Record!Moved(doc, doc', Person(r), Role(r))
    BY <2>2, <2>6, OpShape, BoundKept
  <2>7. CASE op[r].kind = "remove" /\ Record!Removed(doc, doc', Person(r))
    BY <2>2, <2>4, <2>7, OpShape, BoundKept
  <2>8. CASE op[r].kind = "promote" /\ Record!Promoted(doc, doc', Person(r))
    BY <2>2, <2>4, <2>8, OpShape, BoundKept
  <2>9. ASSUME NEW u \in Payloads, Record!Replaced(doc, doc', u.given, u.lists),
               NEW l \in Roles
        PROVE  WithinCap(doc', l)
    <3>1. CASE l \in u.given
      BY <2>9, <3>1, SameCap DEF Record!Replaced, Record!Roles, Roles
    <3>2. CASE l \notin u.given
      <4>1. doc'[l] = doc[l]
        BY <2>9, <3>2 DEF Record!Replaced, Record!Roles, Roles
      <4> QED
        BY <2>2, <4>1 DEF WithinCap, Members
    <3> QED
      BY <3>1, <3>2
  <2> QED
    BY <1>2, <2>1, <2>5, <2>6, <2>7, <2>8, <2>9 DEF Whole
<1> QED
  BY <1>1, <1>2

(* No list exceeds its cap, although each request counts a document it     *)
(* read before others wrote.                                               *)
THEOREM ListsStayBounded == Spec => []ListsBounded
<1>1. Init => IInv /\ ListsBounded
  BY InitIInv, SettingsAssumption DEF Init, ListsBounded
<1>2. IInv /\ ListsBounded /\ [Next]_vars => ListsBounded'
  BY NextBounded
<1>3. IInv /\ [Next]_vars => IInv'
  BY NextIInv
<1> QED
  BY <1>1, <1>2, <1>3, PTL DEF Spec

----------------------------------------------------------------------------
(***************************************************************************)
(* Requests served one after another, without failures: whatever the       *)
(* number of people and the documents, the tuples and the search document  *)
(* follow the stored lists, and nobody who has an account stays pending.   *)
(***************************************************************************)

(* What is published is the stored document. *)
Shown == index = doc /\ \A l \in Roles : fga[l] = Active(doc, l)

(* Nobody is pending in both lists. *)
OnePending(d) == \A p \in People : PendingIn(d, p) # Roles

(* Who is pending in d and has an account has an event on its way. *)
Expected(d) == \A p \in registered : PendingIn(d, p) # {} => p \in events

(* Of a request: it works on the current document; the lists it does not   *)
(* pass on keep their accepted entries; and it leaves nobody pending whose *)
(* account is known.                                                       *)
Own(r) ==
    /\ pc[r] = "read" =>
          /\ Matches(r)
          /\ op[r] = Bulk =>
                \A l \in sync[r], p \in People : new[r][l][p].status # "pending"
    /\ pc[r] = "lookup" => base[r] = revision /\ Role(r) \in sync[r]
    /\ pc[r] = "write" =>
          /\ base[r] = revision
          /\ \A l \in Roles \ sync[r] : Active(new[r], l) = Active(doc, l)
          /\ OnePending(new[r])
          /\ Expected(new[r])
    /\ pc[r] = "access" =>
          /\ new[r] = doc
          /\ \A l \in Roles \ sync[r] : fga[l] = Active(doc, l)
    /\ pc[r] = "index" => new[r] = doc /\ \A l \in Roles : fga[l] = Active(doc, l)

(* Request r promotes p and has not written yet. *)
Promotes(r, p) ==
    op[r].kind = "promote" /\ Person(r) = p /\ pc[r] \in {"snapshot", "read", "write"}

(* Who is pending and has an account is about to be promoted. *)
Announced ==
    \A p \in registered : PendingIn(doc, p) # {} =>
        p \in events \/ \E r \in Requests : Promotes(r, p)

(* Unless a request is publishing, what is published is the document.      *)
Visible == (\A r \in Requests : pc[r] \notin {"access", "index"}) => Shown

Served == Visible /\ OnePending(doc) /\ Announced

(* What holds between any two steps. *)
Solo == /\ IInv
        /\ ListsBounded
        /\ AtMostOne
        /\ faults = 0
        /\ \A r \in Requests : Own(r)
        /\ Served

(* A step of a behaviour without failures where one request is served at   *)
(* a time and no bulk update lists anybody as pending.                     *)
SoloStep == Next /\ AtMostOne' /\ faults' = 0 /\ BulksUnpending

(* While a request is served the others wait. *)
LEMMA OthersWait ==
    ASSUME AtMostOne, NEW r \in Requests, pc[r] \notin Waiting, NEW q \in Requests \ {r}
    PROVE  pc[q] \in Waiting
BY DEF AtMostOne, Busy

(* A request that waits is asked nothing. *)
LEMMA WaitingOwn ==
    ASSUME NEW q \in Requests, pc'[q] \in Waiting
    PROVE  Own(q)'
BY DEF Own, Waiting

(* The event of a person, while a request is served. *)
LEMMA EventOrServed ==
    ASSUME Solo, NEW r \in Requests, pc[r] \notin Waiting,
           NEW p \in registered, PendingIn(doc, p) # {}
    PROVE  p \in events \/ Promotes(r, p)
<1>1. \A q \in Requests \ {r} : ~Promotes(q, p)
  BY OthersWait DEF Solo, Promotes, Waiting
<1> QED
  BY <1>1 DEF Solo, Served, Announced

(* A request is called only when none is served.                           *)
LEMMA CalledSolo ==
    ASSUME Solo, SoloStep, NEW r \in Requests, Called(r)
    PROVE  (\A q \in Requests : Own(q)') /\ Served'
<1>1. /\ pc[r] = "idle" /\ op[r] = NoOp
      /\ pc'[r] \in {"read", "snapshot"}
      /\ UNCHANGED <<bucket, outside, registered>>
  BY DEF Called, Call, BulkUpdate, InviteAccepted, Arrive, Goto, people,
         Solo, IInv, Typed, TypeOK
<1>2. \A q \in Requests \ {r} : pc'[q] = pc[q] /\ op'[q] = op[q]
  BY OneRequestSteps DEF Solo, IInv, Typed
<1>3. \A q \in Requests \ {r} : pc'[q] \in Waiting
  BY <1>1 DEF SoloStep, AtMostOne, Busy, Waiting
<1>4. \A q \in Requests : pc[q] \in Waiting
  BY <1>1, <1>2, <1>3 DEF Waiting
<1>5. Shown
  BY <1>4 DEF Solo, Served, Visible, Waiting
<1>6. Visible' /\ OnePending(doc')
  BY <1>1, <1>5 DEF Visible, Shown, Solo, Served, OnePending, bucket, outside
<1>7. Expected(doc)
  BY <1>4 DEF Solo, Served, Announced, Expected, Promotes, Waiting
<1>8. Own(r)' /\ Announced'
  <2>1. ASSUME NEW kind, NEW p, NEW l, kind \in {"add", "change", "remove"},
               Call(r, kind, p, l)
        PROVE  Own(r)' /\ Announced'
    <3>1. /\ pc'[r] = "read" /\ op'[r].kind # "replace" /\ UNCHANGED people
          /\ match'[r] \in {AnyMatch, revision}
      BY <2>1 DEF Call, Arrive, Goto, Solo, IInv, Typed, TypeOK
    <3>2. Own(r)'
      BY <1>1, <3>1 DEF Own, Matches, Bulk, bucket
    <3> QED
      BY <1>1, <1>7, <3>1, <3>2 DEF Announced, Expected, people, bucket
  <2>2. ASSUME NEW u \in Payloads, BulkUpdate(r, u)
        PROVE  Own(r)' /\ Announced'
    <3>1. /\ pc'[r] = "read" /\ op'[r] = Bulk /\ UNCHANGED people
          /\ match'[r] \in {AnyMatch, revision}
      BY <2>2 DEF BulkUpdate, Arrive, Goto, Solo, IInv, Typed, TypeOK
    <3>2. Calls(r)
      BY <1>1, <3>1 DEF Calls, Bulk, NoOp
    <3>3. \A l \in sync'[r], p \in People : new'[r][l][p].status # "pending"
      BY <3>1, <3>2 DEF SoloStep, BulksUnpending
    <3>4. Own(r)'
      BY <1>1, <3>1, <3>3 DEF Own, Matches, bucket
    <3> QED
      BY <1>1, <1>7, <3>1, <3>4 DEF Announced, Expected, people, bucket
  <2>3. ASSUME NEW p \in People, NEW l, InviteAccepted(r, p, l)
        PROVE  Own(r)' /\ Announced'
    <3>1. /\ pc'[r] = "snapshot" /\ op'[r].kind = "promote" /\ op'[r].who = p
          /\ events' = events \ {p}
      BY <2>3 DEF InviteAccepted, Arrive, Goto, Solo, IInv, Typed, TypeOK
    <3>2. Promotes(r, p)'
      BY <3>1 DEF Promotes, Person
    <3>3. Own(r)'
      BY <3>1 DEF Own
    <3> QED
      BY <1>1, <1>7, <3>1, <3>2, <3>3 DEF Announced, Expected, bucket
  <2> QED
    BY <2>1, <2>2, <2>3 DEF Called
<1> QED
  BY <1>3, <1>6, <1>8, WaitingOwn DEF Served

(* What the steps of a request have in common: others wait, and the step   *)
(* does not fail.                                                          *)
LEMMA ServedAlone ==
    ASSUME Solo, SoloStep, NEW r \in Requests, Serve(r), Own(r)', Served'
    PROVE  \A q \in Requests : Own(q)'
<1>1. pc[r] \notin Waiting
  BY DEF Serve, Snapshot, Read, Lookup, Write, PublishAccess, PublishIndex, Waiting
<1>2. \A q \in Requests \ {r} : pc'[q] \in Waiting
  BY <1>1, OthersWait, OneRequestSteps DEF Solo, IInv, Typed
<1> QED
  BY <1>2, WaitingOwn

(* Nothing fails. *)
LEMMA NoneFails == ASSUME Solo, SoloStep PROVE ~Fault
BY DEF Solo, SoloStep, Fault

(* A step that leaves the documents, the people and what is published.     *)
LEMMA StaysServed ==
    ASSUME Solo, NEW r \in Requests, pc[r] \notin Waiting,
           UNCHANGED <<bucket, people, outside>>,
           pc[r] \notin {"access", "index"},
           \A p \in registered : PendingIn(doc, p) # {} =>
               p \in events \/ Promotes(r, p)'
    PROVE  Served'
<1>1. \A q \in Requests : pc[q] \notin {"access", "index"}
  BY OthersWait DEF Solo, Waiting
<1>2. Shown
  BY <1>1 DEF Solo, Served, Visible
<1>3. Visible' /\ OnePending(doc)'
  BY <1>2 DEF Visible, Shown, Solo, Served, OnePending, bucket, outside
<1>4. Announced'
  BY DEF Announced, bucket, people
<1> QED
  BY <1>3, <1>4 DEF Served

(* A person's pending entry is one; promoting it leaves none. *)
LEMMA PromotedSettles ==
    ASSUME NEW d \in Records, OnePending(d), NEW p \in People, NEW l \in Roles,
           d[l][p].status = "pending",
           NEW e, e = [d EXCEPT ![l][p].status = "accepted"]
    PROVE  /\ \A k \in Roles \ {l} : Active(e, k) = Active(d, k)
           /\ PendingIn(e, p) = {}
           /\ \A q \in People \ {p} : PendingIn(e, q) = PendingIn(d, q)
           /\ \A k \in Roles : Members(e, k) = Members(d, k)
<1>1. PICK x \in Entries : e = Placed(d, p, l, x) /\ x.status = "accepted"
  <2>1. d[l][p] \in Entries
    BY PresentEntry DEF Statuses
  <2> DEFINE y == [d[l][p] EXCEPT !.status = "accepted"]
  <2>2. y \in Entries /\ y.status = "accepted"
    BY <2>1 DEF Entries, Statuses
  <2>3. e = Placed(d, p, l, y)
    BY DEF Placed
  <2> QED BY <2>2, <2>3
<1>2. \A k \in Roles, q \in People : e[k][q] = IF k = l /\ q = p THEN x ELSE d[k][q]
  BY <1>1 DEF Placed, Records, Lists
<1>3. \A k \in Roles \ {l} : d[k][p].status # "pending"
  BY DEF OnePending, PendingIn, Roles
<1>4. x # Absent /\ d[l][p] # Absent
  BY <1>1 DEF Entries, Absent, Statuses
<1> QED
  BY <1>1, <1>2, <1>3, <1>4 DEF Active, PendingIn, Members

(* A promotion finds the one pending entry of its person, or none.         *)
LEMMA SnapshotSolo ==
    ASSUME Solo, SoloStep, NEW r \in Requests, Snapshot(r)
    PROVE  Own(r)' /\ Served'
<1>0. PICK p \in People : p = Person(r)
  BY OpShape DEF Snapshot, Solo, IInv, Typed, InStep
<1>1. /\ pc[r] = "snapshot" /\ op[r].kind = "promote"
      /\ UNCHANGED <<bucket, people, outside, op>>
  BY DEF Snapshot, Solo, IInv, Typed, InStep
<1>2. \A q \in registered : PendingIn(doc, q) # {} => q \in events \/ q = p
  BY <1>0, <1>1, EventOrServed DEF Promotes, Waiting
<1>3. ASSUME NEW l \in Roles, Promotion(r, l)
      PROVE  Own(r)' /\ Served'
  <2>1. pc'[r] = "read" /\ match'[r] = revision
    BY <1>3 DEF Promotion, Goto, Solo, IInv, Typed, TypeOK
  <2>2. Own(r)'
    BY <1>1, <2>1 DEF Own, Matches, Bulk, bucket
  <2>3. Promotes(r, p)'
    BY <1>0, <1>1, <2>1 DEF Promotes, Person
  <2> QED
    BY <1>1, <1>2, <2>2, <2>3, StaysServed DEF Waiting
<1>4. CASE PendingIn(doc, p) = {} /\ Goto(r, "failed")
  <2>1. pc'[r] = "failed"
    BY <1>4 DEF Goto, Solo, IInv, Typed, TypeOK
  <2>2. Own(r)'
    BY <2>1 DEF Own
  <2>3. \A q \in registered : PendingIn(doc, q) # {} => q \in events
    BY <1>2, <1>4
  <2> QED
    BY <1>1, <2>2, <2>3, StaysServed DEF Waiting
<1>5. PendingIn(doc, p) # Roles /\ ~Fault
  BY <1>1, NoneFails DEF Solo, Served, OnePending
<1> QED
  BY <1>0, <1>3, <1>4, <1>5 DEF Snapshot, PendingIn

(* The write is applied: the document is still the one that was read.      *)
LEMMA WriteSolo ==
    ASSUME Solo, SoloStep, NEW r \in Requests, Write(r)
    PROVE  Own(r)' /\ Served'
<1>1. pc[r] = "write" /\ base[r] = revision /\ ~Fault
  BY NoneFails DEF Write, Solo, Own
<1>2. /\ doc' = new[r] /\ pc'[r] = "access"
      /\ UNCHANGED <<people, outside, new, sync>>
  BY <1>1 DEF Write, Goto, Solo, IInv, Typed, TypeOK
<1>3. /\ \A l \in Roles \ sync[r] : Active(new[r], l) = Active(doc, l)
      /\ OnePending(new[r]) /\ Expected(new[r])
  BY <1>1 DEF Solo, Own
<1>4. Shown
  <2>1. \A q \in Requests : pc[q] \notin {"access", "index"}
    BY <1>1, OthersWait DEF Solo, Waiting
  <2> QED BY <2>1 DEF Solo, Served, Visible
<1>5. Own(r)'
  <2>1. new'[r] = doc'
    BY <1>2
  <2>2. ASSUME NEW l \in Roles \ sync'[r]
        PROVE  fga'[l] = Active(doc', l)
    BY <1>2, <1>3, <1>4 DEF Shown, outside
  <2>3. \A l \in Roles \ sync'[r] : fga'[l] = Active(doc, l)'
    BY <2>2 DEF Active
  <2> QED
    BY <1>2, <2>1, <2>3 DEF Own
<1>6. Visible'
  BY <1>2 DEF Visible
<1>7. OnePending(doc') /\ Announced'
  BY <1>2, <1>3 DEF OnePending, Announced, Expected, people
<1> QED
  BY <1>5, <1>6, <1>7 DEF Served, OnePending, PendingIn

(* The tuples of the lists passed on become those of the document, and the *)
(* others were. *)
LEMMA PublishAccessSolo ==
    ASSUME Solo, SoloStep, NEW r \in Requests, PublishAccess(r)
    PROVE  Own(r)' /\ Served'
<1>1. pc[r] = "access" /\ ~Fault
  BY NoneFails DEF PublishAccess
<1>2. /\ fga' = [l \in Roles |-> IF l \in sync[r] THEN Active(new[r], l) ELSE fga[l]]
      /\ pc'[r] = "index"
      /\ UNCHANGED <<bucket, people, new>>
  BY <1>1 DEF PublishAccess, Goto, Solo, IInv, Typed, TypeOK
<1>3. new[r] = doc /\ \A l \in Roles \ sync[r] : fga[l] = Active(doc, l)
  BY <1>1 DEF Solo, Own
<1>4. \A l \in Roles : fga'[l] = Active(doc, l)
  BY <1>2, <1>3
<1>5. Own(r)'
  BY <1>2, <1>3, <1>4 DEF Own, Active, bucket
<1>6. Visible'
  BY <1>2 DEF Visible
<1>7. \A q \in registered : PendingIn(doc, q) # {} => q \in events
  BY <1>1, EventOrServed DEF Promotes, Waiting
<1> QED
  BY <1>2, <1>5, <1>6, <1>7 DEF Served, Solo, Announced, OnePending, PendingIn, bucket, people

(* The search document follows. *)
LEMMA PublishIndexSolo ==
    ASSUME Solo, SoloStep, NEW r \in Requests, PublishIndex(r)
    PROVE  Own(r)' /\ Served'
<1>1. pc[r] = "index" /\ ~Fault
  BY NoneFails DEF PublishIndex
<1>2. index' = new[r] /\ pc'[r] = "ok" /\ UNCHANGED <<bucket, people, fga>>
  BY <1>1 DEF PublishIndex, Goto, Solo, IInv, Typed, TypeOK
<1>3. new[r] = doc /\ \A l \in Roles : fga[l] = Active(doc, l)
  BY <1>1 DEF Solo, Own
<1>4. Visible'
  BY <1>2, <1>3 DEF Visible, Shown, Active, bucket
<1>5. Own(r)'
  BY <1>2 DEF Own
<1>6. \A q \in registered : PendingIn(doc, q) # {} => q \in events
  BY <1>1, EventOrServed DEF Promotes, Waiting
<1> QED
  BY <1>2, <1>4, <1>5, <1>6 DEF Served, Solo, Announced, OnePending, PendingIn, bucket, people

(* Somebody added has an account and is accepted, or is pending and has    *)
(* none. *)
LEMMA LookupSolo ==
    ASSUME Solo, SoloStep, NEW r \in Requests, Lookup(r)
    PROVE  Own(r)' /\ Served'
<1> DEFINE p == Person(r)
           l == Role(r)
           y == Entry(IF p \in registered THEN "accepted" ELSE "pending", l)
           e == Placed(new[r], p, l, y)
<1>1. /\ pc[r] = "lookup" /\ op[r].kind = "add" /\ ~Fault
      /\ p \in People /\ l \in Roles /\ doc \in Records
      /\ UNCHANGED <<bucket, people, outside, op, base, sync>>
  BY OpShape, NoneFails DEF Lookup, Solo, IInv, Typed, TypeOK, InStep
<1>2. base[r] = revision /\ l \in sync[r]
  BY <1>1 DEF Solo, Own
<1>3. new[r] = Without(doc, p) /\ \A k \in Roles : ~Live(doc[k][p])
  BY <1>1, <1>2 DEF Solo, IInv, Current
<1>4. \A q \in registered : PendingIn(doc, q) # {} => q \in events
  BY <1>1, EventOrServed DEF Promotes, Waiting
<1>5. Served'
  BY <1>1, <1>4, StaysServed DEF Waiting
<1>6. CASE Goto(r, "failed")
  <2>1. pc'[r] = "failed"
    BY <1>6 DEF Goto, Solo, IInv, Typed, TypeOK
  <2> QED
    BY <1>5, <2>1 DEF Own
<1>7. CASE new' = [new EXCEPT ![r] = e] /\ Goto(r, "write")
  <2>1. new'[r] = e /\ pc'[r] = "write"
    BY <1>7 DEF Goto, Solo, IInv, Typed, TypeOK
  <2>2. y \in Entries /\ (p \in registered => y.status = "accepted")
    BY <1>1 DEF Entry, Entries, Statuses
  <2>3. \A k \in Roles, q \in People :
           e[k][q] = IF q = p THEN (IF k = l THEN y ELSE Absent) ELSE doc[k][q]
    <3>1. Without(doc, p) \in Records
      BY <1>1, WithoutTyped
    <3> QED
      BY <1>1, <1>3, <3>1 DEF Placed, Without, Records, Lists
  <2>4. \A k \in Roles : doc[k][p].status # "accepted"
    BY <1>3 DEF Live
  <2>5. Absent.status = "absent"
    BY DEF Absent
  <2> HIDE DEF e, y
  <2>6. \A k \in Roles \ sync[r] : Active(e, k) = Active(doc, k)
    BY <1>2, <2>3, <2>4, <2>5 DEF Active
  <2>7. OnePending(e)
    <3>1. \A q \in People \ {p} : PendingIn(e, q) = PendingIn(doc, q)
      BY <2>3 DEF PendingIn
    <3>2. PendingIn(e, p) \subseteq {l}
      BY <1>1, <2>3, <2>5 DEF PendingIn
    <3>3. Roles # {l} /\ Roles # {}
      BY DEF Roles
    <3> QED
      BY <3>1, <3>2, <3>3 DEF OnePending, Solo, Served
  <2>8. Expected(e)
    <3>1. \A q \in registered : PendingIn(e, q) # {} => PendingIn(doc, q) # {}
      BY <1>1, <2>2, <2>3, <2>5 DEF PendingIn, Solo, IInv, Typed, TypeOK
    <3> QED
      BY <1>4, <3>1 DEF Expected
  <2>9. Own(r)'
    BY <1>1, <1>2, <2>1, <2>6, <2>7, <2>8
    DEF Own, Active, OnePending, Expected, PendingIn, bucket, people
  <2> QED
    BY <1>5, <2>9
<1> QED
  BY <1>1, <1>6, <1>7 DEF Lookup

(* A request that goes on to its write with e.                             *)
LEMMA ComputeSolo ==
    ASSUME Solo, NEW r \in Requests, NEW e, NEW lists \in SUBSET Roles,
           pc[r] = "read", Compute(r, e, lists),
           UNCHANGED <<bucket, people, outside, op>>,
           \A l \in Roles \ lists : Active(e, l) = Active(doc, l),
           OnePending(e), Expected(e)
    PROVE  Own(r)' /\ Served'
<1>1. /\ pc'[r] = "write" /\ base'[r] = revision /\ new'[r] = e /\ sync'[r] = lists
  BY DEF Compute, Goto, Solo, IInv, Typed, TypeOK
<1>2. Own(r)'
  BY <1>1 DEF Own, Active, OnePending, Expected, PendingIn, bucket, people
<1>3. ASSUME NEW p \in registered, PendingIn(doc, p) # {}
      PROVE  p \in events \/ Promotes(r, p)'
  <2>1. p \in events \/ Promotes(r, p)
    BY <1>3, EventOrServed DEF Waiting
  <2> QED
    BY <1>1, <2>1 DEF Promotes, Person
<1>4. Served'
  BY <1>3, StaysServed DEF Waiting
<1> QED
  BY <1>2, <1>4

(* A request that ends with its read; a promotion does not.                *)
LEMMA EndSolo ==
    ASSUME Solo, NEW r \in Requests, pc[r] = "read", op[r].kind # "promote",
           End(r, "ok") \/ End(r, "failed"),
           UNCHANGED <<bucket, people, outside, op>>
    PROVE  Own(r)' /\ Served'
<1>1. pc'[r] \in {"ok", "failed"}
  BY DEF End, Goto, Solo, IInv, Typed, TypeOK
<1>2. Own(r)'
  BY <1>1 DEF Own
<1>3. \A p \in registered : PendingIn(doc, p) # {} => p \in events
  BY EventOrServed DEF Promotes, Waiting
<1> QED
  BY <1>2, <1>3, StaysServed DEF Waiting

(* What each operation computes changes the accepted entries of the lists  *)
(* it passes on only, and leaves nobody pending who was not.               *)
LEMMA ReadSolo ==
    ASSUME Solo, SoloStep, NEW r \in Requests, Read(r)
    PROVE  Own(r)' /\ Served'
<1>0. PICK p : p = Person(r)
  OBVIOUS
<1>1. /\ pc[r] = "read" /\ doc \in Records /\ Matches(r) /\ ~Fault
      /\ UNCHANGED <<bucket, people, outside, op, match, tries>>
      /\ registered \subseteq People
      /\ OnePending(doc)
  BY NoneFails DEF Read, Solo, Served, Own, IInv, Typed, TypeOK
<1>2. /\ TypeOK /\ pc[r] # "idle"
      /\ \A q \in registered : PendingIn(doc, q) # {} => q \in events \/ Promotes(r, q)
  BY <1>1, EventOrServed DEF Waiting, Solo, IInv, Typed
<1>3. op[r].kind # "promote" => Expected(doc)
  BY <1>2 DEF Promotes, Expected
<1>4. CASE op[r].kind = "add" /\ ReadForAdd(r)
  <2>1. p \in People /\ Role(r) \in Roles
    BY <1>0, <1>2, <1>4, OpShape
  <2>2. CASE Compute(r, doc, {Role(r)})
    BY <1>1, <1>3, <1>4, <2>1, <2>2, ComputeSolo
  <2>3. CASE End(r, "failed")
    BY <1>1, <1>4, <2>3, EndSolo
  <2>4. CASE /\ base' = [base EXCEPT ![r] = revision]
             /\ sync' = [sync EXCEPT ![r] =
                           IF Held(doc, p) = {} THEN {Role(r)} ELSE Roles]
             /\ Goto(r, "lookup")
    <3>1. base'[r] = revision /\ pc'[r] = "lookup" /\ op'[r] = op[r]
      BY <1>1, <1>2, <2>4 DEF Goto, TypeOK
    <3>2. sync'[r] = {Role(r)} \/ sync'[r] = Roles
      BY <1>2, <2>4 DEF TypeOK
    <3>3. Own(r)'
      BY <1>1, <2>1, <3>1, <3>2 DEF Own, Role, bucket
    <3> QED
      BY <1>1, <1>3, <1>4, <3>3, StaysServed DEF Waiting, Expected
  <2> QED
    BY <1>0, <1>4, <2>2, <2>3, <2>4 DEF ReadForAdd
<1>5. CASE op[r].kind = "change" /\ ReadForChange(r)
  <2> DEFINE moved == MostLive(doc, p)
             y == Entry(moved.status, Role(r))
             e == Placed(Without(doc, p), p, Role(r), y)
  <2>1. p \in People /\ Role(r) \in Roles
    BY <1>0, <1>2, <1>5, OpShape
  <2>2. CASE End(r, "failed") \/ End(r, "ok")
    BY <1>1, <1>5, <2>2, EndSolo
  <2>3. CASE Held(doc, p) # {} /\ Compute(r, e, Roles)
    <3>1. moved \in Entries /\ \E k \in Roles : moved = doc[k][p]
      BY <1>1, <2>1, <2>3, MostLiveEntry
    <3>2. y \in Entries /\ y.status = moved.status
      BY <2>1, <3>1, EntryTyped DEF Entry, Entries
    <3>3. \A k \in Roles, q \in People :
             e[k][q] = IF q = p THEN (IF k = Role(r) THEN y ELSE Absent) ELSE doc[k][q]
      <4>1. Without(doc, p) \in Records
        BY <1>1, <2>1, WithoutTyped
      <4> QED
        BY <1>1, <2>1, <3>2, <4>1 DEF Placed, Without, Records, Lists
    <3> HIDE DEF e, y, moved
    <3>4. /\ \A q \in People \ {p} : PendingIn(e, q) = PendingIn(doc, q)
          /\ PendingIn(e, p) \subseteq {Role(r)}
          /\ PendingIn(e, p) # {} => y.status = "pending"
      BY <2>1, <3>3 DEF PendingIn, Absent
    <3>5. PendingIn(e, p) # {} => PendingIn(doc, p) # {}
      BY <3>1, <3>2, <3>4 DEF PendingIn
    <3>6. OnePending(e)
      <4>1. Roles # {Role(r)} /\ Roles # {}
        BY DEF Roles
      <4> QED
        BY <1>1, <3>4, <4>1 DEF OnePending
    <3>7. Expected(e)
      BY <1>1, <1>3, <1>5, <3>4, <3>5 DEF Expected
    <3> QED
      BY <1>1, <2>3, <3>6, <3>7, ComputeSolo
  <2> QED
    BY <1>0, <1>5, <2>2, <2>3 DEF ReadForChange, Moves
<1>6. CASE op[r].kind = "remove" /\ ReadForRemove(r)
  <2> DEFINE e == Without(doc, p)
  <2>1. p \in People
    BY <1>0, <1>2, <1>6, OpShape
  <2>2. CASE End(r, "failed")
    BY <1>1, <1>6, <2>2, EndSolo
  <2>3. CASE Compute(r, e, Held(doc, p))
    <3>1. \A k \in Roles, q \in People : e[k][q] = IF q = p THEN Absent ELSE doc[k][q]
      BY <1>1 DEF Without, Records, Lists
    <3>2. Held(doc, p) \in SUBSET Roles
      BY DEF Held
    <3> HIDE DEF e
    <3>3. \A k \in Roles \ Held(doc, p) : Active(e, k) = Active(doc, k)
      BY <3>1 DEF Active, Held
    <3>4. \A q \in People : PendingIn(e, q) = IF q = p THEN {} ELSE PendingIn(doc, q)
      BY <3>1 DEF PendingIn, Absent
    <3>5. OnePending(e) /\ Expected(e)
      <4>1. Roles # {}
        BY DEF Roles
      <4> QED
        BY <1>1, <1>3, <1>6, <3>4, <4>1 DEF OnePending, Expected
    <3> QED
      BY <1>1, <2>3, <3>2, <3>3, <3>5, ComputeSolo
  <2> QED
    BY <1>0, <1>6, <2>2, <2>3 DEF ReadForRemove
<1> DEFINE e == [l \in Roles |-> IF l \in sync[r] THEN new[r][l] ELSE doc[l]]
<1>7. sync[r] \in SUBSET Roles
  BY <1>2 DEF TypeOK
<1>8. CASE op[r] = Bulk /\ ReadForUpdate(r)
  <2>1. op[r].kind # "promote"
    BY <1>8 DEF Bulk
  <2>2. CASE End(r, "failed")
    BY <1>1, <2>1, <2>2, EndSolo
  <2>3. CASE Compute(r, e, sync[r])
    <3>1. \A l \in sync[r], q \in People : new[r][l][q].status # "pending"
      BY <1>1, <1>8 DEF Solo, Own
    <3>2. \A l \in Roles \ sync[r] : e[l] = doc[l]
      OBVIOUS
    <3>3. \A l \in sync[r] : e[l] = new[r][l]
      BY <1>7
    <3> HIDE DEF e
    <3>4. \A q \in People : PendingIn(e, q) \subseteq PendingIn(doc, q)
      BY <3>1, <3>2, <3>3 DEF PendingIn
    <3>5. OnePending(e)
      <4>1. \A q \in People : PendingIn(doc, q) \subseteq Roles /\ PendingIn(doc, q) # Roles
        BY <1>1 DEF OnePending, PendingIn
      <4> QED
        BY <3>4, <4>1 DEF OnePending
    <3>6. Expected(e)
      BY <1>1, <1>3, <2>1, <3>4 DEF Expected
    <3>7. \A l \in Roles \ sync[r] : Active(e, l) = Active(doc, l)
      BY <3>2 DEF Active
    <3> QED
      BY <1>1, <1>7, <2>3, <3>5, <3>6, <3>7, ComputeSolo
  <2> QED
    BY <1>8, <2>2, <2>3 DEF ReadForUpdate
<1>9. CASE op[r].kind = "promote" /\ ReadForUpdate(r)
  <2>1. p \in People
    BY <1>0, <1>2, <1>9, OpShape
  <2>2. match[r] # AnyMatch /\ match[r] = revision
    BY <1>1, <1>9 DEF Solo, IInv, Current, Matches
  <2>3. PICK l \in Roles : /\ doc[l][p].status = "pending"
                           /\ new[r] = [doc EXCEPT ![l][p].status = "accepted"]
                           /\ sync[r] = {l}
    BY <1>0, <1>1, <1>9, <2>2 DEF Solo, IInv, Current
  <2>4. /\ \A k \in Roles \ {l} : Active(new[r], k) = Active(doc, k)
        /\ PendingIn(new[r], p) = {}
        /\ \A q \in People \ {p} : PendingIn(new[r], q) = PendingIn(doc, q)
        /\ \A k \in Roles : Members(new[r], k) = Members(doc, k)
    <3>1. \A x : x = [doc EXCEPT ![l][p].status = "accepted"] =>
             /\ \A k \in Roles \ {l} : Active(x, k) = Active(doc, k)
             /\ PendingIn(x, p) = {}
             /\ \A q \in People \ {p} : PendingIn(x, q) = PendingIn(doc, q)
             /\ \A k \in Roles : Members(x, k) = Members(doc, k)
      BY <1>1, <2>1, <2>3, PromotedSettles
    <3> QED
      BY <2>3, <3>1
  <2>5. e = new[r]
    BY <1>1, <2>3 DEF Records
  <2>6. \A k \in sync[r] : WithinCap(new[r], k)
    BY <1>7, <2>4 DEF Solo, ListsBounded, WithinCap
  <2>7. Compute(r, new[r], sync[r])
    BY <1>9, <2>5, <2>6 DEF ReadForUpdate
  <2>8. OnePending(new[r])
    <3>1. Roles # {}
      BY DEF Roles
    <3> QED
      BY <1>1, <2>4, <3>1 DEF OnePending
  <2>9. Expected(new[r])
    BY <1>0, <1>1, <1>2, <2>4 DEF Expected, Promotes
  <2> QED
    BY <1>1, <1>7, <2>3, <2>4, <2>7, <2>8, <2>9, ComputeSolo
<1>10. \/ op[r].kind = "add" /\ ReadForAdd(r)
       \/ op[r].kind = "change" /\ ReadForChange(r)
       \/ op[r].kind = "remove" /\ ReadForRemove(r)
       \/ op[r].kind \notin {"add", "change", "remove"} /\ ReadForUpdate(r)
  BY <1>1 DEF Read
<1>11. op[r].kind \in {"add", "change", "remove", "promote"} \/ op[r] = Bulk
  BY <1>2, OpShape
<1> QED
  BY <1>4, <1>5, <1>6, <1>8, <1>9, <1>10, <1>11

(* A step of one request alone keeps all of it. *)
LEMMA NextSolo == ASSUME Solo, SoloStep PROVE Solo'
<1>1. IInv' /\ ListsBounded'
  BY NextIInv, NextBounded DEF Solo, SoloStep
<1>2. (\A q \in Requests : Own(q)') /\ Served'
  <2>1. ASSUME NEW p \in People, Register(p)
        PROVE  (\A q \in Requests : Own(q)') /\ Served'
    <3>1. /\ registered' = registered \union {p} /\ events' = events \union {p}
          /\ UNCHANGED <<bucket, outside, request>>
      BY <2>1 DEF Register
    <3>2. \A d : Expected(d) => \A q \in registered' : PendingIn(d, q) # {} => q \in events'
      BY <3>1 DEF Expected
    <3>3. ASSUME NEW q \in Requests
          PROVE  Own(q)'
      <4>1. Own(q)
        BY DEF Solo
      <4>2. pc[q] = "write" => Expected(new[q])'
        BY <3>1, <3>2, <4>1 DEF Own, Expected, PendingIn, request
      <4> QED
        BY <3>1, <4>1, <4>2 DEF Own, Matches, Role, Active, OnePending, PendingIn,
                                bucket, outside, request
    <3>4. Announced'
      <4>1. \A q : \A r \in Requests : Promotes(r, q) => Promotes(r, q)'
        BY <3>1 DEF Promotes, Person, request
      <4> QED
        BY <3>1, <4>1 DEF Solo, Served, Announced, PendingIn, bucket
    <3>5. Visible' /\ OnePending(doc)'
      BY <3>1 DEF Solo, Served, Visible, Shown, Active, OnePending, PendingIn,
                  bucket, outside, request
    <3> QED
      BY <3>3, <3>4, <3>5 DEF Served
  <2>2. ASSUME NEW r \in Requests, Called(r)
        PROVE  (\A q \in Requests : Own(q)') /\ Served'
    BY <2>2, CalledSolo
  <2>3. ASSUME NEW r \in Requests, Serve(r)
        PROVE  (\A q \in Requests : Own(q)') /\ Served'
    <3>1. Own(r)' /\ Served'
      BY <2>3, SnapshotSolo, ReadSolo, LookupSolo, WriteSolo, PublishAccessSolo,
         PublishIndexSolo DEF Serve
    <3> QED
      BY <2>3, <3>1, ServedAlone
  <2>4. \A p : ~LoseEvent(p)
    BY NoneFails DEF LoseEvent
  <2> QED
    BY <2>1, <2>2, <2>3, <2>4 DEF SoloStep, Next, Outside
<1> QED
  BY <1>1, <1>2 DEF Solo, SoloStep

(* It starts so. *)
LEMMA InitSolo == ASSUME Init, Regular(doc) PROVE Solo
<1>1. IInv /\ ListsBounded
  BY InitIInv, SettingsAssumption DEF Init, ListsBounded
<1>2. \A q \in Requests : pc[q] = "idle"
  BY DEF Init
<1>3. AtMostOne /\ faults = 0 /\ \A q \in Requests : Own(q)
  BY <1>2 DEF Init, AtMostOne, Busy, Waiting, Own
<1>4. Visible
  BY DEF Init, Visible, Shown
<1>5. OnePending(doc)
  BY DEF Regular, OnePending, PendingIn, Live, Roles
<1>6. Announced
  <2>1. ASSUME NEW p \in registered, NEW l \in Roles, doc[l][p].status = "pending"
        PROVE  FALSE
    <3>1. p \in People /\ \E k \in Roles : doc[k][p].status = "accepted"
      BY <2>1 DEF Init, Active
    <3> QED
      BY <2>1, <3>1 DEF Regular, Live
  <2> QED
    BY <2>1 DEF Announced, PendingIn
<1> QED
  BY <1>1, <1>3, <1>4, <1>5, <1>6 DEF Solo, Served

(* And it stays so while nothing happens. *)
LEMMA StutterSolo == ASSUME Solo, UNCHANGED vars PROVE Solo'
<1>1. IInv'
  BY NextIInv DEF Solo
<1> QED
  BY <1>1 DEF vars, Solo, ListsBounded, WithinCap, Members, AtMostOne, Busy, Own, Matches,
     Role, Active, OnePending, Expected, PendingIn, Served, Visible, Shown, Announced,
     Promotes, Person, bucket, people, outside, request

(* In the instance, whenever it runs them one after another. *)
SoloMC == alone => Solo

(* Every step of the instance whose requests run one after another.        *)
LEMMA MCStepsSolo == ASSUME SoloMC, [MCNext]_<<vars, alone>> PROVE SoloMC'
<1> SUFFICES ASSUME alone' PROVE Solo'
  BY DEF SoloMC
<1>1. CASE MCNext
  <2>1. Solo /\ SoloStep
    BY <1>1 DEF SoloMC, MCNext, OneByOne, SoloStep
  <2> QED
    BY <2>1, NextSolo
<1>2. CASE UNCHANGED <<vars, alone>>
  BY <1>2, StutterSolo DEF SoloMC
<1> QED
  BY <1>1, <1>2

(* Operations one after another, without failures, leave the tuples and    *)
(* the search document as the stored lists, whichever they are: what an    *)
(* operation passes on to publishAfterWrite is all it changed.             *)
THEOREM AloneIsPublished == MCSpec => []PublishedAlone
<1>1. MCInit => SoloMC
  BY InitSolo DEF MCInit, SoloMC
<1>2. SoloMC /\ [MCNext]_<<vars, alone>> => SoloMC'
  BY MCStepsSolo
<1>3. SoloMC => PublishedAlone
  BY DEF SoloMC, Solo, Served, Visible, Shown, PublishedAlone, Published, Quiet, Busy, Waiting
<1> QED
  BY <1>1, <1>2, <1>3, PTL DEF MCSpec

(* ... and leave nobody pending who has an account and no event on its     *)
(* way: an invitation is answered by Lookup or by the promotion of its     *)
(* event, and no operation in between loses or repeats it.                 *)
THEOREM AloneIsPromoted == MCSpec => []PendingAlone
<1>1. MCInit => SoloMC
  BY InitSolo DEF MCInit, SoloMC
<1>2. SoloMC /\ [MCNext]_<<vars, alone>> => SoloMC'
  BY MCStepsSolo
<1>3. SoloMC => PendingAlone
  BY DEF SoloMC, Solo, Served, Announced, Promotes, PendingAlone, PendingHasNoAccount,
         Quiet, Busy, Waiting
<1> QED
  BY <1>1, <1>2, <1>3, PTL DEF MCSpec

=============================================================================
