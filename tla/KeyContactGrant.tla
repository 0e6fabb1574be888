--------------------------- MODULE KeyContactGrant ---------------------------
(* The key_contact tuples of memberships and the bucket that remembers them. *)
(* A tuple is a pair of a membership and a username, and several key-contact *)
(* records may justify one pair. The bucket key-contact-grants keeps, for    *)
(* each record, the pair granted for it last and, as a marker, the pair that *)
(* one replaced while its removal is not confirmed. The CDC consumer and     *)
(* other writers (API requests, backfills) grant and revoke beside each      *)
(* other; only the bucket's revisions order them.                            *)
(*                                                                           *)
(* A worker's program is the sequence of calls it still has to make, each    *)
(* with the pair it is about; a call that depends on what it finds replaces  *)
(* itself with the calls that follow from it.                                *)
EXTENDS Naturals, Sequences, FiniteSets

CONSTANTS
    Contacts,      \* Project_Role__c records
    Pairs,         \* {membership, username}
    Consumer,      \* the CDC consumer
    Writers,       \* API requests and backfills, one call each
    None,
    MaxChanges,    \* changes in Salesforce
    MaxFaults      \* failed calls and crashes

ASSUME GrantAssumption ==
    /\ IsFiniteSet(Contacts) /\ IsFiniteSet(Pairs)
    /\ None \notin Contacts \cup Pairs
    /\ Consumer \notin Writers
    /\ MaxChanges \in Nat /\ MaxFaults \in Nat

Workers == {Consumer} \cup Writers

(* A record's pair is None when its email belongs to no account. *)
Gone == [status |-> "gone", pair |-> None]
Records == {Gone} \cup [status : {"active", "inactive"}, pair : Pairs \cup {None}]

(* The bucket numbers all its writes in one sequence; 0 is no entry. *)
Entries == [pair : Pairs \cup {None}, marker : Pairs \cup {None}, rev : Nat]
Absent == [pair |-> None, marker |-> None, rev |-> 0]

Messages == [op : {"put", "remove"}, pair : Pairs]
Put(p) == [op |-> "put", pair |-> p]
Remove(p) == [op |-> "remove", pair |-> p]


(* The calls of a program. "catch", "stop", "keepMarker" and "recover" do    *)
(* nothing unless a call before them fails.                                  *)
Calls == {"snapshot", "lookup", "save", "delete", "withdraw", "publish", "inactive",
          "record", "write", "scan", "scanLive", "scanQuick", "confirmLive", "flush",
          "recheck", "verify", "settle", "reassert", "own", "clearMarker", "expire",
          "expireLive", "justify", "justifyLive", "claim", "claimed", "regranted", "compare", "clear", "erase",
          "settleStale", "catch", "stop", "keepMarker", "recover", "fail"}
Handlers == {"catch", "stop", "keepMarker", "recover"}

VARIABLES
    sf,        \* Salesforce
    events,    \* change events the consumer has not committed
    grants,    \* the bucket key-contact-grants
    revision,  \* its last sequence number
    removed,   \* pairs removed from fga-sync since an entry last came to name them
    tuples,    \* fga-sync
    wire,      \* each worker's connection
    work,      \* each worker's call in progress
    changes, faults,
    logged,    \* pairs of records about which an error was only logged
    lost       \* pairs with a message that never reached the broker

vars == <<sf, events, grants, revision, removed, tuples, wire, work,
          changes, faults, logged, lost>>

bucket == <<grants, revision, removed>>
ledger == <<changes, faults, logged, lost>>

Steps == [do : Calls, pair : Pairs \cup {None}]
Views == [Contacts -> Records]
Events == [k : Contacts, deleted : BOOLEAN]

Idle == [k |-> None, kc |-> Gone, entry |-> Absent, view |-> None, by |-> None,
         hold |-> FALSE, todo |-> <<>>]

(* The shape of the state. *)
TypeOK ==
    /\ sf \in Views
    /\ events \in Seq(Events)
    /\ grants \in [Contacts -> Entries]
    /\ revision \in Nat
    /\ removed \subseteq Pairs
    /\ tuples \subseteq Pairs
    /\ wire \in [Workers -> Seq(Messages)]
    /\ work \in [Workers -> [k : Contacts \cup {None}, kc : Records, entry : Entries,
                             view : Views \cup {None}, by : Contacts \cup {None},
                             hold : BOOLEAN, todo : Seq(Steps)]]
    /\ changes \in 0 .. MaxChanges
    /\ faults \in 0 .. MaxFaults
    /\ logged \subseteq Pairs /\ lost \subseteq Pairs

Init ==
    /\ sf = [k \in Contacts |-> Gone]
    /\ events = <<>>
    /\ grants = [k \in Contacts |-> Absent]
    /\ revision = 0
    /\ removed = {}
    /\ tuples = {}
    /\ wire = [w \in Workers |-> <<>>]
    /\ work = [w \in Workers |-> Idle]
    /\ changes = 0 /\ faults = 0
    /\ logged = {} /\ lost = {}

-----------------------------------------------------------------------------
(* Programs. *)

Step(d, p) == [do |-> d, pair |-> p]
Only(d) == <<Step(d, None)>>
For(ds, p) == [i \in DOMAIN ds |-> Step(ds[i], p)]

(* Revoke the pair; if a sibling turns out to justify it, make sure that the *)
(* tuple is there and that the sibling's entry names it.                     *)
Drain(m) == For(<<"scan", "settle", "own">>, m)
RevokeSuperseded(m) == Drain(m) \o For(<<"clearMarker">>, m)
RevokeConfirmed(p) == For(<<"scan", "confirmLive", "reassert", "own">>, p)

WhenSet(p, program) == IF p = None THEN <<>> ELSE program

(* mutant: a lost account keeps its grant *)
MissIgnored(kc) == <<>>

(* An upsert: an address without account first loses what is recorded for    *)
(* it, and what then fails does not keep the record from being published.    *)
Miss(kc) == IF kc.pair = None THEN Only("expireLive") \o Only("catch") ELSE <<>>
Upsert(kc) == Only("snapshot") \o Miss(kc) \o Only("publish")

-----------------------------------------------------------------------------
(* Running a program. *)

At(w, d) == work[w].todo # <<>> /\ Head(work[w].todo).do = d
Pair(w) == Head(work[w].todo).pair
Entry(w) == grants[work[w].k]

(* The next call is done: messages go on the wire, and steps before the rest *)
(* of the program.                                                           *)
Go(w, job, messages, steps) ==
    /\ work' = [work EXCEPT ![w] = [job EXCEPT !.todo = steps \o Tail(@)]]
    /\ wire' = [wire EXCEPT ![w] = @ \o messages]
Skip(w) == Go(w, work[w], <<>>, <<>>)

(* The bucket's writes are conditional on the revision read. Where the code  *)
(* reads, compares and writes in a loop, the iteration that succeeds is one  *)
(* step; where other calls lie between, the entry read is kept.              *)
Rewrite(k, p, m) ==
    /\ revision' = revision + 1
    /\ grants' = [grants EXCEPT ![k] = [pair |-> p, marker |-> m, rev |-> revision + 1]]
    /\ UNCHANGED removed
Erase(k) ==
    /\ revision' = revision + 1
    /\ grants' = [grants EXCEPT ![k] = Absent]
    /\ UNCHANGED removed
(* The entry comes to name the pair, again or for the first time. *)
Name(k, p, m) ==
    /\ revision' = revision + 1
    /\ grants' = [grants EXCEPT ![k] = [pair |-> p, marker |-> m, rev |-> revision + 1]]
    /\ removed' = removed \ {p}

(* mutant: the sibling check disabled *)
NoJustifiers(view, p, k) == {}

(* The records that justify the pair besides k. *)
Justifiers(view, p, k) ==
    {s \in Contacts \ {k} : view[s] = [status |-> "active", pair |-> p]}

(* A scan reads the batch's snapshot, or Salesforce for a membership the     *)
(* snapshot does not cover; live reads always read Salesforce.               *)
Scanned(w, d) == IF d \in {"scan", "justify"} /\ work[w].view # None THEN {work[w].view, sf} ELSE {sf}

local == <<sf, events, bucket, tuples, ledger>>

-----------------------------------------------------------------------------
(* revokeKeyContactPairIfUnjustified and what its callers do next. *)

Scan(w) == \E d \in {"scan", "scanLive", "scanQuick"} :
    /\ At(w, d)
    /\ \E view \in Scanned(w, d) :
         LET by == Justifiers(view, Pair(w), work[w].k)
             confirmed == IF d = "scanQuick" THEN <<>> ELSE Only("flush")
         IN \/ \E s \in by : Go(w, [work[w] EXCEPT !.by = s], <<>>, <<>>)
            \/ /\ by = {}
               /\ Go(w, [work[w] EXCEPT !.by = None], <<Remove(Pair(w))>>,
                     confirmed \o For(<<"recheck">>, Pair(w)))
    /\ UNCHANGED local

Flush(w) ==
    /\ At(w, "flush") /\ wire[w] = <<>>
    /\ Skip(w)
    /\ UNCHANGED local

(* After the remove: whoever was granted the pair meanwhile gets it back.    *)
Recheck(w) ==
    /\ At(w, "recheck")
    /\ IF Justifiers(sf, Pair(w), work[w].k) = {} THEN Skip(w)
       ELSE Go(w, work[w], <<Put(Pair(w))>>, Only("flush") \o For(<<"verify">>, Pair(w)))
    /\ UNCHANGED local

(* mutant: a put is not looked at again *)
VerifySkipped(w) ==
    /\ At(w, "verify")
    /\ Skip(w)
    /\ UNCHANGED local

(* After the put: a sibling that stopped justifying the pair meanwhile.      *)
Verify(w) ==
    /\ At(w, "verify")
    /\ LET by == Justifiers(sf, Pair(w), work[w].k)
       IN \/ \E s \in by : Go(w, [work[w] EXCEPT !.by = s], <<>>, <<>>)
          \/ by = {} /\ Go(w, work[w], <<Remove(Pair(w))>>, Only("flush") \o Only("fail"))
    /\ UNCHANGED local

ConfirmLive(w) ==
    /\ At(w, "confirmLive")
    /\ Go(w, work[w], <<>>, IF work[w].by = None THEN <<>> ELSE For(<<"scanLive">>, Pair(w)))
    /\ UNCHANGED local

Settle(w) ==
    /\ At(w, "settle")
    /\ IF work[w].by = None THEN Skip(w)
       ELSE IF Justifiers(sf, Pair(w), work[w].k) = {} THEN Go(w, work[w], <<>>, Only("fail"))
       ELSE Go(w, work[w], <<Put(Pair(w))>>, Only("flush") \o For(<<"verify">>, Pair(w)))
    /\ UNCHANGED local

Reassert(w) ==
    /\ At(w, "reassert")
    /\ IF work[w].by = None THEN Skip(w)
       ELSE Go(w, work[w], <<Put(Pair(w))>>, Only("flush"))
    /\ UNCHANGED local

(* pairDurablyOwned: the sibling's entry comes to name the pair. *)
Own(w) ==
    /\ At(w, "own")
    /\ LET s == work[w].by
           e == grants[s]
       IN \/ /\ IF s = None THEN TRUE ELSE e.pair = Pair(w)
             /\ Skip(w)
             /\ UNCHANGED bucket
          \/ /\ s # None /\ e.pair # Pair(w)
             /\ IF e.marker # None
                THEN Go(w, work[w], <<>>, Only("fail")) /\ UNCHANGED bucket
                ELSE Skip(w) /\ Name(s, Pair(w), e.pair)
    /\ UNCHANGED <<sf, events, tuples, ledger>>

ClearMarker(w) ==
    /\ At(w, "clearMarker")
    /\ Skip(w)
    /\ IF Entry(w).marker # Pair(w) THEN UNCHANGED bucket
       ELSE IF Entry(w).pair = None THEN Erase(work[w].k)
       ELSE Rewrite(work[w].k, Entry(w).pair, None)
    /\ UNCHANGED <<sf, events, tuples, ledger>>

-----------------------------------------------------------------------------
(* publishKeyContactFGA and recordKeyContactGrant. *)

Snapshot(w) ==
    /\ At(w, "snapshot")
    /\ Go(w, [work[w] EXCEPT !.view = sf], <<>>, <<>>)
    /\ UNCHANGED local

Publish(w) ==
    /\ At(w, "publish")
    /\ LET kc == work[w].kc
       IN IF kc.status = "inactive" THEN Go(w, work[w], <<>>, Only("inactive"))
          ELSE IF kc.pair = None THEN Skip(w)
          ELSE Go(w, work[w], <<Put(kc.pair)>>, For(<<"record">>, kc.pair))
    /\ UNCHANGED local

(* An inactive record: a marker first, then its own pair when the bucket     *)
(* does not name it, then what the bucket names.                             *)
Inactive(w) ==
    /\ At(w, "inactive")
    /\ LET p == work[w].kc.pair
           e == Entry(w)
           own == For(<<"scan", "own">>, p)
       IN Go(w, work[w], <<>>,
             WhenSet(e.marker, RevokeSuperseded(e.marker))
             \o IF p # None /\ e.pair = None THEN own
                ELSE (IF p # None /\ e.pair # p THEN own ELSE <<>>) \o Only("expire"))
    /\ UNCHANGED local

(* mutant: the pair replaced is not carried as a marker *)
RecordBlind(w) ==
    /\ At(w, "record")
    /\ LET e == Entry(w)
           p == Pair(w)
       IN IF e.pair \in {None, p} THEN Skip(w) /\ Name(work[w].k, p, e.marker)
          ELSE Go(w, work[w], <<>>, RevokeSuperseded(e.pair)) /\ Name(work[w].k, p, None)
    /\ UNCHANGED <<sf, events, tuples, ledger>>

Record(w) ==
    /\ At(w, "record")
    /\ LET k == work[w].k
           p == Pair(w)
           e == Entry(w)
       IN /\ \/ /\ e.pair = p               \* the touch that a claim can see
                /\ Skip(w) /\ Name(k, p, e.marker)
             \/ /\ e.pair = None            \* no entry, or only a marker
                /\ Skip(w) /\ Name(k, p, e.marker)
             \/ /\ e.pair \notin {None, p} /\ e.marker \in {None, p}
                /\ Go(w, work[w], <<>>, RevokeSuperseded(e.pair)) /\ Name(k, p, e.pair)
             \/ /\ e.pair \notin {None, p} /\ e.marker \notin {None, p}
                /\ Go(w, [work[w] EXCEPT !.entry = e], <<>>,
                      Drain(e.marker) \o For(<<"write">>, p))
                /\ UNCHANGED bucket
          /\ logged' = IF e.pair = p THEN logged \cup ({e.marker} \ {None}) ELSE logged
    /\ UNCHANGED <<sf, events, tuples, changes, faults, lost>>

(* The marker is drained: the write that was waiting for its slot. *)
Write(w) ==
    /\ At(w, "write")
    /\ LET e == work[w].entry
       IN IF Entry(w).rev = e.rev
          THEN Go(w, work[w], <<>>, RevokeSuperseded(e.pair)) /\ Name(work[w].k, Pair(w), e.pair)
          ELSE Go(w, work[w], <<>>, For(<<"record">>, Pair(w))) /\ UNCHANGED bucket
    /\ UNCHANGED <<sf, events, tuples, ledger>>

-----------------------------------------------------------------------------
(* revokeKeyContactGrantIfNoLongerLive. *)

Expire(w) == \E d \in {"expire", "expireLive"} :
    /\ At(w, d)
    /\ Go(w, [work[w] EXCEPT !.entry = Entry(w)], <<>>,
          IF Entry(w).pair = None THEN <<>>
          ELSE For(<<IF d = "expire" THEN "justify" ELSE "justifyLive">>, Entry(w).pair))
    /\ UNCHANGED local

Justify(w) == \E d \in {"justify", "justifyLive"} :
    /\ At(w, d)
    /\ \E view \in Scanned(w, d) :
         LET by == Justifiers(view, Pair(w), work[w].k)
         IN \/ \E s \in by : Go(w, [work[w] EXCEPT !.by = s], <<>>,
                                For(<<"own">>, Pair(w)) \o Only("clear"))
            \/ by = {} /\ Go(w, work[w], <<>>, Only("claim"))
    /\ UNCHANGED local

(* The claim: a rewrite that a concurrent grant would have prevented. *)
Claim(w) ==
    /\ At(w, "claim")
    /\ LET e == work[w].entry
       IN IF Entry(w).rev = e.rev
          THEN Go(w, work[w], <<>>, Only("claimed")) /\ Rewrite(work[w].k, e.pair, e.marker)
          ELSE Skip(w) /\ UNCHANGED bucket
    /\ UNCHANGED <<sf, events, tuples, ledger>>

Claimed(w) ==
    /\ At(w, "claimed")
    /\ LET e == Entry(w)
           p == work[w].entry.pair
       IN IF e = Absent THEN Go(w, work[w], <<>>, Only("fail"))
          ELSE IF e.pair # p THEN Skip(w)
          ELSE Go(w, [work[w] EXCEPT !.entry = e], <<Remove(p)>>,
                  Only("flush") \o For(<<"regranted", "compare">>, p))
    /\ UNCHANGED local

Regranted(w) ==
    /\ At(w, "regranted")
    /\ IF Justifiers(sf, Pair(w), work[w].k) = {} THEN Skip(w)
       ELSE Go(w, work[w], <<Put(Pair(w))>>, Only("flush"))
    /\ UNCHANGED local

(* A grant of the same pair since the claim gets its tuple back. *)
Compare(w) ==
    /\ At(w, "compare")
    /\ LET e == Entry(w)
       IN IF e = Absent \/ (e.rev # work[w].entry.rev /\ e.pair # Pair(w)) THEN Skip(w)
          ELSE IF e.rev # work[w].entry.rev THEN Go(w, work[w], <<Put(Pair(w))>>, Only("flush"))
          ELSE Go(w, work[w], <<>>, Only("clear"))
    /\ UNCHANGED local

(* mutant: the marker goes with the pair *)
ClearWhole(w) ==
    /\ At(w, "clear")
    /\ Skip(w)
    /\ IF Entry(w).rev # work[w].entry.rev \/ Entry(w).rev = 0 THEN UNCHANGED bucket
       ELSE Erase(work[w].k)
    /\ UNCHANGED <<sf, events, tuples, ledger>>

(* clearRevokedGrant: the pair goes, a marker stays. *)
Clear(w) ==
    /\ At(w, "clear")
    /\ Skip(w)
    /\ LET e == work[w].entry
       IN IF Entry(w).rev # e.rev \/ e.rev = 0 THEN UNCHANGED bucket
          ELSE IF e.marker # None THEN Rewrite(work[w].k, None, e.marker)
          ELSE Erase(work[w].k)
    /\ UNCHANGED <<sf, events, tuples, ledger>>

-----------------------------------------------------------------------------
(* Deletes. *)

Lookup(w) ==
    /\ At(w, "lookup")
    /\ Go(w, [work[w] EXCEPT !.entry = Entry(w)], <<>>, <<>>)
    /\ UNCHANGED local

(* handleProjectRoleDelete: the record is gone, the entry is what is left.   *)
Withdraw(w) ==
    /\ At(w, "withdraw")
    /\ LET e == work[w].entry
       IN Go(w, work[w], <<>>,
             IF e.pair = None THEN WhenSet(e.marker, RevokeConfirmed(e.marker) \o Only("erase"))
             ELSE RevokeConfirmed(e.pair) \o Only("stop")
                  \o WhenSet(e.marker, RevokeConfirmed(e.marker) \o Only("keepMarker"))
                  \o Only("erase"))
    /\ UNCHANGED local

EraseEntry(w) ==
    /\ At(w, "erase")
    /\ Skip(w)
    /\ IF Entry(w).rev # work[w].entry.rev \/ Entry(w) = Absent THEN UNCHANGED bucket
       ELSE Erase(work[w].k)
    /\ UNCHANGED <<sf, events, tuples, ledger>>

-----------------------------------------------------------------------------
(* Salesforce: every change is an event. *)

Save(k, rec) ==
    /\ sf' = [sf EXCEPT ![k] = rec]
    /\ events' = Append(events, [k |-> k, deleted |-> rec = Gone])

Live == {r \in Records : r.status # "gone"}

Change(k) ==
    /\ changes < MaxChanges
    /\ changes' = changes + 1
    /\ \E rec \in Live \cup {Gone} : rec # sf[k] /\ Save(k, rec)
    /\ UNCHANGED <<bucket, tuples, wire, work, faults, logged, lost>>

-----------------------------------------------------------------------------
(* The key-contact API and the backfill. *)

Call(w, k, kc, program) ==
    /\ work[w] = Idle
    /\ changes < MaxChanges
    /\ changes' = changes + 1
    /\ work' = [work EXCEPT ![w] = [Idle EXCEPT !.k = k, !.kc = kc, !.todo = program]]
    /\ UNCHANGED <<bucket, tuples, wire, faults, logged, lost>>

Create(w, k) ==
    /\ sf[k] = Gone
    /\ \E rec \in Live :
         /\ Save(k, rec)
         /\ Call(w, k, rec, Only("publish") \o Only("catch") \o Miss(rec))

Update(w, k) ==
    /\ sf[k] # Gone
    /\ Call(w, k, sf[k], Only("save"))
    /\ UNCHANGED <<sf, events>>

Delete(w, k) ==
    /\ sf[k] # Gone
    /\ Call(w, k, sf[k], Only("lookup") \o Only("settleStale"))
    /\ UNCHANGED <<sf, events>>

Republish(w, k) ==
    /\ sf[k] # Gone
    /\ Call(w, k, sf[k], Upsert(sf[k]))
    /\ UNCHANGED <<sf, events>>

(* A new e-mail address: the new pair is granted before the old one goes,    *)
(* and that remove is not flushed.                                           *)
SaveUpdate(w) ==
    /\ At(w, "save")
    /\ LET old == work[w].kc
           k == work[w].k
       IN IF sf[k] = Gone THEN Go(w, work[w], <<>>, Only("fail")) /\ UNCHANGED <<sf, events>>
          ELSE \E new \in Live, renamed \in BOOLEAN :
                 /\ new # old
                 /\ Save(k, new)
                 /\ Go(w, [work[w] EXCEPT !.kc = new], <<>>,
                       IF renamed THEN Only("publish") \o Only("catch")
                            \o (IF new.pair = old.pair THEN <<>>
                                ELSE WhenSet(old.pair, For(<<"scanQuick">>, old.pair)))
                       ELSE IF new.pair = None THEN Only("expireLive") ELSE Only("publish"))
    /\ UNCHANGED <<bucket, tuples, ledger>>

(* The record's own pair: by its address, or else the one recorded.          *)
OwnPair(job) == IF job.kc.pair # None THEN job.kc.pair ELSE job.entry.pair

SettleStale(w) ==
    /\ At(w, "settleStale")
    /\ LET e == work[w].entry
       IN Go(w, work[w], <<>>,
             (IF e.pair \in {None, OwnPair(work[w])} THEN <<>> ELSE For(<<"scan", "own">>, e.pair))
             \o Only("delete"))
    /\ UNCHANGED local

DeleteRecord(w) ==
    /\ At(w, "delete")
    /\ LET k == work[w].k
           e == work[w].entry
           p == OwnPair(work[w])
       IN IF sf[k] = Gone THEN Go(w, work[w], <<>>, Only("fail")) /\ UNCHANGED <<sf, events>>
          ELSE /\ Save(k, Gone)
               /\ Go(w, work[w], <<>>,
                     WhenSet(p, For(<<"scan", "recover", "own", "stop">>, p))
                     \o WhenSet(e.marker, Drain(e.marker) \o Only("keepMarker"))
                     \o Only("erase"))
    /\ UNCHANGED <<bucket, tuples, ledger>>

-----------------------------------------------------------------------------
(* The consumer. *)

Take ==
    /\ work[Consumer] = Idle /\ events # <<>>
    /\ LET k == Head(events).k
           kc == IF Head(events).deleted THEN Gone ELSE sf[k]
       IN work' = [work EXCEPT ![Consumer] =
                     [Idle EXCEPT !.k = k, !.kc = kc, !.todo =
                        IF kc = Gone THEN Only("lookup") \o Only("snapshot") \o Only("withdraw")
                        ELSE Upsert(kc)]]
    /\ UNCHANGED <<wire, local>>

(* The pairs that the record and its entry name. *)
Known(k, kc) == {kc.pair, grants[k].pair, grants[k].marker} \ {None}

(* Over quota, or the read fails: logged, and for the quota queued.          *)
PassOver ==
    /\ work[Consumer] = Idle /\ events # <<>> /\ ~Head(events).deleted
    /\ faults < MaxFaults
    /\ faults' = faults + 1
    /\ events' = Tail(events)
    /\ LET k == Head(events).k
       IN logged' = logged \cup Known(k, sf[k])
    /\ UNCHANGED <<sf, bucket, tuples, wire, work, changes, lost>>

-----------------------------------------------------------------------------
(* Failures. *)

FirstHandler(todo) ==
    LET at == {i \in 2 .. Len(todo) : todo[i].do \in Handlers}
    IN IF at = {} THEN 0 ELSE CHOOSE i \in at : \A j \in at : i <= j

(* What is left to do when the call at the head of the program fails.        *)
Handled(job) ==
    LET todo == job.todo
        h == FirstHandler(todo)
        rest == SubSeq(todo, h + 1, Len(todo))
        e == job.entry
    IN IF h = 0 THEN <<>>
       ELSE CASE todo[h].do = "catch" -> rest
              [] todo[h].do = "stop" -> <<>>
              [] todo[h].do = "keepMarker" -> Only("clear")
              [] OTHER -> (IF e.marker # None /\ e.pair # todo[h].pair
                           THEN Drain(e.marker) \o For(<<"clearMarker">>, e.marker) ELSE <<>>)
                          \o For(<<"record">>, todo[h].pair)

GiveUp(w) == work' = [work EXCEPT ![w] = [@ EXCEPT !.hold = TRUE, !.todo = Handled(work[w])]]

Swallowed == {"clear", "clearMarker", "compare", "erase"}
Infallible == Handlers \cup {"fail", "confirmLive", "snapshot", "withdraw", "settleStale"}

Fails(w) ==
    /\ At(w, "fail")
    /\ GiveUp(w)
    /\ UNCHANGED <<wire, local>>

(* The messages a connection held are lost with it. *)
Unsent(w) == {wire[w][i].pair : i \in DOMAIN wire[w]}

CallFails(w) ==
    /\ work[w].todo # <<>> /\ Head(work[w].todo).do \notin Infallible
    /\ faults < MaxFaults
    /\ faults' = faults + 1
    /\ \/ UNCHANGED <<wire, lost>>
       \/ wire' = [wire EXCEPT ![w] = <<>>] /\ lost' = lost \cup Unsent(w)
    /\ IF Head(work[w].todo).do \in Swallowed \/ (At(w, "lookup") /\ w # Consumer)
       THEN work' = [work EXCEPT ![w].todo = Tail(@)]
       ELSE GiveUp(w)
    /\ UNCHANGED <<sf, events, bucket, tuples, changes, logged>>

Pass(w) == \E h \in Handlers :
    /\ At(w, h)
    /\ Skip(w)
    /\ UNCHANGED local

(* The consumer holds an event for a revoke that is not confirmed; of        *)
(* everything else that failed only the log tells.                           *)
Held(w) == w = Consumer /\ work[w].hold /\ (work[w].kc.status # "active" \/ work[w].kc.pair = None)
Told(w) == IF work[w].hold /\ ~Held(w) THEN Known(work[w].k, work[w].kc) ELSE {}

End(w) ==
    /\ work[w].k # None /\ work[w].todo = <<>>
    /\ work' = [work EXCEPT ![w] = Idle]
    /\ events' = IF w = Consumer /\ ~Held(w) THEN Tail(events) ELSE events
    /\ logged' = logged \cup Told(w)
    /\ UNCHANGED <<sf, bucket, tuples, wire, changes, faults, lost>>

(* A pair is put before the entry names it, and its write may wait for the   *)
(* marker's slot: a process that dies between leaves a tuple without entry.  *)
Unrecorded(w) == {s.pair : s \in {work[w].todo[i] : i \in {n \in DOMAIN work[w].todo :
                                    work[w].todo[n].do \in {"record", "write"}}}}

Crash(w) ==
    /\ work[w].k # None
    /\ faults < MaxFaults
    /\ faults' = faults + 1
    /\ work' = [work EXCEPT ![w] = Idle]
    /\ wire' = [wire EXCEPT ![w] = <<>>]
    /\ logged' = logged \cup Told(w)
    /\ lost' = lost \cup Unsent(w) \cup Unrecorded(w)
    /\ UNCHANGED <<sf, events, bucket, tuples, changes>>

(* The broker hands a message to fga-sync. *)
Deliver(w) ==
    /\ wire[w] # <<>>
    /\ wire' = [wire EXCEPT ![w] = Tail(@)]
    /\ LET m == Head(wire[w])
       IN IF m.op = "put" THEN tuples' = tuples \cup {m.pair} /\ UNCHANGED removed
          ELSE tuples' = tuples \ {m.pair} /\ removed' = removed \cup {m.pair}
    /\ UNCHANGED <<sf, events, grants, revision, work, ledger>>

-----------------------------------------------------------------------------
Revoke(w) == Scan(w) \/ Flush(w) \/ Recheck(w) \/ Verify(w) \/ ConfirmLive(w)
             \/ Settle(w) \/ Reassert(w) \/ Own(w) \/ ClearMarker(w)
Grant(w) == Snapshot(w) \/ Publish(w) \/ Inactive(w) \/ Record(w) \/ Write(w)
RevokeNoLongerLive(w) == Expire(w) \/ Justify(w) \/ Claim(w) \/ Claimed(w) \/ Regranted(w)
                         \/ Compare(w) \/ Clear(w)
Run(w) == Revoke(w) \/ Grant(w) \/ RevokeNoLongerLive(w) \/ Lookup(w) \/ Withdraw(w)
          \/ EraseEntry(w) \/ SaveUpdate(w) \/ SettleStale(w) \/ DeleteRecord(w)
          \/ Fails(w) \/ Pass(w) \/ End(w)

Next ==
    \/ \E k \in Contacts : Change(k)
    \/ \E w \in Writers, k \in Contacts :
         Create(w, k) \/ Update(w, k) \/ Delete(w, k) \/ Republish(w, k)
    \/ Take \/ PassOver
    \/ \E w \in Workers : Run(w) \/ CallFails(w) \/ Crash(w) \/ Deliver(w)

Spec == Init /\ [][Next]_vars

-----------------------------------------------------------------------------
(* Nothing is in progress and nothing on the way. *)
Quiet ==
    /\ events = <<>>
    /\ \A w \in Workers : work[w] = Idle /\ wire[w] = <<>>

Justified(p) == \E k \in Contacts : sf[k] = [status |-> "active", pair |-> p]
Addresses == {grants[k].pair : k \in Contacts} \cup {grants[k].marker : k \in Contacts}
(* What an operator is told about, and what an outage took. *)
Excused == logged \cup lost

(* A tuple that no record justifies any more is still named by an entry: a   *)
(* revoke that is not done keeps its durable address                         *)
(* (key_contact_grant.go:592, "overwriting it would discard the old pair's   *)
(* only revoke address").                                                    *)
NoDangling == Quiet => \A p \in tuples : Justified(p) \/ p \in Addresses \cup Excused

(* ... and without failures it is gone when nothing is in progress, or an    *)
(* active record's entry carries it as a marker: only a publish for a record *)
(* with an account, its deactivation or its delete drains one                *)
(* (key_contact_grant.go:190 and :594, cdc_consumer.go:2113).                *)
Carried(p) == \E k \in Contacts : sf[k].status = "active" /\ grants[k].marker = p
Withdrawn == Quiet => \A p \in tuples : Justified(p) \/ p \in Excused \/ Carried(p)

(* Whoever a record justifies has the tuple: a remove never takes away what  *)
(* another record, or a concurrent grant, justifies (recheck and repair).    *)
Granted == Quiet => \A p \in Pairs : Justified(p) => p \in tuples \cup Excused

(* The last entry that names a pair stops naming it only after a remove.     *)
KeepsAddresses == \A p \in Pairs : p \in Addresses /\ p \notin Addresses' => p \in removed

(* "An inactive contact must never hold a live tuple"                        *)
(* (key_contact_grant.go:181): once nothing is in progress, the tuple of an  *)
(* inactive record is justified by another one, or an error was logged.      *)
InactiveHoldsNothing == Quiet => \A p \in tuples :
    (\E k \in Contacts : sf[k] = [status |-> "inactive", pair |-> p])
        => Justified(p) \/ p \in Excused
=============================================================================
