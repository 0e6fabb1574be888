----------------------------- MODULE ReadCache -----------------------------
(***************************************************************************)
(* One entry of the soft-TTL cache in front of Salesforce, a membership or *)
(* the key contacts of a membership: GetMembership and                     *)
(* ListKeyContactsForMembership of                                         *)
(* internal/infrastructure/salesforce/member_reader.go over the storage in *)
(* internal/infrastructure/nats/storage.go.  The change-event consumer and *)
(* the key-contact writer evict the entry after the record has changed.    *)
(*                                                                         *)
(* A value is the number of the change it shows.  A fetch takes less than  *)
(* the day after which the bucket drops a message.                         *)
(***************************************************************************)
EXTENDS Naturals

CONSTANTS
    Readers,         \* calls, and the refreshes they leave behind
    MaxVersions,     \* bound: changes of the record in Salesforce
    MaxWrites        \* bound: messages written to the key

VARIABLES
    version,     \* the record in Salesforce
    entry,       \* the last message of the key
    seq,         \* the last revision used
    reader,      \* where each reader stands, the revision it saw, its value
    evicted,     \* the record at the last eviction
    cached       \* the newest value ever written to the entry

cvars == <<version, entry, seq, reader, evicted, cached>>

Ages     == {"fresh", "stale", "expired"}
NoEntry  == [kind |-> "none", rev |-> 0, val |-> 0, age |-> "expired"]
Entries  == [kind : {"none", "put", "marker"}, rev : Nat, val : Nat, age : Ages]
Resting  == [at |-> "idle", rev |-> 0, val |-> 0]

Reads(r, q) == reader' = [reader EXCEPT ![r] = q]
Rests(r)    == Reads(r, Resting)
Under(r, s, rev) == Reads(r, [at |-> s, rev |-> rev, val |-> 0])

----------------------------------------------------------------------------
(* The record changes. *)
Change ==
    /\ version < MaxVersions
    /\ version' = version + 1
    /\ UNCHANGED <<entry, seq, reader, evicted, cached>>

(* DeleteMembership, DeleteKeyContactsForMembership: a delete marker,      *)
(* whether there is an entry or not.                                       *)
Evict ==
    /\ seq < MaxWrites
    /\ seq' = seq + 1
    /\ entry' = [kind |-> "marker", rev |-> seq', val |-> 0, age |-> "expired"]
    /\ evicted' = version
    /\ UNCHANGED <<version, reader, cached>>

(* CachedValue.Status: the entry passes its two soft limits.               *)
Age ==
    /\ entry.kind = "put"
    /\ \/ entry.age = "fresh" /\ entry' = [entry EXCEPT !.age = "stale"]
       \/ entry.age = "stale" /\ entry' = [entry EXCEPT !.age = "expired"]
    /\ UNCHANGED <<version, seq, reader, evicted, cached>>

(* The bucket drops the key's message, a day after it was written.         *)
Drop ==
    /\ entry.kind # "none"
    /\ entry.age = "expired"
    /\ \A r \in Readers : reader[r].at = "idle"
    /\ entry' = NoEntry
    /\ UNCHANGED <<version, seq, reader, evicted, cached>>

----------------------------------------------------------------------------
(* lookupCached: a fresh value is served; a stale one is served and        *)
(* fetched again in the background; an expired one is fetched; a miss asks *)
(* for the marker first; a read that fails counts as an empty key.         *)
Get(r) ==
    /\ reader[r].at = "idle"
    /\ \/ entry.kind = "put" /\ entry.age # "fresh" /\ Under(r, "fetch", entry.rev)
       \/ entry.kind # "put" /\ Under(r, "history", 0)
       \/ Under(r, "fetch", 0)
    /\ UNCHANGED <<version, entry, seq, evicted, cached>>

(* deleteMarkerRevision: 0 when the last message is no marker, or when the *)
(* history cannot be read.                                                 *)
History(r) ==
    /\ reader[r].at = "history"
    /\ \/ entry.kind = "marker" /\ Under(r, "fetch", entry.rev)
       \/ Under(r, "fetch", 0)
    /\ UNCHANGED <<version, entry, seq, evicted, cached>>

(* FetchMembershipBySFID, FetchKeyContactsByAssetSFID; the fetch may fail. *)
Fetch(r) ==
    /\ reader[r].at = "fetch"
    /\ \/ Reads(r, [reader[r] EXCEPT !.at = "write", !.val = version])
       \/ Rests(r)
    /\ UNCHANGED <<version, entry, seq, evicted, cached>>

(* Mutant: kv.Create for revision 0, which writes over a delete marker.    *)
MatchesCreate(rev) == IF rev = 0 THEN entry.kind # "put" ELSE entry.rev = rev

(* Mutant: only an eviction makes a write conflict.                        *)
MatchesLive(rev) == entry.kind = "put" \/ entry.rev = rev

(* kv.Update: the key's last message has the revision; 0 is an empty key.  *)
Matches(rev) == entry.rev = rev

(* putCachedAtRevision; a conflict, a failure and a membership without its *)
(* project leave the entry as it is.                                       *)
WriteBack(r) ==
    /\ reader[r].at = "write"
    /\ \/ /\ Matches(reader[r].rev)
          /\ seq < MaxWrites
          /\ seq' = seq + 1
          /\ entry' = [kind |-> "put", rev |-> seq', val |-> reader[r].val, age |-> "fresh"]
          /\ cached' = reader[r].val
       \/ UNCHANGED <<seq, entry, cached>>
    /\ Rests(r)
    /\ UNCHANGED <<version, evicted>>

----------------------------------------------------------------------------
CInit ==
    /\ version = 0
    /\ entry = NoEntry
    /\ seq = 0
    /\ reader = [r \in Readers |-> Resting]
    /\ evicted = 0
    /\ cached = 0

Read(r) == Get(r) \/ History(r) \/ Fetch(r) \/ WriteBack(r)

CNext ==
    \/ Change \/ Evict \/ Age \/ Drop
    \/ \E r \in Readers : Read(r)

CSpec == CInit /\ [][CNext]_cvars

----------------------------------------------------------------------------
(* The shape of the state. *)
CTypeOK ==
    /\ version \in Nat /\ seq \in Nat /\ evicted \in Nat /\ cached \in Nat
    /\ entry \in Entries
    /\ reader \in [Readers -> [at : {"idle", "history", "fetch", "write"},
                               rev : Nat, val : Nat]]

(* storage.go, PutKeyContactsForMembershipAtRevision: "a stale in-flight   *)
(* fetch cannot undo a CDC eviction": what the entry serves was read from  *)
(* Salesforce after the last eviction.                                     *)
EvictionHolds == entry.kind = "put" => entry.val >= evicted

(* Refreshes that overlap do not put an older value over a newer one, not  *)
(* even when the entry was dropped in between.                             *)
NotOlder   == cached' >= cached
NeverOlder == [][NotOlder]_cvars
=============================================================================
