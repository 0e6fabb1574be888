---------------------------- MODULE OrgSettings ----------------------------
(***************************************************************************)
(* The org-settings operations of internal/service/org_settings_writer.go  *)
(* and the promotion of invited people of invite_accepted.go, on one       *)
(* organization's document in the org-settings bucket                      *)
(* (internal/infrastructure/nats/b2b_org_settings.go).  A request is an    *)
(* HTTP call or an event, served by a goroutine of some API pod: it reads  *)
(* the document with its revision, computes a new one, writes it if the    *)
(* revision is still the same, and then publishes the access tuples and    *)
(* the search document.                                                    *)
(*                                                                         *)
(* Every write stamps the document with the time, so an ETag stands for a  *)
(* revision.  Left out: the e-mails and invitations sent, avatars, and the *)
(* resolution of key contacts after a promotion.                           *)
(***************************************************************************)
EXTENDS SettingsData

CONSTANTS
    Initial,      \* documents the organization may start with
    Payloads,     \* bulk updates: the lists given, and their new content
    Requests,     \* requests of a behaviour; each is one call or event
    MaxActive,    \* requests served at the same time
    MaxFaults     \* bound: calls that fail and events that are lost

ASSUME SettingsAssumption ==
    /\ Initial \subseteq Records
    /\ \A d \in Initial, l \in Roles : WithinCap(d, l)
    /\ Payloads \subseteq [given : SUBSET Roles, lists : Records]
    /\ MaxActive \in Nat
    /\ MaxFaults \in Nat

NoOp == [kind |-> "none", who |-> "none", role |-> "none"]
Bulk == [kind |-> "replace", who |-> "none", role |-> "none"]
Ops  == [kind : {"add", "change"}, who : People, role : Roles]
          \union [kind : {"remove"}, who : People, role : {"none"}]
          \union [kind : {"promote"}, who : People, role : Roles \union {"none"}]
          \union {Bulk}

AnyMatch == 0
Attempts == 3     \* maxRetries of promoteInviteInOrg

VARIABLES
    doc,         \* bucket: the stored document
    revision,    \* bucket: its revision, 0 when there is none
    registered,  \* people who have an account
    events,      \* invite_accepted events not taken yet, by person
    fga,         \* the people with a tuple of each role
    index,       \* search index: the document's lists
    pc,          \* request: where it stands
    op,          \* request: the operation
    match,       \* request: the revision its If-Match names, or AnyMatch
    base,        \* request: the revision it read
    new,         \* request: the document it is computing
    sync,        \* request: the lists it changes, passed on to fga-sync
    tries,       \* request: promotion attempts begun
    faults

bucket  == <<doc, revision>>
people  == <<registered, events>>
outside == <<fga, index>>
request == <<pc, op, match, base, new, sync, tries>>
vars    == <<bucket, people, outside, request, faults>>

Fault   == faults < MaxFaults /\ faults' = faults + 1
NoFault == UNCHANGED faults

Waiting == {"idle", "ok", "failed"}
Steps   == Waiting \union {"snapshot", "read", "lookup", "write", "access", "index"}
Busy    == {r \in Requests : pc[r] \notin Waiting}

Goto(r, s) == pc' = [pc EXCEPT ![r] = s]
Person(r)  == op[r].who
Role(r)    == op[r].role

----------------------------------------------------------------------------
(***************************************************************************)
(* The callers.                                                            *)
(***************************************************************************)

(* A person creates an account, following an invitation; the invite        *)
(* service publishes the event.                                            *)
Register(p) ==
    /\ p \notin registered
    /\ registered' = registered \union {p}
    /\ events' = events \union {p}
    /\ UNCHANGED <<bucket, outside, request, faults>>

(* The subscription has no acknowledgement: a pod that stops loses events.  *)
LoseEvent(p) ==
    /\ p \in events
    /\ Fault
    /\ events' = events \ {p}
    /\ UNCHANGED <<bucket, registered, outside, request>>

Arrive(r, o, s) ==
    /\ pc[r] = "idle"
    /\ Cardinality(Busy) < MaxActive
    /\ op' = [op EXCEPT ![r] = o]
    /\ Goto(r, s)
    /\ UNCHANGED <<bucket, outside, base, tries, faults>>

(* A call on one principal, with the ETag of an earlier read or without.    *)
Call(r, kind, p, l) ==
    /\ Arrive(r, [kind |-> kind, who |-> p, role |-> l], "read")
    /\ \E m \in {AnyMatch, revision} : match' = [match EXCEPT ![r] = m]
    /\ UNCHANGED <<people, new, sync>>

BulkUpdate(r, u) ==
    /\ u.given # {}
    /\ Arrive(r, Bulk, "read")
    /\ \E m \in {AnyMatch, revision} : match' = [match EXCEPT ![r] = m]
    /\ new' = [new EXCEPT ![r] = u.lists]
    /\ sync' = [sync EXCEPT ![r] = u.given]
    /\ UNCHANGED people

(* Handle takes an event; its role is only a tie-breaker and may be absent.  *)
InviteAccepted(r, p, l) ==
    /\ p \in events
    /\ events' = events \ {p}
    /\ Arrive(r, [kind |-> "promote", who |-> p, role |-> l], "snapshot")
    /\ UNCHANGED <<registered, match, new, sync>>

----------------------------------------------------------------------------
(***************************************************************************)
(* The operations up to the write: what each computes from a document.     *)
(***************************************************************************)
Held(d, p) == {l \in Roles : d[l][p] # Absent}

(* The request read the document and goes on to the write with e.          *)
Compute(r, e, lists) ==
    /\ base' = [base EXCEPT ![r] = revision]
    /\ new' = [new EXCEPT ![r] = e]
    /\ sync' = [sync EXCEPT ![r] = lists]
    /\ Goto(r, "write")

End(r, s) ==
    /\ Goto(r, s)
    /\ UNCHANGED <<base, new, sync>>

(* tryResendInPlace: the only live entry is pending in the same role.      *)
Resends(d, p, role) ==
    \E l \in Roles : /\ d[l][p] = Entry("pending", role)
                     /\ \A k \in Roles \ {l} : ~Live(d[k][p])

(* AddPrincipal, up to the lookup of the person's account.                 *)
ReadForAdd(r) ==
    \/ /\ Resends(doc, Person(r), Role(r))
       /\ Compute(r, doc, {Role(r)})
    \/ /\ ~Resends(doc, Person(r), Role(r))
       /\ \E l \in Roles : Live(doc[l][Person(r)])
       /\ End(r, "failed")
    \/ /\ \A l \in Roles : ~Live(doc[l][Person(r)])
       /\ base' = [base EXCEPT ![r] = revision]
       /\ new' = [new EXCEPT ![r] = Without(doc, Person(r))]
       /\ sync' = [sync EXCEPT ![r] =
                     IF Held(doc, Person(r)) = {} THEN {Role(r)} ELSE Roles]
       /\ Goto(r, "lookup")

(* Mutant: a writer without an account counts as an admin.                 *)
MovesCountingPending(r, e) ==
    IF WithinCap(e, Role(r)) /\ (Admins(doc) # {} => Members(e, "writer") # {})
      THEN Compute(r, e, Roles)
      ELSE End(r, "failed")

(* Mutant: only the list that gains the entry is passed on.                *)
MovesPublishingTarget(r, e) ==
    IF WithinCap(e, Role(r)) /\ KeepsAdmin(doc, e)
      THEN Compute(r, e, {Role(r)})
      ELSE End(r, "failed")

(* ChangePrincipalRole. *)
Moves(r, e) ==
    IF WithinCap(e, Role(r)) /\ KeepsAdmin(doc, e)
      THEN Compute(r, e, Roles)
      ELSE End(r, "failed")

ReadForChange(r) ==
    LET p == Person(r)
        moved == MostLive(doc, p)
    IN  \/ /\ Held(doc, p) = {}
           /\ End(r, "failed")
        \/ /\ Cardinality(Held(doc, p)) = 1
           /\ moved.as = Role(r)
           /\ End(r, "ok")
        \/ /\ Held(doc, p) # {}
           /\ ~(Cardinality(Held(doc, p)) = 1 /\ moved.as = Role(r))
           /\ Moves(r, Placed(Without(doc, p), p, Role(r), Entry(moved.status, Role(r))))

(* RemovePrincipal. *)
ReadForRemove(r) ==
    LET p == Person(r)
        e == Without(doc, p)
    IN  IF Held(doc, p) # {} /\ KeepsAdmin(doc, e)
          THEN Compute(r, e, Held(doc, p))
          ELSE End(r, "failed")

(* Update, from a bulk update or a promotion.                              *)
ReadForUpdate(r) ==
    IF \A l \in sync[r] : WithinCap(new[r], l)
      THEN Compute(r, [l \in Roles |-> IF l \in sync[r] THEN new[r][l] ELSE doc[l]],
                   sync[r])
      ELSE End(r, "failed")

(* A promotion that conflicts starts again, three times at most.           *)
Conflict(r) ==
    /\ Goto(r, IF op[r].kind = "promote" /\ tries[r] < Attempts
                 THEN "snapshot" ELSE "failed")
    /\ UNCHANGED <<base, new, sync>>

Matches(r) == match[r] \in {AnyMatch, revision}

(* GetSettings, the If-Match check, and what the operation makes of it.    *)
Read(r) ==
    /\ pc[r] = "read"
    /\ \/ Matches(r) /\ NoFault /\
            CASE op[r].kind = "add"    -> ReadForAdd(r)
              [] op[r].kind = "change" -> ReadForChange(r)
              [] op[r].kind = "remove" -> ReadForRemove(r)
              [] OTHER                 -> ReadForUpdate(r)
       \/ ~Matches(r) /\ NoFault /\ Conflict(r)
       \/ Fault /\ End(r, "failed")
    /\ UNCHANGED <<bucket, people, outside, op, match, tries>>

(* Mutant: the list is not counted again after the append.                 *)
LookupUnbounded(r) ==
    /\ pc[r] = "lookup"
    /\ new' = [new EXCEPT ![r] =
                 Placed(@, Person(r), Role(r),
                        Entry(IF Person(r) \in registered THEN "accepted" ELSE "pending",
                              Role(r)))]
    /\ Goto(r, "write")
    /\ NoFault
    /\ UNCHANGED <<bucket, people, outside, op, match, base, sync, tries>>

(* Mutant: a failed lookup is taken for "no account".                      *)
LookupFailsOpen(r) ==
    /\ pc[r] = "lookup"
    /\ new' = [new EXCEPT ![r] =
                 Placed(@, Person(r), Role(r), Entry("pending", Role(r)))]
    /\ Goto(r, "write")
    /\ NoFault
    /\ UNCHANGED <<bucket, people, outside, op, match, base, sync, tries>>

(* The new entry is accepted if the person has an account and pending if   *)
(* not; a failed lookup ends the request.  The invitation goes out here,   *)
(* before the write.                                                       *)
Lookup(r) ==
    LET p == Person(r)
        e == Placed(new[r], p, Role(r),
                    Entry(IF p \in registered THEN "accepted" ELSE "pending", Role(r)))
    IN  /\ pc[r] = "lookup"
        /\ \/ /\ WithinCap(e, Role(r))
              /\ new' = [new EXCEPT ![r] = e]
              /\ Goto(r, "write")
              /\ NoFault
           \/ /\ ~WithinCap(e, Role(r))
              /\ Goto(r, "failed")
              /\ NoFault
              /\ UNCHANGED new
           \/ /\ Fault
              /\ Goto(r, "failed")
              /\ UNCHANGED new
        /\ UNCHANGED <<bucket, people, outside, op, match, base, sync, tries>>

----------------------------------------------------------------------------
(***************************************************************************)
(* promoteInviteInOrg, up to its call of Update.                           *)
(***************************************************************************)
PendingIn(d, p) == {l \in Roles : d[l][p].status = "pending"}

Promotion(r, l) ==
    /\ new' = [new EXCEPT ![r] = [doc EXCEPT ![l][Person(r)].status = "accepted"]]
    /\ sync' = [sync EXCEPT ![r] = {l}]
    /\ match' = [match EXCEPT ![r] = revision]
    /\ tries' = [tries EXCEPT ![r] = @ + 1]
    /\ Goto(r, "read")

(* Mutant: the event's role decides, whichever list holds the entry.        *)
SnapshotByRole(r) ==
    /\ pc[r] = "snapshot"
    /\ PendingIn(doc, Person(r)) # {}
    /\ Role(r) \in Roles
    /\ Promotion(r, Role(r))
    /\ NoFault
    /\ UNCHANGED <<bucket, people, outside, op, base>>

(* The list that holds the pending entry; the event's role if both do.     *)
Snapshot(r) ==
    /\ pc[r] = "snapshot"
    /\ \/ /\ NoFault
          /\ \E l \in PendingIn(doc, Person(r)) :
               /\ PendingIn(doc, Person(r)) = {l} \/ l = Role(r)
               /\ Promotion(r, l)
       \/ /\ \/ NoFault /\ PendingIn(doc, Person(r)) = {}
             \/ NoFault /\ PendingIn(doc, Person(r)) = Roles /\ Role(r) = "none"
             \/ Fault
          /\ Goto(r, "failed")
          /\ UNCHANGED <<new, sync, match, tries>>
    /\ UNCHANGED <<bucket, people, outside, op, base>>

----------------------------------------------------------------------------
(***************************************************************************)
(* UpdateSettings and publishAll.                                          *)
(***************************************************************************)

(* Mutant: Put instead of Create and Update.                               *)
WriteAlways(r) ==
    /\ pc[r] = "write"
    /\ doc' = new[r]
    /\ revision' = revision + 1
    /\ Goto(r, "access")
    /\ NoFault
    /\ UNCHANGED <<people, outside, op, match, base, new, sync, tries>>

(* Create or Update in the bucket: only over the revision read.  A call    *)
(* that times out may have been applied.                                   *)
Write(r) ==
    /\ pc[r] = "write"
    /\ \/ /\ base[r] = revision
          /\ doc' = new[r]
          /\ revision' = revision + 1
          /\ \/ Goto(r, "access") /\ NoFault
             \/ Goto(r, "failed") /\ Fault
          /\ UNCHANGED <<base, new, sync>>
       \/ /\ base[r] # revision
          /\ Conflict(r)
          /\ NoFault
          /\ UNCHANGED bucket
       \/ /\ Fault
          /\ End(r, "failed")
          /\ UNCHANGED bucket
    /\ UNCHANGED <<people, outside, op, match, tries>>

(* The tuples of the lists in sync become those of the written document.   *)
(* Nothing is published when the organization cannot be read; a failed     *)
(* publish is logged only.                                                 *)
PublishAccess(r) ==
    /\ pc[r] = "access"
    /\ \/ /\ NoFault
          /\ fga' = [l \in Roles |-> IF l \in sync[r] THEN Active(new[r], l) ELSE fga[l]]
          /\ Goto(r, "index")
       \/ /\ Fault
          /\ Goto(r, "index") \/ Goto(r, "ok")
          /\ UNCHANGED fga
    /\ UNCHANGED <<bucket, people, index, op, match, base, new, sync, tries>>

PublishIndex(r) ==
    /\ pc[r] = "index"
    /\ \/ NoFault /\ index' = new[r]
       \/ Fault /\ UNCHANGED index
    /\ Goto(r, "ok")
    /\ UNCHANGED <<bucket, people, fga, op, match, base, new, sync, tries>>

----------------------------------------------------------------------------
Init ==
    /\ doc \in Initial
    /\ revision = IF doc = EmptyRecord THEN 0 ELSE 1
    /\ registered = {p \in People : \E l \in Roles : p \in Active(doc, l)}
    /\ events = {}
    /\ fga = [l \in Roles |-> Active(doc, l)]
    /\ index = doc
    /\ pc = [r \in Requests |-> "idle"]
    /\ op = [r \in Requests |-> NoOp]
    /\ match = [r \in Requests |-> AnyMatch]
    /\ base = [r \in Requests |-> 0]
    /\ new = [r \in Requests |-> EmptyRecord]
    /\ sync = [r \in Requests |-> {}]
    /\ tries = [r \in Requests |-> 0]
    /\ faults = 0

Outside == \E p \in People : Register(p) \/ LoseEvent(p)

Called(r) ==
    \/ \E p \in People, l \in Roles : Call(r, "add", p, l) \/ Call(r, "change", p, l)
    \/ \E p \in People : Call(r, "remove", p, "none")
    \/ \E u \in Payloads : BulkUpdate(r, u)
    \/ \E p \in People, l \in Roles \union {"none"} : InviteAccepted(r, p, l)

Serve(r) == \/ Snapshot(r)
            \/ Read(r)
            \/ Lookup(r)
            \/ Write(r)
            \/ PublishAccess(r)
            \/ PublishIndex(r)

Next == Outside \/ \E r \in Requests : Called(r) \/ Serve(r)

Spec == Init /\ [][Next]_vars

----------------------------------------------------------------------------
(* The shape of the state. *)
TypeOK ==
    /\ doc \in Records
    /\ revision \in Nat
    /\ registered \subseteq People
    /\ events \subseteq People
    /\ fga \in [Roles -> SUBSET People]
    /\ index \in Records
    /\ pc \in [Requests -> Steps]
    /\ op \in [Requests -> Ops \union {NoOp}]
    /\ match \in [Requests -> Nat]
    /\ base \in [Requests -> Nat]
    /\ new \in [Requests -> Records]
    /\ sync \in [Requests -> SUBSET Roles]
    /\ tries \in [Requests -> 0..Attempts]
    /\ faults \in 0..MaxFaults
    /\ \A r \in Requests : op[r] = NoOp <=> pc[r] = "idle"

(* Whatever else runs at the same time, every change of the document is    *)
(* one whole operation on the document it replaces: no entry another       *)
(* request wrote meanwhile is lost, revived or moved back.                 *)
Record == INSTANCE SettingsRecord WITH record <- doc

Atomic == Record!Spec

(* "The last accepted Admin cannot be removed": two requests that each     *)
(* leave one admin do not leave none together.  Only a bulk update, which  *)
(* the code does not check, takes the last one away.                       *)
LastAdmin ==
    [][KeepsAdmin(doc, doc') \/ \E r \in Requests : op[r] = Bulk /\ pc[r] = "write"]_vars

(* No list grows past its cap, although each request counts the entries of *)
(* a document it read earlier.                                             *)
ListsBounded == \A l \in Roles : WithinCap(doc, l)

(* Nothing is being served and no event is waiting. *)
Quiet == Busy = {} /\ events = {}

(* The tuples are those of the accepted entries and the search document    *)
(* shows the lists, once every request has ended: the lists an operation   *)
(* passes on are all it changed, an emptied one included.                  *)
Published ==
    Quiet => index = doc /\ \A l \in Roles : fga[l] = Active(doc, l)

(* docs/invite-application-flows.md on DeletePrincipal: "Removes a         *)
(* principal entirely".  Once every request has ended, nobody without an   *)
(* entry has a tuple.                                                      *)
RevokedStaysRevoked ==
    Quiet => \A p \in People : Held(doc, p) = {} => \A l \in Roles : p \notin fga[l]

(* docs/invite-application-flows.md on the status pending: "user has not   *)
(* yet created an LFID account".  Once every request has ended and every   *)
(* event is taken, a pending person has no account.  The invitation goes   *)
(* out before the entry is written, so this needs requests that are served *)
(* one at a time.                                                          *)
PendingHasNoAccount ==
    Quiet => \A p \in People : PendingIn(doc, p) # {} => p \notin registered

=============================================================================
