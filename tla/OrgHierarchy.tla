---------------------------- MODULE OrgHierarchy ----------------------------
(***************************************************************************)
(* The links between organizations: which Salesforce Account is the parent *)
(* of which, the parent and child tuples fga-sync keeps of it, and the     *)
(* is_parent flag of a parent's search document.  They are derived by the  *)
(* CDC consumer's Account path (internal/service/cdc_consumer.go) and by   *)
(* the repair drain (internal/service/backfill_runner.go).                 *)
(*                                                                         *)
(* Two levels: heads have no parent, children no children.  An event names *)
(* one Account.  Team and user tuples, the documents of children, the      *)
(* purge's own recovery and the revisions of markers are in CdcConsumer    *)
(* and RepairQueue; a drain and the consumer do not overlap here, as in    *)
(* RepairQueue's ConvergesAlone.  Neither do the API's updates appear:     *)
(* none of them changes a parent.                                          *)
(***************************************************************************)
EXTENDS Integers, Sequences, FiniteSets

CONSTANTS
    Children,      \* Accounts that may have a parent
    Heads,         \* Accounts that may be one
    NoOrg,         \* stands for no Account
    MaxMoves,      \* bound: Salesforce changes
    MaxFailures    \* bound: failed reads, publishes and marker writes

Orgs    == Children \union Heads
Parents == Heads \union {NoOrg}

ASSUME HierarchyAssumption ==
    /\ Children \intersect Heads = {}
    /\ NoOrg \notin Orgs
    /\ MaxMoves \in Nat
    /\ MaxFailures \in Nat

(* An owner event is the creation of an Account's membership, and nothing  *)
(* else of it, which makes the Asset handler re-check the Account.         *)
Changes == {"upsert", "owner", "delete", "restore"}

(* A message replaces one relation of one organization.  "index" carries   *)
(* the children its is_parent was computed from.                           *)
Updates == [rel : {"child", "index"}, of : Heads, to : SUBSET Children]
             \union [rel : {"parent"}, of : Children, to : SUBSET Heads]
             \union [rel : {"purge"}, of : Children, to : {{}}]
             \union [rel : {"remove"}, of : Heads, to : {{}}]

ChildList(h, kids)  == [rel |-> "child",  of |-> h, to |-> kids]
ParentOrNone(c, p)  == [rel |-> "parent", of |-> c, to |-> {p}]   \* mutant: a reference to no organization
ParentOf(c, p)      == [rel |-> "parent", of |-> c, to |-> {p} \ {NoOrg}]
IndexOf(h, kids)    == [rel |-> "index",  of |-> h, to |-> kids]
RemoveFromIndex(o)  == IF o \in Heads THEN {[rel |-> "remove", of |-> o, to |-> {}]} ELSE {}
PurgeOf(c)          == [rel |-> "purge",  of |-> c, to |-> {}]

VARIABLES
    account,     \* Salesforce: parent and state of every Account; history: whether
                 \* an event has come since it became eligible ("told")
    feed,        \* change events the consumer has not finished
    lists,       \* fga-sync: the child tuples of every head
    above,       \* fga-sync: the parent tuples of every child
    shown,       \* search index: the document of every head
    sent,        \* messages under way: groups, each in any order
    marked,      \* cdc-repair: the b2b_org markers
    overlooked,  \* history: children whose old parent nothing will look for again
    work,        \* consumer: the Account in hand and what was read for it
    drain,       \* repair drain: the same
    moves, failures

hvars == <<account, feed, lists, above, shown, sent, marked, overlooked,
           work, drain, moves, failures>>
model == <<lists, above, shown>>

Idling == [stage |-> "idle", org |-> NoOrg, found |-> FALSE, parent |-> NoOrg, old |-> NoOrg,
           known |-> FALSE, stale |-> {}, kids |-> [h \in Heads |-> {}],
           read |-> FALSE, complete |-> TRUE]
Draining == [stage |-> "idle", org |-> NoOrg, parent |-> NoOrg, stale |-> {}]

----------------------------------------------------------------------------
Failure   == failures < MaxFailures /\ failures' = failures + 1
NoFailure == UNCHANGED failures

Eligible(o) == account[o].state = "eligible"

(* FetchChildUIDsByParentUIDs: the eligible Accounts that name h as parent. *)
ChildrenOf(h) == {c \in Children : Eligible(c) /\ account[c].parent = h}

(* queueForRepairDetached, with the markers written or only logged.        *)
QueueFailed(os, spent) ==
    \/ /\ marked' = marked \union os
       /\ failures' = failures + spent
       /\ UNCHANGED overlooked
    \/ /\ os # {} /\ failures + spent < MaxFailures
       /\ overlooked' = overlooked \union (os \intersect Children)
       /\ failures' = failures + spent + 1
       /\ UNCHANGED marked

QueueAfterFailure(os) == failures < MaxFailures /\ QueueFailed(os, 1)

Group(ms) == IF ms = {} THEN <<>> ELSE <<ms>>

(* ParentsListingChild.  The answer misses a list still under way, and for *)
(* a parentless organization whose old head has dropped it meanwhile it    *)
(* does not show that there was a parent.                                  *)
Listing(c)  == IF c \in Children THEN {h \in Heads : c \in lists[h]} ELSE {}
Pending     == UNION {sent[i] : i \in DOMAIN sent}
Unseen(c, parent) ==
    \E m \in Pending : m.rel = "child" /\ m.of \notin Listing(c) \union {parent} /\ c \in m.to
StillAbove(c) ==
    \/ above[c] # {}
    \/ \E m \in Pending : m.rel = "parent" /\ m.of = c /\ m.to # {}
Checked(o, missed) ==
    overlooked' = IF missed THEN overlooked \union {o} ELSE overlooked \ {o}

----------------------------------------------------------------------------
(***************************************************************************)
(* Salesforce.                                                             *)
(***************************************************************************)
Alter(o, parent, state, kinds) ==
    /\ moves < MaxMoves
    /\ moves' = moves + 1
    /\ \E k \in kinds :
         /\ account' = [account EXCEPT ![o] = [parent |-> parent, state |-> state,
                                              told |-> k # "none" \/ state # "eligible"]]
         /\ feed' = IF k = "none" THEN feed ELSE Append(feed, [org |-> o, kind |-> k])
    /\ UNCHANGED <<model, sent, marked, overlooked, work, drain, failures>>

Move(c, p) ==
    /\ account[c].state # "deleted" /\ account[c].parent # p
    /\ Alter(c, p, account[c].state, {"upsert"})

(* By its record type, or by its first or last membership.  The owner of a *)
(* membership that is created is re-checked; one that is lost, restored or *)
(* moved here from another Account, or becomes a membership by its product *)
(* family, brings the Account no event (cdc_consumer.go:1483).             *)
Qualify(o) ==
    /\ account[o].state = "ineligible"
    /\ Alter(o, account[o].parent, "eligible", {"upsert", "owner", "none"})
Disqualify(o) ==
    Eligible(o) /\ Alter(o, account[o].parent, "ineligible", {"upsert", "none"})

Remove(c) ==
    account[c].state # "deleted" /\ Alter(c, account[c].parent, "deleted", {"delete"})
Undelete(c) ==
    /\ account[c].state = "deleted"
    /\ \E s \in {"eligible", "ineligible"} : Alter(c, account[c].parent, s, {"restore"})

(* fga-sync and the indexer take the messages of a group in any order.     *)
Process ==
    /\ sent # <<>>
    /\ \E m \in Head(sent) :
         /\ lists' = IF m.rel = "child" THEN [lists EXCEPT ![m.of] = m.to] ELSE lists
         /\ above' = IF m.rel \in {"parent", "purge"} THEN [above EXCEPT ![m.of] = m.to] ELSE above
         /\ shown' = CASE m.rel = "index"  -> [shown EXCEPT ![m.of] = IF m.to = {} THEN "leaf" ELSE "parent"]
                       [] m.rel = "remove" -> [shown EXCEPT ![m.of] = "none"]
                       [] OTHER -> shown
         /\ sent' = Group(Head(sent) \ {m}) \o Tail(sent)
    /\ UNCHANGED <<account, feed, marked, overlooked, work, drain, moves, failures>>

----------------------------------------------------------------------------
(***************************************************************************)
(* The consumer: handleAccountUpsertBatch, one read after the other.       *)
(***************************************************************************)
Now == Head(feed)
Restore == Now.kind = "restore"
Recheck == Now.kind = "owner"

(* The event is done, or, for a restore that is not, held for a retry.     *)
Done(complete) ==
    /\ work' = Idling
    /\ feed' = IF complete THEN Tail(feed) ELSE feed

At(stage) == work.stage = stage /\ UNCHANGED <<account, model, drain, moves>>

Ready(kinds) == /\ At("idle") /\ drain = Draining
                /\ feed # <<>> /\ Now.kind \in kinds

(* No quota left: the Account is queued, a restore is held as well.        *)
SkipAccount ==
    /\ Ready({"upsert", "owner", "restore"})
    /\ QueueAfterFailure({Now.org})
    /\ Done(~Restore)
    /\ UNCHANGED sent

(* The record "before" the change is what GetB2BOrg returns.  It asks      *)
(* Salesforce whatever the cache holds (FetchSObject revalidates), so it   *)
(* is the Account as it is now; a failed read leaves no previous record.   *)
TakeAccount ==
    /\ Ready({"upsert", "owner", "restore"})
    /\ LET seen == IF account[Now.org].state = "deleted" THEN NoOrg ELSE account[Now.org].parent
       IN  IF Now.kind = "upsert"
             THEN \/ work' = [Idling EXCEPT !.stage = "accounts", !.org = Now.org, !.old = seen] /\ NoFailure
                  \/ work' = [Idling EXCEPT !.stage = "accounts", !.org = Now.org] /\ seen # NoOrg /\ Failure
             ELSE work' = [Idling EXCEPT !.stage = "accounts", !.org = Now.org] /\ NoFailure
    /\ UNCHANGED <<feed, sent, marked, overlooked>>

AccountsUnread ==
    /\ At("accounts")
    /\ IF Restore THEN Failure /\ UNCHANGED <<marked, overlooked>>
                  ELSE QueueAfterFailure({work.org, work.old} \ {NoOrg})
    /\ Done(~Restore)
    /\ UNCHANGED sent

(* An Account that does not qualify only leaves the index.                 *)
ReadAccounts ==
    /\ At("accounts")
    /\ LET o == work.org IN
         /\ work' = [work EXCEPT !.found = Eligible(o),
                       !.parent = IF Eligible(o) THEN account[o].parent ELSE NoOrg,
                       !.known = work.old # NoOrg /\ Eligible(work.old),
                       !.stage = IF Eligible(o) /\ ~Recheck THEN "links" ELSE "children"]
         /\ sent' = sent \o Group(IF Eligible(o) THEN {} ELSE RemoveFromIndex(o))
         /\ overlooked' = IF Eligible(o) THEN overlooked ELSE overlooked \union ({o} \intersect Children)
    /\ NoFailure
    /\ UNCHANGED <<feed, marked>>

(* Mutant: a failed read of the links is only logged.                      *)
ReadLinksLogged ==
    /\ At("links")
    /\ LET o == work.org IN
         \/ /\ work' = [work EXCEPT !.stage = "children", !.stale = Listing(o) \ {work.parent}]
            /\ Checked(o, o \in Children /\ Unseen(o, work.parent))
            /\ NoFailure
         \/ /\ work' = [work EXCEPT !.stage = "children"]
            /\ Failure /\ UNCHANGED overlooked
    /\ UNCHANGED <<feed, sent, marked>>

ReadLinks ==
    /\ At("links")
    /\ LET o == work.org IN
         \/ /\ work' = [work EXCEPT !.stage = "children", !.stale = Listing(o) \ {work.parent}]
            /\ Checked(o, /\ o \in Children
                          /\ \/ Unseen(o, work.parent)
                             \/ work.parent = NoOrg /\ Listing(o) = {} /\ StillAbove(o))
            /\ NoFailure /\ UNCHANGED marked
         \/ /\ work' = [work EXCEPT !.stage = "children"]
            /\ QueueAfterFailure({o})
    /\ UNCHANGED <<feed, sent>>

(* parentsToRefresh; mutant: the previous parent alone.                    *)
PreviousOnly == {work.old} \ {NoOrg}
Refreshed == {work.parent, work.old} \ {NoOrg}

(* Without the children an owner is not published, and a deleted Account   *)
(* has only its parent to refresh.                                         *)
ChildrenUnread ==
    /\ At("children")
    /\ work.found \/ Refreshed # {}
    /\ QueueAfterFailure(Refreshed \union (IF Recheck /\ work.found THEN {work.org} ELSE {}))
    /\ IF Recheck \/ ~work.found
         THEN Done(~Restore)
         ELSE work' = [work EXCEPT !.stage = "publish"] /\ UNCHANGED feed
    /\ UNCHANGED sent

ReadChildren ==
    /\ At("children")
    /\ work' = [work EXCEPT
                  !.stage = IF work.found THEN "publish" ELSE "refresh", !.read = TRUE,
                  !.kids = [h \in Heads |-> IF h \in {work.org, work.parent} \union Refreshed \union work.stale
                                              THEN ChildrenOf(h) ELSE {}]]
    /\ NoFailure
    /\ UNCHANGED <<feed, sent, marked, overlooked>>

(* BuildB2BOrgReparentingMessages with the lists fetchChildListsForReparent *)
(* reads: only when the previous record names another parent.              *)
Reparenting(c) ==
    IF Now.kind # "upsert" \/ work.old = work.parent
      THEN {}
      ELSE {ParentOf(c, work.parent)}
             \union {ChildList(h, ChildrenOf(h) \ {c}) : h \in {work.old} \ {NoOrg}}
             \union {ChildList(h, ChildrenOf(h) \union {c}) : h \in {work.parent} \ {NoOrg}}

LinkingOnMove(c) == IF Restore THEN {ParentOf(c, work.parent)} ELSE {}   \* mutant

(* publishB2BOrgParentFGA: a head without any child in the read is left    *)
(* out, while restoreOrgAccess sends its empty list.                       *)
Linking(c) ==
    IF work.parent = NoOrg \/ (Restore /\ ~work.read)
      THEN {}
      ELSE {ParentOf(c, work.parent)}
             \union (IF Restore \/ work.kids[work.parent] # {}
                       THEN {ChildList(work.parent, work.kids[work.parent])} ELSE {})

(* withdrawStaleChildLinks.                                                *)
Withdrawal(c) ==
    IF work.stale = {} \/ ~work.read
      THEN {}
      ELSE {ChildList(h, work.kids[h]) : h \in work.stale}
             \union (IF work.parent = NoOrg THEN {ParentOf(c, NoOrg)} ELSE {})

(* Every message is tried.  A failed withdrawal is queued, and one that    *)
(* was not tried for want of the children; a failed restore is held; any   *)
(* other failure is only logged.                                           *)
PublishOrg ==
    /\ At("publish")
    /\ LET o      == work.org
           child  == o \in Children
           index  == IF child THEN {} ELSE {IndexOf(o, work.kids[o])}
           links  == IF child THEN Reparenting(o) ELSE {}
           parent == IF child THEN Linking(o) ELSE {}
           gone   == IF child THEN Withdrawal(o) ELSE {}
           all    == index \union links \union parent \union gone
       IN  \E lost \in {{}} \union {{m} : m \in all} :
             LET retry == \/ gone \intersect lost # {}
                          \/ work.stale # {} /\ ~work.read
                 spent == Cardinality(lost)
             IN  /\ failures + spent <= MaxFailures
                 /\ sent' = sent \o Group(index \ lost) \o Group(links \ lost)
                                 \o Group(parent \ lost) \o Group(gone \ lost)
                 /\ QueueFailed(IF retry THEN {o} ELSE {}, spent)
                 /\ LET complete == Restore => work.read /\ parent \intersect lost = {}
                    IN  IF work.read
                          THEN /\ work' = [work EXCEPT !.stage = "refresh", !.complete = complete]
                               /\ UNCHANGED feed
                          ELSE Done(complete)

(* refreshParentIndex: the old parent was read with the batch, a new one   *)
(* is read now; only one that qualifies is published.                      *)
RefreshParents ==
    /\ At("refresh")
    /\ LET unread  == Refreshed \ {work.old}
           batch   == IF work.known THEN {work.old} ELSE {}
           Show(hs) == Group({IndexOf(h, work.kids[h]) : h \in hs})
       IN  \/ /\ sent' = sent \o Show(batch \union {h \in unread : Eligible(h)})
              /\ NoFailure /\ UNCHANGED <<marked, overlooked>>
           \/ /\ unread # {}
              /\ sent' = sent \o Show(batch)
              /\ QueueAfterFailure(unread)
    /\ Done(work.complete)

(* handleAccountDelete and refreshParentsOfDeleted: the parent is the one  *)
(* the recycle bin knows; a skipped or failed read of it is only logged.   *)
DeleteAccount ==
    /\ Ready({"delete"})
    /\ LET c == Now.org
           p == IF account[c].state = "deleted" THEN account[c].parent ELSE NoOrg
       IN  /\ sent' = Append(sent, {PurgeOf(c)})
           /\ \/ /\ p # NoOrg
                 /\ work' = [Idling EXCEPT !.stage = "children", !.org = c, !.parent = p]
                 /\ NoFailure /\ UNCHANGED feed
              \/ p = NoOrg /\ Done(TRUE) /\ NoFailure
              \/ p # NoOrg /\ Done(TRUE) /\ Failure
    /\ UNCHANGED <<marked, overlooked>>

----------------------------------------------------------------------------
(***************************************************************************)
(* The repair drain: reindexItem for one b2b_org marker.  A failed read or *)
(* an unconfirmed publish leaves the marker for the next drain.  Lists of  *)
(* children are read when they are published; that a run keeps the ones it *)
(* has read (newChildUIDsFetcher) is left out.                             *)
(***************************************************************************)
DrainStep(stage) == drain.stage = stage /\ UNCHANGED <<account, feed, model, work, moves>>

DrainSelect ==
    /\ DrainStep("idle")
    /\ work = Idling /\ feed = <<>>
    /\ \E o \in marked :
         IF Eligible(o)
           THEN /\ drain' = [Draining EXCEPT !.stage = "links", !.org = o, !.parent = account[o].parent]
                /\ UNCHANGED <<sent, marked, overlooked>>
           ELSE /\ sent' = sent \o Group(RemoveFromIndex(o))
                /\ marked' = marked \ {o}
                /\ overlooked' = overlooked \union ({o} \intersect Children)
                /\ UNCHANGED drain
    /\ NoFailure

DrainLinks ==
    /\ DrainStep("links")
    /\ drain' = [drain EXCEPT !.stage = "publish", !.stale = Listing(drain.org) \ {drain.parent}]
    /\ Checked(drain.org, drain.org \in Children /\ Unseen(drain.org, drain.parent))
    /\ NoFailure
    /\ UNCHANGED <<sent, marked>>

DrainPublish ==
    /\ DrainStep("publish")
    /\ LET o    == drain.org
           p    == drain.parent
           also == IF p = NoOrg THEN {} ELSE {p}
           all  == IF o \in Heads
                     THEN {IndexOf(o, ChildrenOf(o))}
                     ELSE {ParentOf(o, p)}
                            \union {ChildList(h, ChildrenOf(h)) : h \in drain.stale \union also}
       IN  \/ /\ sent' = Append(sent, all)
              /\ marked' = (marked \union also) \ {o}
              /\ NoFailure
           \/ /\ \E m \in all : sent' = sent \o Group(all \ {m})
              /\ marked' = marked \union also
              /\ Failure
    /\ drain' = Draining
    /\ UNCHANGED overlooked

----------------------------------------------------------------------------
(* A full reindex has derived everything from Salesforce.                  *)
HInit ==
    /\ account \in [Orgs -> [parent : Parents, state : {"eligible", "ineligible"}, told : {TRUE}]]
    /\ \A h \in Heads : account[h].parent = NoOrg
    /\ lists = [h \in Heads |-> ChildrenOf(h)]
    /\ above = [c \in Children |-> IF Eligible(c) THEN {account[c].parent} \ {NoOrg} ELSE {}]
    /\ shown = [h \in Heads |-> IF ~Eligible(h) THEN "none" ELSE
                                IF ChildrenOf(h) = {} THEN "leaf" ELSE "parent"]
    /\ feed = <<>> /\ sent = <<>> /\ marked = {} /\ overlooked = {}
    /\ work = Idling /\ drain = Draining
    /\ moves = 0 /\ failures = 0

Upstream == \/ \E c \in Children : (\E p \in Parents : Move(c, p)) \/ Remove(c) \/ Undelete(c)
            \/ \E o \in Orgs : Qualify(o) \/ Disqualify(o)

HandleAccount == \/ SkipAccount \/ TakeAccount \/ AccountsUnread \/ ReadAccounts \/ ReadLinks
                 \/ ChildrenUnread \/ ReadChildren \/ PublishOrg \/ RefreshParents \/ DeleteAccount

Reindex == DrainSelect \/ DrainLinks \/ DrainPublish

HNext == Upstream \/ Process \/ HandleAccount \/ Reindex

HSpec == HInit /\ [][HNext]_hvars

(* Every part of the state has its type; in particular nothing is linked   *)
(* to, or queued under, "no organization".                                 *)
HTypeOK ==
    /\ account \in [Orgs -> [parent : Parents, state : {"eligible", "ineligible", "deleted"},
                              told : BOOLEAN]]
    /\ feed \in Seq([org : Orgs, kind : Changes])
    /\ lists \in [Heads -> SUBSET Children]
    /\ above \in [Children -> SUBSET Heads]
    /\ shown \in [Heads -> {"none", "leaf", "parent"}]
    /\ sent \in Seq(SUBSET Updates)
    /\ marked \in SUBSET Orgs
    /\ overlooked \in SUBSET Children
    /\ moves \in 0 .. MaxMoves
    /\ failures \in 0 .. MaxFailures

(* Everything is handled and processed.                                    *)
Calm == feed = <<>> /\ sent = <<>> /\ work = Idling /\ drain = Draining

(* Whatever fails, an organization that some head other than its parent    *)
(* still lists as a child is queued for the repair run, unless nothing     *)
(* could know of it ("overlooked"): its last event found it outside the    *)
(* query, the list was still on its way to fga-sync when its links were    *)
(* read, or the marker could not be written.                               *)
StrayQueued ==
    Calm => \A c \in Children, h \in Heads :
                 Eligible(c) /\ c \in lists[h] /\ account[c].parent # h => c \in marked \union overlooked

(* The consumer has had an event since the Account became eligible.        *)
Told(o) == Eligible(o) /\ account[o].told

(* When nothing fails the tuples come to agree with Salesforce: each       *)
(* organization the consumer was told of has its parent's tuple and is in  *)
(* its parent's list, and, unless it was overlooked, it has no other.      *)
LinksExact ==
    Calm /\ failures = 0 =>
        \A c \in Children : Told(c) =>
            LET p == account[c].parent IN
              /\ p # NoOrg => above[c] = {p} /\ c \in lists[p]
              /\ c \notin overlooked => above[c] \subseteq {p} /\ \A h \in Heads \ {p} : c \notin lists[h]

(* When nothing fails every organization with children is shown with       *)
(* is_parent, if the consumer was told of it and of one of its children,   *)
(* in whichever order they qualified and by an event of the Account or of  *)
(* a membership.                                                           *)
ParentsShown ==
    Calm /\ failures = 0 =>
        \A h \in Heads : Told(h) /\ (\E c \in ChildrenOf(h) : Told(c)) => shown[h] = "parent"

(* docs/cdc-consumer.md: the previous parent of a moved organization is    *)
(* refreshed too, so no organization is shown with is_parent once the last *)
(* Account that named it as its parent has moved away.                     *)
FormerParentShown ==
    Calm /\ failures = 0 =>
        \A h \in Heads : Eligible(h) /\ shown[h] = "parent" =>
            \E c \in Children : account[c].parent = h /\ account[c].state # "deleted"
=============================================================================
