------------------------ MODULE OrgHierarchy_proofs ------------------------
(***************************************************************************)
(* Proofs about the links between organizations, for any number of         *)
(* Accounts, changes and failures: type correctness, that a stray link is  *)
(* queued for the repair run, and that when nothing fails the links and    *)
(* the is_parent flags come to agree with Salesforce; and that the two     *)
(* halves of the consumer both keep their types.                           *)
(*                                                                         *)
(* What carries the second is where a stray link is accounted for while    *)
(* events are still to be handled: in a marker, in the history of what was *)
(* overlooked, in an event still in the feed, or in the lists which the    *)
(* consumer or a drain is about to correct.  The last holds only as long   *)
(* as what they read of the Account and of its parent's children is not    *)
(* changed without another event for the same Account.                     *)
(*                                                                         *)
(* What carries the others is what the messages under way will leave: the  *)
(* links and flags as Salesforce has them, or an event still to be handled *)
(* makes them so, or the consumer is about to.                             *)
(***************************************************************************)
EXTENDS MCCdcRecords, CdcConsumer_proofs, FiniteSetTheorems

----------------------------------------------------------------------------
(***************************************************************************)
(* The shape of the state.                                                 *)
(***************************************************************************)
HStages == {"idle", "accounts", "links", "children", "publish", "refresh"}

WorkType == [stage : HStages, org : Orgs \union {NoOrg}, found : BOOLEAN,
             parent : Parents, old : Parents, known : BOOLEAN,
             stale : SUBSET Heads, kids : [Heads -> SUBSET Children],
             read : BOOLEAN, complete : BOOLEAN]

(* The consumer works on the event at the head of its feed, beside no      *)
(* drain; its links are read only for an Account that qualifies, and never *)
(* for an owner's event.                                                   *)
Working ==
    /\ work \in WorkType
    /\ work.stage = "idle" => work = Idling
    /\ work.stage # "idle" => feed # <<>> /\ work.org = Now.org /\ drain = Draining
    /\ work.known => work.old # NoOrg
    /\ work.stage = "accounts" => Now.kind # "delete"
    /\ work.stage = "links" => work.found /\ ~Recheck
    /\ work.stage = "publish" => work.found
    /\ work.stale # {} => work.found /\ ~Recheck /\ work.stage \notin {"accounts", "links"}

(* A drain keeps the marker it works on.                                   *)
Drains ==
    /\ drain \in [stage : {"idle", "links", "publish"}, org : Orgs \union {NoOrg},
                  parent : Parents, stale : SUBSET Heads]
    /\ drain.stage = "idle" => drain = Draining
    /\ drain.stage # "idle" => drain.org \in marked

(* Heads are not deleted.                                                  *)
Deletions == \A i \in 1 .. Len(feed) : feed[i].kind = "delete" => feed[i].org \in Children

HTyped == HTypeOK /\ Working /\ Drains /\ Deletions

(* What one publication loses is nothing or one message, counted as such.  *)
LEMMA OneOrNone ==
  ASSUME NEW S, NEW x \in {{}} \union {{m} : m \in S}
  PROVE  /\ Cardinality(x) \in Nat
         /\ x = {} \/ Cardinality(x) = 1
<1>1. CASE x = {}
  <2>1. Cardinality({}) = 0
    BY FS_EmptySet
  <2> QED BY <1>1, <2>1
<1>2. ASSUME NEW m \in S, x = {m}
      PROVE  Cardinality(x) = 1
  <2>1. Cardinality({m}) = 1
    BY FS_Singleton
  <2> QED BY <1>2, <2>1
<1> QED BY <1>1, <1>2

(* The idle consumer and the idle drain have their shape.                  *)
LEMMA Shapes ==
  /\ Idling \in WorkType
  /\ Draining \in [stage : {"idle", "links", "publish"}, org : Orgs \union {NoOrg},
                   parent : Parents, stale : SUBSET Heads]
BY DEF WorkType, HStages, Idling, Draining, Orgs, Parents

(* Every message built from Accounts of this shape is an update.           *)
LEMMA MessageShapes ==
  /\ \A h \in Heads, kids \in SUBSET Children :
        ChildList(h, kids) \in Updates /\ IndexOf(h, kids) \in Updates
  /\ \A c \in Children, p \in Parents : ParentOf(c, p) \in Updates
  /\ \A c \in Children : PurgeOf(c) \in Updates
  /\ \A o : RemoveFromIndex(o) \in SUBSET Updates
BY DEF ChildList, IndexOf, ParentOf, PurgeOf, RemoveFromIndex, Updates, Parents

(* The children of a head are children.                                    *)
LEMMA ChildrenShape == ASSUME NEW h PROVE ChildrenOf(h) \in SUBSET Children
BY DEF ChildrenOf

(* A group of updates is a sequence of groups.                             *)
LEMMA OneGroup == \A g \in SUBSET Updates : Group(g) \in Seq(SUBSET Updates)
<1> SUFFICES ASSUME NEW g \in SUBSET Updates PROVE Group(g) \in Seq(SUBSET Updates)
  OBVIOUS
<1>1. CASE g = {}
  BY <1>1, EmptySeq DEF Group
<1>2. ASSUME NEW S, NEW e \in S PROVE <<e>> \in Seq(S)
  OBVIOUS
<1>3. CASE g # {}
  BY <1>2, <1>3 DEF Group
<1> QED BY <1>1, <1>3

(* Sending a group.                                                        *)
LEMMA GroupShape ==
  ASSUME NEW s \in Seq(SUBSET Updates), NEW g \in SUBSET Updates
  PROVE  /\ s \o Group(g) \in Seq(SUBSET Updates)
         /\ g = {} => s \o Group(g) = s
         /\ g # {} => s \o Group(g) = Append(s, g)
<1>1. CASE g = {}
  BY <1>1, ConcatEmptySeq DEF Group
<1>2. CASE g # {}
  <2>1. Group(g) = <<g>>
    BY <1>2 DEF Group
  <2>2. Append(s, g) = s \o <<g>>
    BY AppendIsConcat
  <2>3. Append(s, g) \in Seq(SUBSET Updates)
    BY AppendProperties
  <2> QED BY <1>2, <2>1, <2>2, <2>3
<1> QED BY <1>1, <1>2

(* What is queued is marked, or overlooked.                                *)
LEMMA QueuedShape ==
  ASSUME HTypeOK, NEW os \in SUBSET Orgs, NEW spent \in Nat, QueueFailed(os, spent),
         failures + spent <= MaxFailures
  PROVE  /\ marked' \in SUBSET Orgs /\ overlooked' \in SUBSET Children
         /\ failures' \in 0 .. MaxFailures
         /\ marked \subseteq marked' /\ overlooked \subseteq overlooked'
         /\ os \intersect Children \subseteq marked' \union overlooked'
<1>1. failures' \in 0 .. MaxFailures
  <2>1. failures \in Nat /\ MaxFailures \in Nat
    BY HierarchyAssumption DEF HTypeOK
  <2>2. failures' = failures + spent \/ (failures' = failures + spent + 1 /\ failures + spent < MaxFailures)
    BY DEF QueueFailed
  <2>3. failures + spent \in 0 .. MaxFailures /\ failures + spent <= MaxFailures
    BY <2>1
  <2> QED BY <2>1, <2>2, <2>3
<1>2. \/ marked' = marked \union os /\ overlooked' = overlooked
      \/ marked' = marked /\ overlooked' = overlooked \union (os \intersect Children)
  BY DEF QueueFailed
<1>3. marked \in SUBSET Orgs /\ overlooked \in SUBSET Children
  BY DEF HTypeOK
<1> QED BY <1>1, <1>2, <1>3

(* The same for a marker queued after a failed call.                       *)
LEMMA QueuedAfterShape ==
  ASSUME HTypeOK, NEW os \in SUBSET Orgs, QueueAfterFailure(os)
  PROVE  /\ marked' \in SUBSET Orgs /\ overlooked' \in SUBSET Children
         /\ failures' \in 0 .. MaxFailures
         /\ marked \subseteq marked' /\ overlooked \subseteq overlooked'
         /\ os \intersect Children \subseteq marked' \union overlooked'
<1>1. failures + 1 <= MaxFailures /\ QueueFailed(os, 1)
  BY HierarchyAssumption DEF HTypeOK, QueueAfterFailure
<1> QED BY <1>1, QueuedShape

(* A call that fails or does not is counted within the bound.              *)
LEMMA FailureShape ==
  ASSUME HTypeOK, Failure \/ NoFailure
  PROVE  failures' \in 0 .. MaxFailures
BY HierarchyAssumption DEF HTypeOK, Failure, NoFailure

(* Only children are overlooked.                                           *)
LEMMA CheckedShape ==
  ASSUME HTypeOK, NEW o \in Orgs, NEW missed, missed => o \in Children, Checked(o, missed)
  PROVE  overlooked' \in SUBSET Children
BY DEF HTypeOK, Checked

(* The event in hand is done, or kept for another try.                     *)
LEMMA DoneShape ==
  ASSUME HTyped, feed # <<>>, NEW complete, Done(complete), drain' = drain, marked \subseteq marked'
  PROVE  /\ feed' \in Seq([org : Orgs, kind : Changes])
         /\ Working' /\ Drains' /\ Deletions'
<1>1. feed' \in Seq([org : Orgs, kind : Changes])
  BY DEF HTyped, HTypeOK, Done
<1>2. work' = Idling
  BY DEF Done
<1>3. Working'
  BY <1>2, Shapes DEF Working, Idling
<1>4. Drains'
  BY DEF HTyped, Drains
<1>5. Deletions'
  <2>1. CASE feed' = feed
    BY <2>1 DEF HTyped, Deletions
  <2>2. CASE feed' = Tail(feed)
    <3>1. ASSUME NEW S, NEW s \in Seq(S), s # <<>>
          PROVE  /\ Len(s) \in Nat \ {0} /\ Len(Tail(s)) = Len(s) - 1
                 /\ \A i \in 1 .. Len(s) - 1 : i + 1 \in 1 .. Len(s) /\ Tail(s)[i] = s[i + 1]
      BY <3>1
    <3>2. feed \in Seq([org : Orgs, kind : Changes])
      BY DEF HTyped, HTypeOK
    <3> QED BY <2>2, <3>1, <3>2 DEF HTyped, Deletions
  <2> QED BY <2>1, <2>2 DEF Done
<1> QED BY <1>1, <1>3, <1>4, <1>5

----------------------------------------------------------------------------
(* The state has its shape at the start.                                   *)
LEMMA HInitTyped == ASSUME HInit PROVE HTyped
<1>1. HTypeOK
  <2>1. account \in [Orgs -> [parent : Parents, state : {"eligible", "ineligible", "deleted"}, told : BOOLEAN]]
    BY DEF HInit
  <2>2. lists \in [Heads -> SUBSET Children]
    BY ChildrenShape DEF HInit
  <2>3. above \in [Children -> SUBSET Heads]
    BY <2>1 DEF HInit, Parents, Orgs
  <2>4. shown \in [Heads -> {"none", "leaf", "parent"}]
    BY DEF HInit
  <2> QED BY <2>1, <2>2, <2>3, <2>4, HierarchyAssumption DEF HInit, HTypeOK
<1>2. Working /\ Drains
  BY Shapes DEF HInit, Working, Drains, Idling, Draining
<1>3. Deletions
  BY DEF HInit, Deletions
<1> QED BY <1>1, <1>2, <1>3 DEF HTyped

(* A change of Salesforce keeps the shape of the state.                    *)
LEMMA UpstreamTyped == ASSUME HTyped, Upstream PROVE HTyped'
<1>1. PICK o \in Orgs, p \in Parents, s \in {"eligible", "ineligible", "deleted"},
           kinds \in SUBSET (Changes \union {"none"}) :
              Alter(o, p, s, kinds) /\ ("delete" \in kinds => o \in Children)
  <2>1. ASSUME NEW o \in Orgs
        PROVE  account[o].parent \in Parents /\ account[o].state \in {"eligible", "ineligible", "deleted"}
    BY DEF HTyped, HTypeOK
  <2>2. CASE \E c \in Children, p \in Parents : Move(c, p)
    BY <2>1, <2>2 DEF Move, Changes, Orgs
  <2>3. CASE \E c \in Children : Remove(c) \/ Undelete(c)
    BY <2>1, <2>3 DEF Remove, Undelete, Changes, Orgs
  <2>4. CASE \E o \in Orgs : Qualify(o) \/ Disqualify(o)
    BY <2>1, <2>4 DEF Qualify, Disqualify, Changes
  <2> QED BY <2>2, <2>3, <2>4 DEF Upstream
<1>2. PICK k \in kinds, b \in BOOLEAN :
        /\ UNCHANGED <<lists, above, shown, sent, marked, overlooked, work, drain, failures>>
        /\ moves < MaxMoves /\ moves' = moves + 1
        /\ account' = [account EXCEPT ![o] = [parent |-> p, state |-> s, told |-> b]]
        /\ b <=> k # "none" \/ s # "eligible"
        /\ feed' = IF k = "none" THEN feed ELSE Append(feed, [org |-> o, kind |-> k])
  <2>1. ASSUME NEW k \in kinds PROVE (k # "none" \/ s # "eligible") \in BOOLEAN
    OBVIOUS
  <2> QED BY <1>1, <2>1 DEF Alter, model
<1>3. feed' = IF k = "none" THEN feed ELSE Append(feed, [org |-> o, kind |-> k])
  BY <1>2
<1>4. account' \in [Orgs -> [parent : Parents, state : {"eligible", "ineligible", "deleted"}, told : BOOLEAN]]
  BY <1>2 DEF HTyped, HTypeOK
<1>5. feed \in Seq([org : Orgs, kind : Changes])
  BY DEF HTyped, HTypeOK
<1>6. /\ feed' \in Seq([org : Orgs, kind : Changes])
      /\ feed # <<>> => feed' # <<>> /\ Now' = Now
  <2>1. CASE k = "none"
    BY <1>3, <1>5, <2>1 DEF Now
  <2>2. CASE k # "none"
    <3>1. [org |-> o, kind |-> k] \in [org : Orgs, kind : Changes]
      BY <2>2
    <3>2. feed' = Append(feed, [org |-> o, kind |-> k])
      BY <1>3, <2>2
    <3>3. feed' \in Seq([org : Orgs, kind : Changes])
      BY <1>5, <3>1, <3>2
    <3>4. feed # <<>> => feed' # <<>> /\ feed'[1] = feed[1]
      BY <1>5, <3>1, <3>2
    <3> QED BY <1>5, <3>3, <3>4 DEF Now
  <2> QED BY <2>1, <2>2
<1>7. moves' \in 0 .. MaxMoves
  BY <1>2, HierarchyAssumption DEF HTyped, HTypeOK
<1>8. HTypeOK'
  BY <1>2, <1>4, <1>6, <1>7 DEF HTyped, HTypeOK
<1>9. Working'
  <2>1. work.stage = "idle" => work'.stale = {}
    BY <1>2 DEF HTyped, Working, Idling
  <2> QED BY <1>2, <1>6, <2>1 DEF HTyped, Working, Recheck
<1>10. Deletions'
  <2>1. CASE k = "none"
    BY <1>3, <2>1 DEF HTyped, Deletions
  <2>2. CASE k # "none"
    <3>1. feed' = Append(feed, [org |-> o, kind |-> k]) /\ (k = "delete" => o \in Children)
      BY <1>1, <1>3, <2>2
    <3>2. ASSUME NEW S, NEW q \in Seq(S), NEW e
          PROVE  /\ Len(q) \in Nat /\ Len(Append(q, e)) = Len(q) + 1
                 /\ \A i \in 1 .. Len(q) : Append(q, e)[i] = q[i]
                 /\ Append(q, e)[Len(q) + 1] = e
      BY <3>2
    <3>3. /\ Len(feed) \in Nat /\ Len(feed') = Len(feed) + 1
          /\ \A i \in 1 .. Len(feed) : feed'[i] = feed[i]
          /\ feed'[Len(feed) + 1] = [org |-> o, kind |-> k]
      BY <1>5, <3>1, <3>2
    <3>4. ASSUME NEW i \in 1 .. Len(feed'), feed'[i].kind = "delete"
          PROVE  feed'[i].org \in Children
      <4>1. i \in 1 .. Len(feed) \/ i = Len(feed) + 1
        BY <3>3
      <4> QED BY <3>1, <3>3, <3>4, <4>1 DEF HTyped, Deletions
    <3> QED BY <3>4 DEF Deletions
  <2> QED BY <2>1, <2>2
<1> QED BY <1>2, <1>8, <1>9, <1>10 DEF HTyped, Drains

(* A message that is processed keeps the shape of the state.               *)
LEMMA ProcessTyped == ASSUME HTyped, Process PROVE HTyped'
<1>1. PICK m \in Head(sent) :
         /\ lists' = IF m.rel = "child" THEN [lists EXCEPT ![m.of] = m.to] ELSE lists
         /\ above' = IF m.rel \in {"parent", "purge"} THEN [above EXCEPT ![m.of] = m.to] ELSE above
         /\ shown' = CASE m.rel = "index"  -> [shown EXCEPT ![m.of] = IF m.to = {} THEN "leaf" ELSE "parent"]
                       [] m.rel = "remove" -> [shown EXCEPT ![m.of] = "none"]
                       [] OTHER -> shown
         /\ sent' = Group(Head(sent) \ {m}) \o Tail(sent)
  BY DEF Process
<1>2. sent \in Seq(SUBSET Updates) /\ sent # <<>>
  BY DEF HTyped, HTypeOK, Process
<1>3. Head(sent) \in SUBSET Updates /\ Tail(sent) \in Seq(SUBSET Updates)
  BY <1>2
<1>4. m \in Updates
  BY <1>3
<1>5. lists' \in [Heads -> SUBSET Children]
  <2>1. m.rel = "child" => m.to \in SUBSET Children
    BY <1>4 DEF Updates
  <2> QED BY <1>1, <2>1 DEF HTyped, HTypeOK
<1>6. above' \in [Children -> SUBSET Heads]
  <2>1. m.rel \in {"parent", "purge"} => m.to \in SUBSET Heads
    BY <1>4 DEF Updates
  <2> QED BY <1>1, <2>1 DEF HTyped, HTypeOK
<1>7. shown' \in [Heads -> {"none", "leaf", "parent"}]
  <2>1. CASE m.rel = "index"
    BY <1>1, <2>1 DEF HTyped, HTypeOK
  <2>2. CASE m.rel = "remove"
    BY <1>1, <2>2 DEF HTyped, HTypeOK
  <2>3. CASE m.rel \notin {"index", "remove"}
    BY <1>1, <2>3 DEF HTyped, HTypeOK
  <2> QED BY <2>1, <2>2, <2>3
<1>8. sent' \in Seq(SUBSET Updates)
  <2>1. Group(Head(sent) \ {m}) \in Seq(SUBSET Updates)
    BY <1>3, OneGroup
  <2>2. sent' = Group(Head(sent) \ {m}) \o Tail(sent)
    BY <1>1
  <2>3. ASSUME NEW s \in Seq(SUBSET Updates), NEW t \in Seq(SUBSET Updates)
        PROVE  s \o t \in Seq(SUBSET Updates)
    BY ConcatProperties
  <2> QED BY <1>3, <2>1, <2>2, <2>3
<1>9. UNCHANGED <<account, feed, marked, overlooked, work, drain, moves, failures>>
  BY DEF Process
<1>10. HTypeOK'
  BY <1>5, <1>6, <1>7, <1>8, <1>9 DEF HTyped, HTypeOK
<1>11. Working' /\ Drains' /\ Deletions'
  BY <1>9 DEF HTyped, Working, Drains, Now, Recheck, Deletions
<1> QED BY <1>10, <1>11 DEF HTyped

----------------------------------------------------------------------------
(* What a step of the consumer or of a drain has to leave in shape.        *)
LEMMA StepShape ==
  ASSUME HTypeOK, UNCHANGED <<account, lists, above, shown, moves>>,
         feed' \in Seq([org : Orgs, kind : Changes]), sent' \in Seq(SUBSET Updates),
         marked' \in SUBSET Orgs, overlooked' \in SUBSET Children, failures' \in 0 .. MaxFailures
  PROVE  HTypeOK'
BY DEF HTypeOK

(* The event in hand, and the Account it names.                            *)
LEMMA InHand ==
  ASSUME HTyped, feed # <<>>
  PROVE  /\ Now \in [org : Orgs, kind : Changes] /\ Now = feed[1]
         /\ Len(feed) \in Nat \ {0}
         /\ Tail(feed) \in Seq([org : Orgs, kind : Changes])
         /\ Len(Tail(feed)) = Len(feed) - 1
         /\ \A i \in 1 .. Len(feed) - 1 : Tail(feed)[i] = feed[i + 1]
<1>1. feed \in Seq([org : Orgs, kind : Changes])
  BY DEF HTyped, HTypeOK
<1>2. ASSUME NEW S, NEW s \in Seq(S), s # <<>>
      PROVE  /\ Head(s) \in S /\ Head(s) = s[1] /\ Len(s) \in Nat \ {0}
             /\ Tail(s) \in Seq(S) /\ Len(Tail(s)) = Len(s) - 1
             /\ \A i \in 1 .. Len(s) - 1 : Tail(s)[i] = s[i + 1]
  BY <1>2
<1> QED BY <1>1, <1>2 DEF Now

(* The parts of what the consumer has in hand.                             *)
LEMMA FieldShapes ==
  ASSUME HTyped
  PROVE  /\ work.stage \in HStages /\ work.org \in Orgs \union {NoOrg}
         /\ work.parent \in Parents /\ work.old \in Parents
         /\ work.stale \in SUBSET Heads /\ work.kids \in [Heads -> SUBSET Children]
         /\ work.found \in BOOLEAN /\ work.read \in BOOLEAN
         /\ Refreshed \in SUBSET Heads
         /\ \A o \in Orgs : account[o].parent \in Parents
BY DEF HTyped, Working, WorkType, Refreshed, Parents, HTypeOK

(* The groups PublishOrg sends, before one of them is lost.                *)
Indexing == IF work.org \in Children THEN {} ELSE {IndexOf(work.org, work.kids[work.org])}
Moving   == IF work.org \in Children THEN Reparenting(work.org) ELSE {}
Joining  == IF work.org \in Children THEN Linking(work.org) ELSE {}
Leaving  == IF work.org \in Children THEN Withdrawal(work.org) ELSE {}

(* What PublishOrg sends are updates.                                      *)
LEMMA GroupsShape ==
  ASSUME HTyped, work.stage = "publish"
  PROVE  Indexing \union Moving \union Joining \union Leaving \in SUBSET Updates
<1>0. work.org \in Orgs
  BY InHand DEF HTyped, Working
<1>1. Indexing \in SUBSET Updates
  BY <1>0, FieldShapes, MessageShapes DEF Indexing, Orgs
<1>2. Moving \in SUBSET Updates
  <2>1. CASE work.org \notin Children
    BY <2>1 DEF Moving
  <2>2. CASE work.org \in Children
    <3>1. ParentOf(work.org, work.parent) \in Updates
      BY <2>2, FieldShapes, MessageShapes
    <3>2. \A h \in Heads : /\ ChildList(h, ChildrenOf(h) \ {work.org}) \in Updates
                           /\ ChildList(h, ChildrenOf(h) \union {work.org}) \in Updates
      BY <2>2, MessageShapes, ChildrenShape
    <3>3. {work.old} \ {NoOrg} \subseteq Heads /\ {work.parent} \ {NoOrg} \subseteq Heads
      BY FieldShapes DEF Parents
    <3> QED BY <2>2, <3>1, <3>2, <3>3 DEF Moving, Reparenting
  <2> QED BY <2>1, <2>2
<1>3. Joining \in SUBSET Updates
  BY FieldShapes, MessageShapes DEF Joining, Linking, Parents
<1>4. Leaving \in SUBSET Updates
  <2>1. NoOrg \in Parents
    BY DEF Parents
  <2> QED BY <2>1, FieldShapes, MessageShapes DEF Leaving, Withdrawal
<1> QED BY <1>1, <1>2, <1>3, <1>4

(* What publishing the Account does.                                       *)
LEMMA PublishShape ==
  ASSUME HTyped, PublishOrg
  PROVE  \E lost \in SUBSET Updates :
            /\ sent' = sent \o Group(Indexing \ lost) \o Group(Moving \ lost)
                            \o Group(Joining \ lost) \o Group(Leaving \ lost)
            /\ sent' \in Seq(SUBSET Updates)
            /\ marked' \in SUBSET Orgs /\ overlooked' \in SUBSET Children
            /\ failures' \in 0 .. MaxFailures
            /\ marked \subseteq marked' /\ overlooked \subseteq overlooked'
            /\ Leaving \intersect lost # {} \/ (work.stale # {} /\ ~work.read)
                  => {work.org} \intersect Children \subseteq marked' \union overlooked'
            /\ \/ /\ \E b \in BOOLEAN : work' = [work EXCEPT !.stage = "refresh", !.complete = b]
                  /\ UNCHANGED feed
               \/ \E b \in BOOLEAN : Done(b)
<1>0. work.stage = "publish" /\ work.org \in Orgs /\ feed # <<>>
  BY InHand DEF HTyped, Working, PublishOrg, At
<1> DEFINE all == Indexing \union Moving \union Joining \union Leaving
           Retry(lost) == \/ Leaving \intersect lost # {}
                          \/ work.stale # {} /\ ~work.read
           Whole(lost) == Restore => work.read /\ Joining \intersect lost = {}
<1>1. PICK lost \in {{}} \union {{m} : m \in all} :
         /\ failures + Cardinality(lost) <= MaxFailures
         /\ sent' = sent \o Group(Indexing \ lost) \o Group(Moving \ lost)
                         \o Group(Joining \ lost) \o Group(Leaving \ lost)
         /\ QueueFailed(IF Retry(lost) THEN {work.org} ELSE {}, Cardinality(lost))
         /\ IF work.read
              THEN work' = [work EXCEPT !.stage = "refresh", !.complete = Whole(lost)] /\ UNCHANGED feed
              ELSE Done(Whole(lost))
  BY DEF PublishOrg, Indexing, Moving, Joining, Leaving
<1>2. lost \in SUBSET Updates
  BY <1>0, <1>1, GroupsShape
<1>3. Cardinality(lost) \in Nat
  BY OneOrNone
<1>4. /\ marked' \in SUBSET Orgs /\ overlooked' \in SUBSET Children
      /\ failures' \in 0 .. MaxFailures
      /\ marked \subseteq marked' /\ overlooked \subseteq overlooked'
      /\ Retry(lost) => {work.org} \intersect Children \subseteq marked' \union overlooked'
  <2>1. HTypeOK /\ (IF Retry(lost) THEN {work.org} ELSE {}) \in SUBSET Orgs
    BY <1>0 DEF HTyped
  <2>2. \A os \in SUBSET Orgs, spent \in Nat :
           QueueFailed(os, spent) /\ failures + spent <= MaxFailures =>
             /\ marked' \in SUBSET Orgs /\ overlooked' \in SUBSET Children
             /\ failures' \in 0 .. MaxFailures
             /\ marked \subseteq marked' /\ overlooked \subseteq overlooked'
             /\ os \intersect Children \subseteq marked' \union overlooked'
    BY <2>1, QueuedShape
  <2> QED BY <1>1, <1>3, <2>1, <2>2
<1>5. sent' \in Seq(SUBSET Updates)
  <2>1. sent \in Seq(SUBSET Updates)
    BY DEF HTyped, HTypeOK
  <2>2. \A s \in Seq(SUBSET Updates), g \in SUBSET Updates : s \o Group(g) \in Seq(SUBSET Updates)
    BY GroupShape
  <2>3. /\ Indexing \ lost \in SUBSET Updates /\ Moving \ lost \in SUBSET Updates
        /\ Joining \ lost \in SUBSET Updates /\ Leaving \ lost \in SUBSET Updates
    BY <1>0, GroupsShape
  <2>4. sent \o Group(Indexing \ lost) \in Seq(SUBSET Updates)
    BY <2>1, <2>2, <2>3
  <2>5. sent \o Group(Indexing \ lost) \o Group(Moving \ lost) \in Seq(SUBSET Updates)
    BY <2>2, <2>3, <2>4
  <2>6. sent \o Group(Indexing \ lost) \o Group(Moving \ lost) \o Group(Joining \ lost)
          \in Seq(SUBSET Updates)
    BY <2>2, <2>3, <2>5
  <2> QED BY <1>1, <2>2, <2>3, <2>6
<1>6. \/ /\ \E b \in BOOLEAN : work' = [work EXCEPT !.stage = "refresh", !.complete = b]
         /\ UNCHANGED feed
      \/ \E b \in BOOLEAN : Done(b)
  <2>1. Whole(lost) \in BOOLEAN
    OBVIOUS
  <2> HIDE DEF Whole
  <2> QED BY <1>1, <2>1
<1> HIDE DEF Retry
<1>7. Leaving \intersect lost # {} \/ (work.stale # {} /\ ~work.read) <=> Retry(lost)
  BY DEF Retry
<1> QED BY <1>1, <1>2, <1>4, <1>5, <1>6, <1>7

----------------------------------------------------------------------------
(* A handler that ends, or that goes on with the event in hand.            *)
LEMMA EndTyped ==
  ASSUME HTyped, feed # <<>>, NEW b, Done(b), UNCHANGED <<account, lists, above, shown, drain, moves>>,
         sent' \in Seq(SUBSET Updates), marked' \in SUBSET Orgs, marked \subseteq marked',
         overlooked' \in SUBSET Children, failures' \in 0 .. MaxFailures
  PROVE  HTyped'
BY DoneShape, StepShape DEF HTyped

(* A step that goes on with its event keeps the shape of the state.        *)
LEMMA GoOnTyped ==
  ASSUME HTyped, feed # <<>>, UNCHANGED <<account, lists, above, shown, drain, moves, feed>>,
         drain = Draining,
         sent' \in Seq(SUBSET Updates), marked' \in SUBSET Orgs, marked \subseteq marked',
         overlooked' \in SUBSET Children, failures' \in 0 .. MaxFailures,
         work' \in WorkType, work'.stage # "idle", work'.org = Now.org,
         work'.known => work'.old # NoOrg,
         work'.stage = "accounts" => Now.kind # "delete",
         work'.stage = "links" => work'.found /\ ~Recheck,
         work'.stage = "publish" => work'.found,
         work'.stale # {} => work'.found /\ ~Recheck /\ work'.stage \notin {"accounts", "links"}
  PROVE  HTyped'
<1>1. feed' \in Seq([org : Orgs, kind : Changes])
  BY DEF HTyped, HTypeOK
<1>2. HTypeOK'
  BY <1>1, StepShape DEF HTyped
<1>3. Working'
  BY DEF Working, Now, Recheck
<1>4. Drains' /\ Deletions'
  BY DEF HTyped, Drains, Deletions
<1> QED BY <1>2, <1>3, <1>4 DEF HTyped

(* A step of the consumer keeps the shape of the state.                    *)
LEMMA ConsumerTyped == ASSUME HTyped, HandleAccount PROVE HTyped'
<1>0. /\ UNCHANGED <<account, lists, above, shown, drain, moves>>
      /\ feed # <<>> /\ drain = Draining
  BY DEF HandleAccount, SkipAccount, TakeAccount, AccountsUnread, ReadAccounts, ReadLinks,
         ChildrenUnread, ReadChildren, PublishOrg, RefreshParents, DeleteAccount,
         Ready, At, model, HTyped, Working
<1>n. /\ HTypeOK /\ marked \in SUBSET Orgs /\ overlooked \in SUBSET Children
      /\ sent \in Seq(SUBSET Updates) /\ failures \in 0 .. MaxFailures
      /\ Now.org \in Orgs
      /\ work.stage # "idle" => work.org = Now.org
  BY <1>0, InHand DEF HTyped, HTypeOK, Working
<1>1. CASE SkipAccount
  <2>1. QueueAfterFailure({Now.org}) /\ Done(~Restore) /\ UNCHANGED sent
    BY <1>1 DEF SkipAccount
  <2>2. {Now.org} \in SUBSET Orgs
    BY <1>n
  <2>3. PICK b : b = ~Restore
    OBVIOUS
  <2> QED BY <1>0, <1>n, <2>1, <2>2, <2>3, QueuedAfterShape, EndTyped
<1>2. CASE TakeAccount
  <2>1. /\ Now.kind # "delete"
        /\ UNCHANGED <<feed, sent, marked, overlooked>> /\ (Failure \/ NoFailure)
    BY <1>2 DEF TakeAccount, Ready
  <2>2. PICK p \in Parents :
           \/ work' = [Idling EXCEPT !.stage = "accounts", !.org = Now.org, !.old = p]
           \/ work' = [Idling EXCEPT !.stage = "accounts", !.org = Now.org]
    <3>1. NoOrg \in Parents /\ account[Now.org].parent \in Parents
      BY <1>n, FieldShapes DEF Parents
    <3> QED BY <1>2, <3>1 DEF TakeAccount
  <2>3. /\ work' \in WorkType /\ work'.stage = "accounts" /\ work'.org = Now.org
        /\ work'.known = FALSE /\ work'.stale = {}
    <3>1. CASE work' = [Idling EXCEPT !.stage = "accounts", !.org = Now.org, !.old = p]
      BY <1>n, <3>1, Shapes DEF WorkType, HStages, Idling
    <3>2. CASE work' = [Idling EXCEPT !.stage = "accounts", !.org = Now.org]
      BY <1>n, <3>2, Shapes DEF WorkType, HStages, Idling
    <3> QED BY ONLY <2>2, <3>1, <3>2
  <2>4. failures' \in 0 .. MaxFailures
    BY <1>n, <2>1, FailureShape
  <2> QED BY <1>0, <1>n, <2>1, <2>3, <2>4, GoOnTyped
<1>3. CASE AccountsUnread
  <2>1. CASE Restore
    BY <1>0, <1>n, <1>3, <2>1, FailureShape, EndTyped DEF AccountsUnread
  <2>2. CASE ~Restore
    <3>1. QueueAfterFailure({work.org, work.old} \ {NoOrg}) /\ Done(TRUE) /\ UNCHANGED sent
      BY <1>3, <2>2 DEF AccountsUnread
    <3>2. {work.org, work.old} \ {NoOrg} \in SUBSET Orgs
      BY FieldShapes DEF Parents, Orgs
    <3> QED BY <1>0, <1>n, <3>1, <3>2, QueuedAfterShape, EndTyped
  <2> QED BY <2>1, <2>2
<1>4. CASE ReadAccounts
  <2>0. work.stage = "accounts" /\ work.org = Now.org
    BY <1>n, <1>4 DEF ReadAccounts, At
  <2>1. /\ UNCHANGED <<feed, marked>> /\ NoFailure
        /\ sent' = sent \o Group(IF Eligible(work.org) THEN {} ELSE RemoveFromIndex(work.org))
        /\ overlooked' = IF Eligible(work.org) THEN overlooked ELSE overlooked \union ({work.org} \intersect Children)
    BY <1>4 DEF ReadAccounts
  <2>2. work' = [work EXCEPT !.found = Eligible(work.org),
                       !.parent = IF Eligible(work.org) THEN account[work.org].parent ELSE NoOrg,
                       !.known = work.old # NoOrg /\ Eligible(work.old),
                       !.stage = IF Eligible(work.org) /\ ~Recheck THEN "links" ELSE "children"]
    BY <1>4 DEF ReadAccounts
  <2>3. sent' \in Seq(SUBSET Updates)
    <3>1. (IF Eligible(work.org) THEN {} ELSE RemoveFromIndex(work.org)) \in SUBSET Updates
      BY MessageShapes
    <3> QED BY <1>n, <2>1, <3>1, GroupShape
  <2>4. Eligible(work.org) \in BOOLEAN /\ (work.old # NoOrg /\ Eligible(work.old)) \in BOOLEAN
    BY DEF Eligible
  <2>5. (IF Eligible(work.org) THEN account[work.org].parent ELSE NoOrg) \in Parents
    BY <1>n, <2>0, FieldShapes DEF Parents
  <2>6. work \in WorkType
    BY DEF HTyped, Working
  <2>7. /\ work' \in WorkType /\ work'.stage \in {"links", "children"} /\ work'.org = work.org
        /\ work'.known => work'.old # NoOrg
        /\ work'.stage = "links" => work'.found /\ ~Recheck
        /\ work'.stale = work.stale
    <3> HIDE DEF Recheck
    <3> QED BY <2>2, <2>4, <2>5, <2>6 DEF WorkType, HStages
  <2>8. work.stale = {}
    BY <2>0 DEF HTyped, Working
  <2>9. failures' \in 0 .. MaxFailures
    BY <1>n, <2>1, FailureShape
  <2> QED BY <1>0, <1>n, <2>0, <2>1, <2>3, <2>7, <2>8, <2>9, GoOnTyped
<1>5. CASE ReadLinks
  <2>0. work.stage = "links" /\ work.org = Now.org
    BY <1>n, <1>5 DEF ReadLinks, At
  <2>1. work.found /\ ~Recheck /\ work \in WorkType
    BY <2>0 DEF HTyped, Working
  <2>2. Listing(work.org) \in SUBSET Heads
    BY DEF Listing
  <2>3. /\ work' \in WorkType /\ work'.stage = "children" /\ work'.org = work.org
        /\ work'.known = work.known /\ work'.old = work.old /\ work'.found = work.found
    <3>1. \/ work' = [work EXCEPT !.stage = "children", !.stale = Listing(work.org) \ {work.parent}]
          \/ work' = [work EXCEPT !.stage = "children"]
      BY <1>5 DEF ReadLinks
    <3> QED BY <2>1, <2>2, <3>1 DEF WorkType, HStages
  <2>4. work'.known => work'.old # NoOrg
    BY <2>3 DEF HTyped, Working
  <2>5. /\ marked' \in SUBSET Orgs /\ marked \subseteq marked'
        /\ overlooked' \in SUBSET Children /\ failures' \in 0 .. MaxFailures
        /\ UNCHANGED <<feed, sent>>
    <3>1. CASE QueueAfterFailure({work.org})
      <4>1. {work.org} \in SUBSET Orgs
        BY <1>n, <2>0
      <4> QED BY <1>n, <1>5, <3>1, <4>1, QueuedAfterShape DEF ReadLinks
    <3>2. CASE ~QueueAfterFailure({work.org})
      <4>1. /\ NoFailure /\ marked' = marked /\ UNCHANGED <<feed, sent>>
            /\ Checked(work.org, /\ work.org \in Children
                                 /\ \/ Unseen(work.org, work.parent)
                                    \/ work.parent = NoOrg /\ Listing(work.org) = {} /\ StillAbove(work.org))
        BY <1>5, <3>2 DEF ReadLinks
      <4>2. overlooked' \in SUBSET Children
        BY <1>n, <4>1 DEF Checked
      <4> QED BY <1>n, <4>1, <4>2, FailureShape
    <3> QED BY <3>1, <3>2
  <2> QED BY <1>0, <1>n, <2>0, <2>1, <2>3, <2>4, <2>5, GoOnTyped
<1>6. CASE ChildrenUnread
  <2>0. work.stage = "children" /\ work.org = Now.org
    BY <1>n, <1>6 DEF ChildrenUnread, At
  <2>1. Refreshed \union (IF Recheck /\ work.found THEN {work.org} ELSE {}) \in SUBSET Orgs
    BY <1>n, <2>0, FieldShapes DEF Orgs
  <2>2. /\ marked' \in SUBSET Orgs /\ marked \subseteq marked'
        /\ overlooked' \in SUBSET Children /\ failures' \in 0 .. MaxFailures
        /\ sent' = sent
    BY <1>n, <1>6, <2>1, QueuedAfterShape DEF ChildrenUnread
  <2>3. CASE Recheck \/ ~work.found
    <3>1. Done(~Restore)
      BY <1>6, <2>3 DEF ChildrenUnread
    <3> QED BY <1>0, <1>n, <2>2, <3>1, EndTyped
  <2>4. CASE ~Recheck /\ work.found
    <3>1. work' = [work EXCEPT !.stage = "publish"] /\ UNCHANGED feed
      BY <1>6, <2>4 DEF ChildrenUnread
    <3>2. work \in WorkType
      BY DEF HTyped, Working
    <3>3. /\ work' \in WorkType /\ work'.stage = "publish" /\ work'.org = work.org
          /\ work'.known = work.known /\ work'.old = work.old /\ work'.found = work.found
          /\ work'.stale = work.stale
      BY <3>1, <3>2 DEF WorkType, HStages
    <3>4. work'.known => work'.old # NoOrg
      BY <3>3 DEF HTyped, Working
    <3> QED BY <1>0, <1>n, <2>0, <2>2, <2>4, <3>1, <3>3, <3>4, GoOnTyped
  <2> QED BY <2>3, <2>4
<1>7. CASE ReadChildren
  <2>0. work.stage = "children" /\ work.org = Now.org /\ work \in WorkType
    BY <1>n, <1>7 DEF ReadChildren, At, HTyped, Working
  <2> DEFINE kids == [h \in Heads |-> IF h \in {work.org, work.parent} \union Refreshed \union work.stale
                                        THEN ChildrenOf(h) ELSE {}]
  <2>1. /\ work' = [work EXCEPT !.stage = IF work.found THEN "publish" ELSE "refresh",
                               !.read = TRUE, !.kids = kids]
        /\ NoFailure /\ UNCHANGED <<feed, sent, marked, overlooked>>
    BY <1>7 DEF ReadChildren
  <2>2. kids \in [Heads -> SUBSET Children]
    BY ChildrenShape
  <2> HIDE DEF kids
  <2>3. /\ work' \in WorkType /\ work'.stage \in {"publish", "refresh"} /\ work'.org = work.org
        /\ work'.stage = "publish" => work.found
        /\ work'.known = work.known /\ work'.old = work.old /\ work'.found = work.found
        /\ work'.stale = work.stale
    BY <2>0, <2>1, <2>2 DEF WorkType, HStages
  <2>4. /\ work'.known => work'.old # NoOrg
        /\ work'.stale # {} => work'.found /\ ~Recheck
    BY <2>3 DEF HTyped, Working
  <2>5. failures' \in 0 .. MaxFailures
    BY <1>n, <2>1, FailureShape
  <2> QED BY <1>0, <1>n, <2>0, <2>1, <2>3, <2>4, <2>5, GoOnTyped
<1>8. CASE PublishOrg
  <2>0. work.stage = "publish" /\ work.org = Now.org /\ work \in WorkType
    BY <1>n, <1>8 DEF PublishOrg, At, HTyped, Working
  <2>1. /\ sent' \in Seq(SUBSET Updates)
        /\ marked' \in SUBSET Orgs /\ marked \subseteq marked'
        /\ overlooked' \in SUBSET Children /\ failures' \in 0 .. MaxFailures
    BY <1>8, PublishShape
  <2>2. CASE \E b \in BOOLEAN : Done(b)
    BY <1>0, <2>1, <2>2, EndTyped
  <2>3. ASSUME NEW b \in BOOLEAN, work' = [work EXCEPT !.stage = "refresh", !.complete = b], UNCHANGED feed
        PROVE  HTyped'
    <3>1. /\ work' \in WorkType /\ work'.stage = "refresh" /\ work'.org = work.org
          /\ work'.known = work.known /\ work'.old = work.old /\ work'.found = work.found
          /\ work'.stale = work.stale
      BY <2>0, <2>3 DEF WorkType, HStages
    <3>2. /\ work'.known => work'.old # NoOrg
          /\ work'.stale # {} => work'.found /\ ~Recheck
      BY <3>1 DEF HTyped, Working
    <3> QED BY <1>0, <2>0, <2>1, <2>3, <3>1, <3>2, GoOnTyped
  <2> QED BY <1>8, <2>2, <2>3, PublishShape
<1>9. CASE RefreshParents
  <2>1. \A hs \in SUBSET Heads : {IndexOf(h, work.kids[h]) : h \in hs} \in SUBSET Updates
    BY FieldShapes, MessageShapes
  <2>2. PICK hs \in SUBSET Heads : sent' = sent \o Group({IndexOf(h, work.kids[h]) : h \in hs})
    <3>1. (IF work.known THEN {work.old} ELSE {}) \in SUBSET Heads
      BY FieldShapes DEF HTyped, Working, Parents
    <3>2. \A h \in Refreshed \ {work.old} : h \in Heads
      BY FieldShapes
    <3> QED BY <1>9, <3>1, <3>2 DEF RefreshParents
  <2>3. sent' \in Seq(SUBSET Updates)
    BY <1>n, <2>1, <2>2, GroupShape
  <2>4. /\ marked' \in SUBSET Orgs /\ marked \subseteq marked'
        /\ overlooked' \in SUBSET Children /\ failures' \in 0 .. MaxFailures
    <3>1. Refreshed \ {work.old} \in SUBSET Orgs
      BY FieldShapes DEF Orgs
    <3> QED BY <1>n, <1>9, <3>1, FailureShape, QueuedAfterShape DEF RefreshParents
  <2>5. Done(work.complete)
    BY <1>9 DEF RefreshParents
  <2> QED BY <1>0, <2>3, <2>4, <2>5, EndTyped
<1>10. CASE DeleteAccount
  <2>1. /\ sent' = Append(sent, {PurgeOf(Now.org)}) /\ UNCHANGED <<marked, overlooked>>
        /\ Failure \/ NoFailure
        /\ work.stage = "idle" /\ Now.kind = "delete"
    BY <1>10 DEF DeleteAccount, Ready, At
  <2>2. Now.org \in Children
    BY <1>0, <2>1, InHand DEF HTyped, Deletions
  <2>3. sent' \in Seq(SUBSET Updates)
    <3>1. {PurgeOf(Now.org)} \in SUBSET Updates
      BY <2>2, MessageShapes
    <3> QED BY <1>n, <2>1, <3>1
  <2>4. failures' \in 0 .. MaxFailures
    BY <1>n, <2>1, FailureShape
  <2>5. CASE \E b : Done(b)
    BY <1>0, <1>n, <2>1, <2>3, <2>4, <2>5, EndTyped
  <2>6. CASE ~ \E b : Done(b)
    <3>1. PICK p \in Parents :
             /\ work' = [Idling EXCEPT !.stage = "children", !.org = Now.org, !.parent = p]
             /\ UNCHANGED feed
      <4>1. NoOrg \in Parents /\ account[Now.org].parent \in Parents
        BY <1>n, FieldShapes DEF Parents
      <4> QED BY <1>10, <2>6, <4>1 DEF DeleteAccount
    <3>2. /\ work' \in WorkType /\ work'.stage = "children" /\ work'.org = Now.org
          /\ work'.known = FALSE /\ work'.stale = {}
      BY <1>n, <3>1, Shapes DEF WorkType, HStages, Idling
    <3> QED BY <1>0, <1>n, <2>1, <2>3, <2>4, <3>1, <3>2, GoOnTyped
  <2> QED BY <2>5, <2>6
<1> QED BY <1>1, <1>2, <1>3, <1>4, <1>5, <1>6, <1>7, <1>8, <1>9, <1>10 DEF HandleAccount

----------------------------------------------------------------------------
(* The messages a drain sends for its marker.                              *)
Repairing ==
    IF drain.org \in Heads
      THEN {IndexOf(drain.org, ChildrenOf(drain.org))}
      ELSE {ParentOf(drain.org, drain.parent)}
             \union {ChildList(h, ChildrenOf(h)) : h \in drain.stale \union ({drain.parent} \ {NoOrg})}

(* A step of the repair drain keeps the shape of the state.                *)
LEMMA DrainTyped == ASSUME HTyped, Reindex PROVE HTyped'
<1>0. UNCHANGED <<account, feed, lists, above, shown, work, moves>>
  BY DEF Reindex, DrainSelect, DrainLinks, DrainPublish, DrainStep, model
<1>1. /\ HTypeOK /\ marked \in SUBSET Orgs /\ overlooked \in SUBSET Children
      /\ sent \in Seq(SUBSET Updates) /\ feed \in Seq([org : Orgs, kind : Changes])
  BY DEF HTyped, HTypeOK
<1>2. Deletions'
  BY <1>0 DEF HTyped, Deletions
<1>3. CASE DrainSelect
  <2>1. work = Idling /\ NoFailure
    BY <1>3 DEF DrainSelect
  <2>2. PICK o \in marked :
           IF Eligible(o)
             THEN /\ drain' = [Draining EXCEPT !.stage = "links", !.org = o, !.parent = account[o].parent]
                  /\ UNCHANGED <<sent, marked, overlooked>>
             ELSE /\ sent' = sent \o Group(RemoveFromIndex(o))
                  /\ marked' = marked \ {o}
                  /\ overlooked' = overlooked \union ({o} \intersect Children)
                  /\ UNCHANGED drain
    BY <1>3 DEF DrainSelect
  <2>3. Working'
    BY <1>0, <2>1, Shapes DEF Working, Idling
  <2>4. sent' \in Seq(SUBSET Updates)
    BY <1>1, <2>2, MessageShapes, GroupShape
  <2>5. Drains'
    <3>1. CASE Eligible(o)
      <4>1. account[o].parent \in Parents /\ o \in Orgs
        BY <1>1, FieldShapes
      <4>2. /\ drain' = [stage |-> "links", org |-> o, parent |-> account[o].parent, stale |-> {}]
            /\ marked' = marked
        BY <2>2, <3>1 DEF Draining
      <4> QED BY <4>1, <4>2 DEF Drains
    <3>2. CASE ~Eligible(o)
      <4>1. drain = Draining
        BY <1>3 DEF DrainSelect, DrainStep, HTyped, Drains
      <4> QED BY <2>2, <3>2, <4>1, Shapes DEF Drains, Draining
    <3> QED BY <3>1, <3>2
  <2>6. marked' \in SUBSET Orgs /\ overlooked' \in SUBSET Children /\ failures' \in 0 .. MaxFailures
    BY <1>1, <2>1, <2>2, FailureShape
  <2> QED BY <1>0, <1>1, <1>2, <2>3, <2>4, <2>5, <2>6, StepShape DEF HTyped
<1>4. CASE DrainLinks
  <2>1. /\ drain' = [drain EXCEPT !.stage = "publish", !.stale = Listing(drain.org) \ {drain.parent}]
        /\ Checked(drain.org, drain.org \in Children /\ Unseen(drain.org, drain.parent))
        /\ NoFailure /\ UNCHANGED <<sent, marked>> /\ drain.stage = "links"
    BY <1>4 DEF DrainLinks, DrainStep
  <2>2. work = Idling
    BY <2>1 DEF HTyped, Working, Draining
  <2>3. Working'
    BY <1>0, <2>2, Shapes DEF Working, Idling
  <2>4. Listing(drain.org) \in SUBSET Heads
    BY DEF Listing
  <2>5. Drains'
    BY <2>1, <2>4 DEF HTyped, Drains
  <2>6. overlooked' \in SUBSET Children
    BY <1>1, <2>1 DEF Checked
  <2> QED BY <1>0, <1>1, <1>2, <2>1, <2>3, <2>5, <2>6, FailureShape, StepShape DEF HTyped
<1>5. CASE DrainPublish
  <2>1. /\ drain.stage = "publish" /\ drain' = Draining /\ overlooked' = overlooked
    BY <1>5 DEF DrainPublish, DrainStep
  <2>2. drain.org \in Orgs /\ drain.parent \in Parents /\ drain.stale \in SUBSET Heads
    BY <1>1, <2>1 DEF HTyped, Drains
  <2>3. Repairing \in SUBSET Updates
    BY <2>2, MessageShapes, ChildrenShape DEF Repairing, Parents, Orgs
  <2>4. /\ sent' = Append(sent, Repairing) \/ \E m \in Repairing : sent' = sent \o Group(Repairing \ {m})
        /\ Failure \/ NoFailure
        /\ LET also == IF drain.parent = NoOrg THEN {} ELSE {drain.parent} IN
             \/ marked' = (marked \union also) \ {drain.org}
             \/ marked' = marked \union also
    <3>1. (IF drain.parent = NoOrg THEN {} ELSE {drain.parent}) = {drain.parent} \ {NoOrg}
      OBVIOUS
    <3> QED BY <1>5, <3>1 DEF DrainPublish, Repairing
  <2>5. sent' \in Seq(SUBSET Updates)
    <3>1. Append(sent, Repairing) \in Seq(SUBSET Updates)
      BY <1>1, <2>3
    <3>2. \A m \in Repairing : sent \o Group(Repairing \ {m}) \in Seq(SUBSET Updates)
      BY <1>1, <2>3, GroupShape
    <3> QED BY <2>4, <3>1, <3>2
  <2>6. marked' \in SUBSET Orgs
    BY <1>1, <2>2, <2>4 DEF Parents, Orgs
  <2>7. work = Idling
    BY <2>1 DEF HTyped, Working, Draining
  <2>8. Working' /\ Drains'
    BY <1>0, <2>1, <2>7, Shapes DEF Working, Idling, Drains, Draining
  <2> QED BY <1>0, <1>1, <1>2, <2>1, <2>4, <2>5, <2>6, <2>8, FailureShape, StepShape DEF HTyped
<1> QED BY <1>3, <1>4, <1>5 DEF Reindex

(* Every step keeps the shape of the state.                                *)
LEMMA HNextTyped == ASSUME HTyped, [HNext]_hvars PROVE HTyped'
<1>1. CASE UNCHANGED hvars
  BY <1>1 DEF hvars, model, HTyped, HTypeOK, Working, Drains, Deletions, Now, Recheck
<1> QED BY <1>1, UpstreamTyped, ProcessTyped, ConsumerTyped, DrainTyped DEF HNext

(* The state keeps its shape: in particular nothing is linked to, or       *)
(* queued under, "no organization".                                        *)
THEOREM HierarchyTypeCorrect == HSpec => []HTypeOK
<1>1. HInit => HTyped
  BY HInitTyped
<1>2. HTyped /\ [HNext]_hvars => HTyped'
  BY HNextTyped
<1>3. HTyped => HTypeOK
  BY DEF HTyped
<1> QED BY <1>1, <1>2, <1>3, PTL DEF HSpec

----------------------------------------------------------------------------
(***************************************************************************)
(* What follows the organizations that a head lists and is not the parent  *)
(* of.                                                                     *)
(***************************************************************************)

(* A group of messages adds c to the list of h, or takes it off.           *)
Adds(g, c, h)  == \E m \in g : m.rel = "child" /\ m.of = h /\ c \in m.to
Drops(g, c, h) == \E m \in g : m.rel = "child" /\ m.of = h /\ c \notin m.to

(* Once the messages s are processed, h lists c.                           *)
KeptBy(s, c, h) ==
    \/ c \in lists[h] /\ \A j \in 1 .. Len(s) : ~Drops(s[j], c, h)
    \/ \E i \in 1 .. Len(s) : Adds(s[i], c, h) /\ \A j \in i + 1 .. Len(s) : ~Drops(s[j], c, h)

(* Another event of c will have its links read.                            *)
Moved(c) == \E i \in 2 .. Len(feed) : feed[i].org = c /\ feed[i].kind \in {"upsert", "restore"}
Coming(c) ==
    \/ Moved(c)
    \/ /\ feed # <<>> /\ Now.org = c /\ Now.kind \in {"upsert", "restore"}
       /\ work.stage \in {"idle", "accounts", "links"}

(* The consumer is about to take c off the list of h.                      *)
Caught(c, h) == work.stage \in {"children", "publish"} /\ work.org = c /\ h \in work.stale

Traced(c, h) == c \in marked \union overlooked \/ Coming(c) \/ Caught(c, h)

Strays ==
    \A c \in Children, h \in Heads :
        KeptBy(sent, c, h) /\ account[c].parent # h => Traced(c, h)

(* What was read is as it is, or another event has changed it.             *)
ParentFresh ==
    work.stage \in {"links", "children", "publish"} /\ work.found /\ work.org \in Children
       => account[work.org].parent = work.parent \/ Moved(work.org)
KidsFresh ==
    \A h \in Heads, c \in Children : c \in work.kids[h] => account[c].parent = h \/ Moved(c)
DrainFresh ==
    drain.stage # "idle" /\ drain.org \in Children =>
       account[drain.org].parent = drain.parent \/ Coming(drain.org)

(* A drain about to publish has found every such list of its Account.      *)
DrainCatches ==
    drain.stage = "publish" /\ drain.org \in Children =>
       \A h \in Heads :
          KeptBy(sent, drain.org, h) /\ account[drain.org].parent # h =>
             drain.org \in overlooked \/ Coming(drain.org) \/ h \in drain.stale

Tracked == Strays /\ ParentFresh /\ KidsFresh /\ DrainFresh /\ DrainCatches

HInv == HTyped /\ Tracked

(* What a group of messages leaves of a list.                              *)
LEMMA KeptGroup ==
  ASSUME NEW s \in Seq(SUBSET Updates), NEW g \in SUBSET Updates, NEW c, NEW h,
         KeptBy(s \o Group(g), c, h)
  PROVE  Adds(g, c, h) \/ (KeptBy(s, c, h) /\ ~Drops(g, c, h))
<1>1. CASE g = {}
  BY <1>1, GroupShape DEF Drops
<1>2. CASE g # {}
  <2>1. s \o Group(g) = Append(s, g)
    BY <1>2, GroupShape
  <2>2. ASSUME NEW S, NEW t \in Seq(S), NEW e
        PROVE  /\ Len(t) \in Nat /\ Len(Append(t, e)) = Len(t) + 1
               /\ \A i \in 1 .. Len(t) : Append(t, e)[i] = t[i]
               /\ Append(t, e)[Len(t) + 1] = e
    BY <2>2
  <2> DEFINE n == Len(s)
             t == s \o Group(g)
  <2>3. /\ n \in Nat /\ Len(t) = n + 1
        /\ \A i \in 1 .. n : t[i] = s[i]
        /\ t[n + 1] = g
    BY <2>1, <2>2
  <2>4. KeptBy(t, c, h)
    OBVIOUS
  <2> HIDE DEF t
  <2>5. ASSUME ~Adds(g, c, h)
        PROVE  KeptBy(s, c, h) /\ ~Drops(g, c, h)
    <3>1. CASE c \in lists[h] /\ \A j \in 1 .. Len(t) : ~Drops(t[j], c, h)
      BY <2>3, <3>1 DEF KeptBy
    <3>2. ASSUME NEW i \in 1 .. Len(t), Adds(t[i], c, h), \A j \in i + 1 .. Len(t) : ~Drops(t[j], c, h)
          PROVE  KeptBy(s, c, h) /\ ~Drops(g, c, h)
      <4>1. i \in 1 .. n
        BY <2>3, <2>5, <3>2
      <4>2. Adds(s[i], c, h) /\ n + 1 \in i + 1 .. Len(t)
        BY <2>3, <3>2, <4>1
      <4>3. \A j \in i + 1 .. n : ~Drops(s[j], c, h)
        BY <2>3, <3>2, <4>1
      <4> QED BY <2>3, <3>2, <4>1, <4>2, <4>3 DEF KeptBy
    <3> QED BY <2>4, <3>1, <3>2 DEF KeptBy
  <2> QED BY <2>5
<1> QED BY <1>1, <1>2

(* A group without lists changes no list.                                  *)
LEMMA Unlinked ==
  ASSUME NEW g, \A m \in g : m.rel # "child"
  PROVE  \A c, h : ~Adds(g, c, h) /\ ~Drops(g, c, h)
BY DEF Adds, Drops

(* Events that are left in the feed.                                       *)
LEMMA ComingNext ==
  ASSUME HTyped, feed # <<>>, NEW b, Done(b)
  PROVE  /\ \A c : Moved(c) => Coming(c)'
         /\ ~b /\ Restore => \A c : c = Now.org => Coming(c)'
<1>1. CASE b
  <2>1. feed' = Tail(feed) /\ work'.stage = "idle"
    BY <1>1 DEF Done, Idling
  <2>2. ASSUME NEW c, NEW i \in 2 .. Len(feed), feed[i].org = c, feed[i].kind \in {"upsert", "restore"}
        PROVE  Coming(c)'
    <3>1. /\ Len(feed) \in Nat /\ Len(feed') = Len(feed) - 1
          /\ feed' \in Seq([org : Orgs, kind : Changes])
          /\ \A j \in 1 .. Len(feed) - 1 : feed'[j] = feed[j + 1]
      BY <2>1, InHand
    <3>2. i - 1 \in 1 .. Len(feed') /\ feed'[i - 1] = feed[i]
      BY <3>1
    <3>3. CASE i = 2
      <4>1. feed' # <<>> /\ feed'[1] = feed[2] /\ Head(feed') = feed'[1]
        BY <3>1, <3>2, <3>3
      <4> QED BY <2>1, <2>2, <3>3, <4>1 DEF Coming, Now
    <3>4. CASE i # 2
      <4>1. i - 1 \in 2 .. Len(feed')
        BY <3>1, <3>2, <3>4
      <4> QED BY <2>2, <3>2, <4>1 DEF Coming, Moved
    <3> QED BY <3>3, <3>4
  <2> QED BY <1>1, <2>2 DEF Moved
<1>2. CASE ~b
  <2>1. feed' = feed /\ work'.stage = "idle"
    BY <1>2 DEF Done, Idling
  <2> QED BY <2>1 DEF Coming, Moved, Restore, Now
<1> QED BY <1>1, <1>2

----------------------------------------------------------------------------
(* A step of the consumer leaves what is traced traced, if no list gains   *)
(* what another event is not to withdraw, and the Account in hand is       *)
(* accounted for; first when its event is done, then when it is not.       *)
LEMMA Idle == Idling.stage = "idle" /\ \A h \in Heads : Idling.kids[h] = {}
BY DEF Idling

(* Only the Account in hand is caught or is due at the head of the feed.   *)
LEMMA OtherTraced ==
  ASSUME HTyped, feed # <<>>, drain = Draining, NEW c \in Children, NEW h \in Heads, Traced(c, h), c # Now.org
  PROVE  c \in marked \union overlooked \/ Moved(c)
BY DEF Traced, Coming, Caught, HTyped, Working

(* A step that ends its event keeps what is tracked.                       *)
LEMMA EndTracked ==
  ASSUME HInv, feed # <<>>, NEW b, Done(b), UNCHANGED <<account, lists, drain>>, drain = Draining,
         marked \subseteq marked', overlooked \subseteq overlooked',
         \A c \in Children, h \in Heads :
            KeptBy(sent', c, h) /\ account[c].parent # h => KeptBy(sent, c, h) \/ Moved(c),
         \A c \in Children, h \in Heads :
            c = Now.org /\ KeptBy(sent', c, h) /\ account[c].parent # h =>
               Moved(c) \/ c \in marked' \union overlooked' \/ (~b /\ Restore)
  PROVE  Tracked'
<1>1. Strays'
  <2> SUFFICES ASSUME NEW c \in Children, NEW h \in Heads,
                      KeptBy(sent', c, h), account[c].parent # h
               PROVE  c \in marked' \union overlooked' \/ Coming(c)'
    <3>1. \A c \in Children, h \in Heads : KeptBy(sent, c, h)' <=> KeptBy(sent', c, h)
      BY DEF KeptBy
    <3> QED BY <3>1 DEF Strays, Traced
  <2>1. CASE c = Now.org
    BY <2>1, ComingNext DEF HInv
  <2>2. CASE c # Now.org
    <3>1. Moved(c) \/ KeptBy(sent, c, h)
      OBVIOUS
    <3>2. c \in marked \union overlooked \/ Moved(c)
      BY <2>2, <3>1, OtherTraced DEF HInv, Tracked, Strays
    <3> QED BY <3>2, ComingNext DEF HInv
  <2> QED BY <2>1, <2>2
<1>2. ParentFresh' /\ KidsFresh'
  BY Idle DEF Done, ParentFresh, KidsFresh
<1>3. DrainFresh' /\ DrainCatches'
  BY DEF DrainFresh, DrainCatches, Draining
<1> QED BY <1>1, <1>2, <1>3 DEF Tracked

(* A step that goes on with its event keeps what is tracked.               *)
LEMMA GoOnTracked ==
  ASSUME HInv, feed # <<>>, UNCHANGED <<account, lists, drain, feed>>, drain = Draining,
         marked \subseteq marked', \A c \in Children : c # Now.org => (c \in overlooked => c \in overlooked'),
         \A c \in Children, h \in Heads :
            c # Now.org /\ KeptBy(sent', c, h) /\ account[c].parent # h => KeptBy(sent, c, h) \/ Moved(c),
         \A c \in Children, h \in Heads :
            c = Now.org /\ KeptBy(sent', c, h) /\ account[c].parent # h =>
               Moved(c) \/ Traced(c, h)',
         ParentFresh', KidsFresh'
  PROVE  Tracked'
<1>0. \A c : Moved(c) => Coming(c)'
  BY DEF Coming, Moved
<1>1. Strays'
  <2> SUFFICES ASSUME NEW c \in Children, NEW h \in Heads,
                      KeptBy(sent', c, h), account[c].parent # h
               PROVE  Traced(c, h)'
    <3>1. \A c \in Children, h \in Heads : KeptBy(sent, c, h)' <=> KeptBy(sent', c, h)
      BY DEF KeptBy
    <3> QED BY <3>1 DEF Strays
  <2>1. CASE c = Now.org
    BY <1>0, <2>1 DEF Traced
  <2>2. CASE c # Now.org
    <3>1. Moved(c) \/ KeptBy(sent, c, h)
      BY <2>2
    <3>2. c \in marked \union overlooked \/ Moved(c)
      BY <2>2, <3>1, OtherTraced DEF HInv, Tracked, Strays
    <3> QED BY <1>0, <2>2, <3>2 DEF Traced
  <2> QED BY <2>1, <2>2
<1>3. DrainFresh' /\ DrainCatches'
  BY DEF DrainFresh, DrainCatches, Draining
<1> QED BY <1>1, <1>3 DEF Tracked

(* A group without lists.                                                  *)
LEMMA UnlinkedSent ==
  ASSUME HInv, NEW g \in SUBSET Updates, \A m \in g : m.rel # "child", sent' = sent \o Group(g)
  PROVE  \A c \in Children, h \in Heads : KeptBy(sent', c, h) => KeptBy(sent, c, h)
<1>1. sent \in Seq(SUBSET Updates)
  BY DEF HInv, HTyped, HTypeOK
<1> QED BY <1>1, KeptGroup, Unlinked

(* What every step of the consumer finds and leaves alone.                 *)
LEMMA InHandFacts ==
  ASSUME HInv, HandleAccount
  PROVE  /\ UNCHANGED <<account, lists, drain>>
         /\ feed # <<>> /\ drain = Draining
         /\ sent \in Seq(SUBSET Updates) /\ Now.org \in Orgs
         /\ work.stage # "idle" => work.org = Now.org
<1>1. feed # <<>> /\ drain = Draining
  BY DEF HandleAccount, SkipAccount, TakeAccount, AccountsUnread, ReadAccounts, ReadLinks,
         ChildrenUnread, ReadChildren, PublishOrg, RefreshParents, DeleteAccount,
         Ready, At, HInv, HTyped, Working
<1>2. UNCHANGED <<account, lists, drain>>
  BY DEF HandleAccount, SkipAccount, TakeAccount, AccountsUnread, ReadAccounts, ReadLinks,
         ChildrenUnread, ReadChildren, PublishOrg, RefreshParents, DeleteAccount, Ready, At, model
<1>3. sent \in Seq(SUBSET Updates) /\ (work.stage # "idle" => work.org = Now.org)
  BY DEF HInv, HTyped, HTypeOK, Working
<1> QED BY <1>1, <1>2, <1>3, InHand DEF HInv

(* An event that is not handled queues its Account, or is held.            *)
LEMMA SkipTracked == ASSUME HInv, SkipAccount PROVE Tracked'
<1>1. /\ UNCHANGED <<account, lists, drain, sent>>
      /\ feed # <<>> /\ drain = Draining /\ Now.org \in Orgs
  BY InHandFacts DEF HandleAccount, SkipAccount
<1>2. Done(~Restore) /\ QueueAfterFailure({Now.org}) /\ {Now.org} \in SUBSET Orgs
  BY <1>1 DEF SkipAccount
<1>3. /\ marked \subseteq marked' /\ overlooked \subseteq overlooked'
      /\ {Now.org} \intersect Children \subseteq marked' \union overlooked'
  BY <1>2, QueuedAfterShape DEF HInv, HTyped
<1>4. PICK b : b = ~Restore
  OBVIOUS
<1> QED BY <1>1, <1>2, <1>3, <1>4, EndTracked

(* The same for an Account that could not be read.                         *)
LEMMA UnreadTracked == ASSUME HInv, AccountsUnread PROVE Tracked'
<1>0. /\ UNCHANGED <<account, lists, drain, sent>>
      /\ feed # <<>> /\ drain = Draining /\ Now.org \in Orgs /\ work.org = Now.org
  BY InHandFacts DEF HandleAccount, AccountsUnread, At
<1>1. Done(~Restore)
  BY DEF AccountsUnread
<1>2. CASE Restore
  <2>1. UNCHANGED <<marked, overlooked>>
    BY <1>2 DEF AccountsUnread
  <2> QED BY <1>0, <1>1, <1>2, <2>1, EndTracked
<1>3. CASE ~Restore
  <2>1. QueueAfterFailure({work.org, work.old} \ {NoOrg})
    BY <1>3 DEF AccountsUnread
  <2>2. /\ {work.org, work.old} \ {NoOrg} \in SUBSET Orgs
        /\ Now.org \in {work.org, work.old} \ {NoOrg}
    BY <1>0, FieldShapes, HierarchyAssumption DEF HInv, Parents, Orgs
  <2>3. /\ marked \subseteq marked' /\ overlooked \subseteq overlooked'
        /\ ({work.org, work.old} \ {NoOrg}) \intersect Children \subseteq marked' \union overlooked'
    BY <2>1, <2>2, QueuedAfterShape DEF HInv, HTyped
  <2>4. Now.org \in Children => Now.org \in marked' \union overlooked'
    BY <2>2, <2>3
  <2> QED BY <1>0, <1>1, <2>3, <2>4, EndTracked
<1> QED BY <1>2, <1>3

(* Taking an event changes no link, and the event is still to be handled.  *)
LEMMA TakeTracked == ASSUME HInv, TakeAccount PROVE Tracked'
<1>0. /\ UNCHANGED <<account, lists, drain, sent, feed, marked, overlooked>>
      /\ feed # <<>> /\ drain = Draining /\ work.stage = "idle" /\ work = Idling
  BY InHandFacts DEF HandleAccount, TakeAccount, Ready, At, HInv, HTyped, Working
<1>1. work'.stage = "accounts" /\ work'.kids = work.kids
  BY <1>0 DEF TakeAccount, Idling
<1>2. KidsFresh' /\ ParentFresh'
  BY <1>0, <1>1, Idle DEF KidsFresh, ParentFresh
<1>3. \A c : Coming(c) => Coming(c)'
  BY <1>0, <1>1 DEF Coming, Moved, Now
<1>4. Strays'
  BY <1>0, <1>3 DEF HInv, Tracked, Strays, KeptBy, Traced, Caught
<1>5. DrainFresh' /\ DrainCatches'
  BY <1>0 DEF HInv, Tracked, DrainFresh, DrainCatches, Draining
<1> QED BY <1>2, <1>4, <1>5 DEF Tracked

(* An Account that does not qualify is overlooked from here on.            *)
LEMMA ReadAccountsTracked == ASSUME HInv, ReadAccounts PROVE Tracked'
<1>0. /\ UNCHANGED <<account, lists, drain, feed, marked>>
      /\ feed # <<>> /\ drain = Draining /\ Now.org \in Orgs /\ work.org = Now.org
      /\ work.stage = "accounts"
  BY InHandFacts DEF HandleAccount, ReadAccounts, At
<1>1. /\ sent' = sent \o Group(IF Eligible(work.org) THEN {} ELSE RemoveFromIndex(work.org))
      /\ overlooked' = IF Eligible(work.org) THEN overlooked ELSE overlooked \union ({work.org} \intersect Children)
      /\ work' = [work EXCEPT !.found = Eligible(work.org),
                       !.parent = IF Eligible(work.org) THEN account[work.org].parent ELSE NoOrg,
                       !.known = work.old # NoOrg /\ Eligible(work.old),
                       !.stage = IF Eligible(work.org) /\ ~Recheck THEN "links" ELSE "children"]
  BY DEF ReadAccounts
<1>2. work \in WorkType
  BY DEF HInv, HTyped, Working
<1>3. /\ work'.kids = work.kids /\ work'.org = work.org
      /\ work'.found = Eligible(work.org)
      /\ Eligible(work.org) => work'.parent = account[work.org].parent
      /\ Eligible(work.org) /\ ~Recheck => work'.stage = "links"
      /\ work'.stage \in {"links", "children"}
  BY <1>1, <1>2 DEF WorkType
<1>4. \A c \in Children, h \in Heads : KeptBy(sent', c, h) => KeptBy(sent, c, h)
  <2>1. /\ (IF Eligible(work.org) THEN {} ELSE RemoveFromIndex(work.org)) \in SUBSET Updates
        /\ \A m \in (IF Eligible(work.org) THEN {} ELSE RemoveFromIndex(work.org)) : m.rel # "child"
    BY MessageShapes DEF RemoveFromIndex
  <2> QED BY <1>1, <2>1, UnlinkedSent
<1>5. ParentFresh' /\ KidsFresh'
  BY <1>0, <1>3 DEF HInv, Tracked, ParentFresh, KidsFresh, Moved
<1>6. ASSUME NEW c \in Children, NEW h \in Heads, c = Now.org,
             KeptBy(sent', c, h), account[c].parent # h
      PROVE  Moved(c) \/ Traced(c, h)'
  <2>1. CASE ~Eligible(work.org)
    BY <1>0, <1>1, <1>6, <2>1 DEF Traced
  <2>2. CASE Eligible(work.org)
    <3>1. Traced(c, h)
      BY <1>4, <1>6 DEF HInv, Tracked, Strays
    <3>2. CASE Coming(c) /\ ~Moved(c)
      <4>1. ~Recheck
        BY <3>2 DEF Coming, Recheck
      <4> QED BY <1>0, <1>3, <2>2, <3>2, <4>1 DEF Traced, Coming, Now
    <3> QED BY <1>0, <1>1, <1>6, <2>2, <3>1, <3>2 DEF Traced, Caught
  <2> QED BY <2>1, <2>2
<1>7. \A c \in Children : c # Now.org => (c \in overlooked => c \in overlooked')
  BY <1>1
<1> QED BY <1>0, <1>4, <1>5, <1>6, <1>7, GoOnTracked

----------------------------------------------------------------------------
(* The links are read: each list but the parent's is to be corrected, and  *)
(* one that the answer misses makes the Account overlooked.                *)
LEMMA ListingFinds ==
  ASSUME HInv, NEW c \in Children, NEW h \in Heads, KeptBy(sent, c, h), NEW p, ~Unseen(c, p)
  PROVE  h \in Listing(c) \union {p}
<1>1. CASE c \in lists[h]
  BY <1>1 DEF Listing
<1>2. CASE c \notin lists[h]
  <2>1. PICK i \in 1 .. Len(sent) : Adds(sent[i], c, h)
    BY <1>2 DEF KeptBy
  <2>2. PICK m \in sent[i] : m.rel = "child" /\ m.of = h /\ c \in m.to
    BY <2>1 DEF Adds
  <2>3. sent \in Seq(SUBSET Updates)
    BY DEF HInv, HTyped, HTypeOK
  <2>4. m \in Pending
    BY <2>1, <2>2, <2>3 DEF Pending
  <2> QED BY <2>2, <2>4 DEF Unseen
<1> QED BY <1>1, <1>2

(* Reading the links keeps what is tracked.                                *)
LEMMA ReadLinksTracked == ASSUME HInv, ReadLinks PROVE Tracked'
<1>0. /\ UNCHANGED <<account, lists, drain, feed, sent>>
      /\ feed # <<>> /\ drain = Draining /\ Now.org \in Orgs /\ work.org = Now.org
      /\ work.stage = "links" /\ HTyped
  BY InHandFacts DEF HandleAccount, ReadLinks, At, HInv
<1>1. work \in WorkType /\ work.found
  BY <1>0 DEF HTyped, Working
<1>2. ASSUME work'.kids = work.kids, work'.found = work.found, work'.org = work.org,
             work'.parent = work.parent, work'.stage = "children",
             marked \subseteq marked', \A c \in Children : c # Now.org => (c \in overlooked => c \in overlooked'),
             \A h \in Heads : work.org \in Children /\ KeptBy(sent, work.org, h) =>
                 h = work.parent \/ h \in work'.stale \/ work.org \in marked' \union overlooked'
      PROVE  Tracked'
  <2>1. ParentFresh' /\ KidsFresh'
    BY <1>0, <1>1, <1>2 DEF HInv, Tracked, ParentFresh, KidsFresh, Moved
  <2>2. ASSUME NEW c \in Children, NEW h \in Heads, c = Now.org,
               KeptBy(sent', c, h), account[c].parent # h
        PROVE  Moved(c) \/ Traced(c, h)'
    <3>1. account[c].parent = work.parent \/ Moved(c)
      BY <1>0, <1>1, <2>2 DEF HInv, Tracked, ParentFresh
    <3>2. KeptBy(sent, c, h)
      BY <1>0, <2>2
    <3>3. h = work.parent \/ h \in work'.stale \/ c \in marked' \union overlooked'
      BY <1>0, <1>2, <2>2, <3>2
    <3> QED BY <1>0, <1>2, <2>2, <3>1, <3>3 DEF Traced, Caught
  <2> QED BY <1>0, <1>2, <2>1, <2>2, GoOnTracked
<1>3. CASE /\ work' = [work EXCEPT !.stage = "children", !.stale = Listing(work.org) \ {work.parent}]
           /\ Checked(work.org, /\ work.org \in Children
                                /\ \/ Unseen(work.org, work.parent)
                                   \/ work.parent = NoOrg /\ Listing(work.org) = {} /\ StillAbove(work.org))
           /\ UNCHANGED marked
  <2>1. /\ work'.kids = work.kids /\ work'.found = work.found /\ work'.org = work.org
        /\ work'.parent = work.parent /\ work'.stage = "children"
        /\ work'.stale = Listing(work.org) \ {work.parent}
    BY <1>1, <1>3 DEF WorkType
  <2>2. \A c \in Children : c # Now.org => (c \in overlooked => c \in overlooked')
    BY <1>0, <1>3 DEF Checked
  <2>3. ASSUME NEW h \in Heads, work.org \in Children, KeptBy(sent, work.org, h)
        PROVE  h = work.parent \/ h \in work'.stale \/ work.org \in marked' \union overlooked'
    <3>1. CASE Unseen(work.org, work.parent)
      BY <1>3, <2>3, <3>1 DEF Checked
    <3>2. CASE ~Unseen(work.org, work.parent)
      BY <2>1, <2>3, <3>2, ListingFinds
    <3> QED BY <3>1, <3>2
  <2> QED BY <1>2, <1>3, <2>1, <2>2, <2>3
<1>4. CASE work' = [work EXCEPT !.stage = "children"] /\ QueueAfterFailure({work.org})
  <2>1. /\ work'.kids = work.kids /\ work'.found = work.found /\ work'.org = work.org
        /\ work'.parent = work.parent /\ work'.stage = "children"
    BY <1>1, <1>4 DEF WorkType
  <2>2. {work.org} \in SUBSET Orgs
    BY <1>0
  <2>3. /\ marked \subseteq marked' /\ overlooked \subseteq overlooked'
        /\ {work.org} \intersect Children \subseteq marked' \union overlooked'
    BY <1>0, <1>4, <2>2, QueuedAfterShape DEF HTyped
  <2> QED BY <1>2, <2>1, <2>3
<1> QED BY <1>3, <1>4 DEF ReadLinks

(* Without the children what is to be corrected is corrected later, or     *)
(* nothing is: an owner's event and a deletion withdraw nothing.           *)
LEMMA ChildrenUnreadTracked == ASSUME HInv, ChildrenUnread PROVE Tracked'
<1>0. /\ UNCHANGED <<account, lists, drain, sent>>
      /\ feed # <<>> /\ drain = Draining /\ Now.org \in Orgs /\ work.org = Now.org
      /\ work.stage = "children" /\ HTyped
  BY InHandFacts DEF HandleAccount, ChildrenUnread, At, HInv
<1>1. marked \subseteq marked' /\ overlooked \subseteq overlooked'
  <2>1. QueueAfterFailure(Refreshed \union (IF Recheck /\ work.found THEN {work.org} ELSE {}))
    BY DEF ChildrenUnread
  <2>2. Refreshed \union (IF Recheck /\ work.found THEN {work.org} ELSE {}) \in SUBSET Orgs
    BY <1>0, FieldShapes DEF Orgs
  <2> QED BY <1>0, <2>1, <2>2, QueuedAfterShape DEF HTyped
<1>3. CASE Recheck \/ ~work.found
  <2>1. Done(~Restore)
    BY <1>3 DEF ChildrenUnread
  <2>2. work.stale = {}
    BY <1>0, <1>3 DEF HTyped, Working
  <2>3. ASSUME NEW c \in Children, NEW h \in Heads, c = Now.org, KeptBy(sent', c, h), account[c].parent # h
        PROVE  Moved(c) \/ c \in marked' \union overlooked' \/ (Restore /\ ~~Restore)
    <3>1. Traced(c, h)
      BY <1>0, <2>3 DEF HInv, Tracked, Strays
    <3> QED BY <1>0, <1>1, <2>2, <3>1 DEF Traced, Coming, Caught
  <2> QED BY <1>0, <1>1, <2>1, <2>3, EndTracked
<1>4. CASE ~(Recheck \/ ~work.found)
  <2>1. work' = [work EXCEPT !.stage = "publish"] /\ UNCHANGED feed
    BY <1>4 DEF ChildrenUnread
  <2>2. work \in WorkType
    BY <1>0 DEF HTyped, Working
  <2>3. /\ work'.kids = work.kids /\ work'.found = work.found /\ work'.org = work.org
        /\ work'.parent = work.parent /\ work'.stage = "publish" /\ work'.stale = work.stale
    BY <2>1, <2>2 DEF WorkType
  <2>4. ParentFresh' /\ KidsFresh'
    BY <1>0, <2>1, <2>3 DEF HInv, Tracked, ParentFresh, KidsFresh, Moved
  <2>5. ASSUME NEW c \in Children, NEW h \in Heads, c = Now.org, KeptBy(sent', c, h), account[c].parent # h
        PROVE  Moved(c) \/ Traced(c, h)'
    <3>1. Traced(c, h)
      BY <1>0, <2>5 DEF HInv, Tracked, Strays
    <3> QED BY <1>0, <1>1, <2>3, <3>1 DEF Traced, Coming, Caught
  <2> QED BY <1>0, <1>1, <2>1, <2>4, <2>5, GoOnTracked
<1> QED BY <1>3, <1>4

(* Reading the children keeps what is tracked: the lists are fresh.        *)
LEMMA ReadChildrenTracked == ASSUME HInv, ReadChildren PROVE Tracked'
<1>0. /\ UNCHANGED <<account, lists, drain, sent, feed, marked, overlooked>>
      /\ feed # <<>> /\ drain = Draining /\ Now.org \in Orgs /\ work.org = Now.org
      /\ work.stage = "children" /\ HTyped
  BY InHandFacts DEF HandleAccount, ReadChildren, At, HInv
<1>1. work \in WorkType
  BY <1>0 DEF HTyped, Working
<1>2. /\ work'.found = work.found /\ work'.org = work.org
      /\ work'.parent = work.parent /\ work'.stale = work.stale
      /\ work'.stage = IF work.found THEN "publish" ELSE "refresh"
      /\ \A h \in Heads : work'.kids[h] = ChildrenOf(h) \/ work'.kids[h] = {}
  BY <1>1 DEF WorkType, ReadChildren
<1>3. KidsFresh'
  BY <1>0, <1>2 DEF KidsFresh, ChildrenOf
<1>4. ParentFresh'
  BY <1>0, <1>2 DEF HInv, Tracked, ParentFresh, Moved
<1>5. ASSUME NEW c \in Children, NEW h \in Heads, c = Now.org, KeptBy(sent', c, h), account[c].parent # h
      PROVE  Moved(c) \/ Traced(c, h)'
  <2>1. Traced(c, h)
    BY <1>0, <1>5 DEF HInv, Tracked, Strays
  <2>2. work.stale # {} => work.found
    BY <1>0 DEF HTyped, Working
  <2> QED BY <1>0, <1>2, <2>1, <2>2 DEF Traced, Coming, Caught
<1> QED BY <1>0, <1>3, <1>4, <1>5, GoOnTracked

(* The documents of parents, and a purge, are not lists.                   *)
LEMMA RefreshTracked == ASSUME HInv, RefreshParents PROVE Tracked'
<1>0. /\ UNCHANGED <<account, lists, drain>>
      /\ feed # <<>> /\ drain = Draining /\ Now.org \in Orgs /\ work.org = Now.org
      /\ work.stage = "refresh" /\ HTyped
  BY InHandFacts DEF HandleAccount, RefreshParents, At, HInv
<1>1. Done(work.complete)
  BY DEF RefreshParents
<1>2. marked \subseteq marked' /\ overlooked \subseteq overlooked'
  <2>1. Refreshed \ {work.old} \in SUBSET Orgs
    BY <1>0, FieldShapes DEF Orgs
  <2>2. QueueAfterFailure(Refreshed \ {work.old}) \/ UNCHANGED <<marked, overlooked>>
    BY DEF RefreshParents
  <2> QED BY <1>0, <2>1, <2>2, QueuedAfterShape DEF HTyped
<1>3. PICK hs \in SUBSET Heads : sent' = sent \o Group({IndexOf(h, work.kids[h]) : h \in hs})
  <2> DEFINE batch == IF work.known THEN {work.old} ELSE {}
             unread == Refreshed \ {work.old}
  <2>1. batch \in SUBSET Heads
    BY <1>0 DEF HTyped, Working, WorkType, Parents
  <2>2. unread \in SUBSET Heads
    BY <1>0, FieldShapes
  <2>3. batch \union {h \in unread : Eligible(h)} \in SUBSET Heads
    BY <2>1, <2>2
  <2>4. \/ sent' = sent \o Group({IndexOf(h, work.kids[h]) : h \in batch \union {h \in unread : Eligible(h)}})
        \/ sent' = sent \o Group({IndexOf(h, work.kids[h]) : h \in batch})
    BY DEF RefreshParents
  <2> QED BY <2>1, <2>3, <2>4
<1>4. \A c \in Children, h \in Heads : KeptBy(sent', c, h) => KeptBy(sent, c, h)
  <2>1. {IndexOf(h, work.kids[h]) : h \in hs} \in SUBSET Updates
    BY <1>0, FieldShapes, MessageShapes
  <2>2. \A m \in {IndexOf(h, work.kids[h]) : h \in hs} : m.rel # "child"
    BY DEF IndexOf
  <2> QED BY <1>3, <2>1, <2>2, UnlinkedSent
<1>5. ASSUME NEW c \in Children, NEW h \in Heads, c = Now.org, KeptBy(sent', c, h), account[c].parent # h
      PROVE  Moved(c) \/ c \in marked' \union overlooked'
  <2>1. Traced(c, h)
    BY <1>4, <1>5 DEF HInv, Tracked, Strays
  <2> QED BY <1>0, <1>2, <2>1 DEF Traced, Coming, Caught
<1> QED BY <1>0, <1>1, <1>2, <1>4, <1>5, EndTracked

(* Handling a deletion keeps what is tracked.                              *)
LEMMA DeleteTracked == ASSUME HInv, DeleteAccount PROVE Tracked'
<1>0. /\ UNCHANGED <<account, lists, drain, marked, overlooked>>
      /\ feed # <<>> /\ drain = Draining /\ work = Idling /\ work.stage = "idle"
      /\ HTyped /\ Now.kind = "delete"
  BY InHandFacts DEF HandleAccount, DeleteAccount, Ready, At, HInv, HTyped, Working
<1>1. Now.org \in Children
  BY <1>0, InHand DEF HTyped, Deletions
<1>2. \A c \in Children, h \in Heads : KeptBy(sent', c, h) => KeptBy(sent, c, h)
  <2>1. sent' = sent \o Group({PurgeOf(Now.org)})
    <3>1. sent' = Append(sent, {PurgeOf(Now.org)})
      BY DEF DeleteAccount
    <3> QED BY <1>0, <1>1, <3>1, MessageShapes, GroupShape DEF HTyped, HTypeOK
  <2>2. {PurgeOf(Now.org)} \in SUBSET Updates /\ \A m \in {PurgeOf(Now.org)} : m.rel # "child"
    BY <1>1, MessageShapes DEF PurgeOf
  <2> QED BY <2>1, <2>2, UnlinkedSent
<1>3. ASSUME NEW c \in Children, NEW h \in Heads, c = Now.org, KeptBy(sent', c, h), account[c].parent # h
      PROVE  Moved(c) \/ c \in marked' \union overlooked'
  <2>1. Traced(c, h)
    BY <1>2, <1>3 DEF HInv, Tracked, Strays
  <2> QED BY <1>0, <1>3, <2>1 DEF Traced, Coming, Caught
<1>4. CASE Done(TRUE)
  BY <1>0, <1>2, <1>3, <1>4, EndTracked
<1>5. CASE /\ UNCHANGED feed
           /\ \E p : work' = [Idling EXCEPT !.stage = "children", !.org = Now.org, !.parent = p]
  <2>1. work'.found = FALSE /\ work'.kids = Idling.kids
    BY <1>5 DEF Idling
  <2>2. ParentFresh' /\ KidsFresh'
    BY <2>1, Idle DEF ParentFresh, KidsFresh
  <2>3. \A c \in Children, h \in Heads :
           c = Now.org /\ KeptBy(sent', c, h) /\ account[c].parent # h => Moved(c) \/ Traced(c, h)'
    BY <1>3 DEF Traced
  <2> QED BY <1>0, <1>2, <1>5, <2>2, <2>3, GoOnTracked
<1> QED BY <1>4, <1>5 DEF DeleteAccount

----------------------------------------------------------------------------
(* Publishing adds only children that Salesforce has, or that another      *)
(* event moves, and takes the Account off each list that was found.        *)
LEMMA GroupsAdd ==
  ASSUME HInv, work.stage = "publish", work.found,
         NEW c \in Children, NEW h \in Heads,
         Adds(Indexing, c, h) \/ Adds(Moving, c, h) \/ Adds(Joining, c, h) \/ Adds(Leaving, c, h)
  PROVE  account[c].parent = h \/ Moved(c)
<1>0. \A k \in Heads : c \in work.kids[k] => account[c].parent = k \/ Moved(c)
  BY DEF HInv, Tracked, KidsFresh
<1>1. ~Adds(Indexing, c, h)
  BY DEF Adds, Indexing, IndexOf
<1>2. Adds(Moving, c, h) => account[c].parent = h \/ Moved(c)
  <2> SUFFICES ASSUME work.org \in Children, NEW m \in Reparenting(work.org),
                      m.rel = "child", m.of = h, c \in m.to
               PROVE  account[c].parent = h \/ Moved(c)
    BY DEF Adds, Moving
  <2>1. \/ m = ChildList(h, ChildrenOf(h) \ {work.org})
        \/ m = ChildList(h, ChildrenOf(h) \union {work.org}) /\ h = work.parent
    BY DEF Reparenting, ParentOf, ChildList
  <2>2. c \in ChildrenOf(h) \/ (c = work.org /\ h = work.parent)
    BY <2>1 DEF ChildList
  <2> QED BY <2>2 DEF ChildrenOf, HInv, Tracked, ParentFresh
<1>3. Adds(Joining, c, h) => account[c].parent = h \/ Moved(c)
  <2> SUFFICES ASSUME NEW m \in Linking(work.org), m.rel = "child", m.of = h, c \in m.to
               PROVE  account[c].parent = h \/ Moved(c)
    BY DEF Adds, Joining
  <2>1. m = ChildList(h, work.kids[h])
    BY DEF Linking, ParentOf, ChildList
  <2> QED BY <1>0, <2>1 DEF ChildList
<1>4. Adds(Leaving, c, h) => account[c].parent = h \/ Moved(c)
  <2> SUFFICES ASSUME NEW m \in Withdrawal(work.org), m.rel = "child", m.of = h, c \in m.to
               PROVE  account[c].parent = h \/ Moved(c)
    BY DEF Adds, Leaving
  <2>1. m = ChildList(h, work.kids[h])
    BY DEF Withdrawal, ParentOf, ChildList
  <2> QED BY <1>0, <2>1 DEF ChildList
<1> QED BY <1>1, <1>2, <1>3, <1>4

(* Publishing keeps what is tracked.                                       *)
LEMMA PublishTracked == ASSUME HInv, PublishOrg PROVE Tracked'
<1>0. /\ UNCHANGED <<account, lists, drain>>
      /\ feed # <<>> /\ drain = Draining /\ Now.org \in Orgs /\ work.org = Now.org
      /\ work.stage = "publish" /\ work.found /\ HTyped
      /\ sent \in Seq(SUBSET Updates)
  <2>1. HandleAccount /\ work.stage = "publish"
    BY DEF HandleAccount, PublishOrg, At
  <2> QED BY <2>1, InHandFacts DEF HInv, HTyped, Working
<1>1. PICK lost \in SUBSET Updates :
            /\ sent' = sent \o Group(Indexing \ lost) \o Group(Moving \ lost)
                            \o Group(Joining \ lost) \o Group(Leaving \ lost)
            /\ marked \subseteq marked' /\ overlooked \subseteq overlooked'
            /\ Leaving \intersect lost # {} \/ (work.stale # {} /\ ~work.read)
                  => {work.org} \intersect Children \subseteq marked' \union overlooked'
            /\ \/ /\ \E b \in BOOLEAN : work' = [work EXCEPT !.stage = "refresh", !.complete = b]
                  /\ UNCHANGED feed
               \/ \E b \in BOOLEAN : Done(b)
  BY <1>0, PublishShape
<1>2. ASSUME NEW c \in Children, NEW h \in Heads, KeptBy(sent', c, h), account[c].parent # h, ~Moved(c)
      PROVE  KeptBy(sent, c, h) /\ ~Drops(Leaving \ lost, c, h)
  <2> DEFINE a == Indexing \ lost
             b == Moving \ lost
             d == Joining \ lost
             e == Leaving \ lost
  <2>1. a \in SUBSET Updates /\ b \in SUBSET Updates /\ d \in SUBSET Updates /\ e \in SUBSET Updates
    BY <1>0, GroupsShape
  <2>2. ~Adds(a, c, h) /\ ~Adds(b, c, h) /\ ~Adds(d, c, h) /\ ~Adds(e, c, h)
    BY <1>0, <1>2, GroupsAdd DEF Adds
  <2>3. sent' = sent \o Group(a) \o Group(b) \o Group(d) \o Group(e)
    BY <1>1
  <2> HIDE DEF a, b, d, e
  <2>4. \A s \in Seq(SUBSET Updates), g \in SUBSET Updates : s \o Group(g) \in Seq(SUBSET Updates)
    BY GroupShape
  <2>5. /\ sent \o Group(a) \in Seq(SUBSET Updates)
        /\ sent \o Group(a) \o Group(b) \in Seq(SUBSET Updates)
        /\ sent \o Group(a) \o Group(b) \o Group(d) \in Seq(SUBSET Updates)
    BY <1>0, <2>1, <2>4
  <2>6. KeptBy(sent \o Group(a) \o Group(b) \o Group(d), c, h) /\ ~Drops(e, c, h)
    BY <1>2, <2>1, <2>2, <2>3, <2>5, KeptGroup
  <2>7. KeptBy(sent \o Group(a) \o Group(b), c, h)
    BY <2>1, <2>2, <2>5, <2>6, KeptGroup
  <2>8. KeptBy(sent \o Group(a), c, h)
    BY <2>1, <2>2, <2>5, <2>7, KeptGroup
  <2>9. KeptBy(sent, c, h)
    BY <1>0, <2>1, <2>2, <2>8, KeptGroup
  <2> QED BY <2>6, <2>9 DEF e
<1>3. ASSUME NEW c \in Children, NEW h \in Heads, c = Now.org, KeptBy(sent', c, h), account[c].parent # h
      PROVE  Moved(c) \/ c \in marked' \union overlooked'
  <2> SUFFICES ASSUME ~Moved(c) PROVE c \in marked' \union overlooked'
    OBVIOUS
  <2>1. KeptBy(sent, c, h) /\ ~Drops(Leaving \ lost, c, h)
    BY <1>2, <1>3
  <2>2. Traced(c, h)
    BY <1>3, <2>1 DEF HInv, Tracked, Strays
  <2>3. CASE h \in work.stale /\ work.read /\ Leaving \intersect lost = {}
    <3>1. ChildList(h, work.kids[h]) \in Leaving \ lost
      BY <1>0, <1>3, <2>3 DEF Leaving, Withdrawal
    <3>2. c \notin work.kids[h]
      BY <1>3 DEF HInv, Tracked, KidsFresh
    <3> QED BY <2>1, <3>1, <3>2 DEF Drops, ChildList
  <2>4. CASE h \in work.stale /\ ~(work.read /\ Leaving \intersect lost = {})
    BY <1>0, <1>1, <1>3, <2>4
  <2> QED BY <1>0, <1>1, <2>2, <2>3, <2>4 DEF Traced, Coming, Caught
<1>4. ASSUME NEW b \in BOOLEAN, Done(b) PROVE Tracked'
  BY <1>0, <1>1, <1>2, <1>3, <1>4, EndTracked
<1>5. ASSUME NEW b \in BOOLEAN, work' = [work EXCEPT !.stage = "refresh", !.complete = b], UNCHANGED feed
      PROVE  Tracked'
  <2>1. work'.stage = "refresh" /\ work'.kids = work.kids
    BY <1>0, <1>5 DEF HTyped, Working, WorkType
  <2>2. ParentFresh' /\ KidsFresh'
    BY <1>0, <1>5, <2>1 DEF HInv, Tracked, ParentFresh, KidsFresh, Moved
  <2>3. \A c \in Children, h \in Heads :
           c = Now.org /\ KeptBy(sent', c, h) /\ account[c].parent # h => Moved(c) \/ Traced(c, h)'
    BY <1>3 DEF Traced
  <2> QED BY <1>0, <1>1, <1>2, <1>5, <2>2, <2>3, GoOnTracked
<1> QED BY <1>1, <1>4, <1>5

(* Every step of the consumer keeps what is tracked.                       *)
LEMMA HandleTracked == ASSUME HInv, HandleAccount PROVE Tracked'
BY SkipTracked, TakeTracked, UnreadTracked, ReadAccountsTracked, ReadLinksTracked, ChildrenUnreadTracked,
   ReadChildrenTracked, PublishTracked, RefreshTracked, DeleteTracked DEF HandleAccount
----------------------------------------------------------------------------
(* Processing a message does what was to come of it.                       *)
LEMMA ProcessKept ==
  ASSUME HTyped, Process, NEW c \in Children, NEW h \in Heads, KeptBy(sent, c, h)'
  PROVE  KeptBy(sent, c, h)
<1>1. PICK m \in Head(sent) :
         /\ lists' = IF m.rel = "child" THEN [lists EXCEPT ![m.of] = m.to] ELSE lists
         /\ sent' = Group(Head(sent) \ {m}) \o Tail(sent)
  BY DEF Process
<1>2. ASSUME NEW S, NEW s \in Seq(S), s # <<>>, NEW e \in S
      PROVE  /\ Head(s) = s[1] /\ Len(s) \in Nat \ {0}
             /\ Tail(s) \in Seq(S) /\ Len(Tail(s)) = Len(s) - 1
             /\ \A i \in 1 .. Len(s) - 1 : Tail(s)[i] = s[i + 1]
             /\ Len(<<e>> \o Tail(s)) = Len(s)
             /\ (<<e>> \o Tail(s))[1] = e
             /\ \A i \in 2 .. Len(s) : (<<e>> \o Tail(s))[i] = s[i]
  <2>1. /\ Head(s) = s[1] /\ Len(s) \in Nat \ {0}
        /\ Tail(s) \in Seq(S) /\ Len(Tail(s)) = Len(s) - 1
        /\ \A i \in 1 .. Len(s) - 1 : Tail(s)[i] = s[i + 1]
    BY <1>2
  <2>2. ASSUME NEW t \in Seq(S)
        PROVE  /\ Len(<<e>> \o t) = Len(t) + 1
               /\ (<<e>> \o t)[1] = e
               /\ \A i \in 2 .. Len(t) + 1 : (<<e>> \o t)[i] = t[i - 1]
    BY <1>2
  <2>3. \A i \in 2 .. Len(s) : i - 1 \in 1 .. Len(s) - 1 /\ Tail(s)[i - 1] = s[i]
    BY <2>1
  <2>4. Len(Tail(s)) + 1 = Len(s)
    BY <2>1
  <2> QED BY <2>1, <2>2, <2>3, <2>4
<1>3. sent \in Seq(SUBSET Updates) /\ sent # <<>> /\ Head(sent) \ {m} \in SUBSET Updates
  <2>1. sent \in Seq(SUBSET Updates) /\ sent # <<>>
    BY DEF HTyped, HTypeOK, Process
  <2>2. Head(sent) \in SUBSET Updates
    BY <2>1
  <2> QED BY <2>1, <2>2
<1> DEFINE n == Len(sent)
           rest == Head(sent) \ {m}
<1>4. sent[1] = Head(sent) /\ n \in Nat \ {0} /\ m \in sent[1]
  BY <1>2, <1>3
<1>5. c \in lists'[h] => Adds(sent[1], c, h) \/ (c \in lists[h] /\ (Drops(sent[1], c, h) => Drops(rest, c, h)))
  <2>1. lists \in [Heads -> SUBSET Children]
    BY DEF HTyped, HTypeOK
  <2>2. CASE m.rel = "child" /\ m.of = h
    <3>1. lists'[h] = m.to
      BY <1>1, <2>1, <2>2
    <3> QED BY <1>4, <2>2, <3>1 DEF Adds
  <2>3. CASE ~(m.rel = "child" /\ m.of = h)
    <3>1. lists'[h] = lists[h]
      BY <1>1, <2>1, <2>3
    <3> QED BY <1>4, <2>3, <3>1 DEF Drops
  <2> QED BY <2>2, <2>3
<1>6. Adds(rest, c, h) => Adds(sent[1], c, h)
  BY <1>4 DEF Adds
<1>7. \/ c \in lists'[h] /\ \A j \in 1 .. Len(sent') : ~Drops(sent'[j], c, h)
      \/ \E i \in 1 .. Len(sent') : Adds(sent'[i], c, h) /\ \A j \in i + 1 .. Len(sent') : ~Drops(sent'[j], c, h)
  BY DEF KeptBy
<1>8. CASE rest = {}
  <2>1. sent' = Tail(sent)
    <3>1. Tail(sent) \in Seq(SUBSET Updates)
      BY <1>2, <1>3
    <3> QED BY <1>1, <1>8, <3>1, ConcatEmptySeq DEF Group
  <2>2. /\ Len(sent') = n - 1
        /\ \A i \in 1 .. n - 1 : sent'[i] = sent[i + 1]
    BY <1>2, <1>3, <2>1
  <2>3. \A j \in 2 .. n : j - 1 \in 1 .. Len(sent') /\ sent'[j - 1] = sent[j]
    BY <1>4, <2>2
  <2>4. CASE c \in lists'[h] /\ \A j \in 1 .. Len(sent') : ~Drops(sent'[j], c, h)
    <3>1. \A j \in 2 .. n : ~Drops(sent[j], c, h)
      BY <2>3, <2>4
    <3>2. ~Drops(rest, c, h)
      BY <1>8 DEF Drops
    <3>3. CASE Adds(sent[1], c, h)
      BY <1>4, <3>1, <3>3 DEF KeptBy
    <3>4. CASE c \in lists[h] /\ ~Drops(sent[1], c, h)
      <4>1. \A j \in 1 .. n : j = 1 \/ j \in 2 .. n
        BY <1>4
      <4> QED BY <3>1, <3>4, <4>1 DEF KeptBy
    <3> QED BY <1>5, <2>4, <3>2, <3>3, <3>4
  <2>5. ASSUME NEW i \in 1 .. Len(sent'), Adds(sent'[i], c, h), \A j \in i + 1 .. Len(sent') : ~Drops(sent'[j], c, h)
        PROVE  KeptBy(sent, c, h)
    <3>1. i + 1 \in 1 .. n /\ sent'[i] = sent[i + 1]
      BY <1>4, <2>2
    <3>2. \A j \in (i + 1) + 1 .. n : ~Drops(sent[j], c, h)
      <4>1. \A j \in (i + 1) + 1 .. n : j \in 2 .. n /\ j - 1 \in i + 1 .. Len(sent')
        BY <1>4, <2>2
      <4> QED BY <2>3, <2>5, <4>1
    <3> QED BY <2>5, <3>1, <3>2 DEF KeptBy
  <2> QED BY <1>7, <2>4, <2>5
<1>9. CASE rest # {}
  <2>1. sent' = <<rest>> \o Tail(sent)
    BY <1>1, <1>9 DEF Group
  <2>2. /\ Len(sent') = n /\ sent'[1] = rest
        /\ \A i \in 2 .. n : sent'[i] = sent[i]
    BY <1>2, <1>3, <2>1
  <2>3. \A j \in 1 .. n : j = 1 \/ j \in 2 .. n
    BY <1>4
  <2>4. CASE c \in lists'[h] /\ \A j \in 1 .. Len(sent') : ~Drops(sent'[j], c, h)
    <3>1. \A j \in 2 .. n : ~Drops(sent[j], c, h)
      BY <1>4, <2>2, <2>4
    <3>2. ~Drops(rest, c, h)
      <4>1. 1 \in 1 .. Len(sent')
        BY <1>4, <2>2
      <4>2. ~Drops(sent'[1], c, h)
        BY <2>4, <4>1
      <4> HIDE DEF rest
      <4> QED BY <2>2, <4>2
    <3>3. CASE Adds(sent[1], c, h)
      BY <1>4, <3>1, <3>3 DEF KeptBy
    <3>4. CASE c \in lists[h] /\ ~Drops(sent[1], c, h)
      BY <2>3, <3>1, <3>4 DEF KeptBy
    <3> QED BY <1>5, <2>4, <3>2, <3>3, <3>4
  <2>5. ASSUME NEW i \in 1 .. Len(sent'), Adds(sent'[i], c, h), \A j \in i + 1 .. Len(sent') : ~Drops(sent'[j], c, h)
        PROVE  KeptBy(sent, c, h)
    <3>1. Adds(sent[i], c, h) /\ i \in 1 .. n
      BY <1>6, <2>2, <2>3, <2>5
    <3>2. \A j \in i + 1 .. n : ~Drops(sent[j], c, h)
      <4>1. \A j \in i + 1 .. n : j \in 2 .. n
        BY <3>1
      <4> QED BY <2>2, <2>5, <4>1
    <3> QED BY <3>1, <3>2 DEF KeptBy
  <2> QED BY <1>7, <2>4, <2>5
<1> QED BY <1>8, <1>9

(* Processing a message keeps what is tracked.                             *)
LEMMA ProcessTracked == ASSUME HInv, Process PROVE Tracked'
<1>1. UNCHANGED <<account, feed, marked, overlooked, work, drain>>
  BY DEF Process
<1>2. \A c \in Children, h \in Heads : KeptBy(sent, c, h)' => KeptBy(sent, c, h)
  BY ProcessKept DEF HInv
<1>3. Strays' /\ DrainCatches'
  BY <1>1, <1>2 DEF HInv, Tracked, Strays, DrainCatches, Traced, Coming, Moved, Caught, Now
<1>4. ParentFresh' /\ KidsFresh' /\ DrainFresh'
  BY <1>1 DEF HInv, Tracked, ParentFresh, KidsFresh, DrainFresh, Coming, Moved, Now
<1> QED BY <1>3, <1>4 DEF Tracked
----------------------------------------------------------------------------
(* A change of Salesforce: only a move changes a parent, and its event     *)
(* will have the links read.                                               *)
LEMMA MoveComes ==
  ASSUME HTyped, Upstream
  PROVE  /\ UNCHANGED <<lists, sent, marked, overlooked, work, drain>>
         /\ feed # <<>> => feed' # <<>> /\ Now' = Now
         /\ \A c : Moved(c) => Moved(c)'
         /\ \A c : Coming(c) => Coming(c)'
         /\ \A c \in Children : account'[c].parent = account[c].parent \/ (Moved(c)' \/ (feed = <<>> /\ Coming(c)'))
<1>1. PICK o \in Orgs, p \in Parents, s \in {"eligible", "ineligible", "deleted"},
           kinds \in SUBSET (Changes \union {"none"}) :
              Alter(o, p, s, kinds) /\ (p = account[o].parent \/ kinds = {"upsert"})
  <2>0. ASSUME NEW o \in Orgs
        PROVE  account[o].parent \in Parents /\ account[o].state \in {"eligible", "ineligible", "deleted"}
    BY DEF HTyped, HTypeOK
  <2>1. CASE \E c \in Children, p \in Parents : Move(c, p)
    BY <2>0, <2>1 DEF Move, Changes, Orgs
  <2>2. CASE \E c \in Children : Remove(c) \/ Undelete(c)
    BY <2>0, <2>2 DEF Remove, Undelete, Changes, Orgs
  <2>3. CASE \E o \in Orgs : Qualify(o) \/ Disqualify(o)
    BY <2>0, <2>3 DEF Qualify, Disqualify, Changes
  <2> QED BY <2>1, <2>2, <2>3 DEF Upstream
<1>2. PICK k \in kinds, b \in BOOLEAN :
        /\ UNCHANGED <<lists, sent, marked, overlooked, work, drain>>
        /\ account' = [account EXCEPT ![o] = [parent |-> p, state |-> s, told |-> b]]
        /\ b <=> k # "none" \/ s # "eligible"
        /\ feed' = IF k = "none" THEN feed ELSE Append(feed, [org |-> o, kind |-> k])
  <2>1. ASSUME NEW k \in kinds PROVE (k # "none" \/ s # "eligible") \in BOOLEAN
    OBVIOUS
  <2> QED BY <1>1, <2>1 DEF Alter, model
<1>3. feed' = IF k = "none" THEN feed ELSE Append(feed, [org |-> o, kind |-> k])
  BY <1>2
<1>4. \A c \in Children : account'[c].parent = account[c].parent \/ (c = o /\ k = "upsert")
  BY <1>1, <1>2, <1>3 DEF HTyped, HTypeOK, Orgs
<1>5. CASE k = "none"
  BY <1>2, <1>3, <1>4, <1>5 DEF Moved, Coming, Now
<1>6. CASE k # "none"
  <2>1. ASSUME NEW S, NEW q \in Seq(S), NEW e
        PROVE  /\ Len(q) \in Nat /\ Len(Append(q, e)) = Len(q) + 1
               /\ \A i \in 1 .. Len(q) : Append(q, e)[i] = q[i]
               /\ Append(q, e)[Len(q) + 1] = e
               /\ Append(q, e) # <<>> /\ Head(Append(q, e)) = Append(q, e)[1]
               /\ q # <<>> => Head(q) = q[1] /\ Len(q) # 0
               /\ q = <<>> => Len(q) = 0
    BY <2>1
  <2> DEFINE e == [org |-> o, kind |-> k]
  <2>2. /\ Len(feed) \in Nat /\ Len(feed') = Len(feed) + 1
        /\ \A i \in 1 .. Len(feed) : feed'[i] = feed[i]
        /\ feed'[Len(feed) + 1] = e
        /\ feed' # <<>> /\ Head(feed') = feed'[1]
        /\ feed # <<>> => Head(feed) = feed[1] /\ Len(feed) # 0
        /\ feed = <<>> => Len(feed) = 0
    BY <1>3, <1>6, <2>1 DEF HTyped, HTypeOK
  <2>3. feed # <<>> => feed' # <<>> /\ Now' = Now
    BY <2>2 DEF Now
  <2>4. \A c : Moved(c) => Moved(c)'
    <3>1. \A i \in 2 .. Len(feed) : i \in 2 .. Len(feed') /\ feed'[i] = feed[i]
      BY <2>2
    <3> QED BY <3>1 DEF Moved
  <2>5. \A c : Coming(c) => Coming(c)'
    BY <1>2, <2>3, <2>4 DEF Coming
  <2>6. ASSUME NEW c \in Children, c = o, k = "upsert"
        PROVE  Moved(c)' \/ (feed = <<>> /\ Coming(c)')
    <3>1. CASE feed = <<>>
      <4>1. Now' = e /\ work'.stage = "idle"
        BY <1>2, <2>2, <3>1 DEF Now, HTyped, Working
      <4> QED BY <2>2, <2>6, <3>1, <4>1 DEF Coming
    <3>2. CASE feed # <<>>
      <4>1. Len(feed) + 1 \in 2 .. Len(feed')
        BY <2>2, <3>2
      <4> QED BY <2>2, <2>6, <4>1 DEF Moved
    <3> QED BY <3>1, <3>2
  <2> QED BY <1>2, <1>4, <2>3, <2>4, <2>5, <2>6
<1> QED BY <1>5, <1>6

(* A change of Salesforce keeps what is tracked.                           *)
LEMMA UpstreamTracked == ASSUME HInv, Upstream PROVE Tracked'
<1>1. /\ UNCHANGED <<lists, sent, marked, overlooked, work, drain>>
      /\ \A c : Moved(c) => Moved(c)'
      /\ \A c : Coming(c) => Coming(c)'
      /\ \A c \in Children : account'[c].parent = account[c].parent \/ (Moved(c)' \/ (feed = <<>> /\ Coming(c)'))
  BY MoveComes DEF HInv
<1>2. \A c : Moved(c)' => Coming(c)'
  BY DEF Coming, Moved
<1>3. \A c \in Children, h \in Heads : KeptBy(sent, c, h)' => KeptBy(sent, c, h)
  BY <1>1 DEF KeptBy
<1>4. Strays'
  BY <1>1, <1>2, <1>3 DEF HInv, Tracked, Strays, Traced, Caught
<1>5. DrainFresh' /\ DrainCatches'
  BY <1>1, <1>2, <1>3 DEF HInv, Tracked, DrainFresh, DrainCatches
<1>6. ParentFresh' /\ KidsFresh'
  <2>1. feed = <<>> => work.stage = "idle" /\ \A h \in Heads : work.kids[h] = {}
    BY Idle DEF HInv, HTyped, Working
  <2> QED BY <1>1, <2>1 DEF HInv, Tracked, ParentFresh, KidsFresh
<1> QED BY <1>4, <1>5, <1>6 DEF Tracked

----------------------------------------------------------------------------
(* A drain sends the lists of the parents it found, and no other child.    *)
LEMMA RepairAdds ==
  ASSUME NEW c \in Children, NEW h \in Heads, NEW g \in SUBSET Repairing, Adds(g, c, h)
  PROVE  account[c].parent = h
<1>1. PICK m \in Repairing : m.rel = "child" /\ m.of = h /\ c \in m.to
  BY DEF Adds
<1>2. CASE drain.org \in Heads
  BY <1>1, <1>2 DEF Repairing, IndexOf
<1>3. CASE drain.org \notin Heads
  <2>1. m = ChildList(h, ChildrenOf(h))
    BY <1>1, <1>3 DEF Repairing, ParentOf, ChildList
  <2> QED BY <1>1, <2>1 DEF ChildList, ChildrenOf
<1> QED BY <1>2, <1>3

(* Every step of the drain keeps what is tracked.                          *)
LEMMA DrainTracked == ASSUME HInv, Reindex PROVE Tracked'
<1>0. /\ UNCHANGED <<account, feed, lists, work>>
      /\ HTyped /\ sent \in Seq(SUBSET Updates) /\ marked \in SUBSET Orgs
  BY DEF Reindex, DrainSelect, DrainLinks, DrainPublish, DrainStep, model, HInv, HTyped, HTypeOK
<1>1. ParentFresh' /\ KidsFresh' /\ \A c : Moved(c)' <=> Moved(c)
  BY <1>0 DEF HInv, Tracked, ParentFresh, KidsFresh, Moved
<1>2. \A c : Coming(c)' <=> Coming(c)
  BY <1>0 DEF Coming, Moved, Now
<1>3. work = Idling /\ \A c, h : ~Caught(c, h)
  <2>1. work = Idling \/ drain.stage \in {"links", "publish"}
    BY DEF Reindex, DrainSelect, DrainLinks, DrainPublish, DrainStep
  <2>2. work.stage # "idle" => drain.stage = "idle"
    BY <1>0 DEF HTyped, Working, Draining
  <2>3. work = Idling
    BY <1>0, <2>1, <2>2 DEF HTyped, Working
  <2> QED BY <2>3 DEF Caught, Idling
<1>4. ASSUME \A c \in Children, h \in Heads :
                KeptBy(sent', c, h) /\ account[c].parent # h =>
                   \/ c \in marked' \union overlooked' \/ Coming(c)
                   \/ KeptBy(sent, c, h) /\ (c \in marked \union overlooked => c \in marked' \union overlooked')
      PROVE  Strays'
  <2>1. \A c \in Children, h \in Heads : KeptBy(sent, c, h)' <=> KeptBy(sent', c, h)
    BY <1>0 DEF KeptBy
  <2> QED BY <1>0, <1>2, <1>3, <1>4, <2>1 DEF HInv, Tracked, Strays, Traced
<1>5. CASE DrainSelect
  <2>1. PICK o \in marked :
           IF Eligible(o)
             THEN /\ drain' = [Draining EXCEPT !.stage = "links", !.org = o, !.parent = account[o].parent]
                  /\ UNCHANGED <<sent, marked, overlooked>>
             ELSE /\ sent' = sent \o Group(RemoveFromIndex(o))
                  /\ marked' = marked \ {o}
                  /\ overlooked' = overlooked \union ({o} \intersect Children)
                  /\ UNCHANGED drain
    BY <1>5 DEF DrainSelect
  <2>2. CASE Eligible(o)
    <3>1. drain'.stage = "links" /\ drain'.org = o /\ drain'.parent = account[o].parent
      BY <2>1, <2>2 DEF Draining
    <3>2. DrainFresh' /\ DrainCatches'
      BY <1>0, <3>1 DEF DrainFresh, DrainCatches
    <3>3. Strays'
      BY <1>4, <2>1, <2>2
    <3> QED BY <1>1, <3>2, <3>3 DEF Tracked
  <2>3. CASE ~Eligible(o)
    <3>1. \A c \in Children, h \in Heads : KeptBy(sent', c, h) => KeptBy(sent, c, h)
      <4>1. RemoveFromIndex(o) \in SUBSET Updates /\ \A m \in RemoveFromIndex(o) : m.rel # "child"
        BY MessageShapes DEF RemoveFromIndex
      <4> QED BY <2>1, <2>3, <4>1, UnlinkedSent
    <3>2. \A c \in Children : c \in marked \union overlooked => c \in marked' \union overlooked'
      BY <2>1, <2>3
    <3>3. Strays'
      BY <1>4, <3>1, <3>2
    <3>4. drain'.stage = "idle"
      BY <1>5, <2>1, <2>3 DEF DrainSelect, DrainStep
    <3> QED BY <1>1, <3>3, <3>4 DEF Tracked, DrainFresh, DrainCatches
  <2> QED BY <2>2, <2>3
<1>6. CASE DrainLinks
  <2>1. /\ drain' = [drain EXCEPT !.stage = "publish", !.stale = Listing(drain.org) \ {drain.parent}]
        /\ Checked(drain.org, drain.org \in Children /\ Unseen(drain.org, drain.parent))
        /\ UNCHANGED <<sent, marked>> /\ drain.stage = "links"
    BY <1>6 DEF DrainLinks, DrainStep
  <2>2. drain.org \in marked
    BY <1>0, <2>1 DEF HTyped, Drains
  <2>3. /\ drain'.stage = "publish" /\ drain'.org = drain.org /\ drain'.parent = drain.parent
        /\ drain'.stale = Listing(drain.org) \ {drain.parent}
    BY <1>0, <2>1 DEF HTyped, Drains
  <2>4. Strays'
    <3>1. \A c \in Children : c \in marked \union overlooked => c \in marked' \union overlooked'
      BY <2>1, <2>2 DEF Checked
    <3> QED BY <1>4, <2>1, <3>1
  <2>5. DrainFresh'
    BY <1>0, <1>2, <2>1, <2>3 DEF HInv, Tracked, DrainFresh
  <2>6. DrainCatches'
    <3> SUFFICES ASSUME drain.org \in Children, NEW h \in Heads, KeptBy(sent, drain.org, h),
                        account[drain.org].parent # h
                 PROVE  drain.org \in overlooked' \/ Coming(drain.org) \/ h \in drain'.stale
      <4>1. \A c \in Children, h \in Heads : KeptBy(sent, c, h)' <=> KeptBy(sent, c, h)
        BY <1>0, <2>1 DEF KeptBy
      <4>2. \A c : c = drain.org => (Coming(c)' <=> Coming(c))
        BY <1>2
      <4> QED BY <1>0, <2>3, <4>1, <4>2 DEF DrainCatches
    <3>1. CASE Unseen(drain.org, drain.parent)
      BY <2>1, <3>1 DEF Checked
    <3>2. CASE ~Unseen(drain.org, drain.parent)
      <4>1. h \in Listing(drain.org) \union {drain.parent}
        BY <3>2, ListingFinds
      <4>2. account[drain.org].parent = drain.parent \/ Coming(drain.org)
        BY <2>1 DEF HInv, Tracked, DrainFresh
      <4> QED BY <2>3, <4>1, <4>2
    <3> QED BY <3>1, <3>2
  <2> QED BY <1>1, <2>4, <2>5, <2>6 DEF Tracked
<1>7. CASE DrainPublish
  <2>1. /\ drain.stage = "publish" /\ drain' = Draining /\ overlooked' = overlooked
    BY <1>7 DEF DrainPublish, DrainStep
  <2>2. /\ drain.org \in Orgs /\ drain.parent \in Parents /\ drain.stale \in SUBSET Heads
        /\ Repairing \in SUBSET Updates
    <3>1. drain.org \in Orgs /\ drain.parent \in Parents /\ drain.stale \in SUBSET Heads
      BY <1>0, <2>1 DEF HTyped, Drains
    <3> QED BY <3>1, MessageShapes, ChildrenShape DEF Repairing, Parents, Orgs
  <2>3. \/ /\ sent' = Append(sent, Repairing)
           /\ marked \ {drain.org} \subseteq marked'
        \/ /\ \E m \in Repairing : sent' = sent \o Group(Repairing \ {m})
           /\ marked \subseteq marked'
    <3>1. (IF drain.parent = NoOrg THEN {} ELSE {drain.parent}) = {drain.parent} \ {NoOrg}
      OBVIOUS
    <3>2. LET also == IF drain.parent = NoOrg THEN {} ELSE {drain.parent} IN
            \/ /\ sent' = Append(sent, Repairing)
               /\ marked' = (marked \union also) \ {drain.org}
            \/ /\ \E m \in Repairing : sent' = sent \o Group(Repairing \ {m})
               /\ marked' = marked \union also
      BY <1>7, <3>1 DEF DrainPublish, Repairing
    <3> QED BY <3>2
  <2>4. CASE sent' = Append(sent, Repairing) /\ marked \ {drain.org} \subseteq marked'
    <3>1. sent' = sent \o Group(Repairing)
      <4>1. Repairing # {}
        BY DEF Repairing
      <4> QED BY <1>0, <2>2, <2>4, <4>1, GroupShape
    <3>2. ASSUME NEW c \in Children, NEW h \in Heads, KeptBy(sent', c, h), account[c].parent # h
          PROVE  KeptBy(sent, c, h) /\ ~Drops(Repairing, c, h)
      <4>1. ~Adds(Repairing, c, h)
        BY <3>2, RepairAdds
      <4> QED BY <1>0, <2>2, <3>1, <3>2, <4>1, KeptGroup
    <3>3. ASSUME NEW c \in Children, NEW h \in Heads, c = drain.org, KeptBy(sent', c, h), account[c].parent # h
          PROVE  c \in overlooked \/ Coming(c)
      <4>1. CASE h \in drain.stale
        <5>1. ChildList(h, ChildrenOf(h)) \in Repairing
          BY <3>3, <4>1, HierarchyAssumption DEF Repairing
        <5>2. Drops(Repairing, c, h)
          BY <3>3, <5>1 DEF Drops, ChildList, ChildrenOf
        <5> QED BY <3>2, <3>3, <5>2
      <4>2. CASE h \notin drain.stale
        BY <2>1, <3>2, <3>3, <4>2 DEF HInv, Tracked, DrainCatches
      <4> QED BY <4>1, <4>2
    <3>4. Strays'
      BY <1>4, <2>1, <2>4, <3>2, <3>3
    <3> QED BY <1>1, <2>1, <3>4 DEF Tracked, DrainFresh, DrainCatches, Draining
  <2>5. ASSUME NEW m \in Repairing, sent' = sent \o Group(Repairing \ {m}), marked \subseteq marked'
        PROVE  Tracked'
    <3>1. ASSUME NEW c \in Children, NEW h \in Heads, KeptBy(sent', c, h), account[c].parent # h
          PROVE  KeptBy(sent, c, h)
      <4>1. ~Adds(Repairing \ {m}, c, h)
        BY <3>1, RepairAdds
      <4>2. Repairing \ {m} \in SUBSET Updates
        BY <2>2
      <4> QED BY <1>0, <2>5, <3>1, <4>1, <4>2, KeptGroup
    <3>2. Strays'
      BY <1>4, <2>1, <2>5, <3>1
    <3> QED BY <1>1, <2>1, <3>2 DEF Tracked, DrainFresh, DrainCatches, Draining
  <2> QED BY <2>3, <2>4, <2>5
<1> QED BY <1>5, <1>6, <1>7 DEF Reindex
----------------------------------------------------------------------------
(* Nothing is stray after a full reindex.                                  *)
LEMMA InitTracked == ASSUME HInit PROVE HInv
<1>1. HTyped
  BY HInitTyped
<1>2. Strays
  <2>1. ASSUME NEW c, NEW h, KeptBy(sent, c, h) PROVE c \in lists[h]
    <3>1. Len(sent) = 0
      BY DEF HInit
    <3> QED BY <2>1, <3>1 DEF KeptBy
  <2>2. \A h \in Heads : lists[h] = ChildrenOf(h)
    BY DEF HInit
  <2> QED BY <2>1, <2>2 DEF Strays, ChildrenOf
<1>3. ParentFresh /\ KidsFresh /\ DrainFresh /\ DrainCatches
  BY Idle DEF HInit, ParentFresh, KidsFresh, DrainFresh, DrainCatches, Idling, Draining
<1> QED BY <1>1, <1>2, <1>3 DEF HInv, Tracked

(* Every step keeps the inductive invariant.                               *)
LEMMA NextTracked == ASSUME HInv, [HNext]_hvars PROVE HInv'
<1>1. HTyped'
  BY HNextTyped DEF HInv
<1>2. CASE UNCHANGED hvars
  <2>1. Tracked'
    BY <1>2 DEF hvars, model, HInv, Tracked, Strays, ParentFresh, KidsFresh, DrainFresh, DrainCatches,
                KeptBy, Traced, Coming, Moved, Caught, Now
  <2> QED BY <1>1, <2>1 DEF HInv
<1>3. CASE HNext
  BY <1>1, <1>3, UpstreamTracked, ProcessTracked, HandleTracked, DrainTracked DEF HNext, HInv
<1> QED BY <1>2, <1>3

(* Whatever fails, an organization that a head other than its parent still *)
(* lists is queued for the repair run, or was overlooked.                  *)
THEOREM StraysAreQueued == HSpec => []StrayQueued
<1>1. HInit => HInv
  BY InitTracked
<1>2. HInv /\ [HNext]_hvars => HInv'
  BY NextTracked
<1>3. HInv => StrayQueued
  <2> SUFFICES ASSUME HInv, Calm, NEW c \in Children, NEW h \in Heads,
                      c \in lists[h], account[c].parent # h
               PROVE  c \in marked \union overlooked
    BY DEF StrayQueued
  <2>1. Len(sent) = 0 /\ Len(feed) = 0 /\ feed = <<>> /\ work.stage = "idle"
    BY DEF Calm, Idling
  <2>2. KeptBy(sent, c, h)
    BY <2>1 DEF KeptBy
  <2>3. ~Coming(c) /\ ~Caught(c, h)
    BY <2>1 DEF Coming, Moved, Caught
  <2> QED BY <2>2, <2>3 DEF HInv, Tracked, Strays, Traced
<1> QED BY <1>1, <1>2, <1>3, PTL DEF HSpec

----------------------------------------------------------------------------
(***************************************************************************)
(* When nothing fails, what the messages under way leave of the tuples and *)
(* of the search index is what Salesforce says, or an event still to be    *)
(* handled makes it so.                                                    *)
(***************************************************************************)

(* Once the messages s are processed, something may be wrong: it is now,   *)
(* or a message of "wrong" makes it so, and none of "right" is taken later.*)
EndsWrong(s, now, wrong, right) ==
    \/ now /\ \A j \in 1 .. Len(s) : s[j] \intersect right = {}
    \/ \E i \in 1 .. Len(s) : /\ s[i] \intersect wrong # {}
                              /\ \A j \in i + 1 .. Len(s) : s[j] \intersect right = {}

(* h will not list c; c will have another parent tuple than those to x; h  *)
(* will not be shown with is_parent.                                       *)
Without(c, h)    == {m \in Updates : m.rel = "child" /\ m.of = h /\ c \notin m.to}
With(c, h)       == {m \in Updates : m.rel = "child" /\ m.of = h /\ c \in m.to}
Missing(c, h)    == EndsWrong(sent, c \notin lists[h], Without(c, h), With(c, h))

AboveElse(c, x)  == {m \in Updates : m.rel \in {"parent", "purge"} /\ m.of = c /\ m.to # x}
AboveOnly(c, x)  == {m \in Updates : m.rel \in {"parent", "purge"} /\ m.of = c /\ m.to = x}
Differs(c, x)    == EndsWrong(sent, above[c] # x, AboveElse(c, x), AboveOnly(c, x))

AsLeaf(h)        == {m \in Updates : m.of = h /\ (m.rel = "remove" \/ (m.rel = "index" /\ m.to = {}))}
AsParent(h)      == {m \in Updates : m.of = h /\ m.rel = "index" /\ m.to # {}}
Hidden(h)        == EndsWrong(sent, shown[h] # "parent", AsLeaf(h), AsParent(h))

(* An event of o is behind the one in hand, or has not been read for.      *)
Later(o, kinds)  == \E i \in 2 .. Len(feed) : feed[i].org = o /\ feed[i].kind \in kinds
Awaits(o, kinds) ==
    \/ Later(o, kinds)
    \/ feed # <<>> /\ Now.org = o /\ Now.kind \in kinds /\ work.stage \in {"idle", "accounts"}
Read    == {"upsert", "owner", "restore"}
Relinks == {"upsert", "restore"}

(* The children of h that the consumer was told of.                        *)
Kids(h) == {c \in Children : Told(c) /\ account[c].parent = h}

(* They are among those that a read finds.                                 *)
LEMMA KidsListed == \A h : Kids(h) \subseteq ChildrenOf(h)
BY DEF Kids, ChildrenOf, Told

(* The consumer is about to publish o.                                     *)
Publishes(o) == work.org = o /\ work.found /\ work.stage \in {"links", "children", "publish"}

(* Nothing is queued, and what is published was read.                      *)
Unqueued ==
    /\ marked = {} /\ drain = Draining
    /\ work.stage = "publish" => work.read
    /\ work.complete

(* What was read of the children, and of the old parent, is as it is, or   *)
(* an event comes of the Account that has changed.                         *)
ReadNow ==
    /\ work.stage = "refresh" => work.read
    /\ work.read =>
          /\ work.stage \in {"publish", "refresh"}
          /\ \A h \in Heads, c \in Children :
                h \in {work.org, work.parent, work.old} \union work.stale /\ c \in Kids(h)
                   => c \in work.kids[h] \/ Later(c, Read)
KnownNow ==
    work.stage \in {"links", "children", "publish", "refresh"} /\ work.old \in Heads /\ Told(work.old)
       => work.known \/ Later(work.old, Read)

(* A delete of an Account that is back is followed by its restore.         *)
Undone ==
    \A i \in 1 .. Len(feed) : feed[i].kind = "delete" =>
        \/ account[feed[i].org].state = "deleted"
        \/ \E j \in i + 1 .. Len(feed) : feed[j].org = feed[i].org /\ feed[j].kind = "restore"

(* A child will have its parent's tuple and be in its parent's list; one   *)
(* without a parent will have no tuple; a parent will be shown as one.     *)
Joined ==
    \A p \in Heads, c \in Children : c \in Kids(p) =>
        Awaits(c, Read) \/ Publishes(c) \/ (~Missing(c, p) /\ ~Differs(c, {p}))

Unlinks(c) ==
    /\ work.org = c /\ work.found
    /\ \/ work.stage = "links"
       \/ work.stage \in {"children", "publish"} /\ work.stale # {}
Parentless ==
    \A c \in Children : account[c].parent = NoOrg /\ c \notin overlooked =>
        Awaits(c, Relinks) \/ Unlinks(c) \/ ~Differs(c, {})

Shows(c, h) ==
    /\ work.org = c /\ work.found /\ work.parent = h
    /\ work.stage \in {"links", "children", "publish", "refresh"}
Flagged ==
    \A h \in Heads, c \in Children : Told(h) /\ c \in Kids(h) =>
        Awaits(c, Read) \/ Awaits(h, Read) \/ Publishes(h) \/ Shows(c, h) \/ ~Hidden(h)

Exact == Unqueued /\ ReadNow /\ KnownNow /\ Undone /\ Joined /\ Parentless /\ Flagged

(* What a group of messages leaves to go wrong.                            *)
LEMMA WrongGroup ==
  ASSUME NEW s \in Seq(SUBSET Updates), NEW g \in SUBSET Updates, NEW now, NEW wrong, NEW right,
         EndsWrong(s \o Group(g), now, wrong, right)
  PROVE  g \intersect wrong # {} \/ (EndsWrong(s, now, wrong, right) /\ g \intersect right = {})
<1>1. CASE g = {}
  BY <1>1, GroupShape
<1>2. CASE g # {}
  <2>1. s \o Group(g) = Append(s, g)
    BY <1>2, GroupShape
  <2>2. ASSUME NEW S, NEW t \in Seq(S), NEW e
        PROVE  /\ Len(t) \in Nat /\ Len(Append(t, e)) = Len(t) + 1
               /\ \A i \in 1 .. Len(t) : Append(t, e)[i] = t[i]
               /\ Append(t, e)[Len(t) + 1] = e
    BY <2>2
  <2> DEFINE n == Len(s)
             t == s \o Group(g)
  <2>3. /\ n \in Nat /\ Len(t) = n + 1
        /\ \A i \in 1 .. n : t[i] = s[i]
        /\ t[n + 1] = g
    BY <2>1, <2>2
  <2>4. EndsWrong(t, now, wrong, right)
    OBVIOUS
  <2> HIDE DEF t
  <2>5. ASSUME g \intersect wrong = {}
        PROVE  EndsWrong(s, now, wrong, right) /\ g \intersect right = {}
    <3>1. CASE now /\ \A j \in 1 .. Len(t) : t[j] \intersect right = {}
      BY <2>3, <3>1 DEF EndsWrong
    <3>2. ASSUME NEW i \in 1 .. Len(t), t[i] \intersect wrong # {},
                 \A j \in i + 1 .. Len(t) : t[j] \intersect right = {}
          PROVE  EndsWrong(s, now, wrong, right) /\ g \intersect right = {}
      <4>1. i \in 1 .. n
        BY <2>3, <2>5, <3>2
      <4>2. s[i] \intersect wrong # {} /\ n + 1 \in i + 1 .. Len(t)
        BY <2>3, <3>2, <4>1
      <4>3. \A j \in i + 1 .. n : s[j] \intersect right = {}
        BY <2>3, <3>2, <4>1
      <4> QED BY <2>3, <3>2, <4>1, <4>2, <4>3 DEF EndsWrong
    <3> QED BY <2>4, <3>1, <3>2 DEF EndsWrong
  <2> QED BY <2>5
<1> QED BY <1>1, <1>2

(* Processing a message of the first group does what was to come of it.    *)
LEMMA WrongProcessed ==
  ASSUME NEW s \in Seq(SUBSET Updates), s # <<>>, NEW m \in Head(s),
         NEW now, NEW then, NEW wrong, NEW right,
         then => m \in wrong \/ (now /\ m \notin right),
         EndsWrong(Group(Head(s) \ {m}) \o Tail(s), then, wrong, right)
  PROVE  EndsWrong(s, now, wrong, right)
<1>1. ASSUME NEW S, NEW q \in Seq(S), q # <<>>
      PROVE  /\ Head(q) = q[1] /\ Head(q) \in S /\ Len(q) \in Nat \ {0}
             /\ Tail(q) \in Seq(S) /\ Len(Tail(q)) = Len(q) - 1
             /\ \A i \in 1 .. Len(q) - 1 : Tail(q)[i] = q[i + 1]
  BY <1>1
<1>2. ASSUME NEW S, NEW q \in Seq(S), NEW e \in S
      PROVE  /\ Len(<<e>> \o q) = Len(q) + 1
             /\ (<<e>> \o q)[1] = e
             /\ \A i \in 1 .. Len(q) : (<<e>> \o q)[i + 1] = q[i]
  BY <1>2
<1> DEFINE n == Len(s)
           rest == Head(s) \ {m}
           t == Group(rest) \o Tail(s)
<1>3. /\ Head(s) = s[1] /\ n \in Nat \ {0} /\ m \in s[1]
      /\ Tail(s) \in Seq(SUBSET Updates) /\ Len(Tail(s)) = n - 1
      /\ \A i \in 1 .. n - 1 : Tail(s)[i] = s[i + 1]
      /\ rest \in SUBSET Updates /\ rest = s[1] \ {m}
  BY <1>1
<1>4. EndsWrong(t, then, wrong, right)
  OBVIOUS
<1>5. CASE rest = {}
  <2>1. t = Tail(s)
    BY <1>3, <1>5, ConcatEmptySeq DEF Group
  <2> HIDE DEF t, rest
  <2>2. /\ Len(t) = n - 1 /\ s[1] \subseteq {m}
        /\ \A i \in 1 .. n - 1 : t[i] = s[i + 1]
    BY <1>3, <1>5, <2>1
  <2>3. \A j \in 2 .. n : j - 1 \in 1 .. Len(t) /\ t[j - 1] = s[j]
    BY <1>3, <2>2
  <2>4. CASE then /\ \A j \in 1 .. Len(t) : t[j] \intersect right = {}
    <3>1. \A j \in 2 .. n : s[j] \intersect right = {}
      BY <2>3, <2>4
    <3>2. CASE m \in wrong
      <4>1. 1 \in 1 .. n /\ s[1] \intersect wrong # {} /\ \A j \in 1 + 1 .. n : s[j] \intersect right = {}
        BY <1>3, <3>1, <3>2
      <4> QED BY <4>1 DEF EndsWrong
    <3>3. CASE now /\ m \notin right
      <4>1. \A j \in 1 .. n : j = 1 \/ j \in 2 .. n
        BY <1>3
      <4>2. s[1] \intersect right = {}
        BY <2>2, <3>3
      <4> QED BY <3>1, <3>3, <4>1, <4>2 DEF EndsWrong
    <3> QED BY <2>4, <3>2, <3>3
  <2>5. ASSUME NEW i \in 1 .. Len(t), t[i] \intersect wrong # {},
               \A j \in i + 1 .. Len(t) : t[j] \intersect right = {}
        PROVE  EndsWrong(s, now, wrong, right)
    <3>1. i + 1 \in 1 .. n /\ t[i] = s[i + 1]
      BY <1>3, <2>2
    <3>2. \A j \in (i + 1) + 1 .. n : s[j] \intersect right = {}
      <4>1. \A j \in (i + 1) + 1 .. n : j \in 2 .. n /\ j - 1 \in i + 1 .. Len(t)
        BY <1>3, <2>2
      <4> QED BY <2>3, <2>5, <4>1
    <3> QED BY <2>5, <3>1, <3>2 DEF EndsWrong
  <2> QED BY <1>4, <2>4, <2>5 DEF EndsWrong
<1>6. CASE rest # {}
  <2>1. t = <<rest>> \o Tail(s)
    BY <1>6 DEF Group
  <2> HIDE DEF t
  <2>2. /\ Len(t) = n /\ t[1] = rest
        /\ \A i \in 1 .. n - 1 : t[i + 1] = s[i + 1]
    <3> HIDE DEF rest
    <3>1. Len(t) = Len(Tail(s)) + 1 /\ t[1] = rest /\ \A i \in 1 .. Len(Tail(s)) : t[i + 1] = Tail(s)[i]
      BY <1>2, <1>3, <2>1
    <3> QED BY <1>3, <3>1
  <2>3. \A j \in 2 .. n : t[j] = s[j]
    <3>1. \A j \in 2 .. n : j - 1 \in 1 .. n - 1 /\ (j - 1) + 1 = j
      BY <1>3
    <3> QED BY <2>2, <3>1
  <2> HIDE DEF rest
  <2>4. CASE then /\ \A j \in 1 .. Len(t) : t[j] \intersect right = {}
    <3>1. \A j \in 2 .. n : s[j] \intersect right = {}
      <4>1. \A j \in 2 .. n : j \in 1 .. Len(t)
        BY <1>3, <2>2
      <4> QED BY <2>3, <2>4, <4>1
    <3>2. CASE m \in wrong
      <4>1. 1 \in 1 .. n /\ s[1] \intersect wrong # {} /\ \A j \in 1 + 1 .. n : s[j] \intersect right = {}
        BY <1>3, <3>1, <3>2
      <4> QED BY <4>1 DEF EndsWrong
    <3>3. CASE now /\ m \notin right
      <4>1. \A j \in 1 .. n : j = 1 \/ j \in 2 .. n
        BY <1>3
      <4>2. rest \intersect right = {}
        <5>1. 1 \in 1 .. Len(t)
          BY <1>3, <2>2
        <5> QED BY <2>2, <2>4, <5>1
      <4>3. s[1] \intersect right = {}
        BY <1>3, <3>3, <4>2
      <4> QED BY <3>1, <3>3, <4>1, <4>3 DEF EndsWrong
    <3> QED BY <2>4, <3>2, <3>3
  <2>5. ASSUME NEW i \in 1 .. Len(t), t[i] \intersect wrong # {},
               \A j \in i + 1 .. Len(t) : t[j] \intersect right = {}
        PROVE  EndsWrong(s, now, wrong, right)
    <3>1. s[i] \intersect wrong # {} /\ i \in 1 .. n
      <4>1. i = 1 \/ i \in 2 .. n
        BY <1>3, <2>2
      <4>2. rest \subseteq s[1]
        BY <1>3
      <4> QED BY <1>3, <2>2, <2>3, <2>5, <4>1, <4>2
    <3>2. \A j \in i + 1 .. n : s[j] \intersect right = {}
      <4>1. \A j \in i + 1 .. n : j \in 2 .. n /\ j \in i + 1 .. Len(t)
        BY <1>3, <2>2, <3>1
      <4> QED BY <2>3, <2>5, <4>1
    <3> QED BY <3>1, <3>2 DEF EndsWrong
  <2> QED BY <1>4, <2>4, <2>5 DEF EndsWrong
<1> QED BY <1>5, <1>6

(* Nothing under way leaves what is.                                       *)
LEMMA WrongCalm ==
  ASSUME NEW s, Len(s) = 0, NEW now, NEW wrong, NEW right
  PROVE  EndsWrong(s, now, wrong, right) <=> now
BY DEF EndsWrong

(* The tuples and documents stay: it depends on the messages alone.        *)
LEMMA AsSent ==
  ASSUME UNCHANGED <<lists, above, shown>>
  PROVE  \A c, h, x : /\ Missing(c, h)' <=> EndsWrong(sent', c \notin lists[h], Without(c, h), With(c, h))
                      /\ Differs(c, x)' <=> EndsWrong(sent', above[c] # x, AboveElse(c, x), AboveOnly(c, x))
                      /\ Hidden(h)' <=> EndsWrong(sent', shown[h] # "parent", AsLeaf(h), AsParent(h))
BY DEF Missing, Differs, Hidden, EndsWrong, Without, With, AboveElse, AboveOnly, AsLeaf, AsParent

(* One group more.                                                         *)
LEMMA SentWrong ==
  ASSUME HTyped, UNCHANGED <<lists, above, shown>>, NEW g \in SUBSET Updates, sent' = sent \o Group(g)
  PROVE  \A c, h, x : /\ Missing(c, h)' => g \intersect Without(c, h) # {} \/ (Missing(c, h) /\ g \intersect With(c, h) = {})
                      /\ Differs(c, x)' => g \intersect AboveElse(c, x) # {} \/ (Differs(c, x) /\ g \intersect AboveOnly(c, x) = {})
                      /\ Hidden(h)' => g \intersect AsLeaf(h) # {} \/ (Hidden(h) /\ g \intersect AsParent(h) = {})
<1>1. sent \in Seq(SUBSET Updates)
  BY DEF HTyped, HTypeOK
<1>2. \A now, wrong, right : EndsWrong(sent', now, wrong, right) =>
         g \intersect wrong # {} \/ (EndsWrong(sent, now, wrong, right) /\ g \intersect right = {})
  BY <1>1, WrongGroup
<1> QED BY <1>2, AsSent DEF Missing, Differs, Hidden

(* The event after the one that is done is the next to be read for; every  *)
(* delete keeps its restore behind it.                                     *)
LEMMA LaterNext ==
  ASSUME HTyped, feed # <<>>, Done(TRUE)
  PROVE  /\ \A o, kinds : Later(o, kinds) => Awaits(o, kinds)'
         /\ Undone /\ UNCHANGED account => Undone'
<1>1. feed' = Tail(feed) /\ work'.stage = "idle"
  BY DEF Done, Idling
<1>2. /\ Len(feed) \in Nat /\ Len(feed') = Len(feed) - 1
      /\ feed' \in Seq([org : Orgs, kind : Changes])
      /\ \A j \in 1 .. Len(feed) - 1 : feed'[j] = feed[j + 1]
  BY <1>1, InHand
<1>3. ASSUME NEW o, NEW kinds, NEW i \in 2 .. Len(feed), feed[i].org = o, feed[i].kind \in kinds
      PROVE  Awaits(o, kinds)'
  <2>1. i - 1 \in 1 .. Len(feed') /\ feed'[i - 1] = feed[i]
    BY <1>2
  <2>2. CASE i = 2
    <3>1. feed' # <<>> /\ feed'[1] = feed[2] /\ Head(feed') = feed'[1]
      BY <1>2, <2>1, <2>2
    <3> QED BY <1>1, <1>3, <2>2, <3>1 DEF Awaits, Now
  <2>3. CASE i # 2
    <3>1. i - 1 \in 2 .. Len(feed')
      BY <1>2, <2>1, <2>3
    <3> QED BY <1>3, <2>1, <3>1 DEF Awaits, Later
  <2> QED BY <2>2, <2>3
<1>4. ASSUME Undone, UNCHANGED account PROVE Undone'
  <2> SUFFICES ASSUME NEW i \in 1 .. Len(feed'), feed'[i].kind = "delete", account[feed'[i].org].state # "deleted"
               PROVE  \E j \in i + 1 .. Len(feed') : feed'[j].org = feed'[i].org /\ feed'[j].kind = "restore"
    BY <1>4 DEF Undone
  <2>1. i + 1 \in 1 .. Len(feed) /\ feed'[i] = feed[i + 1]
    BY <1>2
  <2>2. PICK j \in (i + 1) + 1 .. Len(feed) : feed[j].org = feed[i + 1].org /\ feed[j].kind = "restore"
    BY <1>4, <2>1 DEF Undone
  <2>3. j - 1 \in i + 1 .. Len(feed') /\ feed'[j - 1] = feed[j]
    BY <1>2, <2>1, <2>2
  <2> QED BY <2>1, <2>2, <2>3
<1> QED BY <1>3, <1>4 DEF Later

(* A step that goes on with its event.                                     *)
LEMMA LaterSame ==
  ASSUME UNCHANGED feed
  PROVE  /\ \A o, kinds : Later(o, kinds)' <=> Later(o, kinds)
         /\ \A o, kinds : Later(o, kinds) => Awaits(o, kinds)'
         /\ Undone /\ UNCHANGED account => Undone'
BY DEF Later, Awaits, Undone

(* A step of the consumer keeps what is exact, if the messages it sends    *)
(* spoil nothing but what another event is to put right, and the Account   *)
(* in hand is accounted for.                                               *)
LEMMA StepExact ==
  ASSUME HTyped, Joined, Parentless, Flagged, feed # <<>>, UNCHANGED account,
         \A o, kinds : Later(o, kinds) => Awaits(o, kinds)',
         \A c \in Children : c # Now.org => (c \in overlooked => c \in overlooked'),
         \A p \in Heads, c \in Children : c # Now.org /\ c \in Kids(p) =>
            /\ Missing(c, p)' => Missing(c, p) \/ Later(c, Read)
            /\ Differs(c, {p})' => Differs(c, {p}) \/ Later(c, Read),
         \A p \in Heads, c \in Children : c = Now.org /\ c \in Kids(p) =>
            Awaits(c, Read)' \/ Publishes(c)' \/ (~Missing(c, p)' /\ ~Differs(c, {p})'),
         \A c \in Children : c # Now.org /\ account[c].parent = NoOrg =>
            (Differs(c, {})' => Differs(c, {}) \/ Later(c, Relinks)),
         \A c \in Children : c = Now.org /\ account[c].parent = NoOrg /\ c \notin overlooked' =>
            Awaits(c, Relinks)' \/ Unlinks(c)' \/ ~Differs(c, {})',
         \A h \in Heads, c \in Children :
            h # Now.org /\ c # Now.org /\ Told(h) /\ c \in Kids(h) =>
               (Hidden(h)' => Hidden(h) \/ Later(c, Read)),
         \A h \in Heads, c \in Children :
            (h = Now.org \/ c = Now.org) /\ Told(h) /\ c \in Kids(h) =>
               \/ Awaits(c, Read)' \/ Awaits(h, Read)' \/ Publishes(h)' \/ Shows(c, h)' \/ ~Hidden(h)'
  PROVE  Joined' /\ Parentless' /\ Flagged'
<1>1. /\ \A h : Kids(h)' = Kids(h)
      /\ \A h : Told(h)' <=> Told(h)
  BY DEF Kids, Told, ChildrenOf, Eligible
<1>2. \A o, kinds : o # Now.org /\ Awaits(o, kinds) => Later(o, kinds)
  BY DEF Awaits
<1>3. \A o, h : o # Now.org => ~Publishes(o) /\ ~Unlinks(o) /\ ~Shows(o, h)
  BY DEF HTyped, Working, Publishes, Unlinks, Shows
<1>4. Joined'
  <2> SUFFICES ASSUME NEW p \in Heads, NEW c \in Children, c \in Kids(p)
               PROVE  Awaits(c, Read)' \/ Publishes(c)' \/ (~Missing(c, p)' /\ ~Differs(c, {p})')
    BY <1>1 DEF Joined
  <2>1. CASE c = Now.org
    BY <2>1
  <2>2. CASE c # Now.org
    <3>1. Later(c, Read) \/ (~Missing(c, p) /\ ~Differs(c, {p}))
      BY <1>2, <1>3, <2>2 DEF Joined
    <3> QED BY <2>2, <3>1
  <2> QED BY <2>1, <2>2
<1>5. Parentless'
  <2> SUFFICES ASSUME NEW c \in Children, account[c].parent = NoOrg, c \notin overlooked'
               PROVE  Awaits(c, Relinks)' \/ Unlinks(c)' \/ ~Differs(c, {})'
    BY DEF Parentless
  <2>1. CASE c = Now.org
    BY <2>1
  <2>2. CASE c # Now.org
    <3>1. Later(c, Relinks) \/ ~Differs(c, {})
      BY <1>2, <1>3, <2>2 DEF Parentless
    <3> QED BY <2>2, <3>1
  <2> QED BY <2>1, <2>2
<1>6. Flagged'
  <2> SUFFICES ASSUME NEW h \in Heads, NEW c \in Children, Told(h), c \in Kids(h)
               PROVE  \/ Awaits(c, Read)' \/ Awaits(h, Read)' \/ Publishes(h)' \/ Shows(c, h)' \/ ~Hidden(h)'
    BY <1>1 DEF Flagged
  <2>1. CASE h = Now.org \/ c = Now.org
    BY <2>1
  <2>2. CASE h # Now.org /\ c # Now.org
    <3>1. Later(c, Read) \/ Later(h, Read) \/ ~Hidden(h)
      BY <1>2, <1>3, <2>2 DEF Flagged
    <3> QED BY <2>2, <3>1
  <2> QED BY <2>1, <2>2
<1> QED BY <1>4, <1>5, <1>6

----------------------------------------------------------------------------
(* A change of Salesforce after which the consumer is told of an Account,  *)
(* that gives one another parent or brings it back, comes with an event.   *)
LEMMA ChangeComes ==
  ASSUME HTyped, Upstream
  PROVE  /\ UNCHANGED <<lists, above, shown, sent, marked, overlooked, work, drain, failures>>
         /\ \A o, kinds : Later(o, kinds) => Later(o, kinds)'
         /\ \A o, kinds : Awaits(o, kinds) => Awaits(o, kinds)'
         /\ Undone => Undone'
         /\ \E o \in Orgs :
               /\ \A x \in Orgs \ {o} : account'[x] = account[x]
               /\ Told(o)' => Awaits(o, Read)' /\ (feed # <<>> => Later(o, Read)')
               /\ account'[o].parent = account[o].parent \/ Awaits(o, Relinks)'
<1>1. PICK o \in Orgs, p \in Parents, s \in {"eligible", "ineligible", "deleted"},
           kinds \in SUBSET (Changes \union {"none"}) :
              /\ Alter(o, p, s, kinds)
              /\ p = account[o].parent \/ kinds = {"upsert"}
              /\ s = "eligible" => kinds \subseteq Read \union {"none"}
              /\ "none" \in kinds => p = account[o].parent /\ account[o].state # "deleted"
              /\ "delete" \in kinds => s = "deleted"
              /\ account[o].state = "deleted" => kinds = {"restore"}
  <2>0. ASSUME NEW o \in Orgs
        PROVE  account[o].parent \in Parents /\ account[o].state \in {"eligible", "ineligible", "deleted"}
    BY DEF HTyped, HTypeOK
  <2>1. CASE \E c \in Children, p \in Parents : Move(c, p)
    <3>1. PICK c \in Children, p \in Parents : Move(c, p)
      BY <2>1
    <3>2. {"upsert"} \in SUBSET (Changes \union {"none"}) /\ {"upsert"} \subseteq Read /\ c \in Orgs
      BY DEF Changes, Read, Orgs
    <3> QED BY <2>0, <3>1, <3>2 DEF Move
  <2>2. CASE \E c \in Children : Remove(c)
    <3>1. PICK c \in Children : Remove(c)
      BY <2>2
    <3>2. {"delete"} \in SUBSET (Changes \union {"none"}) /\ c \in Orgs
      BY DEF Changes, Orgs
    <3> QED BY <2>0, <3>1, <3>2 DEF Remove
  <2>3. CASE \E c \in Children : Undelete(c)
    <3>1. PICK c \in Children : Undelete(c)
      BY <2>3
    <3>2. {"restore"} \in SUBSET (Changes \union {"none"}) /\ {"restore"} \subseteq Read /\ c \in Orgs
      BY DEF Changes, Read, Orgs
    <3> QED BY <2>0, <3>1, <3>2 DEF Undelete
  <2>4. CASE \E x \in Orgs : Qualify(x)
    <3>1. PICK x \in Orgs : Qualify(x)
      BY <2>4
    <3>2. /\ {"upsert", "owner", "none"} \in SUBSET (Changes \union {"none"})
          /\ {"upsert", "owner", "none"} \subseteq Read \union {"none"}
      BY DEF Changes, Read
    <3> QED BY <2>0, <3>1, <3>2 DEF Qualify
  <2>5. CASE \E x \in Orgs : Disqualify(x)
    <3>1. PICK x \in Orgs : Disqualify(x)
      BY <2>5
    <3>2. {"upsert", "none"} \in SUBSET (Changes \union {"none"})
      BY DEF Changes
    <3> QED BY <2>0, <3>1, <3>2 DEF Disqualify, Eligible
  <2> QED BY <2>1, <2>2, <2>3, <2>4, <2>5 DEF Upstream
<1>2. PICK k \in kinds, b \in BOOLEAN :
        /\ UNCHANGED <<lists, above, shown, sent, marked, overlooked, work, drain, failures>>
        /\ account' = [account EXCEPT ![o] = [parent |-> p, state |-> s, told |-> b]]
        /\ b <=> k # "none" \/ s # "eligible"
        /\ feed' = IF k = "none" THEN feed ELSE Append(feed, [org |-> o, kind |-> k])
  <2>1. ASSUME NEW k \in kinds PROVE (k # "none" \/ s # "eligible") \in BOOLEAN
    OBVIOUS
  <2> QED BY <1>1, <2>1 DEF Alter, model
<1>3. feed' = IF k = "none" THEN feed ELSE Append(feed, [org |-> o, kind |-> k])
  BY <1>2
<1>4. /\ account'[o] = [parent |-> p, state |-> s, told |-> b]
      /\ \A x \in Orgs \ {o} : account'[x] = account[x]
  BY <1>2 DEF HTyped, HTypeOK
<1>5. feed \in Seq([org : Orgs, kind : Changes])
  BY DEF HTyped, HTypeOK
<1>6. \A i \in 1 .. Len(feed) : feed[i].org \in Orgs
  <2> SUFFICES ASSUME NEW i \in 1 .. Len(feed) PROVE feed[i].org \in Orgs
    OBVIOUS
  <2>0. ASSUME NEW S, NEW q \in Seq(S), NEW j \in 1 .. Len(q) PROVE q[j] \in S
    BY <2>0
  <2>1. feed[i] \in [org : Orgs, kind : Changes]
    BY <1>5, <2>0
  <2> QED BY <2>1
<1>7. CASE k = "none"
  <2>1. feed' = feed /\ p = account[o].parent /\ account[o].state # "deleted"
    BY <1>1, <1>3, <1>7
  <2>2. Undone => Undone'
    BY <1>4, <1>6, <2>1 DEF Undone
  <2>3. ~Told(o)' /\ account'[o].parent = account[o].parent
    BY <1>2, <1>4, <1>7, <2>1 DEF Told, Eligible
  <2> QED BY <1>2, <1>4, <2>1, <2>2, <2>3 DEF Later, Awaits, Now
<1>8. CASE k # "none"
  <2>1. ASSUME NEW S, NEW q \in Seq(S), NEW e
        PROVE  /\ Len(q) \in Nat /\ Len(Append(q, e)) = Len(q) + 1
               /\ \A i \in 1 .. Len(q) : Append(q, e)[i] = q[i]
               /\ Append(q, e)[Len(q) + 1] = e
               /\ Append(q, e) # <<>> /\ Head(Append(q, e)) = Append(q, e)[1]
               /\ q # <<>> => Head(q) = q[1] /\ Len(q) # 0
               /\ q = <<>> => Len(q) = 0
    BY <2>1
  <2> DEFINE e == [org |-> o, kind |-> k]
  <2>2. /\ Len(feed) \in Nat /\ Len(feed') = Len(feed) + 1
        /\ \A i \in 1 .. Len(feed) : feed'[i] = feed[i]
        /\ feed'[Len(feed) + 1] = e
        /\ feed' # <<>> /\ Head(feed') = feed'[1]
        /\ feed # <<>> => Head(feed) = feed[1] /\ Len(feed) # 0
        /\ feed = <<>> => Len(feed) = 0
    BY <1>3, <1>5, <1>8, <2>1
  <2>3. feed # <<>> => feed' # <<>> /\ Now' = Now
    BY <2>2 DEF Now
  <2>4. \A x, ks : Later(x, ks) => Later(x, ks)'
    <3>1. \A i \in 2 .. Len(feed) : i \in 2 .. Len(feed') /\ feed'[i] = feed[i]
      BY <2>2
    <3> QED BY <3>1 DEF Later
  <2>5. \A x, ks : Awaits(x, ks) => Awaits(x, ks)'
    BY <1>2, <2>3, <2>4 DEF Awaits
  <2>6. ASSUME NEW ks, k \in ks
        PROVE  Awaits(o, ks)' /\ (feed # <<>> => Later(o, ks)')
    <3>1. CASE feed = <<>>
      <4>1. Now' = e /\ work'.stage = "idle"
        BY <1>2, <2>2, <3>1 DEF Now, HTyped, Working
      <4> QED BY <2>2, <2>6, <3>1, <4>1 DEF Awaits
    <3>2. CASE feed # <<>>
      <4>1. Len(feed) + 1 \in 2 .. Len(feed')
        BY <2>2, <3>2
      <4> QED BY <2>2, <2>6, <4>1 DEF Awaits, Later
    <3> QED BY <3>1, <3>2
  <2>7. ASSUME Undone PROVE Undone'
    <3> SUFFICES ASSUME NEW i \in 1 .. Len(feed'), feed'[i].kind = "delete", account'[feed'[i].org].state # "deleted"
                 PROVE  \E j \in i + 1 .. Len(feed') : feed'[j].org = feed'[i].org /\ feed'[j].kind = "restore"
      BY DEF Undone
    <3>1. i \in 1 .. Len(feed)
      <4>1. i \in 1 .. Len(feed) \/ i = Len(feed) + 1
        BY <2>2
      <4>2. i # Len(feed) + 1
        BY <1>1, <1>4, <2>2
      <4> QED BY <4>1, <4>2
    <3>2. feed'[i] = feed[i] /\ feed[i].org \in Orgs
      BY <1>6, <2>2, <3>1
    <3>3. CASE feed[i].org = o /\ account[o].state = "deleted"
      <4>1. k = "restore" /\ Len(feed) + 1 \in i + 1 .. Len(feed')
        BY <1>1, <2>2, <3>1, <3>3
      <4> QED BY <2>2, <3>2, <3>3, <4>1
    <3>4. CASE ~(feed[i].org = o /\ account[o].state = "deleted")
      <4>1. account[feed[i].org].state # "deleted"
        BY <1>4, <3>2, <3>4
      <4>2. PICK j \in i + 1 .. Len(feed) : feed[j].org = feed[i].org /\ feed[j].kind = "restore"
        BY <2>7, <3>1, <3>2, <4>1 DEF Undone
      <4>3. j \in i + 1 .. Len(feed') /\ feed'[j] = feed[j]
        BY <2>2, <3>1, <4>2
      <4> QED BY <3>2, <4>2, <4>3
    <3> QED BY <3>3, <3>4
  <2>8. Told(o)' => k \in Read
    BY <1>1, <1>4, <1>8 DEF Told, Eligible
  <2>9. account'[o].parent = account[o].parent \/ k \in Relinks
    BY <1>1, <1>4 DEF Relinks
  <2> QED BY <1>2, <1>4, <2>4, <2>5, <2>6, <2>7, <2>8, <2>9
<1> QED BY <1>7, <1>8

(* A change of Salesforce keeps what is exact.                             *)
LEMMA UpstreamExact == ASSUME HTyped, Exact, Upstream PROVE Exact'
<1>1. /\ UNCHANGED <<lists, above, shown, sent, marked, overlooked, work, drain, failures>>
      /\ \A o, kinds : Later(o, kinds) => Later(o, kinds)'
      /\ \A o, kinds : Awaits(o, kinds) => Awaits(o, kinds)'
      /\ Undone'
  BY ChangeComes DEF Exact
<1>2. PICK o \in Orgs :
               /\ \A x \in Orgs \ {o} : account'[x] = account[x]
               /\ Told(o)' => Awaits(o, Read)' /\ (feed # <<>> => Later(o, Read)')
               /\ account'[o].parent = account[o].parent \/ Awaits(o, Relinks)'
  BY ChangeComes
<1>3. \A c, h, x : /\ Missing(c, h)' <=> Missing(c, h)
                   /\ Differs(c, x)' <=> Differs(c, x)
                   /\ Hidden(h)' <=> Hidden(h)
                   /\ Publishes(c)' <=> Publishes(c)
                   /\ Unlinks(c)' <=> Unlinks(c)
                   /\ Shows(c, h)' <=> Shows(c, h)
  BY <1>1 DEF Missing, Differs, Hidden, EndsWrong, Without, With, AboveElse, AboveOnly, AsLeaf, AsParent,
              Publishes, Unlinks, Shows
<1>4. \A h : \A c \in Children : c \in Kids(h)' =>
         c \in Kids(h) \/ (c = o /\ Awaits(c, Read)' /\ (feed # <<>> => Later(c, Read)'))
  BY <1>2 DEF Kids, Told, Eligible, Orgs
<1>5. \A h \in Orgs : Told(h)' =>
         Told(h) \/ (h = o /\ Awaits(h, Read)' /\ (feed # <<>> => Later(h, Read)'))
  BY <1>2 DEF Told, Eligible
<1>6. work.stage # "idle" => feed # <<>>
  BY DEF HTyped, Working
<1>7. Unqueued'
  BY <1>1 DEF Exact, Unqueued
<1>8. ReadNow'
  <2>1. work.read => feed # <<>>
    BY <1>6 DEF Exact, ReadNow
  <2>2. (work.stage = "refresh" => work.read)' /\ (work.read => work.stage \in {"publish", "refresh"})'
    BY <1>1 DEF Exact, ReadNow
  <2>3. ASSUME work.read, NEW h \in Heads, NEW c \in Children,
               h \in {work.org, work.parent, work.old} \union work.stale, c \in Kids(h)'
        PROVE  c \in work.kids[h] \/ Later(c, Read)'
    <3>1. c \in Kids(h) \/ Later(c, Read)'
      BY <1>4, <2>1, <2>3
    <3>2. c \in Kids(h) => c \in work.kids[h] \/ Later(c, Read)
      BY <2>3 DEF Exact, ReadNow
    <3> QED BY <1>1, <3>1, <3>2
  <2> QED BY <1>1, <2>2, <2>3 DEF ReadNow
<1>9. KnownNow'
  <2> SUFFICES ASSUME work.stage \in {"links", "children", "publish", "refresh"}, work.old \in Heads,
                      Told(work.old)', work' = work
               PROVE  work.known \/ Later(work.old, Read)'
    <3>1. \A h : h = work.old => (Told(h)' <=> account'[h].state = "eligible" /\ account'[h].told)
      BY DEF Told, Eligible
    <3> QED BY <1>1, <3>1 DEF KnownNow, Later, Told, Eligible
  <2>1. \A h \in Orgs : h = work.old /\ Told(h)' => Told(h) \/ Later(h, Read)'
    BY <1>5, <1>6
  <2>2. work.old \in Orgs
    BY DEF Orgs
  <2>3. Told(work.old)' <=> account'[work.old].state = "eligible" /\ account'[work.old].told
    BY DEF Told, Eligible
  <2>4. \A h : h = work.old => (Later(h, Read)' => Later(work.old, Read)')
    BY DEF Later
  <2>5. CASE Told(work.old)
    <3>1. work.known \/ Later(work.old, Read)
      BY <2>5 DEF Exact, KnownNow
    <3>2. \A h : h = work.old /\ Later(h, Read) => Later(h, Read)'
      BY <1>1
    <3> QED BY <2>4, <3>1, <3>2
  <2>6. CASE ~Told(work.old)
    BY <2>1, <2>2, <2>3, <2>4, <2>6 DEF Told, Eligible
  <2> QED BY <2>5, <2>6
<1>10. Joined'
  <2> SUFFICES ASSUME NEW p \in Heads, NEW c \in Children, c \in Kids(p)'
               PROVE  Awaits(c, Read)' \/ Publishes(c)' \/ (~Missing(c, p)' /\ ~Differs(c, {p})')
    BY DEF Joined
  <2> QED BY <1>1, <1>3, <1>4 DEF Exact, Joined
<1>11. Parentless'
  <2> SUFFICES ASSUME NEW c \in Children, account'[c].parent = NoOrg, c \notin overlooked'
               PROVE  Awaits(c, Relinks)' \/ Unlinks(c)' \/ ~Differs(c, {})'
    BY DEF Parentless
  <2>1. account[c].parent = NoOrg \/ Awaits(c, Relinks)'
    BY <1>2 DEF Orgs
  <2> QED BY <1>1, <1>3, <2>1 DEF Exact, Parentless
<1>12. Flagged'
  <2> SUFFICES ASSUME NEW h \in Heads, NEW c \in Children, Told(h)', c \in Kids(h)'
               PROVE  \/ Awaits(c, Read)' \/ Awaits(h, Read)' \/ Publishes(h)' \/ Shows(c, h)' \/ ~Hidden(h)'
    BY DEF Flagged
  <2>1. Told(h) \/ Awaits(h, Read)'
    BY <1>5 DEF Orgs
  <2>2. c \in Kids(h) \/ Awaits(c, Read)'
    BY <1>4
  <2> QED BY <1>1, <1>3, <2>1, <2>2 DEF Exact, Flagged
<1> QED BY <1>1, <1>7, <1>8, <1>9, <1>10, <1>11, <1>12 DEF Exact

(* Processing a message keeps what is exact.                               *)
LEMMA ProcessExact == ASSUME HTyped, Exact, Process PROVE Exact'
<1>1. PICK m \in Head(sent) :
         /\ lists' = IF m.rel = "child" THEN [lists EXCEPT ![m.of] = m.to] ELSE lists
         /\ above' = IF m.rel \in {"parent", "purge"} THEN [above EXCEPT ![m.of] = m.to] ELSE above
         /\ shown' = CASE m.rel = "index"  -> [shown EXCEPT ![m.of] = IF m.to = {} THEN "leaf" ELSE "parent"]
                       [] m.rel = "remove" -> [shown EXCEPT ![m.of] = "none"]
                       [] OTHER -> shown
         /\ sent' = Group(Head(sent) \ {m}) \o Tail(sent)
  BY DEF Process
<1>2. UNCHANGED <<account, feed, marked, overlooked, work, drain>>
  BY DEF Process
<1>3. sent \in Seq(SUBSET Updates) /\ sent # <<>>
  BY DEF HTyped, HTypeOK, Process
<1>4. m \in Updates
  <2>1. Head(sent) \in SUBSET Updates
    BY <1>3
  <2> QED BY <2>1
<1>5. lists \in [Heads -> SUBSET Children] /\ above \in [Children -> SUBSET Heads]
      /\ shown \in [Heads -> {"none", "leaf", "parent"}]
  BY DEF HTyped, HTypeOK
<1>6. \A now, then, wrong, right :
         (then => m \in wrong \/ (now /\ m \notin right)) /\ EndsWrong(sent', then, wrong, right)
            => EndsWrong(sent, now, wrong, right)
  BY <1>1, <1>3, WrongProcessed
<1>7. \A c \in Children, h \in Heads : Missing(c, h)' => Missing(c, h)
  <2> SUFFICES ASSUME NEW c \in Children, NEW h \in Heads, Missing(c, h)' PROVE Missing(c, h)
    OBVIOUS
  <2>1. EndsWrong(sent', c \notin lists'[h], Without(c, h), With(c, h))
    BY DEF Missing, Without, With
  <2>2. c \notin lists'[h] => m \in Without(c, h) \/ (c \notin lists[h] /\ m \notin With(c, h))
    BY <1>1, <1>4, <1>5 DEF Without, With
  <2> QED BY <1>6, <2>1, <2>2 DEF Missing
<1>8. \A x : \A c \in Children : Differs(c, x)' => Differs(c, x)
  <2> SUFFICES ASSUME NEW c \in Children, NEW x, Differs(c, x)' PROVE Differs(c, x)
    OBVIOUS
  <2>1. EndsWrong(sent', above'[c] # x, AboveElse(c, x), AboveOnly(c, x))
    BY DEF Differs, AboveElse, AboveOnly
  <2>2. above'[c] # x => m \in AboveElse(c, x) \/ (above[c] # x /\ m \notin AboveOnly(c, x))
    BY <1>1, <1>4, <1>5 DEF AboveElse, AboveOnly
  <2> QED BY <1>6, <2>1, <2>2 DEF Differs
<1>9. \A h \in Heads : Hidden(h)' => Hidden(h)
  <2> SUFFICES ASSUME NEW h \in Heads, Hidden(h)' PROVE Hidden(h)
    OBVIOUS
  <2>1. EndsWrong(sent', shown'[h] # "parent", AsLeaf(h), AsParent(h))
    BY DEF Hidden, AsLeaf, AsParent
  <2>2. shown'[h] # "parent" => m \in AsLeaf(h) \/ (shown[h] # "parent" /\ m \notin AsParent(h))
    <3>1. CASE m.rel = "index"
      BY <1>1, <1>4, <1>5, <3>1 DEF AsLeaf, AsParent
    <3>2. CASE m.rel = "remove"
      BY <1>1, <1>4, <1>5, <3>2 DEF AsLeaf, AsParent
    <3>3. CASE m.rel \notin {"index", "remove"}
      <4>1. shown' = shown
        BY <1>1, <3>3
      <4> QED BY <3>3, <4>1 DEF AsParent
    <3> QED BY <3>1, <3>2, <3>3
  <2> QED BY <1>6, <2>1, <2>2 DEF Hidden
<1>10. /\ \A o, kinds : Awaits(o, kinds)' <=> Awaits(o, kinds)
       /\ \A o, h : /\ Publishes(o)' <=> Publishes(o)
                    /\ Unlinks(o)' <=> Unlinks(o)
                    /\ Shows(o, h)' <=> Shows(o, h)
       /\ \A h : Kids(h)' = Kids(h)
       /\ \A h : Told(h)' <=> Told(h)
  BY <1>2 DEF Awaits, Later, Now, Publishes, Unlinks, Shows, Kids, Told, ChildrenOf, Eligible
<1>11. Unqueued' /\ ReadNow' /\ KnownNow' /\ Undone'
  BY <1>2 DEF Exact, Unqueued, ReadNow, KnownNow, Undone, Later, Kids, Told, ChildrenOf, Eligible
<1>12. Joined'
  BY <1>7, <1>8, <1>10 DEF Exact, Joined
<1>13. Parentless'
  BY <1>2, <1>8, <1>10 DEF Exact, Parentless
<1>14. Flagged'
  BY <1>9, <1>10 DEF Exact, Flagged
<1> QED BY <1>11, <1>12, <1>13, <1>14 DEF Exact

(* No drain starts as long as nothing is queued.                           *)
LEMMA NoDrain == ASSUME Unqueued, Reindex PROVE FALSE
BY DEF Unqueued, Reindex, DrainSelect, DrainLinks, DrainPublish, DrainStep, Draining

(* A step that fails is counted.                                           *)
LEMMA Counted ==
  ASSUME HTypeOK, failures' = 0
  PROVE  /\ ~Failure
         /\ \A os : ~QueueAfterFailure(os)
         /\ \A os, spent : spent \in Nat /\ QueueFailed(os, spent)
               => spent = 0 /\ marked' = marked \union os /\ UNCHANGED overlooked
BY DEF HTypeOK, Failure, QueueAfterFailure, QueueFailed

(* What every step of the consumer leaves alone.                           *)
LEMMA HandFacts ==
  ASSUME HInv, HandleAccount
  PROVE  /\ UNCHANGED <<account, lists, above, shown, drain>>
         /\ feed # <<>> /\ drain = Draining /\ HTyped
         /\ sent \in Seq(SUBSET Updates) /\ Now \in [org : Orgs, kind : Changes]
         /\ work \in WorkType /\ (work.stage # "idle" => work.org = Now.org)
<1>1. UNCHANGED <<account, lists, above, shown, drain>>
  BY DEF HandleAccount, SkipAccount, TakeAccount, AccountsUnread, ReadAccounts, ReadLinks,
         ChildrenUnread, ReadChildren, PublishOrg, RefreshParents, DeleteAccount, Ready, At, model
<1> QED BY <1>1, InHandFacts, InHand DEF HInv, HTyped, Working

(* Nothing is sent.                                                        *)
LEMMA SentSame ==
  ASSUME UNCHANGED <<lists, above, shown, sent>>
  PROVE  \A c, h, x : /\ Missing(c, h)' <=> Missing(c, h)
                      /\ Differs(c, x)' <=> Differs(c, x)
                      /\ Hidden(h)' <=> Hidden(h)
BY AsSent DEF Missing, Differs, Hidden

(* Taking an event leaves it to be read for.                               *)
LEMMA TakeExact == ASSUME HInv, Exact, TakeAccount PROVE Exact'
<1>1. /\ UNCHANGED <<account, lists, above, shown, drain, feed, sent, marked, overlooked>>
      /\ feed # <<>> /\ drain = Draining /\ HTyped /\ Now.kind \in Read /\ work = Idling
      /\ Now \in [org : Orgs, kind : Changes]
  BY HandFacts DEF HandleAccount, TakeAccount, Ready, At, Read, HInv, HTyped, Working
<1>2. /\ work'.stage = "accounts" /\ work'.read = FALSE /\ work'.complete = TRUE
  BY DEF TakeAccount, Idling
<1>3. Unqueued' /\ ReadNow' /\ KnownNow'
  BY <1>1, <1>2 DEF Exact, Unqueued, ReadNow, KnownNow
<1>4. Undone' /\ \A o, kinds : Later(o, kinds) => Awaits(o, kinds)'
  BY <1>1, LaterSame DEF Exact
<1>5. \A c, h, x : /\ Missing(c, h)' <=> Missing(c, h)
                   /\ Differs(c, x)' <=> Differs(c, x)
                   /\ Hidden(h)' <=> Hidden(h)
  BY <1>1, SentSame
<1>6. \A o : o = Now.org => Awaits(o, Read)' /\ (Now.kind \in Relinks => Awaits(o, Relinks)')
  BY <1>1, <1>2 DEF Awaits, Now
<1>7. ASSUME NEW c \in Children, c = Now.org, account[c].parent = NoOrg, c \notin overlooked'
      PROVE  Awaits(c, Relinks)' \/ ~Differs(c, {})'
  <2>1. Awaits(c, Relinks) \/ ~Differs(c, {})
    BY <1>1, <1>7 DEF Exact, Parentless, Unlinks, Idling
  <2> QED BY <1>4, <1>5, <1>6, <1>7, <2>1 DEF Awaits
<1>8. Joined' /\ Parentless' /\ Flagged'
  BY <1>1, <1>4, <1>5, <1>6, <1>7, StepExact DEF Exact
<1> QED BY <1>3, <1>4, <1>8 DEF Exact

(* An Account that qualifies will be published; of one that does not, only *)
(* the document is withdrawn.                                              *)
LEMMA ReadAccountsExact == ASSUME HInv, Exact, ReadAccounts PROVE Exact'
<1> DEFINE o == work.org
           g == IF Eligible(o) THEN {} ELSE RemoveFromIndex(o)
<1>1. /\ UNCHANGED <<account, lists, above, shown, drain, feed, marked>>
      /\ feed # <<>> /\ drain = Draining /\ HTyped /\ work.stage = "accounts" /\ work.org = Now.org
      /\ Now \in [org : Orgs, kind : Changes] /\ work \in WorkType /\ Now.kind # "delete"
  BY HandFacts DEF HandleAccount, ReadAccounts, At, HTyped, Working
<1>2. /\ sent' = sent \o Group(g)
      /\ overlooked' = IF Eligible(o) THEN overlooked ELSE overlooked \union ({o} \intersect Children)
      /\ work' = [work EXCEPT !.found = Eligible(o),
                       !.parent = IF Eligible(o) THEN account[o].parent ELSE NoOrg,
                       !.known = work.old # NoOrg /\ Eligible(work.old),
                       !.stage = IF Eligible(o) /\ ~Recheck THEN "links" ELSE "children"]
  BY DEF ReadAccounts
<1>3. /\ work'.org = o /\ work'.read = work.read /\ work'.complete = work.complete /\ work'.old = work.old
      /\ work'.found = Eligible(o) /\ (Eligible(o) => work'.parent = account[o].parent)
      /\ work'.known = (work.old # NoOrg /\ Eligible(work.old))
      /\ work'.stage = IF Eligible(o) /\ ~Recheck THEN "links" ELSE "children"
  BY <1>1, <1>2 DEF WorkType
<1>4. g \in SUBSET Updates /\ \A m \in g : m.rel = "remove" /\ m.of = o /\ ~Eligible(o)
  BY MessageShapes DEF RemoveFromIndex
<1>5. \A c, h, x : /\ Missing(c, h)' => Missing(c, h)
                   /\ Differs(c, x)' => Differs(c, x)
                   /\ Eligible(h) /\ Hidden(h)' => Hidden(h)
  <2>1. \A c, h, x : /\ g \intersect Without(c, h) = {} /\ g \intersect AboveElse(c, x) = {}
                     /\ Eligible(h) => g \intersect AsLeaf(h) = {}
    BY <1>4 DEF Without, AboveElse, AsLeaf
  <2> HIDE DEF g
  <2> QED BY <1>1, <1>2, <1>4, <2>1, SentWrong
<1> HIDE DEF g
<1>6. Unqueued' /\ ReadNow' /\ KnownNow'
  <2>1. ~work.read /\ marked = {} /\ work.complete
    BY <1>1 DEF Exact, Unqueued, ReadNow
  <2>2. work'.stage \in {"links", "children"} /\ ~work'.read /\ work'.complete
    BY <1>3, <2>1
  <2>3. KnownNow'
    BY <1>1, <1>3, HierarchyAssumption DEF KnownNow, Orgs, Told, Eligible
  <2> QED BY <1>1, <2>1, <2>2, <2>3 DEF Unqueued, ReadNow
<1>7. Undone' /\ \A x, kinds : Later(x, kinds) => Awaits(x, kinds)'
  BY <1>1, LaterSame DEF Exact
<1>8. ASSUME NEW p \in Heads, NEW c \in Children, c = Now.org, c \in Kids(p)
      PROVE  Publishes(c)' /\ Shows(c, p)'
  <2>1. Eligible(o) /\ account[o].parent = p /\ c = o
    BY <1>1, <1>8 DEF Kids, Told, ChildrenOf, Eligible
  <2> QED BY <1>3, <2>1 DEF Publishes, Shows
<1>9. ASSUME NEW c \in Children, c = Now.org, account[c].parent = NoOrg, c \notin overlooked'
      PROVE  Awaits(c, Relinks)' \/ Unlinks(c)' \/ ~Differs(c, {})'
  <2>1. Eligible(o)
    BY <1>1, <1>2, <1>9
  <2>2. CASE Recheck
    <3>1. Later(c, Relinks) \/ ~Differs(c, {})
      BY <1>1, <1>2, <1>9, <2>1, <2>2 DEF Exact, Parentless, Unlinks, Awaits, Recheck, Relinks
    <3> QED BY <1>5, <1>7, <3>1
  <2>3. CASE ~Recheck
    BY <1>1, <1>3, <1>9, <2>1, <2>3 DEF Unlinks
  <2> QED BY <2>2, <2>3
<1>10. ASSUME NEW h \in Heads, h = Now.org, Told(h) PROVE Publishes(h)'
  BY <1>1, <1>3, <1>10 DEF Publishes, Told
<1>11. \A c \in Children : c # Now.org => (c \in overlooked => c \in overlooked')
  BY <1>2
<1>13. \A h : Told(h) => Eligible(h)
  BY DEF Told
<1>12. Joined' /\ Parentless' /\ Flagged'
  BY <1>1, <1>5, <1>7, <1>8, <1>9, <1>10, <1>11, <1>13, StepExact DEF Exact
<1> QED BY <1>6, <1>7, <1>12 DEF Exact

(* Without a list and a tuple, or one on its way, there is none to remove. *)
LEMMA NotAbove ==
  ASSUME HTyped, NEW c \in Children, ~StillAbove(c)
  PROVE  ~Differs(c, {})
<1>1. above[c] = {}
  BY DEF StillAbove
<1>2. ASSUME NEW i \in 1 .. Len(sent), sent[i] \intersect AboveElse(c, {}) # {} PROVE FALSE
  <2>1. PICK m \in sent[i] : m \in Updates /\ m.rel \in {"parent", "purge"} /\ m.of = c /\ m.to # {}
    BY <1>2 DEF AboveElse
  <2>2. m.rel = "parent"
    BY <2>1 DEF Updates
  <2>3. m \in Pending
    <3>1. DOMAIN sent = 1 .. Len(sent)
      BY DEF HTyped, HTypeOK
    <3> QED BY <2>1, <3>1 DEF Pending
  <2> QED BY <2>1, <2>2, <2>3 DEF StillAbove
<1> QED BY <1>1, <1>2 DEF Differs, EndsWrong

(* Reading the links finds the parent tuple by the list, or by itself.     *)
LEMMA ReadLinksExact == ASSUME HInv, Exact, ReadLinks, failures' = 0 PROVE Exact'
<1> DEFINE o == work.org
<1>1. /\ UNCHANGED <<account, lists, above, shown, drain, feed, sent>>
      /\ feed # <<>> /\ drain = Draining /\ HTyped /\ work.stage = "links" /\ work.org = Now.org
      /\ Now \in [org : Orgs, kind : Changes] /\ work \in WorkType /\ work.found
  BY HandFacts DEF HandleAccount, ReadLinks, At, HTyped, Working
<1>2. /\ work' = [work EXCEPT !.stage = "children", !.stale = Listing(o) \ {work.parent}]
      /\ Checked(o, /\ o \in Children
                    /\ \/ Unseen(o, work.parent)
                       \/ work.parent = NoOrg /\ Listing(o) = {} /\ StillAbove(o))
      /\ UNCHANGED marked
  <2>1. ~QueueAfterFailure({o})
    BY <1>1, Counted DEF HTyped
  <2> QED BY <2>1 DEF ReadLinks
<1>3. /\ work'.org = o /\ work'.read = work.read /\ work'.complete = work.complete /\ work'.old = work.old
      /\ work'.found /\ work'.parent = work.parent /\ work'.known = work.known
      /\ work'.stage = "children" /\ work'.stale = Listing(o) \ {work.parent}
  BY <1>1, <1>2 DEF WorkType
<1>4. Unqueued' /\ ReadNow' /\ KnownNow'
  <2>1. ~work.read /\ marked = {} /\ work.complete
    BY <1>1 DEF Exact, Unqueued, ReadNow
  <2>2. KnownNow'
    BY <1>1, <1>3 DEF Exact, KnownNow, Told, Eligible, Later
  <2> QED BY <1>1, <1>2, <1>3, <2>1, <2>2 DEF Unqueued, ReadNow
<1>5. Undone' /\ \A x, kinds : Later(x, kinds) => Awaits(x, kinds)'
  BY <1>1, LaterSame DEF Exact
<1>6. \A c, h, x : /\ Missing(c, h)' <=> Missing(c, h)
                   /\ Differs(c, x)' <=> Differs(c, x)
                   /\ Hidden(h)' <=> Hidden(h)
  BY <1>1, SentSame
<1>7. \A c \in Children : c = o => account[c].parent = work.parent \/ (Later(c, Read) /\ Later(c, Relinks))
  BY <1>1 DEF HInv, Tracked, ParentFresh, Moved, Later, Read, Relinks
<1>8. \A c : c = Now.org => Publishes(c)'
  BY <1>1, <1>3 DEF Publishes
<1>9. ASSUME NEW c \in Children, c = Now.org, account[c].parent = NoOrg, c \notin overlooked'
      PROVE  Awaits(c, Relinks)' \/ Unlinks(c)' \/ ~Differs(c, {})'
  <2>1. CASE work.parent = NoOrg
    <3>1. ~(Listing(o) = {} /\ StillAbove(o))
      BY <1>1, <1>2, <1>9, <2>1 DEF Checked
    <3>2. CASE Listing(o) # {}
      <4>1. NoOrg \notin Listing(o)
        BY HierarchyAssumption DEF Listing, Orgs
      <4>2. work'.stale # {}
        BY <1>3, <2>1, <3>2, <4>1
      <4> QED BY <1>1, <1>3, <1>9, <4>2 DEF Unlinks
    <3>3. CASE ~StillAbove(o)
      BY <1>1, <1>6, <1>9, <3>3, NotAbove
    <3> QED BY <3>1, <3>2, <3>3
  <2>2. CASE work.parent # NoOrg
    BY <1>1, <1>5, <1>7, <1>9, <2>2
  <2> QED BY <2>1, <2>2
<1>10. ASSUME NEW h \in Heads, NEW c \in Children, c = Now.org, c \in Kids(h)
       PROVE  Awaits(c, Read)' \/ Shows(c, h)'
  <2>1. account[c].parent = h
    BY <1>10 DEF Kids, Told, ChildrenOf, Eligible
  <2>2. CASE work.parent = h
    BY <1>1, <1>3, <1>10, <2>2 DEF Shows
  <2>3. CASE work.parent # h
    BY <1>1, <1>5, <1>7, <1>10, <2>1, <2>3
  <2> QED BY <2>2, <2>3
<1>11. \A c \in Children : c # Now.org => (c \in overlooked => c \in overlooked')
  BY <1>1, <1>2 DEF Checked
<1>12. Joined' /\ Parentless' /\ Flagged'
  BY <1>1, <1>5, <1>6, <1>8, <1>9, <1>10, <1>11, StepExact DEF Exact
<1> QED BY <1>4, <1>5, <1>12 DEF Exact

(* The children read are those of now.                                     *)
LEMMA ReadChildrenExact == ASSUME HInv, Exact, ReadChildren PROVE Exact'
<1> DEFINE found == {work.org, work.parent} \union Refreshed \union work.stale
<1>1. /\ UNCHANGED <<account, lists, above, shown, drain, feed, sent, marked, overlooked>>
      /\ feed # <<>> /\ drain = Draining /\ HTyped /\ work.stage = "children" /\ work.org = Now.org
      /\ Now \in [org : Orgs, kind : Changes] /\ work \in WorkType
      /\ work.stale # {} => work.found
  BY HandFacts DEF HandleAccount, ReadChildren, At, HTyped, Working
<1>2. /\ work'.org = work.org /\ work'.read = TRUE /\ work'.complete = work.complete /\ work'.old = work.old
      /\ work'.found = work.found /\ work'.parent = work.parent /\ work'.known = work.known
      /\ work'.stage = (IF work.found THEN "publish" ELSE "refresh") /\ work'.stale = work.stale
      /\ work'.kids = [h \in Heads |-> IF h \in found THEN ChildrenOf(h) ELSE {}]
  BY <1>1 DEF WorkType, ReadChildren
<1>3. Unqueued' /\ ReadNow' /\ KnownNow'
  <2>1. marked = {} /\ work.complete
    BY DEF Exact, Unqueued
  <2>2. KnownNow'
    BY <1>1, <1>2 DEF Exact, KnownNow, Told, Eligible, Later
  <2>3. \A h \in Heads : h \in {work.org, work.parent, work.old} \union work.stale => h \in found
    BY HierarchyAssumption DEF Refreshed, Orgs
  <2> HIDE DEF found
  <2>4. \A h \in Heads, c \in Children :
           h \in {work.org, work.parent, work.old} \union work.stale /\ c \in Kids(h) => c \in work'.kids[h]
    BY <1>2, <2>3, KidsListed
  <2>5. \A h : Kids(h)' = Kids(h)
    BY <1>1 DEF Kids, Told, ChildrenOf, Eligible
  <2> QED BY <1>1, <1>2, <2>1, <2>2, <2>4, <2>5 DEF Unqueued, ReadNow
<1>4. Undone' /\ \A x, kinds : Later(x, kinds) => Awaits(x, kinds)'
  BY <1>1, LaterSame DEF Exact
<1>5. \A c, h, x : /\ Missing(c, h)' <=> Missing(c, h)
                   /\ Differs(c, x)' <=> Differs(c, x)
                   /\ Hidden(h)' <=> Hidden(h)
  BY <1>1, SentSame
<1>6. /\ \A c : Publishes(c) => Publishes(c)'
      /\ \A c : Unlinks(c) => Unlinks(c)'
      /\ \A c, h : Shows(c, h) => Shows(c, h)'
  BY <1>1, <1>2 DEF Publishes, Unlinks, Shows
<1>7. \A x, kinds : Awaits(x, kinds) => Later(x, kinds)
  BY <1>1 DEF Awaits
<1>8. ASSUME NEW p \in Heads, NEW c \in Children, c \in Kids(p)
      PROVE  Awaits(c, Read)' \/ Publishes(c)' \/ (~Missing(c, p)' /\ ~Differs(c, {p})')
  BY <1>4, <1>5, <1>6, <1>7, <1>8 DEF Exact, Joined
<1>9. ASSUME NEW c \in Children, account[c].parent = NoOrg, c \notin overlooked'
      PROVE  Awaits(c, Relinks)' \/ Unlinks(c)' \/ ~Differs(c, {})'
  BY <1>1, <1>4, <1>5, <1>6, <1>7, <1>9 DEF Exact, Parentless
<1>10. ASSUME NEW h \in Heads, NEW c \in Children, Told(h), c \in Kids(h)
       PROVE  Awaits(c, Read)' \/ Awaits(h, Read)' \/ Publishes(h)' \/ Shows(c, h)' \/ ~Hidden(h)'
  BY <1>4, <1>5, <1>6, <1>7, <1>10 DEF Exact, Flagged
<1>11. Joined' /\ Parentless' /\ Flagged'
  BY <1>1, <1>4, <1>5, <1>8, <1>9, <1>10, StepExact DEF Exact
<1> QED BY <1>3, <1>4, <1>11 DEF Exact

----------------------------------------------------------------------------
(* A later move is a later event.                                          *)
LEMMA MovedLater == \A c : Moved(c) => Later(c, Read) /\ Later(c, Relinks)
BY DEF Moved, Later, Read, Relinks

(* Publishing without a failure sends every message.                       *)
LEMMA PublishWhole ==
  ASSUME HInv, Exact, PublishOrg, failures' = 0
  PROVE  /\ sent' = sent \o Group(Indexing) \o Group(Moving) \o Group(Joining) \o Group(Leaving)
         /\ UNCHANGED <<marked, overlooked, feed>>
         /\ work' = [work EXCEPT !.stage = "refresh", !.complete = TRUE]
<1> DEFINE all == Indexing \union Moving \union Joining \union Leaving
           Retry(lost) == \/ Leaving \intersect lost # {}
                          \/ work.stale # {} /\ ~work.read
           Whole(lost) == Restore => work.read /\ Joining \intersect lost = {}
<1>1. PICK lost \in {{}} \union {{m} : m \in all} :
         /\ sent' = sent \o Group(Indexing \ lost) \o Group(Moving \ lost)
                         \o Group(Joining \ lost) \o Group(Leaving \ lost)
         /\ QueueFailed(IF Retry(lost) THEN {work.org} ELSE {}, Cardinality(lost))
         /\ IF work.read
              THEN work' = [work EXCEPT !.stage = "refresh", !.complete = Whole(lost)] /\ UNCHANGED feed
              ELSE Done(Whole(lost))
  BY DEF PublishOrg, Indexing, Moving, Joining, Leaving
<1>2. HTypeOK /\ work.read
  BY DEF HInv, HTyped, Exact, Unqueued, PublishOrg, At
<1>3. lost = {}
  <2>1. Cardinality(lost) \in Nat
    BY OneOrNone
  <2>2. Cardinality(lost) = 0
    BY <1>1, <1>2, <2>1, Counted
  <2> QED BY <2>2, OneOrNone
<1>4. ~Retry(lost) /\ Whole(lost) = TRUE
  BY <1>2, <1>3
<1> HIDE DEF Retry, Whole
<1>5. QueueFailed({}, 0)
  <2>1. Cardinality({}) = 0
    BY FS_EmptySet
  <2> QED BY <1>1, <1>3, <1>4, <2>1
<1>6. UNCHANGED <<marked, overlooked>>
  BY <1>2, <1>5, Counted
<1>7. \A g : g \ lost = g
  BY <1>3
<1> QED BY <1>1, <1>2, <1>4, <1>6, <1>7

(* What publishing makes known of the Accounts in their places, it knows   *)
(* from reads that are as it is now, or an event comes of the Account.     *)
LEMMA GroupsKeep ==
  ASSUME HInv, Exact, work.stage = "publish"
  PROVE  /\ \A c \in Children, h \in Heads : c \in Kids(h) /\ ~Later(c, Read) =>
               \A m \in Indexing \union Moving \union Joining \union Leaving :
                  m \notin Without(c, h) /\ m \notin AboveElse(c, {h}) /\ m \notin AsLeaf(h)
         /\ \A c \in Children : account[c].parent = NoOrg /\ ~Later(c, Relinks) =>
               \A m \in Indexing \union Moving \union Joining \union Leaving : m \notin AboveElse(c, {})
         /\ \A h \in Heads : h # work.org =>
               \A m \in Indexing \union Moving \union Joining \union Leaving : m \notin AsLeaf(h)
<1>1. /\ work.found /\ work.read
      /\ work.org \in Children => account[work.org].parent = work.parent
                                    \/ (Later(work.org, Read) /\ Later(work.org, Relinks))
      /\ \A h \in Heads, c \in Children :
            h \in {work.org, work.parent, work.old} \union work.stale /\ c \in Kids(h) /\ ~Later(c, Read)
               => c \in work.kids[h]
  BY MovedLater DEF HInv, HTyped, Working, Tracked, ParentFresh, Exact, Unqueued, ReadNow
<1>2. \A m \in Indexing : work.org \notin Children /\ m = IndexOf(work.org, work.kids[work.org])
  BY DEF Indexing
<1>3. \A m \in Moving : /\ work.org \in Children /\ work.old # work.parent
                        /\ \/ m = ParentOf(work.org, work.parent)
                           \/ m = ChildList(work.old, ChildrenOf(work.old) \ {work.org})
                           \/ m = ChildList(work.parent, ChildrenOf(work.parent) \union {work.org})
  BY DEF Moving, Reparenting
<1>4. \A m \in Joining : /\ work.org \in Children /\ work.parent # NoOrg
                         /\ m = ParentOf(work.org, work.parent) \/ m = ChildList(work.parent, work.kids[work.parent])
  BY DEF Joining, Linking
<1>5. \A m \in Leaving : /\ work.org \in Children
                         /\ \/ m = ParentOf(work.org, NoOrg) /\ work.parent = NoOrg
                            \/ \E h \in work.stale : m = ChildList(h, work.kids[h])
  BY DEF Leaving, Withdrawal
<1>6. ASSUME NEW c \in Children, NEW h \in Heads, c \in Kids(h), ~Later(c, Read),
             NEW m \in Indexing \union Moving \union Joining \union Leaving
      PROVE  m \notin Without(c, h) /\ m \notin AboveElse(c, {h}) /\ m \notin AsLeaf(h)
  <2>1. account[c].parent = h /\ h # NoOrg /\ c \notin Heads /\ h \notin Children
    BY <1>6, HierarchyAssumption DEF Kids, Told, ChildrenOf, Eligible, Orgs
  <2>2. c = work.org => work.parent = h
    BY <1>1, <1>6, <2>1
  <2>3. h \in {work.org, work.parent, work.old} \union work.stale => c \in work.kids[h]
    BY <1>1, <1>6
  <2>4. CASE m \in Indexing
    BY <1>2, <2>3, <2>4 DEF IndexOf, Without, AboveElse, AsLeaf
  <2>5. CASE m \in Moving
    <3>1. CASE m = ParentOf(work.org, work.parent)
      BY <2>1, <2>2, <3>1 DEF ParentOf, Without, AboveElse, AsLeaf
    <3>2. CASE m = ChildList(work.old, ChildrenOf(work.old) \ {work.org})
      BY <1>3, <1>6, <2>2, <2>5, <3>2, KidsListed DEF ChildList, Without, AboveElse, AsLeaf
    <3>3. CASE m = ChildList(work.parent, ChildrenOf(work.parent) \union {work.org})
      BY <1>6, <3>3, KidsListed DEF ChildList, Without, AboveElse, AsLeaf
    <3> QED BY <1>3, <2>5, <3>1, <3>2, <3>3
  <2>6. CASE m \in Joining
    BY <1>4, <2>1, <2>2, <2>3, <2>6 DEF ParentOf, ChildList, Without, AboveElse, AsLeaf
  <2>7. CASE m \in Leaving
    BY <1>5, <2>1, <2>2, <2>3, <2>7 DEF ParentOf, ChildList, Without, AboveElse, AsLeaf
  <2> QED BY <2>4, <2>5, <2>6, <2>7
<1>7. ASSUME NEW c \in Children, account[c].parent = NoOrg, ~Later(c, Relinks),
             NEW m \in Indexing \union Moving \union Joining \union Leaving
      PROVE  m \notin AboveElse(c, {})
  <2>1. c = work.org => work.parent = NoOrg
    BY <1>1, <1>7
  <2> QED BY <1>2, <1>3, <1>4, <1>5, <2>1 DEF IndexOf, ParentOf, ChildList, AboveElse
<1>8. ASSUME NEW h \in Heads, h # work.org, NEW m \in Indexing \union Moving \union Joining \union Leaving
      PROVE  m \notin AsLeaf(h)
  BY <1>2, <1>3, <1>4, <1>5, <1>8 DEF IndexOf, ParentOf, ChildList, AsLeaf
<1> QED BY <1>6, <1>7, <1>8

(* What publishing an Account puts in place.                               *)
LEMMA GroupsSet ==
  ASSUME HInv, Exact, work.stage = "publish"
  PROVE  /\ \A p \in Heads, c \in Children : c = work.org /\ c \in Kids(p) /\ ~Later(c, Read) =>
               /\ Joining \intersect With(c, p) # {} /\ Joining \intersect AboveOnly(c, {p}) # {}
               /\ work.parent = p
         /\ \A c \in Children : c = work.org /\ account[c].parent = NoOrg /\ ~Later(c, Relinks) /\ work.stale # {} =>
               Leaving \intersect AboveOnly(c, {}) # {}
         /\ \A h \in Heads, c \in Children : h = work.org /\ c \in Kids(h) /\ ~Later(c, Read) =>
               Indexing \intersect AsParent(h) # {}
<1>1. /\ work.found /\ work.read
      /\ work.org \in Children => account[work.org].parent = work.parent
                                    \/ (Later(work.org, Read) /\ Later(work.org, Relinks))
      /\ \A h \in Heads, c \in Children :
            h \in {work.org, work.parent, work.old} \union work.stale /\ c \in Kids(h) /\ ~Later(c, Read)
               => c \in work.kids[h]
      /\ work.kids \in [Heads -> SUBSET Children] /\ NoOrg \notin Heads /\ NoOrg \in Parents
  BY MovedLater, FieldShapes, HierarchyAssumption DEF HInv, HTyped, Working, Tracked, ParentFresh, Exact,
     Unqueued, ReadNow, Orgs, Parents
<1>2. ASSUME NEW p \in Heads, NEW c \in Children, c = work.org, c \in Kids(p), ~Later(c, Read)
      PROVE  /\ Joining \intersect With(c, p) # {} /\ Joining \intersect AboveOnly(c, {p}) # {}
             /\ work.parent = p
  <2>1. work.parent = p /\ p # NoOrg /\ p \in Parents
    BY <1>1, <1>2 DEF Kids, Told, ChildrenOf, Eligible, Parents
  <2>2. c \in work.kids[p]
    BY <1>1, <1>2, <2>1
  <2>3. ChildList(p, work.kids[p]) \in Joining /\ ParentOf(c, p) \in Joining
    BY <1>1, <1>2, <2>1, <2>2 DEF Joining, Linking
  <2>4. ChildList(p, work.kids[p]) \in Updates /\ ParentOf(c, p) \in Updates
    BY <1>1, <2>1, MessageShapes
  <2>5. ChildList(p, work.kids[p]) \in With(c, p) /\ ParentOf(c, p) \in AboveOnly(c, {p})
    BY <2>1, <2>2, <2>4 DEF With, AboveOnly, ChildList, ParentOf
  <2> QED BY <2>1, <2>3, <2>5
<1>3. ASSUME NEW c \in Children, c = work.org, account[c].parent = NoOrg, ~Later(c, Relinks), work.stale # {}
      PROVE  Leaving \intersect AboveOnly(c, {}) # {}
  <2>1. work.parent = NoOrg
    BY <1>1, <1>3
  <2>2. ParentOf(c, NoOrg) \in Leaving
    BY <1>1, <1>3, <2>1 DEF Leaving, Withdrawal
  <2>3. ParentOf(c, NoOrg) \in Updates
    BY <1>1, MessageShapes
  <2>4. ParentOf(c, NoOrg) \in AboveOnly(c, {})
    BY <2>3 DEF AboveOnly, ParentOf
  <2> QED BY <2>2, <2>4
<1>4. ASSUME NEW h \in Heads, NEW c \in Children, h = work.org, c \in Kids(h), ~Later(c, Read)
      PROVE  Indexing \intersect AsParent(h) # {}
  <2>1. c \in work.kids[h] /\ h \notin Children
    BY <1>1, <1>4, HierarchyAssumption
  <2>2. IndexOf(h, work.kids[h]) \in Indexing
    BY <1>4, <2>1 DEF Indexing
  <2>3. IndexOf(h, work.kids[h]) \in AsParent(h)
    BY <1>1, <2>1, MessageShapes DEF AsParent, IndexOf
  <2> QED BY <2>2, <2>3
<1> QED BY <1>2, <1>3, <1>4

(* Of what publishing leaves wrong, it sent nothing that puts it right.    *)
LEMMA PublishLeaves ==
  ASSUME HInv, Exact, PublishOrg, failures' = 0
  PROVE  /\ \A p \in Heads, c \in Children : c \in Kids(p) /\ ~Later(c, Read) =>
               /\ Missing(c, p)' => Missing(c, p) /\ Joining \intersect With(c, p) = {}
               /\ Differs(c, {p})' => Differs(c, {p}) /\ Joining \intersect AboveOnly(c, {p}) = {}
         /\ \A c \in Children : account[c].parent = NoOrg /\ ~Later(c, Relinks) =>
               (Differs(c, {})' => Differs(c, {}) /\ Leaving \intersect AboveOnly(c, {}) = {})
         /\ \A h \in Heads, c \in Children : c \in Kids(h) /\ (~Later(c, Read) \/ h # work.org) =>
               (Hidden(h)' => Hidden(h) /\ Indexing \intersect AsParent(h) = {})
<1>1. /\ sent \in Seq(SUBSET Updates) /\ UNCHANGED <<lists, above, shown>> /\ work.stage = "publish"
      /\ sent' = sent \o Group(Indexing) \o Group(Moving) \o Group(Joining) \o Group(Leaving)
  BY HandFacts, PublishWhole DEF HandleAccount, PublishOrg, At
<1>2. /\ Indexing \in SUBSET Updates /\ Moving \in SUBSET Updates
      /\ Joining \in SUBSET Updates /\ Leaving \in SUBSET Updates
  BY <1>1, GroupsShape DEF HInv
<1>3. ASSUME NEW now, NEW wrong, NEW right, EndsWrong(sent', now, wrong, right),
             \A m \in Indexing \union Moving \union Joining \union Leaving : m \notin wrong
      PROVE  /\ EndsWrong(sent, now, wrong, right) /\ Indexing \intersect right = {}
             /\ Joining \intersect right = {} /\ Leaving \intersect right = {}
  <2>1. \A q \in Seq(SUBSET Updates), g \in SUBSET Updates : q \o Group(g) \in Seq(SUBSET Updates)
    BY GroupShape
  <2> DEFINE s1 == sent \o Group(Indexing)
             s2 == s1 \o Group(Moving)
             s3 == s2 \o Group(Joining)
  <2>2. s1 \in Seq(SUBSET Updates)
    BY <1>1, <1>2, <2>1
  <2>3. s2 \in Seq(SUBSET Updates)
    BY <1>2, <2>1, <2>2
  <2>4. s3 \in Seq(SUBSET Updates)
    BY <1>2, <2>1, <2>3
  <2>5. EndsWrong(s3 \o Group(Leaving), now, wrong, right)
    BY <1>1, <1>3
  <2> HIDE DEF s3
  <2>6. EndsWrong(s3, now, wrong, right) /\ Leaving \intersect right = {}
    BY <1>2, <1>3, <2>4, <2>5, WrongGroup
  <2>7. EndsWrong(s2 \o Group(Joining), now, wrong, right)
    BY <2>6 DEF s3
  <2> HIDE DEF s2
  <2>8. EndsWrong(s2, now, wrong, right) /\ Joining \intersect right = {}
    BY <1>2, <1>3, <2>3, <2>7, WrongGroup
  <2>9. EndsWrong(s1 \o Group(Moving), now, wrong, right)
    BY <2>8 DEF s2
  <2> HIDE DEF s1
  <2>10. EndsWrong(s1, now, wrong, right)
    BY <1>2, <1>3, <2>2, <2>9, WrongGroup
  <2>11. EndsWrong(sent \o Group(Indexing), now, wrong, right)
    BY <2>10 DEF s1
  <2>12. EndsWrong(sent, now, wrong, right) /\ Indexing \intersect right = {}
    <3>1. sent \in Seq(SUBSET Updates) /\ \A m \in Indexing : m \notin wrong
      BY <1>1, <1>3
    <3> QED BY <1>2, <2>11, <3>1, WrongGroup
  <2> QED BY <2>6, <2>8, <2>12
<1>4. \A c, h, x : /\ Missing(c, h)' <=> EndsWrong(sent', c \notin lists[h], Without(c, h), With(c, h))
                   /\ Differs(c, x)' <=> EndsWrong(sent', above[c] # x, AboveElse(c, x), AboveOnly(c, x))
                   /\ Hidden(h)' <=> EndsWrong(sent', shown[h] # "parent", AsLeaf(h), AsParent(h))
  BY <1>1, AsSent
<1>5. ASSUME NEW p \in Heads, NEW c \in Children, c \in Kids(p), ~Later(c, Read)
      PROVE  /\ Missing(c, p)' => Missing(c, p) /\ Joining \intersect With(c, p) = {}
             /\ Differs(c, {p})' => Differs(c, {p}) /\ Joining \intersect AboveOnly(c, {p}) = {}
  <2>1. \A m \in Indexing \union Moving \union Joining \union Leaving :
           m \notin Without(c, p) /\ m \notin AboveElse(c, {p})
    BY <1>1, <1>5, GroupsKeep
  <2>2. Missing(c, p)' => Missing(c, p) /\ Joining \intersect With(c, p) = {}
    BY <1>3, <1>4, <2>1 DEF Missing
  <2>3. Differs(c, {p})' => Differs(c, {p}) /\ Joining \intersect AboveOnly(c, {p}) = {}
    <3>1. Differs(c, {p})' => EndsWrong(sent', above[c] # {p}, AboveElse(c, {p}), AboveOnly(c, {p}))
      BY <1>4
    <3> QED BY <1>3, <2>1, <3>1 DEF Differs
  <2> QED BY <2>2, <2>3
<1>6. ASSUME NEW c \in Children, account[c].parent = NoOrg, ~Later(c, Relinks)
      PROVE  Differs(c, {})' => Differs(c, {}) /\ Leaving \intersect AboveOnly(c, {}) = {}
  <2>1. \A m \in Indexing \union Moving \union Joining \union Leaving : m \notin AboveElse(c, {})
    BY <1>1, <1>6, GroupsKeep
  <2> QED BY <1>3, <1>4, <2>1 DEF Differs
<1>7. ASSUME NEW h \in Heads, NEW c \in Children, c \in Kids(h), ~Later(c, Read) \/ h # work.org
      PROVE  Hidden(h)' => Hidden(h) /\ Indexing \intersect AsParent(h) = {}
  <2>1. \A m \in Indexing \union Moving \union Joining \union Leaving : m \notin AsLeaf(h)
    BY <1>1, <1>7, GroupsKeep
  <2> QED BY <1>3, <1>4, <2>1 DEF Hidden
<1> QED BY <1>5, <1>6, <1>7

(* Publishing keeps what is exact.                                         *)
LEMMA PublishExact == ASSUME HInv, Exact, PublishOrg, failures' = 0 PROVE Exact'
<1>1. /\ UNCHANGED <<account, lists, above, shown, drain, feed, marked, overlooked>>
      /\ feed # <<>> /\ drain = Draining /\ HTyped /\ work.stage = "publish" /\ work.org = Now.org
      /\ work \in WorkType /\ work.found /\ work.read
      /\ work' = [work EXCEPT !.stage = "refresh", !.complete = TRUE]
  <2>1. HandleAccount /\ work.stage = "publish"
    BY DEF HandleAccount, PublishOrg, At
  <2> QED BY <2>1, HandFacts, PublishWhole DEF HTyped, Working, Exact, Unqueued
<1>2. /\ work'.org = work.org /\ work'.read /\ work'.complete /\ work'.old = work.old
      /\ work'.found /\ work'.parent = work.parent /\ work'.known = work.known
      /\ work'.stage = "refresh" /\ work'.stale = work.stale /\ work'.kids = work.kids
  BY <1>1 DEF WorkType
<1>3. Unqueued' /\ ReadNow' /\ KnownNow'
  <2>1. KnownNow'
    BY <1>1, <1>2 DEF Exact, KnownNow, Told, Eligible, Later
  <2>2. ReadNow'
    BY <1>1, <1>2 DEF Exact, ReadNow, Kids, Told, ChildrenOf, Eligible, Later
  <2> QED BY <1>1, <1>2, <2>1, <2>2 DEF Exact, Unqueued
<1>4. Undone' /\ \A x, kinds : Later(x, kinds) => Awaits(x, kinds)'
  BY <1>1, LaterSame DEF Exact
<1>5. \A x, kinds : Awaits(x, kinds) => Later(x, kinds)
  BY <1>1 DEF Awaits
<1>6. ASSUME NEW p \in Heads, NEW c \in Children, c = Now.org, c \in Kids(p)
      PROVE  Later(c, Read) \/ (~Missing(c, p)' /\ ~Differs(c, {p})')
  BY <1>1, <1>6, GroupsSet, PublishLeaves
<1>7. ASSUME NEW c \in Children, c = Now.org, account[c].parent = NoOrg, c \notin overlooked'
      PROVE  Later(c, Relinks) \/ ~Differs(c, {})'
  <2>1. Later(c, Relinks) \/ Unlinks(c) \/ ~Differs(c, {})
    BY <1>1, <1>5, <1>7 DEF Exact, Parentless
  <2>2. CASE Unlinks(c)
    <3>1. work.stale # {}
      BY <1>1, <2>2 DEF Unlinks
    <3> QED BY <1>1, <1>7, <3>1, GroupsSet, PublishLeaves
  <2>3. CASE ~Unlinks(c)
    BY <1>7, <2>1, <2>3, PublishLeaves
  <2> QED BY <2>2, <2>3
<1>8. ASSUME NEW h \in Heads, NEW c \in Children, h = Now.org \/ c = Now.org, c \in Kids(h)
      PROVE  Later(c, Read) \/ Shows(c, h)' \/ ~Hidden(h)'
  <2> SUFFICES ASSUME ~Later(c, Read) PROVE Shows(c, h)' \/ ~Hidden(h)'
    OBVIOUS
  <2>1. CASE h = Now.org
    BY <1>1, <1>8, <2>1, GroupsSet, PublishLeaves
  <2>2. CASE c = Now.org
    <3>1. work.parent = h
      BY <1>1, <1>8, <2>2, GroupsSet
    <3> QED BY <1>1, <1>2, <2>2, <3>1 DEF Shows
  <2> QED BY <1>8, <2>1, <2>2
<1>9. ASSUME NEW h \in Heads, NEW c \in Children, h # Now.org, c \in Kids(h)
      PROVE  Hidden(h)' => Hidden(h)
  BY <1>1, <1>9, PublishLeaves
<1>10. \A p \in Heads, c \in Children : c # Now.org /\ c \in Kids(p) =>
            /\ Missing(c, p)' => Missing(c, p) \/ Later(c, Read)
            /\ Differs(c, {p})' => Differs(c, {p}) \/ Later(c, Read)
  BY PublishLeaves
<1>11. \A c \in Children : c # Now.org /\ account[c].parent = NoOrg =>
            (Differs(c, {})' => Differs(c, {}) \/ Later(c, Relinks))
  BY PublishLeaves
<1>12. Joined' /\ Parentless' /\ Flagged'
  BY <1>1, <1>4, <1>6, <1>7, <1>8, <1>9, <1>10, <1>11, StepExact DEF Exact
<1> QED BY <1>3, <1>4, <1>12 DEF Exact

(* Nothing of a step's work is left when its event is done.                *)
LEMMA EndExact ==
  ASSUME HInv, Exact, feed # <<>>, Done(TRUE), UNCHANGED <<account, drain, marked>>
  PROVE  /\ Unqueued' /\ ReadNow' /\ KnownNow' /\ Undone'
         /\ \A o, kinds : Later(o, kinds) => Awaits(o, kinds)'
<1>1. work'.stage = "idle" /\ work'.complete = TRUE /\ work'.read = FALSE
  BY DEF Done, Idling
<1>2. Unqueued' /\ ReadNow' /\ KnownNow'
  BY <1>1 DEF Exact, Unqueued, ReadNow, KnownNow, Draining
<1> QED BY <1>2, LaterNext DEF HInv, Exact

(* A parent that qualifies is shown with the children read.                *)
LEMMA RefreshExact == ASSUME HInv, Exact, RefreshParents, failures' = 0 PROVE Exact'
<1> DEFINE hs == (IF work.known THEN {work.old} ELSE {}) \union {h \in Refreshed \ {work.old} : Eligible(h)}
           g == {IndexOf(h, work.kids[h]) : h \in hs}
<1>1. /\ UNCHANGED <<account, lists, above, shown, drain>>
      /\ feed # <<>> /\ drain = Draining /\ HTyped /\ work.stage = "refresh" /\ work.org = Now.org
      /\ work \in WorkType /\ work.read /\ work.complete /\ sent \in Seq(SUBSET Updates)
  <2>1. HandleAccount /\ work.stage = "refresh"
    BY DEF HandleAccount, RefreshParents, At
  <2> QED BY <2>1, HandFacts DEF Exact, Unqueued, ReadNow
<1>2. sent' = sent \o Group(g) /\ UNCHANGED <<marked, overlooked>> /\ Done(TRUE)
  <2>1. ~QueueAfterFailure(Refreshed \ {work.old})
    BY <1>1, Counted DEF HTyped
  <2>2. Done(TRUE)
    <3>1. work.complete = TRUE
      BY <1>1 DEF WorkType
    <3> QED BY <3>1 DEF RefreshParents
  <2> QED BY <2>1, <2>2 DEF RefreshParents
<1>3. hs \in SUBSET Heads /\ hs \subseteq {work.parent, work.old}
  BY <1>1, FieldShapes DEF HTyped, Working, Parents, Refreshed
<1>4. g \in SUBSET Updates
  BY <1>1, <1>3, FieldShapes, MessageShapes
<1>5. \A h \in hs : IndexOf(h, work.kids[h]) \in g
  OBVIOUS
<1>6. \A m \in g : \E h \in hs : m = IndexOf(h, work.kids[h])
  OBVIOUS
<1> HIDE DEF g
<1>7. ASSUME NEW h \in Heads, NEW c \in Children, c \in Kids(h), ~Later(c, Read)
      PROVE  h \in hs => c \in work.kids[h]
  BY <1>1, <1>3, <1>7 DEF Exact, ReadNow
<1>8. ASSUME NEW h \in Heads, NEW c \in Children, c \in Kids(h), ~Later(c, Read)
      PROVE  Hidden(h)' => Hidden(h) /\ h \notin hs
  <2>1. h \in hs => c \in work.kids[h]
    BY <1>7, <1>8
  <2>2. g \intersect AsLeaf(h) = {}
    BY <1>6, <2>1 DEF AsLeaf, IndexOf
  <2>3. h \in hs => g \intersect AsParent(h) # {}
    <3> SUFFICES ASSUME h \in hs PROVE g \intersect AsParent(h) # {}
      OBVIOUS
    <3>1. IndexOf(h, work.kids[h]) \in g /\ IndexOf(h, work.kids[h]) \in Updates
      BY <1>4, <1>5
    <3>2. IndexOf(h, work.kids[h]) \in AsParent(h)
      BY <2>1, <3>1 DEF AsParent, IndexOf
    <3> QED BY <3>1, <3>2
  <2> QED BY <1>1, <1>2, <1>4, <2>2, <2>3, SentWrong
<1>9. \A c, h, x : /\ Missing(c, h)' => Missing(c, h)
                   /\ Differs(c, x)' => Differs(c, x)
  <2>1. \A c, h, x : g \intersect Without(c, h) = {} /\ g \intersect AboveElse(c, x) = {}
    BY <1>6 DEF Without, AboveElse, IndexOf
  <2> QED BY <1>1, <1>2, <1>4, <2>1, SentWrong
<1>10. /\ Unqueued' /\ ReadNow' /\ KnownNow' /\ Undone'
       /\ \A o, kinds : Later(o, kinds) => Awaits(o, kinds)'
  BY <1>1, <1>2, EndExact
<1>11. /\ \A x, kinds : Awaits(x, kinds) => Later(x, kinds)
       /\ \A c : ~Publishes(c) /\ ~Unlinks(c)
  BY <1>1 DEF Awaits, Publishes, Unlinks
<1>12. ASSUME NEW h \in Heads, NEW c \in Children, Told(h), c \in Kids(h), Shows(c, h)
       PROVE  Later(c, Read) \/ Later(h, Read) \/ ~Hidden(h)'
  <2>1. work.parent = h /\ h # NoOrg
    BY <1>12, HierarchyAssumption DEF Shows, Orgs
  <2>2. CASE work.old = h
    <3>1. work.known \/ Later(h, Read)
      BY <1>1, <1>12, <2>2 DEF Exact, KnownNow
    <3>2. work.known => h \in hs
      BY <2>2
    <3> HIDE DEF hs
    <3> QED BY <1>8, <1>12, <3>1, <3>2
  <2>3. CASE work.old # h
    <3>1. h \in hs
      BY <1>12, <2>1, <2>3 DEF Refreshed, Told
    <3> HIDE DEF hs
    <3> QED BY <1>8, <1>12, <3>1
  <2> QED BY <2>2, <2>3
<1> HIDE DEF hs
<1>13. ASSUME NEW h \in Heads, NEW c \in Children, Told(h), c \in Kids(h)
       PROVE  Later(c, Read) \/ Later(h, Read) \/ ~Hidden(h)'
  <2>1. Later(c, Read) \/ Later(h, Read) \/ Shows(c, h) \/ ~Hidden(h)
    BY <1>11, <1>13 DEF Exact, Flagged
  <2> QED BY <1>8, <1>12, <1>13, <2>1
<1>14. \A p \in Heads, c \in Children : c \in Kids(p) =>
          Later(c, Read) \/ (~Missing(c, p)' /\ ~Differs(c, {p})')
  BY <1>9, <1>11 DEF Exact, Joined
<1>15. \A c \in Children : account[c].parent = NoOrg /\ c \notin overlooked =>
          Later(c, Relinks) \/ ~Differs(c, {})'
  BY <1>9, <1>11 DEF Exact, Parentless
<1>16. \A h \in Heads, c \in Children : h # Now.org /\ c # Now.org /\ Told(h) /\ c \in Kids(h) =>
          (Hidden(h)' => Hidden(h) \/ Later(c, Read))
  BY <1>8
<1>17. Joined' /\ Parentless' /\ Flagged'
  BY <1>1, <1>2, <1>9, <1>10, <1>13, <1>14, <1>15, <1>16, StepExact DEF Exact
<1> QED BY <1>10, <1>17 DEF Exact

(* A deleted Account has nothing to show; one that is back is restored.    *)
LEMMA DeleteExact == ASSUME HInv, Exact, DeleteAccount, failures' = 0 PROVE Exact'
<1>1. /\ UNCHANGED <<account, lists, above, shown, drain, marked, overlooked>>
      /\ feed # <<>> /\ drain = Draining /\ HTyped /\ work = Idling /\ work.stage = "idle"
      /\ Now.kind = "delete" /\ sent \in Seq(SUBSET Updates)
  <2>1. HandleAccount /\ work.stage = "idle" /\ Now.kind = "delete" /\ UNCHANGED <<marked, overlooked>>
    BY DEF HandleAccount, DeleteAccount, Ready, At
  <2> QED BY <2>1, HandFacts DEF HTyped, Working
<1>2. Now.org \in Children /\ Now = feed[1] /\ 1 \in 1 .. Len(feed)
  BY <1>1, InHand DEF HTyped, Deletions
<1>3. {PurgeOf(Now.org)} \in SUBSET Updates
  BY <1>2, MessageShapes
<1>4. sent' = sent \o Group({PurgeOf(Now.org)})
  <2>1. sent' = Append(sent, {PurgeOf(Now.org)})
    BY DEF DeleteAccount
  <2> QED BY <1>1, <1>3, <2>1, GroupShape
<1>5. /\ \A c, h : Missing(c, h)' => Missing(c, h)
      /\ \A h : Hidden(h)' => Hidden(h)
      /\ \A c, x : c # Now.org \/ x = {} => (Differs(c, x)' => Differs(c, x))
  <2>1. /\ \A c, h : {PurgeOf(Now.org)} \intersect Without(c, h) = {}
        /\ \A h : {PurgeOf(Now.org)} \intersect AsLeaf(h) = {}
        /\ \A c, x : c # Now.org \/ x = {} => {PurgeOf(Now.org)} \intersect AboveElse(c, x) = {}
    BY DEF PurgeOf, Without, AsLeaf, AboveElse
  <2> QED BY <1>1, <1>3, <1>4, <2>1, SentWrong
<1>6. \A c, p : c = Now.org /\ c \in Kids(p) => Later(c, Read)
  <2> SUFFICES ASSUME NEW p, Now.org \in Kids(p) PROVE Later(Now.org, Read)
    OBVIOUS
  <2>1. account[Now.org].state # "deleted"
    BY DEF Kids, Told, ChildrenOf, Eligible
  <2>2. PICK j \in 2 .. Len(feed) : feed[j].org = Now.org /\ feed[j].kind = "restore"
    BY <1>1, <1>2, <2>1 DEF Exact, Undone
  <2> QED BY <2>2 DEF Later, Read
<1>7. /\ Unqueued' /\ ReadNow' /\ KnownNow' /\ Undone'
      /\ \A o, kinds : Later(o, kinds) => Awaits(o, kinds)'
  <2>1. CASE Done(TRUE)
    BY <1>1, <2>1, EndExact
  <2>2. CASE UNCHANGED feed /\ \E p : work' = [Idling EXCEPT !.stage = "children", !.org = Now.org, !.parent = p]
    <3>1. work'.stage = "children" /\ work'.complete = TRUE /\ work'.read = FALSE /\ work'.old = NoOrg
      BY <2>2 DEF Idling
    <3>2. Unqueued' /\ ReadNow' /\ KnownNow'
      BY <1>1, <3>1, HierarchyAssumption DEF Exact, Unqueued, ReadNow, KnownNow, Draining, Orgs
    <3> QED BY <1>1, <2>2, <3>2, LaterSame DEF Exact
  <2> QED BY <2>1, <2>2 DEF DeleteAccount
<1>8. ASSUME NEW c \in Children, c = Now.org, account[c].parent = NoOrg, c \notin overlooked'
      PROVE  Later(c, Relinks) \/ ~Differs(c, {})'
  <2>1. Later(c, Relinks) \/ ~Differs(c, {})
    BY <1>1, <1>8 DEF Exact, Parentless, Unlinks, Awaits, Relinks
  <2> QED BY <1>5, <2>1
<1>9. Now.org \notin Heads
  BY <1>2, HierarchyAssumption
<1>10. Joined' /\ Parentless' /\ Flagged'
  BY <1>1, <1>5, <1>6, <1>7, <1>8, <1>9, StepExact DEF Exact
<1> QED BY <1>7, <1>10 DEF Exact

(* Every step of the consumer that does not fail keeps what is exact.      *)
LEMMA HandleExact == ASSUME HInv, Exact, HandleAccount, failures' = 0 PROVE Exact'
<1>1. ~Failure /\ \A os : ~QueueAfterFailure(os)
  BY Counted DEF HInv, HTyped
<1>2. ~SkipAccount /\ ~AccountsUnread /\ ~ChildrenUnread
  BY <1>1 DEF SkipAccount, AccountsUnread, ChildrenUnread
<1> QED BY <1>2, TakeExact, ReadAccountsExact, ReadLinksExact, ReadChildrenExact, PublishExact, RefreshExact,
           DeleteExact DEF HandleAccount

----------------------------------------------------------------------------
(* What has failed has failed.                                             *)
LEMMA StillFailed == ASSUME HTypeOK, [HNext]_hvars, failures' = 0 PROVE failures = 0
<1>1. ~Failure /\ \A os : ~QueueAfterFailure(os)
  BY Counted
<1>2. CASE UNCHANGED hvars
  BY <1>2 DEF hvars
<1>3. CASE Upstream
  BY <1>3 DEF Upstream, Move, Qualify, Disqualify, Remove, Undelete, Alter
<1>4. CASE Process
  BY <1>4 DEF Process
<1>5. CASE Reindex
  BY <1>1, <1>5 DEF Reindex, DrainSelect, DrainLinks, DrainPublish, NoFailure
<1>6. CASE HandleAccount
  <2>1. CASE PublishOrg
    <3> DEFINE all == Indexing \union Moving \union Joining \union Leaving
               Retry(lost) == \/ Leaving \intersect lost # {}
                              \/ work.stale # {} /\ ~work.read
    <3>1. PICK lost \in {{}} \union {{m} : m \in all} :
             /\ failures + Cardinality(lost) <= MaxFailures
             /\ QueueFailed(IF Retry(lost) THEN {work.org} ELSE {}, Cardinality(lost))
      BY <2>1 DEF PublishOrg, Indexing, Moving, Joining, Leaving
    <3>2. Cardinality(lost) \in Nat
      BY OneOrNone
    <3>3. Cardinality(lost) = 0
      BY <3>1, <3>2, Counted
    <3> QED BY <3>1, <3>3 DEF QueueFailed, HTypeOK
  <2>2. CASE ~PublishOrg
    BY <1>1, <1>6, <2>2 DEF HandleAccount, SkipAccount, TakeAccount, AccountsUnread, ReadAccounts, ReadLinks,
         ChildrenUnread, ReadChildren, RefreshParents, DeleteAccount, NoFailure
  <2> QED BY <2>1, <2>2
<1> QED BY <1>2, <1>3, <1>4, <1>5, <1>6 DEF HNext

(* A full reindex leaves everything exact.                                 *)
LEMMA InitExact == ASSUME HInit PROVE Exact
<1>1. Len(sent) = 0 /\ Len(feed) = 0 /\ feed = <<>> /\ work = Idling /\ drain = Draining /\ marked = {}
  BY DEF HInit
<1>2. Unqueued /\ ReadNow /\ KnownNow /\ Undone
  BY <1>1 DEF Unqueued, ReadNow, KnownNow, Undone, Idling
<1>3. \A c, h, x : /\ Missing(c, h) <=> c \notin lists[h]
                   /\ Differs(c, x) <=> above[c] # x
                   /\ Hidden(h) <=> shown[h] # "parent"
  BY <1>1, WrongCalm DEF Missing, Differs, Hidden
<1>4. /\ \A h \in Heads : lists[h] = ChildrenOf(h)
      /\ \A c \in Children : above[c] = IF Eligible(c) THEN {account[c].parent} \ {NoOrg} ELSE {}
      /\ \A h \in Heads : Told(h) /\ Kids(h) # {} => shown[h] = "parent"
  BY DEF HInit, Told, Kids, ChildrenOf
<1>5. Joined
  BY <1>3, <1>4, HierarchyAssumption DEF Joined, Kids, Told, ChildrenOf, Eligible, Orgs
<1>6. Parentless
  BY <1>3, <1>4 DEF Parentless
<1>7. Flagged
  BY <1>3, <1>4 DEF Flagged
<1> QED BY <1>2, <1>5, <1>6, <1>7 DEF Exact

(* As long as nothing fails, what comes of the messages is exact.          *)
LEMMA NextExact ==
  ASSUME HInv, failures = 0 => Exact, [HNext]_hvars
  PROVE  failures' = 0 => Exact'
<1> SUFFICES ASSUME failures' = 0 PROVE Exact'
  OBVIOUS
<1>1. Exact
  BY StillFailed DEF HInv, HTyped
<1>2. CASE UNCHANGED hvars
  <2>1. UNCHANGED <<account, feed, lists, above, shown, sent, marked, overlooked, work, drain>>
    BY <1>2 DEF hvars
  <2>2. \A c, h, x : /\ Missing(c, h)' <=> Missing(c, h)
                     /\ Differs(c, x)' <=> Differs(c, x)
                     /\ Hidden(h)' <=> Hidden(h)
    BY <2>1, SentSame
  <2>3. /\ \A o, kinds : (Later(o, kinds)' <=> Later(o, kinds)) /\ (Awaits(o, kinds)' <=> Awaits(o, kinds))
        /\ \A o, h : /\ Publishes(o)' <=> Publishes(o)
                     /\ Unlinks(o)' <=> Unlinks(o)
                     /\ Shows(o, h)' <=> Shows(o, h)
        /\ \A h : Kids(h)' = Kids(h)
        /\ \A h : Told(h)' <=> Told(h)
    BY <2>1 DEF Later, Awaits, Now, Publishes, Unlinks, Shows, Kids, Told, ChildrenOf, Eligible
  <2>4. Unqueued' /\ ReadNow' /\ KnownNow' /\ Undone'
    BY <1>1, <2>1 DEF Exact, Unqueued, ReadNow, KnownNow, Undone, Later, Kids, Told, ChildrenOf, Eligible
  <2>5. Joined' /\ Parentless' /\ Flagged'
    BY <1>1, <2>1, <2>2, <2>3 DEF Exact, Joined, Parentless, Flagged
  <2> QED BY <2>4, <2>5 DEF Exact
<1>3. CASE HNext
  <2>1. ~Reindex
    BY <1>1, NoDrain DEF Exact
  <2> QED BY <1>1, <1>3, <2>1, UpstreamExact, ProcessExact, HandleExact DEF HNext, HInv
<1> QED BY <1>2, <1>3

(* When nothing fails the tuples come to agree with Salesforce: once every *)
(* event is handled and every message processed, each organization the     *)
(* consumer was told of has its parent's tuple and is in that parent's     *)
(* list, and it has no other tuple and is in no other list, unless it was  *)
(* overlooked.  It was told if an event named it, as its own or as the     *)
(* owner of a created membership (recheckMembershipOwners), since it last  *)
(* became eligible; a membership undeleted or moved to it tells nothing.   *)
THEOREM LinksBecomeExact == HSpec => []LinksExact
<1>1. HInit => HInv /\ (failures = 0 => Exact)
  BY InitTracked, InitExact
<1>2. HInv /\ (failures = 0 => Exact) /\ [HNext]_hvars => HInv' /\ (failures = 0 => Exact)'
  BY NextTracked, NextExact
<1>3. HInv /\ (failures = 0 => Exact) => LinksExact
  <2> SUFFICES ASSUME HInv, Exact, Calm, NEW c \in Children, Told(c)
               PROVE  LET p == account[c].parent IN
                        /\ p # NoOrg => above[c] = {p} /\ c \in lists[p]
                        /\ c \notin overlooked => above[c] \subseteq {p} /\ \A h \in Heads \ {p} : c \notin lists[h]
    BY DEF LinksExact
  <2>1. Len(sent) = 0 /\ Len(feed) = 0 /\ feed = <<>> /\ work.stage = "idle" /\ marked = {}
    BY DEF Calm, Idling, Exact, Unqueued
  <2>2. /\ \A o, kinds : ~Awaits(o, kinds)
        /\ ~Publishes(c) /\ ~Unlinks(c) /\ ~Coming(c) /\ \A h : ~Caught(c, h)
    BY <2>1 DEF Awaits, Later, Publishes, Unlinks, Coming, Moved, Caught
  <2>3. \A h, x : (Missing(c, h) <=> c \notin lists[h]) /\ (Differs(c, x) <=> above[c] # x)
    BY <2>1, WrongCalm DEF Missing, Differs
  <2>4. account[c].parent \in Heads \union {NoOrg}
    BY DEF HInv, HTyped, HTypeOK, Orgs, Parents
  <2>5. ASSUME account[c].parent # NoOrg
        PROVE  above[c] = {account[c].parent} /\ c \in lists[account[c].parent]
    <3>1. c \in Kids(account[c].parent)
      BY DEF Kids, Told, ChildrenOf, Eligible
    <3> QED BY <2>2, <2>3, <2>4, <2>5, <3>1 DEF Exact, Joined
  <2>6. ASSUME account[c].parent = NoOrg, c \notin overlooked
        PROVE  above[c] = {}
    BY <2>2, <2>3, <2>6 DEF Exact, Parentless
  <2>7. ASSUME c \notin overlooked, NEW h \in Heads, h # account[c].parent
        PROVE  c \notin lists[h]
    <3>1. ~KeptBy(sent, c, h)
      BY <2>1, <2>2, <2>7 DEF HInv, Tracked, Strays, Traced
    <3> QED BY <2>1, <3>1 DEF KeptBy
  <2> QED BY <2>5, <2>6, <2>7
<1> QED BY <1>1, <1>2, <1>3, PTL DEF HSpec

(* When nothing fails every organization that has children is shown with   *)
(* is_parent once every event is handled and every message processed, if   *)
(* the consumer was told of it and of one of its children since they       *)
(* became eligible, by an event of the Account or, when its first          *)
(* membership is created, by the re-check of the owner.                    *)
THEOREM ParentsBecomeShown == HSpec => []ParentsShown
<1>1. HInit => HInv /\ (failures = 0 => Exact)
  BY InitTracked, InitExact
<1>2. HInv /\ (failures = 0 => Exact) /\ [HNext]_hvars => HInv' /\ (failures = 0 => Exact)'
  BY NextTracked, NextExact
<1>3. (failures = 0 => Exact) => ParentsShown
  <2> SUFFICES ASSUME Exact, Calm, NEW h \in Heads, Told(h), NEW c \in Kids(h)
               PROVE  shown[h] = "parent"
    BY DEF ParentsShown, Kids, ChildrenOf
  <2>1. Len(sent) = 0 /\ Len(feed) = 0 /\ feed = <<>> /\ work.stage = "idle"
    BY DEF Calm, Idling
  <2>2. (\A o, kinds : ~Awaits(o, kinds)) /\ ~Publishes(h) /\ ~Shows(c, h)
    BY <2>1 DEF Awaits, Later, Publishes, Shows
  <2>3. c \in Children /\ ~Hidden(h)
    BY <2>2 DEF Exact, Flagged, Kids, Told, ChildrenOf, Eligible
  <2> QED BY <2>1, <2>3, WrongCalm DEF Hidden
<1> QED BY <1>1, <1>2, <1>3, PTL DEF HSpec

----------------------------------------------------------------------------
(***************************************************************************)
(* The two halves of the consumer side by side.                            *)
(***************************************************************************)

(* Whichever half is explored, the records with their documents and tuples *)
(* and the links between organizations both keep their shape.              *)
THEOREM HalvesTypeCorrect == MCSpec => []TypesOK
<1>1. MCInit => Typed /\ HTyped
  BY InitTyped, HInitTyped DEF MCInit
<1>2. Typed /\ HTyped /\ [MCNext]_<<vars, hvars, half>> => (Typed /\ HTyped)'
  <2> SUFFICES ASSUME Typed, HTyped, [MCNext]_<<vars, hvars, half>> PROVE Typed' /\ HTyped'
    OBVIOUS
  <2>1. [Next]_vars /\ [HNext]_hvars
    BY DEF MCNext
  <2> QED BY <2>1, NextTyped, HNextTyped
<1>3. Typed /\ HTyped => TypesOK
  BY DEF Typed, HTyped, TypesOK
<1> QED BY <1>1, <1>2, <1>3, PTL DEF MCSpec
=============================================================================
