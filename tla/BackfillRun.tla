---------------------------- MODULE BackfillRun ----------------------------
(***************************************************************************)
(* POST /admin/reindex of project_membership, beside the CDC consumer      *)
(* (backfill_runner.go, runType and runTargetedMemberships).               *)
(*                                                                         *)
(* The feed once skipped changes, so the search index and the grants are   *)
(* behind Salesforce, and an operator has a plan of requests that brings   *)
(* them back: a full reindex, contiguous windows of the day of the last    *)
(* modification, or a list of records.  A request is repeated until its    *)
(* run says that it completed.  Meanwhile records go on changing.          *)
(*                                                                         *)
(* The consumer handles a change as a whole here; CdcConsumer has its      *)
(* steps.  A dry run, which publishes nothing, is left out, and so is the  *)
(* lock of full runs (BackfillLock): a run that does not get it only logs. *)
(***************************************************************************)
EXTENDS Integers, Sequences, FiniteSets

CONSTANTS
    Assets,        \* the memberships
    LastDay,       \* days are 0 .. LastDay
    PageSize,      \* records of one response (sfQueryBatchSize)
    MaxEdits,      \* bound: changes of records
    MaxBreaks      \* bound: calls that fail, and pods that die

ASSUME BackfillAssumption == {LastDay, PageSize, MaxEdits, MaxBreaks} \subseteq Nat

VARIABLES
    asset,       \* Salesforce: each record's state, day and version
    day,         \* today
    feed,        \* records with a change the consumer has not handled yet
    shown,       \* the version of each record's search document, 0 for none
    granted,     \* the record has its grants in OpenFGA
    plan,        \* the requests of the operator, chosen at the start
    turn,        \* the request whose turn it is
    scan,        \* the run: where it is, what it still has to read and to publish
    gauge,       \* the last reading of the quota
    missed,      \* records the log names as not published
    overtaken,   \* records published from a read older than a change handled
    edits, breaks

bvars == <<asset, day, feed, shown, granted, plan, turn, scan, gauge,
           missed, overtaken, edits, breaks>>

Days == 0 .. LastDay
States == {"live", "outside", "deleted"}    \* outside: no membership product any more

(* The requests (ClassifyMode).  A list of records has no window. *)
Full             == [mode |-> "full", since |-> 0, until |-> LastDay, items |-> {}]
Window(from, to) == [mode |-> "filtered", since |-> from, until |-> to, items |-> {}]
Items(uids)      == [mode |-> "targeted", since |-> 0, until |-> LastDay, items |-> uids]

Plans ==
    {<<Full>>}
    \union {<<Window(0, k), Window(k, LastDay)>> : k \in Days}
    \union {<<Window(k, LastDay), Window(0, k)>> : k \in Days}
    \union {<<Items(uids)>> : uids \in SUBSET Assets \ {{}}}

Done == turn > Len(plan)
Request == plan[turn]

NoReads == [r \in {} |-> [live |-> TRUE, version |-> 2]]
NoScan == [at |-> "idle", rest |-> NoReads, page |-> NoReads]
AssetRead == [live : BOOLEAN, version : 2 .. MaxEdits + 2]
ManyReads == UNION {[uids -> AssetRead] : uids \in SUBSET Assets}

(* The shape of the state. *)
BTypeOK ==
    /\ asset \in [Assets -> [state : States, day : Days, version : 2 .. MaxEdits + 2]]
    /\ day \in Days
    /\ feed \subseteq Assets
    /\ shown \in [Assets -> 0 .. MaxEdits + 2]
    /\ granted \in [Assets -> BOOLEAN]
    /\ plan \in Plans
    /\ turn \in 1 .. 3
    /\ scan \in [at : {"idle", "query", "publish"}, rest : ManyReads, page : ManyReads]
    /\ gauge \in {"none", "low", "high"}
    /\ missed \subseteq Assets /\ overtaken \subseteq Assets
    /\ edits \in 0 .. MaxEdits /\ breaks \in 0 .. MaxBreaks

(* The feed skipped the second version of every record, of which the first *)
(* may have been shown; a record that no longer qualifies had qualified.   *)
BInit ==
    /\ day \in Days
    /\ asset \in [Assets -> [state : States, day : 0 .. day, version : {2}]]
    /\ shown \in [Assets -> {0, 1}]
    /\ \A r \in Assets : shown[r] = 0 => asset[r].state = "live"
    /\ granted = [r \in Assets |-> shown[r] = 1]
    /\ plan \in Plans
    /\ turn = 1
    /\ feed = {} /\ missed = {} /\ overtaken = {}
    /\ scan = NoScan
    /\ gauge = "none"
    /\ edits = 0 /\ breaks = 0

Live(r) == asset[r].state = "live"

Break == breaks < MaxBreaks /\ breaks' = breaks + 1

(* Every answer of Salesforce carries the usage (recordQuotaObservation). *)
Answered == gauge' \in {"low", "high"}

----------------------------------------------------------------------------
(* Salesforce and the consumer. *)

Edit(r) ==
    /\ edits < MaxEdits
    /\ asset[r].state # "deleted"
    /\ \E to \in States :
          asset' = [asset EXCEPT ![r] = [state |-> to, day |-> day, version |-> @.version + 1]]
    /\ feed' = feed \union {r}
    /\ edits' = edits + 1
    /\ UNCHANGED <<day, shown, granted, plan, turn, scan, gauge, missed, overtaken, breaks>>

NextDay ==
    /\ day < LastDay
    /\ day' = day + 1
    /\ UNCHANGED <<asset, feed, shown, granted, plan, turn, scan, gauge, missed, overtaken,
                   edits, breaks>>

(* The consumer publishes a record that it reads, withdraws one that is    *)
(* deleted, and removes from the index only one that lost its product.     *)
Handle(r) ==
    /\ r \in feed
    /\ feed' = feed \ {r}
    /\ shown' = [shown EXCEPT ![r] = IF Live(r) THEN asset[r].version ELSE 0]
    /\ granted' = [granted EXCEPT ![r] = Live(r) \/ (asset[r].state = "outside" /\ @)]
    /\ missed' = missed \ {r}
    /\ overtaken' = overtaken \ {r}
    /\ UNCHANGED <<asset, day, plan, turn, scan, gauge, edits, breaks>>

----------------------------------------------------------------------------
(* The run. *)

(* mutant: the record last modified at the start of a window is left out *)
AfterSince(r) == Live(r) /\ Request.since < asset[r].day /\ asset[r].day <= Request.until

(* The query of a full run or a window, both bounds inclusive              *)
(* (lastModifiedWindowClause).  Only these runs look at what it matches.   *)
InWindow(r) ==
    /\ Request.mode # "targeted" /\ Live(r)
    /\ Request.since <= asset[r].day /\ asset[r].day <= Request.until

AsItIs(uids) == [r \in uids |-> [live |-> Live(r), version |-> asset[r].version]]

(* The gate asks for the usage; when the request fails it takes the last   *)
(* reading, and refuses if there is none (checkQuotaGate).  The handler    *)
(* and the run pass it one after the other; a list of records does not.    *)
StartGate ==
    \/ Request.mode = "targeted" /\ UNCHANGED <<gauge, breaks>>
    \/ gauge' = "low" /\ UNCHANGED breaks
    \/ gauge = "low" /\ UNCHANGED gauge /\ Break

(* A request is accepted and its run starts. *)
Start ==
    /\ scan.at = "idle" /\ ~Done
    /\ StartGate
    /\ scan' = [NoScan EXCEPT !.at = "query",
                              !.rest = AsItIs({r \in Assets : InWindow(r)})]
    /\ UNCHANGED <<asset, day, feed, shown, granted, plan, turn, missed, overtaken, edits>>

(* The gate refuses: the usage is at the threshold. *)
Refuse ==
    /\ scan.at = "idle" /\ ~Done
    /\ Request.mode # "targeted"
    /\ gauge' = "high"
    /\ UNCHANGED <<asset, day, feed, shown, granted, plan, turn, scan, missed, overtaken,
                   edits, breaks>>

(* A page of the records the query matched: as they were at the query, or  *)
(* as they are now.  Between pages the run stops at the threshold, without *)
(* publishing the page.                                                    *)
NextPage ==
    /\ scan.at = "query" /\ Request.mode # "targeted"
    /\ Answered
    /\ \E uids \in SUBSET DOMAIN scan.rest :
          /\ Cardinality(uids) = IF Cardinality(DOMAIN scan.rest) < PageSize
                                 THEN Cardinality(DOMAIN scan.rest) ELSE PageSize
          /\ \E now \in SUBSET uids :
                LET present == uids \ {r \in now : ~Live(r)}
                    page    == [r \in present |-> IF r \in now THEN AsItIs(present)[r] ELSE scan.rest[r]]
                    left    == DOMAIN scan.rest \ uids
                IN scan' = IF gauge' = "high" THEN NoScan
                           ELSE [at |-> "publish", page |-> page, rest |-> [r \in left |-> scan.rest[r]]]
    /\ UNCHANGED <<asset, day, feed, shown, granted, plan, turn, missed, overtaken, edits, breaks>>

(* The records of the list, in one query: those absent are to be removed. *)
FetchItems ==
    /\ scan.at = "query" /\ Request.mode = "targeted"
    /\ Answered
    /\ scan' = [at |-> "publish", rest |-> NoReads, page |-> AsItIs(Request.items)]
    /\ UNCHANGED <<asset, day, feed, shown, granted, plan, turn, missed, overtaken, edits, breaks>>

(* The run ends without having completed: a query fails, or the pod dies. *)
End ==
    /\ scan.at # "idle"
    /\ Break
    /\ scan' = NoScan
    /\ UNCHANGED <<asset, day, feed, shown, granted, plan, turn, gauge, missed, overtaken, edits>>

Publishing(r) == scan.at = "publish" /\ r \in DOMAIN scan.page

Off(r) == scan' = [scan EXCEPT !.page = [s \in DOMAIN @ \ {r} |-> @[s]]]

(* What was read of the record is older than a change handled since.  A    *)
(* change that is still in the feed will be published after it.            *)
Overtaken(r) == r \notin feed /\ scan.page[r].version # asset[r].version

(* A record that was read is published, index and grants; one absent from  *)
(* the answer to a list is removed from the index only, after the others   *)
(* (removeAbsentMemberships): grants that an overtaken read restored stay. *)
PublishAsset(r) ==
    /\ Publishing(r)
    /\ ~scan.page[r].live => \A s \in DOMAIN scan.page : ~scan.page[s].live
    /\ shown' = [shown EXCEPT ![r] = IF scan.page[r].live THEN scan.page[r].version ELSE 0]
    /\ granted' = [granted EXCEPT ![r] = scan.page[r].live \/ @]
    /\ overtaken' = (overtaken \ {s \in {r} : scan.page[s].live}) \union {s \in {r} : Overtaken(s)}
    /\ missed' = missed \ {r}
    /\ Off(r)
    /\ UNCHANGED <<asset, day, feed, plan, turn, gauge, edits, breaks>>

(* The record cannot be converted, its project cannot be resolved, or a    *)
(* message is not sent: this is logged, and the run goes on.  Without its  *)
(* project the grants are still published; these too can be overtaken.     *)
MissAsset(r) ==
    /\ Publishing(r)
    /\ Break
    /\ \/ UNCHANGED <<shown, granted>>
       \/ /\ scan.page[r].live
          /\ \/ granted' = [granted EXCEPT ![r] = TRUE] /\ UNCHANGED shown
             \/ shown' = [shown EXCEPT ![r] = scan.page[r].version] /\ UNCHANGED granted
    /\ missed' = missed \union {r}
    /\ overtaken' = overtaken \union {s \in {r} : Overtaken(s)}
    /\ Off(r)
    /\ UNCHANGED <<asset, day, feed, plan, turn, gauge, edits>>

(* The page is done: the next one is asked for, or the run has completed. *)
PageDone ==
    /\ scan.at = "publish" /\ DOMAIN scan.page = {}
    /\ IF DOMAIN scan.rest = {}
       THEN scan' = NoScan /\ turn' = turn + 1
       ELSE scan' = [scan EXCEPT !.at = "query"] /\ UNCHANGED turn
    /\ UNCHANGED <<asset, day, feed, shown, granted, plan, gauge, missed, overtaken, edits, breaks>>

BNext ==
    \/ NextDay
    \/ \E r \in Assets : Edit(r) \/ Handle(r) \/ PublishAsset(r) \/ MissAsset(r)
    \/ Start \/ Refuse \/ NextPage \/ FetchItems \/ End \/ PageDone

BSpec == BInit /\ [][BNext]_bvars
----------------------------------------------------------------------------
(* Once the plan has completed and the feed is handled, every record that  *)
(* qualifies is shown as it is and has its grants, every listed record     *)
(* that does not is out of the index, and a deletion handled meanwhile was *)
(* not undone; but for the records the log names, and those published from *)
(* a read that a change handled in between had overtaken.                  *)
Promised(r) == plan[1].mode = "targeted" => r \in plan[1].items

ReindexExact ==
    Done /\ feed = {} =>
        \A r \in Assets \ (missed \union overtaken) :
            /\ Promised(r) /\ Live(r) => shown[r] = asset[r].version /\ granted[r]
            /\ plan[1].mode = "targeted" /\ Promised(r) /\ ~Live(r) => shown[r] = 0
            /\ asset[r].version > 2 /\ asset[r].state = "deleted" => shown[r] = 0 /\ ~granted[r]
=============================================================================
