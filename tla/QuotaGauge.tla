----------------------------- MODULE QuotaGauge -----------------------------
(***************************************************************************)
(* The guard of the CDC consumer against spending the organization's last  *)
(* Salesforce API calls (cdc_consumer.go, quotaGuardExceeded), over the    *)
(* gauge every Salesforce response feeds (rate_limit.go, quota_gauge.go).  *)
(*                                                                         *)
(* The gauge learns the usage from a response, and an event that the guard *)
(* skips makes no request: a high reading would hold for ever if the guard *)
(* did not itself ask for a fresh one when its reading has grown stale.    *)
(*                                                                         *)
(* Usage and readings are told apart only by the side of the threshold     *)
(* they are on.  Time is counted in ticks, and ages stop at StaleAfter.    *)
(***************************************************************************)
EXTENDS Naturals

CONSTANTS
    StaleAfter,     \* ticks after which a reading is stale (quotaRefreshStaleAfter)
    MaxUnread       \* bound: responses that are lost or bring no usable header

ASSUME StaleAfterAssumption == StaleAfter \in Nat \ {0}

VARIABLES
    usage,      \* the usage Salesforce counts: below the threshold or not
    reading,    \* the last observation: its side of the threshold and its age
    attempted,  \* the age of the last active refresh (lastRefreshAttemptAt)
    guard,      \* the goroutine of the consumer: where it is, and its snapshot
    verdict,    \* what it decided last
    unread      \* responses without a usable header so far

qvars == <<usage, reading, attempted, guard, verdict, unread>>

Sides    == {"low", "high"}
Observed(seen) == seen \in Sides      \* "none": never; "invalid": a limit of 0
Ages     == 0 .. StaleAfter

(* The shape of the state. *)
QTypeOK ==
    /\ usage \in Sides
    /\ reading \in [seen : Sides \union {"none", "invalid"}, age : Ages]
    /\ attempted \in Ages
    /\ guard \in [at : {"idle", "refresh", "decide"}, snap : Sides \union {"none", "invalid"}]
    /\ verdict \in {"none", "process", "skip"}
    /\ unread \in 0 .. MaxUnread

(* Before the first reading and the first refresh, each counts as old. *)
QInit ==
    /\ usage \in Sides
    /\ reading = [seen |-> "none", age |-> StaleAfter]
    /\ attempted = StaleAfter
    /\ guard = [at |-> "idle", snap |-> "none"]
    /\ verdict = "none"
    /\ unread = 0

(* A response brings the usage header (recordQuotaObservation). *)
Observe(seen) == reading' = [seen |-> seen, age |-> 0]

Lose == unread < MaxUnread /\ unread' = unread + 1

(* mutant: only the first reading is asked for *)
RefreshUnobserved == ~Observed(reading.seen) /\ attempted >= StaleAfter

(* The reading is stale, and no refresh was attempted within the window. *)
AttemptRefresh ==
    /\ ~Observed(reading.seen) \/ reading.age >= StaleAfter
    /\ attempted >= StaleAfter

(* The guard of the next upsert: its snapshot, and whether it refreshes. *)
Guard ==
    /\ guard.at = "idle"
    /\ guard' = [at   |-> IF AttemptRefresh THEN "refresh" ELSE "decide",
                 snap |-> reading.seen]
    /\ attempted' = IF AttemptRefresh THEN 0 ELSE attempted
    /\ UNCHANGED <<usage, reading, verdict, unread>>

(* GET /limits.  It fails without a reading; or with one, when the header  *)
(* comes with an error or holds an unusable limit: the guard then keeps    *)
(* the snapshot it had.                                                    *)
Refresh ==
    /\ guard.at = "refresh"
    /\ \/ /\ Observe(usage)
          /\ guard' = [at |-> "decide", snap |-> usage]
          /\ UNCHANGED unread
       \/ /\ Lose
          /\ \/ UNCHANGED reading
             \/ \E seen \in {usage, "invalid"} : Observe(seen)
          /\ guard' = [guard EXCEPT !.at = "decide"]
    /\ UNCHANGED <<usage, attempted, verdict>>

Exceeded == guard.snap = "high"     \* what was never observed is let through

(* The verdict: a skipped event is queued for repair without a request, an *)
(* event let through is read from Salesforce.                              *)
Decide ==
    /\ guard.at = "decide"
    /\ guard' = [guard EXCEPT !.at = "idle"]
    /\ \/ Exceeded /\ verdict' = "skip" /\ UNCHANGED <<reading, unread>>
       \/ /\ ~Exceeded
          /\ verdict' = "process"
          /\ \/ Observe(usage) /\ UNCHANGED unread
             \/ Lose /\ (UNCHANGED reading \/ Observe("invalid"))
    /\ UNCHANGED <<usage, attempted>>

(* A request that no guard precedes is answered, such as the re-check of   *)
(* an owner or a refresh of the cache in the background.                   *)
Passive ==
    /\ Observe(usage)
    /\ UNCHANGED <<usage, attempted, guard, verdict, unread>>

(* The rolling day of Salesforce: calls of others, and calls that age out. *)
UsageMoves ==
    /\ usage' \in Sides \ {usage}
    /\ UNCHANGED <<reading, attempted, guard, verdict, unread>>

Older(age) == IF age < StaleAfter THEN age + 1 ELSE age

Tick ==
    /\ reading' = [reading EXCEPT !.age = Older(@)]
    /\ attempted' = Older(attempted)
    /\ UNCHANGED <<usage, guard, verdict, unread>>

QNext == Guard \/ Refresh \/ Decide \/ Passive \/ UsageMoves \/ Tick

----------------------------------------------------------------------------
(* While events keep coming and time passes, the guard follows the usage:  *)
(* once it stays below the threshold, every event is let through from some *)
(* moment on, and once it stays above, every event is skipped              *)
(* (quotaGuardExceeded: the quota death spiral; shouldAttemptQuotaRefresh  *)
(* throttles refreshes that failed, and must not end them).                *)
Follows(side, decided) ==
    <>[](usage = side) => <>[](verdict = decided)

GuardFollows ==
    []<><<Guard>>_qvars => Follows("low", "process") /\ Follows("high", "skip")
=============================================================================
