---------------------------- MODULE PubSubStream ----------------------------
(***************************************************************************)
(* The Salesforce Pub/Sub subscription of one change channel and its       *)
(* replay cursor: the subscriber goroutine of                              *)
(* internal/infrastructure/salesforce/pubsub/pubsub_client.go, the buffered*)
(* channel to CDCConsumer.Run, and the cursor in the pubsub-state bucket   *)
(* (pubsub_replay.go).  What Run does with an event is in CdcConsumer;     *)
(* here it is handled or being retried.                                    *)
(*                                                                         *)
(* Events are numbered as Salesforce logged them.  Salesforce keeps those  *)
(* above retained; a cursor below it is rejected.  Undecodable events and  *)
(* an ERROR's reindex window are left out.                                 *)
(***************************************************************************)
EXTENDS Integers, Sequences

CONSTANTS
    Capacity,      \* items the channel holds (defaultBatchSize)
    MaxLogged,     \* bound: events Salesforce logs
    MaxBreaks      \* bound: stream ends, failed store calls and pod deaths

ASSUME StreamAssumption ==
    /\ Capacity \in Nat \ {0}
    /\ MaxLogged \in Nat
    /\ MaxBreaks \in Nat

Positions == 0..MaxLogged

(* What the bucket holds in place of a position: nothing, or the marker of *)
(* a cursor that was reset.                                                *)
NoCursor == -1
Earliest == -2
Cursors  == Positions \union {NoCursor, Earliest}

(* An item of the channel: an event, or the cursor of a keepalive.         *)
Items  == [pos : Positions, cursorOnly : BOOLEAN]
NoItem == [pos |-> NoCursor, cursorOnly |-> TRUE]

VARIABLES
    head,        \* Salesforce: events logged
    retained,    \* Salesforce: the last event dropped by retention
    stored,      \* bucket: the committed cursor
    subscriber,  \* where the subscriber goroutine stands
    current,     \* subscriber: the cursor it connects with
    next,        \* subscriber: the event its stream delivers next
    unchanged,   \* subscriber: no Save since Reset read the bucket
    channel,     \* items between subscriber and consumer
    working,     \* consumer: the item in hand, NoItem if none
    saving,      \* consumer: it was handled and its cursor is being saved
    handled,     \* history: events fully handled
    base,        \* history: the last event before the last subscription at LATEST
    breaks

salesforce == <<head, retained>>
stream     == <<subscriber, current, next, unchanged>>
consumer   == <<working, saving>>
svars == <<salesforce, stored, stream, channel, consumer, handled, base, breaks>>

StreamFault   == breaks < MaxBreaks /\ breaks' = breaks + 1
NoStreamFault == UNCHANGED breaks

Moved(s) == subscriber' = s

----------------------------------------------------------------------------
(***************************************************************************)
(* Salesforce.                                                             *)
(***************************************************************************)
LogEvent ==
    /\ head < MaxLogged
    /\ head' = head + 1
    /\ UNCHANGED <<retained, stored, stream, channel, consumer, handled, base, breaks>>

(* The oldest retained event passes its 72 hours. *)
Expires ==
    /\ retained < head
    /\ retained' = retained + 1
    /\ UNCHANGED <<head, stored, stream, channel, consumer, handled, base, breaks>>

----------------------------------------------------------------------------
(***************************************************************************)
(* Subscribe and runStream.                                                *)
(***************************************************************************)

(* Mutant: a reconnect goes on with the cursor of the first connection.     *)
LoadOnce ==
    /\ subscriber = "load"
    /\ current' = IF current = NoCursor THEN stored ELSE current
    /\ Moved("connect")
    /\ UNCHANGED <<salesforce, stored, next, unchanged, channel, consumer, handled,
                   base, breaks>>

(* Run loads the cursor at start, the subscriber before each reconnect.    *)
Load ==
    /\ subscriber = "load"
    /\ current' = stored
    /\ Moved("connect")
    /\ UNCHANGED <<salesforce, stored, next, unchanged, channel, consumer, handled,
                   base, breaks>>

(* LATEST without a cursor, EARLIEST after a reset, else just after it.    *)
Connect ==
    /\ subscriber = "connect"
    /\ \/ current = NoCursor /\ next' = head + 1 /\ Moved("streaming")
       \/ current = Earliest /\ next' = retained + 1 /\ Moved("streaming")
       \/ current \in Positions /\ current >= retained
            /\ next' = current + 1 /\ Moved("streaming")
       \/ current \in Positions /\ current < retained
            /\ Moved("rejected") /\ UNCHANGED next
    /\ base' = IF current = NoCursor THEN head ELSE base
    /\ UNCHANGED <<salesforce, stored, current, unchanged, channel, consumer,
                   handled, breaks>>

Enqueue(item) == channel' = Append(channel, item)

(* The batch's events enter the channel one by one, waiting for room.      *)
Forward ==
    /\ subscriber = "streaming"
    /\ retained < next /\ next <= head
    /\ Len(channel) < Capacity
    /\ Enqueue([pos |-> next, cursorOnly |-> FALSE])
    /\ next' = next + 1
    /\ UNCHANGED <<salesforce, stored, subscriber, current, unchanged, consumer,
                   handled, base, breaks>>

(* Mutant: the keepalive's cursor is saved without passing the channel.    *)
ForwardKeepaliveStores ==
    /\ subscriber = "streaming"
    /\ next = head + 1
    /\ head \notin {stored, NoCursor}
    /\ stored' = head
    /\ UNCHANGED <<salesforce, stream, channel, consumer, handled, base, breaks>>

(* No events available: the cursor travels behind every earlier event.     *)
(* One that changes nothing is left out.                                   *)
ForwardKeepalive ==
    /\ subscriber = "streaming"
    /\ next = head + 1
    /\ stored # head
    /\ Len(channel) < Capacity
    /\ \A i \in 1..Len(channel) : channel[i].pos # head
    /\ working.pos # head
    /\ Enqueue([pos |-> head, cursorOnly |-> TRUE])
    /\ UNCHANGED <<salesforce, stored, stream, consumer, handled, base, breaks>>

(* Network blip, end of stream, or a stream retention has overtaken.       *)
StreamEnds ==
    /\ subscriber = "streaming"
    /\ IF next <= retained THEN NoStreamFault ELSE StreamFault
    /\ Moved("load")
    /\ UNCHANGED <<salesforce, stored, current, next, unchanged, channel, consumer,
                   handled, base>>

(* Reset: read the bucket; a cursor other than the rejected one is tried.  *)
ResetRead ==
    /\ subscriber = "rejected"
    /\ \/ stored = current /\ Moved("reset") /\ unchanged' = TRUE /\ NoStreamFault
       \/ stored # current /\ Moved("load") /\ UNCHANGED unchanged /\ NoStreamFault
       \/ StreamFault /\ Moved("load") /\ UNCHANGED unchanged
    /\ UNCHANGED <<salesforce, stored, current, next, channel, consumer, handled,
                   base>>

(* Mutant: the marker is put whatever was saved since the read.            *)
ResetWritePuts ==
    /\ subscriber = "reset"
    /\ \/ stored' = Earliest /\ NoStreamFault
       \/ StreamFault /\ UNCHANGED stored
    /\ Moved("load")
    /\ UNCHANGED <<salesforce, current, next, unchanged, channel, consumer, handled,
                   base>>

(* ... and write the marker at the revision read: a Save in between wins.  *)
ResetWrite ==
    /\ subscriber = "reset"
    /\ \/ unchanged /\ stored' = Earliest /\ NoStreamFault
       \/ ~unchanged /\ UNCHANGED stored /\ NoStreamFault
       \/ StreamFault /\ UNCHANGED stored
    /\ Moved("load")
    /\ UNCHANGED <<salesforce, current, next, unchanged, channel, consumer, handled,
                   base>>

----------------------------------------------------------------------------
(***************************************************************************)
(* Run.                                                                    *)
(***************************************************************************)
TakeItem ==
    /\ working = NoItem
    /\ channel # <<>>
    /\ working' = Head(channel)
    /\ channel' = Tail(channel)
    /\ saving' = Head(channel).cursorOnly
    /\ UNCHANGED <<salesforce, stored, stream, handled, base, breaks>>

(* The event needs nothing more; until then it is retried in place.        *)
HandleEvent ==
    /\ working # NoItem
    /\ ~saving
    /\ handled' = handled \union {working.pos}
    /\ saving' = TRUE
    /\ UNCHANGED <<salesforce, stored, stream, channel, working, base, breaks>>

(* A failed Save is only logged. *)
SaveCursor ==
    /\ saving
    /\ \/ stored' = working.pos /\ unchanged' = FALSE /\ NoStreamFault
       \/ StreamFault /\ UNCHANGED <<stored, unchanged>>
    /\ working' = NoItem
    /\ saving' = FALSE
    /\ UNCHANGED <<salesforce, subscriber, current, next, channel, handled, base>>

(* The pod dies, or a failed Load closes the channel and ends the process; *)
(* the single replica is replaced only once it is gone.                    *)
Restart ==
    /\ StreamFault
    /\ channel' = <<>>
    /\ working' = NoItem
    /\ saving' = FALSE
    /\ Moved("load")
    /\ UNCHANGED <<salesforce, stored, current, next, unchanged, handled, base>>

----------------------------------------------------------------------------
SInit ==
    /\ head = 0
    /\ retained = 0
    /\ stored \in {NoCursor, 0}
    /\ subscriber = "load"
    /\ current = NoCursor
    /\ next = 0
    /\ unchanged = FALSE
    /\ channel = <<>>
    /\ working = NoItem
    /\ saving = FALSE
    /\ handled = {}
    /\ base = stored
    /\ breaks = 0

Subscribe == \/ Load
             \/ Connect
             \/ Forward
             \/ ForwardKeepalive
             \/ ResetRead
             \/ ResetWrite

Consume == TakeItem \/ HandleEvent \/ SaveCursor

SNext == \/ LogEvent
        \/ Expires
        \/ Subscribe
        \/ StreamEnds
        \/ Consume
        \/ Restart

SSpec == SInit /\ [][SNext]_svars

(* Both goroutines keep running; a stream retention overtook breaks.       *)
SFairSpec == /\ SSpec
            /\ WF_svars(Subscribe)
            /\ WF_svars(Consume)
            /\ WF_svars(StreamEnds /\ next <= retained)

----------------------------------------------------------------------------
(* The shape of the state; what is being saved is in hand. *)
STypeOK ==
    /\ head \in Positions
    /\ retained \in 0..head
    /\ stored \in Cursors
    /\ subscriber \in {"load", "connect", "streaming", "rejected", "reset"}
    /\ current \in Cursors
    /\ next \in 0..MaxLogged + 1
    /\ unchanged \in BOOLEAN
    /\ channel \in Seq(Items)
    /\ Len(channel) <= Capacity
    /\ working \in Items \union {NoItem}
    /\ saving \in BOOLEAN
    /\ handled \subseteq Positions
    /\ base \in Positions \union {NoCursor}
    /\ breaks \in 0..MaxBreaks
    /\ saving => working # NoItem

(* pubsub_replay.go on its semantics: "A crash between receipt and commit  *)
(* causes the event to be redelivered on the next startup (at-least-once)".*)
(* A committed cursor has no unhandled event behind it, except one dropped *)
(* by retention or logged before a subscription at LATEST, which happens   *)
(* on every connection until a first cursor has been committed.            *)
AtLeastOnce ==
    \A i \in Positions :
        base # NoCursor /\ base < i /\ i <= stored => i \in handled \/ i <= retained

(* Reset replaces only the cursor Salesforce rejected: a newer one the     *)
(* consumer saved meanwhile is never overwritten.                          *)
ResetKeepsNewer ==
    [][stored # Earliest /\ stored' = Earliest => stored = current]_svars

(* Once failures are over, every event is handled or dropped by retention    *)
(* and the cursor reaches the last one, whatever expired on the way.       *)
CursorCatchesUp ==
    <>[](/\ stored = head
         /\ \A i \in 1..head : base < i => i \in handled \/ i <= retained)

=============================================================================
