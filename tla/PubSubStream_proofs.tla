------------------------ MODULE PubSubStream_proofs ------------------------
(***************************************************************************)
(* Proofs about the stream and its cursor, for any channel capacity and    *)
(* any number of events and failures: type correctness, that no event is   *)
(* left unhandled behind a committed cursor, and that a reset overwrites   *)
(* no cursor but the rejected one.                                         *)
(***************************************************************************)
EXTENDS PubSubStream, TLAPS

----------------------------------------------------------------------------
LEMMA FaultTyped ==
    ASSUME STypeOK, StreamFault \/ NoStreamFault
    PROVE  breaks' \in 0..MaxBreaks
BY StreamAssumption DEF STypeOK, StreamFault, NoStreamFault

LEMMA SendTyped ==
    ASSUME STypeOK, NEW item \in Items, Enqueue(item), Len(channel) < Capacity
    PROVE  channel' \in Seq(Items) /\ Len(channel') <= Capacity
BY StreamAssumption DEF STypeOK, Enqueue

LEMMA NextTyped == ASSUME STypeOK, [SNext]_svars PROVE STypeOK'
<1> USE DEF stream, consumer
<1>1. CASE LogEvent \/ Expires
  <2>1. head' \in Positions /\ retained' \in 0..head'
    BY <1>1, StreamAssumption DEF LogEvent, Expires, STypeOK, Positions, salesforce
  <2> QED
    BY <1>1, <2>1 DEF LogEvent, Expires, STypeOK
<1> USE DEF salesforce
<1>2. CASE Load
  BY <1>2 DEF Load, Moved, STypeOK
<1>3. CASE Connect
  <2>1. next' \in 0..MaxLogged + 1
    BY <1>3, StreamAssumption DEF Connect, STypeOK, Positions, NoCursor, Earliest
  <2>2. base' \in Positions \union {NoCursor}
    BY <1>3 DEF Connect, STypeOK
  <2>3. subscriber' \in {"streaming", "rejected"}
    BY <1>3 DEF Connect, Moved
  <2> QED
    BY <1>3, <2>1, <2>2, <2>3 DEF Connect, STypeOK
<1>4. CASE Forward
  <2>1. next \in Positions /\ next' \in 0..MaxLogged + 1
    BY <1>4, StreamAssumption DEF Forward, STypeOK, Positions
  <2>2. [pos |-> next, cursorOnly |-> FALSE] \in Items
    BY <2>1 DEF Items
  <2> QED
    BY <1>4, <2>1, <2>2, SendTyped DEF Forward, STypeOK
<1>5. CASE ForwardKeepalive
  <2>1. [pos |-> head, cursorOnly |-> TRUE] \in Items
    BY DEF STypeOK, Items
  <2> QED
    BY <1>5, <2>1, SendTyped DEF ForwardKeepalive, STypeOK
<1>6. CASE StreamEnds \/ ResetRead \/ ResetWrite
  <2>1. breaks' \in 0..MaxBreaks
    BY <1>6, FaultTyped DEF StreamEnds, ResetRead, ResetWrite
  <2>2. stored' \in Cursors
    BY <1>6 DEF StreamEnds, ResetRead, ResetWrite, STypeOK, Cursors
  <2>3. subscriber' \in {"load", "reset"} /\ unchanged' \in BOOLEAN
    BY <1>6 DEF StreamEnds, ResetRead, ResetWrite, Moved, STypeOK
  <2> QED
    BY <1>6, <2>1, <2>2, <2>3 DEF StreamEnds, ResetRead, ResetWrite, STypeOK
<1>7. CASE TakeItem
  <2>1. channel \in Seq(Items) /\ channel # <<>> /\ Len(channel) <= Capacity
    BY <1>7 DEF TakeItem, STypeOK
  <2>2. Head(channel) \in Items /\ Tail(channel) \in Seq(Items)
    BY <2>1
  <2>3. Len(Tail(channel)) <= Capacity
    BY <2>1, StreamAssumption
  <2>4. Head(channel) # NoItem /\ Head(channel).cursorOnly \in BOOLEAN
    BY <2>2 DEF Items, NoItem, Positions, NoCursor
  <2> QED
    BY <1>7, <2>2, <2>3, <2>4 DEF TakeItem, STypeOK
<1>8. CASE HandleEvent
  <2>1. working.pos \in Positions
    BY <1>8 DEF HandleEvent, STypeOK, Items
  <2> QED
    BY <1>8, <2>1 DEF HandleEvent, STypeOK
<1>9. CASE SaveCursor
  <2>1. working.pos \in Positions
    BY <1>9 DEF SaveCursor, STypeOK, Items
  <2>2. breaks' \in 0..MaxBreaks
    BY <1>9, FaultTyped DEF SaveCursor
  <2>3. stored' \in Cursors /\ unchanged' \in BOOLEAN
    BY <1>9, <2>1 DEF SaveCursor, STypeOK, Cursors
  <2> QED
    BY <1>9, <2>2, <2>3 DEF SaveCursor, STypeOK
<1>10. CASE Restart
  <2>1. breaks' \in 0..MaxBreaks
    BY <1>10, FaultTyped DEF Restart
  <2>2. <<>> \in Seq(Items) /\ Len(<<>>) <= Capacity
    BY StreamAssumption
  <2> QED
    BY <1>10, <2>1, <2>2 DEF Restart, Moved, STypeOK
<1>11. CASE UNCHANGED svars
  BY <1>11 DEF svars, STypeOK
<1> QED
  BY <1>1, <1>2, <1>3, <1>4, <1>5, <1>6, <1>7, <1>8, <1>9, <1>10, <1>11
     DEF SNext, Subscribe, Consume

LEMMA InitTyped == SInit => STypeOK
<1> SUFFICES ASSUME SInit PROVE STypeOK
  OBVIOUS
<1>1. <<>> \in Seq(Items) /\ Len(<<>>) <= Capacity
  BY StreamAssumption
<1>2. 0 \in Positions /\ 0 \in 0..MaxBreaks /\ 0 \in 0..MaxLogged + 1 /\ 0 \in 0..0
  BY StreamAssumption DEF Positions
<1> QED
  BY <1>1, <1>2 DEF SInit, STypeOK, Cursors

(* Subscriber, channel and consumer keep their shape; in particular the    *)
(* channel never holds more than its capacity.                             *)
THEOREM TypeCorrect == SSpec => []STypeOK
BY InitTyped, NextTyped, PTL DEF SSpec

----------------------------------------------------------------------------
(***************************************************************************)
(* What stands between Salesforce and the committed cursor.                *)
(***************************************************************************)

(* Nothing more is owed for event i.                                       *)
Dealt(i) == \/ base = NoCursor
            \/ i <= base
            \/ i \in handled
            \/ i <= retained

Event(i) == [pos |-> i, cursorOnly |-> FALSE]

(* Event i is in hand or among the first n items of the channel.           *)
Ahead(i, n) == working = Event(i) \/ \E k \in 1..n : channel[k] = Event(i)

(* The last position an item vouches for: a keepalive for its own, an      *)
(* event for the one before it.                                            *)
Before(item) == IF item.cursorOnly THEN item.pos ELSE item.pos - 1

DealtTo(p)     == \A i \in Positions : i <= p => Dealt(i)
AccountedTo(p, n) == \A i \in Positions : i <= p => Dealt(i) \/ Ahead(i, n)

(* No cursor has anything undealt behind it, and no item anything that is  *)
(* neither dealt with nor ahead of it.                                     *)
CursorsDealt == DealtTo(stored) /\ DealtTo(current)

WorkingDealt == /\ working # NoItem => DealtTo(Before(working))
                /\ saving => DealtTo(working.pos)

ChannelInOrder ==
    \A k \in 1..Len(channel) : AccountedTo(Before(channel[k]), k - 1)

StreamInOrder ==
    subscriber = "streaming" => AccountedTo(next - 1, Len(channel))

(* Nobody is past the last event Salesforce logged.                        *)
WithinLog ==
    /\ base <= head
    /\ stored <= head
    /\ current <= head
    /\ next <= head + 1
    /\ working.pos <= head
    /\ \A k \in 1..Len(channel) : channel[k].pos <= head

(* A reset may write only while the bucket holds the rejected cursor.      *)
ResetFresh == subscriber = "reset" /\ unchanged => stored = current

IInv == /\ STypeOK
        /\ WithinLog
        /\ CursorsDealt
        /\ WorkingDealt
        /\ ChannelInOrder
        /\ StreamInOrder
        /\ ResetFresh

----------------------------------------------------------------------------
(***************************************************************************)
(* What each step keeps.                                                   *)
(***************************************************************************)
LEMMA DealtStays ==
    ASSUME STypeOK, WithinLog, [SNext]_svars, NEW i \in Positions, i <= head, Dealt(i)
    PROVE  Dealt(i)'
<1>1. /\ handled \subseteq handled'
      /\ retained' = retained \/ retained' = retained + 1
      /\ base' = base \/ base' = head
  BY DEF SNext, LogEvent, Expires, Subscribe, Load, Connect, Forward, ForwardKeepalive, ResetRead,
         ResetWrite, StreamEnds, Consume, TakeItem, HandleEvent, SaveCursor, Restart, svars, salesforce
<1> QED
  BY <1>1 DEF Dealt, STypeOK, WithinLog, Positions, NoCursor

LEMMA TakeShifts ==
    ASSUME STypeOK, TakeItem, NEW i \in Positions, NEW n \in 1..Len(channel), Ahead(i, n)
    PROVE  Ahead(i, n - 1)'
<1>1. working # Event(i)
  BY DEF TakeItem, NoItem, Event
<1>2. PICK k \in 1..n : channel[k] = Event(i)
  BY <1>1 DEF Ahead
<1>3. CASE k = 1
  BY <1>2, <1>3 DEF Ahead, TakeItem, STypeOK
<1>4. CASE k # 1
  <2>1. k - 1 \in 1..n - 1
    BY <1>4
  <2>2. Tail(channel)[k - 1] = channel[k]
    BY <1>4 DEF TakeItem, STypeOK
  <2> QED
    BY <1>2, <2>1, <2>2 DEF Ahead, TakeItem
<1> QED
  BY <1>3, <1>4

LEMMA SaveDeals ==
    ASSUME STypeOK, WorkingDealt, SaveCursor, NEW i \in Positions, NEW n, Ahead(i, n)
    PROVE  Dealt(i) \/ Ahead(i, n)'
<1>1. CASE working = Event(i)
  <2>1. i <= working.pos
    BY <1>1 DEF Event, Positions
  <2> QED
    BY <2>1 DEF SaveCursor, WorkingDealt, DealtTo
<1>2. CASE working # Event(i)
  BY <1>2 DEF Ahead, SaveCursor
<1> QED
  BY <1>1, <1>2

LEMMA SendKeeps ==
    ASSUME STypeOK, NEW item \in Items, Enqueue(item), UNCHANGED working,
           NEW i, NEW n \in 0..Len(channel), Ahead(i, n)
    PROVE  Ahead(i, n)'
<1>1. \A k \in 1..n : channel'[k] = channel[k]
  BY DEF Enqueue, STypeOK
<1> QED
  BY <1>1 DEF Ahead

LEMMA CursorsKept == ASSUME IInv, [SNext]_svars PROVE CursorsDealt'
<1>1. stored' \in {stored, Earliest} \/ (saving /\ stored' = working.pos)
  BY DEF SNext, LogEvent, Expires, Subscribe, Load, Connect, Forward, ForwardKeepalive, ResetRead,
         ResetWrite, StreamEnds, Consume, TakeItem, HandleEvent, SaveCursor, Restart, svars
<1>2. current' \in {current, stored}
  BY DEF SNext, LogEvent, Expires, Subscribe, Load, Connect, Forward, ForwardKeepalive, ResetRead,
         ResetWrite, StreamEnds, Consume, TakeItem, HandleEvent, SaveCursor, Restart, svars, stream
<1>3. ASSUME NEW i \in Positions, i <= stored' \/ i <= current'
      PROVE  Dealt(i)'
  <2>1. i <= stored \/ i <= current \/ (saving /\ i <= working.pos)
    BY <1>1, <1>2, <1>3 DEF Earliest, Positions
  <2>2. Dealt(i)
    BY <2>1 DEF IInv, CursorsDealt, WorkingDealt, DealtTo
  <2>3. working # NoItem => working.pos \in Positions
    BY DEF IInv, STypeOK, Items
  <2>4. i <= head
    BY <2>1, <2>3 DEF IInv, WithinLog, STypeOK, Positions, Cursors, NoCursor, Earliest
  <2> QED
    BY <2>2, <2>4, DealtStays DEF IInv
<1> QED
  BY <1>3 DEF CursorsDealt, DealtTo

LEMMA WithinLogKept == ASSUME IInv, [SNext]_svars PROVE WithinLog'
<1>1. head \in Nat /\ (head' = head \/ head' = head + 1)
  <2>1. head' = head \/ head' = head + 1
    BY DEF SNext, LogEvent, Expires, Subscribe, Load, Connect, Forward, ForwardKeepalive, ResetRead,
           ResetWrite, StreamEnds, Consume, TakeItem, HandleEvent, SaveCursor, Restart, svars, salesforce
  <2> QED
    BY <2>1 DEF IInv, STypeOK, Positions
<1>2. base' \in {base, head}
  BY DEF SNext, LogEvent, Expires, Subscribe, Load, Connect, Forward, ForwardKeepalive, ResetRead,
         ResetWrite, StreamEnds, Consume, TakeItem, HandleEvent, SaveCursor, Restart, svars
<1>3. stored' \in {stored, Earliest, working.pos} /\ current' \in {current, stored}
  BY DEF SNext, LogEvent, Expires, Subscribe, Load, Connect, Forward, ForwardKeepalive, ResetRead,
         ResetWrite, StreamEnds, Consume, TakeItem, HandleEvent, SaveCursor, Restart, svars, stream
<1>4. next' <= head' + 1
  <2>1. CASE Connect
    BY <2>1, <1>1 DEF Connect, IInv, WithinLog, STypeOK, Positions, Cursors, NoCursor,
                      Earliest, salesforce
  <2>2. CASE Forward
    BY <2>2, <1>1 DEF Forward, IInv, STypeOK, Positions, salesforce
  <2>3. CASE ~Connect /\ ~Forward
    <3>1. next' = next
      BY <2>3 DEF SNext, LogEvent, Expires, Subscribe, Load, ForwardKeepalive, ResetRead,
             ResetWrite, StreamEnds, Consume, TakeItem, HandleEvent, SaveCursor, Restart, svars, stream
    <3>2. next \in Int
      BY StreamAssumption DEF IInv, STypeOK
    <3>3. next <= head + 1
      BY DEF IInv, WithinLog
    <3> QED
      BY <3>1, <3>2, <3>3, <1>1
  <2> QED
    BY <2>1, <2>2, <2>3
<1>5. working.pos <= head /\ \A k \in 1..Len(channel) : channel[k].pos <= head
  BY DEF IInv, WithinLog
<1>6. working.pos \in Int /\ \A k \in 1..Len(channel) : channel[k].pos \in Int
  <2>1. \A k \in 1..Len(channel) : channel[k] \in Items
    BY DEF IInv, STypeOK
  <2>2. working \in Items \union {NoItem}
    BY DEF IInv, STypeOK
  <2> QED
    BY <2>1, <2>2 DEF Items, NoItem, NoCursor, Positions
<1>7. working'.pos <= head' /\ \A k \in 1..Len(channel') : channel'[k].pos <= head'
  <2>1. CASE TakeItem
    <3>1. channel # <<>> /\ channel \in Seq(Items) /\ working' = channel[1]
      BY <2>1 DEF TakeItem, IInv, STypeOK
    <3>2. 1 \in 1..Len(channel)
      BY <3>1
    <3>3. \A k \in 1..Len(channel') : k + 1 \in 1..Len(channel) /\ channel'[k] = channel[k + 1]
      BY <2>1, <3>1 DEF TakeItem
    <3>4. working'.pos <= head'
      BY <3>1, <3>2, <1>1, <1>5, <1>6
    <3>5. ASSUME NEW k \in 1..Len(channel')
          PROVE  channel'[k].pos <= head'
      <4>1. channel[k + 1].pos <= head /\ channel[k + 1].pos \in Int
        BY <3>3, <3>5, <1>5, <1>6
      <4>2. channel'[k].pos = channel[k + 1].pos
        BY <3>3, <3>5
      <4> QED
        BY <4>1, <4>2, <1>1
    <3> QED
      BY <3>4, <3>5
  <2>2. ASSUME NEW item \in Items, Enqueue(item), item.pos <= head, UNCHANGED working
        PROVE  working'.pos <= head' /\ \A k \in 1..Len(channel') : channel'[k].pos <= head'
    <3>1. channel \in Seq(Items)
      BY DEF IInv, STypeOK
    <3>2. \A k \in 1..Len(channel') :
             \/ k \in 1..Len(channel) /\ channel'[k] = channel[k]
             \/ channel'[k] = item
      BY <2>2, <3>1 DEF Enqueue
    <3>3. item.pos \in Int
      BY DEF Items, Positions
    <3> QED
      BY <2>2, <3>2, <3>3, <1>1, <1>5, <1>6
  <2>3. CASE Forward
    <3>1. next \in Positions
      BY <2>3, StreamAssumption DEF Forward, IInv, STypeOK, Positions
    <3>2. [pos |-> next, cursorOnly |-> FALSE] \in Items
      BY <3>1 DEF Items
    <3> QED
      BY <2>2, <2>3, <3>2 DEF Forward, consumer
  <2>4. CASE ForwardKeepalive
    <3>1. [pos |-> head, cursorOnly |-> TRUE] \in Items
      BY DEF IInv, STypeOK, Items
    <3> QED
      BY <2>2, <2>4, <3>1, <1>1 DEF ForwardKeepalive, consumer
  <2>5. CASE SaveCursor \/ Restart
    <3>1. working' = NoItem /\ channel' \in {channel, <<>>}
      BY <2>5 DEF SaveCursor, Restart
    <3> QED
      BY <3>1, <1>1, <1>5, <1>6 DEF NoItem, NoCursor
  <2>6. CASE ~TakeItem /\ ~Forward /\ ~ForwardKeepalive /\ ~SaveCursor /\ ~Restart
    <3>1. UNCHANGED <<working, channel>>
      BY <2>6 DEF SNext, LogEvent, Expires, Subscribe, Load, Connect, ResetRead, ResetWrite,
                  StreamEnds, Consume, HandleEvent, svars, consumer
    <3> QED
      BY <3>1, <1>1, <1>5, <1>6
  <2> QED
    BY <2>1, <2>3, <2>4, <2>5, <2>6
<1>8. base' <= head' /\ stored' <= head' /\ current' <= head'
  BY <1>1, <1>2, <1>3, <1>5, <1>6
     DEF IInv, WithinLog, STypeOK, Positions, Cursors, NoCursor, Earliest
<1> QED
  BY <1>4, <1>7, <1>8 DEF WithinLog

LEMMA WorkingKept == ASSUME IInv, [SNext]_svars PROVE WorkingDealt'
<1> USE DEF IInv
<1>1. ASSUME working # NoItem
      PROVE  working \in Items /\ working.pos \in Positions /\ working.cursorOnly \in BOOLEAN
             /\ working.pos <= head
  BY <1>1 DEF STypeOK, Items, WithinLog
<1>2. CASE TakeItem
  <2>1. channel \in Seq(Items) /\ channel # <<>> /\ working' = channel[1]
        /\ saving' = channel[1].cursorOnly /\ working = NoItem
    BY <1>2 DEF TakeItem, STypeOK
  <2>2. 1 \in 1..Len(channel) /\ channel[1] \in Items
    BY <2>1
  <2>3. channel[1].pos \in Positions /\ channel[1].cursorOnly \in BOOLEAN
        /\ channel[1].pos <= head
    BY <2>2 DEF Items, WithinLog
  <2>4. ASSUME NEW i \in Positions, i <= Before(channel[1])
        PROVE  Dealt(i)'
    <3>1. Dealt(i) \/ Ahead(i, 1 - 1)
      BY <2>2, <2>4 DEF ChannelInOrder, AccountedTo
    <3>2. ~Ahead(i, 1 - 1)
      BY <2>1 DEF Ahead, NoItem, Event
    <3>3. i <= head
      BY <2>3, <2>4 DEF Before, STypeOK, Positions
    <3> QED
      BY <3>1, <3>2, <3>3, DealtStays
  <2>5. saving' => Before(channel[1]) = channel[1].pos
    BY <2>1 DEF Before
  <2> QED
    BY <2>1, <2>4, <2>5 DEF WorkingDealt, DealtTo, Before
<1>3. CASE HandleEvent
  <2>1. ASSUME NEW i \in Positions, i <= working.pos
        PROVE  Dealt(i)'
    <3>1. CASE i = working.pos
      BY <1>3, <3>1 DEF HandleEvent, Dealt
    <3>2. CASE i # working.pos
      <4>1. i <= Before(working) /\ i <= head
        BY <1>1, <1>3, <2>1, <3>2 DEF HandleEvent, Before, Positions, STypeOK
      <4> QED
        BY <1>3, <4>1, DealtStays DEF HandleEvent, WorkingDealt, DealtTo
    <3> QED
      BY <3>1, <3>2
  <2>2. Before(working) <= working.pos /\ Before(working) \in Int
    BY <1>1, <1>3 DEF HandleEvent, Before, Positions
  <2>3. ASSUME NEW i \in Positions, i <= Before(working)
        PROVE  i <= working.pos
    BY <1>1, <1>3, <2>2, <2>3 DEF HandleEvent, Positions
  <2> QED
    BY <1>3, <2>1, <2>3 DEF HandleEvent, WorkingDealt, DealtTo, Before
<1>4. CASE SaveCursor \/ Restart
  BY <1>4 DEF SaveCursor, Restart, WorkingDealt
<1>5. CASE ~TakeItem /\ ~HandleEvent /\ ~SaveCursor /\ ~Restart
  <2>1. UNCHANGED <<working, saving>>
    BY <1>5 DEF SNext, LogEvent, Expires, Subscribe, Load, Connect, Forward, ForwardKeepalive,
                ResetRead, ResetWrite, StreamEnds, Consume, svars, consumer
  <2>2. ASSUME working # NoItem, NEW i \in Positions, i <= Before(working), Dealt(i)
        PROVE  Dealt(i)'
    <3>1. i <= head
      BY <1>1, <2>2 DEF Before, STypeOK, Positions
    <3> QED
      BY <2>2, <3>1, DealtStays
  <2>3. ASSUME saving, NEW i \in Positions, i <= working.pos, Dealt(i)
        PROVE  Dealt(i)'
    <3>1. i <= head
      BY <1>1, <2>3 DEF STypeOK, Positions
    <3> QED
      BY <2>3, <3>1, DealtStays
  <2> QED
    BY <2>1, <2>2, <2>3 DEF WorkingDealt, DealtTo, Before
<1> QED
  BY <1>2, <1>3, <1>4, <1>5

(* Whoever is ahead stays ahead or is dealt with, unless the consumer      *)
(* takes an item or the pod dies.                                          *)
LEMMA AheadStays ==
    ASSUME IInv, [SNext]_svars, ~TakeItem, ~Restart, NEW i \in Positions, i <= head,
           NEW n \in 0..Len(channel), Dealt(i) \/ Ahead(i, n)
    PROVE  Dealt(i)' \/ Ahead(i, n)'
<1> USE DEF IInv
<1>1. CASE Dealt(i)
  BY <1>1, DealtStays
<1>2. CASE Ahead(i, n) /\ SaveCursor
  <2>1. Dealt(i) \/ Ahead(i, n)'
    BY <1>2, SaveDeals
  <2> QED
    BY <2>1, DealtStays
<1>3. CASE Ahead(i, n) /\ Forward
  <2>1. [pos |-> next, cursorOnly |-> FALSE] \in Items
    BY <1>3, StreamAssumption DEF Forward, STypeOK, Items, Positions
  <2> QED
    BY <1>3, <2>1, SendKeeps DEF Forward, consumer
<1>4. CASE Ahead(i, n) /\ ForwardKeepalive
  <2>1. [pos |-> head, cursorOnly |-> TRUE] \in Items
    BY DEF STypeOK, Items
  <2> QED
    BY <1>4, <2>1, SendKeeps DEF ForwardKeepalive, consumer
<1>5. CASE Ahead(i, n) /\ ~SaveCursor /\ ~Forward /\ ~ForwardKeepalive
  <2>1. UNCHANGED <<working, channel>>
    BY <1>5 DEF SNext, LogEvent, Expires, Subscribe, Load, Connect, ResetRead, ResetWrite,
                StreamEnds, Consume, HandleEvent, svars, consumer
  <2> QED
    BY <1>5, <2>1 DEF Ahead
<1> QED
  BY <1>1, <1>2, <1>3, <1>4, <1>5

LEMMA BeforeInLog ==
    ASSUME STypeOK, WithinLog, NEW k \in 1..Len(channel), NEW i \in Positions,
           i <= Before(channel[k])
    PROVE  i <= head
<1>1. channel[k] \in Items
  BY DEF STypeOK
<1>2. channel[k].pos \in Positions /\ channel[k].pos <= head
  BY <1>1 DEF Items, WithinLog
<1> QED
  BY <1>2 DEF Before, Positions, STypeOK

LEMMA ChannelKept == ASSUME IInv, [SNext]_svars PROVE ChannelInOrder'
<1> USE DEF IInv
<1>1. CASE TakeItem
  <2>1. channel \in Seq(Items) /\ channel # <<>> /\ channel' = Tail(channel)
    BY <1>1 DEF TakeItem, STypeOK
  <2>2. ASSUME NEW k \in 1..Len(channel'), NEW i \in Positions, i <= Before(channel'[k])
        PROVE  Dealt(i)' \/ Ahead(i, k - 1)'
    <3>1. k + 1 \in 1..Len(channel) /\ k \in 1..Len(channel) /\ channel'[k] = channel[k + 1]
      BY <2>1
    <3>2. Dealt(i) \/ Ahead(i, (k + 1) - 1)
      BY <2>2, <3>1 DEF ChannelInOrder, AccountedTo
    <3>3. (k + 1) - 1 = k
      OBVIOUS
    <3>4. i <= head
      BY <2>2, <3>1, BeforeInLog
    <3> QED
      BY <1>1, <3>1, <3>2, <3>3, <3>4, DealtStays, TakeShifts
  <2> QED
    BY <2>2 DEF ChannelInOrder, AccountedTo, Before
<1>2. CASE Restart
  BY <1>2 DEF Restart, ChannelInOrder
<1>3. CASE ~TakeItem /\ ~Restart
  <2>1. ASSUME NEW k \in 1..Len(channel), NEW i \in Positions, i <= Before(channel[k])
        PROVE  Dealt(i)' \/ Ahead(i, k - 1)'
    <3>1. Dealt(i) \/ Ahead(i, k - 1)
      BY <2>1 DEF ChannelInOrder, AccountedTo
    <3>2. k - 1 \in 0..Len(channel)
      BY DEF STypeOK
    <3> QED
      BY <1>3, <2>1, <3>1, <3>2, BeforeInLog, AheadStays
  <2>2. ASSUME NEW item \in Items, Enqueue(item), AccountedTo(Before(item), Len(channel)),
               item.pos <= head
        PROVE  ChannelInOrder'
    <3>1. channel \in Seq(Items) /\ channel' = Append(channel, item)
          /\ Len(channel) \in Nat
      BY <2>2 DEF STypeOK, Enqueue
    <3>2. ASSUME NEW k \in 1..Len(channel'), NEW i \in Positions, i <= Before(channel'[k])
          PROVE  Dealt(i)' \/ Ahead(i, k - 1)'
      <4>1. CASE k \in 1..Len(channel)
        BY <2>1, <3>1, <3>2, <4>1
      <4>2. CASE k \notin 1..Len(channel)
        <5>1. channel'[k] = item /\ k - 1 = Len(channel)
          BY <3>1, <4>2
        <5>2. Dealt(i) \/ Ahead(i, k - 1)
          BY <2>2, <3>2, <5>1 DEF AccountedTo
        <5>3. i <= head
          BY <2>2, <3>2, <5>1 DEF Before, Items, Positions, STypeOK
        <5> QED
          BY <1>3, <3>1, <5>1, <5>2, <5>3, AheadStays
      <4> QED
        BY <4>1, <4>2
    <3> QED
      BY <3>2 DEF ChannelInOrder, AccountedTo, Before
  <2>3. CASE Forward
    <3>1. [pos |-> next, cursorOnly |-> FALSE] \in Items /\ next <= head
      BY <2>3, StreamAssumption DEF Forward, STypeOK, Items, Positions
    <3>2. Before([pos |-> next, cursorOnly |-> FALSE]) = next - 1
      BY DEF Before
    <3> QED
      BY <2>2, <2>3, <3>1, <3>2 DEF Forward, StreamInOrder
  <2>4. CASE ForwardKeepalive
    <3>1. [pos |-> head, cursorOnly |-> TRUE] \in Items /\ head <= head
      BY DEF STypeOK, Items, Positions
    <3>2. Before([pos |-> head, cursorOnly |-> TRUE]) = next - 1
      BY <2>4 DEF Before, ForwardKeepalive, STypeOK, Positions
    <3> QED
      BY <2>2, <2>4, <3>1, <3>2 DEF ForwardKeepalive, StreamInOrder
  <2>5. CASE ~Forward /\ ~ForwardKeepalive
    <3>1. channel' = channel
      BY <1>3, <2>5 DEF SNext, LogEvent, Expires, Subscribe, Load, Connect, ResetRead,
             ResetWrite, StreamEnds, Consume, HandleEvent, SaveCursor, svars
    <3> QED
      BY <2>1, <3>1 DEF ChannelInOrder, AccountedTo, Before
  <2> QED
    BY <2>3, <2>4, <2>5
<1> QED
  BY <1>1, <1>2, <1>3

LEMMA StreamKept == ASSUME IInv, [SNext]_svars PROVE StreamInOrder'
<1> USE DEF IInv
<1>1. CASE Connect
  <2>1. ASSUME subscriber' = "streaming", NEW i \in Positions, i <= next' - 1
        PROVE  Dealt(i)'
    <3>1. CASE current = NoCursor
      BY <1>1, <2>1, <3>1 DEF Connect, Dealt, STypeOK, Positions, NoCursor, Earliest
    <3>2. CASE current = Earliest
      BY <1>1, <2>1, <3>2
         DEF Connect, Dealt, STypeOK, Positions, NoCursor, Earliest, salesforce
    <3>3. CASE current \in Positions
      <4>1. current # NoCursor /\ current # Earliest
        BY <3>3 DEF Positions, NoCursor, Earliest
      <4>2. next' = current + 1
        BY <1>1, <2>1, <4>1 DEF Connect, Moved
      <4>3. i <= current /\ i <= head
        BY <2>1, <3>3, <4>2 DEF WithinLog, STypeOK, Positions
      <4> QED
        BY <4>3, DealtStays DEF CursorsDealt, DealtTo
    <3> QED
      BY <3>1, <3>2, <3>3 DEF STypeOK, Cursors
  <2> QED
    BY <2>1 DEF StreamInOrder, AccountedTo
<1>2. ASSUME NEW i \in Positions, i <= next - 1
      PROVE  i <= head
  BY <1>2, StreamAssumption DEF WithinLog, STypeOK, Positions
<1>3. ASSUME subscriber = "streaming", NEW i \in Positions, i <= next - 1
      PROVE  Dealt(i) \/ Ahead(i, Len(channel))
  BY <1>3 DEF StreamInOrder, AccountedTo
<1>4. CASE TakeItem
  <2>1. subscriber' = subscriber /\ next' = next /\ channel' = Tail(channel)
        /\ channel # <<>> /\ channel \in Seq(Items)
    BY <1>4 DEF TakeItem, STypeOK, stream
  <2>2. PICK n \in Nat : n = Len(channel)
    BY <2>1
  <2>3. n \in 1..Len(channel) /\ n - 1 = Len(channel')
    BY <2>1, <2>2
  <2>4. ASSUME subscriber = "streaming", NEW i \in Positions, i <= next - 1
        PROVE  Dealt(i)' \/ Ahead(i, Len(channel))'
    <3>1. Dealt(i) \/ Ahead(i, n)
      BY <1>3, <2>2, <2>4
    <3>2. Dealt(i)' \/ Ahead(i, n - 1)'
      BY <1>2, <1>4, <2>3, <2>4, <3>1, DealtStays, TakeShifts
    <3> QED
      BY <2>3, <3>2 DEF Ahead
  <2> QED
    BY <2>1, <2>4 DEF StreamInOrder, AccountedTo
<1>5. CASE Restart
  BY <1>5 DEF Restart, Moved, StreamInOrder
<1>6. CASE ~TakeItem /\ ~Restart /\ ~Connect
  <2>1. channel \in Seq(Items)
    BY DEF STypeOK
  <2>2. PICK n \in Nat : n = Len(channel)
    BY <2>1
  <2>3. ASSUME subscriber = "streaming", NEW i \in Positions, i <= next - 1
        PROVE  Dealt(i)' \/ Ahead(i, n)'
    <3>1. Dealt(i) \/ Ahead(i, n)
      BY <1>3, <2>2, <2>3
    <3>2. n \in 0..Len(channel)
      BY <2>2
    <3> QED
      BY <1>2, <1>6, <2>3, <3>1, <3>2, AheadStays
  <2>4. ASSUME NEW item, channel' = Append(channel, item)
        PROVE  n + 1 = Len(channel') /\ channel'[n + 1] = item
    BY <2>1, <2>2, <2>4
  <2>5. CASE Forward
    <3>1. /\ channel' = Append(channel, Event(next))
          /\ next \in Int
          /\ next' = next + 1
          /\ subscriber = "streaming"
      BY <2>5, StreamAssumption DEF Forward, Enqueue, Event, STypeOK
    <3>2. ASSUME NEW i \in Positions, i <= next' - 1
          PROVE  Dealt(i)' \/ Ahead(i, Len(channel))'
      <4>1. CASE i = next
        <5>1. n + 1 \in 1..Len(channel') /\ channel'[n + 1] = Event(i)
          BY <2>2, <2>4, <3>1, <4>1
        <5> QED
          BY <5>1 DEF Ahead
      <4>2. CASE i # next
        <5>1. Dealt(i)' \/ Ahead(i, n)'
          BY <2>3, <3>1, <3>2, <4>2 DEF Positions
        <5>2. \A k \in 1..n : k \in 1..Len(channel')
          BY <2>2, <2>4, <3>1
        <5> QED
          BY <5>1, <5>2 DEF Ahead
      <4> QED
        BY <4>1, <4>2
    <3> QED
      BY <3>2 DEF StreamInOrder, AccountedTo
  <2>6. CASE ForwardKeepalive
    <3>1. /\ channel' = Append(channel, [pos |-> head, cursorOnly |-> TRUE])
          /\ next' = next
          /\ subscriber = "streaming"
      BY <2>6 DEF ForwardKeepalive, Enqueue, stream
    <3>2. \A k \in 1..n : k \in 1..Len(channel')
      BY <2>2, <2>4, <3>1
    <3> QED
      BY <2>3, <3>1, <3>2 DEF StreamInOrder, AccountedTo, Ahead
  <2>7. CASE ~Forward /\ ~ForwardKeepalive
    <3>1. /\ subscriber' = "streaming" => subscriber = "streaming"
          /\ next' = next
          /\ channel' = channel
      BY <1>6, <2>7 DEF SNext, LogEvent, Expires, Subscribe, Load, ResetRead, ResetWrite,
             StreamEnds, Consume, HandleEvent, SaveCursor, svars, stream, Moved
    <3> QED
      BY <2>2, <2>3, <3>1 DEF StreamInOrder, AccountedTo, Ahead
  <2> QED
    BY <2>5, <2>6, <2>7
<1> QED
  BY <1>1, <1>4, <1>5, <1>6

LEMMA FreshKept == ASSUME IInv, [SNext]_svars PROVE ResetFresh'
<1> USE DEF IInv, ResetFresh
<1>1. CASE ResetRead
  BY <1>1 DEF ResetRead, Moved
<1>2. CASE SaveCursor
  BY <1>2 DEF SaveCursor
<1>3. CASE ~ResetRead /\ ~SaveCursor
  <2>1. \/ subscriber' # "reset"
        \/ UNCHANGED <<subscriber, unchanged, stored, current>>
    BY <1>3 DEF SNext, LogEvent, Expires, Subscribe, Load, Connect, Forward, ForwardKeepalive,
           ResetWrite, StreamEnds, Consume, TakeItem, HandleEvent, Restart, svars, stream, Moved
  <2> QED
    BY <2>1
<1> QED
  BY <1>1, <1>2, <1>3

----------------------------------------------------------------------------
LEMMA InitInv == SInit => IInv
<1> SUFFICES ASSUME SInit PROVE IInv
  OBVIOUS
<1>1. WithinLog
  BY DEF SInit, WithinLog, NoCursor, NoItem
<1>2. ASSUME NEW i \in Positions, i <= stored
      PROVE  Dealt(i)
  BY <1>2 DEF SInit, Dealt
<1>3. ASSUME NEW i \in Positions, i <= current
      PROVE  Dealt(i)
  BY <1>3 DEF SInit, Positions, NoCursor
<1> QED
  BY <1>1, <1>2, <1>3, InitTyped
     DEF SInit, IInv, CursorsDealt, DealtTo, WorkingDealt, ChannelInOrder, StreamInOrder,
         ResetFresh

LEMMA NextInv == ASSUME IInv, [SNext]_svars PROVE IInv'
BY NextTyped, WithinLogKept, CursorsKept, WorkingKept, ChannelKept, StreamKept, FreshKept
   DEF IInv

THEOREM Inductive == SSpec => []IInv
BY InitInv, NextInv, PTL DEF SSpec

(* A committed cursor has no unhandled event behind it that was logged     *)
(* after the last subscription at LATEST and that Salesforce still keeps:  *)
(* events may sit in the channel across reconnects, and a keepalive's      *)
(* cursor passes none of them.                                             *)
THEOREM DeliveredAtLeastOnce == SSpec => []AtLeastOnce
<1>1. IInv => AtLeastOnce
  <2>1. ASSUME IInv, NEW i \in Positions, base # NoCursor, base < i, i <= stored
        PROVE  i \in handled \/ i <= retained
    <3>1. Dealt(i)
      BY <2>1 DEF IInv, CursorsDealt, DealtTo
    <3> QED
      BY <2>1, <3>1 DEF Dealt, IInv, STypeOK, Positions
  <2> QED
    BY <2>1 DEF AtLeastOnce
<1> QED
  BY <1>1, Inductive, PTL

(* Only the cursor Salesforce rejected is ever replaced by a reset: a      *)
(* newer one the consumer saved while the reset was under way stays.       *)
THEOREM ResetsKeepNewer == SSpec => ResetKeepsNewer
<1>1. IInv /\ [SNext]_svars => [stored # Earliest /\ stored' = Earliest => stored = current]_svars
  <2>1. ASSUME IInv, SNext, stored # Earliest, stored' = Earliest
        PROVE  stored = current
    <3>1. CASE ResetWrite
      BY <2>1, <3>1 DEF ResetWrite, IInv, ResetFresh
    <3>2. CASE SaveCursor
      <4>1. working.pos \in Positions
        BY <2>1, <3>2 DEF SaveCursor, IInv, STypeOK, Items
      <4>2. working.pos # Earliest
        BY <4>1 DEF Positions, Earliest
      <4> QED
        BY <2>1, <3>2, <4>2 DEF SaveCursor
    <3>3. CASE ~ResetWrite /\ ~SaveCursor
      <4>1. stored' = stored
        BY <2>1, <3>3 DEF SNext, LogEvent, Expires, Subscribe, Load, Connect, Forward, ForwardKeepalive,
               ResetRead, StreamEnds, Consume, TakeItem, HandleEvent, Restart
      <4> QED
        BY <2>1, <4>1
    <3> QED
      BY <3>1, <3>2, <3>3
  <2> QED
    BY <2>1
<1> QED
  BY <1>1, Inductive, PTL DEF SSpec, ResetKeepsNewer

=============================================================================
