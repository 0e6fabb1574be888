------------------------ MODULE KeyContactCalm_proofs ------------------------
(***************************************************************************)
(* Proofs about the grants of key contacts when calls and changes come one *)
(* after another, for any number of records, pairs and writers, however    *)
(* many calls fail and processes die: an address is given up only after    *)
(* the remove of its pair, no tuple that nothing justifies is left without *)
(* one, and none that a record justifies is taken; and without failures no *)
(* tuple outlives the last record that justifies it.                       *)
(*                                                                         *)
(* The programs of the workers are composed of one another, so what is     *)
(* inductive speaks of every program left: which calls may wait behind     *)
(* which, what those that go by an entry or a scan read earlier can rely   *)
(* on, and which calls promise that a pair will be named.                  *)
(***************************************************************************)
EXTENDS KeyContactGrant_proofs

(* What a call in progress takes for granted is so. A save takes nothing   *)
(* for granted, and nothing is left to do behind it.                       *)
Saving(w) == work[w].todo = Only("save") /\ ~work[w].hold
Fitting(w) == Fits(w) \/ Saving(w)

(* A tame program is left.                                                 *)
LEMMA TameLeft == ASSUME NEW w \in Workers, work'[w].todo \in Seq(TameSteps) PROVE Fits(w)'
<1>1. PICK t, e, k, A, V : /\ t = work'[w].todo /\ e = work'[w].entry /\ k = work'[w].k
                           /\ A = Addressed' /\ V = sf'
  OBVIOUS
<1>2. Fit(e, k, t, A, V)
  BY <1>1, TameAre, TameFit
<1> QED BY <1>1, <1>2 DEF Fits

(* An update by the API.                                                   *)
LEMMA SaveUpdateFits == ASSUME Shape, NEW w \in Workers, SaveUpdate(w), Fitting(w) PROVE Fits(w)'
<1>1. At(w, "save") /\ Working
  BY DEF SaveUpdate, Shape
<1>2. work[w].todo = Only("save") /\ work[w] \in Jobs /\ work[w].todo # <<>> /\ work[w].kc \in Records
  BY <1>1, HeadSure, AtFacts DEF Fitting, Saving
<1>3. Tail(work[w].todo) \in Seq(TameSteps)
  <2>1. PICK s : s = Step("save", None)
    OBVIOUS
  <2>2. work[w].todo = <<s>>
    BY <1>2, <2>1, OnlyIs
  <2>3. Tail(<<s>>) = <<>>
    OBVIOUS
  <2> QED BY <2>2, <2>3, TamePrograms
<1>4. ASSUME NEW job \in Jobs, job.todo = work[w].todo, NEW steps \in Seq(TameSteps),
             Go(w, job, <<>>, steps)
      PROVE  Fits(w)'
  <2>1. steps \in Seq(Steps)
    BY <1>4, TameAre
  <2>2. work'[w].todo = steps \o Tail(job.todo)
    BY <1>1, <1>2, <1>4, <2>1, GoHas
  <2>3. work'[w].todo \in Seq(TameSteps)
    BY <1>3, <1>4, <2>2, TamePrograms
  <2> QED BY <2>3, TameLeft
<1>5. /\ Only("fail") \in Seq(TameSteps) /\ Only("publish") \in Seq(TameSteps)
      /\ Only("catch") \in Seq(TameSteps) /\ Only("expireLive") \in Seq(TameSteps)
      /\ \A p \in PairOrNone : For(<<"scanQuick">>, p) \in Seq(TameSteps)
  BY TamePrograms DEF Calls, Delicate, Asserts, Heeds
<1>6. CASE Go(w, work[w], <<>>, Only("fail"))
  BY <1>2, <1>4, <1>5, <1>6
<1>7. ASSUME NEW new \in Live, NEW renamed \in BOOLEAN,
             Go(w, [work[w] EXCEPT !.kc = new], <<>>,
                IF renamed THEN Only("publish") \o Only("catch")
                     \o (IF new.pair = work[w].kc.pair THEN <<>>
                         ELSE WhenSet(work[w].kc.pair, For(<<"scanQuick">>, work[w].kc.pair)))
                ELSE IF new.pair = None THEN Only("expireLive") ELSE Only("publish"))
      PROVE  Fits(w)'
  <2>1. PICK job, old : job = [work[w] EXCEPT !.kc = new] /\ old = work[w].kc.pair
    OBVIOUS
  <2>2. PICK b, steps : /\ b = (IF new.pair = old THEN <<>> ELSE WhenSet(old, For(<<"scanQuick">>, old)))
                        /\ steps = IF renamed THEN Only("publish") \o Only("catch") \o b
                                   ELSE IF new.pair = None THEN Only("expireLive") ELSE Only("publish")
    OBVIOUS
  <2>3. job \in Jobs /\ job.todo = work[w].todo
    BY <1>2, <2>1, JobSets, LiveAre
  <2>4. old \in PairOrNone
    BY <1>2, <2>1 DEF Records, Gone, PairOrNone
  <2>5. b \in Seq(TameSteps)
    BY <1>5, <2>2, <2>4, TamePrograms DEF WhenSet
  <2>6. steps \in Seq(TameSteps)
    <3>1. Only("publish") \o Only("catch") \in Seq(TameSteps)
      BY <1>5, TamePrograms
    <3>2. Only("publish") \o Only("catch") \o b \in Seq(TameSteps)
      BY <2>5, <3>1, TamePrograms
    <3> QED BY <1>5, <2>2, <3>2
  <2>7. Go(w, job, <<>>, steps)
    BY <1>7, <2>1, <2>2
  <2> QED BY <1>4, <2>3, <2>6, <2>7
<1> QED BY <1>6, <1>7 DEF SaveUpdate

(* What a handler leaves to do takes no more for granted.                  *)
LEMMA HandledFit ==
  ASSUME NEW job \in Jobs, Sound(job), job.todo # <<>>, NEW k, NEW A, NEW V,
         Fit(job.entry, k, job.todo, A, V)
  PROVE  Handled(job) \in Seq(Steps) /\ Fit(job.entry, k, Handled(job), A, V)
<1>1. PICK t, h, e, new : t = job.todo /\ h = FirstHandler(t) /\ e = job.entry /\ new = Handled(job)
  OBVIOUS
<1>2. t \in Seq(Steps) /\ t \in Seq(NamedSteps) /\ e \in Entries
  BY <1>1 DEF Jobs, Sound
<1>3. SUFFICES new \in Seq(Steps) /\ Fit(e, k, new, A, V)
  BY <1>1
<1>4. ASSUME new \in Seq(TameSteps) PROVE new \in Seq(Steps) /\ Fit(e, k, new, A, V)
  BY <1>4, TameAre, TameFit
<1>5. CASE h = 0
  BY <1>1, <1>4, <1>5, TamePrograms DEF Handled
<1>6. CASE h # 0
  <2>1. h \in 2 .. Len(t) /\ t[h].do \in Handlers /\ t[h] \in NamedSteps
    BY <1>1, <1>2, <1>6, FirstHandlerIs
  <2>2. CASE t[h].do = "catch"
    <3>1. new = SubSeq(t, h + 1, Len(t))
      BY <1>1, <1>6, <2>2 DEF Handled
    <3>2. /\ Len(t) \in Nat /\ new \in Seq(Steps) /\ Len(new) = Len(t) - h
          /\ \A i \in 1 .. Len(new) : i + h \in 1 .. Len(t) /\ new[i] = t[i + h]
      BY <1>2, <2>1, <3>1
    <3>3. ASSUME NEW i \in 1 .. Len(new) PROVE new[i].do \notin Delicate
      <4>1. i + h \in 1 .. Len(t) /\ h \in 1 .. Len(t) /\ h < i + h /\ new[i] = t[i + h]
        BY <2>1, <3>2
      <4> QED BY <1>1, <2>2, <4>1 DEF Fit, Closed, Fence
    <3>4. Tame(new)
      BY <3>3 DEF Tame
    <3> QED BY <3>2, <3>4, TameFit
  <2>3. CASE t[h].do = "stop"
    BY <1>1, <1>4, <1>6, <2>3, TamePrograms DEF Handled
  <2>4. CASE t[h].do = "keepMarker"
    <3>1. new = Only("clear") /\ Only("clear") \in Seq(TameSteps)
      BY <1>1, <1>6, <2>4, TamePrograms DEF Handled, Calls, Delicate, Asserts, Heeds
    <3> QED BY <1>4, <3>1
  <2>5. CASE t[h].do = "recover"
    <3>1. PICK p, m : p = t[h].pair /\ m = e.marker
      OBVIOUS
    <3>2. new = (IF m # None /\ e.pair # p THEN Drain(m) \o For(<<"clearMarker">>, m) ELSE <<>>)
                \o For(<<"record">>, p)
      BY <1>1, <1>6, <2>5, <3>1 DEF Handled
    <3>3. p \in Pairs /\ m \in PairOrNone /\ m \in A
      <4>1. h \in 1 .. Len(t)
        BY <2>1
      <4>2. Sure(e, k, t[h], A, V)
        BY <1>1, <4>1 DEF Fit, AllSure
      <4> QED BY <1>2, <2>1, <2>5, <3>1, <4>2 DEF NamedSteps, Paired, Entries, PairOrNone, Sure, Heeds
    <3>4. PICK r : r = For(<<"record">>, p)
      OBVIOUS
    <3>5. r \in Seq(TameSteps)
      BY <3>3, <3>4, TamePrograms DEF Calls, Delicate, Asserts, Heeds, PairOrNone
    <3>6. CASE m # None /\ e.pair # p
      <4>1. new = RevokeSuperseded(m) \o r /\ m \in Pairs
        BY <3>2, <3>3, <3>4, <3>6 DEF RevokeSuperseded, PairOrNone
      <4> QED BY <3>3, <3>5, <4>1, SupersededThen
    <3>7. CASE ~(m # None /\ e.pair # p)
      <4>1. new = <<>> \o r
        BY <3>2, <3>4, <3>7
      <4> QED BY <1>4, <3>5, <4>1, TamePrograms
    <3> QED BY <3>6, <3>7
  <2> QED BY <2>1, <2>2, <2>3, <2>4, <2>5 DEF Handlers
<1> QED BY <1>5, <1>6

(* A failure leaves nothing else to do behind a save.                      *)
LEMMA SaveHandled == ASSUME NEW job, job.todo = Only("save") PROVE Handled(job) = <<>>
<1>1. PICK s : s = Step("save", None)
  OBVIOUS
<1>2. job.todo = <<s>>
  BY <1>1, OnlyIs
<1>3. Len(<<s>>) = 1
  OBVIOUS
<1>4. {i \in 2 .. Len(job.todo) : job.todo[i].do \in Handlers} = {}
  BY <1>2, <1>3
<1>5. FirstHandler(job.todo) = 0
  BY <1>4 DEF FirstHandler
<1> QED BY <1>5 DEF Handled

(* A call fails.                                                           *)
LEMMA FailsFits ==
  ASSUME Shape, NEW w \in Workers, Fails(w) \/ CallFails(w), Fitting(w)
  PROVE  Fits(w)'
<1>1. /\ work[w].todo # <<>> /\ Working /\ work[w] \in Jobs /\ sf' = sf /\ Addressed' = Addressed
      /\ Sound(work[w])
  BY SameNames DEF Fails, CallFails, At, Shape, Working, local, bucket
<1>2. PICK old, A, k : old = work[w] /\ A = Addressed /\ k = work[w].k
  OBVIOUS
<1>3. CASE GiveUp(w)
  <2>1. PICK steps : steps = Handled(old)
    OBVIOUS
  <2>2. steps \in Seq(Steps) /\ Fit(old.entry, k, steps, A, sf)
    <3>1. CASE Fits(w)
      BY <1>1, <1>2, <2>1, <3>1, HandledFit DEF Fits
    <3>2. CASE Saving(w)
      <4>1. steps = <<>>
        BY <1>2, <2>1, <3>2, SaveHandled DEF Saving
      <4> QED BY <4>1, TamePrograms, TameAre, TameFit
    <3> QED BY <3>1, <3>2 DEF Fitting
  <2> DEFINE new == [old EXCEPT !.hold = TRUE, !.todo = steps]
  <2>3. new.todo = steps /\ new.entry = old.entry /\ new.k = old.k
    BY <1>1, <1>2 DEF Jobs
  <2>4. work'[w] = new
    BY <1>1, <1>2, <1>3, <2>1 DEF GiveUp, Working
  <2> HIDE DEF new
  <2> QED BY <1>1, <1>2, <2>2, <2>3, <2>4 DEF Fits
<1>4. CASE /\ work' = [work EXCEPT ![w].todo = Tail(@)]
           /\ Head(work[w].todo).do \in Swallowed \/ At(w, "lookup")
  <2>1. PICK steps : steps = Tail(old.todo)
    OBVIOUS
  <2>2. Fit(old.entry, k, steps, A, sf)
    <3>1. CASE Fits(w)
      <4>1. old.todo \in Seq(Steps)
        BY <1>1, <1>2 DEF Jobs
      <4> QED BY <1>1, <1>2, <2>1, <3>1, <4>1, FitTail DEF Fits
    <3>2. CASE Saving(w)
      <4>1. Head(work[w].todo).do = "save"
        <5>1. PICK s : s = Step("save", None)
          OBVIOUS
        <5>2. work[w].todo = <<s>> /\ s.do = "save" /\ Head(<<s>>) = s
          BY <3>2, <5>1, OnlyIs DEF Saving
        <5> QED BY <5>2
      <4> QED BY <1>4, <4>1 DEF Swallowed, At
    <3> QED BY <3>1, <3>2 DEF Fitting
  <2> DEFINE new == [old EXCEPT !.todo = steps]
  <2>3. new.todo = steps /\ new.entry = old.entry /\ new.k = old.k
    BY <1>1, <1>2 DEF Jobs
  <2>4. work'[w] = new
    BY <1>1, <1>2, <1>4, <2>1 DEF Working
  <2> HIDE DEF new
  <2> QED BY <1>1, <1>2, <2>2, <2>3, <2>4 DEF Fits
<1> QED BY <1>3, <1>4 DEF Fails, CallFails

(* A worker without a call takes nothing for granted.                      *)
LEMMA IdleFits == ASSUME NEW w \in Workers, work'[w] = Idle PROVE Fits(w)'
<1>1. work'[w].todo = <<>>
  BY DEF Idle
<1> QED BY <1>1, TamePrograms, TameLeft

(* What the guards of the calls need.                                      *)
LEMMA FittingSilent ==
  ASSUME NEW w \in Workers, Fitting(w)
  PROVE  /\ Silent(w)
         /\ work[w].todo # Only("save") => Handing(work[w].todo) /\ Halted(work[w].entry, work[w].todo)
<1>1. CASE Fits(w)
  <2>1. Handing(work[w].todo) /\ Halted(work[w].entry, work[w].todo)
    BY <1>1 DEF Fits, Fit
  <2>2. Silent(w)
    BY <1>1 DEF Fits, Fit, AllSure, Sure, Silent
  <2> QED BY <2>1, <2>2
<1>2. CASE Saving(w)
  <2>1. PICK s : s = Step("save", None)
    OBVIOUS
  <2>2. work[w].todo = <<s>> /\ s.do = "save"
    BY <1>2, <2>1, OnlyIs DEF Saving
  <2>3. Len(<<s>>) = 1 /\ <<s>>[1] = s
    OBVIOUS
  <2>4. \A i \in 1 .. Len(work[w].todo) : work[w].todo[i].do = "save"
    BY <2>2, <2>3
  <2>5. Silent(w)
    BY <2>4 DEF Silent
  <2> QED BY <1>2, <2>5 DEF Saving
<1> QED BY <1>1, <1>2 DEF Fitting

(* A call at work on something else is not saving.                         *)
LEMMA AtFits ==
  ASSUME NEW w \in Workers, NEW d, At(w, d), d # "save", Fitting(w)
  PROVE  Fits(w) /\ Handing(work[w].todo) /\ Halted(work[w].entry, work[w].todo)
<1>1. ~Saving(w)
  <2>1. SUFFICES ASSUME work[w].todo = Only("save") PROVE FALSE
    BY DEF Saving
  <2>2. PICK s : s = Step("save", None)
    OBVIOUS
  <2>3. work[w].todo = <<s>> /\ s.do = "save" /\ Head(<<s>>) = s
    BY <2>1, <2>2, OnlyIs
  <2> QED BY <2>3 DEF At
<1> QED BY <1>1 DEF Fitting, Fits, Fit

(* Whatever a worker does, it keeps what its program relies on.            *)
LEMMA RunGuarded ==
  ASSUME Shape, NEW w \in Workers, Run(w) \/ CallFails(w) \/ Crash(w), Guarded(w), Fitting(w)
  PROVE  Guarded(w)'
<1>1. CASE Revoke(w)
  <2>1. CASE Settle(w)
    <3>1. Handing(work[w].todo) /\ Halted(work[w].entry, work[w].todo)
      BY <2>1, AtFits DEF Settle
    <3> QED BY <2>1, <3>1, SettleGuarded
  <2>2. CASE Reassert(w)
    <3>1. Handing(work[w].todo) /\ Halted(work[w].entry, work[w].todo)
      BY <2>2, AtFits DEF Reassert
    <3> QED BY <2>2, <3>1, ReassertGuarded
  <2>3. Silent(w)
    BY FittingSilent
  <2> QED BY <1>1, <2>1, <2>2, <2>3, ScanGuarded, FlushGuarded, RecheckGuarded, VerifyGuarded,
             ConfirmLiveGuarded, OwnGuarded, ClearGuarded DEF Revoke
<1>2. CASE Grant(w)
  BY <1>2, SnapshotGuarded, PublishGuarded, InactiveGuarded, RecordGuarded, WriteGuarded DEF Grant
<1>3. CASE RevokeNoLongerLive(w)
  <2>1. Silent(w)
    BY FittingSilent
  <2> QED BY <1>3, <2>1, ExpireGuarded, JustifyGuarded, ClaimGuarded, ClaimedGuarded, RecheckGuarded,
             CompareGuarded, ClearGuarded DEF RevokeNoLongerLive
<1> QED BY <1>1, <1>2, <1>3, LookupGuarded, WithdrawGuarded, ClearGuarded, SaveUpdateGuarded,
           SettleStaleGuarded, DeleteRecordGuarded, FailsGuarded, PassGuarded, StopGuarded DEF Run

(* ... and what it takes for granted.                                      *)
LEMMA RunFits ==
  ASSUME Shape, NEW w \in Workers, Run(w) \/ CallFails(w) \/ Crash(w), Guarded(w), Fitting(w), Sees(w)
  PROVE  Fits(w)'
<1>1. ASSUME NEW d, At(w, d), d # "save" PROVE Fits(w)
  BY <1>1, AtFits
<1>2. CASE Revoke(w)
  <2>1. Fits(w)
    BY <1>1, <1>2 DEF Revoke, Scan, Flush, Recheck, Verify, ConfirmLive, Settle, Reassert, Own, ClearMarker
  <2> QED BY <1>2, <2>1, ScanFits, RevokeFits, OwnFits, DropFits DEF Revoke
<1>3. CASE Grant(w)
  <2>1. Fits(w)
    BY <1>1, <1>3 DEF Grant, Snapshot, Publish, Inactive, Record, Write
  <2> QED BY <1>3, <2>1, SnapshotFits, PublishFits, InactiveFits, RecordFits, WriteFits DEF Grant
<1>4. CASE RevokeNoLongerLive(w)
  <2>1. Fits(w)
    BY <1>1, <1>4 DEF RevokeNoLongerLive, Expire, Justify, Claim, Claimed, Regranted, Compare, Clear
  <2> QED BY <1>4, <2>1, ExpireFits, JustifyFits, ClaimFits, ClaimedFits, RevokeFits, CompareFits,
             DropFits DEF RevokeNoLongerLive
<1>5. CASE Lookup(w) \/ Withdraw(w) \/ EraseEntry(w) \/ SettleStale(w) \/ DeleteRecord(w) \/ Pass(w)
  <2>1. Fits(w)
    BY <1>1, <1>5 DEF Lookup, Withdraw, EraseEntry, SettleStale, DeleteRecord, Pass, Handlers
  <2> QED BY <1>5, <2>1, LookupFits, WithdrawFits, DropFits, SettleStaleFits, DeleteRecordFits
<1>6. CASE End(w) \/ Crash(w)
  <2>1. work'[w] = Idle
    BY <1>6 DEF End, Crash, Shape, Working
  <2> QED BY <2>1, IdleFits
<1> QED BY <1>2, <1>3, <1>4, <1>5, <1>6, SaveUpdateFits, FailsFits DEF Run

(* A worker's step that leaves the view, and Salesforce but for the record.*)
LEMMA KeepsSees ==
  ASSUME NEW w \in Workers, Sees(w), work'[w].view = work[w].view, work'[w].k = work[w].k,
         \A s \in Contacts \ {work[w].k} : sf'[s] = sf[s]
  PROVE  Sees(w)'
  BY DEF Sees

(* What calls are replaced by.                                             *)
LEMMA StepPrograms ==
  /\ <<>> \in Seq(Steps)
  /\ \A d \in Calls : /\ Only(d) \in Seq(Steps)
                      /\ \A p \in PairOrNone : For(<<d>>, p) \in Seq(Steps)
  /\ \A p \in PairOrNone : /\ For(<<"scan", "own">>, p) \in Seq(Steps)
                           /\ For(<<"regranted", "compare">>, p) \in Seq(Steps)
                           /\ For(<<"scan", "recover", "own", "stop">>, p) \in Seq(Steps)
                           /\ Drain(p) \in Seq(Steps)
                           /\ RevokeSuperseded(p) \in Seq(Steps)
                           /\ RevokeConfirmed(p) \in Seq(Steps)
  /\ \A a, b \in Seq(Steps) : a \o b \in Seq(Steps)
<1>1. \A a, b \in Seq(Steps) : a \o b \in Seq(Steps)
  OBVIOUS
<1>2. \A d \in Calls : <<d>> \in Seq(Calls)
  OBVIOUS
<1>3. \A d \in Calls : /\ Only(d) \in Seq(Steps)
                       /\ \A p \in PairOrNone : For(<<d>>, p) \in Seq(Steps)
  <2>1. ASSUME NEW d \in Calls PROVE Only(d) \in Seq(Steps)
    <3>1. Step(d, None) \in Steps
      BY StepTypes DEF PairOrNone
    <3> QED BY <3>1, OneOf
  <2> QED BY <1>2, <2>1, ForType
<1>4. ASSUME NEW p \in PairOrNone
      PROVE  /\ For(<<"scan", "own">>, p) \in Seq(Steps)
             /\ For(<<"regranted", "compare">>, p) \in Seq(Steps)
             /\ For(<<"scan", "recover", "own", "stop">>, p) \in Seq(Steps)
             /\ Drain(p) \in Seq(Steps)
             /\ RevokeSuperseded(p) \in Seq(Steps)
             /\ RevokeConfirmed(p) \in Seq(Steps)
  <2>1. /\ <<"scan", "own">> \in Seq(Calls) /\ <<"regranted", "compare">> \in Seq(Calls)
        /\ <<"scan", "recover", "own", "stop">> \in Seq(Calls)
        /\ <<"scan", "settle", "own">> \in Seq(Calls)
        /\ <<"scan", "confirmLive", "reassert", "own">> \in Seq(Calls)
        /\ "clearMarker" \in Calls
    BY SmallPrograms DEF Calls
  <2>2. For(<<"clearMarker">>, p) \in Seq(Steps)
    BY <1>3, <2>1
  <2>3. Drain(p) \in Seq(Steps)
    BY <2>1, ForType DEF Drain
  <2> QED BY <1>1, <2>1, <2>2, <2>3, ForType DEF RevokeSuperseded, RevokeConfirmed
<1>5. <<>> \in Seq(Steps)
  OBVIOUS
<1> QED BY <1>1, <1>3, <1>4, <1>5

(* A call is done: the worker's job goes on, about the same record.        *)
Moves(w) == \E msgs : \E job \in Jobs, steps \in Seq(Steps) :
    /\ Go(w, job, msgs, steps)
    /\ work[w].todo # <<>> /\ job.todo = work[w].todo /\ job.k = work[w].k
    /\ job.hold = work[w].hold
    /\ job.view = work[w].view \/ (job.view = sf /\ sf' = sf)
    /\ job.kc = work[w].kc \/ At(w, "save")

(* The job as it is, or with another sibling or entry.                     *)
LEMMA GoMoves ==
  ASSUME Working, NEW w \in Workers, NEW d, At(w, d), NEW msgs, NEW steps \in Seq(Steps),
         \/ Go(w, work[w], msgs, steps)
         \/ \E s \in Contacts \cup {None} : Go(w, [work[w] EXCEPT !.by = s], msgs, steps)
         \/ \E e \in Entries : Go(w, [work[w] EXCEPT !.entry = e], msgs, steps)
  PROVE  Moves(w)
<1>1. work[w] \in Jobs /\ work[w].todo # <<>>
  BY AtFacts
<1>2. ASSUME NEW job \in Jobs, Go(w, job, msgs, steps), job.todo = work[w].todo,
             job.k = work[w].k, job.hold = work[w].hold, job.view = work[w].view, job.kc = work[w].kc
      PROVE  Moves(w)
  BY <1>1, <1>2 DEF Moves
<1>3. ASSUME NEW s \in Contacts \cup {None}, Go(w, [work[w] EXCEPT !.by = s], msgs, steps)
      PROVE  Moves(w)
  <2>1. PICK job : job = [work[w] EXCEPT !.by = s]
    OBVIOUS
  <2>2. /\ job \in Jobs /\ job.todo = work[w].todo /\ job.k = work[w].k /\ job.hold = work[w].hold
        /\ job.view = work[w].view /\ job.kc = work[w].kc
    BY <1>1, <2>1 DEF Jobs
  <2> QED BY <1>2, <1>3, <2>1, <2>2
<1>4. ASSUME NEW e \in Entries, Go(w, [work[w] EXCEPT !.entry = e], msgs, steps)
      PROVE  Moves(w)
  <2>1. PICK job : job = [work[w] EXCEPT !.entry = e]
    OBVIOUS
  <2>2. /\ job \in Jobs /\ job.todo = work[w].todo /\ job.k = work[w].k /\ job.hold = work[w].hold
        /\ job.view = work[w].view /\ job.kc = work[w].kc
    BY <1>1, <2>1 DEF Jobs
  <2> QED BY <1>2, <1>4, <2>1, <2>2
<1> QED BY <1>1, <1>2, <1>3, <1>4

(* ... and nothing else to do.                                             *)
LEMMA SkipMoves == ASSUME Working, NEW w \in Workers, NEW d, At(w, d), Skip(w) PROVE Moves(w)
<1>1. Go(w, work[w], <<>>, <<>>)
  BY DEF Skip
<1> QED BY <1>1, GoMoves, StepPrograms

(* The calls of a revoke.                                                  *)
LEMMA RevokeMoves == ASSUME Shape, NEW w \in Workers, Revoke(w) PROVE Moves(w)
<1>0. Working
  BY DEF Shape
<1>1. /\ Only("flush") \in Seq(Steps) /\ Only("fail") \in Seq(Steps) /\ <<>> \in Seq(Steps)
      /\ Only("flush") \o Only("fail") \in Seq(Steps)
      /\ \A p \in PairOrNone : /\ For(<<"recheck">>, p) \in Seq(Steps)
                               /\ Only("flush") \o For(<<"recheck">>, p) \in Seq(Steps)
                               /\ <<>> \o For(<<"recheck">>, p) \in Seq(Steps)
                               /\ Only("flush") \o For(<<"verify">>, p) \in Seq(Steps)
                               /\ For(<<"scanLive">>, p) \in Seq(Steps)
  BY StepPrograms DEF Calls
<1>2. CASE Scan(w)
  <2>1. PICK d \in {"scan", "scanLive", "scanQuick"} : /\ At(w, d)
          /\ \E view \in Scanned(w, d) :
               LET by == Justifiers(view, Pair(w), work[w].k)
                   confirmed == IF d = "scanQuick" THEN <<>> ELSE Only("flush")
               IN \/ \E s \in by : Go(w, [work[w] EXCEPT !.by = s], <<>>, <<>>)
                  \/ /\ by = {}
                     /\ Go(w, [work[w] EXCEPT !.by = None], <<Remove(Pair(w))>>,
                           confirmed \o For(<<"recheck">>, Pair(w)))
    BY <1>2 DEF Scan
  <2>2. Pair(w) \in PairOrNone
    BY <1>0, <2>1, AtFacts
  <2>3. PICK a : a = (IF d = "scanQuick" THEN <<>> ELSE Only("flush")) \o For(<<"recheck">>, Pair(w))
    OBVIOUS
  <2>4. a \in Seq(Steps)
    BY <1>1, <2>2, <2>3
  <2>5. \/ \E s \in Contacts : Go(w, [work[w] EXCEPT !.by = s], <<>>, <<>>)
        \/ Go(w, [work[w] EXCEPT !.by = None], <<Remove(Pair(w))>>, a)
    BY <2>1, <2>3, JustifiersAre
  <2> QED BY <1>0, <1>1, <2>1, <2>4, <2>5, GoMoves
<1>3. CASE Flush(w) \/ ClearMarker(w)
  BY <1>0, <1>3, SkipMoves DEF Flush, ClearMarker
<1>4. CASE Recheck(w)
  <2>1. Pair(w) \in PairOrNone /\ At(w, "recheck")
    BY <1>0, <1>4, AtFacts DEF Recheck
  <2> QED BY <1>0, <1>1, <1>4, <2>1, GoMoves, SkipMoves DEF Recheck
<1>5. CASE Verify(w)
  <2>1. \/ \E s \in Contacts : Go(w, [work[w] EXCEPT !.by = s], <<>>, <<>>)
        \/ Go(w, work[w], <<Remove(Pair(w))>>, Only("flush") \o Only("fail"))
    BY <1>5, JustifiersAre DEF Verify
  <2> QED BY <1>0, <1>1, <1>5, <2>1, GoMoves DEF Verify
<1>6. CASE ConfirmLive(w)
  <2>1. Pair(w) \in PairOrNone /\ At(w, "confirmLive")
    BY <1>0, <1>6, AtFacts DEF ConfirmLive
  <2> QED BY <1>0, <1>1, <1>6, <2>1, GoMoves DEF ConfirmLive
<1>7. CASE Settle(w) \/ Reassert(w)
  <2>1. Pair(w) \in PairOrNone /\ \E d : At(w, d)
    BY <1>0, <1>7, AtFacts DEF Settle, Reassert
  <2> QED BY <1>0, <1>1, <1>7, <2>1, GoMoves, SkipMoves DEF Settle, Reassert
<1>8. CASE Own(w)
  <2>1. Skip(w) \/ Go(w, work[w], <<>>, Only("fail"))
    BY <1>8 DEF Own
  <2> QED BY <1>0, <1>1, <1>8, <2>1, GoMoves, SkipMoves DEF Own
<1> QED BY <1>2, <1>3, <1>4, <1>5, <1>6, <1>7, <1>8 DEF Revoke

(* The pair of a record, and those of an entry.                            *)
LEMMA PairsOf ==
  /\ \A r \in Records : r.pair \in PairOrNone
  /\ \A e \in Entries : e.pair \in PairOrNone /\ e.marker \in PairOrNone
<1>1. ASSUME NEW r \in Records PROVE r.pair \in PairOrNone
  <2>1. CASE r = Gone
    BY <2>1 DEF Gone, PairOrNone
  <2>2. CASE r \in [status : {"active", "inactive"}, pair : Pairs \cup {None}]
    BY <2>2 DEF PairOrNone
  <2> QED BY <2>1, <2>2 DEF Records
<1> QED BY <1>1 DEF Entries, PairOrNone

(* A condition decides which of two programs follows.                      *)
LEMMA WhenSteps == ASSUME NEW p, NEW a \in Seq(Steps) PROVE WhenSet(p, a) \in Seq(Steps)
  BY StepPrograms DEF WhenSet

(* The calls of a grant.                                                   *)
LEMMA GrantMoves == ASSUME Shape, NEW w \in Workers, Grant(w) PROVE Moves(w)
<1>0. Working /\ Around
  BY DEF Shape
<1>1. CASE Snapshot(w)
  <2>1. PICK job : job = [work[w] EXCEPT !.view = sf]
    OBVIOUS
  <2>2. work[w] \in Jobs /\ work[w].todo # <<>> /\ sf \in Views /\ sf' = sf
    BY <1>0, <1>1, AtFacts DEF Snapshot, Around, local
  <2>3. /\ job \in Jobs /\ job.todo = work[w].todo /\ job.k = work[w].k /\ job.hold = work[w].hold
        /\ job.view = sf /\ job.kc = work[w].kc
    BY <2>1, <2>2 DEF Jobs
  <2>4. Go(w, job, <<>>, <<>>) /\ <<>> \in Seq(Steps)
    BY <1>1, <2>1, StepPrograms DEF Snapshot
  <2> QED BY <2>2, <2>3, <2>4 DEF Moves
<1>2. CASE Publish(w)
  <2>1. At(w, "publish") /\ work[w].kc.pair \in PairOrNone
    BY <1>0, <1>2, AtFacts, PairsOf DEF Publish
  <2>2. \/ Go(w, work[w], <<>>, Only("inactive"))
        \/ Skip(w)
        \/ Go(w, work[w], <<Put(work[w].kc.pair)>>, For(<<"record">>, work[w].kc.pair))
    BY <1>2 DEF Publish
  <2>3. Only("inactive") \in Seq(Steps) /\ For(<<"record">>, work[w].kc.pair) \in Seq(Steps)
    BY <2>1, StepPrograms DEF Calls
  <2> QED BY <1>0, <2>1, <2>2, <2>3, GoMoves, SkipMoves
<1>3. CASE Inactive(w)
  <2>1. At(w, "inactive") /\ work[w].kc.pair \in PairOrNone /\ Entry(w) \in Entries
    BY <1>0, <1>3, AtFacts, PairsOf, EntryTyped DEF Inactive
  <2>2. PICK p, e, own : p = work[w].kc.pair /\ e = Entry(w) /\ own = For(<<"scan", "own">>, p)
    OBVIOUS
  <2>3. PICK a, b : /\ a = WhenSet(e.marker, RevokeSuperseded(e.marker))
                    /\ b = IF p # None /\ e.pair = None THEN own
                           ELSE (IF p # None /\ e.pair # p THEN own ELSE <<>>) \o Only("expire")
    OBVIOUS
  <2>4. own \in Seq(Steps) /\ Only("expire") \in Seq(Steps) /\ e.marker \in PairOrNone
    BY <2>1, <2>2, StepPrograms, PairsOf DEF Calls
  <2>5. a \in Seq(Steps)
    BY <2>3, <2>4, StepPrograms, WhenSteps
  <2>6. b \in Seq(Steps)
    BY <2>3, <2>4, StepPrograms
  <2>7. a \o b \in Seq(Steps)
    BY <2>5, <2>6, StepPrograms
  <2>8. Go(w, work[w], <<>>, a \o b)
    BY <1>3, <2>2, <2>3 DEF Inactive
  <2> QED BY <1>0, <2>1, <2>7, <2>8, GoMoves
<1>4. CASE Record(w)
  <2>1. At(w, "record") /\ Pair(w) \in PairOrNone /\ Entry(w) \in Entries
    BY <1>0, <1>4, AtFacts, EntryTyped DEF Record
  <2>2. PICK p, e : p = Pair(w) /\ e = Entry(w)
    OBVIOUS
  <2>3. e.marker \in PairOrNone /\ e.pair \in PairOrNone
    BY <2>1, <2>2, PairsOf
  <2>4. PICK a : a = Drain(e.marker) \o For(<<"write">>, p)
    OBVIOUS
  <2>5. For(<<"write">>, p) \in Seq(Steps) /\ Drain(e.marker) \in Seq(Steps)
    BY <2>1, <2>2, <2>3, StepPrograms DEF Calls
  <2>6. a \in Seq(Steps)
    BY <2>4, <2>5, StepPrograms
  <2>7. RevokeSuperseded(e.pair) \in Seq(Steps)
    BY <2>3, StepPrograms
  <2>8. \/ Skip(w)
        \/ Go(w, work[w], <<>>, RevokeSuperseded(e.pair))
        \/ Go(w, [work[w] EXCEPT !.entry = e], <<>>, a)
    BY <1>4, <2>2, <2>4 DEF Record
  <2> QED BY <1>0, <2>1, <2>2, <2>6, <2>7, <2>8, GoMoves, SkipMoves
<1>5. CASE Write(w)
  <2>1. At(w, "write") /\ work[w].entry \in Entries /\ Pair(w) \in PairOrNone
    BY <1>0, <1>5, AtFacts DEF Write
  <2>2. RevokeSuperseded(work[w].entry.pair) \in Seq(Steps) /\ For(<<"record">>, Pair(w)) \in Seq(Steps)
    BY <2>1, PairsOf, StepPrograms DEF Calls
  <2>3. \/ Go(w, work[w], <<>>, RevokeSuperseded(work[w].entry.pair))
        \/ Go(w, work[w], <<>>, For(<<"record">>, Pair(w)))
    BY <1>5 DEF Write
  <2> QED BY <1>0, <2>1, <2>2, <2>3, GoMoves
<1> QED BY <1>1, <1>2, <1>3, <1>4, <1>5 DEF Grant

(* The calls of revokeKeyContactGrantIfNoLongerLive.                       *)
LEMMA ExpireMoves == ASSUME Shape, NEW w \in Workers, RevokeNoLongerLive(w) PROVE Moves(w)
<1>0. Working /\ Around
  BY DEF Shape
<1>1. /\ Only("flush") \in Seq(Steps) /\ Only("fail") \in Seq(Steps) /\ <<>> \in Seq(Steps)
      /\ Only("clear") \in Seq(Steps) /\ Only("claim") \in Seq(Steps) /\ Only("claimed") \in Seq(Steps)
      /\ \A p \in PairOrNone :
           /\ For(<<"justify">>, p) \in Seq(Steps) /\ For(<<"justifyLive">>, p) \in Seq(Steps)
           /\ For(<<"own">>, p) \o Only("clear") \in Seq(Steps)
           /\ Only("flush") \o For(<<"regranted", "compare">>, p) \in Seq(Steps)
  BY StepPrograms DEF Calls
<1>2. CASE Expire(w)
  <2>1. PICK d \in {"expire", "expireLive"} : /\ At(w, d)
          /\ Go(w, [work[w] EXCEPT !.entry = Entry(w)], <<>>,
                IF Entry(w).pair = None THEN <<>>
                ELSE For(<<IF d = "expire" THEN "justify" ELSE "justifyLive">>, Entry(w).pair))
    BY <1>2 DEF Expire
  <2>2. Entry(w) \in Entries /\ Entry(w).pair \in PairOrNone
    BY <1>0, <2>1, AtFacts, EntryTyped, PairsOf
  <2>3. PICK a : a = IF Entry(w).pair = None THEN <<>>
                     ELSE For(<<IF d = "expire" THEN "justify" ELSE "justifyLive">>, Entry(w).pair)
    OBVIOUS
  <2>4. a \in Seq(Steps)
    <3>1. CASE d = "expire"
      BY <1>1, <2>2, <2>3, <3>1
    <3>2. CASE d # "expire"
      BY <1>1, <2>2, <2>3, <3>2
    <3> QED BY <3>1, <3>2
  <2>5. Go(w, [work[w] EXCEPT !.entry = Entry(w)], <<>>, a)
    BY <2>1, <2>3
  <2> QED BY <1>0, <2>1, <2>2, <2>4, <2>5, GoMoves
<1>3. CASE Justify(w)
  <2>1. PICK d \in {"justify", "justifyLive"} : At(w, d)
    BY <1>3 DEF Justify
  <2>2. \/ \E s \in Contacts : Go(w, [work[w] EXCEPT !.by = s], <<>>, For(<<"own">>, Pair(w)) \o Only("clear"))
        \/ Go(w, work[w], <<>>, Only("claim"))
    BY <1>3, JustifiersAre DEF Justify
  <2>3. Pair(w) \in PairOrNone
    BY <1>0, <2>1, AtFacts
  <2>4. PICK a : a = For(<<"own">>, Pair(w)) \o Only("clear")
    OBVIOUS
  <2>5. a \in Seq(Steps)
    BY <1>1, <2>3, <2>4
  <2> QED BY <1>0, <1>1, <2>1, <2>2, <2>4, <2>5, GoMoves
<1>4. CASE Claim(w)
  <2>1. At(w, "claim") /\ (Skip(w) \/ Go(w, work[w], <<>>, Only("claimed")))
    BY <1>4 DEF Claim
  <2> QED BY <1>0, <1>1, <2>1, GoMoves, SkipMoves
<1>5. CASE Claimed(w)
  <2>1. At(w, "claimed")
    BY <1>5 DEF Claimed
  <2>2. Entry(w) \in Entries /\ work[w].entry.pair \in PairOrNone
    BY <1>0, <2>1, AtFacts, EntryTyped, PairsOf
  <2>3. PICK p, a : p = work[w].entry.pair /\ a = Only("flush") \o For(<<"regranted", "compare">>, p)
    OBVIOUS
  <2>4. a \in Seq(Steps)
    BY <1>1, <2>2, <2>3
  <2>5. \/ Go(w, work[w], <<>>, Only("fail"))
        \/ Skip(w)
        \/ Go(w, [work[w] EXCEPT !.entry = Entry(w)], <<Remove(p)>>, a)
    BY <1>5, <2>3 DEF Claimed
  <2> QED BY <1>0, <1>1, <2>1, <2>2, <2>4, <2>5, GoMoves, SkipMoves
<1>6. CASE Regranted(w)
  <2>1. At(w, "regranted") /\ (Skip(w) \/ Go(w, work[w], <<Put(Pair(w))>>, Only("flush")))
    BY <1>6 DEF Regranted
  <2> QED BY <1>0, <1>1, <2>1, GoMoves, SkipMoves
<1>7. CASE Compare(w)
  <2>1. At(w, "compare") /\ \/ Skip(w) \/ Go(w, work[w], <<Put(Pair(w))>>, Only("flush"))
                            \/ Go(w, work[w], <<>>, Only("clear"))
    BY <1>7 DEF Compare
  <2> QED BY <1>0, <1>1, <2>1, GoMoves, SkipMoves
<1>8. CASE Clear(w)
  BY <1>0, <1>8, SkipMoves DEF Clear
<1> QED BY <1>2, <1>3, <1>4, <1>5, <1>6, <1>7, <1>8 DEF RevokeNoLongerLive

(* The calls of a delete and of an update.                                 *)
LEMMA DeleteMoves ==
  ASSUME Shape, NEW w \in Workers,
         Lookup(w) \/ Withdraw(w) \/ EraseEntry(w) \/ SettleStale(w) \/ DeleteRecord(w) \/ Pass(w)
  PROVE  Moves(w)
<1>0. Working /\ Around
  BY DEF Shape
<1>1. /\ <<>> \in Seq(Steps) /\ Only("fail") \in Seq(Steps) /\ Only("erase") \in Seq(Steps)
      /\ Only("stop") \in Seq(Steps) /\ Only("keepMarker") \in Seq(Steps) /\ Only("delete") \in Seq(Steps)
  BY StepPrograms DEF Calls
<1>2. CASE Lookup(w)
  <2>1. At(w, "lookup") /\ Entry(w) \in Entries
    BY <1>0, <1>2, AtFacts, EntryTyped DEF Lookup
  <2> QED BY <1>0, <1>1, <1>2, <2>1, GoMoves DEF Lookup
<1>3. CASE Withdraw(w)
  <2>1. At(w, "withdraw") /\ work[w].entry \in Entries
    BY <1>0, <1>3, AtFacts DEF Withdraw
  <2>2. PICK e, m, n : e = work[w].entry /\ m = RevokeConfirmed(e.marker) /\ n = RevokeConfirmed(e.pair)
    OBVIOUS
  <2>3. m \in Seq(Steps) /\ n \in Seq(Steps)
    BY <2>1, <2>2, PairsOf, StepPrograms
  <2>4. PICK a, b : /\ a = WhenSet(e.marker, m \o Only("erase"))
                    /\ b = n \o Only("stop") \o WhenSet(e.marker, m \o Only("keepMarker")) \o Only("erase")
    OBVIOUS
  <2>5. a \in Seq(Steps) /\ WhenSet(e.marker, m \o Only("keepMarker")) \in Seq(Steps)
    BY <1>1, <2>3, <2>4, WhenSteps, StepPrograms
  <2>6. b \in Seq(Steps)
    BY <1>1, <2>3, <2>4, <2>5, StepPrograms
  <2>7. Go(w, work[w], <<>>, IF e.pair = None THEN a ELSE b)
    BY <1>3, <2>2, <2>4 DEF Withdraw
  <2>8. (IF e.pair = None THEN a ELSE b) \in Seq(Steps)
    BY <2>5, <2>6
  <2> QED BY <1>0, <2>1, <2>7, <2>8, GoMoves
<1>4. CASE EraseEntry(w) \/ Pass(w)
  BY <1>0, <1>4, SkipMoves DEF EraseEntry, Pass
<1>5. CASE SettleStale(w)
  <2>1. At(w, "settleStale") /\ work[w].entry \in Entries
    BY <1>0, <1>5, AtFacts DEF SettleStale
  <2>2. PICK e, a : /\ e = work[w].entry
                    /\ a = IF e.pair \in {None, OwnPair(work[w])} THEN <<>> ELSE For(<<"scan", "own">>, e.pair)
    OBVIOUS
  <2>3. For(<<"scan", "own">>, e.pair) \in Seq(Steps)
    BY <2>1, <2>2, PairsOf, StepPrograms
  <2>4. a \o Only("delete") \in Seq(Steps)
    BY <1>1, <2>2, <2>3, StepPrograms
  <2>5. Go(w, work[w], <<>>, a \o Only("delete"))
    BY <1>5, <2>2 DEF SettleStale
  <2> QED BY <1>0, <2>1, <2>4, <2>5, GoMoves
<1>6. CASE DeleteRecord(w)
  <2>1. At(w, "delete") /\ work[w].entry \in Entries /\ work[w].kc \in Records
    BY <1>0, <1>6, AtFacts DEF DeleteRecord
  <2>2. PICK e, p : e = work[w].entry /\ p = OwnPair(work[w])
    OBVIOUS
  <2>3. p \in PairOrNone /\ e.marker \in PairOrNone
    BY <2>1, <2>2, PairsOf DEF OwnPair
  <2>4. PICK a, b : /\ a = WhenSet(p, For(<<"scan", "recover", "own", "stop">>, p))
                    /\ b = WhenSet(e.marker, Drain(e.marker) \o Only("keepMarker"))
    OBVIOUS
  <2>5. a \in Seq(Steps) /\ b \in Seq(Steps)
    BY <1>1, <2>3, <2>4, StepPrograms, WhenSteps
  <2>6. a \o b \o Only("erase") \in Seq(Steps)
    BY <1>1, <2>5, StepPrograms
  <2>7. Go(w, work[w], <<>>, Only("fail")) \/ Go(w, work[w], <<>>, a \o b \o Only("erase"))
    BY <1>6, <2>2, <2>4 DEF DeleteRecord
  <2> QED BY <1>0, <1>1, <2>1, <2>6, <2>7, GoMoves
<1> QED BY <1>2, <1>3, <1>4, <1>5, <1>6

(* The save of an update changes the call's record.                        *)
LEMMA SaveMoves == ASSUME Shape, NEW w \in Workers, SaveUpdate(w) PROVE Moves(w)
<1>0. Working
  BY DEF Shape
<1>1. /\ <<>> \in Seq(Steps) /\ Only("fail") \in Seq(Steps) /\ Only("publish") \in Seq(Steps)
      /\ Only("catch") \in Seq(Steps) /\ Only("expireLive") \in Seq(Steps)
      /\ \A p \in PairOrNone : For(<<"scanQuick">>, p) \in Seq(Steps)
  BY StepPrograms DEF Calls
<1>2. At(w, "save") /\ work[w] \in Jobs /\ work[w].kc \in Records /\ work[w].todo # <<>>
  BY <1>0, AtFacts DEF SaveUpdate
<1>3. CASE Go(w, work[w], <<>>, Only("fail"))
  BY <1>0, <1>1, <1>2, <1>3, GoMoves
<1>4. ASSUME NEW new \in Live, NEW renamed \in BOOLEAN,
             Go(w, [work[w] EXCEPT !.kc = new], <<>>,
                IF renamed THEN Only("publish") \o Only("catch")
                     \o (IF new.pair = work[w].kc.pair THEN <<>>
                         ELSE WhenSet(work[w].kc.pair, For(<<"scanQuick">>, work[w].kc.pair)))
                ELSE IF new.pair = None THEN Only("expireLive") ELSE Only("publish"))
      PROVE  Moves(w)
  <2>1. PICK job, old : job = [work[w] EXCEPT !.kc = new] /\ old = work[w].kc.pair
    OBVIOUS
  <2>2. PICK b, steps : /\ b = (IF new.pair = old THEN <<>> ELSE WhenSet(old, For(<<"scanQuick">>, old)))
                        /\ steps = IF renamed THEN Only("publish") \o Only("catch") \o b
                                   ELSE IF new.pair = None THEN Only("expireLive") ELSE Only("publish")
    OBVIOUS
  <2>3. /\ job \in Jobs /\ job.todo = work[w].todo /\ job.k = work[w].k
        /\ job.hold = work[w].hold /\ job.view = work[w].view
    BY <1>2, <2>1, LiveAre DEF Jobs
  <2>4. b \in Seq(Steps)
    BY <1>1, <1>2, <2>1, <2>2, PairsOf, WhenSteps
  <2>5. steps \in Seq(Steps)
    BY <1>1, <2>2, <2>4, StepPrograms
  <2>6. Go(w, job, <<>>, steps)
    BY <1>4, <2>1, <2>2
  <2> QED BY <1>2, <2>3, <2>5, <2>6 DEF Moves
<1> QED BY <1>3, <1>4 DEF SaveUpdate

(* A worker's step is a call that is done, one that fails, or the end.     *)
LEMMA RunMoves ==
  ASSUME Shape, NEW w \in Workers, Run(w)
  PROVE  Moves(w) \/ Fails(w) \/ End(w)
  BY RevokeMoves, GrantMoves, ExpireMoves, DeleteMoves, SaveMoves DEF Run

(* The second of two programs in a row.                                    *)
LEMMA ConcatEnd ==
  ASSUME NEW S, NEW a \in Seq(S), NEW b \in Seq(S)
  PROVE  /\ Len(a \o b) = Len(a) + Len(b) /\ Len(a) \in Nat /\ Len(b) \in Nat
         /\ \A i \in 1 .. Len(b) : (a \o b)[Len(a) + i] = b[i]
  OBVIOUS

(* What a call that is done leaves: the job's record, its promises, the    *)
(* rest of its program, and everything of the other workers.               *)
LEMMA MovesHas ==
  ASSUME Shape, NEW w \in Workers, Moves(w)
  PROVE  /\ work'[w].k = work[w].k /\ work'[w].hold = work[w].hold
         /\ work'[w].view = work[w].view \/ (work'[w].view = sf /\ sf' = sf)
         /\ work'[w].kc = work[w].kc \/ At(w, "save")
         /\ work[w].todo # <<>>
         /\ \A i \in 2 .. Len(work[w].todo) : \E j \in 1 .. Len(work'[w].todo) :
               work'[w].todo[j] = work[w].todo[i]
         /\ \A v \in Workers \ {w} : work'[v] = work[v] /\ wire'[v] = wire[v]
<1>0. Working
  BY DEF Shape
<1>1. PICK msgs : \E job \in Jobs, steps \in Seq(Steps) :
        /\ Go(w, job, msgs, steps)
        /\ work[w].todo # <<>> /\ job.todo = work[w].todo /\ job.k = work[w].k
        /\ job.hold = work[w].hold
        /\ job.view = work[w].view \/ (job.view = sf /\ sf' = sf)
        /\ job.kc = work[w].kc \/ At(w, "save")
  BY DEF Moves
<1>2. PICK job \in Jobs, steps \in Seq(Steps) :
        /\ Go(w, job, msgs, steps)
        /\ work[w].todo # <<>> /\ job.todo = work[w].todo /\ job.k = work[w].k
        /\ job.hold = work[w].hold
        /\ job.view = work[w].view \/ (job.view = sf /\ sf' = sf)
        /\ job.kc = work[w].kc \/ At(w, "save")
  BY <1>1
<1>3. /\ work'[w].todo = steps \o Tail(job.todo)
      /\ work'[w].k = job.k /\ work'[w].kc = job.kc
      /\ work'[w].view = job.view /\ work'[w].hold = job.hold
      /\ \A v \in Workers \ {w} : work'[v] = work[v] /\ wire'[v] = wire[v]
  BY <1>0, <1>2, GoHas
<1>4. PICK t, r, n : t = work[w].todo /\ r = Tail(t) /\ n = work'[w].todo
  OBVIOUS
<1>5. /\ t \in Seq(Steps) /\ t # <<>> /\ n = steps \o r
  BY <1>0, <1>2, <1>3, <1>4 DEF Working, Jobs
<1>6. /\ r \in Seq(Steps) /\ Len(r) = Len(t) - 1 /\ Len(t) \in Nat
      /\ \A i \in 1 .. Len(r) : r[i] = t[i + 1]
  BY <1>4, <1>5, TailFacts
<1>7. /\ Len(n) = Len(steps) + Len(r) /\ Len(steps) \in Nat
      /\ \A i \in 1 .. Len(r) : n[Len(steps) + i] = r[i]
  <2>1. PICK S : S = Steps
    OBVIOUS
  <2>2. steps \in Seq(S) /\ r \in Seq(S)
    BY <1>6, <2>1
  <2>3. /\ Len(steps \o r) = Len(steps) + Len(r) /\ Len(steps) \in Nat
        /\ \A i \in 1 .. Len(r) : (steps \o r)[Len(steps) + i] = r[i]
    BY <2>2, ConcatEnd
  <2> QED BY <1>5, <2>3
<1>8. ASSUME NEW i \in 2 .. Len(t) PROVE \E j \in 1 .. Len(n) : n[j] = t[i]
  <2>1. i - 1 \in 1 .. Len(r) /\ (i - 1) + 1 = i
    BY <1>6
  <2>2. Len(steps) + (i - 1) \in 1 .. Len(n)
    BY <1>6, <1>7, <2>1
  <2>3. n[Len(steps) + (i - 1)] = t[i]
    BY <1>6, <1>7, <2>1
  <2> QED BY <2>2, <2>3
<1> QED BY <1>2, <1>3, <1>4, <1>8

(* A worker changes Salesforce for its own record only.                    *)
LEMMA RunSaves ==
  ASSUME Shape, NEW w \in Workers, Run(w) \/ CallFails(w) \/ Crash(w)
  PROVE  \A s \in Contacts \ {work[w].k} : sf'[s] = sf[s]
<1>1. CASE SaveUpdate(w) \/ DeleteRecord(w)
  <2>1. sf' = sf \/ \E rec : sf' = [sf EXCEPT ![work[w].k] = rec]
    BY <1>1 DEF SaveUpdate, DeleteRecord, Save
  <2> QED BY <2>1 DEF Shape, Around, Views
<1>2. CASE Revoke(w)
  BY <1>2 DEF Revoke, Scan, Flush, Recheck, Verify, ConfirmLive, Settle, Reassert, Own, ClearMarker, local
<1>3. CASE Grant(w)
  BY <1>3 DEF Grant, Snapshot, Publish, Inactive, Record, Write, local
<1>4. CASE RevokeNoLongerLive(w)
  BY <1>4 DEF RevokeNoLongerLive, Expire, Justify, Claim, Claimed, Regranted, Compare, Clear, local
<1>5. CASE Lookup(w) \/ Withdraw(w) \/ EraseEntry(w) \/ SettleStale(w) \/ Pass(w) \/ Fails(w) \/ End(w)
           \/ CallFails(w) \/ Crash(w)
  BY <1>5 DEF Lookup, Withdraw, EraseEntry, SettleStale, Pass, Fails, End, CallFails, Crash, local
<1> QED BY <1>1, <1>2, <1>3, <1>4, <1>5 DEF Run

(* A failed call: the worker has given up, or goes on without it.          *)
LEMMA FailsHas ==
  ASSUME Shape, NEW w \in Workers, Fails(w) \/ CallFails(w)
  PROVE  /\ work'[w].k = work[w].k /\ work'[w].view = work[w].view /\ work'[w].kc = work[w].kc
         /\ \/ work'[w].hold
            \/ /\ work'[w].hold = work[w].hold /\ work'[w].todo = Tail(work[w].todo)
               /\ Head(work[w].todo).do \in Swallowed \cup {"lookup"}
         /\ \A v \in Workers \ {w} : wire'[v] = wire[v]
<1>1. work[w] \in Jobs /\ work \in [Workers -> Jobs] /\ wire \in [Workers -> Seq(Messages)]
  BY DEF Shape, Working
<1>2. CASE GiveUp(w)
  <2> DEFINE new == [work[w] EXCEPT !.hold = TRUE, !.todo = Handled(work[w])]
  <2>1. new.k = work[w].k /\ new.view = work[w].view /\ new.kc = work[w].kc /\ new.hold
    BY <1>1 DEF Jobs
  <2>2. work' = [work EXCEPT ![w] = new]
    BY <1>2 DEF GiveUp
  <2> HIDE DEF new
  <2>3. work'[w] = new
    BY <1>1, <2>2
  <2>4. \A v \in Workers \ {w} : wire'[v] = wire[v]
    BY <1>1 DEF Fails, CallFails
  <2> QED BY <2>1, <2>3, <2>4
<1>3. CASE ~GiveUp(w)
  <2>1. CallFails(w) /\ work' = [work EXCEPT ![w].todo = Tail(@)]
        /\ Head(work[w].todo).do \in Swallowed \cup {"lookup"}
    BY <1>3 DEF Fails, CallFails, At
  <2> DEFINE new == [work[w] EXCEPT !.todo = Tail(work[w].todo)]
  <2>2. /\ new.k = work[w].k /\ new.view = work[w].view /\ new.kc = work[w].kc
        /\ new.hold = work[w].hold /\ new.todo = Tail(work[w].todo)
    BY <1>1 DEF Jobs
  <2>3. work' = [work EXCEPT ![w] = new]
    BY <1>1, <2>1
  <2> HIDE DEF new
  <2>4. work'[w] = new
    BY <1>1, <2>3
  <2>5. \A v \in Workers \ {w} : wire'[v] = wire[v]
    BY <1>1, <2>1 DEF CallFails
  <2> QED BY <2>1, <2>2, <2>4, <2>5
<1> QED BY <1>2, <1>3

(* What the worker's view shows of the other records stays so.             *)
LEMMA RunSees ==
  ASSUME Shape, NEW w \in Workers, Run(w) \/ CallFails(w) \/ Crash(w), Sees(w)
  PROVE  Sees(w)'
<1>1. \A s \in Contacts \ {work[w].k} : sf'[s] = sf[s]
  BY RunSaves
<1>2. CASE Fails(w) \/ CallFails(w)
  BY <1>1, <1>2, FailsHas, KeepsSees
<1>3. CASE Moves(w)
  <2>1. /\ work'[w].k = work[w].k
        /\ work'[w].view = work[w].view \/ (work'[w].view = sf /\ sf' = sf)
    BY <1>3, MovesHas
  <2>2. CASE work'[w].view = sf /\ sf' = sf
    BY <2>2 DEF Sees
  <2> QED BY <1>1, <2>1, <2>2, KeepsSees
<1>4. CASE End(w) \/ Crash(w)
  <2>1. work'[w] = Idle
    BY <1>4 DEF End, Crash, Shape, Working
  <2> QED BY <2>1 DEF Sees, Idle
<1> QED BY <1>2, <1>3, <1>4, RunMoves

(* ... and the other connections are left alone.                           *)
LEMMA RunWires ==
  ASSUME Shape, NEW w \in Workers, Run(w) \/ CallFails(w) \/ Crash(w)
  PROVE  \A v \in Workers \ {w} : wire'[v] = wire[v]
<1>1. CASE Fails(w) \/ CallFails(w)
  BY <1>1, FailsHas
<1>2. CASE Moves(w)
  BY <1>2, MovesHas
<1>3. CASE End(w) \/ Crash(w)
  BY <1>3 DEF End, Crash, Shape, Working
<1> QED BY <1>1, <1>2, <1>3, RunMoves

(* The calls of a delete go by the entry that its lookup will read.        *)
LEMMA LookupFit ==
  ASSUME NEW t \in Seq(Steps), NEW k, NEW A, NEW V, None \in A,
         \A i \in 1 .. Len(t) : \/ t[i].do \in {"lookup", "snapshot"}
                                \/ i = Len(t) /\ t[i].do \in {"withdraw", "settleStale"}
  PROVE  Fit(Absent, k, t, A, V)
<1>1. /\ Len(t) \in Nat
      /\ \A i \in 1 .. Len(t) : t[i].do \in {"lookup", "snapshot", "withdraw", "settleStale"}
  OBVIOUS
<1>2. Handing(t) /\ Halted(Absent, t)
  BY <1>1 DEF Handing, Halted, Asserts
<1>3. Closed(t)
  <2>1. ASSUME NEW h \in 1 .. Len(t), NEW i \in 1 .. Len(t), h < i, t[h].do \in Fence
        PROVE  t[i].do \notin Delicate \/ (t[h].do = "lookup" /\ t[i].do \in {"withdraw", "settleStale"})
    <3>1. h # Len(t)
      BY <1>1, <2>1
    <3>2. t[h].do = "lookup"
      BY <2>1, <3>1 DEF Fence
    <3> QED BY <1>1, <3>2 DEF Delicate, Asserts, Heeds
  <2> QED BY <2>1 DEF Closed
<1>4. Absent.pair = None /\ Absent.marker = None
  BY DEF Absent
<1>5. AllSure(Absent, k, t, A, V)
  <2>1. ASSUME NEW i \in 1 .. Len(t) PROVE Sure(Absent, k, t[i], A, V)
    BY <1>1, <1>4, <2>1 DEF Sure, Asserts, Heeds
  <2> QED BY <2>1 DEF AllSure
<1> QED BY <1>2, <1>3, <1>5 DEF Fit

(* The programs calls begin with take nothing for granted.                 *)
Begins(t) == /\ t \in Seq(Steps)
             /\ t = Only("save") \/ \A k, A, V : None \in A => Fit(Absent, k, t, A, V)

(* Every program a call or an event begins with is one of them.            *)
LEMMA BeginPrograms ==
  ASSUME NEW kc \in Records
  PROVE  /\ Begins(Upsert(kc)) /\ Begins(Only("publish") \o Only("catch") \o Miss(kc))
         /\ Begins(Only("save")) /\ Begins(Only("lookup") \o Only("settleStale"))
         /\ Begins(Only("lookup") \o Only("snapshot") \o Only("withdraw"))
<1>1. ASSUME NEW t \in Seq(TameSteps) PROVE Begins(t)
  BY TameAre, TameFit DEF Begins
<1>2. PICK S : S = TameSteps
  OBVIOUS
<1>3. /\ <<>> \in Seq(S) /\ Only("publish") \in Seq(S) /\ Only("catch") \in Seq(S)
      /\ Only("snapshot") \in Seq(S) /\ Only("expireLive") \in Seq(S)
  BY <1>2, TamePrograms DEF Calls, Delicate, Asserts, Heeds
<1>4. \A a, b \in Seq(S) : a \o b \in Seq(S)
  OBVIOUS
<1>5. Miss(kc) \in Seq(S)
  BY <1>3, <1>4 DEF Miss
<1>6. Begins(Upsert(kc)) /\ Begins(Only("publish") \o Only("catch") \o Miss(kc))
  <2>1. Only("snapshot") \o Miss(kc) \in Seq(S) /\ Only("publish") \o Only("catch") \in Seq(S)
    BY <1>3, <1>4, <1>5
  <2>2. Upsert(kc) \in Seq(S) /\ Only("publish") \o Only("catch") \o Miss(kc) \in Seq(S)
    BY <1>3, <1>4, <1>5, <2>1 DEF Upsert
  <2> QED BY <1>1, <1>2, <2>2
<1>7. Begins(Only("save"))
  BY StepPrograms DEF Begins, Calls
<1>8. PICK s1, s2, s3, s4 : /\ s1 = Step("lookup", None) /\ s2 = Step("settleStale", None)
                            /\ s3 = Step("snapshot", None) /\ s4 = Step("withdraw", None)
  OBVIOUS
<1>9. /\ Only("lookup") = <<s1>> /\ Only("settleStale") = <<s2>> /\ Only("snapshot") = <<s3>>
      /\ Only("withdraw") = <<s4>> /\ s1.do = "lookup" /\ s2.do = "settleStale"
      /\ s3.do = "snapshot" /\ s4.do = "withdraw" /\ {s1, s2, s3, s4} \subseteq Steps
  BY <1>8, OnlyIs DEF Calls
<1>10. Begins(Only("lookup") \o Only("settleStale"))
  <2>1. PICK t : t = <<s1>> \o <<s2>>
    OBVIOUS
  <2>2. t \in Seq(Steps) /\ Len(t) = 2 /\ t[1] = s1 /\ t[2] = s2
    BY <1>9, <2>1
  <2>3. \A i \in 1 .. Len(t) : i = 1 \/ i = 2
    BY <2>2
  <2>4. \A i \in 1 .. Len(t) : \/ t[i].do \in {"lookup", "snapshot"}
                               \/ i = Len(t) /\ t[i].do \in {"withdraw", "settleStale"}
    BY <1>9, <2>2, <2>3
  <2>5. Begins(t)
    BY <2>2, <2>4, LookupFit DEF Begins
  <2> QED BY <1>9, <2>1, <2>5
<1>11. Begins(Only("lookup") \o Only("snapshot") \o Only("withdraw"))
  <2>1. PICK t : t = <<s1>> \o <<s3>> \o <<s4>>
    OBVIOUS
  <2>2. t \in Seq(Steps) /\ Len(t) = 3 /\ t[1] = s1 /\ t[2] = s3 /\ t[3] = s4
    <3>1. PICK u : u = <<s1>> \o <<s3>>
      OBVIOUS
    <3>2. u \in Seq(Steps) /\ Len(u) = 2 /\ u[1] = s1 /\ u[2] = s3
      BY <1>9, <3>1
    <3>3. t = u \o <<s4>>
      BY <2>1, <3>1
    <3>4. PICK v : v = <<s4>>
      OBVIOUS
    <3>5. v \in Seq(Steps) /\ Len(v) = 1 /\ v[1] = s4
      BY <1>9, <3>4
    <3>6. /\ t \in Seq(Steps) /\ Len(t) = 3 /\ t[1] = u[1] /\ t[2] = u[2] /\ t[3] = v[1]
      <4>1. /\ u \o v \in Seq(Steps) /\ Len(u \o v) = Len(u) + Len(v)
            /\ \A i \in 1 .. Len(u) : (u \o v)[i] = u[i]
        BY <3>2, <3>5, ConcatFacts
      <4>2. \A i \in 1 .. Len(v) : (u \o v)[Len(u) + i] = v[i]
        <5>1. PICK R : R = Steps
          OBVIOUS
        <5>2. u \in Seq(R) /\ v \in Seq(R)
          BY <3>2, <3>5, <5>1
        <5> QED BY <5>2, ConcatEnd
      <4>3. t = u \o v /\ 1 \in 1 .. Len(u) /\ 2 \in 1 .. Len(u) /\ 1 \in 1 .. Len(v)
            /\ Len(u) + 1 = 3
        BY <3>2, <3>3, <3>4, <3>5
      <4>4. t[3] = v[1]
        BY <4>2, <4>3
      <4> QED BY <3>2, <3>5, <4>1, <4>3, <4>4
    <3> QED BY <3>2, <3>5, <3>6
  <2>3. \A i \in 1 .. Len(t) : i = 1 \/ i = 2 \/ i = 3
    BY <2>2
  <2>4. \A i \in 1 .. Len(t) : \/ t[i].do \in {"lookup", "snapshot"}
                               \/ i = Len(t) /\ t[i].do \in {"withdraw", "settleStale"}
    BY <1>9, <2>2, <2>3
  <2>5. Begins(t)
    BY <2>2, <2>4, LookupFit DEF Begins
  <2> QED BY <1>9, <2>1, <2>5
<1> QED BY <1>6, <1>7, <1>10, <1>11

(* A call that begins takes nothing for granted, and has seen nothing.     *)
LEMMA StartFits ==
  ASSUME Working, NEW w \in Workers, NEW k, NEW kc, NEW program, Begins(program),
         work' = [work EXCEPT ![w] = [Idle EXCEPT !.k = k, !.kc = kc, !.todo = program]]
  PROVE  Fitting(w)' /\ Sees(w)'
<1> DEFINE new == [Idle EXCEPT !.k = k, !.kc = kc, !.todo = program]
<1>1. new.todo = program /\ new.k = k /\ new.entry = Absent /\ new.view = None /\ new.hold = FALSE
  BY DEF Idle
<1>2. work'[w] = new
  BY DEF Working
<1> HIDE DEF new
<1>3. Sees(w)'
  BY <1>1, <1>2 DEF Sees
<1>4. PICK A, V : A = Addressed' /\ V = sf'
  OBVIOUS
<1>5. None \in A
  BY <1>4 DEF Addressed
<1>6. CASE program = Only("save")
  <2>1. work'[w].todo = Only("save") /\ ~work'[w].hold
    BY <1>1, <1>2, <1>6
  <2>2. Saving(w)'
    BY <2>1 DEF Saving
  <2>3. Fitting(w)'
    BY <2>2 DEF Fitting
  <2> QED BY <1>3, <2>3
<1>7. CASE program # Only("save")
  <2>1. Fit(Absent, k, program, A, V)
    BY <1>5, <1>7 DEF Begins
  <2>2. Fit(work'[w].entry, work'[w].k, work'[w].todo, Addressed', sf')
    BY <1>1, <1>2, <1>4, <2>1
  <2>3. Fits(w)'
    BY <2>2 DEF Fits
  <2>4. Fitting(w)'
    BY <2>3 DEF Fitting
  <2> QED BY <1>3, <2>4
<1> QED BY <1>3, <1>6, <1>7

(* The call of an API request or of a backfill begins.                     *)
LEMMA ApiFits ==
  ASSUME Shape, NEW w \in Writers, NEW k \in Contacts,
         Create(w, k) \/ Update(w, k) \/ Delete(w, k) \/ Republish(w, k)
  PROVE  Fitting(w)' /\ Sees(w)' /\ wire' = wire
<1>0. Working /\ sf[k] \in Records /\ w \in Workers
  BY DEF Shape, Around, Views, Workers
<1>1. ASSUME NEW kc, NEW program, Begins(program), Call(w, k, kc, program)
      PROVE  Fitting(w)' /\ Sees(w)' /\ wire' = wire
  <2>1. work' = [work EXCEPT ![w] = [Idle EXCEPT !.k = k, !.kc = kc, !.todo = program]] /\ wire' = wire
    BY <1>1 DEF Call
  <2> QED BY <1>0, <1>1, <2>1, StartFits
<1>2. CASE Create(w, k)
  <2>1. PICK rec \in Live : Call(w, k, rec, Only("publish") \o Only("catch") \o Miss(rec))
    BY <1>2 DEF Create
  <2>2. rec \in Records
    BY DEF Live
  <2> QED BY <1>1, <2>1, <2>2, BeginPrograms
<1>3. CASE Update(w, k)
  BY <1>0, <1>1, <1>3, BeginPrograms DEF Update
<1>4. CASE Delete(w, k)
  BY <1>0, <1>1, <1>4, BeginPrograms DEF Delete
<1>5. CASE Republish(w, k)
  BY <1>0, <1>1, <1>5, BeginPrograms DEF Republish
<1> QED BY <1>2, <1>3, <1>4, <1>5

(* The consumer's call begins.                                             *)
LEMMA TakeFits ==
  ASSUME Shape, Take
  PROVE  Fitting(Consumer)' /\ Sees(Consumer)' /\ wire' = wire
<1>0. Working /\ Around /\ Consumer \in Workers
  BY DEF Shape, Workers
<1> DEFINE k == Head(events).k
           kc == IF Head(events).deleted THEN Gone ELSE sf[k]
           program == IF kc = Gone THEN Only("lookup") \o Only("snapshot") \o Only("withdraw")
                      ELSE Upsert(kc)
<1>1. events # <<>> /\ wire' = wire
      /\ work' = [work EXCEPT ![Consumer] = [Idle EXCEPT !.k = k, !.kc = kc, !.todo = program]]
  BY DEF Take
<1>2. k \in Contacts
  BY <1>0, <1>1, HeadEvent
<1>3. kc \in Records
  BY <1>0, <1>2 DEF Around, Views, Gone, Records
<1>4. Begins(program)
  <2> HIDE DEF kc
  <2> QED BY <1>3, BeginPrograms
<1> HIDE DEF k, kc, program
<1> QED BY <1>0, <1>1, <1>4, StartFits

(* Calls come one after another, and each keeps what its program relies on *)
(* and takes for granted.                                                  *)
Orderly == \A w \in Workers : Guarded(w) /\ Fitting(w) /\ Sees(w) /\ Alone(w)

(* A step with one worker's call.                                          *)
LEMMA MineOrderly ==
  ASSUME Working, NEW w \in Workers, work' = [work EXCEPT ![w] = work'[w]],
         Guarded(w)', Fitting(w)', Sees(w)',
         \A v \in Workers \ {w} : work[v] = Idle /\ wire'[v] = <<>>
  PROVE  Orderly'
<1>1. \A v \in Workers \ {w} : work'[v] = Idle
  BY DEF Working
<1>2. ASSUME NEW v \in Workers, v # w PROVE Guarded(v)' /\ Fitting(v)' /\ Sees(v)'
  <2>1. work'[v] = Idle
    BY <1>1, <1>2
  <2>2. Guarded(v)'
    BY <2>1, IdleGuarded
  <2>3. Fits(v)'
    BY <2>1, IdleFits
  <2>4. Sees(v)'
    BY <2>1 DEF Sees, Idle
  <2> QED BY <2>2, <2>3, <2>4 DEF Fitting
<1>3. \A v \in Workers : Alone(v)'
  BY <1>1 DEF Alone
<1> QED BY <1>2, <1>3 DEF Orderly

(* A step that touches neither the calls nor what they rely on.            *)
LEMMA SameOrderly ==
  ASSUME Working, Orderly, UNCHANGED <<bucket, tuples, work, wire>>,
         sf' = sf \/ \A w \in Workers : work[w] = Idle
  PROVE  Orderly'
<1>1. ASSUME NEW w \in Workers PROVE Guarded(w)'
  <2>1. PICK k : k = work[w].k
    OBVIOUS
  <2>2. Settled(k) = Settled(k)' /\ Removes(w) = Removes(w)'
    BY DEF Settled, Removes, Out, bucket
  <2>3. Guard(work[w], Settled(k), Removes(w))
    BY <2>1 DEF Orderly, Guarded
  <2>4. Guard(work'[w], Settled(k)', Removes(w)') /\ work'[w].k = k
    BY <2>1, <2>2, <2>3
  <2> QED BY <2>4 DEF Guarded
<1>2. ASSUME NEW w \in Workers PROVE Fitting(w)' /\ Sees(w)'
  <2>1. CASE sf' = sf
    <3>1. Addressed' = Addressed
      BY SameNames DEF bucket
    <3>2. Fitting(w) /\ Sees(w)
      BY DEF Orderly
    <3>3. Sees(w)'
      BY <2>1, <3>2 DEF Sees
    <3>4. Fits(w) => Fits(w)'
      BY <2>1, <3>1 DEF Fits
    <3>5. Saving(w) => Saving(w)'
      BY DEF Saving
    <3> QED BY <3>2, <3>3, <3>4, <3>5 DEF Fitting
  <2>2. CASE \A v \in Workers : work[v] = Idle
    <3>1. work'[w] = Idle
      BY <2>2
    <3>2. Fits(w)'
      BY <3>1, IdleFits
    <3>3. Sees(w)'
      BY <3>1 DEF Sees, Idle
    <3> QED BY <3>2, <3>3 DEF Fitting
  <2> QED BY <2>1, <2>2
<1>3. \A w \in Workers : Alone(w)'
  BY DEF Orderly, Alone
<1> QED BY <1>1, <1>2, <1>3 DEF Orderly

(* A delivery leaves the calls alone.                                      *)
LEMMA DeliverOrderly ==
  ASSUME Shape, Orderly, NEW w \in Workers, Deliver(w)
  PROVE  Orderly'
<1>1. /\ work' = work /\ grants' = grants /\ sf' = sf
      /\ wire' = [wire EXCEPT ![w] = Tail(@)] /\ wire[w] # <<>> /\ wire \in [Workers -> Seq(Messages)]
  BY DEF Deliver, Shape, Working
<1>2. \A v \in Workers : Guarded(v)'
  BY DeliverGuarded DEF Orderly
<1>3. ASSUME NEW v \in Workers PROVE Fitting(v)' /\ Sees(v)'
  <2>1. Addressed' = Addressed
    BY <1>1, SameNames
  <2>2. Fitting(v) /\ Sees(v)
    BY DEF Orderly
  <2>3. Sees(v)'
    BY <1>1, <2>2 DEF Sees
  <2>4. Fits(v) => Fits(v)'
    BY <1>1, <2>1 DEF Fits
  <2>5. Saving(v) => Saving(v)'
    BY <1>1 DEF Saving
  <2> QED BY <2>2, <2>3, <2>4, <2>5 DEF Fitting
<1>4. ASSUME NEW v \in Workers PROVE Alone(v)'
  <2>1. Alone(v)
    BY DEF Orderly
  <2>2. ASSUME work[v] # Idle PROVE v = w
    BY <1>1, <2>1, <2>2 DEF Alone
  <2> QED BY <1>1, <2>1, <2>2 DEF Alone
<1> QED BY <1>2, <1>3, <1>4 DEF Orderly

(* Every step of an orderly behaviour.                                     *)
LEMMA NextOrderly ==
  ASSUME Shape, Orderly, [MCNext]_mcvars, calm
  PROVE  Orderly'
<1>0. Working
  BY DEF Shape
<1>1. CASE UNCHANGED mcvars
  BY <1>0, <1>1, SameOrderly DEF mcvars, vars, bucket
<1>2. ASSUME NEW w \in Workers, Run(w) \/ CallFails(w) \/ Crash(w) PROVE Orderly'
  <2>0. Guarded(w) /\ Fitting(w) /\ Sees(w) /\ Alone(w)
    BY DEF Orderly
  <2>1. Mine(w) /\ Guarded(w)' /\ Fits(w)' /\ Sees(w)'
    BY <1>0, <1>2, <2>0, RunMine, RunGuarded, RunFits, RunSees
  <2>2. Fitting(w)'
    BY <2>1 DEF Fitting
  <2>3. \A v \in Workers \ {w} : work[v] = Idle /\ wire[v] = <<>>
    BY <2>0, <2>1 DEF Mine, Alone
  <2>4. \A v \in Workers \ {w} : wire'[v] = wire[v]
    BY <1>2, RunWires
  <2> QED BY <1>0, <2>1, <2>2, <2>3, <2>4, MineOrderly DEF Mine
<1>3. ASSUME NEW w \in Workers, Deliver(w) PROVE Orderly'
  BY <1>3, DeliverOrderly
<1>4. ASSUME NEW w \in Workers, work[w] = Idle, work'[w] # Idle, MCNext,
             Guarded(w)', Fitting(w)', Sees(w)', wire' = wire,
             work' = [work EXCEPT ![w] = work'[w]]
      PROVE  Orderly'
  <2>1. \A v \in Workers : work[v] = Idle /\ wire[v] = <<>>
    BY <1>4 DEF MCNext, calm, Starting, Busy
  <2> QED BY <1>0, <1>4, <2>1, MineOrderly
<1>5. ASSUME MCNext, NEW w \in Writers, NEW k \in Contacts,
             Create(w, k) \/ Update(w, k) \/ Delete(w, k) \/ Republish(w, k)
      PROVE  Orderly'
  <2>1. w \in Workers
    BY DEF Workers
  <2> QED BY <1>4, <1>5, <2>1, ApiGuarded, ApiFits
<1>6. ASSUME MCNext, Take PROVE Orderly'
  <2>1. Consumer \in Workers
    BY DEF Workers
  <2> QED BY <1>4, <1>6, <2>1, TakeGuarded, TakeFits
<1>7. ASSUME MCNext, NEW k \in Contacts, Change(k) PROVE Orderly'
  <2>1. UNCHANGED <<bucket, tuples, work, wire>>
    BY <1>7 DEF Change
  <2>2. sf' # sf => Busy \subseteq {w \in Workers : work'[w] # work[w]}
    BY <1>7 DEF MCNext, calm
  <2>3. sf' = sf \/ \A w \in Workers : work[w] = Idle
    BY <2>1, <2>2 DEF Busy
  <2> QED BY <1>0, <2>1, <2>3, SameOrderly
<1>8. ASSUME PassOver PROVE Orderly'
  BY <1>0, <1>8, SameOrderly DEF PassOver
<1>9. CASE MCNext
  <2>1. Next
    BY <1>9 DEF MCNext
  <2> QED BY <1>2, <1>3, <1>5, <1>6, <1>7, <1>8, <1>9, <2>1 DEF Next
<1> QED BY <1>1, <1>9

(* What comes out with a call that is done is what the call puts.          *)
LEMMA GoPuts ==
  ASSUME Working, NEW w \in Workers, tuples' = tuples, NEW q, ~Out(q), Out(q)'
  PROVE  /\ \A job, steps : ~Go(w, job, <<>>, steps)
         /\ \A job, steps : \A p \in Pairs : ~Go(w, job, <<Remove(p)>>, steps)
         /\ \A job, steps : \A p \in Pairs : Go(w, job, <<Put(p)>>, steps) => p = q
         /\ ~Skip(w) /\ wire' # wire
<1>1. ASSUME NEW msgs \in Seq(Messages), wire' = [wire EXCEPT ![w] = @ \o msgs]
      PROVE  \E n \in 1 .. Len(msgs) : msgs[n] = Put(q)
  <2>1. /\ wire'[w] = wire[w] \o msgs /\ wire[w] \in Seq(Messages)
        /\ \A v \in Workers \ {w} : wire'[v] = wire[v]
    BY <1>1 DEF Working
  <2>2. q \notin tuples'
    BY DEF Out
  <2>a. PICK v \in Workers : \E i \in 1 .. Len(wire'[v]) : wire'[v][i] = Put(q)
    BY <2>2 DEF Out
  <2>3. PICK i \in 1 .. Len(wire'[v]) : wire'[v][i] = Put(q)
    BY <2>a
  <2>4. v = w
    BY <2>1, <2>3 DEF Out
  <2>5. PICK a, c : a = wire[w] /\ c = a \o msgs
    OBVIOUS
  <2>6. a \in Seq(Messages) /\ i \in 1 .. Len(c) /\ c[i] = Put(q)
    BY <2>1, <2>3, <2>4, <2>5
  <2>7. \A j \in 1 .. Len(c) : \/ j \in 1 .. Len(a) /\ c[j] = a[j]
                               \/ j - Len(a) \in 1 .. Len(msgs) /\ c[j] = msgs[j - Len(a)]
    BY <2>5, <2>6, ConcatFacts
  <2>8. ~(i \in 1 .. Len(a) /\ c[i] = a[i])
    BY <2>5, <2>6 DEF Out
  <2> QED BY <2>6, <2>7, <2>8
<1>2. \A p \in Pairs : Remove(p) # Put(q) /\ (Put(p) = Put(q) => p = q)
  <2>1. \A p \in Pairs : /\ Remove(p).op = "remove" /\ Put(q).op = "put"
                         /\ Put(p).pair = p /\ Put(q).pair = q
    BY DEF Remove, Put
  <2> QED BY <2>1
<1>3. ~(wire' = [wire EXCEPT ![w] = @ \o <<>>])
  <2>1. Len(<<>>) = 0 /\ <<>> \in Seq(Messages)
    BY SmallMessages
  <2>2. \A n \in 1 .. Len(<<>>) : FALSE
    BY <2>1
  <2> QED BY <1>1, <2>1, <2>2
<1>4. ASSUME NEW m \in Messages, wire' = [wire EXCEPT ![w] = @ \o <<m>>] PROVE m = Put(q)
  <2>1. PICK msgs : msgs = <<m>>
    OBVIOUS
  <2>2. msgs \in Seq(Messages) /\ Len(msgs) = 1 /\ msgs[1] = m
    BY <2>1
  <2>3. PICK n \in 1 .. Len(msgs) : msgs[n] = Put(q)
    BY <1>1, <1>4, <2>1, <2>2
  <2>4. n = 1
    BY <2>2
  <2> QED BY <2>2, <2>3, <2>4
<1>5. \A p \in Pairs : Put(p) \in Messages /\ Remove(p) \in Messages
  BY DEF Put, Remove, Messages
<1>6. \A job, steps : ~Go(w, job, <<>>, steps)
  BY <1>3 DEF Go
<1>7. \A job, steps : \A p \in Pairs : ~Go(w, job, <<Remove(p)>>, steps)
  BY <1>2, <1>4, <1>5 DEF Go
<1>8. \A job, steps : \A p \in Pairs : Go(w, job, <<Put(p)>>, steps) => p = q
  BY <1>2, <1>4, <1>5 DEF Go
<1>9. ~Skip(w)
  BY <1>6 DEF Skip
<1>10. wire' # wire
  BY DEF Out
<1> QED BY <1>6, <1>7, <1>8, <1>9, <1>10

(* A put that a call owes an entry: it was made, and the entry is not      *)
(* written yet, or its write failed and will be told.                      *)
Promised(w, q) ==
    /\ work[w].kc = [status |-> "active", pair |-> q]
    /\ \/ work[w].hold
       \/ \E i \in 1 .. Len(work[w].todo) :
            work[w].todo[i].do \in {"record", "write"} /\ work[w].todo[i].pair = q

(* Whatever is out is named by an entry, or owed one, or told.             *)
Traced == \A q \in Pairs : Out(q) =>
    q \in Addresses \cup Excused \/ \E w \in Workers : Promised(w, q)

(* The calls of a revoke put back only what is named.                      *)
LEMMA RevokePuts ==
  ASSUME Shape, NEW w \in Workers, Revoke(w) \/ Regranted(w), Fitting(w),
         NEW q \in Pairs, ~Out(q), Out(q)'
  PROVE  q \in Addresses'
<1>0. Working /\ tuples' = tuples
  BY DEF Shape, Revoke, Scan, Flush, Recheck, Verify, ConfirmLive, Settle, Reassert, Own,
         ClearMarker, Regranted, local
<1>1. CASE Scan(w)
  <2>1. PICK d \in {"scan", "scanLive", "scanQuick"} : At(w, d) /\ Pair(w) \in Pairs
    BY <1>0, <1>1, AtFacts DEF Scan, Paired
  <2>2. \E s, a : \/ Go(w, [work[w] EXCEPT !.by = s], <<>>, <<>>)
                 \/ Go(w, [work[w] EXCEPT !.by = None], <<Remove(Pair(w))>>, a)
    BY <1>1 DEF Scan
  <2> QED BY <1>0, <2>1, <2>2, GoPuts
<1>2. CASE Flush(w) \/ ConfirmLive(w) \/ ClearMarker(w) \/ Own(w)
  BY <1>0, <1>2, GoPuts DEF Flush, ConfirmLive, ClearMarker, Own
<1>3. CASE Verify(w)
  <2>1. Pair(w) \in Pairs
    BY <1>0, <1>3, AtFacts DEF Verify, Paired
  <2>2. \E s : \/ Go(w, [work[w] EXCEPT !.by = s], <<>>, <<>>)
              \/ Go(w, work[w], <<Remove(Pair(w))>>, Only("flush") \o Only("fail"))
    BY <1>3 DEF Verify
  <2> QED BY <1>0, <2>1, <2>2, GoPuts
<1>4. CASE Recheck(w) \/ Regranted(w)
  <2>1. PICK d \in {"recheck", "regranted"} : At(w, d)
    BY <1>4 DEF Recheck, Regranted
  <2>2. Fits(w)
    BY <2>1, AtFits
  <2>3. /\ Sure(work[w].entry, work[w].k, work[w].todo[1], Addressed, sf)
        /\ work[w].todo[1].do = d /\ work[w].todo[1].pair = Pair(w)
    BY <1>0, <2>1, <2>2, HeadSure
  <2>4. Justifiers(sf, Pair(w), work[w].k) = {}
    BY <2>1, <2>3 DEF Sure
  <2> QED BY <1>0, <1>4, <2>4, GoPuts DEF Recheck, Regranted
<1>5. CASE Settle(w) \/ Reassert(w)
  <2>1. PICK d \in Asserts : At(w, d) /\ d # "save"
    BY <1>5 DEF Settle, Reassert, Asserts
  <2>2. Fits(w)
    BY <2>1, AtFits
  <2>3. /\ Sure(work[w].entry, work[w].k, work[w].todo[1], Addressed, sf)
        /\ work[w].todo[1].do = d /\ work[w].todo[1].pair = Pair(w)
    BY <1>0, <2>1, <2>2, HeadSure
  <2>4. Pair(w) \in Addressed
    BY <2>1, <2>3 DEF Sure
  <2>5. Pair(w) \in Pairs
    BY <1>0, <2>1, AtFacts DEF Asserts, Paired
  <2>6. Pair(w) = q
    BY <1>0, <1>5, <2>5, GoPuts DEF Settle, Reassert
  <2>7. q \in Addresses
    BY <2>4, <2>6, GrantAssumption DEF Addressed
  <2>8. Addresses' = Addresses
    BY <1>5 DEF Settle, Reassert, local, bucket, Addresses
  <2> QED BY <2>7, <2>8
<1> QED BY <1>1, <1>2, <1>3, <1>4, <1>5 DEF Revoke

(* A put is owed its entry, or names it.                                   *)
LEMMA RunPuts ==
  ASSUME Shape, NEW w \in Workers, Run(w), Fitting(w), NEW q \in Pairs, ~Out(q), Out(q)'
  PROVE  q \in Addresses' \/ Promised(w, q)'
<1>0. Working
  BY DEF Shape
<1>1. CASE Revoke(w) \/ Regranted(w)
  BY <1>1, RevokePuts
<1>2. CASE Publish(w)
  <2>1. At(w, "publish") /\ tuples' = tuples
    BY <1>2 DEF Publish, local
  <2>2. work[w] \in Jobs /\ work[w].kc \in Records /\ work[w].todo # <<>>
    BY <1>0, <2>1, AtFacts
  <2>3. PICK p : p = work[w].kc.pair
    OBVIOUS
  <2>4. /\ work[w].kc.status # "inactive" /\ p # None
        /\ Go(w, work[w], <<Put(p)>>, For(<<"record">>, p))
    BY <1>0, <1>2, <2>1, <2>3, GoPuts DEF Publish
  <2>5. work[w].kc = [status |-> "active", pair |-> p] /\ p \in Pairs
    <3>1. work[w].kc # Gone
      BY <2>3, <2>4 DEF Gone
    <3>2. work[w].kc \in [status : {"active", "inactive"}, pair : Pairs \cup {None}]
      BY <2>2, <3>1 DEF Records
    <3> QED BY <2>3, <2>4, <3>2
  <2>6. p = q
    BY <1>0, <2>1, <2>4, <2>5, GoPuts
  <2>7. PICK s : s = Step("record", p)
    OBVIOUS
  <2>8. For(<<"record">>, p) = <<s>> /\ s \in Steps /\ s.do = "record" /\ s.pair = p
    BY <2>5, <2>7, OnlyIs DEF Calls
  <2>9. <<s>> \in Seq(Steps)
    BY <2>8
  <2>10. work'[w].todo = <<s>> \o Tail(work[w].todo) /\ work'[w].kc = work[w].kc
         /\ Tail(work[w].todo) \in Seq(Steps)
    <3>1. Go(w, work[w], <<Put(p)>>, <<s>>)
      BY <2>4, <2>8
    <3>2. work'[w].todo = <<s>> \o Tail(work[w].todo) /\ work'[w].kc = work[w].kc
      BY <1>0, <2>2, <2>9, <3>1, GoHas
    <3> QED BY <2>2, <3>2, TailFacts DEF Jobs
  <2>11. 1 \in 1 .. Len(work'[w].todo) /\ work'[w].todo[1] = s
    BY <2>8, <2>10
  <2> QED BY <2>5, <2>6, <2>8, <2>10, <2>11 DEF Promised
<1>3. CASE Compare(w)
  <2>1. At(w, "compare") /\ tuples' = tuples
    BY <1>3 DEF Compare, local
  <2>2. Pair(w) \in Pairs /\ work[w].k \in Contacts
    BY <1>0, <2>1, AtFacts DEF Paired
  <2>3. /\ ~(Entry(w) = Absent \/ (Entry(w).rev # work[w].entry.rev /\ Entry(w).pair # Pair(w)))
        /\ Entry(w).rev # work[w].entry.rev
        /\ Go(w, work[w], <<Put(Pair(w))>>, Only("flush"))
    BY <1>0, <1>3, <2>1, GoPuts DEF Compare
  <2>4. Entry(w).pair = q
    BY <1>0, <2>1, <2>2, <2>3, GoPuts
  <2>5. q \in Addresses
    BY <2>2, <2>4 DEF Entry, Addresses
  <2>6. Addresses' = Addresses
    BY <1>3 DEF Compare, local, bucket, Addresses
  <2> QED BY <2>5, <2>6
<1>4. CASE Claimed(w)
  <2>1. At(w, "claimed") /\ tuples' = tuples
    BY <1>4 DEF Claimed, local
  <2>2. work[w].entry.pair \in Pairs
    BY <1>0, <2>1, AtFacts DEF ByEntry
  <2> QED BY <1>0, <1>4, <2>1, <2>2, GoPuts DEF Claimed
<1>5. CASE Snapshot(w) \/ Inactive(w) \/ Record(w) \/ Write(w)
  <2>1. tuples' = tuples
    BY <1>5 DEF Snapshot, Inactive, Record, Write, local
  <2> QED BY <1>0, <1>5, <2>1, GoPuts DEF Snapshot, Inactive, Record, Write
<1>6. CASE Expire(w) \/ Justify(w) \/ Claim(w) \/ Clear(w)
  <2>1. tuples' = tuples
    BY <1>6 DEF Expire, Justify, Claim, Clear, local
  <2>2. \E job, steps : Go(w, job, <<>>, steps)
    <3>1. CASE Expire(w)
      BY <3>1 DEF Expire
    <3>2. CASE Justify(w)
      BY <3>2 DEF Justify
    <3>3. CASE Claim(w) \/ Clear(w)
      BY <3>3 DEF Claim, Clear, Skip
    <3> QED BY <1>6, <3>1, <3>2, <3>3
  <2> QED BY <1>0, <2>1, <2>2, GoPuts
<1>7. CASE Lookup(w) \/ Withdraw(w) \/ EraseEntry(w) \/ SaveUpdate(w) \/ SettleStale(w)
           \/ DeleteRecord(w) \/ Pass(w)
  <2>1. tuples' = tuples
    BY <1>7 DEF Lookup, Withdraw, EraseEntry, SaveUpdate, SettleStale, DeleteRecord, Pass, local
  <2>2. \E job, steps : Go(w, job, <<>>, steps)
    <3>1. CASE Lookup(w) \/ EraseEntry(w) \/ Pass(w)
      BY <3>1 DEF Lookup, EraseEntry, Pass, Skip
    <3>2. CASE Withdraw(w) \/ SettleStale(w)
      BY <3>2 DEF Withdraw, SettleStale
    <3>3. CASE SaveUpdate(w)
      BY <3>3 DEF SaveUpdate
    <3>4. CASE DeleteRecord(w)
      BY <3>4 DEF DeleteRecord
    <3> QED BY <1>7, <3>1, <3>2, <3>3, <3>4
  <2> QED BY <1>0, <2>1, <2>2, GoPuts
<1>8. CASE Fails(w) \/ End(w)
  <2>1. tuples' = tuples /\ wire' = wire
    BY <1>8 DEF Fails, End, local
  <2> QED BY <1>0, <2>1, GoPuts
<1> QED BY <1>1, <1>2, <1>3, <1>4, <1>5, <1>6, <1>7, <1>8 DEF Run, Grant, RevokeNoLongerLive

(* A promise behind the head of the program outlives the call at the head. *)
LEMMA MovesPromise ==
  ASSUME Shape, NEW w \in Workers, Moves(w), Fitting(w), NEW q, Promised(w, q),
         work[w].todo[1].do \in {"record", "write"} => work[w].hold \/ work[w].todo[1].pair # q
  PROVE  Promised(w, q)'
<1>1. /\ work'[w].hold = work[w].hold
      /\ work'[w].kc = work[w].kc \/ At(w, "save")
      /\ \A i \in 2 .. Len(work[w].todo) : \E j \in 1 .. Len(work'[w].todo) :
            work'[w].todo[j] = work[w].todo[i]
  BY MovesHas
<1>2. work[w].todo \in Seq(Steps)
  BY DEF Shape, Working, Jobs
<1>3. ~At(w, "save")
  <2>1. SUFFICES ASSUME At(w, "save") PROVE FALSE
    OBVIOUS
  <2>2. CASE Fits(w)
    BY <2>1, <2>2, HeadSure DEF Shape
  <2>3. CASE Saving(w)
    <3>1. PICK s : s = Step("save", None)
      OBVIOUS
    <3>2. work[w].todo = <<s>> /\ s.do = "save" /\ ~work[w].hold
      BY <2>3, <3>1, OnlyIs DEF Saving
    <3>3. Len(<<s>>) = 1 /\ <<s>>[1] = s
      OBVIOUS
    <3>4. \A i \in 1 .. Len(work[w].todo) : work[w].todo[i].do = "save"
      BY <3>2, <3>3
    <3> QED BY <3>2, <3>4 DEF Promised
  <2> QED BY <2>2, <2>3 DEF Fitting
<1>4. work'[w].kc = [status |-> "active", pair |-> q]
  BY <1>1, <1>3 DEF Promised
<1>5. CASE work[w].hold
  BY <1>1, <1>4, <1>5 DEF Promised
<1>6. CASE ~work[w].hold
  <2>1. PICK i \in 1 .. Len(work[w].todo) :
          work[w].todo[i].do \in {"record", "write"} /\ work[w].todo[i].pair = q
    BY <1>6 DEF Promised
  <2>2. i # 1
    BY <1>6, <2>1
  <2>3. i \in 2 .. Len(work[w].todo)
    BY <1>2, <2>1, <2>2
  <2>4. PICK j \in 1 .. Len(work'[w].todo) : work'[w].todo[j] = work[w].todo[i]
    BY <1>1, <2>3
  <2> QED BY <1>4, <2>1, <2>4 DEF Promised
<1> QED BY <1>5, <1>6

(* The entry comes to name the pair, or its write waits its turn.          *)
LEMMA RecordPromise ==
  ASSUME Shape, NEW w \in Workers, Record(w) \/ Write(w), NEW q, q = Pair(w), Promised(w, q)
  PROVE  Promised(w, q)' \/ q \in Addresses'
<1>0. Working /\ Around
  BY DEF Shape
<1>1. PICK k, kc : k = work[w].k /\ kc = work[w].kc
  OBVIOUS
<1>2. /\ work[w] \in Jobs /\ work[w].todo # <<>> /\ q \in Pairs /\ k \in Contacts
      /\ Entry(w) \in Entries /\ kc = [status |-> "active", pair |-> q]
  <2>1. PICK d \in {"record", "write"} : At(w, d)
    BY DEF Record, Write
  <2> QED BY <1>0, <1>1, <2>1, AtFacts, EntryTyped DEF Paired, Promised
<1>3. ASSUME NEW m, Name(k, q, m) PROVE q \in Addresses'
  <2>1. grants'[k].pair = q
    BY <1>0, <1>2, <1>3 DEF Name, Around
  <2> QED BY <1>2, <2>1 DEF Addresses
<1>4. ASSUME NEW job \in Jobs, job.todo = work[w].todo, job.kc = kc, NEW steps \in Seq(Steps),
             Go(w, job, <<>>, steps), NEW i \in 1 .. Len(steps),
             steps[i].do \in {"record", "write"}, steps[i].pair = q
      PROVE  Promised(w, q)'
  <2>1. /\ work'[w].todo = steps \o Tail(work[w].todo) /\ work'[w].kc = kc
        /\ Tail(work[w].todo) \in Seq(Steps)
    <3>1. work'[w].todo = steps \o Tail(job.todo) /\ work'[w].kc = job.kc
      BY <1>0, <1>2, <1>4, GoHas
    <3> QED BY <1>2, <1>4, <3>1, TailFacts DEF Jobs
  <2>2. i \in 1 .. Len(work'[w].todo) /\ work'[w].todo[i] = steps[i]
    BY <1>4, <2>1, ConcatFacts
  <2> QED BY <1>2, <1>4, <2>1, <2>2 DEF Promised
<1>5. CASE Record(w)
  <2>1. PICK e : e = Entry(w)
    OBVIOUS
  <2>2. \/ \E m : Name(k, q, m)
        \/ Go(w, [work[w] EXCEPT !.entry = e], <<>>, Drain(e.marker) \o For(<<"write">>, q))
    BY <1>1, <1>5, <2>1 DEF Record
  <2>3. CASE Go(w, [work[w] EXCEPT !.entry = e], <<>>, Drain(e.marker) \o For(<<"write">>, q))
    <3>1. PICK job, a, s : job = [work[w] EXCEPT !.entry = e] /\ a = Drain(e.marker) /\ s = Step("write", q)
      OBVIOUS
    <3>2. job \in Jobs /\ job.todo = work[w].todo /\ job.kc = kc
      BY <1>1, <1>2, <2>1, <3>1 DEF Jobs
    <3>3. For(<<"write">>, q) = <<s>> /\ s \in Steps /\ s.do = "write" /\ s.pair = q
      BY <1>2, <3>1, OnlyIs DEF Calls
    <3>4. a \in Seq(Steps)
      BY <1>2, <2>1, <3>1, PairsOf, StepPrograms
    <3>5. PICK b : b = <<s>>
      OBVIOUS
    <3>6. b \in Seq(Steps) /\ Len(b) = 1 /\ b[1] = s
      BY <3>3, <3>5
    <3>7. PICK S : S = Steps
      OBVIOUS
    <3>8. a \in Seq(S) /\ b \in Seq(S)
      BY <3>4, <3>6, <3>7
    <3>9. PICK c : c = a \o b
      OBVIOUS
    <3>10. /\ Len(c) = Len(a) + 1 /\ Len(a) \in Nat
           /\ \A i \in 1 .. Len(b) : c[Len(a) + i] = b[i]
      BY <3>6, <3>8, <3>9, ConcatEnd
    <3>11. c \in Seq(Steps)
      BY <3>4, <3>6, <3>9, Concats
    <3>12. Len(a) + 1 \in 1 .. Len(c) /\ c[Len(a) + 1] = s
      BY <3>6, <3>10
    <3>13. Go(w, job, <<>>, c)
      BY <2>3, <3>1, <3>3, <3>5, <3>9
    <3> QED BY <1>4, <3>2, <3>3, <3>11, <3>12, <3>13
  <2> QED BY <1>3, <2>2, <2>3
<1>6. CASE Write(w)
  <2>1. \/ \E m : Name(k, q, m)
        \/ Go(w, work[w], <<>>, For(<<"record">>, q))
    BY <1>1, <1>6 DEF Write
  <2>2. CASE Go(w, work[w], <<>>, For(<<"record">>, q))
    <3>1. PICK s, b : s = Step("record", q) /\ b = <<s>>
      OBVIOUS
    <3>2. For(<<"record">>, q) = <<s>> /\ s \in Steps /\ s.do = "record" /\ s.pair = q
      BY <1>2, <3>1, OnlyIs DEF Calls
    <3>3. b \in Seq(Steps) /\ 1 \in 1 .. Len(b) /\ b[1] = s
      BY <3>1, <3>2
    <3>4. Go(w, work[w], <<>>, b)
      BY <2>2, <3>1, <3>2
    <3> QED BY <1>1, <1>2, <1>4, <3>2, <3>3, <3>4
  <2> QED BY <1>3, <2>1, <2>2
<1> QED BY <1>5, <1>6

(* A promise is kept, or its failure is told.                              *)
LEMMA KeepsPromise ==
  ASSUME Shape, NEW w \in Workers, Run(w) \/ CallFails(w) \/ Crash(w), Fitting(w),
         NEW q \in Pairs, Promised(w, q)
  PROVE  Promised(w, q)' \/ q \in Addresses' \cup Excused'
<1>0. Working /\ work[w].todo \in Seq(Steps)
  BY DEF Shape, Working, Jobs
<1>1. q # None /\ work[w].kc.status = "active" /\ work[w].kc.pair = q
  BY GrantAssumption DEF Promised
<1>2. work[w].hold => q \in Told(w)
  BY <1>1 DEF Told, Held, Known
<1>3. CASE Moves(w) /\ (Record(w) \/ Write(w)) /\ q = Pair(w)
  BY <1>3, RecordPromise
<1>4. CASE Moves(w) /\ ~((Record(w) \/ Write(w)) /\ q = Pair(w)) /\ Run(w)
  <2>1. SUFFICES ASSUME ~work[w].hold, work[w].todo[1].do \in {"record", "write"}, work[w].todo[1].pair = q
                 PROVE  FALSE
    BY <1>4, MovesPromise
  <2>2. work[w].todo # <<>>
    BY <1>4, MovesHas
  <2>3. Head(work[w].todo) = work[w].todo[1]
    BY <1>0, <2>2
  <2>4. Pair(w) = q /\ (At(w, "record") \/ At(w, "write"))
    BY <2>1, <2>2, <2>3 DEF Pair, At
  <2>5. \A d : At(w, d) => d \in {"record", "write"}
    BY <2>4 DEF At
  <2>6. ~Revoke(w)
    BY <2>5 DEF Revoke, Scan, Flush, Recheck, Verify, ConfirmLive, Settle, Reassert, Own, ClearMarker
  <2>7. ~RevokeNoLongerLive(w)
    BY <2>5 DEF RevokeNoLongerLive, Expire, Justify, Claim, Claimed, Regranted, Compare, Clear
  <2>8. ~(Snapshot(w) \/ Publish(w) \/ Inactive(w))
    BY <2>5 DEF Snapshot, Publish, Inactive
  <2>9. ~(Lookup(w) \/ Withdraw(w) \/ EraseEntry(w) \/ SaveUpdate(w) \/ SettleStale(w) \/ DeleteRecord(w)
          \/ Fails(w) \/ Pass(w))
    BY <2>5 DEF Lookup, Withdraw, EraseEntry, SaveUpdate, SettleStale, DeleteRecord, Fails, Pass, Handlers
  <2>10. ~End(w)
    BY <2>2 DEF End
  <2> QED BY <1>4, <2>4, <2>6, <2>7, <2>8, <2>9, <2>10 DEF Run, Grant
<1>5. CASE Fails(w) \/ CallFails(w)
  <2>1. /\ work'[w].kc = work[w].kc
        /\ \/ work'[w].hold
           \/ /\ work'[w].hold = work[w].hold /\ work'[w].todo = Tail(work[w].todo)
              /\ Head(work[w].todo).do \in Swallowed \cup {"lookup"}
    BY <1>5, FailsHas
  <2>2. CASE work'[w].hold
    BY <2>1, <2>2 DEF Promised
  <2>3. CASE ~work'[w].hold
    <3>1. work[w].todo # <<>>
      BY <1>5 DEF Fails, CallFails, At
    <3>2. PICK i \in 1 .. Len(work[w].todo) :
            work[w].todo[i].do \in {"record", "write"} /\ work[w].todo[i].pair = q
      BY <2>1, <2>3 DEF Promised
    <3>3. i # 1
      BY <1>0, <2>1, <2>3, <3>1, <3>2, TailFacts DEF Swallowed
    <3>4. i - 1 \in 1 .. Len(Tail(work[w].todo)) /\ Tail(work[w].todo)[i - 1] = work[w].todo[i]
      BY <1>0, <3>1, <3>3
    <3> QED BY <2>1, <2>3, <3>2, <3>4 DEF Promised
  <2> QED BY <2>2, <2>3
<1>6. CASE End(w)
  <2>1. \A i \in 1 .. Len(work[w].todo) : FALSE
    <3>1. Len(<<>>) = 0
      OBVIOUS
    <3> QED BY <1>6, <3>1 DEF End
  <2>2. work[w].hold
    BY <2>1 DEF Promised
  <2> QED BY <1>2, <1>6, <2>2 DEF End, Excused
<1>7. CASE Crash(w)
  <2>1. CASE work[w].hold
    BY <1>2, <1>7, <2>1 DEF Crash, Excused
  <2>2. CASE ~work[w].hold
    <3>1. PICK i \in 1 .. Len(work[w].todo) :
            work[w].todo[i].do \in {"record", "write"} /\ work[w].todo[i].pair = q
      BY <2>2 DEF Promised
    <3>2. DOMAIN work[w].todo = 1 .. Len(work[w].todo)
      BY <1>0
    <3>3. q \in Unrecorded(w)
      BY <3>1, <3>2 DEF Unrecorded
    <3> QED BY <1>7, <3>3 DEF Crash, Excused
  <2> QED BY <2>1, <2>2
<1> QED BY <1>3, <1>4, <1>5, <1>6, <1>7, RunMoves

(* What is told is never taken back.                                       *)
LEMMA ExcusedGrows == ASSUME [Next]_vars PROVE Excused \subseteq Excused'
<1>1. CASE UNCHANGED vars
  BY <1>1 DEF vars, Excused
<1>2. ASSUME NEW w \in Workers, Run(w) PROVE Excused \subseteq Excused'
  <2>1. CASE Revoke(w)
    BY <2>1 DEF Revoke, Scan, Flush, Recheck, Verify, ConfirmLive, Settle, Reassert, Own,
                ClearMarker, local, ledger, Excused
  <2>2. CASE Grant(w)
    <3>1. CASE Record(w)
      BY <3>1 DEF Record, Excused
    <3> QED BY <2>2, <3>1 DEF Grant, Snapshot, Publish, Inactive, Write, local, ledger, Excused
  <2>3. CASE RevokeNoLongerLive(w)
    BY <2>3 DEF RevokeNoLongerLive, Expire, Justify, Claim, Claimed, Regranted, Compare, Clear,
                local, ledger, Excused
  <2>4. CASE Lookup(w) \/ Withdraw(w) \/ EraseEntry(w) \/ SaveUpdate(w) \/ SettleStale(w)
             \/ DeleteRecord(w) \/ Fails(w) \/ Pass(w)
    BY <2>4 DEF Lookup, Withdraw, EraseEntry, SaveUpdate, SettleStale, DeleteRecord, Fails, Pass,
                local, ledger, Excused
  <2>5. CASE End(w)
    BY <2>5 DEF End, Excused
  <2> QED BY <1>2, <2>1, <2>2, <2>3, <2>4, <2>5 DEF Run
<1>3. ASSUME NEW w \in Workers, CallFails(w) \/ Crash(w) \/ Deliver(w) PROVE Excused \subseteq Excused'
  BY <1>3 DEF CallFails, Crash, Deliver, ledger, Excused
<1>4. ASSUME NEW w \in Writers, NEW k \in Contacts,
             Create(w, k) \/ Update(w, k) \/ Delete(w, k) \/ Republish(w, k)
      PROVE  Excused \subseteq Excused'
  BY <1>4 DEF Create, Update, Delete, Republish, Call, Excused
<1>5. ASSUME NEW k \in Contacts, Change(k) PROVE Excused \subseteq Excused'
  BY <1>5 DEF Change, Excused
<1>6. CASE Take \/ PassOver
  BY <1>6 DEF Take, PassOver, local, ledger, Excused
<1> QED BY <1>1, <1>2, <1>3, <1>4, <1>5, <1>6 DEF Next

(* A worker's promises are its own.                                        *)
LEMMA OtherPromise ==
  ASSUME Working, NEW w, work' = [work EXCEPT ![w] = work'[w]], NEW v \in Workers, v # w,
         NEW q, Promised(v, q)
  PROVE  Promised(v, q)'
<1>1. work'[v] = work[v]
  <2>1. PICK new : work' = [work EXCEPT ![w] = new]
    OBVIOUS
  <2> QED BY <2>1 DEF Working
<1> QED BY <1>1 DEF Promised

(* ... and a worker without a call has none.                               *)
LEMMA IdlePromise == ASSUME NEW w, NEW q, Promised(w, q) PROVE work[w] # Idle
<1>1. Idle.kc.status = "gone"
  BY DEF Idle, Gone
<1>2. work[w].kc.status = "active"
  BY DEF Promised
<1> QED BY <1>1, <1>2

(* A promise is kept by every step, or its failure is told.                *)
LEMMA NextPromise ==
  ASSUME Shape, Orderly, [Next]_vars, NEW v \in Workers, NEW q \in Pairs, Promised(v, q)
  PROVE  q \in Addresses' \cup Excused' \/ Promised(v, q)'
<1>0. Working
  BY DEF Shape
<1>1. ASSUME work' = work PROVE Promised(v, q)'
  BY <1>1 DEF Promised
<1>2. ASSUME NEW w \in Workers, Run(w) \/ CallFails(w) \/ Crash(w)
      PROVE  q \in Addresses' \cup Excused' \/ Promised(v, q)'
  <2>1. Mine(w) /\ Fitting(w)
    BY <1>0, <1>2, RunMine DEF Orderly
  <2>2. CASE v = w
    BY <1>2, <2>1, <2>2, KeepsPromise
  <2>3. CASE v # w
    BY <1>0, <2>1, <2>3, OtherPromise DEF Mine
  <2> QED BY <2>2, <2>3
<1>3. ASSUME NEW w \in Workers, work[w] = Idle, work' = [work EXCEPT ![w] = work'[w]]
      PROVE  Promised(v, q)'
  BY <1>0, <1>3, IdlePromise, OtherPromise
<1>4. ASSUME NEW w \in Writers, NEW k \in Contacts,
             Create(w, k) \/ Update(w, k) \/ Delete(w, k) \/ Republish(w, k)
      PROVE  Promised(v, q)'
  <2>1. w \in Workers
    BY DEF Workers
  <2> QED BY <1>3, <1>4, <2>1, ApiGuarded
<1>5. ASSUME Take PROVE Promised(v, q)'
  <2>1. Consumer \in Workers
    BY DEF Workers
  <2> QED BY <1>3, <1>5, <2>1, TakeGuarded
<1>6. ASSUME NEW k \in Contacts, Change(k) PROVE Promised(v, q)'
  BY <1>1, <1>6 DEF Change
<1>7. ASSUME PassOver PROVE Promised(v, q)'
  BY <1>1, <1>7 DEF PassOver
<1>8. ASSUME NEW w \in Workers, Deliver(w) PROVE Promised(v, q)'
  BY <1>1, <1>8 DEF Deliver
<1>9. ASSUME UNCHANGED vars PROVE Promised(v, q)'
  BY <1>1, <1>9 DEF vars
<1> QED BY <1>2, <1>4, <1>5, <1>6, <1>7, <1>8, <1>9 DEF Next

(* What comes out is owed an entry, or named.                              *)
LEMMA NextPuts ==
  ASSUME Shape, Orderly, [Next]_vars, NEW q \in Pairs, ~Out(q), Out(q)'
  PROVE  q \in Addresses' \/ \E w \in Workers : Promised(w, q)'
<1>0. Working
  BY DEF Shape
<1>1. ~(tuples' = tuples /\ \A v \in Workers : wire'[v] = wire[v] \/ wire'[v] = <<>>)
  BY QuietSame
<1>2. ASSUME NEW w \in Workers, Run(w) PROVE q \in Addresses' \/ Promised(w, q)'
  <2>1. Fitting(w)
    BY DEF Orderly
  <2> QED BY <1>2, <2>1, RunPuts
<1>3. ASSUME NEW w \in Workers, CallFails(w) PROVE FALSE
  BY <1>3, QuietFails
<1>4. ASSUME NEW w \in Workers, Crash(w) PROVE FALSE
  BY <1>0, <1>1, <1>4 DEF Crash, Working
<1>5. ASSUME NEW w \in Workers, Deliver(w) PROVE FALSE
  BY <1>5, QuietDeliver
<1>6. ASSUME NEW w \in Writers, NEW k \in Contacts,
             Create(w, k) \/ Update(w, k) \/ Delete(w, k) \/ Republish(w, k)
      PROVE  FALSE
  BY <1>1, <1>6 DEF Create, Update, Delete, Republish, Call
<1>7. ASSUME Take PROVE FALSE
  BY <1>1, <1>7 DEF Take, local
<1>8. ASSUME NEW k \in Contacts, Change(k) PROVE FALSE
  BY <1>1, <1>8 DEF Change
<1>9. ASSUME PassOver PROVE FALSE
  BY <1>1, <1>9 DEF PassOver
<1>10. ASSUME UNCHANGED vars PROVE FALSE
  BY <1>1, <1>10 DEF vars
<1> QED BY <1>2, <1>3, <1>4, <1>5, <1>6, <1>7, <1>8, <1>9, <1>10 DEF Next

(* Every step keeps a trace of what is out.                                *)
LEMMA NextTraced ==
  ASSUME Shape, Orderly, Traced, Freed, [Next]_vars
  PROVE  Traced'
<1>1. ASSUME NEW q \in Pairs, Out(q)'
      PROVE  q \in Addresses' \cup Excused' \/ \E w \in Workers : Promised(w, q)'
  <2>1. CASE ~Out(q)
    BY <1>1, <2>1, NextPuts
  <2>2. CASE Out(q)
    <3>1. q \in Addresses \cup Excused \/ \E w \in Workers : Promised(w, q)
      BY <2>2 DEF Traced
    <3>2. CASE q \in Addresses
      BY <2>2, <3>2 DEF Freed
    <3>3. CASE q \in Excused
      BY <3>3, ExcusedGrows
    <3>4. ASSUME NEW w \in Workers, Promised(w, q)
          PROVE  q \in Addresses' \cup Excused' \/ Promised(w, q)'
      BY <3>4, NextPromise
    <3> QED BY <3>1, <3>2, <3>3, <3>4
  <2> QED BY <2>1, <2>2
<1> QED BY <1>1 DEF Traced

(* What is inductive.                                                      *)
CalmInv == /\ ReadInv /\ Zero
           /\ calm => Orderly /\ Traced

(* Every step keeps it; a calm behaviour stays calm.                       *)
LEMMA NextCalm ==
  ASSUME CalmInv, [MCNext]_mcvars
  PROVE  CalmInv' /\ calm' = calm /\ (calm => Freed)
<1>1. [Next]_vars /\ calm' = calm
  BY DEF MCNext, mcvars, calm
<1>2. ReadInv' /\ Shape /\ Steady /\ Shape'
  BY <1>1, NextRead, NextSteady DEF CalmInv, ReadInv
<1>3. Zero'
  BY <1>2, NextZero DEF CalmInv, Shape
<1>4. ASSUME calm PROVE Orderly' /\ Freed
  <2>1. Orderly /\ ReadInv /\ Zero
    BY <1>4 DEF CalmInv
  <2>2. Freed
    BY <1>1, <2>1, NextKeeps DEF Orderly
  <2> QED BY <1>2, <1>4, <2>1, <2>2, NextOrderly
<1>5. ASSUME calm PROVE Traced'
  <2>1. Orderly /\ Traced
    BY <1>5 DEF CalmInv
  <2> QED BY <1>1, <1>2, <1>4, <1>5, <2>1, NextTraced
<1> QED BY <1>1, <1>2, <1>3, <1>4, <1>5 DEF CalmInv

(* It holds at first.                                                      *)
LEMMA InitCalm == MCInit => CalmInv
<1> SUFFICES ASSUME MCInit PROVE CalmInv
  OBVIOUS
<1>1. Init
  BY DEF MCInit
<1>2. \A w \in Workers : work[w] = Idle /\ wire[w] = <<>>
  BY <1>1 DEF Init
<1>3. Orderly
  <2>1. ASSUME NEW w \in Workers PROVE Guarded(w) /\ Fitting(w) /\ Sees(w) /\ Alone(w)
    <3>1. Guarded(w)
      BY <1>2, IdleGuarded
    <3>2. Sees(w)
      BY <1>2 DEF Sees, Idle
    <3>4. Alone(w)
      BY <1>2 DEF Alone, Idle
    <3>3. Fits(w)
      <4>1. PICK t, e, k, A, V : /\ t = work[w].todo /\ e = work[w].entry /\ k = work[w].k
                                 /\ A = Addressed /\ V = sf
        OBVIOUS
      <4>2. t = <<>>
        BY <1>2, <4>1 DEF Idle
      <4>3. <<>> \in Seq(Steps) /\ Tame(<<>>)
        BY TamePrograms, TameAre
      <4>4. Fit(e, k, t, A, V)
        BY <4>2, <4>3, TameFit
      <4> QED BY <4>1, <4>4 DEF Fits
    <3> QED BY <3>1, <3>2, <3>3, <3>4 DEF Fitting
  <2> QED BY <2>1 DEF Orderly
<1>4. Zero
  BY <1>1, <1>2 DEF Init, Zero, Idle
<1>5. Traced
  <2>1. \A i \in 1 .. Len(<<>>) : FALSE
    <3>1. Len(<<>>) = 0
      OBVIOUS
    <3> QED BY <3>1
  <2>2. \A q \in Pairs : ~Out(q)
    BY <1>1, <1>2, <2>1 DEF Init, Out
  <2> QED BY <2>2 DEF Traced
<1> QED BY <1>1, <1>3, <1>4, <1>5, InitRead DEF CalmInv

(* One call after another, an address is given up only after a remove of   *)
(* its pair, for any number of records, pairs, writers, failures and       *)
(* crashes: what drops an address (clearRevokedGrant and clearPendingRevoke*)
(* in key_contact_grant.go, the conditional deletes, the write over a      *)
(* marker) goes by a remove that was made or by the entry of a sibling that*)
(* names the pair, never by a scan or a remove that failed on the way.     *)
THEOREM AddressesAreKept == MCSpec => CalmAddressKept
<1>1. CalmInv /\ [MCNext]_mcvars => CalmInv' /\ [calm => KeepsAddresses]_mcvars
  <2> SUFFICES ASSUME CalmInv, [MCNext]_mcvars
               PROVE  CalmInv' /\ (calm => KeepsAddresses)
    OBVIOUS
  <2>1. CalmInv' /\ (calm => Freed)
    BY NextCalm
  <2> QED BY <2>1 DEF Freed, KeepsAddresses
<1> QED BY <1>1, InitCalm, PTL DEF MCSpec, CalmAddressKept

(* One call after another, no tuple that nothing justifies is left without *)
(* an entry that names it, for any number of records, pairs, writers,      *)
(* failures and crashes: a put is behind its entry (recordKeyContactGrant),*)
(* an entry is given up after the remove (clearRevokedGrant), and what a   *)
(* failure or a crash leaves out of the bucket is told or lost.            *)
THEOREM NothingDangles == MCSpec => []CalmNoDangling
<1>1. CalmInv /\ [MCNext]_mcvars => CalmInv'
  BY NextCalm
<1>2. CalmInv => CalmNoDangling
  <2> SUFFICES ASSUME CalmInv, calm, Quiet, NEW p \in tuples
               PROVE  p \in Addresses \cup Excused
    BY DEF CalmNoDangling, NoDangling
  <2>1. Traced /\ tuples \subseteq Pairs
    BY DEF CalmInv, ReadInv, Shape, Around
  <2>2. p \in Addresses \cup Excused \/ \E w \in Workers : Promised(w, p)
    BY <2>1 DEF Traced, Out
  <2>3. \A w \in Workers : ~Promised(w, p)
    BY IdlePromise DEF Quiet
  <2> QED BY <2>2, <2>3
<1> QED BY <1>1, <1>2, InitCalm, PTL DEF MCSpec

(* The calls that may come to remove their pair, and those that may come to *)
(* remove a pair of the record they are made for.                          *)
Drops == {"scan", "scanLive", "scanQuick", "confirmLive", "settle", "verify", "recheck"}
Revokes == {"inactive", "expire", "expireLive", "justify", "justifyLive", "claim", "claimed",
            "withdraw", "recover"}

(* A program that spares the pair of its record.                           *)
MeekSteps(p) == {s \in Steps : /\ s.do \in Drops => s.pair # p
                               /\ s.do = "record" => s.pair = p
                               /\ s.do \notin Revokes \cup {"write"}}
SpareSteps(p) == MeekSteps(p) \cup {Step("write", p)}
Unwritten(job, p) == \A i \in 1 .. Len(job.todo) : job.todo[i].do = "write" => job.entry.pair # p
Sparing(job, p) == /\ job.kc = [status |-> "active", pair |-> p]
                   /\ job.todo \in Seq(SpareSteps(p))
                   /\ Unwritten(job, p)

(* Such programs.                                                          *)
LEMMA SparePrograms ==
  ASSUME NEW p \in Pairs
  PROVE  /\ <<>> \in Seq(MeekSteps(p))
         /\ \A d \in Calls \ (Drops \cup Revokes \cup {"record", "write"}) :
              /\ Only(d) \in Seq(MeekSteps(p))
              /\ \A q \in PairOrNone : For(<<d>>, q) \in Seq(MeekSteps(p))
         /\ \A d \in Drops, q \in PairOrNone : q # p => For(<<d>>, q) \in Seq(MeekSteps(p))
         /\ For(<<"record">>, p) \in Seq(MeekSteps(p))
         /\ \A q \in PairOrNone : q # p => /\ For(<<"scan", "own">>, q) \in Seq(MeekSteps(p))
                                           /\ Drain(q) \in Seq(MeekSteps(p))
         /\ \A a, b \in Seq(MeekSteps(p)) : a \o b \in Seq(MeekSteps(p))
<1>1. PICK S : S = MeekSteps(p)
  OBVIOUS
<1>2. ASSUME NEW d \in Calls \ (Revokes \cup {"write"}), NEW q \in PairOrNone,
             d \in Drops => q # p, d = "record" => q = p
      PROVE  Step(d, q) \in S
  <2>1. Step(d, q) \in Steps
    BY StepTypes
  <2> QED BY <1>1, <1>2, <2>1 DEF MeekSteps, Step
<1>3. Drops \cup {"record"} \subseteq Calls \ (Revokes \cup {"write"}) /\ "record" \notin Drops
  BY DEF Drops, Revokes, Calls
<1>4. ASSUME NEW d \in Calls \ (Drops \cup Revokes \cup {"record", "write"})
      PROVE  Only(d) \in Seq(S) /\ \A q \in PairOrNone : For(<<d>>, q) \in Seq(S)
  BY <1>2, OneOf DEF PairOrNone
<1>5. ASSUME NEW d \in Drops, NEW q \in PairOrNone, q # p PROVE For(<<d>>, q) \in Seq(S)
  BY <1>2, <1>3, <1>5, OneOf DEF PairOrNone
<1>6. For(<<"record">>, p) \in Seq(S)
  BY <1>2, <1>3, OneOf DEF PairOrNone
<1>7. ASSUME NEW q \in PairOrNone, q # p PROVE For(<<"scan", "own">>, q) \in Seq(S) /\ Drain(q) \in Seq(S)
  <2>1. Step("scan", q) \in S /\ Step("settle", q) \in S /\ Step("own", q) \in S
    BY <1>2, <1>7 DEF Drops, Revokes, Calls
  <2>2. PICK a, b : a = <<"scan", "own">> /\ b = <<"scan", "settle", "own">>
    OBVIOUS
  <2>3. /\ DOMAIN a = 1 .. 2 /\ a[1] = "scan" /\ a[2] = "own"
        /\ DOMAIN b = 1 .. 3 /\ b[1] = "scan" /\ b[2] = "settle" /\ b[3] = "own"
    BY <2>2
  <2>4. \A i \in 1 .. 2 : Step(a[i], q) \in S
    <3>1. \A i \in 1 .. 2 : i = 1 \/ i = 2
      OBVIOUS
    <3> QED BY <2>1, <2>3, <3>1
  <2>5. \A i \in 1 .. 3 : Step(b[i], q) \in S
    <3>1. \A i \in 1 .. 3 : i = 1 \/ i = 2 \/ i = 3
      OBVIOUS
    <3> QED BY <2>1, <2>3, <3>1
  <2>6. For(a, q) = [i \in 1 .. 2 |-> Step(a[i], q)] /\ For(b, q) = [i \in 1 .. 3 |-> Step(b[i], q)]
    BY <2>3 DEF For
  <2>7. [i \in 1 .. 2 |-> Step(a[i], q)] \in Seq(S)
    BY <2>4
  <2>8. [i \in 1 .. 3 |-> Step(b[i], q)] \in Seq(S)
    BY <2>5
  <2> QED BY <2>2, <2>6, <2>7, <2>8 DEF Drain
<1>8. \A a, b \in Seq(S) : a \o b \in Seq(S)
  OBVIOUS
<1>9. <<>> \in Seq(S)
  OBVIOUS
<1> QED BY <1>1, <1>4, <1>5, <1>6, <1>7, <1>8, <1>9

(* They have no write.                                                     *)
LEMMA MeekSpares ==
  ASSUME NEW p \in Pairs, NEW t \in Seq(MeekSteps(p))
  PROVE  t \in Seq(SpareSteps(p)) /\ \A i \in 1 .. Len(t) : t[i].do # "write"
<1>1. \A i \in 1 .. Len(t) : t[i] \in MeekSteps(p)
  OBVIOUS
<1>2. \A i \in 1 .. Len(t) : t[i].do # "write"
  BY <1>1 DEF MeekSteps
<1>3. t \in Seq(SpareSteps(p))
  BY DEF SpareSteps
<1> QED BY <1>2, <1>3

(* The program goes on with calls that spare the pair.                     *)
LEMMA GoSpares ==
  ASSUME Working, NEW w \in Workers, NEW p \in Pairs, Sparing(work[w], p), work[w].todo # <<>>,
         NEW job \in Jobs, job.todo = work[w].todo, job.kc = work[w].kc,
         NEW msgs, NEW steps \in Seq(SpareSteps(p)), Go(w, job, msgs, steps),
         \/ job.entry = work[w].entry /\ steps \in Seq(MeekSteps(p))
         \/ job.entry.pair # p
         \/ steps = <<>> /\ \A i \in 2 .. Len(work[w].todo) : work[w].todo[i].do # "write"
  PROVE  Sparing(work'[w], p)
<1>1. PICK S, t, new : S = SpareSteps(p) /\ t = work[w].todo /\ new = work'[w]
  OBVIOUS
<1>2. t \in Seq(S) /\ steps \in Seq(S) /\ t # <<>> /\ S \subseteq Steps
  <2>1. Step("write", p) \in Steps
    BY StepTypes DEF PairOrNone, Calls
  <2> QED BY <1>1, <2>1 DEF Sparing, SpareSteps, MeekSteps
<1>3. steps \in Seq(Steps)
  BY <1>2
<1>4. new.todo = steps \o Tail(t) /\ new.entry = job.entry /\ new.kc = job.kc
  <2>1. job.todo # <<>> /\ job.todo = t
    BY <1>1
  <2>2. /\ work'[w].todo = steps \o Tail(job.todo)
        /\ work'[w].entry = job.entry /\ work'[w].kc = job.kc
    BY ONLY <1>3, <2>1, GoHas, Working, w \in Workers, job \in Jobs, Go(w, job, msgs, steps)
  <2> QED BY ONLY <1>1, <2>1, <2>2
<1>5. /\ Tail(t) \in Seq(S) /\ Len(Tail(t)) = Len(t) - 1 /\ Len(t) \in Nat
      /\ \A i \in 1 .. Len(Tail(t)) : i + 1 \in 1 .. Len(t) /\ Tail(t)[i] = t[i + 1]
  BY <1>2, TailFacts
<1>6. PICK rest : rest = Tail(t)
  OBVIOUS
<1>7. /\ new.todo \in Seq(S)
      /\ \A i \in 1 .. Len(new.todo) :
           \/ i \in 1 .. Len(steps) /\ new.todo[i] = steps[i]
           \/ i - Len(steps) \in 1 .. Len(rest) /\ new.todo[i] = rest[i - Len(steps)]
  BY <1>2, <1>4, <1>5, <1>6, ConcatFacts
<1>8. Unwritten(new, p)
  <2> SUFFICES ASSUME NEW i \in 1 .. Len(new.todo), new.todo[i].do = "write" PROVE new.entry.pair # p
    BY DEF Unwritten
  <2>1. CASE job.entry.pair # p
    BY <1>4, <2>1
  <2>2. CASE i \in 1 .. Len(steps) /\ new.todo[i] = steps[i]
    <3>1. steps # <<>>
      <4>1. ASSUME steps = <<>> PROVE FALSE
        <5>1. Len(steps) = 0
          BY <4>1
        <5> QED BY <2>2, <5>1
      <4> QED BY <4>1
    <3> QED BY <2>1, <2>2, <3>1, MeekSpares
  <2>3. CASE i - Len(steps) \in 1 .. Len(rest) /\ new.todo[i] = rest[i - Len(steps)]
    <3>1. PICK j : j = i - Len(steps)
      OBVIOUS
    <3>2. j \in 1 .. Len(Tail(t)) /\ new.todo[i] = Tail(t)[j]
      BY <1>6, <2>3, <3>1
    <3>3. j + 1 \in 1 .. Len(t) /\ new.todo[i] = t[j + 1] /\ j + 1 \in 2 .. Len(t)
      BY <1>5, <3>2
    <3> QED BY <1>1, <1>4, <2>1, <3>3 DEF Sparing, Unwritten
  <2> QED BY <1>7, <2>2, <2>3
<1> QED BY <1>1, <1>4, <1>7, <1>8 DEF Sparing

(* What a program that spares the pair has at its head.                    *)
LEMMA HeadSpares ==
  ASSUME Working, NEW w \in Workers, NEW p \in Pairs, Sparing(work[w], p), NEW d, At(w, d)
  PROVE  /\ d \notin Revokes
         /\ d \in Drops => Pair(w) # p
         /\ d \in {"record", "write"} => Pair(w) = p
         /\ d = "write" => work[w].entry.pair # p
<1>1. PICK S, t : S = SpareSteps(p) /\ t = work[w].todo
  OBVIOUS
<1>2. t \in Seq(S) /\ t # <<>> /\ Head(t).do = d /\ Pair(w) = Head(t).pair
  BY <1>1 DEF Sparing, At, Pair
<1>3. Head(t) \in S /\ Head(t) = t[1] /\ 1 \in 1 .. Len(t)
  BY <1>2, TailFacts
<1>4. d = "write" => work[w].entry.pair # p
  BY <1>1, <1>2, <1>3 DEF Sparing, Unwritten
<1> QED BY <1>1, <1>2, <1>3, <1>4 DEF SpareSteps, MeekSteps, Step, Drops, Revokes

(* A call that is done leaves a program that spares the pair, if it brings *)
(* in only calls that do.                                                  *)
LEMMA MeekGo ==
  ASSUME Working, NEW w \in Workers, NEW p \in Pairs, Sparing(work[w], p), NEW d, At(w, d),
         NEW msgs, NEW steps \in Seq(MeekSteps(p)),
         \/ Go(w, work[w], msgs, steps)
         \/ \E s \in Contacts \cup {None} : Go(w, [work[w] EXCEPT !.by = s], msgs, steps)
         \/ sf \in Views /\ Go(w, [work[w] EXCEPT !.view = sf], msgs, steps)
  PROVE  Sparing(work'[w], p)
<1>1. work[w] \in Jobs /\ work[w].todo # <<>>
  BY AtFacts
<1>2. steps \in Seq(SpareSteps(p))
  BY MeekSpares
<1>3. ASSUME NEW job \in Jobs, job.todo = work[w].todo, job.kc = work[w].kc, job.entry = work[w].entry,
             Go(w, job, msgs, steps)
      PROVE  Sparing(work'[w], p)
  BY <1>1, <1>2, <1>3, GoSpares
<1>4. CASE Go(w, work[w], msgs, steps)
  BY <1>1, <1>3, <1>4
<1>5. CASE \E s \in Contacts \cup {None} : Go(w, [work[w] EXCEPT !.by = s], msgs, steps)
  <2>1. PICK s \in Contacts \cup {None} : Go(w, [work[w] EXCEPT !.by = s], msgs, steps)
    BY <1>5
  <2>2. PICK job : job = [work[w] EXCEPT !.by = s]
    OBVIOUS
  <2>3. /\ job \in Jobs /\ job.todo = work[w].todo /\ job.kc = work[w].kc /\ job.entry = work[w].entry
    BY <1>1, <2>2 DEF Jobs
  <2> QED BY <1>3, <2>1, <2>2, <2>3
<1>6. CASE sf \in Views /\ Go(w, [work[w] EXCEPT !.view = sf], msgs, steps)
  <2>2. PICK job : job = [work[w] EXCEPT !.view = sf]
    OBVIOUS
  <2>3. /\ job \in Jobs /\ job.todo = work[w].todo /\ job.kc = work[w].kc /\ job.entry = work[w].entry
    BY <1>1, <1>6, <2>2 DEF Jobs
  <2> QED BY <1>3, <1>6, <2>2, <2>3
<1> QED BY <1>4, <1>5, <1>6

(* Neither does a skip add one.                                            *)
LEMMA MeekSkip ==
  ASSUME Working, NEW w \in Workers, NEW p \in Pairs, Sparing(work[w], p), NEW d, At(w, d), Skip(w)
  PROVE  Sparing(work'[w], p)
<1>1. Go(w, work[w], <<>>, <<>>) /\ <<>> \in Seq(MeekSteps(p))
  BY SparePrograms DEF Skip
<1> QED BY <1>1, MeekGo

(* A revoke spares the record's pair.                                      *)
LEMMA RevokeSpares ==
  ASSUME Shape, NEW w \in Workers, NEW p \in Pairs, Sparing(work[w], p), Revoke(w) \/ Regranted(w)
  PROVE  Sparing(work'[w], p)
<1>0. Working
  BY DEF Shape
<1>1. /\ <<>> \in Seq(MeekSteps(p)) /\ Only("flush") \in Seq(MeekSteps(p))
      /\ Only("fail") \in Seq(MeekSteps(p))
  BY SparePrograms DEF Drops, Revokes, Calls
<1>2. /\ \A a, b \in Seq(MeekSteps(p)) : a \o b \in Seq(MeekSteps(p))
      /\ \A q \in PairOrNone : q # p =>
           /\ For(<<"recheck">>, q) \in Seq(MeekSteps(p)) /\ For(<<"verify">>, q) \in Seq(MeekSteps(p))
           /\ For(<<"scanLive">>, q) \in Seq(MeekSteps(p))
  BY SparePrograms DEF Drops
<1>3. CASE Scan(w)
  <2>1. PICK d \in {"scan", "scanLive", "scanQuick"} : /\ At(w, d)
        /\ \E view \in Scanned(w, d) :
             LET by == Justifiers(view, Pair(w), work[w].k)
                 confirmed == IF d = "scanQuick" THEN <<>> ELSE Only("flush")
             IN \/ \E s \in by : Go(w, [work[w] EXCEPT !.by = s], <<>>, <<>>)
                \/ /\ by = {}
                   /\ Go(w, [work[w] EXCEPT !.by = None], <<Remove(Pair(w))>>,
                         confirmed \o For(<<"recheck">>, Pair(w)))
    BY <1>3 DEF Scan
  <2>2. Pair(w) # p /\ Pair(w) \in PairOrNone
    BY <1>0, <2>1, HeadSpares, AtFacts DEF Drops
  <2>3. PICK confirmed : confirmed = IF d = "scanQuick" THEN <<>> ELSE Only("flush")
    OBVIOUS
  <2>4. \/ \E s \in Contacts : Go(w, [work[w] EXCEPT !.by = s], <<>>, <<>>)
        \/ Go(w, [work[w] EXCEPT !.by = None], <<Remove(Pair(w))>>, confirmed \o For(<<"recheck">>, Pair(w)))
    BY <2>1, <2>3 DEF Justifiers
  <2>5. confirmed \o For(<<"recheck">>, Pair(w)) \in Seq(MeekSteps(p))
    BY <1>1, <1>2, <2>2, <2>3
  <2> QED BY <1>0, <1>1, <2>1, <2>4, <2>5, MeekGo
<1>4. CASE Flush(w) \/ ClearMarker(w)
  BY <1>0, <1>4, MeekSkip DEF Flush, ClearMarker
<1>5. CASE Recheck(w)
  <2>1. At(w, "recheck") /\ Pair(w) # p /\ Pair(w) \in PairOrNone
    BY <1>0, <1>5, HeadSpares, AtFacts DEF Drops, Recheck
  <2>2. Skip(w) \/ Go(w, work[w], <<Put(Pair(w))>>, Only("flush") \o For(<<"verify">>, Pair(w)))
    BY <1>5 DEF Recheck
  <2>3. Only("flush") \o For(<<"verify">>, Pair(w)) \in Seq(MeekSteps(p))
    BY <1>1, <1>2, <2>1
  <2> QED BY <1>0, <2>1, <2>2, <2>3, MeekGo, MeekSkip
<1>6. CASE Verify(w)
  <2>1. At(w, "verify")
    BY <1>6 DEF Verify
  <2>2. \/ \E s \in Contacts : Go(w, [work[w] EXCEPT !.by = s], <<>>, <<>>)
        \/ Go(w, work[w], <<Remove(Pair(w))>>, Only("flush") \o Only("fail"))
    BY <1>6 DEF Verify, Justifiers
  <2>3. Only("flush") \o Only("fail") \in Seq(MeekSteps(p))
    BY <1>1, <1>2
  <2> QED BY <1>0, <1>1, <2>1, <2>2, <2>3, MeekGo
<1>7. CASE ConfirmLive(w)
  <2>1. At(w, "confirmLive") /\ Pair(w) # p /\ Pair(w) \in PairOrNone
    BY <1>0, <1>7, HeadSpares, AtFacts DEF Drops, ConfirmLive
  <2>2. Go(w, work[w], <<>>, <<>>) \/ Go(w, work[w], <<>>, For(<<"scanLive">>, Pair(w)))
    BY <1>7 DEF ConfirmLive
  <2> QED BY <1>0, <1>1, <1>2, <2>1, <2>2, MeekGo
<1>8. CASE Settle(w)
  <2>1. At(w, "settle") /\ Pair(w) # p /\ Pair(w) \in PairOrNone
    BY <1>0, <1>8, HeadSpares, AtFacts DEF Drops, Settle
  <2>2. \/ Skip(w) \/ Go(w, work[w], <<>>, Only("fail"))
        \/ Go(w, work[w], <<Put(Pair(w))>>, Only("flush") \o For(<<"verify">>, Pair(w)))
    BY <1>8 DEF Settle
  <2>3. Only("flush") \o For(<<"verify">>, Pair(w)) \in Seq(MeekSteps(p))
    BY <1>1, <1>2, <2>1
  <2> QED BY <1>0, <1>1, <2>1, <2>2, <2>3, MeekGo, MeekSkip
<1>9. CASE Reassert(w) \/ Regranted(w)
  <2>1. PICK d : At(w, d)
    BY <1>9 DEF Reassert, Regranted
  <2>2. Skip(w) \/ Go(w, work[w], <<Put(Pair(w))>>, Only("flush"))
    BY <1>9 DEF Reassert, Regranted
  <2> QED BY <1>0, <1>1, <2>1, <2>2, MeekGo, MeekSkip
<1>10. CASE Own(w)
  <2>1. At(w, "own") /\ (Skip(w) \/ Go(w, work[w], <<>>, Only("fail")))
    BY <1>10, OwnGrows DEF Own
  <2> QED BY <1>0, <1>1, <2>1, MeekGo, MeekSkip
<1> QED BY <1>3, <1>4, <1>5, <1>6, <1>7, <1>8, <1>9, <1>10 DEF Revoke

(* So does a publish.                                                      *)
LEMMA GrantSpares ==
  ASSUME Shape, NEW w \in Workers, NEW p \in Pairs, Sparing(work[w], p), Grant(w)
  PROVE  Sparing(work'[w], p)
<1>0. Working /\ Around
  BY DEF Shape
<1>1. /\ <<>> \in Seq(MeekSteps(p)) /\ For(<<"record">>, p) \in Seq(MeekSteps(p))
      /\ \A a, b \in Seq(MeekSteps(p)) : a \o b \in Seq(MeekSteps(p))
  BY SparePrograms
<1>2. CASE Snapshot(w)
  BY <1>0, <1>1, <1>2, MeekGo DEF Snapshot, Around
<1>3. CASE Publish(w)
  <2>1. At(w, "publish") /\ work[w].kc = [status |-> "active", pair |-> p] /\ p # None
    BY <1>3, GrantAssumption DEF Publish, Sparing
  <2>2. work[w].kc.status # "inactive" /\ work[w].kc.pair = p
    BY <2>1
  <2>3. Go(w, work[w], <<Put(p)>>, For(<<"record">>, p))
    BY <1>3, <2>1, <2>2 DEF Publish
  <2> QED BY <1>0, <1>1, <2>1, <2>3, MeekGo
<1>4. CASE Inactive(w)
  BY <1>0, <1>4, HeadSpares DEF Inactive, Revokes
<1>5. ASSUME NEW q \in PairOrNone, q # p
      PROVE  RevokeSuperseded(q) \in Seq(MeekSteps(p)) /\ Drain(q) \in Seq(MeekSteps(p))
  <2>1. For(<<"clearMarker">>, q) \in Seq(MeekSteps(p)) /\ Drain(q) \in Seq(MeekSteps(p))
    BY <1>5, SparePrograms DEF Drops, Revokes, Calls
  <2> QED BY <1>1, <2>1 DEF RevokeSuperseded
<1>6. CASE Record(w)
  <2>1. At(w, "record") /\ Pair(w) = p /\ Entry(w) \in Entries
    BY <1>0, <1>6, HeadSpares, AtFacts, EntryTyped DEF Record
  <2>2. PICK e : e = Entry(w)
    OBVIOUS
  <2>3. e.pair \in PairOrNone /\ e.marker \in PairOrNone
    BY <2>1, <2>2, PairsOf
  <2>4. \/ Skip(w)
        \/ e.pair # p /\ Go(w, work[w], <<>>, RevokeSuperseded(e.pair))
        \/ /\ e.pair # p /\ e.marker # p
           /\ Go(w, [work[w] EXCEPT !.entry = e], <<>>, Drain(e.marker) \o For(<<"write">>, p))
    BY <1>6, <2>1, <2>2 DEF Record
  <2>5. CASE Skip(w)
    BY <1>0, <2>1, <2>5, MeekSkip
  <2>6. CASE e.pair # p /\ Go(w, work[w], <<>>, RevokeSuperseded(e.pair))
    BY <1>0, <1>5, <2>1, <2>3, <2>6, MeekGo
  <2>7. CASE /\ e.pair # p /\ e.marker # p
             /\ Go(w, [work[w] EXCEPT !.entry = e], <<>>, Drain(e.marker) \o For(<<"write">>, p))
    <3>1. PICK job, steps : /\ job = [work[w] EXCEPT !.entry = e]
                            /\ steps = Drain(e.marker) \o For(<<"write">>, p)
      OBVIOUS
    <3>2. work[w] \in Jobs /\ work[w].todo # <<>>
      BY <1>0, <2>1, AtFacts
    <3>3. job \in Jobs /\ job.todo = work[w].todo /\ job.kc = work[w].kc /\ job.entry.pair # p
      BY <2>1, <2>2, <2>7, <3>1, <3>2 DEF Jobs
    <3>4. Drain(e.marker) \in Seq(SpareSteps(p))
      BY <1>5, <2>3, <2>7, MeekSpares
    <3>5. For(<<"write">>, p) \in Seq(SpareSteps(p))
      BY OneOf DEF SpareSteps
    <3>6. steps \in Seq(SpareSteps(p))
      <4>1. PICK S : S = SpareSteps(p)
        OBVIOUS
      <4>2. \A a, b \in Seq(S) : a \o b \in Seq(S)
        OBVIOUS
      <4> QED BY <3>1, <3>4, <3>5, <4>1, <4>2
    <3> QED BY <1>0, <2>7, <3>1, <3>2, <3>3, <3>6, GoSpares
  <2> QED BY <2>4, <2>5, <2>6, <2>7
<1>7. CASE Write(w)
  <2>1. At(w, "write") /\ Pair(w) = p /\ work[w].entry.pair # p /\ work[w].entry \in Entries
    BY <1>0, <1>7, HeadSpares, AtFacts DEF Write
  <2>2. PICK q : q = work[w].entry.pair
    OBVIOUS
  <2>3. q \in PairOrNone /\ q # p
    BY <2>1, <2>2, PairsOf
  <2>4. Go(w, work[w], <<>>, RevokeSuperseded(q)) \/ Go(w, work[w], <<>>, For(<<"record">>, p))
    BY <1>7, <2>1, <2>2 DEF Write
  <2> QED BY <1>0, <1>1, <1>5, <2>1, <2>3, <2>4, MeekGo
<1> QED BY <1>2, <1>3, <1>4, <1>6, <1>7 DEF Grant

(* And what does not save the record.                                      *)
LEMMA OtherSpares ==
  ASSUME Shape, NEW w \in Workers, NEW p \in Pairs, Sparing(work[w], p),
         RevokeNoLongerLive(w) \/ Lookup(w) \/ Withdraw(w) \/ EraseEntry(w) \/ SettleStale(w) \/ Pass(w)
  PROVE  Sparing(work'[w], p)
<1>0. Working /\ Around
  BY DEF Shape
<1>1. /\ <<>> \in Seq(MeekSteps(p)) /\ Only("flush") \in Seq(MeekSteps(p))
      /\ Only("clear") \in Seq(MeekSteps(p)) /\ Only("delete") \in Seq(MeekSteps(p))
      /\ \A a, b \in Seq(MeekSteps(p)) : a \o b \in Seq(MeekSteps(p))
  BY SparePrograms DEF Drops, Revokes, Calls
<1>2. CASE Expire(w) \/ Justify(w) \/ Claim(w) \/ Claimed(w) \/ Withdraw(w)
  <2>1. PICK d \in Revokes : At(w, d)
    BY <1>2 DEF Expire, Justify, Claim, Claimed, Withdraw, Revokes
  <2> QED BY <1>0, <2>1, HeadSpares
<1>3. CASE Regranted(w)
  BY <1>3, RevokeSpares
<1>4. CASE Compare(w)
  <2>1. At(w, "compare")
    BY <1>4 DEF Compare
  <2>2. \/ Skip(w) \/ Go(w, work[w], <<Put(Pair(w))>>, Only("flush")) \/ Go(w, work[w], <<>>, Only("clear"))
    BY <1>4 DEF Compare
  <2> QED BY <1>0, <1>1, <2>1, <2>2, MeekGo, MeekSkip
<1>5. CASE Clear(w) \/ EraseEntry(w) \/ Pass(w)
  BY <1>0, <1>5, MeekSkip DEF Clear, EraseEntry, Pass
<1>6. CASE Lookup(w)
  <2>1. At(w, "lookup") /\ Entry(w) \in Entries
    BY <1>0, <1>6, AtFacts, EntryTyped DEF Lookup
  <2>2. PICK job, t : job = [work[w] EXCEPT !.entry = Entry(w)] /\ t = work[w].todo
    OBVIOUS
  <2>3. work[w] \in Jobs /\ Sound(work[w]) /\ t # <<>> /\ Head(t).do = "lookup"
    BY <1>0, <2>1, <2>2, AtFacts
  <2>4. job \in Jobs /\ job.todo = t /\ job.kc = work[w].kc
    BY <2>1, <2>2, <2>3 DEF Jobs
  <2>5. t \in Seq(Steps)
    BY <2>2, <2>3 DEF Jobs
  <2>6. Head(t) = t[1] /\ 1 \in 1 .. Len(t) /\ Len(t) \in Nat
    BY <2>3, <2>5, TailFacts
  <2>7. \A i \in 2 .. Len(t) : t[i].do # "write"
    <3> SUFFICES ASSUME NEW i \in 2 .. Len(t), t[i].do = "write" PROVE FALSE
      OBVIOUS
    <3>1. i \in 1 .. Len(t) /\ 1 < i
      OBVIOUS
    <3>2. t[1].do \in Keeping
      BY <2>2, <2>3, <2>6, <3>1 DEF Sound
    <3> QED BY <2>3, <2>6, <3>2, NotKept
  <2>8. Go(w, job, <<>>, <<>>) /\ <<>> \in Seq(SpareSteps(p))
    BY <1>1, <1>6, <2>2, MeekSpares DEF Lookup
  <2> QED BY <1>0, <2>2, <2>3, <2>4, <2>7, <2>8, GoSpares
<1>7. CASE SettleStale(w)
  <2>1. At(w, "settleStale") /\ work[w].entry \in Entries
    BY <1>0, <1>7, AtFacts DEF SettleStale
  <2>2. PICK q : q = work[w].entry.pair
    OBVIOUS
  <2>3. q \in PairOrNone /\ p # None
    BY <2>1, <2>2, PairsOf, GrantAssumption
  <2>4. OwnPair(work[w]) = p
    BY <2>3 DEF OwnPair, Sparing
  <2>5. PICK steps : /\ steps = (IF q \in {None, p} THEN <<>> ELSE For(<<"scan", "own">>, q)) \o Only("delete")
                     /\ Go(w, work[w], <<>>, steps)
    BY <1>7, <2>2, <2>4 DEF SettleStale
  <2>6. q # p => For(<<"scan", "own">>, q) \in Seq(MeekSteps(p))
    BY <2>3, SparePrograms
  <2>7. steps \in Seq(MeekSteps(p))
    BY <1>1, <2>5, <2>6
  <2> QED BY <1>0, <2>1, <2>5, <2>7, MeekGo
<1> QED BY <1>2, <1>3, <1>4, <1>5, <1>6, <1>7 DEF RevokeNoLongerLive

(* What a failed call leaves.                                              *)
LEMMA FailsLeave ==
  ASSUME Shape, NEW w \in Workers, Fails(w) \/ CallFails(w)
  PROVE  /\ work'[w].k = work[w].k /\ work'[w].entry = work[w].entry /\ work'[w].kc = work[w].kc
         /\ work'[w].todo \in {Tail(work[w].todo), Handled(work[w])}
         /\ work[w] \in Jobs /\ Sound(work[w]) /\ work[w].todo # <<>>
         /\ \A v \in Workers \ {w} : work'[v] = work[v]
<1>1. work[w] \in Jobs /\ work \in [Workers -> Jobs] /\ Sound(work[w])
  BY DEF Shape, Working
<1>2. work[w].todo # <<>>
  BY DEF Fails, CallFails, At
<1>3. CASE GiveUp(w)
  <2>1. PICK new : new = [work[w] EXCEPT !.hold = TRUE, !.todo = Handled(work[w])]
    OBVIOUS
  <2>2. new.k = work[w].k /\ new.entry = work[w].entry /\ new.kc = work[w].kc /\ new.todo = Handled(work[w])
    BY <1>1, <2>1 DEF Jobs
  <2>3. work' = [work EXCEPT ![w] = new]
    BY <1>3, <2>1 DEF GiveUp
  <2> QED BY <1>1, <1>2, <2>2, <2>3
<1>4. CASE ~GiveUp(w)
  <2>1. work' = [work EXCEPT ![w].todo = Tail(@)]
    BY <1>4 DEF Fails, CallFails
  <2>2. PICK new : new = [work[w] EXCEPT !.todo = Tail(work[w].todo)]
    OBVIOUS
  <2>3. new.k = work[w].k /\ new.entry = work[w].entry /\ new.kc = work[w].kc /\ new.todo = Tail(work[w].todo)
    BY <1>1, <2>2 DEF Jobs
  <2>4. work' = [work EXCEPT ![w] = new]
    BY <1>1, <2>1, <2>2
  <2> QED BY <1>1, <1>2, <2>3, <2>4
<1> QED BY <1>3, <1>4

(* What is left after a failure spares the pair.                           *)
LEMMA HandledSpares ==
  ASSUME NEW job \in Jobs, Sound(job), job.todo # <<>>, NEW p \in Pairs, Sparing(job, p)
  PROVE  /\ Handled(job) \in Seq(SpareSteps(p))
         /\ \A i \in 1 .. Len(Handled(job)) : Handled(job)[i].do = "write" => job.entry.pair # p
<1>1. PICK t, h, new, S : /\ t = job.todo /\ h = FirstHandler(t) /\ new = Handled(job)
                          /\ S = SpareSteps(p)
  OBVIOUS
<1>2. t \in Seq(Steps) /\ t \in Seq(NamedSteps) /\ t \in Seq(S)
  BY <1>1 DEF Jobs, Sound, Sparing
<1>3. SUFFICES new \in Seq(S) /\ \A i \in 1 .. Len(new) : new[i].do = "write" => job.entry.pair # p
  BY <1>1
<1>4. ASSUME new \in Seq(MeekSteps(p))
      PROVE  new \in Seq(S) /\ \A i \in 1 .. Len(new) : new[i].do = "write" => job.entry.pair # p
  BY <1>1, <1>4, MeekSpares
<1>5. CASE h = 0
  BY <1>1, <1>4, <1>5, SparePrograms DEF Handled
<1>6. CASE h # 0
  <2>1. h \in 2 .. Len(t) /\ t[h].do \in Handlers /\ h \in 1 .. Len(t)
    BY <1>1, <1>2, <1>6, FirstHandlerIs
  <2>2. CASE t[h].do = "catch"
    <3>1. new = SubSeq(t, h + 1, Len(t))
      BY <1>1, <1>6, <2>2 DEF Handled
    <3>2. /\ Len(t) \in Nat /\ new \in Seq(S)
          /\ \A i \in 1 .. Len(new) : i + h \in 1 .. Len(t) /\ new[i] = t[i + h]
      BY <1>2, <2>1, <3>1
    <3> QED BY <1>1, <3>2 DEF Sparing, Unwritten
  <2>3. CASE t[h].do = "stop"
    BY <1>1, <1>4, <1>6, <2>3, SparePrograms DEF Handled
  <2>4. CASE t[h].do = "keepMarker"
    <3>1. new = Only("clear") /\ Only("clear") \in Seq(MeekSteps(p))
      BY <1>1, <1>6, <2>4, SparePrograms DEF Handled, Calls, Drops, Revokes
    <3> QED BY <1>4, <3>1
  <2>5. CASE t[h].do = "recover"
    <3>1. t[h] \in S
      BY <1>2, <2>1
    <3> QED BY <1>1, <2>5, <3>1 DEF SpareSteps, MeekSteps, Revokes, Step
  <2> QED BY <2>1, <2>2, <2>3, <2>4, <2>5 DEF Handlers
<1> QED BY <1>5, <1>6

(* A failed call spares it too.                                            *)
LEMMA FailsSpares ==
  ASSUME Shape, NEW w \in Workers, NEW p \in Pairs, Sparing(work[w], p), Fails(w) \/ CallFails(w)
  PROVE  Sparing(work'[w], p)
<1>1. PICK S, t, new : S = SpareSteps(p) /\ t = work[w].todo /\ new = work'[w]
  OBVIOUS
<1>2. /\ new.entry = work[w].entry /\ new.kc = work[w].kc /\ new.todo \in {Tail(t), Handled(work[w])}
      /\ work[w] \in Jobs /\ Sound(work[w]) /\ t # <<>> /\ t \in Seq(S)
  BY <1>1, FailsLeave DEF Sparing
<1>3. CASE new.todo = Tail(t)
  <2>1. /\ new.todo \in Seq(S)
        /\ \A i \in 1 .. Len(new.todo) : i + 1 \in 1 .. Len(t) /\ new.todo[i] = t[i + 1]
    BY <1>2, <1>3, TailFacts
  <2> QED BY <1>1, <1>2, <2>1 DEF Sparing, Unwritten
<1>4. CASE new.todo = Handled(work[w])
  <2>1. /\ Handled(work[w]) \in Seq(SpareSteps(p))
        /\ \A i \in 1 .. Len(Handled(work[w])) : Handled(work[w])[i].do = "write" => work[w].entry.pair # p
    BY <1>1, <1>2, HandledSpares
  <2> QED BY <1>1, <1>2, <1>4, <2>1 DEF Sparing, Unwritten
<1> QED BY <1>2, <1>3, <1>4

(* Whatever a worker does but save the record or end spares the pair.      *)
LEMMA RunSpares ==
  ASSUME Shape, NEW w \in Workers, NEW p \in Pairs, Sparing(work[w], p), Run(w) \/ CallFails(w)
  PROVE  SaveUpdate(w) \/ DeleteRecord(w) \/ End(w) \/ Sparing(work'[w], p)
  BY RevokeSpares, GrantSpares, OtherSpares, FailsSpares DEF Run

-----------------------------------------------------------------------------
(***************************************************************************)
(* The events.                                                             *)
(***************************************************************************)
(* A worker that does something is busy, and leaves the others alone.      *)
LEMMA RunOthers ==
  ASSUME Shape, NEW w \in Workers, Run(w) \/ CallFails(w) \/ Crash(w)
  PROVE  work[w] # Idle /\ work[w].k # None /\ \A v \in Workers \ {w} : work'[v] = work[v]
<1>0. work \in [Workers -> Jobs] /\ Sound(work[w]) /\ Idle.todo = <<>> /\ Idle.k = None
  BY DEF Shape, Working, Idle
<1>1. CASE Run(w) /\ Moves(w)
  BY <1>0, <1>1, MovesHas DEF Sound
<1>2. CASE Fails(w) \/ CallFails(w)
  BY <1>0, <1>2, FailsLeave DEF Sound
<1>3. CASE End(w) \/ Crash(w)
  BY <1>0, <1>3 DEF End, Crash
<1> QED BY <1>1, <1>2, <1>3, RunMoves

(* Salesforce changes only by a save, and the consumer takes and leaves    *)
(* its events in turn.                                                     *)
LEMMA EventSteps ==
  ASSUME Shape, [Next]_vars
  PROVE  \/ /\ \/ \E k \in Contacts, rec \in Records : Save(k, rec)
               \/ sf' = sf /\ events' = events
            /\ work[Consumer].k = None => work'[Consumer].k = None
         \/ Take
         \/ PassOver
         \/ End(Consumer) /\ ~Held(Consumer)
<1>0. Consumer \in Workers /\ Consumer \notin Writers /\ sf \in Views /\ work \in [Workers -> Jobs]
  BY GrantAssumption DEF Workers, Shape, Around, Working
<1>1. CASE UNCHANGED vars
  BY <1>1 DEF vars
<1>2. ASSUME NEW k \in Contacts, Change(k) PROVE \E rec \in Records : Save(k, rec) /\ work' = work
  BY <1>2, LiveAre DEF Change
<1>3. ASSUME NEW w \in Writers, NEW k \in Contacts,
             Create(w, k) \/ Update(w, k) \/ Delete(w, k) \/ Republish(w, k)
      PROVE  /\ (\E rec \in Records : Save(k, rec)) \/ (sf' = sf /\ events' = events)
             /\ work'[Consumer] = work[Consumer]
  <2>1. (\E rec \in Records : Save(k, rec)) \/ (sf' = sf /\ events' = events)
    BY <1>3, LiveAre DEF Create, Update, Delete, Republish
  <2>2. PICK kc, program : Call(w, k, kc, program)
    BY <1>3 DEF Create, Update, Delete, Republish
  <2>3. work'[Consumer] = work[Consumer]
    BY <1>0, <2>2 DEF Call
  <2> QED BY <2>1, <2>3
<1>4. ASSUME NEW w \in Workers, Run(w) \/ CallFails(w) \/ Crash(w)
      PROVE  /\ work[Consumer].k = None => work'[Consumer].k = None
             /\ \/ \E k \in Contacts, rec \in Records : Save(k, rec)
                \/ sf' = sf /\ events' = events
                \/ w = Consumer /\ End(Consumer) /\ ~Held(Consumer)
  <2>1. work[Consumer].k = None => work'[Consumer].k = None
    BY <1>0, <1>4, RunOthers
  <2>2. CASE Revoke(w) \/ Grant(w) \/ RevokeNoLongerLive(w) \/ Lookup(w) \/ Withdraw(w)
             \/ EraseEntry(w) \/ SettleStale(w) \/ Fails(w) \/ Pass(w) \/ CallFails(w) \/ Crash(w)
    <3>1. ASSUME Revoke(w) PROVE sf' = sf /\ events' = events
      BY <3>1 DEF Revoke, Scan, Flush, Recheck, Verify, ConfirmLive, Settle, Reassert, Own, ClearMarker, local
    <3>2. ASSUME Grant(w) PROVE sf' = sf /\ events' = events
      BY <3>2 DEF Grant, Snapshot, Publish, Inactive, Record, Write, local
    <3>3. ASSUME RevokeNoLongerLive(w) PROVE sf' = sf /\ events' = events
      BY <3>3 DEF RevokeNoLongerLive, Expire, Justify, Claim, Claimed, Regranted, Compare, Clear, local
    <3>4. ASSUME \/ Lookup(w) \/ Withdraw(w) \/ EraseEntry(w) \/ SettleStale(w)
                 \/ Fails(w) \/ Pass(w) \/ CallFails(w) \/ Crash(w)
          PROVE  sf' = sf /\ events' = events
      BY <3>4 DEF Lookup, Withdraw, EraseEntry, SettleStale, Fails, Pass, CallFails, Crash, local
    <3> QED BY <2>1, <2>2, <3>1, <3>2, <3>3, <3>4
  <2>3. CASE SaveUpdate(w)
    <3>1. (\E rec \in Live : Save(work[w].k, rec)) \/ (sf' = sf /\ events' = events)
      BY <2>3 DEF SaveUpdate
    <3>2. work[w].k \in Contacts
      BY <2>3, AtFacts DEF SaveUpdate, Shape
    <3> QED BY <2>1, <3>1, <3>2, LiveAre
  <2>4. CASE DeleteRecord(w)
    <3>1. Save(work[w].k, Gone) \/ (sf' = sf /\ events' = events)
      BY <2>4 DEF DeleteRecord
    <3>2. work[w].k \in Contacts
      BY <2>4, AtFacts DEF DeleteRecord, Shape
    <3> QED BY <2>1, <3>1, <3>2, LiveAre
  <2>5. CASE End(w)
    BY <2>1, <2>5 DEF End
  <2> QED BY <1>4, <2>2, <2>3, <2>4, <2>5 DEF Run
<1>5. ASSUME NEW w \in Workers, Deliver(w) PROVE sf' = sf /\ events' = events /\ work' = work
  BY <1>5 DEF Deliver, ledger
<1>6. CASE \E w \in Workers : Run(w) \/ CallFails(w) \/ Crash(w) \/ Deliver(w)
  BY <1>4, <1>5, <1>6
<1>7. CASE \E w \in Writers, k \in Contacts :
             Create(w, k) \/ Update(w, k) \/ Delete(w, k) \/ Republish(w, k)
  BY <1>3, <1>7
<1>8. CASE \E k \in Contacts : Change(k)
  BY <1>2, <1>8
<1> QED BY <1>1, <1>6, <1>7, <1>8 DEF Next

(* A deletion that was undone has a later event.                           *)
Superseded == \A i \in 1 .. Len(events) : events[i].deleted /\ sf[events[i].k] # Gone
    => \E j \in i + 1 .. Len(events) : events[j] = [k |-> events[i].k, deleted |-> FALSE]

(* A record's event is still to be handled.                                *)
Awaited(k) == \E i \in 1 .. Len(events) : /\ events[i] = [k |-> k, deleted |-> FALSE]
                                          /\ i = 1 => work[Consumer].k = None

(* What a save adds to the events.                                         *)
LEMMA SaveAdds ==
  ASSUME Around, NEW k \in Contacts, NEW rec \in Records, Save(k, rec)
  PROVE  /\ Len(events') = Len(events) + 1 /\ Len(events) \in Nat
         /\ \A i \in 1 .. Len(events) : events'[i] = events[i] /\ events[i].k \in Contacts
         /\ events'[Len(events) + 1] = [k |-> k, deleted |-> rec = Gone]
         /\ sf'[k] = rec /\ \A x \in Contacts \ {k} : sf'[x] = sf[x]
<1>1. events \in Seq(Events) /\ sf \in Views
  BY DEF Around
<1>2. PICK e : e = [k |-> k, deleted |-> rec = Gone]
  OBVIOUS
<1>3. e \in Events
  BY <1>2 DEF Events
<1>4. events' = Append(events, e)
  BY <1>2 DEF Save
<1>5. /\ Len(events') = Len(events) + 1 /\ Len(events) \in Nat
      /\ \A i \in 1 .. Len(events) : events'[i] = events[i] /\ events[i] \in Events
      /\ events'[Len(events) + 1] = e
  BY <1>1, <1>3, <1>4
<1>6. \A i \in 1 .. Len(events) : events[i].k \in Contacts
  BY <1>5 DEF Events
<1> QED BY <1>1, <1>2, <1>5, <1>6 DEF Save, Views

(* And what taking one off leaves.                                         *)
LEMMA TailEvents ==
  ASSUME Around, events # <<>>, events' = Tail(events)
  PROVE  /\ Len(events') = Len(events) - 1 /\ Len(events) \in Nat \ {0}
         /\ \A i \in 1 .. Len(events') : i + 1 \in 1 .. Len(events) /\ events'[i] = events[i + 1]
  BY TailFacts DEF Around

(* No step leaves a deletion that outlives its record.                     *)
LEMMA NextSuperseded == ASSUME Shape, [Next]_vars, Superseded PROVE Superseded'
<1>0. Around
  BY DEF Shape
<1>1. ASSUME NEW k \in Contacts, NEW rec \in Records, Save(k, rec) PROVE Superseded'
  <2>1. /\ Len(events') = Len(events) + 1 /\ Len(events) \in Nat
        /\ \A i \in 1 .. Len(events) : events'[i] = events[i] /\ events[i].k \in Contacts
        /\ events'[Len(events) + 1] = [k |-> k, deleted |-> rec = Gone]
        /\ sf'[k] = rec /\ \A x \in Contacts \ {k} : sf'[x] = sf[x]
    BY <1>0, <1>1, SaveAdds
  <2>2. PICK n, old, new : n = Len(events) /\ old = events /\ new = events'
    OBVIOUS
  <2>3. ASSUME NEW i \in 1 .. n + 1, new[i].deleted, sf'[new[i].k] # Gone
        PROVE  \E j \in i + 1 .. n + 1 : new[j] = [k |-> new[i].k, deleted |-> FALSE]
    <3>1. i # n + 1
      <4>1. PICK e : e = [k |-> k, deleted |-> rec = Gone]
        OBVIOUS
      <4>2. e.k = k /\ e.deleted = (rec = Gone) /\ new[n + 1] = e
        BY <2>1, <2>2, <4>1
      <4> QED BY <2>1, <2>3, <4>2
    <3>2. i \in 1 .. n /\ new[i] = old[i] /\ old[i].k \in Contacts
      BY <2>1, <2>2, <3>1
    <3>3. CASE old[i].k = k
      <4>1. rec # Gone
        BY <2>1, <2>3, <3>2, <3>3
      <4>3. new[n + 1] = [k |-> new[i].k, deleted |-> FALSE]
        BY <2>1, <2>2, <3>2, <3>3, <4>1
      <4>2. n + 1 \in i + 1 .. n + 1
        BY <2>1, <2>2, <3>2
      <4> QED BY <4>2, <4>3
    <3>4. CASE old[i].k # k
      <4>1. sf[old[i].k] # Gone
        BY <2>1, <2>3, <3>2, <3>4
      <4>2. PICK j \in i + 1 .. n : old[j] = [k |-> old[i].k, deleted |-> FALSE]
        BY <2>2, <2>3, <3>2, <4>1 DEF Superseded
      <4>3. j \in 1 .. n /\ j \in i + 1 .. n + 1
        BY <2>1, <2>2, <3>2
      <4> QED BY <2>1, <2>2, <3>2, <4>2, <4>3
    <3> QED BY <3>3, <3>4
  <2>4. \A i \in 1 .. Len(new) : new[i].deleted /\ sf'[new[i].k] # Gone
           => \E j \in i + 1 .. Len(new) : new[j] = [k |-> new[i].k, deleted |-> FALSE]
    BY <2>1, <2>2, <2>3
  <2> QED BY <2>2, <2>4 DEF Superseded
<1>2. CASE sf' = sf /\ events' = events
  BY <1>2 DEF Superseded
<1>3. CASE sf' = sf /\ events # <<>> /\ events' = Tail(events)
  <2>1. /\ Len(events') = Len(events) - 1 /\ Len(events) \in Nat \ {0}
        /\ \A i \in 1 .. Len(events') : i + 1 \in 1 .. Len(events) /\ events'[i] = events[i + 1]
    BY <1>0, <1>3, TailEvents
  <2>2. PICK n, old, new : n = Len(events) /\ old = events /\ new = events'
    OBVIOUS
  <2>3. ASSUME NEW i \in 1 .. n - 1, new[i].deleted, sf'[new[i].k] # Gone
        PROVE  \E j \in i + 1 .. n - 1 : new[j] = [k |-> new[i].k, deleted |-> FALSE]
    <3>1. i + 1 \in 1 .. n /\ new[i] = old[i + 1]
      BY <2>1, <2>2
    <3>2. PICK j \in i + 1 + 1 .. n : old[j] = [k |-> old[i + 1].k, deleted |-> FALSE]
      BY <1>3, <2>2, <2>3, <3>1 DEF Superseded
    <3>3. j - 1 \in i + 1 .. n - 1 /\ j - 1 \in 1 .. Len(new) /\ j - 1 + 1 = j
      BY <2>1, <2>2, <3>2
    <3>4. new[j - 1] = old[j]
      BY <2>1, <2>2, <3>3
    <3> QED BY <3>1, <3>2, <3>3, <3>4
  <2>4. \A i \in 1 .. Len(new) : new[i].deleted /\ sf'[new[i].k] # Gone
           => \E j \in i + 1 .. Len(new) : new[j] = [k |-> new[i].k, deleted |-> FALSE]
    BY <2>1, <2>2, <2>3
  <2> QED BY <2>2, <2>4 DEF Superseded
<1>4. CASE Take
  BY <1>2, <1>4 DEF Take, local
<1>5. CASE PassOver
  BY <1>3, <1>5 DEF PassOver
<1>6. CASE End(Consumer) /\ ~Held(Consumer)
  <2>1. events # <<>>
    BY <1>6 DEF Shape, Taken, End
  <2> QED BY <1>3, <1>6, <2>1 DEF End
<1> QED BY <1>1, <1>2, <1>4, <1>5, <1>6, EventSteps

(* An awaited event stays so until it is taken or passed over.             *)
LEMMA AwaitedStays ==
  ASSUME Shape, [Next]_vars, NEW k, Awaited(k)
  PROVE  \/ Awaited(k)'
         \/ (Take \/ PassOver) /\ Head(events) = [k |-> k, deleted |-> FALSE]
<1>0. Around /\ Consumer \in Workers /\ work \in [Workers -> Jobs]
  BY DEF Shape, Working, Workers
<1>1. PICK i \in 1 .. Len(events) : /\ events[i] = [k |-> k, deleted |-> FALSE]
                                    /\ i = 1 => work[Consumer].k = None
  BY DEF Awaited
<1>2. events \in Seq(Events) /\ events # <<>> /\ Len(events) \in Nat \ {0} /\ Head(events) = events[1]
  <2>1. events \in Seq(Events)
    BY <1>0 DEF Around
  <2>2. ASSUME events = <<>> PROVE FALSE
    <3>1. Len(events) = 0
      BY <2>2
    <3> QED BY <1>1, <3>1
  <2> QED BY <2>1, <2>2, TailFacts
<1>3. ASSUME NEW x \in Contacts, NEW rec \in Records, Save(x, rec),
             work[Consumer].k = None => work'[Consumer].k = None
      PROVE  Awaited(k)'
  <2>1. Len(events') = Len(events) + 1 /\ events'[i] = events[i]
    BY <1>0, <1>1, <1>3, SaveAdds
  <2>2. i \in 1 .. Len(events')
    BY <1>2, <2>1
  <2> QED BY <1>1, <1>3, <2>1, <2>2 DEF Awaited
<1>4. CASE events' = events /\ (work[Consumer].k = None => work'[Consumer].k = None)
  BY <1>1, <1>4 DEF Awaited
<1>5. ASSUME i # 1, events' = Tail(events), work'[Consumer].k = None PROVE Awaited(k)'
  <2>1. i - 1 \in 1 .. Len(events') /\ i - 1 + 1 = i
    BY <1>0, <1>1, <1>2, <1>5, TailEvents
  <2>2. events'[i - 1] = events[i]
    BY <1>0, <1>2, <1>5, <2>1, TailEvents
  <2> QED BY <1>1, <1>5, <2>1, <2>2 DEF Awaited
<1>6. CASE Take
  <2>1. CASE i = 1
    BY <1>1, <1>2, <1>6, <2>1
  <2>2. CASE i # 1
    BY <1>1, <1>6, <2>2 DEF Take, local, Awaited
  <2> QED BY <2>1, <2>2
<1>7. CASE PassOver
  <2>1. CASE i = 1
    BY <1>1, <1>2, <1>7, <2>1
  <2>2. CASE i # 1
    BY <1>5, <1>7, <2>2 DEF PassOver, Idle
  <2> QED BY <2>1, <2>2
<1>8. CASE End(Consumer) /\ ~Held(Consumer)
  <2>1. work[Consumer].k # None
    BY <1>8 DEF End
  <2>2. work'[Consumer].k = None /\ events' = Tail(events)
    BY <1>0, <1>8 DEF End, Idle
  <2> QED BY <1>1, <1>5, <2>1, <2>2
<1> QED BY <1>3, <1>4, <1>6, <1>7, <1>8, EventSteps

(***************************************************************************)
(* The tuple, and the messages on the way.                                 *)
(***************************************************************************)
Serves(k, p) == sf[k] = [status |-> "active", pair |-> p]

(* The pair's tuple is there and nothing on the way removes it, or a put of *)
(* it that no remove follows is.                                           *)
NoRemove(w, i, p) == \A j \in i + 1 .. Len(wire[w]) : wire[w][j] # Remove(p)
Stays(p) == \/ p \in tuples /\ \A w \in Workers : NoRemove(w, 0, p)
            \/ \E w \in Workers : \E i \in 1 .. Len(wire[w]) : wire[w][i] = Put(p) /\ NoRemove(w, i, p)

(* Only one connection has something on the way.                           *)
OneWire == \A v, w \in Workers : wire[v] # <<>> /\ wire[w] # <<>> => v = w

(* A call sends nothing that removes the pair.                             *)
Sends(w, p) == \E msgs \in Seq(Messages) :
    /\ tuples' = tuples /\ wire' = [wire EXCEPT ![w] = @ \o msgs]
    /\ \A i \in 1 .. Len(msgs) : msgs[i] # Remove(p)

(* A tuple that stays does so past a call that sends no remove of it.      *)
LEMMA SendsStays ==
  ASSUME Working, NEW w \in Workers, NEW p, Sends(w, p), Stays(p)
  PROVE  Stays(p)'
<1>1. PICK msgs \in Seq(Messages) :
        /\ tuples' = tuples /\ wire' = [wire EXCEPT ![w] = @ \o msgs]
        /\ \A i \in 1 .. Len(msgs) : msgs[i] # Remove(p)
  BY DEF Sends
<1>2. PICK a, c : a = wire[w] /\ c = a \o msgs
  OBVIOUS
<1>3. a \in Seq(Messages) /\ wire'[w] = c /\ \A v \in Workers \ {w} : wire'[v] = wire[v]
  BY <1>1, <1>2 DEF Working
<1>4. /\ Len(c) = Len(a) + Len(msgs) /\ Len(a) \in Nat /\ Len(msgs) \in Nat
      /\ \A j \in 1 .. Len(a) : c[j] = a[j]
      /\ \A j \in 1 .. Len(c) : j \in 1 .. Len(a) \/ c[j] # Remove(p)
  <2>1. \A j \in 1 .. Len(c) : \/ j \in 1 .. Len(a) /\ c[j] = a[j]
                               \/ j - Len(a) \in 1 .. Len(msgs) /\ c[j] = msgs[j - Len(a)]
    BY <1>2, <1>3, ConcatFacts
  <2>2. Len(c) = Len(a) + Len(msgs) /\ Len(a) \in Nat /\ Len(msgs) \in Nat /\ \A j \in 1 .. Len(a) : c[j] = a[j]
    BY <1>2, <1>3
  <2> QED BY <1>1, <2>1, <2>2
<1>5. ASSUME NEW v \in Workers, NEW i \in 0 .. Len(wire[v]), NoRemove(v, i, p) PROVE NoRemove(v, i, p)'
  <2>1. CASE v # w
    BY <1>3, <1>5, <2>1 DEF NoRemove
  <2>2. CASE v = w
    <3>1. \A j \in i + 1 .. Len(a) : a[j] # Remove(p)
      BY <1>2, <1>5, <2>2 DEF NoRemove
    <3>2. i \in 0 .. Len(a)
      BY <1>2, <2>2
    <3>3. ASSUME NEW j \in i + 1 .. Len(c) PROVE c[j] # Remove(p)
      <4>1. j \in 1 .. Len(c)
        BY <1>4, <3>2
      <4>2. CASE j \in 1 .. Len(a)
        <5>1. j \in i + 1 .. Len(a) /\ c[j] = a[j]
          BY <1>4, <3>2, <4>2
        <5> QED BY <3>1, <5>1
      <4> QED BY <1>4, <4>1, <4>2
    <3> QED BY <1>3, <2>2, <3>3 DEF NoRemove
  <2> QED BY <2>1, <2>2
<1>6. CASE p \in tuples /\ \A v \in Workers : NoRemove(v, 0, p)
  <2>1. \A v \in Workers : 0 \in 0 .. Len(wire[v])
    BY DEF Working
  <2> QED BY <1>1, <1>5, <1>6, <2>1 DEF Stays
<1>7. ASSUME NEW v \in Workers, NEW i \in 1 .. Len(wire[v]), wire[v][i] = Put(p), NoRemove(v, i, p)
      PROVE  Stays(p)'
  <2>1. wire[v] \in Seq(Messages) /\ i \in 0 .. Len(wire[v])
    BY DEF Working
  <2>2. NoRemove(v, i, p)'
    BY <1>5, <1>7, <2>1
  <2>3. i \in 1 .. Len(wire'[v]) /\ wire'[v][i] = Put(p)
    <3>1. CASE v # w
      BY <1>3, <1>7, <3>1
    <3>2. CASE v = w
      BY <1>2, <1>3, <1>4, <1>7, <3>2
    <3> QED BY <3>1, <3>2
  <2> QED BY <2>2, <2>3 DEF Stays
<1> QED BY <1>6, <1>7 DEF Stays

(* A put stays.                                                            *)
LEMMA PutStays ==
  ASSUME Working, NEW w \in Workers, NEW p \in Pairs, NEW job, NEW steps, Go(w, job, <<Put(p)>>, steps)
  PROVE  Stays(p)'
<1>1. PICK m, c : m = Put(p) /\ c = Append(wire[w], m)
  OBVIOUS
<1>2. m \in Messages /\ wire[w] \in Seq(Messages)
  BY <1>1 DEF Put, Messages, Working
<1>3. wire[w] \o <<m>> = c
  BY <1>1, <1>2
<1>4. wire'[w] = c
  BY <1>1, <1>3 DEF Go, Working
<1>5. Len(c) \in Nat \ {0} /\ c[Len(c)] = m
  BY <1>1, <1>2
<1>6. \A j \in Len(c) + 1 .. Len(c) : FALSE
  BY <1>5
<1>7. NoRemove(w, Len(c), p)'
  <2>1. PICK n : n = Len(c)
    OBVIOUS
  <2>2. \A j \in n + 1 .. Len(wire'[w]) : wire'[w][j] # Remove(p)
    BY <1>4, <1>6, <2>1
  <2>3. NoRemove(w, n, p)'
    BY <2>2 DEF NoRemove
  <2>4. \A j \in Len(c) + 1 .. Len(wire'[w]) : FALSE
    BY <1>4, <1>6
  <2> QED BY <1>4, <1>6 DEF NoRemove
<1> QED BY <1>1, <1>4, <1>5, <1>7 DEF Stays

(* A delivery takes nothing away.                                          *)
LEMMA DeliverStays ==
  ASSUME Working, OneWire, NEW w \in Workers, NEW p \in Pairs, Deliver(w), Stays(p)
  PROVE  Stays(p)'
<1>1. PICK t, m : t = wire[w] /\ m = Head(t)
  OBVIOUS
<1>2. /\ wire'[w] = Tail(t) /\ t # <<>> /\ t \in Seq(Messages)
      /\ \A v \in Workers \ {w} : wire'[v] = wire[v] /\ wire[v] = <<>>
      /\ m.op = "put" => tuples' = tuples \cup {m.pair}
      /\ m.op # "put" => tuples' = tuples \ {m.pair}
  BY <1>1 DEF Deliver, Working, OneWire
<1>3. /\ Len(Tail(t)) = Len(t) - 1 /\ Len(t) \in Nat \ {0}
      /\ \A i \in 1 .. Len(Tail(t)) : i + 1 \in 1 .. Len(t) /\ Tail(t)[i] = t[i + 1]
      /\ m = t[1] /\ 1 \in 1 .. Len(t) /\ m \in Messages
  BY <1>1, <1>2, TailFacts
<1>4. PICK r : r = Tail(t)
  OBVIOUS
<1>5. \A v \in Workers \ {w} : NoRemove(v, 0, p)'
  <2>1. ASSUME NEW v \in Workers \ {w} PROVE \A j \in 0 + 1 .. Len(wire'[v]) : FALSE
    <3>1. Len(wire'[v]) = 0
      BY <1>2
    <3> QED BY <3>1
  <2> QED BY <2>1 DEF NoRemove
<1>6. m.op = "put" \/ (m.op = "remove" /\ m = Remove(m.pair))
  BY <1>3 DEF Messages, Remove
<1>7. ASSUME NEW i \in Nat, \A j \in i + 1 .. Len(t) : t[j] # Remove(p)
      PROVE  \A j \in i .. Len(r) : j \in 1 .. Len(r) => r[j] # Remove(p)
  <2> SUFFICES ASSUME NEW j \in i .. Len(r), j \in 1 .. Len(r) PROVE r[j] # Remove(p)
    OBVIOUS
  <2>1. j + 1 \in i + 1 .. Len(t) /\ r[j] = t[j + 1]
    BY <1>3, <1>4
  <2> QED BY <1>7, <2>1
<1>8. CASE p \in tuples /\ \A v \in Workers : NoRemove(v, 0, p)
  <2>1. \A j \in 0 + 1 .. Len(t) : t[j] # Remove(p)
    BY <1>1, <1>8 DEF NoRemove
  <2>2. m # Remove(p)
    BY <1>3, <2>1
  <2>3. p \in tuples'
    BY <1>2, <1>6, <1>8, <2>2
  <2>4. \A j \in 0 + 1 .. Len(r) : r[j] # Remove(p)
    <3>1. 0 \in Nat /\ Len(r) \in Nat
      BY <1>3, <1>4
    <3>2. \A j \in 0 .. Len(r) : j \in 1 .. Len(r) => r[j] # Remove(p)
      BY <1>7, <2>1, <3>1
    <3> QED BY <3>1, <3>2
  <2>5. NoRemove(w, 0, p)'
    BY <1>2, <1>4, <2>4 DEF NoRemove
  <2> QED BY <1>5, <2>3, <2>5 DEF Stays
<1>9. ASSUME NEW v \in Workers, NEW i \in 1 .. Len(wire[v]), wire[v][i] = Put(p), NoRemove(v, i, p)
      PROVE  Stays(p)'
  <2>1. v = w
    <3>1. ASSUME v # w PROVE FALSE
      <4>1. Len(wire[v]) = 0
        BY <1>2, <3>1
      <4> QED BY <4>1
    <3> QED BY <3>1
  <2>2. i \in 1 .. Len(t) /\ t[i] = Put(p) /\ \A j \in i + 1 .. Len(t) : t[j] # Remove(p)
    BY <1>1, <1>9, <2>1 DEF NoRemove
  <2>3. \A j \in i .. Len(r) : r[j] # Remove(p)
    <3>1. i \in Nat /\ i >= 1 /\ Len(r) \in Nat
      BY <1>3, <1>4, <2>2
    <3>2. \A j \in i .. Len(r) : j \in 1 .. Len(r)
      BY <3>1
    <3> QED BY <1>7, <2>2, <3>1, <3>2
  <2>4. CASE i = 1
    <3>1. p \in tuples'
      BY <1>2, <1>3, <2>2, <2>4 DEF Put
    <3>2. NoRemove(w, 0, p)'
      <4>1. \A j \in 0 + 1 .. Len(r) : r[j] # Remove(p)
        BY <2>3, <2>4
      <4> QED BY <1>2, <1>4, <4>1 DEF NoRemove
    <3> QED BY <1>5, <3>1, <3>2 DEF Stays
  <2>5. CASE i # 1
    <3>1. PICK n : n = i - 1
      OBVIOUS
    <3>2. n \in 1 .. Len(r) /\ n + 1 = i /\ r[n] = Put(p)
      BY <1>3, <1>4, <2>2, <2>5, <3>1
    <3>3. \A j \in n + 1 .. Len(r) : r[j] # Remove(p)
      BY <2>3, <3>2
    <3>4. NoRemove(w, n, p)'
      BY <1>2, <1>4, <3>3 DEF NoRemove
    <3> QED BY <1>2, <1>4, <3>2, <3>4 DEF Stays
  <2> QED BY <2>4, <2>5
<1> QED BY <1>8, <1>9 DEF Stays

(* A connection that is lost takes only what is told as lost.              *)
LEMMA LoseStays ==
  ASSUME Working, NEW w \in Workers, NEW p, wire' = [wire EXCEPT ![w] = <<>>], tuples' = tuples, Stays(p)
  PROVE  Stays(p)' \/ p \in Unsent(w)
<1>1. wire'[w] = <<>> /\ Len(wire'[w]) = 0 /\ wire[w] \in Seq(Messages)
      /\ \A v \in Workers \ {w} : wire'[v] = wire[v]
  BY DEF Working
<1>2. NoRemove(w, 0, p)'
  <2>1. \A j \in 0 + 1 .. Len(wire'[w]) : FALSE
    BY <1>1
  <2> QED BY <2>1 DEF NoRemove
<1>3. ASSUME NEW v \in Workers \ {w}, NEW i, NoRemove(v, i, p) PROVE NoRemove(v, i, p)'
  BY <1>1, <1>3 DEF NoRemove
<1>4. CASE p \in tuples /\ \A v \in Workers : NoRemove(v, 0, p)
  BY <1>2, <1>3, <1>4 DEF Stays
<1>5. ASSUME NEW v \in Workers, NEW i \in 1 .. Len(wire[v]), wire[v][i] = Put(p), NoRemove(v, i, p)
      PROVE  Stays(p)' \/ p \in Unsent(w)
  <2>1. CASE v # w
    BY <1>1, <1>3, <1>5, <2>1 DEF Stays
  <2>2. CASE v = w
    <3>1. i \in DOMAIN wire[w] /\ wire[w][i].pair = p
      BY <1>1, <1>5, <2>2 DEF Put
    <3> QED BY <3>1 DEF Unsent
  <2> QED BY <2>1, <2>2
<1> QED BY <1>4, <1>5 DEF Stays

(* What a call that is done sends.                                         *)
LEMMA GoSends ==
  ASSUME Working, NEW w \in Workers, tuples' = tuples, NEW p
  PROVE  /\ \A job, steps : Go(w, job, <<>>, steps) => Sends(w, p)
         /\ \A q \in Pairs : \A job, steps : Go(w, job, <<Put(q)>>, steps) => Sends(w, p)
         /\ \A q \in Pairs : \A job, steps : q # p /\ Go(w, job, <<Remove(q)>>, steps) => Sends(w, p)
         /\ Skip(w) => Sends(w, p)
         /\ wire' = wire => Sends(w, p)
<1>1. ASSUME NEW m \in Messages, m # Remove(p), wire' = [wire EXCEPT ![w] = @ \o <<m>>] PROVE Sends(w, p)
  <2>1. PICK msgs : msgs = <<m>>
    OBVIOUS
  <2>2. msgs \in Seq(Messages) /\ \A i \in 1 .. Len(msgs) : msgs[i] # Remove(p)
    BY <1>1, <2>1
  <2> QED BY <1>1, <2>1, <2>2 DEF Sends
<1>2. ASSUME wire' = [wire EXCEPT ![w] = @ \o <<>>] PROVE Sends(w, p)
  <2>1. PICK msgs : msgs = <<>> /\ Len(msgs) = 0
    OBVIOUS
  <2>2. msgs \in Seq(Messages) /\ \A i \in 1 .. Len(msgs) : msgs[i] # Remove(p)
    BY <2>1
  <2> QED BY <1>2, <2>1, <2>2 DEF Sends
<1>3. \A q \in Pairs : Put(q) \in Messages /\ Put(q) # Remove(p)
  <2>1. \A q \in Pairs : Put(q).op = "put" /\ Remove(p).op = "remove"
    BY DEF Put, Remove
  <2> QED BY <2>1 DEF Put, Messages
<1>4. \A q \in Pairs : Remove(q) \in Messages /\ (q # p => Remove(q) # Remove(p))
  <2>1. \A q \in Pairs : Remove(q).pair = q /\ Remove(p).pair = p
    BY DEF Remove
  <2> QED BY <2>1 DEF Remove, Messages
<1>5. ASSUME wire' = wire PROVE Sends(w, p)
  <2>1. wire \in [Workers -> Seq(Messages)] /\ wire[w] \in Seq(Messages)
    BY DEF Working
  <2>2. wire[w] \o <<>> = wire[w]
    BY <2>1
  <2>3. wire' = [wire EXCEPT ![w] = wire[w] \o <<>>]
    BY <1>5, <2>1, <2>2
  <2> QED BY <1>2, <2>3
<1>6. \A job, steps : Go(w, job, <<>>, steps) => Sends(w, p)
  BY <1>2 DEF Go
<1>7. ASSUME NEW q \in Pairs, NEW job, NEW steps, Go(w, job, <<Put(q)>>, steps) PROVE Sends(w, p)
  BY <1>1, <1>3, <1>7 DEF Go
<1>8. ASSUME NEW q \in Pairs, NEW job, NEW steps, q # p, Go(w, job, <<Remove(q)>>, steps) PROVE Sends(w, p)
  BY <1>1, <1>4, <1>8 DEF Go
<1> QED BY <1>5, <1>6, <1>7, <1>8 DEF Skip

(* No step of a worker sends a remove of a pair that a record justifies.   *)
LEMMA RevokeSends ==
  ASSUME Shape, NEW w \in Workers, Revoke(w) \/ Regranted(w), Sees(w),
         NEW p \in Pairs, NEW k \in Contacts, Serves(k, p), k = work[w].k => Sparing(work[w], p)
  PROVE  Sends(w, p)
<1>0. Working /\ tuples' = tuples
  BY DEF Shape, Revoke, Scan, Flush, Recheck, Verify, ConfirmLive, Settle, Reassert, Own,
         ClearMarker, Regranted, local
<1>a. ASSUME NEW d \in Drops, At(w, d), Justifiers(sf, Pair(w), work[w].k) = {} PROVE Pair(w) # p
  <2>1. CASE k = work[w].k
    BY <1>0, <1>a, <2>1, HeadSpares
  <2>2. CASE k # work[w].k
    BY <1>a, <2>2 DEF Justifiers, Serves
  <2> QED BY <2>1, <2>2
<1>1. CASE Scan(w)
  <2>1. PICK d \in {"scan", "scanLive", "scanQuick"} : /\ At(w, d)
        /\ \E view \in Scanned(w, d) :
             LET by == Justifiers(view, Pair(w), work[w].k)
                 confirmed == IF d = "scanQuick" THEN <<>> ELSE Only("flush")
             IN \/ \E s \in by : Go(w, [work[w] EXCEPT !.by = s], <<>>, <<>>)
                \/ /\ by = {}
                   /\ Go(w, [work[w] EXCEPT !.by = None], <<Remove(Pair(w))>>,
                         confirmed \o For(<<"recheck">>, Pair(w)))
    BY <1>1 DEF Scan
  <2>2. PICK view \in Scanned(w, d) :
             \/ \E job : Go(w, job, <<>>, <<>>)
             \/ /\ Justifiers(view, Pair(w), work[w].k) = {}
                /\ \E job, steps : Go(w, job, <<Remove(Pair(w))>>, steps)
    BY <2>1
  <2>3. Pair(w) \in Pairs /\ d \in Drops
    BY <1>0, <2>1, AtFacts DEF Paired, Drops
  <2>4. CASE \E job : Go(w, job, <<>>, <<>>)
    BY <1>0, <2>4, GoSends
  <2>5. CASE /\ Justifiers(view, Pair(w), work[w].k) = {}
             /\ \E job, steps : Go(w, job, <<Remove(Pair(w))>>, steps)
    <3>1. Justifiers(sf, Pair(w), work[w].k) = {}
      BY <2>5, SeesSiblings
    <3>2. Pair(w) # p
      BY <1>a, <2>1, <2>3, <3>1
    <3> QED BY <1>0, <2>3, <2>5, <3>2, GoSends
  <2> QED BY <2>2, <2>4, <2>5
<1>2. CASE Verify(w)
  <2>1. At(w, "verify") /\ Pair(w) \in Pairs /\ "verify" \in Drops
    BY <1>0, <1>2, AtFacts DEF Verify, Paired, Drops
  <2>2. \/ \E job : Go(w, job, <<>>, <<>>)
        \/ /\ Justifiers(sf, Pair(w), work[w].k) = {}
           /\ \E steps : Go(w, work[w], <<Remove(Pair(w))>>, steps)
    BY <1>2 DEF Verify
  <2>3. CASE \E job : Go(w, job, <<>>, <<>>)
    BY <1>0, <2>3, GoSends
  <2>4. CASE /\ Justifiers(sf, Pair(w), work[w].k) = {}
             /\ \E steps : Go(w, work[w], <<Remove(Pair(w))>>, steps)
    BY <1>0, <1>a, <2>1, <2>4, GoSends
  <2> QED BY <2>2, <2>3, <2>4
<1>3. CASE Flush(w) \/ ConfirmLive(w) \/ ClearMarker(w) \/ Own(w)
  BY <1>0, <1>3, GoSends DEF Flush, ConfirmLive, ClearMarker, Own
<1>4. CASE Recheck(w) \/ Regranted(w) \/ Settle(w) \/ Reassert(w)
  <2>1. Pair(w) \in Pairs
    BY <1>0, <1>4, AtFacts DEF Recheck, Regranted, Settle, Reassert, Paired
  <2> QED BY <1>0, <1>4, <2>1, GoSends DEF Recheck, Regranted, Settle, Reassert
<1> QED BY <1>1, <1>2, <1>3, <1>4 DEF Revoke

(* No step of a program that spares the pair sends a remove of it.         *)
LEMMA RunSends ==
  ASSUME Shape, NEW w \in Workers, Run(w), Fitting(w), Sees(w),
         NEW p \in Pairs, NEW k \in Contacts, Serves(k, p), k = work[w].k => Sparing(work[w], p)
  PROVE  Sends(w, p)
<1>0. Working
  BY DEF Shape
<1>1. CASE Revoke(w) \/ Regranted(w)
  BY <1>1, RevokeSends
<1>2. CASE Publish(w)
  <2>1. At(w, "publish") /\ tuples' = tuples
    BY <1>2 DEF Publish, local
  <2>2. work[w].kc \in Records /\ work[w].kc.pair \in PairOrNone
    BY <1>0, <2>1, AtFacts, PairsOf
  <2>3. CASE work[w].kc.pair = None
    BY <1>0, <1>2, <2>1, <2>3, GoSends DEF Publish
  <2>4. CASE work[w].kc.pair \in Pairs
    BY <1>0, <1>2, <2>1, <2>4, GoSends DEF Publish
  <2> QED BY <2>2, <2>3, <2>4 DEF PairOrNone
<1>3. CASE Compare(w)
  <2>1. At(w, "compare") /\ tuples' = tuples
    BY <1>3 DEF Compare, local
  <2>2. Pair(w) \in Pairs
    BY <1>0, <2>1, AtFacts DEF Paired
  <2> QED BY <1>0, <1>3, <2>1, <2>2, GoSends DEF Compare
<1>4. CASE Claimed(w)
  <2>1. At(w, "claimed") /\ tuples' = tuples
    BY <1>4 DEF Claimed, local
  <2>2. PICK q : q = work[w].entry.pair
    OBVIOUS
  <2>3. q \in Pairs
    BY <1>0, <2>1, <2>2, AtFacts DEF ByEntry
  <2>4. Fits(w)
    BY <2>1, AtFits
  <2>5. Justifiers(sf, q, work[w].k) = {}
    BY <1>0, <2>1, <2>2, <2>4, HeadSure DEF Sure
  <2>6. k # work[w].k
    BY <1>0, <2>1, HeadSpares DEF Revokes
  <2>7. q # p
    BY <2>5, <2>6 DEF Justifiers, Serves
  <2> QED BY <1>0, <1>4, <2>1, <2>2, <2>3, <2>7, GoSends DEF Claimed
<1>5. CASE Snapshot(w) \/ Inactive(w) \/ Record(w) \/ Write(w)
  <2>1. tuples' = tuples
    BY <1>5 DEF Snapshot, Inactive, Record, Write, local
  <2> QED BY <1>0, <1>5, <2>1, GoSends DEF Snapshot, Inactive, Record, Write
<1>6. CASE Expire(w) \/ Justify(w) \/ Claim(w) \/ Clear(w)
  <2>1. tuples' = tuples
    BY <1>6 DEF Expire, Justify, Claim, Clear, local
  <2>2. \E job, steps : Go(w, job, <<>>, steps)
    <3>1. CASE Expire(w)
      BY <3>1 DEF Expire
    <3>2. CASE Justify(w)
      BY <3>2 DEF Justify
    <3>3. CASE Claim(w) \/ Clear(w)
      BY <3>3 DEF Claim, Clear, Skip
    <3> QED BY <1>6, <3>1, <3>2, <3>3
  <2> QED BY <1>0, <2>1, <2>2, GoSends
<1>7. CASE Lookup(w) \/ Withdraw(w) \/ EraseEntry(w) \/ SettleStale(w) \/ Pass(w) \/ Fails(w)
  <2>1. tuples' = tuples
    BY <1>7 DEF Lookup, Withdraw, EraseEntry, SettleStale, Pass, Fails, local
  <2> QED BY <1>0, <1>7, <2>1, GoSends DEF Lookup, Withdraw, EraseEntry, SettleStale, Pass, Fails
<1>8. CASE SaveUpdate(w) \/ DeleteRecord(w)
  <2>1. tuples' = tuples
    BY <1>8 DEF SaveUpdate, DeleteRecord
  <2>2. \E job, steps : Go(w, job, <<>>, steps)
    <3>1. CASE SaveUpdate(w)
      BY <3>1 DEF SaveUpdate
    <3>2. CASE DeleteRecord(w)
      BY <3>2 DEF DeleteRecord
    <3> QED BY <1>8, <3>1, <3>2
  <2> QED BY <1>0, <2>1, <2>2, GoSends
<1>9. CASE End(w)
  BY <1>0, <1>9, GoSends DEF End
<1> QED BY <1>1, <1>2, <1>3, <1>4, <1>5, <1>6, <1>7, <1>8, <1>9 DEF Run, Grant, RevokeNoLongerLive

(***************************************************************************)
(* Who is served has the tuple, or is about to.                            *)
(***************************************************************************)
(* The consumer is about to publish the record, or failed to.              *)
Publishing(k) ==
    /\ work[Consumer].k = k /\ work[Consumer].kc = sf[k]
    /\ events # <<>> /\ Head(events) = [k |-> k, deleted |-> FALSE]
    /\ \/ work[Consumer].hold
       \/ \E i \in 1 .. Len(work[Consumer].todo) : work[Consumer].todo[i].do = "publish"

Served == \A k \in Contacts, p \in Pairs : Serves(k, p) =>
    p \in Excused \/ Awaited(k) \/ Publishing(k) \/ Stays(p)
(* The programs that run for a record take nothing it is served with.      *)
Spared == \A w \in Workers, k \in Contacts, p \in Pairs : work[w].k = k /\ Serves(k, p) =>
    p \in Excused \/ Awaited(k) \/ Sparing(work[w], p)

(* What being served says of the record.                                   *)
LEMMA Active ==
  ASSUME NEW k, NEW p \in Pairs, Serves(k, p)
  PROVE  sf[k].status = "active" /\ sf[k].pair = p /\ sf[k] # Gone /\ p # None
  BY GrantAssumption DEF Serves, Gone

(* A record that is saved awaits its event.                                *)
LEMMA SaveAwaits ==
  ASSUME Shape, [Next]_vars, NEW x \in Contacts, NEW rec \in Records, Save(x, rec),
         NEW p \in Pairs, Serves(x, p)', work[Consumer].k = None => work'[Consumer].k = None
  PROVE  Awaited(x)'
<1>0. Around /\ Taken
  BY DEF Shape
<1>1. /\ Len(events') = Len(events) + 1 /\ Len(events) \in Nat
      /\ events'[Len(events) + 1] = [k |-> x, deleted |-> rec = Gone]
      /\ sf'[x] = rec
  BY <1>0, SaveAdds
<1>2. rec # Gone
  <2>1. sf'[x].status = "active"
    BY DEF Serves
  <2> QED BY <1>1, <2>1 DEF Gone
<1>3. events'[Len(events) + 1] = [k |-> x, deleted |-> FALSE]
  BY <1>1, <1>2
<1>4. Len(events) + 1 \in 1 .. Len(events')
  BY <1>1
<1>5. ASSUME Len(events) + 1 = 1 PROVE work'[Consumer].k = None
  <2>1. events = <<>>
    <3>1. events \in Seq(Events)
      BY <1>0 DEF Around
    <3> QED BY <1>5, <3>1
  <2> QED BY <1>0, <2>1 DEF Taken
<1> QED BY <1>3, <1>4, <1>5 DEF Awaited

(* A record that comes to be served is saved.                              *)
LEMMA ServedAnew ==
  ASSUME Shape, [Next]_vars, NEW k \in Contacts, NEW p \in Pairs, Serves(k, p)'
  PROVE  \/ Awaited(k)'
         \/ /\ Serves(k, p)
            /\ \A rec \in Records : ~Save(k, rec)
<1>0. Around
  BY DEF Shape
<1>1. CASE /\ \/ \E x \in Contacts, rec \in Records : Save(x, rec)
              \/ sf' = sf /\ events' = events
           /\ work[Consumer].k = None => work'[Consumer].k = None
  <2>1. CASE \E rec \in Records : Save(k, rec)
    BY <1>1, <2>1, SaveAwaits
  <2>2. CASE \A rec \in Records : ~Save(k, rec)
    <3>1. sf'[k] = sf[k]
      BY <1>0, <1>1, <2>2, SaveAdds
    <3> QED BY <2>2, <3>1 DEF Serves
  <2> QED BY <2>1, <2>2
<1>2. ASSUME sf' = sf, events' = events \/ (events # <<>> /\ events' = Tail(events))
      PROVE  Serves(k, p) /\ \A rec \in Records : ~Save(k, rec)
  <2>1. Serves(k, p)
    BY <1>2 DEF Serves
  <2>2. events' = events => Len(events') = Len(events)
    OBVIOUS
  <2>3. Len(events') # Len(events) + 1
    BY <1>0, <1>2, <2>2, TailEvents DEF Around
  <2> QED BY <1>0, <2>1, <2>3, SaveAdds
<1>3. CASE Take
  BY <1>2, <1>3 DEF Take, local
<1>4. CASE PassOver
  BY <1>2, <1>4 DEF PassOver
<1>5. CASE End(Consumer) /\ ~Held(Consumer)
  <2>1. events # <<>>
    BY <1>5 DEF Shape, Taken, End
  <2> QED BY <1>2, <1>5, <2>1 DEF End
<1> QED BY <1>1, <1>3, <1>4, <1>5, EventSteps

(* An event passed over is told.                                           *)
LEMMA PassTells ==
  ASSUME PassOver, NEW k, NEW p \in Pairs, Serves(k, p), Head(events) = [k |-> k, deleted |-> FALSE]
  PROVE  p \in Excused'
<1>1. p \in Known(k, sf[k])
  BY Active DEF Known
<1> QED BY <1>1 DEF PassOver, Excused

(* An upsert of an active record spares its pair, and publishes it.        *)
LEMMA UpsertSpares ==
  ASSUME NEW p \in Pairs, NEW kc, kc = [status |-> "active", pair |-> p]
  PROVE  /\ Upsert(kc) \in Seq(MeekSteps(p))
         /\ \E i \in 1 .. Len(Upsert(kc)) : Upsert(kc)[i].do = "publish"
<1>1. Miss(kc) = <<>>
  <2>1. kc.pair # None
    BY GrantAssumption
  <2> QED BY <2>1 DEF Miss
<1>2. PICK a, b, s : a = Only("snapshot") \o Miss(kc) /\ b = Only("publish") /\ s = Step("publish", None)
  OBVIOUS
<1>3. a \in Seq(MeekSteps(p)) /\ b \in Seq(MeekSteps(p)) /\ a \o b \in Seq(MeekSteps(p))
  <2>1. \A x, y \in Seq(MeekSteps(p)) : x \o y \in Seq(MeekSteps(p))
    BY SparePrograms
  <2>2. Only("snapshot") \in Seq(MeekSteps(p)) /\ b \in Seq(MeekSteps(p)) /\ Miss(kc) \in Seq(MeekSteps(p))
    BY <1>1, <1>2, SparePrograms DEF Drops, Revokes, Calls
  <2> QED BY <1>2, <2>1, <2>2
<1>4. Upsert(kc) = a \o b
  BY <1>2 DEF Upsert
<1>5. Len(b) = 1 /\ b[1].do = "publish"
  <2>1. s.do = "publish" /\ b = <<s>>
    BY <1>2 DEF Step, Only
  <2>2. Len(<<s>>) = 1 /\ <<s>>[1] = s
    OBVIOUS
  <2> QED BY <2>1, <2>2
<1>6. Len(a) + 1 \in 1 .. Len(a \o b) /\ (a \o b)[Len(a) + 1].do = "publish"
  <2>1. 1 \in 1 .. Len(b)
    BY <1>5
  <2>2. PICK S : S = MeekSteps(p)
    OBVIOUS
  <2>3. a \in Seq(S) /\ b \in Seq(S)
    BY <1>3, <2>2
  <2>4. /\ Len(a \o b) = Len(a) + Len(b) /\ Len(a) \in Nat
        /\ \A i \in 1 .. Len(b) : (a \o b)[Len(a) + i] = b[i]
    BY <2>3, ConcatEnd
  <2>5. (a \o b)[Len(a) + 1] = b[1]
    BY <2>1, <2>4
  <2> QED BY <1>5, <2>4, <2>5
<1> QED BY <1>3, <1>4, <1>6

(* A call that begins with a program that spares the record's pair.        *)
LEMMA StartSpares ==
  ASSUME NEW w \in Workers, NEW p \in Pairs, work'[w].kc = [status |-> "active", pair |-> p],
         work'[w].todo \in Seq(MeekSteps(p))
  PROVE  Sparing(work'[w], p)
  BY MeekSpares DEF Sparing, Unwritten

(* The consumer that takes an event of a record that is served.            *)
LEMMA TakeServes ==
  ASSUME Shape, Superseded, Take, NEW k \in Contacts, NEW p \in Pairs, Serves(k, p)
  PROVE  /\ Head(events) = [k |-> k, deleted |-> FALSE] => Publishing(k)'
         /\ work'[Consumer].k = k => Awaited(k)' \/ Sparing(work'[Consumer], p)
<1>0. Working /\ Around /\ Consumer \in Workers
  BY DEF Shape, Workers
<1>1. PICK x, kc, program :
        /\ x = Head(events).k /\ kc = IF Head(events).deleted THEN Gone ELSE sf[x]
        /\ program = IF kc = Gone THEN Only("lookup") \o Only("snapshot") \o Only("withdraw") ELSE Upsert(kc)
  OBVIOUS
<1>2. work' = [work EXCEPT ![Consumer] = [Idle EXCEPT !.k = x, !.kc = kc, !.todo = program]]
  BY <1>1 DEF Take
<1>3. events' = events /\ sf' = sf /\ events # <<>> /\ events \in Seq(Events)
  BY <1>0 DEF Take, local, Around
<1>4. Len(events) \in Nat \ {0} /\ Head(events) = events[1] /\ events[1] \in Events
  BY <1>3, TailFacts
<1>5. work'[Consumer].k = x /\ work'[Consumer].kc = kc /\ work'[Consumer].todo = program
  <2>1. PICK new : new = [Idle EXCEPT !.k = x, !.kc = kc, !.todo = program]
    OBVIOUS
  <2>2. new.k = x /\ new.kc = kc /\ new.todo = program
    BY <2>1 DEF Idle
  <2> QED BY <1>0, <1>2, <2>1, <2>2 DEF Working
<1>6. sf[k] # Gone /\ sf[k] = [status |-> "active", pair |-> p]
  BY Active DEF Serves
<1>7. ASSUME ~Head(events).deleted, x = k PROVE kc = sf[k] /\ program = Upsert(kc)
  BY <1>1, <1>6, <1>7
<1>8. ASSUME Head(events) = [k |-> k, deleted |-> FALSE] PROVE Publishing(k)'
  <2>1. ~Head(events).deleted /\ x = k
    BY <1>1, <1>8
  <2>2. kc = sf[k] /\ program = Upsert(kc)
    BY <1>7, <2>1
  <2>3. \E i \in 1 .. Len(program) : program[i].do = "publish"
    BY <1>6, <2>2, UpsertSpares
  <2> QED BY <1>3, <1>5, <1>8, <2>1, <2>2, <2>3 DEF Publishing
<1>9. ASSUME x = k PROVE Awaited(k)' \/ Sparing(work'[Consumer], p)
  <2>1. CASE Head(events).deleted
    <3>1. events[1].deleted /\ events[1].k = k /\ 1 \in 1 .. Len(events)
      BY <1>1, <1>4, <1>9, <2>1
    <3>2. PICK j \in 1 + 1 .. Len(events) : events[j] = [k |-> k, deleted |-> FALSE]
      BY <1>6, <3>1 DEF Superseded
    <3>3. j \in 1 .. Len(events) /\ j # 1
      BY <1>4, <3>2
    <3> QED BY <1>3, <3>2, <3>3 DEF Awaited
  <2>2. CASE ~Head(events).deleted
    <3>1. kc = sf[k] /\ program = Upsert(kc)
      BY <1>7, <1>9, <2>2
    <3>2. program \in Seq(MeekSteps(p))
      BY <1>6, <3>1, UpsertSpares
    <3> QED BY <1>0, <1>5, <1>6, <3>1, <3>2, StartSpares
  <2> QED BY <2>1, <2>2
<1> QED BY <1>5, <1>8, <1>9

(* Only the publish makes a publish.                                       *)
LEMMA OnlyPublish == ASSUME NEW w, Run(w), At(w, "publish") PROVE Publish(w)
<1>1. ASSUME NEW d, At(w, d) PROVE d = "publish"
  BY <1>1 DEF At
<1>2. ~Revoke(w)
  BY <1>1 DEF Revoke, Scan, Flush, Recheck, Verify, ConfirmLive, Settle, Reassert, Own, ClearMarker
<1>3. ~RevokeNoLongerLive(w)
  BY <1>1 DEF RevokeNoLongerLive, Expire, Justify, Claim, Claimed, Regranted, Compare, Clear
<1>4. Grant(w) => Publish(w)
  BY <1>1 DEF Grant, Snapshot, Inactive, Record, Write
<1>5. ~(Lookup(w) \/ Withdraw(w) \/ EraseEntry(w) \/ SaveUpdate(w) \/ SettleStale(w) \/ DeleteRecord(w)
        \/ Fails(w) \/ Pass(w) \/ End(w))
  BY <1>1 DEF Lookup, Withdraw, EraseEntry, SaveUpdate, SettleStale, DeleteRecord, Fails, Pass,
              End, At, Handlers
<1> QED BY <1>2, <1>3, <1>4, <1>5 DEF Run

(* And only the save saves.                                                *)
LEMMA OnlySave ==
  ASSUME Shape, NEW w \in Workers, Run(w), At(w, "save"), sf[work[w].k] # Gone
  PROVE  \E rec \in Records : Save(work[w].k, rec)
<1>1. ASSUME NEW d, At(w, d) PROVE d = "save"
  BY <1>1 DEF At
<1>2. ~Revoke(w)
  BY <1>1 DEF Revoke, Scan, Flush, Recheck, Verify, ConfirmLive, Settle, Reassert, Own, ClearMarker
<1>3. ~RevokeNoLongerLive(w)
  BY <1>1 DEF RevokeNoLongerLive, Expire, Justify, Claim, Claimed, Regranted, Compare, Clear
<1>4. ~Grant(w)
  BY <1>1 DEF Grant, Snapshot, Publish, Inactive, Record, Write
<1>5. ~(Lookup(w) \/ Withdraw(w) \/ EraseEntry(w) \/ SettleStale(w) \/ DeleteRecord(w)
        \/ Fails(w) \/ Pass(w) \/ End(w))
  BY <1>1 DEF Lookup, Withdraw, EraseEntry, SettleStale, DeleteRecord, Fails, Pass,
              End, At, Handlers
<1>6. SaveUpdate(w)
  BY <1>2, <1>3, <1>4, <1>5 DEF Run
<1> QED BY <1>6, LiveAre DEF SaveUpdate

(* The consumer that is about to publish goes on to, does or tells.        *)
LEMMA PublishingStays ==
  ASSUME Shape, [Next]_vars, NEW k \in Contacts, NEW p \in Pairs, Serves(k, p), Serves(k, p)',
         Publishing(k)
  PROVE  p \in Excused' \/ Awaited(k)' \/ Publishing(k)' \/ Stays(p)'
<1>0. /\ Working /\ Around /\ Consumer \in Workers /\ work \in [Workers -> Jobs] /\ k # None
      /\ work[Consumer].k = k /\ work[Consumer].k # None /\ work[Consumer] # Idle
      /\ work[Consumer].kc = sf[k] /\ sf'[k] = sf[k]
  BY GrantAssumption DEF Shape, Workers, Working, Publishing, Serves, Idle
<1>1. /\ events # <<>> /\ Head(events) = [k |-> k, deleted |-> FALSE]
      /\ \/ work[Consumer].hold
         \/ \E i \in 1 .. Len(work[Consumer].todo) : work[Consumer].todo[i].do = "publish"
  BY DEF Publishing
<1>2. Told(Consumer) \subseteq Excused' /\ work[Consumer].hold => p \in Excused'
  <2>1. ~Held(Consumer) /\ p \in Known(work[Consumer].k, work[Consumer].kc)
    BY <1>0, Active DEF Held, Known
  <2> QED BY <2>1 DEF Told
<1>3. CASE End(Consumer)
  <2>1. work[Consumer].todo = <<>> /\ Len(<<>>) = 0 /\ Told(Consumer) \subseteq Excused'
    BY <1>3 DEF End, Excused
  <2> QED BY <1>1, <1>2, <2>1
<1>4. ASSUME ~End(Consumer)
      PROVE  events' # <<>> /\ Head(events') = [k |-> k, deleted |-> FALSE]
  <2>1. ASSUME NEW x \in Contacts, NEW rec \in Records, Save(x, rec)
        PROVE  events' # <<>> /\ Head(events') = Head(events)
    <3>1. events' = Append(events, [k |-> x, deleted |-> rec = Gone])
      BY <2>1 DEF Save
    <3>2. PICK e : e = [k |-> x, deleted |-> rec = Gone]
      OBVIOUS
    <3>3. e \in Events /\ events \in Seq(Events) /\ events' = Append(events, e)
      BY <1>0, <3>1, <3>2 DEF Around, Events
    <3>4. events' \in Seq(Events) /\ events' # <<>> /\ events'[1] = events[1]
      BY <1>1, <3>3
    <3> QED BY <1>1, <3>3, <3>4, TailFacts
  <2>2. ~Take /\ ~PassOver
    BY <1>0 DEF Take, PassOver
  <2> QED BY <1>1, <1>4, <2>1, <2>2, EventSteps
<1>5. CASE ~End(Consumer) /\ work'[Consumer] = work[Consumer]
  BY <1>0, <1>1, <1>4, <1>5 DEF Publishing
<1>6. CASE Crash(Consumer)
  <2>1. Told(Consumer) \subseteq Excused' /\ events' = events /\ work'[Consumer].k = None
    BY <1>0, <1>6 DEF Crash, Excused, Idle
  <2>2. events \in Seq(Events)
    BY <1>0 DEF Around
  <2>3. 1 \in 1 .. Len(events) /\ events[1] = [k |-> k, deleted |-> FALSE]
    BY <1>1, <2>2, TailFacts
  <2>4. Awaited(k)'
    BY <2>1, <2>3 DEF Awaited
  <2> QED BY <2>4
<1>7. CASE Fails(Consumer) \/ CallFails(Consumer)
  <2>1. /\ work'[Consumer].k = k /\ work'[Consumer].kc = sf'[k]
        /\ \/ work'[Consumer].hold
           \/ /\ work'[Consumer].hold = work[Consumer].hold
              /\ work'[Consumer].todo = Tail(work[Consumer].todo)
              /\ Head(work[Consumer].todo).do \in Swallowed \cup {"lookup"}
    BY <1>0, <1>7, FailsHas
  <2>2. ~End(Consumer)
    BY <1>7 DEF End, Fails, CallFails, At
  <2>3. work'[Consumer].hold \/ \E i \in 1 .. Len(work'[Consumer].todo) : work'[Consumer].todo[i].do = "publish"
    <3>1. CASE work'[Consumer].hold
      BY <3>1
    <3>2. CASE ~work'[Consumer].hold
      <4>1. PICK t : t = work[Consumer].todo
        OBVIOUS
      <4>2. work'[Consumer].todo = Tail(t) /\ Head(t).do \in Swallowed \cup {"lookup"} /\ ~work[Consumer].hold
        BY <2>1, <3>2, <4>1
      <4>3. PICK i \in 1 .. Len(t) : t[i].do = "publish"
        BY <1>1, <4>1, <4>2
      <4>4. t # <<>> /\ t \in Seq(Steps)
        BY <1>0, <1>7, <4>1 DEF Fails, CallFails, At, Jobs
      <4>5. Head(t) = t[1] /\ Len(Tail(t)) = Len(t) - 1 /\ Len(t) \in Nat
            /\ \A j \in 1 .. Len(Tail(t)) : Tail(t)[j] = t[j + 1]
        BY <4>4, TailFacts
      <4>6. i # 1
        BY <4>2, <4>3, <4>5 DEF Swallowed
      <4>7. i - 1 \in 1 .. Len(Tail(t)) /\ Tail(t)[i - 1] = t[i]
        BY <4>3, <4>5, <4>6
      <4> QED BY <4>2, <4>3, <4>7
    <3> QED BY <3>1, <3>2
  <2> QED BY <1>4, <2>1, <2>2, <2>3 DEF Publishing
<1>8. CASE Run(Consumer) /\ Moves(Consumer)
  <2>1. /\ work'[Consumer].k = k /\ work'[Consumer].hold = work[Consumer].hold
        /\ work'[Consumer].kc = work[Consumer].kc \/ At(Consumer, "save")
        /\ \A i \in 2 .. Len(work[Consumer].todo) : \E j \in 1 .. Len(work'[Consumer].todo) :
               work'[Consumer].todo[j] = work[Consumer].todo[i]
        /\ work[Consumer].todo # <<>>
    BY <1>0, <1>8, MovesHas
  <2>2. ~End(Consumer)
    BY <2>1 DEF End
  <2>3. CASE At(Consumer, "publish")
    <3>1. Publish(Consumer)
      BY <1>8, <2>3, OnlyPublish
    <3>2. work[Consumer].kc.status # "inactive" /\ work[Consumer].kc.pair = p /\ p # None
      BY <1>0, Active
    <3>3. Go(Consumer, work[Consumer], <<Put(p)>>, For(<<"record">>, p))
      BY <3>1, <3>2 DEF Publish
    <3> QED BY <1>0, <3>3, PutStays
  <2>4. CASE At(Consumer, "save")
    <3>1. \E rec \in Records : Save(k, rec)
      BY <1>0, <1>8, <2>4, OnlySave, Active
    <3> QED BY <3>1, SaveAwaits, <1>0
  <2>5. CASE ~At(Consumer, "publish") /\ ~At(Consumer, "save")
    <3>1. work'[Consumer].hold \/ \E j \in 1 .. Len(work'[Consumer].todo) : work'[Consumer].todo[j].do = "publish"
      <4>1. CASE work[Consumer].hold
        BY <2>1, <4>1
      <4>2. ASSUME NEW i \in 1 .. Len(work[Consumer].todo), work[Consumer].todo[i].do = "publish"
            PROVE  \E j \in 1 .. Len(work'[Consumer].todo) : work'[Consumer].todo[j].do = "publish"
        <5>1. work[Consumer].todo \in Seq(Steps)
          BY <1>0 DEF Jobs
        <5>2. Head(work[Consumer].todo) = work[Consumer].todo[1] /\ Len(work[Consumer].todo) \in Nat
          BY <2>1, <5>1, TailFacts
        <5>3. i # 1
          BY <2>1, <2>5, <4>2, <5>2 DEF At
        <5>4. i \in 2 .. Len(work[Consumer].todo)
          BY <5>2, <5>3
        <5> QED BY <2>1, <4>2, <5>4
      <4> QED BY <1>1, <4>1, <4>2
    <3> QED BY <1>0, <1>4, <2>1, <2>2, <2>5, <3>1 DEF Publishing
  <2> QED BY <2>3, <2>4, <2>5
<1>9. ASSUME NEW w \in Workers, w # Consumer, Run(w) \/ CallFails(w) \/ Crash(w)
      PROVE  work'[Consumer] = work[Consumer]
  BY <1>0, <1>9, RunOthers
<1>10. ASSUME NEW w \in Writers, NEW x \in Contacts,
              Create(w, x) \/ Update(w, x) \/ Delete(w, x) \/ Republish(w, x)
       PROVE  work'[Consumer] = work[Consumer]
  <2>1. PICK kc, program : Call(w, x, kc, program)
    BY <1>10 DEF Create, Update, Delete, Republish
  <2> QED BY <1>0, <2>1, GrantAssumption DEF Call
<1>11. ASSUME PassOver \/ (\E x \in Contacts : Change(x)) \/ (\E w \in Workers : Deliver(w)) \/ UNCHANGED vars
       PROVE  work' = work
  BY <1>11 DEF PassOver, Change, Deliver, vars
<1>12. ~Take
  BY <1>0 DEF Take
<1>13. CASE work'[Consumer] = work[Consumer]
  BY <1>3, <1>5, <1>13
<1>14. CASE Run(Consumer) \/ CallFails(Consumer) \/ Crash(Consumer)
  <2>1. Run(Consumer) => Moves(Consumer) \/ Fails(Consumer) \/ End(Consumer)
    BY <1>0, RunMoves
  <2> QED BY <1>3, <1>6, <1>7, <1>8, <1>14, <2>1
<1> QED BY <1>9, <1>10, <1>11, <1>12, <1>13, <1>14 DEF Next

(* What stays in orderly behaviours.                                       *)
LEMMA NextOneWire ==
  ASSUME Shape, Orderly, OneWire, [Next]_vars
  PROVE  OneWire'
<1>0. Working
  BY DEF Shape
<1>1. ASSUME wire' = wire PROVE OneWire'
  BY <1>1 DEF OneWire
<1>2. ASSUME NEW w \in Workers, Run(w) \/ CallFails(w) \/ Crash(w) PROVE OneWire'
  <2>1. work[w] # Idle /\ \A v \in Workers \ {w} : wire'[v] = wire[v]
    BY <1>2, RunOthers, RunWires
  <2>2. \A v \in Workers \ {w} : wire'[v] = <<>>
    BY <2>1 DEF Orderly, Alone
  <2> QED BY <2>2 DEF OneWire
<1>3. ASSUME NEW w \in Workers, Deliver(w) PROVE OneWire'
  <2>1. wire[w] # <<>> /\ \A v \in Workers \ {w} : wire'[v] = wire[v]
    BY <1>0, <1>3 DEF Deliver, Working
  <2> QED BY <2>1 DEF OneWire
<1>4. ASSUME NEW w \in Writers, NEW x \in Contacts,
             Create(w, x) \/ Update(w, x) \/ Delete(w, x) \/ Republish(w, x)
      PROVE  OneWire'
  BY <1>1, <1>4 DEF Create, Update, Delete, Republish, Call
<1>5. ASSUME Take \/ PassOver \/ (\E x \in Contacts : Change(x)) \/ UNCHANGED vars PROVE OneWire'
  BY <1>1, <1>5 DEF Take, PassOver, Change, vars
<1> QED BY <1>2, <1>3, <1>4, <1>5 DEF Next

(* The tuple stays.                                                        *)
LEMMA NextStays ==
  ASSUME Shape, Orderly, OneWire, Spared, [Next]_vars,
         NEW k \in Contacts, NEW p \in Pairs, Serves(k, p), Stays(p), p \notin Excused, ~Awaited(k)
  PROVE  p \in Excused' \/ Stays(p)'
<1>0. Working
  BY DEF Shape
<1>1. ASSUME wire' = wire, tuples' = tuples PROVE Stays(p)'
  BY <1>1 DEF Stays, NoRemove
<1>2. ASSUME NEW w \in Workers, Run(w) PROVE Stays(p)'
  <2>1. k = work[w].k => Sparing(work[w], p)
    BY DEF Spared
  <2>2. Fitting(w) /\ Sees(w)
    BY DEF Orderly
  <2>3. Sends(w, p)
    BY <1>2, <2>1, <2>2, RunSends
  <2> QED BY <1>0, <2>3, SendsStays
<1>3. ASSUME NEW w \in Workers, wire' = [wire EXCEPT ![w] = <<>>], tuples' = tuples, Unsent(w) \subseteq lost'
      PROVE  p \in Excused' \/ Stays(p)'
  <2>1. Stays(p)' \/ p \in Unsent(w)
    BY <1>0, <1>3, LoseStays
  <2> QED BY <1>3, <2>1 DEF Excused
<1>4. ASSUME NEW w \in Workers, CallFails(w) PROVE p \in Excused' \/ Stays(p)'
  <2>1. tuples' = tuples
    BY <1>4 DEF CallFails
  <2>2. wire' = wire \/ (wire' = [wire EXCEPT ![w] = <<>>] /\ Unsent(w) \subseteq lost')
    BY <1>4 DEF CallFails
  <2> QED BY <1>1, <1>3, <2>1, <2>2
<1>5. ASSUME NEW w \in Workers, Crash(w) PROVE p \in Excused' \/ Stays(p)'
  BY <1>3, <1>5 DEF Crash
<1>6. ASSUME NEW w \in Workers, Deliver(w) PROVE Stays(p)'
  BY <1>0, <1>6, DeliverStays
<1>7. ASSUME NEW w \in Writers, NEW x \in Contacts,
             Create(w, x) \/ Update(w, x) \/ Delete(w, x) \/ Republish(w, x)
      PROVE  Stays(p)'
  BY <1>1, <1>7 DEF Create, Update, Delete, Republish, Call
<1>8. ASSUME Take \/ PassOver \/ (\E x \in Contacts : Change(x)) \/ UNCHANGED vars PROVE Stays(p)'
  BY <1>1, <1>8 DEF Take, PassOver, Change, vars, local
<1> QED BY <1>2, <1>4, <1>5, <1>6, <1>7, <1>8 DEF Next

(* Every step keeps who is served.                                         *)
LEMMA NextServed ==
  ASSUME Shape, Orderly, OneWire, Superseded, Served, Spared, [Next]_vars
  PROVE  Served'
<1> SUFFICES ASSUME NEW k \in Contacts, NEW p \in Pairs, Serves(k, p)'
             PROVE  p \in Excused' \/ Awaited(k)' \/ Publishing(k)' \/ Stays(p)'
  BY DEF Served
<1>1. CASE Awaited(k)'
  BY <1>1
<1>2. CASE Serves(k, p)
  <2>1. p \in Excused \/ Awaited(k) \/ Publishing(k) \/ Stays(p)
    BY <1>2 DEF Served
  <2>2. CASE p \in Excused
    BY <2>2, ExcusedGrows
  <2>3. CASE Awaited(k)
    <3>1. Awaited(k)' \/ ((Take \/ PassOver) /\ Head(events) = [k |-> k, deleted |-> FALSE])
      BY <2>3, AwaitedStays
    <3>2. Take /\ Head(events) = [k |-> k, deleted |-> FALSE] => Publishing(k)'
      BY <1>2, TakeServes
    <3>3. PassOver /\ Head(events) = [k |-> k, deleted |-> FALSE] => p \in Excused'
      BY <1>2, PassTells
    <3> QED BY <3>1, <3>2, <3>3
  <2>4. CASE Publishing(k)
    BY <1>2, <2>4, PublishingStays
  <2>5. CASE Stays(p) /\ p \notin Excused /\ ~Awaited(k)
    BY <1>2, <2>5, NextStays
  <2> QED BY <2>1, <2>2, <2>3, <2>4, <2>5
<1> QED BY <1>1, <1>2, ServedAnew

(* A call that an API request or a backfill begins.                        *)
LEMMA ApiSpares ==
  ASSUME Shape, NEW w \in Writers, NEW k \in Contacts, NEW p \in Pairs, Serves(k, p), NEW x \in Contacts,
         Create(w, x) \/ Update(w, x) \/ Delete(w, x) \/ Republish(w, x), work'[w].k = k
  PROVE  Sparing(work'[w], p)
<1>0. Working /\ w \in Workers /\ sf[k] # Gone /\ sf[k] = [status |-> "active", pair |-> p]
  BY Active DEF Shape, Workers, Serves
<1>1. ASSUME NEW kc, NEW program, Call(w, x, kc, program)
      PROVE  x = k /\ work'[w].kc = kc /\ work'[w].todo = program
  <2>1. PICK new : new = [Idle EXCEPT !.k = x, !.kc = kc, !.todo = program]
    OBVIOUS
  <2>2. new.k = x /\ new.kc = kc /\ new.todo = program
    BY <2>1 DEF Idle
  <2>3. work' = [work EXCEPT ![w] = new] /\ work'[w] = new
    BY <1>0, <1>1, <2>1 DEF Call, Working
  <2> QED BY <2>1, <2>2, <2>3
<1>2. CASE Create(w, x)
  <2>1. sf[x] = Gone /\ \E kc, program : Call(w, x, kc, program)
    BY <1>2 DEF Create
  <2> QED BY <1>0, <1>1, <2>1
<1>3. \A a, b \in Seq(MeekSteps(p)) : a \o b \in Seq(MeekSteps(p))
  BY SparePrograms
<1>4. /\ Only("save") \in Seq(MeekSteps(p)) /\ Only("lookup") \in Seq(MeekSteps(p))
      /\ Only("settleStale") \in Seq(MeekSteps(p))
  BY SparePrograms DEF Drops, Revokes, Calls
<1>5. ASSUME NEW program \in Seq(MeekSteps(p)), x = k => Call(w, x, sf[k], program),
             \E kc, any : Call(w, x, kc, any)
      PROVE  Sparing(work'[w], p)
  <2>1. x = k
    BY <1>1, <1>5
  <2>2. PICK kc : kc = sf[k]
    OBVIOUS
  <2>3. Call(w, x, kc, program)
    BY <1>5, <2>1, <2>2
  <2>4. work'[w].kc = kc /\ work'[w].todo = program
    BY <1>1, <2>3
  <2>5. kc = [status |-> "active", pair |-> p]
    BY <1>0, <2>2
  <2>6. program \in Seq(MeekSteps(p)) /\ w \in Workers
    BY <1>0, <1>5
  <2> QED BY <2>4, <2>5, <2>6, StartSpares
<1>6. CASE Update(w, x)
  BY <1>4, <1>5, <1>6 DEF Update
<1>7. CASE Delete(w, x)
  <2>1. Only("lookup") \o Only("settleStale") \in Seq(MeekSteps(p))
    BY <1>3, <1>4
  <2> QED BY <1>5, <1>7, <2>1 DEF Delete
<1>8. CASE Republish(w, x)
  <2>1. Upsert(sf[k]) \in Seq(MeekSteps(p))
    BY <1>0, UpsertSpares
  <2> QED BY <1>5, <1>8, <2>1 DEF Republish
<1> QED BY <1>2, <1>6, <1>7, <1>8

(* Every step keeps the programs sparing the pair of their record.         *)
LEMMA NextSpared ==
  ASSUME Shape, Orderly, Superseded, Spared, [MCNext]_mcvars, calm
  PROVE  Spared'
<1> SUFFICES ASSUME NEW w \in Workers, NEW k \in Contacts, NEW p \in Pairs, work'[w].k = k, Serves(k, p)'
             PROVE  p \in Excused' \/ Awaited(k)' \/ Sparing(work'[w], p)
  BY DEF Spared
<1>0. [Next]_vars /\ Working /\ Around /\ work \in [Workers -> Jobs] /\ k # None /\ Idle.k = None
  BY GrantAssumption DEF MCNext, mcvars, Shape, Working, Idle
<1>1. SUFFICES ASSUME Serves(k, p), \A rec \in Records : ~Save(k, rec)
               PROVE  p \in Excused' \/ Awaited(k)' \/ Sparing(work'[w], p)
  BY <1>0, ServedAnew
<1>2. CASE Take
  <2>1. CASE w = Consumer
    BY <1>1, <1>2, <2>1, TakeServes
  <2>2. CASE w # Consumer
    <3>1. /\ work[Consumer] = Idle /\ work'[Consumer].k = Head(events).k /\ Head(events).k # None
          /\ work'[w] = work[w]
      <4>1. events \in Seq(Events) /\ events # <<>> /\ Consumer \in Workers
        BY <1>0, <1>2 DEF Take, Around, Workers
      <4>2. Head(events) \in Events
        BY <4>1, TailFacts
      <4>3. Head(events).k \in Contacts
        BY <4>2 DEF Events
      <4>4. PICK kc, program : work' = [work EXCEPT ![Consumer] =
                                 [Idle EXCEPT !.k = Head(events).k, !.kc = kc, !.todo = program]]
        BY <1>2 DEF Take
      <4>5. PICK new : new = [Idle EXCEPT !.k = Head(events).k, !.kc = kc, !.todo = program]
        OBVIOUS
      <4>6. new.k = Head(events).k
        BY <4>5 DEF Idle
      <4> QED BY <1>0, <1>2, <2>2, <4>1, <4>3, <4>4, <4>5, <4>6, GrantAssumption DEF Take
    <3>2. MCNext /\ Starting
      <4>1. work' # work /\ Consumer \in Workers
        BY <1>0, <3>1 DEF Workers
      <4> QED BY <1>0, <3>1, <4>1 DEF Starting, mcvars, vars
    <3>3. work[w] = Idle
      BY <3>2 DEF MCNext, calm, Busy
    <3> QED BY <1>0, <3>1, <3>3
  <2> QED BY <2>1, <2>2
<1>3. ASSUME ~Take, Awaited(k) PROVE p \in Excused' \/ Awaited(k)'
  <2>1. Awaited(k)' \/ (PassOver /\ Head(events) = [k |-> k, deleted |-> FALSE])
    BY <1>0, <1>3, AwaitedStays
  <2> QED BY <1>1, <2>1, PassTells
<1>4. ASSUME ~Take, work[w].k = k, Sparing(work[w], p) => Sparing(work'[w], p)
      PROVE  p \in Excused' \/ Awaited(k)' \/ Sparing(work'[w], p)
  <2>1. p \in Excused \/ Awaited(k) \/ Sparing(work[w], p)
    BY <1>1, <1>4 DEF Spared
  <2>2. Excused \subseteq Excused'
    BY <1>0, ExcusedGrows
  <2> QED BY <1>3, <1>4, <2>1, <2>2
<1>5. CASE ~Take /\ work'[w] = work[w]
  BY <1>4, <1>5
<1>6. CASE ~Take /\ (Run(w) \/ CallFails(w) \/ Crash(w))
  <2>1. ~(End(w) \/ Crash(w))
    BY <1>0 DEF End, Crash
  <2>2. work'[w].k = work[w].k
    BY <1>6, <2>1, RunMoves, MovesHas, FailsLeave
  <2>3. ~SaveUpdate(w)
    <3>1. SaveUpdate(w) => \E rec \in Live : Save(k, rec)
      BY <1>1, <2>2, Active DEF SaveUpdate
    <3> QED BY <1>1, <3>1, LiveAre
  <2>4. ~DeleteRecord(w)
    <3>1. DeleteRecord(w) => Save(k, Gone)
      BY <1>1, <2>2, Active DEF DeleteRecord
    <3> QED BY <1>1, <3>1, LiveAre
  <2>5. Sparing(work[w], p) => Sparing(work'[w], p)
    BY <1>6, <2>1, <2>3, <2>4, RunSpares
  <2> QED BY <1>4, <1>6, <2>2, <2>5
<1>7. ASSUME NEW v \in Workers, v # w, Run(v) \/ CallFails(v) \/ Crash(v) PROVE work'[w] = work[w]
  BY <1>7, RunOthers DEF Shape
<1>8. ASSUME NEW v \in Writers, NEW x \in Contacts,
             Create(v, x) \/ Update(v, x) \/ Delete(v, x) \/ Republish(v, x)
      PROVE  work'[w] = work[w] \/ Sparing(work'[w], p)
  <2>1. CASE v = w
    BY <1>1, <1>8, <2>1, ApiSpares
  <2>2. CASE v # w
    <3>1. PICK kc, program : Call(v, x, kc, program)
      BY <1>8 DEF Create, Update, Delete, Republish
    <3> QED BY <1>0, <2>2, <3>1 DEF Call
  <2> QED BY <2>1, <2>2
<1>9. ASSUME PassOver \/ (\E x \in Contacts : Change(x)) \/ (\E v \in Workers : Deliver(v)) \/ UNCHANGED vars
      PROVE  work' = work
  BY <1>9 DEF PassOver, Change, Deliver, vars
<1> QED BY <1>0, <1>2, <1>5, <1>6, <1>7, <1>8, <1>9 DEF Next

-----------------------------------------------------------------------------
(* The invariant: what CalmInv says and, one call after another, that who  *)
(* is served has the tuple and that no program takes it.                   *)
ServedInv == CalmInv /\ (calm => Superseded /\ OneWire /\ Served /\ Spared)

(* Nobody is served at the start.                                          *)
LEMMA InitServed == MCInit => ServedInv
<1> SUFFICES ASSUME MCInit PROVE Superseded /\ OneWire /\ Served /\ Spared
  BY InitCalm DEF ServedInv
<1>1. Init
  BY DEF MCInit
<1>2. ASSUME NEW k \in Contacts, NEW p \in Pairs PROVE ~Serves(k, p)
  <2>1. sf[k].status = "gone"
    BY <1>1 DEF Init, Gone
  <2> QED BY <2>1 DEF Serves
<1>3. Superseded
  <2>1. events = <<>> /\ Len(<<>>) = 0
    BY <1>1 DEF Init
  <2> QED BY <2>1 DEF Superseded
<1>4. OneWire
  BY <1>1 DEF Init, OneWire
<1> QED BY <1>2, <1>3, <1>4 DEF Served, Spared

(* The invariant is inductive.                                             *)
LEMMA NextServedInv ==
  ASSUME ServedInv, [MCNext]_mcvars
  PROVE  ServedInv'
<1>1. CalmInv' /\ calm' = calm /\ Shape /\ [Next]_vars
  BY NextCalm DEF ServedInv, CalmInv, ReadInv, MCNext, mcvars
<1>2. ASSUME calm PROVE (Superseded /\ OneWire /\ Served /\ Spared)'
  <2>1. Orderly /\ Superseded /\ OneWire /\ Served /\ Spared
    BY <1>2 DEF ServedInv, CalmInv
  <2> QED BY <1>1, <1>2, <2>1, NextSuperseded, NextOneWire, NextServed, NextSpared
<1> QED BY <1>1, <1>2 DEF ServedInv

(* One call after another, every record that justifies a pair has the      *)
(* pair's tuple once all is quiet, unless a failure was told or a message  *)
(* lost, for any number of records, pairs, writers, failures and crashes:  *)
(* each revoke reads the records (keyContactPairJustified in               *)
(* key_contact_grant.go, and the recheck behind a remove) before it removes*)
(* a pair, a call spares the pair of its own record, and a record saved    *)
(* without its tuple awaits the event the consumer publishes it from.      *)
THEOREM JustifiedStay == MCSpec => []CalmGranted
<1>1. ServedInv /\ [MCNext]_mcvars => ServedInv'
  BY NextServedInv
<1>2. ServedInv => CalmGranted
  <2> SUFFICES ASSUME ServedInv, calm, Quiet, NEW p \in Pairs, Justified(p)
               PROVE  p \in tuples \cup Excused
    BY DEF CalmGranted, Granted
  <2>1. PICK k \in Contacts : Serves(k, p)
    BY DEF Justified, Serves
  <2>2. p \in Excused \/ Awaited(k) \/ Publishing(k) \/ Stays(p)
    BY <2>1 DEF ServedInv, Served
  <2>3. Len(<<>>) = 0
    OBVIOUS
  <2>4. ~Awaited(k) /\ ~Publishing(k)
    BY <2>3 DEF Awaited, Publishing, Quiet
  <2>5. Stays(p) => p \in tuples
    BY <2>3 DEF Stays, Quiet
  <2> QED BY <2>2, <2>4, <2>5
<1> QED BY <1>1, <1>2, InitServed, PTL DEF MCSpec

(* Between a and b the program does not look for another pair's sibling,   *)
(* and nothing brings in calls that do.                                    *)
Near(t, a, b, p) == \A n \in a .. b : t[n].do \notin Fence /\ (t[n].do \in Drops => t[n].pair = p)
(* The hand-over at j goes by a look for the pair's sibling in the program,*)
Sought(t, j) == \E n \in 1 .. j - 1 : Searches(t, n, t[j].pair) /\ Near(t, n + 1, j - 1, t[j].pair)
(* ... or by what was found before: G are the pairs that justifies.        *)
Aimed(t, G) == \A j \in 1 .. Len(t) : t[j].do = "own" =>
    Sought(t, j) \/ (t[j].pair \in G /\ Near(t, 1, j - 1, t[j].pair))

(* More may have been found.                                               *)
LEMMA AimedGrows ==
  ASSUME NEW t, NEW G, NEW H, Aimed(t, G), G \subseteq H
  PROVE  Aimed(t, H)
BY DEF Aimed

(* One aimed program behind another.                                       *)
LEMMA AimedConcat ==
  ASSUME NEW a \in Seq(Steps), NEW b \in Seq(Steps), NEW G, Aimed(a, G), Aimed(b, {})
  PROVE  a \o b \in Seq(Steps) /\ Aimed(a \o b, G)
<1>1. PICK S, c : S = Steps /\ c = a \o b
  OBVIOUS
<1>2. /\ c \in Seq(S) /\ Len(c) = Len(a) + Len(b) /\ Len(a) \in Nat /\ Len(b) \in Nat
      /\ \A i \in 1 .. Len(a) : i \in 1 .. Len(c) /\ c[i] = a[i]
      /\ \A i \in 1 .. Len(c) : \/ i \in 1 .. Len(a) /\ c[i] = a[i]
                                \/ i - Len(a) \in 1 .. Len(b) /\ c[i] = b[i - Len(a)]
  BY <1>1, ConcatFacts
<1>3. \A i \in 1 .. Len(b) : Len(a) + i \in 1 .. Len(c) /\ c[Len(a) + i] = b[i]
  BY <1>1, <1>2, ConcatEnd
<1>4. ASSUME NEW j \in 1 .. Len(c), c[j].do = "own", j \in 1 .. Len(a), c[j] = a[j]
      PROVE  Sought(c, j) \/ (c[j].pair \in G /\ Near(c, 1, j - 1, c[j].pair))
  <2>1. \A i \in 1 .. j : i \in 1 .. Len(a) /\ c[i] = a[i]
    BY <1>2, <1>4
  <2>2. CASE Sought(a, j)
    <3>1. PICK n \in 1 .. j - 1 : Searches(a, n, a[j].pair) /\ Near(a, n + 1, j - 1, a[j].pair)
      BY <2>2 DEF Sought
    <3>2. Searches(c, n, c[j].pair)
      BY <1>4, <2>1, <3>1 DEF Searches
    <3>3. Near(c, n + 1, j - 1, c[j].pair)
      BY <1>4, <2>1, <3>1 DEF Near
    <3> QED BY <3>2, <3>3 DEF Sought
  <2>3. CASE a[j].pair \in G /\ Near(a, 1, j - 1, a[j].pair)
    BY <1>4, <2>1, <2>3 DEF Near
  <2> QED BY <1>4, <2>2, <2>3 DEF Aimed
<1>5. ASSUME NEW j \in 1 .. Len(c), c[j].do = "own", j - Len(a) \in 1 .. Len(b), c[j] = b[j - Len(a)]
      PROVE  Sought(c, j)
  <2>1. PICK m : m = j - Len(a)
    OBVIOUS
  <2>2. m \in 1 .. Len(b) /\ j = Len(a) + m /\ b[m].do = "own" /\ c[j] = b[m]
    BY <1>2, <1>5, <2>1
  <2>3. Sought(b, m)
    BY <2>2 DEF Aimed
  <2>4. PICK n \in 1 .. m - 1 : Searches(b, n, b[m].pair) /\ Near(b, n + 1, m - 1, b[m].pair)
    BY <2>3 DEF Sought
  <2>5. Len(a) + n \in 1 .. j - 1 /\ n \in 1 .. Len(b)
    BY <1>2, <2>2, <2>4
  <2>6. Searches(c, Len(a) + n, c[j].pair)
    BY <1>3, <2>2, <2>4, <2>5 DEF Searches
  <2>7. ASSUME NEW x \in (Len(a) + n) + 1 .. j - 1
        PROVE  c[x].do \notin Fence /\ (c[x].do \in Drops => c[x].pair = c[j].pair)
    <3>1. x - Len(a) \in n + 1 .. m - 1 /\ x - Len(a) \in 1 .. Len(b) /\ Len(a) + (x - Len(a)) = x
      BY <1>2, <2>2, <2>4, <2>5
    <3>2. c[x] = b[x - Len(a)]
      BY <1>3, <3>1
    <3> QED BY <2>2, <2>4, <3>1, <3>2 DEF Near
  <2>8. Near(c, (Len(a) + n) + 1, j - 1, c[j].pair)
    BY <2>7 DEF Near
  <2> QED BY <2>5, <2>6, <2>8 DEF Sought
<1>6. Aimed(c, G)
  BY <1>2, <1>4, <1>5 DEF Aimed
<1> QED BY <1>1, <1>2, <1>6

(* A program that hands nothing over.                                      *)
LEMMA AimedNone ==
  ASSUME NEW t, \A j \in 1 .. Len(t) : t[j].do # "own", NEW G
  PROVE  Aimed(t, G)
BY DEF Aimed

(* What comes behind a call that brings in others has looked itself.       *)
LEMMA AimedAfter ==
  ASSUME NEW t \in Seq(Steps), NEW G, Aimed(t, G), NEW h \in 1 .. Len(t), t[h].do \in Fence,
         NEW r, Len(r) = Len(t) - h, \A i \in 1 .. Len(r) : r[i] = t[h + i]
  PROVE  Aimed(r, {})
<1>0. Len(t) \in Nat
  OBVIOUS
<1> SUFFICES ASSUME NEW j \in 1 .. Len(r), r[j].do = "own" PROVE Sought(r, j)
  BY DEF Aimed
<1>1. h + j \in 1 .. Len(t) /\ t[h + j] = r[j] /\ h \in 1 .. (h + j) - 1
  BY <1>0
<1>2. ~Near(t, 1, (h + j) - 1, t[h + j].pair)
  BY <1>1 DEF Near
<1>3. Sought(t, h + j)
  BY <1>1, <1>2 DEF Aimed
<1>4. PICK n \in 1 .. (h + j) - 1 : /\ Searches(t, n, t[h + j].pair)
                                    /\ Near(t, n + 1, (h + j) - 1, t[h + j].pair)
  BY <1>3 DEF Sought
<1>5. n # h
  BY <1>4 DEF Searches, Fence
<1>6. ~(n < h)
  <2>1. n < h => h \in n + 1 .. (h + j) - 1
    BY <1>0, <1>1
  <2> QED BY <1>4, <2>1 DEF Near
<1>7. n - h \in 1 .. j - 1 /\ n - h \in 1 .. Len(r) /\ h + (n - h) = n
  BY <1>0, <1>1, <1>4, <1>5, <1>6
<1>8. Searches(r, n - h, r[j].pair)
  BY <1>1, <1>4, <1>7 DEF Searches
<1>9. ASSUME NEW x \in (n - h) + 1 .. j - 1
      PROVE  r[x].do \notin Fence /\ (r[x].do \in Drops => r[x].pair = r[j].pair)
  <2>1. h + x \in n + 1 .. (h + j) - 1 /\ x \in 1 .. Len(r)
    BY <1>0, <1>1, <1>4, <1>7
  <2> QED BY <1>1, <1>4, <2>1 DEF Near
<1>10. Near(r, (n - h) + 1, j - 1, r[j].pair)
  BY <1>9 DEF Near
<1> QED BY <1>7, <1>8, <1>10 DEF Sought

(* The head of a program is done, or replaced by calls about its pair.     *)
LEMMA AimedMild ==
  ASSUME NEW t \in Seq(Steps), t # <<>>, NEW G, NEW H, Aimed(t, G),
         NEW steps \in Seq(Steps),
         \A i \in 1 .. Len(steps) :
            /\ steps[i].do \notin Fence \cup {"own"}
            /\ steps[i].do \in Drops => t[1].do \in Drops /\ steps[i].pair = t[1].pair,
         \A p : /\ p \in G \/ Searches(t, 1, p)
                /\ t[1].do \in Drops => t[1].pair = p
                => p \in H
  PROVE  Aimed(steps \o Tail(t), H)
<1>1. PICK u : u = steps \o Tail(t)
  OBVIOUS
<1>2. /\ u \in Seq(Steps) /\ Len(u) = Len(steps) + Len(t) - 1
      /\ Len(steps) \in Nat /\ Len(t) \in Nat \ {0} /\ Len(u) \in Nat
      /\ \A n \in 2 .. Len(t) : n + Len(steps) - 1 \in 1 .. Len(u) /\ u[n + Len(steps) - 1] = t[n]
      /\ \A n \in 1 .. Len(steps) : n \in 1 .. Len(u) /\ u[n] = steps[n]
      /\ \A n \in 1 .. Len(u) :
           \/ n \in 1 .. Len(steps) /\ u[n] = steps[n]
           \/ n - Len(steps) + 1 \in 2 .. Len(t) /\ u[n] = t[n - Len(steps) + 1]
  BY <1>1, Moved
<1>3. ASSUME NEW m \in 1 .. Len(u), u[m].do = "own"
      PROVE  Sought(u, m) \/ (u[m].pair \in H /\ Near(u, 1, m - 1, u[m].pair))
  <2>0. PICK j : j = m - Len(steps) + 1
    OBVIOUS
  <2>1. j \in 2 .. Len(t) /\ u[m] = t[j] /\ m = j + Len(steps) - 1
    BY <1>2, <1>3, <2>0
  <2>2. PICK p : p = t[j].pair
    OBVIOUS
  <2>3. ASSUME NEW n \in 1 .. j, Near(t, n, j - 1, p), n = 1 \/ n >= 2
        PROVE  Near(u, IF n = 1 THEN 1 ELSE n + Len(steps) - 1, m - 1, p)
    <3> SUFFICES ASSUME NEW x \in (IF n = 1 THEN 1 ELSE n + Len(steps) - 1) .. m - 1
                 PROVE  u[x].do \notin Fence /\ (u[x].do \in Drops => u[x].pair = p)
      BY DEF Near
    <3>1. x \in 1 .. Len(u) /\ x <= m - 1
      BY <1>2, <2>1
    <3>2. CASE x \in 1 .. Len(steps) /\ u[x] = steps[x]
      <4>1. n = 1 \/ u[x].do \notin Drops
        <5>1. n \in Nat /\ (n # 1 => n >= 2) /\ Len(steps) \in Nat /\ x <= Len(steps)
          BY <1>2, <2>3, <3>2
        <5>2. CASE n # 1
          <6>1. x \in n + Len(steps) - 1 .. m - 1
            BY <5>2
          <6>2. n + Len(steps) - 1 >= Len(steps) + 1
            BY <5>1, <5>2
          <6> QED BY <5>1, <6>1, <6>2
        <5> QED BY <5>2
      <4>2. n = 1 => 1 \in n .. j - 1
        BY <2>1
      <4>3. n = 1 /\ t[1].do \in Drops => t[1].pair = p
        BY <2>3, <4>2 DEF Near
      <4> QED BY <3>2, <4>1, <4>3
    <3>3. CASE x - Len(steps) + 1 \in 2 .. Len(t) /\ u[x] = t[x - Len(steps) + 1]
      <4>1. x - Len(steps) + 1 \in n .. j - 1
        <5>1. CASE n = 1
          <6>1. x \in 1 .. m - 1
            BY <5>1
          <6>2. x \in Nat /\ Len(steps) \in Nat /\ j \in Nat
            BY <1>2, <2>1, <3>1
          <6> QED BY <2>1, <3>3, <5>1, <6>1, <6>2
        <5>2. CASE n # 1
          <6>1. x \in n + Len(steps) - 1 .. m - 1
            BY <5>2
          <6>2. x \in Nat /\ n \in Nat /\ Len(steps) \in Nat /\ j \in Nat
            BY <1>2, <2>1, <3>1
          <6> QED BY <2>1, <6>1, <6>2
        <5> QED BY <5>1, <5>2
      <4> QED BY <2>3, <3>3, <4>1 DEF Near
    <3> QED BY <1>2, <3>1, <3>2, <3>3
  <2>4. ASSUME NEW n \in 2 .. j - 1, Searches(t, n, p), Near(t, n + 1, j - 1, p)
        PROVE  Sought(u, m)
    <3>1. n + Len(steps) - 1 \in 1 .. m - 1 /\ n \in 2 .. Len(t) /\ n + 1 \in 1 .. j /\ n + 1 >= 2 /\ n + 1 # 1
      BY <1>2, <2>1
    <3>2. Searches(u, n + Len(steps) - 1, p)
      BY <1>2, <2>4, <3>1 DEF Searches
    <3>3. Near(u, (n + 1) + Len(steps) - 1, m - 1, p)
      BY <2>3, <2>4, <3>1
    <3>4. (n + 1) + Len(steps) - 1 = (n + Len(steps) - 1) + 1
      BY <1>2, <3>1
    <3> QED BY <2>1, <2>2, <3>1, <3>2, <3>3, <3>4 DEF Sought
  <2>5. ASSUME Searches(t, 1, p), Near(t, 2, j - 1, p) PROVE u[m].pair \in H /\ Near(u, 1, m - 1, p)
    <3>1. t[1].do \notin Fence /\ (t[1].do \in Drops => t[1].pair = p)
      BY <2>5 DEF Searches, Fence
    <3>2. Near(t, 1, j - 1, p)
      <4>1. \A x \in 1 .. j - 1 : x = 1 \/ x \in 2 .. j - 1
        BY <2>1
      <4> QED BY <2>5, <3>1, <4>1 DEF Near
    <3>3. Near(u, 1, m - 1, p)
      BY <2>1, <2>3, <3>2
    <3> QED BY <2>1, <2>2, <2>5, <3>1, <3>3
  <2>6. ASSUME p \in G, Near(t, 1, j - 1, p) PROVE u[m].pair \in H /\ Near(u, 1, m - 1, p)
    <3>1. 1 \in 1 .. j - 1
      BY <2>1
    <3>2. t[1].do \in Drops => t[1].pair = p
      BY <2>6, <3>1 DEF Near
    <3>3. Near(u, 1, m - 1, p)
      BY <2>1, <2>3, <2>6
    <3> QED BY <2>1, <2>2, <2>6, <3>2, <3>3
  <2>7. \/ \E n \in 1 .. j - 1 : Searches(t, n, p) /\ Near(t, n + 1, j - 1, p)
        \/ p \in G /\ Near(t, 1, j - 1, p)
    <3>1. j \in 1 .. Len(t) /\ t[j].do = "own"
      BY <1>3, <2>1
    <3> QED BY <2>2, <3>1 DEF Aimed, Sought
  <2>8. CASE p \in G /\ Near(t, 1, j - 1, p)
    BY <2>1, <2>2, <2>6, <2>8
  <2>9. CASE \E n \in 1 .. j - 1 : Searches(t, n, p) /\ Near(t, n + 1, j - 1, p)
    <3>1. PICK n \in 1 .. j - 1 : Searches(t, n, p) /\ Near(t, n + 1, j - 1, p)
      BY <2>9
    <3>2. CASE n = 1
      BY <2>1, <2>2, <2>5, <3>1, <3>2
    <3>3. CASE n # 1
      BY <2>1, <2>4, <3>1, <3>3
    <3> QED BY <3>2, <3>3
  <2> QED BY <2>7, <2>8, <2>9
<1>4. Aimed(u, H)
  BY <1>3 DEF Aimed
<1> QED BY <1>1, <1>4

(* The calls that record a pair for the job's own record.                  *)
Makes == {"record", "write", "recover"}
(* Programs that look for a sibling before they hand over, and record      *)
(* nothing.                                                                *)
Neat(t) == t \in Seq(Steps) /\ Aimed(t, {}) /\ \A i \in 1 .. Len(t) : t[i].do \notin Makes

(* A look for the pair's sibling, and nothing in between that brings in    *)
(* other calls.                                                            *)
LEMMA AimedFor ==
  ASSUME NEW ds \in Seq(Calls), NEW p \in PairOrNone, Len(ds) >= 1, ds[1] = "scan",
         \A i \in 2 .. Len(ds) : ds[i] \notin Fence
  PROVE  For(ds, p) \in Seq(Steps) /\ Aimed(For(ds, p), {})
<1>1. PICK t : t = For(ds, p)
  OBVIOUS
<1>2. /\ t \in Seq(Steps) /\ Len(t) = Len(ds) /\ Len(ds) \in Nat
      /\ \A i \in 1 .. Len(t) : t[i].do = ds[i] /\ t[i].pair = p
  BY <1>1, ForSteps
<1>3. ASSUME NEW j \in 1 .. Len(t), t[j].do = "own" PROVE Sought(t, j)
  <2>1. j # 1 /\ 1 \in 1 .. Len(t)
    BY <1>2, <1>3
  <2>2. 1 \in 1 .. j - 1 /\ Searches(t, 1, t[j].pair)
    BY <1>2, <1>3, <2>1 DEF Searches
  <2>3. \A n \in 1 + 1 .. j - 1 : n \in 1 .. Len(t) /\ n \in 2 .. Len(ds)
    BY <1>2, <1>3
  <2>4. Near(t, 1 + 1, j - 1, t[j].pair)
    BY <1>2, <1>3, <2>3 DEF Near
  <2> QED BY <2>2, <2>4 DEF Sought
<1> QED BY <1>1, <1>2, <1>3 DEF Aimed

(* Two neat programs in a row.                                             *)
LEMMA NeatConcat == ASSUME NEW a, NEW b, Neat(a), Neat(b) PROVE Neat(a \o b)
<1>1. a \in Seq(Steps) /\ b \in Seq(Steps) /\ Aimed(a, {}) /\ Aimed(b, {})
  BY DEF Neat
<1>2. PICK G : G = {}
  OBVIOUS
<1>3. a \o b \in Seq(Steps) /\ Aimed(a \o b, G)
  BY <1>1, <1>2, AimedConcat
<1>4. ASSUME NEW i \in 1 .. Len(a \o b) PROVE (a \o b)[i].do \notin Makes
  <2>1. PICK S, c : S = Steps /\ c = a \o b
    OBVIOUS
  <2>2. \/ i \in 1 .. Len(a) /\ c[i] = a[i]
        \/ i - Len(a) \in 1 .. Len(b) /\ c[i] = b[i - Len(a)]
    BY <1>1, <1>4, <2>1, ConcatFacts
  <2> QED BY <2>1, <2>2 DEF Neat
<1> QED BY <1>2, <1>3, <1>4 DEF Neat

(* A program of one call.                                                  *)
LEMMA NeatOne ==
  ASSUME NEW d \in Calls \ (Makes \cup {"own"}), NEW p \in PairOrNone
  PROVE  Neat(For(<<d>>, p)) /\ Neat(Only(d)) /\ Neat(<<>>)
<1>1. \A q \in PairOrNone : Neat(<<Step(d, q)>>)
  <2> TAKE q \in PairOrNone
  <2>1. PICK s : s = Step(d, q)
    OBVIOUS
  <2>2. s \in Steps /\ s.do = d
    BY <2>1 DEF Step, Steps, PairOrNone
  <2>3. /\ <<s>> \in Seq(Steps) /\ Len(<<s>>) = 1
        /\ \A i \in 1 .. Len(<<s>>) : <<s>>[i].do = d
    BY <2>2
  <2>4. Aimed(<<s>>, {})
    BY <2>3, AimedNone DEF Makes
  <2> QED BY <2>1, <2>3, <2>4 DEF Neat
<1>2. Neat(<<>>)
  <2>1. Len(<<>>) = 0 /\ <<>> \in Seq(Steps)
    OBVIOUS
  <2> QED BY <2>1 DEF Neat, Aimed
<1> QED BY <1>1, <1>2, OnlyIs DEF PairOrNone

(* A scan and what follows it.                                             *)
LEMMA NeatFor ==
  ASSUME NEW ds \in Seq(Calls), NEW p \in PairOrNone, Len(ds) >= 1, ds[1] = "scan",
         \A i \in 2 .. Len(ds) : ds[i] \notin Fence \cup Makes
  PROVE  Neat(For(ds, p))
<1>1. For(ds, p) \in Seq(Steps) /\ Aimed(For(ds, p), {})
  BY AimedFor
<1>2. /\ Len(For(ds, p)) = Len(ds) /\ Len(ds) \in Nat
      /\ \A i \in 1 .. Len(ds) : For(ds, p)[i].do = ds[i]
  BY ForSteps
<1>3. \A i \in 1 .. Len(ds) : i = 1 \/ i \in 2 .. Len(ds)
  BY <1>2
<1>4. \A i \in 1 .. Len(ds) : ds[i] \notin Makes
  BY <1>3 DEF Makes
<1> QED BY <1>1, <1>2, <1>4 DEF Neat

(* The programs.                                                           *)
LEMMA NeatPrograms ==
  ASSUME NEW p \in PairOrNone
  PROVE  /\ Neat(<<>>)
         /\ \A d \in Calls \ (Makes \cup {"own"}) : Neat(Only(d)) /\ Neat(For(<<d>>, p))
         /\ Neat(Drain(p)) /\ Neat(RevokeSuperseded(p)) /\ Neat(RevokeConfirmed(p))
         /\ Neat(For(<<"scan", "own">>, p)) /\ Neat(For(<<"regranted", "compare">>, p))
         /\ \A a, b : Neat(a) /\ Neat(b) => Neat(a \o b)
         /\ \A q, a : Neat(a) => Neat(WhenSet(q, a))
<1>1. /\ <<"scan", "settle", "own">> \in Seq(Calls) /\ <<"scan", "own">> \in Seq(Calls)
      /\ <<"scan", "confirmLive", "reassert", "own">> \in Seq(Calls)
      /\ <<"regranted", "compare">> \in Seq(Calls)
      /\ "clearMarker" \in Calls \ (Makes \cup {"own"}) /\ "flush" \in Calls \ (Makes \cup {"own"})
  BY SmallPrograms DEF Calls, Makes
<1>2. Neat(<<>>) /\ \A d \in Calls \ (Makes \cup {"own"}) : Neat(Only(d)) /\ Neat(For(<<d>>, p))
  BY <1>1, NeatOne
<1>3. Neat(Drain(p)) /\ Neat(For(<<"scan", "own">>, p)) /\ Neat(RevokeConfirmed(p))
  <2>0. {"settle", "own", "confirmLive", "reassert"} \cap (Fence \cup Makes) = {}
    BY DEF Fence, Makes
  <2>1. Neat(For(<<"scan", "settle", "own">>, p))
    <3>1. PICK ds : ds = <<"scan", "settle", "own">>
      OBVIOUS
    <3>2. ds \in Seq(Calls) /\ Len(ds) = 3 /\ ds[1] = "scan" /\ ds[2] = "settle" /\ ds[3] = "own"
      BY <1>1, <3>1
    <3>3. \A i \in 2 .. Len(ds) : ds[i] \in {"settle", "own"}
      BY <3>2
    <3>4. Neat(For(ds, p))
      BY <2>0, <3>2, <3>3, NeatFor
    <3> QED BY <3>1, <3>4
  <2>2. Neat(For(<<"scan", "own">>, p))
    <3>1. PICK ds : ds = <<"scan", "own">>
      OBVIOUS
    <3>2. ds \in Seq(Calls) /\ Len(ds) = 2 /\ ds[1] = "scan" /\ ds[2] = "own"
      BY <1>1, <3>1
    <3>3. \A i \in 2 .. Len(ds) : ds[i] = "own"
      BY <3>2
    <3>4. Neat(For(ds, p))
      BY <2>0, <3>2, <3>3, NeatFor
    <3> QED BY <3>1, <3>4
  <2>3. Neat(For(<<"scan", "confirmLive", "reassert", "own">>, p))
    <3>1. PICK ds : ds = <<"scan", "confirmLive", "reassert", "own">>
      OBVIOUS
    <3>2. /\ ds \in Seq(Calls) /\ Len(ds) = 4 /\ ds[1] = "scan"
          /\ ds[2] = "confirmLive" /\ ds[3] = "reassert" /\ ds[4] = "own"
      BY <1>1, <3>1
    <3>3. \A i \in 2 .. Len(ds) : ds[i] \in {"confirmLive", "reassert", "own"}
      BY <3>2
    <3>4. Neat(For(ds, p))
      BY <2>0, <3>2, <3>3, NeatFor
    <3> QED BY <3>1, <3>4
  <2> QED BY <2>1, <2>2, <2>3 DEF Drain, RevokeConfirmed
<1>4. Neat(RevokeSuperseded(p))
  BY <1>1, <1>2, <1>3, NeatConcat DEF RevokeSuperseded
<1>5. Neat(For(<<"regranted", "compare">>, p))
  <2>1. PICK t : t = For(<<"regranted", "compare">>, p)
    OBVIOUS
  <2>2. t \in Seq(Steps) /\ Len(t) = 2 /\ t[1].do = "regranted" /\ t[2].do = "compare"
    <3>1. PICK ds : ds = <<"regranted", "compare">>
      OBVIOUS
    <3>2. ds \in Seq(Calls) /\ Len(ds) = 2 /\ ds[1] = "regranted" /\ ds[2] = "compare"
      BY <1>1, <3>1
    <3>3. t = For(ds, p)
      BY <2>1, <3>1
    <3> QED BY <3>2, <3>3, ForSteps
  <2>3. \A i \in 1 .. Len(t) : t[i].do \in {"regranted", "compare"}
    BY <2>2
  <2> QED BY <2>1, <2>2, <2>3, AimedNone DEF Neat, Makes
<1> QED BY <1>2, <1>3, <1>4, <1>5, NeatConcat DEF WhenSet

(* The record has an event that is still to be handled.                    *)
Due(k) == \E i \in 1 .. Len(events) : events[i].k = k /\ (i = 1 => work[Consumer].k = None)

(* A record that was saved has one.                                        *)
LEMMA SaveDue ==
  ASSUME Shape, NEW k \in Contacts, NEW rec \in Records, Save(k, rec),
         work[Consumer].k = None => work'[Consumer].k = None
  PROVE  Due(k)'
<1>1. /\ Len(events') = Len(events) + 1 /\ Len(events) \in Nat
      /\ events'[Len(events) + 1] = [k |-> k, deleted |-> rec = Gone]
  BY SaveAdds DEF Shape
<1>2. PICK e : e = [k |-> k, deleted |-> rec = Gone]
  OBVIOUS
<1>3. e.k = k /\ events'[Len(events) + 1] = e
  BY <1>1, <1>2
<1>4. Len(events) + 1 = 1 => work[Consumer].k = None
  <2>1. ASSUME Len(events) = 0 PROVE events = <<>>
    BY <2>1 DEF Shape, Around
  <2> QED BY <1>1, <2>1 DEF Shape, Taken
<1>5. Len(events) + 1 \in 1 .. Len(events')
  BY <1>1
<1> QED BY <1>3, <1>4, <1>5 DEF Due

(* It is handled once the consumer takes it, or passes it over.            *)
LEMMA DueStays ==
  ASSUME Shape, [Next]_vars, NEW k, Due(k), ~PassOver
  PROVE  Due(k)' \/ (Take /\ Head(events).k = k)
<1>0. Around /\ Consumer \in Workers /\ work \in [Workers -> Jobs]
  BY DEF Shape, Working, Workers
<1>1. PICK i \in 1 .. Len(events) : events[i].k = k /\ (i = 1 => work[Consumer].k = None)
  BY DEF Due
<1>2. events \in Seq(Events) /\ events # <<>> /\ Len(events) \in Nat \ {0} /\ Head(events) = events[1]
  <2>1. events \in Seq(Events)
    BY <1>0 DEF Around
  <2>2. ASSUME events = <<>> PROVE FALSE
    <3>1. Len(events) = 0
      BY <2>2
    <3> QED BY <1>1, <3>1
  <2> QED BY <2>1, <2>2, TailFacts
<1>3. ASSUME NEW x \in Contacts, NEW rec \in Records, Save(x, rec),
             work[Consumer].k = None => work'[Consumer].k = None
      PROVE  Due(k)'
  <2>1. Len(events') = Len(events) + 1 /\ events'[i] = events[i]
    BY <1>0, <1>1, <1>3, SaveAdds
  <2>2. i \in 1 .. Len(events')
    BY <1>2, <2>1
  <2> QED BY <1>1, <1>3, <2>1, <2>2 DEF Due
<1>4. CASE events' = events /\ (work[Consumer].k = None => work'[Consumer].k = None)
  BY <1>1, <1>4 DEF Due
<1>5. ASSUME i # 1, events' = Tail(events), work'[Consumer].k = None PROVE Due(k)'
  <2>1. i - 1 \in 1 .. Len(events') /\ i - 1 + 1 = i
    BY <1>0, <1>1, <1>2, <1>5, TailEvents
  <2>2. events'[i - 1] = events[i]
    BY <1>0, <1>2, <1>5, <2>1, TailEvents
  <2> QED BY <1>1, <1>5, <2>1, <2>2 DEF Due
<1>6. CASE Take
  <2>1. CASE i = 1
    BY <1>1, <1>2, <1>6, <2>1
  <2>2. CASE i # 1
    BY <1>1, <1>6, <2>2 DEF Take, local, Due
  <2> QED BY <2>1, <2>2
<1>7. CASE End(Consumer) /\ ~Held(Consumer)
  <2>1. work[Consumer].k # None
    BY <1>7 DEF End
  <2>2. work'[Consumer].k = None /\ events' = Tail(events)
    BY <1>0, <1>7 DEF End, Idle
  <2> QED BY <1>1, <1>5, <2>1, <2>2
<1> QED BY <1>3, <1>4, <1>6, <1>7, EventSteps

(* What the hand-overs of a job may be about: the pairs that the sibling   *)
(* found justifies, if one was.                                            *)
Aim(job, V) == IF job.by = None THEN PairOrNone
               ELSE {p \in PairOrNone : V[job.by] = [status |-> "active", pair |-> p]}
Aims(w) == Aimed(work[w].todo, Aim(work[w], sf))

(* The pair to record is the record's, or was to be recorded before.       *)
Meant(w, p) == \/ Due(work[w].k)'
               \/ work[w].kc = [status |-> "active", pair |-> p]
               \/ \E j \in 1 .. Len(work[w].todo) : work[w].todo[j].do \in Makes /\ work[w].todo[j].pair = p

(* A call is done, and the calls it is replaced by are about its own pair  *)
(* or look for a sibling themselves.                                       *)
MildTurn(w, job, steps) ==
    /\ work[w].todo[1].do \notin Fence /\ sf' = sf
    /\ \A i \in 1 .. Len(steps) :
          /\ steps[i].do \notin Fence \cup Makes \cup {"own"}
          /\ steps[i].do \in Drops => work[w].todo[1].do \in Drops /\ steps[i].pair = work[w].todo[1].pair
    /\ \A p : /\ p \in Aim(work[w], sf) \/ Searches(work[w].todo, 1, p)
              /\ work[w].todo[1].do \in Drops => work[w].todo[1].pair = p
              => p \in Aim(job, sf)
FenceTurn(w, job, steps) ==
    /\ work[w].todo[1].do \in Fence
    /\ \E G : Aimed(steps, G) /\ G \subseteq Aim(job, sf')
    /\ \A i \in 1 .. Len(steps) : steps[i].do \in Makes => Meant(w, steps[i].pair)
Turns(w) == \E msgs : \E job \in Jobs, steps \in Seq(Steps) :
    /\ Go(w, job, msgs, steps) /\ job.todo = work[w].todo /\ work[w].todo # <<>>
    /\ MildTurn(w, job, steps) \/ FenceTurn(w, job, steps)

(* What such a call leaves of the program.                                 *)
LEMMA TurnHas ==
  ASSUME Shape, NEW w \in Workers, NEW job \in Jobs, NEW msgs, NEW steps \in Seq(Steps),
         Go(w, job, msgs, steps), job.todo = work[w].todo, work[w].todo # <<>>
  PROVE  /\ work[w].todo \in Seq(Steps)
         /\ work'[w].todo = steps \o Tail(work[w].todo) /\ work'[w].by = job.by
<1>1. Working /\ work \in [Workers -> Jobs] /\ job.todo # <<>>
  BY DEF Shape, Working
<1>2. work'[w].todo = steps \o Tail(work[w].todo) /\ work[w].todo \in Seq(Steps)
  BY <1>1, GoHas DEF Jobs
<1>3. PICK new : new = [job EXCEPT !.todo = steps \o Tail(@)]
  OBVIOUS
<1>4. new.by = job.by
  BY <1>3 DEF Jobs
<1>5. work' = [work EXCEPT ![w] = new]
  BY <1>3 DEF Go
<1> QED BY <1>1, <1>2, <1>4, <1>5

(* The hand-overs stay aimed.                                              *)
LEMMA TurnAims == ASSUME Shape, NEW w \in Workers, Turns(w), Aims(w) PROVE Aims(w)'
<1>1. PICK msgs : \E job \in Jobs, steps \in Seq(Steps) :
        /\ Go(w, job, msgs, steps) /\ job.todo = work[w].todo /\ work[w].todo # <<>>
        /\ MildTurn(w, job, steps) \/ FenceTurn(w, job, steps)
  BY DEF Turns
<1>2. PICK job \in Jobs, steps \in Seq(Steps) :
        /\ Go(w, job, msgs, steps) /\ job.todo = work[w].todo /\ work[w].todo # <<>>
        /\ MildTurn(w, job, steps) \/ FenceTurn(w, job, steps)
  BY <1>1
<1>3. /\ work[w].todo \in Seq(Steps)
      /\ work'[w].todo = steps \o Tail(work[w].todo) /\ work'[w].by = job.by
  BY <1>2, TurnHas
<1>4. PICK t, G, H, V : /\ t = work[w].todo /\ G = Aim(work[w], sf) /\ V = sf' /\ H = Aim(job, V)
  OBVIOUS
<1>5. t \in Seq(Steps) /\ t # <<>> /\ Aimed(t, G)
  BY <1>2, <1>3, <1>4 DEF Aims
<1>6. Aimed(steps \o Tail(t), H)
  <2>1. CASE MildTurn(w, job, steps)
    <3>1. \A i \in 1 .. Len(steps) :
            /\ steps[i].do \notin Fence \cup {"own"}
            /\ steps[i].do \in Drops => t[1].do \in Drops /\ steps[i].pair = t[1].pair
      BY <1>4, <2>1 DEF MildTurn
    <3>2. \A p : /\ p \in G \/ Searches(t, 1, p)
                 /\ t[1].do \in Drops => t[1].pair = p
                 => p \in H
      BY <1>4, <2>1 DEF MildTurn
    <3> QED BY <1>5, <3>1, <3>2, AimedMild
  <2>2. CASE FenceTurn(w, job, steps)
    <3>1. t[1].do \in Fence
      BY <1>4, <2>2 DEF FenceTurn
    <3>2. PICK F : Aimed(steps, F) /\ F \subseteq H
      BY <1>4, <2>2 DEF FenceTurn
    <3>3. /\ Tail(t) \in Seq(Steps) /\ Len(Tail(t)) = Len(t) - 1 /\ 1 \in 1 .. Len(t)
          /\ \A i \in 1 .. Len(Tail(t)) : Tail(t)[i] = t[1 + i]
      <4>1. Len(t) \in Nat /\ \A i \in 1 .. Len(Tail(t)) : Tail(t)[i] = t[i + 1] /\ i + 1 = 1 + i
        BY <1>5, TailFacts
      <4> QED BY <1>5, <4>1, TailFacts
    <3>4. Aimed(Tail(t), {})
      BY <1>5, <3>1, <3>3, AimedAfter
    <3>5. Aimed(steps \o Tail(t), F)
      BY <3>2, <3>3, <3>4, AimedConcat
    <3> QED BY <3>2, <3>5, AimedGrows
  <2> QED BY <1>2, <2>1, <2>2
<1>7. Aim(work'[w], V) = H
  BY <1>3, <1>4 DEF Aim
<1> QED BY <1>3, <1>4, <1>6, <1>7 DEF Aims

(* Only what was meant is recorded.                                        *)
LEMMA TurnMakes ==
  ASSUME Shape, NEW w \in Workers, Turns(w), NEW i \in 1 .. Len(work'[w].todo),
         work'[w].todo[i].do \in Makes
  PROVE  Meant(w, work'[w].todo[i].pair)
<1>1. PICK msgs : \E job \in Jobs, steps \in Seq(Steps) :
        /\ Go(w, job, msgs, steps) /\ job.todo = work[w].todo /\ work[w].todo # <<>>
        /\ MildTurn(w, job, steps) \/ FenceTurn(w, job, steps)
  BY DEF Turns
<1>2. PICK job \in Jobs, steps \in Seq(Steps) :
        /\ Go(w, job, msgs, steps) /\ job.todo = work[w].todo /\ work[w].todo # <<>>
        /\ MildTurn(w, job, steps) \/ FenceTurn(w, job, steps)
  BY <1>1
<1>3. PICK t, u : t = work[w].todo /\ u = work'[w].todo
  OBVIOUS
<1>4. t \in Seq(Steps) /\ t # <<>> /\ u = steps \o Tail(t)
  BY <1>2, <1>3, TurnHas
<1>5. \/ i \in 1 .. Len(steps) /\ u[i] = steps[i]
      \/ \E j \in 1 .. Len(t) : u[i] = t[j]
  <2>1. \/ i \in 1 .. Len(steps) /\ u[i] = steps[i]
        \/ i - Len(steps) + 1 \in 2 .. Len(t) /\ u[i] = t[i - Len(steps) + 1]
    BY <1>3, <1>4, Moved
  <2>2. \A j \in 2 .. Len(t) : j \in 1 .. Len(t)
    BY <1>4
  <2> QED BY <2>1, <2>2
<1>6. ASSUME i \in 1 .. Len(steps), u[i] = steps[i] PROVE Meant(w, u[i].pair)
  BY <1>2, <1>3, <1>6 DEF MildTurn, FenceTurn
<1>7. ASSUME NEW j \in 1 .. Len(t), u[i] = t[j] PROVE Meant(w, u[i].pair)
  BY <1>3, <1>7 DEF Meant
<1> QED BY <1>3, <1>5, <1>6, <1>7

(* Calls about the pair that bring in no others.                           *)
NearSteps(p) == {s \in Steps : /\ s.do \notin Fence \cup Makes \cup {"own"}
                               /\ s.do \in Drops => s.pair = p}

(* The programs that a call about a pair is replaced by.                   *)
LEMMA NearPrograms ==
  ASSUME NEW p \in PairOrNone
  PROVE  /\ <<>> \in Seq(NearSteps(p)) /\ Only("flush") \in Seq(NearSteps(p))
         /\ Only("fail") \in Seq(NearSteps(p)) /\ For(<<"scanLive">>, p) \in Seq(NearSteps(p))
         /\ Only("flush") \o For(<<"verify">>, p) \in Seq(NearSteps(p))
         /\ Only("flush") \o Only("fail") \in Seq(NearSteps(p))
         /\ <<>> \o For(<<"recheck">>, p) \in Seq(NearSteps(p))
         /\ Only("flush") \o For(<<"recheck">>, p) \in Seq(NearSteps(p))
<1>1. ASSUME NEW d \in {"flush", "verify", "fail", "scanLive", "recheck"}, NEW x \in PairOrNone,
             d \in {"flush", "fail"} \/ x = p
      PROVE  Step(d, x) \in NearSteps(p)
  <2>1. Step(d, x).do = d /\ Step(d, x).pair = x
    BY DEF Step
  <2>2. Step(d, x) \in Steps
    BY StepTypes DEF Calls
  <2>3. d \notin Fence \cup Makes \cup {"own"}
    BY DEF Fence, Makes
  <2>4. d \in Drops => x = p
    BY <1>1 DEF Drops
  <2> QED BY <2>1, <2>2, <2>3, <2>4 DEF NearSteps
<1>2. PICK S : S = NearSteps(p)
  OBVIOUS
<1>3. /\ <<>> \in Seq(S) /\ Only("flush") \in Seq(S) /\ Only("fail") \in Seq(S)
      /\ For(<<"scanLive">>, p) \in Seq(S) /\ For(<<"verify">>, p) \in Seq(S)
      /\ For(<<"recheck">>, p) \in Seq(S)
  BY <1>1, <1>2, OneOf DEF PairOrNone
<1>4. /\ Only("flush") \o For(<<"verify">>, p) \in Seq(S)
      /\ Only("flush") \o Only("fail") \in Seq(S)
      /\ Only("flush") \o For(<<"recheck">>, p) \in Seq(S)
      /\ <<>> \o For(<<"recheck">>, p) \in Seq(S)
  BY <1>3, Concats
<1> QED BY <1>2, <1>3, <1>4

(* A call about a pair is replaced by such.                                *)
LEMMA NearTurns ==
  ASSUME Shape, NEW w \in Workers, NEW d \in Calls \ Fence, At(w, d), sf' = sf,
         NEW msgs, NEW steps, NEW p, p = Pair(w), steps \in Seq(NearSteps(p)),
         NEW job \in Jobs, job.todo = work[w].todo, Go(w, job, msgs, steps),
         d \in Drops \/ \A i \in 1 .. Len(steps) : steps[i].do \notin Drops,
         \/ job.by = work[w].by /\ d \notin {"scan", "scanLive"}
         \/ d \in Drops /\ p \in Aim(job, sf)
  PROVE  Turns(w)
<1>1. work[w].todo # <<>> /\ work[w].todo[1].do = d /\ work[w].todo[1].pair = p
  BY AtFacts, TailFacts DEF Shape, Pair, Jobs
<1>2. steps \in Seq(Steps) /\ \A i \in 1 .. Len(steps) : steps[i] \in NearSteps(p)
  BY DEF NearSteps
<1>3. \A i \in 1 .. Len(steps) :
          /\ steps[i].do \notin Fence \cup Makes \cup {"own"}
          /\ steps[i].do \in Drops => d \in Drops /\ steps[i].pair = p
  BY <1>2 DEF NearSteps
<1>4. ASSUME NEW q, q \in Aim(work[w], sf) \/ Searches(work[w].todo, 1, q), d \in Drops => p = q
      PROVE  q \in Aim(job, sf)
  <2>1. CASE job.by = work[w].by /\ d \notin {"scan", "scanLive"}
    BY <1>1, <1>4, <2>1 DEF Aim, Searches
  <2>2. CASE d \in Drops /\ p \in Aim(job, sf)
    BY <1>4, <2>2
  <2> QED BY <2>1, <2>2
<1>5. MildTurn(w, job, steps)
  BY <1>1, <1>3, <1>4 DEF MildTurn
<1> QED BY <1>1, <1>2, <1>5 DEF Turns

(* ... of the same job.                                                    *)
LEMMA SameTurns ==
  ASSUME Shape, NEW w \in Workers, NEW d \in Calls \ Fence, At(w, d), sf' = sf,
         NEW msgs, NEW steps, NEW p, p = Pair(w), steps \in Seq(NearSteps(p)), Go(w, work[w], msgs, steps),
         d \in Drops \/ \A i \in 1 .. Len(steps) : steps[i].do \notin Drops,
         d \notin {"scan", "scanLive"}
  PROVE  Turns(w)
<1>1. work[w] \in Jobs
  BY DEF Shape, Working
<1> QED BY <1>1, NearTurns

(* A sibling was found that justifies the pair.                            *)
LEMMA FoundTurns ==
  ASSUME Shape, NEW w \in Workers, NEW d \in Drops, At(w, d), sf' = sf,
         NEW s \in Justifiers(sf, Pair(w), work[w].k), Go(w, [work[w] EXCEPT !.by = s], <<>>, <<>>)
  PROVE  Turns(w)
<1>1. /\ work[w] \in Jobs /\ Pair(w) \in PairOrNone /\ s \in Contacts /\ s # None
      /\ d \in Calls \ Fence
  BY AtFacts, GrantAssumption DEF Shape, Justifiers, Drops, Calls, Fence
<1>2. PICK job, p : job = [work[w] EXCEPT !.by = s] /\ p = Pair(w)
  OBVIOUS
<1>3. job \in Jobs /\ job.todo = work[w].todo /\ job.by = s
  BY <1>1, <1>2, JobSets DEF Jobs
<1>4. p \in Aim(job, sf)
  BY <1>1, <1>2, <1>3 DEF Aim, Justifiers
<1>5. <<>> \in Seq(NearSteps(p)) /\ Go(w, job, <<>>, <<>>)
  BY <1>1, <1>2, NearPrograms
<1> QED BY <1>1, <1>2, <1>3, <1>4, <1>5, NearTurns

(* A scan.                                                                 *)
LEMMA ScanTurns == ASSUME Shape, NEW w \in Workers, Scan(w), Sees(w) PROVE Turns(w)
<1>1. PICK d \in {"scan", "scanLive", "scanQuick"} : /\ At(w, d)
        /\ \E view \in Scanned(w, d) :
             LET by == Justifiers(view, Pair(w), work[w].k)
                 confirmed == IF d = "scanQuick" THEN <<>> ELSE Only("flush")
             IN \/ \E s \in by : Go(w, [work[w] EXCEPT !.by = s], <<>>, <<>>)
                \/ /\ by = {}
                   /\ Go(w, [work[w] EXCEPT !.by = None], <<Remove(Pair(w))>>,
                         confirmed \o For(<<"recheck">>, Pair(w)))
  BY DEF Scan
<1>2. /\ work[w] \in Jobs /\ Pair(w) \in PairOrNone /\ sf' = sf /\ d \in Drops
      /\ d \in Calls \ Fence
  BY <1>1, AtFacts DEF Shape, Scan, local, Drops, Calls, Fence
<1>3. PICK view \in Scanned(w, d) :
             LET by == Justifiers(view, Pair(w), work[w].k)
                 confirmed == IF d = "scanQuick" THEN <<>> ELSE Only("flush")
             IN \/ \E s \in by : Go(w, [work[w] EXCEPT !.by = s], <<>>, <<>>)
                \/ /\ by = {}
                   /\ Go(w, [work[w] EXCEPT !.by = None], <<Remove(Pair(w))>>,
                         confirmed \o For(<<"recheck">>, Pair(w)))
  BY <1>1
<1>4. Justifiers(view, Pair(w), work[w].k) = Justifiers(sf, Pair(w), work[w].k)
  BY <1>3, SeesSiblings
<1>5. CASE \E s \in Justifiers(sf, Pair(w), work[w].k) : Go(w, [work[w] EXCEPT !.by = s], <<>>, <<>>)
  BY <1>1, <1>2, <1>5, FoundTurns
<1>6. CASE Go(w, [work[w] EXCEPT !.by = None], <<Remove(Pair(w))>>,
              (IF d = "scanQuick" THEN <<>> ELSE Only("flush")) \o For(<<"recheck">>, Pair(w)))
  <2>1. PICK job, p, steps : /\ job = [work[w] EXCEPT !.by = None] /\ p = Pair(w)
          /\ steps = (IF d = "scanQuick" THEN <<>> ELSE Only("flush")) \o For(<<"recheck">>, p)
    OBVIOUS
  <2>2. job \in Jobs /\ job.todo = work[w].todo /\ job.by = None
    BY <1>2, <2>1, JobSets DEF Jobs
  <2>3. p \in Aim(job, sf)
    BY <1>2, <2>1, <2>2 DEF Aim
  <2>4. steps \in Seq(NearSteps(p))
    BY <1>2, <2>1, NearPrograms
  <2>5. Go(w, job, <<Remove(p)>>, steps)
    BY <1>6, <2>1
  <2> QED BY <1>1, <1>2, <2>1, <2>2, <2>3, <2>4, <2>5, NearTurns
<1> QED BY <1>3, <1>4, <1>5, <1>6

(* The other calls of a revoke.                                            *)
LEMMA RevokeTurns ==
  ASSUME Shape, NEW w \in Workers, Sees(w),
         Scan(w) \/ Flush(w) \/ Recheck(w) \/ Verify(w) \/ ConfirmLive(w) \/ Settle(w) \/ Reassert(w)
         \/ Regranted(w) \/ Own(w)
  PROVE  Turns(w)
<1>1. PICK p : p = Pair(w)
  OBVIOUS
<1>2. ASSUME NEW d \in Calls \ Fence, At(w, d), sf' = sf, d \notin {"scan", "scanLive"},
             Skip(w) \/ Go(w, work[w], <<Put(p)>>, Only("flush")) \/ Go(w, work[w], <<>>, Only("fail"))
      PROVE  Turns(w)
  <2>1. p \in PairOrNone
    BY <1>1, <1>2, AtFacts DEF Shape
  <2>2. /\ \A i \in 1 .. Len(<<>>) : <<>>[i].do \notin Drops
        /\ \A c \in {"flush", "fail"} : \A i \in 1 .. Len(Only(c)) : Only(c)[i].do \notin Drops
    <3>1. \A s : Len(<<s>>) = 1 /\ <<s>>[1] = s
      OBVIOUS
    <3>2. ASSUME NEW c \in {"flush", "fail"}, NEW i \in 1 .. Len(Only(c)) PROVE Only(c)[i].do \notin Drops
      <4>1. PICK s : s = Step(c, None)
        OBVIOUS
      <4>2. Only(c) = <<s>> /\ s.do = c
        BY <4>1, OnlyIs
      <4>3. i = 1
        BY <3>1, <3>2, <4>2
      <4> QED BY <3>1, <4>2, <4>3 DEF Drops
    <3> QED BY <3>2
  <2>3. ASSUME NEW msgs, NEW steps \in {<<>>, Only("flush"), Only("fail")}, Go(w, work[w], msgs, steps)
        PROVE  Turns(w)
    <3>1. steps \in Seq(NearSteps(p))
      BY <2>1, NearPrograms
    <3>2. \A i \in 1 .. Len(steps) : steps[i].do \notin Drops
      BY <2>2
    <3> QED BY <1>1, <1>2, <2>3, <3>1, <3>2, SameTurns
  <2> QED BY <1>2, <2>3 DEF Skip
<1>3. ASSUME NEW d \in Drops \ {"scan", "scanLive"}, At(w, d), sf' = sf, NEW msgs, NEW steps,
             steps \in {For(<<"scanLive">>, p), Only("flush") \o For(<<"verify">>, p),
                        Only("flush") \o Only("fail"), <<>>},
             Go(w, work[w], msgs, steps)
      PROVE  Turns(w)
  <2>1. p \in PairOrNone
    BY <1>1, <1>3, AtFacts DEF Shape
  <2>2. steps \in Seq(NearSteps(p))
    BY <1>3, <2>1, NearPrograms
  <2>3. d \in Calls \ Fence
    BY DEF Drops, Calls, Fence
  <2> QED BY <1>1, <1>3, <2>2, <2>3, SameTurns
<1>4. CASE Scan(w)
  BY <1>4, ScanTurns
<1>5. CASE Flush(w)
  BY <1>2, <1>5 DEF Flush, local, Calls, Fence
<1>6. CASE Recheck(w)
  BY <1>1, <1>2, <1>3, <1>6 DEF Recheck, local, Calls, Fence, Drops
<1>7. CASE Verify(w)
  <2>1. \/ \E s \in Justifiers(sf, Pair(w), work[w].k) : Go(w, [work[w] EXCEPT !.by = s], <<>>, <<>>)
        \/ Go(w, work[w], <<Remove(p)>>, Only("flush") \o Only("fail"))
    BY <1>1, <1>7 DEF Verify
  <2>2. At(w, "verify") /\ sf' = sf /\ "verify" \in Drops \ {"scan", "scanLive"}
    BY <1>7 DEF Verify, local, Drops
  <2> QED BY <1>3, <2>1, <2>2, FoundTurns
<1>8. CASE ConfirmLive(w)
  <2>1. /\ At(w, "confirmLive") /\ sf' = sf /\ "confirmLive" \in Drops \ {"scan", "scanLive"}
        /\ Go(w, work[w], <<>>, IF work[w].by = None THEN <<>> ELSE For(<<"scanLive">>, p))
    BY <1>1, <1>8 DEF ConfirmLive, local, Drops
  <2> QED BY <1>3, <2>1
<1>9. CASE Settle(w)
  <2>1. /\ At(w, "settle") /\ sf' = sf /\ "settle" \in Drops \ {"scan", "scanLive"}
        /\ "settle" \in Calls \ Fence
    BY <1>9 DEF Settle, local, Drops, Calls, Fence
  <2>2. \/ Skip(w) \/ Go(w, work[w], <<>>, Only("fail"))
        \/ Go(w, work[w], <<Put(p)>>, Only("flush") \o For(<<"verify">>, p))
    BY <1>1, <1>9 DEF Settle
  <2> QED BY <1>2, <1>3, <2>1, <2>2
<1>10. CASE Reassert(w) \/ Regranted(w)
  BY <1>1, <1>2, <1>10 DEF Reassert, Regranted, local, Calls, Fence
<1>11. CASE Own(w)
  BY <1>2, <1>11 DEF Own, Calls, Fence
<1> QED BY <1>4, <1>5, <1>6, <1>7, <1>8, <1>9, <1>10, <1>11

(* A call that brings in others is replaced by a neat program.             *)
LEMMA NeatTurns ==
  ASSUME Shape, NEW w \in Workers, NEW d \in Fence, At(w, d), NEW msgs, NEW steps, Neat(steps),
         \/ Go(w, work[w], msgs, steps)
         \/ \E e \in Entries : Go(w, [work[w] EXCEPT !.entry = e], msgs, steps)
         \/ \E v \in Views : Go(w, [work[w] EXCEPT !.view = v], msgs, steps)
         \/ \E r \in Records : Go(w, [work[w] EXCEPT !.kc = r], msgs, steps)
  PROVE  Turns(w)
<1>1. work[w] \in Jobs /\ work[w].todo # <<>> /\ work[w].todo[1].do = d
  BY AtFacts, TailFacts DEF Shape, Jobs
<1>2. PICK job \in Jobs : job.todo = work[w].todo /\ Go(w, job, msgs, steps)
  BY <1>1, JobSets
<1>3. steps \in Seq(Steps) /\ Aimed(steps, {}) /\ \A i \in 1 .. Len(steps) : steps[i].do \notin Makes
  BY DEF Neat
<1>4. FenceTurn(w, job, steps)
  BY <1>1, <1>3 DEF FenceTurn
<1> QED BY <1>1, <1>2, <1>3, <1>4 DEF Turns

(* ... or by nothing.                                                      *)
LEMMA SkipTurns ==
  ASSUME Shape, NEW w \in Workers, NEW d \in Fence, At(w, d), Skip(w)
  PROVE  Turns(w)
<1>1. Neat(<<>>)
  BY NeatPrograms DEF PairOrNone
<1> QED BY <1>1, NeatTurns DEF Skip

(* What a program records is the record's pair, or was to be recorded.     *)
LEMMA MakeTurns ==
  ASSUME Shape, NEW w \in Workers, NEW d \in Fence, At(w, d), NEW msgs, NEW steps \in Seq(Steps),
         Aimed(steps, {}),
         \A i \in 1 .. Len(steps) : steps[i].do \in Makes => Meant(w, steps[i].pair),
         \/ Go(w, work[w], msgs, steps)
         \/ \E e \in Entries : Go(w, [work[w] EXCEPT !.entry = e], msgs, steps)
  PROVE  Turns(w)
<1>1. work[w] \in Jobs /\ work[w].todo # <<>> /\ work[w].todo[1].do = d
  BY AtFacts, TailFacts DEF Shape, Jobs
<1>2. PICK job \in Jobs : job.todo = work[w].todo /\ Go(w, job, msgs, steps)
  BY <1>1, JobSets
<1>4. FenceTurn(w, job, steps)
  BY <1>1 DEF FenceTurn
<1> QED BY <1>1, <1>2, <1>4 DEF Turns

(* A program of one call that records.                                     *)
LEMMA MakeOne ==
  ASSUME NEW d \in {"record", "write"}, NEW p \in PairOrNone
  PROVE  /\ For(<<d>>, p) \in Seq(Steps) /\ Aimed(For(<<d>>, p), {})
         /\ \A i \in 1 .. Len(For(<<d>>, p)) : For(<<d>>, p)[i].pair = p
<1>1. PICK s : s = Step(d, p)
  OBVIOUS
<1>2. s \in Steps /\ s.do = d /\ s.pair = p /\ For(<<d>>, p) = <<s>>
  BY <1>1, OnlyIs DEF Step, Steps, PairOrNone, Calls
<1>3. <<s>> \in Seq(Steps) /\ Len(<<s>>) = 1 /\ <<s>>[1] = s
  BY <1>2
<1>4. \A i \in 1 .. Len(<<s>>) : <<s>>[i] = s
  BY <1>3
<1>5. Aimed(<<s>>, {})
  BY <1>2, <1>4, AimedNone
<1> QED BY <1>2, <1>3, <1>4, <1>5

(* A neat program and calls about one pair behind it.                      *)
LEMMA MakeBehind ==
  ASSUME NEW a, Neat(a), NEW b \in Seq(Steps), Aimed(b, {}), NEW p,
         \A i \in 1 .. Len(b) : b[i].pair = p
  PROVE  /\ a \o b \in Seq(Steps) /\ Aimed(a \o b, {})
         /\ \A i \in 1 .. Len(a \o b) : (a \o b)[i].do \in Makes => (a \o b)[i].pair = p
<1>1. a \in Seq(Steps) /\ Aimed(a, {}) /\ \A i \in 1 .. Len(a) : a[i].do \notin Makes
  BY DEF Neat
<1>2. PICK S, G, c : S = Steps /\ G = {} /\ c = a \o b
  OBVIOUS
<1>3. a \o b \in Seq(Steps) /\ Aimed(a \o b, G)
  BY <1>1, <1>2, AimedConcat
<1>4. \A i \in 1 .. Len(c) : \/ i \in 1 .. Len(a) /\ c[i] = a[i]
                             \/ i - Len(a) \in 1 .. Len(b) /\ c[i] = b[i - Len(a)]
  BY <1>1, <1>2, ConcatFacts
<1>5. \A i \in 1 .. Len(c) : c[i].do \in Makes => c[i].pair = p
  BY <1>1, <1>4
<1> QED BY <1>2, <1>3, <1>5

(* The calls of a grant.                                                   *)
LEMMA GrantTurns == ASSUME Shape, NEW w \in Workers, Grant(w) PROVE Turns(w)
<1>0. Working /\ Around
  BY DEF Shape
<1>1. CASE Snapshot(w)
  <2>1. PICK job, p : job = [work[w] EXCEPT !.view = sf] /\ p = Pair(w)
    OBVIOUS
  <2>2. work[w] \in Jobs /\ work[w].todo # <<>> /\ sf \in Views /\ sf' = sf /\ p \in PairOrNone
    BY <1>0, <1>1, <2>1, AtFacts DEF Snapshot, Around, local
  <2>3. job \in Jobs /\ job.todo = work[w].todo /\ job.by = work[w].by
    BY <2>1, <2>2 DEF Jobs
  <2>4. At(w, "snapshot") /\ Go(w, job, <<>>, <<>>) /\ <<>> \in Seq(NearSteps(p))
    BY <1>1, <2>1, <2>2, NearPrograms DEF Snapshot
  <2>5. "snapshot" \in Calls \ Fence /\ \A i \in 1 .. Len(<<>>) : <<>>[i].do \notin Drops
    BY DEF Calls, Fence
  <2> QED BY <2>1, <2>2, <2>3, <2>4, <2>5, NearTurns
<1>2. CASE Publish(w)
  <2>1. At(w, "publish") /\ work[w].kc.pair \in PairOrNone /\ work[w].kc \in Records /\ "publish" \in Fence
    BY <1>0, <1>2, AtFacts, PairsOf DEF Publish, Fence
  <2>2. PICK p : p = work[w].kc.pair
    OBVIOUS
  <2>3. CASE Go(w, work[w], <<>>, Only("inactive"))
    <3>1. Neat(Only("inactive"))
      BY <2>1, NeatPrograms DEF Calls, Makes
    <3> QED BY <2>1, <2>3, <3>1, NeatTurns
  <2>4. CASE Skip(w)
    BY <2>1, <2>4, SkipTurns
  <2>5. CASE work[w].kc.status # "inactive" /\ p # None /\ Go(w, work[w], <<Put(p)>>, For(<<"record">>, p))
    <3>1. work[w].kc = [status |-> "active", pair |-> p]
      BY <2>1, <2>2, <2>5 DEF Records, Gone
    <3>2. Meant(w, p)
      BY <3>1 DEF Meant
    <3>3. PICK t : t = For(<<"record">>, p)
      OBVIOUS
    <3>4. t \in Seq(Steps) /\ Aimed(t, {}) /\ \A i \in 1 .. Len(t) : t[i].pair = p
      BY <2>1, <2>2, <3>3, MakeOne
    <3>5. \A i \in 1 .. Len(t) : t[i].do \in Makes => Meant(w, t[i].pair)
      BY <3>2, <3>4
    <3>6. Go(w, work[w], <<Put(p)>>, t)
      BY <2>5, <3>3
    <3> QED BY <2>1, <3>4, <3>5, <3>6, MakeTurns
  <2> QED BY <1>2, <2>2, <2>3, <2>4, <2>5 DEF Publish
<1>3. CASE Inactive(w)
  <2>1. At(w, "inactive") /\ work[w].kc.pair \in PairOrNone /\ Entry(w) \in Entries /\ "inactive" \in Fence
    BY <1>0, <1>3, AtFacts, PairsOf, EntryTyped DEF Inactive, Fence
  <2>2. PICK p, e, own : p = work[w].kc.pair /\ e = Entry(w) /\ own = For(<<"scan", "own">>, p)
    OBVIOUS
  <2>3. PICK a, b : /\ a = WhenSet(e.marker, RevokeSuperseded(e.marker))
                    /\ b = IF p # None /\ e.pair = None THEN own
                           ELSE (IF p # None /\ e.pair # p THEN own ELSE <<>>) \o Only("expire")
    OBVIOUS
  <2>4. Neat(own) /\ Neat(Only("expire")) /\ e.marker \in PairOrNone /\ Neat(<<>>)
    BY <2>1, <2>2, NeatPrograms, PairsOf DEF Calls, Makes
  <2>5. Neat(a)
    BY <2>3, <2>4, NeatPrograms
  <2>6. Neat(b)
    BY <2>3, <2>4, NeatConcat
  <2>7. Neat(a \o b)
    BY <2>5, <2>6, NeatConcat
  <2>8. Go(w, work[w], <<>>, a \o b)
    BY <1>3, <2>2, <2>3 DEF Inactive
  <2> QED BY <2>1, <2>7, <2>8, NeatTurns
<1>4. CASE Record(w)
  <2>1. At(w, "record") /\ Pair(w) \in PairOrNone /\ Entry(w) \in Entries /\ "record" \in Fence
    BY <1>0, <1>4, AtFacts, EntryTyped DEF Record, Fence
  <2>2. PICK p, e : p = Pair(w) /\ e = Entry(w)
    OBVIOUS
  <2>3. e.marker \in PairOrNone /\ e.pair \in PairOrNone
    BY <2>1, <2>2, PairsOf
  <2>4. PICK a : a = Drain(e.marker) \o For(<<"write">>, p)
    OBVIOUS
  <2>5. /\ a \in Seq(Steps) /\ Aimed(a, {})
        /\ \A i \in 1 .. Len(a) : a[i].do \in Makes => a[i].pair = p
    <3>1. Neat(Drain(e.marker))
      BY <2>3, NeatPrograms
    <3>2. PICK b, n : b = For(<<"write">>, p) /\ n = Drain(e.marker)
      OBVIOUS
    <3>3. b \in Seq(Steps) /\ Aimed(b, {}) /\ \A i \in 1 .. Len(b) : b[i].pair = p
      BY <2>1, <2>2, <3>2, MakeOne
    <3>4. a = n \o b
      BY <2>4, <3>2
    <3>5. Neat(n)
      BY <3>1, <3>2
    <3>6. /\ n \o b \in Seq(Steps) /\ Aimed(n \o b, {})
          /\ \A i \in 1 .. Len(n \o b) : (n \o b)[i].do \in Makes => (n \o b)[i].pair = p
      BY <3>3, <3>5, MakeBehind
    <3> QED BY <3>4, <3>6
  <2>6. Meant(w, p)
    <3>1. 1 \in 1 .. Len(work[w].todo) /\ work[w].todo[1].do = "record" /\ work[w].todo[1].pair = p
      BY <1>0, <2>1, <2>2, AtFacts, TailFacts DEF Jobs, Pair
    <3> QED BY <3>1 DEF Meant, Makes
  <2>7. Neat(RevokeSuperseded(e.pair))
    BY <2>3, NeatPrograms
  <2>8. \/ Skip(w)
        \/ Go(w, work[w], <<>>, RevokeSuperseded(e.pair))
        \/ Go(w, [work[w] EXCEPT !.entry = e], <<>>, a)
    BY <1>4, <2>2, <2>4 DEF Record
  <2>9. \A i \in 1 .. Len(a) : a[i].do \in Makes => Meant(w, a[i].pair)
    BY <2>5, <2>6
  <2>10. CASE Go(w, [work[w] EXCEPT !.entry = e], <<>>, a)
    BY <2>1, <2>2, <2>5, <2>9, <2>10, MakeTurns
  <2> QED BY <2>1, <2>7, <2>8, <2>10, NeatTurns, SkipTurns
<1>5. CASE Write(w)
  <2>1. At(w, "write") /\ work[w].entry \in Entries /\ Pair(w) \in PairOrNone /\ "write" \in Fence
    BY <1>0, <1>5, AtFacts DEF Write, Fence
  <2>2. PICK p, t : p = Pair(w) /\ t = For(<<"record">>, p)
    OBVIOUS
  <2>3. Neat(RevokeSuperseded(work[w].entry.pair))
    BY <2>1, PairsOf, NeatPrograms
  <2>4. t \in Seq(Steps) /\ Aimed(t, {}) /\ \A i \in 1 .. Len(t) : t[i].pair = p
    BY <2>1, <2>2, MakeOne
  <2>5. Meant(w, p)
    <3>1. 1 \in 1 .. Len(work[w].todo) /\ work[w].todo[1].do = "write" /\ work[w].todo[1].pair = p
      BY <1>0, <2>1, <2>2, AtFacts, TailFacts DEF Jobs, Pair
    <3> QED BY <3>1 DEF Meant, Makes
  <2>6. \/ Go(w, work[w], <<>>, RevokeSuperseded(work[w].entry.pair))
        \/ Go(w, work[w], <<>>, t)
    BY <1>5, <2>2 DEF Write
  <2>7. \A i \in 1 .. Len(t) : t[i].do \in Makes => Meant(w, t[i].pair)
    BY <2>4, <2>5
  <2>8. CASE Go(w, work[w], <<>>, t)
    BY <2>1, <2>4, <2>7, <2>8, MakeTurns
  <2> QED BY <2>1, <2>3, <2>6, <2>8, NeatTurns
<1> QED BY <1>1, <1>2, <1>3, <1>4, <1>5 DEF Grant

(* A call that saves leaves an event of its record.                        *)
LEMMA CallSaves ==
  ASSUME Shape, NEW w \in Workers, Run(w), ~End(w), NEW rec \in Records, Save(work[w].k, rec)
  PROVE  Due(work[w].k)'
<1>1. PICK k : k = work[w].k
  OBVIOUS
<1>2. work[w] # Idle /\ work[w].k # None /\ \A v \in Workers \ {w} : work'[v] = work[v]
  BY RunOthers
<1>3. k \in Contacts
  BY <1>1, <1>2 DEF Shape, Working, Jobs
<1>4. work[Consumer].k = None => work'[Consumer].k = None
  BY <1>2 DEF Workers
<1>5. Due(k)'
  BY <1>1, <1>3, <1>4, SaveDue
<1>6. work'[w].k = k
  BY <1>1, RunMoves, MovesHas, FailsHas
<1> QED BY <1>5, <1>6

(* The calls of revokeKeyContactGrantIfNoLongerLive.                       *)
LEMMA ExpireTurns ==
  ASSUME Shape, NEW w \in Workers, Sees(w),
         Expire(w) \/ Justify(w) \/ Claim(w) \/ Claimed(w) \/ Compare(w) \/ Clear(w)
  PROVE  Turns(w)
<1>0. Working /\ Around
  BY DEF Shape
<1>1. /\ Neat(<<>>) /\ \A d \in {"flush", "fail", "clear", "claim", "claimed"} : Neat(Only(d))
      /\ \A p \in PairOrNone :
           /\ Neat(For(<<"justify">>, p)) /\ Neat(For(<<"justifyLive">>, p))
           /\ Neat(Only("flush") \o For(<<"regranted", "compare">>, p))
  <2>1. None \in PairOrNone
    BY DEF PairOrNone
  <2>2. {"flush", "fail", "clear", "claim", "claimed", "justify", "justifyLive"}
          \subseteq Calls \ (Makes \cup {"own"})
    BY DEF Calls, Makes
  <2>3. Neat(<<>>) /\ \A d \in {"flush", "fail", "clear", "claim", "claimed"} : Neat(Only(d))
    BY <2>1, <2>2, NeatPrograms
  <2>4. ASSUME NEW p \in PairOrNone
        PROVE  /\ Neat(For(<<"justify">>, p)) /\ Neat(For(<<"justifyLive">>, p))
               /\ Neat(For(<<"regranted", "compare">>, p))
    BY <2>2, <2>4, NeatPrograms
  <2> QED BY <2>3, <2>4, NeatConcat
<1>2. CASE Expire(w)
  <2>1. PICK d \in {"expire", "expireLive"} : /\ At(w, d)
          /\ Go(w, [work[w] EXCEPT !.entry = Entry(w)], <<>>,
                IF Entry(w).pair = None THEN <<>>
                ELSE For(<<IF d = "expire" THEN "justify" ELSE "justifyLive">>, Entry(w).pair))
    BY <1>2 DEF Expire
  <2>2. Entry(w) \in Entries /\ Entry(w).pair \in PairOrNone /\ d \in Fence
    BY <1>0, <2>1, AtFacts, EntryTyped, PairsOf DEF Fence
  <2>3. PICK a : a = IF Entry(w).pair = None THEN <<>>
                     ELSE For(<<IF d = "expire" THEN "justify" ELSE "justifyLive">>, Entry(w).pair)
    OBVIOUS
  <2>4. Neat(a)
    <3>1. CASE d = "expire"
      BY <1>1, <2>2, <2>3, <3>1
    <3>2. CASE d # "expire"
      BY <1>1, <2>2, <2>3, <3>2
    <3> QED BY <3>1, <3>2
  <2>5. Go(w, [work[w] EXCEPT !.entry = Entry(w)], <<>>, a)
    BY <2>1, <2>3
  <2> QED BY <2>1, <2>2, <2>4, <2>5, NeatTurns
<1>3. CASE Justify(w)
  <2>1. PICK d \in {"justify", "justifyLive"} : /\ At(w, d)
          /\ \E view \in Scanned(w, d) :
               LET by == Justifiers(view, Pair(w), work[w].k)
               IN \/ \E s \in by : Go(w, [work[w] EXCEPT !.by = s], <<>>,
                                      For(<<"own">>, Pair(w)) \o Only("clear"))
                  \/ by = {} /\ Go(w, work[w], <<>>, Only("claim"))
    BY <1>3 DEF Justify
  <2>2. sf' = sf /\ d \in Fence /\ Pair(w) \in PairOrNone /\ work[w] \in Jobs /\ work[w].todo # <<>>
        /\ work[w].todo[1].do = d
    BY <1>0, <1>3, <2>1, AtFacts, TailFacts DEF Justify, local, Fence, Jobs
  <2>3. CASE Go(w, work[w], <<>>, Only("claim"))
    BY <1>1, <2>1, <2>2, <2>3, NeatTurns
  <2>4. ASSUME NEW s \in Justifiers(sf, Pair(w), work[w].k),
               Go(w, [work[w] EXCEPT !.by = s], <<>>, For(<<"own">>, Pair(w)) \o Only("clear"))
        PROVE  Turns(w)
    <3>1. PICK job, p, G : job = [work[w] EXCEPT !.by = s] /\ p = Pair(w) /\ G = {p}
      OBVIOUS
    <3>2. s \in Contacts /\ s # None /\ sf[s] = [status |-> "active", pair |-> p]
      BY <3>1, GrantAssumption DEF Justifiers
    <3>3. job \in Jobs /\ job.todo = work[w].todo /\ job.by = s
      BY <2>2, <3>1, <3>2, JobSets DEF Jobs
    <3>4. G \subseteq Aim(job, sf')
      BY <2>2, <3>1, <3>2, <3>3 DEF Aim
    <3>5. PICK a, b, t : a = For(<<"own">>, p) /\ b = Only("clear") /\ t = a \o b
      OBVIOUS
    <3>6. a \in Seq(Steps) /\ Aimed(a, G) /\ \A i \in 1 .. Len(a) : a[i].do \notin Makes
      <4>1. PICK x : x = Step("own", p)
        OBVIOUS
      <4>2. x \in Steps /\ x.do = "own" /\ x.pair = p /\ a = <<x>>
        BY <2>2, <3>1, <3>5, <4>1, OnlyIs DEF Step, Steps, PairOrNone, Calls
      <4>3. a \in Seq(Steps) /\ Len(a) = 1 /\ a[1] = x
        BY <4>2
      <4>4. Near(a, 1, 1 - 1, p)
        BY DEF Near
      <4> QED BY <3>1, <4>2, <4>3, <4>4 DEF Aimed, Makes
    <3>7. b \in Seq(Steps) /\ Aimed(b, {}) /\ \A i \in 1 .. Len(b) : b[i].do \notin Makes
      BY <1>1, <3>5 DEF Neat
    <3>8. a \o b \in Seq(Steps) /\ Aimed(a \o b, G)
      BY <3>6, <3>7, AimedConcat
    <3>9. \A i \in 1 .. Len(t) : t[i].do \notin Makes
      <4>1. PICK S : S = Steps
        OBVIOUS
      <4>2. \A i \in 1 .. Len(t) : \/ i \in 1 .. Len(a) /\ t[i] = a[i]
                                   \/ i - Len(a) \in 1 .. Len(b) /\ t[i] = b[i - Len(a)]
        BY <3>5, <3>6, <3>7, <4>1, ConcatFacts
      <4> QED BY <3>6, <3>7, <4>2
    <3>10. FenceTurn(w, job, t)
      BY <2>2, <3>4, <3>5, <3>8, <3>9 DEF FenceTurn
    <3>11. Go(w, job, <<>>, t)
      BY <2>4, <3>1, <3>5
    <3> QED BY <2>2, <3>3, <3>5, <3>8, <3>10, <3>11 DEF Turns
  <2>5. PICK view \in Scanned(w, d) :
               LET by == Justifiers(view, Pair(w), work[w].k)
               IN \/ \E s \in by : Go(w, [work[w] EXCEPT !.by = s], <<>>,
                                      For(<<"own">>, Pair(w)) \o Only("clear"))
                  \/ by = {} /\ Go(w, work[w], <<>>, Only("claim"))
    BY <2>1
  <2>6. Justifiers(view, Pair(w), work[w].k) = Justifiers(sf, Pair(w), work[w].k)
    BY <2>5, SeesSiblings
  <2> QED BY <2>3, <2>4, <2>5, <2>6
<1>4. CASE Claim(w)
  <2>1. At(w, "claim") /\ "claim" \in Fence /\ (Skip(w) \/ Go(w, work[w], <<>>, Only("claimed")))
    BY <1>4 DEF Claim, Fence
  <2> QED BY <1>1, <2>1, NeatTurns, SkipTurns
<1>5. CASE Claimed(w)
  <2>1. At(w, "claimed") /\ "claimed" \in Fence
    BY <1>5 DEF Claimed, Fence
  <2>2. Entry(w) \in Entries /\ work[w].entry.pair \in PairOrNone
    BY <1>0, <2>1, AtFacts, EntryTyped, PairsOf
  <2>3. PICK p, a : p = work[w].entry.pair /\ a = Only("flush") \o For(<<"regranted", "compare">>, p)
    OBVIOUS
  <2>4. Neat(a) /\ Neat(Only("fail"))
    BY <1>1, <2>2, <2>3
  <2>5. \/ Go(w, work[w], <<>>, Only("fail"))
        \/ Skip(w)
        \/ Go(w, [work[w] EXCEPT !.entry = Entry(w)], <<Remove(p)>>, a)
    BY <1>5, <2>3 DEF Claimed
  <2> QED BY <2>1, <2>2, <2>4, <2>5, NeatTurns, SkipTurns
<1>6. CASE Compare(w)
  <2>1. At(w, "compare") /\ "compare" \in Fence
        /\ \/ Skip(w) \/ Go(w, work[w], <<Put(Pair(w))>>, Only("flush"))
           \/ Go(w, work[w], <<>>, Only("clear"))
    BY <1>6 DEF Compare, Fence
  <2> QED BY <1>1, <2>1, NeatTurns, SkipTurns
<1>7. CASE Clear(w)
  BY <1>7, SkipTurns DEF Clear, Fence
<1> QED BY <1>2, <1>3, <1>4, <1>5, <1>6, <1>7

(* The calls of a delete.                                                  *)
LEMMA DeleteTurns ==
  ASSUME Shape, NEW w \in Workers,
         Lookup(w) \/ Withdraw(w) \/ EraseEntry(w) \/ SettleStale(w) \/ DeleteRecord(w) \/ Pass(w)
         \/ ClearMarker(w)
  PROVE  Turns(w)
<1>0. Working /\ Around
  BY DEF Shape
<1>1. /\ Neat(<<>>) /\ \A d \in {"fail", "erase", "stop", "keepMarker", "delete"} : Neat(Only(d))
      /\ \A p \in PairOrNone : /\ Neat(RevokeConfirmed(p)) /\ Neat(Drain(p))
                               /\ Neat(For(<<"scan", "own">>, p))
      /\ \A q, a : Neat(a) => Neat(WhenSet(q, a))
  <2>1. None \in PairOrNone
    BY DEF PairOrNone
  <2>2. {"fail", "erase", "stop", "keepMarker", "delete"} \subseteq Calls \ (Makes \cup {"own"})
    BY DEF Calls, Makes
  <2> QED BY <2>1, <2>2, NeatPrograms
<1>2. CASE Lookup(w)
  <2>1. At(w, "lookup") /\ Entry(w) \in Entries /\ "lookup" \in Fence
    BY <1>0, <1>2, AtFacts, EntryTyped DEF Lookup, Fence
  <2>2. Go(w, [work[w] EXCEPT !.entry = Entry(w)], <<>>, <<>>)
    BY <1>2 DEF Lookup
  <2> QED BY <1>1, <2>1, <2>2, NeatTurns
<1>3. CASE Withdraw(w)
  <2>1. At(w, "withdraw") /\ work[w].entry \in Entries /\ "withdraw" \in Fence
    BY <1>0, <1>3, AtFacts DEF Withdraw, Fence
  <2>2. PICK e, m, n : e = work[w].entry /\ m = RevokeConfirmed(e.marker) /\ n = RevokeConfirmed(e.pair)
    OBVIOUS
  <2>3. Neat(m) /\ Neat(n)
    BY <1>1, <2>1, <2>2, PairsOf
  <2>4. PICK c : c = WhenSet(e.marker, m \o Only("keepMarker"))
    OBVIOUS
  <2>5. PICK a, b : /\ a = WhenSet(e.marker, m \o Only("erase"))
                    /\ b = n \o Only("stop") \o c \o Only("erase")
    OBVIOUS
  <2>6. Neat(a) /\ Neat(c)
    BY <1>1, <2>3, <2>4, <2>5, NeatConcat
  <2>7. Neat(b)
    BY <1>1, <2>3, <2>5, <2>6, NeatConcat
  <2>8. Go(w, work[w], <<>>, IF e.pair = None THEN a ELSE b)
    BY <1>3, <2>2, <2>4, <2>5 DEF Withdraw
  <2> QED BY <2>1, <2>6, <2>7, <2>8, NeatTurns
<1>4. CASE EraseEntry(w) \/ ClearMarker(w)
  BY <1>4, SkipTurns DEF EraseEntry, ClearMarker, Fence
<1>5. CASE Pass(w)
  <2>1. PICK h \in Handlers : At(w, h) /\ Skip(w) /\ sf' = sf
    BY <1>5 DEF Pass, local
  <2>2. CASE h = "catch"
    BY <2>1, <2>2, SkipTurns DEF Fence
  <2>3. CASE h # "catch"
    <3>1. PICK p : p = Pair(w)
      OBVIOUS
    <3>2. p \in PairOrNone /\ h \in Calls \ Fence /\ h \notin {"scan", "scanLive"}
      BY <1>0, <2>1, <2>3, <3>1, AtFacts DEF Handlers, Calls, Fence
    <3>3. <<>> \in Seq(NearSteps(p)) /\ \A i \in 1 .. Len(<<>>) : <<>>[i].do \notin Drops
      BY <3>2, NearPrograms
    <3> QED BY <2>1, <3>1, <3>2, <3>3, SameTurns DEF Skip
  <2> QED BY <2>2, <2>3
<1>6. CASE SettleStale(w)
  <2>1. At(w, "settleStale") /\ work[w].entry \in Entries /\ "settleStale" \in Fence
    BY <1>0, <1>6, AtFacts DEF SettleStale, Fence
  <2>2. PICK e, a : /\ e = work[w].entry
                    /\ a = IF e.pair \in {None, OwnPair(work[w])} THEN <<>> ELSE For(<<"scan", "own">>, e.pair)
    OBVIOUS
  <2>3. Neat(a)
    BY <1>1, <2>1, <2>2, PairsOf
  <2>4. Neat(a \o Only("delete"))
    BY <1>1, <2>3, NeatConcat
  <2>5. Go(w, work[w], <<>>, a \o Only("delete"))
    BY <1>6, <2>2 DEF SettleStale
  <2> QED BY <2>1, <2>4, <2>5, NeatTurns
<1>7. CASE DeleteRecord(w)
  <2>1. At(w, "delete") /\ work[w].entry \in Entries /\ work[w].kc \in Records /\ "delete" \in Fence
    BY <1>0, <1>7, AtFacts DEF DeleteRecord, Fence
  <2>2. PICK e, p : e = work[w].entry /\ p = OwnPair(work[w])
    OBVIOUS
  <2>3. p \in PairOrNone /\ e.marker \in PairOrNone
    BY <2>1, <2>2, PairsOf DEF OwnPair
  <2>4. PICK a, b : /\ a = WhenSet(p, For(<<"scan", "recover", "own", "stop">>, p))
                    /\ b = WhenSet(e.marker, Drain(e.marker) \o Only("keepMarker"))
    OBVIOUS
  <2>5. Neat(b)
    BY <1>1, <2>3, <2>4, NeatConcat
  <2>6. a \in Seq(Steps) /\ Aimed(a, {})
    <3>1. PICK ds : ds = <<"scan", "recover", "own", "stop">>
      OBVIOUS
    <3>2. /\ ds \in Seq(Calls) /\ Len(ds) = 4 /\ ds[1] = "scan"
          /\ ds[2] = "recover" /\ ds[3] = "own" /\ ds[4] = "stop"
      BY <3>1 DEF Calls
    <3>3. \A i \in 2 .. Len(ds) : ds[i] \notin Fence
      BY <3>2 DEF Fence
    <3>4. For(ds, p) \in Seq(Steps) /\ Aimed(For(ds, p), {})
      BY <2>3, <3>2, <3>3, AimedFor
    <3>5. <<>> \in Seq(Steps) /\ Aimed(<<>>, {})
      BY <1>1 DEF Neat
    <3> QED BY <2>4, <3>1, <3>4, <3>5 DEF WhenSet
  <2>7. PICK c, G : c = b \o Only("erase") /\ G = {}
    OBVIOUS
  <2>8. c \in Seq(Steps) /\ Aimed(c, {})
    BY <1>1, <2>5, <2>7, NeatConcat DEF Neat
  <2>9. a \o c \in Seq(Steps) /\ Aimed(a \o c, G)
    BY <2>6, <2>7, <2>8, AimedConcat
  <2>10. CASE Go(w, work[w], <<>>, Only("fail"))
    BY <1>1, <2>1, <2>10, NeatTurns
  <2>11. ASSUME Save(work[w].k, Gone), Go(w, work[w], <<>>, a \o c) PROVE Turns(w)
    <3>1. Run(w) /\ ~End(w)
      BY <1>7, <2>1 DEF Run, End, At
    <3>2. Due(work[w].k)'
      BY <2>11, <3>1, LiveAre, CallSaves
    <3>3. \A i \in 1 .. Len(a \o c) : (a \o c)[i].do \in Makes => Meant(w, (a \o c)[i].pair)
      BY <3>2 DEF Meant
    <3> QED BY <2>1, <2>7, <2>9, <2>11, <3>3, MakeTurns
  <2>12. (a \o b) \o Only("erase") = a \o c
    <3>1. b \in Seq(Steps) /\ Only("erase") \in Seq(Steps)
      BY <1>1, <2>5 DEF Neat
    <3> QED BY <2>6, <2>7, <3>1
  <2>13. Go(w, work[w], <<>>, Only("fail"))
         \/ (Save(work[w].k, Gone) /\ Go(w, work[w], <<>>, (a \o b) \o Only("erase")))
    BY <1>7, <2>2, <2>4 DEF DeleteRecord
  <2> QED BY <2>10, <2>11, <2>12, <2>13
<1> QED BY <1>2, <1>3, <1>4, <1>5, <1>6, <1>7

(* The save of an update.                                                  *)
LEMMA SaveTurns == ASSUME Shape, NEW w \in Workers, SaveUpdate(w) PROVE Turns(w)
<1>0. Working
  BY DEF Shape
<1>1. /\ Neat(<<>>) /\ \A d \in {"fail", "publish", "catch", "expireLive"} : Neat(Only(d))
      /\ \A p \in PairOrNone : Neat(For(<<"scanQuick">>, p))
      /\ \A q, a : Neat(a) => Neat(WhenSet(q, a))
  <2>1. None \in PairOrNone
    BY DEF PairOrNone
  <2>2. {"fail", "publish", "catch", "expireLive", "scanQuick"} \subseteq Calls \ (Makes \cup {"own"})
    BY DEF Calls, Makes
  <2> QED BY <2>1, <2>2, NeatPrograms
<1>2. At(w, "save") /\ work[w] \in Jobs /\ work[w].kc \in Records /\ work[w].todo # <<>> /\ "save" \in Fence
  BY <1>0, AtFacts DEF SaveUpdate, Fence
<1>3. CASE Go(w, work[w], <<>>, Only("fail"))
  BY <1>1, <1>2, <1>3, NeatTurns
<1>4. ASSUME NEW new \in Live, NEW renamed \in BOOLEAN,
             Go(w, [work[w] EXCEPT !.kc = new], <<>>,
                IF renamed THEN Only("publish") \o Only("catch")
                     \o (IF new.pair = work[w].kc.pair THEN <<>>
                         ELSE WhenSet(work[w].kc.pair, For(<<"scanQuick">>, work[w].kc.pair)))
                ELSE IF new.pair = None THEN Only("expireLive") ELSE Only("publish"))
      PROVE  Turns(w)
  <2>1. PICK old : old = work[w].kc.pair
    OBVIOUS
  <2>2. PICK b, steps : /\ b = (IF new.pair = old THEN <<>> ELSE WhenSet(old, For(<<"scanQuick">>, old)))
                        /\ steps = IF renamed THEN Only("publish") \o Only("catch") \o b
                                   ELSE IF new.pair = None THEN Only("expireLive") ELSE Only("publish")
    OBVIOUS
  <2>4. Neat(b)
    BY <1>1, <1>2, <2>1, <2>2, PairsOf
  <2>5. Neat(steps)
    BY <1>1, <2>2, <2>4, NeatConcat
  <2>6. Go(w, [work[w] EXCEPT !.kc = new], <<>>, steps) /\ new \in Records
    BY <1>4, <2>1, <2>2, LiveAre
  <2> QED BY <1>2, <2>5, <2>6, NeatTurns
<1> QED BY <1>3, <1>4 DEF SaveUpdate

(* Every call that is done.                                                *)
LEMMA RunTurns ==
  ASSUME Shape, NEW w \in Workers, Sees(w), Run(w), ~Fails(w), ~End(w)
  PROVE  Turns(w)
  BY RevokeTurns, GrantTurns, ExpireTurns, DeleteTurns, SaveTurns
     DEF Run, Revoke, RevokeNoLongerLive

(* What a worker that gives up keeps.                                      *)
LEMMA GivesUp ==
  ASSUME Shape, NEW w \in Workers, Fails(w)
  PROVE  /\ work'[w].todo = Handled(work[w]) /\ work'[w].hold /\ work'[w].by = work[w].by
         /\ work'[w].k = work[w].k /\ work'[w].entry = work[w].entry /\ work'[w].kc = work[w].kc
         /\ work[w] \in Jobs /\ Sound(work[w]) /\ work[w].todo # <<>>
         /\ sf' = sf /\ events' = events /\ grants' = grants
<1>1. work[w] \in Jobs /\ work \in [Workers -> Jobs] /\ Sound(work[w])
  BY DEF Shape, Working
<1>2. PICK h : h = Handled(work[w])
  OBVIOUS
<1>3. PICK new : new = [work[w] EXCEPT !.hold = TRUE, !.todo = h]
  OBVIOUS
<1>4. /\ new.todo = h /\ new.hold /\ new.by = work[w].by /\ new.k = work[w].k
      /\ new.entry = work[w].entry /\ new.kc = work[w].kc
  BY <1>1, <1>3 DEF Jobs
<1>5. work' = [work EXCEPT ![w] = new]
  BY <1>2, <1>3 DEF Fails, GiveUp
<1>6. work'[w] = new
  BY <1>1, <1>5
<1> QED BY <1>1, <1>2, <1>4, <1>6 DEF Fails, local, bucket, At

(* What it has left looks for a sibling before it hands over, and records  *)
(* only what was to be recorded.                                           *)
LEMMA HandledAims ==
  ASSUME NEW job \in Jobs, Sound(job), job.todo # <<>>, NEW G, Aimed(job.todo, G)
  PROVE  /\ Aimed(Handled(job), {})
         /\ \A i \in 1 .. Len(Handled(job)) : Handled(job)[i].do \in Makes =>
              \E j \in 1 .. Len(job.todo) : /\ job.todo[j].do \in Makes
                                            /\ job.todo[j].pair = Handled(job)[i].pair
<1>1. PICK t, h, new : t = job.todo /\ h = FirstHandler(t) /\ new = Handled(job)
  OBVIOUS
<1>2. t \in Seq(Steps) /\ t # <<>> /\ Aimed(t, G)
  BY <1>1 DEF Jobs
<1>3. SUFFICES /\ Aimed(new, {})
               /\ \A i \in 1 .. Len(new) : new[i].do \in Makes =>
                    \E j \in 1 .. Len(t) : t[j].do \in Makes /\ t[j].pair = new[i].pair
  BY <1>1
<1>4. None \in PairOrNone
  BY DEF PairOrNone
<1>5. CASE Neat(new)
  BY <1>5 DEF Neat
<1>6. CASE h = 0
  BY <1>1, <1>4, <1>5, <1>6, NeatPrograms DEF Handled
<1>7. CASE h # 0
  <2>1. h \in 2 .. Len(t) /\ t[h].do \in Handlers /\ h \in 1 .. Len(t)
    BY <1>1, <1>2, <1>7, FirstHandlerIs
  <2>2. CASE t[h].do = "catch"
    <3>1. new = SubSeq(t, h + 1, Len(t))
      BY <1>1, <1>7, <2>2 DEF Handled
    <3>2. /\ Len(t) \in Nat /\ Len(new) = Len(t) - h
          /\ \A i \in 1 .. Len(new) : h + i \in 1 .. Len(t) /\ new[i] = t[h + i]
      BY <1>2, <2>1, <3>1
    <3>3. Aimed(new, {})
      BY <1>2, <2>1, <2>2, <3>2, AimedAfter DEF Fence
    <3> QED BY <3>2, <3>3
  <2>3. CASE t[h].do = "stop"
    BY <1>1, <1>4, <1>5, <1>7, <2>3, NeatPrograms DEF Handled
  <2>4. CASE t[h].do = "keepMarker"
    <3>1. new = Only("clear") /\ "clear" \in Calls \ (Makes \cup {"own"})
      BY <1>1, <1>7, <2>4 DEF Handled, Calls, Makes
    <3> QED BY <1>4, <1>5, <3>1, NeatPrograms
  <2>5. CASE t[h].do = "recover"
    <3>1. PICK p, m : p = t[h].pair /\ m = job.entry.marker
      OBVIOUS
    <3>2. p \in PairOrNone /\ m \in PairOrNone /\ "clearMarker" \in Calls \ (Makes \cup {"own"})
      <4>1. t[h] \in Steps /\ job.entry \in Entries
        BY <1>2, <2>1 DEF Jobs
      <4>2. p \in PairOrNone /\ m \in PairOrNone
        BY <3>1, <4>1 DEF Steps, Entries, PairOrNone
      <4> QED BY <4>2 DEF Calls, Makes
    <3>3. PICK a, b : /\ a = IF m # None /\ job.entry.pair # p
                             THEN Drain(m) \o For(<<"clearMarker">>, m) ELSE <<>>
                      /\ b = For(<<"record">>, p)
      OBVIOUS
    <3>4. Neat(a)
      BY <1>4, <3>2, <3>3, NeatPrograms
    <3>5. b \in Seq(Steps) /\ Aimed(b, {}) /\ \A i \in 1 .. Len(b) : b[i].pair = p
      BY <3>2, <3>3, MakeOne
    <3>6. Aimed(a \o b, {}) /\ \A i \in 1 .. Len(a \o b) : (a \o b)[i].do \in Makes => (a \o b)[i].pair = p
      BY <3>4, <3>5, MakeBehind
    <3>7. new = a \o b
      BY <1>1, <1>7, <2>5, <3>1, <3>3 DEF Handled
    <3>8. t[h].do \in Makes /\ t[h].pair = p
      BY <2>5, <3>1 DEF Makes
    <3> QED BY <2>1, <3>6, <3>7, <3>8
  <2> QED BY <2>1, <2>2, <2>3, <2>4, <2>5 DEF Handlers
<1> QED BY <1>6, <1>7

(* The consumer takes an event.                                            *)
LEMMA TakeHas ==
  ASSUME Shape, Take
  PROVE  LET k == Head(events).k
             kc == IF Head(events).deleted THEN Gone ELSE sf[k]
         IN /\ k \in Contacts /\ events # <<>> /\ Head(events) = events[1]
            /\ work[Consumer] = Idle /\ work'[Consumer].k = k /\ work'[Consumer].kc = kc
            /\ work'[Consumer].todo = (IF kc = Gone
                   THEN Only("lookup") \o Only("snapshot") \o Only("withdraw") ELSE Upsert(kc))
            /\ work'[Consumer].by = None /\ work'[Consumer].entry = Absent
            /\ \A v \in Workers \ {Consumer} : work'[v] = work[v]
            /\ sf' = sf /\ events' = events /\ grants' = grants /\ faults' = faults
<1>0. Working /\ Around /\ Consumer \in Workers
  BY DEF Shape, Workers
<1>1. PICK k, kc, program :
        /\ k = Head(events).k /\ kc = IF Head(events).deleted THEN Gone ELSE sf[k]
        /\ program = IF kc = Gone THEN Only("lookup") \o Only("snapshot") \o Only("withdraw") ELSE Upsert(kc)
  OBVIOUS
<1>2. PICK new : new = [Idle EXCEPT !.k = k, !.kc = kc, !.todo = program]
  OBVIOUS
<1>3. new.k = k /\ new.kc = kc /\ new.todo = program /\ new.by = None /\ new.entry = Absent
  BY <1>2 DEF Idle
<1>4. work' = [work EXCEPT ![Consumer] = new]
  BY <1>1, <1>2 DEF Take
<1>5. work'[Consumer] = new /\ \A v \in Workers \ {Consumer} : work'[v] = work[v]
  BY <1>0, <1>4 DEF Working
<1>6. /\ events # <<>> /\ work[Consumer] = Idle
      /\ sf' = sf /\ events' = events /\ grants' = grants /\ faults' = faults
  BY DEF Take, local, bucket, ledger
<1>7. k \in Contacts /\ Head(events) = events[1]
  <2>1. events \in Seq(Events)
    BY <1>0 DEF Around
  <2> QED BY <1>0, <1>1, <1>6, <2>1, HeadEvent, TailFacts
<1> QED BY <1>1, <1>3, <1>5, <1>6, <1>7

(* A call leaves the events that are still to be handled.                  *)
LEMMA RunDue ==
  ASSUME Shape, NEW w \in Workers, Run(w), faults' = faults, NEW k, Due(k)
  PROVE  Due(k)'
<1>0. /\ Working /\ Around /\ Consumer \in Workers /\ faults \in Nat /\ work \in [Workers -> Jobs]
      /\ None \notin Contacts /\ Idle.k = None
  BY GrantAssumption DEF Shape, Workers, Around, Working, Idle
<1>1. [Next]_vars
  BY DEF Next
<1>2. ~PassOver
  BY <1>0 DEF PassOver
<1>3. ~Take
  <2>1. work[w] # Idle /\ \A v \in Workers \ {w} : work'[v] = work[v]
    BY RunOthers
  <2>2. Take => work[Consumer] = Idle /\ work'[Consumer].k \in Contacts
    BY TakeHas
  <2> QED BY <1>0, <2>1, <2>2
<1> QED BY <1>1, <1>2, <1>3, DueStays

(* A call works on the record it has read, and records only its pair, or   *)
(* the record has an event that is still to be handled.                    *)
Apt(w) == work[w].k # None =>
    \/ Due(work[w].k)
    \/ /\ work[w].kc = sf[work[w].k]
       /\ \A i \in 1 .. Len(work[w].todo) :
             work[w].todo[i].do \in Makes => Serves(work[w].k, work[w].todo[i].pair)

(* A call that changes its record leaves an event.                         *)
LEMMA CallKeeps ==
  ASSUME Shape, NEW w \in Workers, Run(w), ~End(w), NEW k, k = work[w].k
  PROVE  /\ work'[w].k = k
         /\ Due(k)' \/ (sf' = sf /\ work'[w].kc = work[w].kc)
<1>0. work'[w].k = k
  BY RunMoves, MovesHas, FailsHas
<1>1. ASSUME NEW rec \in Records, Save(k, rec) PROVE Due(k)'
  <2>1. Due(work[w].k)'
    BY <1>1, CallSaves
  <2> QED BY <1>0, <2>1
<1>2. CASE SaveUpdate(w)
  <2>1. CASE sf[k] # Gone
    <3>1. \E rec \in Live : Save(k, rec)
      BY <1>2, <2>1 DEF SaveUpdate
    <3> QED BY <1>0, <1>1, <3>1, LiveAre
  <2>2. CASE sf[k] = Gone
    <3>1. Go(w, work[w], <<>>, Only("fail")) /\ sf' = sf /\ At(w, "save")
      BY <1>2, <2>2 DEF SaveUpdate
    <3>2. work[w] \in Jobs /\ work[w].todo # <<>> /\ Only("fail") \in Seq(Steps)
      BY <3>1, AtFacts, StepPrograms DEF Shape, Calls
    <3>3. work'[w].kc = work[w].kc
      BY <3>1, <3>2, GoHas DEF Shape
    <3> QED BY <1>0, <3>1, <3>3
  <2> QED BY <2>1, <2>2
<1>3. ASSUME ~SaveUpdate(w) PROVE work'[w].kc = work[w].kc
  <2>1. ~At(w, "save")
    <3>1. ASSUME NEW d, At(w, d), At(w, "save") PROVE d = "save"
      BY <3>1 DEF At
    <3>2. ~(Revoke(w) /\ At(w, "save"))
      BY <3>1 DEF Revoke, Scan, Flush, Recheck, Verify, ConfirmLive, Settle, Reassert, Own, ClearMarker
    <3>3. ~(RevokeNoLongerLive(w) /\ At(w, "save"))
      BY <3>1 DEF RevokeNoLongerLive, Expire, Justify, Claim, Claimed, Regranted, Compare, Clear
    <3>4. ~(Grant(w) /\ At(w, "save"))
      BY <3>1 DEF Grant, Snapshot, Publish, Inactive, Record, Write
    <3>5. ~((Lookup(w) \/ Withdraw(w) \/ EraseEntry(w) \/ SettleStale(w) \/ DeleteRecord(w)
             \/ Fails(w) \/ Pass(w)) /\ At(w, "save"))
      BY <3>1 DEF Lookup, Withdraw, EraseEntry, SettleStale, DeleteRecord, Fails, Pass, Handlers
    <3> QED BY <1>3, <3>2, <3>3, <3>4, <3>5 DEF Run
  <2> QED BY <2>1, RunMoves, MovesHas, FailsHas
<1>4. CASE DeleteRecord(w)
  <2>1. Save(k, Gone) \/ sf' = sf
    BY <1>4 DEF DeleteRecord
  <2>2. ~SaveUpdate(w)
    BY <1>4 DEF DeleteRecord, SaveUpdate, At
  <2> QED BY <1>0, <1>1, <1>3, <2>1, <2>2, LiveAre
<1>5. CASE Revoke(w) \/ Grant(w) \/ RevokeNoLongerLive(w)
  <2>1. ASSUME Revoke(w) PROVE sf' = sf
    BY <2>1 DEF Revoke, Scan, Flush, Recheck, Verify, ConfirmLive, Settle, Reassert, Own, ClearMarker, local
  <2>2. ASSUME Grant(w) PROVE sf' = sf
    BY <2>2 DEF Grant, Snapshot, Publish, Inactive, Record, Write, local
  <2>3. ASSUME RevokeNoLongerLive(w) PROVE sf' = sf
    BY <2>3 DEF RevokeNoLongerLive, Expire, Justify, Claim, Claimed, Regranted, Compare, Clear, local
  <2>4. sf' = sf
    BY <1>5, <2>1, <2>2, <2>3
  <2>5. CASE SaveUpdate(w)
    BY <1>2, <2>5, <1>0
  <2> QED BY <1>0, <1>3, <2>4, <2>5
<1>6. CASE Lookup(w) \/ Withdraw(w) \/ EraseEntry(w) \/ SettleStale(w) \/ Fails(w) \/ Pass(w)
  <2>1. sf' = sf
    BY <1>6 DEF Lookup, Withdraw, EraseEntry, SettleStale, Fails, Pass, local
  <2>2. CASE SaveUpdate(w)
    BY <1>2, <2>2, <1>0
  <2> QED BY <1>0, <1>3, <2>1, <2>2
<1> QED BY <1>2, <1>4, <1>5, <1>6 DEF Run

(* A worker without a call.                                                *)
LEMMA IdleApt == ASSUME NEW w \in Workers, work'[w] = Idle PROVE Apt(w)' /\ Aims(w)'
<1>1. work'[w].k = None /\ work'[w].todo = <<>> /\ Len(<<>>) = 0
  BY DEF Idle
<1>2. \A j \in 1 .. Len(<<>>) : <<>>[j].do # "own"
  BY <1>1
<1>3. PICK H : H = Aim(work'[w], sf')
  OBVIOUS
<1>4. Aimed(<<>>, H)
  BY <1>2, AimedNone
<1>5. Aims(w)'
  BY <1>1, <1>3, <1>4 DEF Aims
<1> QED BY <1>1, <1>5 DEF Apt

(* A call that works on the record it has read.                            *)
LEMMA AptIf ==
  ASSUME NEW w \in Workers, NEW k, work'[w].k = k,
         \/ Due(k)'
         \/ /\ work'[w].kc = sf'[k]
            /\ \A i \in 1 .. Len(work'[w].todo) : work'[w].todo[i].do \in Makes =>
                  sf'[k] = [status |-> "active", pair |-> work'[w].todo[i].pair]
  PROVE  Apt(w)'
<1>1. CASE Due(k)'
  BY <1>1 DEF Apt, Due
<1>2. CASE ~Due(k)'
  BY <1>2 DEF Apt, Serves
<1> QED BY <1>1, <1>2

(* A call works on its record as long as it runs.                          *)
LEMMA RunApt ==
  ASSUME Shape, NEW w \in Workers, Run(w), faults' = faults, Sees(w), Apt(w), Aims(w)
  PROVE  Apt(w)' /\ Aims(w)'
<1>0. Working
  BY DEF Shape
<1>1. CASE End(w)
  <2>1. work'[w] = Idle
    BY <1>0, <1>1 DEF End, Working
  <2> QED BY <2>1, IdleApt
<1>2. CASE ~End(w)
  <2>1. PICK k : k = work[w].k
    OBVIOUS
  <2>2. work'[w].k = k /\ (Due(k)' \/ (sf' = sf /\ work'[w].kc = work[w].kc)) /\ k # None
    BY <1>2, <2>1, CallKeeps, RunOthers
  <2>3. ASSUME Due(k)' PROVE Apt(w)'
    BY <2>2, <2>3, AptIf
  <2>4. ASSUME ~Due(k)' PROVE Apt(w)'
    <3>1. sf' = sf /\ work'[w].kc = work[w].kc /\ ~Due(k)
      BY <2>2, <2>4, RunDue
    <3>2. /\ work[w].kc = sf[k]
          /\ \A i \in 1 .. Len(work[w].todo) : work[w].todo[i].do \in Makes => Serves(k, work[w].todo[i].pair)
      BY <2>1, <2>2, <3>1 DEF Apt
    <3>3. ASSUME NEW i \in 1 .. Len(work'[w].todo), work'[w].todo[i].do \in Makes, Fails(w)
          PROVE  Serves(k, work'[w].todo[i].pair)
      <4>1. work'[w].todo = Handled(work[w]) /\ work[w] \in Jobs /\ Sound(work[w]) /\ work[w].todo # <<>>
        BY <3>3, GivesUp
      <4>2. PICK j \in 1 .. Len(work[w].todo) : work[w].todo[j].do \in Makes
                                                /\ work[w].todo[j].pair = work'[w].todo[i].pair
        <5>1. PICK G : G = Aim(work[w], sf)
          OBVIOUS
        <5>2. Aimed(work[w].todo, G)
          BY <5>1 DEF Aims
        <5> QED BY <3>3, <4>1, <5>2, HandledAims
      <4> QED BY <3>2, <4>2
    <3>4. ASSUME NEW i \in 1 .. Len(work'[w].todo), work'[w].todo[i].do \in Makes, ~Fails(w)
          PROVE  Serves(k, work'[w].todo[i].pair)
      <4>1. Turns(w)
        BY <1>2, <3>4, RunTurns
      <4>2. PICK p : p = work'[w].todo[i].pair
        OBVIOUS
      <4>3. Meant(w, work'[w].todo[i].pair)
        BY <3>4, <4>1, TurnMakes
      <4>4. \/ work[w].kc = [status |-> "active", pair |-> p]
            \/ \E j \in 1 .. Len(work[w].todo) : work[w].todo[j].do \in Makes /\ work[w].todo[j].pair = p
        BY <2>2, <2>4, <4>2, <4>3 DEF Meant
      <4> QED BY <3>2, <4>2, <4>4 DEF Serves
    <3>5. \A i \in 1 .. Len(work'[w].todo) :
             work'[w].todo[i].do \in Makes => sf'[k] = [status |-> "active", pair |-> work'[w].todo[i].pair]
      BY <3>1, <3>3, <3>4 DEF Serves
    <3>6. work'[w].kc = sf'[k]
      BY <3>1, <3>2
    <3> QED BY <2>2, <3>5, <3>6, AptIf
  <2>5. Apt(w)'
    BY <2>3, <2>4
  <2>6. Aims(w)'
    <3>1. CASE Fails(w)
      <4>1. PICK G, H, t : G = Aim(work[w], sf) /\ H = Aim(work'[w], sf') /\ t = work'[w].todo
        OBVIOUS
      <4>2. t = Handled(work[w]) /\ work[w] \in Jobs /\ Sound(work[w]) /\ work[w].todo # <<>>
        BY <3>1, <4>1, GivesUp
      <4>3. Aimed(t, {})
        <5>1. Aimed(work[w].todo, G)
          BY <4>1 DEF Aims
        <5> QED BY <4>2, <5>1, HandledAims
      <4>4. PICK E : E = {}
        OBVIOUS
      <4>5. Aimed(t, H)
        BY <4>3, <4>4, AimedGrows
      <4> QED BY <4>1, <4>5 DEF Aims
    <3>2. CASE ~Fails(w)
      BY <1>2, <3>2, RunTurns, TurnAims
    <3> QED BY <3>1, <3>2
  <2> QED BY <2>5, <2>6
<1> QED BY <1>1, <1>2

(* The programs that calls begin with.                                     *)
LEMMA NeatBegins ==
  ASSUME NEW kc \in Records
  PROVE  /\ Neat(Upsert(kc)) /\ Neat(Only("publish") \o Only("catch") \o Miss(kc))
         /\ Neat(Only("save")) /\ Neat(Only("lookup") \o Only("settleStale"))
         /\ Neat(Only("lookup") \o Only("snapshot") \o Only("withdraw"))
<1>1. None \in PairOrNone
  BY DEF PairOrNone
<1>2. /\ \A d \in Calls \ (Makes \cup {"own"}) : Neat(Only(d))
      /\ Neat(<<>>) /\ \A a, b : Neat(a) /\ Neat(b) => Neat(a \o b)
  BY <1>1, NeatPrograms
<1>3. {"publish", "catch", "save", "lookup", "settleStale", "snapshot", "withdraw", "expireLive"}
      \subseteq Calls \ (Makes \cup {"own"})
  BY DEF Calls, Makes
<1>4. /\ Neat(Only("publish")) /\ Neat(Only("catch")) /\ Neat(Only("save")) /\ Neat(Only("lookup"))
      /\ Neat(Only("settleStale")) /\ Neat(Only("snapshot")) /\ Neat(Only("withdraw"))
      /\ Neat(Only("expireLive"))
  BY <1>2, <1>3
<1>5. Neat(Miss(kc))
  BY <1>2, <1>4 DEF Miss
<1> QED BY <1>2, <1>4, <1>5 DEF Upsert

(* A call that begins with one of them works on its record.                *)
LEMMA StartApt ==
  ASSUME NEW w \in Workers, NEW k, work'[w].k = k, Neat(work'[w].todo),
         Due(k)' \/ work'[w].kc = sf'[k]
  PROVE  Apt(w)' /\ Aims(w)'
<1>1. PICK t, H, E : t = work'[w].todo /\ H = Aim(work'[w], sf') /\ E = {}
  OBVIOUS
<1>2. Aimed(t, E) /\ \A i \in 1 .. Len(t) : t[i].do \notin Makes
  BY <1>1 DEF Neat
<1>3. Aimed(t, H)
  BY <1>1, <1>2, AimedGrows
<1>4. Apt(w)'
  BY <1>1, <1>2, AptIf
<1> QED BY <1>1, <1>3, <1>4 DEF Aims

(* The consumer takes an event.                                            *)
LEMMA TakeApt ==
  ASSUME Shape, Superseded, Take
  PROVE  Apt(Consumer)' /\ Aims(Consumer)'
<1>0. Consumer \in Workers /\ sf \in Views /\ events \in Seq(Events) /\ Gone \in Records
  BY LiveAre DEF Shape, Around, Workers
<1>1. PICK k, kc : k = Head(events).k /\ kc = IF Head(events).deleted THEN Gone ELSE sf[k]
  OBVIOUS
<1>2. /\ k \in Contacts /\ events # <<>> /\ Head(events) = events[1]
      /\ work'[Consumer].k = k /\ work'[Consumer].kc = kc
      /\ work'[Consumer].todo = (IF kc = Gone
                   THEN Only("lookup") \o Only("snapshot") \o Only("withdraw") ELSE Upsert(kc))
      /\ sf' = sf /\ events' = events
  BY <1>1, TakeHas
<1>3. kc \in Records
  BY <1>0, <1>1, <1>2 DEF Views
<1>4. Neat(work'[Consumer].todo)
  BY <1>2, <1>3, NeatBegins
<1>5. Due(k)' \/ work'[Consumer].kc = sf'[k]
  <2>1. CASE events[1].deleted /\ sf[k] # Gone
    <3>1. Len(events) \in Nat /\ 1 \in 1 .. Len(events)
      BY <1>0, <1>2, TailFacts
    <3>2. PICK j \in 2 .. Len(events) : events[j].k = k
      <4>1. \E j \in 1 + 1 .. Len(events) : events[j] = [k |-> k, deleted |-> FALSE]
        BY <1>1, <1>2, <2>1, <3>1 DEF Superseded
      <4> QED BY <4>1
    <3>3. j \in 1 .. Len(events) /\ j # 1
      BY <3>1
    <3> QED BY <1>2, <3>2, <3>3 DEF Due
  <2> QED BY <1>1, <1>2, <2>1
<1> QED BY <1>0, <1>2, <1>4, <1>5, StartApt

(* What a call that an API request or a backfill begins has.               *)
LEMMA ApiHas ==
  ASSUME Shape, NEW w \in Writers, NEW k \in Contacts,
         Create(w, k) \/ Update(w, k) \/ Delete(w, k) \/ Republish(w, k)
  PROVE  /\ w \in Workers /\ w # Consumer /\ work[w] = Idle
         /\ work'[w].k = k /\ work'[w].entry = Absent
         /\ Neat(work'[w].todo)
         /\ \A v \in Workers \ {w} : work'[v] = work[v]
         /\ grants' = grants /\ faults' = faults
         /\ \/ \E rec \in Records : Save(k, rec) /\ work'[w].kc = rec
            \/ sf' = sf /\ events' = events /\ work'[w].kc = sf[k]
<1>0. Working /\ w \in Workers /\ w # Consumer /\ sf[k] \in Records /\ Live \subseteq Records
  BY GrantAssumption, LiveAre DEF Shape, Around, Views, Workers
<1>1. PICK kc, program :
        /\ Call(w, k, kc, program) /\ Neat(program)
        /\ \/ \E rec \in Records : Save(k, rec) /\ kc = rec
           \/ sf' = sf /\ events' = events /\ kc = sf[k]
  <2>1. CASE Create(w, k)
    <3>1. PICK rec \in Records : Save(k, rec)
                                 /\ Call(w, k, rec, Only("publish") \o Only("catch") \o Miss(rec))
      BY <1>0, <2>1 DEF Create
    <3> QED BY <3>1, NeatBegins
  <2>2. CASE Update(w, k)
    BY <1>0, <2>2, NeatBegins DEF Update
  <2>3. CASE Delete(w, k)
    BY <1>0, <2>3, NeatBegins DEF Delete
  <2>4. CASE Republish(w, k)
    BY <1>0, <2>4, NeatBegins DEF Republish
  <2> QED BY <2>1, <2>2, <2>3, <2>4
<1>2. PICK new : new = [Idle EXCEPT !.k = k, !.kc = kc, !.todo = program]
  OBVIOUS
<1>3. new.k = k /\ new.kc = kc /\ new.todo = program /\ new.entry = Absent
  BY <1>2 DEF Idle
<1>4. work' = [work EXCEPT ![w] = new] /\ work[w] = Idle /\ grants' = grants /\ faults' = faults
  BY <1>1, <1>2 DEF Call, bucket
<1>5. work'[w] = new /\ \A v \in Workers \ {w} : work'[v] = work[v]
  BY <1>0, <1>4 DEF Working
<1> QED BY <1>0, <1>1, <1>3, <1>4, <1>5

(* An API request or a backfill begins.                                    *)
LEMMA ApiApt ==
  ASSUME Shape, NEW w \in Writers, NEW k \in Contacts,
         Create(w, k) \/ Update(w, k) \/ Delete(w, k) \/ Republish(w, k)
  PROVE  Apt(w)' /\ Aims(w)'
<1>1. /\ w \in Workers /\ w # Consumer /\ work'[w].k = k /\ Neat(work'[w].todo)
      /\ \A v \in Workers \ {w} : work'[v] = work[v]
      /\ \/ \E rec \in Records : Save(k, rec) /\ work'[w].kc = rec
         \/ sf' = sf /\ events' = events /\ work'[w].kc = sf[k]
  BY ApiHas
<1>2. Consumer \in Workers
  BY DEF Workers
<1>3. Due(k)' \/ work'[w].kc = sf'[k]
  BY <1>1, <1>2, SaveDue
<1> QED BY <1>1, <1>3, StartApt

(* A failure is counted.                                                   *)
LEMMA RunFaults == ASSUME NEW w \in Workers, Run(w) PROVE faults' = faults
<1>1. ASSUME Revoke(w) PROVE faults' = faults
  BY <1>1 DEF Revoke, Scan, Flush, Recheck, Verify, ConfirmLive, Settle, Reassert, Own, ClearMarker,
              local, ledger
<1>2. ASSUME Grant(w) PROVE faults' = faults
  BY <1>2 DEF Grant, Snapshot, Publish, Inactive, Record, Write, local, ledger
<1>3. ASSUME RevokeNoLongerLive(w) PROVE faults' = faults
  BY <1>3 DEF RevokeNoLongerLive, Expire, Justify, Claim, Claimed, Regranted, Compare, Clear, local, ledger
<1>4. ASSUME Lookup(w) \/ Withdraw(w) \/ EraseEntry(w) \/ SaveUpdate(w) \/ SettleStale(w)
             \/ DeleteRecord(w) \/ Fails(w) \/ Pass(w) \/ End(w)
      PROVE  faults' = faults
  BY <1>4 DEF Lookup, Withdraw, EraseEntry, SaveUpdate, SettleStale, DeleteRecord, Fails, Pass, End,
              local, ledger
<1> QED BY <1>1, <1>2, <1>3, <1>4 DEF Run

(* Nobody works; and a call begins.                                        *)
Resting == \A w \in Workers : work[w] = Idle
Opens(w, k) == Create(w, k) \/ Update(w, k) \/ Delete(w, k) \/ Republish(w, k)
(* A step without a failure, one call after another: nothing but messages  *)
(* moves, the record of nobody's call is saved, a call begins, or the only *)
(* one runs.                                                               *)
LEMMA CalmSteps ==
  ASSUME Shape, Orderly, [MCNext]_mcvars, calm, faults' = faults
  PROVE  \/ sf' = sf /\ events' = events /\ grants' = grants /\ work' = work /\ Excused' = Excused
         \/ \E k \in Contacts : \E rec \in Records :
               Save(k, rec) /\ Resting /\ work' = work /\ grants' = grants
         \/ \E w \in Writers, k \in Contacts : Opens(w, k) /\ Resting
         \/ Take /\ Resting
         \/ \E w \in Workers : Run(w) /\ \A v \in Workers \ {w} : work[v] = Idle
<1>0. Working /\ Around /\ faults \in Nat /\ Consumer \in Workers
  BY DEF Shape, Around, Workers
<1>1. CASE UNCHANGED mcvars
  BY <1>1 DEF mcvars, vars, Excused
<1>2. CASE MCNext
  <2>1. Next /\ (Starting => Resting)
    BY <1>2 DEF MCNext, calm, Busy, Resting
  <2>2. ASSUME NEW w \in Workers, Run(w) PROVE \A v \in Workers \ {w} : work[v] = Idle
    <3>1. work[w] # Idle /\ Alone(w)
      BY <2>2, RunOthers DEF Orderly
    <3> QED BY <3>1 DEF Alone
  <2>3. ASSUME NEW w \in Workers PROVE ~(CallFails(w) \/ Crash(w)) /\ ~PassOver
    BY <1>0 DEF CallFails, Crash, PassOver
  <2>4. ASSUME NEW w \in Workers, Deliver(w)
        PROVE  sf' = sf /\ events' = events /\ grants' = grants /\ work' = work /\ Excused' = Excused
    BY <2>4 DEF Deliver, ledger, Excused
  <2>5. ASSUME NEW k \in Contacts, Change(k)
        PROVE  \E rec \in Records : Save(k, rec) /\ Resting /\ work' = work /\ grants' = grants
    <3>1. PICK rec \in Records : rec # sf[k] /\ Save(k, rec)
      BY <2>5, LiveAre DEF Change
    <3>2. sf' # sf /\ work' = work /\ grants' = grants
      BY <2>5, <3>1, <1>0 DEF Save, Around, Views, Change, bucket
    <3>3. Resting
      BY <1>2, <3>2 DEF MCNext, calm, Busy, Resting
    <3> QED BY <3>1, <3>2, <3>3
  <2>6. ASSUME NEW w \in Writers, NEW k \in Contacts, Opens(w, k) PROVE Resting
    <3>1. w \in Workers /\ work[w] = Idle /\ work'[w].k = k
      BY <2>6, ApiHas DEF Opens
    <3>2. work'[w] # Idle
      BY <3>1, GrantAssumption DEF Idle
    <3> QED BY <2>1, <3>1, <3>2 DEF Starting
  <2>7. ASSUME Take PROVE Resting
    <3>1. Starting
      <4>1. work[Consumer] = Idle /\ work'[Consumer].k \in Contacts
        BY <2>7, TakeHas
      <4>2. work'[Consumer] # Idle
        BY <4>1, GrantAssumption DEF Idle
      <4> QED BY <1>0, <4>1, <4>2 DEF Starting
    <3> QED BY <2>1, <3>1
  <2> QED BY <1>0, <2>1, <2>2, <2>3, <2>4, <2>5, <2>6, <2>7 DEF Next, Opens
<1> QED BY <1>1, <1>2

(* Every call works on the record it has read.                             *)
Apts == \A w \in Workers : Apt(w) /\ Aims(w)

(* A worker that nothing happens to.                                       *)
LEMMA KeepsApt ==
  ASSUME NEW w \in Workers, work'[w] = work[w], work[w] = Idle \/ (sf' = sf /\ events' = events
                                              /\ work'[Consumer] = work[Consumer]), Apt(w), Aims(w)
  PROVE  Apt(w)' /\ Aims(w)'
<1>1. CASE work[w] = Idle
  BY <1>1, IdleApt
<1>2. CASE sf' = sf /\ events' = events /\ work'[Consumer] = work[Consumer]
  <2>1. PICK k, kc, t : k = work[w].k /\ kc = work[w].kc /\ t = work[w].todo
    OBVIOUS
  <2>2. work'[w].k = k /\ work'[w].kc = kc /\ work'[w].todo = t /\ work'[w].by = work[w].by
    BY <1>2, <2>1
  <2>3. Apt(w)'
    <3>1. Due(k) => Due(k)'
      BY <1>2 DEF Due
    <3> QED BY <1>2, <2>1, <2>2, <3>1 DEF Apt, Serves, Due
  <2>4. Aims(w)'
    BY <1>2 DEF Aims, Aim
  <2> QED BY <2>3, <2>4
<1> QED BY <1>1, <1>2

(* Every step without a failure leaves the calls at work on their records. *)
LEMMA NextApts ==
  ASSUME Shape, Orderly, Superseded, Apts, [MCNext]_mcvars, calm, faults' = faults
  PROVE  Apts'
<1>0. Consumer \in Workers /\ Working
  BY DEF Workers, Shape
<1>1. SUFFICES ASSUME NEW v \in Workers PROVE Apt(v)' /\ Aims(v)'
  BY DEF Apts
<1>2. Apt(v) /\ Aims(v)
  BY DEF Apts
<1>3. CASE sf' = sf /\ events' = events /\ work' = work
  BY <1>2, <1>3, KeepsApt
<1>4. CASE Resting /\ work' = work
  BY <1>4, IdleApt DEF Resting
<1>5. ASSUME NEW w \in Writers, NEW k \in Contacts, Opens(w, k), Resting PROVE Apt(v)' /\ Aims(v)'
  <2>1. CASE v = w
    BY <1>5, <2>1, ApiApt DEF Opens
  <2>2. CASE v # w
    <3>1. work'[v] = work[v]
      BY <1>5, <2>2, ApiHas DEF Opens
    <3> QED BY <1>5, <3>1, IdleApt DEF Resting
  <2> QED BY <2>1, <2>2
<1>6. CASE Take /\ Resting
  <2>1. CASE v = Consumer
    BY <1>6, <2>1, TakeApt
  <2>2. CASE v # Consumer
    <3>1. work'[v] = work[v]
      BY <1>6, <2>2, TakeHas
    <3> QED BY <1>6, <3>1, IdleApt DEF Resting
  <2> QED BY <2>1, <2>2
<1>7. ASSUME NEW w \in Workers, Run(w), \A x \in Workers \ {w} : work[x] = Idle PROVE Apt(v)' /\ Aims(v)'
  <2>1. CASE v = w
    BY <1>2, <1>7, <2>1, RunApt DEF Orderly
  <2>2. CASE v # w
    <3>1. work'[v] = work[v]
      BY <1>7, <2>2, RunOthers
    <3> QED BY <1>7, <2>2, <3>1, IdleApt
  <2> QED BY <2>1, <2>2
<1> QED BY <1>3, <1>4, <1>5, <1>6, <1>7, CalmSteps

(* A call that will withdraw or hand over the pair of the entry e, or find *)
(* that its record justifies it; x is the entry that the job has read.     *)
Lead(kc, x, e, s) ==
    \/ s.do \in {"expire", "expireLive", "inactive", "record", "write"}
    \/ s.do = "publish" /\ (kc.status = "inactive" \/ kc.pair # None)
    \/ s.do \in {"justify", "justifyLive", "claim", "compare", "clear", "withdraw", "erase"} /\ x = e
    \/ s.do = "claimed" /\ x.pair = e.pair
(* The same for the marker.                                                *)
Free(kc, x, e, s) ==
    \/ s.do = "inactive"
    \/ s.do = "publish" /\ kc.status = "inactive"
    \/ s.do = "clearMarker" /\ s.pair = e.marker
    \/ s.do \in {"withdraw", "erase"} /\ x = e
(* The entry is about to be read, for a withdraw.                          *)
Reading(t) == t # <<>> /\ t[1].do = "lookup" /\ \E i \in 1 .. Len(t) : t[i].do = "withdraw"
Leads(job, e) == Reading(job.todo) \/ \E i \in 1 .. Len(job.todo) : Lead(job.kc, job.entry, e, job.todo[i])
Frees(job, e) == Reading(job.todo) \/ \E i \in 1 .. Len(job.todo) : Free(job.kc, job.entry, e, job.todo[i])

(* Only calls that bring in others are of this kind.                       *)
LEMMA LeadFence ==
  ASSUME NEW kc, NEW x, NEW e, NEW s, Lead(kc, x, e, s) \/ Free(kc, x, e, s) \/ s.do = "lookup"
  PROVE  s.do \in Fence
BY DEF Lead, Free, Fence

(* Behind such a call none goes by the entry.                              *)
LEMMA LeadBehind ==
  ASSUME Shape, NEW w \in Workers, NEW d \in Fence \ {"lookup", "save"}, At(w, d), Guarded(w), Fitting(w),
         NEW i \in 2 .. Len(work[w].todo), NEW kc, NEW x, NEW e, NEW y, NEW f
  PROVE  /\ Lead(kc, x, e, work[w].todo[i]) => Lead(kc, y, f, work[w].todo[i])
         /\ Free(kc, x, e, work[w].todo[i]) => Free(kc, y, f, work[w].todo[i])
<1>1. /\ work[w] \in Jobs /\ Sound(work[w]) /\ work[w].todo # <<>> /\ work[w].todo[1].do = d
      /\ 1 \in 1 .. Len(work[w].todo) /\ Fenced(work[w].todo)
  BY AtFacts, AtGuard DEF Shape, Guard
<1>2. Closed(work[w].todo)
  BY AtFits DEF Fits, Fit
<1>3. PICK t, s : t = work[w].todo /\ s = t[i]
  OBVIOUS
<1>4. t \in Seq(Steps) /\ i \in 1 .. Len(t) /\ 1 < i
  BY <1>1, <1>3 DEF Jobs
<1>5. s.do \notin Vital /\ s.do \notin ByEntry
  BY <1>1, <1>3, <1>4 DEF Fenced, Sound
<1>6. s.do # "withdraw"
  BY <1>1, <1>2, <1>3, <1>4 DEF Closed, Delicate, Heeds
<1> QED BY <1>3, <1>5, <1>6 DEF Lead, Free, Vital, ByEntry

(* What is brought in comes before the rest of the program.                *)
LEMMA LeadBy ==
  ASSUME Shape, NEW w \in Workers, work[w].todo # <<>>, NEW job \in Jobs, job.todo = work[w].todo,
         NEW msgs, NEW steps \in Seq(Steps), Go(w, job, msgs, steps),
         NEW i \in 1 .. Len(steps), NEW f
  PROVE  /\ Lead(job.kc, job.entry, f, steps[i]) => Leads(work'[w], f)
         /\ Free(job.kc, job.entry, f, steps[i]) => Frees(work'[w], f)
<1>1. work'[w].todo = steps \o Tail(job.todo) /\ work'[w].entry = job.entry /\ work'[w].kc = job.kc
  BY GoHas DEF Shape
<1>2. Tail(job.todo) \in Seq(Steps)
  BY TailFacts DEF Jobs
<1>3. i \in 1 .. Len(work'[w].todo) /\ work'[w].todo[i] = steps[i]
  BY <1>1, <1>2, ConcatFacts
<1> QED BY <1>1, <1>3 DEF Leads, Frees

(* What the rest of the program leads to.                                  *)
LEMMA LeadRest ==
  ASSUME Shape, NEW w \in Workers, Moves(w), work'[w].kc = work[w].kc, NEW e,
         work'[w].entry \in {work[w].entry, e}
  PROVE  /\ Leads(work[w], e) => \/ Leads(work'[w], e) \/ Reading(work[w].todo)
                                 \/ Lead(work[w].kc, work[w].entry, e, work[w].todo[1])
         /\ Frees(work[w], e) => \/ Frees(work'[w], e) \/ Reading(work[w].todo)
                                 \/ Free(work[w].kc, work[w].entry, e, work[w].todo[1])
<1>1. PICK t, u : t = work[w].todo /\ u = work'[w].todo
  OBVIOUS
<1>2. \A i \in 2 .. Len(t) : \E j \in 1 .. Len(u) : u[j] = t[i]
  BY <1>1, MovesHas
<1>3. t \in Seq(Steps) /\ Len(t) \in Nat
  BY <1>1 DEF Shape, Working, Jobs
<1>4. PICK kc, x, y : kc = work[w].kc /\ x = work[w].entry /\ y = work'[w].entry
  OBVIOUS
<1>5. \A s : /\ Lead(kc, x, e, s) => Lead(kc, y, e, s)
             /\ Free(kc, x, e, s) => Free(kc, y, e, s)
  BY <1>4 DEF Lead, Free
<1>6. ASSUME NEW i \in 1 .. Len(t), i # 1, Lead(kc, x, e, t[i]) \/ Free(kc, x, e, t[i])
      PROVE  \E j \in 1 .. Len(u) : u[j] = t[i]
  BY <1>2, <1>3, <1>6
<1>7. /\ \A i \in 1 .. Len(t) : Lead(kc, x, e, t[i]) =>
            i = 1 \/ \E j \in 1 .. Len(u) : Lead(kc, y, e, u[j])
      /\ \A i \in 1 .. Len(t) : Free(kc, x, e, t[i]) =>
            i = 1 \/ \E j \in 1 .. Len(u) : Free(kc, y, e, u[j])
  BY <1>5, <1>6
<1> QED BY <1>1, <1>4, <1>7 DEF Leads, Frees

(* A call keeps what is due to the pair and the marker of its entry.       *)
PairKept(w, k) ==
    \/ Due(k)' \/ grants'[k].pair = None
    \/ sf'[k] = [status |-> "active", pair |-> grants'[k].pair]
    \/ /\ grants'[k].pair = grants[k].pair /\ sf'[k] = sf[k]
       /\ Leads(work[w], grants[k]) => Leads(work'[w], grants'[k])
MarkKept(w, k) ==
    \/ Due(k)' \/ grants'[k].marker = None \/ sf'[k].status = "active"
    \/ /\ grants'[k].marker = grants[k].marker /\ sf'[k] = sf[k]
       /\ Frees(work[w], grants[k]) => Frees(work'[w], grants'[k])
BothKept(w) == PairKept(w, work[w].k) /\ MarkKept(w, work[w].k)

(* The entry is as it was, and the call at the head is replaced by what    *)
(* leads where it did.                                                     *)
LEMMA StayKept ==
  ASSUME Shape, NEW w \in Workers, Moves(w), work'[w].kc = work[w].kc, sf' = sf,
         NEW k, k = work[w].k, NEW e, e = grants[k], grants'[k] = e,
         work'[w].entry \in {work[w].entry, e},
         \/ e.pair = None \/ Leads(work'[w], e)
         \/ ~Reading(work[w].todo) /\ ~Lead(work[w].kc, work[w].entry, e, work[w].todo[1]),
         \/ e.marker = None \/ Frees(work'[w], e)
         \/ ~Reading(work[w].todo) /\ ~Free(work[w].kc, work[w].entry, e, work[w].todo[1])
  PROVE  BothKept(w)
<1>1. PairKept(w, k)
  BY LeadRest DEF PairKept
<1>2. MarkKept(w, k)
  BY LeadRest DEF MarkKept
<1> QED BY <1>1, <1>2 DEF BothKept

(* The calls that lead.                                                    *)
Leading == Fence \ {"catch", "settleStale", "delete", "save"}
(* A call of another kind leaves what the rest leads to.                   *)
LEMMA OpenKept ==
  ASSUME Shape, NEW w \in Workers, NEW d, At(w, d), d \notin Leading \cup {"save"}, Moves(w), Kept, sf' = sf,
         grants'[work[w].k] = grants[work[w].k]
  PROVE  BothKept(w)
<1>1. work[w].todo # <<>> /\ work[w].todo[1].do = d
  <2>1. work[w].todo \in Seq(Steps) /\ work[w].todo # <<>> /\ Head(work[w].todo).do = d
    BY DEF Shape, Working, Jobs, At
  <2> QED BY <2>1, TailFacts
<1>2. work'[w].kc = work[w].kc /\ work'[w].entry = work[w].entry
  <2>1. ~At(w, "save")
    BY DEF At
  <2> QED BY <2>1, MovesHas DEF Kept
<1>3. PICK k, e, s : k = work[w].k /\ e = grants[k] /\ s = work[w].todo[1]
  OBVIOUS
<1>4. \A kc, x : ~Lead(kc, x, e, s) /\ ~Free(kc, x, e, s)
  BY <1>1, <1>3 DEF Lead, Free, Leading, Fence
<1>5. ~Reading(work[w].todo)
  BY <1>1 DEF Reading, Leading, Fence
<1> QED BY <1>2, <1>3, <1>4, <1>5, StayKept

(* Such calls keep the entry read.                                         *)
LEMMA OpenRead ==
  ASSUME Shape, NEW w \in Workers,
         Revoke(w) \/ Regranted(w) \/ Snapshot(w) \/ SettleStale(w) \/ Pass(w)
  PROVE  Kept
<1>0. Working /\ sf \in Views
  BY DEF Shape, Around
<1>1. ASSUME NEW msgs, NEW steps,
             \/ Go(w, work[w], msgs, steps) \/ Skip(w)
             \/ \E s \in Contacts \cup {None} : Go(w, [work[w] EXCEPT !.by = s], msgs, steps)
             \/ Go(w, [work[w] EXCEPT !.view = sf], msgs, steps)
      PROVE  Kept
  BY <1>0, <1>1, GoSame, GoBy, GoView, SkipSame
<1>2. CASE Scan(w)
  BY <1>1, <1>2, JustifiersAre DEF Scan
<1>3. CASE Flush(w) \/ ClearMarker(w) \/ Pass(w) \/ Snapshot(w) \/ SettleStale(w) \/ ConfirmLive(w)
  BY <1>1, <1>3 DEF Flush, ClearMarker, Pass, Snapshot, SettleStale, ConfirmLive
<1>4. CASE Recheck(w) \/ Regranted(w) \/ Settle(w) \/ Reassert(w)
  BY <1>1, <1>4 DEF Recheck, Regranted, Settle, Reassert
<1>5. CASE Verify(w)
  BY <1>1, <1>5, JustifiersAre DEF Verify
<1>6. CASE Own(w)
  BY <1>1, <1>6 DEF Own
<1> QED BY <1>2, <1>3, <1>4, <1>5, <1>6 DEF Revoke

(* A call that is no failure and no end is done.                           *)
LEMMA RunMoved ==
  ASSUME Shape, NEW w \in Workers, NEW d, d # "fail", At(w, d), Run(w)
  PROVE  Moves(w) /\ work[w] \in Jobs /\ Sound(work[w]) /\ work[w].todo # <<>> /\ work[w].todo[1].do = d
<1>1. work[w] \in Jobs /\ Sound(work[w]) /\ work[w].todo # <<>> /\ Head(work[w].todo).do = d
  BY AtFacts DEF Shape
<1>2. ~Fails(w) /\ ~End(w)
  BY <1>1 DEF Fails, End, At
<1>3. work[w].todo \in Seq(Steps)
  BY <1>1 DEF Jobs
<1> QED BY <1>1, <1>2, <1>3, RunMoves, TailFacts

(* Calls of a revoke, and those that only read.                            *)
LEMMA RevokeKept ==
  ASSUME Shape, NEW w \in Workers, Guarded(w),
         \/ Scan(w) \/ Flush(w) \/ Recheck(w) \/ Verify(w) \/ ConfirmLive(w) \/ Settle(w) \/ Reassert(w)
         \/ Own(w) \/ Regranted(w) \/ Snapshot(w) \/ SettleStale(w) \/ Pass(w)
  PROVE  BothKept(w)
<1>1. Run(w) /\ Kept
  BY OpenRead DEF Run, Revoke, Grant, RevokeNoLongerLive
<1>2. PICK d \in {"scan", "scanLive", "scanQuick", "flush", "recheck", "verify", "confirmLive", "settle",
                  "reassert", "own", "regranted", "snapshot", "settleStale"} \cup Handlers : At(w, d)
  BY DEF Scan, Flush, Recheck, Verify, ConfirmLive, Settle, Reassert, Own, Regranted, Snapshot,
         SettleStale, Pass
<1>3. d \notin Leading \cup {"save", "fail"}
  BY DEF Leading, Fence, Handlers
<1>4. sf' = sf
  BY DEF Scan, Flush, Recheck, Verify, ConfirmLive, Settle, Reassert, Own, Regranted, Snapshot,
         SettleStale, Pass, local
<1>5. CASE grants' = grants
  BY <1>1, <1>2, <1>3, <1>4, <1>5, RunMoved, OpenKept
<1>6. CASE Own(w) /\ grants' # grants
  <2>1. PICK s : s # None /\ s = work[w].by /\ \E p, m : Name(s, p, m)
    BY <1>6 DEF Own, bucket
  <2>2. s # work[w].k /\ work[w].k \in Contacts
    BY <1>2, <2>1, AtGuard
  <2>3. grants'[work[w].k] = grants[work[w].k]
    BY <2>1, <2>2 DEF Name, Shape, Around
  <2> QED BY <1>1, <1>2, <1>3, <1>4, <2>3, RunMoved, OpenKept
<1> QED BY <1>5, <1>6 DEF Scan, Flush, Recheck, Verify, ConfirmLive, Settle, Reassert, Regranted,
         Snapshot, SettleStale, Pass, local, bucket

(* The step is one of the program.                                         *)
Within(s, t) == \E i \in 1 .. Len(t) : t[i] = s
(* Where a step is.                                                        *)
LEMMA WithinFacts ==
  /\ \A a, b \in Seq(Steps) : \A s : Within(s, a) \/ Within(s, b) => Within(s, a \o b)
  /\ \A d : Within(Step(d, None), Only(d))
  /\ \A d, p : Within(Step(d, p), For(<<d>>, p))
  /\ \A d, p : Step(d, p).do = d /\ Step(d, p).pair = p
<1>1. ASSUME NEW a \in Seq(Steps), NEW b \in Seq(Steps), NEW s, Within(s, a) \/ Within(s, b)
      PROVE  Within(s, a \o b)
  <2>1. PICK c : c = a \o b
    OBVIOUS
  <2>2. /\ Len(c) = Len(a) + Len(b) /\ Len(a) \in Nat /\ Len(b) \in Nat
        /\ \A i \in 1 .. Len(a) : i \in 1 .. Len(c) /\ c[i] = a[i]
        /\ \A i \in 1 .. Len(b) : c[Len(a) + i] = b[i]
    BY <2>1, ConcatFacts, ConcatEnd
  <2>3. CASE Within(s, a)
    BY <2>1, <2>2, <2>3 DEF Within
  <2>4. CASE Within(s, b)
    <3>1. PICK i \in 1 .. Len(b) : b[i] = s
      BY <2>4 DEF Within
    <3>2. Len(a) + i \in 1 .. Len(c)
      BY <2>2
    <3> QED BY <2>1, <2>2, <3>1, <3>2 DEF Within
  <2> QED BY <1>1, <2>3, <2>4
<1>2. ASSUME NEW s PROVE Within(s, <<s>>)
  BY DEF Within
<1>3. ASSUME NEW d PROVE Within(Step(d, None), Only(d))
  BY <1>2 DEF Only
<1>4. ASSUME NEW d, NEW p PROVE Within(Step(d, p), For(<<d>>, p))
  BY <1>2, OnlyIs
<1>5. \A d, p : Step(d, p).do = d /\ Step(d, p).pair = p
  BY DEF Step
<1> QED BY <1>1, <1>3, <1>4, <1>5

(* A call is replaced by calls that lead where it did.                     *)
LEMMA TurnKept ==
  ASSUME Shape, NEW w \in Workers, NEW d, d \notin {"save", "fail"}, At(w, d), Run(w),
         NEW job \in Jobs, job.todo = work[w].todo, job.kc = work[w].kc,
         NEW msgs, NEW steps \in Seq(Steps), Go(w, job, msgs, steps), sf' = sf,
         NEW e, e = grants[work[w].k], grants'[work[w].k] = e, job.entry \in {work[w].entry, e},
         \/ e.pair = None
         \/ \E s : Within(s, steps) /\ Lead(job.kc, job.entry, e, s)
         \/ d # "lookup" /\ \A s : s.do = d /\ s.pair = Pair(w) => ~Lead(work[w].kc, work[w].entry, e, s),
         \/ e.marker = None
         \/ \E s : Within(s, steps) /\ Free(job.kc, job.entry, e, s)
         \/ d # "lookup" /\ \A s : s.do = d /\ s.pair = Pair(w) => ~Free(work[w].kc, work[w].entry, e, s)
  PROVE  BothKept(w)
<1>1. Moves(w) /\ work[w].todo # <<>> /\ work[w].todo[1].do = d
  BY RunMoved
<1>2. work'[w].entry = job.entry /\ work'[w].kc = work[w].kc
  BY <1>1, GoHas DEF Shape
<1>3. work[w].todo[1].pair = Pair(w)
  <2>1. work[w].todo \in Seq(Steps)
    BY DEF Shape, Working, Jobs
  <2> QED BY <1>1, <2>1, TailFacts DEF Pair
<1>4. \A s : Within(s, steps) => /\ Lead(job.kc, job.entry, e, s) => Leads(work'[w], e)
                                 /\ Free(job.kc, job.entry, e, s) => Frees(work'[w], e)
  BY <1>1, LeadBy DEF Within
<1>5. ~Reading(work[w].todo) \/ d = "lookup"
  BY <1>1 DEF Reading
<1>6. \/ e.pair = None \/ Leads(work'[w], e)
      \/ ~Reading(work[w].todo) /\ ~Lead(work[w].kc, work[w].entry, e, work[w].todo[1])
  BY <1>1, <1>3, <1>4, <1>5
<1>7. \/ e.marker = None \/ Frees(work'[w], e)
      \/ ~Reading(work[w].todo) /\ ~Free(work[w].kc, work[w].entry, e, work[w].todo[1])
  BY <1>1, <1>3, <1>4, <1>5
<1> QED BY <1>1, <1>2, <1>6, <1>7, StayKept

(* The same in short: the steps lead where the call did, and free the       *)
(* marker where it did.                                                    *)
Led(w, d, x, steps) == LET e == Entry(w) IN
    \/ e.pair = None
    \/ \E s : Within(s, steps) /\ Lead(work[w].kc, x, e, s)
    \/ d # "lookup" /\ \A s : s.do = d /\ s.pair = Pair(w) => ~Lead(work[w].kc, work[w].entry, e, s)
Freeing(w, d, x, steps) == LET e == Entry(w) IN
    \/ e.marker = None
    \/ \E s : Within(s, steps) /\ Free(work[w].kc, x, e, s)
    \/ d # "lookup" /\ \A s : s.do = d /\ s.pair = Pair(w) => ~Free(work[w].kc, work[w].entry, e, s)

(* The job as it is.                                                       *)
LEMMA SameKept ==
  ASSUME Shape, NEW w \in Workers, NEW d, d \notin {"save", "fail"}, At(w, d), Run(w),
         NEW msgs, NEW steps \in Seq(Steps), Go(w, work[w], msgs, steps) , UNCHANGED local,
         Led(w, d, work[w].entry, steps), Freeing(w, d, work[w].entry, steps)
  PROVE  BothKept(w)
<1>1. work[w] \in Jobs
  BY DEF Shape, Working
<1>2. sf' = sf /\ grants' = grants
  BY DEF local, bucket
<1> QED BY <1>1, <1>2, TurnKept DEF Entry, Led, Freeing

(* A publish.                                                              *)
LEMMA PublishKept == ASSUME Shape, NEW w \in Workers, Publish(w) PROVE BothKept(w)
<1>1. At(w, "publish") /\ Run(w) /\ UNCHANGED local
  BY DEF Publish, Run, Grant
<1>2. PICK kc, x, e : kc = work[w].kc /\ x = work[w].entry /\ e = Entry(w)
  OBVIOUS
<1>3. CASE kc.status = "inactive"
  <2>1. PICK a, s : a = Only("inactive") /\ s = Step("inactive", None)
    OBVIOUS
  <2>2. a \in Seq(Steps) /\ Within(s, a) /\ s.do = "inactive"
    BY <2>1, WithinFacts, StepPrograms DEF Calls
  <2>3. Go(w, work[w], <<>>, a)
    BY <1>2, <1>3, <2>1 DEF Publish
  <2>4. Led(w, "publish", x, a) /\ Freeing(w, "publish", x, a)
    BY <2>2 DEF Lead, Free, Led, Freeing
  <2> QED BY <1>1, <1>2, <2>2, <2>3, <2>4, SameKept
<1>4. CASE kc.status # "inactive" /\ kc.pair = None
  <2>1. Go(w, work[w], <<>>, <<>>)
    BY <1>2, <1>4 DEF Publish, Skip
  <2>2. \A a : Led(w, "publish", x, a) /\ Freeing(w, "publish", x, a)
    BY <1>2, <1>4 DEF Lead, Free, Led, Freeing
  <2> QED BY <1>1, <1>2, <2>1, <2>2, StepPrograms, SameKept
<1>5. CASE kc.status # "inactive" /\ kc.pair # None
  <2>1. PICK a, s : a = For(<<"record">>, kc.pair) /\ s = Step("record", kc.pair)
    OBVIOUS
  <2>2. kc.pair \in PairOrNone /\ "record" \in Calls
    BY <1>1, <1>2, AtFacts, PairsOf DEF Shape, Calls
  <2>3. a \in Seq(Steps) /\ Within(s, a) /\ s.do = "record"
    BY <2>1, <2>2, WithinFacts, StepPrograms
  <2>4. Go(w, work[w], <<Put(kc.pair)>>, a)
    BY <1>2, <1>5, <2>1 DEF Publish
  <2>5. Led(w, "publish", x, a)
    BY <2>3 DEF Lead, Led
  <2>6. Freeing(w, "publish", x, a)
    BY <1>2, <1>5 DEF Free, Freeing
  <2> QED BY <1>1, <1>2, <2>3, <2>4, <2>5, <2>6, SameKept
<1> QED BY <1>3, <1>4, <1>5

(* The job with the entry it reads, or with the sibling found.             *)
LEMMA ReadKept ==
  ASSUME Shape, NEW w \in Workers, NEW d, d \notin {"save", "fail"}, At(w, d), Run(w),
         NEW msgs, NEW steps \in Seq(Steps), UNCHANGED local, NEW x,
         \/ x = Entry(w) /\ Go(w, [work[w] EXCEPT !.entry = Entry(w)], msgs, steps)
         \/ x = work[w].entry /\ \E s \in Contacts : Go(w, [work[w] EXCEPT !.by = s], msgs, steps),
         Led(w, d, x, steps), Freeing(w, d, x, steps)
  PROVE  BothKept(w)
<1>1. work[w] \in Jobs /\ sf' = sf /\ grants' = grants /\ work[w].k \in Contacts
  BY AtFacts DEF Shape, local, bucket
<1>2. Entry(w) \in Entries
  BY <1>1, EntryTyped DEF Shape
<1>3. PICK job \in Jobs : /\ job.todo = work[w].todo /\ job.kc = work[w].kc /\ job.entry = x
                          /\ Go(w, job, msgs, steps)
  <2>1. CASE x = Entry(w) /\ Go(w, [work[w] EXCEPT !.entry = Entry(w)], msgs, steps)
    <3>1. PICK job : job = [work[w] EXCEPT !.entry = Entry(w)]
      OBVIOUS
    <3>2. job \in Jobs /\ job.todo = work[w].todo /\ job.kc = work[w].kc /\ job.entry = x
      BY <1>1, <1>2, <2>1, <3>1 DEF Jobs
    <3> QED BY <2>1, <3>1, <3>2
  <2>2. ASSUME NEW s \in Contacts, x = work[w].entry, Go(w, [work[w] EXCEPT !.by = s], msgs, steps)
        PROVE  \E job \in Jobs : /\ job.todo = work[w].todo /\ job.kc = work[w].kc /\ job.entry = x
                                 /\ Go(w, job, msgs, steps)
    <3>1. PICK job : job = [work[w] EXCEPT !.by = s]
      OBVIOUS
    <3>2. job \in Jobs /\ job.todo = work[w].todo /\ job.kc = work[w].kc /\ job.entry = x
      BY <1>1, <2>2, <3>1 DEF Jobs
    <3> QED BY <2>2, <3>1, <3>2
  <2> QED BY <2>1, <2>2
<1>4. x \in {work[w].entry, Entry(w)}
  OBVIOUS
<1> QED BY <1>1, <1>3, <1>4, TurnKept DEF Entry, Led, Freeing

(* What the calls are replaced by has the calls that lead.                 *)
LEMMA WithinPrograms ==
  ASSUME NEW m \in PairOrNone
  PROVE  /\ Within(Step("clearMarker", m), RevokeSuperseded(m))
         /\ \A d \in Calls, a \in Seq(Steps) : a \o Only(d) \in Seq(Steps) /\ Within(Step(d, None), a \o Only(d))
<1>1. /\ Drain(m) \in Seq(Steps) /\ For(<<"clearMarker">>, m) \in Seq(Steps)
      /\ \A d \in Calls : Only(d) \in Seq(Steps)
      /\ \A a, b \in Seq(Steps) : a \o b \in Seq(Steps)
  BY StepPrograms DEF Calls
<1> QED BY <1>1, WithinFacts DEF RevokeSuperseded

(* An inactive record.                                                     *)
LEMMA InactiveKept == ASSUME Shape, NEW w \in Workers, Inactive(w) PROVE BothKept(w)
<1>1. At(w, "inactive") /\ Run(w) /\ UNCHANGED local
  BY DEF Inactive, Run, Grant
<1>2. PICK p, e, x : p = work[w].kc.pair /\ e = Entry(w) /\ x = work[w].entry
  OBVIOUS
<1>3. p \in PairOrNone /\ e.pair \in PairOrNone /\ e.marker \in PairOrNone
  BY <1>1, <1>2, AtFacts, PairsOf, EntryTyped DEF Shape
<1>4. PICK own, a, b :
        /\ own = For(<<"scan", "own">>, p)
        /\ a = WhenSet(e.marker, RevokeSuperseded(e.marker))
        /\ b = IF p # None /\ e.pair = None THEN own
               ELSE (IF p # None /\ e.pair # p THEN own ELSE <<>>) \o Only("expire")
  OBVIOUS
<1>5. Go(w, work[w], <<>>, a \o b)
  BY <1>2, <1>4, <1>1 DEF Inactive
<1>6. /\ own \in Seq(Steps) /\ RevokeSuperseded(e.marker) \in Seq(Steps) /\ <<>> \in Seq(Steps)
      /\ "expire" \in Calls
  BY <1>3, <1>4, StepPrograms DEF Calls
<1>7. a \in Seq(Steps) /\ b \in Seq(Steps)
  BY <1>3, <1>4, <1>6, WithinPrograms, WhenSteps
<1>8. /\ a \o b \in Seq(Steps)
      /\ \A s : Within(s, a) \/ Within(s, b) => Within(s, a \o b)
  BY <1>7, WithinFacts, StepPrograms
<1>9. Led(w, "inactive", x, a \o b)
  <2>1. CASE e.pair # None
    <3>1. PICK s : s = Step("expire", None)
      OBVIOUS
    <3>2. Within(s, b) /\ s.do = "expire"
      BY <1>3, <1>4, <1>6, <2>1, <3>1, WithinPrograms, WithinFacts
    <3> QED BY <1>8, <3>2 DEF Led, Lead
  <2> QED BY <1>2, <2>1 DEF Led
<1>10. Freeing(w, "inactive", x, a \o b)
  <2>1. CASE e.marker # None
    <3>1. PICK s : s = Step("clearMarker", e.marker)
      OBVIOUS
    <3>2. Within(s, a) /\ s.do = "clearMarker" /\ s.pair = e.marker
      BY <1>3, <1>4, <2>1, <3>1, WithinPrograms, WithinFacts DEF WhenSet
    <3> QED BY <1>2, <1>8, <3>2 DEF Freeing, Free
  <2> QED BY <1>2, <2>1 DEF Freeing
<1> QED BY <1>1, <1>2, <1>5, <1>8, <1>9, <1>10, SameKept

(* The entry is read.                                                      *)
LEMMA LookupKept == ASSUME Shape, NEW w \in Workers, Lookup(w) PROVE BothKept(w)
<1>1. At(w, "lookup") /\ Run(w) /\ sf' = sf /\ grants' = grants
  BY DEF Lookup, Run, local, bucket
<1>2. Moves(w) /\ work[w] \in Jobs /\ work[w].todo # <<>> /\ work[w].todo[1].do = "lookup"
  BY <1>1, RunMoved
<1>3. PICK k, e, t, u : k = work[w].k /\ e = grants[k] /\ t = work[w].todo /\ u = work'[w].todo
  OBVIOUS
<1>4. e \in Entries
  BY <1>1, <1>3, AtFacts DEF Shape, Around
<1>5. work'[w].entry = e /\ work'[w].kc = work[w].kc
  <2>1. PICK job : job = [work[w] EXCEPT !.entry = e]
    OBVIOUS
  <2>2. job \in Jobs /\ job.entry = e /\ job.kc = work[w].kc /\ job.todo = work[w].todo
    BY <1>2, <1>4, <2>1 DEF Jobs
  <2>3. Go(w, job, <<>>, <<>>)
    BY <1>3, <2>1 DEF Lookup, Entry
  <2> QED BY <1>2, <2>2, <2>3, GoHas, StepPrograms DEF Shape
<1>6. Reading(t) => Leads(work'[w], e) /\ Frees(work'[w], e)
  <2>1. ASSUME Reading(t) PROVE \E j \in 1 .. Len(u) : u[j].do = "withdraw"
    <3>1. PICK i \in 1 .. Len(t) : t[i].do = "withdraw"
      BY <2>1 DEF Reading
    <3>2. i \in 2 .. Len(t)
      <4>1. Len(t) \in Nat /\ i # 1
        BY <1>2, <1>3, <3>1 DEF Jobs
      <4> QED BY <4>1
    <3> QED BY <1>2, <1>3, <3>1, <3>2, MovesHas
  <2> QED BY <1>3, <1>5, <2>1 DEF Leads, Frees, Lead, Free
<1>7. /\ ~Lead(work[w].kc, work[w].entry, e, work[w].todo[1])
      /\ ~Free(work[w].kc, work[w].entry, e, work[w].todo[1])
  BY <1>2 DEF Lead, Free
<1> QED BY <1>1, <1>2, <1>3, <1>5, <1>6, <1>7, StayKept

(* The revoke of a record that is gone.                                    *)
LEMMA WithdrawKept == ASSUME Shape, NEW w \in Workers, Withdraw(w) PROVE BothKept(w)
<1>1. At(w, "withdraw") /\ Run(w) /\ UNCHANGED local
  BY DEF Withdraw, Run
<1>2. PICK e, x : e = Entry(w) /\ x = work[w].entry
  OBVIOUS
<1>3. x \in Entries /\ x.pair \in PairOrNone /\ x.marker \in PairOrNone
  BY <1>1, <1>2, AtFacts, PairsOf DEF Shape
<1>4. PICK a : a = IF x.pair = None THEN WhenSet(x.marker, RevokeConfirmed(x.marker) \o Only("erase"))
                   ELSE RevokeConfirmed(x.pair) \o Only("stop")
                        \o WhenSet(x.marker, RevokeConfirmed(x.marker) \o Only("keepMarker"))
                        \o Only("erase")
  OBVIOUS
<1>5. Go(w, work[w], <<>>, a)
  BY <1>2, <1>4 DEF Withdraw
<1>6. /\ \A p \in PairOrNone : RevokeConfirmed(p) \in Seq(Steps)
      /\ Only("stop") \in Seq(Steps) /\ Only("keepMarker") \in Seq(Steps) /\ "erase" \in Calls
      /\ \A b, c \in Seq(Steps) : b \o c \in Seq(Steps)
  BY StepPrograms DEF Calls
<1>7. PICK s : s = Step("erase", None)
  OBVIOUS
<1>8. a \in Seq(Steps) /\ ((x.pair # None \/ x.marker # None) => Within(s, a))
  <2>1. CASE x.pair = None
    <3>1. PICK b : b = RevokeConfirmed(x.marker) \o Only("erase")
      OBVIOUS
    <3>2. b \in Seq(Steps) /\ Within(s, b)
      BY <1>3, <1>6, <1>7, <3>1, WithinPrograms
    <3> QED BY <1>4, <2>1, <3>1, <3>2, StepPrograms DEF WhenSet
  <2>2. CASE x.pair # None
    <3>1. PICK b : b = RevokeConfirmed(x.pair) \o Only("stop")
                       \o WhenSet(x.marker, RevokeConfirmed(x.marker) \o Only("keepMarker"))
      OBVIOUS
    <3>2. b \in Seq(Steps)
      BY <1>3, <1>6, <3>1, WhenSteps
    <3>3. a = b \o Only("erase")
      BY <1>4, <2>2, <3>1
    <3> QED BY <1>3, <1>6, <1>7, <3>2, <3>3, WithinPrograms
  <2> QED BY <2>1, <2>2
<1>9. s.do = "erase"
  BY <1>7, WithinFacts
<1>10. Led(w, "withdraw", x, a)
  <2>1. CASE x = e
    BY <1>2, <1>8, <1>9, <2>1 DEF Led, Lead
  <2>2. CASE x # e
    BY <1>2, <2>2 DEF Led, Lead
  <2> QED BY <2>1, <2>2
<1>11. Freeing(w, "withdraw", x, a)
  <2>1. CASE x = e
    BY <1>2, <1>8, <1>9, <2>1 DEF Freeing, Free
  <2>2. CASE x # e
    BY <1>2, <2>2 DEF Freeing, Free
  <2> QED BY <2>1, <2>2
<1> QED BY <1>1, <1>2, <1>5, <1>8, <1>10, <1>11, SameKept

(* What the rest of a program leads to does not depend on the entry, if    *)
(* the call at its head brings in others.                                  *)
LEMMA RestLeads ==
  ASSUME Shape, NEW w \in Workers, NEW d \in Fence \ {"lookup", "save"}, At(w, d), Guarded(w), Fitting(w),
         Run(w), NEW e, NEW f
  PROVE  /\ Leads(work[w], e) => \/ Leads(work'[w], f)
                                 \/ Lead(work[w].kc, work[w].entry, e, work[w].todo[1])
         /\ Frees(work[w], e) => \/ Frees(work'[w], f)
                                 \/ Free(work[w].kc, work[w].entry, e, work[w].todo[1])
<1>1. PICK t, u, kc, x, y : /\ t = work[w].todo /\ u = work'[w].todo /\ kc = work[w].kc
                            /\ x = work[w].entry /\ y = work'[w].entry
  OBVIOUS
<1>2. Moves(w) /\ t \in Seq(Steps) /\ t # <<>> /\ t[1].do = d
  BY <1>1, RunMoved DEF Fence, Jobs
<1>3. work'[w].kc = kc
  <2>1. ~At(w, "save")
    BY DEF At
  <2> QED BY <1>1, <1>2, <2>1, MovesHas
<1>4. \A i \in 2 .. Len(t) : \E j \in 1 .. Len(u) : u[j] = t[i]
  BY <1>1, <1>2, MovesHas
<1>5. \A i \in 2 .. Len(t) : /\ Lead(kc, x, e, t[i]) => Lead(kc, y, f, t[i])
                             /\ Free(kc, x, e, t[i]) => Free(kc, y, f, t[i])
  BY <1>1, LeadBehind
<1>6. \A i \in 1 .. Len(t) : i = 1 \/ i \in 2 .. Len(t)
  <2>1. Len(t) \in Nat
    BY <1>2
  <2> QED BY <2>1
<1>7. ~Reading(t)
  BY <1>2 DEF Reading
<1>8. /\ \A i \in 1 .. Len(t) : Lead(kc, x, e, t[i]) => i = 1 \/ \E j \in 1 .. Len(u) : Lead(kc, y, f, u[j])
      /\ \A i \in 1 .. Len(t) : Free(kc, x, e, t[i]) => i = 1 \/ \E j \in 1 .. Len(u) : Free(kc, y, f, u[j])
  BY <1>4, <1>5, <1>6
<1> QED BY <1>1, <1>3, <1>7, <1>8 DEF Leads, Frees

(* The record or the write of a grant: its record justifies the pair.      *)
LEMMA NamedKept ==
  ASSUME Shape, NEW w \in Workers, Run(w), Apt(w), NEW d \in {"record", "write"}, At(w, d), sf' = sf,
         NEW k, k = work[w].k
  PROVE  /\ k \in Contacts
         /\ Due(k)' \/ sf'[k] = [status |-> "active", pair |-> Pair(w)]
         /\ grants'[k].pair = Pair(w) => BothKept(w)
<1>1. work[w] \in Jobs /\ work[w].k \in Contacts /\ work[w].todo # <<>> /\ Head(work[w].todo).do = d
  BY AtFacts DEF Shape
<1>2. PICK t : t = work[w].todo
  OBVIOUS
<1>3. /\ 1 \in 1 .. Len(t) /\ t[1].do = d /\ t[1].pair = Pair(w)
  <2>1. t \in Seq(Steps) /\ t # <<>>
    BY <1>1, <1>2 DEF Jobs
  <2> QED BY <1>1, <1>2, <2>1, TailFacts DEF Pair
<1>4. Due(k)' \/ sf'[k] = [status |-> "active", pair |-> Pair(w)]
  <2>1. k # None /\ faults' = faults
    BY <1>1, <1>2, GrantAssumption, RunFaults
  <2>2. Due(k) \/ Serves(k, t[1].pair)
    BY <1>2, <1>3, <2>1 DEF Apt, Makes
  <2>3. Due(k) => Due(k)'
    BY <2>1, RunDue
  <2> QED BY <1>3, <2>2, <2>3 DEF Serves
<1>5. grants'[k].pair = Pair(w) => PairKept(w, k)
  BY <1>4 DEF PairKept
<1>6. MarkKept(w, k)
  <2>1. PICK r : r = [status |-> "active", pair |-> Pair(w)]
    OBVIOUS
  <2>2. r.status = "active"
    BY <2>1
  <2>3. Due(k)' \/ sf'[k].status = "active"
    <3>1. Due(k)' \/ sf'[k] = r
      BY <1>4, <2>1
    <3> QED BY <2>2, <3>1
  <2> QED BY <2>3 DEF MarkKept
<1>7. grants'[k].pair = Pair(w) => BothKept(w)
  BY <1>2, <1>5, <1>6 DEF BothKept
<1> QED BY <1>1, <1>2, <1>4, <1>7

(* A name comes to stand in the entry.                                     *)
LEMMA NameHas ==
  ASSUME Around, NEW k \in Contacts, NEW p, NEW m, Name(k, p, m) \/ Rewrite(k, p, m)
  PROVE  grants'[k].pair = p /\ grants'[k].marker = m
<1>1. PICK n : n = [pair |-> p, marker |-> m, rev |-> revision + 1]
  OBVIOUS
<1>2. grants' = [grants EXCEPT ![k] = n] /\ n.pair = p /\ n.marker = m
  BY <1>1 DEF Name, Rewrite
<1> QED BY <1>2 DEF Around

(* The record of a grant.                                                  *)
LEMMA RecordKept == ASSUME Shape, NEW w \in Workers, Record(w), Apt(w) PROVE BothKept(w)
<1>1. At(w, "record") /\ Run(w) /\ sf' = sf
  BY DEF Record, Run, Grant
<1>2. PICK k, p, e : k = work[w].k /\ p = Pair(w) /\ e = Entry(w)
  OBVIOUS
<1>3. k \in Contacts /\ (grants'[k].pair = p => BothKept(w))
  BY <1>1, <1>2, NamedKept
<1>4. CASE \E m : Name(k, p, m)
  BY <1>2, <1>3, <1>4, NameHas DEF Shape
<1>5. CASE ~\E m : Name(k, p, m)
  <2>1. PICK a, b : a = Drain(e.marker) /\ b = For(<<"write">>, p)
    OBVIOUS
  <2>2. /\ Go(w, [work[w] EXCEPT !.entry = Entry(w)], <<>>, a \o b) /\ UNCHANGED bucket
        /\ e.pair # p
    BY <1>2, <1>5, <2>1 DEF Record
  <2>3. UNCHANGED local
    BY <1>2, <2>2 DEF Record, local, ledger
  <2>4. a \in Seq(Steps) /\ b \in Seq(Steps)
    <3>1. e.marker \in PairOrNone /\ p \in PairOrNone
      BY <1>1, <1>2, <1>3, AtFacts, EntryTyped DEF Shape
    <3> QED BY <2>1, <3>1, StepPrograms DEF Calls
  <2>5. PICK s : s = Step("write", p)
    OBVIOUS
  <2>6. a \o b \in Seq(Steps) /\ Within(s, a \o b) /\ s.do = "write"
    BY <2>1, <2>4, <2>5, WithinFacts, StepPrograms
  <2>7. Led(w, "record", e, a \o b)
    BY <2>6 DEF Led, Lead
  <2>8. Freeing(w, "record", e, a \o b)
    BY DEF Freeing, Free
  <2> QED BY <1>1, <1>2, <2>2, <2>3, <2>6, <2>7, <2>8, ReadKept
<1> QED BY <1>4, <1>5

(* The write that waited for the marker.                                   *)
LEMMA WriteKept == ASSUME Shape, NEW w \in Workers, Write(w), Apt(w) PROVE BothKept(w)
<1>1. At(w, "write") /\ Run(w) /\ sf' = sf
  BY DEF Write, Run, Grant
<1>2. PICK k, p, e, x : k = work[w].k /\ p = Pair(w) /\ e = Entry(w) /\ x = work[w].entry
  OBVIOUS
<1>3. k \in Contacts /\ (grants'[k].pair = p => BothKept(w))
  BY <1>1, <1>2, NamedKept
<1>4. CASE e.rev = x.rev
  <2>1. Name(k, p, x.pair)
    BY <1>2, <1>4 DEF Write
  <2> QED BY <1>3, <2>1, NameHas DEF Shape
<1>5. CASE e.rev # x.rev
  <2>1. PICK a, s : a = For(<<"record">>, p) /\ s = Step("record", p)
    OBVIOUS
  <2>2. Go(w, work[w], <<>>, a) /\ UNCHANGED local
    BY <1>2, <1>5, <2>1 DEF Write, local
  <2>3. p \in PairOrNone
    BY <1>1, <1>2, AtFacts DEF Shape
  <2>4. a \in Seq(Steps) /\ Within(s, a) /\ s.do = "record"
    BY <2>1, <2>3, WithinFacts, StepPrograms DEF Calls
  <2>5. Led(w, "write", x, a)
    BY <2>4 DEF Led, Lead
  <2>6. Freeing(w, "write", x, a)
    BY DEF Freeing, Free
  <2> QED BY <1>1, <1>2, <2>2, <2>4, <2>5, <2>6, SameKept
<1> QED BY <1>4, <1>5

(* The entry is read, and its pair looked for.                             *)
LEMMA ExpireKept == ASSUME Shape, NEW w \in Workers, Expire(w) PROVE BothKept(w)
<1>1. PICK d \in {"expire", "expireLive"} :
        /\ At(w, d)
        /\ Go(w, [work[w] EXCEPT !.entry = Entry(w)], <<>>,
              IF Entry(w).pair = None THEN <<>>
              ELSE For(<<IF d = "expire" THEN "justify" ELSE "justifyLive">>, Entry(w).pair))
        /\ UNCHANGED local
  BY DEF Expire
<1>2. PICK e, f : e = Entry(w) /\ f = IF d = "expire" THEN "justify" ELSE "justifyLive"
  OBVIOUS
<1>3. PICK a : a = IF e.pair = None THEN <<>> ELSE For(<<f>>, e.pair)
  OBVIOUS
<1>4. Go(w, [work[w] EXCEPT !.entry = Entry(w)], <<>>, a)
  BY <1>1, <1>2, <1>3
<1>5. f \in {"justify", "justifyLive"} /\ f \in Calls /\ e.pair \in PairOrNone
  BY <1>1, <1>2, AtFacts, EntryTyped DEF Shape, Calls
<1>6. a \in Seq(Steps)
  BY <1>3, <1>5, StepPrograms
<1>7. Led(w, d, e, a)
  <2>1. CASE e.pair # None
    <3>1. PICK s : s = Step(f, e.pair)
      OBVIOUS
    <3>2. Within(s, a) /\ s.do = f
      BY <1>3, <2>1, <3>1, WithinFacts
    <3> QED BY <1>2, <1>5, <3>2 DEF Led, Lead
  <2> QED BY <1>2, <2>1 DEF Led
<1>8. Freeing(w, d, e, a)
  BY <1>1 DEF Freeing, Free
<1>9. Run(w) /\ d \notin {"save", "fail"}
  BY DEF Run, RevokeNoLongerLive
<1> QED BY <1>1, <1>2, <1>4, <1>6, <1>7, <1>8, <1>9, ReadKept

(* The look for a record that justifies the pair of the entry.             *)
LEMMA JustifyKept == ASSUME Shape, NEW w \in Workers, Justify(w) PROVE BothKept(w)
<1>1. PICK d \in {"justify", "justifyLive"} :
        /\ At(w, d) /\ UNCHANGED local
        /\ \/ \E view : \E s \in Justifiers(view, Pair(w), work[w].k) :
                Go(w, [work[w] EXCEPT !.by = s], <<>>, For(<<"own">>, Pair(w)) \o Only("clear"))
           \/ Go(w, work[w], <<>>, Only("claim"))
  BY DEF Justify
<1>2. PICK x, p, e : x = work[w].entry /\ p = Pair(w) /\ e = Entry(w)
  OBVIOUS
<1>3. Run(w) /\ d \notin {"save", "fail", "lookup"} /\ p \in PairOrNone
  BY <1>1, <1>2, AtFacts DEF Run, RevokeNoLongerLive, Shape
<1>4. ASSUME NEW a, NEW s, Within(s, a), s.do \in {"clear", "claim"}
      PROVE  Led(w, d, x, a) /\ Freeing(w, d, x, a)
  <2>1. CASE x = e
    BY <1>2, <1>4, <2>1, <1>1 DEF Led, Freeing, Lead, Free
  <2>2. CASE x # e
    BY <1>2, <1>3, <2>2, <1>1 DEF Led, Freeing, Lead, Free
  <2> QED BY <2>1, <2>2
<1>5. CASE Go(w, work[w], <<>>, Only("claim"))
  <2>1. PICK a, s : a = Only("claim") /\ s = Step("claim", None)
    OBVIOUS
  <2>2. a \in Seq(Steps) /\ Within(s, a) /\ s.do = "claim"
    BY <2>1, StepPrograms, WithinFacts DEF Calls
  <2>3. Go(w, work[w], <<>>, a)
    BY <1>5, <2>1
  <2>4. Led(w, d, x, a) /\ Freeing(w, d, x, a)
    BY <1>4, <2>2
  <2> QED BY <1>1, <1>2, <1>3, <2>2, <2>3, <2>4, SameKept
<1>6. CASE \E view : \E s \in Justifiers(view, Pair(w), work[w].k) :
             Go(w, [work[w] EXCEPT !.by = s], <<>>, For(<<"own">>, Pair(w)) \o Only("clear"))
  <2>1. PICK b, s : b = For(<<"own">>, p) /\ s = Step("clear", None)
    OBVIOUS
  <2>2. PICK a : a = b \o Only("clear")
    OBVIOUS
  <2>3. b \in Seq(Steps) /\ "clear" \in Calls
    BY <1>3, <2>1, StepPrograms DEF Calls
  <2>4. a \in Seq(Steps) /\ Within(s, a) /\ s.do = "clear"
    BY <2>1, <2>2, <2>3, WithinPrograms, WithinFacts DEF PairOrNone
  <2>5. \E r \in Contacts : Go(w, [work[w] EXCEPT !.by = r], <<>>, a)
    BY <1>2, <1>6, <2>1, <2>2, JustifiersAre
  <2>6. Led(w, d, x, a) /\ Freeing(w, d, x, a)
    BY <1>4, <2>4
  <2> QED BY <1>1, <1>2, <1>3, <2>4, <2>5, <2>6, ReadKept
<1> QED BY <1>1, <1>5, <1>6

(* What follows the remove compares what it reads with the claim.          *)
LEMMA ComparePrograms ==
  ASSUME NEW p \in PairOrNone
  PROVE  \E a, s : /\ a = Only("flush") \o For(<<"regranted", "compare">>, p)
                   /\ a \in Seq(Steps) /\ Within(s, a) /\ s.do = "compare"
<1>1. PICK ds : ds = <<"regranted", "compare">>
  OBVIOUS
<1>2. PICK b : b = For(ds, p)
  OBVIOUS
<1>3. Only("flush") \in Seq(Steps) /\ b \in Seq(Steps)
  BY <1>1, <1>2, StepPrograms DEF Calls
<1>4. Len(ds) = 2 /\ DOMAIN ds = 1 .. 2 /\ ds[2] = "compare"
  BY <1>1
<1>5. DOMAIN b = 1 .. 2 /\ b[2] = Step("compare", p)
  BY <1>2, <1>4 DEF For
<1>6. Len(b) = 2
  BY <1>3, <1>5
<1>7. Within(Step("compare", p), b)
  BY <1>5, <1>6 DEF Within
<1>8. PICK a : a = Only("flush") \o b
  OBVIOUS
<1>9. a \in Seq(Steps) /\ Within(Step("compare", p), a) /\ Step("compare", p).do = "compare"
  BY <1>3, <1>7, <1>8, WithinFacts, StepPrograms
<1> QED BY <1>1, <1>2, <1>8, <1>9

(* The pair is claimed.                                                    *)
LEMMA ClaimedKept == ASSUME Shape, NEW w \in Workers, Claimed(w) PROVE BothKept(w)
<1>1. At(w, "claimed") /\ Run(w) /\ UNCHANGED local
  BY DEF Claimed, Run, RevokeNoLongerLive
<1>2. PICK e, x, p : e = Entry(w) /\ x = work[w].entry /\ p = x.pair
  OBVIOUS
<1>3. CASE e = Absent
  <2>1. e.pair = None /\ e.marker = None
    BY <1>3 DEF Absent
  <2>2. PICK a : a = Only("fail")
    OBVIOUS
  <2>3. Go(w, work[w], <<>>, a) /\ a \in Seq(Steps)
    BY <1>2, <1>3, <2>2, StepPrograms DEF Claimed, Calls
  <2>4. Led(w, "claimed", x, a) /\ Freeing(w, "claimed", x, a)
    BY <1>2, <2>1 DEF Led, Freeing
  <2> QED BY <1>1, <1>2, <2>3, <2>4, SameKept
<1>4. \A a : Freeing(w, "claimed", e, a) /\ Freeing(w, "claimed", x, a)
  BY DEF Freeing, Free
<1>5. CASE e # Absent /\ e.pair # p
  <2>1. Go(w, work[w], <<>>, <<>>)
    BY <1>2, <1>5 DEF Claimed, Skip
  <2>2. \A a : Led(w, "claimed", x, a)
    BY <1>2, <1>5 DEF Led, Lead
  <2> QED BY <1>1, <1>2, <1>4, <2>1, <2>2, StepPrograms, SameKept
<1>6. CASE e # Absent /\ e.pair = p
  <2>1. p \in PairOrNone
    BY <1>1, <1>2, <1>6, AtFacts, EntryTyped DEF Shape
  <2>2. PICK a, s : /\ a = Only("flush") \o For(<<"regranted", "compare">>, p)
                    /\ a \in Seq(Steps) /\ Within(s, a) /\ s.do = "compare"
    BY <2>1, ComparePrograms
  <2>3. Go(w, [work[w] EXCEPT !.entry = Entry(w)], <<Remove(p)>>, a)
    BY <1>2, <1>6, <2>2 DEF Claimed
  <2>4. Led(w, "claimed", e, a)
    BY <1>2, <2>2 DEF Led, Lead
  <2> QED BY <1>1, <1>2, <1>4, <2>2, <2>3, <2>4, ReadKept
<1> QED BY <1>3, <1>5, <1>6

(* A write of the entry that leaves its pair, or takes it away; and the    *)
(* same for the marker.                                                    *)
LEMMA TouchKept ==
  ASSUME Shape, NEW w \in Workers, NEW d \in Fence \ {"lookup", "save"}, At(w, d), Guarded(w), Fitting(w),
         Run(w), sf' = sf, NEW k, k = work[w].k, NEW e, e = grants[k], NEW f, f = grants'[k],
         \/ f.pair = None
         \/ /\ f.pair = e.pair
            /\ \/ Leads(work'[w], f)
               \/ \A s : s.do = d /\ s.pair = Pair(w) => ~Lead(work[w].kc, work[w].entry, e, s),
         \/ f.marker = None
         \/ /\ f.marker = e.marker
            /\ \/ Frees(work'[w], f)
               \/ \A s : s.do = d /\ s.pair = Pair(w) => ~Free(work[w].kc, work[w].entry, e, s)
  PROVE  BothKept(w)
<1>1. work[w].todo # <<>> /\ work[w].todo[1].do = d /\ work[w].todo[1].pair = Pair(w)
  BY AtGuard
<1>2. PairKept(w, k)
  <2>1. CASE f.pair = None
    BY <2>1 DEF PairKept
  <2>2. CASE f.pair = e.pair
    <3>1. Leads(work[w], e) => \/ Leads(work'[w], f)
                               \/ Lead(work[w].kc, work[w].entry, e, work[w].todo[1])
      BY RestLeads
    <3>2. f.pair # None => (Leads(work[w], e) => Leads(work'[w], f))
      BY <1>1, <3>1
    <3> QED BY <2>2, <3>2 DEF PairKept
  <2> QED BY <2>1, <2>2
<1>3. MarkKept(w, k)
  <2>1. CASE f.marker = None
    BY <2>1 DEF MarkKept
  <2>2. CASE f.marker = e.marker
    <3>1. Frees(work[w], e) => \/ Frees(work'[w], f)
                               \/ Free(work[w].kc, work[w].entry, e, work[w].todo[1])
      BY RestLeads
    <3>2. f.marker # None => (Frees(work[w], e) => Frees(work'[w], f))
      BY <1>1, <3>1
    <3> QED BY <2>2, <3>2 DEF MarkKept
  <2> QED BY <2>1, <2>2
<1> QED BY <1>2, <1>3 DEF BothKept

(* The entry is gone.                                                      *)
LEMMA GoneKept ==
  ASSUME Around, NEW k \in Contacts, Erase(k)
  PROVE  grants'[k].pair = None /\ grants'[k].marker = None
<1>1. grants' = [grants EXCEPT ![k] = Absent]
  BY DEF Erase
<1>2. grants'[k] = Absent
  BY <1>1 DEF Around
<1> QED BY <1>2 DEF Absent

(* An entry that is not there names nothing.                               *)
LEMMA AbsentKept ==
  ASSUME NEW w \in Workers, Entry(w) = Absent, NEW d, NEW x, NEW a
  PROVE  Led(w, d, x, a) /\ Freeing(w, d, x, a)
<1>1. Entry(w).pair = None /\ Entry(w).marker = None
  BY DEF Absent
<1> QED BY <1>1 DEF Led, Freeing

(* The claim.                                                              *)
LEMMA ClaimKept ==
  ASSUME ReadInv, Zero, NEW w \in Workers, Claim(w), Guarded(w), Fitting(w)
  PROVE  BothKept(w)
<1>0. Shape
  BY DEF ReadInv
<1>1. At(w, "claim") /\ Run(w) /\ sf' = sf /\ "claim" \in Fence \ {"lookup", "save"}
  BY DEF Claim, Run, RevokeNoLongerLive, Fence
<1>2. PICK k, e, x : k = work[w].k /\ e = Entry(w) /\ x = work[w].entry
  OBVIOUS
<1>3. k \in Contacts /\ work[w] \in Jobs /\ work[w].todo # <<>>
  BY <1>0, <1>1, <1>2, AtFacts DEF Shape
<1>4. CASE e.rev = x.rev
  <2>1. e = x
    BY <1>2, <1>3, <1>4, EntryRead
  <2>2. Rewrite(k, x.pair, x.marker) /\ Go(w, work[w], <<>>, Only("claimed"))
    BY <1>2, <1>4 DEF Claim
  <2>3. PICK f : f = grants'[k]
    OBVIOUS
  <2>4. f.pair = e.pair /\ f.marker = e.marker
    BY <1>0, <1>3, <2>1, <2>2, <2>3, NameHas DEF Shape
  <2>5. Leads(work'[w], f)
    <3>1. PICK a : a = Only("claimed")
      OBVIOUS
    <3>2. a \in Seq(Steps) /\ 1 \in 1 .. Len(a) /\ a[1].do = "claimed"
      BY <3>1, StepPrograms, OnlyIs DEF Calls
    <3>3. Lead(work[w].kc, work[w].entry, f, a[1])
      BY <1>2, <2>1, <2>4, <3>2 DEF Lead
    <3> QED BY <1>0, <1>3, <2>2, <3>1, <3>2, <3>3, LeadBy
  <2>6. \A s : s.do = "claim" => ~Free(work[w].kc, work[w].entry, e, s)
    BY DEF Free
  <2> QED BY <1>0, <1>1, <1>2, <2>3, <2>4, <2>5, <2>6, TouchKept DEF Entry
<1>5. CASE e.rev # x.rev
  <2>1. Go(w, work[w], <<>>, <<>>) /\ UNCHANGED local
    BY <1>2, <1>5 DEF Claim, Skip, local
  <2>2. \A a : Led(w, "claim", x, a) /\ Freeing(w, "claim", x, a)
    BY <1>2, <1>5 DEF Led, Lead, Freeing, Free
  <2> QED BY <1>0, <1>1, <1>2, <2>1, <2>2, StepPrograms, SameKept
<1> QED BY <1>4, <1>5

(* The claim is compared with what stands in the bucket.                   *)
LEMMA CompareKept == ASSUME Shape, NEW w \in Workers, Compare(w) PROVE BothKept(w)
<1>1. At(w, "compare") /\ Run(w) /\ UNCHANGED local
  BY DEF Compare, Run, RevokeNoLongerLive
<1>2. PICK e, x : e = Entry(w) /\ x = work[w].entry
  OBVIOUS
<1>3. \A a : Freeing(w, "compare", x, a)
  BY DEF Freeing, Free
<1>4. CASE e = Absent
  <2>1. Go(w, work[w], <<>>, <<>>)
    BY <1>2, <1>4 DEF Compare, Skip
  <2>2. \A a : Led(w, "compare", x, a)
    BY <1>2, <1>4, AbsentKept
  <2> QED BY <1>1, <1>2, <1>3, <2>1, <2>2, StepPrograms, SameKept
<1>5. CASE e # Absent /\ e.rev # x.rev
  <2>1. \A a : Led(w, "compare", x, a)
    BY <1>2, <1>5 DEF Led, Lead
  <2>2. <<>> \in Seq(Steps) /\ Only("flush") \in Seq(Steps)
    BY StepPrograms DEF Calls
  <2>3. Go(w, work[w], <<>>, <<>>) \/ Go(w, work[w], <<Put(Pair(w))>>, Only("flush"))
    BY <1>2, <1>5 DEF Compare, Skip
  <2>4. PICK a, msgs : a \in Seq(Steps) /\ Go(w, work[w], msgs, a)
    BY <2>2, <2>3
  <2> QED BY <1>1, <1>2, <1>3, <2>1, <2>4, SameKept
<1>6. CASE e # Absent /\ e.rev = x.rev
  <2>1. PICK a, s : a = Only("clear") /\ s = Step("clear", None)
    OBVIOUS
  <2>2. a \in Seq(Steps) /\ Within(s, a) /\ s.do = "clear"
    BY <2>1, WithinFacts, StepPrograms DEF Calls
  <2>3. Go(w, work[w], <<>>, a)
    BY <1>2, <1>6, <2>1 DEF Compare
  <2>4. Led(w, "compare", x, a)
    BY <1>2, <2>2 DEF Led, Lead
  <2> QED BY <1>1, <1>2, <1>3, <2>2, <2>3, <2>4, SameKept
<1> QED BY <1>4, <1>5, <1>6

(* The pair of the entry goes, once it is revoked.                         *)
LEMMA ClearKept ==
  ASSUME ReadInv, Zero, NEW w \in Workers, Clear(w), Guarded(w), Fitting(w)
  PROVE  BothKept(w)
<1>0. Shape
  BY DEF ReadInv
<1>1. At(w, "clear") /\ Run(w) /\ sf' = sf /\ "clear" \in Fence \ {"lookup", "save"}
  BY DEF Clear, Run, RevokeNoLongerLive, Fence
<1>2. PICK k, e, x : k = work[w].k /\ e = Entry(w) /\ x = work[w].entry
  OBVIOUS
<1>3. k \in Contacts
  BY <1>0, <1>1, <1>2, AtFacts DEF Shape
<1>4. \A s : s.do = "clear" => ~Free(work[w].kc, work[w].entry, e, s)
  BY DEF Free
<1>5. CASE e.rev # x.rev \/ x.rev = 0
  <2>1. Go(w, work[w], <<>>, <<>>) /\ UNCHANGED local
    BY <1>2, <1>5 DEF Clear, Skip, local
  <2>2. e.rev # x.rev \/ Entry(w) = Absent
    BY <1>2, <1>3, <1>5 DEF Zero, Entry
  <2>3. \A a : Led(w, "clear", x, a) /\ Freeing(w, "clear", x, a)
    <3>1. CASE e.rev # x.rev
      BY <1>2, <3>1 DEF Led, Lead, Freeing, Free
    <3> QED BY <2>2, <3>1, AbsentKept
  <2> QED BY <1>0, <1>1, <1>2, <2>1, <2>3, StepPrograms, SameKept
<1>6. CASE e.rev = x.rev /\ x.rev # 0
  <2>1. e = x
    BY <1>2, <1>3, <1>6, EntryRead
  <2>2. PICK f : f = grants'[k]
    OBVIOUS
  <2>3. Rewrite(k, None, x.marker) \/ Erase(k)
    BY <1>2, <1>6 DEF Clear
  <2>4. f.pair = None /\ f.marker \in {None, e.marker}
    BY <1>0, <1>3, <2>1, <2>2, <2>3, NameHas, GoneKept DEF Shape
  <2> QED BY <1>0, <1>1, <1>2, <1>4, <2>2, <2>4, TouchKept DEF Entry
<1> QED BY <1>5, <1>6

(* The entry goes, once what it names is revoked.                          *)
LEMMA EraseKept ==
  ASSUME Shape, NEW w \in Workers, EraseEntry(w), Guarded(w), Fitting(w)
  PROVE  BothKept(w)
<1>1. At(w, "erase") /\ Run(w) /\ sf' = sf /\ "erase" \in Fence \ {"lookup", "save"}
  BY DEF EraseEntry, Run, Fence
<1>2. PICK k, e, x : k = work[w].k /\ e = Entry(w) /\ x = work[w].entry
  OBVIOUS
<1>3. k \in Contacts
  BY <1>1, <1>2, AtFacts DEF Shape
<1>4. CASE e.rev # x.rev \/ e = Absent
  <2>1. Go(w, work[w], <<>>, <<>>) /\ UNCHANGED local
    BY <1>2, <1>4 DEF EraseEntry, Skip, local
  <2>2. \A a : Led(w, "erase", x, a) /\ Freeing(w, "erase", x, a)
    <3>1. CASE e.rev # x.rev
      BY <1>2, <3>1 DEF Led, Lead, Freeing, Free
    <3> QED BY <1>2, <1>4, <3>1, AbsentKept
  <2> QED BY <1>1, <1>2, <2>1, <2>2, StepPrograms, SameKept
<1>5. CASE ~(e.rev # x.rev \/ e = Absent)
  <2>1. PICK f : f = grants'[k]
    OBVIOUS
  <2>2. Erase(k)
    BY <1>2, <1>5 DEF EraseEntry
  <2>3. f.pair = None /\ f.marker = None
    BY <1>3, <2>1, <2>2, GoneKept DEF Shape
  <2> QED BY <1>1, <1>2, <2>1, <2>3, TouchKept DEF Entry
<1> QED BY <1>4, <1>5

(* The marker goes, once it is revoked.                                    *)
LEMMA MarkerKept ==
  ASSUME Shape, NEW w \in Workers, ClearMarker(w), Guarded(w), Fitting(w)
  PROVE  BothKept(w)
<1>1. At(w, "clearMarker") /\ Run(w) /\ sf' = sf /\ "clearMarker" \in Fence \ {"lookup", "save"}
  BY DEF ClearMarker, Run, Revoke, Fence
<1>2. PICK k, e, x : k = work[w].k /\ e = Entry(w) /\ x = work[w].entry
  OBVIOUS
<1>3. k \in Contacts
  BY <1>1, <1>2, AtFacts DEF Shape
<1>4. \A s : s.do = "clearMarker" => ~Lead(work[w].kc, work[w].entry, e, s)
  BY DEF Lead
<1>5. CASE e.marker # Pair(w)
  <2>1. Go(w, work[w], <<>>, <<>>) /\ UNCHANGED local
    BY <1>2, <1>5 DEF ClearMarker, Skip, local
  <2>2. \A a : Led(w, "clearMarker", x, a) /\ Freeing(w, "clearMarker", x, a)
    BY <1>2, <1>4, <1>5 DEF Led, Freeing, Free
  <2> QED BY <1>1, <1>2, <2>1, <2>2, StepPrograms, SameKept
<1>6. CASE e.marker = Pair(w)
  <2>1. PICK f : f = grants'[k]
    OBVIOUS
  <2>2. Rewrite(k, e.pair, None) \/ Erase(k)
    BY <1>2, <1>6 DEF ClearMarker
  <2>3. f.marker = None /\ f.pair \in {None, e.pair}
    BY <1>3, <2>1, <2>2, NameHas, GoneKept DEF Shape
  <2> QED BY <1>1, <1>2, <1>4, <2>1, <2>3, TouchKept DEF Entry
<1> QED BY <1>5, <1>6

(* A save leaves an event of its record.                                   *)
LEMMA SavedKept ==
  ASSUME Shape, NEW w \in Workers, Run(w), ~End(w), NEW rec \in Records, Save(work[w].k, rec)
  PROVE  BothKept(w)
<1>1. PICK k : k = work[w].k
  OBVIOUS
<1>2. Due(k)'
  <2>1. work'[w].k = k
    BY <1>1, CallKeeps
  <2>2. Due(work[w].k)'
    BY CallSaves
  <2> QED BY <2>1, <2>2 DEF Due
<1>3. PairKept(w, k) /\ MarkKept(w, k)
  BY <1>2 DEF PairKept, MarkKept
<1> QED BY <1>1, <1>3 DEF BothKept

(* The save of an update.                                                  *)
LEMMA UpdateKept ==
  ASSUME Shape, NEW w \in Workers, SaveUpdate(w), Fitting(w)
  PROVE  BothKept(w)
<1>1. At(w, "save") /\ Run(w) /\ grants' = grants
  BY DEF SaveUpdate, Run, bucket
<1>2. work[w].todo # <<>> /\ work[w].todo \in Seq(Steps)
  BY <1>1, AtFacts DEF Shape, Jobs
<1>3. CASE sf[work[w].k] # Gone
  <2>1. PICK new \in Live : Save(work[w].k, new)
    BY <1>3 DEF SaveUpdate
  <2>2. ~End(w)
    BY <1>2 DEF End
  <2> QED BY <1>1, <2>1, <2>2, SavedKept, LiveAre
<1>4. CASE sf[work[w].k] = Gone
  <2>1. sf' = sf
    BY <1>4 DEF SaveUpdate
  <2>2. ~Fits(w)
    BY <1>1, HeadSure DEF Shape
  <2>3. PICK t, s : t = work[w].todo /\ s = Step("save", None) /\ t = <<s>> /\ s.do = "save"
    BY <2>2, OnlyIs DEF Fitting, Saving
  <2>4. \A e : ~Leads(work[w], e) /\ ~Frees(work[w], e)
    <3>1. Len(t) = 1 /\ t[1] = s /\ 1 .. Len(t) = {1}
      BY <2>3
    <3>2. ~Reading(t) /\ \A kc, x, e : \A i \in 1 .. Len(t) : ~Lead(kc, x, e, t[i]) /\ ~Free(kc, x, e, t[i])
      BY <2>3, <3>1 DEF Reading, Lead, Free
    <3> QED BY <2>3, <3>2 DEF Leads, Frees
  <2> QED BY <1>1, <2>1, <2>4 DEF BothKept, PairKept, MarkKept
<1> QED BY <1>3, <1>4

(* The delete.                                                             *)
LEMMA DeletedKept == ASSUME Shape, NEW w \in Workers, DeleteRecord(w) PROVE BothKept(w)
<1>1. At(w, "delete") /\ Run(w)
  BY DEF DeleteRecord, Run
<1>2. CASE sf[work[w].k] # Gone
  <2>1. Save(work[w].k, Gone)
    BY <1>2 DEF DeleteRecord
  <2>2. ~End(w)
    BY <1>1, AtFacts DEF End, Shape
  <2> QED BY <1>1, <2>1, <2>2, SavedKept, LiveAre
<1>3. CASE sf[work[w].k] = Gone
  <2>1. PICK a : a = Only("fail")
    OBVIOUS
  <2>2. a \in Seq(Steps) /\ Go(w, work[w], <<>>, a) /\ UNCHANGED local
    BY <1>3, <2>1, StepPrograms DEF DeleteRecord, Calls, local
  <2>3. \A x : Led(w, "delete", x, a) /\ Freeing(w, "delete", x, a)
    BY DEF Led, Freeing, Lead, Free
  <2> QED BY <1>1, <2>2, <2>3, SameKept
<1> QED BY <1>2, <1>3

(* Every call that neither fails nor ends.                                 *)
LEMMA RunKept ==
  ASSUME ReadInv, Zero, NEW w \in Workers, Run(w), ~Fails(w), ~End(w), Guarded(w), Fitting(w), Apt(w)
  PROVE  BothKept(w)
<1>1. Shape
  BY DEF ReadInv
<1>2. CASE Revoke(w)
  BY <1>1, <1>2, RevokeKept, MarkerKept DEF Revoke
<1>3. CASE Grant(w)
  BY <1>1, <1>3, RevokeKept, PublishKept, InactiveKept, RecordKept, WriteKept DEF Grant
<1>4. CASE RevokeNoLongerLive(w)
  BY <1>1, <1>4, RevokeKept, ExpireKept, JustifyKept, ClaimKept, ClaimedKept, CompareKept, ClearKept
     DEF RevokeNoLongerLive
<1>5. CASE Lookup(w) \/ Withdraw(w) \/ EraseEntry(w) \/ SaveUpdate(w) \/ SettleStale(w)
           \/ DeleteRecord(w) \/ Pass(w)
  BY <1>1, <1>5, RevokeKept, LookupKept, WithdrawKept, EraseKept, UpdateKept, DeletedKept
<1> QED BY <1>2, <1>3, <1>4, <1>5 DEF Run

(* The consumer works on the event at the head.                            *)
Headed == work[Consumer].k # None => events # <<>> /\ Head(events).k = work[Consumer].k
(* The record has an event to come, or its event is held.                  *)
Rests(k) == Due(k) \/ (work[Consumer].k = k /\ work[Consumer].hold)
(* The pair of an entry is none, is served by its record, or something     *)
(* that is still to come looks after it; and the marker likewise, but for  *)
(* an active record.                                                       *)
PairOk(k) ==
    \/ grants[k].pair \in {None} \cup Excused \/ Serves(k, grants[k].pair) \/ Rests(k)
    \/ work[Consumer].k = k /\ Leads(work[Consumer], grants[k])
MarkOk(k) ==
    \/ grants[k].marker \in {None} \cup Excused \/ sf[k].status = "active" \/ Rests(k)
    \/ work[Consumer].k = k /\ Frees(work[Consumer], grants[k])
Ok(k) == PairOk(k) /\ MarkOk(k)

(* A worker without a call works on no record.                             *)
LEMMA IdleHas == Idle.k = None /\ Idle.todo = <<>>
BY DEF Idle

(* An entry that stays is looked after as before.                          *)
LEMMA OkStays ==
  ASSUME NEW k, Ok(k), sf'[k] = sf[k], grants'[k] = grants[k], Excused \subseteq Excused',
         Rests(k) => Rests(k)',
         work[Consumer].k = k /\ Leads(work[Consumer], grants[k]) =>
            Rests(k)' \/ (work'[Consumer].k = k /\ Leads(work'[Consumer], grants'[k])),
         work[Consumer].k = k /\ Frees(work[Consumer], grants[k]) =>
            Rests(k)' \/ (work'[Consumer].k = k /\ Frees(work'[Consumer], grants'[k]))
  PROVE  Ok(k)'
<1>1. PairOk(k)'
  BY DEF Ok, PairOk, Serves
<1>2. MarkOk(k)'
  BY DEF Ok, MarkOk
<1> QED BY <1>1, <1>2 DEF Ok

(* Nobody works, a record is saved or a call begins.                       *)
LEMMA RestOk ==
  ASSUME Shape, Resting, work'[Consumer] = work[Consumer], grants' = grants, Excused \subseteq Excused',
         \/ \E k \in Contacts, rec \in Records : Save(k, rec)
         \/ sf' = sf /\ events' = events,
         NEW n \in Contacts, Ok(n)
  PROVE  Ok(n)'
<1>1. work[Consumer].k = None /\ work'[Consumer].k = None /\ n # None
  BY IdleHas, GrantAssumption DEF Resting, Workers
<1>2. CASE sf' = sf /\ events' = events
  <2>1. Rests(n) => Rests(n)'
    BY <1>1, <1>2 DEF Rests, Due
  <2> QED BY <1>1, <1>2, <2>1, OkStays
<1>3. ASSUME NEW k \in Contacts, NEW rec \in Records, Save(k, rec) PROVE Ok(n)'
  <2>1. CASE n = k
    <3>1. Due(n)'
      BY <1>1, <1>3, <2>1, SaveDue
    <3> QED BY <3>1 DEF Ok, PairOk, MarkOk, Rests
  <2>2. CASE n # k
    <3>1. /\ sf'[n] = sf[n] /\ \A i \in 1 .. Len(events) : events'[i] = events[i]
          /\ Len(events') = Len(events) + 1 /\ Len(events) \in Nat
      <4>1. n \in Contacts \ {k} /\ Around
        BY <2>2 DEF Shape
      <4> QED BY ONLY <1>3, <4>1, SaveAdds
    <3>2. Due(n) => Due(n)'
      <4>1. \A i \in 1 .. Len(events) : i \in 1 .. Len(events')
        BY <3>1
      <4> QED BY <1>1, <3>1, <4>1 DEF Due
    <3>3. Rests(n) => Rests(n)'
      BY <1>1, <3>2 DEF Rests
    <3> QED BY <1>1, <3>1, <3>3, OkStays
  <2> QED BY <2>1, <2>2
<1> QED BY <1>2, <1>3

(* What the consumer begins with looks after the entry of its record.      *)
LEMMA BeginsOk ==
  ASSUME NEW kc \in Records, NEW job, job.kc = kc, NEW e,
         job.todo = (IF kc = Gone THEN Only("lookup") \o Only("snapshot") \o Only("withdraw") ELSE Upsert(kc))
  PROVE  Leads(job, e) /\ (Frees(job, e) \/ kc.status = "active")
<1>1. /\ \A d \in {"lookup", "snapshot", "withdraw", "publish", "expireLive", "catch"} :
           Only(d) \in Seq(Steps) /\ d \in Calls
      /\ \A a, b \in Seq(Steps) : a \o b \in Seq(Steps)
      /\ <<>> \in Seq(Steps)
  BY StepPrograms DEF Calls, Handlers
<1>2. \A s, t : t = job.todo /\ Within(s, t) =>
         /\ Lead(kc, job.entry, e, s) => Leads(job, e)
         /\ Free(kc, job.entry, e, s) => Frees(job, e)
  BY DEF Within, Leads, Frees
<1>3. CASE kc = Gone
  <2>1. PICK a, b : a = Only("lookup") /\ b = a \o Only("snapshot")
    OBVIOUS
  <2>2. PICK t, s : t = b \o Only("withdraw") /\ s = Step("withdraw", None) /\ t = job.todo
    BY <1>3, <2>1
  <2>3. a \in Seq(Steps) /\ b \in Seq(Steps) /\ t \in Seq(Steps) /\ Only("snapshot") \in Seq(Steps)
        /\ Only("withdraw") \in Seq(Steps)
    BY <1>1, <2>1, <2>2
  <2>4. Within(s, t) /\ s.do = "withdraw"
    BY <1>1, <2>2, <2>3, WithinPrograms, WithinFacts DEF PairOrNone
  <2>5. t # <<>> /\ t[1].do = "lookup"
    <3>1. PICK r : r = Step("lookup", None) /\ a = <<r>> /\ r.do = "lookup"
      BY <2>1, OnlyIs
    <3>2. Len(a) = 1 /\ a[1] = r
      BY <3>1
    <3>3. 1 \in 1 .. Len(b) /\ b[1] = r
      BY <2>1, <2>3, <3>2, ConcatFacts
    <3>4. 1 \in 1 .. Len(t) /\ t[1] = r
      BY <2>2, <2>3, <3>3, ConcatFacts
    <3> QED BY <2>3, <3>1, <3>4
  <2>6. Reading(t)
    BY <2>4, <2>5 DEF Reading, Within
  <2> QED BY <2>2, <2>6 DEF Leads, Frees
<1>4. CASE kc # Gone
  <2>1. kc.status \in {"active", "inactive"}
    BY <1>4 DEF Records
  <2>2. PICK m : m = Miss(kc)
    OBVIOUS
  <2>3. m \in Seq(Steps) /\ (kc.pair = None => Within(Step("expireLive", None), m))
    BY <1>1, <2>2, WithinFacts DEF Miss
  <2>4. PICK a : a = Only("snapshot") \o m
    OBVIOUS
  <2>5. a \in Seq(Steps) /\ (kc.pair = None => Within(Step("expireLive", None), a))
    BY <1>1, <2>3, <2>4, WithinFacts
  <2>6. PICK t, s : t = a \o Only("publish") /\ s = Step("publish", None) /\ t = job.todo
    BY <1>4, <2>2, <2>4 DEF Upsert
  <2>7. Within(s, t) /\ s.do = "publish" /\ (kc.pair = None => Within(Step("expireLive", None), t))
    BY <1>1, <2>5, <2>6, WithinPrograms, WithinFacts DEF PairOrNone
  <2>8. kc.status = "inactive" => Leads(job, e) /\ Frees(job, e)
    BY <1>2, <2>6, <2>7 DEF Lead, Free
  <2>9. kc.pair # None => Leads(job, e)
    BY <1>2, <2>6, <2>7 DEF Lead
  <2>10. kc.pair = None => Leads(job, e)
    <3>1. PICK r : r = Step("expireLive", None) /\ r.do = "expireLive"
      BY WithinFacts
    <3> QED BY <1>2, <2>6, <2>7, <3>1 DEF Lead
  <2> QED BY <2>1, <2>8, <2>9, <2>10
<1> QED BY <1>3, <1>4

(* The consumer takes an event.                                            *)
LEMMA TakeOk ==
  ASSUME Shape, Take, Excused \subseteq Excused', NEW n \in Contacts, Ok(n)
  PROVE  Ok(n)'
<1>1. PICK k, kc : k = Head(events).k /\ kc = IF Head(events).deleted THEN Gone ELSE sf[k]
  OBVIOUS
<1>2. /\ k \in Contacts /\ events # <<>> /\ Head(events) = events[1]
      /\ work[Consumer] = Idle /\ work'[Consumer].k = k /\ work'[Consumer].kc = kc
      /\ work'[Consumer].todo = (IF kc = Gone
             THEN Only("lookup") \o Only("snapshot") \o Only("withdraw") ELSE Upsert(kc))
      /\ sf' = sf /\ events' = events /\ grants' = grants
  BY <1>1, TakeHas
<1>3. kc \in Records /\ n # None /\ work[Consumer].k = None
  BY <1>1, <1>2, IdleHas, LiveAre, GrantAssumption DEF Shape, Around, Views
<1>4. CASE n = k
  <2>1. PICK job, e : job = work'[Consumer] /\ e = grants'[k]
    OBVIOUS
  <2>2. Leads(job, e) /\ (Frees(job, e) \/ kc.status = "active")
    BY <1>2, <1>3, <2>1, BeginsOk
  <2>3. kc.status = "active" => sf'[k].status = "active"
    BY <1>1, <1>2 DEF Gone
  <2>4. PairOk(n)' /\ MarkOk(n)'
    BY <1>2, <1>4, <2>1, <2>2, <2>3 DEF PairOk, MarkOk
  <2> QED BY <2>4 DEF Ok
<1>5. CASE n # k
  <2>1. Due(n) => Due(n)'
    BY <1>1, <1>2, <1>5 DEF Due
  <2>2. Rests(n) => Rests(n)'
    BY <1>3, <2>1 DEF Rests
  <2> QED BY <1>2, <1>3, <2>2, OkStays
<1> QED BY <1>4, <1>5

(* A call writes no other entry than its record's, but for the hand-over   *)
(* to the sibling found.                                                   *)
LEMMA OtherWrites ==
  ASSUME Shape, NEW w \in Workers, Run(w), NEW n \in Contacts, n # work[w].k, grants'[n] # grants[n]
  PROVE  At(w, "own") /\ n = work[w].by /\ sf' = sf /\ \E m : Name(n, Pair(w), m)
<1>1. grants' # grants /\ grants \in [Contacts -> Entries]
  BY DEF Shape, Around
<1>2. \A k, p, m : Name(k, p, m) \/ Rewrite(k, p, m) \/ Erase(k) => k = n
  <2>1. ASSUME NEW k, NEW e, grants' = [grants EXCEPT ![k] = e] PROVE k = n
    BY <1>1, <2>1
  <2> QED BY <2>1, BucketWrites
<1>3. CASE Own(w)
  <2>1. PICK s : s # None /\ s = work[w].by /\ (\E m : Name(s, Pair(w), m)) /\ At(w, "own") /\ sf' = sf
    BY <1>1, <1>3 DEF Own, bucket
  <2> QED BY <1>2, <2>1
<1>4. ~ClearMarker(w)
  BY <1>1, <1>2 DEF ClearMarker, bucket
<1>5. ~Record(w)
  BY <1>1, <1>2 DEF Record, bucket
<1>6. ~Write(w)
  BY <1>1, <1>2 DEF Write, bucket
<1>7. ~Claim(w) /\ ~Clear(w) /\ ~EraseEntry(w)
  BY <1>1, <1>2 DEF Claim, Clear, EraseEntry, bucket
<1>8. ~SaveUpdate(w) /\ ~DeleteRecord(w) /\ ~Fails(w) /\ ~End(w)
  BY <1>1 DEF SaveUpdate, DeleteRecord, Fails, End, local, bucket
<1>9. ~(Scan(w) \/ Flush(w) \/ Recheck(w) \/ Verify(w) \/ ConfirmLive(w) \/ Settle(w) \/ Reassert(w))
  BY <1>1 DEF Scan, Flush, Recheck, Verify, ConfirmLive, Settle, Reassert, local, bucket
<1>10. ~(Snapshot(w) \/ Publish(w) \/ Inactive(w) \/ Expire(w) \/ Justify(w) \/ Claimed(w)
         \/ Regranted(w) \/ Compare(w) \/ Lookup(w) \/ Withdraw(w) \/ SettleStale(w) \/ Pass(w))
  BY <1>1 DEF Snapshot, Publish, Inactive, Expire, Justify, Claimed, Regranted, Compare, Lookup,
     Withdraw, SettleStale, Pass, local, bucket
<1> QED BY <1>3, <1>4, <1>5, <1>6, <1>7, <1>8, <1>9, <1>10 DEF Run, Revoke, Grant, RevokeNoLongerLive

(* A hand-over names a pair that the sibling's record justifies.           *)
LEMMA OwnAimed ==
  ASSUME Shape, NEW w \in Workers, At(w, "own"), Guarded(w), Aims(w), work[w].by # None
  PROVE  Serves(work[w].by, Pair(w))
<1>1. PICK t : t = work[w].todo
  OBVIOUS
<1>2. 1 \in 1 .. Len(t) /\ t[1].do = "own" /\ t[1].pair = Pair(w)
  BY <1>1, AtGuard
<1>3. ~Sought(t, 1)
  BY DEF Sought
<1>4. t[1].pair \in Aim(work[w], sf)
  BY <1>1, <1>2, <1>3 DEF Aims, Aimed
<1> QED BY <1>2, <1>4 DEF Aim, Serves

(* A call leaves the other entries looked after.                           *)
LEMMA OtherOk ==
  ASSUME Shape, NEW w \in Workers, Run(w), faults' = faults, Guarded(w), Aims(w),
         \A v \in Workers \ {w} : work[v] = Idle, Excused \subseteq Excused',
         NEW n \in Contacts, n # work[w].k, Ok(n)
  PROVE  Ok(n)'
<1>1. sf'[n] = sf[n] /\ n # None
  BY RunSaves, GrantAssumption
<1>2. work[Consumer].k # n
  BY <1>1, IdleHas DEF Workers
<1>3. Due(n) => Due(n)'
  BY <1>1, RunDue
<1>4. Rests(n) => Rests(n)'
  BY <1>2, <1>3 DEF Rests
<1>5. CASE grants'[n] = grants[n]
  BY <1>1, <1>2, <1>4, <1>5, OkStays
<1>6. CASE grants'[n] # grants[n]
  <2>1. PICK m : At(w, "own") /\ n = work[w].by /\ sf' = sf /\ Name(n, Pair(w), m)
    BY <1>6, OtherWrites
  <2>2. Serves(n, Pair(w))
    BY <1>1, <2>1, OwnAimed
  <2>3. grants'[n].pair = Pair(w)
    BY <2>1, NameHas DEF Shape
  <2>4. PICK r : r = [status |-> "active", pair |-> Pair(w)] /\ r.status = "active" /\ sf'[n] = r
    BY <2>1, <2>2 DEF Serves
  <2>5. sf'[n] = [status |-> "active", pair |-> grants'[n].pair] /\ sf'[n].status = "active"
    BY <2>3, <2>4
  <2>6. PairOk(n)' /\ MarkOk(n)'
    BY <2>5 DEF PairOk, MarkOk, Serves
  <2> QED BY <2>6 DEF Ok
<1> QED BY <1>5, <1>6

(* ... and the entry of its record.                                        *)
LEMMA OwnOk ==
  ASSUME ReadInv, Zero, NEW w \in Workers, Run(w), ~Fails(w), ~End(w), faults' = faults,
         Guarded(w), Fitting(w), Apt(w),
         \A v \in Workers \ {w} : work[v] = Idle, Excused \subseteq Excused',
         NEW n \in Contacts, n = work[w].k, Ok(n)
  PROVE  Ok(n)'
<1>0. Shape /\ n # None
  BY GrantAssumption DEF ReadInv
<1>1. PairKept(w, n) /\ MarkKept(w, n)
  BY RunKept DEF BothKept
<1>2. Moves(w)
  BY <1>0, RunMoves
<1>3. Due(n) => Due(n)'
  BY <1>0, RunDue
<1>4. work'[w].k = n /\ work'[w].hold = work[w].hold
  BY <1>0, <1>2, MovesHas
<1>5. work[Consumer].k = n => w = Consumer
  BY <1>0, IdleHas DEF Workers
<1>6. Rests(n) => Rests(n)'
  BY <1>3, <1>4, <1>5 DEF Rests
<1>7. PairOk(n)'
  <2>1. CASE Due(n)' \/ grants'[n].pair = None \/ sf'[n] = [status |-> "active", pair |-> grants'[n].pair]
    BY <2>1 DEF PairOk, Rests, Serves
  <2>2. CASE /\ grants'[n].pair = grants[n].pair /\ sf'[n] = sf[n]
             /\ Leads(work[w], grants[n]) => Leads(work'[w], grants'[n])
    BY <1>4, <1>5, <1>6, <2>2 DEF PairOk, Ok, Serves
  <2> QED BY <1>1, <2>1, <2>2 DEF PairKept
<1>8. MarkOk(n)'
  <2>1. CASE Due(n)' \/ grants'[n].marker = None \/ sf'[n].status = "active"
    BY <2>1 DEF MarkOk, Rests
  <2>2. CASE /\ grants'[n].marker = grants[n].marker /\ sf'[n] = sf[n]
             /\ Frees(work[w], grants[n]) => Frees(work'[w], grants'[n])
    BY <1>4, <1>5, <1>6, <2>2 DEF MarkOk, Ok
  <2> QED BY <1>1, <2>1, <2>2 DEF MarkKept
<1> QED BY <1>7, <1>8 DEF Ok

(* A call that gives up: the consumer holds its event.                     *)
LEMMA GivenUpOk ==
  ASSUME Shape, NEW w \in Workers, Fails(w), faults' = faults,
         \A v \in Workers \ {w} : work[v] = Idle, Excused \subseteq Excused',
         NEW n \in Contacts, n = work[w].k, Ok(n)
  PROVE  Ok(n)'
<1>0. Run(w) /\ n # None
  BY GrantAssumption DEF Run
<1>1. /\ work'[w].k = n /\ work'[w].hold /\ sf' = sf /\ events' = events /\ grants' = grants
  BY GivesUp
<1>2. CASE w = Consumer
  <2>1. Rests(n)'
    BY <1>1, <1>2 DEF Rests
  <2>2. PairOk(n)' /\ MarkOk(n)'
    BY <2>1 DEF PairOk, MarkOk
  <2> QED BY <2>2 DEF Ok
<1>3. CASE w # Consumer
  <2>1. work[Consumer].k # n
    BY <1>0, <1>3, IdleHas DEF Workers
  <2>2. Due(n) => Due(n)'
    BY <1>0, RunDue
  <2>3. Rests(n) => Rests(n)'
    BY <2>1, <2>2 DEF Rests
  <2> QED BY <1>1, <2>1, <2>3, OkStays
<1> QED BY <1>2, <1>3

(* A call ends: what is not held has been told.                            *)
LEMMA EndedOk ==
  ASSUME Shape, Headed, NEW w \in Workers, End(w), faults' = faults,
         \A v \in Workers \ {w} : work[v] = Idle, Excused \subseteq Excused',
         NEW n \in Contacts, n = work[w].k, Ok(n)
  PROVE  Ok(n)'
<1>0. Run(w) /\ n # None
  BY GrantAssumption DEF Run
<1>1. /\ work[w].todo = <<>> /\ sf' = sf /\ grants' = grants /\ work'[w] = Idle
      /\ logged' = logged \cup Told(w)
  BY DEF End, Shape, Working, bucket
<1>2. Due(n) => Due(n)'
  BY <1>0, RunDue
<1>3. CASE w # Consumer
  <2>1. work[Consumer].k # n
    BY <1>0, <1>3, IdleHas DEF Workers
  <2>2. Rests(n) => Rests(n)'
    BY <1>2, <2>1 DEF Rests
  <2> QED BY <1>1, <2>1, <2>2, OkStays
<1>4. CASE w = Consumer /\ Held(w)
  <2>1. events' = events /\ events # <<>> /\ Head(events).k = n /\ work'[Consumer].k = None
    BY <1>0, <1>1, <1>4, IdleHas DEF End, Headed
  <2>2. 1 \in 1 .. Len(events) /\ events[1].k = n
    BY <2>1, TailFacts DEF Shape, Around
  <2>3. Rests(n)'
    BY <2>1, <2>2 DEF Rests, Due
  <2>4. PairOk(n)' /\ MarkOk(n)'
    BY <2>3 DEF PairOk, MarkOk
  <2> QED BY <2>4 DEF Ok
<1>5. CASE w = Consumer /\ ~Held(w) /\ work[w].hold
  <2>1. Known(n, work[w].kc) \subseteq logged'
    BY <1>1, <1>5 DEF Told
  <2>2. {grants'[n].pair, grants'[n].marker} \subseteq {None} \cup logged'
    BY <1>1, <2>1 DEF Known
  <2>3. PairOk(n)' /\ MarkOk(n)'
    BY <2>2 DEF PairOk, MarkOk, Excused
  <2> QED BY <2>3 DEF Ok
<1>6. CASE w = Consumer /\ ~work[w].hold
  <2>1. \A e : ~Leads(work[w], e) /\ ~Frees(work[w], e)
    <3>1. Len(<<>>) = 0
      OBVIOUS
    <3>2. PICK t : t = work[w].todo /\ t = <<>>
      BY <1>1
    <3>3. 1 .. Len(t) = {} /\ ~Reading(t)
      BY <3>1, <3>2 DEF Reading
    <3> QED BY <3>2, <3>3 DEF Leads, Frees
  <2>2. Rests(n) => Rests(n)'
    BY <1>2, <1>6 DEF Rests
  <2> QED BY <1>1, <1>6, <2>1, <2>2, OkStays
<1> QED BY <1>3, <1>4, <1>5, <1>6

(* The consumer stays with the event at the head.                          *)
LEMMA HeadedStays ==
  ASSUME Shape, Headed, NEW w \in Workers, Run(w), [Next]_vars,
         \A v \in Workers \ {w} : work[v] = Idle
  PROVE  Headed'
<1>1. CASE w # Consumer
  <2>1. work'[Consumer] = work[Consumer] /\ work[Consumer] = Idle
    BY <1>1, RunOthers DEF Workers
  <2> QED BY <2>1, IdleHas DEF Headed
<1>2. CASE w = Consumer /\ End(w)
  <2>1. work'[Consumer] = Idle
    BY <1>2 DEF End, Shape, Working
  <2> QED BY <2>1, IdleHas DEF Headed
<1>3. CASE w = Consumer /\ ~End(w)
  <2>1. work[Consumer].k # None /\ work[Consumer] # Idle
    BY <1>3, RunOthers
  <2>2. events # <<>> /\ Head(events).k = work[Consumer].k
    BY <2>1 DEF Headed
  <2>3. work'[Consumer].k = work[Consumer].k
    BY <1>3, CallKeeps
  <2>4. ~Take /\ ~PassOver
    BY <2>1 DEF Take, PassOver
  <2>5. \/ \E k \in Contacts, rec \in Records : Save(k, rec)
        \/ events' = events
    BY <1>3, <2>4, EventSteps
  <2>6. ASSUME NEW k \in Contacts, NEW rec \in Records, Save(k, rec)
        PROVE  events' # <<>> /\ Head(events') = Head(events)
    <3>1. /\ Len(events') = Len(events) + 1 /\ Len(events) \in Nat
          /\ \A i \in 1 .. Len(events) : events'[i] = events[i]
      BY <2>6, SaveAdds DEF Shape
    <3>2. events \in Seq(Events) /\ events' \in Seq(Events)
      BY NextSteady DEF Shape, Around
    <3>3. 1 \in 1 .. Len(events) /\ Head(events) = events[1]
      BY <2>2, <3>2, TailFacts
    <3>4. events' # <<>>
      BY <3>1, <3>2
    <3>5. Head(events') = events'[1]
      BY <3>2, <3>4, TailFacts
    <3> QED BY <3>1, <3>3, <3>4, <3>5
  <2> QED BY <2>2, <2>3, <2>5, <2>6 DEF Headed
<1> QED BY <1>1, <1>2, <1>3

(* Every step without a failure leaves the entries looked after.           *)
LEMMA NextOk ==
  ASSUME ReadInv, Zero, Orderly, Headed, Apts, \A k \in Contacts : Ok(k),
         [MCNext]_mcvars, calm, faults' = faults
  PROVE  Headed' /\ \A k \in Contacts : Ok(k)'
<1>0. Shape /\ [Next]_vars /\ Excused \subseteq Excused'
  BY ExcusedGrows DEF ReadInv, MCNext, mcvars
<1>1. CASE sf' = sf /\ events' = events /\ grants' = grants /\ work' = work /\ Excused' = Excused
  <2>1. Headed'
    BY <1>1 DEF Headed
  <2>2. ASSUME NEW k \in Contacts PROVE Ok(k)'
    <3>1. Rests(k) => Rests(k)'
      BY <1>1 DEF Rests, Due
    <3> QED BY <1>0, <1>1, <3>1, OkStays
  <2> QED BY <2>1, <2>2
<1>2. ASSUME Resting, work'[Consumer] = work[Consumer], grants' = grants,
             \/ \E k \in Contacts, rec \in Records : Save(k, rec)
             \/ sf' = sf /\ events' = events
      PROVE  Headed' /\ \A k \in Contacts : Ok(k)'
  <2>1. work'[Consumer].k = None
    BY <1>2, IdleHas DEF Resting, Workers
  <2> QED BY <1>0, <1>2, <2>1, RestOk DEF Headed
<1>3. ASSUME NEW w \in Writers, NEW n \in Contacts, Opens(w, n), Resting
      PROVE  Headed' /\ \A k \in Contacts : Ok(k)'
  <2>1. w \in Workers /\ w # Consumer /\ grants' = grants
    BY <1>0, <1>3, ApiHas DEF Opens
  <2>2. work'[Consumer] = work[Consumer]
    BY <1>0, <1>3, <2>1, ApiHas DEF Opens, Workers
  <2>3. \/ \E k \in Contacts, rec \in Records : Save(k, rec)
        \/ sf' = sf /\ events' = events
    BY <1>0, <1>3, ApiHas DEF Opens
  <2> QED BY <1>2, <1>3, <2>1, <2>2, <2>3
<1>4. CASE Take /\ Resting
  <2>1. events' = events /\ events # <<>> /\ work'[Consumer].k = Head(events).k
    BY <1>0, <1>4, TakeHas
  <2> QED BY <1>0, <1>4, <2>1, TakeOk DEF Headed
<1>5. ASSUME NEW w \in Workers, Run(w), \A v \in Workers \ {w} : work[v] = Idle
      PROVE  Headed' /\ \A k \in Contacts : Ok(k)'
  <2>1. Guarded(w) /\ Fitting(w) /\ Apt(w) /\ Aims(w)
    BY DEF Orderly, Apts
  <2>2. ASSUME NEW k \in Contacts PROVE Ok(k)'
    <3>1. Ok(k)
      OBVIOUS
    <3>2. CASE k # work[w].k
      BY <1>0, <1>5, <2>1, <3>1, <3>2, OtherOk
    <3>3. CASE k = work[w].k /\ Fails(w)
      BY <1>0, <1>5, <3>1, <3>3, GivenUpOk
    <3>4. CASE k = work[w].k /\ End(w)
      BY <1>0, <1>5, <3>1, <3>4, EndedOk
    <3>5. CASE k = work[w].k /\ ~Fails(w) /\ ~End(w)
      BY <1>0, <1>5, <2>1, <3>1, <3>5, OwnOk
    <3> QED BY <3>2, <3>3, <3>4, <3>5
  <2>3. Headed'
    BY <1>0, <1>5, HeadedStays
  <2> QED BY <2>2, <2>3
<1>6. CASE \E k \in Contacts : \E rec \in Records :
              Save(k, rec) /\ Resting /\ work' = work /\ grants' = grants
  BY <1>2, <1>6
<1>7. CASE \E w \in Writers, k \in Contacts : Opens(w, k) /\ Resting
  BY <1>3, <1>7
<1>8. CASE \E w \in Workers : Run(w) /\ \A v \in Workers \ {w} : work[v] = Idle
  BY <1>5, <1>8
<1>9. \/ sf' = sf /\ events' = events /\ grants' = grants /\ work' = work /\ Excused' = Excused
      \/ \E k \in Contacts : \E rec \in Records :
            Save(k, rec) /\ Resting /\ work' = work /\ grants' = grants
      \/ \E w \in Writers, k \in Contacts : Opens(w, k) /\ Resting
      \/ Take /\ Resting
      \/ \E w \in Workers : Run(w) /\ \A v \in Workers \ {w} : work[v] = Idle
  BY <1>0, CalmSteps
<1> QED BY <1>1, <1>4, <1>6, <1>7, <1>8, <1>9

(* The inductive invariant.                                                *)
WithdrawInv == ServedInv /\ (calm /\ faults = 0 => Headed /\ Apts /\ \A k \in Contacts : Ok(k))

(* At the start nothing is named.                                          *)
LEMMA InitWithdraw == MCInit => WithdrawInv
<1> SUFFICES ASSUME MCInit PROVE Headed /\ Apts /\ \A k \in Contacts : Ok(k)
  BY InitServed DEF WithdrawInv
<1>1. /\ work = [w \in Workers |-> Idle] /\ grants = [k \in Contacts |-> Absent]
  BY DEF MCInit, Init
<1>2. Headed
  BY <1>1, IdleHas DEF Headed, Workers
<1>3. ASSUME NEW w \in Workers PROVE Apt(w) /\ Aims(w)
  <2>1. Len(<<>>) = 0
    OBVIOUS
  <2>2. work[w].k = None /\ work[w].todo = <<>>
    BY <1>1, IdleHas
  <2> QED BY <2>1, <2>2 DEF Apt, Aims, Aimed
<1>4. ASSUME NEW k \in Contacts PROVE Ok(k)
  <2>1. grants[k].pair = None /\ grants[k].marker = None
    BY <1>1 DEF Absent
  <2> QED BY <2>1 DEF Ok, PairOk, MarkOk
<1> QED BY <1>2, <1>3, <1>4 DEF Apts

(* Failures are counted, and never taken back.                             *)
LEMMA FaultsGrow ==
  ASSUME Shape, [MCNext]_mcvars, faults' = 0
  PROVE  faults = 0
<1>1. faults \in Nat
  BY DEF Shape, Around
<1>2. faults' \in {faults, faults + 1}
  <2>1. ASSUME NEW w \in Workers, Run(w) \/ CallFails(w) \/ Crash(w) \/ Deliver(w)
        PROVE  faults' \in {faults, faults + 1}
    BY <2>1, RunFaults DEF CallFails, Crash, Deliver, ledger
  <2>2. ASSUME NEW w \in Writers, NEW k \in Contacts, Opens(w, k) PROVE faults' = faults
    BY <2>2, ApiHas DEF Opens
  <2>3. Take => faults' = faults
    BY DEF Take, local, ledger
  <2>4. \A k \in Contacts : Change(k) => faults' = faults
    BY DEF Change
  <2>5. PassOver => faults' = faults + 1
    BY DEF PassOver
  <2>6. UNCHANGED mcvars => faults' = faults
    BY DEF mcvars, vars
  <2> QED BY <2>1, <2>2, <2>3, <2>4, <2>5, <2>6 DEF MCNext, Next, Opens
<1> QED BY <1>1, <1>2

(* Every step keeps the invariant.                                         *)
LEMMA NextWithdraw ==
  ASSUME WithdrawInv, [MCNext]_mcvars
  PROVE  WithdrawInv'
<1>1. ServedInv' /\ ReadInv /\ Zero /\ Shape /\ calm' = calm
  BY NextServedInv, NextCalm DEF WithdrawInv, ServedInv, CalmInv, ReadInv
<1>2. ASSUME calm, faults' = 0 PROVE (Headed /\ Apts /\ \A k \in Contacts : Ok(k))'
  <2>1. faults = 0 /\ faults' = faults
    BY <1>1, <1>2, FaultsGrow
  <2>2. Orderly /\ Superseded /\ Headed /\ Apts /\ \A k \in Contacts : Ok(k)
    BY <1>2, <2>1 DEF WithdrawInv, ServedInv, CalmInv
  <2>3. Apts'
    BY <1>1, <1>2, <2>1, <2>2, NextApts
  <2>4. Headed' /\ \A k \in Contacts : Ok(k)'
    BY <1>1, <1>2, <2>1, <2>2, NextOk
  <2> QED BY <2>3, <2>4
<1> QED BY <1>1, <1>2 DEF WithdrawInv

(* One call after another and without a failure, every tuple that no       *)
(* record justifies any more is withdrawn once all is quiet, but for one   *)
(* that an active record's entry carries as a marker, for any number of    *)
(* records, pairs and writers: whatever an entry names is served by its    *)
(* own record, or its record has an event to come, or the event's handler  *)
(* has the call ahead of it that removes the tuple                         *)
(* (revokeKeyContactGrantIfNoLongerLive, recordKeyContactGrant and         *)
(* handleProjectRoleDelete), and a revoke hands a pair over to a sibling   *)
(* only where the sibling's record justifies it.                           *)
THEOREM NothingIsKept == MCSpec => []CalmWithdrawn
<1>1. WithdrawInv /\ [MCNext]_mcvars => WithdrawInv'
  BY NextWithdraw
<1>2. WithdrawInv => CalmWithdrawn
  <2> SUFFICES ASSUME WithdrawInv, calm, faults = 0, Quiet, NEW p \in tuples
               PROVE  Justified(p) \/ p \in Excused \/ Carried(p)
    BY DEF CalmWithdrawn, Withdrawn
  <2>1. Traced /\ tuples \subseteq Pairs /\ (\A k \in Contacts : Ok(k)) /\ p # None
    BY GrantAssumption DEF WithdrawInv, ServedInv, CalmInv, ReadInv, Shape, Around
  <2>2. p \in Addresses \cup Excused \/ \E w \in Workers : Promised(w, p)
    BY <2>1 DEF Traced, Out
  <2>3. \A w \in Workers : ~Promised(w, p)
    BY IdlePromise DEF Quiet
  <2>4. ASSUME NEW k \in Contacts PROVE work[Consumer].k # k /\ ~Rests(k)
    <3>1. work[Consumer].k = None /\ k # None
      BY IdleHas, GrantAssumption DEF Quiet, Workers
    <3>2. Len(<<>>) = 0
      OBVIOUS
    <3>3. ~Due(k)
      BY <3>2 DEF Due, Quiet
    <3> QED BY <3>1, <3>3 DEF Rests
  <2>5. ASSUME NEW k \in Contacts, grants[k].pair = p PROVE Justified(p) \/ p \in Excused
    <3>1. Serves(k, p) \/ p \in Excused
      BY <2>1, <2>4, <2>5 DEF Ok, PairOk
    <3> QED BY <3>1 DEF Justified, Serves
  <2>6. ASSUME NEW k \in Contacts, grants[k].marker = p PROVE p \in Excused \/ Carried(p)
    <3>1. sf[k].status = "active" \/ p \in Excused
      BY <2>1, <2>4, <2>6 DEF Ok, MarkOk
    <3> QED BY <2>6, <3>1 DEF Carried
  <2> QED BY <2>2, <2>3, <2>5, <2>6 DEF Addresses
<1> QED BY <1>1, <1>2, InitWithdraw, PTL DEF MCSpec

=============================================================================
