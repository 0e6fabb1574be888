------------------------ MODULE KeyContactGrant_proofs ------------------------
(***************************************************************************)
(* Proofs about the grants of key contacts, for any number of records,     *)
(* pairs and writers, however many calls fail: the state keeps its shape,  *)
(* what a conditional write of the bucket key-contact-grants compares ties *)
(* it to the very entry that its caller read.                              *)
(*                                                                         *)
(* The shape needs more than types. The programs of the workers rewrite    *)
(* themselves: a call is replaced by the calls that follow from what it    *)
(* found, and some of those go by an entry read earlier. So what is        *)
(* inductive is that every program left is sound: a write or a claim waits *)
(* only behind calls that leave the entry read alone, and that entry names *)
(* a pair.                                                                 *)
(*                                                                         *)
(* What follows is about calls one after another: a pair loses its last    *)
(* address only after its remove, whatever fails in between, and each call *)
(* leaves a program that can take for granted what it does. What           *)
(* KeyContactCalm_proofs makes of it is about MCSpec.                      *)
(***************************************************************************)
EXTENDS MCKeyContactGrant, Integers, TLAPS, WellFoundedInduction

(***************************************************************************)
(* The programs of a worker, and which calls they are made of.             *)
(***************************************************************************)

PairOrNone == Pairs \cup {None}

(* The calls that are about a pair, and need one.                          *)
Paired == {"scan", "scanLive", "scanQuick", "confirmLive", "recheck", "verify", "settle",
           "reassert", "regranted", "compare", "record", "write", "recover"}

(* The calls of revokeKeyContactGrantIfNoLongerLive that go by the entry   *)
(* read at its start; they are made at once, one after the other.          *)
ByEntry == {"justify", "justifyLive", "claim", "claimed"}

(* The calls that leave the entry read alone, and are followed by such.    *)
Keeping == {"scan", "scanLive", "scanQuick", "confirmLive", "flush", "recheck", "verify",
            "settle", "reassert", "own", "clearMarker", "regranted", "compare", "clear",
            "erase", "fail", "snapshot"} \cup Handlers

NamedSteps == {s \in Steps : s.do \in Paired => s.pair \in Pairs}
PlainSteps == {s \in NamedSteps : s.do \notin ByEntry \cup {"write"}}
KeepSteps  == {s \in PlainSteps : s.do \in Keeping}

(* What a call in progress may rely on.                                    *)
Sound(job) ==
    /\ job.todo \in Seq(NamedSteps)
    /\ job.k = None => job.todo = <<>> /\ job.entry.rev = 0
    /\ \A i \in 1 .. Len(job.todo) :
         /\ job.todo[i].do \in ByEntry => i = 1 /\ job.entry.pair \in Pairs
         /\ job.todo[i].do = "write" =>
              /\ job.entry.pair \in Pairs
              /\ \A j \in 1 .. Len(job.todo) : j < i => job.todo[j].do \in Keeping

Jobs == [k : Contacts \cup {None}, kc : Records, entry : Entries,
         view : Views \cup {None}, by : Contacts \cup {None},
         hold : BOOLEAN, todo : Seq(Steps)]

(* Programs of up to four calls, and two programs in a row.                *)
LEMMA SmallPrograms ==
  ASSUME NEW S, NEW s1 \in S, NEW s2 \in S, NEW s3 \in S, NEW s4 \in S
  PROVE  /\ <<>> \in Seq(S) /\ <<s1>> \in Seq(S) /\ <<s1, s2>> \in Seq(S)
         /\ <<s1, s2, s3>> \in Seq(S) /\ <<s1, s2, s3, s4>> \in Seq(S)
  OBVIOUS

(* Two programs in a row.                                                  *)
LEMMA Concats ==
  ASSUME NEW S, NEW a \in Seq(S), NEW b \in Seq(S)
  PROVE  a \o b \in Seq(S)
  OBVIOUS

(* A call and its pair make a step of the kinds above.                     *)
LEMMA StepTypes ==
  ASSUME NEW d \in Calls, NEW p \in PairOrNone
  PROVE  /\ Step(d, p) \in Steps
         /\ p \in Pairs \/ d \notin Paired => Step(d, p) \in NamedSteps
         /\ (p \in Pairs \/ d \notin Paired) /\ d \notin ByEntry \cup {"write"}
               => Step(d, p) \in PlainSteps
         /\ (p \in Pairs \/ d \notin Paired) /\ d \in Keeping => Step(d, p) \in KeepSteps
<1>1. Step(d, p) \in Steps /\ Step(d, p).do = d /\ Step(d, p).pair = p
  BY DEF Step, Steps, PairOrNone
<1>2. d \in Keeping => d \notin ByEntry \cup {"write"}
  BY DEF Keeping, ByEntry, Handlers
<1> QED BY <1>1, <1>2 DEF NamedSteps, PlainSteps, KeepSteps

(* A single call without a pair.                                           *)
LEMMA OnlyType ==
  ASSUME NEW d \in Calls, d \notin Paired \cup ByEntry
  PROVE  /\ Only(d) \in Seq(PlainSteps)
         /\ d \in Keeping => Only(d) \in Seq(KeepSteps)
<1>1. None \in PairOrNone /\ d # "write"
  BY DEF PairOrNone, Paired
<1>2. Step(d, None) \in PlainSteps /\ (d \in Keeping => Step(d, None) \in KeepSteps)
  BY <1>1, StepTypes
<1> QED BY <1>2, SmallPrograms DEF Only

(* The calls of a revoke, all about one pair.                              *)
LEMMA ForType ==
  ASSUME NEW ds \in Seq(Calls), NEW p \in PairOrNone
  PROVE  /\ For(ds, p) \in Seq(Steps)
         /\ (\A i \in 1 .. Len(ds) : ds[i] \notin ByEntry \cup {"write"}
                                    /\ (p \in Pairs \/ ds[i] \notin Paired))
               => For(ds, p) \in Seq(PlainSteps)
         /\ (\A i \in 1 .. Len(ds) : ds[i] \in Keeping /\ (p \in Pairs \/ ds[i] \notin Paired))
               => For(ds, p) \in Seq(KeepSteps)
<1>1. DOMAIN ds = 1 .. Len(ds) /\ Len(ds) \in Nat /\ \A i \in 1 .. Len(ds) : ds[i] \in Calls
  OBVIOUS
<1>2. ASSUME NEW S, \A i \in 1 .. Len(ds) : Step(ds[i], p) \in S
      PROVE  For(ds, p) \in Seq(S)
  BY <1>1, <1>2 DEF For
<1>3. For(ds, p) \in Seq(Steps)
  BY <1>1, <1>2, StepTypes
<1>4. ASSUME \A i \in 1 .. Len(ds) : ds[i] \notin ByEntry \cup {"write"}
                                    /\ (p \in Pairs \/ ds[i] \notin Paired)
      PROVE  For(ds, p) \in Seq(PlainSteps)
  <2>1. \A i \in 1 .. Len(ds) : Step(ds[i], p) \in PlainSteps
    BY <1>1, <1>4, StepTypes
  <2> QED BY <1>2, <2>1
<1>5. ASSUME \A i \in 1 .. Len(ds) : ds[i] \in Keeping /\ (p \in Pairs \/ ds[i] \notin Paired)
      PROVE  For(ds, p) \in Seq(KeepSteps)
  <2>1. \A i \in 1 .. Len(ds) : Step(ds[i], p) \in KeepSteps
    BY <1>1, <1>5, StepTypes
  <2> QED BY <1>2, <2>1
<1> QED BY <1>3, <1>4, <1>5

(* The programs a revoke is made of.                                       *)
LEMMA RevokePrograms ==
  ASSUME NEW p \in Pairs
  PROVE  /\ Drain(p) \in Seq(KeepSteps)
         /\ RevokeSuperseded(p) \in Seq(KeepSteps)
         /\ RevokeConfirmed(p) \in Seq(KeepSteps)
         /\ For(<<"scan", "own">>, p) \in Seq(KeepSteps)
         /\ For(<<"scan", "recover", "own", "stop">>, p) \in Seq(KeepSteps)
         /\ For(<<"regranted", "compare">>, p) \in Seq(KeepSteps)
         /\ \A d \in Keeping : For(<<d>>, p) \in Seq(KeepSteps)
         /\ For(<<"record">>, p) \in Seq(PlainSteps)
<1> DEFINE C(d) == d \in Calls /\ d \in Keeping
<1>1. /\ Keeping \subseteq Calls
      /\ {"scan", "settle", "own", "clearMarker", "confirmLive", "reassert", "recover", "stop",
          "regranted", "compare"} \subseteq Keeping
  BY DEF Keeping, Calls, Handlers
<1>2. ASSUME NEW ds \in Seq(Keeping) PROVE For(ds, p) \in Seq(KeepSteps)
  <2>1. ds \in Seq(Calls) /\ \A i \in 1 .. Len(ds) : ds[i] \in Keeping
    BY <1>1
  <2> QED BY <2>1, ForType DEF PairOrNone
<1>3. /\ <<"scan", "settle", "own">> \in Seq(Keeping)
      /\ <<"clearMarker">> \in Seq(Keeping)
      /\ <<"scan", "confirmLive", "reassert", "own">> \in Seq(Keeping)
      /\ <<"scan", "own">> \in Seq(Keeping)
      /\ <<"scan", "recover", "own", "stop">> \in Seq(Keeping)
      /\ <<"regranted", "compare">> \in Seq(Keeping)
      /\ \A d \in Keeping : <<d>> \in Seq(Keeping)
  BY <1>1, SmallPrograms
<1>4. Drain(p) \in Seq(KeepSteps) /\ For(<<"clearMarker">>, p) \in Seq(KeepSteps)
  BY <1>2, <1>3 DEF Drain
<1>5. RevokeSuperseded(p) \in Seq(KeepSteps)
  BY <1>4, Concats DEF RevokeSuperseded
<1>6. RevokeConfirmed(p) \in Seq(KeepSteps)
  BY <1>2, <1>3 DEF RevokeConfirmed
<1>7. For(<<"record">>, p) \in Seq(PlainSteps)
  <2>1. <<"record">> \in Seq(Calls) /\ Len(<<"record">>) = 1 /\ <<"record">>[1] = "record"
    BY SmallPrograms DEF Calls
  <2>2. "record" \notin ByEntry \cup {"write"}
    BY DEF ByEntry
  <2>3. \A i \in 1 .. Len(<<"record">>) : <<"record">>[i] \notin ByEntry \cup {"write"}
    BY <2>1, <2>2
  <2> QED BY <2>1, <2>3, ForType DEF PairOrNone
<1> QED BY <1>2, <1>3, <1>4, <1>5, <1>6, <1>7

(* Keeping calls are plain ones.                                           *)
LEMMA KeepIsPlain ==
  ASSUME NEW s \in Seq(KeepSteps)
  PROVE  s \in Seq(PlainSteps)
  BY DEF KeepSteps

-----------------------------------------------------------------------------
(***************************************************************************)
(* A call is done and replaced: what keeps the program that is left sound. *)
(***************************************************************************)

(* The part of the shape that the calls of the workers touch.              *)
Working == /\ work \in [Workers -> Jobs]
           /\ wire \in [Workers -> Seq(Messages)]
           /\ \A w \in Workers : Sound(work[w])

(* The head and the tail of a program.                                     *)
LEMMA TailFacts ==
  ASSUME NEW S, NEW s \in Seq(S), s # <<>>
  PROVE  /\ Len(s) \in Nat \ {0} /\ Head(s) = s[1] /\ Head(s) \in S /\ 1 \in 1 .. Len(s)
         /\ Tail(s) \in Seq(S) /\ Len(Tail(s)) = Len(s) - 1
         /\ \A i \in 1 .. Len(Tail(s)) : i + 1 \in 1 .. Len(s) /\ Tail(s)[i] = s[i + 1]
  OBVIOUS

(* Where the steps of two programs in a row come from.                     *)
LEMMA ConcatFacts ==
  ASSUME NEW S, NEW a \in Seq(S), NEW b \in Seq(S)
  PROVE  /\ a \o b \in Seq(S) /\ Len(a \o b) = Len(a) + Len(b)
         /\ Len(a) \in Nat /\ Len(b) \in Nat
         /\ \A i \in 1 .. Len(a) : i \in 1 .. Len(a \o b) /\ (a \o b)[i] = a[i]
         /\ \A i \in 1 .. Len(a \o b) :
              \/ i \in 1 .. Len(a) /\ (a \o b)[i] = a[i]
              \/ i - Len(a) \in 1 .. Len(b) /\ (a \o b)[i] = b[i - Len(a)]
  OBVIOUS

(* One worker's call and connection move on; the others stay.              *)
LEMMA GoWorking ==
  ASSUME Working, NEW w \in Workers, NEW job \in Jobs, NEW msgs \in Seq(Messages),
         NEW steps \in Seq(NamedSteps), Go(w, job, msgs, steps),
         job.todo \in Seq(NamedSteps), job.todo # <<>>,
         NEW new \in Jobs, new = [job EXCEPT !.todo = steps \o Tail(@)], Sound(new)
  PROVE  Working'
<1>1. work' = [work EXCEPT ![w] = new]
  BY DEF Go
<1>2. wire' = [wire EXCEPT ![w] = @ \o msgs]
  BY DEF Go
<1>3. wire[w] \o msgs \in Seq(Messages)
  BY ConcatFacts DEF Working
<1>4. work' \in [Workers -> Jobs] /\ wire' \in [Workers -> Seq(Messages)]
  BY <1>1, <1>2, <1>3 DEF Working
<1>5. \A v \in Workers : work'[v] = new \/ work'[v] = work[v]
  BY <1>1 DEF Working
<1>6. \A v \in Workers : Sound(work'[v])
  BY <1>5 DEF Working
<1> QED BY <1>4, <1>6 DEF Working, Sound

(* The job that Go leaves behind.                                          *)
LEMMA NextJob ==
  ASSUME NEW job \in Jobs, job.todo \in Seq(NamedSteps), job.todo # <<>>,
         NEW steps \in Seq(NamedSteps)
  PROVE  /\ [job EXCEPT !.todo = steps \o Tail(@)] \in Jobs
         /\ [job EXCEPT !.todo = steps \o Tail(@)].todo = steps \o Tail(job.todo)
         /\ [job EXCEPT !.todo = steps \o Tail(@)].entry = job.entry
         /\ [job EXCEPT !.todo = steps \o Tail(@)].k = job.k
         /\ steps \o Tail(job.todo) \in Seq(NamedSteps)
<1>1. Tail(job.todo) \in Seq(NamedSteps)
  BY TailFacts
<1>2. steps \o Tail(job.todo) \in Seq(NamedSteps)
  BY <1>1, ConcatFacts
<1>3. steps \o Tail(job.todo) \in Seq(Steps)
  BY <1>2 DEF NamedSteps
<1> QED BY <1>2, <1>3 DEF Jobs

(* A call that leaves the entry alone is replaced by such calls.           *)
LEMMA GoKeep ==
  ASSUME Working, NEW w \in Workers, work[w].todo # <<>>,
         Head(work[w].todo).do \in Keeping,
         NEW job \in Jobs, job.todo = work[w].todo, job.entry = work[w].entry,
         job.k = work[w].k,
         NEW msgs \in Seq(Messages), NEW steps \in Seq(KeepSteps), Go(w, job, msgs, steps)
  PROVE  Working'
<1>1. Sound(work[w])
  BY DEF Working
<1>2. job.todo \in Seq(NamedSteps) /\ job.todo # <<>> /\ job.k # None
  BY <1>1 DEF Sound
<1>3. steps \in Seq(NamedSteps)
  BY DEF KeepSteps, PlainSteps
<1>4. PICK new \in Jobs : /\ new = [job EXCEPT !.todo = steps \o Tail(@)]
                          /\ new.todo = steps \o Tail(job.todo)
                          /\ new.entry = job.entry /\ new.k = job.k
                          /\ new.todo \in Seq(NamedSteps)
  BY <1>2, <1>3, NextJob
<1>5. \A i \in 1 .. Len(new.todo) :
         \/ new.todo[i].do \in Keeping
         \/ i - Len(steps) + 1 \in 2 .. Len(job.todo)
            /\ new.todo[i] = job.todo[i - Len(steps) + 1]
  <2> SUFFICES ASSUME NEW i \in 1 .. Len(new.todo)
               PROVE  \/ new.todo[i].do \in Keeping
                      \/ i - Len(steps) + 1 \in 2 .. Len(job.todo)
                         /\ new.todo[i] = job.todo[i - Len(steps) + 1]
    OBVIOUS
  <2>0. Tail(job.todo) \in Seq(NamedSteps) /\ Len(Tail(job.todo)) = Len(job.todo) - 1
        /\ Len(job.todo) \in Nat
    BY <1>2, TailFacts
  <2>1. \/ i \in 1 .. Len(steps) /\ new.todo[i] = steps[i]
        \/ i - Len(steps) \in 1 .. Len(Tail(job.todo))
           /\ new.todo[i] = Tail(job.todo)[i - Len(steps)]
    BY <1>3, <1>4, <2>0, ConcatFacts
  <2>2. CASE i \in 1 .. Len(steps) /\ new.todo[i] = steps[i]
    <3>1. steps[i] \in KeepSteps
      BY <2>2
    <3> QED BY <2>2, <3>1 DEF KeepSteps
  <2>3. CASE i - Len(steps) \in 1 .. Len(Tail(job.todo))
             /\ new.todo[i] = Tail(job.todo)[i - Len(steps)]
    <3>1. Tail(job.todo)[i - Len(steps)] = job.todo[i - Len(steps) + 1]
      BY <1>2, <2>3, TailFacts
    <3>2. i - Len(steps) + 1 \in 2 .. Len(job.todo)
      <4>1. Len(steps) \in Nat /\ i \in Int /\ Len(job.todo) \in Nat
        BY <1>2, <1>3
      <4>2. i - Len(steps) \in 1 .. Len(job.todo) - 1
        BY <2>0, <2>3
      <4> QED BY ONLY <4>1, <4>2
    <3> QED BY <2>3, <3>1, <3>2
  <2> QED BY <2>1, <2>2, <2>3
<1>6. Keeping \cap (ByEntry \cup {"write"}) = {}
  BY DEF Keeping, ByEntry, Handlers
<1>7. \A i \in 1 .. Len(new.todo) : new.todo[i].do \notin ByEntry
  <2> SUFFICES ASSUME NEW i \in 1 .. Len(new.todo), new.todo[i].do \in ByEntry PROVE FALSE
    OBVIOUS
  <2>1. PICK n \in 2 .. Len(job.todo) : job.todo[n].do \in ByEntry
    BY <1>5, <1>6
  <2>2. n \in 1 .. Len(work[w].todo) /\ n # 1
    BY <2>1
  <2> QED BY <1>1, <2>1, <2>2 DEF Sound
<1>8. ASSUME NEW i \in 1 .. Len(new.todo), new.todo[i].do = "write"
      PROVE  /\ new.entry.pair \in Pairs
             /\ \A j \in 1 .. Len(new.todo) : j < i => new.todo[j].do \in Keeping
  <2>0. Len(steps) \in Nat /\ Len(job.todo) \in Nat /\ Len(new.todo) \in Nat
    BY <1>2, <1>4
  <2>1. i - Len(steps) + 1 \in 2 .. Len(job.todo)
        /\ job.todo[i - Len(steps) + 1].do = "write"
    BY <1>5, <1>6, <1>8
  <2>2. i - Len(steps) + 1 \in 1 .. Len(work[w].todo)
    BY <2>1
  <2>3. /\ job.entry.pair \in Pairs
        /\ \A j \in 1 .. Len(job.todo) :
             j < i - Len(steps) + 1 => job.todo[j].do \in Keeping
    BY <1>1, <2>1, <2>2 DEF Sound
  <2>4. ASSUME NEW j \in 1 .. Len(new.todo), j < i PROVE new.todo[j].do \in Keeping
    <3>1. CASE j - Len(steps) + 1 \in 2 .. Len(job.todo)
               /\ new.todo[j] = job.todo[j - Len(steps) + 1]
      <4>1. j - Len(steps) + 1 \in 1 .. Len(job.todo)
            /\ j - Len(steps) + 1 < i - Len(steps) + 1
        BY <2>0, <2>4, <3>1
      <4> QED BY <2>3, <3>1, <4>1
    <3> QED BY <1>5, <3>1
  <2> QED BY <1>4, <2>3, <2>4
<1>9. Sound(new)
  BY <1>2, <1>4, <1>7, <1>8 DEF Sound
<1> QED BY <1>2, <1>3, <1>4, <1>9, GoWorking

(* Behind any other call no write is waiting, so it may read another entry.*)
LEMMA BehindOther ==
  ASSUME NEW job \in Jobs, Sound(job), job.todo # <<>>, Head(job.todo).do \notin Keeping
  PROVE  /\ \A i \in 1 .. Len(Tail(job.todo)) :
              Tail(job.todo)[i].do \notin ByEntry \cup {"write"}
         /\ Tail(job.todo) \in Seq(NamedSteps)
<1>1. job.todo \in Seq(NamedSteps)
  BY DEF Sound
<1>2. ASSUME NEW i \in 1 .. Len(Tail(job.todo))
      PROVE  Tail(job.todo)[i].do \notin ByEntry \cup {"write"}
  <2>1. /\ i + 1 \in 1 .. Len(job.todo) /\ Tail(job.todo)[i] = job.todo[i + 1]
        /\ Head(job.todo) = job.todo[1] /\ 1 \in 1 .. Len(job.todo)
    BY <1>1, TailFacts
  <2>2. i + 1 # 1 /\ 1 < i + 1
    BY <1>2
  <2>3. job.todo[i + 1].do \notin ByEntry
    BY <2>1, <2>2 DEF Sound
  <2>4. job.todo[i + 1].do # "write"
    BY <2>1, <2>2 DEF Sound
  <2> QED BY <2>1, <2>3, <2>4
<1> QED BY <1>1, <1>2, TailFacts

(* Any other call may be replaced by plain ones, with any entry read.      *)
LEMMA GoPlain ==
  ASSUME Working, NEW w \in Workers, work[w].todo # <<>>,
         Head(work[w].todo).do \notin Keeping,
         NEW job \in Jobs, job.todo = work[w].todo, job.k = work[w].k,
         NEW msgs \in Seq(Messages), NEW steps \in Seq(PlainSteps), Go(w, job, msgs, steps)
  PROVE  Working'
<1>1. Sound(work[w]) /\ work[w] \in Jobs
  BY DEF Working
<1>2. job.todo \in Seq(NamedSteps) /\ job.todo # <<>> /\ job.k # None
  BY <1>1 DEF Sound
<1>3. steps \in Seq(NamedSteps)
  BY DEF PlainSteps
<1>4. PICK new \in Jobs : /\ new = [job EXCEPT !.todo = steps \o Tail(@)]
                          /\ new.todo = steps \o Tail(job.todo)
                          /\ new.entry = job.entry /\ new.k = job.k
                          /\ new.todo \in Seq(NamedSteps)
  BY <1>2, <1>3, NextJob
<1>5. /\ Tail(job.todo) \in Seq(NamedSteps)
      /\ \A i \in 1 .. Len(Tail(job.todo)) : Tail(job.todo)[i].do \notin ByEntry \cup {"write"}
  BY <1>1, BehindOther
<1>6. \A i \in 1 .. Len(steps) : steps[i].do \notin ByEntry \cup {"write"}
  BY DEF PlainSteps
<1>7. \A i \in 1 .. Len(new.todo) : new.todo[i].do \notin ByEntry \cup {"write"}
  BY <1>3, <1>4, <1>5, <1>6, ConcatFacts
<1>8. Sound(new)
  BY <1>2, <1>4, <1>7 DEF Sound
<1> QED BY <1>2, <1>3, <1>4, <1>8, GoWorking

(* ... or by the first call that goes by an entry that names a pair.       *)
LEMMA GoFirst ==
  ASSUME Working, NEW w \in Workers, work[w].todo # <<>>,
         Head(work[w].todo).do \notin Keeping,
         NEW job \in Jobs, job.todo = work[w].todo, job.k = work[w].k,
         job.entry.pair \in Pairs,
         NEW s \in NamedSteps, s.do \in ByEntry, Go(w, job, <<>>, <<s>>)
  PROVE  Working'
<1>1. Sound(work[w]) /\ work[w] \in Jobs
  BY DEF Working
<1>2. job.todo \in Seq(NamedSteps) /\ job.todo # <<>> /\ job.k # None
  BY <1>1 DEF Sound
<1>3. <<s>> \in Seq(NamedSteps) /\ Len(<<s>>) = 1 /\ <<>> \in Seq(Messages)
  BY SmallPrograms
<1>4. PICK new \in Jobs : /\ new = [job EXCEPT !.todo = <<s>> \o Tail(@)]
                          /\ new.todo = <<s>> \o Tail(job.todo)
                          /\ new.entry = job.entry /\ new.k = job.k
                          /\ new.todo \in Seq(NamedSteps)
  BY <1>2, <1>3, NextJob
<1>5. /\ Tail(job.todo) \in Seq(NamedSteps)
      /\ \A i \in 1 .. Len(Tail(job.todo)) : Tail(job.todo)[i].do \notin ByEntry \cup {"write"}
  BY <1>1, BehindOther
<1>6. s.do # "write"
  BY DEF ByEntry
<1>7. \A i \in 1 .. Len(new.todo) :
         new.todo[i].do # "write" /\ (new.todo[i].do \in ByEntry => i = 1)
  <2> SUFFICES ASSUME NEW i \in 1 .. Len(new.todo)
               PROVE  new.todo[i].do # "write" /\ (new.todo[i].do \in ByEntry => i = 1)
    OBVIOUS
  <2>1. \/ i \in 1 .. Len(<<s>>) /\ new.todo[i] = <<s>>[i]
        \/ i - Len(<<s>>) \in 1 .. Len(Tail(job.todo))
           /\ new.todo[i] = Tail(job.todo)[i - Len(<<s>>)]
    BY <1>3, <1>4, <1>5, ConcatFacts
  <2>2. CASE i \in 1 .. Len(<<s>>) /\ new.todo[i] = <<s>>[i]
    <3>1. i = 1 /\ new.todo[i] = s
      BY <1>3, <2>2
    <3> QED BY <1>6, <3>1
  <2>3. CASE i - Len(<<s>>) \in 1 .. Len(Tail(job.todo))
             /\ new.todo[i] = Tail(job.todo)[i - Len(<<s>>)]
    BY <1>5, <2>3
  <2> QED BY <2>1, <2>2, <2>3
<1>8. Sound(new)
  BY <1>2, <1>4, <1>7 DEF Sound
<1> QED BY <1>2, <1>3, <1>4, <1>8, GoWorking

(* ... or, when a marker is in the way, by its drain and the write.        *)
LEMMA GoWrite ==
  ASSUME Working, NEW w \in Workers, work[w].todo # <<>>,
         Head(work[w].todo).do \notin Keeping,
         NEW job \in Jobs, job.todo = work[w].todo, job.k = work[w].k,
         job.entry.pair \in Pairs,
         NEW a \in Seq(KeepSteps), NEW b \in Seq(NamedSteps), Len(b) = 1, b[1].do = "write",
         Go(w, job, <<>>, a \o b)
  PROVE  Working'
<1>1. Sound(work[w]) /\ work[w] \in Jobs
  BY DEF Working
<1>2. job.todo \in Seq(NamedSteps) /\ job.todo # <<>> /\ job.k # None
  BY <1>1 DEF Sound
<1>3. a \in Seq(NamedSteps) /\ <<>> \in Seq(Messages)
  BY SmallPrograms DEF KeepSteps, PlainSteps
<1>4. PICK steps \in Seq(NamedSteps) : steps = a \o b
  BY <1>3, ConcatFacts
<1>5. PICK new \in Jobs : /\ new = [job EXCEPT !.todo = steps \o Tail(@)]
                          /\ new.todo = steps \o Tail(job.todo)
                          /\ new.entry = job.entry /\ new.k = job.k
                          /\ new.todo \in Seq(NamedSteps)
  BY ONLY <1>2, NextJob, job \in Jobs, steps \in Seq(NamedSteps)
<1>6. /\ Tail(job.todo) \in Seq(NamedSteps)
      /\ \A i \in 1 .. Len(Tail(job.todo)) : Tail(job.todo)[i].do \notin ByEntry \cup {"write"}
  BY <1>1, BehindOther
<1>7. /\ Len(a) \in Nat /\ Len(steps) = Len(a) + 1
      /\ \A i \in 1 .. Len(a) : steps[i].do \in Keeping
      /\ \A i \in 1 .. Len(steps) : steps[i].do \in Keeping \/ (i = Len(a) + 1 /\ steps[i].do = "write")
  <2>1. \A i \in 1 .. Len(a) : a[i].do \in Keeping
    BY DEF KeepSteps
  <2>2. /\ Len(steps) = Len(a) + Len(b) /\ Len(a) \in Nat
        /\ \A i \in 1 .. Len(a) : steps[i] = a[i]
        /\ \A i \in 1 .. Len(steps) :
              \/ i \in 1 .. Len(a) /\ steps[i] = a[i]
              \/ i - Len(a) \in 1 .. Len(b) /\ steps[i] = b[i - Len(a)]
    BY ONLY <1>3, <1>4, ConcatFacts, b \in Seq(NamedSteps)
  <2>3. ASSUME NEW i \in 1 .. Len(steps)
        PROVE  steps[i].do \in Keeping \/ (i = Len(a) + 1 /\ steps[i].do = "write")
    <3>1. CASE i \in 1 .. Len(a) /\ steps[i] = a[i]
      BY <2>1, <3>1
    <3>2. CASE i - Len(a) \in 1 .. Len(b) /\ steps[i] = b[i - Len(a)]
      <4>1. i - Len(a) = 1
        BY <2>2, <3>2
      <4>2. steps[i] = b[1] /\ i = Len(a) + 1
        BY <2>2, <3>2, <4>1
      <4> QED BY <4>2
    <3> QED BY <2>2, <3>1, <3>2
  <2> QED BY <2>1, <2>2, <2>3
<1>8. Keeping \cap (ByEntry \cup {"write"}) = {} /\ "write" \notin ByEntry
  BY DEF Keeping, ByEntry, Handlers
<1>9. \A i \in 1 .. Len(new.todo) :
         /\ new.todo[i].do \notin ByEntry
         /\ new.todo[i].do = "write" => i = Len(a) + 1
         /\ i < Len(a) + 1 => new.todo[i].do \in Keeping
  <2> SUFFICES ASSUME NEW i \in 1 .. Len(new.todo)
               PROVE  /\ new.todo[i].do \notin ByEntry
                      /\ new.todo[i].do = "write" => i = Len(a) + 1
                      /\ i < Len(a) + 1 => new.todo[i].do \in Keeping
    OBVIOUS
  <2>1. \/ i \in 1 .. Len(steps) /\ new.todo[i] = steps[i]
        \/ i - Len(steps) \in 1 .. Len(Tail(job.todo))
           /\ new.todo[i] = Tail(job.todo)[i - Len(steps)]
    BY ONLY <1>5, <1>6, ConcatFacts, steps \in Seq(NamedSteps), i \in 1 .. Len(new.todo)
  <2>2. CASE i \in 1 .. Len(steps) /\ new.todo[i] = steps[i]
    BY <1>7, <1>8, <2>2
  <2>3. CASE i - Len(steps) \in 1 .. Len(Tail(job.todo))
             /\ new.todo[i] = Tail(job.todo)[i - Len(steps)]
    <3>1. new.todo[i].do \notin ByEntry \cup {"write"}
      BY <1>6, <2>3
    <3>2. ~(i < Len(a) + 1)
      BY <1>7, <2>3
    <3> QED BY <3>1, <3>2
  <2> QED BY <2>1, <2>2, <2>3
<1>10. Sound(new)
  <2>1. \A i \in 1 .. Len(new.todo) :
           new.todo[i].do = "write" =>
              /\ new.entry.pair \in Pairs
              /\ \A j \in 1 .. Len(new.todo) : j < i => new.todo[j].do \in Keeping
    BY <1>5, <1>9
  <2> QED BY <1>2, <1>5, <1>9, <2>1 DEF Sound
<1> QED BY <1>2, <1>3, <1>4, <1>5, <1>10, GoWorking

-----------------------------------------------------------------------------
(***************************************************************************)
(* A call fails: the program its handler leaves.                           *)
(***************************************************************************)

(* A nonempty set of naturals has a least element.                         *)
LEMMA LeastOf ==
  ASSUME NEW T \in SUBSET Nat, T # {}
  PROVE  \E x \in T : \A y \in T : x <= y
<1> DEFINE R == OpToRel(<, Nat)
<1>1. \A x, y \in Nat : y < x => <<y, x>> \in R
  BY DEF OpToRel
<1>2. IsWellFoundedOn(R, Nat)
  BY NatLessThanWellFounded
<1> HIDE DEF R
<1>3. PICK x \in T : \A y \in T : ~ (<<y, x>> \in R)
  BY <1>2, WFMin
<1>4. ASSUME NEW y \in T PROVE x <= y
  <2>1. x \in Nat /\ y \in Nat
    OBVIOUS
  <2>2. ~(y < x)
    BY <1>1, <1>3, <2>1
  <2> QED BY <2>1, <2>2
<1> QED BY <1>4

(* The handler a failure goes to is behind the call that failed.           *)
LEMMA FirstHandlerIs ==
  ASSUME NEW todo \in Seq(Steps), FirstHandler(todo) # 0
  PROVE  FirstHandler(todo) \in 2 .. Len(todo) /\ todo[FirstHandler(todo)].do \in Handlers
<1> DEFINE T == {i \in 2 .. Len(todo) : todo[i].do \in Handlers}
<1>1. T # {} /\ FirstHandler(todo) = CHOOSE i \in T : \A j \in T : i <= j
  BY DEF FirstHandler
<1>2. T \in SUBSET Nat
  OBVIOUS
<1>3. \E i \in T : \A j \in T : i <= j
  BY <1>1, <1>2, LeastOf
<1>4. FirstHandler(todo) \in T
  BY <1>1, <1>3
<1> QED BY <1>4

(* What a handler leaves to do is sound: the end of the program behind it, *)
(* a clear, or the revoke and the record of a recovered grant.             *)
LEMMA HandledIs ==
  ASSUME NEW job \in Jobs, Sound(job), job.todo # <<>>
  PROVE  \/ Handled(job) \in Seq(PlainSteps)
         \/ \E h \in 2 .. Len(job.todo) :
               Handled(job) = SubSeq(job.todo, h + 1, Len(job.todo))
<1> DEFINE h == FirstHandler(job.todo)
           e == job.entry
<1>1. job.todo \in Seq(NamedSteps) /\ job.todo \in Seq(Steps)
  BY DEF Sound, Jobs
<1>2. CASE h = 0
  <2>1. Handled(job) = <<>>
    BY <1>2 DEF Handled
  <2> QED BY <2>1, SmallPrograms
<1>3. CASE h # 0
  <2>1. h \in 2 .. Len(job.todo) /\ job.todo[h].do \in Handlers
    BY <1>1, <1>3, FirstHandlerIs
  <2>2. job.todo[h] \in NamedSteps
    BY <1>1, <2>1
  <2>3. CASE job.todo[h].do = "catch"
    BY <1>3, <2>1, <2>3 DEF Handled
  <2>4. CASE job.todo[h].do = "stop"
    <3>1. Handled(job) = <<>>
      BY <1>3, <2>4 DEF Handled
    <3> QED BY <3>1, SmallPrograms
  <2>5. CASE job.todo[h].do = "keepMarker"
    <3>1. Handled(job) = Only("clear")
      BY <1>3, <2>5 DEF Handled
    <3>2. "clear" \in Calls /\ "clear" \notin Paired \cup ByEntry
      BY DEF Calls, Paired, ByEntry
    <3> QED BY <3>1, <3>2, OnlyType
  <2>6. CASE job.todo[h].do = "recover"
    <3> DEFINE p == job.todo[h].pair
    <3>1. p \in Pairs
      BY <2>2, <2>6 DEF NamedSteps, Paired
    <3>2. Handled(job) = (IF e.marker # None /\ e.pair # p
                          THEN Drain(e.marker) \o For(<<"clearMarker">>, e.marker) ELSE <<>>)
                         \o For(<<"record">>, p)
      BY <1>3, <2>6 DEF Handled
    <3>3. For(<<"record">>, p) \in Seq(PlainSteps)
      BY <3>1, RevokePrograms
    <3>4. e.marker # None => Drain(e.marker) \o For(<<"clearMarker">>, e.marker) \in Seq(PlainSteps)
      <4> SUFFICES ASSUME e.marker # None
                   PROVE  Drain(e.marker) \o For(<<"clearMarker">>, e.marker) \in Seq(PlainSteps)
        OBVIOUS
      <4>1. e.marker \in Pairs
        BY DEF Jobs, Entries
      <4>2. RevokeSuperseded(e.marker) \in Seq(KeepSteps)
        BY <4>1, RevokePrograms
      <4> QED BY <4>2, KeepIsPlain DEF RevokeSuperseded
    <3>5. <<>> \in Seq(PlainSteps)
      BY SmallPrograms
    <3>6. \A a, b \in Seq(PlainSteps) : a \o b \in Seq(PlainSteps)
      BY Concats
    <3> QED BY <3>2, <3>3, <3>4, <3>5, <3>6
  <2> QED BY <2>1, <2>3, <2>4, <2>5, <2>6 DEF Handlers
<1> QED BY <1>2, <1>3

(* The end of a sound program is sound.                                    *)
LEMMA EndSound ==
  ASSUME NEW job \in Jobs, Sound(job), job.todo # <<>>,
         NEW h \in 1 .. Len(job.todo),
         NEW new \in Jobs, new.todo = SubSeq(job.todo, h + 1, Len(job.todo)),
         new.entry = job.entry, new.k = job.k
  PROVE  Sound(new)
<1>1. job.todo \in Seq(NamedSteps) /\ Len(job.todo) \in Nat
  BY DEF Sound
<1>2. ASSUME NEW S, NEW s \in Seq(S), NEW n \in 1 .. Len(s)
      PROVE  /\ SubSeq(s, n + 1, Len(s)) \in Seq(S)
             /\ \A i \in 1 .. Len(SubSeq(s, n + 1, Len(s))) :
                   i + n \in 1 .. Len(s) /\ SubSeq(s, n + 1, Len(s))[i] = s[i + n]
  BY ONLY <1>2
<1>3. /\ new.todo \in Seq(NamedSteps)
      /\ \A i \in 1 .. Len(new.todo) :
            i + h \in 1 .. Len(job.todo) /\ new.todo[i] = job.todo[i + h]
  BY <1>1, <1>2
<1>4. job.k # None
  BY DEF Sound
<1>5. ASSUME NEW i \in 1 .. Len(new.todo)
      PROVE  /\ new.todo[i].do \notin ByEntry
             /\ new.todo[i].do = "write" =>
                  /\ new.entry.pair \in Pairs
                  /\ \A j \in 1 .. Len(new.todo) : j < i => new.todo[j].do \in Keeping
  <2>1. i + h # 1 /\ i + h \in 1 .. Len(job.todo) /\ new.todo[i] = job.todo[i + h]
    BY <1>3
  <2>2. new.todo[i].do \notin ByEntry
    BY <2>1 DEF Sound
  <2>3. ASSUME new.todo[i].do = "write"
        PROVE  /\ new.entry.pair \in Pairs
               /\ \A j \in 1 .. Len(new.todo) : j < i => new.todo[j].do \in Keeping
    <3>1. /\ job.entry.pair \in Pairs
          /\ \A j \in 1 .. Len(job.todo) : j < i + h => job.todo[j].do \in Keeping
      BY <2>1, <2>3 DEF Sound
    <3>2. ASSUME NEW j \in 1 .. Len(new.todo), j < i PROVE new.todo[j].do \in Keeping
      <4>1. j + h \in 1 .. Len(job.todo) /\ new.todo[j] = job.todo[j + h] /\ j + h < i + h
        BY <1>3, <3>2
      <4> QED BY <3>1, <4>1
    <3> QED BY <3>1, <3>2
  <2> QED BY <2>2, <2>3
<1> QED BY <1>3, <1>4, <1>5 DEF Sound

(* A program without writes and claims is sound with any entry.            *)
LEMMA PlainSound ==
  ASSUME NEW new \in Jobs, new.todo \in Seq(PlainSteps), new.k # None
  PROVE  Sound(new)
<1>1. new.todo \in Seq(NamedSteps)
  BY DEF PlainSteps
<1>2. \A i \in 1 .. Len(new.todo) : new.todo[i].do \notin ByEntry \cup {"write"}
  BY DEF PlainSteps
<1> QED BY <1>1, <1>2 DEF Sound

(* A call with another program.                                            *)
LEMMA JobWith ==
  ASSUME NEW job \in Jobs, NEW todo \in Seq(Steps)
  PROVE  /\ [job EXCEPT !.hold = TRUE, !.todo = todo] \in Jobs
         /\ [job EXCEPT !.hold = TRUE, !.todo = todo].todo = todo
         /\ [job EXCEPT !.hold = TRUE, !.todo = todo].entry = job.entry
         /\ [job EXCEPT !.hold = TRUE, !.todo = todo].k = job.k
         /\ [job EXCEPT !.todo = todo] \in Jobs
         /\ [job EXCEPT !.todo = todo].todo = todo
         /\ [job EXCEPT !.todo = todo].entry = job.entry
         /\ [job EXCEPT !.todo = todo].k = job.k
  BY DEF Jobs

(* A failed call leaves a sound one.                                       *)
LEMMA GiveUpWorking ==
  ASSUME Working, NEW w \in Workers, work[w].todo # <<>>, GiveUp(w),
         wire' \in [Workers -> Seq(Messages)]
  PROVE  Working'
<1>1. work[w] \in Jobs /\ Sound(work[w])
  BY DEF Working
<1>2. \/ Handled(work[w]) \in Seq(PlainSteps)
      \/ \E h \in 2 .. Len(work[w].todo) :
            Handled(work[w]) = SubSeq(work[w].todo, h + 1, Len(work[w].todo))
  BY <1>1, HandledIs
<1>3. Handled(work[w]) \in Seq(Steps)
  <2>1. CASE Handled(work[w]) \in Seq(PlainSteps)
    BY <2>1 DEF PlainSteps, NamedSteps
  <2>2. CASE \E h \in 2 .. Len(work[w].todo) :
                Handled(work[w]) = SubSeq(work[w].todo, h + 1, Len(work[w].todo))
    <3>1. work[w].todo \in Seq(Steps)
      BY <1>1 DEF Jobs
    <3> QED BY <2>2, <3>1
  <2> QED BY <1>2, <2>1, <2>2
<1> DEFINE new == [work[w] EXCEPT !.hold = TRUE, !.todo = Handled(work[w])]
<1>4. /\ new \in Jobs
      /\ new.todo = Handled(work[w])
      /\ new.entry = work[w].entry /\ new.k = work[w].k
  BY <1>1, <1>3, JobWith
<1>6. work' = [work EXCEPT ![w] = new]
  BY DEF GiveUp
<1> HIDE DEF new
<1>5. Sound(new)
  <2>1. CASE Handled(work[w]) \in Seq(PlainSteps)
    BY <1>1, <1>4, <2>1, PlainSound DEF Sound
  <2>2. ASSUME NEW h \in 2 .. Len(work[w].todo),
               Handled(work[w]) = SubSeq(work[w].todo, h + 1, Len(work[w].todo))
        PROVE  Sound(new)
    <3>1. h \in 1 .. Len(work[w].todo)
      OBVIOUS
    <3> QED BY <1>1, <1>4, <2>2, <3>1, EndSound
  <2> QED BY <1>2, <2>1, <2>2
<1>7. work' \in [Workers -> Jobs] /\ \A v \in Workers : work'[v] = new \/ work'[v] = work[v]
  BY <1>4, <1>6 DEF Working
<1>8. \A v \in Workers : Sound(work'[v])
  BY <1>5, <1>7 DEF Working
<1> QED BY <1>7, <1>8 DEF Working, Sound

(* So does one whose failure is only logged, and a step that finds nothing.*)
LEMMA DropWorking ==
  ASSUME Working, NEW w \in Workers, work[w].todo # <<>>,
         work' = [work EXCEPT ![w].todo = Tail(@)],
         wire' \in [Workers -> Seq(Messages)]
  PROVE  Working'
<1>1. work[w] \in Jobs /\ Sound(work[w])
  BY DEF Working
<1>2. work[w].todo \in Seq(Steps) /\ 1 \in 1 .. Len(work[w].todo)
  BY <1>1 DEF Jobs
<1>3. Tail(work[w].todo) = SubSeq(work[w].todo, 1 + 1, Len(work[w].todo))
      /\ Tail(work[w].todo) \in Seq(Steps)
  BY <1>2
<1> DEFINE new == [work[w] EXCEPT !.todo = Tail(work[w].todo)]
<1>4. /\ new \in Jobs
      /\ new.todo = Tail(work[w].todo)
      /\ new.entry = work[w].entry /\ new.k = work[w].k
  BY <1>1, <1>3, JobWith
<1>6. work' = [work EXCEPT ![w] = new]
  BY <1>1 DEF Working
<1> HIDE DEF new
<1>5. Sound(new)
  BY <1>1, <1>2, <1>3, <1>4, EndSound
<1>7. work' \in [Workers -> Jobs] /\ \A v \in Workers : work'[v] = new \/ work'[v] = work[v]
  BY <1>4, <1>6 DEF Working
<1>8. \A v \in Workers : Sound(work'[v])
  BY <1>5, <1>7 DEF Working
<1> QED BY <1>7, <1>8 DEF Working, Sound

-----------------------------------------------------------------------------
(***************************************************************************)
(* The shape of the whole state.                                           *)
(***************************************************************************)

(* The rest of the state.                                                  *)
Around ==
    /\ sf \in Views
    /\ events \in Seq(Events)
    /\ grants \in [Contacts -> Entries]
    /\ revision \in Nat
    /\ removed \subseteq Pairs
    /\ tuples \subseteq Pairs
    /\ changes \in 0 .. MaxChanges
    /\ faults \in 0 .. MaxFaults
    /\ logged \subseteq Pairs /\ lost \subseteq Pairs

(* The consumer works on the event at the head of its queue.               *)
Taken == work[Consumer].k # None => events # <<>>

Shape == Around /\ Working /\ Taken

(* The shape implies the type invariant of the module.                     *)
LEMMA ShapeTyped == Shape => TypeOK
  BY DEF Shape, Around, Working, Jobs, TypeOK

(* What a worker at a call knows.                                          *)
LEMMA AtFacts ==
  ASSUME Working, NEW w \in Workers, NEW d, At(w, d)
  PROVE  /\ work[w] \in Jobs /\ Sound(work[w]) /\ work[w].todo # <<>>
         /\ Head(work[w].todo).do = d
         /\ work[w].k \in Contacts /\ work[w].entry \in Entries
         /\ work[w].by \in Contacts \cup {None}
         /\ work[w].kc \in Records
         /\ Pair(w) \in PairOrNone
         /\ d \in Paired => Pair(w) \in Pairs
         /\ d \in ByEntry \cup {"write"} => work[w].entry.pair \in Pairs
<1>1. work[w] \in Jobs /\ Sound(work[w]) /\ work[w].todo # <<>> /\ Head(work[w].todo).do = d
  BY DEF Working, At
<1>2. work[w].todo \in Seq(NamedSteps)
  BY <1>1 DEF Sound
<1>3. /\ Head(work[w].todo) \in NamedSteps /\ Head(work[w].todo) = work[w].todo[1]
      /\ 1 \in 1 .. Len(work[w].todo)
  BY <1>1, <1>2, TailFacts
<1>4. /\ Pair(w) \in PairOrNone
      /\ d \in Paired => Pair(w) \in Pairs
  BY <1>1, <1>3 DEF Pair, NamedSteps, Steps, PairOrNone
<1>5. work[w].k # None
  BY <1>1 DEF Sound
<1>6. d \in ByEntry \cup {"write"} => work[w].entry.pair \in Pairs
  BY <1>1, <1>3 DEF Sound
<1> QED BY <1>1, <1>4, <1>5, <1>6 DEF Jobs

(* A call with another sibling, entry, view or record.                     *)
LEMMA JobSets ==
  ASSUME NEW job \in Jobs
  PROVE  /\ \A s \in Contacts \cup {None} :
              /\ [job EXCEPT !.by = s] \in Jobs /\ [job EXCEPT !.by = s].todo = job.todo
              /\ [job EXCEPT !.by = s].entry = job.entry /\ [job EXCEPT !.by = s].k = job.k
         /\ \A e \in Entries :
              /\ [job EXCEPT !.entry = e] \in Jobs /\ [job EXCEPT !.entry = e].todo = job.todo
              /\ [job EXCEPT !.entry = e].entry = e /\ [job EXCEPT !.entry = e].k = job.k
         /\ \A v \in Views :
              /\ [job EXCEPT !.view = v] \in Jobs /\ [job EXCEPT !.view = v].todo = job.todo
              /\ [job EXCEPT !.view = v].entry = job.entry /\ [job EXCEPT !.view = v].k = job.k
         /\ \A r \in Records :
              /\ [job EXCEPT !.kc = r] \in Jobs /\ [job EXCEPT !.kc = r].todo = job.todo
              /\ [job EXCEPT !.kc = r].entry = job.entry /\ [job EXCEPT !.kc = r].k = job.k
  BY DEF Jobs

(* The messages of one call.                                               *)
LEMMA SmallMessages ==
  /\ <<>> \in Seq(Messages)
  /\ \A p \in Pairs : <<Put(p)>> \in Seq(Messages) /\ <<Remove(p)>> \in Seq(Messages)
  BY DEF Messages, Put, Remove

(* The bucket's writes.                                                    *)
LEMMA BucketTyped ==
  ASSUME Around, NEW k \in Contacts, NEW p \in PairOrNone, NEW m \in PairOrNone
  PROVE  /\ Name(k, p, m) \/ Rewrite(k, p, m) \/ Erase(k) \/ UNCHANGED bucket
              => /\ grants' \in [Contacts -> Entries]
                 /\ revision' \in Nat
                 /\ removed' \subseteq Pairs
<1>1. revision + 1 \in Nat /\ revision \in Nat
  BY DEF Around
<1>2. [pair |-> p, marker |-> m, rev |-> revision + 1] \in Entries /\ Absent \in Entries
  BY <1>1 DEF Entries, PairOrNone, Absent
<1>3. CASE Name(k, p, m) \/ Rewrite(k, p, m)
  BY <1>1, <1>2, <1>3 DEF Name, Rewrite, Around
<1>4. CASE Erase(k)
  BY <1>1, <1>2, <1>4 DEF Erase, Around
<1>5. CASE UNCHANGED bucket
  BY <1>5 DEF bucket, Around
<1> QED BY <1>3, <1>4, <1>5

(* The calls that leave the rest of the state alone.                       *)
LEMMA LocalAround == ASSUME Around, UNCHANGED local PROVE Around'
  BY DEF Around, local, bucket, ledger

(* Whoever justifies a pair is a record.                                   *)
LEMMA JustifiersAre ==
  ASSUME NEW view, NEW p, NEW k
  PROVE  Justifiers(view, p, k) \subseteq Contacts
  BY DEF Justifiers

(* The calls of a revoke.                                                  *)
LEMMA ScanWorking == ASSUME Shape, NEW w \in Workers, Scan(w) PROVE Working'
<1>0. Working
  BY DEF Shape
<1>1. PICK d \in {"scan", "scanLive", "scanQuick"} :
        /\ At(w, d)
        /\ \E view \in Scanned(w, d) :
             LET by == Justifiers(view, Pair(w), work[w].k)
                 confirmed == IF d = "scanQuick" THEN <<>> ELSE Only("flush")
             IN \/ \E s \in by : Go(w, [work[w] EXCEPT !.by = s], <<>>, <<>>)
                \/ /\ by = {}
                   /\ Go(w, [work[w] EXCEPT !.by = None], <<Remove(Pair(w))>>,
                         confirmed \o For(<<"recheck">>, Pair(w)))
  BY DEF Scan
<1>2. /\ work[w] \in Jobs /\ work[w].todo # <<>> /\ Head(work[w].todo).do = d
      /\ Pair(w) \in Pairs
  BY <1>0, <1>1, AtFacts DEF Paired
<1>3. Head(work[w].todo).do \in Keeping
  BY <1>2 DEF Keeping
<1>4. \A s \in Contacts \cup {None} :
         /\ [work[w] EXCEPT !.by = s] \in Jobs
         /\ [work[w] EXCEPT !.by = s].todo = work[w].todo
         /\ [work[w] EXCEPT !.by = s].entry = work[w].entry
         /\ [work[w] EXCEPT !.by = s].k = work[w].k
  BY <1>2, JobSets
<1>5. <<>> \in Seq(KeepSteps) /\ <<>> \in Seq(Messages) /\ <<Remove(Pair(w))>> \in Seq(Messages)
  BY <1>2, SmallPrograms, SmallMessages
<1>6. (IF d = "scanQuick" THEN <<>> ELSE Only("flush")) \o For(<<"recheck">>, Pair(w)) \in Seq(KeepSteps)
  <2>1. Only("flush") \in Seq(KeepSteps)
    BY OnlyType DEF Calls, Paired, ByEntry, Keeping
  <2>2. For(<<"recheck">>, Pair(w)) \in Seq(KeepSteps)
    BY <1>2, RevokePrograms DEF Keeping
  <2> QED BY <1>5, <2>1, <2>2, Concats
<1>7. CASE \E s \in Contacts : Go(w, [work[w] EXCEPT !.by = s], <<>>, <<>>)
  <2>1. PICK s \in Contacts : Go(w, [work[w] EXCEPT !.by = s], <<>>, <<>>)
    BY <1>7
  <2> DEFINE job == [work[w] EXCEPT !.by = s]
  <2>2. job \in Jobs /\ job.todo = work[w].todo /\ job.entry = work[w].entry /\ job.k = work[w].k
    BY <1>4
  <2>3. Go(w, job, <<>>, <<>>)
    BY <2>1
  <2> HIDE DEF job
  <2> QED BY <1>0, <1>2, <1>3, <1>5, <2>2, <2>3, GoKeep
<1>8. CASE Go(w, [work[w] EXCEPT !.by = None], <<Remove(Pair(w))>>,
              (IF d = "scanQuick" THEN <<>> ELSE Only("flush")) \o For(<<"recheck">>, Pair(w)))
  <2> DEFINE job == [work[w] EXCEPT !.by = None]
  <2>2. job \in Jobs /\ job.todo = work[w].todo /\ job.entry = work[w].entry /\ job.k = work[w].k
    BY <1>4
  <2> HIDE DEF job
  <2>3. Go(w, job, <<Remove(Pair(w))>>,
           (IF d = "scanQuick" THEN <<>> ELSE Only("flush")) \o For(<<"recheck">>, Pair(w)))
    BY <1>8 DEF job
  <2> QED BY <1>0, <1>2, <1>3, <1>5, <1>6, <2>2, <2>3, GoKeep
<1> QED BY <1>1, <1>7, <1>8, JustifiersAre

-----------------------------------------------------------------------------
(***************************************************************************)
(* The calls that leave the entry read alone.                              *)
(***************************************************************************)

(* The same with the call as it is.                                        *)
LEMMA KeepGo ==
  ASSUME Working, NEW w \in Workers, NEW d \in Keeping, At(w, d),
         NEW msgs \in Seq(Messages), NEW steps \in Seq(KeepSteps), Go(w, work[w], msgs, steps)
  PROVE  Working'
<1>1. work[w] \in Jobs /\ work[w].todo # <<>> /\ Head(work[w].todo).do = d
  BY AtFacts
<1> QED BY <1>1, GoKeep

(* ... and replaced by none.                                               *)
LEMMA KeepSkip ==
  ASSUME Working, NEW w \in Workers, NEW d \in Keeping, At(w, d), Skip(w)
  PROVE  Working'
<1>1. <<>> \in Seq(Messages) /\ <<>> \in Seq(KeepSteps)
  BY SmallPrograms
<1>2. Go(w, work[w], <<>>, <<>>)
  BY DEF Skip
<1> QED BY <1>1, <1>2, KeepGo

(* What the calls of a revoke are replaced by.                             *)
LEMMA KeepPrograms ==
  /\ <<>> \in Seq(KeepSteps) /\ Only("flush") \in Seq(KeepSteps) /\ Only("fail") \in Seq(KeepSteps)
  /\ Only("clear") \in Seq(KeepSteps) /\ Only("flush") \o Only("fail") \in Seq(KeepSteps)
  /\ \A p \in Pairs : /\ Only("flush") \o For(<<"verify">>, p) \in Seq(KeepSteps)
                      /\ For(<<"scanLive">>, p) \in Seq(KeepSteps)
<1>1. /\ Only("flush") \in Seq(KeepSteps) /\ Only("fail") \in Seq(KeepSteps)
      /\ Only("clear") \in Seq(KeepSteps)
  BY OnlyType DEF Calls, Paired, ByEntry, Keeping
<1>2. \A p \in Pairs : For(<<"verify">>, p) \in Seq(KeepSteps) /\ For(<<"scanLive">>, p) \in Seq(KeepSteps)
  BY RevokePrograms DEF Keeping
<1> QED BY <1>1, <1>2, Concats, SmallPrograms

(* Flush leaves a sound program.                                           *)
LEMMA FlushWorking == ASSUME Working, NEW w \in Workers, Flush(w) PROVE Working'
<1>1. "flush" \in Keeping /\ At(w, "flush") /\ Skip(w)
  BY DEF Flush, Keeping
<1> QED BY <1>1, KeepSkip

(* Recheck leaves a sound program.                                         *)
LEMMA RecheckWorking == ASSUME Working, NEW w \in Workers, Recheck(w) PROVE Working'
<1>1. "recheck" \in Keeping /\ At(w, "recheck") /\ Pair(w) \in Pairs
  BY AtFacts DEF Recheck, Keeping, Paired
<1>2. \/ Skip(w)
      \/ Go(w, work[w], <<Put(Pair(w))>>, Only("flush") \o For(<<"verify">>, Pair(w)))
  BY DEF Recheck
<1> QED BY <1>1, <1>2, KeepGo, KeepSkip, KeepPrograms, SmallMessages

(* Verify leaves a sound program.                                          *)
LEMMA VerifyWorking == ASSUME Working, NEW w \in Workers, Verify(w) PROVE Working'
<1>1. "verify" \in Keeping /\ At(w, "verify") /\ Pair(w) \in Pairs
  BY AtFacts DEF Verify, Keeping, Paired
<1>2. \/ \E s \in Contacts : Go(w, [work[w] EXCEPT !.by = s], <<>>, <<>>)
      \/ Go(w, work[w], <<Remove(Pair(w))>>, Only("flush") \o Only("fail"))
  BY JustifiersAre DEF Verify
<1>3. CASE \E s \in Contacts : Go(w, [work[w] EXCEPT !.by = s], <<>>, <<>>)
  <2>1. PICK s \in Contacts : Go(w, [work[w] EXCEPT !.by = s], <<>>, <<>>)
    BY <1>3
  <2> DEFINE job == [work[w] EXCEPT !.by = s]
  <2>2. work[w] \in Jobs /\ work[w].todo # <<>> /\ Head(work[w].todo).do \in Keeping
    BY <1>1, AtFacts
  <2>3. job \in Jobs /\ job.todo = work[w].todo /\ job.entry = work[w].entry /\ job.k = work[w].k
    BY <2>2, JobSets
  <2>4. Go(w, job, <<>>, <<>>)
    BY <2>1
  <2> HIDE DEF job
  <2> QED BY <2>2, <2>3, <2>4, GoKeep, SmallMessages, KeepPrograms
<1> QED BY <1>1, <1>2, <1>3, KeepGo, KeepPrograms, SmallMessages

(* ConfirmLive leaves a sound program.                                     *)
LEMMA ConfirmLiveWorking == ASSUME Working, NEW w \in Workers, ConfirmLive(w) PROVE Working'
<1>1. "confirmLive" \in Keeping /\ At(w, "confirmLive") /\ Pair(w) \in Pairs
  BY AtFacts DEF ConfirmLive, Keeping, Paired
<1>2. \/ Go(w, work[w], <<>>, <<>>)
      \/ Go(w, work[w], <<>>, For(<<"scanLive">>, Pair(w)))
  BY DEF ConfirmLive
<1> QED BY <1>1, <1>2, KeepGo, KeepPrograms, SmallMessages

(* Settle leaves a sound program.                                          *)
LEMMA SettleWorking == ASSUME Working, NEW w \in Workers, Settle(w) PROVE Working'
<1>1. "settle" \in Keeping /\ At(w, "settle") /\ Pair(w) \in Pairs
  BY AtFacts DEF Settle, Keeping, Paired
<1>2. \/ Skip(w)
      \/ Go(w, work[w], <<>>, Only("fail"))
      \/ Go(w, work[w], <<Put(Pair(w))>>, Only("flush") \o For(<<"verify">>, Pair(w)))
  BY DEF Settle
<1> QED BY <1>1, <1>2, KeepGo, KeepSkip, KeepPrograms, SmallMessages

(* Reassert leaves a sound program.                                        *)
LEMMA ReassertWorking == ASSUME Working, NEW w \in Workers, Reassert(w) PROVE Working'
<1>1. "reassert" \in Keeping /\ At(w, "reassert") /\ Pair(w) \in Pairs
  BY AtFacts DEF Reassert, Keeping, Paired
<1>2. Skip(w) \/ Go(w, work[w], <<Put(Pair(w))>>, Only("flush"))
  BY DEF Reassert
<1> QED BY <1>1, <1>2, KeepGo, KeepSkip, KeepPrograms, SmallMessages

(* Own leaves a sound program.                                             *)
LEMMA OwnWorking == ASSUME Working, NEW w \in Workers, Own(w) PROVE Working'
<1>1. "own" \in Keeping /\ At(w, "own")
  BY DEF Own, Keeping
<1>2. Skip(w) \/ Go(w, work[w], <<>>, Only("fail"))
  BY DEF Own
<1> QED BY <1>1, <1>2, KeepGo, KeepSkip, KeepPrograms, SmallMessages

(* ClearMarker leaves a sound program.                                     *)
LEMMA ClearMarkerWorking == ASSUME Working, NEW w \in Workers, ClearMarker(w) PROVE Working'
<1>1. "clearMarker" \in Keeping /\ At(w, "clearMarker") /\ Skip(w)
  BY DEF ClearMarker, Keeping
<1> QED BY <1>1, KeepSkip

(* Regranted leaves a sound program.                                       *)
LEMMA RegrantedWorking == ASSUME Working, NEW w \in Workers, Regranted(w) PROVE Working'
<1>1. "regranted" \in Keeping /\ At(w, "regranted") /\ Pair(w) \in Pairs
  BY AtFacts DEF Regranted, Keeping, Paired
<1>2. Skip(w) \/ Go(w, work[w], <<Put(Pair(w))>>, Only("flush"))
  BY DEF Regranted
<1> QED BY <1>1, <1>2, KeepGo, KeepSkip, KeepPrograms, SmallMessages

(* Compare leaves a sound program.                                         *)
LEMMA CompareWorking == ASSUME Working, NEW w \in Workers, Compare(w) PROVE Working'
<1>1. "compare" \in Keeping /\ At(w, "compare") /\ Pair(w) \in Pairs
  BY AtFacts DEF Compare, Keeping, Paired
<1>2. \/ Skip(w) \/ Go(w, work[w], <<Put(Pair(w))>>, Only("flush"))
      \/ Go(w, work[w], <<>>, Only("clear"))
  BY DEF Compare
<1> QED BY <1>1, <1>2, KeepGo, KeepSkip, KeepPrograms, SmallMessages

(* Clear leaves a sound program.                                           *)
LEMMA ClearWorking == ASSUME Working, NEW w \in Workers, Clear(w) PROVE Working'
<1>1. "clear" \in Keeping /\ At(w, "clear") /\ Skip(w)
  BY DEF Clear, Keeping
<1> QED BY <1>1, KeepSkip

(* EraseEntry leaves a sound program.                                      *)
LEMMA EraseEntryWorking == ASSUME Working, NEW w \in Workers, EraseEntry(w) PROVE Working'
<1>1. "erase" \in Keeping /\ At(w, "erase") /\ Skip(w)
  BY DEF EraseEntry, Keeping
<1> QED BY <1>1, KeepSkip

(* Pass leaves a sound program.                                            *)
LEMMA PassWorking == ASSUME Working, NEW w \in Workers, Pass(w) PROVE Working'
<1>1. PICK h \in Handlers : At(w, h) /\ Skip(w)
  BY DEF Pass
<1>2. h \in Keeping
  BY DEF Keeping
<1> QED BY <1>1, <1>2, KeepSkip

(* Snapshot leaves a sound program.                                        *)
LEMMA SnapshotWorking == ASSUME Shape, NEW w \in Workers, Snapshot(w) PROVE Working'
<1>0. Working /\ sf \in Views
  BY DEF Shape, Around
<1>1. "snapshot" \in Keeping /\ At(w, "snapshot")
  BY DEF Snapshot, Keeping
<1> DEFINE job == [work[w] EXCEPT !.view = sf]
<1>2. work[w] \in Jobs /\ work[w].todo # <<>> /\ Head(work[w].todo).do \in Keeping
  BY <1>0, <1>1, AtFacts
<1>3. job \in Jobs /\ job.todo = work[w].todo /\ job.entry = work[w].entry /\ job.k = work[w].k
  BY <1>0, <1>2, JobSets
<1>4. Go(w, job, <<>>, <<>>)
  BY DEF Snapshot
<1> HIDE DEF job
<1> QED BY <1>0, <1>2, <1>3, <1>4, GoKeep, SmallMessages, KeepPrograms

(* Fails leaves a sound program.                                           *)
LEMMA FailsWorking == ASSUME Working, NEW w \in Workers, Fails(w) PROVE Working'
<1>1. At(w, "fail") /\ GiveUp(w) /\ wire' = wire
  BY DEF Fails
<1>2. work[w].todo # <<>> /\ wire' \in [Workers -> Seq(Messages)]
  BY <1>1 DEF At, Working
<1> QED BY <1>1, <1>2, GiveUpWorking

(* CallFails leaves a sound program.                                       *)
LEMMA CallFailsWorking == ASSUME Working, NEW w \in Workers, CallFails(w) PROVE Working'
<1>1. work[w].todo # <<>> /\ (wire' = wire \/ wire' = [wire EXCEPT ![w] = <<>>])
  BY DEF CallFails
<1>2. wire' \in [Workers -> Seq(Messages)]
  BY <1>1, SmallMessages DEF Working
<1>3. GiveUp(w) \/ work' = [work EXCEPT ![w].todo = Tail(@)]
  BY DEF CallFails
<1> QED BY <1>1, <1>2, <1>3, GiveUpWorking, DropWorking

-----------------------------------------------------------------------------
(***************************************************************************)
(* The calls that may read another entry.                                  *)
(***************************************************************************)

(* A call that leaves the entry alone may also be one of the others' turn: *)
(* it is replaced by plain calls, and what it read is another entry.       *)
LEMMA PlainGo ==
  ASSUME Working, NEW w \in Workers, NEW d, d \notin Keeping, At(w, d),
         NEW msgs \in Seq(Messages), NEW steps \in Seq(PlainSteps), Go(w, work[w], msgs, steps)
  PROVE  Working'
<1>1. work[w] \in Jobs /\ work[w].todo # <<>> /\ Head(work[w].todo).do = d
  BY AtFacts
<1> QED BY <1>1, GoPlain

(* ... replaced by none.                                                   *)
LEMMA PlainSkip ==
  ASSUME Working, NEW w \in Workers, NEW d, d \notin Keeping, At(w, d), Skip(w)
  PROVE  Working'
<1>1. <<>> \in Seq(Messages) /\ <<>> \in Seq(PlainSteps)
  OBVIOUS
<1>2. Go(w, work[w], <<>>, <<>>)
  BY DEF Skip
<1> QED BY <1>1, <1>2, PlainGo

(* The same with another entry, and with another record.                   *)
LEMMA PlainRead ==
  ASSUME Working, NEW w \in Workers, NEW d, d \notin Keeping, At(w, d), NEW e \in Entries,
         NEW msgs \in Seq(Messages), NEW steps \in Seq(PlainSteps),
         Go(w, [work[w] EXCEPT !.entry = e], msgs, steps)
  PROVE  Working'
<1>1. work[w] \in Jobs /\ work[w].todo # <<>> /\ Head(work[w].todo).do = d
  BY AtFacts
<1> DEFINE job == [work[w] EXCEPT !.entry = e]
<1>2. job \in Jobs /\ job.todo = work[w].todo /\ job.k = work[w].k
  BY <1>1, JobSets
<1>3. Go(w, job, msgs, steps)
  OBVIOUS
<1> HIDE DEF job
<1> QED BY <1>1, <1>2, <1>3, GoPlain

(* A call that reads an entry and goes on by it.                           *)
LEMMA FirstGo ==
  ASSUME Working, NEW w \in Workers, NEW d, d \notin Keeping, At(w, d), NEW e \in Entries,
         e.pair \in Pairs, NEW s \in NamedSteps, s.do \in ByEntry,
         Go(w, [work[w] EXCEPT !.entry = e], <<>>, <<s>>)
  PROVE  Working'
<1>1. work[w] \in Jobs /\ work[w].todo # <<>> /\ Head(work[w].todo).do = d
  BY AtFacts
<1> DEFINE job == [work[w] EXCEPT !.entry = e]
<1>2. job \in Jobs /\ job.todo = work[w].todo /\ job.k = work[w].k /\ job.entry = e
  BY <1>1, JobSets
<1>3. Go(w, job, <<>>, <<s>>)
  OBVIOUS
<1> HIDE DEF job
<1> QED BY <1>1, <1>2, <1>3, GoFirst

(* ... and a claim that goes by the entry read before.                     *)
LEMMA FirstSame ==
  ASSUME Working, NEW w \in Workers, NEW d \in ByEntry, At(w, d),
         NEW s \in NamedSteps, s.do \in ByEntry, Go(w, work[w], <<>>, <<s>>)
  PROVE  Working'
<1>1. work[w] \in Jobs /\ work[w].todo # <<>> /\ Head(work[w].todo).do = d
      /\ work[w].entry.pair \in Pairs
  BY AtFacts
<1>2. d \notin Keeping
  BY DEF ByEntry, Keeping, Handlers
<1> QED BY <1>1, <1>2, GoFirst

(* The programs of single calls, of a revoke, and two in a row.            *)
LEMMA PlainPrograms ==
  /\ <<>> \in Seq(PlainSteps)
  /\ Only("inactive") \in Seq(PlainSteps) /\ Only("expire") \in Seq(PlainSteps)
  /\ Only("expireLive") \in Seq(PlainSteps) /\ Only("publish") \in Seq(PlainSteps)
  /\ Only("delete") \in Seq(PlainSteps) /\ Only("save") \in Seq(PlainSteps)
  /\ Only("lookup") \in Seq(PlainSteps) /\ Only("settleStale") \in Seq(PlainSteps)
  /\ Only("withdraw") \in Seq(PlainSteps) /\ Only("snapshot") \in Seq(PlainSteps)
  /\ Only("erase") \in Seq(PlainSteps) /\ Only("stop") \in Seq(PlainSteps)
  /\ Only("catch") \in Seq(PlainSteps) /\ Only("keepMarker") \in Seq(PlainSteps)
  /\ Only("fail") \in Seq(PlainSteps) /\ Only("clear") \in Seq(PlainSteps)
  /\ Only("flush") \in Seq(PlainSteps)
  BY SmallPrograms, OnlyType DEF Calls, Paired, ByEntry

(* The programs of a revoke are plain.                                     *)
LEMMA PlainRevokes ==
  ASSUME NEW p \in Pairs
  PROVE  /\ Drain(p) \in Seq(PlainSteps)
         /\ RevokeSuperseded(p) \in Seq(PlainSteps)
         /\ RevokeConfirmed(p) \in Seq(PlainSteps)
         /\ For(<<"scan", "own">>, p) \in Seq(PlainSteps)
         /\ For(<<"scan", "recover", "own", "stop">>, p) \in Seq(PlainSteps)
         /\ For(<<"regranted", "compare">>, p) \in Seq(PlainSteps)
         /\ For(<<"own">>, p) \in Seq(PlainSteps)
         /\ For(<<"scanQuick">>, p) \in Seq(PlainSteps)
         /\ For(<<"record">>, p) \in Seq(PlainSteps)
<1>1. "own" \in Keeping /\ "scanQuick" \in Keeping
  BY DEF Keeping
<1> QED BY <1>1, RevokePrograms, KeepIsPlain

(* Two plain programs in a row.                                            *)
LEMMA PlainConcats == \A a, b \in Seq(PlainSteps) : a \o b \in Seq(PlainSteps)
  BY Concats

(* The calls that replace themselves with a single one.                    *)
LEMMA ByEntrySteps ==
  /\ Only("claim") = <<Step("claim", None)>> /\ Step("claim", None) \in NamedSteps
  /\ Step("claim", None).do \in ByEntry
  /\ Only("claimed") = <<Step("claimed", None)>> /\ Step("claimed", None) \in NamedSteps
  /\ Step("claimed", None).do \in ByEntry
  /\ \A d \in {"justify", "justifyLive"}, p \in Pairs :
       /\ For(<<d>>, p) = <<Step(d, p)>> /\ Step(d, p) \in NamedSteps
       /\ Step(d, p).do \in ByEntry
<1>1. {"claim", "claimed", "justify", "justifyLive"} \subseteq Calls \cap ByEntry
  BY DEF Calls, ByEntry
<1>2. None \in PairOrNone /\ "claim" \notin Paired /\ "claimed" \notin Paired
  BY DEF PairOrNone, Paired
<1>3. Step("claim", None) \in NamedSteps /\ Step("claimed", None) \in NamedSteps
  BY <1>1, <1>2, StepTypes
<1>4. \A d \in {"justify", "justifyLive"}, p \in Pairs : Step(d, p) \in NamedSteps
  BY <1>1, StepTypes DEF PairOrNone
<1>5. \A d \in {"justify", "justifyLive"}, p \in Pairs : For(<<d>>, p) = <<Step(d, p)>>
  BY DEF For
<1> QED BY <1>1, <1>3, <1>4, <1>5 DEF Only, Step

(* The entry of the record a worker is about.                              *)
LEMMA EntryTyped ==
  ASSUME Around, NEW w \in Workers, work[w].k \in Contacts
  PROVE  /\ Entry(w) \in Entries /\ Entry(w).pair \in PairOrNone
         /\ Entry(w).marker \in PairOrNone
  BY DEF Around, Entry, Entries, PairOrNone

(* The calls that may read another entry.                                  *)
LEMMA NotKept == Keeping \cap {"lookup", "save", "delete", "withdraw", "publish", "inactive",
                               "record", "write", "expire", "expireLive", "justify",
                               "justifyLive", "claim", "claimed", "settleStale"} = {}
  BY DEF Keeping, Handlers

(* Publish leaves a sound program.                                         *)
LEMMA PublishWorking == ASSUME Shape, NEW w \in Workers, Publish(w) PROVE Working'
<1>0. Working
  BY DEF Shape
<1>1. At(w, "publish") /\ work[w].kc \in Records
  BY <1>0, AtFacts DEF Publish
<1>2. \/ Go(w, work[w], <<>>, Only("inactive"))
      \/ Skip(w)
      \/ /\ work[w].kc.pair # None
         /\ Go(w, work[w], <<Put(work[w].kc.pair)>>, For(<<"record">>, work[w].kc.pair))
  BY DEF Publish
<1>3. work[w].kc.pair # None => work[w].kc.pair \in Pairs
  BY <1>1 DEF Records, Gone
<1> QED BY <1>0, <1>1, <1>2, <1>3, NotKept, PlainGo, PlainSkip, PlainPrograms, PlainRevokes, SmallMessages

(* Inactive leaves a sound program.                                        *)
LEMMA InactiveWorking == ASSUME Shape, NEW w \in Workers, Inactive(w) PROVE Working'
<1>0. Working /\ Around
  BY DEF Shape
<1>1. At(w, "inactive") /\ work[w].kc \in Records /\ work[w].k \in Contacts
  BY <1>0, AtFacts DEF Inactive
<1> DEFINE p == work[w].kc.pair
           e == Entry(w)
           own == For(<<"scan", "own">>, p)
           a == WhenSet(e.marker, RevokeSuperseded(e.marker))
           b == IF p # None /\ e.pair = None THEN own
                ELSE (IF p # None /\ e.pair # p THEN own ELSE <<>>) \o Only("expire")
<1>2. Go(w, work[w], <<>>, a \o b)
  BY DEF Inactive
<1>3. p \in PairOrNone /\ e \in Entries /\ e.marker \in PairOrNone
  BY <1>0, <1>1, EntryTyped DEF Records, Gone, PairOrNone
<1>4. a \in Seq(PlainSteps)
  BY <1>3, PlainRevokes, PlainPrograms DEF WhenSet, PairOrNone
<1>5. b \in Seq(PlainSteps)
  <2>1. p # None => own \in Seq(PlainSteps)
    BY <1>3, PlainRevokes DEF PairOrNone
  <2> HIDE DEF own
  <2> QED BY <2>1, PlainPrograms, PlainConcats
<1> HIDE DEF a, b
<1>6. a \o b \in Seq(PlainSteps)
  BY <1>4, <1>5, PlainConcats
<1> QED BY <1>0, <1>1, <1>2, <1>6, NotKept, PlainGo, SmallMessages

(* Write leaves a sound program.                                           *)
LEMMA WriteWorking == ASSUME Working, NEW w \in Workers, Write(w) PROVE Working'
<1>1. At(w, "write") /\ work[w].entry.pair \in Pairs /\ Pair(w) \in Pairs
  BY AtFacts DEF Write, Paired
<1>2. \/ Go(w, work[w], <<>>, RevokeSuperseded(work[w].entry.pair))
      \/ Go(w, work[w], <<>>, For(<<"record">>, Pair(w)))
  BY DEF Write
<1> QED BY <1>1, <1>2, NotKept, PlainGo, PlainRevokes, SmallMessages

(* A grant is recorded, at once or behind the drain of a marker.           *)
LEMMA RecordWorking == ASSUME Shape, NEW w \in Workers, Record(w) PROVE Working'
<1>0. Working /\ Around
  BY DEF Shape
<1>1. At(w, "record") /\ work[w].k \in Contacts /\ Pair(w) \in Pairs
  BY <1>0, AtFacts DEF Record, Paired
<1> DEFINE e == Entry(w)
<1>2. e \in Entries /\ e.pair \in PairOrNone /\ e.marker \in PairOrNone
  BY <1>0, <1>1, EntryTyped
<1>3. \/ Skip(w)
      \/ e.pair # None /\ Go(w, work[w], <<>>, RevokeSuperseded(e.pair))
      \/ /\ e.pair # None /\ e.marker # None
         /\ Go(w, [work[w] EXCEPT !.entry = e], <<>>, Drain(e.marker) \o For(<<"write">>, Pair(w)))
  BY DEF Record
<1>4. CASE e.pair # None /\ Go(w, work[w], <<>>, RevokeSuperseded(e.pair))
  <2>1. e.pair \in Pairs
    BY <1>2, <1>4 DEF PairOrNone
  <2> QED BY <1>0, <1>1, <1>4, <2>1, NotKept, PlainGo, PlainRevokes, SmallMessages
<1>5. CASE /\ e.pair # None /\ e.marker # None
           /\ Go(w, [work[w] EXCEPT !.entry = e], <<>>, Drain(e.marker) \o For(<<"write">>, Pair(w)))
  <2>1. e.pair \in Pairs /\ e.marker \in Pairs
    BY <1>2, <1>5 DEF PairOrNone
  <2>2. work[w] \in Jobs /\ work[w].todo # <<>> /\ Head(work[w].todo).do \notin Keeping
    BY <1>0, <1>1, AtFacts, NotKept
  <2> DEFINE job == [work[w] EXCEPT !.entry = e]
             b == For(<<"write">>, Pair(w))
             a == Drain(e.marker)
  <2>3. job \in Jobs /\ job.todo = work[w].todo /\ job.k = work[w].k /\ job.entry = e
    BY <1>2, <2>2, JobSets
  <2>4. a \in Seq(KeepSteps)
    BY <2>1, RevokePrograms
  <2>5. b \in Seq(NamedSteps) /\ Len(b) = 1 /\ b[1].do = "write"
    <3>1. b = <<Step("write", Pair(w))>>
      BY DEF For
    <3>2. Step("write", Pair(w)) \in NamedSteps
      BY <1>1, StepTypes DEF Calls, PairOrNone
    <3>3. Step("write", Pair(w)).do = "write"
      BY DEF Step
    <3> HIDE DEF b
    <3> QED BY <3>1, <3>2, <3>3
  <2>6. Go(w, job, <<>>, a \o b)
    BY <1>5
  <2> HIDE DEF job, a, b
  <2> QED BY <1>0, <2>1, <2>2, <2>3, <2>4, <2>5, <2>6, GoWrite
<1> QED BY <1>0, <1>1, <1>3, <1>4, <1>5, NotKept, PlainSkip

(* The calls of revokeKeyContactGrantIfNoLongerLive.                       *)
LEMMA ExpireWorking == ASSUME Shape, NEW w \in Workers, Expire(w) PROVE Working'
<1>0. Working /\ Around
  BY DEF Shape
<1> DEFINE e == Entry(w)
<1>1. PICK d \in {"expire", "expireLive"} :
        /\ At(w, d)
        /\ Go(w, [work[w] EXCEPT !.entry = e], <<>>,
              IF e.pair = None THEN <<>>
              ELSE For(<<IF d = "expire" THEN "justify" ELSE "justifyLive">>, e.pair))
  BY DEF Expire
<1>2. work[w].k \in Contacts
  BY <1>0, <1>1, AtFacts
<1>3. e \in Entries /\ e.pair \in PairOrNone
  BY <1>0, <1>2, EntryTyped
<1>4. CASE e.pair = None
  <2>1. Go(w, [work[w] EXCEPT !.entry = e], <<>>, <<>>)
    BY <1>1, <1>4
  <2> HIDE DEF e
  <2> QED BY <1>0, <1>1, <1>3, <2>1, NotKept, PlainRead, PlainPrograms, SmallMessages
<1>5. CASE e.pair # None
  <2>1. e.pair \in Pairs
    BY <1>3, <1>5 DEF PairOrNone
  <2>2. PICK j \in {"justify", "justifyLive"} :
           Go(w, [work[w] EXCEPT !.entry = e], <<>>, For(<<j>>, e.pair))
    BY <1>1, <1>5
  <2>3. Go(w, [work[w] EXCEPT !.entry = e], <<>>, <<Step(j, e.pair)>>)
        /\ Step(j, e.pair) \in NamedSteps /\ Step(j, e.pair).do \in ByEntry
    BY <2>1, <2>2, ByEntrySteps
  <2> HIDE DEF e
  <2> QED BY <1>0, <1>1, <1>3, <2>1, <2>3, NotKept, FirstGo
<1> QED BY <1>4, <1>5

(* Justify leaves a sound program.                                         *)
LEMMA JustifyWorking == ASSUME Shape, NEW w \in Workers, Justify(w) PROVE Working'
<1>0. Working
  BY DEF Shape
<1>1. PICK d \in {"justify", "justifyLive"} :
        /\ At(w, d)
        /\ \/ \E s \in Contacts : Go(w, [work[w] EXCEPT !.by = s], <<>>,
                                     For(<<"own">>, Pair(w)) \o Only("clear"))
           \/ Go(w, work[w], <<>>, Only("claim"))
  BY JustifiersAre DEF Justify
<1>2. /\ work[w] \in Jobs /\ work[w].todo # <<>> /\ Head(work[w].todo).do = d
      /\ Pair(w) \in PairOrNone /\ d \notin Keeping /\ d \in ByEntry
  BY <1>0, <1>1, AtFacts, NotKept DEF ByEntry
<1>3. For(<<"own">>, Pair(w)) \o Only("clear") \in Seq(PlainSteps)
  <2>1. For(<<"own">>, Pair(w)) = <<Step("own", Pair(w))>>
    BY DEF For
  <2>2. Step("own", Pair(w)) \in PlainSteps
    BY <1>2, StepTypes DEF Calls, Paired, ByEntry
  <2>3. For(<<"own">>, Pair(w)) \in Seq(PlainSteps)
    BY <2>1, <2>2, SmallPrograms
  <2> QED BY <2>3, PlainPrograms, PlainConcats
<1>4. CASE \E s \in Contacts : Go(w, [work[w] EXCEPT !.by = s], <<>>,
                                  For(<<"own">>, Pair(w)) \o Only("clear"))
  <2>1. PICK s \in Contacts : Go(w, [work[w] EXCEPT !.by = s], <<>>,
                                 For(<<"own">>, Pair(w)) \o Only("clear"))
    BY <1>4
  <2> DEFINE job == [work[w] EXCEPT !.by = s]
  <2>2. job \in Jobs /\ job.todo = work[w].todo /\ job.k = work[w].k
    BY <1>2, JobSets
  <2>3. Go(w, job, <<>>, For(<<"own">>, Pair(w)) \o Only("clear"))
    BY <2>1
  <2> HIDE DEF job
  <2> QED BY <1>0, <1>2, <1>3, <2>2, <2>3, GoPlain, SmallMessages
<1>5. CASE Go(w, work[w], <<>>, Only("claim"))
  BY <1>0, <1>1, <1>2, <1>5, ByEntrySteps, FirstSame
<1> QED BY <1>1, <1>4, <1>5

(* Claim leaves a sound program.                                           *)
LEMMA ClaimWorking == ASSUME Working, NEW w \in Workers, Claim(w) PROVE Working'
<1>1. At(w, "claim") /\ "claim" \in ByEntry
  BY DEF Claim, ByEntry
<1>2. Skip(w) \/ Go(w, work[w], <<>>, Only("claimed"))
  BY DEF Claim
<1>3. CASE Go(w, work[w], <<>>, Only("claimed"))
  BY <1>1, <1>3, ByEntrySteps, FirstSame
<1> QED BY <1>1, <1>2, <1>3, NotKept, PlainSkip

(* Claimed leaves a sound program.                                         *)
LEMMA ClaimedWorking == ASSUME Shape, NEW w \in Workers, Claimed(w) PROVE Working'
<1>0. Working /\ Around
  BY DEF Shape
<1> DEFINE e == Entry(w)
           p == work[w].entry.pair
           q == Only("flush") \o For(<<"regranted", "compare">>, p)
<1>1. At(w, "claimed") /\ work[w].k \in Contacts /\ p \in Pairs
  BY <1>0, AtFacts DEF Claimed, ByEntry
<1>2. e \in Entries
  BY <1>0, <1>1, EntryTyped
<1>3. \/ Go(w, work[w], <<>>, Only("fail"))
      \/ Skip(w)
      \/ Go(w, [work[w] EXCEPT !.entry = e], <<Remove(p)>>, q)
  BY DEF Claimed
<1>4. q \in Seq(PlainSteps) /\ <<Remove(p)>> \in Seq(Messages)
  BY <1>1, PlainPrograms, PlainRevokes, PlainConcats, SmallMessages
<1> HIDE DEF e, q, p
<1> QED BY <1>0, <1>1, <1>2, <1>3, <1>4, NotKept, PlainGo, PlainSkip, PlainRead, PlainPrograms, SmallMessages

(* Lookup leaves a sound program.                                          *)
LEMMA LookupWorking == ASSUME Shape, NEW w \in Workers, Lookup(w) PROVE Working'
<1>0. Working /\ Around
  BY DEF Shape
<1>1. At(w, "lookup") /\ work[w].k \in Contacts
  BY <1>0, AtFacts DEF Lookup
<1>2. Entry(w) \in Entries
  BY <1>0, <1>1, EntryTyped
<1>3. Go(w, [work[w] EXCEPT !.entry = Entry(w)], <<>>, <<>>)
  BY DEF Lookup
<1> QED BY <1>0, <1>1, <1>2, <1>3, NotKept, PlainRead, PlainPrograms, SmallMessages

(* Withdraw leaves a sound program.                                        *)
LEMMA WithdrawWorking == ASSUME Working, NEW w \in Workers, Withdraw(w) PROVE Working'
<1> DEFINE e == work[w].entry
           m == RevokeConfirmed(e.marker)
           a == WhenSet(e.marker, m \o Only("erase"))
           b == RevokeConfirmed(e.pair) \o Only("stop")
                \o WhenSet(e.marker, m \o Only("keepMarker")) \o Only("erase")
<1>1. At(w, "withdraw") /\ e \in Entries
  BY AtFacts DEF Withdraw
<1>2. Go(w, work[w], <<>>, IF e.pair = None THEN a ELSE b)
  BY DEF Withdraw
<1>3. e.marker # None => m \in Seq(PlainSteps)
  BY <1>1, PlainRevokes DEF Entries
<1>4. a \in Seq(PlainSteps) /\ WhenSet(e.marker, m \o Only("keepMarker")) \in Seq(PlainSteps)
  BY <1>3, PlainPrograms, PlainConcats DEF WhenSet
<1>5. e.pair # None => b \in Seq(PlainSteps)
  <2>1. e.pair # None => RevokeConfirmed(e.pair) \in Seq(PlainSteps)
    BY <1>1, PlainRevokes DEF Entries
  <2> QED BY <1>4, <2>1, PlainPrograms, PlainConcats
<1>6. (IF e.pair = None THEN a ELSE b) \in Seq(PlainSteps)
  BY <1>4, <1>5
<1> HIDE DEF a, b
<1> QED BY <1>1, <1>2, <1>6, NotKept, PlainGo, SmallMessages

(* SettleStale leaves a sound program.                                     *)
LEMMA SettleStaleWorking == ASSUME Working, NEW w \in Workers, SettleStale(w) PROVE Working'
<1> DEFINE e == work[w].entry
           a == IF e.pair \in {None, OwnPair(work[w])} THEN <<>> ELSE For(<<"scan", "own">>, e.pair)
<1>1. At(w, "settleStale") /\ e \in Entries
  BY AtFacts DEF SettleStale
<1>2. Go(w, work[w], <<>>, a \o Only("delete"))
  BY DEF SettleStale
<1>3. a \in Seq(PlainSteps)
  BY <1>1, PlainRevokes, PlainPrograms DEF Entries
<1>4. a \o Only("delete") \in Seq(PlainSteps)
  BY <1>3, PlainPrograms, PlainConcats
<1> HIDE DEF a
<1> QED BY <1>1, <1>2, <1>4, NotKept, PlainGo, SmallMessages

(* DeleteRecord leaves a sound program.                                    *)
LEMMA DeleteRecordWorking == ASSUME Working, NEW w \in Workers, DeleteRecord(w) PROVE Working'
<1> DEFINE e == work[w].entry
           p == OwnPair(work[w])
           a == WhenSet(p, For(<<"scan", "recover", "own", "stop">>, p))
           b == WhenSet(e.marker, Drain(e.marker) \o Only("keepMarker"))
<1>1. At(w, "delete") /\ e \in Entries /\ work[w].kc \in Records
  BY AtFacts DEF DeleteRecord
<1>2. \/ Go(w, work[w], <<>>, Only("fail"))
      \/ Go(w, work[w], <<>>, a \o b \o Only("erase"))
  BY DEF DeleteRecord
<1>3. p \in PairOrNone
  BY <1>1 DEF OwnPair, Entries, Records, Gone, PairOrNone
<1>4. a \in Seq(PlainSteps)
  BY <1>3, PlainRevokes, PlainPrograms DEF WhenSet, PairOrNone
<1>5. b \in Seq(PlainSteps)
  BY <1>1, PlainRevokes, PlainPrograms, PlainConcats DEF WhenSet, Entries
<1> HIDE DEF a, b
<1>6. a \o b \o Only("erase") \in Seq(PlainSteps)
  BY <1>4, <1>5, PlainPrograms, PlainConcats
<1> QED BY <1>1, <1>2, <1>6, NotKept, PlainGo, PlainPrograms, SmallMessages

(* SaveUpdate leaves a sound program.                                      *)
LEMMA SaveUpdateWorking == ASSUME Working, NEW w \in Workers, SaveUpdate(w) PROVE Working'
<1> DEFINE old == work[w].kc
           todo(new, renamed) ==
              IF renamed THEN Only("publish") \o Only("catch")
                              \o (IF new.pair = old.pair THEN <<>>
                                  ELSE WhenSet(old.pair, For(<<"scanQuick">>, old.pair)))
              ELSE IF new.pair = None THEN Only("expireLive") ELSE Only("publish")
<1>1. At(w, "save") /\ old \in Records
  BY AtFacts DEF SaveUpdate
<1>2. \/ Go(w, work[w], <<>>, Only("fail"))
      \/ \E new \in Live, renamed \in BOOLEAN :
           Go(w, [work[w] EXCEPT !.kc = new], <<>>, todo(new, renamed))
  BY DEF SaveUpdate
<1>3. ASSUME NEW new \in Live, NEW renamed \in BOOLEAN,
             Go(w, [work[w] EXCEPT !.kc = new], <<>>, todo(new, renamed))
      PROVE  Working'
  <2>1. old.pair # None => For(<<"scanQuick">>, old.pair) \in Seq(PlainSteps)
    BY <1>1, PlainRevokes DEF Records, Gone
  <2>2. todo(new, renamed) \in Seq(PlainSteps)
    BY <2>1, PlainPrograms, PlainConcats DEF WhenSet
  <2> DEFINE job == [work[w] EXCEPT !.kc = new]
  <2>3. work[w] \in Jobs /\ work[w].todo # <<>> /\ Head(work[w].todo).do \notin Keeping
    BY <1>1, AtFacts, NotKept
  <2>4. job \in Jobs /\ job.todo = work[w].todo /\ job.k = work[w].k
    BY <2>3, JobSets DEF Live
  <2>5. Go(w, job, <<>>, todo(new, renamed))
    BY <1>3
  <2> HIDE DEF job, todo
  <2> QED BY <2>2, <2>3, <2>4, <2>5, GoPlain, SmallMessages
<1> HIDE DEF todo
<1> QED BY <1>1, <1>2, <1>3, NotKept, PlainGo, PlainPrograms, SmallMessages

-----------------------------------------------------------------------------
(***************************************************************************)
(* Calls begin and end; messages are delivered.                            *)
(***************************************************************************)

(* A call begins.                                                          *)
LEMMA BeginWorking ==
  ASSUME Working, NEW w \in Workers, NEW k \in Contacts, NEW kc \in Records,
         NEW program \in Seq(PlainSteps), wire' = wire,
         work' = [work EXCEPT ![w] = [Idle EXCEPT !.k = k, !.kc = kc, !.todo = program]]
  PROVE  Working'
<1> DEFINE job == [Idle EXCEPT !.k = k, !.kc = kc, !.todo = program]
<1>1. program \in Seq(Steps)
  BY DEF PlainSteps, NamedSteps
<1>2. Absent \in Entries /\ Gone \in Records
  BY DEF Absent, Entries, Gone, Records
<1>3. job \in Jobs /\ job.k = k /\ job.todo = program
  BY <1>1, <1>2 DEF Idle, Jobs
<1>4. work' = [work EXCEPT ![w] = job]
  OBVIOUS
<1> HIDE DEF job
<1>5. k # None
  BY GrantAssumption
<1>6. Sound(job)
  BY <1>3, <1>5, PlainSound
<1>7. work' \in [Workers -> Jobs] /\ \A v \in Workers : work'[v] = job \/ work'[v] = work[v]
  BY <1>3, <1>4 DEF Working
<1>8. \A v \in Workers : Sound(work'[v])
  BY <1>6, <1>7 DEF Working
<1> QED BY <1>7, <1>8 DEF Working, Sound

(* The programs of an upsert and of a new key contact.                     *)
LEMMA UpsertPrograms ==
  ASSUME NEW kc \in Records
  PROVE  /\ Upsert(kc) \in Seq(PlainSteps)
         /\ Only("publish") \o Only("catch") \o Miss(kc) \in Seq(PlainSteps)
<1>1. Miss(kc) \in Seq(PlainSteps)
  BY PlainPrograms, PlainConcats DEF Miss
<1> QED BY <1>1, PlainPrograms, PlainConcats DEF Upsert

(* The calls of the API and of the backfill begin.                         *)
LEMMA ApiWorking ==
  ASSUME Shape, NEW w \in Writers, NEW k \in Contacts,
         Create(w, k) \/ Update(w, k) \/ Delete(w, k) \/ Republish(w, k)
  PROVE  Working'
<1>0. Working /\ sf[k] \in Records /\ w \in Workers
  BY DEF Shape, Around, Views, Workers
<1>1. ASSUME NEW kc \in Records, NEW program \in Seq(PlainSteps), Call(w, k, kc, program)
      PROVE  Working'
  BY <1>0, <1>1, BeginWorking DEF Call
<1>2. CASE Create(w, k)
  <2>1. PICK rec \in Live : Call(w, k, rec, Only("publish") \o Only("catch") \o Miss(rec))
    BY <1>2 DEF Create
  <2>2. rec \in Records
    BY DEF Live
  <2> QED BY <1>1, <2>1, <2>2, UpsertPrograms
<1>3. CASE Update(w, k)
  BY <1>0, <1>1, <1>3, PlainPrograms DEF Update
<1>4. CASE Delete(w, k)
  BY <1>0, <1>1, <1>4, PlainPrograms, PlainConcats DEF Delete
<1>5. CASE Republish(w, k)
  BY <1>0, <1>1, <1>5, UpsertPrograms DEF Republish
<1> QED BY <1>2, <1>3, <1>4, <1>5

(* The event the consumer takes.                                           *)
LEMMA HeadEvent ==
  ASSUME Around, events # <<>>
  PROVE  Head(events) \in Events /\ Head(events).k \in Contacts /\ Tail(events) \in Seq(Events)
<1>1. Head(events) \in Events /\ Tail(events) \in Seq(Events)
  BY TailFacts DEF Around
<1> QED BY <1>1 DEF Events

(* The consumer takes an event.                                            *)
LEMMA TakeWorking == ASSUME Shape, Take PROVE Working'
<1>0. Working /\ Around /\ Consumer \in Workers
  BY DEF Shape, Workers
<1> DEFINE k == Head(events).k
           kc == IF Head(events).deleted THEN Gone ELSE sf[k]
           program == IF kc = Gone THEN Only("lookup") \o Only("snapshot") \o Only("withdraw")
                      ELSE Upsert(kc)
<1>1. /\ events # <<>> /\ wire' = wire
      /\ work' = [work EXCEPT ![Consumer] = [Idle EXCEPT !.k = k, !.kc = kc, !.todo = program]]
  BY DEF Take
<1>2. k \in Contacts
  BY <1>0, <1>1, HeadEvent
<1>3. kc \in Records
  BY <1>0, <1>2 DEF Around, Views, Gone, Records
<1>4. program \in Seq(PlainSteps)
  BY <1>3, UpsertPrograms, PlainPrograms, PlainConcats
<1> HIDE DEF k, kc, program
<1> QED BY <1>0, <1>1, <1>2, <1>3, <1>4, BeginWorking

(* A worker without a call is sound.                                       *)
LEMMA IdleSound == Idle \in Jobs /\ Sound(Idle)
<1>1. Absent \in Entries /\ Gone \in Records
  BY DEF Absent, Entries, Gone, Records
<1>2. Idle \in Jobs
  BY <1>1 DEF Idle, Jobs
<1>3. /\ Idle.k = None /\ Idle.todo = <<>> /\ Idle.entry.rev = 0
  BY DEF Idle, Absent
<1>4. Sound(Idle)
  BY <1>3 DEF Sound
<1> QED BY <1>2, <1>4

(* A call ends, or its process crashes.                                    *)
LEMMA StopWorking ==
  ASSUME Working, NEW w \in Workers, End(w) \/ Crash(w)
  PROVE  Working'
<1>1. work' = [work EXCEPT ![w] = Idle] /\ (wire' = wire \/ wire' = [wire EXCEPT ![w] = <<>>])
  BY DEF End, Crash
<1>2. work' \in [Workers -> Jobs] /\ \A v \in Workers : work'[v] = Idle \/ work'[v] = work[v]
  BY <1>1, IdleSound DEF Working
<1>3. \A v \in Workers : Sound(work'[v])
  BY <1>2, IdleSound DEF Working
<1>4. wire' \in [Workers -> Seq(Messages)]
  BY <1>1, SmallMessages DEF Working
<1> QED BY <1>2, <1>3, <1>4 DEF Working, Sound

(* A message is delivered.                                                 *)
LEMMA DeliverWorking == ASSUME Working, NEW w \in Workers, Deliver(w) PROVE Working'
<1>1. wire[w] # <<>> /\ wire' = [wire EXCEPT ![w] = Tail(@)] /\ work' = work
  BY DEF Deliver
<1>2. Tail(wire[w]) \in Seq(Messages)
  BY <1>1, TailFacts DEF Working
<1> QED BY <1>1, <1>2 DEF Working, Sound

(* Every step keeps the calls in progress sound.                           *)
LEMMA NextWorking == ASSUME Shape, [Next]_vars PROVE Working'
<1>0. Working
  BY DEF Shape
<1>1. CASE UNCHANGED vars
  BY <1>0, <1>1 DEF vars, Working, Sound
<1>2. CASE \E k \in Contacts : Change(k)
  BY <1>0, <1>2 DEF Change, Working, Sound
<1>3. CASE \E w \in Writers, k \in Contacts :
             Create(w, k) \/ Update(w, k) \/ Delete(w, k) \/ Republish(w, k)
  BY <1>3, ApiWorking
<1>4. CASE Take
  BY <1>4, TakeWorking
<1>5. CASE PassOver
  BY <1>0, <1>5 DEF PassOver, Working, Sound
<1>6. ASSUME NEW w \in Workers, Revoke(w) PROVE Working'
  BY <1>0, <1>6, ScanWorking, FlushWorking, RecheckWorking, VerifyWorking, ConfirmLiveWorking,
     SettleWorking, ReassertWorking, OwnWorking, ClearMarkerWorking DEF Revoke
<1>7. ASSUME NEW w \in Workers, Grant(w) PROVE Working'
  BY <1>0, <1>7, SnapshotWorking, PublishWorking, InactiveWorking, RecordWorking, WriteWorking
     DEF Grant
<1>8. ASSUME NEW w \in Workers, RevokeNoLongerLive(w) PROVE Working'
  BY <1>0, <1>8, ExpireWorking, JustifyWorking, ClaimWorking, ClaimedWorking, RegrantedWorking,
     CompareWorking, ClearWorking DEF RevokeNoLongerLive
<1>9. ASSUME NEW w \in Workers, Run(w) PROVE Working'
  BY <1>0, <1>6, <1>7, <1>8, <1>9, LookupWorking, WithdrawWorking, EraseEntryWorking,
     SaveUpdateWorking, SettleStaleWorking, DeleteRecordWorking, FailsWorking, PassWorking,
     StopWorking DEF Run
<1>10. ASSUME NEW w \in Workers, CallFails(w) \/ Crash(w) \/ Deliver(w) PROVE Working'
  BY <1>0, <1>10, CallFailsWorking, StopWorking, DeliverWorking
<1> QED BY <1>1, <1>2, <1>3, <1>4, <1>5, <1>9, <1>10 DEF Next

-----------------------------------------------------------------------------
(***************************************************************************)
(* What a step does to the bucket, and to the entries the workers hold.    *)
(***************************************************************************)

(* What a step does to the bucket: nothing, or one entry is written under  *)
(* the next revision or is gone.                                           *)
Untouched == grants' = grants /\ revision' = revision
WrittenAt(k) == /\ revision' = revision + 1
                /\ \E e \in Entries : /\ e.rev = revision + 1 \/ e = Absent
                                      /\ grants' = [grants EXCEPT ![k] = e]
BucketStep == Untouched \/ \E k \in Contacts : WrittenAt(k)

(* ... and to the entries the workers keep: none, one is read again, or the*)
(* call ends or begins.                                                    *)
Kept == \A v \in Workers : work'[v].k = work[v].k /\ work'[v].entry = work[v].entry
Reads == \A v \in Workers :
    \/ work'[v].k = work[v].k /\ work'[v].entry = work[v].entry
    \/ /\ work'[v].entry = Absent
       /\ v = Consumer => work'[v].k = None \/ events # <<>>
    \/ Untouched /\ work'[v].k = work[v].k /\ work'[v].entry = Entry(v)

(* The consumer keeps the event it works on.                               *)
LEMMA ReadsTaken ==
  ASSUME Shape, Reads, events # <<>> => events' # <<>>
  PROVE  Taken'
<1>1. Consumer \in Workers
  BY DEF Workers
<1> QED BY <1>1 DEF Shape, Taken, Reads

(* Every conditional write is of this kind.                                *)
LEMMA Writes ==
  ASSUME Around, NEW k \in Contacts, NEW p \in PairOrNone, NEW m \in PairOrNone,
         Name(k, p, m) \/ Rewrite(k, p, m) \/ Erase(k)
  PROVE  WrittenAt(k) /\ removed' \subseteq Pairs
<1>1. revision + 1 \in Nat /\ revision \in Nat
  BY DEF Around
<1>2. [pair |-> p, marker |-> m, rev |-> revision + 1] \in Entries /\ Absent \in Entries
  BY <1>1 DEF Entries, PairOrNone, Absent
<1>3. CASE Name(k, p, m) \/ Rewrite(k, p, m)
  <2>1. /\ revision' = revision + 1
        /\ grants' = [grants EXCEPT ![k] = [pair |-> p, marker |-> m, rev |-> revision + 1]]
        /\ removed' \subseteq Pairs
    BY <1>3 DEF Name, Rewrite, Around
  <2> DEFINE e == [pair |-> p, marker |-> m, rev |-> revision + 1]
  <2>2. e \in Entries /\ e.rev = revision + 1
    BY <1>2
  <2>3. grants' = [grants EXCEPT ![k] = e]
    BY <2>1
  <2> HIDE DEF e
  <2> QED BY <2>1, <2>2, <2>3 DEF WrittenAt
<1>4. CASE Erase(k)
  BY <1>1, <1>2, <1>4 DEF Erase, Around, WrittenAt
<1> QED BY <1>3, <1>4

(* ... and keeps the entries entries.                                      *)
LEMMA WrittenTyped ==
  ASSUME Around, BucketStep
  PROVE  grants' \in [Contacts -> Entries] /\ revision' \in Nat
<1>1. CASE Untouched
  BY <1>1 DEF Untouched, Around
<1>2. ASSUME NEW k \in Contacts, WrittenAt(k)
      PROVE  grants' \in [Contacts -> Entries] /\ revision' \in Nat
  BY <1>2 DEF WrittenAt, Around
<1> QED BY <1>1, <1>2 DEF BucketStep

(* A worker's call moves on: it keeps its record and the entry of its job. *)
LEMMA GoReads ==
  ASSUME Working, NEW w \in Workers, NEW job \in Jobs, NEW msgs, NEW steps,
         Go(w, job, msgs, steps)
  PROVE  /\ work'[w].k = job.k /\ work'[w].entry = job.entry
         /\ \A v \in Workers \ {w} : work'[v] = work[v]
<1>1. work' = [work EXCEPT ![w] = [job EXCEPT !.todo = steps \o Tail(@)]]
  BY DEF Go
<1>2. /\ [job EXCEPT !.todo = steps \o Tail(@)].k = job.k
      /\ [job EXCEPT !.todo = steps \o Tail(@)].entry = job.entry
  BY DEF Jobs
<1> DEFINE new == [job EXCEPT !.todo = steps \o Tail(@)]
<1>3. work' = [work EXCEPT ![w] = new]
  BY <1>1
<1> HIDE DEF new
<1>4. work'[w] = new /\ \A v \in Workers \ {w} : work'[v] = work[v]
  BY <1>3 DEF Working
<1> QED BY <1>2, <1>4 DEF new

(* The call as it is, or with another sibling, view or record, keeps both. *)
LEMMA GoSame ==
  ASSUME Working, NEW w \in Workers, NEW msgs, NEW steps, Go(w, work[w], msgs, steps)
  PROVE  Kept
<1>1. work[w] \in Jobs
  BY DEF Working
<1> QED BY <1>1, GoReads DEF Kept

(* ... and without messages.                                               *)
LEMMA SkipSame == ASSUME Working, NEW w \in Workers, Skip(w) PROVE Kept
  BY GoSame DEF Skip

(* ... and with a job that agrees on them.                                 *)
LEMMA GoOther ==
  ASSUME Working, NEW w \in Workers, NEW job \in Jobs, NEW msgs, NEW steps,
         Go(w, job, msgs, steps), job.k = work[w].k, job.entry = work[w].entry
  PROVE  Kept
  BY GoReads DEF Kept

(* ... with another sibling.                                               *)
LEMMA GoBy ==
  ASSUME Working, NEW w \in Workers, NEW s \in Contacts \cup {None}, NEW msgs, NEW steps,
         Go(w, [work[w] EXCEPT !.by = s], msgs, steps)
  PROVE  Kept
<1> DEFINE job == [work[w] EXCEPT !.by = s]
<1>1. work[w] \in Jobs
  BY DEF Working
<1>2. job \in Jobs /\ job.k = work[w].k /\ job.entry = work[w].entry
  BY <1>1, JobSets
<1>3. Go(w, job, msgs, steps)
  OBVIOUS
<1> HIDE DEF job
<1> QED BY <1>2, <1>3, GoOther

(* ... with another view.                                                  *)
LEMMA GoView ==
  ASSUME Working, NEW w \in Workers, NEW s \in Views, NEW msgs, NEW steps,
         Go(w, [work[w] EXCEPT !.view = s], msgs, steps)
  PROVE  Kept
<1> DEFINE job == [work[w] EXCEPT !.view = s]
<1>1. work[w] \in Jobs
  BY DEF Working
<1>2. job \in Jobs /\ job.k = work[w].k /\ job.entry = work[w].entry
  BY <1>1, JobSets
<1>3. Go(w, job, msgs, steps)
  OBVIOUS
<1> HIDE DEF job
<1> QED BY <1>2, <1>3, GoOther

(* ... with another record.                                                *)
LEMMA GoRecord ==
  ASSUME Working, NEW w \in Workers, NEW r \in Records, NEW msgs, NEW steps,
         Go(w, [work[w] EXCEPT !.kc = r], msgs, steps)
  PROVE  Kept
<1> DEFINE job == [work[w] EXCEPT !.kc = r]
<1>1. work[w] \in Jobs
  BY DEF Working
<1>2. job \in Jobs /\ job.k = work[w].k /\ job.entry = work[w].entry
  BY <1>1, JobSets
<1>3. Go(w, job, msgs, steps)
  OBVIOUS
<1> HIDE DEF job
<1> QED BY <1>2, <1>3, GoOther

(* A call that reads the entry reads the one the bucket has.               *)
LEMMA GoEntry ==
  ASSUME Shape, NEW w \in Workers, work[w].k \in Contacts, NEW msgs, NEW steps,
         Go(w, [work[w] EXCEPT !.entry = Entry(w)], msgs, steps), Untouched
  PROVE  Reads
<1> DEFINE job == [work[w] EXCEPT !.entry = Entry(w)]
<1>1. work[w] \in Jobs /\ Entry(w) \in Entries
  BY EntryTyped DEF Shape, Working
<1>2. job \in Jobs /\ job.k = work[w].k /\ job.entry = Entry(w)
  BY <1>1, JobSets
<1>3. Go(w, job, msgs, steps)
  OBVIOUS
<1> HIDE DEF job
<1> QED BY <1>2, <1>3, GoReads DEF Reads, Shape

(* Keeping the entries is one of the ways to read.                         *)
LEMMA KeptReads == Kept => Reads
  BY DEF Kept, Reads

(* The calls that leave the rest of the state alone leave the bucket alone. *)
LEMMA LocalSame == UNCHANGED local => Untouched
  BY DEF local, bucket, Untouched

(* A failed call keeps what was read.                                      *)
LEMMA FailedSame ==
  ASSUME Working, NEW w \in Workers, GiveUp(w) \/ work' = [work EXCEPT ![w].todo = Tail(@)]
  PROVE  Kept
<1>1. work[w] \in Jobs
  BY DEF Working
<1>2. CASE GiveUp(w)
  <2> DEFINE new == [work[w] EXCEPT !.hold = TRUE, !.todo = Handled(work[w])]
  <2>1. new.k = work[w].k /\ new.entry = work[w].entry
    BY <1>1 DEF Jobs
  <2>2. work' = [work EXCEPT ![w] = new]
    BY <1>2 DEF GiveUp
  <2> HIDE DEF new
  <2> QED BY <2>1, <2>2 DEF Kept, Working
<1>3. CASE work' = [work EXCEPT ![w].todo = Tail(@)]
  <2> DEFINE new == [work[w] EXCEPT !.todo = Tail(work[w].todo)]
  <2>1. new.k = work[w].k /\ new.entry = work[w].entry
    BY <1>1 DEF Jobs
  <2>2. work' = [work EXCEPT ![w] = new]
    BY <1>3 DEF Working
  <2> HIDE DEF new
  <2> QED BY <2>1, <2>2 DEF Kept, Working
<1> QED BY <1>2, <1>3

(* What every step does to the state around the calls.                     *)
Steady == Around' /\ BucketStep /\ Reads /\ Taken'

(* The calls that leave the rest of the state alone.                       *)
LEMMA LocalSteady == ASSUME Shape, UNCHANGED local, Reads PROVE Steady
<1>1. Taken'
  BY ReadsTaken DEF local
<1> QED BY <1>1, LocalAround, LocalSame DEF Shape, Steady, BucketStep

(* The calls of a revoke.                                                  *)
LEMMA RevokeLocal ==
  ASSUME Shape, NEW w \in Workers,
         Scan(w) \/ Flush(w) \/ Recheck(w) \/ Verify(w) \/ ConfirmLive(w) \/ Settle(w) \/ Reassert(w)
  PROVE  Steady
<1>0. Working
  BY DEF Shape
<1>1. UNCHANGED local
  BY DEF Scan, Flush, Recheck, Verify, ConfirmLive, Settle, Reassert
<1>2. Kept
  <2>1. CASE Scan(w)
    <3>1. PICK s \in Contacts \cup {None} :
            \/ Go(w, [work[w] EXCEPT !.by = s], <<>>, <<>>)
            \/ \E d \in {"scan", "scanLive", "scanQuick"} :
                  Go(w, [work[w] EXCEPT !.by = s], <<Remove(Pair(w))>>,
                     (IF d = "scanQuick" THEN <<>> ELSE Only("flush")) \o For(<<"recheck">>, Pair(w)))
      BY <2>1, JustifiersAre DEF Scan
    <3> QED BY <1>0, <3>1, GoBy
  <2>2. CASE Verify(w)
    <3>1. \/ \E s \in Contacts : Go(w, [work[w] EXCEPT !.by = s], <<>>, <<>>)
          \/ Go(w, work[w], <<Remove(Pair(w))>>, Only("flush") \o Only("fail"))
      BY <2>2, JustifiersAre DEF Verify
    <3> QED BY <1>0, <3>1, GoBy, GoSame
  <2>3. CASE Flush(w) \/ Recheck(w) \/ ConfirmLive(w) \/ Settle(w) \/ Reassert(w)
    BY <1>0, <2>3, GoSame, SkipSame DEF Flush, Recheck, ConfirmLive, Settle, Reassert
  <2> QED BY <2>1, <2>2, <2>3
<1> QED BY <1>1, <1>2, KeptReads, LocalSteady

(* The other calls that only read.                                         *)
LEMMA OtherLocal ==
  ASSUME Shape, NEW w \in Workers,
         Snapshot(w) \/ Publish(w) \/ Inactive(w) \/ Expire(w) \/ Justify(w) \/ Claimed(w)
           \/ Regranted(w) \/ Compare(w) \/ Lookup(w) \/ Withdraw(w) \/ SettleStale(w)
           \/ Fails(w) \/ Pass(w)
  PROVE  Steady
<1>0. Working /\ sf \in Views
  BY DEF Shape, Around
<1>1. UNCHANGED local
  BY DEF Snapshot, Publish, Inactive, Expire, Justify, Claimed, Regranted, Compare, Lookup,
         Withdraw, SettleStale, Fails, Pass
<1>2. Reads
  <2>1. CASE Snapshot(w)
    BY <1>0, <2>1, GoView, KeptReads DEF Snapshot
  <2>2. CASE Justify(w)
    <3>1. \/ \E s \in Contacts : Go(w, [work[w] EXCEPT !.by = s], <<>>,
                                    For(<<"own">>, Pair(w)) \o Only("clear"))
          \/ Go(w, work[w], <<>>, Only("claim"))
      BY <2>2, JustifiersAre DEF Justify
    <3> QED BY <1>0, <3>1, GoBy, GoSame, KeptReads
  <2>3. CASE Fails(w)
    BY <1>0, <2>3, FailedSame, KeptReads DEF Fails
  <2>4. CASE Publish(w) \/ Inactive(w) \/ Regranted(w) \/ Compare(w) \/ Withdraw(w)
             \/ SettleStale(w) \/ Pass(w)
    BY <1>0, <2>4, GoSame, SkipSame, KeptReads
       DEF Publish, Inactive, Regranted, Compare, Withdraw, SettleStale, Pass
  <2>5. CASE Expire(w)
    <3>1. work[w].k \in Contacts
      BY <1>0, <2>5, AtFacts DEF Expire
    <3> QED BY <1>1, <2>5, <3>1, GoEntry, LocalSame DEF Expire
  <2>6. CASE Claimed(w)
    <3>1. work[w].k \in Contacts
      BY <1>0, <2>6, AtFacts DEF Claimed
    <3>2. \/ Go(w, work[w], <<>>, Only("fail"))
          \/ Skip(w)
          \/ \E p \in {work[w].entry.pair} :
               Go(w, [work[w] EXCEPT !.entry = Entry(w)], <<Remove(p)>>,
                  Only("flush") \o For(<<"regranted", "compare">>, p))
      BY <2>6 DEF Claimed
    <3> QED BY <1>0, <1>1, <3>1, <3>2, GoEntry, LocalSame, GoSame, SkipSame, KeptReads
  <2>7. CASE Lookup(w)
    <3>1. work[w].k \in Contacts
      BY <1>0, <2>7, AtFacts DEF Lookup
    <3> QED BY <1>1, <2>7, <3>1, GoEntry, LocalSame DEF Lookup
  <2> QED BY <2>1, <2>2, <2>3, <2>4, <2>5, <2>6, <2>7
<1> QED BY <1>1, <1>2, LocalSteady

(* The calls that write one entry.                                         *)
LEMMA BucketSteady ==
  ASSUME Shape, NEW k \in Contacts, NEW p \in PairOrNone, NEW m \in PairOrNone,
         Name(k, p, m) \/ Rewrite(k, p, m) \/ Erase(k) \/ UNCHANGED bucket,
         UNCHANGED <<sf, events, tuples, changes, faults, lost>>, logged' \subseteq Pairs, Reads
  PROVE  Steady
<1>0. Around
  BY DEF Shape
<1>1. BucketStep /\ removed' \subseteq Pairs
  <2>1. CASE UNCHANGED bucket
    BY <1>0, <2>1 DEF bucket, Untouched, BucketStep, Around
  <2>2. CASE Name(k, p, m) \/ Rewrite(k, p, m) \/ Erase(k)
    BY <1>0, <2>2, Writes DEF BucketStep
  <2> QED BY <2>1, <2>2
<1>2. grants' \in [Contacts -> Entries] /\ revision' \in Nat
  BY <1>0, <1>1, WrittenTyped
<1>3. Taken'
  BY ReadsTaken
<1> QED BY <1>0, <1>1, <1>2, <1>3 DEF Around, Steady

(* The entry of the sibling that justifies the pair comes to name it.      *)
LEMMA OwnSteady == ASSUME Shape, NEW w \in Workers, Own(w) PROVE Steady
<1>0. Working /\ Around
  BY DEF Shape
<1> DEFINE s == work[w].by
           e == grants[s]
<1>1. At(w, "own") /\ s \in Contacts \cup {None} /\ Pair(w) \in PairOrNone
  BY <1>0, AtFacts DEF Own
<1>2. Reads
  BY <1>0, GoSame, SkipSame, KeptReads DEF Own
<1>3. UNCHANGED <<sf, events, tuples, changes, faults, lost>> /\ logged' \subseteq Pairs
  BY <1>0 DEF Own, ledger, Around
<1>4. UNCHANGED bucket \/ (s # None /\ Name(s, Pair(w), e.pair))
  BY DEF Own
<1>5. CASE UNCHANGED bucket
  BY <1>0, <1>2, <1>3, <1>5, LocalSteady DEF Own, local
<1>6. CASE s # None /\ Name(s, Pair(w), e.pair)
  <2>1. s \in Contacts /\ e.pair \in PairOrNone
    BY <1>0, <1>1, <1>6 DEF Around, Entries, PairOrNone
  <2> QED BY <1>1, <1>2, <1>3, <1>6, <2>1, BucketSteady
<1> QED BY <1>4, <1>5, <1>6

(* The marker is cleared.                                                  *)
LEMMA ClearMarkerSteady == ASSUME Shape, NEW w \in Workers, ClearMarker(w) PROVE Steady
<1>0. Working /\ Around
  BY DEF Shape
<1>1. work[w].k \in Contacts
  BY <1>0, AtFacts DEF ClearMarker
<1>2. Reads
  BY <1>0, SkipSame, KeptReads DEF ClearMarker
<1>3. UNCHANGED <<sf, events, tuples, changes, faults, lost>> /\ logged' \subseteq Pairs
  BY <1>0 DEF ClearMarker, ledger, Around
<1>4. UNCHANGED bucket \/ Erase(work[w].k) \/ Rewrite(work[w].k, Entry(w).pair, None)
  BY DEF ClearMarker
<1>5. Entry(w).pair \in PairOrNone /\ None \in PairOrNone
  BY <1>0, <1>1, EntryTyped DEF PairOrNone
<1> QED BY <1>1, <1>2, <1>3, <1>4, <1>5, BucketSteady

(* A grant is recorded.                                                    *)
LEMMA RecordSteady == ASSUME Shape, NEW w \in Workers, Record(w) PROVE Steady
<1>0. Working /\ Around
  BY DEF Shape
<1> DEFINE e == Entry(w)
<1>1. /\ At(w, "record") /\ work[w].k \in Contacts /\ Pair(w) \in PairOrNone
      /\ e.pair \in PairOrNone /\ e.marker \in PairOrNone
  BY <1>0, AtFacts, EntryTyped DEF Record
<1>2. UNCHANGED <<sf, events, tuples, changes, faults, lost>> /\ logged' \subseteq Pairs
  <2>1. {e.marker} \ {None} \subseteq Pairs /\ logged \subseteq Pairs
    BY <1>0, <1>1 DEF PairOrNone, Around
  <2>2. logged' = logged \cup ({e.marker} \ {None}) \/ logged' = logged
    BY DEF Record
  <2>3. logged' \subseteq Pairs
    BY <2>1, <2>2
  <2> QED BY <2>3 DEF Record
<1>3. \/ Skip(w) /\ Name(work[w].k, Pair(w), e.marker)
      \/ Go(w, work[w], <<>>, RevokeSuperseded(e.pair)) /\ Name(work[w].k, Pair(w), e.pair)
      \/ Go(w, [work[w] EXCEPT !.entry = e], <<>>, Drain(e.marker) \o For(<<"write">>, Pair(w)))
         /\ UNCHANGED bucket
  BY DEF Record
<1>4. CASE Skip(w) /\ Name(work[w].k, Pair(w), e.marker)
  BY <1>0, <1>1, <1>2, <1>4, SkipSame, KeptReads, BucketSteady
<1>5. CASE Go(w, work[w], <<>>, RevokeSuperseded(e.pair)) /\ Name(work[w].k, Pair(w), e.pair)
  BY <1>0, <1>1, <1>2, <1>5, GoSame, KeptReads, BucketSteady
<1>6. CASE Go(w, [work[w] EXCEPT !.entry = e], <<>>, Drain(e.marker) \o For(<<"write">>, Pair(w)))
           /\ UNCHANGED bucket
  <2>1. Untouched
    BY <1>6 DEF bucket, Untouched
  <2>2. Reads
    BY <1>1, <1>6, <2>1, GoEntry
  <2> QED BY <1>1, <1>2, <1>6, <2>2, BucketSteady
<1> QED BY <1>3, <1>4, <1>5, <1>6

(* ... after its marker was drained.                                       *)
LEMMA WriteSteady == ASSUME Shape, NEW w \in Workers, Write(w) PROVE Steady
<1>0. Working /\ Around
  BY DEF Shape
<1> DEFINE e == work[w].entry
<1>1. work[w].k \in Contacts /\ Pair(w) \in PairOrNone /\ e.pair \in PairOrNone
  BY <1>0, AtFacts DEF Write, PairOrNone
<1>2. Reads
  BY <1>0, GoSame, KeptReads DEF Write
<1>3. UNCHANGED <<sf, events, tuples, changes, faults, lost>> /\ logged' \subseteq Pairs
  BY <1>0 DEF Write, ledger, Around
<1>4. UNCHANGED bucket \/ Name(work[w].k, Pair(w), e.pair)
  BY DEF Write
<1> QED BY <1>1, <1>2, <1>3, <1>4, BucketSteady

(* The claim before an expired grant is revoked.                           *)
LEMMA ClaimSteady == ASSUME Shape, NEW w \in Workers, Claim(w) PROVE Steady
<1>0. Working /\ Around
  BY DEF Shape
<1> DEFINE e == work[w].entry
<1>1. work[w].k \in Contacts /\ e.pair \in PairOrNone /\ e.marker \in PairOrNone
  BY <1>0, AtFacts DEF Claim, Entries, PairOrNone
<1>2. Reads
  BY <1>0, GoSame, SkipSame, KeptReads DEF Claim
<1>3. UNCHANGED <<sf, events, tuples, changes, faults, lost>> /\ logged' \subseteq Pairs
  BY <1>0 DEF Claim, ledger, Around
<1>4. UNCHANGED bucket \/ Rewrite(work[w].k, e.pair, e.marker)
  BY DEF Claim
<1> QED BY <1>1, <1>2, <1>3, <1>4, BucketSteady

(* What was revoked is cleared or erased.                                  *)
LEMMA ClearSteady == ASSUME Shape, NEW w \in Workers, Clear(w) \/ EraseEntry(w) PROVE Steady
<1>0. Working /\ Around
  BY DEF Shape
<1> DEFINE e == work[w].entry
<1>1. work[w].k \in Contacts /\ None \in PairOrNone /\ e.marker \in PairOrNone
  BY <1>0, AtFacts DEF Clear, EraseEntry, Entries, PairOrNone
<1>2. Reads
  BY <1>0, SkipSame, KeptReads DEF Clear, EraseEntry
<1>3. UNCHANGED <<sf, events, tuples, changes, faults, lost>> /\ logged' \subseteq Pairs
  BY <1>0 DEF Clear, EraseEntry, ledger, Around
<1>4. UNCHANGED bucket \/ Erase(work[w].k) \/ Rewrite(work[w].k, None, e.marker)
  BY DEF Clear, EraseEntry
<1> QED BY <1>1, <1>2, <1>3, <1>4, BucketSteady

(* Another event.                                                          *)
LEMMA AppendTyped ==
  ASSUME NEW S, NEW s \in Seq(S), NEW x \in S
  PROVE  Append(s, x) \in Seq(S) /\ Append(s, x) # <<>>
<1>1. Append(s, x) \in Seq(S) /\ Len(Append(s, x)) = Len(s) + 1 /\ Len(s) \in Nat
  OBVIOUS
<1>2. Len(<<>>) = 0
  OBVIOUS
<1> QED BY ONLY <1>1, <1>2

(* A change in Salesforce is an event.                                     *)
LEMMA SaveTyped ==
  ASSUME Around, NEW k \in Contacts, NEW rec \in Records, Save(k, rec)
  PROVE  sf' \in Views /\ events' \in Seq(Events) /\ events' # <<>>
<1>1. sf' = [sf EXCEPT ![k] = rec] /\ events' = Append(events, [k |-> k, deleted |-> rec = Gone])
  BY DEF Save
<1>2. sf' \in Views
  BY <1>1 DEF Around, Views
<1>3. (rec = Gone) \in BOOLEAN
  OBVIOUS
<1>4. PICK b \in BOOLEAN : events' = Append(events, [k |-> k, deleted |-> b])
  BY <1>1, <1>3
<1>5. [k |-> k, deleted |-> b] \in Events
  BY DEF Events
<1>6. events \in Seq(Events)
  BY DEF Around
<1>7. Append(events, [k |-> k, deleted |-> b]) \in Seq(Events)
      /\ Append(events, [k |-> k, deleted |-> b]) # <<>>
  BY ONLY <1>5, <1>6, AppendTyped
<1> QED BY <1>2, <1>4, <1>7

(* The records that can be saved.                                          *)
LEMMA LiveAre == Live \subseteq Records /\ Gone \in Records
  BY DEF Live, Gone, Records

(* Updates and deletes of the API.                                         *)
LEMMA SavesSteady ==
  ASSUME Shape, NEW w \in Workers, SaveUpdate(w) \/ DeleteRecord(w)
  PROVE  Steady
<1>0. Working /\ Around
  BY DEF Shape
<1>1. work[w].k \in Contacts
  BY <1>0, AtFacts DEF SaveUpdate, DeleteRecord
<1>2. UNCHANGED <<bucket, tuples, ledger>>
  BY DEF SaveUpdate, DeleteRecord
<1>3. UNCHANGED <<sf, events>> \/ \E rec \in Records : Save(work[w].k, rec)
  BY LiveAre DEF SaveUpdate, DeleteRecord
<1>4. sf' \in Views /\ events' \in Seq(Events) /\ (events # <<>> => events' # <<>>)
  BY <1>0, <1>1, <1>3, SaveTyped DEF Around
<1>5. Reads
  <2>1. CASE SaveUpdate(w)
    <3> DEFINE old == work[w].kc
               todo(new, renamed) ==
                  IF renamed THEN Only("publish") \o Only("catch")
                                  \o (IF new.pair = old.pair THEN <<>>
                                      ELSE WhenSet(old.pair, For(<<"scanQuick">>, old.pair)))
                  ELSE IF new.pair = None THEN Only("expireLive") ELSE Only("publish")
    <3>1. \/ Go(w, work[w], <<>>, Only("fail"))
          \/ \E new \in Live, renamed \in BOOLEAN :
               Go(w, [work[w] EXCEPT !.kc = new], <<>>, todo(new, renamed))
      BY <2>1 DEF SaveUpdate
    <3> HIDE DEF todo
    <3> QED BY <1>0, <3>1, LiveAre, GoSame, GoRecord, KeptReads
  <2>2. CASE DeleteRecord(w)
    BY <1>0, <2>2, GoSame, KeptReads DEF DeleteRecord
  <2> QED BY <2>1, <2>2
<1>6. Taken'
  BY <1>4, <1>5, ReadsTaken
<1> QED BY <1>0, <1>2, <1>4, <1>5, <1>6 DEF Around, Steady, BucketStep, Untouched, bucket, ledger

(* A call that begins has read nothing yet.                                *)
LEMMA BeginReads ==
  ASSUME Working, NEW w \in Workers, NEW k, NEW kc, NEW program,
         work' = [work EXCEPT ![w] = [Idle EXCEPT !.k = k, !.kc = kc, !.todo = program]],
         w # Consumer \/ events # <<>>
  PROVE  Reads
<1> DEFINE new == [Idle EXCEPT !.k = k, !.kc = kc, !.todo = program]
<1>1. new.entry = Absent
  BY DEF Idle
<1>2. work' = [work EXCEPT ![w] = new]
  OBVIOUS
<1> HIDE DEF new
<1> QED BY <1>1, <1>2 DEF Reads, Working

(* The calls of the API and of the backfill begin.                         *)
LEMMA ApiSteady ==
  ASSUME Shape, NEW w \in Writers, NEW k \in Contacts,
         Create(w, k) \/ Update(w, k) \/ Delete(w, k) \/ Republish(w, k)
  PROVE  Steady
<1>0. Working /\ Around /\ w \in Workers
  BY DEF Shape, Workers
<1>1. \E kc, program : Call(w, k, kc, program)
  BY DEF Create, Update, Delete, Republish
<1>2. UNCHANGED <<sf, events>> \/ \E rec \in Records : Save(k, rec)
  BY LiveAre DEF Create, Update, Delete, Republish
<1>3. sf' \in Views /\ events' \in Seq(Events) /\ (events # <<>> => events' # <<>>)
  BY <1>0, <1>2, SaveTyped DEF Around
<1>4. /\ changes < MaxChanges /\ changes' = changes + 1
      /\ UNCHANGED <<bucket, tuples, wire, faults, logged, lost>>
  BY <1>1 DEF Call
<1>5. changes' \in 0 .. MaxChanges
  BY <1>0, <1>4, GrantAssumption DEF Around
<1>6. Reads
  <2>1. PICK kc, program :
           work' = [work EXCEPT ![w] = [Idle EXCEPT !.k = k, !.kc = kc, !.todo = program]]
    BY <1>1 DEF Call
  <2>2. w # Consumer
    BY GrantAssumption
  <2> QED BY <1>0, <2>1, <2>2, BeginReads
<1>7. Taken'
  BY <1>3, <1>6, ReadsTaken
<1> QED BY <1>0, <1>3, <1>4, <1>5, <1>6, <1>7 DEF Around, Steady, BucketStep, Untouched, bucket

(* A change made elsewhere.                                                *)
LEMMA ChangeSteady == ASSUME Shape, NEW k \in Contacts, Change(k) PROVE Steady
<1>0. Working /\ Around
  BY DEF Shape
<1>1. \E rec \in Records : Save(k, rec)
  BY LiveAre DEF Change
<1>2. sf' \in Views /\ events' \in Seq(Events) /\ events' # <<>>
  BY <1>0, <1>1, SaveTyped
<1>3. changes' \in 0 .. MaxChanges
  BY <1>0, GrantAssumption DEF Around, Change
<1>4. Reads
  BY DEF Change, Reads
<1>5. Taken'
  BY <1>2 DEF Taken
<1> QED BY <1>0, <1>2, <1>3, <1>4, <1>5 DEF Change, Around, Steady, BucketStep, Untouched, bucket

(* The consumer takes an event.                                            *)
LEMMA TakeSteady == ASSUME Shape, Take PROVE Steady
<1>1. Working /\ Consumer \in Workers /\ UNCHANGED local
  BY DEF Shape, Workers, Take
<1>2. \E k, kc, program :
         work' = [work EXCEPT ![Consumer] = [Idle EXCEPT !.k = k, !.kc = kc, !.todo = program]]
  BY DEF Take
<1>3. events # <<>>
  BY DEF Take
<1> QED BY <1>1, <1>2, <1>3, BeginReads, LocalSteady

(* The pairs a record and its entry name.                                  *)
LEMMA KnownPairs ==
  ASSUME Around, NEW k \in Contacts, NEW kc \in Records
  PROVE  Known(k, kc) \subseteq Pairs
  BY DEF Around, Known, Records, Gone, Entries

(* The consumer passes over an event.                                      *)
LEMMA PassOverSteady == ASSUME Shape, PassOver PROVE Steady
<1>0. Working /\ Around
  BY DEF Shape
<1>1. events # <<>> /\ events' = Tail(events)
  BY DEF PassOver
<1>2. Head(events).k \in Contacts /\ events' \in Seq(Events)
  BY <1>0, <1>1, HeadEvent
<1>3. Known(Head(events).k, sf[Head(events).k]) \subseteq Pairs
  BY <1>0, <1>2, KnownPairs DEF Around, Views
<1>4. logged' \subseteq Pairs
  BY <1>0, <1>3 DEF PassOver, Around
<1>5. faults' \in 0 .. MaxFaults
  BY <1>0, GrantAssumption DEF PassOver, Around
<1>6. Reads
  BY DEF PassOver, Reads
<1>7. Taken'
  BY DEF PassOver, Taken, Idle
<1> QED BY <1>0, <1>2, <1>4, <1>5, <1>6, <1>7
        DEF PassOver, Around, Steady, BucketStep, Untouched, bucket

(* A call that ends keeps no entry.                                        *)
LEMMA StopReads ==
  ASSUME Working, NEW w \in Workers, work' = [work EXCEPT ![w] = Idle]
  PROVE  Reads
<1>1. Idle.entry = Absent /\ Idle.k = None
  BY DEF Idle
<1> QED BY <1>1 DEF Reads, Working

(* The pairs of a failure that is only logged.                             *)
LEMMA ToldPairs ==
  ASSUME Shape, NEW w \in Workers, work[w].k # None
  PROVE  Told(w) \subseteq Pairs
<1>1. Around /\ work[w].k \in Contacts /\ work[w].kc \in Records
  BY DEF Shape, Working, Jobs
<1> QED BY <1>1, KnownPairs DEF Told

(* A call ends.                                                            *)
LEMMA EndSteady == ASSUME Shape, NEW w \in Workers, End(w) PROVE Steady
<1>0. Working /\ Around
  BY DEF Shape
<1>1. work[w].k # None
  BY DEF End
<1>3. logged' \subseteq Pairs
  BY <1>0, <1>1, ToldPairs DEF End, Around
<1>4. events' \in Seq(Events)
  <2>1. events' = events \/ (w = Consumer /\ events' = Tail(events))
    BY DEF End
  <2>2. w = Consumer => events # <<>>
    BY DEF Shape, Taken, End
  <2> QED BY <1>0, <2>1, <2>2, HeadEvent DEF Around
<1>5. Reads
  BY <1>0, StopReads DEF End
<1>6. Taken'
  <2>1. CASE w = Consumer
    <3>1. work'[Consumer].k = None
      BY <1>0, <2>1 DEF End, Idle, Working
    <3> QED BY <3>1 DEF Taken
  <2>2. CASE w # Consumer
    <3>1. events' = events
      BY <2>2 DEF End
    <3> QED BY <1>5, <3>1, ReadsTaken
  <2> QED BY <2>1, <2>2
<1> QED BY <1>0, <1>3, <1>4, <1>5, <1>6 DEF End, Around, Steady, BucketStep, Untouched, bucket

(* The pairs of the messages of a connection.                              *)
LEMMA UnsentPairs == ASSUME Working, NEW w \in Workers PROVE Unsent(w) \subseteq Pairs
<1>1. wire[w] \in Seq(Messages)
  BY DEF Working
<1>2. \A i \in DOMAIN wire[w] : wire[w][i] \in Messages
  BY <1>1
<1> QED BY <1>2 DEF Unsent, Messages

(* A worker crashes.                                                       *)
LEMMA CrashSteady == ASSUME Shape, NEW w \in Workers, Crash(w) PROVE Steady
<1>0. Working /\ Around
  BY DEF Shape
<1>1. Unsent(w) \subseteq Pairs
  BY <1>0, UnsentPairs
<1>2. Unrecorded(w) \subseteq Pairs
  <2>1. work[w].todo \in Seq(NamedSteps)
    BY <1>0 DEF Working, Sound
  <2>2. \A i \in DOMAIN work[w].todo : work[w].todo[i] \in NamedSteps
    BY <2>1
  <2> QED BY <2>2 DEF Unrecorded, NamedSteps, Paired
<1>3. lost' \subseteq Pairs
  BY <1>0, <1>1, <1>2 DEF Crash, Around
<1>4. faults' \in 0 .. MaxFaults
  BY <1>0, GrantAssumption DEF Crash, Around
<1>5. Reads
  BY <1>0, StopReads DEF Crash
<1>6. Taken'
  BY <1>5, ReadsTaken DEF Crash
<1>7. logged' \subseteq Pairs
  BY <1>0, ToldPairs DEF Crash, Around
<1> QED BY <1>0, <1>3, <1>4, <1>5, <1>6, <1>7 DEF Crash, Around, Steady, BucketStep, Untouched, bucket

(* A call fails.                                                           *)
LEMMA CallFailsSteady == ASSUME Shape, NEW w \in Workers, CallFails(w) PROVE Steady
<1>0. Working /\ Around
  BY DEF Shape
<1>1. Unsent(w) \subseteq Pairs
  BY <1>0, UnsentPairs
<1>2. lost' \subseteq Pairs
  BY <1>0, <1>1 DEF CallFails, Around
<1>3. faults' \in 0 .. MaxFaults
  BY <1>0, GrantAssumption DEF CallFails, Around
<1>4. GiveUp(w) \/ work' = [work EXCEPT ![w].todo = Tail(@)]
  BY DEF CallFails
<1>5. Reads
  BY <1>0, <1>4, FailedSame, KeptReads
<1>6. Taken'
  BY <1>5, ReadsTaken DEF CallFails
<1> QED BY <1>0, <1>2, <1>3, <1>5, <1>6 DEF CallFails, Around, Steady, BucketStep, Untouched, bucket

(* A message is delivered.                                                 *)
LEMMA DeliverSteady == ASSUME Shape, NEW w \in Workers, Deliver(w) PROVE Steady
<1>0. Working /\ Around
  BY DEF Shape
<1>1. Head(wire[w]) \in Messages
  BY <1>0, TailFacts DEF Working, Deliver
<1>2. tuples' \subseteq Pairs /\ removed' \subseteq Pairs
  BY <1>0, <1>1 DEF Deliver, Messages, Around
<1>3. Reads
  BY DEF Deliver, Reads
<1>4. Taken'
  BY <1>3, ReadsTaken DEF Deliver
<1> QED BY <1>0, <1>2, <1>3, <1>4 DEF Deliver, Around, Steady, BucketStep, Untouched, ledger

(* Every step keeps the shape, and reads and writes the bucket like that.  *)
LEMMA NextSteady == ASSUME Shape, [Next]_vars PROVE Steady /\ Shape'
<1>1. ASSUME UNCHANGED vars PROVE Steady
  <2>1. Reads
    BY <1>1 DEF vars, Reads
  <2>2. UNCHANGED local
    BY <1>1 DEF vars, local, bucket, ledger
  <2> QED BY <2>1, <2>2, LocalSteady
<1>2. ASSUME NEW w \in Workers, Run(w) PROVE Steady
  <2>1. CASE Revoke(w)
    BY <2>1, RevokeLocal, OwnSteady, ClearMarkerSteady DEF Revoke
  <2>2. CASE Grant(w)
    BY <2>2, OtherLocal, RecordSteady, WriteSteady DEF Grant
  <2>3. CASE RevokeNoLongerLive(w)
    BY <2>3, OtherLocal, ClaimSteady, ClearSteady DEF RevokeNoLongerLive
  <2> QED BY <1>2, <2>1, <2>2, <2>3, OtherLocal, ClearSteady, SavesSteady, EndSteady DEF Run
<1>3. ASSUME Next PROVE Steady
  BY <1>2, <1>3, ChangeSteady, ApiSteady, TakeSteady, PassOverSteady, CallFailsSteady,
     CrashSteady, DeliverSteady DEF Next
<1>4. Steady
  BY <1>1, <1>3
<1> QED BY <1>4, NextWorking DEF Steady, Shape

(* The initial state has the shape.                                        *)
LEMMA InitShape == Init => Shape
<1> SUFFICES ASSUME Init PROVE Shape
  OBVIOUS
<1>1. Absent \in Entries /\ Gone \in Records
  BY DEF Absent, Entries, Gone, Records
<1>2. Around
  BY <1>1, GrantAssumption DEF Init, Around, Views
<1>3. Working
  BY IdleSound, SmallMessages DEF Init, Working, Sound
<1>4. Taken
  BY DEF Init, Taken, Idle, Workers
<1> QED BY <1>2, <1>3, <1>4 DEF Shape

(* The state keeps its shape, and every program a worker has left is one   *)
(* it can run: every call about a pair has one, and no call goes by an     *)
(* entry that was not read or names no pair                                *)
(* (key_contact_grant.go, recordKeyContactGrant and                        *)
(* revokeKeyContactGrantIfNoLongerLive).                                   *)
THEOREM TypeCorrect == Spec => []TypeOK
<1>1. Shape /\ [Next]_vars => Shape'
  BY NextSteady
<1> QED BY <1>1, InitShape, ShapeTyped, PTL DEF Spec

-----------------------------------------------------------------------------
(***************************************************************************)
(* A read at the revision of an entry is that entry.                       *)
(***************************************************************************)

(* No entry, in the bucket or read, is of a later revision than the last;  *)
(* one read at the revision an entry has is the entry.                     *)
Numbered ==
    /\ \A k \in Contacts : grants[k].rev <= revision
    /\ \A w \in Workers : work[w].entry.rev <= revision
Current == \A w \in Workers :
    work[w].entry.rev # 0 /\ Entry(w).rev = work[w].entry.rev => Entry(w) = work[w].entry

ReadInv == Shape /\ Numbered /\ Current

(* Every step keeps both.                                                  *)
LEMMA NextRead == ASSUME ReadInv, [Next]_vars PROVE ReadInv'
<1>1. Shape /\ Steady /\ Shape'
  BY NextSteady DEF ReadInv
<1>2. /\ revision \in Nat /\ grants \in [Contacts -> Entries]
      /\ \A w \in Workers : work[w] \in Jobs /\ work[w].entry \in Entries /\ Sound(work[w])
      /\ \A w \in Workers : work'[w] \in Jobs /\ work'[w].entry \in Entries /\ Sound(work'[w])
  BY <1>1 DEF Shape, Around, Working, Jobs, Sound
<1>3. \A k \in Contacts : grants[k].rev \in Nat /\ grants[k].rev <= revision
  BY <1>2 DEF ReadInv, Numbered, Entries
<1>4. \A w \in Workers : /\ work[w].entry.rev \in Nat /\ work[w].entry.rev <= revision
                         /\ work[w].k \in Contacts \/ work[w].entry.rev = 0
                         /\ work'[w].entry.rev \in Nat
                         /\ work'[w].k \in Contacts \/ work'[w].entry.rev = 0
  BY <1>2 DEF ReadInv, Numbered, Entries, Sound, Jobs
<1>5. Absent.rev = 0
  BY DEF Absent
<1>6. BucketStep /\ Reads
  BY <1>1 DEF Steady
<1>7. Numbered'
  <2>1. revision' \in Nat /\ revision <= revision'
    BY <1>2, <1>6 DEF BucketStep, Untouched, WrittenAt
  <2>2. ASSUME NEW k \in Contacts PROVE grants'[k].rev <= revision'
    <3>1. CASE Untouched
      BY <1>3, <3>1 DEF Untouched
    <3>2. ASSUME NEW n \in Contacts, WrittenAt(n) PROVE grants'[k].rev <= revision'
      <4>1. PICK e \in Entries : /\ e.rev = revision + 1 \/ e = Absent
                                 /\ grants' = [grants EXCEPT ![n] = e]
        BY <3>2 DEF WrittenAt
      <4>2. e.rev <= revision + 1 /\ revision' = revision + 1
        BY <1>2, <1>5, <3>2, <4>1 DEF WrittenAt
      <4>3. grants'[k] = e \/ grants'[k] = grants[k]
        BY <1>2, <4>1
      <4> QED BY <1>2, <1>3, <4>2, <4>3
    <3> QED BY <1>6, <3>1, <3>2 DEF BucketStep
  <2>3. ASSUME NEW w \in Workers PROVE work'[w].entry.rev <= revision'
    <3>1. CASE work'[w].entry = work[w].entry
      BY <1>2, <1>4, <2>1, <3>1
    <3>2. CASE work'[w].entry = Absent
      BY <1>5, <2>1, <3>2
    <3>3. CASE Untouched /\ work'[w].k = work[w].k /\ work'[w].entry = Entry(w)
      <4>1. CASE work'[w].k \in Contacts
        BY <1>3, <3>3, <4>1 DEF Entry, Untouched
      <4>2. CASE work'[w].entry.rev = 0
        BY <2>1, <4>2
      <4> QED BY <1>4, <4>1, <4>2
    <3> QED BY <1>6, <3>1, <3>2, <3>3 DEF Reads
  <2> QED BY <2>2, <2>3 DEF Numbered
<1>8. Current'
  <2> SUFFICES ASSUME NEW w \in Workers, work'[w].entry.rev # 0,
                      grants'[work'[w].k].rev = work'[w].entry.rev
               PROVE  grants'[work'[w].k] = work'[w].entry
    BY DEF Current, Entry
  <2> DEFINE k == work'[w].k
  <2>1. k \in Contacts
    BY <1>4
  <2>2. CASE work'[w].k = work[w].k /\ work'[w].entry = work[w].entry
    <3>1. grants[k].rev = work[w].entry.rev => grants[k] = work[w].entry
      BY <2>2 DEF ReadInv, Current, Entry
    <3>2. CASE Untouched
      BY <2>2, <3>1, <3>2 DEF Untouched
    <3>3. ASSUME NEW n \in Contacts, WrittenAt(n) PROVE grants'[k] = grants[k]
      <4>1. PICK e \in Entries : /\ e.rev = revision + 1 \/ e = Absent
                                 /\ grants' = [grants EXCEPT ![n] = e]
        BY <3>3 DEF WrittenAt
      <4>2. e.rev # work'[w].entry.rev
        BY <1>2, <1>4, <1>5, <2>2, <4>1
      <4>3. grants'[k] = e \/ grants'[k] = grants[k]
        BY <1>2, <2>1, <4>1
      <4> QED BY <4>2, <4>3
    <3> QED BY <1>6, <2>2, <3>1, <3>2, <3>3 DEF BucketStep
  <2>3. CASE work'[w].entry = Absent
    BY <1>5, <2>3
  <2>4. CASE Untouched /\ work'[w].k = work[w].k /\ work'[w].entry = Entry(w)
    BY <2>4 DEF Untouched, Entry
  <2> QED BY <1>6, <2>2, <2>3, <2>4 DEF Reads
<1> QED BY <1>1, <1>7, <1>8 DEF ReadInv

(* Nothing is read and nothing written at first.                           *)
LEMMA InitRead == Init => ReadInv
<1> SUFFICES ASSUME Init PROVE ReadInv
  OBVIOUS
<1>1. Absent.rev = 0 /\ Idle.entry = Absent
  BY DEF Absent, Idle
<1> QED BY <1>1, InitShape DEF Init, ReadInv, Numbered, Current

-----------------------------------------------------------------------------
(***************************************************************************)
(* An address is dropped by a call that relies on what earlier calls of    *)
(* its program did: the pair was removed, or the entry of a sibling came   *)
(* to name it. The invariant says of every program left that whatever its  *)
(* calls rely on is done, or is still to be done before them.              *)
(***************************************************************************)

(* The calls that rely on a pair, and the pair.                            *)
Vital == {"clear", "compare", "write", "erase", "clearMarker", "delete", "stop", "keepMarker"}
(* What a call relies on.                                                  *)
Relies(job, s, q) ==
    \/ s.do \in {"clear", "compare", "stop"} /\ q = job.entry.pair /\ q # job.entry.marker
    \/ s.do = "write" /\ q = job.entry.marker
    \/ s.do = "erase" /\ q \in {job.entry.pair, job.entry.marker}
    \/ s.do = "clearMarker" /\ q = s.pair
    \/ s.do = "delete" /\ q = job.entry.pair /\ q # OwnPair(job)

(* The calls that bring in what they need themselves: none that relies on  *)
(* a pair waits behind them.                                               *)
Fence == {"catch", "publish", "inactive", "record", "write", "expire", "expireLive",
          "justify", "justifyLive", "claim", "claimed", "lookup", "save", "compare",
          "clear", "clearMarker", "erase", "delete", "withdraw", "settleStale"}

(* What a program does about a pair, call by call.                         *)
Scans == {"scan", "scanLive", "scanQuick"}
Bare(todo, a, b) == \A n \in a .. b : todo[n].do \notin Scans \cup {"own"}
Before(todo, d, i) == \E n \in 1 .. i - 1 : todo[n].do = d
Owns(todo, j, q) == todo[j].do = "own" /\ todo[j].pair = q
Searches(todo, n, q) == todo[n].do \in {"scan", "scanLive"} /\ todo[n].pair = q

(* The program scans for the pair and hands it over before its i-th call.  *)
Secures(todo, i, q) == \E j \in 1 .. i - 1 : \E n \in 1 .. j - 1 :
    Owns(todo, j, q) /\ Searches(todo, n, q) /\ Bare(todo, n + 1, j - 1)

(* The program hands the pair to the sibling found.                        *)
HandsOver(todo, i, q) == \E j \in 1 .. i - 1 : Owns(todo, j, q) /\ Bare(todo, 1, j - 1)

(* The i-th call may rely on the pair: it is settled, will be, or the      *)
(* program fails before it gets there. S are the pairs settled, R those    *)
(* with a remove on the wire.                                              *)
Covered(job, S, R, i, q) ==
    \/ q \in S
    \/ Before(job.todo, "fail", i)
    \/ q \in R /\ Before(job.todo, "flush", i)
    \/ job.by # None /\ HandsOver(job.todo, i, q)
    \/ Secures(job.todo, i, q)

(* Every call left may rely on its pairs.                                  *)
Relied(job, S, R) == \A i \in 1 .. Len(job.todo) : \A q \in Pairs :
    Relies(job, job.todo[i], q) => Covered(job, S, R, i, q)
(* No call that relies on a pair waits behind one that brings in others.   *)
Fenced(todo) == \A h, i \in 1 .. Len(todo) :
    h < i /\ todo[h].do \in Fence => todo[i].do \notin Vital
(* A failure behind the pair's own revoke still clears the pair.           *)
Stopped(job, S) == \A h \in 1 .. Len(job.todo) : job.todo[h].do = "keepMarker" =>
    \/ job.entry.pair \in {None, job.entry.marker} \/ job.entry.pair \in S
    \/ Before(job.todo, "stop", h)
(* A check that the sibling is live is followed by the hand-over.          *)
Confirming(todo) == \A h \in 1 .. Len(todo) : todo[h].do = "confirmLive" =>
    h + 2 <= Len(todo) /\ todo[h + 1].do = "reassert" /\ Owns(todo, h + 2, todo[h].pair)
(* The look for a sibling is about the pair of the entry read.             *)
Justifying(job) == \A h \in 1 .. Len(job.todo) : job.todo[h].do \in {"justify", "justifyLive"} =>
    h = 1 /\ job.todo[h].pair = job.entry.pair

(* What the program of a call relies on.                                   *)
Guard(job, S, R) ==
    /\ Relied(job, S, R) /\ Fenced(job.todo) /\ Stopped(job, S)
    /\ Confirming(job.todo) /\ Justifying(job)
    /\ job.by # None => job.by # job.k

(* Where the calls of a program are once its head is replaced.             *)
LEMMA Moved ==
  ASSUME NEW t \in Seq(Steps), t # <<>>, NEW steps \in Seq(Steps), NEW u, u = steps \o Tail(t)
  PROVE  /\ u \in Seq(Steps) /\ Len(u) = Len(steps) + Len(t) - 1
         /\ Len(steps) \in Nat /\ Len(t) \in Nat \ {0} /\ Len(u) \in Nat
         /\ \A n \in 2 .. Len(t) : n + Len(steps) - 1 \in 1 .. Len(u) /\ u[n + Len(steps) - 1] = t[n]
         /\ \A n \in 1 .. Len(steps) : n \in 1 .. Len(u) /\ u[n] = steps[n]
         /\ \A n \in 1 .. Len(u) :
              \/ n \in 1 .. Len(steps) /\ u[n] = steps[n]
              \/ n - Len(steps) + 1 \in 2 .. Len(t) /\ u[n] = t[n - Len(steps) + 1]
<1>1. /\ Len(t) \in Nat \ {0} /\ Len(steps) \in Nat
      /\ Tail(t) \in Seq(Steps) /\ Len(Tail(t)) = Len(t) - 1
      /\ \A i \in 1 .. Len(Tail(t)) : Tail(t)[i] = t[i + 1]
  BY TailFacts
<1>2. /\ u \in Seq(Steps) /\ Len(u) = Len(steps) + Len(Tail(t))
      /\ \A n \in 1 .. Len(steps) : n \in 1 .. Len(u) /\ u[n] = steps[n]
  BY <1>1, ConcatFacts
<1>3. \A n \in 1 .. Len(u) :
        \/ n \in 1 .. Len(steps) /\ u[n] = steps[n]
        \/ n - Len(steps) \in 1 .. Len(Tail(t)) /\ u[n] = Tail(t)[n - Len(steps)]
  BY <1>1, ConcatFacts
<1>4. ASSUME NEW n \in 1 .. Len(u)
      PROVE  \/ n \in 1 .. Len(steps) /\ u[n] = steps[n]
             \/ n - Len(steps) + 1 \in 2 .. Len(t) /\ u[n] = t[n - Len(steps) + 1]
  <2>1. CASE n \in 1 .. Len(steps) /\ u[n] = steps[n]
    BY <2>1
  <2>2. CASE n - Len(steps) \in 1 .. Len(Tail(t)) /\ u[n] = Tail(t)[n - Len(steps)]
    <3>1. u[n] = t[n - Len(steps) + 1]
      BY <1>1, <2>2
    <3>2. n - Len(steps) + 1 \in 2 .. Len(t)
      BY <1>1, <2>2
    <3> QED BY <3>1, <3>2
  <2> QED BY <1>3, <2>1, <2>2
<1>5. ASSUME NEW n \in 2 .. Len(t)
      PROVE  n + Len(steps) - 1 \in 1 .. Len(u) /\ u[n + Len(steps) - 1] = t[n]
  <2>1. n + Len(steps) - 1 \in 1 .. Len(u) /\ ~(n + Len(steps) - 1 \in 1 .. Len(steps))
    BY <1>1, <1>2
  <2>2. (n + Len(steps) - 1) - Len(steps) + 1 = n
    BY <1>1
  <2> QED BY <1>4, <2>1, <2>2
<1> QED BY <1>1, <1>2, <1>4, <1>5

(* More pairs settled, and removes delivered, keep what a call relies on.  *)
LEMMA GuardGrows ==
  ASSUME NEW job, NEW S, NEW R, NEW S2, NEW R2, Guard(job, S, R),
         S \subseteq S2, R \subseteq R2 \cup S2
  PROVE  Guard(job, S2, R2)
<1>1. \A i, q : Covered(job, S, R, i, q) => Covered(job, S2, R2, i, q)
  BY DEF Covered
<1> QED BY <1>1 DEF Guard, Relied, Stopped

(* A call relies on a pair only if it is one of those.                     *)
LEMMA ReliesVital ==
  ASSUME NEW job, NEW s, NEW q, s.do \notin Vital
  PROVE  ~Relies(job, s, q)
  BY DEF Relies, Vital

(* A program without such calls needs nothing.                             *)
LEMMA GuardPlain ==
  ASSUME NEW job, NEW S, NEW R, job.todo \in Seq(Steps), Confirming(job.todo), Justifying(job),
         \A i \in 1 .. Len(job.todo) : job.todo[i].do \notin Vital,
         job.by # None => job.by # job.k
  PROVE  Guard(job, S, R)
<1>1. Relied(job, S, R)
  BY ReliesVital DEF Relied
<1>2. Fenced(job.todo)
  BY DEF Fenced
<1>3. Stopped(job, S)
  BY DEF Stopped, Vital
<1> QED BY <1>1, <1>2, <1>3 DEF Guard

(* The calls a program may be continued with before its tail.              *)
Light == {"flush", "recheck", "verify", "fail"}

(* What is to be done before a call is still to be done before it, unless  *)
(* it was the head's doing.                                                *)
LEMMA CoverMoves ==
  ASSUME NEW t \in Seq(Steps), t # <<>>, NEW steps \in Seq(Steps), NEW u, u = steps \o Tail(t),
         NEW i \in 2 .. Len(t), NEW q
  PROVE  LET m == i + Len(steps) - 1 IN
         /\ \A d : Before(t, d, i) => t[1].do = d \/ Before(u, d, m)
         /\ \A d : (\E n \in 1 .. Len(steps) : steps[n].do = d) => Before(u, d, m)
         /\ HandsOver(t, i, q) /\ (\A n \in 1 .. Len(steps) : steps[n].do \notin Scans \cup {"own"})
               => Owns(t, 1, q) \/ HandsOver(u, m, q)
         /\ Secures(t, i, q) =>
               \/ Secures(u, m, q)
               \/ /\ Searches(t, 1, q)
                  /\ (\A n \in 1 .. Len(steps) : steps[n].do \notin Scans \cup {"own"})
                        => HandsOver(u, m, q)
<1> DEFINE L == Len(steps)
           m == i + L - 1
<1>0. /\ L \in Nat /\ Len(t) \in Nat \ {0}
      /\ \A n \in 2 .. Len(t) : n + L - 1 \in 1 .. Len(u) /\ u[n + L - 1] = t[n]
      /\ \A n \in 1 .. L : n \in 1 .. Len(u) /\ u[n] = steps[n]
  BY Moved
<1>1. ASSUME NEW d, Before(t, d, i), t[1].do # d PROVE Before(u, d, m)
  <2>1. PICK n \in 1 .. i - 1 : t[n].do = d
    BY <1>1 DEF Before
  <2>2. n \in 2 .. Len(t) /\ n + L - 1 \in 1 .. m - 1
    BY <1>0, <1>1, <2>1
  <2> QED BY <1>0, <2>1, <2>2 DEF Before
<1>2. ASSUME NEW d, NEW n \in 1 .. L, steps[n].do = d PROVE Before(u, d, m)
  <2>1. n \in 1 .. m - 1
    BY <1>0
  <2> QED BY <1>0, <1>2, <2>1 DEF Before
<1>3. ASSUME NEW a \in 2 .. i, NEW b \in 1 .. i, Bare(t, a, b)
      PROVE  Bare(u, a + L - 1, b + L - 1)
  <2> SUFFICES ASSUME NEW n \in a + L - 1 .. b + L - 1
               PROVE  u[n].do \notin Scans \cup {"own"}
    BY DEF Bare
  <2>1. n - L + 1 \in a .. b /\ n - L + 1 \in 2 .. Len(t) /\ (n - L + 1) + L - 1 = n
    BY <1>0
  <2>2. u[n] = t[n - L + 1]
    BY <1>0, <2>1
  <2> QED BY <1>3, <2>1, <2>2 DEF Bare
<1>4. ASSUME \A n \in 1 .. L : steps[n].do \notin Scans \cup {"own"}, NEW j \in 2 .. i - 1,
             Owns(t, j, q), Bare(t, 2, j - 1)
      PROVE  HandsOver(u, m, q)
  <2>1. Bare(u, L + 1, j + L - 2)
    <3>1. 2 \in 2 .. i /\ j - 1 \in 1 .. i /\ 2 + L - 1 = L + 1 /\ (j - 1) + L - 1 = j + L - 2
      BY <1>0
    <3> QED BY <1>3, <1>4, <3>1
  <2>2. Bare(u, 1, (j + L - 1) - 1)
    <3> SUFFICES ASSUME NEW n \in 1 .. (j + L - 1) - 1 PROVE u[n].do \notin Scans \cup {"own"}
      BY DEF Bare
    <3>1. n \in 1 .. L \/ n \in L + 1 .. j + L - 2
      BY <1>0
    <3> QED BY <1>0, <1>4, <2>1, <3>1 DEF Bare
  <2>3. j \in 2 .. Len(t) /\ j + L - 1 \in 1 .. m - 1
    BY <1>0
  <2>4. Owns(u, j + L - 1, q)
    BY <1>0, <1>4, <2>3 DEF Owns
  <2> QED BY <2>2, <2>3, <2>4 DEF HandsOver
<1>5. ASSUME HandsOver(t, i, q), \A n \in 1 .. L : steps[n].do \notin Scans \cup {"own"}
      PROVE  Owns(t, 1, q) \/ HandsOver(u, m, q)
  <2>1. PICK j \in 1 .. i - 1 : Owns(t, j, q) /\ Bare(t, 1, j - 1)
    BY <1>5 DEF HandsOver
  <2>2. CASE j # 1
    <3>1. j \in 2 .. i - 1 /\ Bare(t, 2, j - 1)
      BY <2>1, <2>2 DEF Bare
    <3> QED BY <1>4, <1>5, <2>1, <3>1
  <2> QED BY <2>1, <2>2
<1>6. ASSUME Secures(t, i, q)
      PROVE  \/ Secures(u, m, q)
             \/ /\ Searches(t, 1, q)
                /\ (\A n \in 1 .. L : steps[n].do \notin Scans \cup {"own"}) => HandsOver(u, m, q)
  <2>0. PICK j \in 1 .. i - 1 : \E n \in 1 .. j - 1 :
           Owns(t, j, q) /\ Searches(t, n, q) /\ Bare(t, n + 1, j - 1)
    BY <1>6 DEF Secures
  <2>1. PICK n \in 1 .. j - 1 : Owns(t, j, q) /\ Searches(t, n, q) /\ Bare(t, n + 1, j - 1)
    BY <2>0
  <2>2. CASE n = 1
    <3>1. j \in 2 .. i - 1 /\ Bare(t, 2, j - 1)
      BY <2>1, <2>2
    <3> QED BY <1>4, <2>1, <2>2, <3>1
  <2>3. CASE n # 1
    <3>1. /\ n \in 2 .. Len(t) /\ j \in 2 .. Len(t)
          /\ j + L - 1 \in 1 .. m - 1 /\ n + L - 1 \in 1 .. (j + L - 1) - 1
      BY <1>0, <2>3
    <3>2. Owns(u, j + L - 1, q) /\ Searches(u, n + L - 1, q)
      BY <1>0, <2>1, <3>1 DEF Owns, Searches
    <3>3. Bare(u, (n + L - 1) + 1, (j + L - 1) - 1)
      <4>1. n + 1 \in 2 .. i /\ j - 1 \in 1 .. i
        BY <2>3
      <4>2. (n + 1) + L - 1 = (n + L - 1) + 1 /\ (j - 1) + L - 1 = (j + L - 1) - 1
        BY <1>0
      <4> QED BY <1>3, <2>1, <4>1, <4>2
    <3> QED BY <3>1, <3>2, <3>3 DEF Secures
  <2> QED BY <2>2, <2>3
<1> QED BY <1>1, <1>2, <1>5, <1>6

(* The first call of a program has nothing before it.                      *)
LEMMA CoveredFirst ==
  ASSUME NEW job, NEW S, NEW R, NEW q, Covered(job, S, R, 1, q)
  PROVE  q \in S
  BY DEF Covered, Before, HandsOver, Secures

(* What the new program owes to the tail of the old one.                   *)
LEMMA TailKept ==
  ASSUME NEW job \in Jobs, NEW S, NEW R, NEW S2, NEW steps \in Seq(Steps), NEW new,
         job.todo # <<>>, Guard(job, S, R), S \subseteq S2,
         job.todo[1].do \notin Fence,
         new.todo = steps \o Tail(job.todo), new.entry = job.entry, new.k = job.k,
         \A n \in 1 .. Len(steps) : steps[n].do \notin Vital \cup Fence \cup {"confirmLive"}
  PROVE  /\ Fenced(new.todo) /\ Stopped(new, S2) /\ Confirming(new.todo) /\ Justifying(new)
<1> DEFINE t == job.todo
           u == new.todo
           L == Len(steps)
<1>0. job.todo \in Seq(Steps)
  BY DEF Jobs
<1>1. /\ u \in Seq(Steps) /\ Len(u) = L + Len(t) - 1 /\ Len(u) \in Nat
      /\ L \in Nat /\ Len(t) \in Nat \ {0}
      /\ \A n \in 2 .. Len(t) : n + L - 1 \in 1 .. Len(u) /\ u[n + L - 1] = t[n]
      /\ \A n \in 1 .. L : n \in 1 .. Len(u) /\ u[n] = steps[n]
      /\ \A n \in 1 .. Len(u) : \/ n \in 1 .. L /\ u[n] = steps[n]
                                \/ n - L + 1 \in 2 .. Len(t) /\ u[n] = t[n - L + 1]
  BY <1>0, Moved
<1>2. Fenced(u)
  <2> SUFFICES ASSUME NEW h \in 1 .. Len(u), NEW i \in 1 .. Len(u), h < i, u[h].do \in Fence
               PROVE  u[i].do \notin Vital
    BY DEF Fenced
  <2>1. h - L + 1 \in 2 .. Len(t) /\ u[h] = t[h - L + 1]
    BY <1>1
  <2>2. i - L + 1 \in 2 .. Len(t) /\ u[i] = t[i - L + 1]
    BY <1>1, <2>1
  <2>3. h - L + 1 < i - L + 1 /\ h - L + 1 \in 1 .. Len(t) /\ i - L + 1 \in 1 .. Len(t)
    BY <1>1, <2>1, <2>2
  <2> QED BY <2>1, <2>2, <2>3 DEF Guard, Fenced
<1>3. Stopped(new, S2)
  <2> SUFFICES ASSUME NEW h \in 1 .. Len(u), u[h].do = "keepMarker",
                      job.entry.pair \notin {None, job.entry.marker}, job.entry.pair \notin S2
               PROVE  Before(u, "stop", h)
    BY DEF Stopped
  <2>1. h - L + 1 \in 2 .. Len(t) /\ u[h] = t[h - L + 1]
    BY <1>1 DEF Vital
  <2>2. Before(t, "stop", h - L + 1)
    <3>1. h - L + 1 \in 1 .. Len(t)
      BY <2>1
    <3> QED BY <2>1, <3>1 DEF Guard, Stopped
  <2>3. t[1].do # "stop"
    <3> SUFFICES ASSUME t[1].do = "stop" PROVE FALSE
      OBVIOUS
    <3>1. job.entry.pair \in Pairs
      BY DEF Jobs, Entries
    <3>2. 1 \in 1 .. Len(t) /\ Relies(job, t[1], job.entry.pair)
      BY <1>1 DEF Relies
    <3>3. Covered(job, S, R, 1, job.entry.pair)
      BY <3>1, <3>2 DEF Guard, Relied
    <3> QED BY <3>3, CoveredFirst
  <2>4. Before(u, "stop", (h - L + 1) + L - 1)
    <3> DEFINE i == h - L + 1
    <3>1. i \in 2 .. Len(t) /\ Before(t, "stop", i)
      BY <2>1, <2>2
    <3> HIDE DEF i
    <3>2. Before(u, "stop", i + L - 1)
      BY <1>0, <2>3, <3>1, CoverMoves
    <3> QED BY <3>2 DEF i
  <2>5. (h - L + 1) + L - 1 = h
    BY <1>1
  <2> QED BY <2>4, <2>5
<1>4. Confirming(u)
  <2> SUFFICES ASSUME NEW h \in 1 .. Len(u), u[h].do = "confirmLive"
               PROVE  h + 2 <= Len(u) /\ u[h + 1].do = "reassert" /\ Owns(u, h + 2, u[h].pair)
    BY DEF Confirming
  <2>1. h - L + 1 \in 2 .. Len(t) /\ u[h] = t[h - L + 1]
    BY <1>1
  <2> DEFINE i == h - L + 1
  <2>2. i + 2 <= Len(t) /\ t[i + 1].do = "reassert" /\ Owns(t, i + 2, t[i].pair)
    <3>1. i \in 1 .. Len(t)
      BY <2>1
    <3> QED BY <2>1, <3>1 DEF Guard, Confirming
  <2>3. i + 1 \in 2 .. Len(t) /\ i + 2 \in 2 .. Len(t)
    BY <1>1, <2>1, <2>2
  <2>4. (i + 1) + L - 1 = h + 1 /\ (i + 2) + L - 1 = h + 2
    BY <1>1, <2>1
  <2>5. u[h + 1] = t[i + 1] /\ u[h + 2] = t[i + 2] /\ h + 2 \in 1 .. Len(u)
    <3> HIDE DEF i
    <3> QED BY <1>1, <2>3, <2>4
  <2>6. h + 2 <= Len(u)
    BY <1>1, <2>5
  <2> QED BY <2>1, <2>2, <2>5, <2>6 DEF Owns
<1>5. Justifying(new)
  <2> SUFFICES ASSUME NEW h \in 1 .. Len(u), u[h].do \in {"justify", "justifyLive"} PROVE FALSE
    BY DEF Justifying
  <2>1. h - L + 1 \in 2 .. Len(t) /\ u[h] = t[h - L + 1]
    BY <1>1 DEF Fence
  <2>2. h - L + 1 \in 1 .. Len(t)
    BY <2>1
  <2>3. h - L + 1 = 1
    BY <2>1, <2>2 DEF Guard, Justifying
  <2> QED BY <2>1, <2>3
<1> QED BY <1>2, <1>3, <1>4, <1>5

(* The call at the head relies on nothing brought in, and does what others *)
(* wait for; a few calls take its place.                                   *)
Advances(job, new, steps, S2, R, R2) ==
    LET s == job.todo[1] IN
    /\ s.do \notin Fence \cup {"fail"}
    /\ s.do = "flush" => R \subseteq S2
    /\ s.do = "own" /\ job.by # None =>
         s.pair \in S2 \/ s.pair \notin Pairs \/ \E n \in 1 .. Len(steps) : steps[n].do = "fail"
    /\ s.do \in {"scan", "scanLive"} =>
         new.by # None \/ (s.pair \in R2 /\ \E n \in 1 .. Len(steps) : steps[n].do = "flush")
    /\ s.do \notin Scans /\ job.by # None => new.by # None
    /\ new.todo = steps \o Tail(job.todo)
    /\ new.entry = job.entry /\ new.k = job.k /\ new.kc = job.kc
    /\ new.by # None => new.by # new.k
    /\ \A n \in 1 .. Len(steps) : steps[n].do \in Light

(* ... and its program goes on.                                            *)
LEMMA GuardAdvances ==
  ASSUME NEW job \in Jobs, NEW S, NEW R, NEW S2, NEW R2, NEW steps \in Seq(Steps), NEW new,
         job.todo # <<>>, Guard(job, S, R), S \subseteq S2, R \subseteq R2 \cup S2,
         Advances(job, new, steps, S2, R, R2)
  PROVE  Guard(new, S2, R2)
<1> DEFINE t == job.todo
           u == new.todo
           L == Len(steps)
<1>a. /\ t[1].do \notin Fence \cup {"fail"}
      /\ t[1].do = "flush" => R \subseteq S2
      /\ t[1].do = "own" /\ job.by # None =>
           t[1].pair \in S2 \/ t[1].pair \notin Pairs \/ \E n \in 1 .. L : steps[n].do = "fail"
      /\ t[1].do \in {"scan", "scanLive"} =>
           new.by # None \/ (t[1].pair \in R2 /\ \E n \in 1 .. L : steps[n].do = "flush")
      /\ t[1].do \notin Scans /\ job.by # None => new.by # None
      /\ u = steps \o Tail(t)
      /\ new.entry = job.entry /\ new.k = job.k /\ new.kc = job.kc
      /\ new.by # None => new.by # new.k
      /\ \A n \in 1 .. L : steps[n].do \in Light
  BY DEF Advances
<1>0. job.todo \in Seq(Steps)
  BY DEF Jobs
<1>1. /\ L \in Nat /\ Len(t) \in Nat \ {0}
      /\ \A n \in 1 .. Len(u) : \/ n \in 1 .. L /\ u[n] = steps[n]
                                \/ n - L + 1 \in 2 .. Len(t) /\ u[n] = t[n - L + 1]
  BY <1>a, <1>0, Moved
<1>2. Light \cap (Vital \cup Fence \cup Scans \cup {"own", "confirmLive"}) = {}
  BY DEF Light, Vital, Fence, Scans
<1>3. \A n \in 1 .. L : steps[n].do \notin Vital \cup Fence \cup Scans \cup {"own", "confirmLive"}
  BY <1>a, <1>2
<1>4. Fenced(u) /\ Stopped(new, S2) /\ Confirming(u) /\ Justifying(new)
  BY <1>a, <1>3, TailKept
<1>5. ASSUME NEW i \in 2 .. Len(t), NEW q \in Pairs, Covered(job, S, R, i, q)
      PROVE  Covered(new, S2, R2, i + L - 1, q)
  <2> DEFINE m == i + L - 1
  <2>1. /\ \A d : Before(t, d, i) => t[1].do = d \/ Before(u, d, m)
        /\ \A d : (\E n \in 1 .. L : steps[n].do = d) => Before(u, d, m)
        /\ HandsOver(t, i, q) => Owns(t, 1, q) \/ HandsOver(u, m, q)
        /\ Secures(t, i, q) => Secures(u, m, q) \/ (Searches(t, 1, q) /\ HandsOver(u, m, q))
    BY <1>a, <1>0, <1>3, CoverMoves
  <2> SUFFICES Covered(new, S2, R2, m, q)
    OBVIOUS
  <2> HIDE DEF m
  <2>2. CASE q \in S
    BY <2>2 DEF Covered
  <2>3. CASE Before(t, "fail", i)
    BY <1>a, <2>1, <2>3 DEF Covered
  <2>4. CASE q \in R /\ Before(t, "flush", i)
    BY <1>a, <2>1, <2>4 DEF Covered
  <2>5. CASE job.by # None /\ HandsOver(t, i, q)
    <3>1. CASE Owns(t, 1, q)
      BY <1>a, <2>1, <2>5, <3>1 DEF Covered, Owns
    <3>2. CASE ~Owns(t, 1, q)
      <4>1. HandsOver(u, m, q)
        BY <1>a, <2>1, <2>5, <3>2
      <4>2. t[1].do \notin Scans
        <5>1. PICK j \in 1 .. i - 1 : Owns(t, j, q) /\ Bare(t, 1, j - 1)
          BY <2>5 DEF HandsOver
        <5>2. 1 \in 1 .. j - 1
          BY <3>2, <5>1
        <5> QED BY <5>1, <5>2 DEF Bare
      <4> QED BY <1>a, <2>5, <4>1, <4>2 DEF Covered
    <3> QED BY <3>1, <3>2
  <2>6. CASE Secures(t, i, q)
    <3>1. CASE Searches(t, 1, q) /\ HandsOver(u, m, q)
      BY <1>a, <2>1, <3>1 DEF Covered, Searches
    <3> QED BY <1>a, <2>1, <2>6, <3>1 DEF Covered
  <2> QED BY <1>5, <2>2, <2>3, <2>4, <2>5, <2>6 DEF Covered
<1>6. Relied(new, S2, R2)
  <2> SUFFICES ASSUME NEW m \in 1 .. Len(u), NEW q \in Pairs, Relies(new, u[m], q)
               PROVE  Covered(new, S2, R2, m, q)
    BY DEF Relied
  <2>1. m - L + 1 \in 2 .. Len(t) /\ u[m] = t[m - L + 1]
    BY <1>1, <1>3, ReliesVital
  <2>2. Relies(job, t[m - L + 1], q)
    BY <1>a, <2>1 DEF Relies, OwnPair
  <2>3. m - L + 1 \in 1 .. Len(t)
    BY <2>1
  <2>4. Covered(job, S, R, m - L + 1, q)
    BY <2>2, <2>3 DEF Guard, Relied
  <2>5. Covered(new, S2, R2, (m - L + 1) + L - 1, q)
    <3> DEFINE i == m - L + 1
    <3>1. i \in 2 .. Len(t) /\ Covered(job, S, R, i, q)
      BY <1>a, <2>1, <2>4
    <3> HIDE DEF i
    <3>2. Covered(new, S2, R2, i + L - 1, q)
      BY <1>5, <3>1
    <3> QED BY <3>2 DEF i
  <2>6. (m - L + 1) + L - 1 = m
    BY <1>1
  <2> QED BY <2>5, <2>6
<1> QED BY <1>a, <1>4, <1>6 DEF Guard

(* The sibling is confirmed: a scan is put before what follows.            *)
LEMMA GuardConfirms ==
  ASSUME NEW job \in Jobs, NEW S, NEW R, NEW p, NEW s \in Steps, NEW new,
         job.todo # <<>>, Guard(job, S, R),
         job.todo[1].do = "confirmLive", job.todo[1].pair = p,
         s.do = "scanLive", s.pair = p,
         new.todo = <<s>> \o Tail(job.todo),
         new.entry = job.entry, new.k = job.k, new.kc = job.kc,
         new.by # None => new.by # new.k
  PROVE  Guard(new, S, R)
<1> DEFINE t == job.todo
           u == new.todo
           steps == <<s>>
           L == Len(steps)
<1>a. steps \in Seq(Steps) /\ u = steps \o Tail(t) /\ steps[1] = s
  OBVIOUS
<1>b. L = 1
  OBVIOUS
<1> HIDE DEF steps
<1>0. job.todo \in Seq(Steps)
  BY DEF Jobs
<1>1. /\ Len(t) \in Nat \ {0} /\ Len(u) \in Nat
      /\ \A n \in 2 .. Len(t) : n \in 1 .. Len(u) /\ u[n] = t[n]
      /\ u[1] = steps[1]
      /\ \A n \in 1 .. Len(u) : n = 1 \/ n \in 2 .. Len(t)
  <2>0. /\ Len(t) \in Nat \ {0} /\ Len(u) \in Nat
        /\ \A n \in 2 .. Len(t) : n + L - 1 \in 1 .. Len(u) /\ u[n + L - 1] = t[n]
        /\ \A n \in 1 .. L : n \in 1 .. Len(u) /\ u[n] = steps[n]
        /\ \A n \in 1 .. Len(u) : n \in 1 .. L \/ n - L + 1 \in 2 .. Len(t)
    BY <1>0, <1>a, Moved
  <2>1. /\ Len(t) \in Nat \ {0} /\ Len(u) \in Nat
        /\ \A n \in 2 .. Len(t) : n + 1 - 1 \in 1 .. Len(u) /\ u[n + 1 - 1] = t[n]
        /\ \A n \in 1 .. 1 : n \in 1 .. Len(u) /\ u[n] = steps[n]
        /\ \A n \in 1 .. Len(u) : n \in 1 .. 1 \/ n - 1 + 1 \in 2 .. Len(t)
    <3> HIDE DEF L
    <3> QED BY <1>b, <2>0
  <2>2. \A n \in 1 .. Len(u) : n - 1 + 1 = n
    BY <2>1
  <2>3. \A n \in 2 .. Len(t) : n + 1 - 1 = n
    BY <2>1
  <2> QED BY <2>1, <2>2, <2>3
<1>2. \A n \in 1 .. L : steps[n].do \notin Vital \cup Fence \cup {"confirmLive"}
  BY <1>a, <1>b DEF Vital, Fence
<1>3. Fenced(u) /\ Stopped(new, S) /\ Confirming(u) /\ Justifying(new)
  <2>1. t[1].do \notin Fence
    BY DEF Fence
  <2> QED BY <1>a, <1>2, <2>1, TailKept
<1>4. 3 <= Len(t) /\ t[2].do = "reassert" /\ Owns(t, 3, p)
  <2>1. 1 \in 1 .. Len(t)
    BY <1>1
  <2> QED BY <2>1 DEF Guard, Confirming
<1>5. ASSUME NEW i \in 2 .. Len(t), NEW q, Covered(job, S, R, i, q)
      PROVE  Covered(new, S, R, i, q)
  <2>0. /\ \A d : Before(t, d, i) => t[1].do = d \/ Before(u, d, i + L - 1)
        /\ Secures(t, i, q) => Secures(u, i + L - 1, q) \/ Searches(t, 1, q)
    BY <1>0, <1>a, CoverMoves
  <2>1. /\ \A d : Before(t, d, i) => t[1].do = d \/ Before(u, d, i + 1 - 1)
        /\ Secures(t, i, q) => Secures(u, i + 1 - 1, q) \/ Searches(t, 1, q)
    <3> HIDE DEF L
    <3> QED BY <1>b, <2>0
  <2>2. i + 1 - 1 = i
    BY <1>1
  <2>3. ASSUME HandsOver(t, i, q) PROVE Secures(u, i, q)
    <3>1. PICK j \in 1 .. i - 1 : Owns(t, j, q) /\ Bare(t, 1, j - 1)
      BY <2>3 DEF HandsOver
    <3>2. j # 1 /\ j # 2
      BY <1>4, <3>1 DEF Owns
    <3>3. ~(3 \in 1 .. j - 1)
      BY <1>4, <3>1 DEF Bare, Owns
    <3>4. j = 3 /\ q = p
      BY <1>4, <3>1, <3>2, <3>3 DEF Owns
    <3>5. Owns(u, 3, q) /\ Searches(u, 1, q) /\ Bare(u, 1 + 1, 3 - 1)
      <4>1. u[3] = t[3] /\ u[2] = t[2] /\ u[1] = s
        BY <1>a, <1>1, <1>4
      <4>2. \A n \in 1 + 1 .. 3 - 1 : n = 2
        OBVIOUS
      <4> QED BY <1>4, <3>4, <4>1, <4>2 DEF Owns, Searches, Bare, Scans
    <3>6. 3 \in 1 .. i - 1 /\ 1 \in 1 .. 3 - 1
      BY <3>1, <3>4
    <3> QED BY <3>5, <3>6 DEF Secures
  <2> QED BY <1>5, <2>1, <2>2, <2>3 DEF Covered, Searches
<1>6. Relied(new, S, R)
  <2> SUFFICES ASSUME NEW m \in 1 .. Len(u), NEW q \in Pairs, Relies(new, u[m], q)
               PROVE  Covered(new, S, R, m, q)
    BY DEF Relied
  <2>1. m \in 2 .. Len(t) /\ u[m] = t[m]
    BY <1>a, <1>1, ReliesVital DEF Vital
  <2>2. Relies(job, t[m], q) /\ m \in 1 .. Len(t)
    <3>1. PICK x : x = t[m]
      OBVIOUS
    <3>2. Relies(new, x, q)
      BY <2>1, <3>1
    <3>3. new.entry = job.entry /\ OwnPair(new) = OwnPair(job)
      BY DEF OwnPair
    <3>4. Relies(job, x, q)
      BY <3>2, <3>3 DEF Relies
    <3> QED BY <2>1, <3>1, <3>4
  <2>3. Covered(job, S, R, m, q)
    BY <2>2 DEF Guard, Relied
  <2> QED BY <1>5, <2>1, <2>3
<1> QED BY <1>3, <1>6 DEF Guard

-----------------------------------------------------------------------------
(* A call about to run a program.                                          *)
Ready(job, program, S, R) == Guard([job EXCEPT !.todo = program], S, R)

(* What comes before a call of a program comes before it in a longer one.  *)
LEMMA CoverPrefix ==
  ASSUME NEW a \in Seq(Steps), NEW u, \A n \in 1 .. Len(a) : u[n] = a[n],
         NEW i \in 1 .. Len(a) + 1, NEW q
  PROVE  /\ \A d : Before(a, d, i) => Before(u, d, i)
         /\ HandsOver(a, i, q) => HandsOver(u, i, q)
         /\ Secures(a, i, q) => Secures(u, i, q)
<1>0. Len(a) \in Nat /\ \A j \in 1 .. i - 1 : j \in 1 .. Len(a)
  OBVIOUS
<1>1. \A d : Before(a, d, i) => Before(u, d, i)
  BY <1>0 DEF Before
<1>2. ASSUME NEW j \in 1 .. i - 1, NEW n \in 0 .. j, Bare(a, n + 1, j - 1)
      PROVE  Bare(u, n + 1, j - 1)
  BY <1>0, <1>2 DEF Bare
<1>3. ASSUME HandsOver(a, i, q) PROVE HandsOver(u, i, q)
  <2>1. PICK j \in 1 .. i - 1 : Owns(a, j, q) /\ Bare(a, 0 + 1, j - 1)
    BY <1>3 DEF HandsOver
  <2>2. Bare(u, 0 + 1, j - 1)
    BY <1>2, <2>1
  <2> QED BY <1>0, <2>1, <2>2 DEF HandsOver, Owns
<1>4. ASSUME Secures(a, i, q) PROVE Secures(u, i, q)
  <2>1. PICK j \in 1 .. i - 1 : \E n \in 1 .. j - 1 :
          Owns(a, j, q) /\ Searches(a, n, q) /\ Bare(a, n + 1, j - 1)
    BY <1>4 DEF Secures
  <2>2. PICK n \in 1 .. j - 1 : Owns(a, j, q) /\ Searches(a, n, q) /\ Bare(a, n + 1, j - 1)
    BY <2>1
  <2>3. Bare(u, n + 1, j - 1) /\ n \in 1 .. Len(a)
    BY <1>0, <1>2, <2>2
  <2>4. Owns(u, j, q) /\ Searches(u, n, q)
    BY <1>0, <2>2, <2>3 DEF Owns, Searches
  <2> QED BY <2>3, <2>4 DEF Secures
<1> QED BY <1>1, <1>3, <1>4

(* The first n calls of a program are guarded.                             *)
GuardedTo(job, n, S, R) ==
    LET u == job.todo IN
    /\ \A i \in 1 .. n : \A q \in Pairs : Relies(job, u[i], q) => Covered(job, S, R, i, q)
    /\ \A i, h \in 1 .. n : h < i /\ u[h].do \in Fence => u[i].do \notin Vital
    /\ \A h \in 1 .. n : u[h].do = "keepMarker" =>
           job.entry.pair \in {None, job.entry.marker} \/ job.entry.pair \in S \/ Before(u, "stop", h)
    /\ \A h \in 1 .. n : u[h].do = "confirmLive" =>
           h + 2 <= Len(u) /\ u[h + 1].do = "reassert" /\ Owns(u, h + 2, u[h].pair)
    /\ \A h \in 1 .. n : u[h].do \in {"justify", "justifyLive"} =>
           h = 1 /\ u[h].pair = job.entry.pair
    /\ job.by # None => job.by # job.k

(* A program continued: what it had is guarded as before.                  *)
LEMMA ReadyPrefix ==
  ASSUME NEW job \in Jobs, NEW a \in Seq(Steps), NEW u \in Seq(Steps), NEW S, NEW R,
         Len(a) <= Len(u), \A n \in 1 .. Len(a) : u[n] = a[n], Ready(job, a, S, R),
         NEW new, new = [job EXCEPT !.todo = u]
  PROVE  new.todo = u /\ GuardedTo(new, Len(a), S, R)
<1> DEFINE old == [job EXCEPT !.todo = a]
<1>1. /\ old.todo = a /\ new.todo = u /\ old.entry = new.entry /\ old.by = new.by
      /\ old.k = new.k /\ old.kc = new.kc /\ new.entry = job.entry
  BY DEF Jobs
<1>2. Guard(old, S, R)
  BY DEF Ready
<1>3. Len(a) \in Nat /\ Len(u) \in Nat
  OBVIOUS
<1> HIDE DEF old
<1>4. ASSUME NEW i \in 1 .. Len(a), NEW q \in Pairs, Relies(new, u[i], q)
      PROVE  Covered(new, S, R, i, q)
  <2>1. Relies(old, a[i], q)
    BY <1>1, <1>4 DEF Relies, OwnPair
  <2>2. Covered(old, S, R, i, q)
    BY <1>1, <1>2, <2>1 DEF Guard, Relied
  <2>3. i \in 1 .. Len(a) + 1
    BY <1>3
  <2>4. /\ \A d : Before(a, d, i) => Before(u, d, i)
        /\ HandsOver(a, i, q) => HandsOver(u, i, q)
        /\ Secures(a, i, q) => Secures(u, i, q)
    BY <2>3, CoverPrefix
  <2> QED BY <1>1, <2>2, <2>4 DEF Covered
<1>5. \A i, h \in 1 .. Len(a) :
          h < i /\ u[h].do \in Fence => u[i].do \notin Vital
  BY <1>1, <1>2 DEF Guard, Fenced
<1>6. ASSUME NEW h \in 1 .. Len(a), u[h].do = "keepMarker"
      PROVE  new.entry.pair \in {None, new.entry.marker} \/ new.entry.pair \in S \/ Before(u, "stop", h)
  <2>1. old.entry.pair \in {None, old.entry.marker} \/ old.entry.pair \in S \/ Before(a, "stop", h)
    BY <1>1, <1>2, <1>6 DEF Guard, Stopped
  <2>2. h \in 1 .. Len(a) + 1
    BY <1>3
  <2> QED BY <1>1, <2>1, <2>2, CoverPrefix
<1>7. ASSUME NEW h \in 1 .. Len(a), u[h].do = "confirmLive"
      PROVE  h + 2 <= Len(u) /\ u[h + 1].do = "reassert" /\ Owns(u, h + 2, u[h].pair)
  <2>1. h + 2 <= Len(a) /\ a[h + 1].do = "reassert" /\ Owns(a, h + 2, a[h].pair)
    BY <1>1, <1>2, <1>7 DEF Guard, Confirming
  <2>2. h + 1 \in 1 .. Len(a) /\ h + 2 \in 1 .. Len(a) /\ h + 2 <= Len(u)
    BY <1>3, <2>1
  <2> QED BY <2>1, <2>2 DEF Owns
<1>8. \A h \in 1 .. Len(a) : u[h].do \in {"justify", "justifyLive"} =>
          h = 1 /\ u[h].pair = new.entry.pair
  <2>1. \A h \in 1 .. Len(a) : a[h].do \in {"justify", "justifyLive"} =>
            h = 1 /\ a[h].pair = old.entry.pair
    BY <1>1, <1>2 DEF Guard, Justifying
  <2>2. \A h \in 1 .. Len(a) : u[h] = a[h]
    BY <1>1
  <2> QED BY ONLY <1>1, <2>1, <2>2
<1>9. new.by # None => new.by # new.k
  BY <1>1, <1>2 DEF Guard
<1>10. new.todo = u
  BY <1>1
<1> QED BY ONLY <1>10, <1>4, <1>5, <1>6, <1>7, <1>8, <1>9 DEF GuardedTo

(* The calls that a program may be continued with at any place.            *)
Harmless(b) == /\ \A n \in 1 .. Len(b) : b[n].do \notin Vital \cup {"justify", "justifyLive"}
               /\ Confirming(b)
(* No call of the program brings in others.                                *)
Open(a) == \A n \in 1 .. Len(a) : a[n].do \notin Fence

(* A program goes on with calls that need nothing.                         *)
LEMMA ReadyAppend ==
  ASSUME NEW job \in Jobs, NEW a \in Seq(Steps), NEW b \in Seq(Steps), NEW S, NEW R,
         Ready(job, a, S, R), Harmless(b)
  PROVE  Ready(job, a \o b, S, R)
<1> DEFINE u == a \o b
           new == [job EXCEPT !.todo = u]
           L == Len(a)
<1>1. /\ u \in Seq(Steps) /\ Len(u) = L + Len(b) /\ L \in Nat /\ Len(b) \in Nat
      /\ \A i \in 1 .. L : i \in 1 .. Len(u) /\ u[i] = a[i]
      /\ \A i \in 1 .. Len(u) : i \in 1 .. L \/ (i - L \in 1 .. Len(b) /\ u[i] = b[i - L])
  BY ConcatFacts
<1>2. new.todo = u /\ GuardedTo(new, L, S, R)
  <2>1. L <= Len(u) /\ new = [job EXCEPT !.todo = u]
    BY <1>1
  <2> HIDE DEF u, new
  <2> QED BY <1>1, <2>1, ReadyPrefix
<1> SUFFICES Guard(new, S, R)
  BY DEF Ready
<1> HIDE DEF u, new
<1>3. ASSUME NEW i \in 1 .. Len(u), u[i].do \in Vital \cup {"justify", "justifyLive"}
      PROVE  i \in 1 .. L
  BY <1>1, <1>3 DEF Harmless
<1>4. Relied(new, S, R)
  BY <1>2, <1>3, ReliesVital DEF Relied, GuardedTo
<1>5. Fenced(u)
  <2> SUFFICES ASSUME NEW h \in 1 .. Len(u), NEW i \in 1 .. Len(u), h < i, u[h].do \in Fence,
                      u[i].do \in Vital
               PROVE  FALSE
    BY DEF Fenced
  <2>1. i \in 1 .. L
    BY <1>3
  <2>2. h \in 1 .. L
    BY <1>1, <2>1
  <2> QED BY <1>2, <2>1, <2>2 DEF GuardedTo
<1>6. Stopped(new, S)
  BY <1>2, <1>3 DEF Stopped, Vital, GuardedTo
<1>7. Confirming(u)
  <2> SUFFICES ASSUME NEW h \in 1 .. Len(u), u[h].do = "confirmLive"
               PROVE  h + 2 <= Len(u) /\ u[h + 1].do = "reassert" /\ Owns(u, h + 2, u[h].pair)
    BY DEF Confirming
  <2>1. CASE h \in 1 .. L
    BY <1>2, <2>1 DEF GuardedTo
  <2>2. CASE h - L \in 1 .. Len(b) /\ u[h] = b[h - L] /\ ~(h \in 1 .. L)
    <3>1. /\ (h - L) + 2 <= Len(b) /\ b[(h - L) + 1].do = "reassert"
          /\ Owns(b, (h - L) + 2, b[h - L].pair)
      BY <2>2 DEF Harmless, Confirming
    <3>2. /\ h + 1 \in 1 .. Len(u) /\ h + 2 \in 1 .. Len(u)
          /\ ~(h + 1 \in 1 .. L) /\ ~(h + 2 \in 1 .. L)
          /\ (h + 1) - L = (h - L) + 1 /\ (h + 2) - L = (h - L) + 2
      BY <1>1, <2>2, <3>1
    <3>3. u[h + 1] = b[(h - L) + 1] /\ u[h + 2] = b[(h - L) + 2]
      BY <1>1, <3>2
    <3>4. h + 2 <= Len(u)
      BY <1>1, <3>2
    <3> QED BY <2>2, <3>1, <3>3, <3>4 DEF Owns
  <2> QED BY <1>1, <2>1, <2>2
<1>8. Justifying(new)
  BY <1>2, <1>3 DEF Justifying, GuardedTo
<1> QED BY <1>2, <1>4, <1>5, <1>6, <1>7, <1>8 DEF Guard, GuardedTo

(* A program goes on with a call that relies on what is done before it.    *)
LEMMA ReadyOne ==
  ASSUME NEW job \in Jobs, NEW a \in Seq(Steps), NEW s \in Steps, NEW S, NEW R,
         Ready(job, a, S, R), Open(a), s.do \in Vital,
         \A q \in Pairs : Relies(job, s, q) =>
             \/ q \in S
             \/ q \in R /\ Before(a, "flush", Len(a) + 1)
             \/ job.by # None /\ HandsOver(a, Len(a) + 1, q)
             \/ Secures(a, Len(a) + 1, q),
         s.do = "keepMarker" =>
             job.entry.pair \in {None, job.entry.marker} \/ job.entry.pair \in S \/ Before(a, "stop", Len(a) + 1)
  PROVE  Ready(job, a \o <<s>>, S, R)
<1> DEFINE b == <<s>>
           u == a \o b
           new == [job EXCEPT !.todo = u]
           L == Len(a)
<1>b. b \in Seq(Steps) /\ Len(b) = 1 /\ b[1] = s
  OBVIOUS
<1> HIDE DEF b
<1>1. /\ u \in Seq(Steps) /\ Len(u) = L + Len(b) /\ L \in Nat /\ Len(b) \in Nat
      /\ \A i \in 1 .. L : i \in 1 .. Len(u) /\ u[i] = a[i]
      /\ \A i \in 1 .. Len(u) : i \in 1 .. L \/ (i - L \in 1 .. Len(b) /\ u[i] = b[i - L])
  <2>1. PICK S0 : S0 = Steps
    OBVIOUS
  <2>2. a \in Seq(S0) /\ b \in Seq(S0)
    BY <1>b, <2>1
  <2>3. /\ u \in Seq(S0) /\ Len(u) = L + Len(b) /\ L \in Nat /\ Len(b) \in Nat
        /\ \A i \in 1 .. L : i \in 1 .. Len(u) /\ u[i] = a[i]
        /\ \A i \in 1 .. Len(u) : \/ i \in 1 .. L /\ u[i] = a[i]
                                  \/ i - L \in 1 .. Len(b) /\ u[i] = b[i - L]
    BY ONLY <2>2, ConcatFacts
  <2> QED BY ONLY <2>1, <2>3
<1>2. new.todo = u /\ GuardedTo(new, L, S, R)
  <2>1. L <= Len(u) /\ new = [job EXCEPT !.todo = u]
    BY <1>1
  <2> HIDE DEF u, new
  <2> QED BY <1>1, <2>1, ReadyPrefix
<1>3. /\ new.entry = job.entry /\ new.kc = job.kc /\ new.by = job.by
      /\ \A q : Relies(new, s, q) => Relies(job, s, q)
  <2>1. new.entry = job.entry /\ new.kc = job.kc /\ new.by = job.by
    BY DEF Jobs
  <2> HIDE DEF new
  <2> QED BY <2>1 DEF Relies, OwnPair
<1>9. L + 1 \in 1 .. Len(a) + 1
  BY <1>1
<1>4. /\ \A d : Before(a, d, L + 1) => Before(u, d, L + 1)
      /\ \A q : HandsOver(a, L + 1, q) => HandsOver(u, L + 1, q)
      /\ \A q : Secures(a, L + 1, q) => Secures(u, L + 1, q)
  <2> HIDE DEF u
  <2> QED BY <1>1, <1>9, CoverPrefix
<1> SUFFICES Guard(new, S, R)
  BY DEF Ready, b
<1> HIDE DEF u, new
<1>5. \A i \in 1 .. Len(u) : i \in 1 .. L \/ (i = L + 1 /\ u[i] = s)
  <2> SUFFICES ASSUME NEW i \in 1 .. Len(u), ~(i \in 1 .. L) PROVE i = L + 1 /\ u[i] = s
    OBVIOUS
  <2>1. i - L \in 1 .. Len(b) /\ u[i] = b[i - L]
    BY <1>1
  <2>2. i - L = 1
    BY <1>b, <2>1
  <2> QED BY <1>b, <1>1, <2>1, <2>2
<1>6. Relied(new, S, R)
  <2> SUFFICES ASSUME NEW i \in 1 .. Len(u), NEW q \in Pairs, Relies(new, u[i], q)
               PROVE  Covered(new, S, R, i, q)
    BY <1>2 DEF Relied
  <2>1. CASE i \in 1 .. L
    BY <1>2, <2>1 DEF GuardedTo
  <2>2. CASE i = L + 1 /\ u[i] = s
    <3>1. Relies(job, s, q)
      BY <1>3, <2>2
    <3> QED BY <1>2, <1>3, <1>4, <2>2, <3>1 DEF Covered
  <2> QED BY <1>5, <2>1, <2>2
<1>7. Fenced(u)
  <2> SUFFICES ASSUME NEW h \in 1 .. Len(u), NEW i \in 1 .. Len(u), h < i, u[h].do \in Fence,
                      u[i].do \in Vital
               PROVE  FALSE
    BY DEF Fenced
  <2>1. h \in 1 .. L
    BY <1>1, <1>5
  <2> QED BY <1>1, <2>1 DEF Open
<1>8. Stopped(new, S)
  <2> SUFFICES ASSUME NEW h \in 1 .. Len(u), u[h].do = "keepMarker"
               PROVE  new.entry.pair \in {None, new.entry.marker} \/ new.entry.pair \in S \/ Before(u, "stop", h)
    BY <1>2 DEF Stopped
  <2>1. CASE h \in 1 .. L
    BY <1>2, <2>1 DEF GuardedTo
  <2>2. CASE h = L + 1 /\ u[h] = s
    BY <1>3, <1>4, <2>2
  <2> QED BY <1>5, <2>1, <2>2
<1>10. Confirming(u)
  BY <1>2, <1>5 DEF Confirming, Vital, GuardedTo
<1>11. Justifying(new)
  BY <1>2, <1>5 DEF Justifying, Vital, GuardedTo
<1> QED BY <1>2, <1>6, <1>7, <1>8, <1>10, <1>11 DEF Guard, GuardedTo

(* What waits behind a fence needs nothing.                                *)
LEMMA TailHarmless ==
  ASSUME NEW job \in Jobs, NEW S, NEW R, job.todo # <<>>, Guard(job, S, R),
         job.todo[1].do \in Fence
  PROVE  Tail(job.todo) \in Seq(Steps) /\ Harmless(Tail(job.todo))
<1> DEFINE t == job.todo
           b == Tail(t)
<1>0. job.todo \in Seq(Steps)
  BY DEF Jobs
<1>1. /\ Len(t) \in Nat \ {0} /\ b \in Seq(Steps) /\ Len(b) = Len(t) - 1
      /\ \A i \in 1 .. Len(b) : i + 1 \in 1 .. Len(t) /\ b[i] = t[i + 1]
  BY <1>0, TailFacts
<1> HIDE DEF b
<1>2. ASSUME NEW n \in 1 .. Len(b) PROVE b[n].do \notin Vital \cup {"justify", "justifyLive"}
  <2>1. n + 1 \in 1 .. Len(t) /\ 1 \in 1 .. Len(t) /\ 1 < n + 1 /\ n + 1 # 1
    BY <1>1
  <2> QED BY <1>1, <2>1 DEF Guard, Fenced, Justifying
<1>3. Confirming(b)
  <2> SUFFICES ASSUME NEW h \in 1 .. Len(b), b[h].do = "confirmLive"
               PROVE  h + 2 <= Len(b) /\ b[h + 1].do = "reassert" /\ Owns(b, h + 2, b[h].pair)
    BY DEF Confirming
  <2>1. h + 1 \in 1 .. Len(t) /\ b[h] = t[h + 1]
    BY <1>1
  <2>2. (h + 1) + 2 <= Len(t) /\ t[(h + 1) + 1].do = "reassert" /\ Owns(t, (h + 1) + 2, b[h].pair)
    <3>1. Confirming(t)
      BY DEF Guard
    <3> DEFINE i == h + 1
    <3>2. i \in 1 .. Len(t) /\ t[i] = b[h] /\ t[i].do = "confirmLive"
      BY <2>1
    <3> HIDE DEF i
    <3>3. i + 2 <= Len(t) /\ t[i + 1].do = "reassert" /\ Owns(t, i + 2, t[i].pair)
      BY <3>1, <3>2 DEF Confirming
    <3>4. i + 2 <= Len(t) /\ t[i + 1].do = "reassert" /\ Owns(t, i + 2, b[h].pair)
      BY <3>2, <3>3
    <3> QED BY <3>4 DEF i
  <2>3. h + 1 \in 1 .. Len(b) /\ h + 2 \in 1 .. Len(b) /\ h + 2 <= Len(b)
    <3>1. Len(b) = Len(t) - 1 /\ Len(t) \in Nat /\ (h + 1) + 2 <= Len(t) /\ h \in Nat /\ 1 <= h
      BY <1>1, <2>2
    <3> QED BY <3>1
  <2>4. b[h + 1] = t[(h + 1) + 1] /\ b[h + 2] = t[(h + 2) + 1]
    BY <1>1, <2>3
  <2>5. (h + 2) + 1 = (h + 1) + 2
    OBVIOUS
  <2> QED BY <2>2, <2>3, <2>4, <2>5 DEF Owns
<1> QED BY <1>1, <1>2, <1>3 DEF Harmless, b

(* A call that brings in what it needs is replaced by calls that do.       *)
LEMMA GuardRestarts ==
  ASSUME NEW job \in Jobs, NEW S, NEW R, NEW S2, NEW R2, NEW steps \in Seq(Steps),
         NEW new \in Jobs, job.todo # <<>>, Guard(job, S, R), job.todo[1].do \in Fence,
         Ready(new, steps, S2, R2), new.todo = steps \o Tail(job.todo)
  PROVE  Guard(new, S2, R2)
<1>1. Tail(job.todo) \in Seq(Steps) /\ Harmless(Tail(job.todo))
  BY TailHarmless
<1>2. Ready(new, steps \o Tail(job.todo), S2, R2)
  BY <1>1, ReadyAppend
<1>3. [new EXCEPT !.todo = steps \o Tail(job.todo)] = new
  BY DEF Jobs
<1> QED BY <1>2, <1>3 DEF Ready

(* The steps of a program about one pair.                                  *)
LEMMA ForAt ==
  ASSUME NEW ds \in Seq(Calls), NEW p
  PROVE  /\ Len(For(ds, p)) = Len(ds) /\ Len(ds) \in Nat
         /\ \A i \in 1 .. Len(ds) : For(ds, p)[i].do = ds[i] /\ For(ds, p)[i].pair = p
<1>1. DOMAIN ds = 1 .. Len(ds) /\ Len(ds) \in Nat
  OBVIOUS
<1>2. \A i \in 1 .. Len(ds) : For(ds, p)[i] = Step(ds[i], p)
  BY <1>1 DEF For
<1>3. Len(For(ds, p)) = Len(ds)
  BY <1>1 DEF For
<1>4. \A i : Step(ds[i], p).do = ds[i] /\ Step(ds[i], p).pair = p
  BY DEF Step
<1> QED BY <1>1, <1>2, <1>3, <1>4

(* A program that scans for the pair and hands it over.                    *)
Ends(a, q) == Secures(a, Len(a) + 1, q)

(* A longer program still does so.                                         *)
LEMMA EndsConcat ==
  ASSUME NEW a \in Seq(Steps), NEW b \in Seq(Steps), NEW q
  PROVE  /\ Ends(a, q) => Ends(a \o b, q)
         /\ Ends(b, q) => Ends(a \o b, q)
         /\ \A d : Before(a, d, Len(a) + 1) => Before(a \o b, d, Len(a \o b) + 1)
<1> DEFINE u == a \o b
           L == Len(a)
<1>1. /\ u \in Seq(Steps) /\ Len(u) = L + Len(b) /\ L \in Nat /\ Len(b) \in Nat
      /\ \A i \in 1 .. L : i \in 1 .. Len(u) /\ u[i] = a[i]
      /\ \A i \in 1 .. Len(u) : i \in 1 .. L \/ (i - L \in 1 .. Len(b) /\ u[i] = b[i - L])
  BY ConcatFacts
<1> HIDE DEF u
<1>2. L + 1 \in 1 .. Len(a) + 1 /\ \A j \in 1 .. (L + 1) - 1 : j \in 1 .. (Len(u) + 1) - 1
  BY <1>1
<1>3. /\ \A d : Before(a, d, L + 1) => Before(u, d, L + 1)
      /\ Secures(a, L + 1, q) => Secures(u, L + 1, q)
  BY <1>1, <1>2, CoverPrefix
<1>4. Ends(a, q) => Ends(u, q)
  <2> SUFFICES ASSUME Secures(u, L + 1, q) PROVE Secures(u, Len(u) + 1, q)
    BY <1>3 DEF Ends
  <2>1. PICK j \in 1 .. (L + 1) - 1 : \E n \in 1 .. j - 1 :
          Owns(u, j, q) /\ Searches(u, n, q) /\ Bare(u, n + 1, j - 1)
    BY DEF Secures
  <2> QED BY <1>2, <2>1 DEF Secures
<1>5. \A d : Before(a, d, L + 1) => Before(u, d, Len(u) + 1)
  BY <1>2, <1>3 DEF Before
<1>6. ASSUME NEW i \in 1 .. Len(b) PROVE i + L \in 1 .. Len(u) /\ u[i + L] = b[i]
  <2>1. i + L \in 1 .. Len(u) /\ ~(i + L \in 1 .. L) /\ (i + L) - L = i
    BY <1>1
  <2> QED BY <1>1, <2>1
<1>7. Ends(b, q) => Ends(u, q)
  <2> SUFFICES ASSUME Secures(b, Len(b) + 1, q) PROVE Secures(u, Len(u) + 1, q)
    BY DEF Ends
  <2>1. PICK j \in 1 .. (Len(b) + 1) - 1 : \E n \in 1 .. j - 1 :
          Owns(b, j, q) /\ Searches(b, n, q) /\ Bare(b, n + 1, j - 1)
    BY DEF Secures
  <2>2. PICK n \in 1 .. j - 1 : Owns(b, j, q) /\ Searches(b, n, q) /\ Bare(b, n + 1, j - 1)
    BY <2>1
  <2>3. j \in 1 .. Len(b) /\ n \in 1 .. Len(b)
    BY <1>1
  <2>4. Owns(u, j + L, q) /\ Searches(u, n + L, q)
    BY <1>6, <2>2, <2>3 DEF Owns, Searches
  <2>5. Bare(u, (n + L) + 1, (j + L) - 1)
    <3> SUFFICES ASSUME NEW i \in (n + L) + 1 .. (j + L) - 1 PROVE u[i].do \notin Scans \cup {"own"}
      BY DEF Bare
    <3>1. i - L \in 1 .. Len(b) /\ i - L \in n + 1 .. j - 1 /\ (i - L) + L = i
      BY <1>1, <2>3
    <3> QED BY <1>6, <2>2, <3>1 DEF Bare
  <2>6. j + L \in 1 .. (Len(u) + 1) - 1 /\ n + L \in 1 .. (j + L) - 1
    BY <1>1, <2>3
  <2> QED BY <2>4, <2>5, <2>6 DEF Secures
<1> QED BY <1>4, <1>5, <1>7 DEF u

(* Two programs of which nothing brings in what it needs itself.           *)
LEMMA OpenConcat ==
  ASSUME NEW a \in Seq(Steps), NEW b \in Seq(Steps), Open(a), Open(b)
  PROVE  Open(a \o b)
  BY ConcatFacts DEF Open

(* Programs are joined in any order of joining.                            *)
LEMMA Assoc ==
  ASSUME NEW S, NEW a \in Seq(S), NEW b \in Seq(S), NEW c \in Seq(S)
  PROVE  (a \o b) \o c = a \o (b \o c)
  OBVIOUS

(* Nothing runs yet, and programs that need nothing.                       *)
LEMMA ReadyHarmless ==
  ASSUME NEW job \in Jobs, NEW a \in Seq(Steps), NEW S, NEW R, Harmless(a),
         job.by # None => job.by # job.k
  PROVE  Ready(job, a, S, R)
<1> DEFINE new == [job EXCEPT !.todo = a]
<1>1. new.todo = a /\ new.by = job.by /\ new.k = job.k
  BY DEF Jobs
<1> HIDE DEF new
<1>2. Guard(new, S, R)
  BY <1>1, GuardPlain DEF Harmless, Justifying
<1> QED BY <1>2 DEF Ready, new

(* A single call that relies on nothing.                                   *)
LEMMA OnePlain ==
  ASSUME NEW s \in Steps, s.do \notin Vital \cup {"justify", "justifyLive", "confirmLive"}
  PROVE  <<s>> \in Seq(Steps) /\ Harmless(<<s>>) /\ (s.do \notin Fence => Open(<<s>>))
<1> DEFINE a == <<s>>
<1>1. a \in Seq(Steps) /\ Len(a) = 1 /\ a[1] = s
  OBVIOUS
<1> HIDE DEF a
<1>2. Harmless(a) /\ (s.do \notin Fence => Open(a))
  BY <1>1 DEF Harmless, Confirming, Open
<1> QED BY <1>1, <1>2 DEF a

(* The programs that remove a pair or hand it over.                        *)
Secured(a, q) == a \in Seq(Steps) /\ Open(a) /\ Harmless(a) /\ Ends(a, q)

(* The revokes of the code are of that kind.                               *)
LEMMA RevokesSecure ==
  ASSUME NEW p \in Pairs
  PROVE  /\ Secured(Drain(p), p)
         /\ Secured(RevokeConfirmed(p), p)
         /\ Secured(For(<<"scan", "own">>, p), p)
         /\ Secured(For(<<"scan", "recover", "own">>, p), p)
<1>1. ASSUME NEW ds \in Seq(Calls), Len(ds) \in 2 .. 4, ds[1] = "scan", ds[Len(ds)] = "own",
             \A i \in 2 .. Len(ds) - 1 : ds[i] \in {"settle", "confirmLive", "reassert", "recover"},
             \A i \in 1 .. Len(ds) : ds[i] = "confirmLive" =>
                i + 2 <= Len(ds) /\ ds[i + 1] = "reassert" /\ ds[i + 2] = "own"
      PROVE  Secured(For(ds, p), p)
  <2> DEFINE a == For(ds, p)
             L == Len(ds)
  <2>1. /\ a \in Seq(Steps) /\ Len(a) = L /\ L \in Nat
        /\ \A i \in 1 .. L : a[i].do = ds[i] /\ a[i].pair = p
    BY ForAt, ForType DEF PairOrNone
  <2> HIDE DEF a
  <2>2. \A i \in 1 .. L : ds[i] \in {"scan", "own", "settle", "confirmLive", "reassert", "recover"}
    <3> SUFFICES ASSUME NEW i \in 1 .. L
                 PROVE  i = 1 \/ i = L \/ i \in 2 .. L - 1
      BY <1>1
    <3> QED BY <2>1
  <2>3. Open(a)
    BY <2>1, <2>2 DEF Open, Fence
  <2>4. Confirming(a)
    <3> SUFFICES ASSUME NEW h \in 1 .. L, a[h].do = "confirmLive"
                 PROVE  h + 2 <= Len(a) /\ a[h + 1].do = "reassert" /\ Owns(a, h + 2, a[h].pair)
      BY <2>1 DEF Confirming
    <3>1. h + 2 <= L /\ ds[h + 1] = "reassert" /\ ds[h + 2] = "own"
      BY <1>1, <2>1
    <3>2. h + 1 \in 1 .. L /\ h + 2 \in 1 .. L
      BY <2>1, <3>1
    <3> QED BY <2>1, <3>1, <3>2 DEF Owns
  <2>5. Harmless(a)
    BY <2>1, <2>2, <2>4 DEF Harmless, Vital
  <2>6. Ends(a, p)
    <3>1. L \in 1 .. (L + 1) - 1 /\ 1 \in 1 .. L - 1 /\ 1 \in 1 .. L /\ L \in 1 .. L
      BY <1>1
    <3>2. Owns(a, L, p) /\ Searches(a, 1, p)
      BY <1>1, <2>1, <3>1 DEF Owns, Searches
    <3>3. Bare(a, 1 + 1, L - 1)
      <4>1. \A n \in 1 + 1 .. L - 1 : n \in 2 .. L - 1 /\ n \in 1 .. L
        BY <2>1
      <4> QED BY <1>1, <2>1, <4>1 DEF Bare, Scans
    <3> QED BY <2>1, <3>1, <3>2, <3>3 DEF Ends, Secures
  <2> QED BY <2>1, <2>3, <2>5, <2>6 DEF Secured, a
<1>2. {"scan", "own", "settle", "confirmLive", "reassert", "recover"} \subseteq Calls
  BY DEF Calls
<1>3. Secured(For(<<"scan", "settle", "own">>, p), p)
  <2> DEFINE ds == <<"scan", "settle", "own">>
  <2>1. ds \in Seq(Calls) /\ Len(ds) = 3 /\ ds[1] = "scan" /\ ds[2] = "settle" /\ ds[3] = "own"
    BY <1>2
  <2> HIDE DEF ds
  <2>2. \A i \in 2 .. Len(ds) - 1 : i = 2
    BY <2>1
  <2>3. \A i \in 1 .. Len(ds) : i = 1 \/ i = 2 \/ i = 3
    BY <2>1
  <2>4. Len(ds) \in 2 .. 4
    BY <2>1
  <2>5. Secured(For(ds, p), p)
    BY <1>1, <2>1, <2>2, <2>3, <2>4
  <2> QED BY <2>5 DEF ds
<1>4. Secured(For(<<"scan", "own">>, p), p)
  <2> DEFINE ds == <<"scan", "own">>
  <2>1. ds \in Seq(Calls) /\ Len(ds) = 2 /\ ds[1] = "scan" /\ ds[2] = "own"
    BY <1>2
  <2> HIDE DEF ds
  <2>2. \A i \in 2 .. Len(ds) - 1 : FALSE
    BY <2>1
  <2>3. \A i \in 1 .. Len(ds) : i = 1 \/ i = 2
    BY <2>1
  <2>4. Len(ds) \in 2 .. 4
    BY <2>1
  <2>5. Secured(For(ds, p), p)
    BY <1>1, <2>1, <2>2, <2>3, <2>4
  <2> QED BY <2>5 DEF ds
<1>5. Secured(For(<<"scan", "recover", "own">>, p), p)
  <2> DEFINE ds == <<"scan", "recover", "own">>
  <2>1. ds \in Seq(Calls) /\ Len(ds) = 3 /\ ds[1] = "scan" /\ ds[2] = "recover" /\ ds[3] = "own"
    BY <1>2
  <2> HIDE DEF ds
  <2>2. \A i \in 2 .. Len(ds) - 1 : i = 2
    BY <2>1
  <2>3. \A i \in 1 .. Len(ds) : i = 1 \/ i = 2 \/ i = 3
    BY <2>1
  <2>4. Len(ds) \in 2 .. 4
    BY <2>1
  <2>5. Secured(For(ds, p), p)
    BY <1>1, <2>1, <2>2, <2>3, <2>4
  <2> QED BY <2>5 DEF ds
<1>6. Secured(For(<<"scan", "confirmLive", "reassert", "own">>, p), p)
  <2> DEFINE ds == <<"scan", "confirmLive", "reassert", "own">>
  <2>1. /\ ds \in Seq(Calls) /\ Len(ds) = 4
        /\ ds[1] = "scan" /\ ds[2] = "confirmLive" /\ ds[3] = "reassert" /\ ds[4] = "own"
    BY <1>2
  <2> HIDE DEF ds
  <2>2. \A i \in 2 .. Len(ds) - 1 : i = 2 \/ i = 3
    BY <2>1
  <2>3. \A i \in 1 .. Len(ds) : i = 1 \/ i = 2 \/ i = 3 \/ i = 4
    BY <2>1
  <2>4. Len(ds) \in 2 .. 4
    BY <2>1
  <2>6. ASSUME NEW i \in 1 .. Len(ds), ds[i] = "confirmLive"
        PROVE  i + 2 <= Len(ds) /\ ds[i + 1] = "reassert" /\ ds[i + 2] = "own"
    <3>1. i = 2
      BY <2>1, <2>3, <2>6
    <3>2. i + 1 = 3 /\ i + 2 = 4
      BY <3>1
    <3> QED BY <2>1, <3>2
  <2>5. Secured(For(ds, p), p)
    BY <1>1, <2>1, <2>2, <2>3, <2>4, <2>6
  <2> QED BY <2>5 DEF ds
<1> QED BY <1>3, <1>4, <1>5, <1>6 DEF Drain, RevokeConfirmed

(* A program that a call may run next.                                     *)
Prepared(job, a, S, R) == a \in Seq(Steps) /\ Ready(job, a, S, R)

(* A program of which nothing brings in what it needs itself.              *)
Line(job, a, S, R) == a \in Seq(Steps) /\ Open(a) /\ Ready(job, a, S, R)

(* What a call needs is settled, or the program ends with doing it.        *)
Settles(job, a, s, S) ==
    /\ \A q \in Pairs : Relies(job, s, q) => q \in S \/ Ends(a, q)
    /\ s.do = "keepMarker" =>
         job.entry.pair \in {None, job.entry.marker} \/ job.entry.pair \in S \/ Before(a, "stop", Len(a) + 1)

(* A program that needs nothing is such a line,                            *)
LEMMA LineStart ==
  ASSUME NEW job \in Jobs, NEW a \in Seq(Steps), NEW S, NEW R, Harmless(a), Open(a),
         job.by # None => job.by # job.k
  PROVE  Line(job, a, S, R)
  BY ReadyHarmless DEF Line

(* the empty one too;                                                      *)
LEMMA LineEmpty ==
  ASSUME NEW job \in Jobs, NEW S, NEW R, job.by # None => job.by # job.k
  PROVE  Line(job, <<>>, S, R) /\ Harmless(<<>>)
<1>1. <<>> \in Seq(Steps) /\ Harmless(<<>>) /\ Open(<<>>)
  BY DEF Harmless, Confirming, Open
<1> QED BY <1>1, LineStart

(* a revoke may follow,                                                    *)
LEMMA LineSecured ==
  ASSUME NEW job \in Jobs, NEW a, NEW S, NEW R, Line(job, a, S, R), NEW b, NEW q, Secured(b, q)
  PROVE  Line(job, a \o b, S, R) /\ Ends(a \o b, q)
<1>1. a \in Seq(Steps) /\ b \in Seq(Steps) /\ a \o b \in Seq(Steps)
  BY ConcatFacts DEF Line, Secured
<1> QED BY <1>1, ReadyAppend, OpenConcat, EndsConcat DEF Line, Secured

(* then a call that relies on what was settled, as the last one,           *)
LEMMA LineEnd ==
  ASSUME NEW job \in Jobs, NEW a, NEW S, NEW R, Line(job, a, S, R),
         NEW s \in Steps, s.do \in Vital, Settles(job, a, s, S)
  PROVE  Prepared(job, a \o <<s>>, S, R)
<1>1. a \o <<s>> \in Seq(Steps)
  BY DEF Line
<1> QED BY <1>1, ReadyOne DEF Line, Settles, Ends, Prepared

(* or the stop that a failure behind the pair's own revoke meets.          *)
LEMMA LineCall ==
  ASSUME NEW job \in Jobs, NEW a, NEW S, NEW R, Line(job, a, S, R),
         NEW s \in Steps, s.do \in {"stop", "keepMarker"}, Settles(job, a, s, S)
  PROVE  /\ Line(job, a \o <<s>>, S, R)
         /\ s.do = "stop" => Before(a \o <<s>>, "stop", Len(a \o <<s>>) + 1)
<1> DEFINE b == <<s>>
<1>1. Len(b) = 1 /\ b[1] = s
  OBVIOUS
<1>0. a \in Seq(Steps) /\ b \in Seq(Steps)
  BY DEF Line
<1>2. Ready(job, a \o b, S, R)
  BY LineEnd DEF Vital, Prepared
<1> HIDE DEF b
<1>3. Open(b)
  BY <1>1 DEF Open, Fence
<1>4. a \o b \in Seq(Steps) /\ Open(a \o b)
  BY <1>0, <1>3, ConcatFacts, OpenConcat DEF Line
<1>5. ASSUME s.do = "stop" PROVE Before(a \o b, "stop", Len(a \o b) + 1)
  <2> DEFINE u == a \o b
             n == Len(a) + 1
  <2>1. /\ Len(u) = Len(a) + Len(b) /\ Len(a) \in Nat
        /\ \A i \in 1 .. Len(u) : i \in 1 .. Len(a) \/ (i - Len(a) \in 1 .. Len(b) /\ u[i] = b[i - Len(a)])
    BY <1>0, ConcatFacts
  <2>2. n \in 1 .. Len(u) /\ n - Len(a) = 1 /\ ~(n \in 1 .. Len(a)) /\ n \in 1 .. (Len(u) + 1) - 1
    <3>1. Len(u) = n /\ Len(a) \in Nat
      BY <1>1, <2>1
    <3> HIDE DEF u
    <3> QED BY <3>1
  <2>3. u[n] = s
    BY <1>1, <2>1, <2>2
  <2> HIDE DEF u, n
  <2>4. Before(u, "stop", Len(u) + 1)
    BY <1>5, <2>2, <2>3 DEF Before
  <2> QED BY <2>4 DEF u
<1> QED BY <1>2, <1>4, <1>5 DEF Line, b

(* The programs of one call.                                               *)
LEMMA OnlyIs ==
  /\ \A d : Only(d) = <<Step(d, None)>> /\ Step(d, None).do = d /\ Step(d, None).pair = None
  /\ \A d \in Calls : Step(d, None) \in Steps
  /\ \A d, p : For(<<d>>, p) = <<Step(d, p)>> /\ Step(d, p).do = d /\ Step(d, p).pair = p
  /\ \A d \in Calls, p \in Pairs : Step(d, p) \in Steps
<1>1. \A d, p : For(<<d>>, p) = <<Step(d, p)>>
  BY DEF For
<1> QED BY <1>1 DEF Only, Step, Steps

(* The revoke of a superseded pair.                                        *)
LEMMA ReadyRevoke ==
  ASSUME NEW job \in Jobs, NEW S, NEW R, job.by # None => job.by # job.k, NEW m \in Pairs
  PROVE  Prepared(job, RevokeSuperseded(m), S, R)
<1> DEFINE s == Step("clearMarker", m)
<1>1. s \in Steps /\ s.do = "clearMarker" /\ s.pair = m /\ RevokeSuperseded(m) = Drain(m) \o <<s>>
  BY OnlyIs DEF RevokeSuperseded, Calls
<1> HIDE DEF s
<1>2. Secured(Drain(m), m)
  BY RevokesSecure
<1>3. Line(job, Drain(m), S, R)
  BY <1>2, LineStart DEF Secured
<1>4. Settles(job, Drain(m), s, S)
  BY <1>1, <1>2 DEF Settles, Relies, Secured
<1> QED BY <1>1, <1>3, <1>4, LineEnd DEF Vital

(* A full slot is drained before the write that needs it.                  *)
LEMMA ReadyWrite ==
  ASSUME NEW job \in Jobs, NEW S, NEW R, job.by # None => job.by # job.k,
         job.entry.marker \in Pairs, NEW p \in Pairs
  PROVE  Prepared(job, Drain(job.entry.marker) \o For(<<"write">>, p), S, R)
<1> DEFINE s == Step("write", p)
           m == job.entry.marker
<1>1. s \in Steps /\ s.do = "write" /\ For(<<"write">>, p) = <<s>>
  BY OnlyIs DEF Calls
<1> HIDE DEF s
<1>2. Secured(Drain(m), m)
  BY RevokesSecure
<1>3. Line(job, Drain(m), S, R)
  BY <1>2, LineStart DEF Secured
<1>4. Settles(job, Drain(m), s, S)
  BY <1>1, <1>2 DEF Settles, Relies, Secured
<1> QED BY <1>1, <1>3, <1>4, LineEnd DEF Vital

(* The pair goes to the sibling that justifies it.                         *)
LEMMA ReadyHandover ==
  ASSUME NEW job \in Jobs, NEW S, NEW R, job.by # None, job.by # job.k, job.entry.pair \in Pairs
  PROVE  Prepared(job, For(<<"own">>, job.entry.pair) \o Only("clear"), S, R)
<1> DEFINE p == job.entry.pair
           o == Step("own", p)
           c == Step("clear", None)
           a == <<o>>
<1>1. /\ o \in Steps /\ o.do = "own" /\ o.pair = p /\ For(<<"own">>, p) = a
      /\ c \in Steps /\ c.do = "clear" /\ Only("clear") = <<c>>
  BY OnlyIs DEF Calls
<1>2. a \in Seq(Steps) /\ Len(a) = 1 /\ a[1] = o
  BY <1>1
<1> HIDE DEF a, o, c
<1>3. Harmless(a) /\ Open(a)
  BY <1>1, <1>2 DEF Harmless, Confirming, Open, Vital, Fence
<1>4. HandsOver(a, Len(a) + 1, p)
  <2>1. Owns(a, 1, p) /\ Bare(a, 1, 1 - 1) /\ 1 \in 1 .. (Len(a) + 1) - 1
    BY <1>1, <1>2 DEF Owns, Bare
  <2> QED BY <2>1 DEF HandsOver
<1>5. Ready(job, a, S, R)
  BY <1>2, <1>3, ReadyHarmless
<1>6. \A q \in Pairs : Relies(job, c, q) => q = p
  BY <1>1 DEF Relies
<1>7. Ready(job, a \o <<c>>, S, R)
  BY <1>1, <1>2, <1>3, <1>4, <1>5, <1>6, ReadyOne DEF Vital
<1>8. a \o <<c>> \in Seq(Steps)
  BY <1>1, <1>2
<1> QED BY <1>1, <1>7, <1>8 DEF Prepared

(* The claimed pair is removed, and that confirmed, before the compare.    *)
LEMMA ReadyCompare ==
  ASSUME NEW job \in Jobs, NEW S, NEW R, job.by # None => job.by # job.k,
         job.entry.pair \in Pairs, job.entry.pair \in R
  PROVE  Prepared(job, Only("flush") \o For(<<"regranted", "compare">>, job.entry.pair), S, R)
<1> DEFINE p == job.entry.pair
           f == Step("flush", None)
           g == Step("regranted", p)
           c == Step("compare", p)
           a == <<f, g>>
<1>1. /\ f \in Steps /\ f.do = "flush" /\ g \in Steps /\ g.do = "regranted"
      /\ c \in Steps /\ c.do = "compare" /\ Only("flush") = <<f>>
  BY OnlyIs DEF Calls
<1>2. For(<<"regranted", "compare">>, p) = <<g, c>>
  BY DEF For
<1>3. <<f>> \o <<g, c>> = a \o <<c>>
  OBVIOUS
<1>4. a \in Seq(Steps) /\ Len(a) = 2 /\ a[1] = f /\ a[2] = g
  BY <1>1
<1> HIDE DEF a, f, g, c
<1>5. Harmless(a) /\ Open(a)
  <2>1. \A n \in 1 .. Len(a) : n = 1 \/ n = 2
    BY <1>4
  <2> QED BY <1>1, <1>4, <2>1 DEF Harmless, Confirming, Open, Vital, Fence
<1>6. Before(a, "flush", Len(a) + 1)
  <2>1. 1 \in 1 .. (Len(a) + 1) - 1
    BY <1>4
  <2> QED BY <1>1, <1>4, <2>1 DEF Before
<1>7. Ready(job, a, S, R)
  BY <1>4, <1>5, ReadyHarmless
<1>8. \A q \in Pairs : Relies(job, c, q) => q = p
  BY <1>1 DEF Relies
<1>9. Ready(job, a \o <<c>>, S, R)
  BY <1>1, <1>4, <1>5, <1>6, <1>7, <1>8, ReadyOne DEF Vital
<1>10. a \o <<c>> \in Seq(Steps)
  BY <1>1, <1>4
<1> QED BY <1>1, <1>2, <1>3, <1>9, <1>10 DEF Prepared

(* Plain calls follow a prepared program.                                  *)
LEMMA PreparedThen ==
  ASSUME NEW job \in Jobs, NEW a, NEW b \in Seq(Steps), NEW S, NEW R,
         Prepared(job, a, S, R), Harmless(b)
  PROVE  Prepared(job, a \o b, S, R)
<1>1. a \o b \in Seq(Steps)
  BY ConcatFacts DEF Prepared
<1> QED BY <1>1, ReadyAppend DEF Prepared

(* A program that needs nothing is prepared.                               *)
LEMMA PreparedHarmless ==
  ASSUME NEW job \in Jobs, NEW a \in Seq(Steps), NEW S, NEW R, Harmless(a),
         job.by # None => job.by # job.k
  PROVE  Prepared(job, a, S, R)
  BY ReadyHarmless DEF Prepared

(* A revoke of the pair in front of the marker's, and of the marker alone. *)
LEMMA ReadyWithdraw ==
  ASSUME NEW job \in Jobs, NEW S, NEW R, job.by # None => job.by # job.k, NEW e, e = job.entry
  PROVE  Prepared(job, IF e.pair = None
                       THEN WhenSet(e.marker, RevokeConfirmed(e.marker) \o Only("erase"))
                       ELSE RevokeConfirmed(e.pair) \o Only("stop")
                            \o WhenSet(e.marker, RevokeConfirmed(e.marker) \o Only("keepMarker"))
                            \o Only("erase"), S, R)
<1> DEFINE E == Step("erase", None)
           T == Step("stop", None)
           K == Step("keepMarker", None)
<1>1. /\ Only("erase") = <<E>> /\ E \in Steps /\ E.do = "erase"
      /\ Only("stop") = <<T>> /\ T \in Steps /\ T.do = "stop"
      /\ Only("keepMarker") = <<K>> /\ K \in Steps /\ K.do = "keepMarker"
  BY OnlyIs DEF Calls
<1> HIDE DEF E, T, K
<1>2. e.pair \in PairOrNone /\ e.marker \in PairOrNone
  BY DEF Jobs, Entries, PairOrNone
<1>3. \A q \in Pairs : q # None
  BY GrantAssumption
<1>4. ASSUME e.pair = None, e.marker = None
      PROVE  Prepared(job, WhenSet(e.marker, RevokeConfirmed(e.marker) \o Only("erase")), S, R)
  BY <1>4, LineEmpty DEF WhenSet, Line, Prepared
<1>5. ASSUME e.pair = None, e.marker # None
      PROVE  Prepared(job, WhenSet(e.marker, RevokeConfirmed(e.marker) \o Only("erase")), S, R)
  <2>1. Secured(RevokeConfirmed(e.marker), e.marker)
    BY <1>2, <1>5, RevokesSecure DEF PairOrNone
  <2>2. Line(job, RevokeConfirmed(e.marker), S, R)
    BY <2>1, LineStart DEF Secured
  <2>3. Settles(job, RevokeConfirmed(e.marker), E, S)
    BY <1>1, <1>3, <1>5, <2>1 DEF Settles, Relies, Secured
  <2> QED BY <1>1, <1>5, <2>2, <2>3, LineEnd DEF WhenSet, Vital
<1>6. ASSUME e.pair # None
      PROVE  Prepared(job, RevokeConfirmed(e.pair) \o Only("stop")
                            \o WhenSet(e.marker, RevokeConfirmed(e.marker) \o Only("keepMarker"))
                            \o Only("erase"), S, R)
  <2> DEFINE p == e.pair
             a == RevokeConfirmed(p)
             b == a \o <<T>>
  <2>1. Secured(a, p)
    BY <1>2, <1>6, RevokesSecure DEF PairOrNone
  <2>2. Line(job, a, S, R) /\ Ends(a, p)
    BY <2>1, LineStart DEF Secured
  <2>3. Settles(job, a, T, S)
    BY <1>1, <2>2 DEF Settles, Relies
  <2>4. Line(job, b, S, R) /\ Before(b, "stop", Len(b) + 1)
    BY <1>1, <2>2, <2>3, LineCall
  <2>5. Ends(b, p)
    <3>1. a \in Seq(Steps) /\ <<T>> \in Seq(Steps)
      BY <1>1, <2>2 DEF Line
    <3> QED BY <2>2, <3>1, EndsConcat
  <2> HIDE DEF a, b
  <2>6. CASE e.marker = None
    <3>1. Settles(job, b, E, S)
      BY <1>1, <1>3, <2>5, <2>6 DEF Settles, Relies
    <3>2. Prepared(job, b \o <<E>>, S, R)
      BY <1>1, <2>4, <3>1, LineEnd DEF Vital
    <3>3. b \o <<>> = b
      BY <2>4 DEF Line
    <3> QED BY <1>1, <2>6, <3>2, <3>3 DEF WhenSet, a, b
  <2>7. CASE e.marker # None
    <3> DEFINE m == e.marker
               c == RevokeConfirmed(m)
               d == b \o c
    <3>1. Secured(c, m)
      BY <1>2, <2>7, RevokesSecure DEF PairOrNone
    <3>2. Line(job, d, S, R) /\ Ends(d, m)
      BY <2>4, <3>1, LineSecured
    <3>3. Ends(d, p) /\ Before(d, "stop", Len(d) + 1)
      BY <2>4, <2>5, <3>1, EndsConcat DEF Line, Secured
    <3> HIDE DEF c, d
    <3>4. Settles(job, d, K, S)
      BY <1>1, <3>3 DEF Settles, Relies
    <3>5. Line(job, d \o <<K>>, S, R)
      BY <1>1, <3>2, <3>4, LineCall
    <3>6. Ends(d \o <<K>>, p) /\ Ends(d \o <<K>>, m)
      <4>1. d \in Seq(Steps) /\ <<K>> \in Seq(Steps)
        BY <1>1, <3>2 DEF Line
      <4> QED BY <3>2, <3>3, <4>1, EndsConcat
    <3>7. Settles(job, d \o <<K>>, E, S)
      BY <1>1, <3>6 DEF Settles, Relies
    <3>8. Prepared(job, (d \o <<K>>) \o <<E>>, S, R)
      BY <1>1, <3>5, <3>7, LineEnd DEF Vital
    <3>9. d \o <<K>> = b \o (c \o <<K>>)
      <4>1. b \in Seq(Steps) /\ c \in Seq(Steps) /\ <<K>> \in Seq(Steps)
        BY <1>1, <2>4, <3>1 DEF Line, Secured
      <4> QED BY <4>1, Assoc DEF d
    <3> QED BY <1>1, <2>7, <3>8, <3>9 DEF WhenSet, a, b, c
  <2> QED BY <2>6, <2>7
<1> QED BY <1>4, <1>5, <1>6

(* A pair of another address is handed over before the record goes.        *)
LEMMA ReadySettle ==
  ASSUME NEW job \in Jobs, NEW S, NEW R, job.by # None => job.by # job.k, NEW e, e = job.entry
  PROVE  Prepared(job, (IF e.pair \in {None, OwnPair(job)} THEN <<>>
                        ELSE For(<<"scan", "own">>, e.pair)) \o Only("delete"), S, R)
<1> DEFINE D == Step("delete", None)
<1>1. Only("delete") = <<D>> /\ D \in Steps /\ D.do = "delete"
  BY OnlyIs DEF Calls
<1> HIDE DEF D
<1>2. e.pair \in PairOrNone /\ \A q \in Pairs : q # None
  BY GrantAssumption DEF Jobs, Entries, PairOrNone
<1>3. CASE e.pair \in {None, OwnPair(job)}
  <2>1. Line(job, <<>>, S, R)
    BY LineEmpty
  <2>2. Settles(job, <<>>, D, S)
    BY <1>1, <1>2, <1>3 DEF Settles, Relies
  <2>3. Prepared(job, <<>> \o <<D>>, S, R)
    BY <1>1, <2>1, <2>2, LineEnd DEF Vital
  <2> QED BY <1>1, <1>3, <2>3
<1>4. CASE e.pair \notin {None, OwnPair(job)}
  <2> DEFINE a == For(<<"scan", "own">>, e.pair)
  <2>1. Secured(a, e.pair)
    BY <1>2, <1>4, RevokesSecure DEF PairOrNone
  <2> HIDE DEF a
  <2>2. Line(job, a, S, R)
    BY <2>1, LineStart DEF Secured
  <2>3. Settles(job, a, D, S)
    BY <1>1, <2>1 DEF Settles, Relies, Secured
  <2>4. Prepared(job, a \o <<D>>, S, R)
    BY <1>1, <2>2, <2>3, LineEnd DEF Vital
  <2> QED BY <1>1, <1>4, <2>4 DEF a
<1> QED BY <1>3, <1>4

(* The delete: the record's own pair, the marker, and the entry.           *)
LEMMA ReadyDelete ==
  ASSUME NEW job \in Jobs, NEW S, NEW R, job.by # None => job.by # job.k, NEW e, e = job.entry,
         NEW p, p = OwnPair(job), e.pair \in Pairs /\ e.pair # p => e.pair \in S
  PROVE  Prepared(job, WhenSet(p, For(<<"scan", "recover", "own", "stop">>, p))
                       \o WhenSet(e.marker, Drain(e.marker) \o Only("keepMarker"))
                       \o Only("erase"), S, R)
<1> DEFINE E == Step("erase", None)
           T == Step("stop", p)
           K == Step("keepMarker", None)
           a == WhenSet(p, For(<<"scan", "recover", "own", "stop">>, p))
<1>1. /\ Only("erase") = <<E>> /\ E \in Steps /\ E.do = "erase"
      /\ T.do = "stop" /\ (p \in Pairs => T \in Steps)
      /\ Only("keepMarker") = <<K>> /\ K \in Steps /\ K.do = "keepMarker"
  BY OnlyIs DEF Calls, Step
<1> HIDE DEF E, K
<1>2. /\ e.pair \in PairOrNone /\ e.marker \in PairOrNone /\ p \in PairOrNone
      /\ p = None => e.pair = None
  BY DEF Jobs, Entries, Records, Gone, PairOrNone, OwnPair
<1>3. \A q \in Pairs : q # None
  BY GrantAssumption
<1>4. /\ Line(job, a, S, R)
      /\ e.pair \in Pairs => e.pair \in S \/ Ends(a, e.pair)
      /\ e.pair = None \/ e.pair \in S \/ Before(a, "stop", Len(a) + 1)
  <2>1. CASE p = None
    <3>1. a = <<>> /\ e.pair = None
      BY <1>2, <2>1 DEF WhenSet
    <3> QED BY <1>3, <3>1, LineEmpty
  <2>2. CASE p # None
    <3> DEFINE b == For(<<"scan", "recover", "own">>, p)
    <3>1. a = b \o <<T>>
      <4>1. a = For(<<"scan", "recover", "own", "stop">>, p)
        BY <2>2 DEF WhenSet
      <4>2. For(<<"scan", "recover", "own", "stop">>, p) = b \o <<T>>
        BY DEF For
      <4> QED BY <4>1, <4>2
    <3>2. p \in Pairs
      BY <1>2, <2>2 DEF PairOrNone
    <3>3. Secured(b, p)
      BY <3>2, RevokesSecure
    <3> HIDE DEF a, b, T
    <3>4. Line(job, b, S, R) /\ Ends(b, p) /\ b \in Seq(Steps)
      BY <3>3, LineStart DEF Secured
    <3>5. Settles(job, b, T, S)
      BY <1>1, <3>4 DEF Settles, Relies
    <3>6. Line(job, b \o <<T>>, S, R) /\ Before(b \o <<T>>, "stop", Len(b \o <<T>>) + 1)
      BY <1>1, <3>2, <3>4, <3>5, LineCall
    <3>7. Ends(b \o <<T>>, p)
      <4>1. <<T>> \in Seq(Steps)
        BY <1>1, <3>2
      <4> QED BY <3>4, <4>1, EndsConcat
    <3> QED BY <3>1, <3>6, <3>7
  <2> QED BY <2>1, <2>2
<1> HIDE DEF a, T
<1>5. a \in Seq(Steps)
  BY <1>4 DEF Line
<1>6. CASE e.marker = None
  <2>1. Settles(job, a, E, S)
    BY <1>1, <1>3, <1>4, <1>6 DEF Settles, Relies
  <2>2. Prepared(job, a \o <<E>>, S, R)
    BY <1>1, <1>4, <2>1, LineEnd DEF Vital
  <2>3. a \o <<>> = a
    BY <1>5
  <2> QED BY <1>1, <1>6, <2>2, <2>3 DEF WhenSet, a
<1>7. CASE e.marker # None
  <2> DEFINE m == e.marker
             c == Drain(m)
             d == a \o c
  <2>1. Secured(c, m)
    BY <1>2, <1>7, RevokesSecure DEF PairOrNone
  <2>2. Line(job, d, S, R) /\ Ends(d, m)
    BY <1>4, <2>1, LineSecured
  <2>3. /\ e.pair \in Pairs => e.pair \in S \/ Ends(d, e.pair)
        /\ e.pair = None \/ e.pair \in S \/ Before(d, "stop", Len(d) + 1)
    BY <1>4, <1>5, <2>1, EndsConcat DEF Secured
  <2> HIDE DEF c, d
  <2>4. Settles(job, d, K, S)
    BY <1>1, <2>3 DEF Settles, Relies
  <2>5. Line(job, d \o <<K>>, S, R)
    BY <1>1, <2>2, <2>4, LineCall
  <2>6. d \in Seq(Steps) /\ <<K>> \in Seq(Steps)
    BY <1>1, <2>2 DEF Line
  <2>7. /\ e.pair \in Pairs => e.pair \in S \/ Ends(d \o <<K>>, e.pair)
        /\ Ends(d \o <<K>>, m)
    BY <2>2, <2>3, <2>6, EndsConcat
  <2>8. Settles(job, d \o <<K>>, E, S)
    BY <1>1, <2>7 DEF Settles, Relies
  <2>9. Prepared(job, (d \o <<K>>) \o <<E>>, S, R)
    BY <1>1, <2>5, <2>8, LineEnd DEF Vital
  <2>10. d \o <<K>> = a \o (c \o <<K>>)
    <3>1. c \in Seq(Steps)
      BY <2>1 DEF Secured
    <3> QED BY <1>5, <2>6, <3>1, Assoc DEF d
  <2> QED BY <1>1, <1>7, <2>9, <2>10 DEF WhenSet, a, c
<1> QED BY <1>6, <1>7

(* Two calls with the same program, record, entry and sibling are guarded  *)
(* alike.                                                                  *)
LEMMA GuardOf ==
  ASSUME NEW job \in Jobs, NEW a, NEW S, NEW R, Prepared(job, a, S, R), NEW new,
         new.todo = a, new.entry = job.entry, new.k = job.k, new.kc = job.kc, new.by = job.by
  PROVE  Guard(new, S, R)
<1> DEFINE old == [job EXCEPT !.todo = a]
<1>1. /\ old.todo = a /\ old.entry = new.entry /\ old.by = new.by
      /\ old.k = new.k /\ old.kc = new.kc
  BY DEF Jobs
<1>2. Guard(old, S, R)
  BY DEF Prepared, Ready
<1> HIDE DEF old
<1>3. \A s, q : Relies(new, s, q) => Relies(old, s, q)
  BY <1>1 DEF Relies, OwnPair
<1>4. \A i, q : Covered(old, S, R, i, q) => Covered(new, S, R, i, q)
  BY <1>1 DEF Covered
<1>5. Relied(new, S, R)
  BY <1>1, <1>2, <1>3, <1>4 DEF Guard, Relied
<1> QED BY <1>1, <1>2, <1>5 DEF Guard, Stopped, Justifying

(* No handler lies between a failure and the one it goes to.               *)
LEMMA FirstHandlerLeast ==
  ASSUME NEW todo \in Seq(Steps), FirstHandler(todo) # 0
  PROVE  \A n \in 2 .. FirstHandler(todo) - 1 : todo[n].do \notin Handlers
<1> DEFINE T == {i \in 2 .. Len(todo) : todo[i].do \in Handlers}
<1>1. T # {} /\ FirstHandler(todo) = CHOOSE i \in T : \A j \in T : i <= j
  BY DEF FirstHandler
<1>2. T \in SUBSET Nat
  OBVIOUS
<1>3. \E i \in T : \A j \in T : i <= j
  BY <1>1, <1>2, LeastOf
<1>4. FirstHandler(todo) \in T /\ \A j \in T : FirstHandler(todo) <= j
  BY <1>1, <1>3
<1> SUFFICES ASSUME NEW n \in 2 .. FirstHandler(todo) - 1, todo[n].do \in Handlers PROVE FALSE
  OBVIOUS
<1> DEFINE f == FirstHandler(todo)
<1>5. f \in 2 .. Len(todo) /\ Len(todo) \in Nat
  BY <1>4
<1>6. n \in 2 .. Len(todo) /\ ~(f <= n)
  BY <1>5
<1> QED BY <1>4, <1>6

(* The end of a program behind a fence needs nothing.                      *)
LEMMA EndHarmless ==
  ASSUME NEW job \in Jobs, NEW S, NEW R, Guard(job, S, R),
         NEW h \in 2 .. Len(job.todo), job.todo[h].do \in Fence
  PROVE  /\ SubSeq(job.todo, h + 1, Len(job.todo)) \in Seq(Steps)
         /\ Harmless(SubSeq(job.todo, h + 1, Len(job.todo)))
<1> DEFINE t == job.todo
           b == SubSeq(t, h + 1, Len(t))
<1>0. t \in Seq(Steps)
  BY DEF Jobs
<1>1. /\ Len(t) \in Nat /\ b \in Seq(Steps) /\ Len(b) = Len(t) - h
      /\ \A i \in 1 .. Len(b) : i + h \in 1 .. Len(t) /\ b[i] = t[i + h]
  BY <1>0
<1> HIDE DEF b
<1>2. ASSUME NEW n \in 1 .. Len(b) PROVE b[n].do \notin Vital \cup {"justify", "justifyLive"}
  <2>1. n + h \in 1 .. Len(t) /\ h \in 1 .. Len(t) /\ h < n + h /\ n + h # 1
    BY <1>1
  <2> QED BY <1>1, <2>1 DEF Guard, Fenced, Justifying
<1>3. Confirming(b)
  <2> SUFFICES ASSUME NEW i \in 1 .. Len(b), b[i].do = "confirmLive"
               PROVE  i + 2 <= Len(b) /\ b[i + 1].do = "reassert" /\ Owns(b, i + 2, b[i].pair)
    BY DEF Confirming
  <2> DEFINE n == i + h
  <2>1. n \in 1 .. Len(t) /\ t[n] = b[i] /\ t[n].do = "confirmLive"
    BY <1>1
  <2> HIDE DEF n
  <2>2. n + 2 <= Len(t) /\ t[n + 1].do = "reassert" /\ Owns(t, n + 2, t[n].pair)
    BY <2>1 DEF Guard, Confirming
  <2>3. i + 1 \in 1 .. Len(b) /\ i + 2 \in 1 .. Len(b) /\ i + 2 <= Len(b)
    <3>1. n + 2 <= Len(t) /\ n = i + h /\ Len(b) = Len(t) - h /\ Len(t) \in Nat /\ i \in Nat
      BY <1>1, <2>2 DEF n
    <3> QED BY <3>1
  <2>4. b[i + 1] = t[n + 1] /\ b[i + 2] = t[n + 2]
    <3>1. (i + 1) + h = n + 1 /\ (i + 2) + h = n + 2
      BY DEF n
    <3> QED BY <1>1, <2>3, <3>1
  <2> QED BY <2>1, <2>2, <2>3, <2>4 DEF Owns
<1> QED BY <1>1, <1>2, <1>3 DEF Harmless, b

(* What a handler leaves to do is guarded.                                 *)
LEMMA GuardHandled ==
  ASSUME NEW job \in Jobs, Sound(job), NEW S, NEW R0, job.todo # <<>>, Guard(job, S, R0),
         job.todo[1].do # "stop", NEW R
  PROVE  Prepared(job, Handled(job), S, R)
<1> DEFINE t == job.todo
           h == FirstHandler(t)
           e == job.entry
<1>0. t \in Seq(Steps) /\ t \in Seq(NamedSteps) /\ (job.by # None => job.by # job.k)
  BY DEF Jobs, Sound, Guard
<1>1. Prepared(job, <<>>, S, R)
  BY <1>0, LineEmpty DEF Line, Prepared
<1>2. CASE h = 0
  <2>1. Handled(job) = <<>>
    BY <1>2 DEF Handled
  <2> QED BY <1>1, <2>1
<1>3. CASE h # 0
  <2>1. h \in 2 .. Len(t) /\ t[h].do \in Handlers /\ t[h] \in NamedSteps
    BY <1>0, <1>3, FirstHandlerIs
  <2>2. CASE t[h].do = "catch"
    <3>1. Handled(job) = SubSeq(t, h + 1, Len(t))
      BY <1>3, <2>2 DEF Handled
    <3>2. Handled(job) \in Seq(Steps) /\ Harmless(Handled(job))
      BY <2>1, <2>2, <3>1, EndHarmless DEF Fence
    <3> QED BY <1>0, <3>2, PreparedHarmless
  <2>3. CASE t[h].do = "stop"
    <3>1. Handled(job) = <<>>
      BY <1>3, <2>3 DEF Handled
    <3> QED BY <1>1, <3>1
  <2>4. CASE t[h].do = "keepMarker"
    <3> DEFINE c == Step("clear", None)
    <3>1. Handled(job) = <<c>> /\ c \in Steps /\ c.do = "clear"
      <4>1. Handled(job) = Only("clear")
        BY <1>3, <2>4 DEF Handled
      <4> QED BY <4>1, OnlyIs DEF Calls
    <3> HIDE DEF c
    <3>2. e.pair \in {None, e.marker} \/ e.pair \in S
      <4>1. SUFFICES ASSUME Before(t, "stop", h) PROVE FALSE
        BY <2>1, <2>4 DEF Guard, Stopped
      <4>2. PICK n \in 1 .. h - 1 : t[n].do = "stop"
        BY <4>1 DEF Before
      <4>3. n = 1 \/ n \in 2 .. h - 1
        BY <2>1
      <4> QED BY <1>0, <1>3, <4>2, <4>3, FirstHandlerLeast DEF Handlers
    <3>3. Line(job, <<>>, S, R)
      BY <1>0, LineEmpty
    <3>4. Settles(job, <<>>, c, S)
      <4>1. \A q \in Pairs : q # None
        BY GrantAssumption
      <4> QED BY <3>1, <3>2, <4>1 DEF Settles, Relies
    <3>5. Prepared(job, <<>> \o <<c>>, S, R)
      BY <3>1, <3>3, <3>4, LineEnd DEF Vital
    <3> QED BY <3>1, <3>5
  <2>5. CASE t[h].do = "recover"
    <3> DEFINE p == t[h].pair
               r == Step("record", p)
    <3>1. p \in Pairs
      BY <2>1, <2>5 DEF NamedSteps, Paired
    <3>2. Handled(job) = (IF e.marker # None /\ e.pair # p
                          THEN Drain(e.marker) \o For(<<"clearMarker">>, e.marker) ELSE <<>>)
                         \o For(<<"record">>, p)
      BY <1>3, <2>5 DEF Handled
    <3>3. For(<<"record">>, p) = <<r>> /\ r \in Steps /\ r.do = "record"
      BY <3>1, OnlyIs DEF Calls
    <3> HIDE DEF p, r
    <3>4. <<r>> \in Seq(Steps) /\ Harmless(<<r>>)
      BY <3>3, OnePlain DEF Vital
    <3>5. e.marker # None => Prepared(job, RevokeSuperseded(e.marker), S, R)
      <4>1. e.marker # None => e.marker \in Pairs
        BY DEF Jobs, Entries
      <4> QED BY <1>0, <4>1, ReadyRevoke
    <3>6. CASE e.marker # None /\ e.pair # p
      <4>1. Prepared(job, RevokeSuperseded(e.marker) \o <<r>>, S, R)
        BY <3>4, <3>5, <3>6, PreparedThen
      <4> QED BY <3>2, <3>3, <3>6, <4>1 DEF RevokeSuperseded
    <3>7. CASE ~(e.marker # None /\ e.pair # p)
      <4>1. Prepared(job, <<>> \o <<r>>, S, R)
        BY <1>1, <3>4, PreparedThen
      <4> QED BY <3>2, <3>3, <3>7, <4>1
    <3> QED BY <3>6, <3>7
  <2> QED BY <2>1, <2>2, <2>3, <2>4, <2>5 DEF Handlers
<1> QED BY <1>2, <1>3

(* Programs that rely on nothing.                                          *)
LEMMA OnlyHarmless ==
  ASSUME NEW c \in Calls, c \notin Vital \cup {"justify", "justifyLive", "confirmLive"}
  PROVE  /\ Only(c) \in Seq(Steps) /\ Harmless(Only(c))
         /\ \A p \in Pairs : For(<<c>>, p) \in Seq(Steps) /\ Harmless(For(<<c>>, p))
<1>1. ASSUME NEW s \in Steps, s.do = c PROVE <<s>> \in Seq(Steps) /\ Harmless(<<s>>)
  BY <1>1, OnePlain
<1>2. PICK s0 : s0 = Step(c, None)
  OBVIOUS
<1>3. s0 \in Steps /\ s0.do = c /\ Only(c) = <<s0>>
  BY <1>2, OnlyIs
<1>4. ASSUME NEW p \in Pairs PROVE For(<<c>>, p) \in Seq(Steps) /\ Harmless(For(<<c>>, p))
  <2>1. PICK s : s = Step(c, p)
    OBVIOUS
  <2>2. s \in Steps /\ s.do = c /\ For(<<c>>, p) = <<s>>
    BY <2>1, OnlyIs
  <2> QED BY <1>1, <2>2
<1> QED BY <1>1, <1>3, <1>4

(* The pair has its tuple, or a put of it is on the way.                   *)
Out(q) == q \in tuples \/ \E w \in Workers : \E i \in 1 .. Len(wire[w]) : wire[w][i] = Put(q)
NoPut(msgs, q) == \A i \in 1 .. Len(msgs) : msgs[i] # Put(q)

(* The pairs that a call on the record may stop naming: a remove was made  *)
(* and no put since, or the entry of another record names them.            *)
Settled(k) == {q \in Pairs :
    \/ q \in removed /\ ~Out(q)
    \/ \E s \in Contacts \ {k} : q \in {grants[s].pair, grants[s].marker}}
(* Those with a remove on the worker's connection, and no put behind it.   *)
Removes(w) == {q \in Pairs : \E i \in 1 .. Len(wire[w]) :
    wire[w][i] = Remove(q) /\ \A j \in 1 .. Len(wire[w]) : i < j => wire[w][j] # Put(q)}

(* The worker's program relies on what is so in the bucket and on its wire.*)
Guarded(w) == Guard(work[w], Settled(work[w].k), Removes(w))

(* A remove is no put.                                                     *)
LEMMA NoPuts ==
  /\ \A q : NoPut(<<>>, q)
  /\ \A p, q : NoPut(<<Remove(p)>>, q)
<1>1. \A q : NoPut(<<>>, q)
  <2>1. Len(<<>>) = 0
    OBVIOUS
  <2>2. \A n \in 1 .. Len(<<>>) : FALSE
    BY <2>1
  <2> QED BY <2>2 DEF NoPut
<1>2. ASSUME NEW p, NEW q PROVE NoPut(<<Remove(p)>>, q)
  <2>1. Remove(p) # Put(q)
    <3>1. Remove(p).op = "remove" /\ Put(q).op = "put"
      BY DEF Remove, Put
    <3> QED BY <3>1
  <2>2. PICK m : m = Remove(p)
    OBVIOUS
  <2>3. Len(<<m>>) = 1 /\ <<m>>[1] = m
    OBVIOUS
  <2>4. \A n \in 1 .. Len(<<m>>) : <<m>>[n] = m
    BY <2>3
  <2> QED BY <2>1, <2>2, <2>4 DEF NoPut
<1> QED BY <1>1, <1>2

(* A call moves on: its job and its connection.                            *)
LEMMA GoIs ==
  ASSUME Working, NEW w \in Workers, NEW job \in Jobs, job.todo # <<>>, NEW msgs \in Seq(Messages),
         NEW steps \in Seq(Steps), Go(w, job, msgs, steps)
  PROVE  /\ work'[w] \in Jobs /\ work'[w].todo = steps \o Tail(job.todo)
         /\ work'[w].entry = job.entry /\ work'[w].k = job.k /\ work'[w].kc = job.kc
         /\ work'[w].by = job.by
         /\ \A q \in Removes(w) : NoPut(msgs, q) => q \in Removes(w)'
         /\ \A q \in Pairs : msgs = <<Remove(q)>> => q \in Removes(w)'
         /\ \A q \in Pairs : tuples' = tuples /\ NoPut(msgs, q) /\ ~Out(q) => ~Out(q)'
<1> DEFINE new == [job EXCEPT !.todo = steps \o Tail(@)]
<1>1. job.todo \in Seq(Steps)
  BY DEF Jobs
<1>2. steps \o Tail(job.todo) \in Seq(Steps)
  BY <1>1, TailFacts, ConcatFacts
<1>3. /\ new \in Jobs /\ new.todo = steps \o Tail(job.todo) /\ new.entry = job.entry
      /\ new.k = job.k /\ new.kc = job.kc /\ new.by = job.by
  BY <1>2 DEF Jobs
<1>4. work' = [work EXCEPT ![w] = new] /\ wire' = [wire EXCEPT ![w] = @ \o msgs]
  BY DEF Go
<1> HIDE DEF new
<1>5. /\ work'[w] = new /\ wire'[w] = wire[w] \o msgs /\ wire[w] \in Seq(Messages)
      /\ \A v \in Workers \ {w} : wire'[v] = wire[v]
  BY <1>4 DEF Working
<1>6. /\ \A i \in 1 .. Len(wire[w]) : i \in 1 .. Len(wire'[w]) /\ wire'[w][i] = wire[w][i]
      /\ Len(wire'[w]) = Len(wire[w]) + Len(msgs) /\ Len(wire[w]) \in Nat
      /\ \A i \in 1 .. Len(wire'[w]) : (i \in 1 .. Len(wire[w]) /\ wire'[w][i] = wire[w][i])
            \/ (i - Len(wire[w]) \in 1 .. Len(msgs) /\ wire'[w][i] = msgs[i - Len(wire[w])])
  BY <1>5, ConcatFacts
<1>7. ASSUME NEW q \in Removes(w), NoPut(msgs, q) PROVE q \in Removes(w)'
  <2>1. PICK i \in 1 .. Len(wire[w]) : /\ wire[w][i] = Remove(q)
                                       /\ \A j \in 1 .. Len(wire[w]) : i < j => wire[w][j] # Put(q)
    BY DEF Removes
  <2>2. ASSUME NEW j \in 1 .. Len(wire'[w]), i < j PROVE wire'[w][j] # Put(q)
    BY <1>6, <1>7, <2>1, <2>2 DEF NoPut
  <2>3. i \in 1 .. Len(wire'[w]) /\ wire'[w][i] = Remove(q)
    BY <1>6, <2>1
  <2>4. q \in Pairs
    BY DEF Removes
  <2> QED BY <2>2, <2>3, <2>4 DEF Removes
<1>8. ASSUME NEW q \in Pairs, msgs = <<Remove(q)>> PROVE q \in Removes(w)'
  <2>1. Len(msgs) = 1 /\ msgs[1] = Remove(q)
    BY <1>8
  <2> DEFINE n == Len(wire[w]) + 1
  <2>2. /\ Len(wire'[w]) = n /\ n - Len(wire[w]) = 1 /\ n \in 1 .. n /\ ~(n \in 1 .. Len(wire[w]))
        /\ \A j \in 1 .. n : ~(n < j)
    BY <1>6, <2>1
  <2> HIDE DEF n
  <2>3. n \in 1 .. Len(wire'[w]) /\ wire'[w][n] = Remove(q)
    BY <1>6, <2>1, <2>2
  <2> QED BY <2>2, <2>3 DEF Removes
<1>9. ASSUME NEW q \in Pairs, tuples' = tuples, NoPut(msgs, q), Out(q)' PROVE Out(q)
  <2>1. CASE q \in tuples'
    BY <1>9, <2>1 DEF Out
  <2>2. ASSUME NEW v \in Workers, NEW i \in 1 .. Len(wire'[v]), wire'[v][i] = Put(q) PROVE Out(q)
    <3>1. CASE v # w
      BY <1>5, <2>2, <3>1 DEF Out
    <3>2. CASE v = w
      <4>1. i \in 1 .. Len(wire[w]) /\ wire[w][i] = Put(q)
        BY <1>6, <1>9, <2>2, <3>2 DEF NoPut
      <4> QED BY <4>1 DEF Out
    <3> QED BY <3>1, <3>2
  <2> QED BY <1>9, <2>1, <2>2 DEF Out
<1> QED BY <1>3, <1>5, <1>7, <1>8, <1>9

(* Removes that the messages leave the last word to.                       *)
Outlast(w, msgs, R) == \A q \in R : q \in Removes(w) /\ NoPut(msgs, q)

(* A call that brings in nothing and relies on nothing brought in is done. *)
LEMMA AdvanceGuarded ==
  ASSUME Shape, NEW w \in Workers, NEW d, At(w, d), d \notin Fence \cup {"fail"},
         NEW k, k = work[w].k, NEW S, NEW R, Guard(work[w], S, R),
         NEW job \in Jobs, job.todo = work[w].todo, job.entry = work[w].entry, job.k = k,
         job.kc = work[w].kc, NEW msgs \in Seq(Messages), NEW steps \in Seq(Steps),
         Go(w, job, msgs, steps), \A n \in 1 .. Len(steps) : steps[n].do \in Light,
         S \subseteq Settled(k)', Outlast(w, msgs, R),
         d = "flush" => wire[w] = <<>>,
         d = "own" /\ work[w].by # None =>
             Pair(w) \in Settled(k)' \/ Pair(w) \notin Pairs \/ \E n \in 1 .. Len(steps) : steps[n].do = "fail",
         d \in {"scan", "scanLive"} =>
             \/ job.by # None
             \/ /\ Pair(w) \in Pairs /\ msgs = <<Remove(Pair(w))>>
                /\ \E n \in 1 .. Len(steps) : steps[n].do = "flush",
         d \notin Scans /\ work[w].by # None => job.by # None,
         job.by # None => job.by # k
  PROVE  Guarded(w)'
<1>1. /\ work[w] \in Jobs /\ work[w].todo # <<>> /\ Head(work[w].todo).do = d /\ Working
      /\ work[w].todo \in Seq(Steps)
  BY AtFacts DEF Shape, Jobs
<1>2. work[w].todo[1].do = d /\ work[w].todo[1].pair = Pair(w)
  BY <1>1, TailFacts DEF Pair
<1>3. /\ work'[w].todo = steps \o Tail(work[w].todo)
      /\ work'[w].entry = work[w].entry /\ work'[w].k = k /\ work'[w].kc = work[w].kc
      /\ work'[w].by = job.by
      /\ \A q \in Removes(w) : NoPut(msgs, q) => q \in Removes(w)'
      /\ \A q \in Pairs : msgs = <<Remove(q)>> => q \in Removes(w)'
  <2>1. job.todo # <<>>
    BY <1>1
  <2>2. /\ work'[w] \in Jobs /\ work'[w].todo = steps \o Tail(job.todo)
        /\ work'[w].entry = job.entry /\ work'[w].k = job.k /\ work'[w].kc = job.kc
        /\ work'[w].by = job.by
        /\ \A q \in Removes(w) : NoPut(msgs, q) => q \in Removes(w)'
        /\ \A q \in Pairs : msgs = <<Remove(q)>> => q \in Removes(w)'
    BY <1>1, <2>1, GoIs, ZenonT(60)
  <2> QED BY <2>2
<1>4. d = "flush" => R = {}
  <2>1. wire[w] = <<>> => Len(wire[w]) = 0
    OBVIOUS
  <2>2. wire[w] = <<>> => \A i \in 1 .. Len(wire[w]) : FALSE
    BY <2>1
  <2>3. wire[w] = <<>> => Removes(w) = {}
    BY <2>2 DEF Removes
  <2> QED BY <2>3 DEF Outlast
<1>6. PICK S2, R2 : S2 = Settled(k)' /\ R2 = Removes(w)'
  OBVIOUS
<1>7. PICK new : new = work'[w]
  OBVIOUS
<1>9. Guard(new, S2, R2)
  <2>0. PICK old : old = work[w]
    OBVIOUS
  <2>1. Guard(old, S, R) /\ S \subseteq S2 /\ R \subseteq R2 \cup S2
    BY <1>3, <1>6, <2>0 DEF Outlast
  <2>2. old \in Jobs /\ old.todo # <<>>
    BY <1>1, <2>0
  <2>3. old.todo[1].do = d /\ old.todo[1].pair = Pair(w)
    BY <1>2, <2>0
  <2>4. d = "flush" => R \subseteq S2
    BY <1>4
  <2>5. /\ new.todo = steps \o Tail(old.todo) /\ new.entry = old.entry
        /\ new.k = old.k /\ new.kc = old.kc /\ new.by = job.by
    BY <1>3, <1>7, <2>0
  <2>6. d \in {"scan", "scanLive"} =>
          new.by # None \/ (Pair(w) \in R2 /\ \E n \in 1 .. Len(steps) : steps[n].do = "flush")
    BY <1>3, <1>6, <2>5
  <2>7. new.by # None => new.by # new.k
    BY <2>0, <2>5
  <2>8. Advances(old, new, steps, S2, R, R2)
    BY <1>6, <2>0, <2>3, <2>4, <2>5, <2>6, <2>7 DEF Advances
  <2> QED BY <2>1, <2>2, <2>8, GuardAdvances
<1>10. Guarded(w)'
  <2>1. Guard(work'[w], Settled(k)', Removes(w)')
    BY <1>6, <1>7, <1>9
  <2> QED BY <1>3, <2>1 DEF Guarded
<1> QED BY <1>10

(* A call that brings in what it needs starts a program of its own.        *)
LEMMA RestartGuarded ==
  ASSUME Shape, NEW w \in Workers, NEW d, At(w, d), d \in Fence,
         NEW k, k = work[w].k, Guarded(w),
         NEW job \in Jobs, job.todo = work[w].todo, job.k = k,
         NEW msgs \in Seq(Messages), NEW steps, Go(w, job, msgs, steps),
         NEW S2, NEW R2, S2 = Settled(k)', R2 = Removes(w)', Prepared(job, steps, S2, R2)
  PROVE  Guarded(w)'
<1>1. /\ work[w] \in Jobs /\ work[w].todo # <<>> /\ Head(work[w].todo).do = d /\ Working
      /\ work[w].todo \in Seq(Steps) /\ steps \in Seq(Steps)
  BY AtFacts DEF Shape, Jobs, Prepared
<1>2. work[w].todo[1].do = d
  BY <1>1, TailFacts
<1>3. PICK new : new = work'[w]
  OBVIOUS
<1>4. /\ new \in Jobs /\ new.todo = steps \o Tail(work[w].todo)
      /\ new.entry = job.entry /\ new.k = k /\ new.kc = job.kc /\ new.by = job.by
  <2>1. job.todo # <<>>
    BY <1>1
  <2>2. /\ work'[w] \in Jobs /\ work'[w].todo = steps \o Tail(job.todo)
        /\ work'[w].entry = job.entry /\ work'[w].k = job.k /\ work'[w].kc = job.kc
        /\ work'[w].by = job.by
    BY <1>1, <2>1, GoIs, Zenon
  <2> QED BY <1>3, <2>2
<1>5. Ready(new, steps, S2, R2)
  <2> DEFINE bare == [new EXCEPT !.todo = steps]
  <2>1. /\ bare.todo = steps /\ bare.entry = job.entry /\ bare.k = job.k /\ bare.kc = job.kc
        /\ bare.by = job.by
    BY <1>4 DEF Jobs
  <2> HIDE DEF bare
  <2>2. Guard(bare, S2, R2)
    BY <2>1, GuardOf
  <2> QED BY <2>2 DEF Ready, bare
<1>6. PICK S, R : S = Settled(k) /\ R = Removes(w)
  OBVIOUS
<1>7. Guard(work[w], S, R)
  BY <1>6 DEF Guarded
<1>8. Guard(new, S2, R2)
  <2>1. PICK old : old = work[w]
    OBVIOUS
  <2>2. /\ old \in Jobs /\ old.todo # <<>> /\ Guard(old, S, R) /\ old.todo[1].do \in Fence
        /\ new.todo = steps \o Tail(old.todo)
    BY <1>1, <1>2, <1>4, <1>7, <2>1
  <2> QED BY <1>1, <1>4, <1>5, <2>2, GuardRestarts, Zenon
<1>9. Guard(work'[w], Settled(k)', Removes(w)') /\ work'[w].k = k
  BY <1>3, <1>4, <1>8
<1> QED BY <1>9 DEF Guarded

(* What is settled stays so, unless the pair is put.                       *)
LEMMA SettledSame ==
  ASSUME UNCHANGED bucket, NEW k, NEW q \in Settled(k), ~Out(q) => ~Out(q)'
  PROVE  q \in Settled(k)'
  BY DEF bucket, Settled

(* Nothing is put, and the bucket is as it was.                            *)
LEMMA SettledQuiet ==
  ASSUME Shape, NEW w \in Workers, NEW d, At(w, d), NEW job \in Jobs, job.todo = work[w].todo,
         NEW msgs \in Seq(Messages), NEW steps \in Seq(Steps), Go(w, job, msgs, steps),
         UNCHANGED <<bucket, tuples>>, \A q \in Pairs : NoPut(msgs, q), NEW k
  PROVE  Settled(k) \subseteq Settled(k)'
<1>1. Working /\ job.todo # <<>>
  BY AtFacts DEF Shape
<1> SUFFICES ASSUME NEW q \in Settled(k) PROVE q \in Settled(k)'
  OBVIOUS
<1>2. q \in Pairs
  BY DEF Settled
<1>3. ~Out(q) => ~Out(q)'
  BY <1>1, <1>2, GoIs
<1> QED BY <1>3, SettledSame

(* A write that names a pair in the entry of a sibling settles the pair.   *)
LEMMA SettledName ==
  ASSUME Around, NEW k \in Contacts, NEW s \in Contacts \ {k}, NEW p, grants[s].marker = None,
         Name(s, p, grants[s].pair), \A q \in Pairs : ~Out(q) => ~Out(q)'
  PROVE  /\ Settled(k) \subseteq Settled(k)'
         /\ p \in Pairs => p \in Settled(k)'
<1>1. /\ removed' = removed \ {p}
      /\ \A n \in Contacts \ {s} : grants'[n] = grants[n]
      /\ grants'[s].pair = p /\ grants'[s].marker = grants[s].pair
  BY DEF Name, Around
<1>2. p \in Pairs => p \in Settled(k)'
  BY <1>1 DEF Settled
<1>3. ASSUME NEW q \in Pairs, q \in Settled(k) PROVE q \in Settled(k)'
  <2>1. CASE q \in removed /\ ~Out(q)
    BY <1>1, <1>2, <2>1 DEF Settled
  <2>2. CASE \E n \in Contacts \ {k} : q \in {grants[n].pair, grants[n].marker}
    <3>1. PICK n \in Contacts \ {k} : q \in {grants[n].pair, grants[n].marker}
      BY <2>2
    <3>2. q # None
      BY GrantAssumption
    <3>3. q \in {grants'[n].pair, grants'[n].marker}
      BY <1>1, <3>1, <3>2
    <3> QED BY <3>1, <3>3 DEF Settled
  <2> QED BY <1>3, <2>1, <2>2 DEF Settled
<1> QED BY <1>2, <1>3 DEF Settled

(* What a worker at a call knows, besides.                                 *)
LEMMA AtGuard ==
  ASSUME Shape, NEW w \in Workers, NEW d, At(w, d), Guarded(w)
  PROVE  /\ work[w] \in Jobs /\ work[w].todo # <<>> /\ work[w].k \in Contacts
         /\ work[w].by # None => work[w].by # work[w].k
         /\ Guard(work[w], Settled(work[w].k), Removes(w))
         /\ work[w].todo[1].do = d /\ work[w].todo[1].pair = Pair(w)
         /\ 1 \in 1 .. Len(work[w].todo)
<1>1. /\ work[w] \in Jobs /\ work[w].todo # <<>> /\ work[w].k \in Contacts
      /\ Head(work[w].todo).do = d /\ work[w].todo \in Seq(Steps)
  BY AtFacts DEF Shape, Jobs
<1>2. work[w].todo[1].do = d /\ work[w].todo[1].pair = Pair(w) /\ 1 \in 1 .. Len(work[w].todo)
  BY <1>1, TailFacts DEF Pair
<1> QED BY <1>1, <1>2 DEF Guarded, Guard

(* What the head of a program relies on is settled.                        *)
LEMMA HeadSettled ==
  ASSUME Shape, NEW w \in Workers, NEW d, At(w, d), Guarded(w), NEW q \in Pairs,
         Relies(work[w], work[w].todo[1], q)
  PROVE  q \in Settled(work[w].k)
  BY AtGuard, CoveredFirst DEF Guard, Relied

(* A call is done, and the job and the bucket are as they were.            *)
LEMMA SameAdvances ==
  ASSUME Shape, NEW w \in Workers, NEW d, At(w, d), d \notin Fence \cup Scans \cup {"fail"},
         Guarded(w), NEW msgs \in Seq(Messages), NEW steps \in Seq(Steps),
         Go(w, work[w], msgs, steps), \A n \in 1 .. Len(steps) : steps[n].do \in Light,
         UNCHANGED <<bucket, tuples>>, \A q \in Pairs : NoPut(msgs, q),
         d = "flush" => wire[w] = <<>>,
         d = "own" => work[w].by = None \/ Pair(w) \in Settled(work[w].k)
                      \/ Pair(w) \notin Pairs \/ \E n \in 1 .. Len(steps) : steps[n].do = "fail"
  PROVE  Guarded(w)'
<1>1. PICK k : k = work[w].k
  OBVIOUS
<1>2. k \in Contacts /\ work[w] \in Jobs /\ (work[w].by # None => work[w].by # k)
  BY <1>1, AtGuard
<1>3. Settled(k) \subseteq Settled(k)'
  BY <1>2, SettledQuiet
<1>4. d = "own" => work[w].by = None \/ Pair(w) \in Settled(k)'
                   \/ Pair(w) \notin Pairs \/ \E n \in 1 .. Len(steps) : steps[n].do = "fail"
  BY <1>1, <1>3
<1>5. d \notin {"scan", "scanLive"}
  BY DEF Scans
<1>6. PICK S, R : S = Settled(k) /\ R = Removes(w)
  OBVIOUS
<1>7. Guard(work[w], S, R) /\ S \subseteq Settled(k)' /\ Outlast(w, msgs, R)
  <2>1. Removes(w) \subseteq Pairs
    BY DEF Removes
  <2>2. Outlast(w, msgs, R)
    BY <1>6, <2>1 DEF Outlast
  <2> QED BY <1>1, <1>3, <1>6, <2>2 DEF Guarded
<1>8. PICK job : job = work[w]
  OBVIOUS
<1>9. /\ job \in Jobs /\ job.todo = work[w].todo /\ job.entry = work[w].entry /\ job.k = k
      /\ job.kc = work[w].kc /\ job.by = work[w].by /\ (job.by # None => job.by # k)
      /\ d \notin Fence \cup {"fail"} /\ Go(w, job, msgs, steps)
  BY <1>1, <1>2, <1>8
<1>10. CASE d = "flush"
  <2>1. wire[w] = <<>> /\ d # "own" /\ d \notin Scans
    BY <1>10
  <2> QED BY <1>1, <1>5, <1>7, <1>9, <1>10, <2>1, AdvanceGuarded
<1>11. CASE d # "flush"
  <2>1. CASE d = "own" /\ work[w].by # None /\ \E n \in 1 .. Len(steps) : steps[n].do = "fail"
    BY <1>1, <1>5, <1>7, <1>9, <1>11, <2>1, AdvanceGuarded
  <2>2. CASE d # "own" \/ work[w].by = None \/ Pair(w) \in Settled(k)' \/ Pair(w) \notin Pairs
    BY <1>1, <1>5, <1>7, <1>9, <1>11, <2>2, AdvanceGuarded
  <2> QED BY <1>4, <2>1, <2>2
<1> QED BY <1>10, <1>11

(* ... with another view or sibling.                                       *)
LEMMA ByAdvances ==
  ASSUME Shape, NEW w \in Workers, NEW d, At(w, d), d \notin Fence \cup {"fail", "own", "flush"},
         Guarded(w), NEW job \in Jobs, job.todo = work[w].todo, job.entry = work[w].entry,
         job.k = work[w].k, job.kc = work[w].kc, job.by # None => job.by # work[w].k,
         NEW msgs \in Seq(Messages), NEW steps \in Seq(Steps),
         Go(w, job, msgs, steps), \A n \in 1 .. Len(steps) : steps[n].do \in Light,
         UNCHANGED <<bucket, tuples>>, \A q \in Pairs : NoPut(msgs, q),
         d \in {"scan", "scanLive"} =>
             \/ job.by # None
             \/ /\ Pair(w) \in Pairs /\ msgs = <<Remove(Pair(w))>>
                /\ \E n \in 1 .. Len(steps) : steps[n].do = "flush",
         d \notin Scans /\ work[w].by # None => job.by # None
  PROVE  Guarded(w)'
<1>1. PICK k : k = work[w].k
  OBVIOUS
<1>3. Settled(k) \subseteq Settled(k)'
  BY SettledQuiet
<1>4. job.k = k /\ (job.by # None => job.by # k)
  BY <1>1
<1>5. d # "own" /\ d # "flush" /\ d \notin Fence \cup {"fail"}
  OBVIOUS
<1>6. PICK S, R : S = Settled(k) /\ R = Removes(w)
  OBVIOUS
<1>7. Guard(work[w], S, R) /\ S \subseteq Settled(k)' /\ Outlast(w, msgs, R)
  <2>1. Removes(w) \subseteq Pairs
    BY DEF Removes
  <2>2. Outlast(w, msgs, R)
    BY <1>6, <2>1 DEF Outlast
  <2> QED BY <1>1, <1>3, <1>6, <2>2 DEF Guarded
<1> QED BY <1>1, <1>4, <1>5, <1>7, AdvanceGuarded

(* A call starts a program of its own, and the bucket is as it was.        *)
LEMMA SameRestarts ==
  ASSUME Shape, NEW w \in Workers, NEW d, At(w, d), d \in Fence, Guarded(w),
         NEW job \in Jobs, job.todo = work[w].todo, job.k = work[w].k,
         NEW msgs \in Seq(Messages), NEW steps, Go(w, job, msgs, steps),
         \A S, R : Prepared(job, steps, S, R)
  PROVE  Guarded(w)'
<1>1. PICK k : k = work[w].k
  OBVIOUS
<1>2. PICK S2, R2 : S2 = Settled(k)' /\ R2 = Removes(w)'
  OBVIOUS
<1>3. Prepared(job, steps, S2, R2) /\ job.k = k
  BY <1>1
<1> QED BY <1>1, <1>2, <1>3, RestartGuarded

(* A call is done, and nothing waits for it.                               *)
LEMMA SkipRestarts ==
  ASSUME Shape, NEW w \in Workers, NEW d, At(w, d), d \in Fence, Guarded(w), Skip(w)
  PROVE  Guarded(w)'
<1>1. work[w] \in Jobs /\ (work[w].by # None => work[w].by # work[w].k)
  BY AtGuard
<1>2. \A S, R : Prepared(work[w], <<>>, S, R)
  BY <1>1, LineEmpty DEF Line, Prepared
<1>3. Go(w, work[w], <<>>, <<>>) /\ <<>> \in Seq(Messages)
  BY SmallMessages DEF Skip
<1> QED BY <1>1, <1>2, <1>3, SameRestarts

(* The empty program has none.                                             *)
LEMMA LightEmpty == <<>> \in Seq(Steps) /\ \A n \in 1 .. Len(<<>>) : <<>>[n].do \in Light
<1>1. <<>> \in Seq(Steps) /\ Len(<<>>) = 0
  OBVIOUS
<1>2. \A n \in 1 .. Len(<<>>) : FALSE
  BY <1>1
<1> QED BY <1>1, <1>2

(* ... and one that fails.                                                 *)
LEMMA LightFail ==
  /\ Only("fail") \in Seq(Steps) /\ \A n \in 1 .. Len(Only("fail")) : Only("fail")[n].do \in Light
  /\ \E n \in 1 .. Len(Only("fail")) : Only("fail")[n].do = "fail"
<1>1. PICK x : x = Step("fail", None)
  OBVIOUS
<1>2. Only("fail") = <<x>> /\ x \in Steps /\ x.do = "fail"
  BY <1>1, OnlyIs DEF Calls
<1>3. <<x>> \in Seq(Steps) /\ Len(<<x>>) = 1 /\ <<x>>[1] = x
  BY <1>2
<1>4. 1 \in 1 .. Len(<<x>>) /\ \A n \in 1 .. Len(<<x>>) : <<x>>[n] = x
  BY <1>3
<1> QED BY <1>2, <1>3, <1>4 DEF Light

(* The calls a program may be continued with.                              *)
LEMMA LightPrograms ==
  ASSUME NEW p \in Pairs
  PROVE  /\ <<>> \in Seq(Steps)
         /\ Only("flush") \o For(<<"recheck">>, p) \in Seq(Steps)
         /\ For(<<"recheck">>, p) \in Seq(Steps)
         /\ Only("flush") \o For(<<"verify">>, p) \in Seq(Steps)
         /\ Only("flush") \o Only("fail") \in Seq(Steps)
         /\ Only("flush") \in Seq(Steps) /\ Only("fail") \in Seq(Steps)
         /\ \A n \in 1 .. Len(Only("flush") \o For(<<"recheck">>, p)) :
              (Only("flush") \o For(<<"recheck">>, p))[n].do \in Light
         /\ \E n \in 1 .. Len(Only("flush") \o For(<<"recheck">>, p)) :
              (Only("flush") \o For(<<"recheck">>, p))[n].do = "flush"
         /\ \A n \in 1 .. Len(For(<<"recheck">>, p)) : For(<<"recheck">>, p)[n].do \in Light
         /\ \A n \in 1 .. Len(Only("flush") \o For(<<"verify">>, p)) :
              (Only("flush") \o For(<<"verify">>, p))[n].do \in Light
         /\ \A n \in 1 .. Len(Only("flush") \o Only("fail")) :
              (Only("flush") \o Only("fail"))[n].do \in Light
         /\ \A n \in 1 .. Len(Only("flush")) : Only("flush")[n].do \in Light
         /\ \A n \in 1 .. Len(Only("fail")) : Only("fail")[n].do \in Light
         /\ \E n \in 1 .. Len(Only("fail")) : Only("fail")[n].do = "fail"
         /\ \A n \in 1 .. Len(<<>>) : <<>>[n].do \in Light
<1> DEFINE f == Step("flush", None)
           r == Step("recheck", p)
           v == Step("verify", p)
           x == Step("fail", None)
<1>1. /\ Only("flush") = <<f>> /\ f \in Steps /\ f.do = "flush"
      /\ Only("fail") = <<x>> /\ x \in Steps /\ x.do = "fail"
      /\ For(<<"recheck">>, p) = <<r>> /\ r \in Steps /\ r.do = "recheck"
      /\ For(<<"verify">>, p) = <<v>> /\ v \in Steps /\ v.do = "verify"
  BY OnlyIs DEF Calls
<1> HIDE DEF f, r, v, x
<1>2. ASSUME NEW a \in Steps, a.do \in Light
      PROVE  <<a>> \in Seq(Steps) /\ \A n \in 1 .. Len(<<a>>) : <<a>>[n] = a
  OBVIOUS
<1>3. ASSUME NEW a \in Steps, NEW b \in Steps
      PROVE  /\ <<a>> \o <<b>> \in Seq(Steps)
             /\ \A n \in 1 .. Len(<<a>> \o <<b>>) : (<<a>> \o <<b>>)[n] \in {a, b}
             /\ \E n \in 1 .. Len(<<a>> \o <<b>>) : (<<a>> \o <<b>>)[n] = a
  <2> DEFINE c == <<a>> \o <<b>>
  <2>1. <<a>> \in Seq(Steps) /\ <<b>> \in Seq(Steps) /\ Len(<<a>>) = 1 /\ <<a>>[1] = a
        /\ Len(<<b>>) = 1 /\ <<b>>[1] = b
    BY SmallPrograms
  <2>2. c \in Seq(Steps) /\ Len(c) = 2 /\ c[1] = a /\ c[2] = b
    BY <2>1
  <2> HIDE DEF c
  <2>3. \A n \in 1 .. Len(c) : n = 1 \/ n = 2
    BY <2>2
  <2>4. \A n \in 1 .. Len(c) : c[n] \in {a, b}
    BY <2>2, <2>3
  <2>5. 1 \in 1 .. Len(c)
    BY <2>2
  <2> QED BY <2>2, <2>4, <2>5 DEF c
<1>4. /\ <<>> \in Seq(Steps) /\ \A n \in 1 .. Len(<<>>) : <<>>[n].do \in Light
      /\ \E n \in 1 .. Len(<<x>>) : <<x>>[n].do = "fail"
  <2>1. <<>> \in Seq(Steps) /\ Len(<<>>) = 0
    OBVIOUS
  <2>2. \A n \in 1 .. Len(<<>>) : FALSE
    BY <2>1
  <2>3. Len(<<x>>) = 1 /\ <<x>>[1] = x
    OBVIOUS
  <2>4. 1 \in 1 .. Len(<<x>>) /\ <<x>>[1].do = "fail"
    BY <1>1, <2>3
  <2> QED BY <2>1, <2>2, <2>4
<1> HIDE DEF f, r, v, x
<1>5. {"flush", "recheck", "verify", "fail"} = Light
  BY DEF Light
<1>6. /\ <<f>> \o <<r>> \in Seq(Steps)
      /\ \A n \in 1 .. Len(<<f>> \o <<r>>) : (<<f>> \o <<r>>)[n].do \in Light
      /\ \E n \in 1 .. Len(<<f>> \o <<r>>) : (<<f>> \o <<r>>)[n].do = "flush"
  <2>1. \A n \in 1 .. Len(<<f>> \o <<r>>) : (<<f>> \o <<r>>)[n] \in {f, r}
    BY <1>1, <1>3
  <2>2. \E n \in 1 .. Len(<<f>> \o <<r>>) : (<<f>> \o <<r>>)[n] = f
    BY <1>1, <1>3
  <2> QED BY <1>1, <1>3, <1>5, <2>1, <2>2
<1>7. /\ <<f>> \o <<v>> \in Seq(Steps)
      /\ \A n \in 1 .. Len(<<f>> \o <<v>>) : (<<f>> \o <<v>>)[n].do \in Light
  <2>1. \A n \in 1 .. Len(<<f>> \o <<v>>) : (<<f>> \o <<v>>)[n] \in {f, v}
    BY <1>1, <1>3
  <2> QED BY <1>1, <1>3, <1>5, <2>1
<1>8. /\ <<f>> \o <<x>> \in Seq(Steps)
      /\ \A n \in 1 .. Len(<<f>> \o <<x>>) : (<<f>> \o <<x>>)[n].do \in Light
  <2>1. \A n \in 1 .. Len(<<f>> \o <<x>>) : (<<f>> \o <<x>>)[n] \in {f, x}
    BY <1>1, <1>3
  <2> QED BY <1>1, <1>3, <1>5, <2>1
<1>9. ASSUME NEW a \in {f, r, x} PROVE <<a>> \in Seq(Steps) /\ \A n \in 1 .. Len(<<a>>) : <<a>>[n].do \in Light
  <2>1. a \in Steps /\ a.do \in Light
    BY <1>1, <1>5
  <2> QED BY <1>2, <2>1
<1> QED BY <1>1, <1>4, <1>6, <1>7, <1>8, <1>9

(* A call is done, and nothing comes in its place.                         *)
LEMMA SkipAdvances ==
  ASSUME Shape, NEW w \in Workers, NEW d, At(w, d), d \notin Fence \cup Scans \cup {"fail"},
         Guarded(w), Skip(w), UNCHANGED <<bucket, tuples>>,
         d = "flush" => wire[w] = <<>>,
         d = "own" => work[w].by = None \/ Pair(w) \in Settled(work[w].k) \/ Pair(w) \notin Pairs
  PROVE  Guarded(w)'
<1>1. Go(w, work[w], <<>>, <<>>) /\ <<>> \in Seq(Messages) /\ <<>> \in Seq(Steps)
  BY SmallMessages DEF Skip
<1>2. \A n \in 1 .. Len(<<>>) : <<>>[n].do \in Light
  BY LightEmpty
<1>3. \A q \in Pairs : NoPut(<<>>, q)
  BY NoPuts
<1> QED BY <1>1, <1>2, <1>3, SameAdvances

(* Flush keeps what the rest of the program relies on.                     *)
LEMMA FlushGuarded == ASSUME Shape, NEW w \in Workers, Flush(w), Guarded(w) PROVE Guarded(w)'
<1>1. /\ At(w, "flush") /\ wire[w] = <<>> /\ Skip(w) /\ UNCHANGED <<bucket, tuples>>
      /\ "flush" \notin Fence \cup Scans \cup {"fail"}
  BY DEF Flush, local, Fence, Scans
<1> QED BY <1>1, SkipAdvances

(* What a call in progress knows of its record's siblings, whom nobody     *)
(* changes while it runs: no put follows a remove, no grant a claim.       *)
Silent(w) == \A i \in 1 .. Len(work[w].todo) : LET s == work[w].todo[i] IN
    /\ s.do \in {"recheck", "regranted"} => Justifiers(sf, s.pair, work[w].k) = {}
    /\ s.do \in {"claim", "claimed"} => Justifiers(sf, work[w].entry.pair, work[w].k) = {}

(* Recheck and Regranted keep what the rest of the program relies on.      *)
LEMMA RecheckGuarded ==
  ASSUME Shape, NEW w \in Workers, Recheck(w) \/ Regranted(w), Guarded(w), Silent(w)
  PROVE  Guarded(w)'
<1>1. PICK d \in {"recheck", "regranted"} : At(w, d)
  BY DEF Recheck, Regranted
<1>2. /\ UNCHANGED <<bucket, tuples>> /\ d # "flush" /\ d # "own"
      /\ d \notin Fence \cup Scans \cup {"fail"}
  BY <1>1 DEF Recheck, Regranted, local, Fence, Scans
<1>3. Justifiers(sf, Pair(w), work[w].k) = {}
  <2>1. 1 \in 1 .. Len(work[w].todo) /\ work[w].todo[1].do = d /\ work[w].todo[1].pair = Pair(w)
    BY <1>1, AtGuard
  <2> QED BY <2>1 DEF Silent
<1>4. Skip(w)
  BY <1>3 DEF Recheck, Regranted
<1> QED BY <1>1, <1>2, <1>4, SkipAdvances

(* The calls that may put a pair back although its remove is made.         *)
Asserts == {"settle", "reassert"}

(* The pair put back is handed over next.                                  *)
Handing(todo) == \A h \in 1 .. Len(todo) : todo[h].do \in Asserts =>
    h + 1 <= Len(todo) /\ Owns(todo, h + 1, todo[h].pair)
(* A failure behind it clears the pair only past a stop, unless the marker *)
(* names the pair put back.                                                *)
Halted(e, t) == \A h, i \in 1 .. Len(t) :
    /\ h < i /\ t[h].do \in Asserts /\ t[i].do = "keepMarker" /\ t[h].pair # e.marker
    => \E n \in h + 1 .. i - 1 : t[n].do = "stop"

(* A pair about to be put back for a sibling is covered by the hand-over.  *)
LEMMA AssertWeakens ==
  ASSUME NEW job \in Jobs, NEW S, NEW R, Guard(job, S, R), job.todo # <<>>,
         Handing(job.todo), Halted(job.entry, job.todo), job.todo[1].do \in Asserts, job.by # None,
         NEW q, q = job.todo[1].pair
  PROVE  Guard(job, S \ {q}, R \ {q})
<1> DEFINE t == job.todo
<1>0. t \in Seq(Steps) /\ Len(t) \in Nat /\ 1 \in 1 .. Len(t)
  BY TailFacts DEF Jobs
<1>1. 2 \in 1 .. Len(t) /\ Owns(t, 2, q)
  <2>1. 1 + 1 <= Len(t) /\ Owns(t, 1 + 1, t[1].pair)
    BY <1>0 DEF Handing
  <2>2. 1 + 1 = 2
    OBVIOUS
  <2> QED BY <1>0, <2>1, <2>2
<1>2. ASSUME NEW i \in 1 .. Len(t), NEW x \in Pairs, Relies(job, t[i], x)
      PROVE  Covered(job, S \ {q}, R \ {q}, i, x)
  <2>1. Covered(job, S, R, i, x)
    BY <1>2 DEF Guard, Relied
  <2>2. CASE x # q
    BY <2>1, <2>2 DEF Covered
  <2>3. CASE x = q
    <3>1. t[i].do \in Vital
      BY <1>2, ReliesVital
    <3>2. i # 1 /\ i # 2
      BY <1>1, <3>1 DEF Vital, Asserts, Owns
    <3>3. 2 \in 1 .. i - 1
      BY <1>0, <3>2
    <3>4. Bare(t, 1, 2 - 1)
      <4>1. \A n \in 1 .. 2 - 1 : n = 1
        OBVIOUS
      <4> QED BY <4>1 DEF Bare, Asserts, Scans
    <3>5. HandsOver(t, i, x)
      BY <1>1, <2>3, <3>3, <3>4 DEF HandsOver
    <3> QED BY <3>5 DEF Covered
  <2> QED BY <2>2, <2>3
<1>3. ASSUME NEW h \in 1 .. Len(t), t[h].do = "keepMarker"
      PROVE  \/ job.entry.pair \in {None, job.entry.marker} \/ job.entry.pair \in S \ {q}
             \/ Before(t, "stop", h)
  <2>1. job.entry.pair \in {None, job.entry.marker} \/ job.entry.pair \in S \/ Before(t, "stop", h)
    BY <1>3 DEF Guard, Stopped
  <2>2. CASE job.entry.pair = q /\ q # job.entry.marker
    <3>1. 1 < h
      BY <1>0, <1>3 DEF Asserts
    <3>2. \E n \in 1 + 1 .. h - 1 : t[n].do = "stop"
      BY <1>0, <1>3, <2>2, <3>1 DEF Halted
    <3>3. \A n \in 1 + 1 .. h - 1 : n \in 1 .. h - 1
      BY <1>0
    <3> QED BY <3>2, <3>3 DEF Before
  <2> QED BY <2>1, <2>2
<1> QED BY <1>2, <1>3 DEF Guard, Relied, Stopped

(* The pair is put back for the sibling found.                             *)
LEMMA AssertGuarded ==
  ASSUME Shape, NEW w \in Workers, NEW d \in Asserts, At(w, d), Guarded(w),
         Handing(work[w].todo), Halted(work[w].entry, work[w].todo), work[w].by # None,
         NEW steps \in Seq(Steps), \A n \in 1 .. Len(steps) : steps[n].do \in Light,
         NEW q \in Pairs, q = Pair(w), NEW msgs \in Seq(Messages), msgs = <<Put(q)>>,
         Go(w, work[w], msgs, steps), UNCHANGED <<bucket, tuples>>
  PROVE  Guarded(w)'
<1>1. PICK k : k = work[w].k
  OBVIOUS
<1>2. /\ k \in Contacts /\ work[w] \in Jobs /\ (work[w].by # None => work[w].by # k)
      /\ work[w].todo # <<>> /\ work[w].todo[1].do = d /\ work[w].todo[1].pair = q
  BY <1>1, AtGuard
<1>3. PICK S, R : S = Settled(k) \ {q} /\ R = Removes(w) \ {q}
  OBVIOUS
<1>4. Guard(work[w], S, R)
  <2>1. PICK job, S0, R0 : job = work[w] /\ S0 = Settled(k) /\ R0 = Removes(w)
    OBVIOUS
  <2>2. Guard(job, S0, R0)
    BY <1>1, <2>1 DEF Guarded
  <2>3. Guard(job, S0 \ {q}, R0 \ {q})
    BY <1>2, <2>1, <2>2, AssertWeakens
  <2> QED BY <1>3, <2>1, <2>3
<1>5. ASSUME NEW x \in Pairs \ {q} PROVE NoPut(msgs, x)
  <2>1. Put(q) # Put(x)
    <3>1. Put(q).pair = q /\ Put(x).pair = x
      BY DEF Put
    <3> QED BY <3>1
  <2>2. PICK m : m = Put(q)
    OBVIOUS
  <2>3. Len(<<m>>) = 1 /\ <<m>>[1] = m
    OBVIOUS
  <2>4. \A n \in 1 .. Len(<<m>>) : <<m>>[n] = m
    BY <2>3
  <2> QED BY <2>1, <2>2, <2>4 DEF NoPut
<1>6. ASSUME NEW x \in S PROVE x \in Settled(k)'
  <2>1. x \in Settled(k) /\ x \in Pairs \ {q}
    BY <1>3 DEF Settled
  <2>2. ~Out(x) => ~Out(x)'
    BY <1>2, <1>5, <2>1, GoIs DEF Shape
  <2> QED BY <2>1, <2>2, SettledSame
<1>7. Outlast(w, msgs, R)
  BY <1>3, <1>5 DEF Removes, Outlast
<1>8. /\ d \notin Fence \cup {"fail"} /\ d # "flush" /\ d # "own" /\ d \notin {"scan", "scanLive"}
      /\ S \subseteq Settled(k)'
  BY <1>6 DEF Asserts, Fence
<1> QED BY <1>1, <1>2, <1>4, <1>7, <1>8, AdvanceGuarded

(* Settle keeps what the rest of the program relies on.                    *)
LEMMA SettleGuarded ==
  ASSUME Shape, NEW w \in Workers, Settle(w), Guarded(w), Handing(work[w].todo), Halted(work[w].entry, work[w].todo)
  PROVE  Guarded(w)'
<1>1. /\ At(w, "settle") /\ UNCHANGED <<bucket, tuples>>
      /\ "settle" \notin Fence \cup Scans \cup {"fail"} /\ "settle" \in Asserts
  BY DEF Settle, local, Fence, Scans, Asserts
<1>2. \/ Skip(w)
      \/ Go(w, work[w], <<>>, Only("fail"))
      \/ /\ work[w].by # None
         /\ Go(w, work[w], <<Put(Pair(w))>>, Only("flush") \o For(<<"verify">>, Pair(w)))
  BY DEF Settle
<1>3. Pair(w) \in Pairs
  BY <1>1, AtFacts DEF Shape, Paired
<1>4. <<Put(Pair(w))>> \in Seq(Messages) /\ <<>> \in Seq(Messages)
  BY <1>3, SmallMessages
<1>5. /\ Only("flush") \o For(<<"verify">>, Pair(w)) \in Seq(Steps)
      /\ \A n \in 1 .. Len(Only("flush") \o For(<<"verify">>, Pair(w))) :
              (Only("flush") \o For(<<"verify">>, Pair(w)))[n].do \in Light
      /\ Only("fail") \in Seq(Steps)
      /\ \A n \in 1 .. Len(Only("fail")) : Only("fail")[n].do \in Light
  BY <1>3, LightPrograms
<1>6. CASE Skip(w)
  BY <1>1, <1>6, SkipAdvances
<1>7. CASE /\ work[w].by # None
           /\ Go(w, work[w], <<Put(Pair(w))>>, Only("flush") \o For(<<"verify">>, Pair(w)))
  <2>1. PICK steps, msgs, q : /\ steps = Only("flush") \o For(<<"verify">>, Pair(w))
                              /\ msgs = <<Put(Pair(w))>> /\ q = Pair(w)
    OBVIOUS
  <2>2. /\ steps \in Seq(Steps) /\ (\A n \in 1 .. Len(steps) : steps[n].do \in Light)
        /\ msgs \in Seq(Messages) /\ Go(w, work[w], msgs, steps) /\ msgs = <<Put(q)>> /\ q \in Pairs
    BY <1>3, <1>4, <1>5, <1>7, <2>1
  <2> QED BY <1>1, <1>7, <2>1, <2>2, AssertGuarded
<1>8. CASE Go(w, work[w], <<>>, Only("fail"))
  <2>1. PICK steps, msgs : steps = Only("fail") /\ msgs = <<>>
    OBVIOUS
  <2>2. /\ steps \in Seq(Steps) /\ (\A n \in 1 .. Len(steps) : steps[n].do \in Light)
        /\ msgs \in Seq(Messages) /\ Go(w, work[w], msgs, steps) /\ \A q \in Pairs : NoPut(msgs, q)
    BY <1>4, <1>5, <1>8, <2>1, NoPuts
  <2> QED BY <1>1, <2>2, SameAdvances
<1> QED BY <1>2, <1>6, <1>7, <1>8

(* Reassert keeps what the rest of the program relies on.                  *)
LEMMA ReassertGuarded ==
  ASSUME Shape, NEW w \in Workers, Reassert(w), Guarded(w), Handing(work[w].todo), Halted(work[w].entry, work[w].todo)
  PROVE  Guarded(w)'
<1>1. /\ At(w, "reassert") /\ UNCHANGED <<bucket, tuples>>
      /\ "reassert" \notin Fence \cup Scans \cup {"fail"} /\ "reassert" \in Asserts
  BY DEF Reassert, local, Fence, Scans, Asserts
<1>3. Skip(w) \/ (work[w].by # None /\ Go(w, work[w], <<Put(Pair(w))>>, Only("flush")))
  BY DEF Reassert
<1>4. Pair(w) \in Pairs
  BY <1>1, AtFacts DEF Shape, Paired
<1>5. <<Put(Pair(w))>> \in Seq(Messages)
  BY <1>4, SmallMessages
<1>6. Only("flush") \in Seq(Steps) /\ \A n \in 1 .. Len(Only("flush")) : Only("flush")[n].do \in Light
  BY <1>4, LightPrograms
<1>7. CASE Skip(w)
  BY <1>1, <1>7, SkipAdvances
<1>8. CASE work[w].by # None /\ Go(w, work[w], <<Put(Pair(w))>>, Only("flush"))
  <2>1. PICK steps, msgs, q : steps = Only("flush") /\ msgs = <<Put(Pair(w))>> /\ q = Pair(w)
    OBVIOUS
  <2>2. /\ steps \in Seq(Steps) /\ (\A n \in 1 .. Len(steps) : steps[n].do \in Light)
        /\ msgs \in Seq(Messages) /\ Go(w, work[w], msgs, steps) /\ msgs = <<Put(q)>> /\ q \in Pairs
    BY <1>4, <1>5, <1>6, <1>8, <2>1
  <2> QED BY <1>1, <1>8, <2>1, <2>2, AssertGuarded
<1> QED BY <1>3, <1>7, <1>8

(* Whoever justifies a pair besides the call's record is another record.   *)
LEMMA JustifiersOthers ==
  ASSUME NEW view, NEW p, NEW k
  PROVE  Justifiers(view, p, k) \subseteq Contacts \ {k}
  BY DEF Justifiers

(* A sibling is found: the call goes on with it.                           *)
LEMMA FoundGuarded ==
  ASSUME Shape, NEW w \in Workers, NEW d, At(w, d), d \in Scans \cup {"verify"}, Guarded(w),
         UNCHANGED <<bucket, tuples>>, NEW s \in Contacts \ {work[w].k},
         Go(w, [work[w] EXCEPT !.by = s], <<>>, <<>>)
  PROVE  Guarded(w)'
<1>1. work[w] \in Jobs
  BY AtGuard
<1>2. d \notin Fence \cup {"fail", "own", "flush"}
  BY DEF Fence, Scans
<1> DEFINE job == [work[w] EXCEPT !.by = s]
<1>3. /\ job \in Jobs /\ job.todo = work[w].todo /\ job.entry = work[w].entry
      /\ job.k = work[w].k /\ job.kc = work[w].kc /\ job.by = s
  BY <1>1 DEF Jobs
<1>4. Go(w, job, <<>>, <<>>)
  OBVIOUS
<1> HIDE DEF job
<1>5. job.by # None /\ job.by # work[w].k
  BY <1>3, GrantAssumption
<1>6. <<>> \in Seq(Messages) /\ <<>> \in Seq(Steps) /\ \A n \in 1 .. Len(<<>>) : <<>>[n].do \in Light
  BY SmallMessages, LightEmpty
<1>7. \A q \in Pairs : NoPut(<<>>, q)
  BY NoPuts
<1> QED BY <1>2, <1>3, <1>4, <1>5, <1>6, <1>7, ByAdvances

(* Verify keeps what the rest of the program relies on.                    *)
LEMMA VerifyGuarded == ASSUME Shape, NEW w \in Workers, Verify(w), Guarded(w) PROVE Guarded(w)'
<1>1. /\ At(w, "verify") /\ UNCHANGED <<bucket, tuples>>
      /\ "verify" \notin Fence \cup Scans \cup {"fail"}
  BY DEF Verify, local, Fence, Scans
<1>2. \/ \E s \in Contacts \ {work[w].k} : Go(w, [work[w] EXCEPT !.by = s], <<>>, <<>>)
      \/ Go(w, work[w], <<Remove(Pair(w))>>, Only("flush") \o Only("fail"))
  BY JustifiersOthers DEF Verify
<1>3. Pair(w) \in Pairs
  BY <1>1, AtFacts DEF Shape, Paired
<1>4. <<Remove(Pair(w))>> \in Seq(Messages)
  BY <1>3, SmallMessages
<1>5. /\ Only("flush") \o Only("fail") \in Seq(Steps)
      /\ \A n \in 1 .. Len(Only("flush") \o Only("fail")) :
              (Only("flush") \o Only("fail"))[n].do \in Light
  BY <1>3, LightPrograms
<1>6. CASE \E s \in Contacts \ {work[w].k} : Go(w, [work[w] EXCEPT !.by = s], <<>>, <<>>)
  BY <1>1, <1>6, FoundGuarded
<1>7. CASE Go(w, work[w], <<Remove(Pair(w))>>, Only("flush") \o Only("fail"))
  <2>1. PICK steps, msgs : steps = Only("flush") \o Only("fail") /\ msgs = <<Remove(Pair(w))>>
    OBVIOUS
  <2>2. /\ steps \in Seq(Steps) /\ (\A n \in 1 .. Len(steps) : steps[n].do \in Light)
        /\ msgs \in Seq(Messages) /\ Go(w, work[w], msgs, steps) /\ \A q \in Pairs : NoPut(msgs, q)
    BY <1>4, <1>5, <1>7, <2>1, NoPuts
  <2> QED BY <1>1, <2>2, SameAdvances
<1> QED BY <1>2, <1>6, <1>7

(* Scan keeps what the rest of the program relies on.                      *)
LEMMA ScanGuarded == ASSUME Shape, NEW w \in Workers, Scan(w), Guarded(w) PROVE Guarded(w)'
<1>1. PICK d \in Scans :
        /\ At(w, d)
        /\ \/ \E s \in Contacts \ {work[w].k} : Go(w, [work[w] EXCEPT !.by = s], <<>>, <<>>)
           \/ Go(w, [work[w] EXCEPT !.by = None], <<Remove(Pair(w))>>,
                 (IF d = "scanQuick" THEN <<>> ELSE Only("flush")) \o For(<<"recheck">>, Pair(w)))
  BY JustifiersOthers DEF Scan, Scans
<1>2. UNCHANGED <<bucket, tuples>>
  BY DEF Scan, local
<1>3. Pair(w) \in Pairs
  BY <1>1, AtFacts DEF Shape, Paired, Scans
<1>4. <<Remove(Pair(w))>> \in Seq(Messages)
  BY <1>3, SmallMessages
<1> DEFINE steps == (IF d = "scanQuick" THEN <<>> ELSE Only("flush")) \o For(<<"recheck">>, Pair(w))
<1>5. /\ steps \in Seq(Steps) /\ \A n \in 1 .. Len(steps) : steps[n].do \in Light
      /\ d # "scanQuick" => \E n \in 1 .. Len(steps) : steps[n].do = "flush"
  <2>1. CASE d # "scanQuick"
    <3>1. steps = Only("flush") \o For(<<"recheck">>, Pair(w))
      BY <2>1
    <3> HIDE DEF steps
    <3> QED BY <1>3, <3>1, LightPrograms
  <2>2. CASE d = "scanQuick"
    <3>1. For(<<"recheck">>, Pair(w)) \in Seq(Steps)
      BY <1>3, LightPrograms
    <3>2. steps = For(<<"recheck">>, Pair(w))
      BY <2>2, <3>1
    <3> HIDE DEF steps
    <3> QED BY <1>3, <2>2, <3>2, LightPrograms
  <2> QED BY <2>1, <2>2
<1>6. CASE \E s \in Contacts \ {work[w].k} : Go(w, [work[w] EXCEPT !.by = s], <<>>, <<>>)
  BY <1>1, <1>2, <1>6, FoundGuarded
<1>7. CASE Go(w, [work[w] EXCEPT !.by = None], <<Remove(Pair(w))>>, steps)
  <2> DEFINE job == [work[w] EXCEPT !.by = None]
  <2>1. work[w] \in Jobs
    BY <1>1, AtGuard
  <2>2. /\ job \in Jobs /\ job.todo = work[w].todo /\ job.entry = work[w].entry
        /\ job.k = work[w].k /\ job.kc = work[w].kc /\ job.by = None
    BY <2>1 DEF Jobs
  <2>3. Go(w, job, <<Remove(Pair(w))>>, steps)
    BY <1>7
  <2> HIDE DEF job, steps
  <2>4. d \notin Fence \cup {"fail", "own", "flush"} /\ d \in Scans
    BY <1>1 DEF Fence, Scans
  <2>5. d \in {"scan", "scanLive"} => d # "scanQuick"
    OBVIOUS
  <2>6. PICK msgs : msgs = <<Remove(Pair(w))>>
    OBVIOUS
  <2>7. msgs \in Seq(Messages) /\ Go(w, job, msgs, steps) /\ \A q \in Pairs : NoPut(msgs, q)
    BY <1>4, <2>3, <2>6, NoPuts
  <2>8. d \in {"scan", "scanLive"} => \E n \in 1 .. Len(steps) : steps[n].do = "flush"
    BY <1>5, <2>5
  <2> QED BY <1>1, <1>2, <1>3, <1>5, <2>2, <2>4, <2>6, <2>7, <2>8, ByAdvances
<1> QED BY <1>1, <1>6, <1>7

(* Snapshot keeps what the rest of the program relies on.                  *)
LEMMA SnapshotGuarded == ASSUME Shape, NEW w \in Workers, Snapshot(w), Guarded(w) PROVE Guarded(w)'
<1>1. /\ At(w, "snapshot") /\ UNCHANGED <<bucket, tuples>>
      /\ "snapshot" \notin Fence \cup {"fail", "own", "flush"} /\ "snapshot" \notin Scans
  BY DEF Snapshot, local, Fence, Scans
<1>2. work[w] \in Jobs /\ sf \in Views /\ (work[w].by # None => work[w].by # work[w].k)
  BY <1>1, AtGuard DEF Shape, Around
<1> DEFINE job == [work[w] EXCEPT !.view = sf]
<1>3. /\ job \in Jobs /\ job.todo = work[w].todo /\ job.entry = work[w].entry
      /\ job.k = work[w].k /\ job.kc = work[w].kc /\ job.by = work[w].by
  BY <1>2 DEF Jobs
<1>4. Go(w, job, <<>>, <<>>)
  BY DEF Snapshot
<1> HIDE DEF job
<1>5. <<>> \in Seq(Messages) /\ <<>> \in Seq(Steps) /\ \A n \in 1 .. Len(<<>>) : <<>>[n].do \in Light
  BY SmallMessages, LightEmpty
<1>6. "snapshot" \notin {"scan", "scanLive"}
  OBVIOUS
<1>7. job.by # None => job.by # work[w].k
  BY <1>2, <1>3
<1>8. work[w].by # None => job.by # None
  BY <1>3
<1>9. \A q \in Pairs : NoPut(<<>>, q)
  BY NoPuts
<1> QED BY <1>1, <1>3, <1>4, <1>5, <1>6, <1>7, <1>8, <1>9, ByAdvances

(* Passing a handler keeps what the rest of the program relies on.         *)
LEMMA PassGuarded == ASSUME Shape, NEW w \in Workers, Pass(w), Guarded(w) PROVE Guarded(w)'
<1>1. PICK h \in Handlers : At(w, h) /\ Skip(w)
  BY DEF Pass
<1>2. UNCHANGED <<bucket, tuples>>
  BY DEF Pass, local
<1>3. CASE h = "catch"
  <2>1. h \in Fence
    BY <1>3 DEF Fence
  <2> QED BY <1>1, <2>1, SkipRestarts
<1>4. CASE h # "catch"
  <2>1. h \notin Fence \cup Scans \cup {"fail"} /\ h # "own" /\ h # "flush"
    BY <1>4 DEF Fence, Scans, Handlers
  <2> QED BY <1>1, <1>2, <2>1, SkipAdvances
<1> QED BY <1>3, <1>4

(* Own does what a program relies on it for: the sibling names the pair.   *)
LEMMA OwnGuarded == ASSUME Shape, NEW w \in Workers, Own(w), Guarded(w) PROVE Guarded(w)'
<1>1. PICK k, s, p : k = work[w].k /\ s = work[w].by /\ p = Pair(w)
  OBVIOUS
<1>2. /\ At(w, "own")
      /\ \/ (s = None \/ grants[s].pair = p) /\ Skip(w) /\ UNCHANGED bucket
         \/ s # None /\ Go(w, work[w], <<>>, Only("fail")) /\ UNCHANGED bucket
         \/ s # None /\ grants[s].marker = None /\ Skip(w) /\ Name(s, p, grants[s].pair)
  BY <1>1 DEF Own
<1>3. "own" \notin Fence \cup Scans \cup {"fail"} /\ "own" # "flush" /\ UNCHANGED tuples
  BY DEF Fence, Scans, Own
<1>4. /\ work[w] \in Jobs /\ k \in Contacts /\ s \in Contacts \cup {None} /\ (s # None => s # k)
      /\ Around /\ p \in PairOrNone
  BY <1>1, <1>2, AtGuard, AtFacts DEF Shape
<1>5. CASE (s = None \/ grants[s].pair = p) /\ Skip(w) /\ UNCHANGED bucket
  <2>1. s # None /\ p \in Pairs => p \in Settled(k)
    BY <1>4, <1>5 DEF Settled
  <2>2. work[w].by = None \/ Pair(w) \in Settled(work[w].k) \/ Pair(w) \notin Pairs
    BY <1>1, <2>1
  <2> QED BY <1>2, <1>3, <1>5, <2>2, SkipAdvances
<1>6. CASE s # None /\ Go(w, work[w], <<>>, Only("fail")) /\ UNCHANGED bucket
  <2>1. PICK steps : steps = Only("fail")
    OBVIOUS
  <2>2. /\ steps \in Seq(Steps) /\ \A n \in 1 .. Len(steps) : steps[n].do \in Light
        /\ \E n \in 1 .. Len(steps) : steps[n].do = "fail"
    BY <2>1, LightFail
  <2>3. <<>> \in Seq(Messages) /\ Go(w, work[w], <<>>, steps) /\ \A q \in Pairs : NoPut(<<>>, q)
    BY <1>6, <2>1, SmallMessages, NoPuts
  <2> QED BY <1>2, <1>3, <1>6, <2>2, <2>3, SameAdvances
<1>7. CASE s # None /\ grants[s].marker = None /\ Skip(w) /\ Name(s, p, grants[s].pair)
  <2>1. s \in Contacts \ {k}
    BY <1>4, <1>7
  <2>2. Settled(k) \subseteq Settled(k)' /\ (p \in Pairs => p \in Settled(k)')
    <3>1. \A q \in Pairs : NoPut(<<>>, q)
      BY NoPuts
    <3>2. /\ Go(w, work[w], <<>>, <<>>) /\ work[w].todo # <<>> /\ Working
          /\ <<>> \in Seq(Messages) /\ <<>> \in Seq(Steps)
      BY <1>2, <1>7, AtGuard, SmallMessages, LightEmpty DEF Skip, Shape
    <3>3. \A q \in Pairs : ~Out(q) => ~Out(q)'
      BY <1>3, <1>4, <3>1, <3>2, GoIs
    <3> QED BY <1>4, <1>7, <2>1, <3>3, SettledName
  <2>3. Pair(w) \in Settled(k)' \/ Pair(w) \notin Pairs
    BY <1>1, <2>2
  <2>4. <<>> \in Seq(Messages) /\ <<>> \in Seq(Steps) /\ \A n \in 1 .. Len(<<>>) : <<>>[n].do \in Light
    BY SmallMessages, LightEmpty
  <2>5. Go(w, work[w], <<>>, <<>>)
    BY <1>7 DEF Skip
  <2>6. work[w].by # None => work[w].by # k
    BY <1>1, <1>4
  <2>7. "own" \notin Fence \cup {"fail"} /\ "own" \notin {"scan", "scanLive"}
    BY <1>3
  <2>8. PICK d, msgs, steps : d = "own" /\ msgs = <<>> /\ steps = <<>>
    OBVIOUS
  <2>9. /\ At(w, d) /\ d \notin Fence \cup {"fail"} /\ d # "flush" /\ d \notin {"scan", "scanLive"}
        /\ msgs \in Seq(Messages) /\ steps \in Seq(Steps) /\ Go(w, work[w], msgs, steps)
        /\ \A n \in 1 .. Len(steps) : steps[n].do \in Light
        /\ k = work[w].k /\ work[w] \in Jobs
    BY <1>1, <1>2, <1>3, <1>4, <2>4, <2>5, <2>7, <2>8
  <2>10. PICK S, R : S = Settled(k) /\ R = Removes(w)
    OBVIOUS
  <2>11. \A q : NoPut(msgs, q)
    BY <2>8, NoPuts
  <2>12. Guard(work[w], S, R) /\ S \subseteq Settled(k)' /\ Outlast(w, msgs, R)
    BY <1>1, <2>2, <2>10, <2>11 DEF Guarded, Outlast
  <2> QED BY ONLY Shape, w \in Workers, <2>3, <2>6, <2>9, <2>12, AdvanceGuarded
<1> QED BY <1>2, <1>5, <1>6, <1>7

(* ConfirmLive scans again for what the program hands over.                *)
LEMMA ConfirmLiveGuarded ==
  ASSUME Shape, NEW w \in Workers, ConfirmLive(w), Guarded(w)
  PROVE  Guarded(w)'
<1>1. /\ At(w, "confirmLive") /\ UNCHANGED <<bucket, tuples>> /\ Working
      /\ Skip(w) \/ Go(w, work[w], <<>>, For(<<"scanLive">>, Pair(w)))
  BY DEF ConfirmLive, local, Shape, Skip
<1>2. "confirmLive" \notin Fence \cup Scans \cup {"fail"}
  BY DEF Fence, Scans
<1>3. Pair(w) \in Pairs
  BY <1>1, AtFacts DEF Paired
<1>4. CASE Skip(w)
  BY <1>1, <1>2, <1>4, SkipAdvances
<1>5. CASE Go(w, work[w], <<>>, For(<<"scanLive">>, Pair(w)))
  <2>1. PICK s, p : s = Step("scanLive", Pair(w)) /\ p = Pair(w)
    OBVIOUS
  <2>2. /\ For(<<"scanLive">>, Pair(w)) = <<s>> /\ s.do = "scanLive" /\ s.pair = p
        /\ s \in Steps /\ <<s>> \in Seq(Steps)
    BY <1>3, <2>1, OnlyIs DEF Calls
  <2>3. PICK steps : steps = <<s>>
    OBVIOUS
  <2>4. steps \in Seq(Steps) /\ Go(w, work[w], <<>>, steps) /\ <<>> \in Seq(Messages)
    BY <1>5, <2>2, <2>3, SmallMessages
  <2>5. PICK old, new, S, R : old = work[w] /\ new = work'[w] /\ S = Settled(work[w].k) /\ R = Removes(w)
    OBVIOUS
  <2>6. /\ old \in Jobs /\ old.todo # <<>> /\ Guard(old, S, R)
        /\ old.todo[1].do = "confirmLive" /\ old.todo[1].pair = p
        /\ (old.by # None => old.by # old.k)
    BY <1>1, <2>1, <2>5, AtGuard
  <2>7. /\ new.todo = steps \o Tail(old.todo) /\ new.entry = old.entry /\ new.k = old.k
        /\ new.kc = old.kc /\ new.by = old.by /\ Removes(w) \subseteq Removes(w)'
    BY <1>1, <2>4, <2>5, <2>6, GoIs, NoPuts
  <2>8. new.todo = <<s>> \o Tail(old.todo) /\ (new.by # None => new.by # new.k)
    BY <2>3, <2>6, <2>7
  <2>9. Guard(new, S, R)
    BY <2>2, <2>6, <2>7, <2>8, GuardConfirms
  <2>10. PICK k : k = work[w].k
    OBVIOUS
  <2>11. Settled(k) \subseteq Settled(k)'
    BY <1>1, <2>4, <2>5, <2>6, NoPuts, SettledQuiet
  <2>12. PICK S2, R2 : S2 = Settled(k)' /\ R2 = Removes(w)'
    OBVIOUS
  <2>13. Guard(new, S2, R2)
    BY <2>5, <2>7, <2>9, <2>10, <2>11, <2>12, GuardGrows
  <2> QED BY <2>5, <2>7, <2>10, <2>12, <2>13 DEF Guarded
<1> QED BY <1>1, <1>4, <1>5

(* A call is replaced by one that relies on nothing.                       *)
LEMMA OneRestarts ==
  ASSUME Shape, NEW w \in Workers, NEW d, At(w, d), d \in Fence, Guarded(w),
         NEW job \in Jobs, job.todo = work[w].todo, job.k = work[w].k, job.by = work[w].by,
         NEW msgs \in Seq(Messages), NEW s \in Steps,
         s.do \notin Vital \cup {"justify", "justifyLive", "confirmLive"},
         Go(w, job, msgs, <<s>>)
  PROVE  Guarded(w)'
<1>1. job.by # None => job.by # job.k
  BY AtGuard
<1>2. PICK steps : steps = <<s>>
  OBVIOUS
<1>3. steps \in Seq(Steps) /\ Harmless(steps)
  BY <1>2, OnePlain
<1>4. \A S, R : Prepared(job, steps, S, R)
  BY <1>1, <1>3, PreparedHarmless
<1>5. Go(w, job, msgs, steps)
  BY <1>2
<1> QED BY <1>4, <1>5, SameRestarts

(* ... with the job as it is.                                              *)
LEMMA OneFollows ==
  ASSUME Shape, NEW w \in Workers, NEW d, At(w, d), d \in Fence, Guarded(w),
         NEW msgs \in Seq(Messages), NEW c \in Calls,
         c \notin Vital \cup {"justify", "justifyLive", "confirmLive"}, NEW p \in Pairs \cup {None},
         Go(w, work[w], msgs, For(<<c>>, p)) \/ Go(w, work[w], msgs, Only(c))
  PROVE  Guarded(w)'
<1>1. PICK s, s0 : s = Step(c, p) /\ s0 = Step(c, None)
  OBVIOUS
<1>2. s \in Steps /\ s.do = c /\ For(<<c>>, p) = <<s>> /\ s0 \in Steps /\ s0.do = c /\ Only(c) = <<s0>>
  <2>1. p = None => Step(c, p) \in Steps
    BY OnlyIs
  <2> QED BY <1>1, <2>1, OnlyIs
<1>3. work[w] \in Jobs
  BY AtGuard
<1>4. Go(w, work[w], msgs, <<s>>) \/ Go(w, work[w], msgs, <<s0>>)
  BY <1>2
<1>5. CASE Go(w, work[w], msgs, <<s>>)
  BY <1>2, <1>3, <1>5, OneRestarts
<1>6. CASE Go(w, work[w], msgs, <<s0>>)
  BY <1>2, <1>3, <1>6, OneRestarts
<1> QED BY <1>4, <1>5, <1>6

(* ClearMarker, Clear and EraseEntry leave nothing that waited for them.   *)
LEMMA ClearGuarded ==
  ASSUME Shape, NEW w \in Workers, ClearMarker(w) \/ Clear(w) \/ EraseEntry(w), Guarded(w)
  PROVE  Guarded(w)'
<1>1. PICK d \in {"clearMarker", "clear", "erase"} : At(w, d) /\ Skip(w)
  BY DEF ClearMarker, Clear, EraseEntry
<1>2. d \in Fence
  BY DEF Fence
<1> QED BY <1>1, <1>2, SkipRestarts

(* Publish keeps what the rest of the program relies on.                   *)
LEMMA PublishGuarded == ASSUME Shape, NEW w \in Workers, Publish(w), Guarded(w) PROVE Guarded(w)'
<1>1. /\ At(w, "publish") /\ "publish" \in Fence
      /\ \/ Go(w, work[w], <<>>, Only("inactive"))
         \/ Skip(w)
         \/ /\ work[w].kc.pair # None
            /\ Go(w, work[w], <<Put(work[w].kc.pair)>>, For(<<"record">>, work[w].kc.pair))
  BY DEF Publish, Fence
<1>2. work[w].kc.pair \in Pairs \cup {None}
  BY <1>1, AtFacts DEF Shape, Records, Gone
<1>3. /\ "inactive" \in Calls \ (Vital \cup {"justify", "justifyLive", "confirmLive"})
      /\ "record" \in Calls \ (Vital \cup {"justify", "justifyLive", "confirmLive"})
  BY DEF Calls, Vital
<1>4. CASE Go(w, work[w], <<>>, Only("inactive"))
  <2>1. <<>> \in Seq(Messages) /\ None \in Pairs \cup {None}
    BY SmallMessages
  <2> QED BY <1>1, <1>3, <1>4, <2>1, OneFollows
<1>5. CASE Skip(w)
  BY <1>1, <1>5, SkipRestarts
<1>6. CASE /\ work[w].kc.pair # None
           /\ Go(w, work[w], <<Put(work[w].kc.pair)>>, For(<<"record">>, work[w].kc.pair))
  <2>1. work[w].kc.pair \in Pairs
    BY <1>2, <1>6
  <2>2. <<Put(work[w].kc.pair)>> \in Seq(Messages)
    BY <2>1, SmallMessages
  <2>3. PICK msgs, p : msgs = <<Put(work[w].kc.pair)>> /\ p = work[w].kc.pair
    OBVIOUS
  <2>4. msgs \in Seq(Messages) /\ p \in Pairs \cup {None} /\ Go(w, work[w], msgs, For(<<"record">>, p))
    BY <1>6, <2>1, <2>2, <2>3
  <2> QED BY <1>1, <1>3, <2>4, OneFollows
<1> QED BY <1>1, <1>4, <1>5, <1>6

(* Inactive settles the marker before anything else.                       *)
LEMMA InactiveGuarded == ASSUME Shape, NEW w \in Workers, Inactive(w), Guarded(w) PROVE Guarded(w)'
<1>1. PICK p, e, job : p = work[w].kc.pair /\ e = Entry(w) /\ job = work[w]
  OBVIOUS
<1> DEFINE own == For(<<"scan", "own">>, p)
           first == WhenSet(e.marker, RevokeSuperseded(e.marker))
           rest == IF p # None /\ e.pair = None THEN own
                   ELSE (IF p # None /\ e.pair # p THEN own ELSE <<>>) \o Only("expire")
<1>2. At(w, "inactive") /\ "inactive" \in Fence /\ Go(w, job, <<>>, first \o rest)
  BY <1>1 DEF Inactive, Fence
<1>3. /\ job \in Jobs /\ (job.by # None => job.by # job.k) /\ p \in Pairs \cup {None}
      /\ e.marker \in Pairs \cup {None}
  <2>1. work[w] \in Jobs /\ work[w].k \in Contacts /\ work[w].kc \in Records
    BY <1>2, AtFacts DEF Shape
  <2>2. Entry(w) \in Entries
    BY <2>1, EntryTyped DEF Shape
  <2> QED BY <1>1, <1>2, <2>1, <2>2, AtGuard DEF Records, Gone, Entries
<1>4. ASSUME NEW S, NEW R PROVE Prepared(job, first \o rest, S, R)
  <2>1. Prepared(job, first, S, R)
    <3>1. CASE e.marker = None
      <4>1. first = <<>>
        BY <3>1 DEF WhenSet
      <4> HIDE DEF first
      <4> QED BY <1>3, <4>1, LineEmpty DEF Line, Prepared
    <3>2. CASE e.marker # None
      <4>1. first = RevokeSuperseded(e.marker) /\ e.marker \in Pairs
        BY <1>3, <3>2 DEF WhenSet
      <4> HIDE DEF first
      <4> QED BY <1>3, <4>1, ReadyRevoke
    <3> QED BY <3>1, <3>2
  <2>2. p # None => own \in Seq(Steps) /\ Harmless(own)
    <3>1. p # None => Secured(own, p)
      BY <1>3, RevokesSecure
    <3> HIDE DEF own
    <3> QED BY <3>1 DEF Secured
  <2>3. <<>> \in Seq(Steps) /\ Harmless(<<>>)
    BY <1>3, LineEmpty DEF Line
  <2>4. Only("expire") \in Seq(Steps) /\ Harmless(Only("expire"))
    <3>1. PICK s : s = Step("expire", None)
      OBVIOUS
    <3>2. s \in Steps /\ s.do = "expire" /\ Only("expire") = <<s>>
      BY <3>1, OnlyIs DEF Calls
    <3> QED BY <3>2, OnePlain DEF Vital
  <2>5. PICK x \in Seq(Steps) : Harmless(x) /\ (rest = x \/ rest = x \o Only("expire"))
    <3>1. CASE p # None /\ e.pair = None
      BY <2>2, <3>1
    <3>2. CASE p # None /\ e.pair # None /\ e.pair # p
      BY <2>2, <3>2
    <3>3. CASE p = None \/ (e.pair = p /\ e.pair # None)
      <4>1. rest = <<>> \o Only("expire")
        BY <3>3
      <4> QED BY <2>3, <4>1
    <3> QED BY <3>1, <3>2, <3>3
  <2> HIDE DEF first, rest
  <2>6. Prepared(job, first \o x, S, R) /\ first \in Seq(Steps)
    BY <1>3, <2>1, <2>5, PreparedThen DEF Prepared
  <2>7. Prepared(job, (first \o x) \o Only("expire"), S, R)
    BY <1>3, <2>4, <2>6, PreparedThen
  <2>8. (first \o x) \o Only("expire") = first \o (x \o Only("expire"))
    BY <2>4, <2>6, Assoc
  <2> QED BY <2>5, <2>6, <2>7, <2>8
<1> HIDE DEF first, rest
<1>5. PICK steps : steps = first \o rest
  OBVIOUS
<1>6. Go(w, job, <<>>, steps) /\ <<>> \in Seq(Messages) /\ \A S, R : Prepared(job, steps, S, R)
  BY <1>2, <1>4, <1>5, SmallMessages
<1> QED BY <1>1, <1>2, <1>3, <1>6, SameRestarts

(* Record brings in the revoke of the pair replaced, or of the marker.     *)
LEMMA RecordGuarded == ASSUME Shape, NEW w \in Workers, Record(w), Guarded(w) PROVE Guarded(w)'
<1>1. PICK p, e, job : p = Pair(w) /\ e = Entry(w) /\ job = work[w]
  OBVIOUS
<1>2. /\ At(w, "record") /\ "record" \in Fence
      /\ \/ Skip(w)
         \/ e.pair \notin {None, p} /\ Go(w, job, <<>>, RevokeSuperseded(e.pair))
         \/ /\ e.marker \notin {None, p}
            /\ Go(w, [job EXCEPT !.entry = e], <<>>, Drain(e.marker) \o For(<<"write">>, p))
  BY <1>1 DEF Record, Fence
<1>3. /\ job \in Jobs /\ (job.by # None => job.by # job.k) /\ p \in Pairs
      /\ e \in Entries /\ e.pair \in Pairs \cup {None} /\ e.marker \in Pairs \cup {None}
  <2>1. work[w].k \in Contacts /\ Pair(w) \in Pairs
    BY <1>2, AtFacts DEF Shape, Paired
  <2>2. Entry(w) \in Entries
    BY <2>1, EntryTyped DEF Shape
  <2> QED BY <1>1, <1>2, <2>1, <2>2, AtGuard DEF Entries
<1>4. CASE Skip(w)
  BY <1>2, <1>4, SkipRestarts
<1>5. CASE e.pair \notin {None, p} /\ Go(w, job, <<>>, RevokeSuperseded(e.pair))
  <2>1. PICK steps : steps = RevokeSuperseded(e.pair)
    OBVIOUS
  <2>2. \A S, R : Prepared(job, steps, S, R)
    BY <1>3, <1>5, <2>1, ReadyRevoke
  <2>3. Go(w, job, <<>>, steps) /\ <<>> \in Seq(Messages)
    BY <1>5, <2>1, SmallMessages
  <2> QED BY <1>1, <1>2, <1>3, <2>2, <2>3, SameRestarts
<1>6. CASE /\ e.marker \notin {None, p}
           /\ Go(w, [job EXCEPT !.entry = e], <<>>, Drain(e.marker) \o For(<<"write">>, p))
  <2> DEFINE new == [job EXCEPT !.entry = e]
  <2>1. /\ new \in Jobs /\ new.entry = e /\ new.k = job.k /\ new.todo = job.todo
        /\ (new.by # None => new.by # new.k)
    BY <1>3 DEF Jobs
  <2> HIDE DEF new
  <2>2. PICK steps : steps = Drain(e.marker) \o For(<<"write">>, p)
    OBVIOUS
  <2>3. \A S, R : Prepared(new, steps, S, R)
    BY <1>3, <1>6, <2>1, <2>2, ReadyWrite
  <2>4. Go(w, new, <<>>, steps) /\ <<>> \in Seq(Messages)
    BY <1>6, <2>2, SmallMessages DEF new
  <2> QED BY <1>1, <1>2, <2>1, <2>3, <2>4, SameRestarts
<1> QED BY <1>2, <1>4, <1>5, <1>6

(* Write brings in the revoke of the pair it replaces.                     *)
LEMMA WriteGuarded == ASSUME Shape, NEW w \in Workers, Write(w), Guarded(w) PROVE Guarded(w)'
<1>1. PICK q, job : q = work[w].entry.pair /\ job = work[w]
  OBVIOUS
<1>2. /\ At(w, "write") /\ "write" \in Fence
      /\ \/ Go(w, job, <<>>, RevokeSuperseded(q))
         \/ Go(w, job, <<>>, For(<<"record">>, Pair(w)))
  BY <1>1 DEF Write, Fence
<1>3. /\ job \in Jobs /\ (job.by # None => job.by # job.k) /\ q \in Pairs
      /\ Pair(w) \in Pairs \cup {None}
  BY <1>1, <1>2, AtGuard, AtFacts DEF Shape, PairOrNone
<1>4. CASE Go(w, job, <<>>, RevokeSuperseded(q))
  <2>1. PICK steps : steps = RevokeSuperseded(q)
    OBVIOUS
  <2>2. \A S, R : Prepared(job, steps, S, R)
    BY <1>3, <2>1, ReadyRevoke
  <2>3. Go(w, job, <<>>, steps) /\ <<>> \in Seq(Messages)
    BY <1>4, <2>1, SmallMessages
  <2> QED BY <1>1, <1>2, <1>3, <2>2, <2>3, SameRestarts
<1>5. CASE Go(w, job, <<>>, For(<<"record">>, Pair(w)))
  <2>1. <<>> \in Seq(Messages) /\ Go(w, work[w], <<>>, For(<<"record">>, Pair(w)))
    BY <1>1, <1>5, SmallMessages
  <2>2. "record" \in Calls /\ "record" \notin Vital \cup {"justify", "justifyLive", "confirmLive"}
    BY DEF Calls, Vital
  <2> QED BY <1>2, <1>3, <2>1, <2>2, OneFollows
<1> QED BY <1>2, <1>4, <1>5

(* Claim is followed by what goes by the entry claimed.                    *)
LEMMA ClaimGuarded == ASSUME Shape, NEW w \in Workers, Claim(w), Guarded(w) PROVE Guarded(w)'
<1>1. /\ At(w, "claim") /\ "claim" \in Fence
      /\ Go(w, work[w], <<>>, Only("claimed")) \/ Skip(w)
  BY DEF Claim, Fence
<1>2. CASE Skip(w)
  BY <1>1, <1>2, SkipRestarts
<1>3. CASE Go(w, work[w], <<>>, Only("claimed"))
  <2>1. <<>> \in Seq(Messages) /\ None \in Pairs \cup {None}
    BY SmallMessages
  <2>2. "claimed" \in Calls /\ "claimed" \notin Vital \cup {"justify", "justifyLive", "confirmLive"}
    BY DEF Calls, Vital
  <2> QED BY <1>1, <1>3, <2>1, <2>2, OneFollows
<1> QED BY <1>1, <1>2, <1>3

(* Claimed removes the pair before what relies on it.                      *)
LEMMA ClaimedGuarded == ASSUME Shape, NEW w \in Workers, Claimed(w), Guarded(w) PROVE Guarded(w)'
<1>1. PICK p, e, old : p = work[w].entry.pair /\ e = Entry(w) /\ old = work[w]
  OBVIOUS
<1>2. /\ At(w, "claimed") /\ "claimed" \in Fence
      /\ \/ Go(w, work[w], <<>>, Only("fail"))
         \/ Skip(w)
         \/ /\ e.pair = p
            /\ Go(w, [old EXCEPT !.entry = e], <<Remove(p)>>,
                  Only("flush") \o For(<<"regranted", "compare">>, p))
  BY <1>1 DEF Claimed, Fence
<1>3. /\ old \in Jobs /\ (old.by # None => old.by # old.k) /\ p \in Pairs
      /\ e \in Entries /\ old.todo # <<>> /\ Working
  <2>1. work[w].k \in Contacts /\ work[w].entry.pair \in Pairs
    BY <1>2, AtFacts DEF Shape, ByEntry
  <2>2. Entry(w) \in Entries
    BY <2>1, EntryTyped DEF Shape
  <2> QED BY <1>1, <1>2, <2>1, <2>2, AtGuard DEF Shape
<1>4. CASE Go(w, work[w], <<>>, Only("fail"))
  <2>1. <<>> \in Seq(Messages) /\ None \in Pairs \cup {None}
    BY SmallMessages
  <2>2. "fail" \in Calls /\ "fail" \notin Vital \cup {"justify", "justifyLive", "confirmLive"}
    BY DEF Calls, Vital
  <2> QED BY <1>2, <1>4, <2>1, <2>2, OneFollows
<1>5. CASE Skip(w)
  BY <1>2, <1>5, SkipRestarts
<1>6. CASE /\ e.pair = p
           /\ Go(w, [old EXCEPT !.entry = e], <<Remove(p)>>,
                 Only("flush") \o For(<<"regranted", "compare">>, p))
  <2> DEFINE job == [old EXCEPT !.entry = e]
  <2>1. /\ job \in Jobs /\ job.entry = e /\ job.k = old.k /\ job.todo = old.todo
        /\ (job.by # None => job.by # job.k)
    BY <1>3 DEF Jobs
  <2> HIDE DEF job
  <2>2. PICK steps, msgs : /\ steps = Only("flush") \o For(<<"regranted", "compare">>, p)
                           /\ msgs = <<Remove(p)>>
    OBVIOUS
  <2>3. PICK S2, R2, k : S2 = Settled(k)' /\ R2 = Removes(w)' /\ k = work[w].k
    <3>1. PICK k : k = work[w].k
      OBVIOUS
    <3>2. PICK S2, R2 : S2 = Settled(k)' /\ R2 = Removes(w)'
      OBVIOUS
    <3> QED BY <3>1, <3>2
  <2>4. Go(w, job, msgs, steps) /\ msgs \in Seq(Messages)
    BY <1>3, <1>6, <2>2, SmallMessages DEF job
  <2>5. steps \in Seq(Steps)
    <3>1. Prepared(job, steps, {}, {p})
      BY <1>3, <1>6, <2>1, <2>2, ReadyCompare
    <3> QED BY <3>1 DEF Prepared
  <2>6. p \in R2
    <3>1. job.todo # <<>>
      BY <1>3, <2>1
    <3> QED BY <1>3, <2>1, <2>2, <2>3, <2>4, <2>5, <3>1, GoIs
  <2>7. Prepared(job, steps, S2, R2)
    BY <1>3, <1>6, <2>1, <2>2, <2>6, ReadyCompare
  <2> QED BY <1>1, <1>2, <2>1, <2>3, <2>4, <2>7, RestartGuarded
<1> QED BY <1>2, <1>4, <1>5, <1>6

(* Compare relied on what Clear relies on.                                 *)
LEMMA CompareGuarded == ASSUME Shape, NEW w \in Workers, Compare(w), Guarded(w) PROVE Guarded(w)'
<1>1. PICK job, k : job = work[w] /\ k = work[w].k
  OBVIOUS
<1>2. /\ At(w, "compare") /\ "compare" \in Fence /\ UNCHANGED <<bucket, tuples>>
      /\ \/ Skip(w)
         \/ Go(w, work[w], <<Put(Pair(w))>>, Only("flush"))
         \/ Go(w, job, <<>>, Only("clear"))
  BY <1>1 DEF Compare, Fence, local
<1>3. /\ job \in Jobs /\ (job.by # None => job.by # job.k) /\ Pair(w) \in Pairs
      /\ job.todo[1].do = "compare"
  BY <1>1, <1>2, AtGuard, AtFacts DEF Shape, Paired
<1>4. CASE Skip(w)
  BY <1>2, <1>4, SkipRestarts
<1>5. CASE Go(w, work[w], <<Put(Pair(w))>>, Only("flush"))
  <2>1. <<Put(Pair(w))>> \in Seq(Messages) /\ None \in Pairs \cup {None}
    BY <1>3, SmallMessages
  <2>2. "flush" \in Calls /\ "flush" \notin Vital \cup {"justify", "justifyLive", "confirmLive"}
    BY DEF Calls, Vital
  <2>3. PICK msgs : msgs = <<Put(Pair(w))>>
    OBVIOUS
  <2>4. msgs \in Seq(Messages) /\ Go(w, work[w], msgs, Only("flush"))
    BY <1>5, <2>1, <2>3
  <2> QED BY <1>2, <2>1, <2>2, <2>4, OneFollows
<1>6. CASE Go(w, job, <<>>, Only("clear"))
  <2>1. job.entry.pair \in Pairs \ {job.entry.marker} => job.entry.pair \in Settled(k)
    <3>1. job.entry.pair \in Pairs \ {job.entry.marker} =>
            Relies(work[w], work[w].todo[1], job.entry.pair)
      BY <1>1, <1>3 DEF Relies
    <3> QED BY <1>1, <1>2, <3>1, HeadSettled
  <2>2. Settled(k) \subseteq Settled(k)'
    <3>1. PICK steps : steps = Only("clear")
      OBVIOUS
    <3>0. PICK s : s = Step("clear", None)
      OBVIOUS
    <3>2. steps \in Seq(Steps) /\ Go(w, job, <<>>, steps) /\ <<>> \in Seq(Messages)
      <4>1. s \in Steps /\ steps = <<s>>
        BY <3>0, <3>1, OnlyIs DEF Calls
      <4>2. <<s>> \in Seq(Steps)
        BY <4>1
      <4> QED BY <1>6, <3>1, <4>1, <4>2, SmallMessages
    <3>3. \A q \in Pairs : NoPut(<<>>, q)
      BY NoPuts
    <3> QED BY <1>1, <1>2, <1>3, <3>2, <3>3, SettledQuiet
  <2>3. PICK S2, R2 : S2 = Settled(k)' /\ R2 = Removes(w)'
    OBVIOUS
  <2>4. PICK s : s = Step("clear", None)
    OBVIOUS
  <2>5. s \in Steps /\ s.do = "clear" /\ Only("clear") = <<s>>
    BY <2>4, OnlyIs DEF Calls
  <2>6. Line(job, <<>>, S2, R2)
    BY <1>3, LineEmpty
  <2>7. Settles(job, <<>>, s, S2)
    BY <2>1, <2>2, <2>3, <2>5 DEF Settles, Relies
  <2>8. s.do \in Vital
    BY <2>5 DEF Vital
  <2>9. Prepared(job, <<>> \o <<s>>, S2, R2)
    BY <1>3, <2>5, <2>6, <2>7, <2>8, LineEnd
  <2>10. <<>> \o <<s>> = <<s>>
    BY <2>5
  <2>11. PICK steps : steps = <<s>>
    OBVIOUS
  <2>12. /\ Prepared(job, steps, S2, R2) /\ Go(w, job, <<>>, steps) /\ <<>> \in Seq(Messages)
         /\ job.todo = work[w].todo /\ job.k = k
    BY <1>1, <1>6, <2>5, <2>9, <2>10, <2>11, SmallMessages
  <2> QED BY <1>1, <1>2, <1>3, <2>3, <2>12, RestartGuarded
<1> QED BY <1>2, <1>4, <1>5, <1>6

(* Lookup reads the entry that the rest goes by.                           *)
LEMMA LookupGuarded == ASSUME Shape, NEW w \in Workers, Lookup(w), Guarded(w) PROVE Guarded(w)'
<1>1. PICK e, old : e = Entry(w) /\ old = work[w]
  OBVIOUS
<1>2. /\ At(w, "lookup") /\ "lookup" \in Fence
      /\ Go(w, [old EXCEPT !.entry = e], <<>>, <<>>)
  BY <1>1 DEF Lookup, Fence
<1>3. old \in Jobs /\ (old.by # None => old.by # old.k) /\ e \in Entries
  BY <1>1, <1>2, AtGuard, EntryTyped DEF Shape
<1> DEFINE job == [old EXCEPT !.entry = e]
<1>4. /\ job \in Jobs /\ job.k = old.k /\ job.todo = old.todo
      /\ (job.by # None => job.by # job.k)
  BY <1>3 DEF Jobs
<1>5. Go(w, job, <<>>, <<>>) /\ <<>> \in Seq(Messages)
  BY <1>2, SmallMessages
<1> HIDE DEF job
<1>6. \A S, R : Prepared(job, <<>>, S, R)
  BY <1>4, LineEmpty DEF Line, Prepared
<1> QED BY <1>1, <1>2, <1>4, <1>5, <1>6, SameRestarts

(* Withdraw settles the pair, and a marker, before the entry goes.         *)
LEMMA WithdrawGuarded == ASSUME Shape, NEW w \in Workers, Withdraw(w), Guarded(w) PROVE Guarded(w)'
<1>1. PICK e, job : e = work[w].entry /\ job = work[w]
  OBVIOUS
<1>2. PICK steps : steps = IF e.pair = None
                           THEN WhenSet(e.marker, RevokeConfirmed(e.marker) \o Only("erase"))
                           ELSE RevokeConfirmed(e.pair) \o Only("stop")
                            \o WhenSet(e.marker, RevokeConfirmed(e.marker) \o Only("keepMarker"))
                            \o Only("erase")
  OBVIOUS
<1>3. /\ At(w, "withdraw") /\ "withdraw" \in Fence /\ Go(w, job, <<>>, steps)
      /\ <<>> \in Seq(Messages)
  BY <1>1, <1>2, SmallMessages DEF Withdraw, Fence
<1>4. job \in Jobs /\ (job.by # None => job.by # job.k) /\ e = job.entry
  BY <1>1, <1>3, AtGuard
<1>5. \A S, R : Prepared(job, steps, S, R)
  BY <1>2, <1>4, ReadyWithdraw
<1> QED BY <1>1, <1>3, <1>4, <1>5, SameRestarts

(* SettleStale settles the pair that is not the record's own.              *)
LEMMA SettleStaleGuarded ==
  ASSUME Shape, NEW w \in Workers, SettleStale(w), Guarded(w)
  PROVE  Guarded(w)'
<1>1. PICK e, job : e = work[w].entry /\ job = work[w]
  OBVIOUS
<1>2. PICK steps : steps = (IF e.pair \in {None, OwnPair(job)} THEN <<>>
                            ELSE For(<<"scan", "own">>, e.pair)) \o Only("delete")
  OBVIOUS
<1>3. /\ At(w, "settleStale") /\ "settleStale" \in Fence /\ Go(w, job, <<>>, steps)
      /\ <<>> \in Seq(Messages)
  BY <1>1, <1>2, SmallMessages DEF SettleStale, Fence
<1>4. job \in Jobs /\ (job.by # None => job.by # job.k) /\ e = job.entry
  BY <1>1, <1>3, AtGuard
<1>5. \A S, R : Prepared(job, steps, S, R)
  BY <1>2, <1>4, ReadySettle
<1> QED BY <1>1, <1>3, <1>4, <1>5, SameRestarts

(* DeleteRecord settles what its entry names before the entry goes.        *)
LEMMA DeleteRecordGuarded ==
  ASSUME Shape, NEW w \in Workers, DeleteRecord(w), Guarded(w)
  PROVE  Guarded(w)'
<1>1. PICK e, job, p, k : e = work[w].entry /\ job = work[w] /\ p = OwnPair(job) /\ k = work[w].k
  OBVIOUS
<1>2. PICK steps : steps = WhenSet(p, For(<<"scan", "recover", "own", "stop">>, p))
                           \o WhenSet(e.marker, Drain(e.marker) \o Only("keepMarker"))
                           \o Only("erase")
  OBVIOUS
<1>3. /\ At(w, "delete") /\ "delete" \in Fence /\ <<>> \in Seq(Messages) /\ UNCHANGED <<bucket, tuples>>
      /\ Go(w, job, <<>>, steps) \/ Go(w, work[w], <<>>, Only("fail"))
  BY <1>1, <1>2, SmallMessages DEF DeleteRecord, Fence
<1>4. /\ job \in Jobs /\ (job.by # None => job.by # job.k) /\ e = job.entry
      /\ job.todo[1].do = "delete" /\ job.todo = work[w].todo /\ job.k = k
  BY <1>1, <1>3, AtGuard
<1>5. CASE Go(w, work[w], <<>>, Only("fail"))
  <2>1. "fail" \in Calls /\ "fail" \notin Vital \cup {"justify", "justifyLive", "confirmLive"}
    BY DEF Calls, Vital
  <2>2. None \in Pairs \cup {None}
    OBVIOUS
  <2> QED BY <1>3, <1>5, <2>1, <2>2, OneFollows
<1>6. CASE Go(w, job, <<>>, steps)
  <2>1. e.pair \in Pairs /\ e.pair # p => e.pair \in Settled(k)
    <3>1. e.pair \in Pairs /\ e.pair # p => Relies(work[w], work[w].todo[1], e.pair)
      BY <1>1, <1>4 DEF Relies
    <3> QED BY <1>1, <1>3, <3>1, HeadSettled
  <2>2. Settled(k) \subseteq Settled(k)'
    <3>1. steps \in Seq(Steps)
      <4>1. \A S, R : (e.pair \in Pairs /\ e.pair # p => e.pair \in S) => Prepared(job, steps, S, R)
        BY <1>1, <1>2, <1>4, ReadyDelete
      <4>2. Prepared(job, steps, Pairs, {})
        BY <4>1
      <4> QED BY <4>2 DEF Prepared
    <3>2. \A q \in Pairs : NoPut(<<>>, q)
      BY NoPuts
    <3> QED BY <1>3, <1>4, <1>6, <3>1, <3>2, SettledQuiet
  <2>3. PICK S2, R2 : S2 = Settled(k)' /\ R2 = Removes(w)'
    OBVIOUS
  <2>4. e.pair \in Pairs /\ e.pair # p => e.pair \in S2
    BY <2>1, <2>2, <2>3
  <2>5. Prepared(job, steps, S2, R2)
    BY <1>1, <1>2, <1>4, <2>4, ReadyDelete
  <2> QED BY <1>1, <1>3, <1>4, <1>6, <2>3, <2>5, RestartGuarded
<1> QED BY <1>3, <1>5, <1>6

(* Expire reads the entry that the rest goes by.                           *)
LEMMA ExpireGuarded == ASSUME Shape, NEW w \in Workers, Expire(w), Guarded(w) PROVE Guarded(w)'
<1>1. PICK e, old, d : /\ e = Entry(w) /\ old = work[w] /\ d \in {"expire", "expireLive"} /\ At(w, d)
                       /\ Go(w, [old EXCEPT !.entry = e], <<>>,
                             IF e.pair = None THEN <<>>
                             ELSE For(<<IF d = "expire" THEN "justify" ELSE "justifyLive">>, e.pair))
  BY DEF Expire
<1>2. d \in Fence
  BY <1>1 DEF Fence
<1>3. old \in Jobs /\ (old.by # None => old.by # old.k) /\ e \in Entries
  BY <1>1, AtGuard, EntryTyped DEF Shape
<1> DEFINE job == [old EXCEPT !.entry = e]
<1>4. /\ job \in Jobs /\ job.k = old.k /\ job.todo = old.todo /\ job.entry = e
      /\ (job.by # None => job.by # job.k)
  BY <1>3 DEF Jobs
<1>5. \/ Go(w, job, <<>>, <<>>)
      \/ \E c \in {"justify", "justifyLive"} : e.pair # None /\ Go(w, job, <<>>, For(<<c>>, e.pair))
  <2>1. CASE e.pair = None
    BY <1>1, <2>1
  <2>2. CASE e.pair # None /\ d = "expire"
    BY <1>1, <2>2
  <2>3. CASE e.pair # None /\ d = "expireLive"
    BY <1>1, <2>3
  <2> QED BY <1>1, <2>1, <2>2, <2>3
<1> HIDE DEF job
<1>6. CASE Go(w, job, <<>>, <<>>)
  <2>1. \A S, R : Prepared(job, <<>>, S, R)
    BY <1>4, LineEmpty DEF Line, Prepared
  <2>2. <<>> \in Seq(Messages)
    BY SmallMessages
  <2> QED BY <1>1, <1>2, <1>4, <1>6, <2>1, <2>2, SameRestarts
<1>7. ASSUME NEW c \in {"justify", "justifyLive"}, e.pair # None, Go(w, job, <<>>, For(<<c>>, e.pair))
      PROVE  Guarded(w)'
  <2>1. PICK s : s = Step(c, e.pair)
    OBVIOUS
  <2>2. s \in Steps /\ s.do = c /\ s.pair = e.pair /\ For(<<c>>, e.pair) = <<s>>
    <3>1. e.pair \in Pairs
      BY <1>3, <1>7 DEF Entries
    <3> QED BY <2>1, <3>1, OnlyIs DEF Calls
  <2>3. PICK steps : steps = <<s>>
    OBVIOUS
  <2>4. steps \in Seq(Steps) /\ \A n \in 1 .. Len(steps) : n = 1 /\ steps[n] = s
    <3>1. Len(steps) = 1 /\ steps[1] = s
      BY <2>3
    <3>2. \A n \in 1 .. Len(steps) : n = 1
      BY <3>1
    <3>3. steps \in Seq(Steps)
      BY <2>2, <2>3
    <3> QED BY <3>1, <3>2, <3>3
  <2>5. ASSUME NEW S, NEW R PROVE Prepared(job, steps, S, R)
    <3> DEFINE bare == [job EXCEPT !.todo = steps]
    <3>1. /\ bare.todo = steps /\ bare.entry = e /\ bare.k = job.k /\ bare.by = job.by
      BY <1>4 DEF Jobs
    <3> HIDE DEF bare
    <3>2. Confirming(bare.todo) /\ Justifying(bare)
      BY <2>2, <2>4, <3>1 DEF Confirming, Justifying
    <3>3. \A i \in 1 .. Len(bare.todo) : bare.todo[i].do \notin Vital
      BY <2>2, <2>4, <3>1 DEF Vital
    <3>4. Guard(bare, S, R)
      BY <1>4, <2>4, <3>1, <3>2, <3>3, GuardPlain
    <3> QED BY <2>4, <3>4 DEF Prepared, Ready, bare
  <2>6. <<>> \in Seq(Messages) /\ Go(w, job, <<>>, steps)
    BY <1>7, <2>2, <2>3, SmallMessages
  <2>7. \A S, R : Prepared(job, steps, S, R)
    BY <2>5
  <2> QED BY <1>1, <1>2, <1>4, <2>6, <2>7, SameRestarts
<1> QED BY <1>5, <1>6, <1>7

(* Justify hands the pair over before what relies on it.                   *)
LEMMA JustifyGuarded == ASSUME Shape, NEW w \in Workers, Justify(w), Guarded(w) PROVE Guarded(w)'
<1>1. PICK d \in {"justify", "justifyLive"} :
        /\ At(w, d)
        /\ \/ \E s \in Contacts \ {work[w].k} :
                Go(w, [work[w] EXCEPT !.by = s], <<>>, For(<<"own">>, Pair(w)) \o Only("clear"))
           \/ Go(w, work[w], <<>>, Only("claim"))
  BY JustifiersOthers DEF Justify
<1>2. d \in Fence
  BY DEF Fence
<1>3. work[w] \in Jobs /\ work[w].entry.pair \in Pairs /\ Pair(w) = work[w].entry.pair
  <2>1. /\ work[w] \in Jobs /\ Justifying(work[w]) /\ 1 \in 1 .. Len(work[w].todo)
        /\ work[w].todo[1].do = d /\ work[w].todo[1].pair = Pair(w)
    BY <1>1, AtGuard DEF Guard
  <2>2. work[w].entry.pair \in Pairs
    BY <1>1, AtFacts DEF Shape, ByEntry
  <2> QED BY <2>1, <2>2 DEF Justifying
<1>4. CASE Go(w, work[w], <<>>, Only("claim"))
  <2>1. "claim" \in Calls /\ "claim" \notin Vital \cup {"justify", "justifyLive", "confirmLive"}
    BY DEF Calls, Vital
  <2>2. None \in Pairs \cup {None} /\ <<>> \in Seq(Messages)
    BY SmallMessages
  <2> QED BY <1>1, <1>2, <1>4, <2>1, <2>2, OneFollows
<1>5. ASSUME NEW s \in Contacts \ {work[w].k},
             Go(w, [work[w] EXCEPT !.by = s], <<>>, For(<<"own">>, Pair(w)) \o Only("clear"))
      PROVE  Guarded(w)'
  <2> DEFINE job == [work[w] EXCEPT !.by = s]
  <2>1. /\ job \in Jobs /\ job.todo = work[w].todo /\ job.entry = work[w].entry
        /\ job.k = work[w].k /\ job.by = s
    BY <1>3 DEF Jobs
  <2>2. PICK steps : steps = For(<<"own">>, Pair(w)) \o Only("clear")
    OBVIOUS
  <2>3. Go(w, job, <<>>, steps) /\ <<>> \in Seq(Messages)
    BY <1>5, <2>2, SmallMessages
  <2> HIDE DEF job
  <2>4. job.by # None /\ job.by # job.k /\ job.entry.pair \in Pairs
        /\ steps = For(<<"own">>, job.entry.pair) \o Only("clear")
    BY <1>3, <2>1, <2>2, GrantAssumption
  <2>5. \A S, R : Prepared(job, steps, S, R)
    BY <2>1, <2>4, ReadyHandover
  <2> QED BY <1>1, <1>2, <2>1, <2>3, <2>5, SameRestarts
<1> QED BY <1>1, <1>4, <1>5

(* One after the other, too.                                               *)
LEMMA HarmlessConcat ==
  ASSUME NEW a \in Seq(Steps), NEW b \in Seq(Steps), Harmless(a), Harmless(b)
  PROVE  a \o b \in Seq(Steps) /\ Harmless(a \o b)
<1>1. PICK u : u = a \o b
  OBVIOUS
<1>2. /\ u \in Seq(Steps) /\ Len(u) = Len(a) + Len(b)
      /\ Len(a) \in Nat /\ Len(b) \in Nat
      /\ \A i \in 1 .. Len(a) : i \in 1 .. Len(u) /\ u[i] = a[i]
      /\ \A i \in 1 .. Len(u) :
              \/ i \in 1 .. Len(a) /\ u[i] = a[i]
              \/ i - Len(a) \in 1 .. Len(b) /\ u[i] = b[i - Len(a)]
  BY <1>1, ConcatFacts
<1>3. \A n \in 1 .. Len(u) : u[n].do \notin Vital \cup {"justify", "justifyLive"}
  BY <1>2 DEF Harmless
<1>4. ASSUME NEW h \in 1 .. Len(u), u[h].do = "confirmLive"
      PROVE  h + 2 <= Len(u) /\ u[h + 1].do = "reassert" /\ Owns(u, h + 2, u[h].pair)
  <2>1. CASE h \in 1 .. Len(a) /\ u[h] = a[h]
    <3>1. h + 2 <= Len(a) /\ a[h + 1].do = "reassert" /\ Owns(a, h + 2, a[h].pair)
      BY <1>4, <2>1 DEF Harmless, Confirming
    <3>2. h + 1 \in 1 .. Len(a) /\ h + 2 \in 1 .. Len(a)
      BY <1>2, <3>1
    <3>3. u[h + 1] = a[h + 1] /\ u[h + 2] = a[h + 2] /\ h + 2 <= Len(u)
      BY <1>2, <3>1, <3>2
    <3> QED BY <2>1, <3>1, <3>3 DEF Owns
  <2>2. CASE h - Len(a) \in 1 .. Len(b) /\ u[h] = b[h - Len(a)]
    <3>1. PICK g \in 1 .. Len(b) : g = h - Len(a)
      BY <2>2
    <3>2. g + 2 <= Len(b) /\ b[g + 1].do = "reassert" /\ Owns(b, g + 2, b[g].pair)
      BY <1>4, <2>2, <3>1 DEF Harmless, Confirming
    <3>3. /\ h + 2 <= Len(u) /\ h + 1 \in 1 .. Len(u) /\ h + 2 \in 1 .. Len(u)
          /\ h + 1 - Len(a) = g + 1 /\ h + 2 - Len(a) = g + 2
          /\ h + 1 \notin 1 .. Len(a) /\ h + 2 \notin 1 .. Len(a)
      <4>1. /\ Len(u) = Len(a) + Len(b) /\ Len(a) \in Nat /\ Len(b) \in Nat
            /\ g = h - Len(a) /\ h \in Int /\ g \in Int /\ 1 <= g /\ g + 2 <= Len(b)
        BY <1>2, <3>1, <3>2
      <4> QED BY <4>1
    <3>4. u[h + 1] = b[g + 1] /\ u[h + 2] = b[g + 2]
      BY <1>2, <3>3
    <3> QED BY <2>2, <3>1, <3>2, <3>3, <3>4 DEF Owns
  <2> QED BY <1>2, <2>1, <2>2
<1> QED BY <1>1, <1>2, <1>3, <1>4 DEF Harmless, Confirming

(* A call starts a program that relies on nothing.                         *)
LEMMA HarmlessRestarts ==
  ASSUME Shape, NEW w \in Workers, NEW d, At(w, d), d \in Fence, Guarded(w),
         NEW job \in Jobs, job.todo = work[w].todo, job.k = work[w].k, job.by = work[w].by,
         NEW steps \in Seq(Steps), Harmless(steps), Go(w, job, <<>>, steps)
  PROVE  Guarded(w)'
<1>1. job.by # None => job.by # job.k
  BY AtGuard
<1>2. \A S, R : Prepared(job, steps, S, R)
  BY <1>1, PreparedHarmless
<1>3. <<>> \in Seq(Messages)
  BY SmallMessages
<1> QED BY <1>2, <1>3, SameRestarts

(* SaveUpdate leaves nothing that waited for it.                           *)
LEMMA SaveUpdateGuarded == ASSUME Shape, NEW w \in Workers, SaveUpdate(w), Guarded(w) PROVE Guarded(w)'
<1>1. PICK old : old = work[w]
  OBVIOUS
<1>2. /\ At(w, "save") /\ "save" \in Fence
      /\ \/ Go(w, old, <<>>, Only("fail"))
         \/ \E new \in Live, renamed \in BOOLEAN :
              Go(w, [old EXCEPT !.kc = new], <<>>,
                 IF renamed THEN Only("publish") \o Only("catch")
                      \o (IF new.pair = old.kc.pair THEN <<>>
                          ELSE WhenSet(old.kc.pair, For(<<"scanQuick">>, old.kc.pair)))
                 ELSE IF new.pair = None THEN Only("expireLive") ELSE Only("publish"))
  BY <1>1 DEF SaveUpdate, Fence
<1>3. old \in Jobs /\ old.kc.pair \in Pairs \cup {None}
  BY <1>1, <1>2, AtGuard, AtFacts DEF Shape, Records, Gone
<1>4. \A c \in {"fail", "publish", "catch", "expireLive"} : Only(c) \in Seq(Steps) /\ Harmless(Only(c))
  BY OnlyHarmless DEF Calls, Vital
<1>5. CASE Go(w, old, <<>>, Only("fail"))
  <2>1. PICK steps \in Seq(Steps) : steps = Only("fail") /\ Harmless(steps)
    BY <1>4
  <2>2. Go(w, old, <<>>, steps)
    BY <1>5, <2>1
  <2> QED BY <1>1, <1>2, <1>3, <2>1, <2>2, HarmlessRestarts
<1>6. ASSUME NEW new \in Live, NEW renamed \in BOOLEAN,
             Go(w, [old EXCEPT !.kc = new], <<>>,
                 IF renamed THEN Only("publish") \o Only("catch")
                      \o (IF new.pair = old.kc.pair THEN <<>>
                          ELSE WhenSet(old.kc.pair, For(<<"scanQuick">>, old.kc.pair)))
                 ELSE IF new.pair = None THEN Only("expireLive") ELSE Only("publish"))
      PROVE  Guarded(w)'
  <2> DEFINE job == [old EXCEPT !.kc = new]
  <2>1. job \in Jobs /\ job.todo = old.todo /\ job.k = old.k /\ job.by = old.by
    BY <1>3 DEF Jobs, Live
  <2> DEFINE x == IF new.pair = old.kc.pair THEN <<>>
                  ELSE WhenSet(old.kc.pair, For(<<"scanQuick">>, old.kc.pair))
  <2>2. PICK y \in Seq(Steps) : y = x /\ Harmless(y)
    <3>1. <<>> \in Seq(Steps) /\ Harmless(<<>>)
      <4>1. Len(<<>>) = 0
        OBVIOUS
      <4>2. \A n \in 1 .. Len(<<>>) : FALSE
        BY <4>1
      <4> QED BY <4>2, LightEmpty DEF Harmless, Confirming
    <3>2. CASE old.kc.pair = None \/ new.pair = old.kc.pair
      <4>1. x = <<>>
        BY <3>2 DEF WhenSet
      <4> QED BY <3>1, <4>1
    <3>3. CASE old.kc.pair # None /\ new.pair # old.kc.pair
      <4>1. x = For(<<"scanQuick">>, old.kc.pair) /\ old.kc.pair \in Pairs
        BY <1>3, <3>3 DEF WhenSet
      <4>2. "scanQuick" \in Calls /\ "scanQuick" \notin Vital \cup {"justify", "justifyLive", "confirmLive"}
        BY DEF Calls, Vital
      <4>3. \A p \in Pairs : For(<<"scanQuick">>, p) \in Seq(Steps) /\ Harmless(For(<<"scanQuick">>, p))
        BY <4>2, OnlyHarmless
      <4> QED BY <4>1, <4>3
    <3> QED BY <3>2, <3>3
  <2>3. Go(w, job, <<>>, IF renamed THEN Only("publish") \o Only("catch") \o y
                         ELSE IF new.pair = None THEN Only("expireLive") ELSE Only("publish"))
    BY <1>6, <2>2
  <2> HIDE DEF job, x
  <2>4. PICK z \in Seq(Steps) : z = Only("publish") \o Only("catch") /\ Harmless(z)
    BY <1>4, HarmlessConcat
  <2>5. PICK steps \in Seq(Steps) : Harmless(steps) /\ Go(w, job, <<>>, steps)
    <3>1. CASE renamed
      <4>1. z \o y \in Seq(Steps) /\ Harmless(z \o y)
        BY <2>2, <2>4, HarmlessConcat
      <4> QED BY <2>3, <2>4, <3>1, <4>1
    <3>2. CASE ~renamed
      BY <1>4, <2>3, <3>2
    <3> QED BY <3>1, <3>2
  <2> QED BY <1>1, <1>2, <2>1, <2>5, HarmlessRestarts
<1> QED BY <1>2, <1>5, <1>6

(* A worker without a call relies on nothing.                              *)
LEMMA IdleGuard == ASSUME NEW S, NEW R PROVE Guard(Idle, S, R)
<1>1. Idle.todo = <<>> /\ Idle.by = None
  BY DEF Idle
<1>2. Len(Idle.todo) = 0 /\ Idle.todo \in Seq(Steps)
  BY <1>1
<1>3. \A n \in 1 .. Len(Idle.todo) : FALSE
  BY <1>2
<1>4. Confirming(Idle.todo) /\ Justifying(Idle)
  BY <1>3 DEF Confirming, Justifying
<1> QED BY <1>1, <1>2, <1>3, <1>4, GuardPlain

(* The same before a step and after it.                                    *)
LEMMA IdleGuarded ==
  ASSUME NEW w
  PROVE  /\ work[w] = Idle => Guarded(w)
         /\ work'[w] = Idle => Guarded(w)'
<1>1. work[w] = Idle => Guarded(w)
  BY IdleGuard DEF Guarded
<1>2. PICK k : k = work'[w].k
  OBVIOUS
<1>3. ASSUME work'[w] = Idle PROVE Guarded(w)'
  <2>1. Guard(Idle, Settled(k)', Removes(w)')
    <3>1. PICK S2, R2 : S2 = Settled(k)' /\ R2 = Removes(w)'
      OBVIOUS
    <3>2. Guard(Idle, S2, R2)
      BY IdleGuard
    <3> QED BY <3>1, <3>2
  <2>2. Guard(work'[w], Settled(k)', Removes(w)') /\ work'[w].k = k
    BY <1>2, <1>3, <2>1
  <2> QED BY <2>2 DEF Guarded
<1> QED BY <1>1, <1>3

(* What is left of a failed call relies on nothing that is not settled.    *)
LEMMA GiveUpGuarded ==
  ASSUME Shape, NEW w \in Workers, work[w].todo # <<>>, work[w].todo[1].do # "stop",
         Guarded(w), GiveUp(w), UNCHANGED bucket, \A q \in Pairs : ~Out(q) => ~Out(q)'
  PROVE  Guarded(w)'
<1>1. PICK old, k : old = work[w] /\ k = work[w].k
  OBVIOUS
<1>2. old \in Jobs /\ Sound(old) /\ old.todo # <<>> /\ old.todo[1].do # "stop" /\ Working
  BY <1>1 DEF Shape, Working
<1>3. PICK S2, R2 : S2 = Settled(k)' /\ R2 = Removes(w)'
  OBVIOUS
<1>4. PICK S, R : S = Settled(k) /\ R = Removes(w)
  OBVIOUS
<1>5. Guard(old, S, R)
  BY <1>1, <1>4 DEF Guarded
<1>6. S \subseteq S2
  <2>1. Settled(k) \subseteq Settled(k)'
    BY SettledSame DEF Settled
  <2> QED BY <1>3, <1>4, <2>1
<1>7. PICK steps : steps = Handled(old)
  OBVIOUS
<1>8. Prepared(old, steps, S2, R2)
  <2>1. Guard(old, S2, R)
    BY <1>5, <1>6, GuardGrows
  <2> QED BY <1>2, <1>7, <2>1, GuardHandled
<1>9. steps \in Seq(Steps)
  BY <1>8 DEF Prepared
<1> DEFINE new == [old EXCEPT !.hold = TRUE, !.todo = steps]
<1>10. /\ new.todo = steps /\ new.entry = old.entry /\ new.k = old.k /\ new.kc = old.kc
       /\ new.by = old.by
  BY <1>2, <1>9 DEF Jobs
<1>11. work'[w] = new
  BY <1>1, <1>2, <1>7 DEF GiveUp, Working
<1> HIDE DEF new
<1>12. Guard(new, S2, R2)
  BY <1>2, <1>8, <1>10, GuardOf
<1>13. Guard(work'[w], Settled(k)', Removes(w)') /\ work'[w].k = k
  BY <1>1, <1>3, <1>10, <1>11, <1>12
<1> QED BY <1>13 DEF Guarded

(* So does what follows a failure that is only logged.                     *)
LEMMA DropGuarded ==
  ASSUME Shape, NEW w \in Workers, work[w].todo # <<>>, work[w].todo[1].do \in Fence,
         Guarded(w), work' = [work EXCEPT ![w].todo = Tail(@)]
  PROVE  Guarded(w)'
<1>1. PICK old, k : old = work[w] /\ k = work[w].k
  OBVIOUS
<1>2. old \in Jobs /\ old.todo # <<>> /\ old.todo[1].do \in Fence /\ Working
  BY <1>1 DEF Shape, Working
<1>3. PICK S2, R2 : S2 = Settled(k)' /\ R2 = Removes(w)'
  OBVIOUS
<1>4. PICK S, R : S = Settled(k) /\ R = Removes(w)
  OBVIOUS
<1>5. Guard(old, S, R) /\ (old.by # None => old.by # old.k)
  BY <1>1, <1>4 DEF Guarded, Guard
<1>6. PICK steps : steps = Tail(old.todo)
  OBVIOUS
<1>7. steps \in Seq(Steps) /\ Harmless(steps)
  BY <1>2, <1>5, <1>6, TailHarmless
<1>8. Prepared(old, steps, S2, R2)
  BY <1>2, <1>5, <1>7, PreparedHarmless
<1> DEFINE new == [old EXCEPT !.todo = steps]
<1>10. /\ new.todo = steps /\ new.entry = old.entry /\ new.k = old.k /\ new.kc = old.kc
       /\ new.by = old.by
  BY <1>2, <1>7 DEF Jobs
<1>11. work'[w] = new
  BY <1>1, <1>2, <1>6 DEF Working
<1> HIDE DEF new
<1>12. Guard(new, S2, R2)
  BY <1>2, <1>8, <1>10, GuardOf
<1>13. Guard(work'[w], Settled(k)', Removes(w)') /\ work'[w].k = k
  BY <1>1, <1>3, <1>10, <1>11, <1>12
<1> QED BY <1>13 DEF Guarded

(* Nothing is put but by a worker that goes on.                            *)
LEMMA QuietSame ==
  ASSUME tuples' = tuples, NEW q, ~Out(q),
         \A v \in Workers : wire'[v] = wire[v] \/ wire'[v] = <<>>
  PROVE  ~Out(q)'
<1>1. Len(<<>>) = 0
  OBVIOUS
<1>2. \A i \in 1 .. Len(<<>>) : FALSE
  BY <1>1
<1> QED BY <1>2 DEF Out

(* A failure puts nothing.                                                 *)
LEMMA QuietFails ==
  ASSUME Shape, NEW w \in Workers, Fails(w) \/ CallFails(w), NEW q
  PROVE  ~Out(q) => ~Out(q)'
<1>1. tuples' = tuples /\ \A v \in Workers : wire'[v] = wire[v] \/ wire'[v] = <<>>
  BY DEF Fails, CallFails, local, Shape, Working
<1> QED BY <1>1, QuietSame

(* Failures keep what the rest of the program relies on.                   *)
LEMMA FailsGuarded ==
  ASSUME Shape, NEW w \in Workers, Fails(w) \/ CallFails(w), Guarded(w)
  PROVE  Guarded(w)'
<1>1. UNCHANGED bucket
  BY DEF Fails, CallFails, local
<1>2. work[w].todo # <<>> /\ work[w].todo \in Seq(Steps)
  BY DEF Fails, CallFails, At, Shape, Working, Jobs
<1>3. Head(work[w].todo) = work[w].todo[1]
  BY <1>2, TailFacts
<1>q. \A q \in Pairs : ~Out(q) => ~Out(q)'
  BY QuietFails
<1>4. CASE Fails(w)
  <2>1. work[w].todo[1].do # "stop" /\ GiveUp(w)
    BY <1>3, <1>4 DEF Fails, At
  <2> QED BY <1>1, <1>2, <1>q, <2>1, GiveUpGuarded
<1>5. CASE CallFails(w)
  <2>1. work[w].todo[1].do # "stop"
    BY <1>3, <1>5 DEF CallFails, Infallible, Handlers
  <2>2. CASE GiveUp(w)
    BY <1>1, <1>2, <1>q, <2>1, <2>2, GiveUpGuarded
  <2>3. CASE /\ work' = [work EXCEPT ![w].todo = Tail(@)]
             /\ Head(work[w].todo).do \in Swallowed \/ At(w, "lookup")
    <3>1. work[w].todo[1].do \in Fence
      BY <1>3, <2>3 DEF Swallowed, At, Fence
    <3> QED BY <1>2, <2>3, <3>1, DropGuarded
  <2> QED BY <1>5, <2>2, <2>3 DEF CallFails
<1> QED BY <1>4, <1>5

(* A call that ends relies on nothing.                                     *)
LEMMA StopGuarded == ASSUME Shape, NEW w \in Workers, End(w) \/ Crash(w) PROVE Guarded(w)'
<1>1. work'[w] = Idle
  BY DEF End, Crash, Shape, Working
<1> QED BY <1>1, IdleGuarded

(* A delivery puts nothing on the way.                                     *)
LEMMA QuietDeliver ==
  ASSUME Shape, NEW w \in Workers, Deliver(w), NEW q \in Pairs, ~Out(q)
  PROVE  ~Out(q)'
<1>1. PICK m, s : m = Head(wire[w]) /\ s = wire[w]
  OBVIOUS
<1>2. /\ s \in Seq(Messages) /\ s # <<>> /\ wire'[w] = Tail(s)
      /\ \A v \in Workers \ {w} : wire'[v] = wire[v]
  BY <1>1 DEF Deliver, Shape, Working
<1>3. /\ m = s[1] /\ 1 \in 1 .. Len(s) /\ m \in Messages
      /\ \A i \in 1 .. Len(Tail(s)) : i + 1 \in 1 .. Len(s) /\ Tail(s)[i] = s[i + 1]
  BY <1>1, <1>2, TailFacts
<1>4. q \notin tuples /\ \A i \in 1 .. Len(s) : s[i] # Put(q)
  BY <1>1 DEF Out
<1>5. q \notin tuples'
  <2>1. m.op = "put" => m = Put(m.pair)
    BY <1>3 DEF Messages, Put
  <2>2. m.op = "put" => m.pair # q
    BY <1>3, <1>4, <2>1
  <2> QED BY <1>1, <1>4, <2>2 DEF Deliver
<1>6. \A i \in 1 .. Len(wire'[w]) : wire'[w][i] # Put(q)
  BY <1>2, <1>3, <1>4
<1> QED BY <1>2, <1>5, <1>6 DEF Out

(* Nothing is on its way but what the worker in progress sent.             *)
Alone(w) == work[w] # Idle => \A v \in Workers \ {w} : work[v] = Idle /\ wire[v] = <<>>

(* A delivery settles a pair, if anything.                                 *)
LEMMA DeliverGuarded ==
  ASSUME Shape, NEW w \in Workers, Deliver(w), NEW v \in Workers, Guarded(v), Alone(v)
  PROVE  Guarded(v)'
<1>1. PICK k, m : k = work[v].k /\ m = Head(wire[w])
  OBVIOUS
<1>2. /\ wire[w] \in Seq(Messages) /\ wire[w] # <<>> /\ wire' = [wire EXCEPT ![w] = Tail(@)]
      /\ work' = work /\ grants' = grants /\ wire \in [Workers -> Seq(Messages)]
  BY DEF Deliver, Shape, Working
<1>a. CASE work[v] = Idle
  BY <1>2, <1>a, IdleGuarded
<1>b. CASE work[v] # Idle
  <2>0. v = w /\ \A u \in Workers \ {v} : wire'[u] = <<>>
    BY <1>2, <1>b DEF Alone
  <2>3. /\ removed \subseteq removed'
        /\ \A q \in Pairs : m = Remove(q) => q \in removed' /\ q \notin tuples'
    BY <1>1 DEF Deliver, Remove
  <2>4. Settled(k) \subseteq Settled(k)'
    BY <1>2, <2>3, QuietDeliver DEF Settled
  <2>5. ASSUME NEW q \in Removes(v) PROVE q \in Removes(v)' \cup Settled(k)'
    <3>0. PICK s, t : s = wire[v] /\ t = wire'[v]
      OBVIOUS
    <3>1. PICK i \in 1 .. Len(s) : s[i] = Remove(q) /\ \A j \in 1 .. Len(s) : i < j => s[j] # Put(q)
      BY <3>0 DEF Removes
    <3>2. /\ m = s[1] /\ Len(s) \in Nat
          /\ Len(t) = Len(s) - 1
          /\ \A j \in 1 .. Len(t) : j + 1 \in 1 .. Len(s) /\ t[j] = s[j + 1]
      <4>1. t = Tail(s) /\ s \in Seq(Messages) /\ s # <<>>
        BY <1>2, <2>0, <3>0
      <4> QED BY <1>1, <2>0, <3>0, <4>1, TailFacts
    <3>q. q \in Pairs
      BY DEF Removes
    <3>3. CASE i = 1
      <4>1. \A j \in 1 .. Len(t) : t[j] # Put(q)
        <5>1. \A j \in 1 .. Len(t) : 1 < j + 1
          OBVIOUS
        <5> QED BY <3>1, <3>2, <3>3, <5>1
      <4>2. q \in removed' /\ q \notin tuples'
        BY <2>3, <3>1, <3>2, <3>3, <3>q
      <4>3. ~Out(q)'
        <5>1. Len(<<>>) = 0
          OBVIOUS
        <5>2. \A j \in 1 .. Len(<<>>) : FALSE
          BY <5>1
        <5> QED BY <2>0, <3>0, <4>1, <4>2, <5>2 DEF Out
      <4> QED BY <3>q, <4>2, <4>3 DEF Settled
    <3>4. CASE i # 1
      <4>1. i - 1 \in 1 .. Len(t) /\ (i - 1) + 1 = i
        BY <3>2, <3>4
      <4>2. t[i - 1] = Remove(q)
        BY <3>1, <3>2, <4>1
      <4>3. ASSUME NEW j \in 1 .. Len(t), i - 1 < j PROVE t[j] # Put(q)
        <5>1. j + 1 \in 1 .. Len(s) /\ i < j + 1
          BY <3>2, <4>1, <4>3
        <5> QED BY <3>1, <3>2, <5>1
      <4> QED BY <3>0, <3>q, <4>1, <4>2, <4>3 DEF Removes
    <3> QED BY <3>3, <3>4
  <2>6. PICK S2, R2 : S2 = Settled(k)' /\ R2 = Removes(v)'
    OBVIOUS
  <2>7. PICK S, R, job : S = Settled(k) /\ R = Removes(v) /\ job = work[v]
    OBVIOUS
  <2>8. Guard(job, S, R) /\ S \subseteq S2 /\ R \subseteq R2 \cup S2
    BY <1>1, <2>4, <2>5, <2>6, <2>7 DEF Guarded
  <2>9. Guard(job, S2, R2)
    BY <2>8, GuardGrows
  <2>10. Guard(work'[v], Settled(k)', Removes(v)') /\ work'[v].k = k
    BY <1>1, <1>2, <2>6, <2>7, <2>9
  <2> QED BY <2>10 DEF Guarded
<1> QED BY <1>a, <1>b

(* A call that begins relies on nothing.                                   *)
LEMMA StartGuarded ==
  ASSUME Working, NEW w \in Workers, NEW k, NEW kc, NEW program \in Seq(Steps), Harmless(program),
         work' = [work EXCEPT ![w] = [Idle EXCEPT !.k = k, !.kc = kc, !.todo = program]]
  PROVE  Guarded(w)'
<1> DEFINE new == [Idle EXCEPT !.k = k, !.kc = kc, !.todo = program]
<1>1. new.todo = program /\ new.k = k /\ new.by = None
  BY DEF Idle
<1>2. work'[w] = new
  BY DEF Working
<1> HIDE DEF new
<1>3. PICK S2, R2 : S2 = Settled(k)' /\ R2 = Removes(w)'
  OBVIOUS
<1>4. Confirming(new.todo) /\ Justifying(new) /\ \A i \in 1 .. Len(new.todo) : new.todo[i].do \notin Vital
  BY <1>1 DEF Harmless, Justifying
<1>5. Guard(new, S2, R2)
  BY <1>1, <1>4, GuardPlain
<1>6. Guard(work'[w], Settled(k)', Removes(w)') /\ work'[w].k = k
  BY <1>1, <1>2, <1>3, <1>5
<1> QED BY <1>6 DEF Guarded

(* The programs calls begin with.                                          *)
LEMMA StartPrograms ==
  ASSUME NEW kc \in Records
  PROVE  /\ Upsert(kc) \in Seq(Steps) /\ Harmless(Upsert(kc))
         /\ Only("publish") \o Only("catch") \o Miss(kc) \in Seq(Steps)
         /\ Harmless(Only("publish") \o Only("catch") \o Miss(kc))
         /\ Only("save") \in Seq(Steps) /\ Harmless(Only("save"))
         /\ Only("lookup") \o Only("settleStale") \in Seq(Steps)
         /\ Harmless(Only("lookup") \o Only("settleStale"))
         /\ Only("lookup") \o Only("snapshot") \o Only("withdraw") \in Seq(Steps)
         /\ Harmless(Only("lookup") \o Only("snapshot") \o Only("withdraw"))
<1> DEFINE Fine(a) == a \in Seq(Steps) /\ Harmless(a)
<1>1. \A c \in {"publish", "catch", "expireLive", "save", "lookup", "settleStale", "snapshot", "withdraw"} :
         Fine(Only(c))
  BY OnlyHarmless DEF Calls, Vital
<1>2. Fine(<<>>)
  <2>1. Len(<<>>) = 0
    OBVIOUS
  <2>2. \A n \in 1 .. Len(<<>>) : FALSE
    BY <2>1
  <2> QED BY <2>2, LightEmpty DEF Harmless, Confirming
<1>3. ASSUME NEW a, NEW b, Fine(a), Fine(b) PROVE Fine(a \o b)
  BY <1>3, HarmlessConcat
<1> HIDE DEF Fine
<1>4. Fine(Miss(kc))
  <2>1. CASE kc.pair = None
    <3>1. Fine(Only("expireLive") \o Only("catch"))
      BY <1>1, <1>3
    <3> QED BY <2>1, <3>1 DEF Miss
  <2>2. CASE kc.pair # None
    BY <1>2, <2>2 DEF Miss
  <2> QED BY <2>1, <2>2
<1>5. Fine(Only("publish") \o Only("catch")) /\ Fine(Only("lookup") \o Only("snapshot"))
      /\ Fine(Only("lookup") \o Only("settleStale")) /\ Fine(Only("snapshot") \o Miss(kc))
  BY <1>1, <1>3, <1>4
<1>6. Fine(Only("publish") \o Only("catch") \o Miss(kc))
  BY <1>3, <1>4, <1>5
<1>7. Fine(Only("lookup") \o Only("snapshot") \o Only("withdraw"))
  BY <1>1, <1>3, <1>5
<1>8. Fine(Upsert(kc))
  BY <1>1, <1>3, <1>5 DEF Upsert
<1>9. Fine(Only("save"))
  BY <1>1
<1> QED BY <1>5, <1>6, <1>7, <1>8, <1>9 DEF Fine

(* The call of an API request or of a backfill begins.                     *)
LEMMA ApiGuarded ==
  ASSUME Shape, NEW w \in Writers, NEW k \in Contacts,
         Create(w, k) \/ Update(w, k) \/ Delete(w, k) \/ Republish(w, k)
  PROVE  /\ Guarded(w)' /\ work[w] = Idle /\ work' = [work EXCEPT ![w] = work'[w]]
         /\ work'[w] # Idle
<1>0. Working /\ sf[k] \in Records /\ w \in Workers
  BY DEF Shape, Around, Views, Workers
<1>1. ASSUME NEW kc \in Records, NEW program \in Seq(Steps), Harmless(program), Call(w, k, kc, program)
      PROVE  /\ Guarded(w)' /\ work[w] = Idle /\ work' = [work EXCEPT ![w] = work'[w]]
             /\ work'[w] # Idle
  <2> DEFINE new == [Idle EXCEPT !.k = k, !.kc = kc, !.todo = program]
  <2>1. work' = [work EXCEPT ![w] = new] /\ work[w] = Idle
    BY <1>1 DEF Call
  <2>2. new.k = k /\ Idle.k = None /\ k # None
    BY GrantAssumption DEF Idle
  <2>3. Guarded(w)'
    BY <1>0, <1>1, <2>1, StartGuarded
  <2> HIDE DEF new
  <2>4. work'[w] = new /\ new # Idle
    BY <1>0, <2>1, <2>2 DEF Working
  <2> QED BY <2>1, <2>3, <2>4
<1>2. CASE Create(w, k)
  <2>1. PICK rec \in Live : Call(w, k, rec, Only("publish") \o Only("catch") \o Miss(rec))
    BY <1>2 DEF Create
  <2>2. rec \in Records
    BY DEF Live
  <2> QED BY <1>1, <2>1, <2>2, StartPrograms
<1>3. CASE Update(w, k)
  BY <1>0, <1>1, <1>3, StartPrograms DEF Update
<1>4. CASE Delete(w, k)
  BY <1>0, <1>1, <1>4, StartPrograms DEF Delete
<1>5. CASE Republish(w, k)
  BY <1>0, <1>1, <1>5, StartPrograms DEF Republish
<1> QED BY <1>2, <1>3, <1>4, <1>5

(* The consumer's call begins.                                             *)
LEMMA TakeGuarded ==
  ASSUME Shape, Take
  PROVE  /\ Guarded(Consumer)' /\ work[Consumer] = Idle /\ work'[Consumer] # Idle
         /\ work' = [work EXCEPT ![Consumer] = work'[Consumer]]
<1>0. Working /\ Around /\ Consumer \in Workers
  BY DEF Shape, Workers
<1> DEFINE k == Head(events).k
           kc == IF Head(events).deleted THEN Gone ELSE sf[k]
           program == IF kc = Gone THEN Only("lookup") \o Only("snapshot") \o Only("withdraw")
                      ELSE Upsert(kc)
           new == [Idle EXCEPT !.k = k, !.kc = kc, !.todo = program]
<1>1. events # <<>> /\ work' = [work EXCEPT ![Consumer] = new] /\ work[Consumer] = Idle
  BY DEF Take
<1>2. k \in Contacts
  BY <1>0, <1>1, HeadEvent
<1>3. kc \in Records
  BY <1>0, <1>2 DEF Around, Views, Gone, Records
<1>4. program \in Seq(Steps) /\ Harmless(program)
  <2> HIDE DEF kc
  <2>1. CASE kc = Gone
    <3>1. program = Only("lookup") \o Only("snapshot") \o Only("withdraw")
      BY <2>1
    <3> QED BY <1>3, <3>1, StartPrograms
  <2>2. CASE kc # Gone
    <3>1. program = Upsert(kc)
      BY <2>2
    <3> QED BY <1>3, <3>1, StartPrograms
  <2> QED BY <2>1, <2>2
<1>5. new.k = k /\ Idle.k = None /\ k # None
  BY <1>2, GrantAssumption DEF Idle
<1> HIDE DEF k, kc, program
<1>6. Guarded(Consumer)'
  BY <1>0, <1>1, <1>4, StartGuarded
<1> HIDE DEF new
<1>7. work'[Consumer] = new /\ new # Idle
  BY <1>0, <1>1, <1>5 DEF Working
<1> QED BY <1>1, <1>6, <1>7

(* A worker's steps touch no other worker's call.                          *)
Mine(w) == work[w] # Idle /\ work' = [work EXCEPT ![w] = work'[w]]
(* A call that moves on is the worker's own.                               *)
LEMMA GoMine ==
  ASSUME Working, NEW w \in Workers, NEW job, NEW msgs, NEW steps, Go(w, job, msgs, steps),
         work[w].todo # <<>>
  PROVE  Mine(w)
<1>1. work[w] # Idle
  BY DEF Idle
<1> DEFINE new == [job EXCEPT !.todo = steps \o Tail(@)]
<1>2. work' = [work EXCEPT ![w] = new]
  BY DEF Go
<1> HIDE DEF new
<1>3. work'[w] = new
  BY <1>2 DEF Working
<1> QED BY <1>1, <1>2, <1>3 DEF Mine

(* Whatever a worker does, it is with its own call.                        *)
LEMMA RunMine ==
  ASSUME Working, NEW w \in Workers, Run(w) \/ CallFails(w) \/ Crash(w)
  PROVE  Mine(w)
<1>1. ASSUME NEW d, At(w, d) PROVE work[w].todo # <<>>
  BY <1>1 DEF At
<1>2. ASSUME Revoke(w) PROVE Mine(w)
  <2>1. CASE Scan(w)
    BY <1>1, <2>1, GoMine DEF Scan
  <2>2. CASE Flush(w) \/ ClearMarker(w)
    BY <1>1, <2>2, GoMine DEF Flush, ClearMarker, Skip
  <2>3. CASE Recheck(w) \/ Settle(w) \/ Reassert(w)
    BY <1>1, <2>3, GoMine DEF Recheck, Settle, Reassert, Skip
  <2>4. CASE Verify(w)
    BY <1>1, <2>4, GoMine DEF Verify
  <2>5. CASE ConfirmLive(w)
    BY <1>1, <2>5, GoMine DEF ConfirmLive
  <2>6. CASE Own(w)
    BY <1>1, <2>6, GoMine DEF Own, Skip
  <2> QED BY <1>2, <2>1, <2>2, <2>3, <2>4, <2>5, <2>6 DEF Revoke
<1>3. ASSUME Grant(w) PROVE Mine(w)
  <2>1. CASE Snapshot(w) \/ Inactive(w)
    BY <1>1, <2>1, GoMine DEF Snapshot, Inactive
  <2>2. CASE Publish(w)
    BY <1>1, <2>2, GoMine DEF Publish, Skip
  <2>3. CASE Record(w)
    BY <1>1, <2>3, GoMine DEF Record, Skip
  <2>4. CASE Write(w)
    BY <1>1, <2>4, GoMine DEF Write
  <2> QED BY <1>3, <2>1, <2>2, <2>3, <2>4 DEF Grant
<1>4. ASSUME RevokeNoLongerLive(w) PROVE Mine(w)
  <2>1. CASE Expire(w)
    BY <1>1, <2>1, GoMine DEF Expire
  <2>2. CASE Justify(w)
    BY <1>1, <2>2, GoMine DEF Justify
  <2>3. CASE Claim(w) \/ Regranted(w) \/ Clear(w)
    BY <1>1, <2>3, GoMine DEF Claim, Regranted, Clear, Skip
  <2>4. CASE Claimed(w)
    BY <1>1, <2>4, GoMine DEF Claimed, Skip
  <2>5. CASE Compare(w)
    BY <1>1, <2>5, GoMine DEF Compare, Skip
  <2> QED BY <1>4, <2>1, <2>2, <2>3, <2>4, <2>5 DEF RevokeNoLongerLive
<1>5. ASSUME Lookup(w) \/ Withdraw(w) \/ EraseEntry(w) \/ SettleStale(w) \/ Pass(w) PROVE Mine(w)
  BY <1>1, <1>5, GoMine DEF Lookup, Withdraw, EraseEntry, SettleStale, Pass, Skip
<1>6. ASSUME SaveUpdate(w) PROVE Mine(w)
  BY <1>1, <1>6, GoMine DEF SaveUpdate
<1>7. ASSUME DeleteRecord(w) PROVE Mine(w)
  BY <1>1, <1>7, GoMine DEF DeleteRecord
<1>8. ASSUME NEW new, work' = [work EXCEPT ![w] = new], work[w].todo # <<>> \/ work[w].k # None
      PROVE  Mine(w)
  <2>1. work[w] # Idle
    BY <1>8 DEF Idle
  <2> QED BY <1>8, <2>1 DEF Mine, Working
<1>9. ASSUME Fails(w) \/ CallFails(w) PROVE Mine(w)
  <2>1. work[w].todo # <<>>
    BY <1>9 DEF Fails, CallFails, At
  <2>2. GiveUp(w) \/ work' = [work EXCEPT ![w].todo = Tail(@)]
    BY <1>9 DEF Fails, CallFails
  <2>3. CASE GiveUp(w)
    BY <1>8, <2>1, <2>3 DEF GiveUp
  <2>4. CASE work' = [work EXCEPT ![w].todo = Tail(@)]
    BY <1>8, <2>1, <2>4
  <2> QED BY <2>2, <2>3, <2>4
<1>10. ASSUME End(w) \/ Crash(w) PROVE Mine(w)
  BY <1>8, <1>10 DEF End, Crash
<1> QED BY <1>2, <1>3, <1>4, <1>5, <1>6, <1>7, <1>9, <1>10 DEF Run

(* No revision is no entry, in the bucket and in what the workers read.    *)
Zero == /\ \A k \in Contacts : grants[k].rev = 0 => grants[k] = Absent
        /\ \A w \in Workers : work[w].k # None /\ work[w].entry.rev = 0 => work[w].entry = Absent

(* Every write takes a number, and every read an entry with its number.    *)
LEMMA NextZero == ASSUME Shape, Zero, Steady, Working' PROVE Zero'
<1>1. /\ grants \in [Contacts -> Entries] /\ revision \in Nat
      /\ \A w \in Workers : Sound(work[w]) /\ work[w].k \in Contacts \cup {None}
      /\ \A w \in Workers : work'[w].k \in Contacts \cup {None} /\ Sound(work'[w])
  BY DEF Shape, Around, Working, Jobs
<1>2. \A k \in Contacts : grants'[k].rev = 0 => grants'[k] = Absent
  <2>1. CASE Untouched
    BY <2>1 DEF Untouched, Zero
  <2>2. ASSUME NEW k \in Contacts, WrittenAt(k)
        PROVE  \A n \in Contacts : grants'[n].rev = 0 => grants'[n] = Absent
    <3>1. PICK e \in Entries : /\ e.rev = revision + 1 \/ e = Absent
                               /\ grants' = [grants EXCEPT ![k] = e]
      BY <2>2 DEF WrittenAt
    <3>2. e.rev = 0 => e = Absent
      BY <1>1, <3>1
    <3> QED BY <1>1, <3>1, <3>2 DEF Zero
  <2> QED BY <2>1, <2>2 DEF Steady, BucketStep
<1>3. ASSUME NEW w \in Workers, work'[w].k # None, work'[w].entry.rev = 0
      PROVE  work'[w].entry = Absent
  <2>1. \/ work'[w].k = work[w].k /\ work'[w].entry = work[w].entry
        \/ work'[w].entry = Absent
        \/ work'[w].k = work[w].k /\ work'[w].entry = Entry(w)
    BY DEF Steady, Reads
  <2>2. CASE work'[w].k = work[w].k /\ work'[w].entry = Entry(w)
    <3>1. work[w].k \in Contacts
      BY <1>1, <1>3, <2>2
    <3> QED BY <1>3, <2>2, <3>1 DEF Entry, Zero
  <2> QED BY <1>3, <2>1, <2>2 DEF Zero
<1> QED BY <1>2, <1>3 DEF Zero

(* An address given up is that of a pair that is out nowhere.             *)
Freed == \A p \in Pairs : p \in Addresses /\ p \notin Addresses' => p \in removed /\ ~Out(p)

(* One entry is rewritten, and what it stops naming is settled.            *)
LEMMA RewriteKeeps ==
  ASSUME Around, NEW k \in Contacts, NEW e,
         grants' = [grants EXCEPT ![k] = e],
         \A q \in Pairs : q \in {grants[k].pair, grants[k].marker}
             => q \in {e.pair, e.marker} \/ q \in Settled(k)
  PROVE  Freed
<1> SUFFICES ASSUME NEW p \in Pairs, p \in Addresses, p \notin Addresses' PROVE p \in removed /\ ~Out(p)
  BY DEF Freed
<1>1. /\ \A s \in Contacts \ {k} : grants'[s] = grants[s]
      /\ grants'[k] = e
  BY DEF Around
<1>2. \A s \in Contacts : p \notin {grants'[s].pair, grants'[s].marker}
  BY DEF Addresses
<1>3. PICK s \in Contacts : p \in {grants[s].pair, grants[s].marker}
  BY DEF Addresses
<1>4. s = k
  BY <1>1, <1>2, <1>3
<1>5. p \in Settled(k)
  BY <1>1, <1>2, <1>3, <1>4
<1>6. ~\E n \in Contacts \ {k} : p \in {grants[n].pair, grants[n].marker}
  BY <1>1, <1>2
<1> QED BY <1>5, <1>6 DEF Settled

(* The bucket's writes, as far as the entry goes.                          *)
LEMMA BucketWrites ==
  ASSUME NEW k, NEW p, NEW m
  PROVE  /\ Name(k, p, m) \/ Rewrite(k, p, m) => \E e : /\ e.pair = p /\ e.marker = m
                                                       /\ grants' = [grants EXCEPT ![k] = e]
         /\ Erase(k) => grants' = [grants EXCEPT ![k] = Absent]
<1> DEFINE e == [pair |-> p, marker |-> m, rev |-> revision + 1]
<1>1. e.pair = p /\ e.marker = m
  OBVIOUS
<1>2. Name(k, p, m) \/ Rewrite(k, p, m) => grants' = [grants EXCEPT ![k] = e]
  BY DEF Name, Rewrite
<1> HIDE DEF e
<1>3. Name(k, p, m) \/ Rewrite(k, p, m) => \E x : /\ x.pair = p /\ x.marker = m
                                                 /\ grants' = [grants EXCEPT ![k] = x]
  BY <1>1, <1>2
<1> QED BY <1>3 DEF Erase

(* The same for each of them.                                              *)
LEMMA NameKeeps ==
  ASSUME Around, NEW k \in Contacts, NEW p, NEW m, Name(k, p, m) \/ Rewrite(k, p, m),
         \A q \in Pairs : q \in {grants[k].pair, grants[k].marker} => q \in {p, m} \/ q \in Settled(k)
  PROVE  Freed
<1>1. PICK e : e.pair = p /\ e.marker = m /\ grants' = [grants EXCEPT ![k] = e]
  BY BucketWrites
<1> QED BY <1>1, RewriteKeeps

(* An entry is deleted, and what it named is settled.                      *)
LEMMA EraseKeeps ==
  ASSUME Around, NEW k \in Contacts, Erase(k),
         \A q \in Pairs : q \in {grants[k].pair, grants[k].marker} => q \in Settled(k)
  PROVE  Freed
<1>1. PICK e : e = Absent
  OBVIOUS
<1>2. grants' = [grants EXCEPT ![k] = e]
  BY <1>1, BucketWrites
<1> QED BY <1>2, RewriteKeeps

(* Nothing is written.                                                     *)
LEMMA SameKeeps == ASSUME grants' = grants PROVE Freed
  BY DEF Freed, Addresses

(* A conditional write that succeeds finds the entry its caller read.      *)
LEMMA EntryRead ==
  ASSUME ReadInv, Zero, NEW w \in Workers, work[w].k \in Contacts,
         Entry(w).rev = work[w].entry.rev
  PROVE  Entry(w) = work[w].entry
<1>1. CASE work[w].entry.rev # 0
  BY <1>1 DEF ReadInv, Current
<1>2. CASE work[w].entry.rev = 0
  <2>1. work[w].entry = Absent
    BY <1>2, GrantAssumption DEF Zero
  <2>2. grants[work[w].k] = Absent
    BY <1>2 DEF Zero, Entry
  <2> QED BY <2>1, <2>2 DEF Entry
<1> QED BY <1>1, <1>2

(* Own, Record and Claim keep every address.                               *)
LEMMA GrantKeeps ==
  ASSUME ReadInv, Zero, NEW w \in Workers, Own(w) \/ Record(w) \/ Claim(w)
  PROVE  Freed
<1>0. Around /\ Working
  BY DEF ReadInv, Shape
<1>1. CASE Own(w)
  <2>1. PICK s, p : s = work[w].by /\ p = Pair(w)
    OBVIOUS
  <2>2. At(w, "own") /\ s \in Contacts \cup {None}
    BY <1>0, <1>1, <2>1, AtFacts DEF Own
  <2>3. UNCHANGED bucket \/ (s # None /\ grants[s].marker = None /\ Name(s, p, grants[s].pair))
    BY <1>1, <2>1 DEF Own
  <2>4. CASE UNCHANGED bucket
    BY <2>4, SameKeeps DEF bucket
  <2>5. CASE s # None /\ grants[s].marker = None /\ Name(s, p, grants[s].pair)
    <3>1. \A q \in Pairs : q # None
      BY GrantAssumption
    <3> QED BY <1>0, <2>2, <2>5, <3>1, NameKeeps
  <2> QED BY <2>3, <2>4, <2>5
<1>2. CASE Record(w)
  <2>1. PICK k, p, e : k = work[w].k /\ p = Pair(w) /\ e = grants[k]
    OBVIOUS
  <2>2. k \in Contacts
    BY <1>0, <1>2, <2>1, AtFacts DEF Record
  <2>3. \/ e.pair \in {None, p} /\ Name(k, p, e.marker)
        \/ e.marker \in {None, p} /\ Name(k, p, e.pair)
        \/ UNCHANGED bucket
    BY <1>2, <2>1 DEF Record, Entry
  <2>4. CASE UNCHANGED bucket
    BY <2>4, SameKeeps DEF bucket
  <2>5. \A q \in Pairs : q # None
    BY GrantAssumption
  <2>6. CASE e.pair \in {None, p} /\ Name(k, p, e.marker)
    BY <1>0, <2>1, <2>2, <2>5, <2>6, NameKeeps
  <2>7. CASE e.marker \in {None, p} /\ Name(k, p, e.pair)
    BY <1>0, <2>1, <2>2, <2>5, <2>7, NameKeeps
  <2> QED BY <2>3, <2>4, <2>6, <2>7
<1>3. CASE Claim(w)
  <2>1. PICK k, e : k = work[w].k /\ e = work[w].entry
    OBVIOUS
  <2>2. k \in Contacts
    BY <1>0, <1>3, <2>1, AtFacts DEF Claim
  <2>3. UNCHANGED bucket \/ (Entry(w).rev = e.rev /\ Rewrite(k, e.pair, e.marker))
    BY <1>3, <2>1 DEF Claim
  <2>4. CASE UNCHANGED bucket
    BY <2>4, SameKeeps DEF bucket
  <2>5. CASE Entry(w).rev = e.rev /\ Rewrite(k, e.pair, e.marker)
    <3>1. grants[k] = e
      BY <2>1, <2>2, <2>5, EntryRead DEF Entry
    <3> QED BY <1>0, <2>2, <2>5, <3>1, NameKeeps
  <2> QED BY <2>3, <2>4, <2>5
<1> QED BY <1>1, <1>2, <1>3

(* The calls that drop an address drop one that is settled.                *)
LEMMA DropKeeps ==
  ASSUME ReadInv, Zero, NEW w \in Workers, Guarded(w),
         ClearMarker(w) \/ Write(w) \/ Clear(w) \/ EraseEntry(w)
  PROVE  Freed
<1>0. Around /\ Working /\ Shape
  BY DEF ReadInv, Shape
<1>1. PICK k, e, s : k = work[w].k /\ e = work[w].entry /\ s = work[w].todo[1]
  OBVIOUS
<1>2. /\ k \in Contacts /\ s.do \in {"clearMarker", "write", "clear", "erase"} /\ s.pair = Pair(w)
      /\ ClearMarker(w) => s.do = "clearMarker"
      /\ Write(w) => s.do = "write"
      /\ Clear(w) => s.do = "clear"
      /\ EraseEntry(w) => s.do = "erase"
  <2>1. ASSUME NEW d, At(w, d) PROVE k \in Contacts /\ s.do = d /\ s.pair = Pair(w)
    BY <1>0, <1>1, <2>1, AtGuard
  <2> QED BY <2>1 DEF ClearMarker, Write, Clear, EraseEntry
<1>3. \A q \in Pairs : Relies(work[w], s, q) => q \in Settled(k)
  <2>1. \E d : At(w, d)
    BY DEF ClearMarker, Write, Clear, EraseEntry
  <2> QED BY <1>0, <1>1, <2>1, HeadSettled
<1>4. \A q \in Pairs : q # None
  BY GrantAssumption
<1>5. CASE UNCHANGED bucket
  BY <1>5, SameKeeps DEF bucket
<1>6. CASE ClearMarker(w)
  <2>1. \/ UNCHANGED bucket
        \/ /\ grants[k].marker = Pair(w)
           /\ \/ grants[k].pair = None /\ Erase(k)
              \/ Rewrite(k, grants[k].pair, None)
    BY <1>1, <1>6 DEF ClearMarker, Entry
  <2>2. \A q \in Pairs : q = Pair(w) => q \in Settled(k)
    BY <1>2, <1>3, <1>6 DEF Relies
  <2>3. CASE grants[k].marker = Pair(w) /\ grants[k].pair = None /\ Erase(k)
    BY <1>0, <1>2, <1>4, <2>2, <2>3, EraseKeeps
  <2>4. CASE grants[k].marker = Pair(w) /\ Rewrite(k, grants[k].pair, None)
    BY <1>0, <1>2, <2>2, <2>4, NameKeeps
  <2> QED BY <1>5, <2>1, <2>3, <2>4
<1>7. CASE Write(w)
  <2>1. UNCHANGED bucket \/ (Entry(w).rev = e.rev /\ Name(k, Pair(w), e.pair))
    BY <1>1, <1>7 DEF Write
  <2>2. CASE Entry(w).rev = e.rev /\ Name(k, Pair(w), e.pair)
    <3>1. grants[k] = e
      BY <1>1, <1>2, <2>2, EntryRead DEF Entry
    <3>2. \A q \in Pairs : q = e.marker => q \in Settled(k)
      BY <1>1, <1>2, <1>3, <1>7 DEF Relies
    <3> QED BY <1>0, <1>2, <2>2, <3>1, <3>2, NameKeeps
  <2> QED BY <1>5, <2>1, <2>2
<1>8. CASE Clear(w)
  <2>1. \/ UNCHANGED bucket
        \/ /\ Entry(w).rev = e.rev
           /\ Rewrite(k, None, e.marker) \/ (e.marker = None /\ Erase(k))
    BY <1>1, <1>8 DEF Clear
  <2>2. \A q \in Pairs : q = e.pair /\ q # e.marker => q \in Settled(k)
    BY <1>1, <1>2, <1>3, <1>8 DEF Relies
  <2>3. Entry(w).rev = e.rev => grants[k] = e
    BY <1>1, <1>2, EntryRead DEF Entry
  <2>4. CASE grants[k] = e /\ Rewrite(k, None, e.marker)
    BY <1>0, <1>2, <2>2, <2>4, NameKeeps
  <2>5. CASE grants[k] = e /\ e.marker = None /\ Erase(k)
    BY <1>0, <1>2, <1>4, <2>2, <2>5, EraseKeeps
  <2> QED BY <1>5, <2>1, <2>3, <2>4, <2>5
<1>9. CASE EraseEntry(w)
  <2>1. UNCHANGED bucket \/ (Entry(w).rev = e.rev /\ Erase(k))
    BY <1>1, <1>9 DEF EraseEntry
  <2>2. \A q \in Pairs : q \in {e.pair, e.marker} => q \in Settled(k)
    BY <1>1, <1>2, <1>3, <1>9 DEF Relies
  <2>3. CASE Entry(w).rev = e.rev /\ Erase(k)
    <3>1. grants[k] = e
      BY <1>1, <1>2, <2>3, EntryRead DEF Entry
    <3> QED BY <1>0, <1>2, <2>2, <2>3, <3>1, EraseKeeps
  <2> QED BY <1>5, <2>1, <2>3
<1> QED BY <1>6, <1>7, <1>8, <1>9

(* Every step.                                                             *)
LEMMA NextKeeps ==
  ASSUME ReadInv, Zero, \A w \in Workers : Guarded(w), [Next]_vars
  PROVE  Freed
<1>1. CASE UNCHANGED vars
  BY <1>1, SameKeeps DEF vars
<1>2. ASSUME NEW w \in Workers, Run(w) PROVE Freed
  <2>1. CASE Own(w) \/ Record(w) \/ Claim(w)
    BY <2>1, GrantKeeps
  <2>2. CASE ClearMarker(w) \/ Write(w) \/ Clear(w) \/ EraseEntry(w)
    BY <2>2, DropKeeps
  <2>3. CASE Scan(w) \/ Flush(w) \/ Recheck(w) \/ Verify(w) \/ ConfirmLive(w) \/ Settle(w) \/ Reassert(w)
    BY <2>3, SameKeeps DEF Scan, Flush, Recheck, Verify, ConfirmLive, Settle, Reassert, local, bucket
  <2>4. CASE Snapshot(w) \/ Publish(w) \/ Inactive(w) \/ Expire(w) \/ Justify(w) \/ Claimed(w)
             \/ Regranted(w) \/ Compare(w) \/ Lookup(w) \/ Withdraw(w) \/ SettleStale(w)
             \/ Fails(w) \/ Pass(w)
    BY <2>4, SameKeeps DEF Snapshot, Publish, Inactive, Expire, Justify, Claimed, Regranted, Compare,
         Lookup, Withdraw, SettleStale, Fails, Pass, local, bucket
  <2>5. CASE SaveUpdate(w) \/ DeleteRecord(w) \/ End(w)
    BY <2>5, SameKeeps DEF SaveUpdate, DeleteRecord, End, bucket
  <2> QED BY <1>2, <2>1, <2>2, <2>3, <2>4, <2>5 DEF Run, Revoke, Grant, RevokeNoLongerLive
<1>3. ASSUME NEW w \in Workers, CallFails(w) \/ Crash(w) \/ Deliver(w) PROVE Freed
  BY <1>3, SameKeeps DEF CallFails, Crash, Deliver, bucket
<1>4. ASSUME NEW w \in Writers, NEW k \in Contacts,
             Create(w, k) \/ Update(w, k) \/ Delete(w, k) \/ Republish(w, k)
      PROVE  Freed
  BY <1>4, SameKeeps DEF Create, Update, Delete, Republish, Call, bucket
<1>5. ASSUME NEW k \in Contacts, Change(k) PROVE Freed
  BY <1>5, SameKeeps DEF Change, bucket
<1>6. CASE Take \/ PassOver
  BY <1>6, SameKeeps DEF Take, PassOver, local, bucket
<1> QED BY <1>1, <1>2, <1>3, <1>4, <1>5, <1>6 DEF Next

(***************************************************************************)
(* What the calls of a program take for granted, and that every call that  *)
(* is done leaves a program whose calls can.                               *)
(***************************************************************************)

(* The calls that take a pair, or the absence of siblings, for granted.    *)
Heeds == {"withdraw", "settleStale", "delete", "recover"}
Delicate == Asserts \cup Heeds \cup {"keepMarker", "save", "recheck", "regranted", "claim", "claimed"}

(* Nothing delicate waits behind a call that brings in other calls, but    *)
(* what goes by the entry that a lookup reads.                             *)
Closed(t) == \A h, i \in 1 .. Len(t) : h < i /\ t[h].do \in Fence =>
    t[i].do \notin Delicate \/ (t[h].do = "lookup" /\ t[i].do \in {"withdraw", "settleStale"})

(* What a call takes for granted: A are the pairs that entries name, and   *)
(* V is Salesforce.                                                        *)
Sure(e, k, s, A, V) ==
    /\ s.do \in Asserts => s.pair \in A
    /\ s.do \in Heeds => {e.pair, e.marker} \subseteq A
    /\ s.do \in {"recheck", "regranted"} => Justifiers(V, s.pair, k) = {}
    /\ s.do \in {"claim", "claimed"} => Justifiers(V, e.pair, k) = {}
    /\ s.do # "save"
AllSure(e, k, t, A, V) == \A i \in 1 .. Len(t) : Sure(e, k, t[i], A, V)
Fit(e, k, t, A, V) == Handing(t) /\ Halted(e, t) /\ Closed(t) /\ AllSure(e, k, t, A, V)

Tame(t) == \A i \in 1 .. Len(t) : t[i].do \notin Delicate

(* A program without delicate calls takes nothing for granted.             *)
LEMMA TameFit ==
  ASSUME NEW t \in Seq(Steps), Tame(t), NEW e, NEW k, NEW A, NEW V
  PROVE  Fit(e, k, t, A, V)
<1>1. \A i \in 1 .. Len(t) : t[i].do \notin Delicate
  BY DEF Tame
<1>2. Handing(t) /\ Halted(e, t)
  BY <1>1 DEF Handing, Halted, Delicate
<1>3. Closed(t)
  BY <1>1 DEF Closed
<1>4. AllSure(e, k, t, A, V)
  BY <1>1 DEF AllSure, Sure, Delicate
<1> QED BY <1>2, <1>3, <1>4 DEF Fit

(* Behind a call that brings in others nothing is delicate.                *)
LEMMA FenceTail ==
  ASSUME NEW t \in Seq(Steps), t # <<>>, Closed(t), t[1].do \in Fence \ {"lookup"}
  PROVE  Tail(t) \in Seq(Steps) /\ Tame(Tail(t))
<1>1. Tail(t) \in Seq(Steps) /\ 1 \in 1 .. Len(t)
  BY TailFacts
<1>2. ASSUME NEW i \in 1 .. Len(Tail(t)) PROVE Tail(t)[i].do \notin Delicate
  <2>1. i + 1 \in 1 .. Len(t) /\ Tail(t)[i] = t[i + 1]
    BY TailFacts
  <2>2. 1 < i + 1
    OBVIOUS
  <2> QED BY <1>1, <2>1, <2>2 DEF Closed
<1> QED BY <1>1, <1>2 DEF Tame

(* What is left of a program takes no more for granted.                    *)
LEMMA FitTail ==
  ASSUME NEW t \in Seq(Steps), t # <<>>, NEW e, NEW k, NEW A, NEW V, Fit(e, k, t, A, V)
  PROVE  Fit(e, k, Tail(t), A, V)
<1> DEFINE r == Tail(t)
<1>1. /\ r \in Seq(Steps) /\ Len(r) = Len(t) - 1 /\ Len(t) \in Nat
      /\ \A i \in 1 .. Len(r) : i + 1 \in 1 .. Len(t) /\ r[i] = t[i + 1]
  BY TailFacts
<1>2. /\ Handing(t) /\ Halted(e, t) /\ Closed(t) /\ AllSure(e, k, t, A, V)
  BY DEF Fit
<1> HIDE DEF r
<1>3. Handing(r)
  <2>1. ASSUME NEW h \in 1 .. Len(r), r[h].do \in Asserts
        PROVE  h + 1 <= Len(r) /\ Owns(r, h + 1, r[h].pair)
    <3>1. h + 1 \in 1 .. Len(t) /\ r[h] = t[h + 1]
      BY <1>1
    <3>2. h + 1 + 1 <= Len(t) /\ Owns(t, h + 1 + 1, r[h].pair)
      BY <1>2, <2>1, <3>1 DEF Handing
    <3>3. h + 1 \in 1 .. Len(r)
      BY <1>1, <3>2
    <3>4. r[h + 1] = t[h + 1 + 1]
      BY <1>1, <3>3
    <3> QED BY <3>2, <3>3, <3>4 DEF Owns
  <2> QED BY <2>1 DEF Handing
<1>4. Halted(e, r)
  <2>1. ASSUME NEW h \in 1 .. Len(r), NEW i \in 1 .. Len(r), h < i, r[h].do \in Asserts,
               r[i].do = "keepMarker", r[h].pair # e.marker
        PROVE  \E n \in h + 1 .. i - 1 : r[n].do = "stop"
    <3>1. h + 1 \in 1 .. Len(t) /\ r[h] = t[h + 1] /\ i + 1 \in 1 .. Len(t) /\ r[i] = t[i + 1]
          /\ h + 1 < i + 1
      BY <1>1, <2>1
    <3>2. PICK n \in h + 1 + 1 .. i + 1 - 1 : t[n].do = "stop"
      BY <1>2, <2>1, <3>1 DEF Halted
    <3>3. n - 1 \in h + 1 .. i - 1 /\ n - 1 \in 1 .. Len(r) /\ n - 1 + 1 = n
      BY <1>1, <2>1, <3>2
    <3>4. r[n - 1] = t[n]
      BY <1>1, <3>3
    <3> QED BY <3>2, <3>3, <3>4
  <2> QED BY <2>1 DEF Halted
<1>5. Closed(r)
  <2>1. ASSUME NEW h \in 1 .. Len(r), NEW i \in 1 .. Len(r), h < i, r[h].do \in Fence
        PROVE  r[i].do \notin Delicate \/ (r[h].do = "lookup" /\ r[i].do \in {"withdraw", "settleStale"})
    <3>1. h + 1 \in 1 .. Len(t) /\ r[h] = t[h + 1] /\ i + 1 \in 1 .. Len(t) /\ r[i] = t[i + 1]
          /\ h + 1 < i + 1
      BY <1>1, <2>1
    <3> QED BY <1>2, <2>1, <3>1 DEF Closed
  <2> QED BY <2>1 DEF Closed
<1>6. AllSure(e, k, r, A, V)
  BY <1>1, <1>2 DEF AllSure
<1> QED BY <1>3, <1>4, <1>5, <1>6 DEF Fit, r

(* Nothing delicate behind a program: it takes no more for granted.        *)
LEMMA FitTame ==
  ASSUME NEW a \in Seq(Steps), NEW b \in Seq(Steps), Tame(b),
         NEW e, NEW k, NEW A, NEW V, Fit(e, k, a, A, V)
  PROVE  Fit(e, k, a \o b, A, V)
<1> DEFINE c == a \o b
<1>1. /\ c \in Seq(Steps) /\ Len(c) = Len(a) + Len(b) /\ Len(a) \in Nat /\ Len(b) \in Nat
      /\ \A i \in 1 .. Len(a) : i \in 1 .. Len(c) /\ c[i] = a[i]
      /\ \A i \in 1 .. Len(c) :
           \/ i \in 1 .. Len(a) /\ c[i] = a[i]
           \/ i - Len(a) \in 1 .. Len(b) /\ c[i] = b[i - Len(a)]
  BY ConcatFacts
<1>2. /\ Handing(a) /\ Halted(e, a) /\ Closed(a) /\ AllSure(e, k, a, A, V)
  BY DEF Fit
<1> HIDE DEF c
<1>3. \A i \in 1 .. Len(c) : c[i].do \in Delicate => i \in 1 .. Len(a) /\ c[i] = a[i]
  BY <1>1 DEF Tame
<1>4. Handing(c)
  <2>1. ASSUME NEW h \in 1 .. Len(c), c[h].do \in Asserts
        PROVE  h + 1 <= Len(c) /\ Owns(c, h + 1, c[h].pair)
    <3>1. h \in 1 .. Len(a) /\ c[h] = a[h]
      BY <1>3, <2>1 DEF Delicate
    <3>2. h + 1 <= Len(a) /\ Owns(a, h + 1, c[h].pair)
      BY <1>2, <2>1, <3>1 DEF Handing
    <3>3. h + 1 \in 1 .. Len(a)
      BY <1>1, <3>1, <3>2
    <3>4. h + 1 \in 1 .. Len(c) /\ c[h + 1] = a[h + 1]
      BY <1>1, <3>3
    <3> QED BY <1>1, <3>2, <3>4 DEF Owns
  <2> QED BY <2>1 DEF Handing
<1>5. Halted(e, c)
  <2>1. ASSUME NEW h \in 1 .. Len(c), NEW i \in 1 .. Len(c), h < i, c[h].do \in Asserts,
               c[i].do = "keepMarker", c[h].pair # e.marker
        PROVE  \E n \in h + 1 .. i - 1 : c[n].do = "stop"
    <3>1. h \in 1 .. Len(a) /\ c[h] = a[h] /\ i \in 1 .. Len(a) /\ c[i] = a[i]
      BY <1>3, <2>1 DEF Delicate
    <3>2. PICK n \in h + 1 .. i - 1 : a[n].do = "stop"
      BY <1>2, <2>1, <3>1 DEF Halted
    <3>3. n \in 1 .. Len(a)
      BY <1>1, <3>1, <3>2
    <3> QED BY <1>1, <3>2, <3>3
  <2> QED BY <2>1 DEF Halted
<1>6. Closed(c)
  <2>1. ASSUME NEW h \in 1 .. Len(c), NEW i \in 1 .. Len(c), h < i, c[h].do \in Fence
        PROVE  c[i].do \notin Delicate \/ (c[h].do = "lookup" /\ c[i].do \in {"withdraw", "settleStale"})
    <3>1. ASSUME c[i].do \in Delicate
          PROVE  h \in 1 .. Len(a) /\ c[h] = a[h] /\ i \in 1 .. Len(a) /\ c[i] = a[i]
      <4>1. i \in 1 .. Len(a) /\ c[i] = a[i]
        BY <1>3, <3>1
      <4>2. h \in 1 .. Len(a)
        BY <1>1, <2>1, <4>1
      <4> QED BY <1>1, <4>1, <4>2
    <3> QED BY <1>2, <2>1, <3>1 DEF Closed
  <2> QED BY <2>1 DEF Closed
<1>7. AllSure(e, k, c, A, V)
  <2>1. ASSUME NEW i \in 1 .. Len(c) PROVE Sure(e, k, c[i], A, V)
    <3>1. CASE c[i].do \in Delicate
      BY <1>2, <1>3, <3>1 DEF AllSure
    <3>2. CASE c[i].do \notin Delicate
      BY <3>2 DEF Sure, Delicate
    <3> QED BY <3>1, <3>2
  <2> QED BY <2>1 DEF AllSure
<1> QED BY <1>4, <1>5, <1>6, <1>7 DEF Fit, c

(* Two programs in a row, the first of which brings in nothing: what the   *)
(* first puts back is the marker's, or there is a stop between them.       *)
Seam(e, a) == \/ \A h \in 1 .. Len(a) : a[h].do \in Asserts => a[h].pair = e.marker
              \/ Len(a) > 0 /\ a[Len(a)].do = "stop"

(* A program is joined to another that needs nothing of it.                *)
LEMMA FitConcat ==
  ASSUME NEW a \in Seq(Steps), NEW b \in Seq(Steps), Open(a), NEW e, Seam(e, a),
         NEW k, NEW A, NEW V, Fit(e, k, a, A, V), Fit(e, k, b, A, V)
  PROVE  Fit(e, k, a \o b, A, V)
<1> DEFINE c == a \o b
<1>1. /\ c \in Seq(Steps) /\ Len(c) = Len(a) + Len(b) /\ Len(a) \in Nat /\ Len(b) \in Nat
      /\ \A i \in 1 .. Len(a) : i \in 1 .. Len(c) /\ c[i] = a[i]
      /\ \A i \in 1 .. Len(c) :
           \/ i \in 1 .. Len(a) /\ c[i] = a[i]
           \/ i - Len(a) \in 1 .. Len(b) /\ c[i] = b[i - Len(a)]
  BY ConcatFacts
<1>2. /\ Handing(a) /\ Halted(e, a) /\ Closed(a) /\ AllSure(e, k, a, A, V)
      /\ Handing(b) /\ Halted(e, b) /\ Closed(b) /\ AllSure(e, k, b, A, V)
      /\ \A i \in 1 .. Len(a) : a[i].do \notin Fence
  BY DEF Fit, Open
<1>2b. \A j \in 1 .. Len(b) : Len(a) + j \in 1 .. Len(c) /\ c[Len(a) + j] = b[j]
  <2>1. ASSUME NEW j \in 1 .. Len(b) PROVE Len(a) + j \in 1 .. Len(c) /\ c[Len(a) + j] = b[j]
    <3>1. Len(a) + j \in 1 .. Len(c) /\ ~(Len(a) + j \in 1 .. Len(a)) /\ Len(a) + j - Len(a) = j
      BY <1>1
    <3> QED BY <1>1, <3>1
  <2> QED BY <2>1
<1> HIDE DEF c
<1>4. Handing(c)
  <2>1. ASSUME NEW h \in 1 .. Len(c), c[h].do \in Asserts
        PROVE  h + 1 <= Len(c) /\ Owns(c, h + 1, c[h].pair)
    <3>1. CASE h \in 1 .. Len(a) /\ c[h] = a[h]
      <4>2. h + 1 <= Len(a) /\ Owns(a, h + 1, c[h].pair)
        BY <1>2, <2>1, <3>1 DEF Handing
      <4>3. h + 1 \in 1 .. Len(a)
        BY <1>1, <3>1, <4>2
      <4>4. h + 1 \in 1 .. Len(c) /\ c[h + 1] = a[h + 1]
        BY <1>1, <4>3
      <4> QED BY <1>1, <4>2, <4>4 DEF Owns
    <3>2. CASE h - Len(a) \in 1 .. Len(b) /\ c[h] = b[h - Len(a)]
      <4>1. PICK j : j = h - Len(a)
        OBVIOUS
      <4>2. j + 1 <= Len(b) /\ Owns(b, j + 1, c[h].pair)
        BY <1>2, <2>1, <3>2, <4>1 DEF Handing
      <4>3. j + 1 \in 1 .. Len(b) /\ Len(a) + (j + 1) = h + 1
        BY <1>1, <3>2, <4>1, <4>2
      <4>4. h + 1 \in 1 .. Len(c) /\ c[h + 1] = b[j + 1]
        BY <1>2b, <4>3
      <4> QED BY <1>1, <4>2, <4>4 DEF Owns
    <3> QED BY <1>1, <3>1, <3>2
  <2> QED BY <2>1 DEF Handing
<1>5. Halted(e, c)
  <2>1. ASSUME NEW h \in 1 .. Len(c), NEW i \in 1 .. Len(c), h < i, c[h].do \in Asserts,
               c[i].do = "keepMarker", c[h].pair # e.marker
        PROVE  \E n \in h + 1 .. i - 1 : c[n].do = "stop"
    <3>1. CASE i \in 1 .. Len(a) /\ c[i] = a[i]
      <4>1. h \in 1 .. Len(a)
        BY <1>1, <2>1, <3>1
      <4>2. c[h] = a[h]
        BY <1>1, <4>1
      <4>3. PICK n \in h + 1 .. i - 1 : a[n].do = "stop"
        BY <1>2, <2>1, <3>1, <4>1, <4>2 DEF Halted
      <4>4. n \in 1 .. Len(a)
        BY <1>1, <3>1, <4>1, <4>3
      <4> QED BY <1>1, <4>3, <4>4
    <3>2. CASE /\ i - Len(a) \in 1 .. Len(b) /\ c[i] = b[i - Len(a)]
               /\ h - Len(a) \in 1 .. Len(b) /\ c[h] = b[h - Len(a)]
      <4>1. PICK j, g : j = i - Len(a) /\ g = h - Len(a)
        OBVIOUS
      <4>2. g < j /\ j \in 1 .. Len(b) /\ g \in 1 .. Len(b)
        BY <1>1, <2>1, <3>2, <4>1
      <4>3. PICK n \in g + 1 .. j - 1 : b[n].do = "stop"
        BY <1>2, <2>1, <3>2, <4>1, <4>2 DEF Halted
      <4>4. n \in 1 .. Len(b) /\ Len(a) + n \in h + 1 .. i - 1
        BY <1>1, <4>1, <4>2, <4>3
      <4> QED BY <1>2b, <4>3, <4>4
    <3>3. CASE /\ i - Len(a) \in 1 .. Len(b)
               /\ h \in 1 .. Len(a) /\ c[h] = a[h]
      <4>1. Len(a) > 0 /\ a[Len(a)].do = "stop"
        BY <2>1, <3>3 DEF Seam
      <4>2. h # Len(a)
        BY <2>1, <3>3, <4>1 DEF Asserts
      <4>3. Len(a) \in h + 1 .. i - 1 /\ Len(a) \in 1 .. Len(a)
        BY <1>1, <3>3, <4>1, <4>2
      <4> QED BY <1>1, <4>1, <4>3
    <3> QED BY <1>1, <3>1, <3>2, <3>3
  <2> QED BY <2>1 DEF Halted
<1>6. Closed(c)
  <2>1. ASSUME NEW h \in 1 .. Len(c), NEW i \in 1 .. Len(c), h < i, c[h].do \in Fence
        PROVE  c[i].do \notin Delicate \/ (c[h].do = "lookup" /\ c[i].do \in {"withdraw", "settleStale"})
    <3>1. PICK g \in 1 .. Len(b) : g = h - Len(a) /\ c[h] = b[g]
      BY <1>1, <1>2, <2>1
    <3>2. PICK j \in 1 .. Len(b) : j = i - Len(a) /\ c[i] = b[j]
      <4>1. ~(i \in 1 .. Len(a))
        BY <1>1, <2>1, <3>1
      <4> QED BY <1>1, <4>1
    <3>3. g < j
      BY <1>1, <2>1, <3>1, <3>2
    <3> QED BY <1>2, <2>1, <3>1, <3>2, <3>3 DEF Closed
  <2> QED BY <2>1 DEF Closed
<1>7. AllSure(e, k, c, A, V)
  BY <1>1, <1>2 DEF AllSure
<1> QED BY <1>4, <1>5, <1>6, <1>7 DEF Fit, c

(* More pairs are named, and Salesforce differs in the record only.        *)
LEMMA FitGrows ==
  ASSUME NEW e, NEW k, NEW t, NEW A, NEW V, Fit(e, k, t, A, V), NEW B, A \subseteq B,
         NEW U, \A p : Justifiers(U, p, k) = Justifiers(V, p, k)
  PROVE  Fit(e, k, t, B, U)
<1>1. AllSure(e, k, t, B, U)
  <2>1. ASSUME NEW i \in 1 .. Len(t) PROVE Sure(e, k, t[i], B, U)
    BY DEF Fit, AllSure, Sure
  <2> QED BY <2>1 DEF AllSure
<1> QED BY <1>1 DEF Fit

(* The calls a program may be continued with, whatever else is to be done. *)
MildSteps(k, V) == {s \in Steps : /\ s.do \in Light \cup {"scanLive"}
                                  /\ s.do = "recheck" => Justifiers(V, s.pair, k) = {}}
(* Those that take nothing for granted.                                    *)
TameSteps == {s \in Steps : s.do \notin Delicate}

(* Programs of one call.                                                   *)
LEMMA OneOf ==
  ASSUME NEW S, NEW d, NEW p
  PROVE  /\ <<>> \in Seq(S)
         /\ Step(d, None) \in S => Only(d) \in Seq(S)
         /\ Step(d, p) \in S => For(<<d>>, p) \in Seq(S)
<1>1. <<>> \in Seq(S)
  OBVIOUS
<1>2. ASSUME NEW s \in S PROVE <<s>> \in Seq(S)
  OBVIOUS
<1> QED BY <1>1, <1>2, OnlyIs

(* A tame program is made of tame calls.                                   *)
LEMMA TameAre == ASSUME NEW t \in Seq(TameSteps) PROVE t \in Seq(Steps) /\ Tame(t)
<1>1. t \in Seq(Steps)
  BY DEF TameSteps
<1>2. \A i \in 1 .. Len(t) : t[i] \in TameSteps
  OBVIOUS
<1> QED BY <1>1, <1>2 DEF Tame, TameSteps

(* A program is continued with mild calls.                                 *)
LEMMA MildFit ==
  ASSUME NEW t \in Seq(Steps), NEW e, NEW k, NEW A, NEW V, Fit(e, k, t, A, V),
         NEW steps \in Seq(MildSteps(k, V))
  PROVE  Fit(e, k, steps \o t, A, V)
<1>1. steps \in Seq(Steps)
  BY DEF MildSteps
<1>2. \A i \in 1 .. Len(steps) : steps[i] \in MildSteps(k, V)
  OBVIOUS
<1>3. \A i \in 1 .. Len(steps) : steps[i].do \notin Fence \cup Asserts \cup Heeds \cup
          {"keepMarker", "save", "regranted", "claim", "claimed"}
  BY <1>2 DEF MildSteps, Light, Fence, Asserts, Heeds
<1>4. Open(steps) /\ Seam(e, steps) /\ Handing(steps) /\ Halted(e, steps) /\ Closed(steps)
  BY <1>3 DEF Open, Seam, Handing, Halted, Closed
<1>5. AllSure(e, k, steps, A, V)
  BY <1>2, <1>3 DEF AllSure, Sure, MildSteps
<1> QED BY <1>1, <1>4, <1>5, FitConcat DEF Fit

(* The pairs that entries name, and none.                                  *)
Addressed == Addresses \cup {None}
Fits(w) == Fit(work[w].entry, work[w].k, work[w].todo, Addressed, sf)

(* A call moves on: the rest of its job, and the other workers.            *)
LEMMA GoHas ==
  ASSUME Working, NEW w \in Workers, NEW job \in Jobs, NEW msgs, NEW steps \in Seq(Steps),
         job.todo # <<>>, Go(w, job, msgs, steps)
  PROVE  /\ work'[w].todo = steps \o Tail(job.todo) /\ work'[w].todo \in Seq(Steps)
         /\ work'[w].entry = job.entry /\ work'[w].k = job.k /\ work'[w].kc = job.kc
         /\ work'[w].view = job.view /\ work'[w].hold = job.hold
         /\ \A v \in Workers \ {w} : work'[v] = work[v] /\ wire'[v] = wire[v]
<1> DEFINE new == [job EXCEPT !.todo = steps \o Tail(@)]
<1>1. work' = [work EXCEPT ![w] = new]
  BY DEF Go
<1>2. job.todo \in Seq(Steps) /\ Tail(job.todo) \in Seq(Steps)
  BY TailFacts DEF Jobs
<1>3. steps \o Tail(job.todo) \in Seq(Steps)
  BY <1>2, Concats
<1>4. /\ new.todo = steps \o Tail(job.todo) /\ new.entry = job.entry /\ new.k = job.k
      /\ new.kc = job.kc /\ new.view = job.view /\ new.hold = job.hold
  BY DEF Jobs
<1> HIDE DEF new
<1>5. work'[w] = new
  BY <1>1 DEF Working
<1>6. \A v \in Workers \ {w} : work'[v] = work[v] /\ wire'[v] = wire[v]
  BY DEF Go, Working
<1> QED BY <1>3, <1>4, <1>5, <1>6

(* A call that brings in calls of its own.                                 *)
LEMMA FenceFits ==
  ASSUME Working, NEW w \in Workers, NEW d, At(w, d), d \in Fence \ {"lookup"}, Fits(w),
         NEW job \in Jobs, job.todo = work[w].todo, NEW msgs, NEW steps \in Seq(Steps),
         Go(w, job, msgs, steps), NEW A, A = Addressed', Fit(job.entry, job.k, steps, A, sf')
  PROVE  Fits(w)'
<1>1. /\ work[w].todo \in Seq(Steps) /\ work[w].todo # <<>> /\ work[w].todo[1].do = d
      /\ job.todo # <<>>
  BY AtFacts, TailFacts DEF Jobs
<1>2. Closed(work[w].todo)
  BY DEF Fits, Fit
<1>3. Tail(work[w].todo) \in Seq(Steps) /\ Tame(Tail(work[w].todo))
  BY <1>1, <1>2, FenceTail
<1>4. PICK V : V = sf'
  OBVIOUS
<1>5. Fit(job.entry, job.k, steps \o Tail(job.todo), A, V)
  BY <1>3, <1>4, FitTame
<1>6. /\ work'[w].todo = steps \o Tail(job.todo)
      /\ work'[w].entry = job.entry /\ work'[w].k = job.k
  BY <1>1, GoHas
<1> QED BY <1>4, <1>5, <1>6 DEF Fits

(* A call that is done and replaced by mild ones.                          *)
LEMMA MildFits ==
  ASSUME Working, NEW w \in Workers, work[w].todo # <<>>, Fits(w),
         NEW job \in Jobs, job.todo = work[w].todo, job.k = work[w].k, job.entry = work[w].entry,
         NEW msgs, NEW steps \in Seq(MildSteps(work[w].k, sf)), Go(w, job, msgs, steps),
         Addressed \subseteq Addressed', sf' = sf
  PROVE  Fits(w)'
<1>1. /\ work[w].todo \in Seq(Steps) /\ job.todo # <<>> /\ steps \in Seq(Steps)
      /\ Tail(work[w].todo) \in Seq(Steps)
  BY TailFacts DEF Working, Jobs, MildSteps
<1>2. PICK A, B, k, e : A = Addressed /\ B = Addressed' /\ k = work[w].k /\ e = work[w].entry
  OBVIOUS
<1>3. Fit(e, k, Tail(work[w].todo), A, sf)
  BY <1>1, <1>2, FitTail DEF Fits
<1>4. Fit(e, k, steps \o Tail(work[w].todo), A, sf)
  BY <1>1, <1>2, <1>3, MildFit
<1>5. Fit(e, k, steps \o Tail(work[w].todo), B, sf)
  BY <1>2, <1>4, FitGrows
<1>6. /\ work'[w].todo = steps \o Tail(job.todo)
      /\ work'[w].entry = job.entry /\ work'[w].k = job.k
  BY <1>1, GoHas
<1> QED BY <1>2, <1>5, <1>6 DEF Fits

(* Nothing is written: the same pairs are named.                           *)
LEMMA SameNames == ASSUME grants' = grants PROVE Addressed' = Addressed
  BY DEF Addressed, Addresses

(* A call that is done.                                                    *)
LEMMA SkipFits ==
  ASSUME Working, NEW w \in Workers, work[w].todo # <<>>, Fits(w), Skip(w),
         Addressed \subseteq Addressed', sf' = sf
  PROVE  Fits(w)'
<1>1. work[w] \in Jobs /\ <<>> \in Seq(MildSteps(work[w].k, sf))
  BY DEF Working
<1> QED BY <1>1, MildFits DEF Skip

(* The programs a call is continued with.                                  *)
LEMMA MildPrograms ==
  ASSUME NEW k, NEW V, NEW p \in Pairs
  PROVE  /\ <<>> \in Seq(MildSteps(k, V)) /\ Only("flush") \in Seq(MildSteps(k, V))
         /\ Only("fail") \in Seq(MildSteps(k, V)) /\ For(<<"scanLive">>, p) \in Seq(MildSteps(k, V))
         /\ Only("flush") \o For(<<"verify">>, p) \in Seq(MildSteps(k, V))
         /\ Only("flush") \o Only("fail") \in Seq(MildSteps(k, V))
         /\ Justifiers(V, p, k) = {} =>
              /\ <<>> \o For(<<"recheck">>, p) \in Seq(MildSteps(k, V))
              /\ Only("flush") \o For(<<"recheck">>, p) \in Seq(MildSteps(k, V))
<1>1. ASSUME NEW d \in {"flush", "verify", "fail", "scanLive"}, NEW x \in PairOrNone
      PROVE  Step(d, x) \in MildSteps(k, V)
  <2>1. Step(d, x).do = d /\ Step(d, x).pair = x
    BY DEF Step
  <2>2. Step(d, x) \in Steps
    BY StepTypes DEF Calls
  <2> QED BY <2>1, <2>2 DEF MildSteps, Light
<1>2. Justifiers(V, p, k) = {} => Step("recheck", p) \in MildSteps(k, V)
  <2>1. Step("recheck", p).do = "recheck" /\ Step("recheck", p).pair = p
    BY DEF Step
  <2>2. Step("recheck", p) \in Steps
    BY StepTypes DEF Calls, PairOrNone
  <2> QED BY <2>1, <2>2 DEF MildSteps, Light
<1>3. PICK S : S = MildSteps(k, V)
  OBVIOUS
<1>4. /\ <<>> \in Seq(S) /\ Only("flush") \in Seq(S) /\ Only("fail") \in Seq(S)
      /\ For(<<"scanLive">>, p) \in Seq(S) /\ For(<<"verify">>, p) \in Seq(S)
      /\ Justifiers(V, p, k) = {} => For(<<"recheck">>, p) \in Seq(S)
  BY <1>1, <1>2, <1>3, OneOf DEF PairOrNone
<1>5. /\ Only("flush") \o For(<<"verify">>, p) \in Seq(S)
      /\ Only("flush") \o Only("fail") \in Seq(S)
      /\ Justifiers(V, p, k) = {} => Only("flush") \o For(<<"recheck">>, p) \in Seq(S)
      /\ Justifiers(V, p, k) = {} => <<>> \o For(<<"recheck">>, p) \in Seq(S)
  BY <1>4, Concats
<1> QED BY <1>3, <1>4, <1>5

(* A single call that puts nothing back.                                   *)
LEMMA OneFit ==
  ASSUME NEW s \in Steps, s.do \notin Asserts, NEW e, NEW k, NEW A, NEW V, Sure(e, k, s, A, V)
  PROVE  <<s>> \in Seq(Steps) /\ Fit(e, k, <<s>>, A, V) /\ Seam(e, <<s>>)
<1> DEFINE t == <<s>>
<1>1. t \in Seq(Steps) /\ Len(t) = 1 /\ t[1] = s
  OBVIOUS
<1> HIDE DEF t
<1>2. \A i \in 1 .. Len(t) : i = 1 /\ t[i] = s
  BY <1>1
<1>3. Handing(t) /\ Halted(e, t) /\ Seam(e, t)
  BY <1>2 DEF Handing, Halted, Seam
<1>4. Closed(t)
  <2>1. ASSUME NEW h \in 1 .. Len(t), NEW i \in 1 .. Len(t), h < i PROVE FALSE
    <3>1. h = 1 /\ i = 1
      BY <1>2
    <3> QED BY <2>1, <3>1
  <2> QED BY <2>1 DEF Closed
<1>5. AllSure(e, k, t, A, V)
  BY <1>2 DEF AllSure
<1> QED BY <1>1, <1>3, <1>4, <1>5 DEF Fit, t

(* A program about one pair.                                               *)
LEMMA ForSteps ==
  ASSUME NEW ds \in Seq(Calls), NEW p \in PairOrNone
  PROVE  /\ For(ds, p) \in Seq(Steps) /\ Len(For(ds, p)) = Len(ds) /\ Len(ds) \in Nat
         /\ \A i \in 1 .. Len(ds) : For(ds, p)[i].do = ds[i] /\ For(ds, p)[i].pair = p
  BY ForType, ForAt

(* The two revokes that put a pair back for a sibling found.               *)
LEMMA RevokeFit ==
  ASSUME NEW p \in Pairs, NEW e, NEW k, NEW A, NEW V, p \in A, NEW t \in {Drain(p), RevokeConfirmed(p)}
  PROVE  /\ t \in Seq(Steps) /\ Open(t) /\ Fit(e, k, t, A, V)
         /\ p = e.marker => Seam(e, t)
<1>1. ASSUME NEW ds \in Seq(Calls), t = For(ds, p),
             \A i \in 1 .. Len(ds) : ds[i] \in {"scan", "settle", "own", "confirmLive", "reassert"},
             \A i \in 1 .. Len(ds) : ds[i] \in Asserts => i + 1 <= Len(ds) /\ ds[i + 1] = "own"
      PROVE  /\ t \in Seq(Steps) /\ Open(t) /\ Fit(e, k, t, A, V)
             /\ p = e.marker => Seam(e, t)
  <2>1. /\ t \in Seq(Steps) /\ Len(t) = Len(ds) /\ Len(ds) \in Nat
        /\ \A i \in 1 .. Len(t) : t[i].do = ds[i] /\ t[i].pair = p
    BY <1>1, ForSteps DEF PairOrNone
  <2>2. \A i \in 1 .. Len(t) : t[i].do \in {"scan", "settle", "own", "confirmLive", "reassert"}
    BY <1>1, <2>1
  <2>3. \A i \in 1 .. Len(t) : t[i].do \notin Fence /\ t[i].do # "keepMarker"
    BY <2>2 DEF Fence
  <2>4. Open(t) /\ Halted(e, t) /\ Closed(t) /\ (p = e.marker => Seam(e, t))
    BY <2>1, <2>3 DEF Open, Halted, Closed, Seam
  <2>5. Handing(t)
    <3>1. ASSUME NEW h \in 1 .. Len(t), t[h].do \in Asserts
          PROVE  h + 1 <= Len(t) /\ Owns(t, h + 1, t[h].pair)
      <4>1. h + 1 <= Len(t) /\ ds[h + 1] = "own"
        BY <1>1, <2>1, <3>1
      <4>2. h + 1 \in 1 .. Len(t)
        BY <2>1, <4>1
      <4> QED BY <2>1, <4>1, <4>2 DEF Owns
    <3> QED BY <3>1 DEF Handing
  <2>6. AllSure(e, k, t, A, V)
    <3>1. ASSUME NEW i \in 1 .. Len(t) PROVE Sure(e, k, t[i], A, V)
      <4>1. t[i].pair \in A /\ t[i].do \in {"scan", "settle", "own", "confirmLive", "reassert"}
        BY <2>1, <2>2
      <4> QED BY <4>1 DEF Sure, Heeds
    <3> QED BY <3>1 DEF AllSure
  <2> QED BY <2>1, <2>4, <2>5, <2>6 DEF Fit
<1>2. CASE t = Drain(p)
  <2>1. PICK ds : ds = <<"scan", "settle", "own">>
    OBVIOUS
  <2>2. /\ ds \in Seq(Calls) /\ Len(ds) = 3 /\ ds[1] = "scan" /\ ds[2] = "settle" /\ ds[3] = "own"
        /\ t = For(ds, p)
    BY <1>2, <2>1, SmallPrograms DEF Calls, Drain
  <2>3. \A i \in 1 .. Len(ds) : i = 1 \/ i = 2 \/ i = 3
    BY <2>2
  <2>4. \A i \in 1 .. Len(ds) : ds[i] \in Asserts => i + 1 <= Len(ds) /\ ds[i + 1] = "own"
    BY <2>2, <2>3 DEF Asserts
  <2> QED BY <1>1, <2>2, <2>3, <2>4
<1>3. CASE t = RevokeConfirmed(p)
  <2>1. PICK ds : ds = <<"scan", "confirmLive", "reassert", "own">>
    OBVIOUS
  <2>2. /\ ds \in Seq(Calls) /\ Len(ds) = 4
        /\ ds[1] = "scan" /\ ds[2] = "confirmLive" /\ ds[3] = "reassert" /\ ds[4] = "own"
        /\ t = For(ds, p)
    BY <1>3, <2>1, SmallPrograms DEF Calls, RevokeConfirmed
  <2>3. \A i \in 1 .. Len(ds) : i = 1 \/ i = 2 \/ i = 3 \/ i = 4
    BY <2>2
  <2>4. \A i \in 1 .. Len(ds) : ds[i] \in Asserts => i + 1 <= Len(ds) /\ ds[i + 1] = "own"
    BY <2>2, <2>3 DEF Asserts
  <2> QED BY <1>1, <2>2, <2>3, <2>4
<1> QED BY <1>2, <1>3

(* Programs of tame calls.                                                 *)
LEMMA TamePrograms ==
  /\ <<>> \in Seq(TameSteps)
  /\ \A d \in Calls \ Delicate : /\ Only(d) \in Seq(TameSteps)
                                 /\ \A p \in PairOrNone : For(<<d>>, p) \in Seq(TameSteps)
  /\ \A p \in PairOrNone : For(<<"scan", "own">>, p) \in Seq(TameSteps)
  /\ \A a, b \in Seq(TameSteps) : a \o b \in Seq(TameSteps)
<1>1. ASSUME NEW d \in Calls \ Delicate, NEW p \in PairOrNone PROVE Step(d, p) \in TameSteps
  <2>1. Step(d, p) \in Steps
    BY StepTypes
  <2> QED BY <2>1 DEF TameSteps, Step
<1>2. PICK S : S = TameSteps
  OBVIOUS
<1>3. ASSUME NEW d \in Calls \ Delicate
      PROVE  /\ Only(d) \in Seq(S) /\ \A p \in PairOrNone : For(<<d>>, p) \in Seq(S)
  BY <1>1, <1>2, OneOf DEF PairOrNone
<1>4. ASSUME NEW p \in PairOrNone PROVE For(<<"scan", "own">>, p) \in Seq(S)
  <2>1. PICK ds : ds = <<"scan", "own">>
    OBVIOUS
  <2>2. ds \in Seq(Calls) /\ Len(ds) = 2 /\ ds[1] = "scan" /\ ds[2] = "own" /\ DOMAIN ds = 1 .. 2
    BY <2>1, SmallPrograms DEF Calls
  <2>3. \A i \in 1 .. 2 : ds[i] \in Calls \ Delicate
    <3>1. \A i \in 1 .. 2 : i = 1 \/ i = 2
      OBVIOUS
    <3> QED BY <2>2, <3>1 DEF Calls, Delicate, Asserts, Heeds
  <2>4. \A i \in 1 .. 2 : Step(ds[i], p) \in S
    BY <1>1, <1>2, <2>3
  <2>5. For(ds, p) = [i \in 1 .. 2 |-> Step(ds[i], p)]
    BY <2>2 DEF For
  <2>6. [i \in 1 .. 2 |-> Step(ds[i], p)] \in Seq(S)
    BY <2>4
  <2> QED BY <2>1, <2>5, <2>6
<1>5. \A a, b \in Seq(S) : a \o b \in Seq(S)
  OBVIOUS
<1>6. <<>> \in Seq(S)
  OBVIOUS
<1> QED BY <1>2, <1>3, <1>4, <1>5, <1>6

(* A revoke with tame calls behind it.                                     *)
LEMMA RevokeThen ==
  ASSUME NEW p \in Pairs, NEW e, NEW k, NEW A, NEW V, p \in A, NEW t \in {Drain(p), RevokeConfirmed(p)},
         NEW b \in Seq(TameSteps)
  PROVE  t \o b \in Seq(Steps) /\ Fit(e, k, t \o b, A, V)
<1>1. b \in Seq(Steps) /\ Tame(b)
  BY TameAre
<1>2. t \in Seq(Steps) /\ Fit(e, k, t, A, V)
  BY RevokeFit
<1> QED BY <1>1, <1>2, FitTame, Concats

(* The remove of a superseded pair, with what follows it.                  *)
LEMMA SupersededThen ==
  ASSUME NEW p \in Pairs, NEW e, NEW k, NEW A, NEW V, p \in A, NEW b \in Seq(TameSteps)
  PROVE  /\ RevokeSuperseded(p) \in Seq(Steps) /\ Fit(e, k, RevokeSuperseded(p), A, V)
         /\ RevokeSuperseded(p) \o b \in Seq(Steps) /\ Fit(e, k, RevokeSuperseded(p) \o b, A, V)
<1>1. For(<<"clearMarker">>, p) \in Seq(TameSteps)
  BY TamePrograms DEF Calls, Delicate, Asserts, Heeds, PairOrNone
<1>2. RevokeSuperseded(p) \in Seq(Steps) /\ Fit(e, k, RevokeSuperseded(p), A, V)
  <2>1. PICK t : t = Drain(p)
    OBVIOUS
  <2>2. t \o For(<<"clearMarker">>, p) \in Seq(Steps) /\ Fit(e, k, t \o For(<<"clearMarker">>, p), A, V)
    BY <1>1, <2>1, RevokeThen
  <2> QED BY <2>1, <2>2 DEF RevokeSuperseded
<1>3. b \in Seq(Steps) /\ Tame(b)
  BY TameAre
<1> QED BY <1>2, <1>3, FitTame, Concats

(* A call that brings in tame calls only.                                  *)
LEMMA TameFits ==
  ASSUME Working, NEW w \in Workers, NEW d, At(w, d), d \in Fence \ {"lookup"}, Fits(w),
         NEW job \in Jobs, job.todo = work[w].todo, NEW msgs, NEW steps \in Seq(TameSteps),
         Go(w, job, msgs, steps)
  PROVE  Fits(w)'
<1>1. steps \in Seq(Steps) /\ Tame(steps)
  BY TameAre
<1>2. PICK A, V : A = Addressed' /\ V = sf'
  OBVIOUS
<1>3. Fit(job.entry, job.k, steps, A, V)
  BY <1>1, TameFit
<1> QED BY <1>1, <1>2, <1>3, FenceFits

(* The call's view agrees with Salesforce but for its own record.          *)
Sees(w) == work[w].view # None => \A s \in Contacts \ {work[w].k} : work[w].view[s] = sf[s]

(* A scan, or the view read before it, finds the siblings there are.       *)
LEMMA SeesSiblings ==
  ASSUME NEW w \in Workers, Sees(w), NEW d, NEW view \in Scanned(w, d), NEW p
  PROVE  Justifiers(view, p, work[w].k) = Justifiers(sf, p, work[w].k)
  BY DEF Sees, Scanned, Justifiers

(* A scan.                                                                 *)
LEMMA ScanFits == ASSUME Shape, NEW w \in Workers, Scan(w), Fits(w), Sees(w) PROVE Fits(w)'
<1>1. PICK d \in {"scan", "scanLive", "scanQuick"} : /\ At(w, d)
        /\ \E view \in Scanned(w, d) :
             LET by == Justifiers(view, Pair(w), work[w].k)
                 confirmed == IF d = "scanQuick" THEN <<>> ELSE Only("flush")
             IN \/ \E s \in by : Go(w, [work[w] EXCEPT !.by = s], <<>>, <<>>)
                \/ /\ by = {}
                   /\ Go(w, [work[w] EXCEPT !.by = None], <<Remove(Pair(w))>>,
                         confirmed \o For(<<"recheck">>, Pair(w)))
  BY DEF Scan
<1>2. /\ Working /\ work[w] \in Jobs /\ work[w].todo # <<>> /\ Pair(w) \in Pairs
      /\ sf' = sf /\ Addressed \subseteq Addressed'
  BY <1>1, AtFacts, SameNames DEF Shape, Paired, Scan, local, bucket
<1>3. PICK view \in Scanned(w, d) :
             LET by == Justifiers(view, Pair(w), work[w].k)
                 confirmed == IF d = "scanQuick" THEN <<>> ELSE Only("flush")
             IN \/ \E s \in by : Go(w, [work[w] EXCEPT !.by = s], <<>>, <<>>)
                \/ /\ by = {}
                   /\ Go(w, [work[w] EXCEPT !.by = None], <<Remove(Pair(w))>>,
                         confirmed \o For(<<"recheck">>, Pair(w)))
  BY <1>1
<1>4. ASSUME NEW s \in Contacts \cup {None}, NEW msgs, NEW steps \in Seq(MildSteps(work[w].k, sf)),
             Go(w, [work[w] EXCEPT !.by = s], msgs, steps)
      PROVE  Fits(w)'
  <2>1. PICK job : job = [work[w] EXCEPT !.by = s]
    OBVIOUS
  <2>2. job \in Jobs /\ job.todo = work[w].todo /\ job.entry = work[w].entry /\ job.k = work[w].k
    BY <1>2, <2>1, JobSets
  <2>3. Go(w, job, msgs, steps)
    BY <1>4, <2>1
  <2> QED BY <1>2, <2>2, <2>3, MildFits
<1>5. ASSUME NEW s \in Justifiers(view, Pair(w), work[w].k), Go(w, [work[w] EXCEPT !.by = s], <<>>, <<>>)
      PROVE  Fits(w)'
  <2>1. s \in Contacts \cup {None}
    BY JustifiersAre
  <2>2. <<>> \in Seq(MildSteps(work[w].k, sf))
    OBVIOUS
  <2> QED BY <1>4, <1>5, <2>1, <2>2
<1>6. ASSUME Justifiers(view, Pair(w), work[w].k) = {},
             Go(w, [work[w] EXCEPT !.by = None], <<Remove(Pair(w))>>,
                (IF d = "scanQuick" THEN <<>> ELSE Only("flush")) \o For(<<"recheck">>, Pair(w)))
      PROVE  Fits(w)'
  <2>1. Justifiers(sf, Pair(w), work[w].k) = {}
    BY <1>3, <1>6, SeesSiblings
  <2>2. PICK steps : steps = (IF d = "scanQuick" THEN <<>> ELSE Only("flush")) \o For(<<"recheck">>, Pair(w))
    OBVIOUS
  <2>3. steps \in Seq(MildSteps(work[w].k, sf))
    BY <1>2, <2>1, <2>2, MildPrograms
  <2> QED BY <1>4, <1>6, <2>2, <2>3
<1> QED BY <1>3, <1>5, <1>6

(* The job stays as it is: the call is done or replaced by mild ones.      *)
LEMMA SameFits ==
  ASSUME Working, NEW w \in Workers, work[w].todo # <<>>, Fits(w), NEW msgs,
         NEW steps \in Seq(MildSteps(work[w].k, sf)), Go(w, work[w], msgs, steps),
         Addressed \subseteq Addressed', sf' = sf
  PROVE  Fits(w)'
<1>1. work[w] \in Jobs
  BY DEF Working
<1> QED BY <1>1, MildFits

(* The other calls of a revoke, but the hand-over.                         *)
LEMMA RevokeFits ==
  ASSUME Shape, NEW w \in Workers, Fits(w),
         Flush(w) \/ Recheck(w) \/ Verify(w) \/ ConfirmLive(w) \/ Settle(w) \/ Reassert(w) \/ Regranted(w)
  PROVE  Fits(w)'
<1>1. PICK d \in {"flush", "recheck", "verify", "confirmLive", "settle", "reassert", "regranted"} :
        At(w, d)
  BY DEF Flush, Recheck, Verify, ConfirmLive, Settle, Reassert, Regranted
<1>2. /\ Working /\ work[w] \in Jobs /\ work[w].todo # <<>>
      /\ Recheck(w) \/ Verify(w) \/ ConfirmLive(w) \/ Settle(w) => Pair(w) \in Pairs
      /\ sf' = sf /\ Addressed \subseteq Addressed'
  <2>1. \A c : At(w, c) => Working /\ work[w] \in Jobs /\ (c \in Paired => Pair(w) \in Pairs)
    BY AtFacts DEF Shape
  <2>2. Recheck(w) \/ Verify(w) \/ ConfirmLive(w) \/ Settle(w) => Pair(w) \in Pairs
    BY <2>1 DEF Paired, Recheck, Verify, ConfirmLive, Settle
  <2> QED BY <1>1, <2>1, <2>2, SameNames DEF At, Flush, Recheck, Verify, ConfirmLive, Settle, Reassert,
     Regranted, local, bucket
<1>3. PICK k, S : k = work[w].k /\ S = Seq(MildSteps(k, sf))
  OBVIOUS
<1>4. /\ <<>> \in S /\ Only("flush") \in S /\ Only("fail") \in S
      /\ \A p \in Pairs : /\ For(<<"scanLive">>, p) \in S /\ Only("flush") \o For(<<"verify">>, p) \in S
                          /\ Only("flush") \o Only("fail") \in S
  <2>1. <<>> \in S
    BY <1>3
  <2>2. \A p \in Pairs : /\ Only("flush") \in S /\ Only("fail") \in S
          /\ For(<<"scanLive">>, p) \in S /\ Only("flush") \o For(<<"verify">>, p) \in S
          /\ Only("flush") \o Only("fail") \in S
    BY <1>3, MildPrograms
  <2>3. Only("flush") \in S /\ Only("fail") \in S
    <3>1. \A c \in {"flush", "fail"} : Step(c, None) \in MildSteps(k, sf)
      <4>1. \A c \in {"flush", "fail"} : Step(c, None) \in Steps /\ Step(c, None).do = c
        BY OnlyIs DEF Calls
      <4> QED BY <4>1 DEF MildSteps, Light
    <3> QED BY <1>3, <3>1, OneOf
  <2> QED BY <2>1, <2>2, <2>3
<1>5. ASSUME NEW msgs, NEW steps \in S, Go(w, work[w], msgs, steps) PROVE Fits(w)'
  BY <1>2, <1>3, <1>5, SameFits
<1>6. ASSUME NEW s \in Contacts, Go(w, [work[w] EXCEPT !.by = s], <<>>, <<>>) PROVE Fits(w)'
  <2>1. PICK job : job = [work[w] EXCEPT !.by = s]
    OBVIOUS
  <2>2. job \in Jobs /\ job.todo = work[w].todo /\ job.entry = work[w].entry /\ job.k = work[w].k
    BY <1>2, <2>1, JobSets
  <2>3. Go(w, job, <<>>, <<>>) /\ <<>> \in Seq(MildSteps(work[w].k, sf))
    BY <1>6, <2>1
  <2> QED BY <1>2, <2>2, <2>3, MildFits
<1>7. CASE Flush(w)
  BY <1>4, <1>5, <1>7 DEF Flush, Skip
<1>8. CASE Recheck(w)
  BY <1>2, <1>4, <1>5, <1>8 DEF Recheck, Skip
<1>9. CASE Verify(w)
  <2>1. \/ \E s \in Justifiers(sf, Pair(w), work[w].k) : Go(w, [work[w] EXCEPT !.by = s], <<>>, <<>>)
        \/ Go(w, work[w], <<Remove(Pair(w))>>, Only("flush") \o Only("fail"))
    BY <1>9 DEF Verify
  <2>2. Only("flush") \o Only("fail") \in S
    BY <1>2, <1>4, <1>9
  <2> QED BY <1>5, <1>6, <2>1, <2>2, JustifiersAre
<1>10. CASE ConfirmLive(w)
  BY <1>2, <1>4, <1>5, <1>10 DEF ConfirmLive
<1>11. CASE Settle(w)
  BY <1>2, <1>4, <1>5, <1>11 DEF Settle, Skip
<1>12. CASE Reassert(w)
  BY <1>4, <1>5, <1>12 DEF Reassert, Skip
<1>13. CASE Regranted(w)
  BY <1>4, <1>5, <1>13 DEF Regranted, Skip
<1> QED BY <1>7, <1>8, <1>9, <1>10, <1>11, <1>12, <1>13

(* Names are added to an entry.                                            *)
LEMMA NameGrows ==
  ASSUME Around, NEW k \in Contacts, NEW p, NEW m, Name(k, p, m) \/ Rewrite(k, p, m)
  PROVE  /\ {p, m} \subseteq Addresses'
         /\ {grants[k].pair, grants[k].marker} \subseteq {p, m, None} => Addressed \subseteq Addressed'
<1>1. PICK e : e.pair = p /\ e.marker = m /\ grants' = [grants EXCEPT ![k] = e]
  BY BucketWrites
<1>2. grants'[k] = e /\ \A s \in Contacts \ {k} : grants'[s] = grants[s]
  BY <1>1 DEF Around
<1>3. {p, m} \subseteq Addresses'
  BY <1>1, <1>2 DEF Addresses
<1>4. ASSUME {grants[k].pair, grants[k].marker} \subseteq {p, m, None}, NEW x \in Addresses
      PROVE  x \in Addresses' \cup {None}
  <2>1. PICK s \in Contacts : x \in {grants[s].pair, grants[s].marker}
    BY DEF Addresses
  <2>2. CASE s = k
    BY <1>3, <1>4, <2>1, <2>2
  <2>3. CASE s # k
    BY <1>2, <2>1, <2>3 DEF Addresses
  <2> QED BY <2>2, <2>3
<1> QED BY <1>3, <1>4 DEF Addressed

(* The hand-over, the claim and the touch keep every name.                 *)
LEMMA OwnGrows ==
  ASSUME Shape, NEW w \in Workers, Own(w)
  PROVE  Addressed \subseteq Addressed' /\ (Skip(w) \/ Go(w, work[w], <<>>, Only("fail")))
<1>1. PICK s, p, e : s = work[w].by /\ p = Pair(w) /\ e = grants[s]
  OBVIOUS
<1>2. At(w, "own") /\ s \in Contacts \cup {None} /\ Around
  BY <1>1, AtFacts DEF Own, Shape
<1>3. \/ UNCHANGED bucket
      \/ s # None /\ e.marker = None /\ Name(s, p, e.pair)
  BY <1>1 DEF Own
<1>4. Skip(w) \/ Go(w, work[w], <<>>, Only("fail"))
  BY DEF Own
<1>5. CASE UNCHANGED bucket
  BY <1>4, <1>5, SameNames DEF bucket
<1>6. CASE s # None /\ e.marker = None /\ Name(s, p, e.pair)
  BY <1>1, <1>2, <1>4, <1>6, NameGrows
<1> QED BY <1>3, <1>5, <1>6

(* A call reads its contact's entry anew.                                  *)
LEMMA OwnFits == ASSUME Shape, NEW w \in Workers, Own(w), Fits(w) PROVE Fits(w)'
<1>1. /\ Addressed \subseteq Addressed' /\ (Skip(w) \/ Go(w, work[w], <<>>, Only("fail")))
      /\ sf' = sf /\ work[w].todo # <<>> /\ Working
  BY OwnGrows DEF Own, At, Shape
<1>2. CASE Skip(w)
  BY <1>1, <1>2, SkipFits
<1>3. CASE Go(w, work[w], <<>>, Only("fail"))
  <2>1. Step("fail", None) \in MildSteps(work[w].k, sf)
    <3>1. Step("fail", None) \in Steps /\ Step("fail", None).do = "fail"
      BY OnlyIs DEF Calls
    <3> QED BY <3>1 DEF MildSteps, Light
  <2>2. Only("fail") \in Seq(MildSteps(work[w].k, sf))
    BY <2>1, OneOf
  <2> QED BY <1>1, <1>3, <2>2, SameFits
<1> QED BY <1>1, <1>2, <1>3

(* Calls that only move on, or that drop an address.                       *)
LEMMA DropFits ==
  ASSUME Shape, NEW w \in Workers, Fits(w), ClearMarker(w) \/ Clear(w) \/ EraseEntry(w) \/ Pass(w)
  PROVE  Fits(w)'
<1>0. Working
  BY DEF Shape
<1>1. CASE ClearMarker(w) \/ Clear(w) \/ EraseEntry(w)
  <2>1. PICK d \in {"clearMarker", "clear", "erase"} : At(w, d)
    BY <1>1 DEF ClearMarker, Clear, EraseEntry
  <2>2. work[w] \in Jobs /\ Go(w, work[w], <<>>, <<>>)
    BY <1>0, <1>1 DEF ClearMarker, Clear, EraseEntry, Skip, Working
  <2>3. d \in Fence \ {"lookup"} /\ <<>> \in Seq(TameSteps)
    BY DEF Fence
  <2> QED BY <1>0, <2>1, <2>2, <2>3, TameFits
<1>2. CASE Pass(w)
  <2>1. Skip(w) /\ work[w].todo # <<>> /\ sf' = sf /\ Addressed \subseteq Addressed'
    BY <1>2, SameNames DEF Pass, At, local, bucket
  <2> QED BY <1>0, <2>1, SkipFits
<1> QED BY <1>1, <1>2

(* A call reads Salesforce.                                                *)
LEMMA SnapshotFits == ASSUME Shape, NEW w \in Workers, Snapshot(w), Fits(w) PROVE Fits(w)'
<1>1. /\ Working /\ work[w] \in Jobs /\ work[w].todo # <<>> /\ sf \in Views
      /\ sf' = sf /\ Addressed \subseteq Addressed'
  BY SameNames DEF Shape, Around, Working, Snapshot, At, local, bucket
<1>2. PICK job : job = [work[w] EXCEPT !.view = sf]
  OBVIOUS
<1>3. job \in Jobs /\ job.todo = work[w].todo /\ job.entry = work[w].entry /\ job.k = work[w].k
  BY <1>1, <1>2, JobSets
<1>4. Go(w, job, <<>>, <<>>) /\ <<>> \in Seq(MildSteps(work[w].k, sf))
  BY <1>2 DEF Snapshot
<1> QED BY <1>1, <1>3, <1>4, MildFits

(* Publish and Compare bring in tame calls.                                *)
LEMMA PublishFits == ASSUME Shape, NEW w \in Workers, Publish(w), Fits(w) PROVE Fits(w)'
<1>1. /\ At(w, "publish") /\ Working /\ work[w] \in Jobs
      /\ \/ Go(w, work[w], <<>>, Only("inactive"))
         \/ Go(w, work[w], <<>>, <<>>)
         \/ /\ work[w].kc.pair # None
            /\ Go(w, work[w], <<Put(work[w].kc.pair)>>, For(<<"record">>, work[w].kc.pair))
  BY DEF Publish, Skip, Shape, Working
<1>2. work[w].kc.pair # None => For(<<"record">>, work[w].kc.pair) \in Seq(TameSteps)
  <2>1. work[w].kc.pair \in PairOrNone
    BY <1>1 DEF Jobs, Records, Gone, PairOrNone
  <2> QED BY <2>1, TamePrograms DEF Calls, Delicate, Asserts, Heeds
<1>3. Only("inactive") \in Seq(TameSteps) /\ <<>> \in Seq(TameSteps) /\ "publish" \in Fence \ {"lookup"}
  BY TamePrograms DEF Calls, Delicate, Asserts, Heeds, Fence
<1> QED BY <1>1, <1>2, <1>3, TameFits

(* The entry is compared with the pair to publish.                         *)
LEMMA CompareFits == ASSUME Shape, NEW w \in Workers, Compare(w), Fits(w) PROVE Fits(w)'
<1>1. /\ At(w, "compare") /\ Working /\ work[w] \in Jobs
      /\ \/ Go(w, work[w], <<>>, Only("clear"))
         \/ Go(w, work[w], <<>>, <<>>)
         \/ Go(w, work[w], <<Put(Pair(w))>>, Only("flush"))
  BY DEF Compare, Skip, Shape, Working
<1>2. Only("clear") \in Seq(TameSteps) /\ Only("flush") \in Seq(TameSteps) /\ <<>> \in Seq(TameSteps)
      /\ "compare" \in Fence \ {"lookup"}
  BY TamePrograms DEF Calls, Delicate, Asserts, Heeds, Fence
<1> QED BY <1>1, <1>2, TameFits

(* An entry names its pairs.                                               *)
LEMMA EntryNames ==
  ASSUME Shape, NEW w \in Workers, work[w].k \in Contacts
  PROVE  /\ Entry(w) \in Entries /\ {Entry(w).pair, Entry(w).marker} \subseteq Addressed
         /\ Entry(w).pair \in PairOrNone /\ Entry(w).marker \in PairOrNone
<1>1. grants \in [Contacts -> Entries]
  BY DEF Shape, Around
<1> QED BY <1>1 DEF Entry, Addressed, Addresses, Entries, PairOrNone

(* An inactive record.                                                     *)
LEMMA InactiveFits == ASSUME Shape, NEW w \in Workers, Inactive(w), Fits(w) PROVE Fits(w)'
<1>1. PICK p, e : p = work[w].kc.pair /\ e = Entry(w)
  OBVIOUS
<1>2. PICK own, rest : /\ own = For(<<"scan", "own">>, p)
                       /\ rest = IF p # None /\ e.pair = None THEN own
                                 ELSE (IF p # None /\ e.pair # p THEN own ELSE <<>>) \o Only("expire")
  OBVIOUS
<1>3. /\ At(w, "inactive") /\ UNCHANGED local
      /\ Go(w, work[w], <<>>, WhenSet(e.marker, RevokeSuperseded(e.marker)) \o rest)
  BY <1>1, <1>2 DEF Inactive
<1>4. /\ Working /\ work[w] \in Jobs /\ work[w].k \in Contacts /\ p \in PairOrNone
      /\ e.marker \in Addressed /\ e.marker \in PairOrNone /\ Addressed' = Addressed
  BY <1>1, <1>3, AtFacts, EntryNames, SameNames DEF Shape, Records, Gone, PairOrNone, local, bucket
<1>5. rest \in Seq(TameSteps)
  <2>1. own \in Seq(TameSteps)
    BY <1>2, <1>4, TamePrograms
  <2>2. Only("expire") \in Seq(TameSteps) /\ <<>> \in Seq(TameSteps)
    BY TamePrograms DEF Calls, Delicate, Asserts, Heeds
  <2>3. own \o Only("expire") \in Seq(TameSteps) /\ <<>> \o Only("expire") \in Seq(TameSteps)
    BY <2>1, <2>2, TamePrograms
  <2> QED BY <1>2, <2>1, <2>3
<1>6. PICK steps, A : steps = WhenSet(e.marker, RevokeSuperseded(e.marker)) \o rest /\ A = Addressed'
  OBVIOUS
<1>7. steps \in Seq(Steps) /\ Fit(work[w].entry, work[w].k, steps, A, sf')
  <2>1. PICK V, x, k : V = sf' /\ x = work[w].entry /\ k = work[w].k
    OBVIOUS
  <2>2. CASE e.marker = None
    <3>1. <<>> \o rest \in Seq(TameSteps)
      BY <1>5, TamePrograms
    <3>2. steps \in Seq(TameSteps)
      BY <1>6, <2>2, <3>1 DEF WhenSet
    <3> QED BY <2>1, <3>2, TameAre, TameFit
  <2>3. CASE e.marker # None
    <3>1. e.marker \in Pairs /\ e.marker \in A /\ steps = RevokeSuperseded(e.marker) \o rest
      BY <1>4, <1>6, <2>3 DEF WhenSet, PairOrNone
    <3> QED BY <1>5, <2>1, <3>1, SupersededThen
  <2> QED BY <2>2, <2>3
<1>8. "inactive" \in Fence \ {"lookup"}
  BY DEF Fence
<1>9. Go(w, work[w], <<>>, steps)
  BY <1>3, <1>6
<1> QED BY <1>3, <1>4, <1>6, <1>7, <1>8, <1>9, FenceFits

(* The record of a grant, and the write that waited for its marker.        *)
LEMMA RecordFits == ASSUME Shape, NEW w \in Workers, Record(w), Fits(w) PROVE Fits(w)'
<1>1. PICK k, p, e, A : k = work[w].k /\ p = Pair(w) /\ e = Entry(w) /\ A = Addressed'
  OBVIOUS
<1>2. /\ At(w, "record") /\ Working /\ Around /\ work[w] \in Jobs /\ k \in Contacts /\ p \in Pairs
      /\ e \in Entries /\ e.marker \in Addressed /\ e.marker \in PairOrNone /\ e.pair \in PairOrNone
      /\ "record" \in Fence \ {"lookup"}
  <2>1. At(w, "record")
    BY DEF Record
  <2>2. Working /\ Around /\ work[w] \in Jobs /\ k \in Contacts /\ p \in Pairs
    BY <1>1, <2>1, AtFacts DEF Shape, Paired
  <2>3. "record" \in Fence \ {"lookup"}
    BY DEF Fence
  <2> QED BY <1>1, <2>1, <2>2, <2>3, EntryNames
<1>3. \/ Skip(w)
      \/ e.pair \notin {None, p} /\ Go(w, work[w], <<>>, RevokeSuperseded(e.pair)) /\ Name(k, p, e.pair)
      \/ /\ e.marker \notin {None, p} /\ UNCHANGED bucket
         /\ Go(w, [work[w] EXCEPT !.entry = e], <<>>, Drain(e.marker) \o For(<<"write">>, p))
  BY <1>1 DEF Record
<1>4. CASE Skip(w)
  <2>1. <<>> \in Seq(TameSteps) /\ Go(w, work[w], <<>>, <<>>)
    BY <1>4 DEF Skip
  <2> QED BY <1>2, <2>1, TameFits
<1>5. CASE e.pair \notin {None, p} /\ Go(w, work[w], <<>>, RevokeSuperseded(e.pair)) /\ Name(k, p, e.pair)
  <2>1. e.pair \in Pairs /\ e.pair \in A
    BY <1>1, <1>2, <1>5, NameGrows DEF PairOrNone, Addressed
  <2>2. PICK V, x, steps : V = sf' /\ x = work[w].entry /\ steps = RevokeSuperseded(e.pair)
    OBVIOUS
  <2>3. steps \in Seq(Steps) /\ Fit(x, k, steps, A, V)
    BY <2>1, <2>2, SupersededThen, TamePrograms
  <2> QED BY <1>1, <1>2, <1>5, <2>2, <2>3, FenceFits
<1>6. CASE /\ e.marker \notin {None, p} /\ UNCHANGED bucket
           /\ Go(w, [work[w] EXCEPT !.entry = e], <<>>, Drain(e.marker) \o For(<<"write">>, p))
  <2>1. PICK job, steps, V, t : /\ job = [work[w] EXCEPT !.entry = e] /\ V = sf' /\ t = Drain(e.marker)
                                /\ steps = t \o For(<<"write">>, p)
    OBVIOUS
  <2>2. job \in Jobs /\ job.todo = work[w].todo /\ job.entry = e /\ job.k = k
    BY <1>1, <1>2, <2>1, JobSets
  <2>3. e.marker \in Pairs /\ e.marker \in A
    BY <1>1, <1>2, <1>6, SameNames DEF PairOrNone, bucket
  <2>4. For(<<"write">>, p) \in Seq(TameSteps)
    BY <1>2, TamePrograms DEF Calls, Delicate, Asserts, Heeds, PairOrNone
  <2>5. steps \in Seq(Steps) /\ Fit(e, k, steps, A, V)
    BY <2>1, <2>3, <2>4, RevokeThen
  <2>6. Go(w, job, <<>>, steps)
    BY <1>6, <2>1
  <2> QED BY <1>1, <1>2, <2>1, <2>2, <2>5, <2>6, FenceFits
<1> QED BY <1>3, <1>4, <1>5, <1>6

(* The entry is written before a publish.                                  *)
LEMMA WriteFits == ASSUME Shape, NEW w \in Workers, Write(w), Fits(w) PROVE Fits(w)'
<1>1. PICK k, p, e, A : k = work[w].k /\ p = Pair(w) /\ e = work[w].entry /\ A = Addressed'
  OBVIOUS
<1>2. /\ At(w, "write") /\ Working /\ Around /\ work[w] \in Jobs /\ k \in Contacts /\ p \in Pairs
      /\ e.pair \in Pairs /\ "write" \in Fence \ {"lookup"}
  <2>1. At(w, "write")
    BY DEF Write
  <2>2. Working /\ Around /\ work[w] \in Jobs /\ k \in Contacts /\ p \in Pairs /\ e.pair \in Pairs
    BY <1>1, <2>1, AtFacts DEF Shape, Paired
  <2> QED BY <2>1, <2>2 DEF Fence
<1>3. \/ Go(w, work[w], <<>>, RevokeSuperseded(e.pair)) /\ Name(k, p, e.pair)
      \/ Go(w, work[w], <<>>, For(<<"record">>, p))
  BY <1>1 DEF Write
<1>4. CASE Go(w, work[w], <<>>, For(<<"record">>, p))
  <2>1. For(<<"record">>, p) \in Seq(TameSteps)
    BY <1>2, TamePrograms DEF Calls, Delicate, Asserts, Heeds, PairOrNone
  <2> QED BY <1>2, <1>4, <2>1, TameFits
<1>5. CASE Go(w, work[w], <<>>, RevokeSuperseded(e.pair)) /\ Name(k, p, e.pair)
  <2>1. e.pair \in A
    BY <1>1, <1>2, <1>5, NameGrows DEF Addressed
  <2>2. PICK V, steps : V = sf' /\ steps = RevokeSuperseded(e.pair)
    OBVIOUS
  <2>3. steps \in Seq(Steps) /\ Fit(e, k, steps, A, V)
    BY <1>2, <2>1, <2>2, SupersededThen, TamePrograms
  <2> QED BY <1>1, <1>2, <1>5, <2>2, <2>3, FenceFits
<1> QED BY <1>3, <1>4, <1>5

(* What the head of a program takes for granted.                           *)
LEMMA HeadSure ==
  ASSUME Working, NEW w \in Workers, NEW d, At(w, d), Fits(w)
  PROVE  /\ Sure(work[w].entry, work[w].k, work[w].todo[1], Addressed, sf)
         /\ work[w].todo[1].do = d /\ work[w].todo[1].pair = Pair(w)
         /\ d # "save"
<1>1. /\ work[w].todo[1].do = d /\ work[w].todo[1].pair = Pair(w) /\ 1 \in 1 .. Len(work[w].todo)
  BY AtFacts, TailFacts DEF Pair, Jobs
<1>2. Sure(work[w].entry, work[w].k, work[w].todo[1], Addressed, sf)
  BY <1>1 DEF Fits, Fit, AllSure
<1> QED BY <1>1, <1>2 DEF Sure

(* The entry read is looked at.                                            *)
LEMMA ExpireFits == ASSUME Shape, NEW w \in Workers, Expire(w), Fits(w) PROVE Fits(w)'
<1>1. PICK d \in {"expire", "expireLive"} :
        /\ At(w, d)
        /\ Go(w, [work[w] EXCEPT !.entry = Entry(w)], <<>>,
              IF Entry(w).pair = None THEN <<>>
              ELSE For(<<IF d = "expire" THEN "justify" ELSE "justifyLive">>, Entry(w).pair))
  BY DEF Expire
<1>2. Working /\ work[w] \in Jobs /\ work[w].k \in Contacts /\ d \in Fence \ {"lookup"}
      /\ Entry(w) \in Entries /\ Entry(w).pair \in PairOrNone
  BY <1>1, AtFacts, EntryNames DEF Shape, Fence
<1>3. PICK job, c, steps : /\ job = [work[w] EXCEPT !.entry = Entry(w)]
                           /\ c = IF d = "expire" THEN "justify" ELSE "justifyLive"
                           /\ steps = IF Entry(w).pair = None THEN <<>> ELSE For(<<c>>, Entry(w).pair)
  OBVIOUS
<1>4. job \in Jobs /\ job.todo = work[w].todo
  BY <1>2, <1>3, JobSets
<1>5. steps \in Seq(TameSteps)
  <2>1. c \in Calls \ Delicate
    BY <1>3 DEF Calls, Delicate, Asserts, Heeds
  <2>2. For(<<c>>, Entry(w).pair) \in Seq(TameSteps)
    BY <1>2, <2>1, TamePrograms
  <2> QED BY <1>3, <2>2, TamePrograms
<1>6. Go(w, job, <<>>, steps)
  BY <1>1, <1>3
<1> QED BY <1>1, <1>2, <1>4, <1>5, <1>6, TameFits

(* The look for a sibling that justifies the pair.                         *)
LEMMA JustifyFits ==
  ASSUME Shape, NEW w \in Workers, Justify(w), Fits(w), Guarded(w), Sees(w)
  PROVE  Fits(w)'
<1>1. PICK d \in {"justify", "justifyLive"} :
        /\ At(w, d)
        /\ \E view \in Scanned(w, d) :
             LET by == Justifiers(view, Pair(w), work[w].k)
             IN \/ \E s \in by : Go(w, [work[w] EXCEPT !.by = s], <<>>,
                                    For(<<"own">>, Pair(w)) \o Only("clear"))
                \/ by = {} /\ Go(w, work[w], <<>>, Only("claim"))
  BY DEF Justify
<1>2. Working /\ work[w] \in Jobs /\ work[w].k \in Contacts /\ d \in Fence \ {"lookup"}
      /\ sf' = sf /\ Pair(w) \in PairOrNone
  BY <1>1, AtFacts DEF Shape, Fence, Justify, local
<1>3. Pair(w) = work[w].entry.pair
  <2>1. Guard(work[w], Settled(work[w].k), Removes(w)) /\ work[w].todo[1].do = d
        /\ work[w].todo[1].pair = Pair(w) /\ 1 \in 1 .. Len(work[w].todo)
    BY <1>1, AtGuard
  <2> QED BY <2>1 DEF Guard, Justifying
<1>4. PICK view \in Scanned(w, d) :
             LET by == Justifiers(view, Pair(w), work[w].k)
             IN \/ \E s \in by : Go(w, [work[w] EXCEPT !.by = s], <<>>,
                                    For(<<"own">>, Pair(w)) \o Only("clear"))
                \/ by = {} /\ Go(w, work[w], <<>>, Only("claim"))
  BY <1>1
<1>5. ASSUME NEW s \in Contacts, Go(w, [work[w] EXCEPT !.by = s], <<>>, For(<<"own">>, Pair(w)) \o Only("clear"))
      PROVE  Fits(w)'
  <2>1. PICK job, steps : job = [work[w] EXCEPT !.by = s] /\ steps = For(<<"own">>, Pair(w)) \o Only("clear")
    OBVIOUS
  <2>2. job \in Jobs /\ job.todo = work[w].todo
    BY <1>2, <2>1, JobSets
  <2>3. For(<<"own">>, Pair(w)) \in Seq(TameSteps) /\ Only("clear") \in Seq(TameSteps)
    BY <1>2, TamePrograms DEF Calls, Delicate, Asserts, Heeds
  <2>4. steps \in Seq(TameSteps) /\ Go(w, job, <<>>, steps)
    BY <1>5, <2>1, <2>3, TamePrograms
  <2> QED BY <1>1, <1>2, <2>2, <2>4, TameFits
<1>6. ASSUME Justifiers(view, Pair(w), work[w].k) = {}, Go(w, work[w], <<>>, Only("claim")) PROVE Fits(w)'
  <2>1. Justifiers(sf, work[w].entry.pair, work[w].k) = {}
    BY <1>3, <1>4, <1>6, SeesSiblings
  <2>2. PICK s, A, V, e, k : /\ s = Step("claim", None) /\ A = Addressed' /\ V = sf'
                             /\ e = work[w].entry /\ k = work[w].k
    OBVIOUS
  <2>3. s \in Steps /\ s.do = "claim" /\ Only("claim") = <<s>>
    BY <2>2, OnlyIs DEF Calls
  <2>4. Sure(e, k, s, A, V)
    BY <1>2, <2>1, <2>2, <2>3 DEF Sure, Asserts, Heeds
  <2>5. <<s>> \in Seq(Steps) /\ Fit(e, k, <<s>>, A, V)
    BY <2>3, <2>4, OneFit DEF Asserts
  <2> QED BY <1>1, <1>2, <1>6, <2>2, <2>3, <2>5, FenceFits
<1> QED BY <1>4, <1>5, <1>6, JustifiersAre

(* The claim, and the remove behind it.                                    *)
LEMMA ClaimFits == ASSUME Shape, NEW w \in Workers, Claim(w), Fits(w) PROVE Fits(w)'
<1>1. /\ At(w, "claim") /\ Working /\ work[w] \in Jobs /\ sf' = sf
      /\ Go(w, work[w], <<>>, Only("claimed")) \/ Skip(w)
  BY DEF Claim, Shape, Working
<1>2. "claim" \in Fence \ {"lookup"}
  BY DEF Fence
<1>3. CASE Skip(w)
  <2>1. <<>> \in Seq(TameSteps) /\ Go(w, work[w], <<>>, <<>>)
    BY <1>3 DEF Skip
  <2> QED BY <1>1, <1>2, <2>1, TameFits
<1>4. CASE Go(w, work[w], <<>>, Only("claimed"))
  <2>1. Justifiers(sf, work[w].entry.pair, work[w].k) = {}
    BY <1>1, HeadSure DEF Sure
  <2>2. PICK s, A, V, e, k : /\ s = Step("claimed", None) /\ A = Addressed' /\ V = sf'
                             /\ e = work[w].entry /\ k = work[w].k
    OBVIOUS
  <2>3. s \in Steps /\ s.do = "claimed" /\ Only("claimed") = <<s>>
    BY <2>2, OnlyIs DEF Calls
  <2>4. Sure(e, k, s, A, V)
    BY <1>1, <2>1, <2>2, <2>3 DEF Sure, Asserts, Heeds
  <2>5. <<s>> \in Seq(Steps) /\ Fit(e, k, <<s>>, A, V)
    BY <2>3, <2>4, OneFit DEF Asserts
  <2> QED BY <1>1, <1>2, <1>4, <2>2, <2>3, <2>5, FenceFits
<1> QED BY <1>1, <1>3, <1>4

(* A claim is looked at again.                                             *)
LEMMA ClaimedFits == ASSUME Shape, NEW w \in Workers, Claimed(w), Fits(w) PROVE Fits(w)'
<1>1. PICK e, p : e = Entry(w) /\ p = work[w].entry.pair
  OBVIOUS
<1>2. /\ At(w, "claimed") /\ sf' = sf
      /\ \/ Go(w, work[w], <<>>, Only("fail"))
         \/ Skip(w)
         \/ /\ e.pair = p
            /\ Go(w, [work[w] EXCEPT !.entry = e], <<Remove(p)>>,
                  Only("flush") \o For(<<"regranted", "compare">>, p))
  BY <1>1 DEF Claimed, local
<1>3. /\ Working /\ work[w] \in Jobs /\ "claimed" \in Fence \ {"lookup"} /\ work[w].k \in Contacts
      /\ e \in Entries /\ p \in Pairs
  <2>1. Working /\ work[w] \in Jobs /\ work[w].k \in Contacts /\ p \in Pairs
    BY <1>1, <1>2, AtFacts DEF Shape, ByEntry
  <2> QED BY <1>1, <2>1, EntryNames DEF Fence
<1>4. CASE Go(w, work[w], <<>>, Only("fail")) \/ Skip(w)
  <2>1. Only("fail") \in Seq(TameSteps) /\ <<>> \in Seq(TameSteps)
    BY TamePrograms DEF Calls, Delicate, Asserts, Heeds
  <2> QED BY <1>2, <1>3, <1>4, <2>1, TameFits DEF Skip
<1>5. CASE /\ e.pair = p
           /\ Go(w, [work[w] EXCEPT !.entry = e], <<Remove(p)>>,
                 Only("flush") \o For(<<"regranted", "compare">>, p))
  <2>1. PICK job, steps, A, V, k : /\ job = [work[w] EXCEPT !.entry = e]
                                   /\ steps = Only("flush") \o For(<<"regranted", "compare">>, p)
                                   /\ A = Addressed' /\ V = sf' /\ k = work[w].k
    OBVIOUS
  <2>2. job \in Jobs /\ job.todo = work[w].todo /\ job.entry = e /\ job.k = k
    BY <1>3, <2>1, JobSets
  <2>3. Justifiers(V, p, k) = {}
    <3>1. /\ Sure(work[w].entry, work[w].k, work[w].todo[1], Addressed, sf)
          /\ work[w].todo[1].do = "claimed"
      BY <1>2, <1>3, HeadSure
    <3>2. Justifiers(sf, work[w].entry.pair, work[w].k) = {}
      BY <3>1 DEF Sure
    <3> QED BY <1>1, <1>2, <2>1, <3>2
  <2>4. PICK r, c : r = Step("regranted", p) /\ c = Step("compare", p)
    OBVIOUS
  <2>5. /\ r \in Steps /\ r.do = "regranted" /\ r.pair = p
        /\ c \in Steps /\ c.do = "compare"
        /\ For(<<"regranted", "compare">>, p) = <<r>> \o <<c>>
    <3>1. For(<<"regranted", "compare">>, p) = <<r, c>>
      BY <2>4 DEF For
    <3>2. r \in Steps /\ c \in Steps
      BY <1>3, <2>4, StepTypes DEF Calls, PairOrNone
    <3> QED BY <2>4, <3>1, <3>2 DEF Step
  <2>6. <<c>> \in Seq(TameSteps)
    BY <2>5 DEF TameSteps, Delicate, Asserts, Heeds
  <2>7. <<r>> \in Seq(Steps) /\ Fit(e, k, <<r>>, A, V)
    <3>1. Sure(e, k, r, A, V)
      BY <2>3, <2>5 DEF Sure, Asserts, Heeds
    <3> QED BY <2>5, <3>1, OneFit DEF Asserts
  <2>8. PICK rc : rc = <<r>> \o <<c>>
    OBVIOUS
  <2>9. rc \in Seq(Steps) /\ Fit(e, k, rc, A, V)
    <3>1. <<c>> \in Seq(Steps) /\ Tame(<<c>>)
      BY <2>6, TameAre
    <3> QED BY <2>7, <2>8, <3>1, FitTame, Concats
  <2>10. Only("flush") \in Seq(MildSteps(k, V))
    BY <1>3, MildPrograms
  <2>11. steps \in Seq(Steps) /\ Fit(e, k, steps, A, V)
    <3>1. steps = Only("flush") \o rc
      BY <2>1, <2>5, <2>8
    <3>2. Only("flush") \in Seq(Steps)
      BY <2>10 DEF MildSteps
    <3> QED BY <2>9, <2>10, <3>1, <3>2, MildFit, Concats
  <2>12. Go(w, job, <<Remove(p)>>, steps)
    BY <1>5, <2>1
  <2> QED BY <1>2, <1>3, <2>1, <2>2, <2>11, <2>12, FenceFits
<1> QED BY <1>2, <1>4, <1>5

(* The entry is read, and calls go by it.                                  *)
LEMMA LookupFits == ASSUME Shape, NEW w \in Workers, Lookup(w), Fits(w) PROVE Fits(w)'
<1>1. /\ At(w, "lookup") /\ Go(w, [work[w] EXCEPT !.entry = Entry(w)], <<>>, <<>>)
      /\ sf' = sf /\ Addressed' = Addressed
  BY SameNames DEF Lookup, local, bucket
<1>2. /\ Working /\ work[w] \in Jobs /\ work[w].k \in Contacts /\ Entry(w) \in Entries
      /\ {Entry(w).pair, Entry(w).marker} \subseteq Addressed
  BY <1>1, AtFacts, EntryNames DEF Shape
<1>3. PICK job, t, e, k, A : /\ job = [work[w] EXCEPT !.entry = Entry(w)] /\ t = work[w].todo
                             /\ e = Entry(w) /\ k = work[w].k /\ A = Addressed
  OBVIOUS
<1>4. job \in Jobs /\ job.todo = t /\ job.entry = e /\ job.k = k
  BY <1>2, <1>3, JobSets
<1>5. t \in Seq(Steps) /\ t # <<>> /\ t[1].do = "lookup" /\ 1 \in 1 .. Len(t)
  BY <1>1, <1>2, <1>3, TailFacts DEF At, Jobs
<1>6. PICK x : Fit(x, k, t, A, sf)
  BY <1>3 DEF Fits
<1>7. PICK r : r = Tail(t)
  OBVIOUS
<1>8. r \in Seq(Steps) /\ Closed(r)
  BY <1>5, <1>6, <1>7, FitTail, TailFacts DEF Fit
<1>9. ASSUME NEW i \in 1 .. Len(r) PROVE r[i].do \notin Delicate \ {"withdraw", "settleStale"}
  <2>1. i + 1 \in 1 .. Len(t) /\ r[i] = t[i + 1] /\ 1 < i + 1
    BY <1>5, <1>7, TailFacts
  <2>2. t[i + 1].do \notin Delicate \/ t[i + 1].do \in {"withdraw", "settleStale"}
    BY <1>5, <1>6, <2>1 DEF Fit, Closed, Fence
  <2> QED BY <2>1, <2>2
<1>10. Handing(r) /\ Halted(e, r)
  BY <1>9 DEF Handing, Halted, Delicate, Asserts
<1>11. AllSure(e, k, r, A, sf)
  <2>1. {e.pair, e.marker} \subseteq A
    BY <1>2, <1>3
  <2>2. ASSUME NEW i \in 1 .. Len(r) PROVE Sure(e, k, r[i], A, sf)
    BY <1>9, <2>1 DEF Sure, Delicate, Asserts
  <2> QED BY <2>2 DEF AllSure
<1>12. Fit(e, k, r, A, sf)
  BY <1>8, <1>10, <1>11 DEF Fit
<1>13. Go(w, job, <<>>, <<>>) /\ <<>> \in Seq(Steps)
  BY <1>1, <1>3
<1>14. work'[w].todo = <<>> \o Tail(t) /\ work'[w].entry = e /\ work'[w].k = k
  BY <1>2, <1>4, <1>5, <1>13, GoHas
<1>15. <<>> \o Tail(t) = r
  BY <1>7, <1>8
<1> QED BY <1>1, <1>3, <1>12, <1>14, <1>15 DEF Fits

(* What a delete does for the marker.                                      *)
LEMMA MarkerFit ==
  ASSUME NEW e \in Entries, NEW k, NEW A, NEW V, e.marker \in A,
         NEW t \in {Drain(e.marker), RevokeConfirmed(e.marker)}
  PROVE  /\ WhenSet(e.marker, t \o Only("keepMarker")) \in Seq(Steps)
         /\ Fit(e, k, WhenSet(e.marker, t \o Only("keepMarker")), A, V)
<1>1. CASE e.marker = None
  <2>1. <<>> \in Seq(TameSteps)
    OBVIOUS
  <2>2. <<>> \in Seq(Steps) /\ Fit(e, k, <<>>, A, V)
    BY <2>1, TameAre, TameFit
  <2> QED BY <1>1, <2>2 DEF WhenSet
<1>2. CASE e.marker # None
  <2>1. e.marker \in Pairs
    BY <1>2 DEF Entries
  <2>2. t \in Seq(Steps) /\ Open(t) /\ Fit(e, k, t, A, V) /\ Seam(e, t)
    BY <2>1, RevokeFit
  <2>3. PICK s : s = Step("keepMarker", None)
    OBVIOUS
  <2>4. s \in Steps /\ s.do = "keepMarker" /\ Only("keepMarker") = <<s>>
    BY <2>3, OnlyIs DEF Calls
  <2>5. <<s>> \in Seq(Steps) /\ Fit(e, k, <<s>>, A, V)
    BY <2>4, OneFit DEF Sure, Asserts, Heeds
  <2>6. PICK b : b = <<s>>
    OBVIOUS
  <2>7. t \o b \in Seq(Steps) /\ Fit(e, k, t \o b, A, V)
    BY <2>2, <2>5, <2>6, FitConcat, Concats
  <2> QED BY <1>2, <2>4, <2>6, <2>7 DEF WhenSet
<1> QED BY <1>1, <1>2

(* The revoke of a record that is gone.                                    *)
LEMMA WithdrawFits == ASSUME Shape, NEW w \in Workers, Withdraw(w), Fits(w) PROVE Fits(w)'
<1>1. PICK e, k, A, V : e = work[w].entry /\ k = work[w].k /\ A = Addressed' /\ V = sf'
  OBVIOUS
<1>2. PICK steps :
        /\ steps = IF e.pair = None THEN WhenSet(e.marker, RevokeConfirmed(e.marker) \o Only("erase"))
                   ELSE RevokeConfirmed(e.pair) \o Only("stop")
                        \o WhenSet(e.marker, RevokeConfirmed(e.marker) \o Only("keepMarker"))
                        \o Only("erase")
  OBVIOUS
<1>3. /\ At(w, "withdraw") /\ Go(w, work[w], <<>>, steps) /\ Addressed' = Addressed
  BY <1>1, <1>2, SameNames DEF Withdraw, local, bucket
<1>4. /\ Working /\ work[w] \in Jobs /\ e \in Entries /\ "withdraw" \in Fence \ {"lookup"}
  BY <1>1, <1>3, AtFacts DEF Shape, Fence
<1>5. {e.pair, e.marker} \subseteq A
  <2>1. Sure(work[w].entry, work[w].k, work[w].todo[1], Addressed, sf) /\ work[w].todo[1].do = "withdraw"
    BY <1>3, <1>4, HeadSure
  <2> QED BY <1>1, <1>3, <2>1 DEF Sure, Heeds
<1>6. e.pair \in PairOrNone /\ e.marker \in PairOrNone
  BY <1>4 DEF Entries, PairOrNone
<1>7. Only("erase") \in Seq(TameSteps) /\ Only("stop") \in Seq(TameSteps) /\ <<>> \in Seq(TameSteps)
  BY TamePrograms DEF Calls, Delicate, Asserts, Heeds
<1>8. steps \in Seq(Steps) /\ Fit(e, k, steps, A, V)
  <2>1. CASE e.pair = None /\ e.marker = None
    <3>1. steps = <<>>
      BY <1>2, <2>1 DEF WhenSet
    <3> QED BY <1>7, <3>1, TameAre, TameFit
  <2>2. CASE e.pair = None /\ e.marker # None
    <3>1. PICK t : t = RevokeConfirmed(e.marker)
      OBVIOUS
    <3>2. steps = t \o Only("erase") /\ e.marker \in Pairs
      BY <1>2, <1>6, <2>2, <3>1 DEF WhenSet, PairOrNone
    <3> QED BY <1>5, <1>7, <3>1, <3>2, RevokeThen
  <2>3. CASE e.pair # None
    <3>1. PICK t, u, a, b, c : /\ t = RevokeConfirmed(e.pair) /\ u = RevokeConfirmed(e.marker)
                               /\ a = t \o Only("stop") /\ b = WhenSet(e.marker, u \o Only("keepMarker"))
                               /\ c = a \o b
      OBVIOUS
    <3>2. steps = c \o Only("erase") /\ e.pair \in Pairs
      BY <1>2, <1>6, <2>3, <3>1 DEF PairOrNone
    <3>3. a \in Seq(Steps) /\ Fit(e, k, a, A, V)
      BY <1>5, <1>7, <3>1, <3>2, RevokeThen
    <3>4. Open(a) /\ Seam(e, a)
      <4>1. PICK s : s = Step("stop", None)
        OBVIOUS
      <4>2. s \in Steps /\ s.do = "stop" /\ Only("stop") = <<s>>
        BY <4>1, OnlyIs DEF Calls
      <4>3. t \in Seq(Steps) /\ Open(t)
        BY <1>5, <3>1, <3>2, RevokeFit
      <4>4. <<s>> \in Seq(Steps) /\ Len(<<s>>) = 1 /\ <<s>>[1] = s
        BY <4>2
      <4>5. PICK z : z = <<s>>
        OBVIOUS
      <4>6. Open(z)
        <5>1. \A n \in 1 .. Len(z) : n = 1
          BY <4>4, <4>5
        <5> QED BY <4>2, <4>4, <4>5, <5>1 DEF Open, Fence
      <4>7. a = t \o z /\ Open(a)
        BY <3>1, <4>2, <4>3, <4>4, <4>5, <4>6, OpenConcat
      <4>8. Len(a) = Len(t) + 1 /\ Len(t) \in Nat /\ a[Len(a)] = s
        BY <4>3, <4>4, <4>5, <4>7
      <4> QED BY <4>2, <4>7, <4>8 DEF Seam
    <3>5. b \in Seq(Steps) /\ Fit(e, k, b, A, V)
      BY <1>4, <1>5, <3>1, MarkerFit
    <3>6. c \in Seq(Steps) /\ Fit(e, k, c, A, V)
      BY <3>1, <3>3, <3>4, <3>5, FitConcat, Concats
    <3>7. Only("erase") \in Seq(Steps) /\ Tame(Only("erase"))
      BY <1>7, TameAre
    <3> QED BY <3>2, <3>6, <3>7, FitTame, Concats
  <2> QED BY <2>1, <2>2, <2>3
<1> QED BY <1>1, <1>3, <1>4, <1>8, FenceFits

(* A delete by the API: the stale pair first, then the record.             *)
LEMMA SettleStaleFits == ASSUME Shape, NEW w \in Workers, SettleStale(w), Fits(w) PROVE Fits(w)'
<1>1. PICK e, k, A, V : e = work[w].entry /\ k = work[w].k /\ A = Addressed' /\ V = sf'
  OBVIOUS
<1>2. PICK a, steps : /\ a = (IF e.pair \in {None, OwnPair(work[w])} THEN <<>> ELSE For(<<"scan", "own">>, e.pair))
                      /\ steps = a \o Only("delete")
  OBVIOUS
<1>3. /\ At(w, "settleStale") /\ Go(w, work[w], <<>>, steps) /\ Addressed' = Addressed
  BY <1>1, <1>2, SameNames DEF SettleStale, local, bucket
<1>4. /\ Working /\ work[w] \in Jobs /\ e \in Entries /\ "settleStale" \in Fence \ {"lookup"}
  BY <1>1, <1>3, AtFacts DEF Shape, Fence
<1>5. {e.pair, e.marker} \subseteq A
  <2>1. Sure(work[w].entry, work[w].k, work[w].todo[1], Addressed, sf) /\ work[w].todo[1].do = "settleStale"
    BY <1>3, <1>4, HeadSure
  <2> QED BY <1>1, <1>3, <2>1 DEF Sure, Heeds
<1>6. PICK s : s = Step("delete", None)
  OBVIOUS
<1>7. s \in Steps /\ s.do = "delete" /\ Only("delete") = <<s>>
  BY <1>6, OnlyIs DEF Calls
<1>8. PICK b : b = <<s>>
  OBVIOUS
<1>9. b \in Seq(Steps) /\ Fit(e, k, b, A, V)
  <2>1. Sure(e, k, s, A, V)
    BY <1>5, <1>7 DEF Sure, Asserts
  <2> QED BY <1>7, <1>8, <2>1, OneFit DEF Asserts
<1>10. a \in Seq(Steps) /\ Fit(e, k, a, A, V) /\ Open(a) /\ Seam(e, a)
  <2>1. a \in Seq(TameSteps)
    <3>1. e.pair \in PairOrNone
      BY <1>4 DEF Entries, PairOrNone
    <3> QED BY <1>2, <3>1, TamePrograms
  <2>2. a \in Seq(Steps) /\ Tame(a) /\ Fit(e, k, a, A, V)
    BY <2>1, TameAre, TameFit
  <2>3. Open(a)
    <3>1. CASE a = <<>>
      <4>1. Len(a) = 0
        BY <3>1
      <4>2. \A n \in 1 .. Len(a) : FALSE
        BY <4>1
      <4> QED BY <4>2 DEF Open
    <3>2. CASE a # <<>>
      <4>1. PICK ds : ds = <<"scan", "own">>
        OBVIOUS
      <4>2. ds \in Seq(Calls) /\ Len(ds) = 2 /\ ds[1] = "scan" /\ ds[2] = "own" /\ e.pair \in PairOrNone
        BY <1>4, <4>1, SmallPrograms DEF Calls, Entries, PairOrNone
      <4>3. Len(a) = 2 /\ \A i \in 1 .. Len(ds) : a[i].do = ds[i]
        <5>1. a = For(ds, e.pair)
          BY <1>2, <3>2, <4>1
        <5>2. /\ Len(For(ds, e.pair)) = Len(ds)
              /\ \A i \in 1 .. Len(ds) : For(ds, e.pair)[i].do = ds[i]
          BY <4>2, ForSteps
        <5> QED BY <4>2, <5>1, <5>2
      <4>4. \A i \in 1 .. Len(a) : i = 1 \/ i = 2
        BY <4>3
      <4>5. \A i \in 1 .. Len(a) : a[i].do \in {"scan", "own"}
        BY <4>2, <4>3, <4>4
      <4> QED BY <4>5 DEF Open, Fence
    <3> QED BY <3>1, <3>2
  <2> QED BY <2>2, <2>3 DEF Seam, Tame, Delicate
<1>11. steps \in Seq(Steps) /\ Fit(e, k, steps, A, V)
  <2>1. a \o b \in Seq(Steps) /\ Fit(e, k, a \o b, A, V)
    BY <1>9, <1>10, FitConcat, Concats
  <2> QED BY <1>2, <1>7, <1>8, <2>1
<1> QED BY <1>1, <1>3, <1>4, <1>11, FenceFits

(* ... and then the record.                                                *)
LEMMA DeleteRecordFits == ASSUME Shape, NEW w \in Workers, DeleteRecord(w), Fits(w) PROVE Fits(w)'
<1>1. PICK e, k, A, V, p : /\ e = work[w].entry /\ k = work[w].k /\ A = Addressed' /\ V = sf'
                           /\ p = OwnPair(work[w])
  OBVIOUS
<1>2. PICK a, b, c, steps : /\ a = WhenSet(p, For(<<"scan", "recover", "own", "stop">>, p))
                            /\ b = WhenSet(e.marker, Drain(e.marker) \o Only("keepMarker"))
                            /\ c = a \o b /\ steps = c \o Only("erase")
  OBVIOUS
<1>3. /\ At(w, "delete") /\ Addressed' = Addressed
      /\ Go(w, work[w], <<>>, steps) \/ Go(w, work[w], <<>>, Only("fail"))
  BY <1>1, <1>2, SameNames DEF DeleteRecord, bucket
<1>4. /\ Working /\ work[w] \in Jobs /\ e \in Entries /\ "delete" \in Fence \ {"lookup"}
      /\ p \in PairOrNone
  <2>1. Working /\ work[w] \in Jobs /\ e \in Entries
    BY <1>1, <1>3, AtFacts DEF Shape
  <2>2. work[w].kc.pair \in PairOrNone /\ work[w].entry.pair \in PairOrNone
    BY <2>1 DEF Jobs, Records, Gone, Entries, PairOrNone
  <2> QED BY <1>1, <2>1, <2>2 DEF OwnPair, Fence
<1>5. {e.pair, e.marker} \subseteq A
  <2>1. Sure(work[w].entry, work[w].k, work[w].todo[1], Addressed, sf) /\ work[w].todo[1].do = "delete"
    BY <1>3, <1>4, HeadSure
  <2> QED BY <1>1, <1>3, <2>1 DEF Sure, Heeds
<1>6. Only("erase") \in Seq(TameSteps) /\ Only("fail") \in Seq(TameSteps)
  BY TamePrograms DEF Calls, Delicate, Asserts, Heeds
<1>7. a \in Seq(Steps) /\ Fit(e, k, a, A, V) /\ Open(a) /\ Seam(e, a)
  <2>1. CASE p = None
    <3>1. a = <<>> /\ <<>> \in Seq(TameSteps)
      BY <1>2, <2>1 DEF WhenSet
    <3>2. Len(a) = 0
      BY <3>1
    <3>3. \A n \in 1 .. Len(a) : FALSE
      BY <3>2
    <3> QED BY <3>1, <3>3, TameAre, TameFit DEF Open, Seam
  <2>2. CASE p # None
    <3>1. PICK ds : ds = <<"scan", "recover", "own", "stop">>
      OBVIOUS
    <3>2. /\ ds \in Seq(Calls) /\ Len(ds) = 4 /\ ds[1] = "scan" /\ ds[2] = "recover"
          /\ ds[3] = "own" /\ ds[4] = "stop"
      BY <3>1, SmallPrograms DEF Calls
    <3>3. a \in Seq(Steps) /\ Len(a) = 4 /\ \A i \in 1 .. 4 : a[i].do = ds[i]
      <4>1. a = For(ds, p)
        BY <1>2, <2>2, <3>1 DEF WhenSet
      <4>2. /\ For(ds, p) \in Seq(Steps) /\ Len(For(ds, p)) = Len(ds)
            /\ \A i \in 1 .. Len(ds) : For(ds, p)[i].do = ds[i]
        BY <1>4, <3>2, ForSteps
      <4> QED BY <3>2, <4>1, <4>2
    <3>4. \A i \in 1 .. Len(a) : i = 1 \/ i = 2 \/ i = 3 \/ i = 4
      BY <3>3
    <3>5. \A i \in 1 .. Len(a) : a[i].do \in {"scan", "recover", "own", "stop"}
      BY <3>2, <3>3, <3>4
    <3>6. Open(a) /\ Seam(e, a) /\ Handing(a) /\ Halted(e, a) /\ Closed(a)
      BY <3>5 DEF Open, Seam, Handing, Halted, Closed, Fence, Asserts
    <3>7. AllSure(e, k, a, A, V)
      <4>1. ASSUME NEW i \in 1 .. Len(a) PROVE Sure(e, k, a[i], A, V)
        BY <1>5, <3>5 DEF Sure, Asserts
      <4> QED BY <4>1 DEF AllSure
    <3> QED BY <3>3, <3>6, <3>7 DEF Fit
  <2> QED BY <2>1, <2>2
<1>8. b \in Seq(Steps) /\ Fit(e, k, b, A, V)
  <2>1. PICK t : t = Drain(e.marker)
    OBVIOUS
  <2> QED BY <1>2, <1>4, <1>5, <2>1, MarkerFit
<1>9. c \in Seq(Steps) /\ Fit(e, k, c, A, V)
  BY <1>2, <1>7, <1>8, FitConcat, Concats
<1>10. steps \in Seq(Steps) /\ Fit(e, k, steps, A, V)
  <2>1. Only("erase") \in Seq(Steps) /\ Tame(Only("erase"))
    BY <1>6, TameAre
  <2> QED BY <1>2, <1>9, <2>1, FitTame, Concats
<1>11. CASE Go(w, work[w], <<>>, steps)
  BY <1>1, <1>3, <1>4, <1>10, <1>11, FenceFits
<1>12. CASE Go(w, work[w], <<>>, Only("fail"))
  BY <1>3, <1>4, <1>6, <1>12, TameFits
<1> QED BY <1>3, <1>11, <1>12

=============================================================================
