--------------------------- MODULE ResolverProofs ---------------------------
(***************************************************************************)
(* For every set of uids: no lookup is lost or done twice, and neither     *)
(* thread ever sleeps on work that the other has finished; together they   *)
(* are the plain line of lookups of module LookupService.                  *)
(***************************************************************************)
EXTENDS Resolver, SequenceTheorems, TLAPS

USE ResolverAssumption

-----------------------------------------------------------------------------
(* Queues without repetition.                                              *)

\* Pushing adds one element to the range.
LEMMA RangeAppend ==
    ASSUME NEW S, NEW s \in Seq(S), NEW x \in S
    PROVE  Range(Append(s, x)) = Range(s) \cup {x}
<1>1. /\ DOMAIN Append(s, x) = 1..(Len(s) + 1)
      /\ \A i \in 1..Len(s) : Append(s, x)[i] = s[i]
      /\ Append(s, x)[Len(s) + 1] = x
      /\ DOMAIN s = 1..Len(s) /\ Len(s) \in Nat
  OBVIOUS
<1>2. 1..(Len(s) + 1) = (1..Len(s)) \cup {Len(s) + 1}
  BY <1>1
<1> QED
  BY <1>1, <1>2 DEF Range

\* Pushing an element that is not there keeps the queue free of repetition.
LEMMA NoRepeatAppend ==
    ASSUME NEW S, NEW s \in Seq(S), NEW x \in S, NoRepeat(s), x \notin Range(s)
    PROVE  NoRepeat(Append(s, x))
<1>1. /\ DOMAIN Append(s, x) = 1..(Len(s) + 1)
      /\ \A i \in 1..Len(s) : Append(s, x)[i] = s[i]
      /\ Append(s, x)[Len(s) + 1] = x
      /\ DOMAIN s = 1..Len(s) /\ Len(s) \in Nat
  OBVIOUS
<1>2. \A i \in 1..Len(s) : s[i] # x
  BY <1>1 DEF Range
<1> QED
  BY <1>1, <1>2 DEF NoRepeat

\* Popping removes exactly the front from a queue free of repetition.
LEMMA PopFront ==
    ASSUME NEW S, NEW s \in Seq(S), s # << >>, NoRepeat(s)
    PROVE  /\ Head(s) \in S /\ Tail(s) \in Seq(S)
           /\ Range(s) = Range(Tail(s)) \cup {Head(s)}
           /\ Head(s) \notin Range(Tail(s))
           /\ NoRepeat(Tail(s))
<1>1. /\ DOMAIN s = 1..Len(s) /\ Len(s) \in Nat /\ Len(s) >= 1
      /\ Head(s) = s[1] /\ Tail(s) \in Seq(S)
      /\ DOMAIN Tail(s) = 1..(Len(s) - 1)
      /\ \A i \in 1..(Len(s) - 1) : Tail(s)[i] = s[i + 1]
  OBVIOUS
<1>2. Head(s) \in S
  BY <1>1
<1>3. Range(s) = Range(Tail(s)) \cup {Head(s)}
  <2>1. ASSUME NEW y \in Range(s) PROVE y \in Range(Tail(s)) \cup {Head(s)}
    <3>1. PICK i \in 1..Len(s) : y = s[i]
      BY <1>1 DEF Range
    <3>2. CASE i = 1
      BY <1>1, <3>1, <3>2
    <3>3. CASE i # 1
      <4>1. i - 1 \in 1..(Len(s) - 1) /\ (i - 1) + 1 = i
        BY <1>1, <3>3
      <4>2. Tail(s)[i - 1] = y /\ i - 1 \in DOMAIN Tail(s)
        BY <1>1, <3>1, <4>1
      <4> QED
        BY <4>2 DEF Range
    <3> QED
      BY <3>2, <3>3
  <2>2. \A i \in 1..(Len(s) - 1) : i + 1 \in 1..Len(s)
    BY <1>1
  <2>3. Range(Tail(s)) \cup {Head(s)} \subseteq Range(s)
    BY <1>1, <2>2 DEF Range
  <2> QED
    BY <2>1, <2>3
<1>4. \A i \in 1..(Len(s) - 1) : s[i + 1] # s[1]
  BY <1>1 DEF NoRepeat
<1>5. Head(s) \notin Range(Tail(s))
  BY <1>1, <1>4 DEF Range
<1>6. NoRepeat(Tail(s))
  <2>1. ASSUME NEW i \in 1..(Len(s) - 1), NEW j \in 1..(Len(s) - 1), Tail(s)[i] = Tail(s)[j]
        PROVE  i = j
    <3>1. i + 1 \in DOMAIN s /\ j + 1 \in DOMAIN s /\ s[i + 1] = s[j + 1]
      BY <1>1, <2>1
    <3>2. i + 1 = j + 1
      BY <3>1 DEF NoRepeat
    <3> QED
      BY <1>1, <3>2
  <2> QED
    BY <1>1, <2>1 DEF NoRepeat
<1> QED
  BY <1>1, <1>2, <1>3, <1>5, <1>6

-----------------------------------------------------------------------------
\* Before the first step.
LEMMA IInvInit == Init => IInv
<1> SUFFICES ASSUME Init PROVE IInv
  OBVIOUS
<1>1. Range(pending) = {} /\ Range(completed) = {} /\ Held = {}
  BY DEF Init, Range, Held
<1>2. NoRepeat(pending) /\ NoRepeat(completed)
  BY DEF Init, NoRepeat
<1>3. NoLostCompletion /\ NoLostNotify
  BY DEF Init, NoLostCompletion, NoLostNotify
<1>4. OneLookupEach /\ Bookkeeping
  BY <1>1, <1>2 DEF Init, OneLookupEach, Bookkeeping
<1>5. TypeOK
  <2>1. pending \in Seq(Uids) /\ completed \in Seq(Uids)
    BY DEF Init
  <2> QED
    BY <2>1 DEF Init, TypeOK
<1> QED
  BY <1>3, <1>4, <1>5 DEF IInv

\* One step per action of either thread.
LEMMA IInvStep == IInv /\ [Next]_vars => IInv'
<1> SUFFICES ASSUME IInv, [Next]_vars PROVE IInv'
  OBVIOUS
<1> USE DEF IInv
<1>1. ASSUME NEW u \in Uids, AddProber(u) PROVE IInv'
  BY <1>1 DEF AddProber, workerVars, TypeOK, OneLookupEach, NoRepeat, Range, Held,
              NoLostCompletion, NoLostNotify, Bookkeeping
<1>2. ASSUME NEW u \in Uids, DropProber(u) PROVE IInv'
  BY <1>2 DEF DropProber, workerVars, TypeOK, OneLookupEach, NoRepeat, Range, Held,
              NoLostCompletion, NoLostNotify, Bookkeeping
<1>3. ASSUME NEW u \in Uids, request(u) PROVE IInv'
  <2>1. u \notin Range(pending) /\ u \notin Held /\ u \notin Range(completed)
    BY <1>3 DEF request, OneLookupEach
  <2>2. pending' = Append(pending, u) /\ mpc' = "notify" /\ mpc = "loop"
    BY <1>3, <2>1 DEF request
  <2>3. Range(pending') = Range(pending) \cup {u} /\ NoRepeat(pending')
    BY <2>1, <2>2, RangeAppend, NoRepeatAppend DEF TypeOK, OneLookupEach
  <2>4. Range(completed)' = Range(completed) /\ Held' = Held /\ NoRepeat(completed)' = NoRepeat(completed)
    BY <1>3 DEF request, workerVars, Held, NoRepeat, Range
  <2>5. TypeOK' /\ NoLostCompletion' /\ NoLostNotify'
    BY <1>3, <2>2 DEF request, workerVars, TypeOK, NoLostCompletion, NoLostNotify, Bookkeeping
  <2>6. OneLookupEach'
    BY <1>3, <2>1, <2>3, <2>4 DEF request, OneLookupEach
  <2>7. Bookkeeping'
    BY <1>3, <2>2, <2>3, <2>4 DEF request, workerVars, Bookkeeping
  <2> QED
    BY <2>5, <2>6, <2>7
<1>4. CASE NotifyOne
  BY <1>4 DEF NotifyOne, proberVars, TypeOK, OneLookupEach, NoRepeat, Range, Held,
              NoLostCompletion, NoLostNotify, Bookkeeping
<1>5. CASE collect
  <2>1. CASE mpc = "loop" /\ eventFd
    <3>1. /\ eventFd' = FALSE /\ mpc' = "take"
          /\ UNCHANGED <<pending, completed, inHand, wpc, stop, unborn, live, resolving>>
      BY <1>5, <2>1 DEF collect, workerVars
    <3>2. OneLookupEach' /\ Bookkeeping'
      BY <2>1, <3>1 DEF OneLookupEach, NoRepeat, Range, Held, Bookkeeping
    <3>3. TypeOK' /\ NoLostCompletion' /\ NoLostNotify'
      BY <2>1, <3>1 DEF TypeOK, NoLostCompletion, NoLostNotify
    <3> QED
      BY <3>2, <3>3
  <2>2. CASE mpc = "take"
    <3>1. Range(completed') = {} /\ NoRepeat(completed') /\ completed' \in Seq(Uids)
      BY <1>5, <2>2 DEF collect, Range, NoRepeat
    <3>2. Range(pending)' = Range(pending) /\ Held' = Held /\ NoRepeat(pending)' = NoRepeat(pending)
      BY <1>5, <2>2 DEF collect, workerVars, Range, Held, NoRepeat
    <3>3. OneLookupEach'
      BY <1>5, <2>2, <3>1, <3>2 DEF collect, OneLookupEach
    <3>4. Bookkeeping'
      BY <1>5, <2>2, <3>1, <3>2 DEF collect, workerVars, Bookkeeping
    <3>5. TypeOK' /\ NoLostCompletion' /\ NoLostNotify'
      BY <1>5, <2>2, <3>1 DEF collect, workerVars, TypeOK, NoLostCompletion, NoLostNotify
    <3> QED
      BY <3>3, <3>4, <3>5
  <2> QED
    BY <1>5, <2>1, <2>2 DEF collect
<1>6. CASE BeginStop
  BY <1>6 DEF BeginStop, workerVars, proberVars, TypeOK, OneLookupEach, NoRepeat, Range, Held,
              NoLostCompletion, NoLostNotify, Bookkeeping
<1>7. CASE NotifyAll
  BY <1>7 DEF NotifyAll, proberVars, TypeOK, OneLookupEach, NoRepeat, Range, Held,
              NoLostCompletion, NoLostNotify, Bookkeeping
<1>8. CASE Join
  BY <1>8 DEF Join, workerVars, proberVars, TypeOK, OneLookupEach, NoRepeat, Range, Held,
              NoLostCompletion, NoLostNotify, Bookkeeping
<1>9. CASE Test
  <2>1. CASE ~stop /\ pending # << >>
    <3>1. /\ inHand' = Head(pending) /\ pending' = Tail(pending) /\ wpc' = "lookup"
          /\ wpc = "test" /\ UNCHANGED <<completed, eventFd, stop, mpc, unborn, live, resolving>>
      BY <1>9, <2>1 DEF Test, proberVars
    <3>2. /\ Head(pending) \in Uids /\ Tail(pending) \in Seq(Uids)
          /\ Range(pending) = Range(Tail(pending)) \cup {Head(pending)}
          /\ Head(pending) \notin Range(Tail(pending)) /\ NoRepeat(Tail(pending))
      BY <2>1, PopFront DEF TypeOK, OneLookupEach
    <3>3. Held = {} /\ Held' = {Head(pending)}
      BY <3>1, <3>2 DEF Held, Bookkeeping
    <3>4. Range(completed)' = Range(completed) /\ NoRepeat(completed)' = NoRepeat(completed)
      BY <3>1 DEF Range, NoRepeat
    <3>5. OneLookupEach'
      BY <3>1, <3>2, <3>3, <3>4 DEF OneLookupEach
    <3>6. Bookkeeping'
      BY <3>1, <3>2, <3>3, <3>4 DEF Bookkeeping
    <3>7. TypeOK' /\ NoLostCompletion' /\ NoLostNotify'
      BY <3>1, <3>2 DEF TypeOK, NoLostCompletion, NoLostNotify
    <3> QED
      BY <3>5, <3>6, <3>7
  <2>2. CASE stop \/ pending = << >>
    BY <1>9, <2>2 DEF Test, proberVars, TypeOK, OneLookupEach, NoRepeat, Range, Held,
                      NoLostCompletion, NoLostNotify, Bookkeeping
  <2> QED
    BY <2>1, <2>2 DEF TypeOK
<1>10. CASE SpuriousWake
  BY <1>10 DEF SpuriousWake, proberVars, TypeOK, OneLookupEach, NoRepeat, Range, Held,
               NoLostCompletion, NoLostNotify, Bookkeeping
<1>11. CASE Lookup
  BY <1>11 DEF Lookup, proberVars, TypeOK, OneLookupEach, NoRepeat, Range, Held,
               NoLostCompletion, NoLostNotify, Bookkeeping
<1>12. CASE Push
  <2>1. /\ inHand' = NoUid /\ completed' = Append(completed, inHand) /\ wpc' = "signal"
        /\ wpc = "push" /\ UNCHANGED <<pending, eventFd, stop, mpc, unborn, live, resolving>>
    BY <1>12 DEF Push, proberVars
  <2>2. inHand \in Uids /\ Held = {inHand} /\ Held' = {}
    BY <2>1 DEF TypeOK, Held, Bookkeeping
  <2>3. Range(completed') = Range(completed) \cup {inHand} /\ NoRepeat(completed')
    BY <2>1, <2>2, RangeAppend, NoRepeatAppend DEF TypeOK, OneLookupEach
  <2>4. Range(pending)' = Range(pending) /\ NoRepeat(pending)' = NoRepeat(pending)
    BY <2>1 DEF Range, NoRepeat
  <2>5. OneLookupEach'
    BY <2>1, <2>2, <2>3, <2>4 DEF OneLookupEach
  <2>6. Bookkeeping'
    BY <2>1, <2>2, <2>3, <2>4 DEF Bookkeeping
  <2>7. TypeOK' /\ NoLostCompletion' /\ NoLostNotify'
    BY <2>1, <2>2 DEF TypeOK, NoLostCompletion, NoLostNotify
  <2> QED
    BY <2>5, <2>6, <2>7
<1>13. CASE Signal
  BY <1>13 DEF Signal, proberVars, TypeOK, OneLookupEach, NoRepeat, Range, Held,
               NoLostCompletion, NoLostNotify, Bookkeeping
<1>14. CASE UNCHANGED vars
  BY <1>14 DEF vars, workerVars, proberVars, TypeOK, OneLookupEach, NoRepeat, Range, Held,
               NoLostCompletion, NoLostNotify, Bookkeeping
<1> QED
  BY <1>1, <1>2, <1>3, <1>4, <1>5, <1>6, <1>7, <1>8, <1>9, <1>10, <1>11, <1>12, <1>13, <1>14
     DEF Next, Main, Worker, Exited

\* The queues and flags keep their types.
THEOREM TypeCorrect == Spec => []TypeOK
<1>1. IInv => TypeOK
  BY DEF IInv
<1> QED
  BY <1>1, IInvInit, IInvStep, PTL DEF Spec

\* A set flag stands for exactly one lookup on its way, a clear flag for none.
THEOREM EachLookupOnce == Spec => []OneLookupEach
<1>1. IInv => OneLookupEach
  BY DEF IInv
<1> QED
  BY <1>1, IInvInit, IInvStep, PTL DEF Spec

\* A finished lookup is never left in the queue without the loop being told, or
\* about to be told (Resolver::run against Resolver::collect).
THEOREM NoCompletionLost == Spec => []NoLostCompletion
<1>1. IInv => NoLostCompletion
  BY DEF IInv
<1> QED
  BY <1>1, IInvInit, IInvStep, PTL DEF Spec

\* The worker never sleeps on a request or on the order to stop, unless its
\* notification is about to be sent (request and the destructor against run).
THEOREM NoNotifyLost == Spec => []NoLostNotify
<1>1. IInv => NoLostNotify
  BY DEF IInv
<1> QED
  BY <1>1, IInvInit, IInvStep, PTL DEF Spec

-----------------------------------------------------------------------------
(* The two threads implement the line of lookups.                          *)

\* The line is a sequence of uids, and holds what the three places hold.
LEMMA LineHolds ==
    ASSUME IInv
    PROVE  /\ InHand \in Seq(Uids) /\ completed \in Seq(Uids) /\ pending \in Seq(Uids)
           /\ completed \o InHand \in Seq(Uids) /\ Line \in Seq(Uids)
           /\ Range(Line) = Range(completed) \cup Held \cup Range(pending)
<1>1. InHand \in Seq(Uids) /\ completed \in Seq(Uids) /\ pending \in Seq(Uids)
  BY DEF IInv, TypeOK, InHand
<1>2. Range(InHand) = Held
  BY DEF InHand, Held, Range
<1>3. completed \o InHand \in Seq(Uids) /\ Line \in Seq(Uids)
  BY <1>1, ConcatProperties DEF Line
<1>4. Range(Line) = Range(completed) \cup Held \cup Range(pending)
  <2>1. Range(completed \o InHand) = Range(completed) \cup Range(InHand)
    BY <1>1, RangeConcatenation
  <2>2. Range((completed \o InHand) \o pending) = Range(completed \o InHand) \cup Range(pending)
    <3> DEFINE front == completed \o InHand
    <3>1. front \in Seq(Uids)
      BY <1>3
    <3> HIDE DEF front
    <3>2. Range(front \o pending) = Range(front) \cup Range(pending)
      BY <1>1, <3>1, RangeConcatenation
    <3> QED BY <3>2 DEF front
  <2> QED BY <1>2, <2>1, <2>2 DEF Line
<1> QED BY <1>1, <1>3, <1>4

\* Pushing at the end of the second half of a line is pushing at its end.
LEMMA AppendRight ==
    ASSUME NEW S, NEW s \in Seq(S), NEW q \in Seq(S), NEW x \in S
    PROVE  s \o Append(q, x) = Append(s \o q, x)
<1>1. s \o q \in Seq(S) /\ <<x>> \in Seq(S)
  BY ConcatProperties
<1> QED BY <1>1, AppendIsConcat, ConcatAssociative

\* Cutting off the first part of a line leaves the second, and cuts off nothing else.
LEMMA CutFront ==
    ASSUME NEW S, NEW s \in Seq(S), NEW q \in Seq(S)
    PROVE  /\ SubSeq(s \o q, Len(s) + 1, Len(s \o q)) = q
           /\ SubSeq(s \o q, 1, Len(s)) = s
<1> DEFINE w == s \o q
<1>1. /\ w \in Seq(S) /\ Len(w) = Len(s) + Len(q) /\ Len(s) \in Nat /\ Len(q) \in Nat
      /\ \A i \in 1..(Len(s) + Len(q)) : w[i] = IF i <= Len(s) THEN s[i] ELSE q[i - Len(s)]
  BY ConcatProperties, LenProperties
<1>2. \A i \in 1..Len(w) : w[i] \in S
  BY <1>1, ElementOfSeq
<1> HIDE DEF w
<1>3. SubSeq(w, Len(s) + 1, Len(w)) = q
  <2> DEFINE m == Len(s) + 1
             n == Len(w)
             u == SubSeq(w, m, n)
  <2>1. /\ u \in Seq(S) /\ Len(u) = (IF m <= n THEN n - m + 1 ELSE 0)
        /\ \A i \in 1..(n - m + 1) : u[i] = w[m + i - 1]
    <3>1. m \in Int /\ n \in Int /\ \A i \in m..n : w[i] \in S
      BY <1>1, <1>2
    <3> HIDE DEF m, n
    <3> QED BY <3>1, SubSeqProperties
  <2>2. Len(u) = Len(q)
    BY <1>1, <2>1
  <2>3. ASSUME NEW i \in 1..Len(q) PROVE u[i] = q[i]
    <3>1. i \in 1..(n - m + 1) /\ m + i - 1 = Len(s) + i /\ Len(s) + i \in 1..(Len(s) + Len(q))
          /\ ~(Len(s) + i <= Len(s)) /\ (Len(s) + i) - Len(s) = i
      BY <1>1
    <3> QED BY <1>1, <2>1, <3>1
  <2> HIDE DEF u
  <2>4. u = q
    BY <2>1, <2>2, <2>3, SeqEqual
  <2> QED BY <2>4 DEF u
<1>4. SubSeq(w, 1, Len(s)) = s
  <2> DEFINE n == Len(s)
             u == SubSeq(w, 1, n)
  <2>1. /\ u \in Seq(S) /\ Len(u) = (IF 1 <= n THEN n - 1 + 1 ELSE 0)
        /\ \A i \in 1..(n - 1 + 1) : u[i] = w[1 + i - 1]
    <3>1. 1 \in Int /\ n \in Int /\ \A i \in 1..n : w[i] \in S
      BY <1>1, <1>2
    <3> HIDE DEF n
    <3> QED BY <3>1, SubSeqProperties
  <2>2. Len(u) = Len(s)
    BY <1>1, <2>1
  <2>3. ASSUME NEW i \in 1..Len(s) PROVE u[i] = s[i]
    <3>1. i \in 1..(n - 1 + 1) /\ 1 + i - 1 = i /\ i \in 1..(Len(s) + Len(q)) /\ i <= Len(s)
      BY <1>1
    <3> QED BY <1>1, <2>1, <3>1
  <2> HIDE DEF u
  <2>4. u = s
    BY <2>1, <2>2, <2>3, SeqEqual
  <2> QED BY <2>4 DEF u
<1> QED BY <1>3, <1>4 DEF w

\* A queue is its front and the rest.
LEMMA FrontAndRest ==
    ASSUME NEW S, NEW q \in Seq(S), q # << >>
    PROVE  <<Head(q)>> \o Tail(q) = q
<1>1. /\ Head(q) \in S /\ Tail(q) \in Seq(S) /\ Len(Tail(q)) = Len(q) - 1
      /\ \A i \in 1..Len(Tail(q)) : Tail(q)[i] = q[i + 1]
      /\ Len(q) \in Nat \ {0} /\ Head(q) = q[1]
  BY HeadTailProperties, EmptySeq
<1> DEFINE h == <<Head(q)>>
           w == h \o Tail(q)
<1>2. h \in Seq(S) /\ Len(h) = 1 /\ h[1] = Head(q)
  BY <1>1
<1> HIDE DEF h
<1>3. /\ w \in Seq(S) /\ Len(w) = Len(q)
      /\ \A i \in 1..Len(q) : w[i] = IF i <= 1 THEN h[i] ELSE Tail(q)[i - 1]
  <2>1. /\ w \in Seq(S) /\ Len(w) = Len(h) + Len(Tail(q))
        /\ \A i \in 1..(Len(h) + Len(Tail(q))) :
              w[i] = IF i <= Len(h) THEN h[i] ELSE Tail(q)[i - Len(h)]
    BY <1>1, <1>2, ConcatProperties
  <2>2. Len(h) + Len(Tail(q)) = Len(q)
    BY <1>1, <1>2
  <2> HIDE DEF w
  <2> QED BY <1>2, <2>1, <2>2
<1>4. ASSUME NEW i \in 1..Len(q) PROVE w[i] = q[i]
  <2>1. CASE i = 1
    BY <1>1, <1>2, <1>3, <2>1
  <2>2. CASE i # 1
    <3>1. i - 1 \in 1..Len(Tail(q)) /\ (i - 1) + 1 = i /\ ~(i <= 1)
      BY <1>1, <2>2
    <3> QED BY <1>1, <1>3, <3>1
  <2> QED BY <2>1, <2>2
<1> HIDE DEF w
<1>5. w = q
  BY <1>3, <1>4, SeqEqual
<1> QED BY <1>5 DEF w, h

\* Every step of either thread is, for the line, a request, a batch of answers, a
\* prober that goes away, or nothing.
LEMMA ServiceStep == IInv /\ [Next]_vars => [Service!Next]_(Service!vars)
<1> SUFFICES ASSUME IInv, [Next]_vars PROVE [Service!Next]_(Service!vars)
  OBVIOUS
<1>0. /\ InHand \in Seq(Uids) /\ completed \in Seq(Uids) /\ pending \in Seq(Uids)
      /\ completed \o InHand \in Seq(Uids) /\ Line \in Seq(Uids)
      /\ Range(Line) = Range(completed) \cup Held \cup Range(pending)
  BY LineHolds
<1>1. ASSUME NEW u \in Uids, request(u) PROVE Service!Ask(u)
  <2>1. u \notin Range(Line)
    BY <1>0, <1>1 DEF IInv, OneLookupEach, request
  <2>2. pending' = Append(pending, u) /\ resolving' = resolving \cup {u}
    BY <1>0, <1>1, <2>1 DEF request
  <2>3. completed' = completed /\ InHand' = InHand
    BY <1>1 DEF request, workerVars, InHand
  <2>4. Line' = Append(Line, u)
    BY <1>0, <2>2, <2>3, AppendRight DEF Line
  <2> QED BY <2>1, <2>2, <2>4 DEF Service!Ask, Service!Range, Range
<1>2. ASSUME NEW u \in Uids, DropProber(u) PROVE Service!GoAway(u)
  BY <1>2 DEF DropProber, workerVars, Service!GoAway, Line, InHand
<1>3. ASSUME mpc = "take", collect PROVE [Service!Next]_(Service!vars)
  <2>1. /\ resolving' = resolving \ Range(completed) /\ completed' = << >>
        /\ pending' = pending /\ InHand' = InHand
    BY <1>3 DEF collect, workerVars, InHand
  <2>2. Line = completed \o (InHand \o pending) /\ Line' = InHand \o pending
        /\ InHand \o pending \in Seq(Uids)
    <3>1. << >> \o InHand = InHand
      BY <1>0, ConcatEmptySeq
    <3> QED BY <1>0, <2>1, <3>1, ConcatAssociative, ConcatProperties DEF Line
  <2>3. CASE completed = << >>
    <3>1. << >> \o (InHand \o pending) = InHand \o pending
      BY <2>2, ConcatEmptySeq
    <3>2. Range(completed) = {}
      BY <2>3 DEF Range
    <3> QED BY <2>1, <2>2, <2>3, <3>1, <3>2 DEF Service!vars
  <2>4. CASE completed # << >>
    <3>1. Len(completed) \in 1..Len(Line)
      <4>1. Len(completed) \in Nat \ {0} /\ Len(InHand \o pending) \in Nat
        BY <1>0, <2>2, <2>4, EmptySeq, LenProperties
      <4>2. Len(Line) = Len(completed) + Len(InHand \o pending)
        BY <1>0, <2>2, ConcatProperties
      <4> QED BY <4>1, <4>2
    <3>2. /\ SubSeq(Line, Len(completed) + 1, Len(Line)) = Line'
          /\ SubSeq(Line, 1, Len(completed)) = completed
      BY <1>0, <2>2, CutFront
    <3>3. Service!Answer(Len(completed))
      BY <2>1, <3>2 DEF Service!Answer, Service!Range, Range
    <3> QED BY <3>1, <3>3 DEF Service!Next
  <2> QED BY <2>3, <2>4
<1>4. CASE Test
  <2>1. CASE ~stop /\ pending # << >>
    <3>1. /\ inHand' = Head(pending) /\ pending' = Tail(pending)
          /\ completed' = completed /\ resolving' = resolving /\ inHand = NoUid
      BY <1>4, <2>1 DEF Test, proberVars, IInv, Bookkeeping
    <3>2. Head(pending) \in Uids /\ Tail(pending) \in Seq(Uids)
      BY <1>0, <2>1, HeadTailProperties
    <3>3. InHand = << >> /\ InHand' = <<Head(pending)>> /\ <<Head(pending)>> \in Seq(Uids)
      BY <3>1, <3>2 DEF InHand
    <3>4. Line = completed \o pending
      BY <1>0, <3>3, ConcatEmptySeq DEF Line
    <3>5. Line' = completed \o (<<Head(pending)>> \o Tail(pending))
      BY <1>0, <3>1, <3>2, <3>3, ConcatAssociative DEF Line
    <3>6. Line' = Line
      BY <1>0, <2>1, <3>4, <3>5, FrontAndRest
    <3> QED BY <3>1, <3>6 DEF Service!vars
  <2>2. CASE stop \/ pending = << >>
    <3>1. UNCHANGED <<pending, completed, inHand, resolving>>
      BY <1>4, <2>2 DEF Test, proberVars, IInv, TypeOK
    <3> QED BY <3>1 DEF Service!vars, Line, InHand
  <2> QED BY <2>1, <2>2 DEF IInv, TypeOK
<1>5. CASE Push
  <2>1. /\ inHand' = NoUid /\ completed' = Append(completed, inHand)
        /\ pending' = pending /\ resolving' = resolving /\ inHand # NoUid
    BY <1>5 DEF Push, proberVars, IInv, Bookkeeping
  <2>2. InHand = <<inHand>> /\ InHand' = << >> /\ inHand \in Uids
    BY <2>1 DEF InHand, IInv, TypeOK
  <2>3. completed' = completed \o InHand
    BY <1>0, <2>1, <2>2, AppendIsConcat
  <2>4. Line' = Line
    BY <1>0, <2>1, <2>2, <2>3, ConcatEmptySeq DEF Line
  <2> QED BY <2>1, <2>4 DEF Service!vars
<1>6. ASSUME UNCHANGED <<pending, completed, inHand, resolving>>
      PROVE  UNCHANGED Service!vars
  BY <1>6 DEF Service!vars, Line, InHand
<1>7. ASSUME NEW u \in Uids, AddProber(u) PROVE UNCHANGED Service!vars
  BY <1>6, <1>7 DEF AddProber, workerVars
<1>8. CASE collect /\ mpc # "take"
  BY <1>6, <1>8 DEF collect, workerVars
<1>9. CASE NotifyOne \/ BeginStop \/ NotifyAll \/ Join
  BY <1>6, <1>9 DEF NotifyOne, BeginStop, NotifyAll, Join, workerVars, proberVars
<1>10. CASE SpuriousWake \/ Lookup \/ Signal
  BY <1>6, <1>10 DEF SpuriousWake, Lookup, Signal, proberVars
<1>11. CASE UNCHANGED vars
  BY <1>6, <1>11 DEF vars, workerVars, proberVars
<1>12. ASSUME NEW u \in Uids, AddProber(u) \/ DropProber(u) \/ request(u)
       PROVE  [Service!Next]_(Service!vars)
  BY <1>1, <1>2, <1>7, <1>12 DEF Service!Next
<1> QED BY <1>3, <1>4, <1>5, <1>8, <1>9, <1>10, <1>11, <1>12 DEF Next, Main, Worker, Exited

\* The event loop and the worker, across the mutex, the condition variable and the
\* eventfd, implement LookupService: every lookup is answered once, in the order of
\* the requests, and clears the flag of the prober that asked (request, run, collect).
THEOREM ThreadsKeepService == Spec => ServiceKept
<1>1. Init => Service!Init
  BY DEF Init, Service!Init, Line, InHand
<1> QED
  BY <1>1, IInvInit, IInvStep, ServiceStep, PTL DEF Spec, ServiceKept, Service!Spec
=============================================================================
