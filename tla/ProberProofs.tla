---------------------------- MODULE ProberProofs ----------------------------
(***************************************************************************)
(* For every interval, maximum wait, ceiling and set of subscribers: each  *)
(* probe is judged once, the queue of probes in flight stays in order, no  *)
(* overdue probe outlives a tick and late wake-ups cause no burst.         *)
(***************************************************************************)
EXTENDS Prober, OperatorProofs, TLAPS

-----------------------------------------------------------------------------
(* Operators.                                                              *)

\* The number of probes allowed in flight is a number.
LEMMA MaxInFlightType == maxInFlight \in Nat
<1>1. (Timeout + Interval - 1) \div Interval \in Int
  BY ProberAssumption
<1> DEFINE needed == (Timeout + Interval - 1) \div Interval
<1> HIDE DEF needed
<1>2. min(max(needed, 1), InFlightCeiling) \in Nat
  BY <1>1, ProberAssumption DEF min, max, needed
<1> QED
  BY <1>2 DEF maxInFlight, needed

\* The deadline the loop sleeps until is a time.
LEMMA NextDeadlineType ==
    ASSUME NEW f \in Seq(InFlightProbe), NEW a \in Nat, NEW b \in Nat, NEW busy \in BOOLEAN
    PROVE  nextDeadline(f, a, b, busy) \in Nat
<1>1. f # << >> => Head(f) \in InFlightProbe
  OBVIOUS
<1>2. f # << >> => Head(f).deadline \in Nat
  BY <1>1 DEF InFlightProbe
<1> QED
  BY <1>2 DEF nextDeadline, min

\* The retry delay after a failed lookup is a length of time.
LEMMA BackoffType ==
    ASSUME NEW n \in 1..16
    PROVE  Backoff(n) \in Nat
<1> DEFINE k == <<1, 2, 4, 8, 16, 32, 64>>[min(n, 7)]
<1>1. min(n, 7) \in 1..7
  BY DEF min
<1>2. k \in Nat
  BY <1>1
<1> HIDE DEF k
<1>3. BackoffBase * k \in Nat
  BY <1>2, ProberAssumption
<1>4. min(BackoffBase * k, BackoffMax) \in Nat
  BY <1>3, ProberAssumption DEF min
<1> QED
  BY <1>4 DEF Backoff, k

\* Taking one element out leaves the others, in their order.
LEMMA EraseType ==
    ASSUME NEW S, NEW s \in Seq(S), NEW i \in DOMAIN s
    PROVE  /\ erase(s, i) \in Seq(S)
           /\ Len(erase(s, i)) = Len(s) - 1
           /\ DOMAIN erase(s, i) = 1..(Len(s) - 1)
           /\ \A j \in 1..(Len(s) - 1) :
                 erase(s, i)[j] = IF j < i THEN s[j] ELSE s[j + 1]
<1>1. Len(s) \in Nat /\ DOMAIN s = 1..Len(s) /\ Len(s) >= 1 /\ Len(s) - 1 \in Nat
  OBVIOUS
<1>2. \A j \in 1..(Len(s) - 1) : s[j] \in S /\ s[j + 1] \in S
  BY <1>1
<1>3. erase(s, i) \in [1..(Len(s) - 1) -> S]
  BY <1>2 DEF erase
<1> QED
  BY <1>1, <1>3 DEF erase

\* One sample raises the prober's and every subscriber's counters alike.
LEMMA SampleCounts ==
    ASSUME TypeOK, NEW got \in BOOLEAN, NEW rtt \in Nat, ApplySample(got, rtt)
    PROVE  /\ sent' \in Nat /\ received' \in Nat /\ dest' \in [Subscribers -> Destination]
           /\ sent' = sent + 1
           /\ received' = IF got THEN received + 1 ELSE received
           /\ \A s \in Subscribers :
                 /\ dest'[s].sent = dest[s].sent + 1
                 /\ dest'[s].received = IF got THEN dest[s].received + 1 ELSE dest[s].received
<1>1. sent' = sent + 1 /\ (received' = IF got THEN received + 1 ELSE received)
      /\ dest' = [s \in Subscribers |-> applySample(dest[s], got, rtt)]
  BY DEF ApplySample
<1>2. sent' \in Nat /\ received' \in Nat
  BY <1>1 DEF TypeOK
<1>3. \A s \in Subscribers : dest[s] \in Destination
  BY DEF TypeOK
<1>4. \A s \in Subscribers : applySample(dest[s], got, rtt) \in Destination
  BY <1>3, ApplySampleType
<1>5. dest' \in [Subscribers -> Destination]
  BY <1>1, <1>4
<1>6. ASSUME NEW s \in Subscribers
      PROVE /\ dest'[s].sent = dest[s].sent + 1
            /\ dest'[s].received = IF got THEN dest[s].received + 1 ELSE dest[s].received
  BY <1>1, <1>3, SampleFields
<1> QED
  BY <1>1, <1>2, <1>5, <1>6

\* A sample for a probe that leaves the queue, or never entered it, keeps the
\* books: one more judged, one less in flight or one more attempted.
LEMMA SampleKeepsJudged ==
    ASSUME TypeOK, JudgedOnce, NEW got \in BOOLEAN, NEW rtt \in Nat, ApplySample(got, rtt),
           Len(inFlight') \in Nat, attempts' \in Nat,
           Len(inFlight') - attempts' = Len(inFlight) - attempts - 1
    PROVE  JudgedOnce'
<1>1. /\ sent' = sent + 1
      /\ received' = IF got THEN received + 1 ELSE received
      /\ \A s \in Subscribers :
            /\ dest'[s].sent = dest[s].sent + 1
            /\ dest'[s].received = IF got THEN dest[s].received + 1 ELSE dest[s].received
  BY SampleCounts
<1>2. sent \in Nat /\ received \in Nat /\ attempts \in Nat /\ Len(inFlight) \in Nat
  BY DEF TypeOK
<1>3. sent' + Len(inFlight') = attempts' /\ received' <= sent'
  BY <1>1, <1>2 DEF JudgedOnce
<1>4. \A s \in Subscribers : dest'[s].sent = sent' /\ dest'[s].received = received'
  BY <1>1, <1>2 DEF JudgedOnce
<1> QED
  BY <1>3, <1>4 DEF JudgedOnce

-----------------------------------------------------------------------------
\* A prober just created, with nothing in flight.
LEMMA IInvInit == Init => IInv
<1> SUFFICES ASSUME Init PROVE IInv
  OBVIOUS
<1> USE ProberAssumption
<1>1. dest \in [Subscribers -> Destination]
      /\ \A s \in Subscribers : dest[s].sent = 0 /\ dest[s].received = 0
  <2>1. \A s \in Subscribers : NewDestination(Settings[s]) \in Destination
    BY NewDestinationType
  <2> QED
    BY <2>1 DEF Init, NewDestination
<1>2. inFlight \in Seq(InFlightProbe) /\ Len(inFlight) = 0 /\ DOMAIN inFlight = {}
  BY DEF Init
<1>3. TypeOK
  <2>1. 0 - Interval \in Int /\ sentAt \in [last: Int, before: Int]
    BY DEF Init
  <2>2. endpoint \in Endpoints \cup {NoEndpoint}
    BY DEF Init
  <2>3. net \in SUBSET Packet /\ resolveFailures \in 0..16
    BY DEF Init
  <2>4. resolving \in BOOLEAN
    BY DEF Init
  <2>5. /\ now \in Nat /\ t \in Nat /\ wakeAt \in Nat /\ sequence \in Nat /\ nextSend \in Nat
        /\ nextResolve \in Nat /\ sent \in Nat /\ received \in Nat /\ attempts \in Nat
        /\ pc = "wait"
    BY DEF Init
  <2> QED
    BY <1>1, <1>2, <2>1, <2>2, <2>3, <2>4, <2>5 DEF TypeOK
<1>4. JudgedOnce
  BY <1>1, <1>2 DEF Init, JudgedOnce
<1>5. InFlightOrdered /\ NothingOverdue
  BY <1>2, MaxInFlightType DEF InFlightOrdered, NothingOverdue
<1>6. Paced /\ ClockSound
  BY <1>2 DEF Init, Paced, ClockSound
<1> QED
  BY <1>3, <1>4, <1>5, <1>6 DEF IInv
-----------------------------------------------------------------------------
(* The step.  Actions that leave the queue and the counters alone share    *)
(* one lemma; the three that touch them get one each.                      *)

\* Nothing but the clock, the phase or the lookup changes.
LEMMA QuietStep ==
    ASSUME IInv,
           UNCHANGED <<inFlight, sendVars, countVars>>,
           now' \in Nat, t' \in Nat, t <= t', t' <= now',
           pc' \in {"wait", "events", "replies", "tick"},
           pc' = "wait" => t' = t /\ pc = "wait",
           wakeAt' \in Nat, nextResolve' \in Nat, resolveFailures' \in 0..16,
           endpoint' \in Endpoints \cup {NoEndpoint}, resolving' \in BOOLEAN
    PROVE  IInv'
<1> USE DEF IInv
<1>1. UNCHANGED <<inFlight, sequence, nextSend, net, attempts, sentAt, sent, received, dest>>
  BY DEF sendVars, countVars
<1>2. TypeOK'
  BY <1>1 DEF TypeOK
<1>3. JudgedOnce' /\ InFlightOrdered' /\ Paced'
  BY <1>1 DEF JudgedOnce, InFlightOrdered, Paced
<1>4. NothingOverdue'
  BY <1>1 DEF NothingOverdue
<1>5. ClockSound'
  <2>1. \A i \in DOMAIN inFlight : inFlight[i] \in InFlightProbe
    BY DEF TypeOK
  <2>2. \A i \in DOMAIN inFlight : inFlight[i].sentAt \in Nat
    BY <2>1 DEF InFlightProbe
  <2>3. t \in Nat /\ t' \in Nat /\ t <= t' /\ t' <= now'
    BY DEF TypeOK
  <2> QED
    BY <1>1, <2>2, <2>3 DEF ClockSound
<1> QED
  BY <1>2, <1>3, <1>4, <1>5

\* An answer takes its probe out of the queue, wherever it stands.
LEMMA ReplyStep ==
    ASSUME IInv, NEW reply \in net, HandleReply(reply)
    PROVE  IInv'
<1> USE DEF IInv
<1>1. pc' = "replies" /\ UNCHANGED <<now, t, wakeAt, sendVars, resolveVars>>
  BY DEF HandleReply
<1>2. UNCHANGED <<sequence, nextSend, net, attempts, sentAt, endpoint, resolving, nextResolve, resolveFailures>>
  BY <1>1 DEF sendVars, resolveVars
<1>3. CASE UNCHANGED <<inFlight, countVars>>
  BY <1>1, <1>2, <1>3, QuietStep DEF TypeOK, ClockSound
<1>4. ASSUME NEW i \in DOMAIN inFlight, inFlight' = erase(inFlight, i),
             ApplySample(TRUE, IF t > reply.sentAt THEN t - reply.sentAt ELSE 0)
      PROVE  IInv'
  <2> DEFINE rtt == IF t > reply.sentAt THEN t - reply.sentAt ELSE 0
  <2>1. rtt \in Nat
    BY DEF TypeOK, Packet
  <2> HIDE DEF rtt
  <2>2. /\ inFlight' \in Seq(InFlightProbe)
        /\ Len(inFlight') = Len(inFlight) - 1
        /\ DOMAIN inFlight' = 1..(Len(inFlight) - 1)
        /\ \A j \in 1..(Len(inFlight) - 1) :
              inFlight'[j] = IF j < i THEN inFlight[j] ELSE inFlight[j + 1]
    BY <1>4, EraseType DEF TypeOK
  <2>3. Len(inFlight) \in Nat /\ DOMAIN inFlight = 1..Len(inFlight) /\ Len(inFlight') \in Nat
    BY <2>2 DEF TypeOK
  <2>4. sent' \in Nat /\ received' \in Nat /\ dest' \in [Subscribers -> Destination]
    BY <1>4, <2>1, SampleCounts DEF rtt
  <2>5. TypeOK'
    BY <1>1, <1>2, <2>2, <2>4 DEF TypeOK
  <2>6. JudgedOnce'
    <3>1. attempts' \in Nat /\ Len(inFlight') - attempts' = Len(inFlight) - attempts - 1
      BY <1>2, <2>2, <2>3 DEF TypeOK
    <3> QED
      BY <1>4, <2>1, <2>3, <3>1, SampleKeepsJudged DEF rtt
  <2>7. ASSUME NEW j \in DOMAIN inFlight'
        PROVE \E k \in DOMAIN inFlight : inFlight'[j] = inFlight[k]
    BY <2>2, <2>3
  <2>8. InFlightOrdered'
    <3>1. ASSUME NEW j \in DOMAIN inFlight', NEW k \in DOMAIN inFlight', j < k
          PROVE  inFlight'[j].seq < inFlight'[k].seq /\ inFlight'[j].deadline <= inFlight'[k].deadline
      <4> DEFINE a == IF j < i THEN j ELSE j + 1
      <4> DEFINE b == IF k < i THEN k ELSE k + 1
      <4>1. a \in DOMAIN inFlight /\ b \in DOMAIN inFlight /\ a < b
        BY <2>2, <2>3, <3>1
      <4>2. inFlight'[j] = inFlight[a] /\ inFlight'[k] = inFlight[b]
        BY <2>2
      <4> HIDE DEF a, b
      <4> QED
        BY <4>1, <4>2 DEF InFlightOrdered
    <3>2. ASSUME NEW j \in DOMAIN inFlight'
          PROVE  inFlight'[j].seq <= sequence' /\ inFlight'[j].deadline = inFlight'[j].sentAt + Timeout
      BY <1>2, <2>7 DEF InFlightOrdered
    <3>3. Len(inFlight') <= maxInFlight
      BY <2>2, <2>3, MaxInFlightType DEF InFlightOrdered
    <3> QED
      BY <3>1, <3>2, <3>3 DEF InFlightOrdered
  <2>9. NothingOverdue' /\ Paced'
    BY <1>1, <1>2 DEF NothingOverdue, Paced
  <2>10. ClockSound'
    BY <1>1, <2>7 DEF ClockSound
  <2> QED
    BY <2>5, <2>6, <2>8, <2>9, <2>10
<1> QED
  BY <1>3, <1>4 DEF HandleReply

\* Giving up takes the oldest probe out of the queue.
LEMMA ExpireStep ==
    ASSUME IInv, ExpireFront
    PROVE  IInv'
<1> USE DEF IInv
<1>1. /\ pc = "tick" /\ inFlight # << >> /\ inFlight' = Tail(inFlight) /\ ApplySample(FALSE, 0)
      /\ UNCHANGED <<now, loopVars, sendVars, resolveVars>>
  BY DEF ExpireFront, Overdue
<1>2. UNCHANGED <<now, pc, t, wakeAt, sequence, nextSend, net, attempts, sentAt, endpoint, resolving,
                  nextResolve, resolveFailures>>
  BY <1>1 DEF loopVars, sendVars, resolveVars
<1>3. /\ inFlight' \in Seq(InFlightProbe) /\ Len(inFlight) \in Nat /\ Len(inFlight) >= 1
      /\ Len(inFlight') = Len(inFlight) - 1 /\ Len(inFlight') \in Nat
      /\ DOMAIN inFlight = 1..Len(inFlight) /\ DOMAIN inFlight' = 1..(Len(inFlight) - 1)
      /\ \A j \in 1..(Len(inFlight) - 1) : inFlight'[j] = inFlight[j + 1]
  BY <1>1 DEF TypeOK
<1>4. \A j \in DOMAIN inFlight' : j + 1 \in DOMAIN inFlight /\ inFlight'[j] = inFlight[j + 1]
  BY <1>3
<1>5. sent' \in Nat /\ received' \in Nat /\ dest' \in [Subscribers -> Destination]
  BY <1>1, SampleCounts
<1>6. TypeOK'
  BY <1>2, <1>3, <1>5 DEF TypeOK
<1>7. JudgedOnce'
  <2>1. attempts' \in Nat /\ Len(inFlight') - attempts' = Len(inFlight) - attempts - 1
    BY <1>2, <1>3 DEF TypeOK
  <2> QED
    BY <1>1, <1>3, <2>1, SampleKeepsJudged
<1>8. InFlightOrdered'
  <2>1. ASSUME NEW j \in DOMAIN inFlight', NEW k \in DOMAIN inFlight', j < k
        PROVE  inFlight'[j].seq < inFlight'[k].seq /\ inFlight'[j].deadline <= inFlight'[k].deadline
    <3>1. j + 1 < k + 1
      BY <1>3, <2>1
    <3> QED
      BY <1>4, <3>1 DEF InFlightOrdered
  <2>2. Len(inFlight') <= maxInFlight
    BY <1>3, MaxInFlightType DEF InFlightOrdered
  <2> QED
    BY <1>2, <1>4, <2>1, <2>2 DEF InFlightOrdered
<1>9. NothingOverdue' /\ Paced' /\ ClockSound'
  BY <1>1, <1>2, <1>4 DEF NothingOverdue, Paced, ClockSound
<1> QED
  BY <1>6, <1>7, <1>8, <1>9

\* What every tick leaves behind, whether or not it sent a probe: the phase,
\* the time and the types of what the loop and the lookup keep.
LEMMA EndOfTick ==
    ASSUME IInv, RequestResolve, EndTick,
           inFlight' \in Seq(InFlightProbe), nextSend' \in Nat
    PROVE  /\ pc' = "wait" /\ UNCHANGED <<now, t, endpoint, nextResolve, resolveFailures>>
           /\ wakeAt' \in Nat /\ resolving' \in BOOLEAN
<1>1. pc' = "wait" /\ UNCHANGED <<now, t, endpoint, nextResolve, resolveFailures>>
  BY DEF EndTick, RequestResolve
<1>2. resolving' \in BOOLEAN
  BY DEF RequestResolve
<1>3. nextResolve' \in Nat
  BY <1>1 DEF IInv, TypeOK
<1>4. wakeAt' = nextDeadline(inFlight', nextSend', nextResolve', resolving')
  BY DEF EndTick
<1>5. wakeAt' \in Nat
  BY <1>2, <1>3, <1>4, NextDeadlineType
<1> QED
  BY <1>1, <1>2, <1>5

\* The front of the queue expires first: if it has time left, all have.
LEMMA NoneOverdue ==
    ASSUME IInv, ~Overdue
    PROVE  \A i \in DOMAIN inFlight : inFlight[i].deadline > t + Slack
<1> SUFFICES ASSUME NEW i \in DOMAIN inFlight
             PROVE  inFlight[i].deadline > t + Slack
  OBVIOUS
<1>1. /\ inFlight # << >> /\ 1 \in DOMAIN inFlight /\ Head(inFlight) = inFlight[1]
      /\ i \in Nat /\ (i = 1 \/ 1 < i)
      /\ inFlight[i] \in InFlightProbe /\ inFlight[1] \in InFlightProbe
  BY DEF IInv, TypeOK
<1>2. inFlight[i].deadline \in Nat /\ inFlight[1].deadline \in Nat
  BY <1>1 DEF InFlightProbe
<1>3. inFlight[1].deadline <= inFlight[i].deadline
  BY <1>1, <1>2 DEF IInv, InFlightOrdered
<1>4. ~(t + Slack >= inFlight[1].deadline)
  BY <1>1 DEF Overdue, Due
<1>5. t \in Nat
  BY DEF IInv, TypeOK
<1> QED
  BY <1>2, <1>3, <1>4, <1>5, ProberAssumption

\* The next probe is scheduled after this one, an interval after the last.
LEMMA ScheduleStep ==
    ASSUME IInv, Schedule
    PROVE  /\ nextSend' \in Nat /\ attempts' \in Nat /\ attempts' = attempts + 1
           /\ sentAt' \in [last: Int, before: Int]
           /\ Paced'
<1>1. /\ t \in Nat /\ nextSend \in Nat /\ attempts \in Nat
      /\ sentAt.last \in Int /\ sentAt.before \in Int
  BY DEF IInv, TypeOK
<1>2. /\ nextSend' = IF nextSend + Interval <= t THEN t + Interval ELSE nextSend + Interval
      /\ attempts' = attempts + 1
      /\ sentAt' = [last |-> t, before |-> sentAt.last]
  BY DEF Schedule
<1>3. nextSend' \in Nat /\ attempts' \in Nat /\ sentAt' \in [last: Int, before: Int]
  BY <1>1, <1>2, ProberAssumption
<1>4. nextSend > sentAt.last
  BY DEF IInv, Paced
<1>5. nextSend' > t /\ nextSend' >= sentAt.last + Interval
  BY <1>1, <1>2, <1>4, ProberAssumption
<1>6. Paced'
  BY <1>2, <1>5 DEF Paced
<1> QED
  BY <1>2, <1>3, <1>6

\* A tick with nothing to send.
LEMMA IdleStep ==
    ASSUME IInv, TickIdle
    PROVE  IInv'
<1> USE DEF IInv
<1>1. /\ ~Overdue /\ RequestResolve /\ EndTick /\ net' = Live(net)
      /\ UNCHANGED <<inFlight, sequence, nextSend, attempts, sentAt, sent, received, dest>>
  BY DEF TickIdle, countVars
<1>2. inFlight' \in Seq(InFlightProbe) /\ nextSend' \in Nat
  BY <1>1 DEF TypeOK
<1>3. /\ pc' = "wait" /\ UNCHANGED <<now, t, endpoint, nextResolve, resolveFailures>>
      /\ wakeAt' \in Nat /\ resolving' \in BOOLEAN
  BY <1>1, <1>2, EndOfTick
<1>4. net' \in SUBSET Packet
  BY <1>1 DEF TypeOK, Live
<1>5. TypeOK'
  BY <1>1, <1>3, <1>4 DEF TypeOK
<1>6. JudgedOnce' /\ InFlightOrdered' /\ Paced' /\ ClockSound'
  BY <1>1, <1>3 DEF JudgedOnce, InFlightOrdered, Paced, ClockSound
<1>7. NothingOverdue'
  BY <1>1, <1>3, NoneOverdue DEF NothingOverdue
<1> QED
  BY <1>5, <1>6, <1>7

\* A tick whose probe is lost at once: it never enters the queue.
LEMMA LostStep ==
    ASSUME IInv, ~Overdue, RequestResolve, SendLost, Schedule, EndTick
    PROVE  IInv'
<1> USE DEF IInv
<1>1. /\ sequence' = IF endpoint \in Sendable THEN sequence + 1 ELSE sequence
      /\ net' = Live(net) /\ ApplySample(FALSE, 0) /\ inFlight' = inFlight
  BY DEF SendLost
<1>2. /\ nextSend' \in Nat /\ attempts' \in Nat /\ attempts' = attempts + 1
      /\ sentAt' \in [last: Int, before: Int] /\ Paced'
  BY ScheduleStep
<1>3. inFlight' \in Seq(InFlightProbe) /\ Len(inFlight') \in Nat
  BY <1>1 DEF TypeOK
<1>4. /\ pc' = "wait" /\ UNCHANGED <<now, t, endpoint, nextResolve, resolveFailures>>
      /\ wakeAt' \in Nat /\ resolving' \in BOOLEAN
  BY <1>2, <1>3, EndOfTick
<1>5. net' \in SUBSET Packet
  BY <1>1 DEF TypeOK, Live
<1>6. sequence' \in Nat /\ sequence \in Nat /\ sequence <= sequence'
  BY <1>1 DEF TypeOK
<1>7. sent' \in Nat /\ received' \in Nat /\ dest' \in [Subscribers -> Destination]
  BY <1>1, SampleCounts
<1>8. TypeOK'
  BY <1>2, <1>3, <1>4, <1>5, <1>6, <1>7 DEF TypeOK
<1>9. JudgedOnce'
  <2>1. Len(inFlight') - attempts' = Len(inFlight) - attempts - 1
    BY <1>1, <1>2, <1>3 DEF TypeOK
  <2> QED
    BY <1>1, <1>2, <1>3, <2>1, SampleKeepsJudged
<1>10. InFlightOrdered'
  <2>1. \A i \in DOMAIN inFlight : inFlight[i] \in InFlightProbe
    BY DEF TypeOK
  <2>2. \A i \in DOMAIN inFlight : inFlight[i].seq \in Nat
    BY <2>1 DEF InFlightProbe
  <2> QED
    BY <1>1, <1>6, <2>2 DEF InFlightOrdered
<1>11. NothingOverdue' /\ ClockSound'
  BY <1>1, <1>4, NoneOverdue DEF NothingOverdue, ClockSound
<1> QED
  BY <1>2, <1>8, <1>9, <1>10, <1>11

\* A tick whose probe leaves: it joins the queue behind all the others.
LEMMA SentStep ==
    ASSUME IInv, ~Overdue, CanSend, RequestResolve, SendSent, Schedule, EndTick
    PROVE  IInv'
<1> USE DEF IInv
<1> DEFINE probe == [seq |-> sequence + 1, sentAt |-> t, deadline |-> t + Timeout]
<1>1. /\ endpoint \in Sendable /\ sequence' = sequence + 1
      /\ inFlight' = Append(inFlight, probe)
      /\ net' = Live(net) \cup {[seq |-> sequence + 1, sentAt |-> t, to |-> endpoint]}
      /\ UNCHANGED <<sent, received, dest>>
  BY DEF SendSent, countVars
<1>2. t \in Nat /\ sequence \in Nat /\ sequence' \in Nat
  BY <1>1 DEF TypeOK
<1>3. probe \in InFlightProbe
  BY <1>2, ProberAssumption DEF InFlightProbe
<1>4. probe.seq = sequence' /\ probe.sentAt = t /\ probe.deadline = t + Timeout
  BY <1>1
<1> HIDE DEF probe
<1>5. /\ nextSend' \in Nat /\ attempts' \in Nat /\ attempts' = attempts + 1
      /\ sentAt' \in [last: Int, before: Int] /\ Paced'
  BY ScheduleStep
<1>6. /\ Len(inFlight) \in Nat /\ Len(inFlight') = Len(inFlight) + 1
      /\ inFlight' \in Seq(InFlightProbe)
      /\ DOMAIN inFlight = 1..Len(inFlight) /\ DOMAIN inFlight' = 1..(Len(inFlight) + 1)
      /\ \A i \in DOMAIN inFlight : inFlight'[i] = inFlight[i]
      /\ inFlight'[Len(inFlight) + 1] = probe
  BY <1>1, <1>3 DEF TypeOK
<1>7. \A i \in DOMAIN inFlight' :
         (i \in DOMAIN inFlight /\ inFlight'[i] = inFlight[i])
         \/ (i = Len(inFlight) + 1 /\ inFlight'[i] = probe)
  BY <1>6
<1>8. /\ pc' = "wait" /\ UNCHANGED <<now, t, endpoint, nextResolve, resolveFailures>>
      /\ wakeAt' \in Nat /\ resolving' \in BOOLEAN
  BY <1>5, <1>6, EndOfTick
<1>9. net' \in SUBSET Packet
  <2>1. [seq |-> sequence + 1, sentAt |-> t, to |-> endpoint] \in Packet
    BY <1>1, <1>2, ProberAssumption DEF Packet
  <2> QED
    BY <1>1, <2>1 DEF TypeOK, Live
<1>10. TypeOK'
  BY <1>1, <1>2, <1>5, <1>6, <1>8, <1>9 DEF TypeOK
<1>11. JudgedOnce'
  BY <1>1, <1>5, <1>6 DEF JudgedOnce, TypeOK
<1>12. \A i \in DOMAIN inFlight : inFlight[i] \in InFlightProbe
  BY DEF TypeOK
<1>13. ASSUME NEW i \in DOMAIN inFlight
       PROVE  /\ inFlight[i].seq \in Nat /\ inFlight[i].deadline \in Nat /\ inFlight[i].sentAt \in Nat
              /\ inFlight[i].seq < probe.seq /\ inFlight[i].deadline <= probe.deadline
              /\ inFlight[i].deadline = inFlight[i].sentAt + Timeout
  <2>1. inFlight[i].seq \in Nat /\ inFlight[i].deadline \in Nat /\ inFlight[i].sentAt \in Nat
    BY <1>12 DEF InFlightProbe
  <2>2. /\ inFlight[i].seq <= sequence /\ inFlight[i].sentAt <= t
        /\ inFlight[i].deadline = inFlight[i].sentAt + Timeout
    BY DEF InFlightOrdered, ClockSound
  <2> QED
    BY <1>1, <1>2, <1>4, <2>1, <2>2, ProberAssumption
<1>14. InFlightOrdered'
  <2>1. ASSUME NEW i \in DOMAIN inFlight', NEW j \in DOMAIN inFlight', i < j
        PROVE  inFlight'[i].seq < inFlight'[j].seq /\ inFlight'[i].deadline <= inFlight'[j].deadline
    <3>1. i \in DOMAIN inFlight /\ inFlight'[i] = inFlight[i]
      BY <1>6, <2>1
    <3>2. CASE j \in DOMAIN inFlight /\ inFlight'[j] = inFlight[j]
      BY <2>1, <3>1, <3>2 DEF InFlightOrdered
    <3>3. CASE inFlight'[j] = probe
      BY <1>13, <3>1, <3>3
    <3> QED
      BY <1>7, <3>2, <3>3
  <2>2. ASSUME NEW i \in DOMAIN inFlight'
        PROVE  inFlight'[i].seq <= sequence' /\ inFlight'[i].deadline = inFlight'[i].sentAt + Timeout
    BY <1>2, <1>4, <1>7, <1>13
  <2>3. Len(inFlight') <= maxInFlight
    BY <1>6, MaxInFlightType DEF CanSend
  <2> QED
    BY <2>1, <2>2, <2>3 DEF InFlightOrdered
<1>15. NothingOverdue'
  <2>1. probe.deadline > t + Slack
    BY <1>2, <1>4, ProberAssumption
  <2> QED
    BY <1>7, <1>8, <2>1, NoneOverdue DEF NothingOverdue
<1>16. ClockSound'
  BY <1>2, <1>4, <1>7, <1>8 DEF ClockSound
<1> QED
  BY <1>5, <1>10, <1>11, <1>14, <1>15, <1>16

\* Every step keeps the invariant.
LEMMA IInvStep == IInv /\ [Next]_vars => IInv'
<1> SUFFICES ASSUME IInv, [Next]_vars PROVE IInv'
  OBVIOUS
<1> USE DEF IInv
<1>1. now \in Nat /\ t \in Nat /\ t <= now
  BY DEF TypeOK, ClockSound
<1>2. CASE Advance
  <2>1. now' = now + 1 /\ UNCHANGED <<loopVars, inFlight, sendVars, resolveVars, countVars>>
    BY <1>2 DEF Advance
  <2>2. UNCHANGED <<pc, t, wakeAt, endpoint, resolving, nextResolve, resolveFailures>>
    BY <2>1 DEF loopVars, resolveVars
  <2>3. now' \in Nat /\ t' \in Nat /\ t <= t' /\ t' <= now'
    BY <1>1, <2>1, <2>2
  <2> QED
    BY <2>1, <2>2, <2>3, QuietStep DEF TypeOK
<1>3. CASE WakeUp \/ BeginTick
  <2>1. /\ pc' \in {"events", "tick"} /\ t' = now
        /\ UNCHANGED <<now, wakeAt, inFlight, sendVars, resolveVars, countVars>>
    BY <1>3 DEF WakeUp, BeginTick
  <2>2. UNCHANGED <<endpoint, resolving, nextResolve, resolveFailures>>
    BY <2>1 DEF resolveVars
  <2>3. now' \in Nat /\ t' \in Nat /\ t <= t' /\ t' <= now'
    BY <1>1, <2>1
  <2> QED
    BY <2>1, <2>2, <2>3, QuietStep DEF TypeOK
<1>4. ASSUME NEW e \in Endpoints, HandleResolved(e)
      PROVE  IInv'
  <2>1. /\ pc = "events" /\ endpoint' = e /\ resolving' = FALSE /\ resolveFailures' = 0
        /\ nextResolve' = t + ResolveTtl
        /\ UNCHANGED <<now, loopVars, inFlight, sendVars, countVars>>
    BY <1>4 DEF HandleResolved
  <2>2. UNCHANGED <<pc, t, wakeAt>>
    BY <2>1 DEF loopVars
  <2>3. resolveFailures' \in 0..16 /\ nextResolve' \in Nat /\ now' \in Nat /\ t' \in Nat /\ t <= t' /\ t' <= now'
    BY <1>1, <2>1, <2>2, ProberAssumption
  <2>4. resolving' \in BOOLEAN
    BY <2>1
  <2> QED
    BY <2>1, <2>2, <2>3, <2>4, QuietStep DEF TypeOK
<1>5. CASE HandleResolveFailure
  <2>1. /\ pc = "events" /\ resolving' = FALSE
        /\ resolveFailures' = min(resolveFailures + 1, 16)
        /\ nextResolve' = t + Backoff(resolveFailures')
        /\ UNCHANGED <<now, loopVars, inFlight, sendVars, endpoint, countVars>>
    BY <1>5 DEF HandleResolveFailure
  <2>2. UNCHANGED <<pc, t, wakeAt>>
    BY <2>1 DEF loopVars
  <2>3. resolveFailures' \in 1..16
    BY <2>1 DEF TypeOK, min
  <2>4. Backoff(resolveFailures') \in Nat
    BY <2>3, BackoffType
  <2>5. nextResolve' \in Nat /\ resolveFailures' \in 0..16 /\ now' \in Nat /\ t' \in Nat /\ t <= t' /\ t' <= now'
    BY <1>1, <2>1, <2>2, <2>3, <2>4
  <2>6. resolving' \in BOOLEAN
    BY <2>1
  <2> QED
    BY <2>1, <2>2, <2>5, <2>6, QuietStep DEF TypeOK
<1>6. ASSUME NEW reply \in net, HandleReply(reply)
      PROVE  IInv'
  BY <1>6, ReplyStep
<1>7. CASE ExpireFront
  BY <1>7, ExpireStep
<1>8. CASE TickIdle
  BY <1>8, IdleStep
<1>9. CASE TickSend
  <2>1. ~Overdue /\ CanSend /\ RequestResolve /\ (SendSent \/ SendLost) /\ Schedule /\ EndTick
    BY <1>9 DEF TickSend
  <2> QED
    BY <2>1, SentStep, LostStep
<1>10. CASE UNCHANGED vars
  <2>1. /\ UNCHANGED <<now, pc, t, wakeAt, endpoint, resolving, nextResolve, resolveFailures>>
        /\ UNCHANGED <<inFlight, sendVars, countVars>>
    BY <1>10 DEF vars, loopVars, resolveVars
  <2> QED
    BY <1>1, <2>1, QuietStep DEF TypeOK
<1> QED
  BY <1>2, <1>3, <1>4, <1>5, <1>6, <1>7, <1>8, <1>9, <1>10 DEF Next, Loop, TimerFires, EventFires

\* The invariant holds in every state the daemon can reach.
LEMMA Invariance == Spec => []IInv
<1> QED
  BY IInvInit, IInvStep, PTL DEF Spec

-----------------------------------------------------------------------------
\* The prober and the loop keep values of their types.
THEOREM ProberTypeCorrect == Spec => []TypeOK
<1>1. IInv => TypeOK
  BY DEF IInv
<1> QED
  BY <1>1, Invariance, PTL

\* Whatever the network and the scheduler do, every probe is judged exactly
\* once and every subscriber hears of it (handleReplies, tick, sendProbe).
THEOREM EveryProbeJudgedOnce == Spec => []JudgedOnce
<1>1. IInv => JudgedOnce
  BY DEF IInv
<1> QED
  BY <1>1, Invariance, PTL

\* The queue of probes in flight stays in the order they were sent and within the
\* ceiling, also when a reply takes one out of its middle (tick, handleReplies).
THEOREM QueueInOrder == Spec => []InFlightOrdered
<1>1. IInv => InFlightOrdered
  BY DEF IInv
<1> QED
  BY <1>1, Invariance, PTL

\* No tick leaves a probe in the queue that has waited too long, though it only
\* ever looks at the front (tick's expiry loop).
THEOREM NothingLeftOverdue == Spec => []NothingOverdue
<1>1. IInv => NothingOverdue
  BY DEF IInv
<1> QED
  BY <1>1, Invariance, PTL

\* However late the loop wakes, it never makes up for missed probes in a burst
\* (tick's resynchronisation of nextSendUs).
THEOREM NoBurst == Spec => NoCatchUpBurst
<1>1. IInv /\ [Next]_vars => [attempts' # attempts => sentAt'.last - sentAt.before >= Interval - Slack]_vars
  <2> SUFFICES ASSUME IInv, [Next]_vars, attempts' # attempts
               PROVE  sentAt'.last - sentAt.before >= Interval - Slack
    OBVIOUS
  <2>1. TickSend
    BY DEF Next, Loop, Advance, TimerFires, EventFires, WakeUp, BeginTick, ExpireFront, TickIdle,
           HandleResolved, HandleResolveFailure, HandleReply, sendVars, vars
  <2>2. Due(nextSend) /\ sentAt' = [last |-> t, before |-> sentAt.last]
    BY <2>1 DEF TickSend, CanSend, Schedule
  <2>3. t \in Nat /\ nextSend \in Nat /\ sentAt.last \in Int /\ sentAt.before \in Int
    BY DEF IInv, TypeOK
  <2>4. t + Slack >= nextSend /\ nextSend >= sentAt.before + Interval /\ sentAt'.last = t
    BY <2>2 DEF Due, IInv, Paced
  <2> QED
    BY <2>3, <2>4, ProberAssumption
<1> QED
  BY <1>1, Invariance, PTL DEF Spec, NoCatchUpBurst
=============================================================================
