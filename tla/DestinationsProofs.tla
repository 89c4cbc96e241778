------------------------- MODULE DestinationsProofs -------------------------
(***************************************************************************)
(* For every set of rows, settings and round-trip times: the types hold,   *)
(* the counters are sound, the streak counts the run it is meant to count, *)
(* and every LED keeps the promise of module Indicator.                    *)
(***************************************************************************)
EXTENDS Destinations, OperatorProofs, TLAPS

USE DestinationsAssumption

-----------------------------------------------------------------------------
(* Types.                                                                  *)

\* Types are preserved by every step (applySample, reloadClients).
LEMMA TypeStep == TypeOK /\ [Next]_vars => TypeOK'
<1> SUFFICES ASSUME TypeOK, [Next]_vars PROVE TypeOK'
  OBVIOUS
<1> USE DEF TypeOK
<1>1. ASSUME NEW r \in Rows, NEW g \in BOOLEAN, NEW rtt \in Nat, Sample(r, g, rtt)
      PROVE TypeOK'
  <2>1. applySample(dest[r], g, rtt) \in Destination
    BY ApplySampleType
  <2>2. dest[r].cfg.threshold \in Nat
    BY DEF Destination, Config
  <2>3. classify(g, rtt, dest[r].cfg.threshold) \in Verdicts
    BY <2>2, ClassifyType
  <2> QED
    BY <1>1, <2>1, <2>3 DEF Sample
<1>2. ASSUME NEW r \in Rows, NEW c \in Configs, ReloadKeep(r, c)
      PROVE TypeOK'
  BY <1>2, CarryOverType DEF ReloadKeep
<1>3. ASSUME NEW r \in Rows, NEW c \in Configs, ReloadReplace(r, c)
      PROVE TypeOK'
  BY <1>3, NewDestinationType DEF ReloadReplace
<1>4. CASE UNCHANGED vars
  BY <1>4 DEF vars
<1> QED
  BY <1>1, <1>2, <1>3, <1>4 DEF Next

\* The variables keep their types in every behaviour of the daemon's evaluation.
THEOREM TypeCorrect == Spec => []TypeOK
<1>1. Init => TypeOK
  BY NewDestinationType DEF Init, TypeOK
<1> QED
  BY <1>1, TypeStep, PTL DEF Spec

-----------------------------------------------------------------------------
(* The inductive invariant: it is one row's business, and a step changes   *)
(* one row.                                                                *)

RowCounters(d, s) ==
    /\ d.received <= d.sent
    /\ d.sent = Len(s)
    /\ d.haveRtt <=> s # << >> /\ s[Len(s)] # "bad"

RowStreak(d, s) ==
    LET n == d.candidateStreak
    IN IF s = << >>
       THEN d.state = "unknown" /\ d.candidate = "unknown" /\ n = 0
       ELSE /\ d.state # "unknown"
            /\ d.candidate = s[Len(s)]
            /\ n = 0 <=> d.candidate = d.state
            /\ n > 0 => /\ n < Len(s)
                        /\ \A i \in (Len(s) - n + 1)..Len(s) : s[i] = d.candidate
                        /\ s[Len(s) - n] # d.candidate

IInv == TypeOK /\ CountersSound /\ StreakIsRun

\* The invariant, row by row.
LEMMA IInvByRow ==
    IInv <=> TypeOK /\ \A r \in Rows : RowCounters(dest[r], samples[r]) /\ RowStreak(dest[r], samples[r])
BY DEF IInv, CountersSound, StreakIsRun, RowCounters, RowStreak

\* A sample raises both counters as it should and shows its time if it has one.
LEMMA SampleKeepsCounters ==
    ASSUME NEW d \in Destination, NEW s \in Seq(Verdicts), NEW g \in BOOLEAN, NEW rtt \in Nat,
           RowCounters(d, s)
    PROVE  RowCounters(applySample(d, g, rtt), Append(s, classify(g, rtt, d.cfg.threshold)))
<1> DEFINE v == classify(g, rtt, d.cfg.threshold)
<1> DEFINE e == applySample(d, g, rtt)
<1>1. d.cfg.threshold \in Nat /\ d.sent \in Nat /\ d.received \in Nat
  BY DEF Destination, Config
<1>2. v \in Verdicts /\ (v # "bad" <=> g)
  BY <1>1, ClassifyType
<1>3. e.haveRtt = g /\ e.sent = d.sent + 1 /\ e.received = IF g THEN d.received + 1 ELSE d.received
  BY SampleFields
<1> HIDE DEF v, e
<1>4. Append(s, v) # << >> /\ Len(Append(s, v)) = Len(s) + 1 /\ Append(s, v)[Len(s) + 1] = v
  BY <1>2
<1>5. e.received <= e.sent /\ e.sent = Len(Append(s, v))
  BY <1>1, <1>3, <1>4 DEF RowCounters
<1>6. RowCounters(e, Append(s, v))
  BY <1>2, <1>3, <1>4, <1>5 DEF RowCounters
<1> QED
  BY <1>6 DEF e, v

\* The heart of the argument: whatever the sample says, the streak it leaves is
\* the run of equal samples at the end of the history.
LEMMA SampleKeepsStreak ==
    ASSUME NEW d \in Destination, NEW s \in Seq(Verdicts), NEW g \in BOOLEAN, NEW rtt \in Nat,
           RowStreak(d, s)
    PROVE  RowStreak(applySample(d, g, rtt), Append(s, classify(g, rtt, d.cfg.threshold)))
<1> DEFINE v == classify(g, rtt, d.cfg.threshold)
<1> DEFINE e == applySample(d, g, rtt)
<1> DEFINE h == Append(s, v)
<1> SUFFICES RowStreak(e, h)
  OBVIOUS
<1>1. d.cfg.threshold \in Nat /\ d.cfg.sensitivity \in Nat /\ d.candidateStreak \in Nat
  BY DEF Destination, Config
<1>2. v \in Verdicts /\ v # "unknown"
  BY <1>1, ClassifyType DEF Verdicts
<1>3. /\ e.state = IF Adopts(d, v) THEN v ELSE d.state
      /\ e.candidate = v
      /\ e.candidateStreak = IF Adopts(d, v) \/ v = d.state THEN 0 ELSE Streak(d, v)
  BY SampleFields
<1> HIDE DEF v, e
<1>4. h # << >> /\ Len(h) = Len(s) + 1 /\ h[Len(h)] = v /\ \A i \in 1..Len(s) : h[i] = s[i]
  BY <1>2
<1> HIDE DEF h
<1>5. CASE Adopts(d, v) \/ v = d.state
  BY <1>2, <1>3, <1>4, <1>5 DEF RowStreak
<1>6. CASE ~(Adopts(d, v) \/ v = d.state)
  <2>1. s # << >> /\ d.state # "unknown" /\ Len(s) \in Nat /\ Len(s) > 0
    BY <1>6 DEF Adopts, RowStreak
  <2>2. e.state = d.state /\ e.candidate = v /\ e.candidateStreak = Streak(d, v) /\ v # d.state
    BY <1>3, <1>6
  <2>3. CASE v = d.candidate
    <3>1. d.candidateStreak > 0 /\ d.candidateStreak < Len(s)
      BY <1>1, <1>6, <2>1, <2>3 DEF RowStreak
    <3>2. e.candidateStreak = d.candidateStreak + 1
      BY <2>2, <2>3 DEF Streak
    <3>3. h[Len(h) - e.candidateStreak] # v
      <4>1. Len(h) - e.candidateStreak = Len(s) - d.candidateStreak
        <5>1. ASSUME NEW a \in Nat, NEW b \in Nat PROVE (a + 1) - (b + 1) = a - b
          OBVIOUS
        <5> QED
          BY <1>1, <1>4, <2>1, <3>2, <5>1
      <4>2. Len(s) - d.candidateStreak \in 1..Len(s)
        BY <1>1, <2>1, <3>1
      <4> QED
        BY <1>4, <2>1, <2>3, <3>1, <4>1, <4>2 DEF RowStreak
    <3>4. ASSUME NEW i \in (Len(h) - e.candidateStreak + 1)..Len(h) PROVE h[i] = v
      <4>1. i = Len(h) \/ i \in (Len(s) - d.candidateStreak + 1)..Len(s)
        BY <1>1, <1>4, <2>1, <3>2
      <4>2. i \in (Len(s) - d.candidateStreak + 1)..Len(s) => i \in 1..Len(s)
        BY <1>1, <2>1, <3>1
      <4> QED
        BY <1>4, <2>1, <2>3, <3>1, <4>1, <4>2 DEF RowStreak
    <3> QED
      BY <1>1, <1>2, <1>4, <2>1, <2>2, <3>1, <3>2, <3>3, <3>4 DEF RowStreak
  <2>4. CASE v # d.candidate
    <3>1. e.candidateStreak = 1
      BY <2>2, <2>4 DEF Streak
    <3>2. h[Len(h) - 1] # v
      BY <1>4, <2>1, <2>4 DEF RowStreak
    <3>3. \A i \in Len(h)..Len(h) : h[i] = v
      BY <1>4, <2>1
    <3>4. Len(h) - 1 + 1 = Len(h) /\ 1 < Len(h)
      BY <1>4, <2>1
    <3> QED
      BY <1>4, <2>1, <2>2, <3>1, <3>2, <3>3, <3>4 DEF RowStreak
  <2> QED
    BY <2>3, <2>4
<1> QED
  BY <1>5, <1>6

\* Rows just read from the configuration.
LEMMA IInvInit == Init => IInv
<1> SUFFICES ASSUME Init PROVE IInv
  OBVIOUS
<1>1. TypeOK
  BY NewDestinationType DEF Init, TypeOK
<1>2. ASSUME NEW r \in Rows PROVE RowCounters(dest[r], samples[r]) /\ RowStreak(dest[r], samples[r])
  <2>1. PICK c \in Configs : dest[r] = NewDestination(c)
    BY DEF Init
  <2>2. samples[r] = << >>
    BY DEF Init
  <2> QED
    BY <2>1, <2>2 DEF NewDestination, RowCounters, RowStreak
<1> QED
  BY <1>1, <1>2, IInvByRow

\* A sample or an edit of any row keeps the invariant of all rows.
LEMMA IInvStep == IInv /\ [Next]_vars => IInv'
<1> SUFFICES ASSUME IInv, [Next]_vars PROVE IInv'
  OBVIOUS
<1> DEFINE RowInv(d, s) == RowCounters(d, s) /\ RowStreak(d, s)
<1>1. TypeOK /\ \A r \in Rows : RowInv(dest[r], samples[r])
  BY IInvByRow
<1>2. TypeOK'
  BY <1>1, TypeStep
<1> HIDE DEF RowInv
<1>3. SUFFICES ASSUME NEW q \in Rows PROVE RowInv(dest'[q], samples'[q])
  BY <1>2 DEF RowInv, IInv, CountersSound, StreakIsRun, RowCounters, RowStreak
<1>4. ASSUME NEW r \in Rows, NEW g \in BOOLEAN, NEW rtt \in Nat, Sample(r, g, rtt)
      PROVE RowInv(dest'[q], samples'[q])
  <2>1. CASE q = r
    <3>1. /\ dest'[q] = applySample(dest[q], g, rtt)
          /\ samples'[q] = Append(samples[q], classify(g, rtt, dest[q].cfg.threshold))
      BY <1>1, <1>4, <2>1 DEF Sample, TypeOK
    <3>2. dest[q] \in Destination /\ samples[q] \in Seq(Verdicts) /\ RowInv(dest[q], samples[q])
      BY <1>1 DEF TypeOK
    <3> QED
      BY <3>1, <3>2, SampleKeepsCounters, SampleKeepsStreak DEF RowInv
  <2>2. CASE q # r
    BY <1>1, <1>4, <2>2 DEF Sample, TypeOK
  <2> QED
    BY <2>1, <2>2
<1>5. ASSUME NEW r \in Rows, NEW c \in Configs, ReloadKeep(r, c)
      PROVE RowInv(dest'[q], samples'[q])
  <2>1. dest[q] \in Destination /\ RowInv(dest[q], samples[q]) /\ samples'[q] = samples[q]
    BY <1>1, <1>5 DEF TypeOK, ReloadKeep
  <2>2. CASE q = r
    <3>1. dest'[q] = [dest[q] EXCEPT !.cfg = c]
      BY <1>1, <1>5, <2>2 DEF ReloadKeep, TypeOK, CarryOver
    <3> QED
      BY <2>1, <3>1 DEF RowInv, RowCounters, RowStreak, Destination
  <2>3. CASE q # r
    BY <1>1, <1>5, <2>1, <2>3 DEF ReloadKeep, TypeOK
  <2> QED
    BY <2>2, <2>3
<1>6. ASSUME NEW r \in Rows, NEW c \in Configs, ReloadReplace(r, c)
      PROVE RowInv(dest'[q], samples'[q])
  <2>1. CASE q = r
    <3>1. dest'[q] = NewDestination(c) /\ samples'[q] = << >>
      BY <1>1, <1>6, <2>1 DEF ReloadReplace, TypeOK
    <3> QED
      BY <3>1 DEF RowInv, NewDestination, RowCounters, RowStreak
  <2>2. CASE q # r
    BY <1>1, <1>6, <2>2 DEF ReloadReplace, TypeOK
  <2> QED
    BY <2>1, <2>2
<1>7. CASE UNCHANGED vars
  BY <1>1, <1>7 DEF vars
<1> QED
  BY <1>4, <1>5, <1>6, <1>7 DEF Next

\* The counters shown are sound after every history of samples and edits.
THEOREM CountersAreSound == Spec => []CountersSound
<1>1. IInv => CountersSound
  BY DEF IInv
<1> QED
  BY <1>1, IInvInit, IInvStep, PTL DEF Spec

\* The streak is the run of agreeing samples it stands for, at all times.
THEOREM StreakIsTheRun == Spec => []StreakIsRun
<1>1. IInv => StreakIsRun
  BY DEF IInv
<1> QED
  BY <1>1, IInvInit, IInvStep, PTL DEF Spec

-----------------------------------------------------------------------------
(* The refinement.  With the streak known to be the run, "the streak       *)
(* exceeds the sensitivity" and "the last sensitivity + 1 samples agree"   *)
(* are the same condition.                                                 *)

AgreeAtEnd(s, n, v) == Len(s) >= n /\ \A i \in (Len(s) - n + 1)..Len(s) : s[i] = v

\* The counter decides what the history says: the LED follows the sample exactly
\* when it is the first or more than `sensitivity' samples in a row agree.
LEMMA AdoptsIsAgreement ==
    ASSUME NEW d \in Destination, NEW s \in Seq(Verdicts), NEW v \in Verdicts, RowStreak(d, s)
    PROVE  (IF Adopts(d, v) THEN v ELSE d.state)
           = (IF d.state = "unknown" \/ AgreeAtEnd(Append(s, v), d.cfg.sensitivity + 1, v)
              THEN v ELSE d.state)
<1> DEFINE h == Append(s, v)
<1> DEFINE n == d.cfg.sensitivity + 1
<1> DEFINE agree == Len(h) >= n /\ \A i \in (Len(h) - n + 1)..Len(h) : h[i] = v
<1> SUFFICES (IF Adopts(d, v) THEN v ELSE d.state)
             = (IF d.state = "unknown" \/ agree THEN v ELSE d.state)
  BY DEF AgreeAtEnd
<1>1. d.cfg.sensitivity \in Nat /\ d.candidateStreak \in Nat
  BY DEF Destination, Config
<1>2. Len(h) = Len(s) + 1 /\ h[Len(h)] = v /\ \A i \in 1..Len(s) : h[i] = s[i]
  OBVIOUS
<1>3. Len(s) \in Nat /\ n \in Nat /\ n > 0 /\ n - 1 = d.cfg.sensitivity
  BY <1>1
<1>4. CASE d.state = "unknown" \/ v = d.state
  BY <1>4 DEF Adopts
<1>5. CASE d.state # "unknown" /\ v # d.state
  <2>1. Len(s) > 0 /\ s # << >>
    BY <1>5 DEF RowStreak
  <2> HIDE DEF h, n
  <2>2. CASE v = d.candidate
    <3>1. d.candidateStreak > 0 /\ d.candidateStreak < Len(s)
      BY <1>1, <1>5, <2>1, <2>2 DEF RowStreak
    <3>2. Adopts(d, v) <=> d.candidateStreak + 1 >= n
      BY <1>1, <1>3, <1>5, <2>2 DEF Adopts, Streak
    <3>3. ASSUME d.candidateStreak + 1 >= n PROVE agree
      <4>1. Len(h) >= n
        BY <1>1, <1>2, <1>3, <3>1, <3>3
      <4>2. ASSUME NEW i \in (Len(h) - n + 1)..Len(h) PROVE h[i] = v
        <5>1. i = Len(h) \/ i \in (Len(s) - d.candidateStreak + 1)..Len(s)
          BY <1>1, <1>2, <1>3, <3>1, <3>3
        <5>2. i \in (Len(s) - d.candidateStreak + 1)..Len(s) => i \in 1..Len(s)
          BY <1>1, <1>3, <3>1
        <5> QED
          BY <1>2, <2>1, <2>2, <3>1, <5>1, <5>2 DEF RowStreak
      <4> QED
        BY <4>1, <4>2
    <3>4. ASSUME ~(d.candidateStreak + 1 >= n) PROVE ~agree
      <4>1. CASE Len(h) >= n
        <5> DEFINE k == Len(s) - d.candidateStreak
        <5>1. k \in 1..Len(s) /\ k \in (Len(h) - n + 1)..Len(h)
          BY <1>1, <1>2, <1>3, <3>1, <3>4, <4>1
        <5>2. s[k] # v
          BY <2>1, <2>2, <3>1 DEF RowStreak
        <5> HIDE DEF k
        <5> QED
          BY <1>2, <5>1, <5>2
      <4> QED
        BY <4>1
    <3> QED
      BY <1>5, <3>2, <3>3, <3>4
  <2>3. CASE v # d.candidate
    <3>1. Adopts(d, v) <=> n = 1
      BY <1>1, <1>3, <1>5, <2>3 DEF Adopts, Streak
    <3>2. n = 1 => agree
      <4>1. \A i \in (Len(h) - 1 + 1)..Len(h) : i = Len(h)
        BY <1>2, <1>3
      <4> QED
        BY <1>2, <1>3, <4>1
    <3>3. ASSUME n # 1 PROVE ~agree
      <4>1. h[Len(s)] # v
        BY <1>2, <1>3, <2>1, <2>3 DEF RowStreak
      <4>2. Len(s) \in (Len(h) - n + 1)..Len(h)
        BY <1>2, <1>3, <2>1, <3>3
      <4> QED
        BY <4>1, <4>2
    <3> QED
      BY <1>5, <3>1, <3>2, <3>3
  <2> QED
    BY <2>2, <2>3
<1> QED
  BY <1>4, <1>5

\* Every step of the daemon is, for every row, a step Indicator allows.
LEMMA LedStep ==
    ASSUME IInv, [Next]_vars, NEW q \in Rows
    PROVE  [Led(q)!Next]_(Led(q)!vars)
<1>1. TypeOK /\ dest[q] \in Destination /\ samples[q] \in Seq(Verdicts) /\ RowStreak(dest[q], samples[q])
  BY IInvByRow DEF TypeOK
<1>2. dest'[q].cfg.sensitivity \in Nat
  <2>1. TypeOK'
    BY <1>1, TypeStep
  <2> QED
    BY <2>1 DEF TypeOK, Destination, Config
<1>3. ASSUME dest'[q] = dest[q], samples'[q] = samples[q] PROVE UNCHANGED Led(q)!vars
  BY <1>3 DEF Led!vars
<1>4. ASSUME NEW r \in Rows, NEW g \in BOOLEAN, NEW rtt \in Nat, Sample(r, g, rtt)
      PROVE [Led(q)!Next]_(Led(q)!vars)
  <2>1. CASE q = r
    <3> DEFINE v == classify(g, rtt, dest[q].cfg.threshold)
    <3>1. /\ dest'[q] = applySample(dest[q], g, rtt)
          /\ samples'[q] = Append(samples[q], v)
      BY <1>1, <1>4, <2>1 DEF Sample, TypeOK
    <3>2. v \in Verdicts
      BY <1>1, ClassifyType DEF Destination, Config
    <3>3. dest'[q].cfg = dest[q].cfg /\ dest'[q].state = IF Adopts(dest[q], v) THEN v ELSE dest[q].state
      BY <1>1, <3>1, SampleFields
    <3> HIDE DEF v
    <3> DEFINE h == samples'[q]
    <3> DEFINE n == dest[q].cfg.sensitivity + 1
    <3>4. (IF Adopts(dest[q], v) THEN v ELSE dest[q].state)
          = (IF dest[q].state = "unknown"
                \/ AgreeAtEnd(Append(samples[q], v), n, v)
             THEN v ELSE dest[q].state)
      BY <1>1, <3>1, <3>2, AdoptsIsAgreement
    <3>5. dest'[q].state = IF dest[q].state = "unknown" \/ Led(q)!LastAgree(h, n, v)
                           THEN v ELSE dest[q].state
      BY <3>1, <3>3, <3>4 DEF Led!LastAgree, AgreeAtEnd
    <3>6. Led(q)!Sample(v)
      BY <3>1, <3>3, <3>5 DEF Led!Sample
    <3> QED
      BY <3>2, <3>6 DEF Led!Next
  <2>2. CASE q # r
    BY <1>1, <1>3, <1>4, <2>2 DEF Sample, TypeOK
  <2> QED
    BY <2>1, <2>2
<1>5. ASSUME NEW r \in Rows, NEW c \in Configs, ReloadKeep(r, c)
      PROVE [Led(q)!Next]_(Led(q)!vars)
  <2>1. dest'[q].state = dest[q].state /\ samples'[q] = samples[q]
    BY <1>1, <1>5 DEF ReloadKeep, TypeOK, CarryOver, Destination
  <2> QED
    BY <1>2, <2>1 DEF Led!Next, Led!Retune
<1>6. ASSUME NEW r \in Rows, NEW c \in Configs, ReloadReplace(r, c)
      PROVE [Led(q)!Next]_(Led(q)!vars)
  <2>1. CASE q = r
    <3>1. dest'[q].state = "unknown" /\ samples'[q] = << >>
      BY <1>1, <1>6, <2>1 DEF ReloadReplace, TypeOK, NewDestination
    <3> QED
      BY <1>2, <3>1 DEF Led!Next, Led!Replace
  <2>2. CASE q # r
    BY <1>1, <1>3, <1>6, <2>2 DEF ReloadReplace, TypeOK
  <2> QED
    BY <2>1, <2>2
<1>7. CASE UNCHANGED vars
  BY <1>3, <1>7 DEF vars
<1> QED
  BY <1>4, <1>5, <1>6, <1>7 DEF Next

\* The hysteresis of applySample, with the state carried over by reloadClients,
\* implements the promise of Indicator for every row: the LED changes exactly
\* when more than `sensitivity' samples in a row agree on another verdict.
THEOREM LedKeepsPromise == Spec => LedPromise
<1>1. Init => \A r \in Rows : Led(r)!Init
  <2> SUFFICES ASSUME Init, NEW r \in Rows PROVE Led(r)!Init
    OBVIOUS
  <2>1. PICK c \in Configs : dest[r] = NewDestination(c)
    BY DEF Init
  <2>2. c.sensitivity \in Nat
    BY DEF Config
  <2> QED
    BY <2>1, <2>2 DEF Init, NewDestination, Led!Init
<1>2. IInv /\ [Next]_vars => [\A r \in Rows : [Led(r)!Next]_(Led(r)!vars)]_vars
  BY LedStep
<1> QED
  BY <1>1, <1>2, IInvInit, IInvStep, PTL DEF Spec, LedPromise

-----------------------------------------------------------------------------
(* The summary.                                                            *)

\* The worst of a set of states is the one that is in it and that no other in it
\* exceeds: severities are all different, so the choice is forced.
LEMMA WorstIsForced ==
    ASSUME Judged \subseteq {"good", "unknown", "warn", "bad"}, NEW s \in Judged,
           \A t \in Judged : Severity[t] <= Severity[s]
    PROVE  WorstState = s
<1> DEFINE worst == CHOOSE x \in Judged : \A t \in Judged : Severity[t] <= Severity[x]
<1>1. worst \in Judged /\ \A t \in Judged : Severity[t] <= Severity[worst]
  OBVIOUS
<1>2. WorstState = worst
  BY DEF WorstState
<1> HIDE DEF worst
<1>3. Severity[worst] <= Severity[s] /\ Severity[s] <= Severity[worst]
  BY <1>1
<1>4. worst = s
  BY <1>1, <1>3 DEF Severity
<1> QED BY <1>2, <1>4

\* The order in which publish asks for the counts is the order of the severities.
LEMMA SummaryIsWorst == TypeOK => WorstStateWins
<1> SUFFICES ASSUME TypeOK PROVE Overall(dest) = WorstState
  BY DEF WorstStateWins
<1>1. \A r \in Rows : Shown(dest[r]) \in {"unknown", "good", "warn", "bad", "offline"}
  BY ShownType DEF TypeOK
<1>2. /\ Judged \subseteq {"good", "unknown", "warn", "bad"}
      /\ \A s \in {"good", "unknown", "warn", "bad"} :
            s \in Judged <=> \E r \in Rows : dest[r].cfg.enabled /\ Shown(dest[r]) = s
      /\ Judged = {} <=> \A r \in Rows : dest[r].cfg.enabled => Shown(dest[r]) = "offline"
  BY <1>1 DEF Judged
<1>3. ASSUME NEW s
      PROVE  /\ CountShown(dest, s) > 0 <=> \E r \in Rows : dest[r].cfg.enabled /\ Shown(dest[r]) = s
             /\ CountShown(dest, s) = 0 <=> ~\E r \in Rows : dest[r].cfg.enabled /\ Shown(dest[r]) = s
             /\ CountEnabled(dest) = CountShown(dest, s)
                   <=> \A r \in Rows : dest[r].cfg.enabled => Shown(dest[r]) = s
  BY Counts DEF TypeOK
<1>4. /\ CountEnabled(dest) = CountShown(dest, "offline") <=> Judged = {}
      /\ CountShown(dest, "bad") > 0 <=> "bad" \in Judged
      /\ CountShown(dest, "warn") > 0 <=> "warn" \in Judged
      /\ CountShown(dest, "unknown") = 0 <=> "unknown" \notin Judged
  BY <1>2, <1>3
<1>5. CASE Judged = {}
  BY <1>4, <1>5 DEF Overall, WorstState
<1>6. CASE Judged # {} /\ "bad" \in Judged
  <2>1. WorstState = "bad"
    BY <1>2, <1>6, WorstIsForced DEF Severity
  <2> QED BY <1>4, <1>6, <2>1 DEF Overall
<1>7. CASE Judged # {} /\ "bad" \notin Judged /\ "warn" \in Judged
  <2>1. WorstState = "warn"
    BY <1>2, <1>7, WorstIsForced DEF Severity
  <2> QED BY <1>4, <1>7, <2>1 DEF Overall
<1>8. CASE Judged # {} /\ "bad" \notin Judged /\ "warn" \notin Judged /\ "unknown" \in Judged
  <2>1. WorstState = "unknown"
    BY <1>2, <1>8, WorstIsForced DEF Severity
  <2> QED BY <1>4, <1>8, <2>1 DEF Overall
<1>9. CASE Judged # {} /\ "bad" \notin Judged /\ "warn" \notin Judged /\ "unknown" \notin Judged
  <2>1. "good" \in Judged
    BY <1>2, <1>9
  <2>2. WorstState = "good"
    BY <1>2, <1>9, <2>1, WorstIsForced DEF Severity
  <2> QED BY <1>4, <1>9, <2>2 DEF Overall
<1> QED BY <1>5, <1>6, <1>7, <1>8, <1>9

\* "Worst state wins" for any finite number of rows, whatever samples and edits
\* brought them where they are, part-time and disabled rows left aside (publish).
THEOREM WorstAlwaysWins == Spec => []WorstStateWins
BY TypeCorrect, SummaryIsWorst, PTL
=============================================================================
