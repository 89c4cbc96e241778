--------------------------- MODULE OperatorProofs ---------------------------
(***************************************************************************)
(* What the operators of modules Health and Encodings return: the lemmas   *)
(* the proofs of Destinations and Prober rest on, and, for every           *)
(* character, every payload and every packet, that what one side encodes   *)
(* is what the other side reads.                                           *)
(***************************************************************************)
EXTENDS Health, Payload, FiniteSetTheorems, SequenceTheorems, WellFoundedInduction, TLAPS

-----------------------------------------------------------------------------
(* Evaluation.                                                             *)

\* A sample is one of the three verdicts, and bad exactly when unanswered.
LEMMA ClassifyType ==
    ASSUME NEW g \in BOOLEAN, NEW rtt \in Nat, NEW th \in Nat
    PROVE  /\ classify(g, rtt, th) \in Verdicts
           /\ classify(g, rtt, th) # "bad" <=> g
BY DEF classify, Verdicts

\* A row read from the configuration is a destination.
LEMMA NewDestinationType ==
    ASSUME NEW c \in Config
    PROVE  NewDestination(c) \in Destination
BY DEF NewDestination, Destination, HealthState

\* An edited row is still a destination.
LEMMA CarryOverType ==
    ASSUME NEW d \in Destination, NEW c \in Config
    PROVE  CarryOver(d, c) \in Destination
BY DEF CarryOver, Destination

\* A destination stays one under every sample.
LEMMA ApplySampleType ==
    ASSUME NEW d \in Destination, NEW g \in BOOLEAN, NEW rtt \in Nat
    PROVE  applySample(d, g, rtt) \in Destination
<1> DEFINE v == classify(g, rtt, d.cfg.threshold)
<1>1. d.cfg.threshold \in Nat
  BY DEF Destination, Config
<1>2. v \in HealthState
  BY <1>1, ClassifyType DEF HealthState
<1>3. Streak(d, v) \in Nat
  BY DEF Streak, Destination
<1> HIDE DEF v
<1>4. applySample(d, g, rtt) =
        [cfg |-> d.cfg, state |-> IF Adopts(d, v) THEN v ELSE d.state, candidate |-> v,
         candidateStreak |-> IF Adopts(d, v) \/ v = d.state THEN 0 ELSE Streak(d, v),
         haveRtt |-> g, rtt |-> IF g THEN rtt ELSE d.rtt, sent |-> d.sent + 1,
         received |-> IF g THEN d.received + 1 ELSE d.received]
  BY DEF applySample, v
<1> QED
  BY <1>2, <1>3, <1>4 DEF Destination

\* The fields a sample leaves behind (applySample).
LEMMA SampleFields ==
    ASSUME NEW d \in Destination, NEW g \in BOOLEAN, NEW rtt \in Nat
    PROVE  LET v == classify(g, rtt, d.cfg.threshold)
               e == applySample(d, g, rtt)
           IN /\ e.cfg = d.cfg
              /\ e.state = IF Adopts(d, v) THEN v ELSE d.state
              /\ e.candidate = v
              /\ e.candidateStreak = IF Adopts(d, v) \/ v = d.state THEN 0 ELSE Streak(d, v)
              /\ e.haveRtt = g
              /\ e.sent = d.sent + 1
              /\ e.received = IF g THEN d.received + 1 ELSE d.received
BY DEF applySample

\* What a destination shows is one of five states (reportedState).
LEMMA ShownType ==
    ASSUME NEW d \in Destination
    PROVE  Shown(d) \in {"unknown", "good", "warn", "bad", "offline"}
BY DEF Shown, reportedState, Destination, HealthState, Verdicts

\* A count is positive exactly when a destination is counted, and as large as the
\* number of enabled ones exactly when all of these are (the counts of publish).
LEMMA Counts ==
    ASSUME NEW R, IsFiniteSet(R), NEW dests \in [R -> Destination], NEW s
    PROVE  /\ CountShown(dests, s) > 0 <=> \E r \in R : dests[r].cfg.enabled /\ Shown(dests[r]) = s
           /\ CountShown(dests, s) = 0 <=> ~\E r \in R : dests[r].cfg.enabled /\ Shown(dests[r]) = s
           /\ CountEnabled(dests) = CountShown(dests, s)
                 <=> \A r \in R : dests[r].cfg.enabled => Shown(dests[r]) = s
<1> DEFINE E == {r \in R : dests[r].cfg.enabled}
           C == {r \in R : dests[r].cfg.enabled /\ Shown(dests[r]) = s}
<1>1. CountShown(dests, s) = Cardinality(C) /\ CountEnabled(dests) = Cardinality(E)
  BY DEF CountShown, CountEnabled
<1>2. IsFiniteSet(E) /\ C \in SUBSET E
  <2>1. E \in SUBSET R /\ C \in SUBSET E
    OBVIOUS
  <2> QED BY <2>1, FS_Subset
<1>3. IsFiniteSet(C) /\ (Cardinality(E) = Cardinality(C) => E = C)
  BY <1>2, FS_Subset
<1>4. Cardinality(C) \in Nat
  BY <1>3, FS_CardinalityType
<1>5. Cardinality(C) = 0 <=> C = {}
  BY <1>3, FS_EmptySet
<1>6. Cardinality(E) = Cardinality(C) <=> E = C
  BY <1>3
<1>7. C = {} <=> ~\E r \in R : dests[r].cfg.enabled /\ Shown(dests[r]) = s
  OBVIOUS
<1>8. E = C <=> \A r \in R : dests[r].cfg.enabled => Shown(dests[r]) = s
  OBVIOUS
<1> HIDE DEF E, C
<1> QED BY <1>1, <1>4, <1>5, <1>6, <1>7, <1>8

-----------------------------------------------------------------------------
(* Characters.                                                             *)

\* Sequences of up to four elements.
LEMMA ShortSequences ==
    ASSUME NEW S, NEW a \in S, NEW b \in S, NEW c \in S, NEW d \in S
    PROVE  /\ <<a>> \in Seq(S) /\ <<a, b>> \in Seq(S)
           /\ <<a, b, c>> \in Seq(S) /\ <<a, b, c, d>> \in Seq(S)
OBVIOUS

\* A text begins with s.
Begins(text, s) == \A k \in 1..Len(s) : text[k] = s[k]

\* What the writer (writeString) makes of a text that begins with the bytes of cp:
\* it takes exactly these, and finds cp.
ReadsBack(cp, text) ==
    /\ Len(appendUtf8(cp)) = 1 + Extra(text[1])
    /\ IF cp < 128 THEN text[1] = cp
       ELSE text[1] >= 128 /\ Extra(text[1]) > 0 /\ IsSequence(text) /\ CodePoint(text) = cp

\* ASCII.
LEMMA OneByte ==
    ASSUME NEW cp \in Nat, cp < 128
    PROVE  /\ appendUtf8(cp) \in Seq(Octet)
           /\ \A text : Begins(text, appendUtf8(cp)) => ReadsBack(cp, text)
<1> DEFINE u == appendUtf8(cp)
<1>1. u = <<cp>> /\ Len(u) = 1 /\ u[1] = cp
  BY Z3 DEF appendUtf8
<1>2. Extra(cp) = 0 /\ cp \in Octet
  BY Z3 DEF Extra, Octet
<1> HIDE DEF u
<1>3. u \in Seq(Octet)
  BY <1>1, <1>2, ShortSequences
<1>4. ASSUME NEW text, Begins(text, u) PROVE ReadsBack(cp, text)
  <2>1. text[1] = cp
    BY <1>1, <1>4, Z3 DEF Begins
  <2> QED BY <1>1, <1>2, <2>1, Z3 DEF ReadsBack, u
<1> QED BY <1>3, <1>4, Z3 DEF u

\* Two bytes.
LEMMA TwoBytes ==
    ASSUME NEW cp \in Nat, 128 <= cp, cp < 2048
    PROVE  /\ appendUtf8(cp) \in Seq(Octet)
           /\ \A text : Begins(text, appendUtf8(cp)) => ReadsBack(cp, text)
<1> DEFINE a == cp \div 64
           t == cp % 64
           u == appendUtf8(cp)
<1>1. /\ a \in Nat /\ a < 32
      /\ t \in Nat /\ t < 64
  BY Z3
<1>2. cp = a * 64 + t
  BY Z3
<1>3. /\ u = <<192 + a, 128 + t>> /\ Len(u) = 2
      /\ u[1] = 192 + a /\ u[2] = 128 + t
  BY Z3 DEF appendUtf8
<1> HIDE DEF a, t, u
<1>4. u \in Seq(Octet)
  <2>1. 192 + a \in Octet /\ 128 + t \in Octet
    BY <1>1, Z3 DEF Octet
  <2> QED BY <1>3, <2>1, ShortSequences
<1>5. ASSUME NEW text, Begins(text, u) PROVE ReadsBack(cp, text)
  <2>1. text[1] = 192 + a /\ text[2] = 128 + t
    BY <1>3, <1>5, Z3 DEF Begins
  <2>2. Extra(text[1]) = 1 /\ Lead(text[1]) = a /\ text[1] >= 128
    BY <1>1, <2>1, Z3 DEF Extra, Lead
  <2>3. /\ IsContinuation(text[2]) /\ text[2] % 64 = t
    BY <1>1, <2>1, Z3 DEF IsContinuation
  <2>4. CodePoint(text) = a * 64 + t
    BY <2>2, <2>3, Z3 DEF CodePoint
  <2>5. IsSequence(text)
    BY <2>2, <2>3, Z3 DEF IsSequence
  <2> QED BY <1>2, <1>3, <2>2, <2>4, <2>5, Z3 DEF ReadsBack, u
<1> QED BY <1>4, <1>5, Z3 DEF u

\* Three bytes, a surrogate on its own among them.
LEMMA ThreeBytes ==
    ASSUME NEW cp \in Nat, 2048 <= cp, cp < 65536
    PROVE  /\ appendUtf8(cp) \in Seq(Octet)
           /\ \A text : Begins(text, appendUtf8(cp)) => ReadsBack(cp, text)
<1> DEFINE a == cp \div 4096
           r == (cp \div 64) % 64
           t == cp % 64
           u == appendUtf8(cp)
<1>1. /\ a \in Nat /\ a < 16
      /\ r \in Nat /\ r < 64 /\ t \in Nat /\ t < 64
  BY Z3
<1>2. cp = (a * 64 + r) * 64 + t
  BY Z3
<1>3. /\ u = <<224 + a, 128 + r, 128 + t>> /\ Len(u) = 3
      /\ u[1] = 224 + a /\ u[2] = 128 + r /\ u[3] = 128 + t
  BY Z3 DEF appendUtf8
<1> HIDE DEF a, r, t, u
<1>4. u \in Seq(Octet)
  <2>1. 224 + a \in Octet /\ 128 + r \in Octet /\ 128 + t \in Octet
    BY <1>1, Z3 DEF Octet
  <2> QED BY <1>3, <2>1, ShortSequences
<1>5. ASSUME NEW text, Begins(text, u) PROVE ReadsBack(cp, text)
  <2>1. text[1] = 224 + a /\ text[2] = 128 + r /\ text[3] = 128 + t
    BY <1>3, <1>5, Z3 DEF Begins
  <2>2. Extra(text[1]) = 2 /\ Lead(text[1]) = a /\ text[1] >= 128
    BY <1>1, <2>1, Z3 DEF Extra, Lead
  <2>3. /\ IsContinuation(text[2]) /\ text[2] % 64 = r
        /\ IsContinuation(text[3]) /\ text[3] % 64 = t
    BY <1>1, <2>1, Z3 DEF IsContinuation
  <2>4. CodePoint(text) = (a * 64 + r) * 64 + t
    BY <2>2, <2>3, Z3 DEF CodePoint
  <2>5. IsSequence(text)
    BY <2>2, <2>3, Z3 DEF IsSequence
  <2> QED BY <1>2, <1>3, <2>2, <2>4, <2>5, Z3 DEF ReadsBack, u
<1> QED BY <1>4, <1>5, Z3 DEF u

\* Four bytes.
LEMMA FourBytes ==
    ASSUME NEW cp \in Nat, 65536 <= cp, cp < 1114112
    PROVE  /\ appendUtf8(cp) \in Seq(Octet)
           /\ \A text : Begins(text, appendUtf8(cp)) => ReadsBack(cp, text)
<1> DEFINE a == cp \div 262144
           q == (cp \div 4096) % 64
           r == (cp \div 64) % 64
           t == cp % 64
           u == appendUtf8(cp)
<1>1. /\ a \in Nat /\ a < 5
      /\ q \in Nat /\ q < 64 /\ r \in Nat /\ r < 64 /\ t \in Nat /\ t < 64
  BY Z3
<1>2. cp = ((a * 64 + q) * 64 + r) * 64 + t
  BY Z3
<1>3. /\ u = <<240 + a, 128 + q, 128 + r, 128 + t>> /\ Len(u) = 4
      /\ u[1] = 240 + a /\ u[2] = 128 + q /\ u[3] = 128 + r /\ u[4] = 128 + t
  BY Z3 DEF appendUtf8
<1> HIDE DEF a, q, r, t, u
<1>4. u \in Seq(Octet)
  <2>1. 240 + a \in Octet /\ 128 + q \in Octet /\ 128 + r \in Octet /\ 128 + t \in Octet
    BY <1>1, Z3 DEF Octet
  <2> QED BY <1>3, <2>1, ShortSequences
<1>5. ASSUME NEW text, Begins(text, u) PROVE ReadsBack(cp, text)
  <2>1. text[1] = 240 + a /\ text[2] = 128 + q /\ text[3] = 128 + r /\ text[4] = 128 + t
    BY <1>3, <1>5, Z3 DEF Begins
  <2>2. Extra(text[1]) = 3 /\ Lead(text[1]) = a /\ text[1] >= 128
    BY <1>1, <2>1, Z3 DEF Extra, Lead
  <2>3. /\ IsContinuation(text[2]) /\ text[2] % 64 = q
        /\ IsContinuation(text[3]) /\ text[3] % 64 = r
        /\ IsContinuation(text[4]) /\ text[4] % 64 = t
    BY <1>1, <2>1, Z3 DEF IsContinuation
  <2>4. CodePoint(text) = ((a * 64 + q) * 64 + r) * 64 + t
    BY <2>2, <2>3, Z3 DEF CodePoint
  <2>5. IsSequence(text)
    BY <2>2, <2>3, Z3 DEF IsSequence
  <2> QED BY <1>2, <1>3, <2>2, <2>4, <2>5, Z3 DEF ReadsBack, u
<1> QED BY <1>4, <1>5, Z3 DEF u

\* For every code point, surrogates on their own included, and whatever follows it in
\* the text: what appendUtf8 made of it, writeString takes for one character, the same
\* one, and never for a stray byte or a part of another (json.hpp).
THEOREM CharactersSurvive ==
    ASSUME NEW cp \in Nat, cp < 1114112, NEW rest \in Seq(Octet)
    PROVE  appendUtf8(cp) \in Seq(Octet) /\ ReadsBack(cp, appendUtf8(cp) \o rest)
<1> DEFINE u == appendUtf8(cp)
<1>1. /\ u \in Seq(Octet)
      /\ \A text : Begins(text, u) => ReadsBack(cp, text)
  <2>1. CASE cp < 128
    BY <2>1, OneByte, Z3
  <2>2. CASE 128 <= cp /\ cp < 2048
    BY <2>2, TwoBytes, Z3
  <2>3. CASE 2048 <= cp /\ cp < 65536
    BY <2>3, ThreeBytes, Z3
  <2>4. CASE 65536 <= cp
    BY <2>4, FourBytes, Z3
  <2> QED BY <2>1, <2>2, <2>3, <2>4, Z3
<1> HIDE DEF u
<1>2. Begins(u \o rest, u)
  <2>1. /\ Len(u) \in Nat /\ Len(rest) \in Nat
        /\ \A i \in 1..(Len(u) + Len(rest)) :
              (u \o rest)[i] = IF i <= Len(u) THEN u[i] ELSE rest[i - Len(u)]
    BY <1>1, ConcatProperties, LenProperties
  <2> QED BY <2>1 DEF Begins
<1>3. ReadsBack(cp, u \o rest)
  BY <1>1, <1>2
<1> QED BY <1>1, <1>3 DEF u

\* Two escapes the parser joined (parseString) are written as the same two
\* (writeEscapedCodePoint), for every pair of surrogates.
THEOREM PairsSurvive ==
    ASSUME NEW high \in Nat, NEW low \in Nat, IsHigh(high), IsLow(low)
    PROVE  /\ Paired(high, low) \in Nat /\ Paired(high, low) < 1114112
           /\ writeEscapedCodePoint(Paired(high, low)) = << Escape(high), Escape(low) >>
BY Z3 DEF Paired, IsHigh, IsLow, writeEscapedCodePoint, Escape

-----------------------------------------------------------------------------
(* base64.                                                                 *)

\* What three bytes make, as a number.
IsTriple(T) == T \in Nat /\ T < 16777216

\* Four symbols hold what three bytes hold.
HoldsTriple(T) ==
    /\ Sextet(T, 0) \in Nat /\ Sextet(T, 0) < 64 /\ Sextet(T, 1) \in Nat /\ Sextet(T, 1) < 64
    /\ Sextet(T, 2) \in Nat /\ Sextet(T, 2) < 64 /\ Sextet(T, 3) \in Nat /\ Sextet(T, 3) < 64
    /\ T = Sextet(T, 0) * 262144 + Sextet(T, 1) * 4096 + Sextet(T, 2) * 64 + Sextet(T, 3)
    /\ T % 256 = 0 => Sextet(T, 3) = 0
    /\ T % 65536 = 0 => Sextet(T, 2) = 0 /\ Sextet(T, 3) = 0

\* So do the symbols base64Encode takes from a triple.
LEMMA Sextets ==
    ASSUME NEW T, IsTriple(T)
    PROVE  HoldsTriple(T)
<1>0. T \in Nat /\ T < 16777216
  BY DEF IsTriple
<1>1. /\ Sextet(T, 0) = T \div 262144 /\ Sextet(T, 1) = (T \div 4096) % 64
      /\ Sextet(T, 2) = (T \div 64) % 64 /\ Sextet(T, 3) = T % 64
  BY Z3 DEF Sextet
<1>2. /\ Sextet(T, 0) \in Nat /\ Sextet(T, 0) < 64 /\ Sextet(T, 1) \in Nat /\ Sextet(T, 1) < 64
      /\ Sextet(T, 2) \in Nat /\ Sextet(T, 2) < 64 /\ Sextet(T, 3) \in Nat /\ Sextet(T, 3) < 64
  BY <1>0, <1>1, Z3
<1>3. T = Sextet(T, 0) * 262144 + Sextet(T, 1) * 4096 + Sextet(T, 2) * 64 + Sextet(T, 3)
  <2> DEFINE x == T \div 64
             y == T \div 4096
             z == T \div 262144
  <2>1. T = 64 * x + (T % 64) /\ x \in Nat
    BY <1>0, Z3
  <2>2. x = 64 * y + (x % 64) /\ y \in Nat
    BY <1>0, Z3
  <2>3. y = 64 * z + (y % 64) /\ z \in Nat
    BY <1>0, Z3
  <2> DEFINE u == T % 64
             v == x % 64
             w == y % 64
  <2>4. u \in Nat /\ v \in Nat /\ w \in Nat
    BY <1>0, Z3
  <2> HIDE DEF x, y, z, u, v, w
  <2>5. T = z * 262144 + w * 4096 + v * 64 + u
    BY <2>1, <2>2, <2>3, <2>4, Z3 DEF u, v, w
  <2> QED BY <1>1, <2>5, Z3 DEF x, y, z, u, v, w
<1>4. T % 256 = 0 => Sextet(T, 3) = 0
  BY <1>0, <1>1, Z3
<1>5. T % 65536 = 0 => Sextet(T, 2) = 0 /\ Sextet(T, 3) = 0
  BY <1>0, <1>1, Z3
<1> QED BY <1>2, <1>3, <1>4, <1>5, Z3 DEF HoldsTriple

\* The groups of a text, and the bytes in the one after the first i.
LEMMA Groups ==
    ASSUME NEW data \in Seq(Octet), NEW G, G = (Len(data) + 2) \div 3
    PROVE  /\ Len(data) \in Nat /\ G \in Nat
           /\ 3 * G <= Len(data) + 2 /\ Len(data) <= 3 * G
           /\ \A i \in 1..Len(data) : data[i] \in Nat /\ data[i] < 256
<1>1. Len(data) \in Nat /\ \A i \in 1..Len(data) : data[i] \in Octet
  BY LenProperties, ElementOfSeq
<1>2. \A i \in 1..Len(data) : data[i] \in Nat /\ data[i] < 256
  BY <1>1 DEF Octet
<1> QED BY <1>1, <1>2, Z3

\* What the three bytes b, c, d and the number T they make say of each other.
MadeOf(T, b, c, d) ==
    /\ T \div 65536 = b /\ (T \div 256) % 256 = c /\ T % 256 = d
    /\ c = 0 /\ d = 0 => T % 65536 = 0

\* A triple is made of its bytes, the missing ones being zeros.
LEMMA TripleBytes ==
    ASSUME NEW data \in Seq(Octet), NEW i \in Nat
    PROVE  /\ IsTriple(Triple(data, i))
           /\ MadeOf(Triple(data, i), ByteAt(data, i + 1), ByteAt(data, i + 2), ByteAt(data, i + 3))
<1> DEFINE n == Len(data)
           b == ByteAt(data, i + 1)
           c == ByteAt(data, i + 2)
           d == ByteAt(data, i + 3)
           T == Triple(data, i)
<1>1. n \in Nat /\ \A k \in 1..n : data[k] \in Nat /\ data[k] < 256
  BY Groups
<1>2. \A k \in Nat \ {0} : ByteAt(data, k) \in Nat /\ ByteAt(data, k) < 256
  BY <1>1, Z3 DEF ByteAt
<1>3. b \in Nat /\ b < 256 /\ c \in Nat /\ c < 256 /\ d \in Nat /\ d < 256
  <2>1. i + 1 \in Nat \ {0} /\ i + 2 \in Nat \ {0} /\ i + 3 \in Nat \ {0}
    BY Z3
  <2> QED BY <1>2, <2>1
<1>4. T = b * 65536 + c * 256 + d
  BY Z3 DEF Triple
<1> HIDE DEF b, c, d, T
<1>5. IsTriple(T)
  BY <1>3, <1>4, Z3 DEF IsTriple
<1>6. T \div 65536 = b
  BY <1>3, <1>4, Z3
<1>7. T \div 256 = b * 256 + c
  BY <1>3, <1>4, Z3
<1>8. (b * 256 + c) % 256 = c
  BY <1>3, Z3
<1>9. T % 256 = d
  BY <1>3, <1>4, Z3
<1>10. c = 0 /\ d = 0 => T % 65536 = 0
  BY <1>3, <1>4, Z3
<1>11. MadeOf(T, b, c, d)
  BY <1>6, <1>7, <1>8, <1>9, <1>10, Z3 DEF MadeOf
<1> QED BY <1>5, <1>11 DEF b, c, d, T

\* The encoder's output, symbol by symbol: symbol j of group g.
LEMMA Encoded ==
    ASSUME NEW data \in Seq(Octet), NEW G, G = (Len(data) + 2) \div 3
    PROVE  /\ Len(base64Encode(data)) = 4 * G
           /\ DOMAIN base64Encode(data) = 1..(4 * G)
           /\ \A g \in Nat, j \in 0..3 : g < G =>
                 base64Encode(data)[4 * g + j + 1] =
                    IF 3 * g + j > Len(data) THEN 64 ELSE Sextet(Triple(data, 3 * g), j)
<1> DEFINE n == Len(data)
           code == base64Encode(data)
           e(k) == IF Pads(data, 3 * ((k - 1) \div 4), (k - 1) % 4) THEN 64
                   ELSE Sextet(Triple(data, 3 * ((k - 1) \div 4)), (k - 1) % 4)
<1>1. n \in Nat /\ G \in Nat
  BY Groups
<1>2. code = [k \in 1..(4 * G) |-> e(k)]
  BY DEF base64Encode
<1> HIDE DEF code
<1>3. 4 * G \in Nat
  BY <1>1, Z3
<1>4. Len(code) = 4 * G /\ DOMAIN code = 1..(4 * G)
  <2> DEFINE m == 4 * G
             S == {e(k) : k \in 1..m}
  <2>1. m \in Nat /\ code = [k \in 1..m |-> e(k)]
    BY <1>2, <1>3
  <2> HIDE DEF m
  <2>2. \A k \in 1..m : e(k) \in S
    OBVIOUS
  <2> HIDE DEF e, S
  <2>3. code \in [1..m -> S] /\ DOMAIN code = 1..m
    BY <2>1, <2>2
  <2>4. code \in Seq(S) /\ Len(code) = m
    BY <2>1, <2>3
  <2> QED BY <2>3, <2>4 DEF m
<1>5. ASSUME NEW g \in Nat, NEW j \in 0..3, g < G
      PROVE  code[4 * g + j + 1] = IF 3 * g + j > n THEN 64 ELSE Sextet(Triple(data, 3 * g), j)
  <2> DEFINE k == 4 * g + j + 1
  <2>1. k \in 1..(4 * G) /\ (k - 1) \div 4 = g /\ (k - 1) % 4 = j
    BY <1>1, <1>5, Z3
  <2>2. code[k] = e(k)
    BY <1>2, <2>1
  <2> HIDE DEF k
  <2>3. e(k) = IF Pads(data, 3 * g, j) THEN 64 ELSE Sextet(Triple(data, 3 * g), j)
    BY <2>1
  <2> QED BY <2>2, <2>3 DEF k, Pads
<1> QED BY <1>4, <1>5 DEF code

\* A decoder finds the three bytes of every group again, padded or not.
LEMMA GroupDecodes ==
    ASSUME NEW data \in Seq(Octet), NEW g \in Nat, 3 * g < Len(data)
    PROVE  Bits(base64Encode(data), g) = Triple(data, 3 * g)
<1> DEFINE n == Len(data)
           G == (n + 2) \div 3
           code == base64Encode(data)
           T == Triple(data, 3 * g)
<1>1. n \in Nat /\ G \in Nat /\ 3 * G <= n + 2 /\ n <= 3 * G
  BY Groups
<1>2. g < G
  BY <1>1, Z3
<1>3. 3 * g \in Nat
  BY Z3
<1> DEFINE b == ByteAt(data, 3 * g + 1)
           c == ByteAt(data, 3 * g + 2)
           d == ByteAt(data, 3 * g + 3)
<1>4. HoldsTriple(T) /\ MadeOf(T, b, c, d)
  BY <1>3, TripleBytes, Sextets
<1> HIDE DEF G, code, T
<1>5. /\ code[4 * g + 1] = IF 3 * g + 0 > n THEN 64 ELSE Sextet(T, 0)
      /\ code[4 * g + 2] = IF 3 * g + 1 > n THEN 64 ELSE Sextet(T, 1)
      /\ code[4 * g + 3] = IF 3 * g + 2 > n THEN 64 ELSE Sextet(T, 2)
      /\ code[4 * g + 4] = IF 3 * g + 3 > n THEN 64 ELSE Sextet(T, 3)
  <2>1. \A j \in 0..3 : code[4 * g + j + 1] = IF 3 * g + j > n THEN 64 ELSE Sextet(T, j)
    BY <1>2, Encoded DEF G, code, T
  <2>2. 4 * g + 0 + 1 = 4 * g + 1 /\ 4 * g + 1 + 1 = 4 * g + 2 /\ 4 * g + 2 + 1 = 4 * g + 3
        /\ 4 * g + 3 + 1 = 4 * g + 4
    BY Z3
  <2>3. 0 \in 0..3 /\ 1 \in 0..3 /\ 2 \in 0..3 /\ 3 \in 0..3
    OBVIOUS
  <2> QED BY <2>1, <2>2, <2>3
<1> DEFINE p == Sextet(T, 0)
           q == Sextet(T, 1)
           r == Sextet(T, 2)
           t == Sextet(T, 3)
<1>6. /\ p \in Nat /\ p < 64 /\ q \in Nat /\ q < 64 /\ r \in Nat /\ r < 64 /\ t \in Nat /\ t < 64
      /\ T = p * 262144 + q * 4096 + r * 64 + t
      /\ T % 256 = 0 => t = 0
      /\ T % 65536 = 0 => r = 0 /\ t = 0
  BY <1>4, Z3 DEF HoldsTriple
<1> HIDE DEF p, q, r, t
<1>7. code[4 * g + 1] % 64 = p /\ code[4 * g + 2] % 64 = q
  <2>1. ~(3 * g + 0 > n) /\ ~(3 * g + 1 > n)
    BY <1>1, Z3
  <2>2. code[4 * g + 1] = p /\ code[4 * g + 2] = q
    BY <1>5, <2>1 DEF p, q
  <2> QED BY <1>6, <2>2, Z3
<1>8. code[4 * g + 3] % 64 = r
  <2>1. CASE 3 * g + 2 > n
    <3>1. ~(3 * g + 2 <= n) /\ ~(3 * g + 3 <= n)
      BY <1>1, <2>1, Z3
    <3>2. c = 0 /\ d = 0
      BY <3>1 DEF ByteAt
    <3>3. T % 65536 = 0
      BY <1>4, <3>2, Z3 DEF MadeOf
    <3>4. code[4 * g + 3] = 64 /\ r = 0
      BY <1>5, <1>6, <2>1, <3>3, Z3
    <3> QED BY <3>4, Z3
  <2>2. CASE ~(3 * g + 2 > n)
    <3>1. code[4 * g + 3] = r
      BY <1>5, <2>2 DEF r
    <3> QED BY <1>6, <3>1, Z3
  <2> QED BY <2>1, <2>2
<1>9. code[4 * g + 4] % 64 = t
  <2>1. CASE 3 * g + 3 > n
    <3>1. ~(3 * g + 3 <= n)
      BY <1>1, <2>1, Z3
    <3>2. d = 0
      BY <3>1 DEF ByteAt
    <3>3. T % 256 = 0
      BY <1>4, <3>2, Z3 DEF MadeOf
    <3>4. code[4 * g + 4] = 64 /\ t = 0
      BY <1>5, <1>6, <2>1, <3>3, Z3
    <3> QED BY <3>4, Z3
  <2>2. CASE ~(3 * g + 3 > n)
    <3>1. code[4 * g + 4] = t
      BY <1>5, <2>2 DEF t
    <3> QED BY <1>6, <3>1, Z3
  <2> QED BY <2>1, <2>2
<1> QED BY <1>6, <1>7, <1>8, <1>9, Z3 DEF Bits, code, T

\* The padding is as long as what the last group lacks.
LEMMA PaddingOf ==
    ASSUME NEW data \in Seq(Octet)
    PROVE  Padding(base64Encode(data)) = 3 * ((Len(data) + 2) \div 3) - Len(data)
<1> DEFINE n == Len(data)
           G == (n + 2) \div 3
           code == base64Encode(data)
<1>1. n \in Nat /\ G \in Nat /\ 3 * G <= n + 2 /\ n <= 3 * G
  BY Groups
<1>2. /\ Len(code) = 4 * G /\ DOMAIN code = 1..(4 * G)
      /\ \A g \in Nat, j \in 0..3 : g < G =>
            code[4 * g + j + 1] = IF 3 * g + j > n THEN 64 ELSE Sextet(Triple(data, 3 * g), j)
  BY Encoded
<1> HIDE DEF G, code
<1>3. CASE G = 0
  <2>1. code = << >>
    BY <1>2, <1>3
  <2>2. n = 0
    BY <1>1, <1>3, Z3
  <2> QED BY <1>3, <2>1, <2>2, Z3 DEF Padding, G, code
<1>4. CASE G # 0
  <2> DEFINE g == G - 1
             T == Triple(data, 3 * g)
  <2>1. g \in Nat /\ g < G /\ 3 * g < n /\ 3 * g \in Nat
    BY <1>1, <1>4, Z3
  <2>2. HoldsTriple(T)
    BY <2>1, TripleBytes, Sextets
  <2> HIDE DEF g, T
  <2>3. Sextet(T, 2) # 64 /\ Sextet(T, 3) # 64
    BY <2>2, Z3 DEF HoldsTriple
  <2>4. /\ code[4 * g + 2 + 1] = IF 3 * g + 2 > n THEN 64 ELSE Sextet(T, 2)
        /\ code[4 * g + 3 + 1] = IF 3 * g + 3 > n THEN 64 ELSE Sextet(T, 3)
    <3>1. 2 \in 0..3 /\ 3 \in 0..3
      OBVIOUS
    <3> QED BY <1>2, <2>1, <3>1 DEF T
  <2>5. 4 * g + 2 + 1 = 4 * G - 1 /\ 4 * g + 3 + 1 = 4 * G
        /\ (3 * g + 2 > n <=> 3 * G - n > 1) /\ (3 * g + 3 > n <=> 3 * G - n > 0)
    BY <1>1, Z3 DEF g
  <2>6. /\ code[4 * G - 1] = 64 <=> 3 * G - n > 1
        /\ code[4 * G] = 64 <=> 3 * G - n > 0
    BY <2>3, <2>4, <2>5
  <2>7. code # << >>
    BY <1>1, <1>2, <1>4
  <2>8. Padding(code) = IF 3 * G - n > 1 THEN 2 ELSE IF 3 * G - n > 0 THEN 1 ELSE 0
    BY <1>2, <2>6, <2>7 DEF Padding
  <2>9. Padding(code) = 3 * G - n
    BY <1>1, <2>8, Z3
  <2> QED BY <2>9 DEF G, code
<1> QED BY <1>3, <1>4

\* For every sequence of bytes: base64Encode produces groups of four symbols, padded at
\* the end of the last and nowhere else (util.cpp).
LEMMA PayloadReadable == \A data \in Seq(Octet) : Readable(base64Encode(data))
<1> SUFFICES ASSUME NEW data \in Seq(Octet) PROVE Readable(base64Encode(data))
  OBVIOUS
<1> DEFINE n == Len(data)
           G == (n + 2) \div 3
           code == base64Encode(data)
<1>1. n \in Nat /\ G \in Nat /\ 3 * G <= n + 2 /\ n <= 3 * G
  BY Groups
<1>2. /\ Len(code) = 4 * G
      /\ \A g \in Nat, j \in 0..3 : g < G =>
            code[4 * g + j + 1] = IF 3 * g + j > n THEN 64 ELSE Sextet(Triple(data, 3 * g), j)
  BY Encoded
<1>3. Padding(code) = 3 * G - n
  BY PaddingOf
<1> HIDE DEF G, code
<1>4. Len(code) % 4 = 0
  BY <1>1, <1>2, Z3
<1>5. ASSUME NEW k \in 1..Len(code)
      PROVE  code[k] < 64 \/ (code[k] = 64 /\ k > Len(code) - Padding(code))
  <2> DEFINE g == (k - 1) \div 4
             j == (k - 1) % 4
             T == Triple(data, 3 * g)
  <2>1. g \in Nat /\ j \in 0..3 /\ g < G /\ k = 4 * g + j + 1 /\ 3 * g < n /\ 3 * g \in Nat
    <3>1. k \in Nat /\ 1 <= k /\ k <= 4 * G
      BY <1>1, <1>2, Z3
    <3>2. g \in Nat /\ j \in Nat /\ j < 4 /\ k = 4 * g + j + 1
      BY <3>1, Z3
    <3> HIDE DEF g, j
    <3>3. g < G
      BY <1>1, <3>1, <3>2, Z3
    <3>4. 3 * g < n /\ 3 * g \in Nat
      BY <1>1, <3>2, <3>3, Z3
    <3> QED BY <3>2, <3>3, <3>4
  <2> HIDE DEF g, j
  <2>2. code[k] = IF 3 * g + j > n THEN 64 ELSE Sextet(T, j)
    BY <1>2, <2>1
  <2>3. CASE 3 * g + j > n
    <3>1. code[k] = 64
      BY <2>2, <2>3
    <3>2. k > 4 * G - (3 * G - n)
      BY <1>1, <2>1, <2>3, Z3
    <3> QED BY <1>2, <1>3, <3>1, <3>2
  <2>4. CASE ~(3 * g + j > n)
    <3>1. HoldsTriple(T)
      BY <2>1, TripleBytes, Sextets
    <3>2. Sextet(T, j) < 64
      <4>1. j = 0 \/ j = 1 \/ j = 2 \/ j = 3
        BY <2>1
      <4>2. Sextet(T, 0) < 64 /\ Sextet(T, 1) < 64 /\ Sextet(T, 2) < 64 /\ Sextet(T, 3) < 64
        BY <3>1, Z3 DEF HoldsTriple
      <4> QED BY <4>1, <4>2
    <3> QED BY <2>2, <2>4, <3>2
  <2> QED BY <2>3, <2>4
<1> QED BY <1>4, <1>5 DEF Readable, code

\* For every sequence of bytes, whatever its length leaves over when divided by three:
\* a decoder gets back exactly the bytes base64Encode was given (util.cpp).
LEMMA PayloadRoundTrip == \A data \in Seq(Octet) : Decoded(base64Encode(data)) = data
<1> SUFFICES ASSUME NEW data \in Seq(Octet) PROVE Decoded(base64Encode(data)) = data
  OBVIOUS
<1> DEFINE n == Len(data)
           G == (n + 2) \div 3
           code == base64Encode(data)
           e(m) == LET bits == Bits(code, (m - 1) \div 3)
                       j == (m - 1) % 3
                   IN CASE j = 0 -> bits \div 65536
                        [] j = 1 -> (bits \div 256) % 256
                        [] j = 2 -> bits % 256
<1>1. n \in Nat /\ G \in Nat /\ 3 * G <= n + 2 /\ n <= 3 * G
  BY Groups
<1>2. Len(code) = 4 * G /\ Padding(code) = 3 * G - n
  BY Encoded, PaddingOf
<1> HIDE DEF G, code
<1>3. 3 * (Len(code) \div 4) - Padding(code) = n
  BY <1>1, <1>2, Z3
<1>4. Decoded(code) = [m \in 1..n |-> e(m)]
  BY <1>3 DEF Decoded
<1>5. ASSUME NEW m \in 1..n PROVE e(m) = data[m]
  <2> DEFINE g == (m - 1) \div 3
             j == (m - 1) % 3
             T == Triple(data, 3 * g)
  <2>1. g \in Nat /\ j \in Nat /\ j < 3 /\ m = 3 * g + j + 1 /\ 3 * g < n /\ 3 * g \in Nat
    BY <1>1, Z3
  <2>2. Bits(code, g) = T
    BY <2>1, GroupDecodes DEF code
  <2> DEFINE b == ByteAt(data, 3 * g + 1)
             c == ByteAt(data, 3 * g + 2)
             d == ByteAt(data, 3 * g + 3)
  <2>3. MadeOf(T, b, c, d)
    BY <2>1, TripleBytes
  <2>4. e(m) = CASE j = 0 -> T \div 65536 [] j = 1 -> (T \div 256) % 256 [] j = 2 -> T % 256
    BY <2>2, Z3
  <2> HIDE DEF g, j, T, e
  <2>5. T \div 65536 = b /\ (T \div 256) % 256 = c /\ T % 256 = d
    BY <2>3, Z3 DEF MadeOf
  <2>6. CASE j = 0
    <3>1. m = 3 * g + 1 /\ 3 * g + 1 <= n
      BY <1>1, <2>1, <2>6, Z3
    <3>2. e(m) = b
      BY <2>4, <2>5, <2>6, Z3
    <3> QED BY <3>1, <3>2 DEF ByteAt
  <2>7. CASE j = 1
    <3>1. m = 3 * g + 2 /\ 3 * g + 2 <= n
      BY <1>1, <2>1, <2>7, Z3
    <3>2. e(m) = c
      BY <2>4, <2>5, <2>7, Z3
    <3> QED BY <3>1, <3>2 DEF ByteAt
  <2>8. CASE j = 2
    <3>1. m = 3 * g + 3 /\ 3 * g + 3 <= n
      BY <1>1, <2>1, <2>8, Z3
    <3>2. e(m) = d
      BY <2>4, <2>5, <2>8, Z3
    <3> QED BY <3>1, <3>2 DEF ByteAt
  <2> QED BY <2>1, <2>6, <2>7, <2>8, Z3
<1>6. data = [m \in 1..n |-> data[m]]
  BY LenProperties
<1> HIDE DEF e
<1>7. Decoded(code) = data
  BY <1>4, <1>5, <1>6
<1> QED BY <1>7 DEF code

-----------------------------------------------------------------------------
(* The checksum.                                                           *)

\* A sum of 32 bits, and what its checksum, the complement of the folded sum, has to be
\* for the receiver: together they are minus zero in ones' complement, never plus zero.
IsSum(sum) == sum \in Nat /\ sum < 4294967296
CancelsOut(sum) ==
    /\ fold(sum) \in Nat /\ fold(sum) < 65536
    /\ (sum + (65535 - fold(sum))) % 65535 = 0
    /\ sum + (65535 - fold(sum)) > 0

\* After the carries are added back twice none is left, so that the loop of
\* internetChecksum has ended, and the checksum is right.
LEMMA ChecksumCancels ==
    ASSUME NEW sum, IsSum(sum)
    PROVE  CancelsOut(sum)
<1>0. sum \in Nat /\ sum < 4294967296
  BY DEF IsSum
<1> DEFINE h == sum \div 65536
           l == sum % 65536
           h2 == (l + h) \div 65536
           l2 == (l + h) % 65536
<1>1. h \in Nat /\ l \in Nat /\ h < 65536 /\ l < 65536 /\ sum = 65536 * h + l
  BY <1>0, Z3
<1>2. fold(sum) = l2 + h2
  BY <1>0, Z3 DEF fold
<1> HIDE DEF h, l
<1>3. h2 \in Nat /\ l2 \in Nat /\ l2 < 65536 /\ l + h = 65536 * h2 + l2
  BY <1>1, Z3
<1> HIDE DEF h2, l2
<1>4. l2 + h2 < 65536
  BY <1>1, <1>3, Z3
<1>5. sum + (65535 - (l2 + h2)) = 65535 * (h + h2 + 1) /\ h + h2 + 1 \in Nat \ {0}
  BY <1>1, <1>3, Z3
<1>6. \A n \in Nat : (65535 * n) % 65535 = 0
  BY Z3
<1> QED BY <1>2, <1>3, <1>4, <1>5, <1>6, Z3 DEF CancelsOut

-----------------------------------------------------------------------------
(* Sums.                                                                   *)

\* Induction, for what can be said of a number as membership in a set.
LEMMA SetInduction ==
    ASSUME NEW S, 0 \in S, \A n \in Nat : n \in S => n + 1 \in S
    PROVE  Nat \subseteq S
<1> DEFINE T == Nat \ S
<1> SUFFICES ASSUME T # {} PROVE FALSE
  OBVIOUS
<1>1. PICK x \in T : \A y \in T : ~ (<<y, x>> \in OpToRel(<, Nat))
  BY WFMin, NatLessThanWellFounded, Zenon
<1>2. \A y \in T : ~(y < x)
  BY <1>1 DEF OpToRel
<1> QED BY <1>2

\* A sequence of numbers has running sums.
LEMMA SumsExist ==
    ASSUME NEW w \in Seq(Nat)
    PROVE  \E f \in [0..Len(w) -> Nat] : f = [i \in 0..Len(w) |-> IF i = 0 THEN 0 ELSE f[i - 1] + w[i]]
<1> DEFINE N == Len(w)
           D(f, k) == f \in [0..k -> Nat] /\ \A i \in 0..k : f[i] = IF i = 0 THEN 0 ELSE f[i - 1] + w[i]
           S == {k \in Nat : k <= N => \E f : D(f, k)}
<1>0. N \in Nat /\ \A i \in 1..N : w[i] \in Nat
  OBVIOUS
<1>1. 0 \in S
  <2>1. D([i \in 0..0 |-> 0], 0)
    OBVIOUS
  <2> QED BY <2>1
<1>2. ASSUME NEW k \in Nat, k \in S PROVE k + 1 \in S
  <2> SUFFICES ASSUME k + 1 <= N PROVE \E f : D(f, k + 1)
    BY SMT
  <2>0. k <= N
    BY <1>0
  <2>1. PICK f : D(f, k)
    <3> HIDE DEF D, N
    <3> QED BY <1>2, <2>0
  <2> DEFINE g == [i \in 0..(k + 1) |-> IF i = k + 1 THEN f[k] + w[i] ELSE f[i]]
  <2>2. g \in [0..(k + 1) -> Nat]
    BY <1>0, <2>1
  <2>3. \A i \in 0..k : g[i] = f[i] /\ (i # 0 => i - 1 \in 0..k)
    OBVIOUS
  <2>4. g[k + 1] = f[k] + w[k + 1] /\ g[k] = f[k] /\ k + 1 # 0 /\ (k + 1) - 1 = k
    OBVIOUS
  <2>5. ASSUME NEW i \in 0..(k + 1) PROVE g[i] = IF i = 0 THEN 0 ELSE g[i - 1] + w[i]
    <3>1. CASE i = k + 1
      BY <2>4, <3>1
    <3>2. CASE i \in 0..k
      BY <2>1, <2>3, <3>2
    <3> QED BY <3>1, <3>2
  <2> QED BY <2>2, <2>5
<1>3. N \in S
  <2> HIDE DEF S
  <2> QED BY <1>0, <1>1, <1>2, SetInduction
<1>4. PICK f : D(f, N)
  BY <1>0, <1>3
<1>5. f = [i \in 0..N |-> IF i = 0 THEN 0 ELSE f[i - 1] + w[i]]
  BY <1>4
<1> QED BY <1>4, <1>5

\* So the definition of Sums defines them.
LEMMA SumsDef ==
    ASSUME NEW w \in Seq(Nat)
    PROVE  Sums(w) = [i \in 0..Len(w) |-> IF i = 0 THEN 0 ELSE Sums(w)[i - 1] + w[i]]
<1> DEFINE P(f) == f = [i \in 0..Len(w) |-> IF i = 0 THEN 0 ELSE f[i - 1] + w[i]]
<1>1. \E f : P(f)
  BY SumsExist
<1>2. Sums(w) = CHOOSE f : P(f)
  BY DEF Sums
<1>3. P(CHOOSE f : P(f))
  <2> HIDE DEF P
  <2> QED BY <1>1, Zenon
<1> QED BY <1>2, <1>3

\* The running sums start at nothing and grow by one number at a time.
LEMMA SumsGrow ==
    ASSUME NEW w \in Seq(Nat)
    PROVE  /\ Sums(w)[0] = 0
           /\ \A i \in 1..Len(w) : Sums(w)[i] = Sums(w)[i - 1] + w[i]
           /\ \A i \in 0..Len(w) : Sums(w)[i] \in Nat
           /\ Total(w) \in Nat
<1> DEFINE N == Len(w)
           f == Sums(w)
           S == {k \in Nat : k <= N => f[k] \in Nat}
<1>0. N \in Nat /\ \A i \in 1..N : w[i] \in Nat
  OBVIOUS
<1>1. f = [i \in 0..N |-> IF i = 0 THEN 0 ELSE f[i - 1] + w[i]]
  BY SumsDef
<1> HIDE DEF f
<1>2. f[0] = 0 /\ \A i \in 1..N : f[i] = f[i - 1] + w[i]
  <2>1. \A i \in 0..N : f[i] = IF i = 0 THEN 0 ELSE f[i - 1] + w[i]
    BY <1>1, Zenon
  <2> QED BY <1>0, <2>1
<1>3. 0 \in S
  BY <1>2
<1>4. ASSUME NEW k \in Nat, k \in S PROVE k + 1 \in S
  BY <1>0, <1>2, <1>4
<1>5. Nat \subseteq S
  <2> HIDE DEF S
  <2> QED BY <1>3, <1>4, SetInduction
<1>6. \A i \in 0..N : f[i] \in Nat
  BY <1>0, <1>5
<1> QED BY <1>0, <1>2, <1>6 DEF f, Total

\* Sums that differ by c somewhere and go on with the same numbers end up differing by c.
LEMMA SumsShift ==
    ASSUME NEW w \in Seq(Nat), NEW v \in Seq(Nat), Len(w) = Len(v),
           NEW m \in 0..Len(v), NEW c \in Nat, Sums(w)[m] = Sums(v)[m] + c,
           \A i \in (m + 1)..Len(v) : w[i] = v[i]
    PROVE  Total(w) = Total(v) + c
<1> DEFINE N == Len(v)
           f == Sums(w)
           g == Sums(v)
           S == {k \in Nat : m + k <= N => f[m + k] = g[m + k] + c}
<1>0. N \in Nat /\ \A i \in 1..N : v[i] \in Nat
  OBVIOUS
<1>1. /\ \A i \in 1..N : f[i] = f[i - 1] + w[i] /\ g[i] = g[i - 1] + v[i]
      /\ \A i \in 0..N : g[i] \in Nat
  BY SumsGrow
<1>2. f[m] = g[m] + c
  OBVIOUS
<1> HIDE DEF f, g
<1>3. 0 \in S
  BY <1>2
<1>4. ASSUME NEW k \in Nat, k \in S PROVE k + 1 \in S
  <2> SUFFICES ASSUME m + (k + 1) <= N PROVE f[m + (k + 1)] = g[m + (k + 1)] + c
    BY SMT
  <2>1. f[m + k] = g[m + k] + c /\ m + k \in 0..N
    BY <1>0, <1>4
  <2>2. m + (k + 1) \in 1..N /\ m + (k + 1) - 1 = m + k /\ m + (k + 1) \in (m + 1)..N
    BY <1>0
  <2>3. g[m + k] \in Nat /\ v[m + (k + 1)] \in Nat /\ w[m + (k + 1)] = v[m + (k + 1)]
    BY <1>0, <1>1, <2>1, <2>2
  <2>4. f[m + (k + 1)] = f[m + k] + w[m + (k + 1)] /\ g[m + (k + 1)] = g[m + k] + v[m + (k + 1)]
    BY <1>1, <2>2
  <2> QED BY <2>1, <2>3, <2>4
<1>5. Nat \subseteq S
  <2> HIDE DEF S
  <2> QED BY <1>3, <1>4, SetInduction
<1>6. N - m \in Nat /\ m + (N - m) = N
  BY <1>0
<1>7. f[m + (N - m)] = g[m + (N - m)] + c
  <2>1. N - m \in S
    BY <1>5, <1>6
  <2> QED BY <1>0, <1>6, <2>1
<1> QED BY <1>6, <1>7 DEF f, g, Total

\* Sixteen bits.
IsWord(x) == x < 65536

\* A sum of words takes no more than its number of words allows.
LEMMA SumsBound ==
    ASSUME NEW w \in Seq(Nat), \A i \in 1..Len(w) : IsWord(w[i])
    PROVE  Total(w) <= 65535 * Len(w)
<1> DEFINE N == Len(w)
           f == Sums(w)
           S == {k \in Nat : k <= N => f[k] <= 65535 * k}
<1>0. N \in Nat /\ \A i \in 1..N : w[i] \in Nat /\ w[i] < 65536
  BY Z3 DEF IsWord
<1>1. /\ f[0] = 0 /\ \A i \in 1..N : f[i] = f[i - 1] + w[i]
      /\ \A i \in 0..N : f[i] \in Nat
  BY SumsGrow
<1> HIDE DEF f, N
<1>3. 0 \in S
  BY <1>1, Z3
<1>4. ASSUME NEW k \in Nat, k \in S PROVE k + 1 \in S
  BY <1>0, <1>1, <1>4, Z3
<1>5. Nat \subseteq S
  <2>1. \A k \in Nat : k \in S => k + 1 \in S
    BY <1>4
  <2> HIDE DEF S
  <2> QED BY ONLY <1>3, <2>1, SetInduction
<1> QED BY <1>0, <1>5, Z3 DEF f, N, Total

\* A packet as words.
LEMMA WordsShape ==
    ASSUME NEW data \in Seq(Octet), NEW h, h = (Len(data) + 1) \div 2
    PROVE  /\ h \in Nat /\ 2 * h <= Len(data) + 1 /\ Len(data) <= 2 * h
           /\ Words(data) \in Seq(Nat) /\ Len(Words(data)) = h
           /\ \A i \in 1..h : /\ Words(data)[i] = data[2 * i - 1] + 256 * ByteAt(data, 2 * i)
                              /\ IsWord(Words(data)[i])
<1> DEFINE n == Len(data)
           e(i) == data[2 * i - 1] + 256 * ByteAt(data, 2 * i)
<1>1. n \in Nat /\ \A i \in 1..n : data[i] \in Nat /\ data[i] < 256
  BY Groups
<1>2. h \in Nat /\ 2 * h <= n + 1 /\ n <= 2 * h
  BY <1>1, Z3
<1>3. \A k \in Nat \ {0} : ByteAt(data, k) \in Nat /\ ByteAt(data, k) < 256
  BY <1>1, Z3 DEF ByteAt
<1>4. \A i \in 1..h : e(i) \in Nat /\ IsWord(e(i))
  <2> SUFFICES ASSUME NEW i \in 1..h PROVE e(i) \in Nat /\ IsWord(e(i))
    OBVIOUS
  <2>1. 2 * i - 1 \in 1..n /\ 2 * i \in Nat \ {0}
    BY <1>1, <1>2, Z3
  <2>2. data[2 * i - 1] \in Nat /\ data[2 * i - 1] < 256
    BY <1>1, <2>1
  <2>3. ByteAt(data, 2 * i) \in Nat /\ ByteAt(data, 2 * i) < 256
    BY <1>3, <2>1
  <2> QED BY <2>2, <2>3, Z3 DEF IsWord
<1>5. Words(data) = [i \in 1..h |-> e(i)]
  BY DEF Words
<1> HIDE DEF e, n
<1>6. [i \in 1..h |-> e(i)] \in Seq(Nat) /\ Len([i \in 1..h |-> e(i)]) = h
  BY ONLY <1>2, <1>4, SMT
<1>7. \A i \in 1..h : Words(data)[i] = e(i)
  BY <1>5
<1> QED BY <1>2, <1>4, <1>5, <1>6, <1>7 DEF e, n

\* A packet as bytes, each by its place in its word.
LEMMA WeighedShape ==
    ASSUME NEW data \in Seq(Octet)
    PROVE  /\ Len(data) \in Nat /\ \A i \in 1..Len(data) : data[i] \in Nat
           /\ Weighed(data) \in Seq(Nat) /\ Len(Weighed(data)) = Len(data)
           /\ \A i \in 1..Len(data) :
                 Weighed(data)[i] = IF i % 2 = 1 THEN data[i] ELSE 256 * data[i]
<1> DEFINE n == Len(data)
           d(i) == IF i % 2 = 1 THEN data[i] ELSE 256 * data[i]
<1>1. n \in Nat /\ \A i \in 1..n : data[i] \in Nat
  BY Groups
<1>2. \A i \in 1..n : d(i) \in Nat
  BY <1>1, Z3
<1>3. Weighed(data) = [i \in 1..n |-> d(i)]
  BY DEF Weighed
<1> HIDE DEF d, n
<1>4. [i \in 1..n |-> d(i)] \in Seq(Nat) /\ Len([i \in 1..n |-> d(i)]) = n
  BY ONLY <1>1, <1>2, SMT
<1>5. \A i \in 1..n : Weighed(data)[i] = d(i)
  BY <1>3
<1> QED BY <1>1, <1>3, <1>4, <1>5 DEF d, n

\* Word by word or byte by byte, the sum is the same.
LEMMA WordsTotal ==
    ASSUME NEW data \in Seq(Octet)
    PROVE  Total(Words(data)) = Total(Weighed(data))
<1> DEFINE n == Len(data)
           h == (n + 1) \div 2
           f == Sums(Words(data))
           g == Sums(Weighed(data))
           S == {k \in Nat : 2 * k <= n => f[k] = g[2 * k]}
<1>0. n \in Nat /\ h \in Nat /\ 2 * h <= n + 1 /\ n <= 2 * h
  BY WordsShape, WeighedShape
<1>1. /\ \A i \in 1..n : data[i] \in Nat
      /\ \A i \in 1..h : Words(data)[i] = data[2 * i - 1] + 256 * ByteAt(data, 2 * i)
      /\ \A i \in 1..n : Weighed(data)[i] = IF i % 2 = 1 THEN data[i] ELSE 256 * data[i]
  BY WordsShape, WeighedShape
<1>2. /\ f[0] = 0 /\ \A i \in 1..h : f[i] = f[i - 1] + Words(data)[i]
      /\ g[0] = 0 /\ \A i \in 1..n : g[i] = g[i - 1] + Weighed(data)[i]
      /\ \A i \in 0..n : g[i] \in Nat
  <2>1. /\ Words(data) \in Seq(Nat) /\ Len(Words(data)) = h
        /\ Weighed(data) \in Seq(Nat) /\ Len(Weighed(data)) = n
    BY WordsShape, WeighedShape
  <2> QED BY <2>1, SumsGrow
<1> HIDE DEF f, g, h
<1>3. 0 \in S
  BY <1>2
<1>4. ASSUME NEW k \in Nat, k \in S PROVE k + 1 \in S
  <2> SUFFICES ASSUME 2 * (k + 1) <= n PROVE f[k + 1] = g[2 * (k + 1)]
    BY SMT
  <2> DEFINE a == 2 * k + 1
             b == 2 * k + 2
  <2>1. /\ a \in 1..n /\ b \in 1..n /\ k + 1 \in 1..h /\ (k + 1) - 1 = k
        /\ a - 1 = 2 * k /\ b - 1 = a /\ a % 2 = 1 /\ b % 2 # 1
        /\ 2 * (k + 1) = b /\ 2 * (k + 1) - 1 = a /\ 2 * k \in 0..n
    BY <1>0, Z3
  <2>2. f[k] = g[2 * k]
    BY <1>0, <1>4
  <2> HIDE DEF a, b
  <2>3. f[k + 1] = f[k] + (data[a] + 256 * data[b])
    <3>1. ByteAt(data, b) = data[b]
      BY <2>1 DEF ByteAt
    <3>2. Words(data)[k + 1] = data[2 * (k + 1) - 1] + 256 * ByteAt(data, 2 * (k + 1))
      BY <1>1, <2>1
    <3>3. f[k + 1] = f[(k + 1) - 1] + Words(data)[k + 1]
      BY <1>2, <2>1
    <3> QED BY <2>1, <3>1, <3>2, <3>3
  <2>4. g[a] = g[2 * k] + data[a] /\ g[b] = g[a] + 256 * data[b]
    BY <1>1, <1>2, <2>1
  <2>5. data[a] \in Nat /\ data[b] \in Nat /\ g[2 * k] \in Nat
    BY <1>1, <1>2, <2>1
  <2> QED BY <2>1, <2>2, <2>3, <2>4, <2>5
<1>5. Nat \subseteq S
  <2> HIDE DEF S
  <2> QED BY <1>3, <1>4, SetInduction
<1>6. f[h] = g[n]
  <2>1. CASE n = 2 * h
    <3>1. h \in S
      BY <1>0, <1>5
    <3> QED BY <1>0, <2>1, <3>1
  <2>2. CASE n = 2 * h - 1
    <3>1. /\ h - 1 \in Nat /\ 2 * (h - 1) <= n /\ 2 * (h - 1) = n - 1 /\ h \in 1..h
          /\ n \in 1..n /\ n % 2 = 1 /\ ~(2 * h <= n)
      BY <1>0, <2>2, Z3
    <3>2. h - 1 \in S
      BY <1>5, <3>1
    <3>3. f[h - 1] = g[n - 1]
      BY <3>1, <3>2
    <3>4. f[h] = f[h - 1] + data[n]
      <4>1. ByteAt(data, 2 * h) = 0
        BY <3>1 DEF ByteAt
      <4>2. Words(data)[h] = data[2 * h - 1] + 256 * ByteAt(data, 2 * h)
        BY <1>1, <3>1
      <4>3. f[h] = f[h - 1] + Words(data)[h] /\ data[n] \in Nat
        BY <1>1, <1>2, <3>1
      <4>4. data[n] + 256 * 0 = data[n]
        BY <4>3
      <4> QED BY <2>2, <4>1, <4>2, <4>3, <4>4
    <3>5. g[n] = g[n - 1] + data[n]
      <4>1. Weighed(data)[n] = data[n]
        BY <1>1, <3>1
      <4>2. g[n] = g[n - 1] + Weighed(data)[n]
        BY <1>2, <3>1
      <4> QED BY <4>1, <4>2
    <3> QED BY <3>3, <3>4, <3>5
  <2>3. n = 2 * h \/ n = 2 * h - 1
    BY <1>0, Z3
  <2> QED BY <2>1, <2>2, <2>3
<1>7. Len(Words(data)) = h /\ Len(Weighed(data)) = n
  BY WordsShape, WeighedShape DEF h
<1> QED BY <1>6, <1>7 DEF f, g, Total

\* The two bytes of a checksum in front of a packet add what they are.
LEMMA FrontedTotal ==
    ASSUME NEW data \in Seq(Octet), NEW a \in Octet, NEW b \in Octet
    PROVE  Total(Weighed(<< a, b >> \o data)) = Total(Weighed(<< 0, 0 >> \o data)) + (a + 256 * b)
<1> DEFINE n == Len(data)
           Shape(w, c) ==
              /\ w \in Seq(Nat) /\ Len(w) = n + 2 /\ Sums(w)[2] = c
              /\ \A i \in 3..(n + 2) : w[i] = IF i % 2 = 1 THEN data[i - 2] ELSE 256 * data[i - 2]
<1>1. ASSUME NEW x \in Octet, NEW y \in Octet, NEW q, q = << x, y >>
      PROVE  Shape(Weighed(q \o data), x + 256 * y)
  <2> DEFINE p == q \o data
             w == Weighed(p)
  <2>1. q \in Seq(Octet) /\ Len(q) = 2 /\ q[1] = x /\ q[2] = y /\ n \in Nat
    BY <1>1
  <2>2. /\ p \in Seq(Octet) /\ Len(p) = Len(q) + Len(data)
        /\ \A i \in 1..(Len(q) + Len(data)) : p[i] = IF i <= Len(q) THEN q[i] ELSE data[i - Len(q)]
    BY <2>1, ConcatProperties, Zenon
  <2> HIDE DEF p
  <2>3. /\ Len(p) = n + 2 /\ p[1] = x /\ p[2] = y
        /\ \A i \in 3..(n + 2) : p[i] = data[i - 2]
    BY <2>1, <2>2
  <2>4. /\ w \in Seq(Nat) /\ Len(w) = n + 2
        /\ \A i \in 1..(n + 2) : w[i] = IF i % 2 = 1 THEN p[i] ELSE 256 * p[i]
    BY <2>2, <2>3, WeighedShape
  <2>5. w[1] = x /\ w[2] = 256 * y /\ 1 \in 1..(n + 2) /\ 2 \in 1..(n + 2)
    BY <2>1, <2>3, <2>4
  <2> HIDE DEF w
  <2>6. Sums(w)[0] = 0 /\ Sums(w)[1] = Sums(w)[1 - 1] + w[1] /\ Sums(w)[2] = Sums(w)[2 - 1] + w[2]
    BY <2>4, <2>5, SumsGrow
  <2>7. Sums(w)[2] = x + 256 * y
    BY <2>5, <2>6 DEF Octet
  <2>8. \A i \in 3..(n + 2) : w[i] = IF i % 2 = 1 THEN data[i - 2] ELSE 256 * data[i - 2]
    BY <2>1, <2>3, <2>4
  <2> QED BY <2>4, <2>7, <2>8 DEF p, w
<1> DEFINE w == Weighed(<< a, b >> \o data)
           v == Weighed(<< 0, 0 >> \o data)
<1>2. 0 \in Octet /\ a \in Nat /\ b \in Nat /\ a + 256 * b \in Nat /\ n \in Nat
  BY DEF Octet
<1>3. Shape(w, a + 256 * b) /\ Shape(v, 0 + 256 * 0)
  <2> HIDE DEF Shape
  <2> QED BY <1>1, <1>2, Zenon
<1> HIDE DEF w, v
<1>4. Sums(w)[2] = Sums(v)[2] + (a + 256 * b)
  BY <1>2, <1>3
<1>5. Len(w) = Len(v) /\ 2 \in 0..Len(v) /\ \A i \in (2 + 1)..Len(v) : w[i] = v[i]
  BY <1>2, <1>3
<1>6. Total(w) = Total(v) + (a + 256 * b)
  <2>1. w \in Seq(Nat) /\ v \in Seq(Nat)
    BY <1>3
  <2> DEFINE c == a + 256 * b
  <2>2. c \in Nat /\ Sums(w)[2] = Sums(v)[2] + c
    BY <1>2, <1>4
  <2> HIDE DEF c
  <2>3. Total(w) = Total(v) + c
    BY <1>5, <2>1, <2>2, SumsShift
  <2> QED BY <2>3 DEF c
<1> QED BY <1>6 DEF w, v

\* Packets whose words, two bytes of checksum included, add up within 32 bits.
FitsSum(data) == Len(data) < 131070

\* They do.
LEMMA SumFits ==
    ASSUME NEW data \in Seq(Octet), FitsSum(data)
    PROVE  IsSum(Total(Words(<< 0, 0 >> \o data)))
<1> DEFINE zero == << 0, 0 >> \o data
           h == (Len(zero) + 1) \div 2
           T == Total(Words(zero))
<1>1. zero \in Seq(Octet) /\ Len(zero) = Len(data) + 2 /\ Len(data) \in Nat
  <2>1. << 0, 0 >> \in Seq(Octet) /\ Len(<< 0, 0 >>) = 2 /\ Len(data) \in Nat
    BY DEF Octet
  <2> DEFINE q == << 0, 0 >>
  <2> HIDE DEF q
  <2>2. q \o data \in Seq(Octet) /\ Len(q \o data) = Len(q) + Len(data)
    BY <2>1, ConcatProperties, Zenon DEF q
  <2> QED BY <2>1, <2>2 DEF q
<1> HIDE DEF zero
<1>2. h \in Nat /\ h <= 65536
  BY <1>1, Z3 DEF FitsSum
<1>3. /\ Words(zero) \in Seq(Nat) /\ Len(Words(zero)) = h
      /\ \A i \in 1..h : IsWord(Words(zero)[i])
  BY <1>1, WordsShape, Zenon
<1> HIDE DEF h
<1>4. T \in Nat
  BY <1>3, SumsGrow, Zenon
<1>5. T <= 65535 * h
  BY <1>3, SumsBound, Z3
<1> QED BY <1>2, <1>4, <1>5, Z3 DEF IsSum, zero

\* A word is made of its two bytes.
LEMMA Halves ==
    ASSUME NEW x \in Nat, IsWord(x)
    PROVE  x % 256 \in Octet /\ x \div 256 \in Octet /\ (x % 256) + 256 * (x \div 256) = x
<1>1. x % 256 \in Nat /\ x % 256 < 256
  BY Z3
<1>2. x \div 256 \in Nat /\ x \div 256 < 256
  BY Z3 DEF IsWord
<1>3. (x % 256) + 256 * (x \div 256) = x
  BY Z3
<1> QED BY <1>1, <1>2, <1>3, Z3 DEF Octet

\* The checksum, whatever the packet, fits its field and cancels the packet's words.
LEMMA PacketVerifies ==
    ASSUME NEW data \in Seq(Octet), FitsSum(data), NEW sum, sum = internetChecksum(<< 0, 0 >> \o data)
    PROVE  LET total == Total(Weighed(<< sum % 256, sum \div 256 >> \o data))
           IN total > 0 /\ total % 65535 = 0
<1> DEFINE zero == << 0, 0 >> \o data
           T == Total(Words(zero))
           total == Total(Weighed(<< sum % 256, sum \div 256 >> \o data))
<1>1. IsSum(T)
  BY SumFits, Zenon
<1>2. CancelsOut(T)
  BY <1>1, ChecksumCancels, Zenon
<1>3. sum = 65535 - fold(T)
  BY Z3 DEF internetChecksum
<1>4. T = Total(Weighed(zero))
  <2>1. << 0, 0 >> \in Seq(Octet)
    BY Z3 DEF Octet
  <2>2. zero \in Seq(Octet)
    BY <2>1, ConcatProperties, Zenon
  <2> HIDE DEF zero
  <2> QED BY <2>2, WordsTotal, Zenon
<1> HIDE DEF T, zero
<1>5. /\ sum % 256 \in Octet /\ sum \div 256 \in Octet /\ sum \in Nat
      /\ (sum % 256) + 256 * (sum \div 256) = sum
  <2>1. sum \in Nat /\ sum < 65536
    BY <1>2, <1>3, Z3 DEF CancelsOut
  <2> QED BY <2>1, Halves, Z3 DEF IsWord
<1>6. total = T + ((sum % 256) + 256 * (sum \div 256))
  <2> DEFINE x == sum % 256
             y == sum \div 256
  <2>1. x \in Octet /\ y \in Octet
    BY <1>5, Zenon
  <2> HIDE DEF x, y
  <2>2. Total(Weighed(<< x, y >> \o data)) = Total(Weighed(zero)) + (x + 256 * y)
    BY <2>1, FrontedTotal DEF zero
  <2> QED BY <1>4, <2>2, Zenon DEF x, y
<1> HIDE DEF total
<1>7. total > 0 /\ total % 65535 = 0
  BY <1>2, <1>3, <1>5, <1>6, Z3 DEF CancelsOut
<1> QED BY <1>7 DEF total

\* Every packet that fits into the sum's 32 bits is valid to its receiver, with the
\* checksum internetChecksum computed over it.
THEOREM ChecksumAlwaysVerifies ==
    ASSUME input.is \in Seq(Octet), FitsSum(input.is)
    PROVE  ChecksumVerifies
BY PacketVerifies DEF ChecksumVerifies

\* Whatever bytes the daemon publishes, the widget decodes them to what they were
\* (base64Encode).
THEOREM PayloadAlwaysDecodes ==
    ASSUME input.is \in Seq(Octet)
    PROVE  PayloadDecodes
BY PayloadReadable, PayloadRoundTrip DEF PayloadDecodes
=============================================================================
