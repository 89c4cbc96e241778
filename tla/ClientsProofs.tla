--------------------------- MODULE ClientsProofs ----------------------------
(***************************************************************************)
(* The daemon's tables for any documents, hosts and bounds.                *)
(*                                                                         *)
(* TableSound and SamplesOwn say what the tables promise; neither is       *)
(* inductive alone.  The invariant IInv adds why a reply cannot reach the  *)
(* wrong row: a uid leads to the prober that has it and is never given     *)
(* twice by one process (UidSound), and a packet with this process's       *)
(* cookie names a uid that was given out and carries the host of whoever   *)
(* still has it (NetSound).  reloadClients needs the argument about        *)
(* Openings: each key is opened exactly once.  Everything else changes     *)
(* neither the streams nor the rows (ProbersKept, RowsKept).               *)
(***************************************************************************)
EXTENDS Clients, FiniteSetTheorems, FunctionTheorems, SequenceTheorems, TLAPS

USE ClientsAssumption

-----------------------------------------------------------------------------
(* Positions: pairs of a client and a row, in the order of the loops.      *)

\* A set of naturals that is not empty has a least element.
LEMMA NatLeast ==
    ASSUME NEW T, T \subseteq Nat, T # {}
    PROVE  \E x \in T : \A y \in T : x <= y
<1>1. PICK x \in T : \A y \in T : <<y, x>> \notin OpToRel(<, Nat)
  BY NatLessThanWellFounded, WFMin, Zenon
<1>2. \A y \in T : ~(y < x)
  BY <1>1 DEF OpToRel
<1> QED BY <1>2

\* A set of positions that is not empty has a first one.
LEMMA FirstPosition ==
    ASSUME NEW T, T \subseteq Nat \X Nat, T # {}
    PROVE  \E x \in T : \A y \in T : x[1] < y[1] \/ (x[1] = y[1] /\ x[2] <= y[2])
<1> DEFINE A == {x[1] : x \in T}
<1>1. A \subseteq Nat /\ A # {}
  OBVIOUS
<1>2. PICK a \in A : \A b \in A : a <= b
  BY <1>1, NatLeast, Zenon
<1> DEFINE B == {x[2] : x \in {y \in T : y[1] = a}}
<1>3. B \subseteq Nat /\ B # {}
  BY <1>2
<1>4. PICK b \in B : \A c \in B : b <= c
  BY <1>3, NatLeast, Zenon
<1>5. PICK x \in T : x[1] = a /\ x[2] = b
  BY <1>4
<1>6. ASSUME NEW y \in T PROVE x[1] < y[1] \/ (x[1] = y[1] /\ x[2] <= y[2])
  <2>1. y[1] \in A /\ y[1] \in Nat /\ y[2] \in Nat /\ a \in Nat /\ b \in Nat
    BY <1>1, <1>2, <1>3, <1>4
  <2>2. a <= y[1]
    BY <1>2, <2>1
  <2>3. y[1] = a => y[2] \in B
    OBVIOUS
  <2>4. y[1] = a => b <= y[2]
    BY <1>4, <2>3
  <2> QED BY <1>5, <2>1, <2>2, <2>4
<1> QED BY <1>5, <1>6

\* A function on an initial segment of the naturals is a sequence.
LEMMA IsSequence ==
    ASSUME NEW n \in Nat, NEW S, NEW f \in [1..n -> S]
    PROVE  f \in Seq(S)
BY SeqDef

\* What is read of a document: lists of clients with their rows.
ClientLayout == [id: ClientIds, pace: Paces, rows: Seq(Setting)]
Layout == Seq(ClientLayout)

\* The positions of a list of clients.
Positions(list) == UNION {{i} \X DOMAIN list[i].rows : i \in DOMAIN list}

\* There are finitely many rows.
LEMMA CellsFinite ==
    ASSUME NEW list \in Layout
    PROVE  Cells(list) \subseteq Nat \X Nat /\ IsFiniteSet(Cells(list))
<1>1. DOMAIN list = 1..Len(list) /\ Len(list) \in Nat
  BY DEF Layout
<1>2. ASSUME NEW i \in DOMAIN list PROVE list[i].rows \in Seq(Setting)
  <2>1. list[i] \in ClientLayout
    BY <1>1 DEF Layout
  <2> QED BY <2>1 DEF ClientLayout
<1>3. \A i \in DOMAIN list : DOMAIN list[i].rows = 1..Len(list[i].rows) /\ Len(list[i].rows) \in Nat
  BY <1>2
<1> DEFINE S == {{i} \X DOMAIN list[i].rows : i \in DOMAIN list}
           f == [i \in DOMAIN list |-> {i} \X DOMAIN list[i].rows]
<1>4. IsFiniteSet(DOMAIN list)
  BY <1>1, FS_Interval
<1>5. f \in Surjection(DOMAIN list, S)
  BY Fun_IsSurj
<1>6. IsFiniteSet(S)
  BY <1>4, <1>5, FS_Surjection
<1>7. ASSUME NEW T \in S PROVE IsFiniteSet(T)
  <2>1. PICK i \in DOMAIN list : T = {i} \X DOMAIN list[i].rows
    OBVIOUS
  <2>2. IsFiniteSet(DOMAIN list[i].rows)
    BY <1>3, FS_Interval
  <2>3. IsFiniteSet({i})
    BY FS_Singleton
  <2> QED BY <2>1, <2>2, <2>3, FS_Product
<1>8. IsFiniteSet(UNION S)
  BY <1>6, <1>7, FS_UNION
<1>9. Cells(list) \in SUBSET (UNION S) /\ UNION S \subseteq Nat \X Nat
  BY <1>1, <1>3 DEF Cells
<1> QED BY <1>8, <1>9, FS_Subset

\* The cells that open a prober.
Opening(list) ==
    {x \in Cells(list) : \A y \in Cells(list) : KeyAt(list, y) = KeyAt(list, x) => ~Before(y, x)}

\* Every key has a prober opened for it, and one only: the loops of rebuildProbers
\* pass over every enabled row, and look for the key before they open another.
LEMMA OpeningsServe ==
    ASSUME NEW list \in Layout, NEW o \in Openings(list)
    PROVE  /\ \E n \in Nat : DOMAIN o = 1..n
           /\ \A i \in DOMAIN o : o[i] \in Cells(list)
           /\ \A i, j \in DOMAIN o : KeyAt(list, o[i]) = KeyAt(list, o[j]) => i = j
           /\ \A x \in Cells(list) : \E i \in DOMAIN o : KeyAt(list, o[i]) = KeyAt(list, x)
<1> DEFINE n == Cardinality(Opening(list))
<1>1. Opening(list) \in SUBSET Cells(list) /\ Cells(list) \subseteq Nat \X Nat /\ IsFiniteSet(Cells(list))
  BY CellsFinite DEF Opening
<1>2. IsFiniteSet(Opening(list))
  BY <1>1, FS_Subset
<1>3. n \in Nat
  BY <1>2, FS_CardinalityType
<1>4. /\ o \in [1..n -> Opening(list)]
      /\ \A i, j \in 1..n : i < j => Before(o[i], o[j])
  BY DEF Openings, Opening
<1> HIDE DEF n
<1>5. ASSUME NEW i \in 1..n, NEW j \in 1..n, KeyAt(list, o[i]) = KeyAt(list, o[j]), i < j
      PROVE  FALSE
  <2>1. o[i] \in Cells(list) /\ o[j] \in Opening(list) /\ Before(o[i], o[j])
    BY <1>1, <1>3, <1>4, <1>5
  <2> QED BY <1>5, <2>1 DEF Opening
<1>6. \A i, j \in 1..n : KeyAt(list, o[i]) = KeyAt(list, o[j]) => i = j
  BY <1>3, <1>5
<1>7. o \in Injection(1..n, Opening(list))
  BY <1>4, <1>6, Fun_IsInj
<1>8. Cardinality(1..n) = n
  BY <1>3, FS_Interval
<1>9. o \in Surjection(1..n, Opening(list))
  BY <1>2, <1>7, <1>8, FS_Injection DEF n
<1>10. \A t \in Opening(list) : \E i \in 1..n : o[i] = t
  BY <1>9 DEF Surjection
<1>11. ASSUME NEW x \in Cells(list)
       PROVE  \E i \in 1..n : KeyAt(list, o[i]) = KeyAt(list, x)
  <2> DEFINE T == {y \in Cells(list) : KeyAt(list, y) = KeyAt(list, x)}
  <2>1. T \subseteq Nat \X Nat /\ T # {}
    BY <1>1
  <2>2. PICK z \in T : \A y \in T : z[1] < y[1] \/ (z[1] = y[1] /\ z[2] <= y[2])
    BY <2>1, FirstPosition, Zenon
  <2>3. \A y \in T : ~Before(y, z)
    <3> SUFFICES ASSUME NEW y \in T, Before(y, z) PROVE FALSE
      OBVIOUS
    <3>1. y[1] \in Nat /\ y[2] \in Nat /\ z[1] \in Nat /\ z[2] \in Nat
      BY <2>1
    <3> QED BY <2>2, <3>1 DEF Before
  <2>4. z \in Opening(list)
    BY <2>3 DEF Opening
  <2>5. PICK i \in 1..n : o[i] = z
    BY <1>10, <2>4
  <2> QED BY <2>5
<1> QED BY <1>1, <1>3, <1>4, <1>6, <1>11

\* The order the loops come to the openings in always exists.
LEMMA OpeningsExist ==
    ASSUME NEW list \in Layout
    PROVE  Openings(list) # {}
<1> DEFINE S == Opening(list)
           n == Cardinality(S)
           below == [x \in S |-> {y \in S : Before(y, x)}]
           rank == [x \in S |-> Cardinality(below[x]) + 1]
<1>1. S \in SUBSET Cells(list) /\ Cells(list) \subseteq Nat \X Nat /\ IsFiniteSet(Cells(list))
  BY CellsFinite DEF Opening
<1>2. IsFiniteSet(S)
  BY <1>1, FS_Subset
<1>3. n \in Nat
  BY <1>2, FS_CardinalityType
<1>4. ASSUME NEW x \in S
      PROVE  /\ IsFiniteSet(below[x]) /\ Cardinality(below[x]) \in Nat
             /\ x \notin below[x] /\ below[x] \in SUBSET S
  <2>1. below[x] \in SUBSET S
    OBVIOUS
  <2>2. x \notin below[x]
    BY <1>1 DEF Before
  <2>3. IsFiniteSet(below[x])
    BY <1>2, <2>1, FS_Subset
  <2> QED BY <2>1, <2>2, <2>3, FS_CardinalityType
<1>5. ASSUME NEW x \in S PROVE rank[x] \in 1..n
  <2>1. Cardinality(below[x]) <= n /\ (n = Cardinality(below[x]) => S = below[x])
    BY <1>2, <1>4, FS_Subset
  <2>2. rank[x] = Cardinality(below[x]) + 1 /\ Cardinality(below[x]) # n
    BY <1>4, <2>1
  <2> HIDE DEF rank, below, n
  <2> QED BY <1>3, <1>4, <2>1, <2>2
<1>6. ASSUME NEW x \in S, NEW y \in S, Before(x, y) PROVE rank[x] < rank[y]
  <2>1. below[x] \in SUBSET below[y]
    BY <1>1, <1>6 DEF Before
  <2>2. x \in below[y] /\ x \notin below[x]
    BY <1>4, <1>6
  <2>3. Cardinality(below[x]) <= Cardinality(below[y]) /\ Cardinality(below[x]) # Cardinality(below[y])
    BY <1>4, <2>1, <2>2, FS_Subset
  <2>4. rank[x] = Cardinality(below[x]) + 1 /\ rank[y] = Cardinality(below[y]) + 1
    OBVIOUS
  <2> HIDE DEF rank, below
  <2> QED BY <1>4, <2>3, <2>4
<1>7. ASSUME NEW x \in S, NEW y \in S, x # y PROVE Before(x, y) \/ Before(y, x)
  <2>1. x \in Nat \X Nat /\ y \in Nat \X Nat
    BY <1>1
  <2> QED BY <1>7, <2>1 DEF Before
<1>8. rank \in [S -> 1..n]
  BY <1>5
<1> HIDE DEF S, n, below, rank
<1>9. \A x, y \in S : rank[x] = rank[y] => x = y
  BY <1>6, <1>7, <1>8
<1>10. rank \in Injection(S, 1..n)
  BY <1>8, <1>9, Fun_IsInj
<1>11. IsFiniteSet(1..n) /\ Cardinality(1..n) = n
  BY <1>3, FS_Interval
<1>12. rank \in Surjection(S, 1..n)
  BY <1>10, <1>11, FS_Injection DEF n
<1>13. \A i \in 1..n : \E x \in S : rank[x] = i
  BY <1>12, Fun_SurjectionProperties
<1> DEFINE o == [i \in 1..n |-> CHOOSE x \in S : rank[x] = i]
<1>14. o \in [1..n -> S] /\ \A i \in 1..n : rank[o[i]] = i
  BY <1>13
<1> HIDE DEF o
<1>15. ASSUME NEW i \in 1..n, NEW j \in 1..n, i < j PROVE Before(o[i], o[j])
  <2>1. o[i] \in S /\ o[j] \in S /\ rank[o[i]] = i /\ rank[o[j]] = j
    BY <1>14
  <2>2. ~Before(o[j], o[i])
    BY <1>3, <1>6, <1>15, <2>1
  <2>3. o[i] # o[j]
    BY <1>3, <1>15, <2>1
  <2> QED BY <1>7, <2>1, <2>2, <2>3
<1> QED BY <1>14, <1>15 DEF Openings, Opening, S, n

\* Numbering the members of a set of positions from below gives each another
\* number, less than their number: the uids rebuildProbers hands out.
LEMMA Numbering ==
    ASSUME NEW n \in Nat, NEW F \in SUBSET (1..n)
    PROVE  /\ Cardinality(F) \in Nat
           /\ \A i \in F : /\ Cardinality({j \in F : j < i}) \in Nat
                           /\ Cardinality({j \in F : j < i}) < Cardinality(F)
           /\ \A i, k \in F : Cardinality({j \in F : j < i}) = Cardinality({j \in F : j < k}) => i = k
<1> DEFINE below == [i \in F |-> {j \in F : j < i}]
<1>1. IsFiniteSet(F)
  <2>1. IsFiniteSet(1..n)
    BY FS_Interval
  <2> QED BY <2>1, FS_Subset
<1>2. ASSUME NEW i \in F
      PROVE  /\ below[i] \in SUBSET F /\ i \notin below[i]
             /\ IsFiniteSet(below[i]) /\ Cardinality(below[i]) \in Nat
  <2>1. below[i] \in SUBSET F /\ i \notin below[i]
    OBVIOUS
  <2>2. IsFiniteSet(below[i])
    BY <1>1, <2>1, FS_Subset
  <2> QED BY <2>1, <2>2, FS_CardinalityType
<1>3. Cardinality(F) \in Nat
  BY <1>1, FS_CardinalityType
<1>4. ASSUME NEW i \in F PROVE Cardinality(below[i]) < Cardinality(F)
  <2>1. Cardinality(below[i]) <= Cardinality(F) /\ (Cardinality(F) = Cardinality(below[i]) => F = below[i])
    BY <1>1, <1>2, FS_Subset
  <2> HIDE DEF below
  <2>2. Cardinality(F) # Cardinality(below[i])
    BY <1>2, <2>1
  <2>3. Cardinality(below[i]) \in Nat
    BY <1>2
  <2> QED BY <1>3, <2>1, <2>2, <2>3
<1>5. ASSUME NEW i \in F, NEW k \in F, i < k PROVE Cardinality(below[i]) # Cardinality(below[k])
  <2>0. \A j \in F : j \in Int
    OBVIOUS
  <2>1. below[i] \in SUBSET below[k] /\ i \in below[k]
    <3>1. \A j \in F : j < i => j < k
      BY <1>5, <2>0
    <3>2. below[i] = {j \in F : j < i} /\ below[k] = {j \in F : j < k}
      OBVIOUS
    <3> HIDE DEF below
    <3> QED BY <1>5, <3>1, <3>2
  <2>2. Cardinality(below[k]) = Cardinality(below[i]) => below[k] = below[i]
    BY <1>2, <2>1, FS_Subset
  <2> HIDE DEF below
  <2> QED BY <1>2, <2>1, <2>2
<1>6. \A i, k \in F : Cardinality(below[i]) = Cardinality(below[k]) => i = k
  BY <1>5
<1>7. \A i \in F : below[i] = {j \in F : j < i}
  OBVIOUS
<1> HIDE DEF below
<1> QED BY <1>2, <1>3, <1>4, <1>6, <1>7

-----------------------------------------------------------------------------
(* The inductive invariant.                                                *)

\* Uids lead to the prober that has them, and those still to be given are free.
UidSound ==
    /\ \A i \in DOMAIN probers : probers[i].uid < nextUid
    /\ \A u \in DOMAIN byUid : byUid[u] \in DOMAIN probers /\ probers[byUid[u]].uid = u

\* A packet of this process carries a uid that was given out, and the host of the
\* prober that has it, if there still is one.
NetSound ==
    \A packet \in net :
        /\ packet.cookie <= cookie
        /\ packet.cookie = cookie =>
              /\ packet.uid < nextUid
              /\ \A j \in DOMAIN probers :
                    probers[j].uid = packet.uid => probers[j].host = packet.host

IInv == TypeOK /\ TableSound /\ UidSound /\ NetSound /\ SamplesOwn

\* Two lists of clients with the same rows.
SameRows(l, m) ==
    /\ DOMAIN l = DOMAIN m
    /\ \A c \in DOMAIN l :
          /\ l[c].pace = m[c].pace /\ DOMAIN l[c].rows = DOMAIN m[c].rows
          /\ \A d \in DOMAIN l[c].rows : /\ l[c].rows[d].address = m[c].rows[d].address
                                        /\ l[c].rows[d].enabled = m[c].rows[d].enabled

\* They have the same cells, with the same keys.
LEMMA SameCells ==
    ASSUME NEW l, NEW m, SameRows(l, m)
    PROVE  Cells(l) = Cells(m) /\ \A x \in Cells(l) : KeyAt(l, x) = KeyAt(m, x)
<1>1. Positions(l) = Positions(m)
  BY DEF SameRows, Positions
<1>2. ASSUME NEW x \in Positions(l)
      PROVE  x[1] \in DOMAIN l /\ x[2] \in DOMAIN l[x[1]].rows
  BY DEF Positions
<1>3. /\ Cells(l) = {x \in Positions(l) : l[x[1]].rows[x[2]].enabled}
      /\ Cells(m) = {x \in Positions(m) : m[x[1]].rows[x[2]].enabled}
  BY DEF Cells, Positions
<1>4. Cells(l) = Cells(m)
  BY <1>1, <1>2, <1>3 DEF SameRows
<1>5. \A x \in Cells(l) : KeyAt(l, x) = KeyAt(m, x)
  BY <1>2, <1>3 DEF SameRows, KeyAt, proberKey
<1> QED BY <1>4, <1>5

-----------------------------------------------------------------------------
(* rebuildProbers.                                                         *)

\* The prober at i goes on where the one at k left off.
Continues(i, k) ==
    /\ probers'[i].host = probers[k].host /\ probers'[i].pace = probers[k].pace
    /\ probers'[i].uid = probers[k].uid /\ probers'[i].sequence = probers[k].sequence
    /\ probers'[i].inFlight = probers[k].inFlight

\* A cell is a row of a list, with an address and a pace.
LEMMA CellTypes ==
    ASSUME NEW list \in Layout, NEW x \in Cells(list)
    PROVE  /\ x[1] \in DOMAIN list /\ x[2] \in DOMAIN list[x[1]].rows
           /\ list[x[1]].pace \in Paces
           /\ list[x[1]].rows[x[2]].address \in Hosts
           /\ list[x[1]].rows[x[2]].enabled
<1>1. x[1] \in DOMAIN list /\ x[2] \in DOMAIN list[x[1]].rows /\ list[x[1]].rows[x[2]].enabled
  BY DEF Cells
<1>2. list[x[1]] \in ClientLayout
  BY <1>1 DEF Layout
<1>3. list[x[1]].pace \in Paces /\ list[x[1]].rows \in Seq(Setting)
  BY <1>2 DEF ClientLayout
<1>4. list[x[1]].rows[x[2]] \in Setting
  BY <1>1, <1>3
<1> QED BY <1>1, <1>3, <1>4 DEF Setting

\* The new table: a prober for every opening, with its key and its subscribers;
\* where the old table had one with that key it goes on, otherwise it is new, with
\* a uid nobody had.
LEMMA RebuiltTable ==
    ASSUME TypeOK, NEW list \in Layout, NEW o \in Openings(list), rebuildProbers(list, o)
    PROVE  /\ DOMAIN probers' = DOMAIN o /\ probers' \in Seq(Prober)
           /\ nextUid' \in Nat /\ nextUid' >= nextUid
           /\ \A i \in DOMAIN o :
                 /\ probers'[i] \in Prober
                 /\ proberKey(probers'[i].host, probers'[i].pace) = KeyAt(list, o[i])
                 /\ probers'[i].subscribers = {x \in Cells(list) : KeyAt(list, x) = KeyAt(list, o[i])}
                 /\ \/ \E k \in Recyclable(KeyAt(list, o[i])) : Continues(i, k)
                    \/ /\ Recyclable(KeyAt(list, o[i])) = {}
                       /\ nextUid <= probers'[i].uid /\ probers'[i].uid < nextUid'
           /\ \A i, j \in DOMAIN o :
                 /\ Recyclable(KeyAt(list, o[i])) = {} /\ Recyclable(KeyAt(list, o[j])) = {}
                 /\ probers'[i].uid = probers'[j].uid
                 => i = j
<1> DEFINE fresh == {i \in DOMAIN o : Recyclable(KeyAt(list, o[i])) = {}}
           subs(i) == {x \in Cells(list) : KeyAt(list, x) = KeyAt(list, o[i])}
           number(i) == Cardinality({j \in fresh : j < i})
           new(i) == [host |-> list[o[i][1]].rows[o[i][2]].address, pace |-> list[o[i][1]].pace,
                      uid |-> nextUid + number(i), sequence |-> 0, inFlight |-> {},
                      subscribers |-> subs(i)]
           kept(i) == CHOOSE k \in Recyclable(KeyAt(list, o[i])) : TRUE
           old(i) == [probers[kept(i)] EXCEPT !.subscribers = {} \cup subs(i)]
<1>1. /\ probers' = [i \in DOMAIN o |-> IF i \in fresh THEN new(i) ELSE old(i)]
      /\ nextUid' = nextUid + Cardinality(fresh)
  BY DEF rebuildProbers, Recycled, ClearedSubscribers
<1>2. PICK n \in Nat : DOMAIN o = 1..n
  BY OpeningsServe
<1>3. /\ Cardinality(fresh) \in Nat
      /\ \A i \in fresh : number(i) \in Nat /\ number(i) < Cardinality(fresh)
      /\ \A i, k \in fresh : number(i) = number(k) => i = k
  <2>1. fresh \in SUBSET (1..n)
    BY <1>2
  <2> HIDE DEF fresh
  <2> QED BY <2>1, Numbering
<1>4. \A i \in DOMAIN o : subs(i) \subseteq Nat \X Nat
  BY CellsFinite
<1>5. \A i \in DOMAIN o : o[i] \in Cells(list)
  BY OpeningsServe
<1>6. nextUid \in Nat
  BY DEF TypeOK
<1>7. ASSUME NEW i \in DOMAIN o, i \in fresh
      PROVE  /\ probers'[i] \in Prober
             /\ proberKey(probers'[i].host, probers'[i].pace) = KeyAt(list, o[i])
             /\ probers'[i].subscribers = subs(i)
             /\ probers'[i].uid = nextUid + number(i)
  <2>1. probers'[i] = new(i)
    BY <1>1, <1>7
  <2>2. number(i) \in Nat /\ subs(i) \in SUBSET (Nat \X Nat)
    BY <1>3, <1>4, <1>7
  <2>3. list[o[i][1]].rows[o[i][2]].address \in Hosts /\ list[o[i][1]].pace \in Paces
    BY <1>5, CellTypes
  <2> HIDE DEF number, subs, fresh
  <2>4. nextUid + number(i) \in Nat
    BY <1>6, <2>2
  <2>5. new(i) \in Prober
    BY <2>2, <2>3, <2>4 DEF Prober
  <2> QED BY <2>1, <2>5 DEF KeyAt, proberKey
<1>8. ASSUME NEW i \in DOMAIN o, i \notin fresh
      PROVE  /\ probers'[i] \in Prober
             /\ proberKey(probers'[i].host, probers'[i].pace) = KeyAt(list, o[i])
             /\ probers'[i].subscribers = subs(i)
             /\ kept(i) \in Recyclable(KeyAt(list, o[i])) /\ Continues(i, kept(i))
  <2>1. probers'[i] = old(i)
    BY <1>1, <1>8
  <2>2. kept(i) \in Recyclable(KeyAt(list, o[i]))
    BY <1>8
  <2>3. subs(i) \in SUBSET (Nat \X Nat)
    BY <1>4
  <2> HIDE DEF subs, fresh, kept
  <2>4. kept(i) \in DOMAIN probers /\ Key(probers[kept(i)]) = KeyAt(list, o[i])
    BY <2>2 DEF Recyclable
  <2>5. probers[kept(i)] \in Prober
    BY <2>4 DEF TypeOK
  <2>6. old(i) \in Prober /\ old(i).subscribers = subs(i)
        /\ old(i).host = probers[kept(i)].host /\ old(i).pace = probers[kept(i)].pace
        /\ old(i).uid = probers[kept(i)].uid /\ old(i).sequence = probers[kept(i)].sequence
        /\ old(i).inFlight = probers[kept(i)].inFlight
    BY <2>3, <2>5 DEF Prober
  <2> HIDE DEF old
  <2> QED BY <2>1, <2>2, <2>4, <2>6 DEF Key, Continues
<1> HIDE DEF subs, number, new, kept, old
<1>9. DOMAIN probers' = DOMAIN o
  BY <1>1
<1>10. ASSUME NEW i \in DOMAIN o PROVE probers'[i] \in Prober
  BY <1>7, <1>8
<1>11. probers' \in Seq(Prober)
  <2>1. probers' \in [1..n -> Prober]
    BY <1>1, <1>2, <1>10
  <2> QED BY <2>1, IsSequence
<1>12. nextUid' \in Nat /\ nextUid' >= nextUid
  BY <1>1, <1>3, <1>6
<1>13. ASSUME NEW i \in DOMAIN o
       PROVE  \/ \E k \in Recyclable(KeyAt(list, o[i])) : Continues(i, k)
              \/ /\ Recyclable(KeyAt(list, o[i])) = {}
                 /\ nextUid <= probers'[i].uid /\ probers'[i].uid < nextUid'
  <2>1. CASE i \in fresh
    <3>1. probers'[i].uid = nextUid + number(i) /\ number(i) \in Nat /\ number(i) < Cardinality(fresh)
      BY <1>3, <1>7, <2>1
    <3> HIDE DEF fresh
    <3>2. nextUid <= probers'[i].uid /\ probers'[i].uid < nextUid'
      BY <1>1, <1>3, <1>6, <3>1
    <3> QED BY <2>1, <3>2 DEF fresh
  <2>2. CASE i \notin fresh
    BY <1>8, <2>2
  <2> QED BY <2>1, <2>2
<1>14. ASSUME NEW i \in fresh, NEW j \in fresh, probers'[i].uid = probers'[j].uid
       PROVE  i = j
  <2>1. probers'[i].uid = nextUid + number(i) /\ probers'[j].uid = nextUid + number(j)
    BY <1>7
  <2>2. number(i) \in Nat /\ number(j) \in Nat
    BY <1>3
  <2>3. nextUid + number(i) = nextUid + number(j)
    BY <1>14, <2>1
  <2>4. number(i) = number(j)
    BY <1>6, <2>2, <2>3
  <2> QED BY <1>3, <2>4
<1>15. ASSUME NEW i \in DOMAIN o
       PROVE  /\ proberKey(probers'[i].host, probers'[i].pace) = KeyAt(list, o[i])
              /\ probers'[i].subscribers = {x \in Cells(list) : KeyAt(list, x) = KeyAt(list, o[i])}
  BY <1>7, <1>8 DEF subs
<1> QED BY <1>9, <1>10, <1>11, <1>12, <1>13, <1>14, <1>15

\* A row of the table in memory.
LEMMA RowTypes ==
    ASSUME TypeOK, NEW c \in DOMAIN clients
    PROVE  /\ clients[c] \in Client /\ clients[c].rows \in Seq(Row)
           /\ DOMAIN clients[c].rows \subseteq Nat
           /\ \A d \in DOMAIN clients[c].rows : clients[c].rows[d] \in Row
           /\ DOMAIN clients \subseteq Nat
<1>1. clients \in Seq(Client)
  BY DEF TypeOK
<1>2. clients[c] \in Client /\ DOMAIN clients \subseteq Nat
  BY <1>1
<1>3. clients[c].rows \in Seq(Row)
  BY <1>2 DEF Client
<1> QED BY <1>2, <1>3

\* Where a sample came from and whom it is about.
OwnSample(origin, host) ==
    /\ origin \in Origin
    /\ origin.cookie = cookie /\ origin.host = host /\ origin.from = EndpointOf[host]

\* What a row takes over was measured for the row's own address.
LEMMA CarriedOwn ==
    ASSUME TypeOK, SamplesOwn, NEW client, NEW row, NEW origin \in Carried(client, row)
    PROVE  OwnSample(origin, row.address)
<1> DEFINE same == {x \in UNION {{i} \X DOMAIN clients[i].rows : i \in DOMAIN clients} :
                       /\ clients[x[1]].id = client.id
                       /\ clients[x[1]].rows[x[2]].id = row.id
                       /\ clients[x[1]].rows[x[2]].address = row.address}
           first == CHOOSE x \in same : \A y \in same : x[1] < y[1] \/ (x[1] = y[1] /\ x[2] <= y[2])
<1>1. same # {} /\ origin \in clients[first[1]].rows[first[2]].heard
  BY DEF Carried
<1>2. same \subseteq Nat \X Nat
  BY RowTypes
<1>3. first \in same
  <2>1. \E x \in same : \A y \in same : x[1] < y[1] \/ (x[1] = y[1] /\ x[2] <= y[2])
    <3> HIDE DEF same
    <3> QED BY <1>1, <1>2, FirstPosition, Zenon
  <2> QED BY <2>1
<1>4. /\ first[1] \in DOMAIN clients /\ first[2] \in DOMAIN clients[first[1]].rows
      /\ clients[first[1]].rows[first[2]].address = row.address
  <2> HIDE DEF first
  <2> QED BY <1>3
<1> HIDE DEF first, same
<1>5. clients[first[1]].rows[first[2]] \in Row
  BY <1>4, RowTypes
<1>6. origin \in Origin
  BY <1>1, <1>5 DEF Row
<1>7. origin.cookie = cookie /\ origin.host = row.address /\ origin.from = EndpointOf[origin.host]
  BY <1>1, <1>4 DEF SamplesOwn
<1> QED BY <1>6, <1>7 DEF OwnSample

\* The new rows: those of the list, each enabled one with the prober of its key,
\* and with samples of its own.
LEMMA RebuiltClients ==
    ASSUME TypeOK, SamplesOwn, NEW list \in Layout, NEW o \in Openings(list), rebuildProbers(list, o)
    PROVE  /\ clients' \in Seq(Client) /\ SameRows(clients', list)
           /\ \A x \in Cells(list) :
                 /\ clients'[x[1]].rows[x[2]].prober \in DOMAIN o
                 /\ KeyAt(list, o[clients'[x[1]].rows[x[2]].prober]) = KeyAt(list, x)
           /\ \A c \in DOMAIN clients' : \A d \in DOMAIN clients'[c].rows :
                 \A origin \in clients'[c].rows[d].heard : OwnSample(origin, clients'[c].rows[d].address)
<1> DEFINE serving(c, d) == CHOOSE i \in DOMAIN o : KeyAt(list, o[i]) = KeyAt(list, <<c, d>>)
           row(c, d) == [id |-> list[c].rows[d].id, address |-> list[c].rows[d].address,
                         enabled |-> list[c].rows[d].enabled,
                         prober |-> IF list[c].rows[d].enabled THEN serving(c, d) ELSE 0,
                         heard |-> Carried(list[c], list[c].rows[d])]
           rows(c) == [d \in DOMAIN list[c].rows |-> row(c, d)]
<1>1. clients' = [c \in DOMAIN list |-> [list[c] EXCEPT !.rows = rows(c)]]
  BY DEF rebuildProbers
<1>2. PICK n \in Nat : DOMAIN o = 1..n
  BY OpeningsServe
<1>3. DOMAIN list = 1..Len(list) /\ Len(list) \in Nat
  BY DEF Layout
<1>4. ASSUME NEW c \in DOMAIN list
      PROVE  /\ list[c] \in ClientLayout
             /\ list[c].rows \in Seq(Setting)
             /\ DOMAIN list[c].rows = 1..Len(list[c].rows) /\ Len(list[c].rows) \in Nat
             /\ \A d \in DOMAIN list[c].rows : list[c].rows[d] \in Setting
  <2>1. list[c] \in ClientLayout
    BY DEF Layout
  <2>2. list[c].rows \in Seq(Setting)
    BY <2>1 DEF ClientLayout
  <2> QED BY <2>1, <2>2
<1>5. ASSUME NEW c \in DOMAIN list, NEW d \in DOMAIN list[c].rows, list[c].rows[d].enabled
      PROVE  /\ <<c, d>> \in Cells(list)
             /\ serving(c, d) \in DOMAIN o /\ KeyAt(list, o[serving(c, d)]) = KeyAt(list, <<c, d>>)
  <2>1. <<c, d>> \in Cells(list)
    BY <1>5 DEF Cells
  <2>2. \E i \in DOMAIN o : KeyAt(list, o[i]) = KeyAt(list, <<c, d>>)
    BY <2>1, OpeningsServe
  <2> QED BY <2>1, <2>2
<1> HIDE DEF serving
<1>6. ASSUME NEW c \in DOMAIN list, NEW d \in DOMAIN list[c].rows
      PROVE  row(c, d) \in Row
  <2>1. list[c].rows[d] \in Setting
    BY <1>4
  <2>2. Carried(list[c], list[c].rows[d]) \in SUBSET Origin
    BY CarriedOwn DEF OwnSample
  <2>3. ASSUME list[c].rows[d].enabled PROVE serving(c, d) \in Nat
    <3>1. serving(c, d) \in 1..n
      BY <1>2, <1>5, <2>3
    <3> QED BY <3>1
  <2>4. (IF list[c].rows[d].enabled THEN serving(c, d) ELSE 0) \in Nat
    BY <2>3
  <2> QED BY <2>1, <2>2, <2>4 DEF Setting, Row
<1>7. ASSUME NEW c \in DOMAIN list
      PROVE  rows(c) \in Seq(Row)
  <2>1. rows(c) \in [1..Len(list[c].rows) -> Row]
    <3> HIDE DEF row
    <3> QED BY <1>4, <1>6
  <2> HIDE DEF rows
  <2> QED BY <1>4, <2>1, IsSequence
<1>8. ASSUME NEW c \in DOMAIN list
      PROVE  /\ clients'[c] = [list[c] EXCEPT !.rows = rows(c)]
             /\ clients'[c] \in Client /\ clients'[c].rows = rows(c) /\ clients'[c].pace = list[c].pace
  <2> HIDE DEF rows
  <2>1. clients'[c] = [list[c] EXCEPT !.rows = rows(c)]
    BY <1>1
  <2>2. list[c] \in ClientLayout /\ rows(c) \in Seq(Row)
    BY <1>4, <1>7
  <2> QED BY <2>1, <2>2 DEF ClientLayout, Client
<1>9. clients' \in Seq(Client)
  <2>1. clients' \in [1..Len(list) -> Client]
    <3> HIDE DEF rows
    <3> QED BY <1>1, <1>3, <1>8
  <2> QED BY <1>3, <2>1, IsSequence
<1>10. DOMAIN clients' = DOMAIN list
  BY <1>1
<1>11. ASSUME NEW c \in DOMAIN list
       PROVE  /\ DOMAIN clients'[c].rows = DOMAIN list[c].rows
              /\ \A d \in DOMAIN list[c].rows : clients'[c].rows[d] = row(c, d)
  <2> HIDE DEF row
  <2> QED BY <1>8
<1>12. ASSUME NEW c \in DOMAIN list, NEW d \in DOMAIN list[c].rows
       PROVE  /\ clients'[c].rows[d].address = list[c].rows[d].address
              /\ clients'[c].rows[d].enabled = list[c].rows[d].enabled
              /\ list[c].rows[d].enabled => clients'[c].rows[d].prober = serving(c, d)
              /\ clients'[c].rows[d].heard = Carried(list[c], list[c].rows[d])
  <2>1. /\ row(c, d).address = list[c].rows[d].address
        /\ row(c, d).enabled = list[c].rows[d].enabled
        /\ list[c].rows[d].enabled => row(c, d).prober = serving(c, d)
        /\ row(c, d).heard = Carried(list[c], list[c].rows[d])
    OBVIOUS
  <2> HIDE DEF row
  <2>2. clients'[c].rows[d] = row(c, d)
    BY <1>11
  <2> QED BY <2>1, <2>2
<1> HIDE DEF row, rows
<1>13. SameRows(clients', list)
  BY <1>8, <1>10, <1>11, <1>12 DEF SameRows
<1>14. ASSUME NEW x \in Cells(list)
       PROVE  /\ clients'[x[1]].rows[x[2]].prober \in DOMAIN o
              /\ KeyAt(list, o[clients'[x[1]].rows[x[2]].prober]) = KeyAt(list, x)
  <2>1. x[1] \in DOMAIN list /\ x[2] \in DOMAIN list[x[1]].rows /\ list[x[1]].rows[x[2]].enabled
    BY CellTypes
  <2>2. clients'[x[1]].rows[x[2]].prober = serving(x[1], x[2])
    BY <1>12, <2>1
  <2>3. KeyAt(list, <<x[1], x[2]>>) = KeyAt(list, x)
    BY DEF KeyAt
  <2> QED BY <1>5, <2>1, <2>2, <2>3
<1>15. ASSUME NEW c \in DOMAIN list, NEW d \in DOMAIN list[c].rows,
              NEW origin \in clients'[c].rows[d].heard
       PROVE  OwnSample(origin, clients'[c].rows[d].address)
  BY <1>12, CarriedOwn
<1> QED BY <1>9, <1>10, <1>11, <1>13, <1>14, <1>15

\* The index of a table without repeated uids leads to the prober of each uid.
LEMMA IndexSound ==
    ASSUME NEW table, \A i, j \in DOMAIN table : table[i].uid = table[j].uid => i = j
    PROVE  /\ \A i \in DOMAIN table :
                 table[i].uid \in DOMAIN IndexByUid(table) /\ IndexByUid(table)[table[i].uid] = i
           /\ \A u \in DOMAIN IndexByUid(table) :
                 IndexByUid(table)[u] \in DOMAIN table /\ table[IndexByUid(table)[u]].uid = u
<1>1. DOMAIN IndexByUid(table) = {table[i].uid : i \in DOMAIN table}
  BY DEF IndexByUid
<1>2. ASSUME NEW u \in DOMAIN IndexByUid(table)
      PROVE  IndexByUid(table)[u] \in DOMAIN table /\ table[IndexByUid(table)[u]].uid = u
  <2>1. \E i \in DOMAIN table : table[i].uid = u
    BY <1>1
  <2>2. IndexByUid(table)[u] = CHOOSE i \in DOMAIN table : table[i].uid = u
    BY <1>1, <1>2 DEF IndexByUid
  <2> QED BY <2>1, <2>2
<1> QED BY <1>1, <1>2

\* No uid appears twice in a sound table.
LEMMA UidsDiffer ==
    ASSUME TableSound, NEW i \in DOMAIN probers, NEW j \in DOMAIN probers,
           probers[i].uid = probers[j].uid
    PROVE  i = j
BY DEF TableSound

\* A probe stream that goes on keeps its uid, and a new one gets one of its own.
LEMMA RebuiltUids ==
    ASSUME IInv, NEW list \in Layout, NEW o \in Openings(list), rebuildProbers(list, o)
    PROVE  /\ \A i \in DOMAIN o : probers'[i].uid < nextUid'
           /\ \A i, j \in DOMAIN o : probers'[i].uid = probers'[j].uid => i = j
<1>1. TypeOK /\ TableSound /\ UidSound
  BY DEF IInv
<1>2. /\ nextUid \in Nat /\ nextUid' \in Nat /\ nextUid' >= nextUid
      /\ \A i \in DOMAIN o : probers'[i].uid \in Nat
  <2>1. \A i \in DOMAIN o : probers'[i] \in Prober
    BY <1>1, RebuiltTable
  <2> QED BY <1>1, <2>1, RebuiltTable DEF TypeOK, Prober
<1>3. ASSUME NEW i \in DOMAIN o, NEW k \in Recyclable(KeyAt(list, o[i])), Continues(i, k)
      PROVE  /\ k \in DOMAIN probers /\ Key(probers[k]) = KeyAt(list, o[i])
             /\ probers'[i].uid = probers[k].uid /\ probers'[i].uid < nextUid
  BY <1>1, <1>3 DEF Recyclable, Continues, UidSound
<1>4. ASSUME NEW i \in DOMAIN o PROVE probers'[i].uid < nextUid'
  <2>1. CASE Recyclable(KeyAt(list, o[i])) = {}
    BY <1>1, <2>1, RebuiltTable
  <2>2. CASE Recyclable(KeyAt(list, o[i])) # {}
    <3>1. PICK k \in Recyclable(KeyAt(list, o[i])) : Continues(i, k)
      BY <1>1, <2>2, RebuiltTable
    <3>2. probers'[i].uid < nextUid
      BY <1>3, <3>1
    <3> QED BY <1>2, <3>2
  <2> QED BY <2>1, <2>2
<1>5. ASSUME NEW i \in DOMAIN o, NEW j \in DOMAIN o, probers'[i].uid = probers'[j].uid,
             Recyclable(KeyAt(list, o[i])) # {}
      PROVE  i = j
  <2>1. PICK k \in Recyclable(KeyAt(list, o[i])) : Continues(i, k)
    BY <1>1, <1>5, RebuiltTable
  <2>2. /\ k \in DOMAIN probers /\ Key(probers[k]) = KeyAt(list, o[i])
        /\ probers'[i].uid = probers[k].uid /\ probers'[i].uid < nextUid
    BY <1>3, <2>1
  <2>3. CASE Recyclable(KeyAt(list, o[j])) = {}
    <3>1. nextUid <= probers'[j].uid
      BY <1>1, <2>3, RebuiltTable
    <3> QED BY <1>2, <1>5, <2>2, <3>1
  <2>4. CASE Recyclable(KeyAt(list, o[j])) # {}
    <3>1. PICK l \in Recyclable(KeyAt(list, o[j])) : Continues(j, l)
      BY <1>1, <2>4, RebuiltTable
    <3>2. /\ l \in DOMAIN probers /\ Key(probers[l]) = KeyAt(list, o[j])
          /\ probers'[j].uid = probers[l].uid
      BY <1>3, <3>1
    <3>3. k = l
      BY <1>1, <1>5, <2>2, <3>2, UidsDiffer
    <3>4. KeyAt(list, o[i]) = KeyAt(list, o[j])
      BY <2>2, <3>2, <3>3
    <3> QED BY <3>4, OpeningsServe
  <2> QED BY <2>3, <2>4
<1>6. ASSUME NEW i \in DOMAIN o, NEW j \in DOMAIN o, probers'[i].uid = probers'[j].uid
      PROVE  i = j
  <2>1. CASE Recyclable(KeyAt(list, o[i])) = {} /\ Recyclable(KeyAt(list, o[j])) = {}
    BY <1>1, <1>6, <2>1, RebuiltTable
  <2> QED BY <1>5, <1>6, <2>1
<1> QED BY <1>4, <1>6

\* A reload keeps the invariant.
LEMMA ReloadStep ==
    ASSUME IInv, NEW list \in Loads, reloadClients(list)
    PROVE  IInv'
<1>1. list \in Layout
  BY DEF Layout, ClientLayout
<1>2. PICK o \in Openings(list) : rebuildProbers(list, o)
  BY DEF reloadClients
<1>3. TypeOK /\ TableSound /\ UidSound /\ NetSound /\ SamplesOwn /\ UNCHANGED <<cookie, net>>
  BY DEF IInv, reloadClients
<1>4. /\ DOMAIN probers' = DOMAIN o /\ probers' \in Seq(Prober)
      /\ nextUid' \in Nat /\ nextUid' >= nextUid
      /\ \A i \in DOMAIN o :
            /\ probers'[i] \in Prober
            /\ proberKey(probers'[i].host, probers'[i].pace) = KeyAt(list, o[i])
            /\ probers'[i].subscribers = {x \in Cells(list) : KeyAt(list, x) = KeyAt(list, o[i])}
  BY <1>1, <1>2, <1>3, RebuiltTable
<1>5. /\ clients' \in Seq(Client) /\ SameRows(clients', list)
      /\ \A x \in Cells(list) :
            /\ clients'[x[1]].rows[x[2]].prober \in DOMAIN o
            /\ KeyAt(list, o[clients'[x[1]].rows[x[2]].prober]) = KeyAt(list, x)
      /\ \A c \in DOMAIN clients' : \A d \in DOMAIN clients'[c].rows :
            \A origin \in clients'[c].rows[d].heard : OwnSample(origin, clients'[c].rows[d].address)
  BY <1>1, <1>2, <1>3, RebuiltClients
<1>6. /\ \A i \in DOMAIN o : probers'[i].uid < nextUid'
      /\ \A i, j \in DOMAIN o : probers'[i].uid = probers'[j].uid => i = j
  BY <1>1, <1>2, RebuiltUids
<1>7. /\ \A i \in DOMAIN o : probers'[i].uid \in DOMAIN byUid' /\ byUid'[probers'[i].uid] = i
      /\ \A u \in DOMAIN byUid' : byUid'[u] \in DOMAIN o /\ probers'[byUid'[u]].uid = u
  <2>1. byUid' = IndexByUid(probers')
    BY <1>2 DEF rebuildProbers
  <2> QED BY <1>4, <1>6, <2>1, IndexSound
<1>8. TypeOK'
  <2>1. DOMAIN byUid' \subseteq Nat
    <3> SUFFICES ASSUME NEW u \in DOMAIN byUid' PROVE u \in Nat
      OBVIOUS
    <3>1. byUid'[u] \in DOMAIN o /\ probers'[byUid'[u]].uid = u
      BY <1>7
    <3>2. probers'[byUid'[u]] \in Prober
      BY <1>4, <3>1
    <3> QED BY <3>1, <3>2 DEF Prober
  <2> QED BY <1>3, <1>4, <1>5, <1>7, <2>1 DEF TypeOK
<1>9. TableSound'
  <2>1. Cells(clients') = Cells(list) /\ \A x \in Cells(list) : KeyAt(clients', x) = KeyAt(list, x)
    BY <1>5, SameCells
  <2>2. \A i, j \in DOMAIN probers' : Key(probers'[i]) = Key(probers'[j]) => i = j
    BY <1>1, <1>2, <1>4, OpeningsServe DEF Key
  <2>3. ASSUME NEW i \in DOMAIN probers'
        PROVE  probers'[i].subscribers = {x \in Cells(clients') : KeyAt(clients', x) = Key(probers'[i])}
    <3>1. Key(probers'[i]) = KeyAt(list, o[i])
      BY <1>4 DEF Key
    <3> QED BY <1>4, <2>1, <3>1
  <2>4. ASSUME NEW x \in Cells(clients')
        PROVE  /\ clients'[x[1]].rows[x[2]].prober \in DOMAIN probers'
               /\ x \in probers'[clients'[x[1]].rows[x[2]].prober].subscribers
    <3> DEFINE i == clients'[x[1]].rows[x[2]].prober
    <3>1. i \in DOMAIN o /\ KeyAt(list, o[i]) = KeyAt(list, x) /\ x \in Cells(list)
      BY <1>5, <2>1
    <3> HIDE DEF i
    <3>2. x \in probers'[i].subscribers /\ i \in DOMAIN probers'
      BY <1>4, <3>1
    <3> QED BY <3>2 DEF i
  <2> QED BY <1>4, <1>7, <2>2, <2>3, <2>4 DEF TableSound
<1>10. UidSound'
  BY <1>4, <1>6, <1>7 DEF UidSound
<1>11. NetSound'
  <2> SUFFICES ASSUME NEW packet \in net, packet.cookie = cookie, NEW j \in DOMAIN o
               PROVE  /\ packet.uid < nextUid'
                      /\ probers'[j].uid = packet.uid => probers'[j].host = packet.host
    <3>1. \A packet \in net : packet.uid \in Nat
      BY <1>3 DEF TypeOK, Packet
    <3>2. \A packet \in net : packet.cookie = cookie => packet.uid < nextUid'
      BY <1>3, <1>4, <3>1 DEF NetSound, TypeOK
    <3> QED BY <1>3, <1>4, <3>2 DEF NetSound
  <2>1. packet.uid \in Nat /\ packet.uid < nextUid /\ nextUid \in Nat
    BY <1>3 DEF TypeOK, Packet, NetSound
  <2>2. packet.uid < nextUid'
    BY <1>4, <2>1
  <2>3. ASSUME probers'[j].uid = packet.uid PROVE probers'[j].host = packet.host
    <3>1. ~(nextUid <= probers'[j].uid)
      BY <2>1, <2>3
    <3>2. PICK k \in Recyclable(KeyAt(list, o[j])) : Continues(j, k)
      BY <1>1, <1>2, <1>3, <3>1, RebuiltTable
    <3>3. k \in DOMAIN probers /\ probers[k].uid = packet.uid /\ probers'[j].host = probers[k].host
      BY <2>3, <3>2 DEF Recyclable, Continues
    <3> QED BY <1>3, <3>3 DEF NetSound
  <2> QED BY <2>2, <2>3
<1>12. SamplesOwn'
  BY <1>3, <1>5 DEF SamplesOwn, OwnSample
<1> QED BY <1>8, <1>9, <1>10, <1>11, <1>12 DEF IInv
-----------------------------------------------------------------------------
(* Probes, answers and losses: what leaves the tables in place.            *)

\* The probe streams stay, with their subscribers; their numbers only grow.
ProbersKept ==
    /\ probers' \in Seq(Prober) /\ DOMAIN probers' = DOMAIN probers
    /\ \A j \in DOMAIN probers :
          /\ probers'[j].host = probers[j].host /\ probers'[j].pace = probers[j].pace
          /\ probers'[j].uid = probers[j].uid /\ probers'[j].subscribers = probers[j].subscribers
          /\ probers'[j].sequence >= probers[j].sequence

\* The rows stay, with their probers, and what they heard was meant for them.
RowsKept ==
    /\ clients' \in Seq(Client) /\ SameRows(clients', clients)
    /\ \A c \in DOMAIN clients : \A d \in DOMAIN clients[c].rows :
          /\ clients'[c].rows[d].prober = clients[c].rows[d].prober
          /\ \A origin \in clients'[c].rows[d].heard : OwnSample(origin, clients[c].rows[d].address)

\* The type of a prober.
LEMMA ProberTypes ==
    ASSUME TypeOK, NEW i \in DOMAIN probers
    PROVE  /\ DOMAIN probers = 1..Len(probers) /\ Len(probers) \in Nat
           /\ probers \in [1..Len(probers) -> Prober]
           /\ probers[i] \in Prober
           /\ probers[i].host \in Hosts /\ probers[i].pace \in Paces /\ probers[i].uid \in Nat
           /\ probers[i].sequence \in Nat /\ probers[i].inFlight \in SUBSET Nat
<1>1. probers \in Seq(Prober)
  BY DEF TypeOK
<1>2. /\ DOMAIN probers = 1..Len(probers) /\ Len(probers) \in Nat
      /\ probers \in [1..Len(probers) -> Prober] /\ probers[i] \in Prober
  BY <1>1
<1> QED BY <1>2 DEF Prober

\* A prober of the table may be replaced by one of the same stream.
LEMMA ProberReplaced ==
    ASSUME TypeOK, NEW i \in DOMAIN probers, NEW q \in Prober,
           q.host = probers[i].host, q.pace = probers[i].pace, q.uid = probers[i].uid,
           q.subscribers = probers[i].subscribers, q.sequence >= probers[i].sequence,
           probers' = [probers EXCEPT ![i] = q]
    PROVE  ProbersKept
<1>1. /\ DOMAIN probers = 1..Len(probers) /\ Len(probers) \in Nat
      /\ probers \in [1..Len(probers) -> Prober]
      /\ \A j \in DOMAIN probers : probers[j].sequence \in Nat
  BY ProberTypes
<1>2. probers' \in [1..Len(probers) -> Prober]
  BY <1>1
<1>3. probers' \in Seq(Prober)
  BY <1>1, <1>2, IsSequence
<1>4. ASSUME NEW j \in DOMAIN probers
      PROVE  /\ probers'[j].host = probers[j].host /\ probers'[j].pace = probers[j].pace
             /\ probers'[j].uid = probers[j].uid /\ probers'[j].subscribers = probers[j].subscribers
             /\ probers'[j].sequence >= probers[j].sequence
  <2>1. CASE j = i
    <3>1. probers'[j] = q
      BY <2>1
    <3> QED BY <2>1, <3>1
  <2>2. CASE j # i
    <3>1. probers'[j] = probers[j]
      BY <2>2
    <3> QED BY <1>1, <3>1
  <2> QED BY <2>1, <2>2
<1> QED BY <1>3, <1>4 DEF ProbersKept

\* A prober's sample reaches rows with the prober's own host only.
LEMMA SampleApplied ==
    ASSUME TypeOK, TableSound, SamplesOwn, NEW i \in DOMAIN probers, NEW origin,
           OwnSample(origin, probers[i].host), applySample(i, origin)
    PROVE  RowsKept
<1> DEFINE row(c, d) == IF Hears(i, c, d)
                        THEN [clients[c].rows[d] EXCEPT !.heard = @ \cup {origin}]
                        ELSE clients[c].rows[d]
           rows(c) == [d \in DOMAIN clients[c].rows |-> row(c, d)]
<1>1. clients' = [c \in DOMAIN clients |-> [clients[c] EXCEPT !.rows = rows(c)]]
  BY DEF applySample
<1>2. DOMAIN clients = 1..Len(clients) /\ Len(clients) \in Nat
  BY DEF TypeOK
<1>3. ASSUME NEW c \in DOMAIN clients, NEW d \in DOMAIN clients[c].rows
      PROVE  /\ clients[c].rows[d] \in Row /\ row(c, d) \in Row
             /\ row(c, d).address = clients[c].rows[d].address
             /\ row(c, d).enabled = clients[c].rows[d].enabled
             /\ row(c, d).prober = clients[c].rows[d].prober
             /\ row(c, d).heard \subseteq clients[c].rows[d].heard \cup (IF Hears(i, c, d) THEN {origin} ELSE {})
  <2>1. clients[c].rows[d] \in Row /\ origin \in Origin
    BY RowTypes DEF OwnSample
  <2> QED BY <2>1 DEF Row
<1>4. ASSUME NEW c \in DOMAIN clients
      PROVE  rows(c) \in Seq(Row)
  <2>1. clients[c].rows \in Seq(Row)
    BY RowTypes
  <2>2. DOMAIN clients[c].rows = 1..Len(clients[c].rows) /\ Len(clients[c].rows) \in Nat
    BY <2>1
  <2>3. rows(c) \in [1..Len(clients[c].rows) -> Row]
    <3> HIDE DEF row
    <3> QED BY <1>3, <2>2
  <2> HIDE DEF rows
  <2> QED BY <2>2, <2>3, IsSequence
<1>5. ASSUME NEW c \in DOMAIN clients
      PROVE  /\ clients'[c] \in Client /\ clients'[c].rows = rows(c) /\ clients'[c].pace = clients[c].pace
  <2> HIDE DEF rows
  <2>1. clients'[c] = [clients[c] EXCEPT !.rows = rows(c)]
    BY <1>1
  <2>2. clients[c] \in Client /\ rows(c) \in Seq(Row)
    BY <1>4, RowTypes
  <2> QED BY <2>1, <2>2 DEF Client
<1>6. clients' \in Seq(Client)
  <2>1. clients' \in [1..Len(clients) -> Client]
    <3> HIDE DEF rows
    <3> QED BY <1>1, <1>2, <1>5
  <2> QED BY <1>2, <2>1, IsSequence
<1>7. ASSUME NEW c \in DOMAIN clients
      PROVE  /\ DOMAIN clients'[c].rows = DOMAIN clients[c].rows
             /\ \A d \in DOMAIN clients[c].rows : clients'[c].rows[d] = row(c, d)
  <2> HIDE DEF row
  <2> QED BY <1>5
<1>8. DOMAIN clients' = DOMAIN clients
  BY <1>1
<1> HIDE DEF row, rows
<1>9. SameRows(clients', clients)
  BY <1>3, <1>5, <1>7, <1>8 DEF SameRows
<1>10. ASSUME NEW c \in DOMAIN clients, NEW d \in DOMAIN clients[c].rows, Hears(i, c, d)
       PROVE  clients[c].rows[d].address = probers[i].host
  <2>1. <<c, d>> \in Cells(clients) /\ KeyAt(clients, <<c, d>>) = Key(probers[i])
    BY <1>10 DEF Hears, TableSound
  <2> QED BY <2>1 DEF KeyAt, Key, proberKey
<1>11. ASSUME NEW c \in DOMAIN clients, NEW d \in DOMAIN clients[c].rows,
              NEW x \in clients'[c].rows[d].heard
       PROVE  OwnSample(x, clients[c].rows[d].address)
  <2>1. x \in row(c, d).heard
    BY <1>7
  <2>2. CASE x \in clients[c].rows[d].heard
    <3>1. x \in Origin
      BY <1>3, <2>2 DEF Row
    <3> QED BY <2>2, <3>1 DEF SamplesOwn, OwnSample
  <2>3. CASE Hears(i, c, d) /\ x = origin
    BY <1>10, <2>3
  <2> QED BY <1>3, <2>1, <2>2, <2>3
<1> QED BY <1>3, <1>6, <1>7, <1>9, <1>11 DEF RowsKept

\* Rows that do not change keep what they heard.
LEMMA RowsUnchanged ==
    ASSUME TypeOK, SamplesOwn, UNCHANGED clients
    PROVE  RowsKept
<1>1. SameRows(clients', clients)
  BY DEF SameRows
<1>2. ASSUME NEW c \in DOMAIN clients, NEW d \in DOMAIN clients[c].rows,
             NEW x \in clients[c].rows[d].heard
      PROVE  OwnSample(x, clients[c].rows[d].address)
  <2>1. clients[c].rows[d] \in Row
    BY RowTypes
  <2>2. x \in Origin
    BY <2>1 DEF Row
  <2> QED BY <2>2 DEF SamplesOwn, OwnSample
<1> QED BY <1>1, <1>2 DEF RowsKept, TypeOK

\* While streams and rows are kept the tables go on agreeing.
LEMMA TablesKept ==
    ASSUME IInv, ProbersKept, RowsKept, UNCHANGED <<byUid, nextUid, cookie>>,
           net' \subseteq Packet, NetSound'
    PROVE  IInv'
<1>1. TypeOK /\ TableSound /\ UidSound /\ SamplesOwn
  BY DEF IInv
<1>2. TypeOK'
  BY <1>1 DEF TypeOK, ProbersKept, RowsKept
<1>3. UidSound'
  BY <1>1 DEF UidSound, ProbersKept
<1>4. TableSound'
  <2>1. SameRows(clients', clients)
    BY DEF RowsKept
  <2>2. Cells(clients') = Cells(clients) /\ \A x \in Cells(clients) : KeyAt(clients', x) = KeyAt(clients, x)
    BY <2>1, SameCells
  <2>3. /\ DOMAIN probers' = DOMAIN probers
        /\ \A j \in DOMAIN probers : /\ Key(probers'[j]) = Key(probers[j])
                                     /\ probers'[j].uid = probers[j].uid
                                     /\ probers'[j].subscribers = probers[j].subscribers
    BY DEF ProbersKept, Key
  <2>4. ASSUME NEW x \in Cells(clients)
        PROVE  clients'[x[1]].rows[x[2]].prober = clients[x[1]].rows[x[2]].prober
    <3>1. x[1] \in DOMAIN clients /\ x[2] \in DOMAIN clients[x[1]].rows
      BY DEF Cells
    <3> QED BY <3>1 DEF RowsKept
  <2>5. \A i, j \in DOMAIN probers' : Key(probers'[i]) = Key(probers'[j]) => i = j
    BY <1>1, <2>3 DEF TableSound
  <2>6. \A i \in DOMAIN probers' :
           /\ probers'[i].subscribers = {x \in Cells(clients') : KeyAt(clients', x) = Key(probers'[i])}
           /\ probers'[i].uid \in DOMAIN byUid' /\ byUid'[probers'[i].uid] = i
    BY <1>1, <2>2, <2>3 DEF TableSound
  <2>7. \A x \in Cells(clients') :
           /\ clients'[x[1]].rows[x[2]].prober \in DOMAIN probers'
           /\ x \in probers'[clients'[x[1]].rows[x[2]].prober].subscribers
    BY <1>1, <2>2, <2>3, <2>4 DEF TableSound
  <2> QED BY <2>5, <2>6, <2>7 DEF TableSound
<1>5. SamplesOwn'
  BY DEF RowsKept, SameRows, SamplesOwn, OwnSample
<1> QED BY <1>2, <1>3, <1>4, <1>5 DEF IInv

\* Packets already on the wire stay sound.
LEMMA NetKept ==
    ASSUME NetSound, ProbersKept, UNCHANGED <<nextUid, cookie, net>>
    PROVE  NetSound'
BY DEF NetSound, ProbersKept

\* What a prober counts as a loss is a sample for its own host.
LEMMA LossIsOwn ==
    ASSUME TypeOK, NEW i \in DOMAIN probers
    PROVE  OwnSample(Own(i), probers[i].host)
<1>1. probers[i].host \in Hosts
  BY ProberTypes
<1> QED BY <1>1 DEF OwnSample, Own, Origin, TypeOK

\* A probe that leaves, and one that cannot, keep the invariant.
LEMMA SendStep ==
    ASSUME IInv, NEW i \in DOMAIN probers, sendProbe(i)
    PROVE  IInv' /\ ProbersKept
<1> DEFINE p == probers[i]
<1>1. TypeOK /\ TableSound /\ UidSound /\ NetSound /\ SamplesOwn
  BY DEF IInv
<1>2. p \in Prober /\ p.sequence \in Nat /\ p.inFlight \in SUBSET Nat /\ p.uid \in Nat /\ p.host \in Hosts
  BY <1>1, ProberTypes
<1>3. net \subseteq Packet /\ cookie \in Nat /\ nextUid \in Nat
  BY <1>1 DEF TypeOK
<1>4. UNCHANGED <<byUid, nextUid, cookie>>
  BY DEF sendProbe
<1>5. CASE /\ probers' = [probers EXCEPT ![i].sequence = @ + 1, ![i].inFlight = @ \cup {p.sequence + 1}]
           /\ net' = net \cup {send(p)} /\ UNCHANGED clients
  <2> DEFINE n == p.sequence + 1
             flight == p.inFlight \cup {n}
             q == [p EXCEPT !.sequence = n, !.inFlight = flight]
  <2>1. probers' = [probers EXCEPT ![i] = q]
    BY <1>5
  <2>2. /\ q \in Prober /\ q.host = p.host /\ q.pace = p.pace /\ q.uid = p.uid
        /\ q.subscribers = p.subscribers /\ q.sequence >= p.sequence
    <3>1. n \in Nat /\ n >= p.sequence
      BY <1>2
    <3>2. flight \in SUBSET Nat
      BY <1>2, <3>1
    <3> HIDE DEF n, flight
    <3> QED BY <1>2, <3>1, <3>2 DEF Prober
  <2> HIDE DEF q
  <2>3. ProbersKept
    BY <1>1, <2>1, <2>2, ProberReplaced
  <2>4. RowsKept
    BY <1>1, <1>5, RowsUnchanged
  <2>5. /\ send(p) \in Packet /\ send(p).cookie = cookie /\ send(p).uid = p.uid /\ send(p).host = p.host
    BY <1>2, <1>3 DEF send, Packet
  <2>6. p.uid < nextUid
    BY <1>1 DEF UidSound
  <2>7. \A j \in DOMAIN probers : probers[j].uid = p.uid => probers[j].host = p.host
    BY <1>1, UidsDiffer
  <2>8. NetSound'
    <3> SUFFICES ASSUME NEW packet \in net'
                 PROVE  /\ packet.cookie <= cookie
                        /\ packet.cookie = cookie =>
                              /\ packet.uid < nextUid
                              /\ \A j \in DOMAIN probers :
                                    probers[j].uid = packet.uid => probers[j].host = packet.host
      BY <1>4, <2>3 DEF NetSound, ProbersKept
    <3>1. CASE packet \in net
      BY <1>1, <3>1 DEF NetSound
    <3>2. CASE packet = send(p)
      BY <1>3, <2>5, <2>6, <2>7, <3>2
    <3> QED BY <1>5, <3>1, <3>2
  <2>9. net' \subseteq Packet
    BY <1>3, <1>5, <2>5
  <2> QED BY <1>4, <2>3, <2>4, <2>8, <2>9, TablesKept
<1>6. CASE /\ probers' \in {[probers EXCEPT ![i].sequence = @ + k] : k \in 0..1}
           /\ applySample(i, Own(i)) /\ UNCHANGED net
  <2>1. PICK k \in 0..1 : probers' = [probers EXCEPT ![i].sequence = @ + k]
    BY <1>6
  <2> DEFINE n == p.sequence + k
             q == [p EXCEPT !.sequence = n]
  <2>2. probers' = [probers EXCEPT ![i] = q]
    BY <2>1
  <2>3. /\ q \in Prober /\ q.host = p.host /\ q.pace = p.pace /\ q.uid = p.uid
        /\ q.subscribers = p.subscribers /\ q.sequence >= p.sequence
    <3>1. n \in Nat /\ n >= p.sequence
      BY <1>2
    <3> HIDE DEF n
    <3> QED BY <1>2, <3>1 DEF Prober
  <2> HIDE DEF q
  <2>4. ProbersKept
    BY <1>1, <2>2, <2>3, ProberReplaced
  <2>5. RowsKept
    BY <1>1, <1>6, LossIsOwn, SampleApplied
  <2>6. NetSound'
    BY <1>1, <1>4, <1>6, <2>4, NetKept
  <2> QED BY <1>3, <1>4, <1>6, <2>4, <2>5, <2>6, TablesKept
<1> QED BY <1>5, <1>6 DEF sendProbe

\* A probe that leaves the queue takes nothing else with it.
LEMMA ProbeLeaves ==
    ASSUME TypeOK, NEW i \in DOMAIN probers, NEW seq,
           probers' = [probers EXCEPT ![i].inFlight = @ \ {seq}]
    PROVE  /\ ProbersKept
           /\ \A j \in DOMAIN probers : probers[j].inFlight \ probers'[j].inFlight \subseteq {seq}
<1> DEFINE p == probers[i]
           q == [p EXCEPT !.inFlight = p.inFlight \ {seq}]
<1>1. p \in Prober /\ p.sequence \in Nat /\ p.inFlight \in SUBSET Nat
  BY ProberTypes
<1>2. probers' = [probers EXCEPT ![i] = q]
  OBVIOUS
<1>3. /\ q \in Prober /\ q.host = p.host /\ q.pace = p.pace /\ q.uid = p.uid
      /\ q.subscribers = p.subscribers /\ q.sequence >= p.sequence
      /\ q.inFlight = p.inFlight \ {seq}
  BY <1>1 DEF Prober
<1> HIDE DEF q
<1>4. ProbersKept
  BY <1>2, <1>3, ProberReplaced
<1>5. ASSUME NEW j \in DOMAIN probers PROVE probers[j].inFlight \ probers'[j].inFlight \subseteq {seq}
  BY <1>2, <1>3
<1> QED BY <1>4, <1>5

\* Giving up on a probe keeps the invariant.
LEMMA GiveUpStep ==
    ASSUME IInv, NEW i \in DOMAIN probers, NEW seq, giveUp(i, seq)
    PROVE  IInv'
<1>1. TypeOK /\ TableSound /\ NetSound /\ SamplesOwn
  BY DEF IInv
<1>2. ProbersKept
  BY <1>1, ProbeLeaves DEF giveUp
<1>3. RowsKept
  BY <1>1, LossIsOwn, SampleApplied DEF giveUp
<1>4. NetSound'
  BY <1>1, <1>2, NetKept DEF giveUp
<1>5. net' \subseteq Packet /\ UNCHANGED <<byUid, nextUid, cookie>>
  BY <1>1 DEF TypeOK, giveUp
<1> QED BY <1>2, <1>3, <1>4, <1>5, TablesKept

\* An answer is a sample for the host of the prober it is given to: the cookie says
\* that this process sent the packet, and then its uid is that prober's alone.
LEMMA ReplyStep ==
    ASSUME IInv, NEW packet \in net, NEW from \in Endpoints, handleReply(packet, from)
    PROVE  IInv'
<1> DEFINE i == byUid[packet.uid]
           origin == [cookie |-> packet.cookie, host |-> packet.host, from |-> from]
<1>1. TypeOK /\ TableSound /\ UidSound /\ NetSound /\ SamplesOwn
  BY DEF IInv
<1>2. i \in DOMAIN probers /\ probers[i].uid = packet.uid
  BY <1>1 DEF handleReply, UidSound
<1>3. packet.cookie = cookie /\ EndpointOf[probers[i].host] = from
  BY DEF handleReply, receives, matches
<1>4. probers[i].host = packet.host
  BY <1>1, <1>2, <1>3 DEF NetSound
<1>5. OwnSample(origin, probers[i].host)
  <2>1. packet.host \in Hosts /\ cookie \in Nat
    BY <1>1 DEF TypeOK, Packet
  <2> QED BY <1>3, <1>4, <2>1 DEF OwnSample, Origin
<1>6. probers' = [probers EXCEPT ![i].inFlight = @ \ {packet.seq}] /\ applySample(i, origin)
  BY DEF handleReply
<1> HIDE DEF i, origin
<1>7. ProbersKept
  BY <1>1, <1>2, <1>6, ProbeLeaves
<1>8. RowsKept
  BY <1>1, <1>2, <1>5, <1>6, SampleApplied
<1>9. NetSound'
  BY <1>1, <1>7, NetKept DEF handleReply
<1>10. net' \subseteq Packet /\ UNCHANGED <<byUid, nextUid, cookie>>
  BY <1>1 DEF TypeOK, handleReply
<1> QED BY <1>7, <1>8, <1>9, <1>10, TablesKept

\* Empty tables are sound whatever is on the wire from earlier processes.
LEMMA EmptyTables ==
    ASSUME clients = << >>, probers = << >>, byUid = << >>, nextUid = 1, cookie \in Nat,
           net \subseteq Packet, \A packet \in net : packet.cookie < cookie
    PROVE  IInv
<1>1. \A packet \in net : packet.cookie \in Nat
  BY DEF Packet
<1>2. Cells(clients) = {}
  BY DEF Cells
<1>3. TypeOK
  BY DEF TypeOK
<1>4. TableSound /\ UidSound /\ SamplesOwn
  BY <1>2 DEF TableSound, UidSound, SamplesOwn
<1>5. NetSound
  BY <1>1 DEF NetSound
<1> QED BY <1>3, <1>4, <1>5 DEF IInv

\* A new process takes no packet of the one before it.
LEMMA RestartStep ==
    ASSUME IInv, Restart
    PROVE  IInv'
<1>1. net' \subseteq Packet /\ cookie \in Nat /\ cookie' = cookie + 1 /\ net' = net
  BY DEF IInv, TypeOK, Restart
<1>2. \A packet \in net : packet.cookie \in Nat /\ packet.cookie <= cookie
  BY <1>1 DEF IInv, NetSound, Packet
<1>3. \A packet \in net' : packet.cookie < cookie'
  BY <1>1, <1>2
<1>4. clients' = << >> /\ probers' = << >> /\ byUid' = << >> /\ nextUid' = 1 /\ cookie' \in Nat
  BY <1>1 DEF Restart
<1>5. \A packet \in net' : packet.cookie \in Nat
  BY <1>1 DEF Packet
<1>6. Cells(clients') = {}
  BY <1>4 DEF Cells
<1>7. TypeOK'
  BY <1>1, <1>4 DEF TypeOK
<1>8. TableSound' /\ UidSound' /\ SamplesOwn'
  BY <1>4, <1>6 DEF TableSound, UidSound, SamplesOwn
<1>9. NetSound'
  BY <1>3, <1>4, <1>5 DEF NetSound
<1> QED BY <1>7, <1>8, <1>9 DEF IInv

\* The tables agree in every reachable state.
LEMMA Invariance == Spec => []IInv
<1>1. Init => IInv
  <2> SUFFICES ASSUME Init PROVE IInv
    OBVIOUS
  <2>1. net \subseteq Packet /\ cookie \in Nat /\ \A packet \in net : packet.cookie < cookie
    BY DEF Init
  <2> QED BY <2>1, EmptyTables DEF Init
<1>2. IInv /\ [Next]_vars => IInv'
  <2> SUFFICES ASSUME IInv, [Next]_vars PROVE IInv'
    OBVIOUS
  <2>1. ASSUME NEW list \in Loads, reloadClients(list) PROVE IInv'
    BY <2>1, ReloadStep
  <2>2. ASSUME NEW i \in DOMAIN probers, sendProbe(i) PROVE IInv'
    BY <2>2, SendStep
  <2>3. ASSUME NEW i \in DOMAIN probers, NEW seq, giveUp(i, seq) PROVE IInv'
    BY <2>3, GiveUpStep
  <2>4. ASSUME NEW packet \in net, NEW from \in Endpoints, handleReply(packet, from) PROVE IInv'
    BY <2>4, ReplyStep
  <2>5. CASE Restart
    BY <2>5, RestartStep
  <2>6. CASE UNCHANGED vars
    BY <2>6 DEF vars, IInv, TypeOK, TableSound, UidSound, NetSound, SamplesOwn
  <2> QED BY <2>1, <2>2, <2>3, <2>4, <2>5, <2>6 DEF Next
<1> QED BY <1>1, <1>2, PTL DEF Spec

-----------------------------------------------------------------------------
(* What holds of the tables, whatever the documents and the network do.    *)

\* However the widgets' files change, every table entry keeps its type: no position
\* the index names lies outside the prober table.
THEOREM ClientsTypeCorrect == Spec => []TypeOK
<1>1. IInv => TypeOK
  BY DEF IInv
<1> QED BY <1>1, Invariance, PTL

\* rebuildProbers leaves a table in which every enabled row is a subscriber of the
\* one prober of its host and pace, and rows and uids lead to it.
THEOREM TableAlwaysSound == Spec => []TableSound
<1>1. IInv => TableSound
  BY DEF IInv
<1> QED BY <1>1, Invariance, PTL

\* No row's state rests on a sample that another host answered, that was taken for
\* another host or by an earlier process, though replies come late, twice and after
\* any number of reloads.
THEOREM SamplesAlwaysOwn == Spec => []SamplesOwn
<1>1. IInv => SamplesOwn
  BY DEF IInv
<1> QED BY <1>1, Invariance, PTL

\* A reload takes over the stream of every key that is still wanted.
LEMMA ReloadKeeps ==
    ASSUME IInv, NEW list \in Loads, reloadClients(list),
           NEW i \in DOMAIN probers, NEW j \in DOMAIN probers',
           Key(probers[i]) = proberKey(probers'[j].host, probers'[j].pace)
    PROVE  Continues(j, i)
<1>1. list \in Layout /\ TypeOK /\ TableSound
  BY DEF Layout, ClientLayout, IInv
<1>2. PICK o \in Openings(list) : rebuildProbers(list, o)
  BY DEF reloadClients
<1>3. j \in DOMAIN o /\ proberKey(probers'[j].host, probers'[j].pace) = KeyAt(list, o[j])
  BY <1>1, <1>2, RebuiltTable
<1>4. i \in Recyclable(KeyAt(list, o[j]))
  BY <1>3 DEF Recyclable
<1>5. PICK k \in Recyclable(KeyAt(list, o[j])) : Continues(j, k)
  BY <1>1, <1>2, <1>3, <1>4, RebuiltTable
<1>6. k = i
  BY <1>1, <1>4 DEF Recyclable, TableSound
<1> QED BY <1>5, <1>6

\* While the process lives a stream that is wanted goes on under its uid, never uses
\* a sequence number twice, and loses at most one probe under way in a step, to an
\* answer or to giving up: no reload drops what has been sent.
THEOREM StreamsAlwaysKept == Spec => StreamsKept
<1> DEFINE Kept(i, j) == /\ probers'[j].uid = probers[i].uid
                         /\ probers'[j].sequence >= probers[i].sequence
                         /\ \A s, t \in probers[i].inFlight \ probers'[j].inFlight : s = t
                         /\ \/ /\ probers'[j].sequence = probers[i].sequence
                               /\ probers'[j].inFlight = probers[i].inFlight
                            \/ Probing
           Step == cookie' = cookie =>
                      \A i \in DOMAIN probers, j \in DOMAIN probers' :
                          Key(probers[i]) = proberKey(probers'[j].host, probers'[j].pace) => Kept(i, j)
<1>1. IInv /\ [Next]_vars => Step
  <2> SUFFICES ASSUME IInv, [Next]_vars, cookie' = cookie,
                      NEW i \in DOMAIN probers, NEW j \in DOMAIN probers',
                      Key(probers[i]) = proberKey(probers'[j].host, probers'[j].pace)
               PROVE  Kept(i, j)
    OBVIOUS
  <2>1. TypeOK /\ TableSound /\ UidSound /\ cookie \in Nat
    BY DEF IInv, TypeOK
  <2>2. probers[i].sequence \in Nat
    BY <2>1, ProberTypes
  <2>3. ASSUME ProbersKept PROVE i = j /\ probers'[j].uid = probers[i].uid /\ probers'[j].sequence >= probers[i].sequence
    <3>1. j \in DOMAIN probers /\ Key(probers[i]) = Key(probers[j])
      BY <2>3 DEF ProbersKept, Key
    <3>2. i = j
      BY <2>1, <3>1 DEF TableSound
    <3> QED BY <2>3, <3>1, <3>2 DEF ProbersKept
  <2>4. ASSUME NEW list \in Loads, reloadClients(list) PROVE Kept(i, j)
    BY <2>2, <2>4, ReloadKeeps DEF Continues
  <2>5. ASSUME NEW a \in DOMAIN probers, sendProbe(a) PROVE Kept(i, j)
    <3>1. ProbersKept
      BY <2>5, SendStep
    <3>2. probers[i].inFlight \subseteq probers'[i].inFlight
      <4>1. probers \in [1..Len(probers) -> Prober] /\ probers[a] \in Prober /\ DOMAIN probers = 1..Len(probers)
        BY <2>1, ProberTypes
      <4>2. CASE probers' = [probers EXCEPT ![a].sequence = @ + 1,
                                            ![a].inFlight = @ \cup {probers[a].sequence + 1}]
        <5> DEFINE q == [probers[a] EXCEPT !.sequence = probers[a].sequence + 1,
                                           !.inFlight = probers[a].inFlight \cup {probers[a].sequence + 1}]
        <5>1. probers' = [probers EXCEPT ![a] = q] /\ probers[a].inFlight \subseteq q.inFlight
          BY <4>1, <4>2 DEF Prober
        <5> HIDE DEF q
        <5> QED BY <5>1
      <4>3. CASE probers' \in {[probers EXCEPT ![a].sequence = @ + k] : k \in 0..1}
        <5>1. PICK k \in 0..1 : probers' = [probers EXCEPT ![a].sequence = @ + k]
          BY <4>3
        <5> DEFINE q == [probers[a] EXCEPT !.sequence = probers[a].sequence + k]
        <5>2. probers' = [probers EXCEPT ![a] = q] /\ probers[a].inFlight = q.inFlight
          BY <4>1, <5>1 DEF Prober
        <5> HIDE DEF q
        <5> QED BY <5>2
      <4> QED BY <2>5, <4>2, <4>3 DEF sendProbe
    <3>3. Probing
      BY <2>5 DEF Probing
    <3> QED BY <2>3, <3>1, <3>2, <3>3
  <2>6. ASSUME NEW a \in DOMAIN probers, NEW seq, giveUp(a, seq) PROVE Kept(i, j)
    <3>1. ProbersKept /\ probers[i].inFlight \ probers'[i].inFlight \subseteq {seq}
      BY <2>1, <2>6, ProbeLeaves DEF giveUp
    <3>2. Probing
      BY <2>6 DEF Probing, giveUp
    <3> QED BY <2>3, <3>1, <3>2
  <2>7. ASSUME NEW packet \in net, NEW from \in Endpoints, handleReply(packet, from) PROVE Kept(i, j)
    <3> DEFINE a == byUid[packet.uid]
    <3>1. a \in DOMAIN probers
      BY <2>1, <2>7 DEF handleReply, UidSound
    <3>2. probers' = [probers EXCEPT ![a].inFlight = @ \ {packet.seq}]
      BY <2>7 DEF handleReply
    <3> HIDE DEF a
    <3>3. ProbersKept /\ probers[i].inFlight \ probers'[i].inFlight \subseteq {packet.seq}
      BY <2>1, <3>1, <3>2, ProbeLeaves
    <3>4. Probing
      BY <2>7 DEF Probing
    <3> QED BY <2>3, <3>3, <3>4
  <2>8. CASE Restart
    BY <2>1, <2>8 DEF Restart
  <2>9. CASE UNCHANGED vars
    <3>1. i = j /\ probers' = probers
      BY <2>1, <2>9 DEF vars, TableSound, Key
    <3> QED BY <2>2, <3>1
  <2> QED BY <2>4, <2>5, <2>6, <2>7, <2>8, <2>9 DEF Next
<1>2. Spec => [][Step]_vars
  BY <1>1, Invariance, PTL DEF Spec
<1> QED BY <1>2 DEF StreamsKept
=============================================================================
