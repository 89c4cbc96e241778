------------------------------ MODULE Clients ------------------------------
(***************************************************************************)
(* The daemon's tables: the clients' destinations, the probe streams they  *)
(* share, and how a packet that comes back finds the destinations it is    *)
(* about.  Everything refers to everything else by position (subscribers   *)
(* to rows, rows and uids to probers), the whole table is rebuilt whenever *)
(* a widget's file changes, and the packets of a table that is gone, or of *)
(* a process that is gone, are still on the wire.                          *)
(*                                                                         *)
(* What reading the directory gives (module ClientFile) is an element of   *)
(* Loads; timing is module Prober's, and so is a host that resolves to     *)
(* another address: here each has one endpoint.  The LED logic, module     *)
(* Health's, is reduced to the history "heard": where the samples came     *)
(* from that made the state a row carries.                                 *)
(***************************************************************************)
EXTENDS Naturals, Sequences, FiniteSets

CONSTANTS
    Loads,          \* what reloadClients may read: sorted lists of clients
    Hosts, Paces,   \* row addresses; intervals with their timeouts
    ClientIds, RowIds,
    Endpoints, EndpointOf,  \* network addresses; two hosts may share one
    MaxUid, MaxSeq, MaxCookie, \* bounds: probers made, probes each, processes,
    MaxNet                     \* packets on the wire

Setting == [id: RowIds, address: Hosts, enabled: BOOLEAN]

ASSUME ClientsAssumption ==
    /\ Loads \subseteq Seq([id: ClientIds, pace: Paces, rows: Seq(Setting)])
    /\ EndpointOf \in [Hosts -> Endpoints]
    /\ MaxUid \in Nat /\ MaxSeq \in Nat /\ MaxCookie \in Nat /\ MaxNet \in Nat

VARIABLES
    clients,    \* m_clients
    probers,    \* m_probers
    byUid,      \* m_proberByUid
    nextUid,    \* m_nextUid
    cookie,     \* m_cookie; a new process draws one no packet carries
    net         \* echo requests sent; each may be answered, any number of times

vars == <<clients, probers, byUid, nextUid, cookie, net>>

Origin == [cookie: Nat, host: Hosts, from: Endpoints]
Row == [id: RowIds, address: Hosts, enabled: BOOLEAN, prober: Nat, heard: SUBSET Origin]
Client == [id: ClientIds, pace: Paces, rows: Seq(Row)]
Prober == [host: Hosts, pace: Paces, uid: Nat, sequence: Nat, inFlight: SUBSET Nat,
           subscribers: SUBSET (Nat \X Nat)]
Packet == [cookie: Nat, uid: Nat, seq: Nat, host: Hosts]

TypeOK ==
    /\ clients \in Seq(Client)
    /\ probers \in Seq(Prober)
    /\ nextUid \in Nat /\ cookie \in Nat
    /\ DOMAIN byUid \subseteq Nat /\ \A u \in DOMAIN byUid : byUid[u] \in DOMAIN probers
    /\ net \subseteq Packet

-----------------------------------------------------------------------------
\* What destinations must agree on to share a probe stream.
proberKey(host, pace) == <<host, pace>>

\* The evaluated state a row takes over: that of the first row of the same
\* client with its id and its address, if there was one.
Carried(client, row) ==
    LET same == {x \in UNION {{i} \X DOMAIN clients[i].rows : i \in DOMAIN clients} :
                    /\ clients[x[1]].id = client.id
                    /\ clients[x[1]].rows[x[2]].id = row.id
                    /\ clients[x[1]].rows[x[2]].address = row.address}
        first == CHOOSE x \in same : \A y \in same : x[1] < y[1] \/ (x[1] = y[1] /\ x[2] <= y[2])
    IN IF same = {} THEN {} ELSE clients[first[1]].rows[first[2]].heard

\* The positions of the enabled rows of a list of clients, and their keys.
Cells(list) == {x \in UNION {{i} \X DOMAIN list[i].rows : i \in DOMAIN list} :
                    list[x[1]].rows[x[2]].enabled}
KeyAt(list, x) == proberKey(list[x[1]].rows[x[2]].address, list[x[1]].pace)
Before(x, y) == x[1] < y[1] \/ (x[1] = y[1] /\ x[2] < y[2])
Key(p) == proberKey(p.host, p.pace)

\* The cells that open a prober: each the first of its key, in the order the
\* loops over clients and destinations come to them.
Openings(list) ==
    LET opening == {x \in Cells(list) : \A y \in Cells(list) : KeyAt(list, y) = KeyAt(list, x) => ~Before(y, x)}
    IN {o \in [1..Cardinality(opening) -> opening] :
            \A i, j \in DOMAIN o : i < j => Before(o[i], o[j])}

Recyclable(key) == {i \in DOMAIN probers : Key(probers[i]) = key}

\* Mutant: a prober whose first subscriber moved is made anew.
RecycledInPlace(key, i) ==
    IF i \in DOMAIN probers /\ Key(probers[i]) = key THEN {i} ELSE {}

\* The prober of that key in the table being replaced (it is taken at most
\* once: keys are asked for once).
Recycled(key, i) == Recyclable(key)

\* Mutant: a recycled prober keeps the subscribers it had.
KeptSubscribers(p) == p.subscribers

\* A recycled prober starts without subscribers.
ClearedSubscribers(p) == {}

\* Mutant: the position the next prober will have.
NextByUid(table) ==
    [u \in {table[i].uid : i \in DOMAIN table} |-> 1 + CHOOSE i \in DOMAIN table : table[i].uid = u]

IndexByUid(table) ==
    [u \in {table[i].uid : i \in DOMAIN table} |-> CHOOSE i \in DOMAIN table : table[i].uid = u]

\* rebuildProbers for a freshly loaded list, the probers opened at o.
rebuildProbers(list, o) ==
    LET fresh == {i \in DOMAIN o : Recycled(KeyAt(list, o[i]), i) = {}}
        At(i) == list[o[i][1]].rows[o[i][2]]
        Subscribers(i) == {x \in Cells(list) : KeyAt(list, x) = KeyAt(list, o[i])}
        New(i) == [host |-> At(i).address, pace |-> list[o[i][1]].pace,
                   uid |-> nextUid + Cardinality({j \in fresh : j < i}),
                   sequence |-> 0, inFlight |-> {}, subscribers |-> Subscribers(i)]
        Old(i) == LET p == probers[CHOOSE k \in Recycled(KeyAt(list, o[i]), i) : TRUE]
                  IN [p EXCEPT !.subscribers = ClearedSubscribers(p) \cup Subscribers(i)]
    IN /\ probers' = [i \in DOMAIN o |-> IF i \in fresh THEN New(i) ELSE Old(i)]
       /\ nextUid' = nextUid + Cardinality(fresh)
       /\ byUid' = IndexByUid(probers')
       /\ clients' = [c \in DOMAIN list |-> [list[c] EXCEPT !.rows =
              [d \in DOMAIN list[c].rows |->
                  [id |-> @[d].id, address |-> @[d].address, enabled |-> @[d].enabled,
                   prober |-> IF @[d].enabled
                              THEN CHOOSE i \in DOMAIN o : KeyAt(list, o[i]) = KeyAt(list, <<c, d>>)
                              ELSE 0,
                   heard |-> Carried(list[c], @[d])]]]]

reloadClients(list) ==
    /\ \E o \in Openings(list) : rebuildProbers(list, o)
    /\ nextUid' <= MaxUid + 1
    /\ UNCHANGED <<cookie, net>>

\* applySample: the sample reaches the rows the prober's subscribers name, as
\* far as they exist.
Hears(i, c, d) == <<c, d>> \in probers[i].subscribers

applySample(i, origin) ==
    clients' = [c \in DOMAIN clients |-> [clients[c] EXCEPT !.rows =
        [d \in DOMAIN clients[c].rows |->
            LET row == clients[c].rows[d]
            IN IF Hears(i, c, d) THEN [row EXCEPT !.heard = row.heard \cup {origin}] ELSE row]]]

Own(i) == [cookie |-> cookie, host |-> probers[i].host, from |-> EndpointOf[probers[i].host]]

\* IcmpSocket::send: what identifies the probe travels in its payload.
send(p) == [cookie |-> cookie, uid |-> p.uid, seq |-> p.sequence + 1, host |-> p.host]

\* sendProbe: the packet leaves, or there is no socket, no route or no address
\* and the sample is a loss at once.
sendProbe(i) ==
    LET p == probers[i]
    IN /\ p.sequence < MaxSeq
       /\ \/ /\ Cardinality(net) < MaxNet
             /\ probers' = [probers EXCEPT ![i].sequence = @ + 1, ![i].inFlight = @ \cup {p.sequence + 1}]
             /\ net' = net \cup {send(p)}
             /\ UNCHANGED clients
          \/ /\ probers' \in {[probers EXCEPT ![i].sequence = @ + k] : k \in 0..1}
             /\ applySample(i, Own(i))
             /\ UNCHANGED net
       /\ UNCHANGED <<byUid, nextUid, cookie>>

giveUp(i, seq) ==
    /\ seq \in probers[i].inFlight
    /\ probers' = [probers EXCEPT ![i].inFlight = @ \ {seq}]
    /\ applySample(i, Own(i))
    /\ UNCHANGED <<byUid, nextUid, cookie, net>>

\* Mutant: any echo reply with our magic number is taken.
receivesAny(packet) == TRUE

\* IcmpSocket::receive: an echo reply with this process's cookie.  What answers the
\* daemon's own packets has the type, the length and the magic number it looks for.
receives(packet) == packet.cookie = cookie

\* Endpoint::matches
matches(host, from) == EndpointOf[host] = from

\* handleReplies, for one packet and the address that answers it.
handleReply(packet, from) ==
    /\ receives(packet)
    /\ packet.uid \in DOMAIN byUid
    /\ LET i == byUid[packet.uid]
       IN /\ packet.seq \in probers[i].inFlight
          /\ matches(probers[i].host, from)
          /\ probers' = [probers EXCEPT ![i].inFlight = @ \ {packet.seq}]
          /\ applySample(i, [cookie |-> packet.cookie, host |-> packet.host, from |-> from])
    /\ UNCHANGED <<byUid, nextUid, cookie, net>>

\* The process ends and another one starts: new tables, uids and sequences
\* from one, another cookie; what is on the wire stays there.
Restart ==
    /\ cookie < MaxCookie
    /\ cookie' = cookie + 1
    /\ clients' = << >> /\ probers' = << >> /\ byUid' = << >> /\ nextUid' = 1
    /\ UNCHANGED net

Init ==
    /\ clients = << >> /\ probers = << >> /\ byUid = << >>
    /\ nextUid = 1 /\ cookie = 1 /\ net = {}

Next ==
    \/ \E list \in Loads : reloadClients(list)
    \/ \E i \in DOMAIN probers : sendProbe(i)
    \/ \E i \in DOMAIN probers : \E seq \in probers[i].inFlight : giveUp(i, seq)
    \/ \E packet \in net, from \in Endpoints : handleReply(packet, from)
    \/ Restart

Spec == Init /\ [][Next]_vars

-----------------------------------------------------------------------------
\* However often the files changed, the table is consistent: no two probers
\* ping the same host at the same pace, a prober's subscribers are exactly the
\* enabled rows with its key (none is left out, none points past the end), and
\* rows and uids lead to the prober that serves them.
TableSound ==
    /\ \A i, j \in DOMAIN probers : Key(probers[i]) = Key(probers[j]) => i = j
    /\ \A i \in DOMAIN probers :
          /\ probers[i].subscribers = {x \in Cells(clients) : KeyAt(clients, x) = Key(probers[i])}
          /\ probers[i].uid \in DOMAIN byUid /\ byUid[probers[i].uid] = i
    /\ \A x \in Cells(clients) :
          /\ clients[x[1]].rows[x[2]].prober \in DOMAIN probers
          /\ x \in probers[clients[x[1]].rows[x[2]].prober].subscribers

\* What a row shows was measured for it: every sample behind the state it
\* carries was taken by this process, for this row's host, and answered (if at
\* all) from that host's address.  Edits move rows and probers to other
\* positions, make a row point at another host, and leave packets of removed
\* probers and of earlier processes on the wire.
SamplesOwn ==
    \A i \in DOMAIN clients : \A d \in DOMAIN clients[i].rows :
        \A o \in clients[i].rows[d].heard :
            /\ o.cookie = cookie
            /\ o.host = clients[i].rows[d].address
            /\ o.from = EndpointOf[o.host]

\* A probe is sent, given up or answered.
Probing ==
    \/ \E k \in DOMAIN probers : sendProbe(k) \/ \E seq \in probers[k].inFlight : giveUp(k, seq)
    \/ \E packet \in net, from \in Endpoints : handleReply(packet, from)

\* As long as the process lives, a stream that is still wanted is kept: the same uid,
\* so that the probes under way are still recognised, and a sequence that goes on, so
\* that none of its numbers is used again.  Probes under way leave it one at a time,
\* answered or given up; a reload leaves them and the sequence as they are.
StreamsKept ==
    [][cookie' = cookie =>
        \A i \in DOMAIN probers, j \in DOMAIN probers' :
            Key(probers[i]) = proberKey(probers'[j].host, probers'[j].pace) =>
                /\ probers'[j].uid = probers[i].uid
                /\ probers'[j].sequence >= probers[i].sequence
                /\ \A s, t \in probers[i].inFlight \ probers'[j].inFlight : s = t
                /\ \/ /\ probers'[j].sequence = probers[i].sequence
                      /\ probers'[j].inFlight = probers[i].inFlight
                   \/ Probing]_vars
=============================================================================
