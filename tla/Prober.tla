------------------------------- MODULE Prober -------------------------------
(***************************************************************************)
(* One probe stream of the daemon and the event loop that drives it: when  *)
(* a probe is sent, when a reply is counted, when a probe is given up and  *)
(* when the loop wakes again.                                              *)
(*                                                                         *)
(* Time is a natural number of milliseconds, the resolution of the epoll   *)
(* timeout.  The clock runs while the loop works and while it sleeps, and  *)
(* nothing makes the loop wake punctually.  Name resolution is seen from   *)
(* here as a request that is answered at most once (module Resolver).      *)
(***************************************************************************)
EXTENDS Health, Integers, Sequences

CONSTANTS
    Interval, Timeout,    \* prober.intervalUs, prober.timeoutUs
    Slack,                \* kSendSlackUs
    InFlightCeiling,      \* kMaxInFlight
    Numeric,              \* the host is an address literal
    Endpoints,            \* what the host name may resolve to
    Sendable,             \* endpoints whose address family has an open socket
    NoEndpoint,
    ResolveTtl, BackoffBase, BackoffMax,
    Subscribers, Settings, \* the destinations served, and their configuration
    ReplyLife,            \* bound: how long after sending a reply may turn up
    MaxTime               \* bound: where the clock stops

ASSUME ProberAssumption ==
    /\ Interval \in Nat /\ Timeout \in Nat /\ Slack \in Nat
    /\ Slack < Interval /\ Slack < Timeout
    /\ InFlightCeiling \in Nat \ {0}
    /\ Numeric \in BOOLEAN
    /\ Endpoints # {} /\ Sendable \subseteq Endpoints /\ NoEndpoint \notin Endpoints
    /\ ResolveTtl \in Nat /\ BackoffBase \in Nat /\ BackoffMax \in Nat
    /\ Settings \in [Subscribers -> Config]
    /\ ReplyLife \in Nat /\ MaxTime \in Nat

VARIABLES
    now,        \* the monotonic clock
    pc,         \* where the loop is: "wait", "events", "replies" or "tick"
    t,          \* the clock reading the current phase works with
    wakeAt,     \* the deadline epoll_wait was given
    inFlight, sequence, nextSend,
    endpoint, resolving, nextResolve, resolveFailures,
    sent, received,
    dest,       \* the subscribers' destinations
    net,        \* probes on the wire whose reply may turn up, again and again
    attempts,   \* history: calls of sendProbe
    sentAt      \* history: when the last and the last but one of them happened

loopVars == <<pc, t, wakeAt>>
sendVars == <<sequence, nextSend, net, attempts, sentAt>>
resolveVars == <<endpoint, resolving, nextResolve, resolveFailures>>
countVars == <<sent, received, dest>>
vars == <<now, loopVars, inFlight, sendVars, resolveVars, countVars>>

InFlightProbe == [seq: Nat, sentAt: Nat, deadline: Nat]
Packet == [seq: Nat, sentAt: Nat, to: Endpoints]

TypeOK ==
    /\ now \in Nat /\ t \in Nat /\ wakeAt \in Nat
    /\ pc \in {"wait", "events", "replies", "tick"}
    /\ inFlight \in Seq(InFlightProbe)
    /\ sequence \in Nat /\ nextSend \in Nat /\ nextResolve \in Nat /\ resolveFailures \in 0..16
    /\ endpoint \in Endpoints \cup {NoEndpoint} /\ resolving \in BOOLEAN
    /\ sent \in Nat /\ received \in Nat /\ attempts \in Nat
    /\ dest \in [Subscribers -> Destination]
    /\ net \in SUBSET Packet
    /\ sentAt \in [last: Int, before: Int]

-----------------------------------------------------------------------------
min(a, b) == IF a <= b THEN a ELSE b
max(a, b) == IF a >= b THEN a ELSE b

\* Enough in flight to keep sending while the slowest reply is outstanding.
maxInFlight == min(max((Timeout + Interval - 1) \div Interval, 1), InFlightCeiling)

Due(when) == t + Slack >= when

\* Mutant: a loss is taken back from the replies.
ApplySampleTakesBack(got, rtt) ==
    /\ sent' = sent + 1
    /\ received' = IF got THEN received + 1 ELSE received - 1
    /\ dest' = [s \in Subscribers |-> applySample(dest[s], got, rtt)]

\* A probe's outcome reaches the prober's counters and every subscriber.
ApplySample(got, rtt) ==
    /\ sent' = sent + 1
    /\ received' = IF got THEN received + 1 ELSE received
    /\ dest' = [s \in Subscribers |-> applySample(dest[s], got, rtt)]

\* Mutant: the loop waits for the next probe to send, not for one to give up.
nextDeadlineOfSend(flying, send, resolve, busy) ==
    IF Numeric \/ busy THEN send ELSE min(send, resolve)

\* The earliest thing this prober waits for.
nextDeadline(flying, send, resolve, busy) ==
    LET wake == IF Numeric \/ busy THEN send ELSE min(send, resolve)
    IN IF flying = << >> THEN wake ELSE min(wake, Head(flying).deadline)

\* A prober just created by rebuildProbers, and the loop about to sleep.
Init ==
    /\ now = 0 /\ pc = "wait" /\ t = 0 /\ wakeAt = 0
    /\ inFlight = << >> /\ sequence = 0 /\ nextSend = 0
    /\ endpoint \in (IF Numeric THEN Endpoints ELSE {NoEndpoint})
    /\ resolving = FALSE /\ nextResolve = 0 /\ resolveFailures = 0
    /\ sent = 0 /\ received = 0
    /\ dest = [s \in Subscribers |-> NewDestination(Settings[s])]
    /\ net = {} /\ attempts = 0
    /\ sentAt = [last |-> 0 - Interval, before |-> 0 - Interval]

Advance ==
    /\ now < MaxTime
    /\ now' = now + 1
    /\ UNCHANGED <<loopVars, inFlight, sendVars, resolveVars, countVars>>

WakeUp ==
    /\ pc = "wait"
    /\ pc' = "events" /\ t' = now
    /\ UNCHANGED <<now, wakeAt, inFlight, sendVars, resolveVars, countVars>>

\* epoll_wait returns because its timeout has elapsed ...
TimerFires == now >= wakeAt /\ WakeUp

\* ... or because a reply, a resolution, a signal or a config change is there.
EventFires == now < wakeAt /\ WakeUp

HandleResolved(e) ==
    /\ pc = "events" /\ resolving
    /\ endpoint' = e /\ resolving' = FALSE /\ resolveFailures' = 0
    /\ nextResolve' = t + ResolveTtl
    /\ UNCHANGED <<now, loopVars, inFlight, sendVars, countVars>>

\* Base, doubled after every failure but the first, at most six times.
Backoff(failures) ==
    min(BackoffBase * <<1, 2, 4, 8, 16, 32, 64>>[min(failures, 7)], BackoffMax)

HandleResolveFailure ==
    /\ pc = "events" /\ resolving
    /\ resolving' = FALSE
    /\ resolveFailures' = min(resolveFailures + 1, 16)
    /\ nextResolve' = t + Backoff(resolveFailures')
    /\ UNCHANGED <<now, loopVars, inFlight, sendVars, endpoint, countVars>>

\* Mutants of erase: the last element fills the gap; nothing is taken out.
eraseBySwap(s, i) == [j \in 1..(Len(s) - 1) |-> IF j = i THEN s[Len(s)] ELSE s[j]]
eraseNothing(s, i) == s

\* vector::erase at position i.
erase(s, i) == [j \in 1..(Len(s) - 1) |-> IF j < i THEN s[j] ELSE s[j + 1]]

\* The reply is for the probe at position i, from the address probed now.
Answers(reply, i) ==
    /\ inFlight[i].seq = reply.seq
    /\ endpoint # NoEndpoint /\ endpoint = reply.to

HandleReply(reply) ==
    /\ pc \in {"events", "replies"}
    /\ pc' = "replies"
    /\ \/ \E i \in DOMAIN inFlight :
             /\ Answers(reply, i)
             /\ inFlight' = erase(inFlight, i)
             /\ ApplySample(TRUE, IF t > reply.sentAt THEN t - reply.sentAt ELSE 0)
       \/ /\ ~\E i \in DOMAIN inFlight : Answers(reply, i)
          /\ UNCHANGED <<inFlight, countVars>>
    /\ UNCHANGED <<now, t, wakeAt, sendVars, resolveVars>>

\* The loop calls tick with a fresh reading of the clock.
BeginTick ==
    /\ pc \in {"events", "replies"}
    /\ pc' = "tick" /\ t' = now
    /\ UNCHANGED <<now, wakeAt, inFlight, sendVars, resolveVars, countVars>>

\* Mutant: the slack is forgotten.
OverdueToTheDot == inFlight # << >> /\ t >= Head(inFlight).deadline

Overdue == inFlight # << >> /\ Due(Head(inFlight).deadline)

ExpireFront ==
    /\ pc = "tick" /\ Overdue
    /\ inFlight' = Tail(inFlight)
    /\ ApplySample(FALSE, 0)
    /\ UNCHANGED <<now, loopVars, sendVars, resolveVars>>

\* Asks for the address when it is due; the answer comes as an event.
RequestResolve ==
    /\ resolving' = (resolving \/ (~Numeric /\ Due(nextResolve)))
    /\ UNCHANGED <<endpoint, nextResolve, resolveFailures>>

CanSend == Len(inFlight) < maxInFlight /\ Due(nextSend)

\* Mutant: no resynchronisation after a late wake-up.
ScheduleBehind ==
    /\ nextSend' = nextSend + Interval
    /\ attempts' = attempts + 1
    /\ sentAt' = [last |-> t, before |-> sentAt.last]

Schedule ==
    /\ nextSend' = IF nextSend + Interval <= t THEN t + Interval ELSE nextSend + Interval
    /\ attempts' = attempts + 1
    /\ sentAt' = [last |-> t, before |-> sentAt.last]

Live(packets) == {p \in packets : p.sentAt + ReplyLife >= t}

\* The probe leaves: it is in flight until it is answered or given up.
SendSent ==
    /\ endpoint \in Sendable
    /\ sequence' = sequence + 1
    /\ inFlight' = Append(inFlight, [seq |-> sequence + 1, sentAt |-> t, deadline |-> t + Timeout])
    /\ net' = Live(net) \cup {[seq |-> sequence + 1, sentAt |-> t, to |-> endpoint]}
    /\ UNCHANGED countVars

\* No address, no socket, or the send is refused: a loss at once.
SendLost ==
    /\ sequence' = IF endpoint \in Sendable THEN sequence + 1 ELSE sequence
    /\ net' = Live(net)
    /\ ApplySample(FALSE, 0)
    /\ UNCHANGED inFlight

EndTick ==
    /\ pc' = "wait"
    /\ wakeAt' = nextDeadline(inFlight', nextSend', nextResolve', resolving')
    /\ UNCHANGED <<now, t>>

TickSend ==
    /\ pc = "tick" /\ ~Overdue /\ CanSend
    /\ RequestResolve
    /\ SendSent \/ SendLost
    /\ Schedule
    /\ EndTick

TickIdle ==
    /\ pc = "tick" /\ ~Overdue /\ ~CanSend
    /\ RequestResolve
    /\ net' = Live(net)
    /\ UNCHANGED <<inFlight, sequence, nextSend, attempts, sentAt, countVars>>
    /\ EndTick

Loop ==
    \/ TimerFires \/ EventFires \/ BeginTick \/ ExpireFront \/ TickSend \/ TickIdle
    \/ HandleResolveFailure
    \/ \E e \in Endpoints : HandleResolved(e)
    \/ \E reply \in net : HandleReply(reply)

Next == Advance \/ Loop

Spec == Init /\ [][Next]_vars

\* The clock goes on, and the scheduler runs the daemon: a fired timer, and an
\* iteration once begun, are not put off for ever.  No event is ever promised.
Fairness ==
    /\ WF_vars(Advance)
    /\ WF_vars(TimerFires)
    /\ WF_vars(BeginTick)
    /\ WF_vars(ExpireFront \/ TickSend \/ TickIdle)

FairSpec == Spec /\ Fairness

-----------------------------------------------------------------------------
\* Every call of sendProbe is judged exactly once - answered, given up or lost
\* at once - however replies are lost, repeated, reordered or late, and every
\* subscriber hears of each judgement (handleReplies, tick, applySample).
JudgedOnce ==
    /\ sent + Len(inFlight) = attempts
    /\ received <= sent
    /\ \A s \in Subscribers : dest[s].sent = sent /\ dest[s].received = received

\* "Probes are sent in order, so the oldest is always the first to expire"
\* (monitor.cpp:557): answers taken out of the middle never break the order
\* that lets tick look at the front alone, and the ceiling holds.
InFlightOrdered ==
    /\ \A i, j \in DOMAIN inFlight :
           i < j => /\ inFlight[i].seq < inFlight[j].seq
                    /\ inFlight[i].deadline <= inFlight[j].deadline
    /\ \A i \in DOMAIN inFlight :
           /\ inFlight[i].seq <= sequence
           /\ inFlight[i].deadline = inFlight[i].sentAt + Timeout
    /\ Len(inFlight) <= maxInFlight

\* When the loop goes to sleep, no probe it should have given up is left.
NothingOverdue ==
    pc = "wait" => \A i \in DOMAIN inFlight : inFlight[i].deadline > t + Slack

\* "Resynchronise instead of firing a burst of catch-up probes" (monitor.cpp:572):
\* however late the loop wakes, of three probes in a row the last leaves at
\* least an interval, less the slack, after the first.
NoCatchUpBurst ==
    [][attempts' # attempts => sentAt'.last - sentAt.before >= Interval - Slack]_vars

\* Whatever the clock reaches is done: with no event to help it, the loop wakes
\* to give up every probe whose wait is over, to send every probe that is due
\* while the ceiling leaves room, and to ask again for an address that has gone
\* stale or could not be found (nextDeadline against tick).
CatchesUp ==
    <>[](/\ \A i \in DOMAIN inFlight : inFlight[i].deadline > MaxTime
         /\ nextSend > MaxTime \/ Len(inFlight) = maxInFlight
         /\ Numeric \/ resolving \/ nextResolve > MaxTime)

\* Why there is no burst: the schedule is always ahead of the last probe, and an
\* interval ahead of the one before it.
Paced == nextSend > sentAt.last /\ nextSend >= sentAt.before + Interval

\* No probe bears a time the loop has not reached yet.
ClockSound ==
    /\ t <= now
    /\ \A i \in DOMAIN inFlight : inFlight[i].sentAt <= t

IInv == TypeOK /\ JudgedOnce /\ InFlightOrdered /\ NothingOverdue /\ Paced /\ ClockSound

\* "The backend sends every probe that is due in a single wakeup" (README.md:37):
\* when the loop goes back to sleep nothing that was due is left over, so it does
\* not ask to be woken at once (nextDeadline against tick).
SleepsUntilDue == pc = "wait" /\ attempts > 0 => wakeAt > t
=============================================================================
