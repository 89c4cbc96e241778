------------------------------ MODULE Resolver ------------------------------
(***************************************************************************)
(* Host name resolution on a worker thread, with the event loop that asks  *)
(* for it: the mutex, the condition variable, the eventfd and the probers' *)
(* `resolving' flags.  A critical section is one step; what happens        *)
(* outside the mutex (notify, getaddrinfo, reading and writing the         *)
(* eventfd) is a step of its own.  Results are told apart by uid only:     *)
(* what a lookup found is module Prober's concern.                         *)
(***************************************************************************)
EXTENDS Naturals, Sequences, Functions

CONSTANTS Uids,    \* the probers that ever exist; an uid is never given twice
          NoUid

ASSUME ResolverAssumption == NoUid \notin Uids

VARIABLES
    pending, completed,   \* m_pending, m_completed
    inHand,               \* the worker's local request
    eventFd,              \* the eventfd's counter is not zero
    stop,                 \* m_stop
    wpc,                  \* worker: "test", "asleep", "lookup", "push", "signal", "gone"
    mpc,                  \* main: "loop", "notify", "take", "notifyAll", "join", "closed"
    unborn, live,         \* uids not yet given out; uids of current probers
    resolving             \* the probers whose resolving flag is set

workerVars == <<inHand, wpc>>
proberVars == <<unborn, live, resolving>>
vars == <<pending, completed, workerVars, eventFd, stop, mpc, proberVars>>

TypeOK ==
    /\ pending \in Seq(Uids) /\ completed \in Seq(Uids)
    /\ inHand \in Uids \cup {NoUid}
    /\ eventFd \in BOOLEAN /\ stop \in BOOLEAN
    /\ wpc \in {"test", "asleep", "lookup", "push", "signal", "gone"}
    /\ mpc \in {"loop", "notify", "take", "notifyAll", "join", "closed"}
    /\ unborn \subseteq Uids /\ live \subseteq Uids /\ resolving \subseteq Uids

Init ==
    /\ pending = << >> /\ completed = << >> /\ inHand = NoUid
    /\ eventFd = FALSE /\ stop = FALSE
    /\ wpc = "test" /\ mpc = "loop"
    /\ unborn = Uids /\ live = {} /\ resolving = {}

-----------------------------------------------------------------------------
(* The event loop.                                                         *)

\* rebuildProbers creates a prober under a fresh uid ...
AddProber(u) ==
    /\ mpc = "loop" /\ u \in unborn
    /\ unborn' = unborn \ {u} /\ live' = live \cup {u}
    /\ UNCHANGED <<pending, completed, workerVars, eventFd, stop, mpc, resolving>>

\* ... or forgets one, whatever lookup it has outstanding.
DropProber(u) ==
    /\ mpc = "loop" /\ u \in live
    /\ live' = live \ {u} /\ resolving' = resolving \ {u}
    /\ UNCHANGED <<pending, completed, workerVars, eventFd, stop, mpc, unborn>>

\* Mutants of request: the flag is not looked at; the worker is not notified.
requestAgain(u) ==
    /\ mpc = "loop" /\ u \in live
    /\ resolving' = resolving \cup {u}
    /\ IF u \in Range(pending)
       THEN UNCHANGED <<pending, mpc>>
       ELSE pending' = Append(pending, u) /\ mpc' = "notify"
    /\ UNCHANGED <<completed, workerVars, eventFd, stop, unborn, live>>

requestSilently(u) ==
    /\ mpc = "loop" /\ u \in live \ resolving
    /\ resolving' = resolving \cup {u} /\ pending' = Append(pending, u)
    /\ UNCHANGED <<completed, workerVars, eventFd, stop, mpc, unborn, live>>

\* tick raises the flag and asks; a request already pending is not repeated.
request(u) ==
    /\ mpc = "loop" /\ u \in live \ resolving
    /\ resolving' = resolving \cup {u}
    /\ IF u \in Range(pending)
       THEN UNCHANGED <<pending, mpc>>
       ELSE pending' = Append(pending, u) /\ mpc' = "notify"
    /\ UNCHANGED <<completed, workerVars, eventFd, stop, unborn, live>>

NotifyOne ==
    /\ mpc = "notify" /\ mpc' = "loop"
    /\ wpc' = IF wpc = "asleep" THEN "test" ELSE wpc
    /\ UNCHANGED <<pending, completed, inHand, eventFd, stop, proberVars>>

\* Mutant: the results are taken first and the eventfd is cleared then.
collectThenClear ==
    \/ /\ mpc = "loop" /\ eventFd
       /\ resolving' = resolving \ Range(completed)
       /\ completed' = << >> /\ mpc' = "take"
       /\ UNCHANGED <<pending, workerVars, eventFd, stop, unborn, live>>
    \/ /\ mpc = "take"
       /\ eventFd' = FALSE /\ mpc' = "loop"
       /\ UNCHANGED <<pending, completed, workerVars, stop, proberVars>>

\* epoll reports the eventfd: it is cleared first, then the results are taken.
\* A result for an uid that is gone is dropped.
collect ==
    \/ /\ mpc = "loop" /\ eventFd
       /\ eventFd' = FALSE /\ mpc' = "take"
       /\ UNCHANGED <<completed, resolving>>
       /\ UNCHANGED <<pending, workerVars, stop, unborn, live>>
    \/ /\ mpc = "take"
       /\ resolving' = resolving \ Range(completed)
       /\ completed' = << >> /\ mpc' = "loop"
       /\ UNCHANGED eventFd
       /\ UNCHANGED <<pending, workerVars, stop, unborn, live>>

\* Mutant: the destructor goes straight to the join.
BeginStopSilently ==
    /\ mpc = "loop" /\ mpc' = "join"
    /\ stop' = TRUE
    /\ UNCHANGED <<pending, completed, workerVars, eventFd, proberVars>>

\* The destructor: stop under the lock, notify_all, join, close.
BeginStop ==
    /\ mpc = "loop" /\ mpc' = "notifyAll"
    /\ stop' = TRUE
    /\ UNCHANGED <<pending, completed, workerVars, eventFd, proberVars>>

NotifyAll ==
    /\ mpc = "notifyAll" /\ mpc' = "join"
    /\ wpc' = IF wpc = "asleep" THEN "test" ELSE wpc
    /\ UNCHANGED <<pending, completed, inHand, eventFd, stop, proberVars>>

Join ==
    /\ mpc = "join" /\ wpc = "gone"
    /\ mpc' = "closed"
    /\ UNCHANGED <<pending, completed, workerVars, eventFd, stop, proberVars>>

-----------------------------------------------------------------------------
(* The worker thread.                                                      *)

\* Under the lock: leave, take the oldest request, or wait.
Test ==
    /\ wpc = "test"
    /\ \/ /\ stop
          /\ wpc' = "gone"
          /\ UNCHANGED <<pending, inHand>>
       \/ /\ ~stop /\ pending # << >>
          /\ inHand' = Head(pending) /\ pending' = Tail(pending)
          /\ wpc' = "lookup"
       \/ /\ ~stop /\ pending = << >>
          /\ wpc' = "asleep"
          /\ UNCHANGED <<pending, inHand>>
    /\ UNCHANGED <<completed, eventFd, stop, mpc, proberVars>>

\* A condition variable may wake without having been notified.
SpuriousWake ==
    /\ wpc = "asleep" /\ wpc' = "test"
    /\ UNCHANGED <<pending, completed, inHand, eventFd, stop, mpc, proberVars>>

\* getaddrinfo returns, with an address or an error.
Lookup ==
    /\ wpc = "lookup" /\ wpc' = "push"
    /\ UNCHANGED <<pending, completed, inHand, eventFd, stop, mpc, proberVars>>

\* Mutant: the request is read after it was moved from.
PushMoved ==
    /\ wpc = "push" /\ wpc' = "signal"
    /\ inHand' = NoUid /\ completed' = Append(completed, inHand')
    /\ UNCHANGED <<pending, eventFd, stop, mpc, proberVars>>

\* Mutant: the result is put before the ones that are waiting to be collected.
PushFirst ==
    /\ wpc = "push" /\ wpc' = "signal"
    /\ completed' = <<inHand>> \o completed /\ inHand' = NoUid
    /\ UNCHANGED <<pending, eventFd, stop, mpc, proberVars>>

Push ==
    /\ wpc = "push" /\ wpc' = "signal"
    /\ completed' = Append(completed, inHand) /\ inHand' = NoUid
    /\ UNCHANGED <<pending, eventFd, stop, mpc, proberVars>>

\* Mutant: the eventfd is not written.
SignalNobody ==
    /\ wpc = "signal" /\ wpc' = "test"
    /\ UNCHANGED <<pending, completed, inHand, eventFd, stop, mpc, proberVars>>

Signal ==
    /\ wpc = "signal" /\ wpc' = "test"
    /\ eventFd' = TRUE
    /\ UNCHANGED <<pending, completed, inHand, stop, mpc, proberVars>>

\* The process has left main.
Exited == mpc = "closed" /\ UNCHANGED vars

Main == collect \/ NotifyOne \/ BeginStop \/ NotifyAll \/ Join
        \/ \E u \in Uids : AddProber(u) \/ DropProber(u) \/ request(u)

Worker == Test \/ SpuriousWake \/ Lookup \/ Push \/ Signal

Next == Main \/ Worker \/ Exited

Spec == Init /\ [][Next]_vars

\* Both threads are scheduled; epoll is level-triggered, so a readable eventfd is
\* served; getaddrinfo gives up by itself.  Spurious wake-ups are not relied on,
\* and nothing says that a prober is ever added or the daemon ever stopped.
Fairness ==
    /\ WF_vars(Test) /\ WF_vars(Lookup) /\ WF_vars(Push) /\ WF_vars(Signal)
    /\ WF_vars(NotifyOne) /\ WF_vars(collect) /\ WF_vars(NotifyAll) /\ WF_vars(Join)

FairSpec == Spec /\ Fairness

-----------------------------------------------------------------------------
Held == IF inHand = NoUid THEN {} ELSE {inHand}

\* No uid appears twice in a queue.
NoRepeat(s) == \A i, j \in DOMAIN s : s[i] = s[j] => i = j

\* A prober whose flag is set has exactly one request on its way, and one whose
\* flag is clear has none: no flag is stuck, and no lookup is done twice (the
\* resolving flag against request, run, collect and rebuildProbers).
OneLookupEach ==
    /\ NoRepeat(pending) /\ NoRepeat(completed)
    /\ Range(pending) \cap Held = {} /\ Range(pending) \cap Range(completed) = {}
    /\ Held \cap Range(completed) = {}
    /\ resolving = live \cap (Range(pending) \cup Held \cup Range(completed))

\* Finished lookups never wait without the loop being told: the eventfd is
\* cleared before the results are taken and written after they are pushed.
NoLostCompletion == completed # << >> => eventFd \/ wpc = "signal" \/ mpc = "take"

\* The worker never sleeps on work or on the order to stop, unless the
\* notification is about to be sent (request, the destructor and run).
NoLostNotify ==
    wpc = "asleep" =>
        /\ pending # << >> => mpc \in {"notify", "notifyAll"}
        /\ stop => mpc = "notifyAll"

\* The lookups asked for and not answered: finished, in the worker's hands, pending.
InHand == IF inHand = NoUid THEN << >> ELSE <<inHand>>
Line == completed \o InHand \o pending

Service == INSTANCE LookupService WITH line <- Line, waiting <- resolving

\* The two threads together are a plain line of lookups: each is answered once, in
\* the order of the requests, and an answer clears the flag of the prober that
\* asked and of no other (request, run and collect across the mutex and the eventfd).
ServiceKept == Service!Spec

\* Every lookup asked for comes back while its prober lives and the daemon runs.
LookupReturns == \A u \in Uids : u \in resolving ~> (u \notin resolving \/ stop)

\* The destructor returns: the worker is woken, sees the order and is joined.
ShutdownCompletes == stop ~> mpc = "closed"

\* What the proofs need besides: where the worker's request is, that an uid not
\* yet given out is nowhere, and when the order to stop has been given.
Bookkeeping ==
    /\ inHand # NoUid <=> wpc \in {"lookup", "push"}
    /\ unborn \cap live = {}
    /\ unborn \cap (Range(pending) \cup Held \cup Range(completed)) = {}
    /\ stop <=> mpc \in {"notifyAll", "join", "closed"}

IInv == TypeOK /\ OneLookupEach /\ NoLostCompletion /\ NoLostNotify /\ Bookkeeping
=============================================================================
