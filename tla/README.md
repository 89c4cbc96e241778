# Network Health: specifications, model checks and proofs

Network Health is a Plasma widget with a small daemon behind it. The daemon
(`daemon/src`, C++) pings the configured hosts, judges every reply and publishes
what it found in a file. The widget (`package/contents/ui`, QML) hands the
daemon its configuration in another file, reads the published state on a timer
and shows LEDs. Several widgets may share one destination list and one
appearance through a third pair of files. This directory holds TLA+ models of
that system, the TLC runs that check them and the TLAPS proofs about them.

## The system

| Part | State | Operations | Talks to |
| --- | --- | --- | --- |
| Evaluation (`monitor.cpp`) | per destination: state, candidate, streak, counters, last round-trip time | `classify`, `applySample`, `reportedState`, carry-over in `reloadClients`, counts and summary in `buildStateJson` | called by probers; read by publishing |
| Prober and event loop (`monitor.cpp`) | queue of probes in flight, next send, endpoint, resolve flag and backoff | `tick`, `sendProbe`, `handleReplies`, `handleResolutions`, `nextDeadline`, `run` | sockets, resolver, evaluation |
| Resolver (`resolver.cpp`) | two queues under a mutex, an eventfd, a stop flag | `request`, `collect`, `run`, destructor | a worker thread and the event loop |
| ICMP sockets (`pinger.cpp`) | two sockets | `open`, `send`, `receive` | the network |
| Clients and prober table (`monitor.cpp`) | clients, probers by key and by uid, inotify watch | `loadClientFile`, `reloadClients`, `rebuildProbers`, `handleInotify`, `dropExpiredClients` | config files written by the widgets |
| Publishing (`monitor.cpp`, `util.cpp`) | two dirty flags, generation, last publish | `publish`, `writeFileAtomically` | state files read by the widgets |
| Daemon process (`main.cpp`) | lock file, pid file, signal mask | start, daemonise, stop | the widgets' launch and restart scripts |
| Widget backend (`Backend.qml`) | generation seen, missed and stale polls, written configuration | `poll`, `applyDocument`, `onPollFailed`, `writeConfig`, `launchDaemon`, `restartDaemon` | state file, config file, daemon process |
| Shared settings (`SharedStore.qml`, `main.qml`) | own value, synced and pending revision, baseline | `sync`, `publish`, `write` | the shared file, the other widgets |
| Destination documents (`utils.js`) | none | `normaliseDestination`, `canonicalDestinations`, `importDocument` | configuration pages, shared store |
| JSON and file helpers (`json.hpp`, `util.cpp`) | none | `parse`, `dump`, `base64Encode`, `makeDirectories`, `writeFileAtomically` | everything that is read or written |
| Configuration pages, representations, packaging | | | |

What is hard in it: the event loop is never woken punctually and replies come
late, twice or not at all; the resolver is a second thread with its own
handshake; settings are edited while samples are being counted, and every edit
rebuilds tables that refer to each other by position while probes are under way;
files and the directory they are in change between any two system calls; several
widgets write one file through shell jobs with no lock; processes and their files
outlive each other, and so do their packets. `PROJECT.json` lists these hazards at their lines.

## The modules

**Health** is the arithmetic of the evaluation as operators. `applySample(d,
received, rtt)` is the body of the loop over the subscribers in
`Monitor::applySample`: counters, round-trip time, then the hysteresis, split
into `Streak` (the counter this sample leads to) and `Adopts` (the sample is
shown). `CarryOver` is what `reloadClients` keeps of a surviving destination.
`Overall` is the chain of conditions at the end of `buildStateJson`;
`Backend.qml` computes the same rule in `recount`.

**Destinations** is the state machine around them: the rows of one client receive samples
and are edited. A disabled row gets no samples. `samples` is a history variable:
what the samples said since the row was placed. **Indicator** is the abstract
specification of one LED, without counters: it changes exactly when more than
`tolerance` samples in a row agree on another verdict. `LedPromise` says that
`Destinations` implements it for every row, with `shown <- dest[r].state`,
`tolerance <- dest[r].cfg.sensitivity` and the history as it is.

**Prober** is one probe stream and the event loop. `pc` is where the loop is:
`wait` (in `epoll_wait`), `events` (resolutions), `replies`, `tick`. `t` is the
clock reading the phase works with (`after` for events and replies, a fresh one
for `tick`), and the clock runs on in all phases, so a late wake-up, a slow
handler and a suspend are all the same thing: time passes. The clock counts
milliseconds, the unit of the epoll timeout, in which `kSendSlackUs` is two and
the rounding up in `run` is exact; the models use small numbers in the same
proportions (slack below the interval and the maximum wait, as the limits in
`loadClientFile` guarantee: 100 ms and 50 ms). `net` holds the packets whose
replies may turn up, at any time and any number of times until `ReplyLife`.
`tick` is one action per overdue probe (`ExpireFront`), then one that asks for
an address, sends or not, and computes the deadline (`TickSend`, `TickIdle`).
The subscribers' destinations are those of `Health`, so a judgement is followed
into them.

**Resolver** has both threads. A critical section is one action; what happens
outside the mutex (notifying, the lookup, reading and writing the eventfd) is an
action of its own. The worker's wait may end spuriously. The probers appear as
their uids and `resolving` flags, because the flag is what the protocol protects:
`tick` sets it, `handleResolutions` clears it, `rebuildProbers` forgets it.
**LookupService** is the abstract specification of it, without threads, locks or
wake-ups: a line of lookups, answered from the front. `ServiceKept` says that
`Resolver` implements it, with `waiting <- resolving` and, as the line, the results,
the worker's lookup and the requests, in that order.

**SharedStore** has several widgets over one file. `Sync` has one disjunct per
way through `sync`. A write is the shell job that `write` starts: it creates or
truncates the temporary file, fills it and renames it, and since the name is the
same for all widgets the model follows descriptors across renames. The user
edits, switches sharing off and on and restarts widgets, and a restart may come
up with an empty configuration. A job may die at any of its steps and leave the
temporary file truncated or filled. In the runs a job is assumed to outlive at
most one sync of each widget (`SlowJobs = FALSE`). The code does not guarantee it:
the debounce timer and the two-second timer are independent, and both may fire
while one short file is written. A second sync within one write finds its widget
waiting for its own write, or does what it would do just before or after that
write; it is left out because it multiplies the states and adds no outcome we
know of. The safety theorems hold without the assumption. `untouched` and `emptied` are history variables: nobody has
touched the widget's value since it came up, and a user has emptied some
widget's. A widget that is run for
the first time, with an empty list and no shared list to join, asks for the
gateway, and the answer replaces whatever list it has by then
(`seedDefaultDestination`): also one it adopted in the meantime, which is then
published as its own edit. No fairness is assumed for the answer.

**Daemon** is the daemon's processes and their files in the runtime directory.
`proc` is where `main` has got to in each process; the lock is held from
`acquireSingleInstanceLock` until the process is gone, the pid is written into
it later, signals kill until `blockShutdownSignals` and end the loop after.
`Leave` is the end of `run` with its last publish, `Unlink` the destructor's
removal of the state file, and between that and `Exit` the resolver's thread is
joined, for as long as a lookup takes. A mishap is a crash anywhere (a failed
`fork` or `sigprocmask` looks the same) or a failed `Monitor::start`.
**Backend** extends it with one widget: `poll` with its three outcomes,
`applyDocument` as far as it writes the configuration again, `onPollFailed`, the
timers, the user's edits and restarts. Whatever touches the disk or a process is
a shell job in `jobs`, and jobs run in any order; identical ones under way are
one, as the executable engine has one source per command. Left out: that a job's
`.new` file is shared by two writes of one widget (a write is atomic at its
`mv`), reuse of a pid, and what `Monitor` looks at: the widget's leaving, the
expiry of its file, and a state file that cannot be written.

**ClientFile** is what the daemon makes of the files in the clients directory, as
operators: `loadClientFile` trims addresses, skips what is not an object or has no
address left, fills in ids, clamps interval and maximum wait and stops at `MaxDestinations`;
`LoadedClients` is the sorted list of the files that were objects at all.

**Clients** is the daemon's tables over such lists. `reloadClients` carries a
row's state over (`Carried`) and rebuilds the probers: `Openings` are the rows
that open a stream, each the first of its key in the order of the loops, a
stream of the same key is recycled with its uid, sequence and probes in flight,
and rows, subscribers and `byUid` are positions, as in the code. `net` holds every
request sent, by this process or an earlier one, and each may be answered at any
time from any address; `receives`, the look-up by uid, the search in `inFlight`
and `matches` are the filters in between; type, length and magic number are those
of the daemon's own packets, so they filter nothing here. A host has one endpoint:
that a stream resolves anew to another address is part of `Prober`. The LED logic is reduced to the
history `heard`: where the samples came from that made the state of a row. A
restart draws a cookie that no packet carries; the code draws a random number.

**Monitor** is the way from a widget's file to the published document, one
action per system call that another process can come between: the scripts'
`mkdir` and `mv`, the daemon's `opendir` and reading, `makeDirectories`,
`inotify_add_watch`, `stat`, `unlink` and the writing of the state files. `pc` is
where the loop is. `watch` is the directory the inotify watch belongs to, which
need not be the one there now; the history `deaf` says that the loop looked at the
directory and left it unwatched; `old` says that a file's age exceeds the client
timeout, by the real-time clock; `lacks` what the state files do not show of
what is in memory. A write fails or succeeds as a whole (`Written`). The reading of
the directory is one step, and the configurations are two abstract values.

**Encodings** is the arithmetic of the encodings, one unit at a time: a character
as UTF-8 (`appendUtf8`) and as escapes (`writeEscapedCodePoint`), base64 symbol by
symbol, the words of a packet, their sum and its carries; and how a decoder or
receiver reads them. base64 is written as a function of the position in the
output (`Pads` is the branch for the last one or two bytes), the sum as a
recursive function. **Payload** states what the receivers find: `PayloadDecodes` and
`ChecksumVerifies` (the ones' complement sum of RFC 1071).
**Json** is `json.hpp` on top of them: `parseValue`, `parseArray`, `parseObject` and
`write` over tokens, `parseString` and `writeString` over bytes and escapes. There is
one token for each case the code tells apart: numbers that are JSON, one that is
not but that `std::stod` reads (`+1`), one it refuses although it is JSON (`1e999`),
one with more digits than `%.10g` writes, and `nul` for everything a lexical error
path refuses. In a string a backslash that begins no escape (`Broken`) stands for
the errors of `parseString` and `parseHex4`, and a text without a closing quote for
the unterminated ones. **Codec**
feeds all of these every short input and compares documents with the grammar of
RFC 8259 and names with the text the widget meant. Long documents grow where the
grammar (`Begins`) or the parser can complete them, so that a text one of the two
refuses too early is still put to the other. Where the parser differs from the
grammar the properties say so: spellings and range of numbers in `ParsesGrammar`,
ten digits in `DocumentsSurvive`, raw control characters in `NamesSurvive`. `Json` and `Codec` use recursive
operators and are checked by TLC only; `Encodings` and `Payload` are also proved about.

## The runs

| Run | Question | Bounds |
| --- | --- | --- |
| `led` | hysteresis and counters, that every row implements `Indicator`, and the summary | two rows, 3 samples between replacements; sensitivities 0, 1 and 2, so that a streak can be exceeded, interrupted and cut short by an edit; two thresholds with replies at and between them; part-time and disabled rows |
| `prober` | each probe judged once, queue order, nothing overdue, no burst, and `CatchesUp` | a name that resolves late, elsewhere or not at all; two endpoints, one without a socket; interval 2, maximum wait 5, slack 1, three in flight so that an answer can leave the middle; clock to 7, so that a probe can be due to be given up before the next is sent |
| `prober_spin` | a statement the code does not keep | a maximum wait longer than the ceiling covers |
| `resolver` | the handshake between the threads: nothing lost, `LookupService` implemented, every lookup comes back, the destructor returns | three probers: one looked up, one queued, one finished |
| `shared_store` | convergence, no wipe from start-up, and no list emptied that nobody emptied | two widgets, new or restored, three values, two user actions beside the seeding, one failed write |
| `shared_store_loses` | a statement the code does not keep | as `shared_store` |
| `backend` | one daemon at a time, its state file its own and current; `Serves` | two processes (one leaving, one coming), two configurations, with and without destinations, one user action beside the first write, one crash or failed start at any point, one stale poll tolerated; the generation wraps at 2, so that two daemons show the same number |
| `backend_dead` | a statement the code does not keep | as `backend`, without user actions |
| `table` | the tables agree, samples reach only the rows they were taken for, streams survive edits | two widgets with five and three documents, among them unusable entries, a clamped interval, a row too many, two hosts at one address, one id for another host, a padded and a blank address; three streams per process, two probes each and two packets on the wire, so that a stream has two under way or an old packet meets a new one; one restart |
| `monitor` | no change of the directory goes unnoticed, published is what is known, and in the end what is wanted | one widget with two configurations, two edits, departures or returns, the directory removed once (removed twice passes too, in twice the time), one suspend or failed write |
| `monitor_suspend` | a statement the code does not keep | as `monitor` |
| `codec` | parser, writer, base64 and checksum against references | documents of any 4 of 15 tokens, and of up to 11 where the grammar or the parser could go on, nested to 3; texts of 4 out of 19 boundary characters, units and broken escapes, ended or not; 6 bytes out of 6 values, two rounds of base64 |

Fairness. In `Prober` the clock goes on, a timer that has fired is served and an
iteration once begun ends; no event, reply or resolution is promised, so
`CatchesUp` rests on the deadline alone. In `Resolver` both threads run, the
level-triggered eventfd is served and `getaddrinfo` returns by itself; spurious
wake-ups are not relied on, and nobody promises a request or a shutdown. In
`SharedStore` every widget's timers fire and shell jobs make progress; nothing
makes the user act, and jobs may fail up to the bound. In `Backend` timers fire,
shell jobs end, a process runs on to its event loop and out of it, events of the
watched directory are read and a daemon with destinations publishes samples; an
idle exit is never promised. `Serves` needs all of these: with a daemon that
never publishes again there is nothing to be served with. In `Monitor` the loop
goes on while it has something to do, scripts end, the five-minute timer fires, the file of a widget
that is gone ages, and the loop finds again and again that the interval between
two expiry checks has passed: strong fairness of `tick(TRUE)`, because whether
it has passed is a choice of the model and not of the code. No sample, edit or
signal is promised.

Deadlock is checked in every run but `codec`, which stops when its inputs have
reached their length.

`EditsReach` names two exceptions, and both are real. If the clients directory is
removed and made again by a widget's script before the daemon looks, `opendir`
succeeds and nothing watches the new directory (`deaf`): edits go unseen until
SIGHUP or until the daemon drops a client. The same happens when the directory
goes again before `inotify_add_watch`. And a state file that could not be
written is not tried again by itself (the flags are cleared), only with the next
news, which a daemon without clients does not have.

### What the four violated statements show

* `SleepsUntilDue`: with a maximum wait above eight intervals (the limits allow 60 s
  against 100 ms) the ceiling keeps a due probe from being sent, and
  `nextDeadline` returns a time that has passed: `epoll_wait` is called with
  timeout 0 until the oldest probe ends.
* `LosesOnlyToOthers`: an edit made while the widget's own previous edit is being
  written is replaced by the previous one when that comes back.
* `DeathNoticed`: a daemon that crashed leaves its state file. Stale polls lead to
  one `onPollFailed`, which forgets the generation; the next poll takes the old
  file for news and sets `missedPolls` to 0. It never reaches 2, so the widget
  shows the old state as live and launches nothing, until the user restarts it.
* `StaleMeansGone`: a file's age is measured by the real-time clock, while the
  timers that refresh and check it do not run during a suspend. After one that
  outlasts the client timeout of 15 minutes, the daemon's check (every minute)
  comes before most widgets' refresh (every five): live widgets are dropped, and
  when they write their file again counters and LEDs start from nothing.

Three more observations, visible in the models, need no run: `handleReplies` comes
before `tick`, so after a late wake-up a reply counts that is later than the
maximum wait, against the comment in `classify`; and two widgets that publish
from one revision write the same revision number, so that a third may take the
second value for the one it agreed with (they converge all the same); and
when the directory of a deaf daemon is removed nothing says so, `stat` fails for
every client, and `dropExpiredClients` relies on inotify ("already gone, inotify
will have flagged it"), so widgets that are gone stay listed until SIGHUP.

## The proofs

All are for arbitrary constants under the named assumptions of the modules.

* `OperatorProofs` is about the operators of `Health`, `Encodings` and `Payload`. Health: they keep
  the type `Destination`, which fields a sample leaves behind, and what the counts
  say: a count is zero exactly when no enabled row shows the state, and the
  number of enabled rows when all show it. `CharactersSurvive`: whatever follows
  it, a character written by `appendUtf8` is read by `writeString` as itself, by
  the length and the bits of each of its four forms; `PairsSurvive`: a joined pair
  becomes the same two escapes. `PayloadAlwaysDecodes`: group by group, four symbols
  hold what three bytes hold (`Sextets`), missing bytes are zeros, and the number
  of symbols of padding is the number of bytes missing. `ChecksumAlwaysVerifies`:
  twice adding back the carries of a 32-bit sum leaves a word congruent to it
  modulo 65535 (`ChecksumCancels`), the sum by words is the sum by bytes
  (`WordsTotal`), and the checksum in its field adds what it is (`FrontedTotal`).
  These are inductions over the length of the packet, written as membership in a
  set of numbers (`SetInduction`, from the least element of its complement); so is
  the proof that the recursive function in `Sums` exists. The one hypothesis,
  `FitsSum`, is that of the code's `uint32_t`: a packet of at most 128 KiB, where the
  daemon's have the fixed size of 32 bytes.
* `DestinationsProofs`: the inductive invariant is `TypeOK /\ CountersSound /\
  StreakIsRun`. `StreakIsRun` is the strengthening the refinement needs: only if
  the counter is the length of the run at the end of the history does "the streak
  exceeds the sensitivity" mean "the last sensitivity + 1 samples agree"
  (`AdoptsIsAgreement`). From it `LedKeepsPromise`: every step is, for every row,
  a step of `Indicator`. `WorstAlwaysWins` needs no history: by the lemmas about
  counts each comparison of numbers in `Overall` is a statement about the rows
  (`SummaryIsWorst`), for which the set of rows has to be finite.
* `ResolverProofs`: `OneLookupEach`, `NoLostCompletion` and `NoLostNotify`
  together with `Bookkeeping` (where the worker's request is, that uids not
  yet given out are nowhere, when the stop flag is set) are inductive, and each
  of the three is a theorem, as are the types. `ThreadsKeepService` is the
  refinement: of all the steps of the two threads only two change the line.
  `request` appends to it (`OneLookupEach` is what makes this an `Ask`: a lowered
  flag means the uid is nowhere in it) and `collect` takes the results from its
  front; a removed prober goes away, and the worker only moves a lookup from one
  part of the line to the next.
* `ProberProofs`: `IInv` adds `Paced` (the schedule is ahead of the last probe,
  and an interval ahead of the one before) and `ClockSound` (no probe is from
  the future, which is what makes appending keep the order) to the types,
  `JudgedOnce`, `InFlightOrdered` and `NothingOverdue`; each of these is a theorem.
  `NoBurst` follows from `Paced` and the slack.
* `SharedStoreProofs`: `NoWipeFromStartUp` rests on two facts. `BaselineIsStart`: as
  long as the history says "untouched", the value is the baseline, so the guard
  `wouldWipeSharedList` sees what it has to see. `NothingAtZero`: a file of
  revision 0 has the empty value, so the first publication, which has no guard,
  wipes nothing; also while jobs truncate, fill and rename each other's temporary
  file. The theorem does not need `SlowJobs = FALSE`: it holds however long a
  write takes, where the run looks at writes that outlast one sync.
  `NobodyEmptiesUnasked` is the same promise seen from the other side, for widgets
  that have been running: as long as no user has emptied a list, every empty
  content of a file or job has revision 0 (`JustifiedContents`), so that a truncated
  file is never taken for news, and every widget whose value is empty was last in
  step with an empty one (`JustifiedWidgets`), so that it has nothing to publish
  that another widget would adopt.
* `ClientsProofs`: `TableSound` and `SamplesOwn` are inductive together with
  `UidSound` (a uid leads to the prober that has it, and those still to be given
  are free) and `NetSound` (a packet with this process's cookie carries a uid
  that was given out, and the host of the prober that has it, if there still is
  one). A reply is filtered by cookie, uid, sequence and address, and only the
  first two keep it from the wrong row: two hosts may share an address. For
  `rebuildProbers` the argument is about `Openings`: every key of an enabled row is
  opened, and once (`OpeningsServe`, by the first position of each key and by
  counting), the numbers given to new streams differ (`Numbering`), and an order
  of the openings always exists (`OpeningsExist`, so that a reload is never
  impossible in the model where it is possible in the code). `StreamsAlwaysKept`
  follows from unique keys: a reload leaves uid, sequence and all probes under way
  of a stream as they are, and only answers and giving up end one.
* `DaemonProofs`: `DaemonTypeOK /\ StateIsOurs` is inductive for the daemon alone.
  The lock is what carries it: a process in any step from the lock to its end is
  the one in `lock`, so no other can publish or remove. `WidgetUsesDaemon` shows
  that every step of widget, user and shell is a step of `Daemon` or none of its
  business, from which `BackendImplementsDaemon`, `StateIsOursAlways` for
  the two together, and, with the widget's own variables, `BackendTypeCorrect`.
* `MonitorProofs`: `ShownInv` says that, as long as no write has failed, whatever
  the state files lack is covered by a dirty flag (the clients, LEDs and the
  readable copy by `stateDirty`, the numbers by either), and that the loop does
  not sleep with `stateDirty` set. `publish` writes at least what the flags cover
  before it clears them, hence `SleepsWithAllShown`. The watch, the
  directory and the order in which widgets act play no part in it; they do in
  `NewsAlwaysFlagged`. There `Watched` says that the loop is going to look, or the
  directory there now is the one watched, or it is being made again, or the
  daemon is deaf, and `NoneMeanwhile` that a daemon that is making it has no clients.

The assumptions on constants say that bounds are naturals, intervals and waits
exceed the slack (the limits in `loadClientFile`), that the rows of a client are
finitely many, and that the models' special values (`Nobody`, `NoFile`) are not
ordinary ones; `SharedStore` needs a value that is not empty.

Only model-checked: the liveness properties (`CatchesUp`, `LookupReturns`,
`ShutdownCompletes`, `Converges`, `Serves`, `EditsReach`), which need fairness; and
`ParsesGrammar`, `DocumentsSurvive` and `NamesSurvive`, which say what the recursive
operators of `Json` compute for whole texts: of the last, the step for one
character or pair is proved. What the liveness properties rest on is proved where
it is safety: nothing overdue, no completion or notification lost, no news
unflagged or unshown.

## Plan

1. Larger instances of `Monitor` (two widgets) once its state is reduced.
2. `parseString` and `writeString` as recursive functions, so that `NamesSurvive` can be
   proved for whole texts by the induction of `OperatorProofs`.
3. An abstract specification of the shared setting that `SharedStore` implements.

## Not modelled

Opening sockets and the choice among the addresses `getaddrinfo` returns (the
kernel's and the library's part); white space, indentation and the
log; the command line; wall-clock stamps and texts (display only); the representations and
the forms of the configuration pages (presentation; their changes are the edits of
`SharedStore` and `Monitor`); `utils.js`, whose defaults depend on JavaScript's
coercions (`SharedStore` compares canonical values as wholes); packaging. Integer width is
not modelled: counters of one per interval do not reach 2^32 or 2^64 in the life
of a session.
