---------------------------- MODULE DaemonProofs ----------------------------
(***************************************************************************)
(* One daemon at a time and a state file of its own, for any number of     *)
(* processes, configurations and mishaps.                                  *)
(***************************************************************************)
EXTENDS Backend, TLAPS

\* Where the processes are, who holds the lock and whose document is on show.
DaemonInv == DaemonTypeOK /\ StateIsOurs

\* The next generation is one the counter can take.
LEMMA NextGeneration ==
    ASSUME NEW g \in 1..Generations
    PROVE  (g % Generations) + 1 \in 1..Generations
BY DaemonAssumption

\* What publish writes is a state document of the process that calls it.
LEMMA PublishedType ==
    ASSUME DaemonTypeOK, NEW p \in Procs, NEW config \in Configs \cup {NoFile}
    PROVE  /\ Published(p, config) \in State
           /\ Published(p, config) # NoFile
           /\ Published(p, config).by = p /\ Published(p, config).config = config
<1> DEFINE g == IF state # NoFile /\ state.by = p
                THEN (state.generation % Generations) + 1 ELSE 1
<1>1. g \in 1..Generations
  <2>1. CASE state # NoFile
    <3>1. state.generation \in 1..Generations
      BY <2>1 DEF DaemonTypeOK, State
    <3> QED BY <3>1, NextGeneration, DaemonAssumption
  <2>2. CASE state = NoFile
    BY <2>2, DaemonAssumption
  <2> QED BY <2>1, <2>2
<1>2. Published(p, config) = [generation |-> g, by |-> p, config |-> config]
  BY DEF Published
<1> HIDE DEF g
<1> QED BY <1>1, <1>2, DaemonAssumption DEF State


\* A process that alone moves, within the steps that hold the lock and not into
\* the event loop, leaves the invariant as it is.
LEMMA StepWithin ==
    ASSUME DaemonInv, NEW p \in Procs, NEW step \in Holding \ {"up"}, GoesTo(p, step),
           proc[p] \in Holding, UNCHANGED <<known, lock>>,
           state' \in State \cup {NoFile}
    PROVE  /\ proc' \in [Procs -> Steps]
           /\ StateIsOurs'
<1>1. \A q \in Procs : proc'[q] = IF q = p THEN step ELSE proc[q]
  BY DEF GoesTo, DaemonInv, DaemonTypeOK
<1>2. \A q \in Procs : proc'[q] # "up"
  BY <1>1 DEF DaemonInv, StateIsOurs, Holding, Steps
<1> QED BY <1>1, <1>2 DEF GoesTo, DaemonInv, DaemonTypeOK, StateIsOurs, Holding, Steps

\* The process in the event loop publishes what it knows.
LEMMA StepServing ==
    ASSUME DaemonInv, NEW p \in Procs, proc[p] \in Holding, GoesTo(p, "up"),
           UNCHANGED <<lock, clientFile>>, NEW config \in Configs \cup {NoFile},
           config = clientFile \/ inotify', known' = [known EXCEPT ![p] = config],
           state' \in State, state'.by = p, state'.config = config
    PROVE  /\ proc' \in [Procs -> Steps] /\ known' \in [Procs -> Configs \cup {NoFile}]
           /\ StateIsOurs'
<1>1. \A q \in Procs : proc'[q] = IF q = p THEN "up" ELSE proc[q]
  BY DEF GoesTo, DaemonInv, DaemonTypeOK
<1>2. \A q \in Procs : proc'[q] = "up" => q = p
  BY <1>1 DEF DaemonInv, StateIsOurs, Holding, Steps
<1>3. state' # NoFile /\ known'[p] = config
  BY DaemonAssumption DEF DaemonInv, DaemonTypeOK
<1> QED BY <1>1, <1>2, <1>3 DEF GoesTo, DaemonInv, DaemonTypeOK, StateIsOurs, Holding, Steps

\* A process that goes takes nothing with it but the lock.
LEMMA StepVanish ==
    ASSUME DaemonInv, NEW p \in Procs, Vanish(p), mishaps' \in 0..MaxMishaps
    PROVE  DaemonInv'
<1>1. \A q \in Procs : proc'[q] = IF q = p THEN "none" ELSE proc[q]
  BY DEF Vanish, GoesTo, DaemonInv, DaemonTypeOK
<1>2. DaemonTypeOK'
  BY DEF Vanish, GoesTo, DaemonInv, DaemonTypeOK, Steps
<1>3. \A q \in Procs : proc'[q] \in Holding <=> lock' = q
  BY <1>1, DaemonAssumption DEF Vanish, DaemonInv, StateIsOurs, Holding
<1>4. \A q \in Procs : proc'[q] = "up" =>
        proc[q] = "up" /\ known'[q] = known[q] /\ inotify' = inotify
  BY <1>1, <1>3, DaemonAssumption DEF Vanish, DaemonInv, DaemonTypeOK, StateIsOurs, Holding, Steps
<1> QED BY <1>2, <1>3, <1>4 DEF Vanish, DaemonInv, StateIsOurs

\* Leaving the event loop: by signal or for want of destinations.
LEMMA StepLeave ==
    ASSUME DaemonInv, NEW p \in Procs, Leave(p)
    PROVE  DaemonInv'
<1>1. known[p] \in Configs \cup {NoFile}
  BY DEF DaemonInv, DaemonTypeOK
<1>2. state' \in State
  BY <1>1, PublishedType DEF Leave, DaemonInv
<1>3. proc' \in [Procs -> Steps] /\ StateIsOurs'
  BY <1>2, StepWithin DEF Leave, Holding, Steps
<1> QED BY <1>2, <1>3 DEF Leave, DaemonInv, DaemonTypeOK

\* Every step of a process, and every thing a widget does to it, keeps it.
LEMMA DaemonInductive == DaemonInv /\ [DaemonNext]_daemonVars => DaemonInv'
<1> SUFFICES ASSUME DaemonInv, [DaemonNext]_daemonVars PROVE DaemonInv'
  OBVIOUS
<1>1. ASSUME NEW p \in Procs, Launch(p) PROVE DaemonInv'
  <2>1. \A q \in Procs : proc'[q] = IF q = p THEN "starting" ELSE proc[q]
    BY <1>1 DEF Launch, GoesTo, DaemonInv, DaemonTypeOK
  <2> QED BY <1>1, <2>1 DEF Launch, GoesTo, DaemonInv, DaemonTypeOK, StateIsOurs, Steps, Holding
<1>2. ASSUME NEW p \in Procs, Refused(p) PROVE DaemonInv'
  <2>1. \A q \in Procs : proc'[q] = IF q = p THEN "none" ELSE proc[q]
    BY <1>2 DEF Refused, GoesTo, DaemonInv, DaemonTypeOK
  <2> QED BY <1>2, <2>1 DEF Refused, GoesTo, DaemonInv, DaemonTypeOK, StateIsOurs, Steps, Holding
<1>3. ASSUME NEW p \in Procs, TakeLock(p) PROVE DaemonInv'
  <2>1. \A q \in Procs : proc'[q] = IF q = p THEN "locked" ELSE proc[q]
    BY <1>3 DEF TakeLock, GoesTo, DaemonInv, DaemonTypeOK
  <2>2. \A q \in Procs : proc[q] \notin Holding
    BY <1>3, DaemonAssumption DEF TakeLock, DaemonInv, StateIsOurs
  <2> QED BY <1>3, <2>1, <2>2
          DEF TakeLock, GoesTo, DaemonInv, DaemonTypeOK, StateIsOurs, Steps, Holding
<1>4. ASSUME NEW p \in Procs, WritePid(p) PROVE DaemonInv'
  <2>1. proc' \in [Procs -> Steps] /\ StateIsOurs'
    BY <1>4, StepWithin DEF WritePid, Holding, Steps, DaemonInv, DaemonTypeOK
  <2> QED BY <1>4, <2>1 DEF WritePid, DaemonInv, DaemonTypeOK
<1>5. ASSUME NEW p \in Procs, Start(p) PROVE DaemonInv'
  <2>1. /\ state' \in State /\ state'.by = p /\ state'.config = clientFile
        /\ clientFile \in Configs \cup {NoFile}
    BY <1>5, DaemonAssumption DEF Start, State, DaemonInv, DaemonTypeOK
  <2>2. proc[p] \in Holding
    BY <1>5 DEF Start, Holding, Steps
  <2>3. proc' \in [Procs -> Steps] /\ known' \in [Procs -> Configs \cup {NoFile}] /\ StateIsOurs'
    BY <1>5, <2>1, <2>2, StepServing DEF Start
  <2> QED BY <1>5, <2>1, <2>3 DEF Start, DaemonInv, DaemonTypeOK
<1>6. ASSUME NEW p \in Procs, StartFails(p) PROVE DaemonInv'
  <2>1. proc' \in [Procs -> Steps] /\ StateIsOurs'
    BY <1>6, StepWithin DEF StartFails, Holding, Steps, DaemonInv, DaemonTypeOK
  <2> QED BY <1>6, <2>1, DaemonAssumption DEF StartFails, DaemonInv, DaemonTypeOK
<1>7. ASSUME NEW p \in Procs, Reload(p) PROVE DaemonInv'
  <2>1. clientFile \in Configs \cup {NoFile}
    BY DEF DaemonInv, DaemonTypeOK
  <2>2. state' \in State /\ state'.by = p /\ state'.config = clientFile
    BY <1>7, <2>1, PublishedType DEF Reload, DaemonInv
  <2>3. proc[p] \in Holding /\ GoesTo(p, "up")
    BY <1>7 DEF Reload, GoesTo, Holding, Steps, DaemonInv, DaemonTypeOK
  <2>4. proc' \in [Procs -> Steps] /\ known' \in [Procs -> Configs \cup {NoFile}] /\ StateIsOurs'
    BY <1>7, <2>1, <2>2, <2>3, StepServing DEF Reload
  <2> QED BY <1>7, <2>2, <2>4 DEF Reload, DaemonInv, DaemonTypeOK
<1>8. ASSUME NEW p \in Procs, PublishSample(p) PROVE DaemonInv'
  <2>1. known[p] \in Configs \cup {NoFile}
    BY DEF DaemonInv, DaemonTypeOK
  <2>2. state' \in State /\ state'.by = p /\ state'.config = known[p]
    BY <1>8, <2>1, PublishedType DEF PublishSample, DaemonInv
  <2>3. /\ proc[p] \in Holding /\ GoesTo(p, "up")
        /\ known' = [known EXCEPT ![p] = known[p]]
        /\ known[p] = clientFile \/ inotify'
    BY <1>8 DEF PublishSample, GoesTo, Holding, Steps, DaemonInv, DaemonTypeOK, StateIsOurs
  <2>4. proc' \in [Procs -> Steps] /\ known' \in [Procs -> Configs \cup {NoFile}] /\ StateIsOurs'
    BY <1>8, <2>1, <2>2, <2>3, StepServing DEF PublishSample
  <2> QED BY <1>8, <2>2, <2>4 DEF PublishSample, DaemonInv, DaemonTypeOK
<1>9. ASSUME NEW p \in Procs, Unlink(p) PROVE DaemonInv'
  <2>1. proc' \in [Procs -> Steps] /\ StateIsOurs'
    BY <1>9, StepWithin DEF Unlink, Holding, Steps
  <2> QED BY <1>9, <2>1 DEF Unlink, DaemonInv, DaemonTypeOK
<1>10. ASSUME NEW p \in Procs, Exit(p) PROVE DaemonInv'
  BY <1>10, StepVanish DEF Exit, DaemonInv, DaemonTypeOK
<1>11. ASSUME NEW p \in Procs, Crash(p) PROVE DaemonInv'
  <2>1. mishaps' \in 0..MaxMishaps
    BY <1>11, DaemonAssumption DEF Crash, DaemonInv, DaemonTypeOK
  <2> QED BY <1>11, <2>1, StepVanish DEF Crash
<1>12. ASSUME UNCHANGED daemonVars PROVE DaemonInv'
  BY <1>12 DEF daemonVars, DaemonInv, DaemonTypeOK, StateIsOurs
<1>13. ASSUME NEW p \in Procs, Kill(p) PROVE DaemonInv'
  <2>1. CASE Vanish(p) /\ UNCHANGED mishaps
    BY <2>1, StepVanish DEF DaemonInv, DaemonTypeOK
  <2> QED BY <1>12, <1>13, <2>1, StepLeave DEF Kill
<1>14. ASSUME NEW config \in Configs, ClientWrites(config) PROVE DaemonInv'
  BY <1>14 DEF ClientWrites, DaemonInv, DaemonTypeOK, StateIsOurs
<1> QED
  BY <1>1, <1>2, <1>3, <1>4, <1>5, <1>6, <1>7, <1>8, <1>9, <1>10, <1>11, <1>12, <1>13, <1>14,
     StepLeave DEF DaemonNext, DaemonSteps, Runs, IdleExit

\* At the start there is no process, no lock and no state file.
LEMMA DaemonInvInit == DaemonInit => DaemonInv
<1> SUFFICES ASSUME DaemonInit PROVE DaemonInv
  OBVIOUS
<1>1. DaemonTypeOK
  <2>1. inotify \in BOOLEAN
    BY Zenon DEF DaemonInit
  <2>2. mishaps \in 0..MaxMishaps
    BY DaemonAssumption DEF DaemonInit
  <2>3. proc \in [Procs -> Steps] /\ known \in [Procs -> Configs \cup {NoFile}]
    BY Zenon DEF DaemonInit, Steps
  <2> QED BY <2>1, <2>2, <2>3, Zenon DEF DaemonInit, DaemonTypeOK
<1>2. \A p \in Procs : proc[p] = "none" /\ lock # p
  BY DaemonAssumption DEF DaemonInit
<1> QED BY <1>1, <1>2 DEF DaemonInv, StateIsOurs, Holding

-----------------------------------------------------------------------------
\* The widget, its timers, its user and its shell jobs do to the daemon only
\* what the daemon is specified for: start it, stop it, configure it.
LEMMA WidgetUsesDaemon == DaemonInv /\ [Next]_vars => [DaemonNext]_daemonVars
<1> SUFFICES ASSUME DaemonInv, [Next]_vars PROVE [DaemonNext]_daemonVars
  OBVIOUS
<1>1. CASE poll \/ Heartbeat \/ WriteAges \/ LaunchAllowed
  BY <1>1 DEF poll, Heartbeat, WriteAges, LaunchAllowed
<1>2. CASE restartDaemon \/ \E config \in Configs : Edit(config)
  BY <1>2 DEF restartDaemon, Edit, UserActs
<1>3. CASE JobLaunches
  BY <1>3 DEF JobLaunches, DaemonNext
<1>4. CASE JobRestarts
  BY <1>4 DEF JobRestarts, DaemonNext, DaemonInv, DaemonTypeOK
<1>5. CASE \E config \in Configs : JobWrites(config)
  BY <1>5 DEF JobWrites, DaemonNext
<1>6. CASE \E p \in Procs : DaemonSteps(p) /\ UNCHANGED widgetVars
  BY <1>6 DEF DaemonNext
<1>7. CASE UNCHANGED vars
  BY <1>7 DEF vars
<1> QED BY <1>1, <1>2, <1>3, <1>4, <1>5, <1>6, <1>7 DEF Next, RunJob

\* However the widget launches, restarts and configures it, and wherever it is
\* killed or crashes, one daemon at a time serves and the state file on show is
\* the serving one's own (main's lock, Monitor::start, publish and ~Monitor).
THEOREM StateIsOursAlways == Spec => []StateIsOurs
<1>1. Init => DaemonInv
  BY DaemonInvInit DEF Init
<1>2. DaemonInv /\ [Next]_vars => DaemonInv'
  BY WidgetUsesDaemon, DaemonInductive
<1>3. DaemonInv => StateIsOurs
  BY DEF DaemonInv
<1> QED BY <1>1, <1>2, <1>3, PTL DEF Spec

\* The widget together with the daemon implements the daemon as it is specified
\* alone: nothing it does to lock, pid, state or configuration file is outside it.
THEOREM BackendImplementsDaemon == Spec => DaemonSpec
<1>1. Init => DaemonInit /\ DaemonInv
  BY DaemonInvInit DEF Init
<1>2. DaemonInv /\ [Next]_vars => DaemonInv' /\ [DaemonNext]_daemonVars
  BY WidgetUsesDaemon, DaemonInductive
<1> QED BY <1>1, <1>2, PTL DEF Spec, DaemonSpec

-----------------------------------------------------------------------------
(* The widget's own state.                                                 *)

\* TypeOK without the daemon's part.
WidgetTypeOK ==
    /\ daemonConfig \in Configs /\ writtenConfig \in Configs \cup {NoFile}
    /\ generation \in 0..Generations /\ daemonRunning \in BOOLEAN
    /\ missedPolls \in 0..2 /\ staleTicks \in 0..StaleLimit
    /\ writeAge \in 0..2 /\ mayLaunch \in BOOLEAN
    /\ jobs \subseteq Job /\ edits \in 0..MaxEdits

\* What the widget's shell can be asked for.
LEMMA JobKinds ==
    /\ [do |-> "launch"] \in Job /\ [do |-> "restart"] \in Job
    /\ \A config \in Configs : [do |-> "write", config |-> config] \in Job
BY DEF Job

\* The configuration that is written is one.
LEMMA WriteConfigType ==
    ASSUME WidgetTypeOK, daemonConfig' \in Configs, writeConfig
    PROVE  writtenConfig' \in Configs \cup {NoFile} /\ writeAge' \in 0..2 /\ jobs' \subseteq Job
BY JobKinds DEF WidgetTypeOK, writeConfig

\* A failed poll counts to two and no further.
LEMMA PollFailedType ==
    ASSUME WidgetTypeOK, onPollFailed, UNCHANGED edits
    PROVE  WidgetTypeOK'
<1>1. jobs' \subseteq Job /\ mayLaunch' \in BOOLEAN
  BY JobKinds DEF WidgetTypeOK, onPollFailed, launchDaemon
<1>2. missedPolls' \in 0..2 /\ writeAge' \in 0..2 /\ staleTicks' \in 0..StaleLimit /\ generation' \in 0..Generations
  BY BackendAssumption, DaemonAssumption DEF WidgetTypeOK, onPollFailed
<1>3. daemonRunning' \in BOOLEAN /\ writtenConfig' \in Configs \cup {NoFile}
  BY DEF WidgetTypeOK, onPollFailed
<1> QED BY <1>1, <1>2, <1>3 DEF WidgetTypeOK, onPollFailed

\* The generation a widget has seen is one a daemon published.
LEMMA PollType ==
    ASSUME DaemonTypeOK, WidgetTypeOK, poll
    PROVE  WidgetTypeOK'
<1>1. CASE PollFails
  BY <1>1, PollFailedType DEF poll, PollFails
<1>2. CASE PollStale
  <2>1. CASE onPollFailed
    BY <2>1, PollFailedType DEF poll
  <2>2. CASE ~onPollFailed
    BY <1>2, <2>2, BackendAssumption DEF PollStale, poll, WidgetTypeOK
  <2> QED BY <2>1, <2>2
<1>3. CASE PollNews
  <2>1. state.generation \in 0..Generations
    BY <1>3, DaemonAssumption DEF PollNews, DaemonTypeOK, State
  <2>2. writtenConfig' \in Configs \cup {NoFile} /\ writeAge' \in 0..2 /\ jobs' \subseteq Job
    BY <1>3, WriteConfigType DEF PollNews, applyDocument, WidgetTypeOK
  <2> QED BY <1>3, <2>1, <2>2, BackendAssumption DEF PollNews, applyDocument, poll, WidgetTypeOK
<1> QED BY <1>1, <1>2, <1>3 DEF poll

\* One step per action of the widget, its user and its shell.
LEMMA WidgetTypeStep == DaemonTypeOK /\ WidgetTypeOK /\ [Next]_vars => WidgetTypeOK'
<1> SUFFICES ASSUME DaemonTypeOK, WidgetTypeOK, [Next]_vars PROVE WidgetTypeOK'
  OBVIOUS
<1>1. CASE poll
  BY <1>1, PollType
<1>2. CASE Heartbeat
  BY <1>2, WriteConfigType DEF Heartbeat, WidgetTypeOK
<1>3. CASE WriteAges \/ LaunchAllowed
  <2>1. writeAge' \in 0..2
    BY <1>3 DEF WriteAges, LaunchAllowed, WidgetTypeOK
  <2>2. mayLaunch' \in BOOLEAN
    BY <1>3 DEF WriteAges, LaunchAllowed, WidgetTypeOK
  <2> QED BY <1>3, <2>1, <2>2 DEF WriteAges, LaunchAllowed, WidgetTypeOK
<1>4. CASE restartDaemon
  <2>1. jobs' \subseteq Job
    BY <1>4, JobKinds DEF restartDaemon, WidgetTypeOK
  <2>2. edits' \in 0..MaxEdits
    BY <1>4, BackendAssumption DEF restartDaemon, UserActs, WidgetTypeOK
  <2>3. mayLaunch' \in BOOLEAN
    BY <1>4 DEF restartDaemon
  <2> QED BY <1>4, <2>1, <2>2, <2>3 DEF restartDaemon, WidgetTypeOK
<1>5. ASSUME NEW config \in Configs, Edit(config) PROVE WidgetTypeOK'
  <2>1. writtenConfig' \in Configs \cup {NoFile} /\ writeAge' \in 0..2 /\ jobs' \subseteq Job
    BY <1>5, WriteConfigType DEF Edit, WidgetTypeOK
  <2> QED BY <1>5, <2>1, BackendAssumption DEF Edit, UserActs, WidgetTypeOK
<1>6. CASE RunJob
  <2>1. jobs' \subseteq Job
    BY <1>6, JobKinds DEF RunJob, JobLaunches, JobRestarts, JobWrites, JobEnds, WidgetTypeOK
  <2> QED BY <1>6, <2>1 DEF RunJob, JobLaunches, JobRestarts, JobWrites, JobEnds, WidgetTypeOK
<1>7. CASE \E p \in Procs : DaemonSteps(p) /\ UNCHANGED widgetVars
  BY <1>7 DEF widgetVars, WidgetTypeOK
<1>8. CASE UNCHANGED vars
  BY <1>8 DEF vars, widgetVars, WidgetTypeOK
<1> QED BY <1>1, <1>2, <1>3, <1>4, <1>5, <1>6, <1>7, <1>8 DEF Next

\* Widget and daemon keep their types: the counts of failed and stale polls stay
\* within the limits poll compares them with, and the generation a widget goes by
\* is none or one the daemon's counter can take (poll and onPollFailed).
THEOREM BackendTypeCorrect == Spec => []TypeOK
<1>1. Init => DaemonInv /\ WidgetTypeOK
  <2> SUFFICES ASSUME Init PROVE WidgetTypeOK
    BY DaemonInvInit DEF Init
  <2>1. jobs \subseteq Job
    BY JobKinds DEF Init
  <2>2. /\ generation \in 0..Generations /\ staleTicks \in 0..StaleLimit /\ edits \in 0..MaxEdits
        /\ missedPolls \in 0..2 /\ writeAge \in 0..2
    BY BackendAssumption, DaemonAssumption DEF Init
  <2>3. daemonRunning \in BOOLEAN /\ mayLaunch \in BOOLEAN
    BY DEF Init
  <2> QED BY <2>1, <2>2, <2>3 DEF Init, WidgetTypeOK
<1>2. DaemonInv /\ WidgetTypeOK /\ [Next]_vars => DaemonInv' /\ WidgetTypeOK'
  BY WidgetUsesDaemon, DaemonInductive, WidgetTypeStep DEF DaemonInv
<1>3. DaemonInv /\ WidgetTypeOK => TypeOK
  BY DEF DaemonInv, WidgetTypeOK, TypeOK
<1> QED BY <1>1, <1>2, <1>3, PTL DEF Spec
=============================================================================
