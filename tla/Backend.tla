------------------------------ MODULE Backend -------------------------------
(***************************************************************************)
(* The widget's side: it polls the state file, launches the daemon when    *)
(* polls fail, and hands it the configuration.  Everything that touches    *)
(* the disk or a process is a shell job that runs on its own; jobs run in  *)
(* any order, and a job identical to one under way is not started again.   *)
(* What a poll shows in the list of destinations is left out.              *)
(***************************************************************************)
EXTENDS Daemon

CONSTANTS
    StaleLimit,    \* polls without news that are put up with
    MaxEdits       \* bound: edits and restarts by the user

ASSUME BackendAssumption == StaleLimit \in Nat /\ MaxEdits \in Nat

VARIABLES
    daemonConfig,          \* the configuration as the daemon is to know it
    writtenConfig,         \* what was last written, NoFile if it is to be again
    generation,            \* the generation last seen, 0 if none
    daemonRunning, missedPolls, staleTicks,
    writeAge,              \* since lastWriteMs: 0 below 2 s, 1 below 5 s, 2 above
    mayLaunch,             \* 15 s have passed since lastLaunchMs
    jobs,                  \* the shell jobs under way
    edits

widgetVars == <<daemonConfig, writtenConfig, generation, daemonRunning, missedPolls, staleTicks,
                writeAge, mayLaunch, jobs, edits>>
vars == <<daemonVars, widgetVars>>

Job == [do: {"write"}, config: Configs] \cup [do: {"launch", "restart"}]

TypeOK ==
    /\ DaemonTypeOK
    /\ daemonConfig \in Configs /\ writtenConfig \in Configs \cup {NoFile}
    /\ generation \in 0..Generations /\ daemonRunning \in BOOLEAN
    /\ missedPolls \in 0..2 /\ staleTicks \in 0..StaleLimit
    /\ writeAge \in 0..2 /\ mayLaunch \in BOOLEAN
    /\ jobs \subseteq Job /\ edits \in 0..MaxEdits

\* Component.onCompleted: the configuration is written before the first poll.
Init ==
    /\ DaemonInit
    /\ daemonConfig \in Configs /\ writtenConfig = daemonConfig
    /\ generation = 0 /\ daemonRunning = FALSE /\ missedPolls = 0 /\ staleTicks = 0
    /\ writeAge = 0 /\ mayLaunch = TRUE
    /\ jobs = {[do |-> "write", config |-> daemonConfig]}
    /\ edits = 0

-----------------------------------------------------------------------------
writeConfig ==
    /\ writtenConfig' = daemonConfig' /\ writeAge' = 0
    /\ jobs' = jobs \cup {[do |-> "write", config |-> daemonConfig']}

\* At most one launch every 15 seconds.
launchDaemon ==
    IF mayLaunch
    THEN mayLaunch' = FALSE /\ jobs' = jobs \cup {[do |-> "launch"]}
    ELSE UNCHANGED <<mayLaunch, jobs>>

\* Mutant: a daemon that has gone is not missed once it was seen.
onPollFailedTrusting ==
    /\ missedPolls' = IF missedPolls < 2 THEN missedPolls + 1 ELSE 2
    /\ staleTicks' = 0 /\ generation' = 0
    /\ IF ~daemonRunning /\ daemonConfig # NoRows
       THEN launchDaemon /\ writeAge' = 2 /\ writtenConfig' = NoFile
       ELSE UNCHANGED <<mayLaunch, jobs, writeAge, writtenConfig>>
    /\ UNCHANGED <<daemonConfig, daemonRunning>>

\* Mutant: the count of failed polls is not capped.
onPollFailedUncapped ==
    /\ missedPolls' = missedPolls + 1
    /\ staleTicks' = 0 /\ generation' = 0
    /\ daemonRunning' = (daemonRunning /\ missedPolls' < 2)
    /\ IF ~daemonRunning' /\ daemonConfig # NoRows
       THEN launchDaemon /\ writeAge' = 2 /\ writtenConfig' = NoFile
       ELSE UNCHANGED <<mayLaunch, jobs, writeAge, writtenConfig>>
    /\ UNCHANGED daemonConfig

onPollFailed ==
    /\ missedPolls' = IF missedPolls < 2 THEN missedPolls + 1 ELSE 2
    /\ staleTicks' = 0 /\ generation' = 0
    /\ daemonRunning' = (daemonRunning /\ missedPolls' < 2)
    /\ IF ~daemonRunning' /\ daemonConfig # NoRows
       THEN launchDaemon /\ writeAge' = 2 /\ writtenConfig' = NoFile
       ELSE UNCHANGED <<mayLaunch, jobs, writeAge, writtenConfig>>
    /\ UNCHANGED daemonConfig

\* A new document: we may be missing from it, or have an edit it does not know.
applyDocument ==
    /\ generation' = state.generation
    /\ UNCHANGED <<daemonConfig, mayLaunch>>
    /\ IF (state.config = NoFile /\ writeAge = 2)
          \/ (state.config # NoFile /\ writtenConfig # daemonConfig /\ writeAge > 0)
       THEN writeConfig
       ELSE UNCHANGED <<writtenConfig, writeAge, jobs>>

PollFails == state = NoFile /\ onPollFailed

PollStale ==
    /\ state # NoFile /\ state.generation = generation
    /\ IF daemonConfig # NoRows /\ staleTicks = StaleLimit
       THEN onPollFailed
       ELSE /\ staleTicks' = IF staleTicks < StaleLimit THEN staleTicks + 1 ELSE staleTicks
            /\ UNCHANGED <<daemonConfig, writtenConfig, generation, daemonRunning, missedPolls,
                           writeAge, mayLaunch, jobs>>

PollNews ==
    /\ state # NoFile /\ state.generation # generation
    /\ missedPolls' = 0 /\ staleTicks' = 0 /\ daemonRunning' = TRUE
    /\ applyDocument

poll == (PollFails \/ PollStale \/ PollNews) /\ UNCHANGED <<daemonVars, edits>>

\* The five-minute timer.
Heartbeat ==
    /\ UNCHANGED daemonConfig /\ writeConfig
    /\ UNCHANGED <<daemonVars, generation, daemonRunning, missedPolls, staleTicks, mayLaunch, edits>>

\* Two, five and fifteen seconds pass.
WriteAges ==
    /\ writeAge < 2 /\ writeAge' = writeAge + 1
    /\ UNCHANGED <<daemonVars, daemonConfig, writtenConfig, generation, daemonRunning, missedPolls,
                   staleTicks, mayLaunch, jobs, edits>>

LaunchAllowed ==
    /\ ~mayLaunch /\ mayLaunch' = TRUE
    /\ UNCHANGED <<daemonVars, daemonConfig, writtenConfig, generation, daemonRunning, missedPolls,
                   staleTicks, writeAge, jobs, edits>>

-----------------------------------------------------------------------------
(* The user.                                                               *)

UserActs == edits < MaxEdits /\ edits' = edits + 1 /\ UNCHANGED daemonVars

\* onDaemonConfigChanged.
Edit(config) ==
    /\ UserActs /\ config # daemonConfig
    /\ daemonConfig' = config
    /\ IF config # writtenConfig THEN writeConfig ELSE UNCHANGED <<writtenConfig, writeAge, jobs>>
    /\ UNCHANGED <<generation, daemonRunning, missedPolls, staleTicks, mayLaunch>>

restartDaemon ==
    /\ UserActs
    /\ mayLaunch' = TRUE /\ writtenConfig' = NoFile
    /\ jobs' = jobs \cup {[do |-> "restart"]}
    /\ UNCHANGED <<daemonConfig, generation, daemonRunning, missedPolls, staleTicks, writeAge>>

-----------------------------------------------------------------------------
(* The shell.                                                              *)

JobEnds(job, more) ==
    /\ job \in jobs /\ jobs' = (jobs \ {job}) \cup more
    /\ UNCHANGED <<daemonConfig, writtenConfig, generation, daemonRunning, missedPolls, staleTicks,
                   writeAge, mayLaunch, edits>>

JobWrites(config) == JobEnds([do |-> "write", config |-> config], {}) /\ ClientWrites(config)

\* With no process left to be, others are ahead of it and it would be refused.
JobLaunches ==
    /\ JobEnds([do |-> "launch"], {})
    /\ \/ \E p \in Procs : Launch(p)
       \/ (\A p \in Procs : proc[p] # "none") /\ UNCHANGED daemonVars

\* Kill the process whose pid is in the lock file, wait a second, launch.
JobRestarts ==
    /\ JobEnds([do |-> "restart"], {[do |-> "launch"]})
    /\ IF pidFile = NoProc THEN UNCHANGED daemonVars ELSE Kill(pidFile)

RunJob == JobLaunches \/ JobRestarts \/ \E config \in Configs : JobWrites(config)

Next ==
    \/ poll \/ Heartbeat \/ WriteAges \/ LaunchAllowed
    \/ restartDaemon \/ \E config \in Configs : Edit(config)
    \/ RunJob
    \/ \E p \in Procs : DaemonSteps(p) /\ UNCHANGED widgetVars

Spec == Init /\ [][Next]_vars

\* Timers fire, shell jobs end, the kernel runs the daemon and tells it of the
\* file; its probes report.  The user may do nothing, and a mishap need not be.
Fairness ==
    /\ WF_vars(poll) /\ WF_vars(Heartbeat) /\ WF_vars(WriteAges) /\ WF_vars(LaunchAllowed)
    /\ WF_vars(JobLaunches) /\ WF_vars(JobRestarts)
    /\ \A config \in Configs : WF_vars(JobWrites(config))
    /\ \A p \in Procs : WF_vars(Runs(p) /\ UNCHANGED widgetVars)
    /\ \A p \in Procs : WF_vars(PublishSample(p) /\ UNCHANGED widgetVars)

FairSpec == Spec /\ Fairness

-----------------------------------------------------------------------------
Served ==
    \E p \in Procs : proc[p] = "up" /\ known[p] = daemonConfig /\ daemonRunning

\* The state file of a daemon that did not live to remove it.
Orphaned == state # NoFile /\ proc[state.by] = "none"

\* Once the user lets it be, a widget with destinations is served: a daemon is
\* up with the widget's latest configuration and the widget knows of it, whatever
\* edits, restarts, failed starts, idle exits and reordered shell jobs came before
\* (poll, onPollFailed, writeConfig against main and reloadClients).  Only a state
\* file that a crashed daemon left behind can keep it from that for good.
Serves == <>[](daemonConfig # NoRows => Served \/ Orphaned)

Dead == \A p \in Procs : proc[p] = "none"

\* "You do not need to manage it. The widget starts the backend when it needs
\* one" (README.md:117), also when "it died without cleaning up after itself"
\* (Backend.qml:452): a dead daemon is noticed or launched again.  It is not when
\* its state file outlives it (poll and onPollFailed).
DeathNoticed == Dead ~> (~Dead \/ ~daemonRunning \/ daemonConfig = NoRows)
=============================================================================
