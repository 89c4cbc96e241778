------------------------------ MODULE Monitor -------------------------------
(***************************************************************************)
(* From a widget's configuration file to what the daemon publishes: the    *)
(* clients directory and its watch, the event loop's reload, expiry and    *)
(* publish steps, and the two state files.  Between any two system calls   *)
(* of the daemon, widgets write, refresh and remove their files, somebody  *)
(* removes the whole directory, the machine sleeps, and writes fail.       *)
(*                                                                         *)
(* Of what is published, the configurations are kept apart; for the LEDs   *)
(* and numbers it matters only whether the file shows the latest.  A file  *)
(* is old when it has not been refreshed for clientTimeoutUs, by the       *)
(* real-time clock.                                                        *)
(***************************************************************************)
EXTENDS Naturals, FiniteSets

CONSTANTS
    Widgets, Configs, NoFile,
    MaxDirs,       \* bound: times the clients directory is made
    MaxEdits,      \* bound: edits, and widgets leaving or coming back
    MaxMishaps     \* bound: suspends and failed writes

Contents == [Widgets -> Configs \cup {NoFile}]

ASSUME MonitorAssumption ==
    /\ NoFile \notin Configs /\ NoFile \notin Widgets
    /\ MaxDirs \in Nat \ {0} /\ MaxEdits \in Nat /\ MaxMishaps \in Nat

VARIABLES
    dir, watch,      \* the clients directory and the one watched, 0 for none
    made,            \* how often it has been made
    events,          \* the inotify or signal descriptor has something to read
    file, old,       \* each widget's file, and whether it is stale
    wanted,          \* each widget's configuration, NoFile once it is gone
    jobs,            \* the shell scripts under way
    pc,              \* where the loop is
    known,           \* m_clients: the configurations loaded
    toCheck, victim, \* clients still to look at, the one found stale
    configDirty, stateDirty, dataDirty,
    ini,             \* the configurations state.ini goes by
    lacks,           \* what of the daemon's knowledge the state files lack
    edits, mishaps,
    failed,          \* history: a state file could not be written
    deaf             \* history: the loop looked at the directory and left it unwatched

dirVars == <<dir, watch, made, deaf>>
widgetVars == <<wanted, edits>>
loopVars == <<known, toCheck, victim, configDirty, stateDirty, dataDirty, lacks>>
shownVars == <<ini, failed>>
vars == <<dirVars, events, file, old, widgetVars, jobs, pc, loopVars, shownVars, mishaps>>

Job == [by: Widgets, config: Configs \cup {NoFile}, step: {"mkdir", "mv", "rm"}]

TypeOK ==
    /\ dir \in 0..MaxDirs /\ watch \in 0..MaxDirs /\ made \in 1..MaxDirs /\ deaf \in BOOLEAN
    /\ file \in Contents /\ old \in [Widgets -> BOOLEAN]
    /\ (dir = 0 => \A w \in Widgets : file[w] = NoFile)
    /\ wanted \in Contents /\ jobs \subseteq Job
    /\ pc \in {"wait", "reload", "mkdir", "watch", "tick", "expire", "unlink"}
    /\ known \in Contents /\ ini \in Contents /\ lacks \subseteq {"leds", "numbers", "readable"}
    /\ toCheck \subseteq Widgets /\ victim \in Widgets \cup {NoFile}
    /\ events \in BOOLEAN /\ configDirty \in BOOLEAN /\ stateDirty \in BOOLEAN
    /\ dataDirty \in BOOLEAN /\ failed \in BOOLEAN
    /\ edits \in 0..MaxEdits /\ mishaps \in 0..MaxMishaps

Clients == {w \in Widgets : known[w] # NoFile}

\* Monitor::start has watched the directory, loaded the files and published.
Init ==
    /\ dir = 1 /\ watch = 1 /\ made = 1 /\ deaf = FALSE /\ events = FALSE
    /\ file \in Contents /\ old = [w \in Widgets |-> FALSE]
    /\ wanted = file /\ jobs = {}
    /\ pc = "wait" /\ known = file /\ toCheck = {} /\ victim = NoFile
    /\ configDirty = FALSE /\ stateDirty = FALSE /\ dataDirty = FALSE
    /\ ini = file /\ lacks = {} /\ failed = FALSE
    /\ edits = 0 /\ mishaps = 0

-----------------------------------------------------------------------------
(* The widgets and their shell scripts.                                    *)

MakeDirectory ==
    IF dir # 0 THEN UNCHANGED dirVars
    ELSE made < MaxDirs /\ made' = made + 1 /\ dir' = made + 1 /\ UNCHANGED <<watch, deaf>>

\* The same command is not started again while it runs.
writeConfig(w) ==
    jobs' = IF \E j \in jobs : j.by = w /\ j.config = wanted'[w] THEN jobs
            ELSE jobs \cup {[by |-> w, config |-> wanted'[w], step |-> "mkdir"]}

\* A widget appears, or its configuration is edited.
Edit(w, config) ==
    /\ edits < MaxEdits /\ edits' = edits + 1
    /\ config # wanted[w] /\ wanted' = [wanted EXCEPT ![w] = config]
    /\ writeConfig(w)
    /\ UNCHANGED <<dirVars, events, file, old, pc, loopVars, shownVars, mishaps>>

\* The five-minute timer, or a published document without this client.
Refresh(w) ==
    /\ wanted[w] # NoFile /\ UNCHANGED wanted
    /\ writeConfig(w)
    /\ UNCHANGED <<dirVars, events, file, old, edits, pc, loopVars, shownVars, mishaps>>

\* The widget goes: removeConfig makes it, or plasmashell was killed.
Depart(w, clean) ==
    /\ edits < MaxEdits /\ edits' = edits + 1
    /\ wanted[w] # NoFile /\ wanted' = [wanted EXCEPT ![w] = NoFile]
    /\ jobs' = jobs \cup (IF clean THEN {[by |-> w, config |-> NoFile, step |-> "rm"]} ELSE {})
    /\ UNCHANGED <<dirVars, events, file, old, pc, loopVars, shownVars, mishaps>>

Notify == events' = (events \/ (watch # 0 /\ watch = dir))

\* mkdir -p, then the temporary file and mv; without the directory they fail.
RunJob(j) ==
    /\ j \in jobs
    /\ \/ /\ j.step = "mkdir" /\ MakeDirectory
          /\ jobs' = (jobs \ {j}) \cup {[j EXCEPT !.step = "mv"]}
          /\ UNCHANGED <<file, old, events>>
       \/ /\ j.step # "mkdir" /\ jobs' = jobs \ {j}
          /\ IF dir = 0 \/ (j.config = NoFile /\ file[j.by] = NoFile)
             THEN UNCHANGED <<file, old, events>>
             ELSE /\ file' = [file EXCEPT ![j.by] = j.config]
                  /\ old' = [old EXCEPT ![j.by] = FALSE]
                  /\ Notify
          /\ UNCHANGED dirVars
    /\ UNCHANGED <<widgetVars, pc, loopVars, shownVars, mishaps>>

\* Logout, or a clean-up by hand; the watch ends with its directory, and says so.
RemoveDirectory ==
    /\ dir # 0 /\ made < MaxDirs
    /\ dir' = 0 /\ watch' = (IF watch = dir THEN 0 ELSE watch) /\ UNCHANGED <<made, deaf>>
    /\ file' = [w \in Widgets |-> NoFile] /\ old' = [w \in Widgets |-> FALSE]
    /\ Notify
    /\ UNCHANGED <<widgetVars, jobs, pc, loopVars, shownVars, mishaps>>

\* SIGHUP.
Hangup ==
    /\ ~events /\ events' = TRUE
    /\ UNCHANGED <<dirVars, file, old, widgetVars, jobs, pc, loopVars, shownVars, mishaps>>

\* The machine sleeps for longer than clientTimeoutUs.  The timers of daemon and
\* widgets stand still meanwhile, the real-time clock does not.
Suspend ==
    /\ mishaps < MaxMishaps /\ mishaps' = mishaps + 1
    /\ old' = [w \in Widgets |-> file[w] # NoFile]
    /\ UNCHANGED <<dirVars, events, file, widgetVars, jobs, pc, loopVars, shownVars>>

\* Nobody refreshes the file of a widget that is gone.
Age(w) ==
    /\ wanted[w] = NoFile /\ file[w] # NoFile /\ ~old[w]
    /\ old' = [old EXCEPT ![w] = TRUE]
    /\ UNCHANGED <<dirVars, events, file, widgetVars, jobs, pc, loopVars, shownVars, mishaps>>

-----------------------------------------------------------------------------
(* The event loop.                                                         *)

Goto(step) == pc = step[1] /\ pc' = step[2]

\* nextDeadline gives the loop something to wait for besides descriptors.
nextDeadline == Clients # {} \/ dataDirty \/ stateDirty

\* epoll_wait returns, and handleInotify empties the descriptor.
WakeUp ==
    /\ events \/ nextDeadline
    /\ pc = "wait" /\ configDirty' = (configDirty \/ events) /\ events' = FALSE
    /\ pc' = IF configDirty' THEN "reload" ELSE "tick"
    /\ UNCHANGED <<dirVars, file, old, widgetVars, jobs, known, toCheck, victim, stateDirty, dataDirty,
                   lacks, shownVars, mishaps>>

\* Mutant: a directory that cannot be read leaves the clients there were.
LoadedOrKept == IF dir = 0 THEN known ELSE file

\* The clients read; none without the directory.
Loaded == file

\* reloadClients up to opendir and the reading of the files.  A directory that is
\* there is taken to be the one watched.
reloadClients ==
    /\ pc = "reload" /\ pc' = IF dir = 0 THEN "mkdir" ELSE "tick"
    /\ configDirty' = FALSE /\ stateDirty' = TRUE
    /\ known' = Loaded /\ lacks' = lacks \cup {"leds", "readable"}
    /\ deaf' = (deaf \/ (dir # 0 /\ watch # dir))
    /\ UNCHANGED <<dir, watch, made, events, file, old, widgetVars, jobs, toCheck, victim, dataDirty,
                   shownVars, mishaps>>

\* "The directory vanished": makeDirectories, then inotify_add_watch.
Recreate ==
    /\ Goto(<<"mkdir", "watch">>) /\ MakeDirectory
    /\ UNCHANGED <<events, file, old, widgetVars, jobs, loopVars, shownVars, mishaps>>

\* Mutant: the directory is made again but not watched.
RewatchNot ==
    /\ Goto(<<"watch", "tick">>) /\ UNCHANGED dirVars
    /\ UNCHANGED <<events, file, old, widgetVars, jobs, loopVars, shownVars, mishaps>>

\* inotify_add_watch, which fails if the directory is gone again.
Rewatch ==
    /\ Goto(<<"watch", "tick">>) /\ watch' = dir /\ deaf' = (dir = 0) /\ UNCHANGED <<dir, made>>
    /\ UNCHANGED <<events, file, old, widgetVars, jobs, loopVars, shownVars, mishaps>>

\* Replies, give-ups and failed sends: a sample changes numbers, maybe a LED.
\* Then dropExpiredClients looks at every client, if its interval has passed.
tick(checks) ==
    /\ Goto(<<"tick", "expire">>)
    /\ \/ UNCHANGED <<stateDirty, dataDirty, lacks>>
       \/ /\ Clients # {} /\ dataDirty' = TRUE
          /\ \/ UNCHANGED stateDirty /\ lacks' = lacks \cup {"numbers"}
             \/ stateDirty' = TRUE /\ lacks' = {"leds", "numbers", "readable"}
    /\ toCheck' = IF checks THEN Clients ELSE {}
    /\ UNCHANGED <<dirVars, events, file, old, widgetVars, jobs, known, victim, configDirty,
                   shownVars, mishaps>>

\* stat
Check(w) ==
    /\ pc = "expire" /\ w \in toCheck /\ toCheck' = toCheck \ {w}
    /\ IF file[w] # NoFile /\ old[w] THEN pc' = "unlink" /\ victim' = w ELSE UNCHANGED <<pc, victim>>
    /\ UNCHANGED <<dirVars, events, file, old, widgetVars, jobs, known, configDirty, stateDirty, dataDirty,
                   lacks, shownVars, mishaps>>

\* unlink, by name
Drop ==
    /\ Goto(<<"unlink", "expire">>)
    /\ file' = [file EXCEPT ![victim] = NoFile] /\ old' = [old EXCEPT ![victim] = FALSE]
    /\ IF file[victim] # NoFile THEN Notify ELSE UNCHANGED events
    /\ configDirty' = TRUE /\ victim' = NoFile
    /\ UNCHANGED <<dirVars, widgetVars, jobs, known, toCheck, stateDirty, dataDirty, lacks,
                   shownVars, mishaps>>

\* Mutant: a LED waits for the next slot like any other news.
PublishDueBySlot(slot) == (stateDirty \/ dataDirty) /\ slot

PublishDue(slot) == stateDirty \/ (dataDirty /\ slot)

\* Mutant: the file is written in place, and may be left half written.
WrittenInPlace(contents, ok) == IF ok THEN known ELSE << >>

\* writeFileAtomically: the new contents, or the old ones still.
Written(contents, ok) == IF ok THEN known ELSE contents

\* The slots for routine updates (publishIntervalUs) and for state.json (every
\* five seconds) have come or not, and each file is written or not.  What is
\* dirty is no longer, in any case.
publish(slot, readableSlot, iniOk, jsonOk) ==
    /\ Goto(<<"expire", "wait">>) /\ toCheck = {}
    /\ (iniOk /\ jsonOk) \/ mishaps < MaxMishaps
    /\ IF PublishDue(slot)
       THEN /\ ini' = Written(ini, iniOk)
            /\ lacks' = lacks \ ((IF iniOk THEN {"leds", "numbers"} ELSE {})
                           \cup (IF jsonOk /\ (stateDirty \/ readableSlot) THEN {"readable"} ELSE {}))
            /\ failed' = (failed \/ ~iniOk \/ ~jsonOk)
            /\ mishaps' = IF iniOk /\ jsonOk THEN mishaps ELSE mishaps + 1
            /\ stateDirty' = FALSE /\ dataDirty' = FALSE
       ELSE UNCHANGED <<shownVars, mishaps, stateDirty, dataDirty, lacks>>
    /\ UNCHANGED <<dirVars, events, file, old, widgetVars, jobs, known, toCheck, victim, configDirty>>

Loop ==
    \/ WakeUp \/ reloadClients \/ Recreate \/ Rewatch \/ \E checks \in BOOLEAN : tick(checks)
    \/ (\E w \in Widgets : Check(w)) \/ Drop
    \/ \E slot, readableSlot, iniOk, jsonOk \in BOOLEAN : publish(slot, readableSlot, iniOk, jsonOk)

Next ==
    \/ \E w \in Widgets : Refresh(w) \/ Age(w)
    \/ \E w \in Widgets, config \in Configs : Edit(w, config)
    \/ \E w \in Widgets, clean \in BOOLEAN : Depart(w, clean)
    \/ \E j \in jobs : RunJob(j)
    \/ RemoveDirectory \/ Hangup \/ Suspend
    \/ Loop

Spec == Init /\ [][Next]_vars

\* The kernel runs the loop and the scripts, the widgets' timers fire, the file
\* of a widget that is gone gets old, and the loop keeps finding that the interval
\* between two checks has passed.  Nothing else need happen, a sample neither.
Fairness ==
    /\ WF_vars(Loop) /\ SF_vars(tick(TRUE))
    /\ \A w \in Widgets : WF_vars(Refresh(w)) /\ WF_vars(Age(w))
    /\ \A j \in Job : WF_vars(RunJob(j))

FairSpec == Spec /\ Fairness

-----------------------------------------------------------------------------
\* Once nobody edits any more, the published document lists exactly the widgets
\* there are, each with its latest configuration, and none that is gone; whatever
\* was lost on the way (a directory removed between mkdir and mv, a file written
\* between opendir and inotify_add_watch or refreshed between stat and unlink, a
\* state file that could not be written though its dirty flag was cleared).  Only
\* a daemon that is deaf may miss it for good (the directory was made again by a
\* widget's script before reloadClients came to look, so that opendir succeeded and
\* nothing watches it, or it went again before inotify_add_watch), and one whose
\* write failed when it had no widget left whose refresh would make it publish again.
EditsReach ==
    <>[](ini = wanted \/ deaf \/ (failed /\ \A w \in Widgets : wanted[w] = NoFile))

\* When the loop goes to sleep, both state files show the clients and LEDs it has
\* in memory, and state.ini the latest numbers too, unless they wait for their
\* slot (publish, with the flags reloadClients and applySample set); as long as
\* no write has failed.
ShowsCurrent ==
    pc = "wait" /\ ~failed =>
        /\ ini = known
        /\ lacks \subseteq (IF dataDirty THEN {"numbers"} ELSE {})

\* "already gone, inotify will have flagged it" (monitor.cpp:419), of any change: as
\* long as the clients in memory are not those of the directory, an event waits to be
\* read or the reload is due; unless the daemon is deaf, or has no clients since it
\* found the directory gone, and a file came between opendir and inotify_add_watch.
NewsFlagged ==
    known # file => events \/ configDirty \/ deaf \/ (made > 1 /\ Clients = {})

\* "The widget refreshes its config file periodically; a stale file means its
\* plasmashell went away without cleaning up" (monitor.cpp:423): the client that
\* dropExpiredClients is about to drop belongs to a widget that is gone.  After a
\* long suspend every file is stale, and a check that comes before the widgets'
\* next refresh drops them all.
StaleMeansGone == victim # NoFile => wanted[victim] = NoFile
=============================================================================
