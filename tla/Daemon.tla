------------------------------- MODULE Daemon -------------------------------
(***************************************************************************)
(* The daemon's processes and the files in the runtime directory: the lock *)
(* that makes it single-instance, the pid kept in it, the state file it    *)
(* publishes and removes, and the configuration file of one widget.        *)
(*                                                                         *)
(* A process is where main has got to: "starting" (before the lock),       *)
(* "locked", "named" (pid written, signals not yet blocked), "up" (in the  *)
(* event loop), "leaving" (loop left) and "joining" (files removed, the    *)
(* worker thread being joined).  "none" is no process.                     *)
(***************************************************************************)
EXTENDS Naturals

CONSTANTS
    Procs, NoProc,
    Configs,        \* what a widget may configure
    NoRows,         \* the configuration without enabled destinations
    NoFile,
    Generations,    \* bound: the generation counter wraps here
    MaxMishaps      \* bound: crashes and failed starts

State == [generation: 1..Generations, by: Procs, config: Configs \cup {NoFile}]

ASSUME DaemonAssumption ==
    /\ NoProc \notin Procs
    /\ NoRows \in Configs /\ NoFile \notin Configs \cup State
    /\ Generations \in Nat \ {0} /\ MaxMishaps \in Nat

VARIABLES
    proc, known,     \* where each process is, the configuration it has loaded
    lock, pidFile,   \* who holds the lock file, whose pid is in it
    state,           \* state.ini
    clientFile,      \* the widget's configuration file
    inotify,         \* the watched directory has events to read
    mishaps

daemonVars == <<proc, known, lock, pidFile, state, clientFile, inotify, mishaps>>

Steps == {"none", "starting", "locked", "named", "up", "leaving", "joining"}
Holding == Steps \ {"none", "starting"}

DaemonTypeOK ==
    /\ proc \in [Procs -> Steps] /\ known \in [Procs -> Configs \cup {NoFile}]
    /\ lock \in Procs \cup {NoProc} /\ pidFile \in Procs \cup {NoProc}
    /\ state \in State \cup {NoFile} /\ clientFile \in Configs \cup {NoFile}
    /\ inotify \in BOOLEAN /\ mishaps \in 0..MaxMishaps

DaemonInit ==
    /\ proc = [p \in Procs |-> "none"] /\ known = [p \in Procs |-> NoFile]
    /\ lock = NoProc /\ pidFile = NoProc
    /\ state = NoFile /\ clientFile = NoFile
    /\ inotify = FALSE /\ mishaps = 0

-----------------------------------------------------------------------------
\* publish: the next generation, with what the process knows of the widget.
Published(p, config) ==
    [generation |-> IF state # NoFile /\ state.by = p
                    THEN (state.generation % Generations) + 1 ELSE 1,
     by |-> p, config |-> config]

GoesTo(p, step) == proc' = [proc EXCEPT ![p] = step]

Launch(p) ==
    /\ proc[p] = "none" /\ GoesTo(p, "starting")
    /\ UNCHANGED <<known, lock, pidFile, state, clientFile, inotify, mishaps>>

\* "another instance is already running, nothing to do"
Refused(p) ==
    /\ proc[p] = "starting" /\ lock # NoProc /\ GoesTo(p, "none")
    /\ UNCHANGED <<known, lock, pidFile, state, clientFile, inotify, mishaps>>

TakeLock(p) ==
    /\ proc[p] = "starting" /\ lock = NoProc /\ GoesTo(p, "locked")
    /\ lock' = p
    /\ UNCHANGED <<known, pidFile, state, clientFile, inotify, mishaps>>

WritePid(p) ==
    /\ proc[p] = "locked" /\ GoesTo(p, "named")
    /\ pidFile' = p
    /\ UNCHANGED <<known, lock, state, clientFile, inotify, mishaps>>

\* Monitor::start loads the clients and publishes at once.
Start(p) ==
    /\ proc[p] = "named" /\ GoesTo(p, "up")
    /\ known' = [known EXCEPT ![p] = clientFile]
    /\ state' = [generation |-> 1, by |-> p, config |-> clientFile]
    /\ UNCHANGED <<lock, pidFile, clientFile, inotify, mishaps>>

\* Monitor::start fails: the monitor is destroyed all the same.  (A failed fork
\* or sigprocmask ends the process before there is one, like a crash.)
StartFails(p) ==
    /\ proc[p] = "named" /\ mishaps < MaxMishaps /\ GoesTo(p, "leaving")
    /\ mishaps' = mishaps + 1
    /\ UNCHANGED <<known, lock, pidFile, state, clientFile, inotify>>

\* handleInotify reads all events, then reloadClients the file as it is by now.
Reload(p) ==
    /\ proc[p] = "up" /\ inotify /\ inotify' = FALSE
    /\ known' = [known EXCEPT ![p] = clientFile]
    /\ state' = Published(p, clientFile)
    /\ UNCHANGED <<proc, lock, pidFile, clientFile, mishaps>>

\* A sample came in; without destinations there are none.
PublishSample(p) ==
    /\ proc[p] = "up" /\ known[p] \notin {NoRows, NoFile}
    /\ state' = Published(p, known[p])
    /\ UNCHANGED <<proc, known, lock, pidFile, clientFile, inotify, mishaps>>

\* Mutant: the lock is given up as soon as the loop ends.
LeaveUnlocked(p) ==
    /\ proc[p] = "up" /\ GoesTo(p, "leaving")
    /\ state' = Published(p, known[p])
    /\ lock' = NoProc /\ inotify' = FALSE
    /\ UNCHANGED <<known, pidFile, clientFile, mishaps>>

\* The loop ends, and run publishes once more.
Leave(p) ==
    /\ proc[p] = "up" /\ GoesTo(p, "leaving")
    /\ state' = Published(p, known[p]) /\ inotify' = FALSE
    /\ UNCHANGED <<known, lock, pidFile, clientFile, mishaps>>

IdleExit(p) == known[p] \in {NoRows, NoFile} /\ Leave(p)

\* ~Monitor removes the state file, then its members go, the resolver too.
Unlink(p) ==
    /\ proc[p] = "leaving" /\ GoesTo(p, "joining")
    /\ state' = NoFile
    /\ UNCHANGED <<known, lock, pidFile, clientFile, inotify, mishaps>>

\* The kernel lets go of the lock and the watch when the process is gone.
Vanish(p) ==
    /\ GoesTo(p, "none") /\ known' = [known EXCEPT ![p] = NoFile]
    /\ lock' = IF lock = p THEN NoProc ELSE lock
    /\ inotify' = (inotify /\ lock # p)
    /\ UNCHANGED <<pidFile, state, clientFile>>

Exit(p) == proc[p] = "joining" /\ Vanish(p) /\ UNCHANGED mishaps

Crash(p) ==
    /\ proc[p] \in Holding /\ mishaps < MaxMishaps
    /\ mishaps' = mishaps + 1
    /\ Vanish(p)

\* SIGTERM: the default action until the signals are blocked, then the signalfd;
\* nobody reads that any more once the loop has ended.
Kill(p) ==
    \/ Leave(p)
    \/ proc[p] \in {"starting", "locked", "named"} /\ Vanish(p) /\ UNCHANGED mishaps
    \/ proc[p] \in {"none", "leaving", "joining"} /\ UNCHANGED daemonVars

\* Every write of the file is reported to the process that watches, if any.
ClientWrites(config) ==
    /\ clientFile' = config
    /\ inotify' = (inotify \/ \E p \in Procs : proc[p] = "up")
    /\ UNCHANGED <<proc, known, lock, pidFile, state, mishaps>>

Runs(p) ==
    Refused(p) \/ TakeLock(p) \/ WritePid(p) \/ Start(p) \/ Reload(p) \/ Unlink(p) \/ Exit(p)

DaemonSteps(p) == Runs(p) \/ StartFails(p) \/ PublishSample(p) \/ IdleExit(p) \/ Crash(p)

\* What the widgets do to it: start it, stop it and configure it.
DaemonNext ==
    \/ \E p \in Procs : DaemonSteps(p) \/ Launch(p) \/ Kill(p)
    \/ \E config \in Configs : ClientWrites(config)

DaemonSpec == DaemonInit /\ [][DaemonNext]_daemonVars

-----------------------------------------------------------------------------
\* However often it is launched, stopped, restarted or killed, one process at a
\* time serves.  While it does, the state file on show is its own, never removed
\* by a predecessor on its way out, and the configuration in it is the one in the
\* widget's file or the kernel has yet to report that (main, start, ~Monitor).
StateIsOurs ==
    /\ \A p \in Procs : proc[p] \in Holding <=> lock = p
    /\ \A p \in Procs : proc[p] = "up" =>
          /\ state # NoFile /\ state.by = p /\ state.config = known[p]
          /\ known[p] = clientFile \/ inotify
=============================================================================
