---------------------------- MODULE SharedStore -----------------------------
(***************************************************************************)
(* One setting shared by several widgets through a file.  Every widget     *)
(* compares its own value with the file every two seconds, and shortly     *)
(* after an edit, and then publishes, adopts or agrees.  Writing is left   *)
(* to a shell job that truncates and fills a temporary file - the same     *)
(* one for every widget - and renames it.                                  *)
(*                                                                         *)
(* A file is its content; a job remembers what its open descriptor has     *)
(* become: still the temporary file, the file itself once somebody renamed *)
(* it, or neither.  An absent, empty or truncated file reads as revision 0 *)
(* with the empty value.                                                   *)
(***************************************************************************)
EXTENDS Integers

CONSTANTS Widgets, Values, EmptyJson, Nobody,
          JobsPerWidget,  \* bound: writes of one widget under way at a time
          SlowJobs,       \* whether a write may outlast its widget's next sync
          MaxEdits,       \* bound: edits, restarts and toggles by the user
          MaxFailures     \* bound: writes that never land

ASSUME SharedStoreAssumption ==
    /\ EmptyJson \in Values /\ Values # {EmptyJson} /\ Nobody \notin Widgets
    /\ JobsPerWidget \in Nat \ {0} /\ SlowJobs \in BOOLEAN
    /\ MaxEdits \in Nat /\ MaxFailures \in Nat

VARIABLES
    file,              \* content of the shared file
    tmp,               \* content of the temporary file, as a set: {} if absent
    jobs,              \* the shell jobs, by widget and slot
    active, ready, localJson, syncedRevision,
    pendingRevision, baseline,
    seeded, seeding,   \* had its first destination; the query for it under way
    edits, failures,   \* how much of the bounds is used up
    untouched,         \* history: the widget's value is the one it started with
    emptied            \* history: a user has emptied the value of some widget

fileVars == <<file, tmp, jobs>>
configVars == <<active, localJson, syncedRevision>>
privVars == <<ready, pendingRevision, baseline>>
seedVars == <<seeded, seeding>>
boundVars == <<edits, failures>>
historyVars == <<untouched, emptied>>
vars == <<fileVars, configVars, privVars, seedVars, boundVars, historyVars>>

Content == [revision: Nat, json: Values, by: Widgets \cup {Nobody}]
Blank == [revision |-> 0, json |-> EmptyJson, by |-> Nobody]
Slots == Widgets \X (1..JobsPerWidget)
Job == [step: {"idle", "start", "opened", "filled"}, at: {"none", "tmp", "file", "gone"},
        content: Content, seen: SUBSET Widgets]
Idle == [step |-> "idle", at |-> "none", content |-> Blank, seen |-> {}]

TypeOK ==
    /\ file \in Content /\ tmp \in SUBSET Content
    /\ jobs \in [Slots -> Job]
    /\ active \in [Widgets -> BOOLEAN] /\ ready \in [Widgets -> BOOLEAN]
    /\ localJson \in [Widgets -> Values] /\ baseline \in [Widgets -> Values]
    /\ syncedRevision \in [Widgets -> Nat] /\ pendingRevision \in [Widgets -> Nat]
    /\ seeded \in [Widgets -> BOOLEAN] /\ seeding \in [Widgets -> BOOLEAN]
    /\ edits \in 0..MaxEdits /\ failures \in 0..MaxFailures
    /\ untouched \in [Widgets -> BOOLEAN] /\ emptied \in BOOLEAN

\* Widgets that were in step when plasmashell went down, about to be restored;
\* one may have lost its configuration, and one that was never seeded is new.
Init ==
    /\ file \in {Blank, [revision |-> 1, json |-> CHOOSE v \in Values : v # EmptyJson, by |-> Nobody]}
    /\ tmp = {} /\ jobs = [s \in Slots |-> Idle]
    /\ active = [w \in Widgets |-> TRUE] /\ ready = [w \in Widgets |-> FALSE]
    /\ seeded \in [Widgets -> BOOLEAN] /\ seeding = [w \in Widgets |-> FALSE]
    /\ localJson \in [Widgets -> {file.json, EmptyJson}]
    /\ \A w \in Widgets : ~seeded[w] => localJson[w] = EmptyJson
    /\ syncedRevision = [w \in Widgets |-> IF seeded[w] THEN file.revision ELSE 0]
    /\ pendingRevision = [w \in Widgets |-> 0] /\ baseline = localJson
    /\ edits = 0 /\ failures = 0
    /\ untouched = [w \in Widgets |-> TRUE] /\ emptied = FALSE

-----------------------------------------------------------------------------
(* The widget.                                                             *)

\* A widget that is run for the first time asks for the gateway, unless it is
\* about to join a shared list.
Seeds(w) == ~seeded[w] /\ localJson[w] = EmptyJson /\ ~(active[w] /\ file.revision > 0)

\* The owner's configuration is loaded.
BecomeReady(w) ==
    /\ ~ready[w]
    /\ seeding' = [seeding EXCEPT ![w] = Seeds(w)] /\ UNCHANGED seeded
    /\ ready' = [ready EXCEPT ![w] = TRUE]
    /\ baseline' = [baseline EXCEPT ![w] = localJson[w]]
    /\ untouched' = [untouched EXCEPT ![w] = TRUE]
    /\ UNCHANGED <<fileVars, configVars, pendingRevision, boundVars, emptied>>

\* The answer replaces the list the widget has by then; without a gateway the list
\* is left alone.
seedDefaultDestination(w) ==
    /\ seeding[w] /\ seeding' = [seeding EXCEPT ![w] = FALSE]
    /\ seeded' = [seeded EXCEPT ![w] = TRUE]
    /\ \E v \in {localJson[w]} \cup (Values \ {EmptyJson}) :
          /\ localJson' = [localJson EXCEPT ![w] = v]
          /\ untouched' = [untouched EXCEPT ![w] = @ /\ v = localJson[w]]
    /\ UNCHANGED <<fileVars, active, syncedRevision, privVars, boundVars, emptied>>

\* One of its timers has fired in a widget that takes part.  Unless SlowJobs, a write
\* falls between two syncs of a widget.  That is an assumption: the debounce timer and
\* the two-second one are independent, and both may fire within one write.  The second
\* then waits for its own write, or does what it would do before or after this one.
Synchronises(w) ==
    /\ active[w] /\ ready[w]
    /\ SlowJobs \/ \A s \in Slots : w \notin jobs[s].seen

\* The jobs under way have now been overtaken by a sync of w.
Seen(w) == [s \in Slots |-> IF jobs[s] = Idle \/ SlowJobs THEN jobs[s]
                            ELSE [jobs[s] EXCEPT !.seen = @ \cup {w}]]

\* Take the shared value, or find it equal to ours, at its revision.
AgreeWith(w, shared) ==
    /\ localJson' = [localJson EXCEPT ![w] = shared.json]
    /\ baseline' = [baseline EXCEPT ![w] = shared.json]
    /\ syncedRevision' = [syncedRevision EXCEPT ![w] = shared.revision]
    /\ untouched' = [untouched EXCEPT ![w] = @ /\ shared.json = localJson[w]]
    /\ jobs' = Seen(w)
    /\ UNCHANGED <<file, tmp, active, ready, seedVars, boundVars, emptied>>

\* Mutant: whatever the file holds is taken for our write come back.
SyncLandedAnyhow(w) ==
    /\ Synchronises(w) /\ pendingRevision[w] # 0
    /\ pendingRevision' = [pendingRevision EXCEPT ![w] = 0]
    /\ AgreeWith(w, file)

\* Our write, or a later one, has come back.
SyncLanded(w) ==
    /\ Synchronises(w) /\ pendingRevision[w] # 0
    /\ file.revision >= pendingRevision[w]
    /\ pendingRevision' = [pendingRevision EXCEPT ![w] = 0]
    /\ AgreeWith(w, file)

\* Mutant: a write that does not land is waited for for ever.
SyncNeverGivesUp(w) == FALSE

\* The write did not land within five seconds.
SyncGivesUp(w) ==
    /\ Synchronises(w) /\ pendingRevision[w] # 0
    /\ file.revision < pendingRevision[w]
    /\ pendingRevision' = [pendingRevision EXCEPT ![w] = 0]
    /\ jobs' = Seen(w)
    /\ UNCHANGED <<file, tmp, configVars, ready, baseline, seedVars, boundVars, historyVars>>

Differs(w) ==
    /\ Synchronises(w) /\ pendingRevision[w] = 0
    /\ file.json # localJson[w]

SyncAgrees(w) ==
    /\ Synchronises(w) /\ pendingRevision[w] = 0
    /\ file.json = localJson[w]
    /\ AgreeWith(w, file)
    /\ UNCHANGED pendingRevision

\* publish: hand the write to a shell job and wait for it to come back.
Publish(w, revision) ==
    /\ pendingRevision' = [pendingRevision EXCEPT ![w] = revision]
    /\ \E n \in 1..JobsPerWidget :
          /\ jobs[<<w, n>>] = Idle
          /\ jobs' = [Seen(w) EXCEPT ![<<w, n>>] =
                [step |-> "start", at |-> "none", seen |-> IF SlowJobs THEN {} ELSE {w},
                 content |-> [revision |-> revision, json |-> localJson[w], by |-> w]]]
    /\ UNCHANGED <<file, tmp, configVars, ready, baseline, seedVars, boundVars, historyVars>>

\* Nobody has published anything yet.
SyncFirst(w) == Differs(w) /\ file.revision = 0 /\ Publish(w, 1)

\* Mutant: the guard is gone.
wipesFreely(w) == FALSE

\* An empty value we have had since start-up, against one that is not empty.
wouldWipeSharedList(w) ==
    localJson[w] = EmptyJson /\ file.json # EmptyJson /\ localJson[w] = baseline[w]

OurEdit(w) == syncedRevision[w] = file.revision /\ ~wouldWipeSharedList(w)

SyncPublish(w) ==
    /\ Differs(w) /\ file.revision # 0 /\ OurEdit(w)
    /\ Publish(w, file.revision + 1)

SyncAdopt(w) ==
    /\ Differs(w) /\ file.revision # 0 /\ ~OurEdit(w)
    /\ AgreeWith(w, file)
    /\ UNCHANGED pendingRevision

\* Our write is still to come back, and not yet given up.
SyncWaits(w) ==
    /\ Synchronises(w) /\ pendingRevision[w] # 0
    /\ file.revision < pendingRevision[w]
    /\ jobs' = Seen(w)
    /\ UNCHANGED <<file, tmp, configVars, privVars, seedVars, boundVars, historyVars>>

\* A widget that does not share leaves the file alone.
SyncReturns(w) == ~(active[w] /\ ready[w]) /\ UNCHANGED vars

Sync(w) ==
    SyncReturns(w) \/ SyncWaits(w) \/ SyncLanded(w) \/ SyncGivesUp(w) \/ SyncAgrees(w)
    \/ SyncFirst(w) \/ SyncPublish(w) \/ SyncAdopt(w)

-----------------------------------------------------------------------------
(* The user.                                                               *)

UserActs == edits < MaxEdits /\ edits' = edits + 1 /\ UNCHANGED failures

Edit(w, v) ==
    /\ UserActs /\ ready[w] /\ v # localJson[w]
    /\ localJson' = [localJson EXCEPT ![w] = v]
    /\ untouched' = [untouched EXCEPT ![w] = FALSE] /\ emptied' = (emptied \/ v = EmptyJson)
    /\ UNCHANGED <<fileVars, active, syncedRevision, privVars, seedVars>>

\* Mutant: an unshared setting is marked by a revision that is none.
ToggleSharingMarks(w) ==
    /\ UserActs /\ ready[w]
    /\ active' = [active EXCEPT ![w] = ~@]
    /\ syncedRevision' = [syncedRevision EXCEPT ![w] = IF active[w] THEN -1 ELSE @]
    /\ UNCHANGED <<fileVars, localJson, privVars, seedVars, historyVars>>

\* Unticking forgets the revision, so that ticking again joins the shared value.
ToggleSharing(w) ==
    /\ UserActs /\ ready[w]
    /\ active' = [active EXCEPT ![w] = ~@]
    /\ syncedRevision' = [syncedRevision EXCEPT ![w] = IF active[w] THEN 0 ELSE @]
    /\ UNCHANGED <<fileVars, localJson, privVars, seedVars, historyVars>>

\* plasmashell restarts the widget: the configuration stays, or fails to load.
Restart(w) ==
    /\ UserActs /\ ready[w]
    /\ ready' = [ready EXCEPT ![w] = FALSE]
    /\ pendingRevision' = [pendingRevision EXCEPT ![w] = 0]
    /\ seeding' = [seeding EXCEPT ![w] = FALSE] /\ UNCHANGED seeded
    /\ \E v \in {localJson[w], EmptyJson} : localJson' = [localJson EXCEPT ![w] = v]
    /\ UNCHANGED <<fileVars, active, syncedRevision, baseline, historyVars>>

-----------------------------------------------------------------------------
(* The shell job:  printf ... > path.new  &&  mv -f path.new path          *)

widgetVars == <<configVars, privVars, seedVars, historyVars>>

\* The redirection creates the temporary file, or truncates the one there is.
JobOpens(s) ==
    /\ jobs[s].step = "start"
    /\ tmp' = {Blank}
    /\ jobs' = [jobs EXCEPT ![s].step = "opened", ![s].at = "tmp"]
    /\ UNCHANGED <<file, widgetVars, boundVars>>

JobFills(s) ==
    /\ jobs[s].step = "opened"
    /\ tmp' = IF jobs[s].at = "tmp" THEN {jobs[s].content} ELSE tmp
    /\ file' = IF jobs[s].at = "file" THEN jobs[s].content ELSE file
    /\ jobs' = [jobs EXCEPT ![s].step = "filled"]
    /\ UNCHANGED <<widgetVars, boundVars>>

\* What a job's descriptor has become after somebody renames the temporary file.
AfterRename(at) == CASE at = "tmp" -> "file" [] at = "file" -> "gone" [] OTHER -> at

JobMoves(s) ==
    /\ jobs[s].step = "filled"
    /\ IF tmp = {}
       THEN UNCHANGED <<file, tmp>> /\ jobs' = [jobs EXCEPT ![s] = Idle]
       ELSE /\ file' \in tmp /\ tmp' = {}
            /\ jobs' = [r \in Slots |-> IF r = s THEN Idle
                                        ELSE [jobs[r] EXCEPT !.at = AfterRename(@)]]
    /\ UNCHANGED <<widgetVars, boundVars>>

\* The job dies, before it has done anything or with the temporary file truncated or
\* filled but not renamed.
JobFails(s) ==
    /\ jobs[s].step # "idle" /\ failures < MaxFailures
    /\ failures' = failures + 1
    /\ jobs' = [jobs EXCEPT ![s] = Idle]
    /\ UNCHANGED <<file, tmp, widgetVars, edits>>

JobRuns(s) == JobOpens(s) \/ JobFills(s) \/ JobMoves(s)

Next ==
    \/ \E w \in Widgets : BecomeReady(w) \/ seedDefaultDestination(w) \/ Sync(w)
    \/ \E w \in Widgets : ToggleSharing(w) \/ Restart(w)
    \/ \E w \in Widgets, v \in Values : Edit(w, v)
    \/ \E s \in Slots : JobRuns(s) \/ JobFails(s)

Spec == Init /\ [][Next]_vars

\* The two-second timer of every widget, its start-up and the shell's progress.
Fairness ==
    /\ \A w \in Widgets : WF_vars(BecomeReady(w)) /\ WF_vars(Sync(w))
    /\ \A s \in Slots : WF_vars(JobRuns(s))

FairSpec == Spec /\ Fairness

-----------------------------------------------------------------------------
\* "Two widgets edited at once converge instead of trading writes"
\* (README.md:178): once the user stops, every widget that shares ends up with
\* the value in the file and stays there, with no write left to come.
Converges ==
    <>[](\A w \in Widgets : active[w] => localJson[w] = file.json /\ pendingRevision[w] = 0)

Publishes(w) == pendingRevision'[w] # 0 /\ pendingRevision[w] = 0

\* "A widget will not publish an empty list it has had since start-up"
\* (README.md:179): the empty value goes over a non-empty one only when the
\* widget has held another value since it became ready.
NoWipeFromStartUp ==
    [][\A w \in Widgets :
          Publishes(w) /\ localJson[w] = EmptyJson /\ file.json # EmptyJson => ~untouched[w]]_vars

\* "Anything else means the shared list is the one that moved"
\* (SharedStore.qml:157): a running widget's value gives way to the empty one only
\* after a user has emptied the value of some widget.  A shared file that is absent
\* or truncated, and a widget that comes up without its configuration, empty nobody.
EmptiesOnlyOnRequest ==
    [][\A w \in Widgets :
          ready[w] /\ ready'[w] /\ localJson[w] # EmptyJson /\ localJson'[w] = EmptyJson
          => emptied']_vars

\* "Another widget wrote at the same moment and won" (SharedStore.qml:114): the
\* widget's value gives way, while its own write is pending, only to a value
\* somebody else wrote.
LosesOnlyToOthers ==
    [][\A w \in Widgets :
          pendingRevision[w] # 0 /\ pendingRevision'[w] = 0 /\ localJson'[w] # localJson[w]
          /\ ready'[w] => file.by # w]_vars
=============================================================================
