------------------------- MODULE SharedStoreProofs --------------------------
(***************************************************************************)
(* For any widgets, values, numbers of jobs and bounds, and also with slow *)
(* jobs: the store keeps its types, no widget publishes an empty value     *)
(* that it has had since it started over one that is not empty, and no     *)
(* running widget's value gives way to the empty one unless a user emptied *)
(* one.                                                                    *)
(***************************************************************************)
EXTENDS SharedStore, TLAPS

USE SharedStoreAssumption

\* A content that carries no revision carries no value.
EmptyAtZero(c) == c.revision = 0 => c.json = EmptyJson

\* Wherever a content is: in the file, in the temporary file, in a job's hands.
NothingAtZero ==
    /\ EmptyAtZero(file)
    /\ \A c \in tmp : EmptyAtZero(c)
    /\ \A s \in Slots : EmptyAtZero(jobs[s].content)

\* A published content is empty only if somebody asked for that.
Justified(c) == c.revision > 0 /\ c.json = EmptyJson => emptied

JustifiedContents ==
    /\ Justified(file)
    /\ \A c \in tmp : Justified(c)
    /\ \A s \in Slots : Justified(jobs[s].content)

\* A widget that has come to hold the empty value since it was last in step was
\* emptied by its user.
JustifiedWidgets ==
    \A w \in Widgets :
       ready[w] /\ localJson[w] = EmptyJson /\ baseline[w] # EmptyJson => emptied

\* The baseline wouldWipeSharedList goes by is the value the widget started with,
\* as long as it has held no other.
BaselineIsStart == \A w \in Widgets : ready[w] /\ untouched[w] => localJson[w] = baseline[w]

IInv == TypeOK /\ NothingAtZero /\ BaselineIsStart /\ JustifiedContents /\ JustifiedWidgets

-----------------------------------------------------------------------------
\* The records the jobs are made of.
LEMMA Records ==
    /\ Blank \in Content /\ EmptyAtZero(Blank) /\ Justified(Blank) /\ Justified(Blank)'
    /\ Idle \in Job /\ Idle.content = Blank
BY DEF Blank, Content, Idle, Job, EmptyAtZero, Justified

\* Overtaking a job changes neither its type nor its content.
LEMMA SeenType ==
    ASSUME TypeOK, NEW w \in Widgets
    PROVE  /\ Seen(w) \in [Slots -> Job]
           /\ \A s \in Slots : Seen(w)[s].content = jobs[s].content
<1> SUFFICES ASSUME NEW s \in Slots
             PROVE  /\ Seen(w)[s] \in Job
                    /\ Seen(w)[s].content = jobs[s].content
  BY DEF Seen
<1>1. jobs[s] \in Job
  BY DEF TypeOK
<1>2. [jobs[s] EXCEPT !.seen = @ \cup {w}] \in Job
      /\ [jobs[s] EXCEPT !.seen = @ \cup {w}].content = jobs[s].content
  BY <1>1 DEF Job
<1> QED BY <1>1, <1>2 DEF Seen

\* The file is taken over, or found equal.
LEMMA AgreeStep ==
    ASSUME IInv, NEW w \in Widgets, AgreeWith(w, file),
           pendingRevision' \in [Widgets -> Nat]
    PROVE  IInv'
<1>1. /\ jobs' = Seen(w) /\ jobs' \in [Slots -> Job]
      /\ \A s \in Slots : jobs'[s].content = jobs[s].content
  BY SeenType DEF AgreeWith, IInv
<1>2. file.json \in Values /\ file.revision \in Nat
  BY DEF IInv, TypeOK, Content
<1>3. TypeOK'
  BY <1>1, <1>2 DEF AgreeWith, IInv, TypeOK, seedVars, boundVars
<1>4. NothingAtZero'
  BY <1>1 DEF AgreeWith, IInv, NothingAtZero, EmptyAtZero
<1>5. BaselineIsStart'
  BY DEF AgreeWith, IInv, TypeOK, BaselineIsStart
<1>6. JustifiedContents'
  BY <1>1 DEF AgreeWith, IInv, JustifiedContents, Justified
<1>7. JustifiedWidgets'
  BY DEF AgreeWith, IInv, TypeOK, JustifiedWidgets
<1> QED BY <1>3, <1>4, <1>5, <1>6, <1>7 DEF IInv

\* A sync that only waits or gives up.
LEMMA QuietSync ==
    ASSUME IInv, NEW w \in Widgets, jobs' = Seen(w),
           pendingRevision' \in [Widgets -> Nat],
           UNCHANGED <<file, tmp, configVars, ready, baseline, seedVars, boundVars, historyVars>>
    PROVE  IInv'
<1>1. /\ jobs' \in [Slots -> Job]
      /\ \A s \in Slots : jobs'[s].content = jobs[s].content
  BY SeenType DEF IInv
<1>2. TypeOK'
  BY <1>1 DEF IInv, TypeOK, configVars, seedVars, boundVars, historyVars
<1>3. NothingAtZero'
  BY <1>1 DEF IInv, NothingAtZero, EmptyAtZero
<1>4. BaselineIsStart' /\ JustifiedWidgets'
  BY DEF IInv, BaselineIsStart, JustifiedWidgets, configVars, historyVars
<1>5. JustifiedContents'
  BY <1>1 DEF IInv, JustifiedContents, Justified, historyVars
<1> QED BY <1>2, <1>3, <1>4, <1>5 DEF IInv

\* A write is handed to a job.
LEMMA PublishStep ==
    ASSUME IInv, NEW w \in Widgets, NEW revision \in Nat \ {0}, Publish(w, revision),
           localJson[w] = EmptyJson => emptied
    PROVE  IInv'
<1>1. PICK n \in 1..JobsPerWidget :
          jobs' = [Seen(w) EXCEPT ![<<w, n>>] =
                [step |-> "start", at |-> "none", seen |-> IF SlowJobs THEN {} ELSE {w},
                 content |-> [revision |-> revision, json |-> localJson[w], by |-> w]]]
  BY DEF Publish
<1> DEFINE c == [revision |-> revision, json |-> localJson[w], by |-> w]
           j == [step |-> "start", at |-> "none", seen |-> IF SlowJobs THEN {} ELSE {w}, content |-> c]
<1>2. c \in Content /\ EmptyAtZero(c)
  BY DEF Content, EmptyAtZero, IInv, TypeOK
<1>3. j \in Job /\ j.content = c
  BY <1>2 DEF Job
<1> HIDE DEF c, j
<1>4. jobs' = [Seen(w) EXCEPT ![<<w, n>>] = j]
  BY <1>1 DEF c, j
<1>5. Seen(w) \in [Slots -> Job] /\ \A s \in Slots : Seen(w)[s].content = jobs[s].content
  BY SeenType DEF IInv
<1>6. jobs' \in [Slots -> Job] /\ \A s \in Slots : EmptyAtZero(jobs'[s].content)
  BY <1>2, <1>3, <1>4, <1>5 DEF IInv, NothingAtZero
<1>7. TypeOK'
  BY <1>6 DEF Publish, IInv, TypeOK, configVars, seedVars, boundVars, historyVars
<1>8. NothingAtZero'
  BY <1>6 DEF Publish, IInv, NothingAtZero
<1>9. BaselineIsStart' /\ JustifiedWidgets'
  BY DEF Publish, IInv, BaselineIsStart, JustifiedWidgets, configVars, historyVars
<1>10. \A s \in Slots : Justified(jobs'[s].content)
  <2>1. Justified(c)
    BY DEF Justified, c
  <2> QED BY <2>1, <1>3, <1>4, <1>5 DEF IInv, JustifiedContents
<1>11. JustifiedContents'
  BY <1>10 DEF Publish, IInv, JustifiedContents, Justified, historyVars
<1> QED BY <1>7, <1>8, <1>9, <1>11 DEF IInv

\* The jobs and files change, the widgets do not.
LEMMA JobStep ==
    ASSUME IInv, UNCHANGED widgetVars,
           file' \in Content, EmptyAtZero(file'),
           tmp' \subseteq Content, \A c \in tmp' : EmptyAtZero(c),
           jobs' \in [Slots -> Job], \A s \in Slots : EmptyAtZero(jobs'[s].content),
           Justified(file'), \A c \in tmp' : Justified(c),
           \A s \in Slots : Justified(jobs'[s].content),
           edits' \in 0..MaxEdits, failures' \in 0..MaxFailures
    PROVE  IInv'
<1>1. TypeOK'
  BY DEF IInv, TypeOK, widgetVars, configVars, privVars, seedVars, historyVars
<1>2. NothingAtZero'
  BY DEF NothingAtZero
<1>3. BaselineIsStart' /\ JustifiedWidgets'
  BY DEF IInv, BaselineIsStart, JustifiedWidgets, widgetVars, configVars, privVars, historyVars
<1>4. JustifiedContents'
  BY DEF JustifiedContents, Justified, widgetVars, historyVars
<1> QED BY <1>1, <1>2, <1>3, <1>4 DEF IInv

\* A step of a widget or its user that leaves files and jobs alone.
LEMMA WidgetStep ==
    ASSUME IInv, UNCHANGED fileVars, TypeOK', BaselineIsStart', JustifiedWidgets',
           emptied => emptied'
    PROVE  IInv'
<1>1. NothingAtZero'
  BY DEF IInv, NothingAtZero, fileVars
<1>2. JustifiedContents'
  BY DEF IInv, JustifiedContents, Justified, fileVars
<1> QED BY <1>1, <1>2 DEF IInv

\* Nothing happens.
LEMMA Stutter ==
    ASSUME IInv, UNCHANGED vars
    PROVE  IInv'
BY DEF IInv, TypeOK, NothingAtZero, BaselineIsStart, JustifiedContents, Justified, EmptyAtZero,
       JustifiedWidgets, vars, fileVars, configVars, privVars, seedVars, boundVars, historyVars

-----------------------------------------------------------------------------
\* Before the first step.
LEMMA IInvInit == Init => IInv
<1> SUFFICES ASSUME Init PROVE IInv
  OBVIOUS
<1> DEFINE v == CHOOSE x \in Values : x # EmptyJson
<1>1. v \in Values
  OBVIOUS
<1>2. file \in Content /\ EmptyAtZero(file)
  BY <1>1, Records DEF Init, Content, EmptyAtZero
<1>3. file.json \in Values /\ file.revision \in Nat
  BY <1>2 DEF Content
<1>4. jobs \in [Slots -> Job] /\ \A s \in Slots : EmptyAtZero(jobs[s].content)
  BY Records DEF Init
<1>5. localJson \in [Widgets -> Values]
  BY <1>3 DEF Init
<1>6. TypeOK
  <2>1. edits \in 0..MaxEdits /\ failures \in 0..MaxFailures
    BY DEF Init
  <2>2. syncedRevision \in [Widgets -> Nat] /\ pendingRevision \in [Widgets -> Nat]
    BY <1>3 DEF Init
  <2> QED BY <1>2, <1>4, <1>5, <2>1, <2>2 DEF Init, TypeOK
<1>7. NothingAtZero /\ BaselineIsStart
  BY <1>2, <1>4 DEF Init, NothingAtZero, BaselineIsStart
<1>8. Justified(file) /\ \A s \in Slots : Justified(jobs[s].content)
  BY Records DEF Init, Justified, Blank
<1>9. JustifiedContents /\ JustifiedWidgets
  BY <1>8 DEF Init, JustifiedContents, JustifiedWidgets
<1> QED BY <1>6, <1>7, <1>9 DEF IInv

\* One step per action.
LEMMA IInvStep == IInv /\ [Next]_vars => IInv'
<1> SUFFICES ASSUME IInv, [Next]_vars PROVE IInv'
  OBVIOUS
<1>0. TypeOK /\ NothingAtZero /\ BaselineIsStart /\ JustifiedContents /\ JustifiedWidgets
  BY DEF IInv
<1>1. ASSUME NEW w \in Widgets, BecomeReady(w) PROVE IInv'
  <2>1. Seeds(w) \in BOOLEAN
    BY DEF Seeds
  <2>2. TypeOK'
    BY <1>0, <1>1, <2>1 DEF BecomeReady, TypeOK, fileVars, configVars, boundVars
  <2>3. BaselineIsStart' /\ JustifiedWidgets'
    BY <1>0, <1>1 DEF BecomeReady, TypeOK, BaselineIsStart, JustifiedWidgets, configVars
  <2> QED BY <1>1, <2>2, <2>3, WidgetStep DEF BecomeReady
<1>2. ASSUME NEW w \in Widgets, seedDefaultDestination(w) PROVE IInv'
  <2>1. PICK v \in {localJson[w]} \cup (Values \ {EmptyJson}) :
            /\ localJson' = [localJson EXCEPT ![w] = v]
            /\ untouched' = [untouched EXCEPT ![w] = @ /\ v = localJson[w]]
    BY <1>2 DEF seedDefaultDestination
  <2>2. TypeOK'
    BY <1>0, <1>2, <2>1 DEF seedDefaultDestination, TypeOK, fileVars, privVars, boundVars
  <2>3. BaselineIsStart' /\ JustifiedWidgets'
    BY <1>0, <1>2, <2>1 DEF seedDefaultDestination, TypeOK, BaselineIsStart, JustifiedWidgets, privVars
  <2> QED BY <1>2, <2>2, <2>3, WidgetStep DEF seedDefaultDestination
<1>3. ASSUME NEW w \in Widgets, Sync(w) PROVE IInv'
  <2>1. CASE SyncReturns(w)
    BY <2>1, Stutter DEF SyncReturns
  <2>2. CASE SyncWaits(w)
    BY <1>0, <2>2, QuietSync DEF SyncWaits, privVars, TypeOK
  <2>3. CASE SyncLanded(w)
    BY <1>0, <2>3, AgreeStep DEF SyncLanded, TypeOK
  <2>4. CASE SyncGivesUp(w)
    BY <1>0, <2>4, QuietSync DEF SyncGivesUp, TypeOK
  <2>5. CASE SyncAgrees(w)
    BY <1>0, <2>5, AgreeStep DEF SyncAgrees, TypeOK
  <2>6. CASE SyncFirst(w)
    <3>1. localJson[w] # EmptyJson
      BY <1>0, <2>6 DEF SyncFirst, Differs, NothingAtZero, EmptyAtZero
    <3> QED BY <2>6, <3>1, PublishStep DEF SyncFirst
  <2>7. CASE SyncPublish(w)
    <3>1. file.revision + 1 \in Nat \ {0}
      BY <1>0 DEF TypeOK, Content
    <3>2. localJson[w] = EmptyJson => emptied
      BY <1>0, <2>7 DEF SyncPublish, OurEdit, wouldWipeSharedList, Differs, Synchronises, JustifiedWidgets
    <3> QED BY <2>7, <3>1, <3>2, PublishStep DEF SyncPublish
  <2>8. CASE SyncAdopt(w)
    BY <1>0, <2>8, AgreeStep DEF SyncAdopt, TypeOK
  <2> QED BY <1>3, <2>1, <2>2, <2>3, <2>4, <2>5, <2>6, <2>7, <2>8 DEF Sync
<1>4. ASSUME NEW w \in Widgets, ToggleSharing(w) PROVE IInv'
  <2>1. edits' \in 0..MaxEdits
    BY <1>0, <1>4 DEF ToggleSharing, UserActs, TypeOK
  <2>2. TypeOK'
    BY <1>0, <1>4, <2>1 DEF ToggleSharing, UserActs, TypeOK, fileVars, privVars, seedVars, historyVars
  <2>3. BaselineIsStart' /\ JustifiedWidgets'
    BY <1>0, <1>4 DEF ToggleSharing, BaselineIsStart, JustifiedWidgets, privVars, historyVars
  <2> QED BY <1>4, <2>2, <2>3, WidgetStep DEF ToggleSharing, historyVars
<1>5. ASSUME NEW w \in Widgets, Restart(w) PROVE IInv'
  <2>1. edits' \in 0..MaxEdits
    BY <1>0, <1>5 DEF Restart, UserActs, TypeOK
  <2>2. PICK v \in {localJson[w], EmptyJson} : localJson' = [localJson EXCEPT ![w] = v]
    BY <1>5 DEF Restart
  <2>3. TypeOK'
    BY <1>0, <1>5, <2>1, <2>2 DEF Restart, UserActs, TypeOK, fileVars, historyVars
  <2>4. BaselineIsStart' /\ JustifiedWidgets'
    BY <1>0, <1>5, <2>2 DEF Restart, TypeOK, BaselineIsStart, JustifiedWidgets, historyVars
  <2> QED BY <1>5, <2>3, <2>4, WidgetStep DEF Restart, historyVars
<1>6. ASSUME NEW w \in Widgets, NEW v \in Values, Edit(w, v) PROVE IInv'
  <2>1. edits' \in 0..MaxEdits
    BY <1>0, <1>6 DEF Edit, UserActs, TypeOK
  <2>2. TypeOK'
    BY <1>0, <1>6, <2>1 DEF Edit, UserActs, TypeOK, fileVars, privVars, seedVars
  <2>3. BaselineIsStart' /\ JustifiedWidgets'
    BY <1>0, <1>6 DEF Edit, TypeOK, BaselineIsStart, JustifiedWidgets, privVars
  <2> QED BY <1>6, <2>2, <2>3, WidgetStep DEF Edit
<1>7. ASSUME NEW s \in Slots, JobRuns(s) \/ JobFails(s) PROVE IInv'
  <2>0. /\ file \in Content /\ EmptyAtZero(file)
        /\ tmp \subseteq Content /\ \A c \in tmp : EmptyAtZero(c)
        /\ jobs \in [Slots -> Job] /\ \A r \in Slots : EmptyAtZero(jobs[r].content)
        /\ edits \in 0..MaxEdits /\ failures \in 0..MaxFailures
        /\ jobs[s].content \in Content
        /\ Justified(file) /\ \A c \in tmp : Justified(c)
        /\ \A r \in Slots : Justified(jobs[r].content)
    BY <1>0 DEF TypeOK, NothingAtZero, JustifiedContents, Job
  <2>1. CASE JobOpens(s)
    <3>1. [jobs[s] EXCEPT !.step = "opened", !.at = "tmp"] \in Job
          /\ [jobs[s] EXCEPT !.step = "opened", !.at = "tmp"].content = jobs[s].content
      BY <2>0 DEF Job
    <3>2. jobs' \in [Slots -> Job] /\ \A r \in Slots : jobs'[r].content = jobs[r].content
      BY <2>0, <2>1, <3>1 DEF JobOpens
    <3>3. tmp' \subseteq Content /\ \A c \in tmp' : EmptyAtZero(c) /\ Justified(c)
      BY <2>1, Records DEF JobOpens
    <3> QED BY <2>0, <2>1, <3>2, <3>3, JobStep DEF JobOpens, boundVars
  <2>2. CASE JobFills(s)
    <3>1. [jobs[s] EXCEPT !.step = "filled"] \in Job
          /\ [jobs[s] EXCEPT !.step = "filled"].content = jobs[s].content
      BY <2>0 DEF Job
    <3>2. jobs' \in [Slots -> Job] /\ \A r \in Slots : jobs'[r].content = jobs[r].content
      BY <2>0, <2>2, <3>1 DEF JobFills
    <3>3. /\ file' \in Content /\ EmptyAtZero(file') /\ Justified(file')
          /\ tmp' \subseteq Content /\ \A c \in tmp' : EmptyAtZero(c) /\ Justified(c)
      BY <2>0, <2>2 DEF JobFills
    <3> QED BY <2>0, <2>2, <3>2, <3>3, JobStep DEF JobFills, boundVars
  <2>3. CASE JobMoves(s)
    <3>1. /\ file' \in Content /\ EmptyAtZero(file') /\ Justified(file')
          /\ tmp' \subseteq Content /\ \A c \in tmp' : EmptyAtZero(c) /\ Justified(c)
      BY <2>0, <2>3 DEF JobMoves
    <3>2. ASSUME NEW r \in Slots
          PROVE  /\ [jobs[r] EXCEPT !.at = AfterRename(@)] \in Job
                 /\ [jobs[r] EXCEPT !.at = AfterRename(@)].content = jobs[r].content
      <4>1. jobs[r] \in Job /\ jobs[r].at \in {"none", "tmp", "file", "gone"}
        BY <2>0 DEF Job
      <4>2. AfterRename(jobs[r].at) \in {"none", "tmp", "file", "gone"}
        BY <4>1 DEF AfterRename
      <4> QED BY <4>1, <4>2 DEF Job
    <3>3. /\ jobs' \in [Slots -> Job]
          /\ \A r \in Slots : EmptyAtZero(jobs'[r].content) /\ Justified(jobs'[r].content)
      <4>1. CASE tmp = {}
        BY <2>0, <2>3, <4>1, Records DEF JobMoves
      <4>2. CASE tmp # {}
        <5>1. jobs' = [r \in Slots |-> IF r = s THEN Idle
                                       ELSE [jobs[r] EXCEPT !.at = AfterRename(@)]]
          BY <2>3, <4>2 DEF JobMoves
        <5> QED BY <2>0, <3>2, <5>1, Records
      <4> QED BY <4>1, <4>2
    <3> QED BY <2>0, <2>3, <3>1, <3>3, JobStep DEF JobMoves, boundVars
  <2>4. CASE JobFails(s)
    <3>1. failures' \in 0..MaxFailures
      BY <2>0, <2>4 DEF JobFails
    <3>2. /\ jobs' \in [Slots -> Job]
          /\ \A r \in Slots : EmptyAtZero(jobs'[r].content) /\ Justified(jobs'[r].content)
      BY <2>0, <2>4, Records DEF JobFails
    <3> QED BY <2>0, <2>4, <3>1, <3>2, JobStep DEF JobFails
  <2> QED BY <1>7, <2>1, <2>2, <2>3, <2>4 DEF JobRuns
<1>8. CASE UNCHANGED vars
  BY <1>8, Stutter
<1> QED BY <1>1, <1>2, <1>3, <1>4, <1>5, <1>6, <1>7, <1>8 DEF Next

-----------------------------------------------------------------------------
\* The invariant holds whatever the widgets, their users and the jobs do.
LEMMA Invariance == Spec => []IInv
BY IInvInit, IInvStep, PTL DEF Spec

\* The store's variables, and every file and job, keep their types.
THEOREM StoreTypeCorrect == Spec => []TypeOK
<1>1. IInv => TypeOK
  BY DEF IInv
<1> QED BY <1>1, Invariance, PTL

\* "A widget will not publish an empty list it has had since start-up"
\* (README.md:179), whatever the number of widgets and however slow the jobs are
\* (sync and wouldWipeSharedList).
THEOREM NeverWipesFromStartUp == Spec => NoWipeFromStartUp
<1>1. IInv /\ [Next]_vars =>
          [\A w \in Widgets :
              Publishes(w) /\ localJson[w] = EmptyJson /\ file.json # EmptyJson => ~untouched[w]]_vars
  <2> SUFFICES ASSUME IInv, [Next]_vars, NEW w \in Widgets,
                      Publishes(w), localJson[w] = EmptyJson, file.json # EmptyJson, untouched[w]
               PROVE  FALSE
    OBVIOUS
  <2>0. TypeOK /\ NothingAtZero /\ BaselineIsStart
    BY DEF IInv
  <2>1. SyncFirst(w) \/ SyncPublish(w)
    <3>1. pendingRevision'[w] # pendingRevision[w] /\ pendingRevision'[w] # 0
      BY DEF Publishes
    <3>2. ASSUME NEW x \in Widgets, Sync(x) PROVE SyncFirst(w) \/ SyncPublish(w)
      <4>1. SyncFirst(x) \/ SyncPublish(x)
        BY <2>0, <3>1, <3>2 DEF Sync, SyncReturns, SyncWaits, SyncLanded, SyncGivesUp, SyncAgrees,
              SyncAdopt, TypeOK, vars, privVars
      <4>2. x = w
        BY <2>0, <3>1, <4>1 DEF SyncFirst, SyncPublish, Publish, TypeOK
      <4> QED BY <4>1, <4>2
    <3>3. ASSUME NEW x \in Widgets, BecomeReady(x) \/ seedDefaultDestination(x)
          PROVE  FALSE
      BY <3>1, <3>3 DEF BecomeReady, seedDefaultDestination, privVars
    <3>4. ASSUME NEW x \in Widgets, ToggleSharing(x) \/ Restart(x)
          PROVE  FALSE
      BY <2>0, <3>1, <3>4 DEF ToggleSharing, Restart, privVars, TypeOK
    <3>5. ASSUME NEW x \in Widgets, NEW v \in Values, Edit(x, v)
          PROVE  FALSE
      BY <3>1, <3>5 DEF Edit, privVars
    <3>6. ASSUME NEW s \in Slots, JobRuns(s) \/ JobFails(s)
          PROVE  FALSE
      BY <3>1, <3>6 DEF JobRuns, JobOpens, JobFills, JobMoves, JobFails, widgetVars, privVars
    <3> QED BY <3>1, <3>2, <3>3, <3>4, <3>5, <3>6 DEF Next, vars, privVars
  <2>2. ready[w] /\ localJson[w] = baseline[w]
    BY <2>0, <2>1 DEF SyncFirst, SyncPublish, Differs, Synchronises, BaselineIsStart
  <2>3. file.revision # 0
    BY <2>0 DEF NothingAtZero, EmptyAtZero
  <2> QED BY <2>1, <2>2, <2>3 DEF SyncFirst, SyncPublish, OurEdit, wouldWipeSharedList
<1> QED BY <1>1, Invariance, PTL DEF Spec, NoWipeFromStartUp

\* However the writes of the widgets overtake, truncate and rename one another
\* (write, SharedStore.qml:85), and whatever configuration a widget comes up with:
\* no running widget's value gives way to the empty one (sync) before a user has
\* emptied the value of some widget.
THEOREM NobodyEmptiesUnasked == Spec => EmptiesOnlyOnRequest
<1>1. IInv /\ [Next]_vars =>
          [\A w \in Widgets :
              ready[w] /\ ready'[w] /\ localJson[w] # EmptyJson /\ localJson'[w] = EmptyJson
              => emptied']_vars
  <2> SUFFICES ASSUME IInv, [Next]_vars, NEW w \in Widgets, ready[w], ready'[w],
                      localJson[w] # EmptyJson, localJson'[w] = EmptyJson
               PROVE  emptied'
    OBVIOUS
  <2>0. TypeOK /\ JustifiedContents
    BY DEF IInv
  <2>1. ASSUME NEW x \in Widgets, AgreeWith(x, file), file.revision # 0 PROVE emptied'
    <3>1. x = w /\ file.json = EmptyJson
      BY <2>0, <2>1 DEF AgreeWith, TypeOK
    <3>2. file.revision > 0
      BY <2>0, <2>1 DEF TypeOK, Content
    <3> QED BY <2>0, <2>1, <3>1, <3>2 DEF AgreeWith, JustifiedContents, Justified
  <2>2. ASSUME NEW x \in Widgets, Sync(x) PROVE emptied'
    <3>1. CASE SyncLanded(x)
      <4>1. file.revision # 0
        BY <2>0, <3>1 DEF SyncLanded, TypeOK, Content
      <4> QED BY <2>1, <3>1, <4>1 DEF SyncLanded
    <3>2. CASE SyncAdopt(x)
      BY <2>1, <3>2 DEF SyncAdopt
    <3>3. CASE SyncAgrees(x)
      BY <2>0, <3>3 DEF SyncAgrees, AgreeWith, TypeOK
    <3>4. CASE SyncReturns(x) \/ SyncWaits(x) \/ SyncGivesUp(x) \/ SyncFirst(x) \/ SyncPublish(x)
      BY <3>4 DEF SyncReturns, SyncWaits, SyncGivesUp, SyncFirst, SyncPublish, Publish, vars, configVars
    <3> QED BY <2>2, <3>1, <3>2, <3>3, <3>4 DEF Sync
  <2>3. ASSUME NEW x \in Widgets, BecomeReady(x) \/ seedDefaultDestination(x)
        PROVE  emptied'
    BY <2>0, <2>3 DEF BecomeReady, seedDefaultDestination, configVars, TypeOK
  <2>4. ASSUME NEW x \in Widgets, ToggleSharing(x) \/ Restart(x)
        PROVE  emptied'
    BY <2>0, <2>4 DEF ToggleSharing, Restart, TypeOK
  <2>5. ASSUME NEW x \in Widgets, NEW v \in Values, Edit(x, v)
        PROVE  emptied'
    BY <2>0, <2>5 DEF Edit, TypeOK
  <2>6. ASSUME NEW s \in Slots, JobRuns(s) \/ JobFails(s)
        PROVE  emptied'
    BY <2>6 DEF JobRuns, JobOpens, JobFills, JobMoves, JobFails, widgetVars, configVars
  <2>7. CASE UNCHANGED vars
    BY <2>7 DEF vars, configVars
  <2> QED BY <2>2, <2>3, <2>4, <2>5, <2>6, <2>7 DEF Next
<1> QED BY <1>1, Invariance, PTL DEF Spec, EmptiesOnlyOnRequest
=============================================================================
