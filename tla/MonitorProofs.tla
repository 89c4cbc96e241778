--------------------------- MODULE MonitorProofs ----------------------------
(***************************************************************************)
(* For any widgets, configurations and bounds: the types, what the state   *)
(* files show when the loop goes to sleep, and that no change of the       *)
(* clients directory goes unnoticed.  The dirty flags carry the second:    *)
(* whatever the files lack is covered by a flag that makes publish write   *)
(* it.  The watch carries the third, with what stands in for it.           *)
(***************************************************************************)
EXTENDS Monitor, TLAPS

\* As long as no write has failed, a state file that does not show the clients and
\* LEDs is covered by stateDirty and one that lacks numbers by either flag, and the
\* loop does not go to sleep with a change to show.
Covered ==
    /\ ~failed =>
          /\ ini # known => stateDirty
          /\ "leds" \in lacks \/ "readable" \in lacks => stateDirty
          /\ "numbers" \in lacks => stateDirty \/ dataDirty
    /\ pc = "wait" => stateDirty = FALSE

ShownInv ==
    /\ lacks \subseteq {"leds", "numbers", "readable"}
    /\ stateDirty \in BOOLEAN /\ dataDirty \in BOOLEAN
    /\ Covered

\* The flags are covered when Monitor::start has published.
LEMMA InitCovered == Init => ShownInv
BY DEF Init, ShownInv, Covered

\* A step that leaves flags and files alone and does not go to sleep changes nothing.
LEMMA AsideCovered ==
    ASSUME ShownInv,
           UNCHANGED <<ini, known, lacks, failed, stateDirty, dataDirty>>,
           pc' = "wait" => pc = "wait"
    PROVE  ShownInv'
BY DEF ShownInv, Covered

\* publish writes what the flags cover, and clears them.
LEMMA PublishCovered ==
    ASSUME ShownInv,
           NEW slot \in BOOLEAN, NEW readableSlot \in BOOLEAN, NEW iniOk \in BOOLEAN, NEW jsonOk \in BOOLEAN,
           publish(slot, readableSlot, iniOk, jsonOk)
    PROVE  ShownInv'
<1>1. CASE PublishDue(slot)
  <2>1. /\ ini' = Written(ini, iniOk) /\ known' = known
        /\ lacks' = lacks \ ((IF iniOk THEN {"leds", "numbers"} ELSE {})
                       \cup (IF jsonOk /\ (stateDirty \/ readableSlot) THEN {"readable"} ELSE {}))
        /\ failed' = (failed \/ ~iniOk \/ ~jsonOk)
        /\ stateDirty' = FALSE /\ dataDirty' = FALSE
    BY <1>1 DEF publish
  <2>2. ASSUME ~failed'
        PROVE  ini' = known' /\ lacks' = {}
    <3>1. ~failed /\ iniOk = TRUE /\ jsonOk = TRUE
      BY <2>1, <2>2
    <3>2. ini' = known'
      BY <2>1, <3>1 DEF Written
    <3>3. "readable" \in lacks => stateDirty
      BY <3>1 DEF ShownInv, Covered
    <3>4. lacks' = {}
      BY <2>1, <3>1, <3>3 DEF ShownInv
    <3> QED BY <3>2, <3>4
  <2>3. lacks' \subseteq {"leds", "numbers", "readable"}
    BY <2>1 DEF ShownInv
  <2> QED BY <2>1, <2>2, <2>3 DEF ShownInv, Covered
<1>2. CASE ~PublishDue(slot)
  <2>1. UNCHANGED <<ini, known, lacks, failed, stateDirty, dataDirty>>
    BY <1>2 DEF publish, shownVars
  <2>2. stateDirty = FALSE
    BY <1>2 DEF PublishDue, ShownInv
  <2> QED BY <2>1, <2>2 DEF ShownInv, Covered
<1> QED BY <1>1, <1>2

\* No step of the loop loses news, and none of anybody else's touches them.
LEMMA NextCovered == ShownInv /\ [Next]_vars => ShownInv'
<1> SUFFICES ASSUME ShownInv, [Next]_vars
             PROVE  ShownInv'
  OBVIOUS
<1> USE DEF dirVars, widgetVars, loopVars, shownVars
<1>1. ASSUME NEW w \in Widgets, Refresh(w) \/ Age(w)
      PROVE  ShownInv'
  BY <1>1, AsideCovered DEF Refresh, Age
<1>2. ASSUME NEW w \in Widgets, NEW config \in Configs, Edit(w, config)
      PROVE  ShownInv'
  BY <1>2, AsideCovered DEF Edit
<1>3. ASSUME NEW w \in Widgets, NEW clean \in BOOLEAN, Depart(w, clean)
      PROVE  ShownInv'
  BY <1>3, AsideCovered DEF Depart
<1>4. ASSUME NEW j \in jobs, RunJob(j)
      PROVE  ShownInv'
  BY <1>4, AsideCovered DEF RunJob
<1>5. CASE RemoveDirectory \/ Hangup \/ Suspend
  BY <1>5, AsideCovered DEF RemoveDirectory, Hangup, Suspend
<1>6. CASE Loop
  <2>1. CASE WakeUp
    BY <2>1, AsideCovered DEF WakeUp
  <2>2. CASE reloadClients
    BY <2>2 DEF reloadClients, ShownInv, Covered
  <2>3. CASE Recreate \/ Rewatch
    BY <2>3, AsideCovered DEF Recreate, Rewatch, Goto
  <2>4. ASSUME NEW checks \in BOOLEAN, tick(checks)
        PROVE  ShownInv'
    BY <2>4 DEF tick, Goto, ShownInv, Covered
  <2>5. ASSUME NEW w \in Widgets, Check(w)
        PROVE  ShownInv'
    BY <2>5, AsideCovered DEF Check
  <2>6. CASE Drop
    BY <2>6, AsideCovered DEF Drop, Goto
  <2>7. ASSUME NEW slot \in BOOLEAN, NEW readableSlot \in BOOLEAN, NEW iniOk \in BOOLEAN, NEW jsonOk \in BOOLEAN,
               publish(slot, readableSlot, iniOk, jsonOk)
        PROVE  ShownInv'
    BY <2>7, PublishCovered
  <2> QED BY <1>6, <2>1, <2>2, <2>3, <2>4, <2>5, <2>6, <2>7 DEF Loop
<1>7. CASE UNCHANGED vars
  BY <1>7, AsideCovered DEF vars
<1> QED BY <1>1, <1>2, <1>3, <1>4, <1>5, <1>6, <1>7 DEF Next

\* When the loop goes to sleep, the state files show the clients and LEDs it has in
\* memory, and state.ini the numbers unless they wait for their slot, as long as no
\* write has failed (publish, with the flags of reloadClients and applySample).
THEOREM SleepsWithAllShown == Spec => []ShowsCurrent
<1>1. ShownInv => ShowsCurrent
  BY DEF ShownInv, Covered, ShowsCurrent
<1> QED BY <1>1, InitCovered, NextCovered, PTL DEF Spec

-----------------------------------------------------------------------------
(* Types.  What needs an argument is the clause that a directory that is   *)
(* not there holds no files: every step that writes one needs it to exist. *)

\* mkdir -p leaves a directory, the one there was or a new one.
LEMMA MakeDirectoryType ==
    ASSUME TypeOK, MakeDirectory
    PROVE  /\ dir' \in 1..MaxDirs /\ watch' \in 0..MaxDirs
           /\ made' \in 1..MaxDirs /\ deaf' \in BOOLEAN
BY MonitorAssumption DEF TypeOK, MakeDirectory, dirVars

\* A step of the loop that touches neither directory nor files.
LEMMA LoopType ==
    ASSUME TypeOK, UNCHANGED <<dirVars, file, old, widgetVars, jobs>>,
           pc' \in {"wait", "reload", "mkdir", "watch", "tick", "expire", "unlink"},
           known' \in Contents, ini' \in Contents, lacks' \subseteq {"leds", "numbers", "readable"},
           toCheck' \subseteq Widgets, victim' \in Widgets \cup {NoFile},
           events' \in BOOLEAN, configDirty' \in BOOLEAN, stateDirty' \in BOOLEAN,
           dataDirty' \in BOOLEAN, failed' \in BOOLEAN, mishaps' \in 0..MaxMishaps
    PROVE  TypeOK'
BY DEF TypeOK, dirVars, widgetVars

\* One step per action.
LEMMA TypeStep == TypeOK /\ [Next]_vars => TypeOK'
<1> SUFFICES ASSUME TypeOK, [Next]_vars
             PROVE  TypeOK'
  OBVIOUS
<1> USE MonitorAssumption DEF dirVars, widgetVars, loopVars, shownVars
<1>1. ASSUME NEW w \in Widgets, wanted'[w] \in Configs \cup {NoFile}, writeConfig(w)
      PROVE  jobs' \subseteq Job
  BY <1>1 DEF writeConfig, TypeOK, Job
<1>2. ASSUME NEW w \in Widgets, Refresh(w)
      PROVE  TypeOK'
  BY <1>1, <1>2 DEF Refresh, TypeOK, Contents
<1>3. ASSUME NEW w \in Widgets, Age(w)
      PROVE  TypeOK'
  BY <1>3 DEF Age, TypeOK
<1>4. ASSUME NEW w \in Widgets, NEW config \in Configs, Edit(w, config)
      PROVE  TypeOK'
  <2>1. wanted' \in Contents /\ wanted'[w] \in Configs \cup {NoFile} /\ edits' \in 0..MaxEdits
    BY <1>4 DEF Edit, TypeOK, Contents
  <2> QED BY <1>1, <1>4, <2>1 DEF Edit, TypeOK
<1>5. ASSUME NEW w \in Widgets, NEW clean \in BOOLEAN, Depart(w, clean)
      PROVE  TypeOK'
  <2>1. wanted' \in Contents /\ edits' \in 0..MaxEdits
    BY <1>5 DEF Depart, TypeOK, Contents
  <2>2. jobs' \subseteq Job
    BY <1>5 DEF Depart, TypeOK, Job
  <2> QED BY <1>5, <2>1, <2>2 DEF Depart, TypeOK
<1>6. ASSUME NEW j \in jobs, RunJob(j)
      PROVE  TypeOK'
  <2>0. j \in Job
    BY DEF TypeOK
  <2>1. CASE j.step = "mkdir"
    <3>1. /\ MakeDirectory /\ jobs' = (jobs \ {j}) \cup {[j EXCEPT !.step = "mv"]}
          /\ UNCHANGED <<file, old, events, widgetVars, pc, loopVars, shownVars, mishaps>>
      BY <1>6, <2>1 DEF RunJob
    <3>2. jobs' \subseteq Job
      BY <2>0, <3>1 DEF TypeOK, Job
    <3>3. dir' # 0 /\ dir' \in 0..MaxDirs
      BY <3>1, MakeDirectoryType
    <3> QED BY <3>1, <3>2, <3>3, MakeDirectoryType DEF TypeOK
  <2>2. CASE j.step # "mkdir"
    <3>1. jobs' = jobs \ {j} /\ UNCHANGED <<dirVars, widgetVars, pc, loopVars, shownVars, mishaps>>
      BY <1>6, <2>2 DEF RunJob
    <3>2. CASE UNCHANGED <<file, old, events>>
      BY <3>1, <3>2 DEF TypeOK
    <3>3. CASE /\ dir # 0
               /\ file' = [file EXCEPT ![j.by] = j.config]
               /\ old' = [old EXCEPT ![j.by] = FALSE] /\ Notify
      <4>1. file' \in Contents /\ old' \in [Widgets -> BOOLEAN] /\ events' \in BOOLEAN
        BY <2>0, <3>3 DEF TypeOK, Contents, Job, Notify
      <4> QED BY <3>1, <3>3, <4>1 DEF TypeOK
    <3> QED BY <1>6, <2>2, <3>2, <3>3 DEF RunJob
  <2> QED BY <2>1, <2>2
<1>7. CASE RemoveDirectory
  BY <1>7 DEF RemoveDirectory, Notify, TypeOK, Contents
<1>8. CASE Hangup
  BY <1>8 DEF Hangup, TypeOK
<1>9. CASE Suspend
  BY <1>9 DEF Suspend, TypeOK
<1>10. CASE Loop
  <2>1. CASE WakeUp
    BY <2>1, LoopType DEF WakeUp, TypeOK
  <2>2. CASE reloadClients
    <3>1. deaf' \in BOOLEAN
      BY <2>2 DEF reloadClients, TypeOK
    <3>2. pc' \in {"mkdir", "tick"} /\ known' \in Contents
      BY <2>2 DEF reloadClients, Loaded, TypeOK
    <3> QED BY <2>2, <3>1, <3>2 DEF reloadClients, TypeOK
  <2>3. CASE Recreate
    <3>1. dir' # 0 /\ dir' \in 0..MaxDirs
      BY <2>3, MakeDirectoryType DEF Recreate
    <3> QED BY <2>3, <3>1, MakeDirectoryType DEF Recreate, Goto, TypeOK
  <2>4. CASE Rewatch
    BY <2>4 DEF Rewatch, Goto, TypeOK
  <2>5. ASSUME NEW checks \in BOOLEAN, tick(checks)
        PROVE  TypeOK'
    <3>1. stateDirty' \in BOOLEAN /\ dataDirty' \in BOOLEAN /\ lacks' \subseteq {"leds", "numbers", "readable"}
      BY <2>5 DEF tick, TypeOK
    <3>2. toCheck' \subseteq Widgets
      BY <2>5 DEF tick, Clients
    <3> QED BY <2>5, <3>1, <3>2, LoopType DEF tick, Goto, TypeOK
  <2>6. ASSUME NEW w \in Widgets, Check(w)
        PROVE  TypeOK'
    <3>1. pc' \in {"expire", "unlink"} /\ victim' \in Widgets \cup {NoFile} /\ toCheck' \subseteq Widgets
      BY <2>6 DEF Check, TypeOK
    <3> QED BY <2>6, <3>1, LoopType DEF Check, TypeOK
  <2>7. CASE Drop
    <3>1. file' \in Contents /\ old' \in [Widgets -> BOOLEAN] /\ events' \in BOOLEAN
      BY <2>7 DEF Drop, Notify, TypeOK, Contents
    <3>2. dir' = 0 => \A w \in Widgets : file'[w] = NoFile
      BY <2>7 DEF Drop, TypeOK, Contents
    <3> QED BY <2>7, <3>1, <3>2 DEF Drop, Goto, TypeOK
  <2>8. ASSUME NEW slot \in BOOLEAN, NEW readableSlot \in BOOLEAN, NEW iniOk \in BOOLEAN, NEW jsonOk \in BOOLEAN,
               publish(slot, readableSlot, iniOk, jsonOk)
        PROVE  TypeOK'
    <3>1. CASE PublishDue(slot)
      <4>1. ini' \in Contents /\ mishaps' \in 0..MaxMishaps /\ failed' \in BOOLEAN
        BY <2>8, <3>1 DEF publish, Written, TypeOK
      <4>2. lacks' \subseteq {"leds", "numbers", "readable"}
        BY <2>8, <3>1 DEF publish, TypeOK
      <4> QED BY <2>8, <3>1, <4>1, <4>2, LoopType DEF publish, Goto, TypeOK
    <3>2. CASE ~PublishDue(slot)
      BY <2>8, <3>2, LoopType DEF publish, Goto, TypeOK
    <3> QED BY <3>1, <3>2
  <2> QED BY <1>10, <2>1, <2>2, <2>3, <2>4, <2>5, <2>6, <2>7, <2>8 DEF Loop
<1>11. CASE UNCHANGED vars
  BY <1>11 DEF vars, TypeOK
<1> QED BY <1>2, <1>3, <1>4, <1>5, <1>6, <1>7, <1>8, <1>9, <1>10, <1>11 DEF Next

\* The types hold when Monitor::start is done.
LEMMA InitType == Init => TypeOK
<1> SUFFICES ASSUME Init PROVE TypeOK
  OBVIOUS
<1>1. /\ dir # 0 /\ dir \in 0..MaxDirs /\ watch \in 0..MaxDirs /\ made \in 1..MaxDirs
      /\ edits \in 0..MaxEdits /\ mishaps \in 0..MaxMishaps
  BY MonitorAssumption DEF Init
<1> QED BY <1>1 DEF Init, TypeOK

\* The variables of loop, widgets and directory keep their types, and a clients
\* directory that is not there holds no files.
THEOREM MonitorTypeCorrect == Spec => []TypeOK
BY InitType, TypeStep, PTL DEF Spec

-----------------------------------------------------------------------------
(* News of the directory.  It reaches the loop by the watch; where there   *)
(* is none, the loop has been told, or is making one and has no clients.   *)

\* The loop found the directory gone and is making it again.
Recreating == pc \in {"mkdir", "watch"}

\* Whatever happens in the directory will be reported, or the loop is to look at it
\* anyway; otherwise it is deaf.
Watched == events \/ configDirty \/ deaf \/ (dir # 0 /\ watch = dir) \/ Recreating

\* While it is made again there are no clients, and a directory that is there then
\* is a new one.
NoneMeanwhile == Recreating => Clients = {} /\ (dir # 0 => made > 1)

HeardInv == TypeOK /\ NewsFlagged /\ Watched /\ NoneMeanwhile

\* A step that reloads nothing and leaves directory and files alone.
LEMMA AsideHeard ==
    ASSUME HeardInv, TypeOK', UNCHANGED <<dir, watch, made, deaf, file, known>>,
           events \/ configDirty => events' \/ configDirty',
           Recreating' = Recreating
    PROVE  HeardInv'
BY DEF HeardInv, NewsFlagged, Watched, NoneMeanwhile, Clients

\* Without clients nothing is in memory.
LEMMA NoClients ==
    ASSUME TypeOK, Clients = {}
    PROVE  known = [w \in Widgets |-> NoFile]
<1>1. known \in [Widgets -> Configs \cup {NoFile}] /\ \A w \in Widgets : known[w] = NoFile
  BY DEF TypeOK, Contents, Clients
<1> QED BY <1>1

\* The directory is made where there is none.
LEMMA MadeHeard ==
    ASSUME HeardInv, TypeOK', MakeDirectory, UNCHANGED <<events, file, configDirty, known>>,
           Recreating' = Recreating
    PROVE  HeardInv'
<1>1. CASE dir # 0
  <2>1. UNCHANGED <<dir, watch, made, deaf>>
    BY <1>1 DEF MakeDirectory, dirVars
  <2> QED BY <2>1, AsideHeard
<1>2. CASE dir = 0
  <2>1. made' = made + 1 /\ dir' = made + 1 /\ UNCHANGED <<watch, deaf>> /\ made \in Nat /\ made >= 1
    BY <1>2, MonitorAssumption DEF MakeDirectory, HeardInv, TypeOK
  <2>2. made' > 1
    BY <2>1
  <2>3. NewsFlagged'
    <3>1. made > 1 => made' > 1
      BY <2>2
    <3> QED BY <2>1, <3>1 DEF HeardInv, NewsFlagged, Clients
  <2>4. Watched'
    BY <1>2, <2>1 DEF HeardInv, Watched
  <2>5. NoneMeanwhile'
    BY <2>2 DEF HeardInv, NoneMeanwhile, Clients
  <2> QED BY <2>3, <2>4, <2>5 DEF HeardInv
<1> QED BY <1>1, <1>2

\* One step per action.
LEMMA HeardStep == HeardInv /\ [Next]_vars => HeardInv'
<1> SUFFICES ASSUME HeardInv, [Next]_vars
             PROVE  HeardInv'
  OBVIOUS
<1>0. TypeOK /\ TypeOK'
  BY TypeStep DEF HeardInv
<1> USE DEF dirVars, widgetVars, loopVars, shownVars
<1>1. ASSUME NEW w \in Widgets, Refresh(w) \/ Age(w)
      PROVE  HeardInv'
  BY <1>0, <1>1, AsideHeard DEF Refresh, Age, Recreating
<1>2. ASSUME NEW w \in Widgets, NEW config \in Configs, Edit(w, config)
      PROVE  HeardInv'
  BY <1>0, <1>2, AsideHeard DEF Edit, Recreating
<1>3. ASSUME NEW w \in Widgets, NEW clean \in BOOLEAN, Depart(w, clean)
      PROVE  HeardInv'
  BY <1>0, <1>3, AsideHeard DEF Depart, Recreating
<1>4. ASSUME NEW j \in jobs, RunJob(j)
      PROVE  HeardInv'
  <2>1. CASE j.step = "mkdir"
    BY <1>0, <1>4, <2>1, MadeHeard DEF RunJob, Recreating
  <2>2. CASE j.step # "mkdir" /\ UNCHANGED <<file, old, events>>
    BY <1>0, <1>4, <2>2, AsideHeard DEF RunJob, Recreating
  <2>3. CASE j.step # "mkdir" /\ dir # 0 /\ Notify
    <3>1. UNCHANGED <<dir, watch, made, deaf, pc, known, configDirty>>
      BY <1>4, <2>3 DEF RunJob
    <3>2. events' = (events \/ (watch # 0 /\ watch = dir))
      BY <2>3 DEF Notify
    <3>3. events' \/ configDirty' \/ deaf' \/ Recreating'
      BY <2>3, <3>1, <3>2 DEF HeardInv, Watched, Recreating
    <3>4. NoneMeanwhile'
      BY <3>1 DEF HeardInv, NoneMeanwhile, Recreating, Clients
    <3>5. NewsFlagged'
      BY <2>3, <3>1, <3>3, <3>4 DEF NewsFlagged, NoneMeanwhile
    <3>6. Watched'
      BY <3>3 DEF Watched
    <3> QED BY <1>0, <3>4, <3>5, <3>6 DEF HeardInv
  <2> QED BY <1>4, <2>1, <2>2, <2>3 DEF RunJob
<1>5. CASE RemoveDirectory
  <2>1. /\ dir # 0 /\ dir' = 0 /\ UNCHANGED <<made, deaf, pc, known, configDirty>>
        /\ file' = [w \in Widgets |-> NoFile]
        /\ events' = (events \/ (watch # 0 /\ watch = dir))
    BY <1>5 DEF RemoveDirectory, Notify
  <2>2. events' \/ configDirty' \/ deaf' \/ Recreating'
    BY <2>1 DEF HeardInv, Watched, Recreating
  <2>3. NoneMeanwhile'
    BY <2>1 DEF HeardInv, NoneMeanwhile, Recreating, Clients
  <2>4. Recreating' => known' = file'
    BY <1>0, <2>1, NoClients DEF HeardInv, NoneMeanwhile, Recreating
  <2> QED BY <1>0, <2>2, <2>3, <2>4 DEF HeardInv, NewsFlagged, Watched
<1>6. CASE Hangup \/ Suspend
  BY <1>0, <1>6, AsideHeard DEF Hangup, Suspend, Recreating
<1>7. CASE Loop
  <2>1. CASE WakeUp
    <3>1. Recreating' = Recreating
      BY <2>1 DEF WakeUp, Recreating
    <3>2. events \/ configDirty => events' \/ configDirty'
      BY <2>1 DEF WakeUp
    <3> QED BY <1>0, <2>1, <3>1, <3>2, AsideHeard DEF WakeUp
  <2>2. CASE reloadClients
    <3>1. /\ known' = file /\ UNCHANGED <<dir, watch, made, file>>
          /\ deaf' = (deaf \/ (dir # 0 /\ watch # dir))
          /\ pc' = IF dir = 0 THEN "mkdir" ELSE "tick"
      BY <2>2 DEF reloadClients, Loaded
    <3>2. NewsFlagged'
      BY <3>1 DEF NewsFlagged
    <3>3. Watched'
      BY <3>1 DEF Watched, Recreating
    <3>4. NoneMeanwhile'
      BY <1>0, <3>1 DEF NoneMeanwhile, Recreating, Clients, TypeOK
    <3> QED BY <1>0, <3>2, <3>3, <3>4 DEF HeardInv
  <2>3. CASE Recreate
    <3>1. /\ MakeDirectory /\ UNCHANGED <<events, file, configDirty, known>>
          /\ Recreating /\ Recreating'
      BY <2>3 DEF Recreate, Goto, Recreating
    <3>2. Recreating' = Recreating
      BY <3>1 DEF Recreating
    <3> QED BY <1>0, <3>1, <3>2, MadeHeard
  <2>4. CASE Rewatch
    <3>1. /\ Recreating /\ pc' = "tick" /\ watch' = dir /\ deaf' = (dir = 0)
          /\ UNCHANGED <<dir, made, events, file, configDirty, known>>
      BY <2>4 DEF Rewatch, Goto, Recreating
    <3>2. Clients' = {} /\ (dir # 0 => made' > 1)
      BY <3>1 DEF HeardInv, NoneMeanwhile, Clients
    <3>3. NewsFlagged' /\ Watched' /\ NoneMeanwhile'
      BY <3>1, <3>2 DEF NewsFlagged, Watched, NoneMeanwhile, Recreating
    <3> QED BY <1>0, <3>3 DEF HeardInv
  <2>5. ASSUME NEW checks \in BOOLEAN, tick(checks)
        PROVE  HeardInv'
    BY <1>0, <2>5, AsideHeard DEF tick, Goto, Recreating
  <2>6. ASSUME NEW w \in Widgets, Check(w)
        PROVE  HeardInv'
    <3>1. Recreating' = Recreating
      BY <2>6 DEF Check, Recreating
    <3> QED BY <1>0, <2>6, <3>1, AsideHeard DEF Check
  <2>7. CASE Drop
    <3>1. configDirty' /\ ~Recreating'
      BY <2>7 DEF Drop, Goto, Recreating
    <3> QED BY <1>0, <3>1 DEF HeardInv, NewsFlagged, Watched, NoneMeanwhile
  <2>8. ASSUME NEW slot \in BOOLEAN, NEW readableSlot \in BOOLEAN, NEW iniOk \in BOOLEAN, NEW jsonOk \in BOOLEAN,
               publish(slot, readableSlot, iniOk, jsonOk)
        PROVE  HeardInv'
    <3>1. Recreating' = Recreating /\ UNCHANGED <<dir, watch, made, deaf, file, known, events, configDirty>>
      BY <2>8 DEF publish, Goto, Recreating
    <3> QED BY <1>0, <3>1, AsideHeard
  <2> QED BY <1>7, <2>1, <2>2, <2>3, <2>4, <2>5, <2>6, <2>7, <2>8 DEF Loop
<1>8. CASE UNCHANGED vars
  BY <1>0, <1>8, AsideHeard DEF vars, Recreating
<1> QED BY <1>1, <1>2, <1>3, <1>4, <1>5, <1>6, <1>7, <1>8 DEF Next

\* No change of the clients directory goes unnoticed: while memory and directory
\* differ an event or the reload is pending, unless the daemon is deaf or missed a
\* first file while it made the directory again (handleInotify, reloadClients and
\* dropExpiredClients against the widgets' scripts).
THEOREM NewsAlwaysFlagged == Spec => []NewsFlagged
<1>1. Init => HeardInv
  <2> SUFFICES ASSUME Init PROVE HeardInv
    OBVIOUS
  <2>1. TypeOK
    BY InitType
  <2> QED BY <2>1 DEF Init, HeardInv, NewsFlagged, Watched, NoneMeanwhile, Recreating
<1>2. HeardInv => NewsFlagged
  BY DEF HeardInv
<1> QED BY <1>1, <1>2, HeardStep, PTL DEF Spec
=============================================================================
