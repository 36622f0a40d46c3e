-------------------------- MODULE PodAgentsProofs --------------------------
(***************************************************************************)
(* What PodAgents' run checks of the handlers beside /exec, proved for any *)
(* number of requests, names, builds and files: each part takes only its   *)
(* own steps, so an invariant of its Next is one of PSpec.                 *)
(***************************************************************************)
EXTENDS PodAgents, WorkloadAgentProofs, Integers, TLAPS

(* A step of the whole is one of the process table, or leaves it as it is;  *)
LEMMA ProcsStep == [PNext]_PVars => [Procs!Next]_procsVars
  BY DEF PNext, PVars

(* the same of the files, ...                                               *)
LEMMA FilesStep == [PNext]_PVars => [Files!Next]_filesVars
  BY DEF PNext, PVars

(* of the builds ...                                                        *)
LEMMA GradleStep == [PNext]_PVars => [Gradle!Next]_gradleVars
  BY DEF PNext, PVars

(* ... and of the device.                                                   *)
LEMMA DeviceStep == [PNext]_PVars => [Device!Next]_deviceVars
  BY DEF PNext, PVars, Device!Next

-----------------------------------------------------------------------------
(* The device: the last dump is as new as any that a request waits for, a   *)
(* recording that lives is the registered one or is being stopped, and no   *)
(* recording began after the one that the file is of, but for an earlier    *)
(* one whose /stop was waiting.                                             *)

DeviceTypes ==
    /\ screen \in Nat /\ dumped \in Nat
    /\ ui \in [Viewer -> [pc : {"idle", "dump", "cat", "answered"}, since : Nat, got : Nat, failed : BOOLEAN]]
    /\ recs \in Nat /\ alive \subseteq 1..recs /\ began \subseteq 1..recs /\ mp4 \in Nat
    /\ stop \in [Stopper -> [pc : {"idle", "signal", "wait", "cat", "answered"}, rec : Nat, begun : Nat, got : Nat]]

UiInv ==
    /\ dumped <= screen
    /\ \A r \in Viewer :
          /\ ui[r].since <= screen
          /\ ui[r].pc = "cat" => dumped >= ui[r].since \/ ui[r].failed
          /\ ui[r].pc = "answered" => ui[r].got >= ui[r].since \/ ui[r].failed

RecInv ==
    /\ reg \in {0, recs}
    /\ \A p \in alive : p = reg \/ Device!Stopping(p)
    /\ \A q \in began : mp4 >= q \/ mp4 \in late
    /\ \A t \in Stopper : stop[t].rec # 0 /\ stop[t].pc # "idle" =>
          /\ stop[t].rec = stop[t].begun /\ stop[t].begun <= recs
          /\ stop[t].pc \in {"cat", "answered"} => stop[t].rec \notin alive
          /\ stop[t].pc = "answered" /\ stop[t].rec \in began
             => stop[t].got >= stop[t].begun \/ stop[t].got \in late

DeviceInv == DeviceTypes /\ UiInv /\ RecInv

(* Requests to /ui change nothing of the recordings.                        *)
LEMMA DeviceUi ==
  ASSUME DeviceInv,
         Device!Change \/ \E r \in Viewer :
            Device!AskUi(r) \/ Device!CatUi(r) \/ Device!ReplyUi(r) \/ \E ok \in BOOLEAN : Device!Dump(r, ok)
  PROVE  DeviceInv'
<1> USE DEF DeviceInv, DeviceTypes, UiInv, RecInv, Device!Stopping, Device!NoUi, Device!recvars, Device!uivars
<1>1. CASE Device!Change
  BY <1>1 DEF Device!Change
<1>2. ASSUME NEW r \in Viewer, Device!AskUi(r) PROVE DeviceInv'
  <2> DEFINE asked == [Device!NoUi EXCEPT !.pc = "dump", !.since = screen]
  <2>1. asked \in [pc : {"dump"}, since : {screen}, got : Nat, failed : BOOLEAN]
    BY DEF Device!NoUi
  <2>2. ui' = [ui EXCEPT ![r] = asked] /\ UNCHANGED <<screen, dumped, recs, reg, alive, began, mp4, late, stop>>
    BY <1>2 DEF Device!AskUi
  <2> HIDE DEF asked
  <2> QED BY <2>1, <2>2
<1>3. ASSUME NEW r \in Viewer, NEW ok \in BOOLEAN, Device!Dump(r, ok) PROVE DeviceInv'
  <2>1. /\ ui'[r].pc = "cat" /\ ui'[r].failed = ~ok /\ ui'[r].since = ui[r].since
        /\ \A q \in Viewer : q # r => ui'[q] = ui[q]
    BY <1>3 DEF Device!Dump
  <2>2. DeviceTypes'
    BY <1>3 DEF Device!Dump
  <2>3. UiInv'
    <3>1. CASE ok
      BY <1>3, <2>1, <3>1 DEF Device!Dump
    <3>2. CASE ~ok
      BY <1>3, <2>1, <3>2 DEF Device!Dump
    <3> QED BY <3>1, <3>2
  <2> QED BY <1>3, <2>2, <2>3 DEF Device!Dump
<1>4. ASSUME NEW r \in Viewer, Device!CatUi(r) PROVE DeviceInv'
  <2>1. /\ ui'[r].pc = "answered" /\ ui'[r].got = dumped
        /\ ui'[r].failed = ui[r].failed /\ ui'[r].since = ui[r].since
        /\ \A q \in Viewer : q # r => ui'[q] = ui[q]
    BY <1>4 DEF Device!CatUi
  <2>2. DeviceTypes'
    BY <1>4 DEF Device!CatUi
  <2>3. UiInv'
    BY <1>4, <2>1 DEF Device!CatUi
  <2> QED BY <1>4, <2>2, <2>3 DEF Device!CatUi
<1>5. ASSUME NEW r \in Viewer, Device!ReplyUi(r) PROVE DeviceInv'
  BY <1>5 DEF Device!ReplyUi
<1> QED BY <1>1, <1>2, <1>3, <1>4, <1>5

(* A recording is asked for when the registered one is over.                *)
LEMMA DeviceStart == DeviceInv /\ Device!StartRec => DeviceInv'
<1> SUFFICES ASSUME DeviceInv, Device!StartRec PROVE DeviceInv'
  OBVIOUS
<1>1. /\ recs' = recs + 1 /\ reg' = recs + 1 /\ alive' = alive \cup {recs + 1} /\ reg \notin alive
      /\ UNCHANGED <<screen, dumped, ui, began, mp4, late, stop>>
  BY DEF Device!StartRec, Device!Recordable, Device!uivars
<1>2. recs \in Nat /\ alive \subseteq 1..recs /\ began \subseteq 1..recs
  BY DEF DeviceInv, DeviceTypes
<1>3. DeviceTypes' /\ UiInv'
  BY <1>1, <1>2 DEF DeviceInv, DeviceTypes, UiInv
<1>4. \A p \in alive' : p = reg' \/ Device!Stopping(p)'
  BY <1>1 DEF DeviceInv, RecInv, Device!Stopping
<1>5. ASSUME NEW t \in Stopper, stop[t].rec # 0, stop[t].pc # "idle"
      PROVE  /\ stop[t].rec = stop[t].begun /\ stop[t].begun <= recs + 1
             /\ stop[t].pc \in {"cat", "answered"} => stop[t].rec \notin alive'
  BY <1>1, <1>2, <1>5 DEF DeviceInv, DeviceTypes, RecInv
<1>6. RecInv'
  BY <1>1, <1>4, <1>5 DEF DeviceInv, RecInv
<1>. QED
  BY <1>3, <1>6 DEF DeviceInv

(* One that begins is the last that was asked for, or its /stop waits.      *)
LEMMA DeviceBegins == ASSUME DeviceInv, NEW p \in 1..MaxRec, Device!RecBegins(p) PROVE DeviceInv'
<1>1. /\ p \in alive /\ p \notin began /\ began' = began \cup {p} /\ mp4' = p
      /\ late' = IF p < recs /\ Device!Stopping(p) THEN late \cup {p} ELSE late
      /\ UNCHANGED <<screen, dumped, ui, recs, reg, alive, stop>>
  BY DEF Device!RecBegins, Device!uivars
<1>2. recs \in Nat /\ alive \subseteq 1..recs /\ began \subseteq 1..recs /\ p \in 1..recs
  BY <1>1 DEF DeviceInv, DeviceTypes
<1>3. DeviceTypes' /\ UiInv'
  BY <1>1, <1>2 DEF DeviceInv, DeviceTypes, UiInv
<1>4. late \subseteq late' /\ (p < recs /\ Device!Stopping(p) => p \in late')
  BY <1>1
<1>5. p = reg \/ Device!Stopping(p)
  BY <1>1 DEF DeviceInv, RecInv
<1>6. reg \in {0, recs}
  BY DEF DeviceInv, RecInv
<1>7. ASSUME NEW q \in began' PROVE mp4' >= q \/ mp4' \in late'
  <2>1. q \in 1..recs
    BY <1>1, <1>2
  <2>2. CASE p < recs
    BY <1>1, <1>2, <1>4, <1>5, <1>6, <2>2
  <2>3. CASE p = recs
    BY <1>1, <1>2, <2>1, <2>3
  <2>. QED
    BY <1>2, <2>2, <2>3
<1>8. \A r \in alive' : r = reg' \/ Device!Stopping(r)'
  BY <1>1 DEF DeviceInv, RecInv, Device!Stopping
<1>9. ASSUME NEW t \in Stopper, stop[t].rec # 0, stop[t].pc # "idle"
      PROVE  /\ stop[t].rec = stop[t].begun /\ stop[t].begun <= recs
             /\ stop[t].pc \in {"cat", "answered"} => stop[t].rec \notin alive
             /\ stop[t].pc = "answered" /\ stop[t].rec \in began'
                => stop[t].got >= stop[t].begun \/ stop[t].got \in late'
  <2>1. /\ stop[t].rec = stop[t].begun /\ stop[t].begun <= recs
        /\ stop[t].pc \in {"cat", "answered"} => stop[t].rec \notin alive
        /\ stop[t].pc = "answered" /\ stop[t].rec \in began
           => stop[t].got >= stop[t].begun \/ stop[t].got \in late
    BY <1>9 DEF DeviceInv, RecInv
  <2>. QED
    BY <1>1, <1>4, <2>1
<1>10. RecInv'
  BY <1>1, <1>6, <1>7, <1>8, <1>9 DEF RecInv
<1>. QED
  BY <1>3, <1>10 DEF DeviceInv

(* A recording that ends is of no more concern.                             *)
LEMMA DeviceEnds == ASSUME DeviceInv, NEW p \in 1..MaxRec, Device!RecEnds(p) PROVE DeviceInv'
  BY DEF Device!RecEnds, Device!uivars, Device!Stopping, DeviceInv, DeviceTypes, UiInv, RecInv

(* A /stop has its recording killed before it is done with it.              *)
LEMMA DeviceStop ==
  ASSUME DeviceInv, NEW t \in Stopper,
         Device!PopRec(t) \/ Device!Pkill(t) \/ Device!WaitRec(t) \/ Device!CatRec(t) \/ Device!ReplyRec(t)
  PROVE  DeviceInv'
<1> USE DEF DeviceInv, DeviceTypes, UiInv, RecInv, Device!Stopping, Device!uivars
<1>1. CASE Device!PopRec(t)
  <2> DEFINE popped == [pc |-> IF reg \in alive THEN "signal" ELSE "cat", rec |-> reg,
                        begun |-> recs, got |-> 0]
  <2>1. stop' = [stop EXCEPT ![t] = popped] /\ reg' = 0 /\ stop[t].pc = "idle"
        /\ UNCHANGED <<screen, dumped, ui, recs, alive, began, mp4, late>>
    BY <1>1 DEF Device!PopRec
  <2>2. /\ popped \in [pc : {"signal", "cat"}, rec : Nat, begun : Nat, got : Nat]
        /\ popped.rec = reg /\ popped.begun = recs
        /\ (reg \in alive => popped.pc = "signal") /\ (reg \notin alive => popped.pc = "cat")
    OBVIOUS
  <2> HIDE DEF popped
  <2>3. stop'[t] = popped /\ \A u \in Stopper : u # t => stop'[u] = stop[u]
    BY <2>1
  <2>4. DeviceTypes' /\ UiInv'
    BY <2>1, <2>2
  <2>5. \A p \in alive : \E u \in Stopper : stop'[u].pc \in {"signal", "wait"} /\ stop'[u].rec = p
    BY <2>1, <2>2, <2>3
  <2>6. ASSUME NEW u \in Stopper, stop'[u].rec # 0, stop'[u].pc # "idle"
        PROVE  /\ stop'[u].rec = stop'[u].begun /\ stop'[u].begun <= recs
               /\ stop'[u].pc \in {"cat", "answered"} => stop'[u].rec \notin alive
               /\ stop'[u].pc = "answered" /\ stop'[u].rec \in began
                  => stop'[u].got >= stop'[u].begun \/ stop'[u].got \in late
    <3>1. CASE u = t
      BY <2>2, <2>3, <2>6, <3>1
    <3>2. CASE u # t
      BY <2>3, <2>6, <3>2
    <3>. QED
      BY <3>1, <3>2
  <2>7. RecInv'
    BY <2>1, <2>5, <2>6
  <2> QED BY <2>4, <2>7
<1>2. CASE Device!Pkill(t)
  BY <1>2 DEF Device!Pkill
<1>3. CASE Device!WaitRec(t)
  BY <1>3 DEF Device!WaitRec
<1>4. CASE Device!CatRec(t)
  <2> DEFINE answered == [stop[t] EXCEPT !.pc = "answered", !.got = mp4]
  <2>1. /\ answered \in [pc : {"idle", "signal", "wait", "cat", "answered"}, rec : Nat, begun : Nat, got : Nat]
        /\ answered.pc = "answered" /\ answered.got = mp4
        /\ answered.rec = stop[t].rec /\ answered.begun = stop[t].begun
    <3>1. mp4 \in Nat
      OBVIOUS
    <3>2. stop[t] \in [pc : {"idle", "signal", "wait", "cat", "answered"}, rec : Nat, begun : Nat, got : Nat]
      OBVIOUS
    <3> QED BY ONLY <3>1, <3>2
  <2>2. stop' = [stop EXCEPT ![t] = answered] /\ stop[t].pc = "cat"
        /\ UNCHANGED <<screen, dumped, ui, recs, reg, alive, began, mp4, late>>
    BY <1>4 DEF Device!CatRec
  <2> HIDE DEF answered
  <2>3. /\ stop'[t].pc = "answered" /\ stop'[t].got = mp4
        /\ stop'[t].rec = stop[t].rec /\ stop'[t].begun = stop[t].begun
        /\ \A u \in Stopper : u # t => stop'[u] = stop[u]
    BY <2>1, <2>2
  <2>4. DeviceTypes' /\ UiInv'
    BY <2>1, <2>2
  <2>5. RecInv'
    BY <2>2, <2>3
  <2> QED BY <2>4, <2>5
<1>5. CASE Device!ReplyRec(t)
  BY <1>5 DEF Device!ReplyRec, Device!NoStop
<1> QED BY <1>1, <1>2, <1>3, <1>4, <1>5

(* Requests to one device that overlap share files on it, and still get     *)
(* what they asked for, but that a /stop whose recording never began is     *)
(* given the one before it (ui_dump and screenrecord_stop of                *)
(* src/device_agent/app.py), however many there are.                       *)
THEOREM ScreensAreOwn == PSpec => []ScreenOwn
<1>1. PInit => DeviceInv
  BY DEF PInit, Device!Init, DeviceInv, DeviceTypes, UiInv, RecInv, Device!NoUi, Device!NoStop
<1>2. DeviceInv /\ [Device!Next]_deviceVars => DeviceInv'
  <2> SUFFICES ASSUME DeviceInv, [Device!Next]_deviceVars PROVE DeviceInv'
    OBVIOUS
  <2>1. CASE UNCHANGED deviceVars
    BY <2>1 DEF deviceVars, DeviceInv, DeviceTypes, UiInv, RecInv, Device!Stopping
  <2> QED BY <2>1, DeviceUi, DeviceStart, DeviceBegins, DeviceEnds, DeviceStop
          DEF Device!Next, Device!UiNext, Device!RecNext
<1>3. UiInv => Device!UiFresh
  BY DEF UiInv, Device!UiFresh
<1>4. RecInv => Device!OverlapOnlyWhileStopping
  <2> SUFFICES ASSUME RecInv, NEW p \in alive, NEW q \in alive, p # q
               PROVE  Device!Stopping(p) \/ Device!Stopping(q)
    BY DEF Device!OverlapOnlyWhileStopping
  <2>1. p # reg \/ q # reg
    OBVIOUS
  <2>. QED
    BY <2>1 DEF RecInv
<1>5. DeviceTypes /\ RecInv => Device!StopReturnsOwn
  <2> SUFFICES ASSUME DeviceTypes, RecInv, NEW t \in Stopper, stop[t].pc = "answered", stop[t].rec \in began
               PROVE  stop[t].got = stop[t].rec \/ stop[t].got > stop[t].begun \/ stop[t].got \in late
    BY DEF Device!StopReturnsOwn
  <2>1. stop[t].rec # 0
    BY DEF DeviceTypes
  <2>2. stop[t].rec = stop[t].begun /\ (stop[t].got >= stop[t].begun \/ stop[t].got \in late)
    BY <2>1 DEF RecInv
  <2>3. stop[t].got \in Nat /\ stop[t].begun \in Nat
    BY DEF DeviceTypes
  <2>. QED
    BY ONLY <2>2, <2>3
<1>6. DeviceInv => ScreenOwn
  BY <1>3, <1>4, <1>5 DEF DeviceInv, ScreenOwn
<1> QED BY <1>1, <1>2, <1>6, DeviceStep, PTL DEF PSpec
-----------------------------------------------------------------------------
(* The process table: whoever has a live shell is the one its name stands   *)
(* for; a shell that was looked up is waited for or killed; and what one    *)
(* wrote is in the log of its name.                                        *)

ProcsTypes ==
    /\ started \in Nat /\ procs \in [Name -> 0..started]
    /\ \A p \in 1..started : nameOf[p] \in Name
    /\ leader \subseteq 1..started
    /\ log \in [Name -> Nat] /\ wrote \in [Procs!Proc -> Nat] /\ started <= MaxProc
    /\ stopper \in [Stopper -> [p : 0..started, pc : {"idle", "term", "wait", "kill", "done"}]]
    /\ reader \in [Reader -> [p : 0..started, pc : {"idle", "read", "done"}, running : BOOLEAN,
                            lines : Nat, cut : Nat]]

LogEnds ==
    \A t \in Reader : reader[t].pc = "done" /\ ~reader[t].running
                      => wrote[reader[t].p] <= reader[t].lines

ProcsInv ==
    /\ ProcsTypes
    /\ \A p \in leader : procs[nameOf[p]] = p
    /\ \A p \in 1..started : wrote[p] <= log[nameOf[p]]
    /\ \A p \in Procs!Proc : p > started => wrote[p] = 0
    /\ Procs!StoppedIsOver
    /\ \A t \in Reader : reader[t].pc # "idle" =>
          /\ reader[t].p \in 1..started
          /\ ~reader[t].running => reader[t].p \notin leader
    /\ LogEnds

(* A new process takes its name from one that is over.                      *)
LEMMA ProcsStart ==
  ASSUME ProcsInv, NEW n \in Name, Procs!Start(n)
  PROVE  ProcsInv'
<1>1. /\ started' = started + 1 /\ started < MaxProc /\ procs[n] \notin leader
      /\ procs' = [procs EXCEPT ![n] = started + 1] /\ leader' = leader \cup {started + 1}
      /\ UNCHANGED <<log, wrote, stopper, reader>>
  BY DEF Procs!Start, Procs!Startable, Procs!Running
<1>2. \A p \in 1..(started + 1) : nameOf'[p] = IF p = started + 1 THEN n ELSE nameOf[p]
  BY DEF Procs!Start
<1>3. started \in Nat /\ MaxProc \in Nat /\ leader \subseteq 1..started
  BY PodAgentsAssumption DEF ProcsInv, ProcsTypes, Procs!ProcessAssumption
<1>4. ProcsTypes'
  <2>1. started' \in Nat /\ started' <= MaxProc /\ leader' \subseteq 1..started'
    BY <1>1, <1>3
  <2>2. procs' \in [Name -> 0..started']
    BY <1>1, <1>3 DEF ProcsInv, ProcsTypes
  <2>5. ASSUME NEW p \in 1..started' PROVE nameOf'[p] \in Name
    BY <1>1, <1>2, <1>3, p = started + 1 \/ p \in 1..started DEF ProcsInv, ProcsTypes
  <2>3. stopper' \in [Stopper -> [p : 0..started', pc : {"idle", "term", "wait", "kill", "done"}]]
    BY <1>1, <1>3 DEF ProcsInv, ProcsTypes
  <2>4. reader' \in [Reader -> [p : 0..started', pc : {"idle", "read", "done"}, running : BOOLEAN,
                            lines : Nat, cut : Nat]]
    BY <1>1, <1>3 DEF ProcsInv, ProcsTypes
  <2> QED BY <1>1, <2>1, <2>2, <2>3, <2>4, <2>5 DEF ProcsInv, ProcsTypes
<1>5. ASSUME NEW p \in leader' PROVE procs'[nameOf'[p]] = p
  <2>1. CASE p = started + 1
    BY <1>1, <1>2, <1>3, <2>1 DEF ProcsInv, ProcsTypes
  <2>2. CASE p # started + 1
    <3>1. p \in leader /\ p \in 1..started /\ nameOf'[p] = nameOf[p] /\ procs[nameOf[p]] = p
      BY <1>1, <1>2, <1>3, <1>5, <2>2 DEF ProcsInv
    <3>2. nameOf[p] # n
      BY <1>1, <3>1
    <3> QED BY <1>1, <3>1, <3>2 DEF ProcsInv, ProcsTypes
  <2> QED BY <2>1, <2>2
<1>6. ASSUME NEW p \in 1..started' PROVE wrote'[p] <= log'[nameOf'[p]]
  <2>1. CASE p = started + 1
    <3>1. p \in Procs!Proc /\ p > started /\ nameOf'[p] = n
      BY <1>1, <1>2, <1>3, <2>1 DEF Procs!Proc
    <3>2. wrote[p] = 0 /\ log[n] \in Nat
      BY <3>1 DEF ProcsInv, ProcsTypes
    <3>. QED
      BY <1>1, <3>1, <3>2
  <2>2. CASE p # started + 1
    <3>1. p \in 1..started /\ nameOf'[p] = nameOf[p]
      BY <1>1, <1>2, <1>3, <2>2
    <3>. QED
      BY <1>1, <3>1 DEF ProcsInv
  <2>. QED
    BY <2>1, <2>2
<1>7. \A p \in Procs!Proc : p > started' => wrote'[p] = 0
  BY <1>1, <1>3 DEF ProcsInv, Procs!Proc
<1>8. Procs!StoppedIsOver' /\ LogEnds'
  BY <1>1, <1>3 DEF ProcsInv, ProcsTypes, Procs!StoppedIsOver, LogEnds
<1>9. \A t \in Reader : reader'[t].pc # "idle" =>
          reader'[t].p \in 1..started' /\ (~reader'[t].running => reader'[t].p \notin leader')
  BY <1>1, <1>3 DEF ProcsInv, ProcsTypes
<1> QED BY <1>4, <1>5, <1>6, <1>7, <1>8, <1>9 DEF ProcsInv

(* Output, and ends of processes.                                           *)
LEMMA ProcsRun ==
  ASSUME ProcsInv, NEW p \in Procs!Proc, Procs!Write(p) \/ Procs!LeaderExits(p) \/ Procs!RestExits(p)
  PROVE  ProcsInv'
<1>1. CASE Procs!Write(p)
  <2>1. /\ p \in 1..started /\ nameOf[p] \in Name /\ log[nameOf[p]] \in Nat
        /\ log' = [log EXCEPT ![nameOf[p]] = @ + 1]
        /\ UNCHANGED <<procs, nameOf, started, leader, rest, stopper, reader>>
    BY <1>1 DEF Procs!Write, Procs!table, ProcsInv, ProcsTypes
  <2>5. \/ p \in leader /\ wrote' = [wrote EXCEPT ![p] = log[nameOf[p]] + 1]
        \/ wrote' = wrote
    BY <1>1, <2>1 DEF Procs!Write, ProcsInv, ProcsTypes
  <2>2. ProcsTypes'
    BY <2>1, <2>5 DEF ProcsInv, ProcsTypes
  <2>6. \A q \in Procs!Proc : q > started => wrote'[q] = 0
    BY <2>1, <2>5 DEF ProcsInv, ProcsTypes
  <2>3. ASSUME NEW q \in 1..started PROVE wrote'[q] <= log'[nameOf[q]]
    <3>1. wrote[q] <= log[nameOf[q]] /\ nameOf[q] \in Name /\ q \in Procs!Proc
          /\ wrote[q] \in Nat /\ log[nameOf[q]] \in Nat
      BY PodAgentsAssumption DEF ProcsInv, ProcsTypes, Procs!Proc, Procs!ProcessAssumption
    <3> QED BY <2>1, <2>5, <3>1 DEF ProcsInv, ProcsTypes
  <2>4. ASSUME NEW t \in Reader, reader'[t].pc = "done", ~reader'[t].running
        PROVE  wrote'[reader'[t].p] <= reader'[t].lines
    <3>1. reader[t].pc = "done" /\ ~reader[t].running /\ reader' = reader
      BY <2>1, <2>4
    <3>2. reader[t].p \in 1..started /\ reader[t].p \notin leader /\ wrote[reader[t].p] <= reader[t].lines
      BY <3>1 DEF ProcsInv, LogEnds
    <3>4. reader[t].p \in Procs!Proc /\ wrote \in [Procs!Proc -> Nat]
      BY <3>2, PodAgentsAssumption DEF ProcsInv, ProcsTypes, Procs!Proc, Procs!ProcessAssumption
    <3>3. wrote'[reader[t].p] = wrote[reader[t].p]
      BY ONLY <2>5, <3>2, <3>4
    <3>. QED
      BY <3>1, <3>2, <3>3
  <2>7. LogEnds'
    BY <2>4 DEF LogEnds
  <2> QED BY <2>1, <2>2, <2>3, <2>6, <2>7 DEF ProcsInv, ProcsTypes, Procs!StoppedIsOver
<1>2. CASE Procs!LeaderExits(p)
  BY <1>2 DEF Procs!LeaderExits, Procs!table, ProcsInv, ProcsTypes, Procs!StoppedIsOver, LogEnds
<1>3. CASE Procs!RestExits(p)
  BY <1>3 DEF Procs!RestExits, Procs!table, ProcsInv, ProcsTypes, Procs!StoppedIsOver, LogEnds
<1> QED BY <1>1, <1>2, <1>3

(* A /stop looks its process up, and is done when the shell is over.        *)
LEMMA ProcsStop ==
  ASSUME ProcsInv, NEW t \in Stopper, Procs!Serve(t) \/ \E n \in Name : Procs!LookUp(t, n)
  PROVE  ProcsInv'
<1> USE DEF ProcsInv, ProcsTypes, Procs!StoppedIsOver, LogEnds, Procs!Goes, Procs!table, Procs!system
<1>1. ASSUME NEW n \in Name, Procs!LookUp(t, n) PROVE ProcsInv'
  BY <1>1 DEF Procs!LookUp
<1>2. CASE Procs!Term(t)
  <2>1. /\ leader' \subseteq leader
        /\ stopper[t].pc = "term"
        /\ UNCHANGED <<procs, nameOf, started, log, wrote, reader>>
    BY <1>2 DEF Procs!Term, Procs!Signal
  <2>2. \/ stopper' = [stopper EXCEPT ![t].pc = "done"] /\ stopper[t].p \notin leader
        \/ stopper' = [stopper EXCEPT ![t].pc = "wait"]
    BY <1>2 DEF Procs!Term
  <2>3. ProcsTypes'
    BY <2>1, <2>2
  <2>4. Procs!StoppedIsOver'
    BY <2>1, <2>2
  <2>. QED
    BY <2>1, <2>3, <2>4
<1>3. CASE Procs!Wait(t)
  BY <1>3 DEF Procs!Wait
<1>4. CASE Procs!Kill(t)
  BY <1>4 DEF Procs!Kill, Procs!Signal
<1>5. CASE Procs!Answer(t)
  BY <1>5 DEF Procs!Answer, Procs!NotStopping
<1> QED BY <1>1, <1>2, <1>3, <1>4, <1>5 DEF Procs!Serve

(* /logs asks first whether the process runs, and reads then.               *)
LEMMA ProcsLog ==
  ASSUME ProcsInv, NEW t \in Reader,
         (\E tail \in 0..MaxOutput : Procs!ReadLog(t, tail)) \/ Procs!Reply(t) \/ \E n \in Name : Procs!PollLog(t, n)
  PROVE  ProcsInv'
<1> USE DEF ProcsInv, ProcsTypes, Procs!StoppedIsOver, LogEnds, Procs!table, Procs!system
<1>1. ASSUME NEW n \in Name, Procs!PollLog(t, n) PROVE ProcsInv'
  <2> DEFINE polled == [p |-> procs[n], pc |-> "read", running |-> Procs!Running(n),
                        lines |-> 0, cut |-> 0]
  <2>1. /\ polled \in [p : 0..started, pc : {"idle", "read", "done"}, running : BOOLEAN,
                            lines : Nat, cut : Nat]
        /\ polled.pc = "read" /\ polled.p \in 1..started /\ (~polled.running => polled.p \notin leader)
    <3>1. procs[n] \in 1..started /\ Procs!Running(n) \in BOOLEAN /\ (~Procs!Running(n) => procs[n] \notin leader)
      BY <1>1 DEF Procs!PollLog, Procs!Running
    <3> QED BY ONLY <3>1
  <2>2. reader' = [reader EXCEPT ![t] = polled] /\ UNCHANGED <<procs, nameOf, started, leader, rest, log, wrote, stopper>>
    BY <1>1 DEF Procs!PollLog
  <2> HIDE DEF polled
  <2> QED BY <2>1, <2>2
<1>2. ASSUME NEW tail \in 0..MaxOutput, Procs!ReadLog(t, tail) PROVE ProcsInv'
  <2> DEFINE size == log[nameOf[reader[t].p]]
             left == IF size > tail THEN size - tail ELSE 0
             read == [reader[t] EXCEPT !.pc = "done", !.lines = size, !.cut = left]
             Logging == [p : 0..started, pc : {"idle", "read", "done"}, running : BOOLEAN,
                         lines : Nat, cut : Nat]
  <2>1. reader[t] \in Logging /\ reader[t].pc = "read" /\ reader[t].p \in 1..started
    BY <1>2 DEF Procs!ReadLog
  <2>2. size \in Nat /\ left \in Nat
    <3>1. size \in Nat /\ tail \in Nat
      BY <2>1, PodAgentsAssumption DEF Procs!ProcessAssumption
    <3>. QED
      BY ONLY <3>1
  <2>3. reader' = [reader EXCEPT ![t] = read]
        /\ UNCHANGED <<procs, nameOf, started, leader, rest, log, wrote, stopper>>
    BY <1>2 DEF Procs!ReadLog
  <2> HIDE DEF left
  <2>4. /\ read \in Logging
        /\ read.p = reader[t].p /\ read.running = reader[t].running /\ read.lines = log[nameOf[read.p]]
    BY ONLY <2>1, <2>2
  <2> HIDE DEF read
  <2>. QED
    BY <2>1, <2>3, <2>4
<1>3. CASE Procs!Reply(t)
  BY <1>3 DEF Procs!Reply, Procs!NotReading
<1> QED BY <1>1, <1>2, <1>3

(* Two services never run under one name, a /stop that answers leaves its   *)
(* shell dead, and a log that is said to be final carries the last line of  *)
(* the shell or says that it is cut off (start_proc, stop_proc *)
(* and proc_logs of src/cwe/workload_agent.py).                             *)
THEOREM ProcessesAreNamed == PSpec => []NamedProcesses
<1>1. PInit => ProcsInv
  BY PodAgentsAssumption
  DEF PInit, Procs!Init, Procs!Proc, Procs!ProcessAssumption, Procs!NotStopping, Procs!NotReading,
      ProcsInv, ProcsTypes, Procs!StoppedIsOver, LogEnds
<1>2. ProcsInv /\ [Procs!Next]_procsVars => ProcsInv'
  <2> SUFFICES ASSUME ProcsInv, [Procs!Next]_procsVars PROVE ProcsInv'
    OBVIOUS
  <2>1. CASE UNCHANGED procsVars
    BY <2>1 DEF procsVars, ProcsInv, ProcsTypes, Procs!StoppedIsOver, LogEnds
  <2> QED BY <2>1, ProcsStart, ProcsRun, ProcsStop, ProcsLog DEF Procs!Next
<1>3. ProcsInv => Procs!FinalLogIsWhole
  <2> SUFFICES ASSUME ProcsInv, NEW t \in Reader, reader[t].pc = "done", ~reader[t].running
               PROVE  \/ wrote[reader[t].p] \in Procs!Carried(t)
                      \/ wrote[reader[t].p] <= reader[t].cut
    BY DEF Procs!FinalLogIsWhole
  <2>1. wrote[reader[t].p] <= reader[t].lines
    BY DEF ProcsInv, LogEnds
  <2>2. wrote[reader[t].p] \in Nat /\ reader[t].lines \in Nat /\ reader[t].cut \in Nat
    BY PodAgentsAssumption DEF ProcsInv, ProcsTypes, Procs!Proc, Procs!ProcessAssumption
  <2>. QED
    BY <2>1, <2>2 DEF Procs!Carried
<1>4. ProcsInv => NamedProcesses
  BY <1>3 DEF ProcsInv, ProcsTypes, NamedProcesses, Procs!OneShellPerName
<1> QED BY <1>1, <1>2, <1>4, ProcsStep, PTL DEF PSpec

-----------------------------------------------------------------------------
(* The builds: a Gradle and what it leaves belong to the build that holds   *)
(* the lock of the builder until it has killed them; a directory that is    *)
(* missing under a Gradle, or an APK after it, has grown too old.           *)

GradleTypes ==
    /\ backend \in {"sidecar", "docker"} /\ now \in Nat
    /\ build \in [Build -> {"idle", "prep", "fetched", "ask", "run", "killed", "report", "ok", "failed"}]
    /\ dir \subseteq Build /\ apk \subseteq Build /\ shell \subseteq Build /\ children \subseteq Build
    /\ mtime \in [Build -> Nat] /\ deadline \in [Build -> Nat] /\ waited \in [Build -> Nat]
    /\ installed \in [Build -> {"untried", "yes", "gone"}]

Aged(b) == now - mtime[b] > MaxAge

BuildKept(b) ==
    /\ mtime[b] <= now
    /\ b \in shell \cup children => build[b] = "run"
    /\ backend = "sidecar" /\ build[b] \in {"run", "killed"} => gate = b
    /\ backend = "sidecar" /\ build[b] = "run" => deadline[b] <= mtime[b] + waited[b] + MaxTimeout
    /\ build[b] = "run" /\ b \notin dir => Aged(b)
    /\ build[b] = "ok" /\ b \notin apk => Aged(b)
    /\ installed[b] # "untried" => build[b] = "ok"
    /\ installed[b] = "gone" => Aged(b)

GradleInv == GradleTypes /\ \A b \in Build : BuildKept(b)

(* What the constants of the builds are.                                    *)
LEMMA GradleBounds == NoBuild \notin Build /\ MaxAge \in Nat /\ MaxTimeout \in Nat /\ MaxDocker \in Nat
<1>1. Gradle!GradleAssumption
  BY PodAgentsAssumption
<1> QED BY <1>1 DEF Gradle!GradleAssumption

(* /build up to the runner, and /install.                                   *)
LEMMA GradlePrepares ==
  ASSUME GradleInv, NEW b \in Build,
         \/ Gradle!MakeDirs(b) \/ Gradle!PrepFails(b) \/ Gradle!Download(b) \/ Gradle!Unpack(b)
         \/ Gradle!RunnerFails(b) \/ Gradle!Report(b) \/ Gradle!Install(b) \/ Gradle!GradleWrites(b)
  PROVE  GradleInv'
<1> USE GradleBounds DEF GradleInv, GradleTypes, BuildKept, Aged, Gradle!Goes, Gradle!processes
<1>1. CASE Gradle!MakeDirs(b)
  BY <1>1 DEF Gradle!MakeDirs
<1>2. CASE Gradle!PrepFails(b)
  BY <1>2 DEF Gradle!PrepFails
<1>3. CASE Gradle!Download(b)
  BY <1>3 DEF Gradle!Download
<1>4. CASE Gradle!Unpack(b)
  BY <1>4 DEF Gradle!Unpack, Gradle!Stale
<1>5. CASE Gradle!RunnerFails(b)
  BY <1>5 DEF Gradle!RunnerFails
<1>6. CASE Gradle!Report(b)
  BY <1>6 DEF Gradle!Report
<1>7. CASE Gradle!Install(b)
  BY <1>7 DEF Gradle!Install
<1>8. CASE Gradle!GradleWrites(b)
  BY <1>8 DEF Gradle!GradleWrites
<1> QED BY <1>1, <1>2, <1>3, <1>4, <1>5, <1>6, <1>7, <1>8

(* A Gradle begins: in the builder only when nobody holds its lock.         *)
LEMMA GradleBegins ==
  ASSUME GradleInv, NEW b \in Build, NEW timeout \in Nat, Gradle!Begins(b, timeout),
         \/ backend = "sidecar" /\ gate = NoBuild /\ gate' = b /\ timeout <= MaxTimeout
         \/ backend = "docker" /\ gate' = gate
  PROVE  GradleInv'
<1>1. /\ build[b] = "ask" /\ build' = [build EXCEPT ![b] = "run"] /\ b \in dir
      /\ deadline' = [deadline EXCEPT ![b] = now + timeout] /\ waited' = [waited EXCEPT ![b] = now - mtime[b]]
      /\ shell' = shell \cup {b} /\ children' = children \cup {b}
      /\ UNCHANGED <<backend, now, dir, mtime, apk, good, installed>>
  BY DEF Gradle!Begins, Gradle!Goes
<1>2. mtime[b] \in Nat /\ mtime[b] <= now /\ now \in Nat
  BY DEF GradleInv, GradleTypes, BuildKept
<1>3. GradleTypes'
  <2>1. now + timeout \in Nat /\ now - mtime[b] \in Nat
    BY <1>2
  <2> QED BY <1>1, <2>1 DEF GradleInv, GradleTypes
<1>4. BuildKept(b)'
  <2>1. /\ build'[b] = "run" /\ deadline'[b] = now + timeout /\ waited'[b] = now - mtime[b]
        /\ installed[b] = "untried"
    BY <1>1 DEF GradleInv, GradleTypes, BuildKept
  <2> QED BY <1>1, <1>2, <2>1, GradleBounds DEF BuildKept, Aged
<1>5. ASSUME NEW c \in Build \ {b} PROVE BuildKept(c)'
  <2>1. /\ build'[c] = build[c] /\ deadline'[c] = deadline[c] /\ waited'[c] = waited[c]
        /\ c \in shell' \cup children' <=> c \in shell \cup children
    BY <1>1 DEF GradleInv, GradleTypes
  <2>2. BuildKept(c)
    BY DEF GradleInv
  <2> QED BY <1>1, <2>1, <2>2, GradleBounds DEF BuildKept, Aged
<1> QED BY <1>3, <1>4, <1>5 DEF GradleInv

(* A Gradle ends, in the builder or a container.                            *)
LEMMA GradleEnds ==
  ASSUME GradleInv, NEW b \in Build,
         \/ Gradle!KillGroup(b) \/ Gradle!Release(b) \/ Gradle!RemoveContainer(b)
         \/ \E ok \in BOOLEAN : Gradle!GradleExits(b, ok)
  PROVE  GradleInv'
<1> USE DEF GradleInv, GradleTypes, BuildKept, Aged, Gradle!Goes, Gradle!Ends, Gradle!Over
<1>1. CASE Gradle!KillGroup(b)
  BY <1>1 DEF Gradle!KillGroup
<1>2. CASE Gradle!Release(b)
  BY <1>2 DEF Gradle!Release
<1>3. CASE Gradle!RemoveContainer(b)
  BY <1>3 DEF Gradle!RemoveContainer
<1>4. ASSUME NEW ok \in BOOLEAN, Gradle!GradleExits(b, ok) PROVE GradleInv'
  BY <1>4 DEF Gradle!GradleExits
<1> QED BY <1>1, <1>2, <1>3, <1>4

(* One Gradle at a time in a Pod (src/device_agent/builder.py), and         *)
(* _prune_builds of the agent spares those that run, for any number of      *)
(* builds: if no build of the builder may take longer than a directory is   *)
(* kept, as MAX_SIDECAR_TIMEOUT and max_age have it.                        *)
THEOREM BuildsAreApart == ASSUME MaxTimeout <= MaxAge PROVE PSpec => []BuildsApart
<1>1. PInit => GradleInv
  <2> SUFFICES ASSUME PInit PROVE GradleInv
    OBVIOUS
  <2>1. /\ backend \in {"sidecar", "docker"} /\ now = 0 /\ build = [b \in Build |-> "idle"]
        /\ dir = {} /\ apk = {} /\ shell = {} /\ children = {} /\ mtime = [b \in Build |-> 0]
        /\ deadline = [b \in Build |-> 0] /\ waited = [b \in Build |-> 0]
        /\ installed = [b \in Build |-> "untried"]
    BY DEF PInit, Gradle!Init
  <2> QED BY <2>1 DEF GradleInv, GradleTypes, BuildKept
<1>2. GradleInv /\ [Gradle!Next]_gradleVars => GradleInv'
  <2> SUFFICES ASSUME GradleInv, [Gradle!Next]_gradleVars PROVE GradleInv'
    OBVIOUS
  <2>1. CASE UNCHANGED gradleVars
    BY <2>1 DEF gradleVars, GradleInv, GradleTypes, BuildKept, Aged
  <2>2. CASE Gradle!Tick
    BY <2>2, GradleBounds DEF Gradle!Tick, Gradle!processes, GradleInv, GradleTypes, BuildKept, Aged
  <2>3. ASSUME NEW b \in Build, NEW timeout \in 1..MaxTimeout, Gradle!RunBuild(b, timeout) PROVE GradleInv'
    BY <2>3, GradleBegins, GradleBounds DEF Gradle!RunBuild, Gradle!Free
  <2>4. ASSUME NEW b \in Build, NEW timeout \in 1..MaxDocker, Gradle!RunContainer(b, timeout) PROVE GradleInv'
    BY <2>4, GradleBegins, GradleBounds DEF Gradle!RunContainer
  <2> QED BY <2>1, <2>2, <2>3, <2>4, GradlePrepares, GradleEnds DEF Gradle!Next, Gradle!Step
<1>3. GradleInv => BuildsApart
  <2> SUFFICES ASSUME GradleInv PROVE BuildsApart
    OBVIOUS
  <2>1. Gradle!OneGradle
    BY DEF GradleInv, GradleTypes, BuildKept, Gradle!OneGradle
  <2>2. ASSUME NEW b \in Build, backend = "sidecar", b \in shell, b \notin dir
        PROVE  now > deadline[b] - waited[b]
    <3>1. now - mtime[b] > MaxAge /\ deadline[b] <= mtime[b] + waited[b] + MaxTimeout
      BY <2>2 DEF GradleInv, BuildKept, Aged
    <3>2. now \in Nat /\ mtime[b] \in Nat /\ deadline[b] \in Nat /\ waited[b] \in Nat
      BY DEF GradleInv, GradleTypes
    <3> QED BY <3>1, <3>2, GradleBounds
  <2>3. Gradle!PruneSparesRunning
    BY <2>2 DEF GradleInv, BuildKept, Aged, Gradle!PruneSparesRunning
  <2> QED BY <2>1, <2>3 DEF BuildsApart
<1> QED BY <1>1, <1>2, <1>3, GradleStep, PTL DEF PSpec

-----------------------------------------------------------------------------
(* The files: a call that nobody disturbed has its own directory in the     *)
(* archive it reads, then in what it read, then, file after file, in the    *)
(* destination.                                                            *)

Version == [File -> Nat]
Progress == [pc : {"idle", "tarred", "clean", "fetch", "check", "extract", "done", "failed", "refused"},
             dst : Dest, clean : BOOLEAN, bad : BOOLEAN, snap : Version, left : SUBSET File]

FilesTypes ==
    /\ tree \in [Source -> Version] /\ archive \in Version /\ disk \in [Dest -> Version]
    /\ wanted \in [Sync -> Version] /\ edits \in Nat /\ sync \in [Sync -> Progress]
    /\ temp \subseteq Sync /\ disturbed \subseteq Sync /\ touched \subseteq Sync

Ours(s, d, w, a) ==
    /\ s.pc = "tarred" => a = w
    /\ s.pc \in {"clean", "fetch", "check", "extract", "done"} => s.snap = w
    /\ s.pc \in {"fetch", "check"} /\ s.clean => \A f \in File : d[f] = 0
    /\ s.pc \in {"extract", "done"} => \A f \in File \ s.left : w[f] # 0 => d[f] = w[f]
    /\ s.pc \in {"extract", "done"} /\ s.clean => \A f \in File : f \in s.left \/ w[f] = 0 => d[f] = 0

Orderly(r) ==
    /\ r \notin disturbed => Ours(sync[r], disk[sync[r].dst], wanted[r], archive)
    /\ sync[r].pc = "done" => sync[r].left = {}
    /\ sync[r].pc = "extract" => ~sync[r].bad
    /\ r \in touched => sync[r].pc \in {"extract", "done", "failed"}
    /\ r \in temp => sync[r].pc \in {"check", "extract"}

FilesInv == FilesTypes /\ \A r \in Sync : Orderly(r)

(* A step of one call leaves another as it was, if it has disturbed it or   *)
(* touched neither its archive nor its destination.                        *)
LEMMA FilesOthers ==
  ASSUME FilesInv, NEW q \in Sync, sync'[q] = sync[q], wanted'[q] = wanted[q],
         disturbed \subseteq disturbed',
         q \in disturbed' \/ sync[q].pc # "tarred" \/ archive' = archive,
         q \in disturbed' \/ sync[q].pc \notin {"fetch", "check", "extract", "done"}
                        \/ disk'[sync[q].dst] = disk[sync[q].dst],
         q \in touched' => q \in touched, q \in temp' => q \in temp
  PROVE  Orderly(q)'
<1>1. Orderly(q)
  BY DEF FilesInv
<1>2. q \notin disturbed' => Ours(sync[q], disk'[sync[q].dst], wanted[q], archive')
  BY <1>1 DEF Orderly, Ours
<1> QED BY <1>1, <1>2 DEF Orderly

(* The archive is made and read.                                            *)
LEMMA FilesTar ==
  ASSUME FilesInv, NEW r \in Sync, NEW s \in Source, Files!Tar(r, s)
  PROVE  FilesInv'
<1>1. /\ sync[r].pc = "idle" /\ sync' = [sync EXCEPT ![r].pc = "tarred"]
      /\ archive' = tree[s] /\ wanted' = [wanted EXCEPT ![r] = tree[s]]
      /\ disturbed' = disturbed \cup {q \in Sync : sync[q].pc = "tarred"}
      /\ UNCHANGED <<tree, edits, disk, temp, touched>>
  BY DEF Files!Tar, Files!Goes, Files!pod
<1>2. FilesTypes'
  BY <1>1 DEF FilesInv, FilesTypes, Progress
<1>3. Orderly(r)'
  BY <1>1 DEF FilesInv, FilesTypes, Progress, Orderly, Ours
<1>4. ASSUME NEW q \in Sync \ {r} PROVE Orderly(q)'
  BY <1>1, FilesOthers DEF FilesInv, FilesTypes
<1> QED BY <1>2, <1>3, <1>4 DEF FilesInv

(* A call that fails has nothing more to keep.                              *)
LEMMA FilesFails ==
  ASSUME FilesInv, NEW r \in Sync, NEW how \in {"failed", "refused"}, Files!Fails(r, how),
         r \in touched => how = "failed", temp' = temp \ {r},
         UNCHANGED <<tree, edits, archive, disk, touched, wanted, disturbed>>
  PROVE  FilesInv'
<1> DEFINE over == [Files!Idle EXCEPT !.pc = how]
<1>1. over \in Progress /\ over.pc = how
  <2>1. WorkDir \in Dest
    BY PodAgentsAssumption DEF Files!WorkspaceAssumption
  <2> QED BY <2>1 DEF Files!Idle, Files!Empty, Progress, Version
<1>2. sync' = [sync EXCEPT ![r] = over]
  BY DEF Files!Fails
<1> HIDE DEF over
<1>3. FilesTypes'
  BY <1>1, <1>2 DEF FilesInv, FilesTypes
<1>4. Orderly(r)'
  BY <1>1, <1>2 DEF FilesInv, FilesTypes, Orderly, Ours
<1>5. ASSUME NEW q \in Sync \ {r} PROVE Orderly(q)'
  BY <1>2, FilesOthers DEF FilesInv, FilesTypes
<1> QED BY <1>3, <1>4, <1>5 DEF FilesInv

(* The archive is read, or its URL cannot be had.                           *)
LEMMA FilesRead ==
  ASSUME FilesInv, NEW r \in Sync, Files!ReadArchive(r)
  PROVE  FilesInv'
<1>1. sync[r].pc = "tarred" /\ UNCHANGED <<tree, edits, archive, disk, temp, touched, wanted, disturbed>>
  BY DEF Files!ReadArchive, Files!pod
<1>2. CASE Files!Fails(r, "failed")
  BY <1>1, <1>2, FilesFails DEF FilesInv, Orderly
<1>3. CASE sync' = [sync EXCEPT ![r].snap = archive, ![r].pc = "clean"]
  <2> DEFINE read == [sync[r] EXCEPT !.snap = archive, !.pc = "clean"]
  <2>1. read \in Progress /\ read.pc = "clean" /\ read.snap = archive
    BY DEF FilesInv, FilesTypes, Progress
  <2>2. sync' = [sync EXCEPT ![r] = read]
    BY <1>3
  <2> HIDE DEF read
  <2>3. FilesTypes'
    BY <1>1, <2>1, <2>2 DEF FilesInv, FilesTypes
  <2>4. Orderly(r)'
    BY <1>1, <2>1, <2>2 DEF FilesInv, FilesTypes, Orderly, Ours
  <2>5. ASSUME NEW q \in Sync \ {r} PROVE Orderly(q)'
    BY <1>1, <2>2, FilesOthers DEF FilesInv, FilesTypes
  <2> QED BY <2>3, <2>4, <2>5 DEF FilesInv
<1> QED BY <1>2, <1>3 DEF Files!ReadArchive

(* What others write beside a call that is past its clean disturbs it.      *)
LEMMA FilesWritten ==
  ASSUME FilesInv, NEW d \in Dest, NEW fs \in SUBSET File, Files!WriteFiles(d, fs)
  PROVE  FilesInv'
<1>1. /\ edits' = edits + 1
      /\ disk' = [disk EXCEPT ![d] = [f \in File |-> IF f \in fs THEN edits + 1 ELSE @[f]]]
      /\ disturbed' = disturbed \cup Files!Others(d)
      /\ UNCHANGED <<tree, archive, sync, temp, wanted, touched>>
  BY DEF Files!WriteFiles
<1>2. FilesTypes'
  BY <1>1 DEF FilesInv, FilesTypes, Version, Files!Others
<1>3. ASSUME NEW q \in Sync PROVE Orderly(q)'
  BY <1>1, FilesOthers DEF FilesInv, FilesTypes, Files!Others
<1> QED BY <1>2, <1>3 DEF FilesInv

(* The destination is emptied, or not.                                      *)
LEMMA FilesCleaned ==
  ASSUME FilesInv, NEW r \in Sync, NEW d \in Dest, NEW clean \in BOOLEAN, Files!Clean(r, d, clean)
  PROVE  FilesInv'
<1> DEFINE emptied == Files!Cleans(d, clean)
<1>1. /\ sync[r].pc = "clean" /\ emptied \in BOOLEAN
      /\ sync' = [sync EXCEPT ![r].pc = "fetch", ![r].dst = d, ![r].clean = emptied]
      /\ emptied => disk' = [disk EXCEPT ![d] = [f \in File |-> 0]] /\ disturbed' = disturbed \cup Files!Others(d)
      /\ ~emptied => UNCHANGED <<disk, disturbed>>
      /\ UNCHANGED <<tree, edits, archive, temp, wanted, touched>>
  BY DEF Files!Clean, Files!Cleans, Files!Empty
<1> HIDE DEF emptied
<1> DEFINE new == [sync[r] EXCEPT !.pc = "fetch", !.dst = d, !.clean = emptied]
<1>2. /\ new \in Progress /\ new.pc = "fetch" /\ new.dst = d /\ new.clean = emptied
      /\ new.snap = sync[r].snap /\ new.bad = sync[r].bad
  <2>1. sync[r] \in Progress
    BY DEF FilesInv, FilesTypes
  <2>2. emptied \in BOOLEAN /\ d \in Dest
    BY <1>1
  <2> QED BY ONLY <2>1, <2>2 DEF Progress
<1>3. sync' = [sync EXCEPT ![r] = new]
  BY <1>1
<1> HIDE DEF new
<1>4. FilesTypes'
  <2>1. [f \in File |-> 0] \in Version
    BY DEF Version
  <2>2. disk' \in [Dest -> Version]
    BY <1>1, <2>1 DEF FilesInv, FilesTypes
  <2>3. disturbed' \subseteq Sync
    BY <1>1 DEF FilesInv, FilesTypes, Files!Others
  <2>4. FilesTypes /\ new \in Progress /\ UNCHANGED <<tree, edits, archive, temp, wanted, touched>>
    BY <1>1, <1>2 DEF FilesInv
  <2> QED BY ONLY <1>3, <2>2, <2>3, <2>4, r \in Sync DEF FilesTypes
<1>5. Orderly(r)'
  <2>1. r \notin disturbed' => r \notin disturbed /\ (emptied => \A f \in File : disk'[d][f] = 0)
    BY <1>1 DEF FilesInv, FilesTypes
  <2>2. sync'[r] = new /\ Orderly(r)
    BY <1>3 DEF FilesInv, FilesTypes
  <2> QED BY <1>1, <1>2, <2>1, <2>2 DEF Orderly, Ours
<1>6. ASSUME NEW q \in Sync \ {r} PROVE Orderly(q)'
  <2>1. CASE emptied
    <3>1. disk'[sync[q].dst] = disk[sync[q].dst] \/ sync[q].dst = d
      <4>1. sync[q].dst \in Dest
        BY DEF FilesInv, FilesTypes, Progress
      <4>2. disk' = [disk EXCEPT ![d] = [f \in File |-> 0]] /\ DOMAIN disk = Dest
        BY <1>1, <2>1 DEF FilesInv, FilesTypes
      <4> QED BY ONLY <4>1, <4>2
    <3>2. sync'[q] = sync[q]
      BY <1>3 DEF FilesInv, FilesTypes
    <3>3. /\ disturbed' = disturbed \cup Files!Others(d)
          /\ UNCHANGED <<archive, temp, wanted, touched>>
      BY <1>1, <2>1
    <3> QED BY ONLY FilesInv, q \in Sync, <3>1, <3>2, <3>3, FilesOthers DEF Files!Others
  <2>2. CASE ~emptied
    <3>1. sync'[q] = sync[q]
      BY <1>3 DEF FilesInv, FilesTypes
    <3>2. UNCHANGED <<archive, disk, disturbed, temp, wanted, touched>>
      BY <1>1, <2>2
    <3> QED BY ONLY FilesInv, q \in Sync, <3>1, <3>2, FilesOthers
  <2> QED BY <2>1, <2>2
<1> QED BY <1>4, <1>5, <1>6 DEF FilesInv

(* The archive is fetched, or cannot be.                                    *)
LEMMA FilesFetched ==
  ASSUME FilesInv, NEW r \in Sync, NEW ok \in BOOLEAN, Files!Download(r, ok)
  PROVE  FilesInv'
<1>1. /\ sync[r].pc = "fetch" /\ temp' = (IF ok THEN temp \cup {r} ELSE temp)
      /\ UNCHANGED <<tree, edits, archive, disk, touched, wanted, disturbed>>
  BY DEF Files!Download
<1>2. CASE ~ok
  <2>1. temp' = temp \ {r} /\ r \notin touched
    BY <1>1, <1>2 DEF FilesInv, Orderly
  <2>2. Files!Fails(r, "failed")
    BY <1>2 DEF Files!Download
  <2> QED BY <1>1, <2>1, <2>2, FilesFails
<1>3. CASE ok
  <2> DEFINE new == [sync[r] EXCEPT !.pc = "check"]
  <2>1. /\ new \in Progress /\ new.pc = "check" /\ new.dst = sync[r].dst /\ new.clean = sync[r].clean
        /\ new.snap = sync[r].snap
    BY DEF FilesInv, FilesTypes, Progress
  <2>2. sync' = [sync EXCEPT ![r] = new]
    BY <1>3 DEF Files!Download, Files!Goes
  <2> HIDE DEF new
  <2>3. FilesTypes'
    BY <1>1, <1>3, <2>1, <2>2 DEF FilesInv, FilesTypes
  <2>4. Orderly(r)'
    BY <1>1, <2>1, <2>2 DEF FilesInv, FilesTypes, Orderly, Ours
  <2>5. ASSUME NEW q \in Sync \ {r} PROVE Orderly(q)'
    BY <1>1, <1>3, <2>2, FilesOthers DEF FilesInv, FilesTypes
  <2> QED BY <2>3, <2>4, <2>5 DEF FilesInv
<1> QED BY <1>2, <1>3

(* Its members are looked at: what is refused has written nothing.          *)
LEMMA FilesChecked ==
  ASSUME FilesInv, NEW r \in Sync, NEW bad \in BOOLEAN, Files!Check(r, bad)
  PROVE  FilesInv'
<1>1. sync[r].pc = "check" /\ UNCHANGED <<tree, edits, archive, disk, touched, wanted, disturbed>>
  BY DEF Files!Check
<1>2. CASE bad
  <2>1. r \notin touched
    BY <1>1 DEF FilesInv, Orderly
  <2>2. Files!Fails(r, "refused") /\ temp' = temp \ {r}
    BY <1>2 DEF Files!Check, Files!Accepted
  <2> QED BY <1>1, <2>1, <2>2, FilesFails
<1>3. CASE ~bad
  <2> DEFINE members == {f \in File : sync[r].snap[f] # 0}
             new == [sync[r] EXCEPT !.pc = "extract", !.bad = FALSE, !.left = members]
  <2>1. sync' = [sync EXCEPT ![r] = new] /\ temp' = temp
    <3>1. bad = FALSE
      BY <1>3
    <3> QED BY <1>3, <3>1 DEF Files!Check, Files!Accepted
  <2>2. /\ new \in Progress /\ new.pc = "extract" /\ new.dst = sync[r].dst /\ new.clean = sync[r].clean
        /\ new.snap = sync[r].snap /\ new.left = members /\ ~new.bad
    <3>1. sync[r] \in Progress /\ members \in SUBSET File
      BY DEF FilesInv, FilesTypes
    <3> HIDE DEF members
    <3> QED BY ONLY <3>1 DEF Progress
  <2> HIDE DEF new
  <2>3. FilesTypes'
    BY <1>1, <2>1, <2>2 DEF FilesInv, FilesTypes
  <2>4. Orderly(r)'
    <3>1. sync'[r] = new /\ Orderly(r)
      BY <2>1 DEF FilesInv, FilesTypes
    <3> QED BY <1>1, <2>1, <2>2, <3>1 DEF FilesInv, FilesTypes, Orderly, Ours
  <2>5. ASSUME NEW q \in Sync \ {r} PROVE Orderly(q)'
    BY <1>1, <2>1, FilesOthers DEF FilesInv, FilesTypes
  <2> QED BY <2>3, <2>4, <2>5 DEF FilesInv
<1> QED BY <1>2, <1>3

(* A member is written, which disturbs the other calls of the destination.  *)
LEMMA FilesExtracted ==
  ASSUME FilesInv, NEW r \in Sync, NEW f \in File, Files!Extract(r, f)
  PROVE  FilesInv'
<1> DEFINE new == [sync[r] EXCEPT !.left = @ \ {f}]
           dst == sync[r].dst
<1>1. /\ sync[r].pc = "extract" /\ f \in sync[r].left /\ sync' = [sync EXCEPT ![r] = new]
      /\ disk' = [disk EXCEPT ![dst][f] = sync[r].snap[f]] /\ touched' = touched \cup {r}
      /\ disturbed' = disturbed \cup (Files!Others(dst) \ {r})
      /\ UNCHANGED <<tree, edits, archive, temp, wanted>>
  BY DEF Files!Extract
<1>2. /\ new \in Progress /\ new.pc = "extract" /\ new.dst = dst /\ new.clean = sync[r].clean
      /\ new.snap = sync[r].snap /\ new.bad = sync[r].bad /\ new.left = sync[r].left \ {f}
      /\ dst \in Dest /\ sync[r].snap \in Version
  BY <1>1 DEF FilesInv, FilesTypes, Progress
<1> HIDE DEF new, dst
<1>3. FilesTypes'
  BY <1>1, <1>2 DEF FilesInv, FilesTypes, Version, Files!Others
<1>4. Orderly(r)'
  <2>1. sync'[r] = new /\ Orderly(r) /\ wanted' = wanted
    BY <1>1 DEF FilesInv, FilesTypes
  <2>2. /\ \A g \in File : disk'[dst][g] = (IF g = f THEN sync[r].snap[f] ELSE disk[dst][g])
        /\ r \notin disturbed' => r \notin disturbed
    BY <1>1, <1>2 DEF FilesInv, FilesTypes, Version
  <2>3. r \notin disturbed' => Ours(new, disk'[dst], wanted[r], archive')
    BY <1>1, <1>2, <2>1, <2>2 DEF Orderly, Ours, dst
  <2> QED BY <1>1, <1>2, <2>1, <2>3 DEF Orderly
<1>5. ASSUME NEW q \in Sync \ {r} PROVE Orderly(q)'
  <2>1. disk'[sync[q].dst] = disk[sync[q].dst] \/ sync[q].dst = dst
    BY <1>1 DEF FilesInv, FilesTypes
  <2> QED BY <1>1, <2>1, FilesOthers DEF FilesInv, FilesTypes, Files!Others
<1> QED BY <1>3, <1>4, <1>5 DEF FilesInv

(* The call answers when no member is left.                                 *)
LEMMA FilesAnswered ==
  ASSUME FilesInv, NEW r \in Sync, Files!Answer(r)
  PROVE  FilesInv'
<1> DEFINE new == [sync[r] EXCEPT !.pc = "done"]
<1>1. /\ sync[r].pc = "extract" /\ sync[r].left = {} /\ sync' = [sync EXCEPT ![r] = new] /\ temp' = temp \ {r}
      /\ UNCHANGED <<tree, edits, archive, disk, touched, wanted, disturbed>>
  BY DEF Files!Answer, Files!Goes
<1>2. /\ new \in Progress /\ new.pc = "done" /\ new.dst = sync[r].dst /\ new.clean = sync[r].clean
      /\ new.snap = sync[r].snap /\ new.left = {}
  BY <1>1 DEF FilesInv, FilesTypes, Progress
<1> HIDE DEF new
<1>3. FilesTypes'
  BY <1>1, <1>2 DEF FilesInv, FilesTypes
<1>4. Orderly(r)'
  BY <1>1, <1>2 DEF FilesInv, FilesTypes, Orderly, Ours
<1>5. ASSUME NEW q \in Sync \ {r} PROVE Orderly(q)'
  BY <1>1, FilesOthers DEF FilesInv, FilesTypes
<1> QED BY <1>3, <1>4, <1>5 DEF FilesInv

(* sync_workspace_to_workload of src/cwe/session.py and fetch of the        *)
(* workload agent: whoever has answered, and was not disturbed, has put     *)
(* exactly its own directory into the Pod; a refused archive wrote nothing  *)
(* (_safe_extract), for any number of calls, directories and files.         *)
THEOREM SyncedFilesAreExact == PSpec => []SyncExact
<1>1. PInit => FilesInv
  <2> SUFFICES ASSUME PInit PROVE FilesInv
    OBVIOUS
  <2>1. /\ edits = 1 /\ archive = [f \in File |-> 0] /\ tree = [s \in Source |-> [f \in File |-> 1]]
        /\ disk = [d \in Dest |-> [f \in File |-> 0]] /\ sync = [r \in Sync |-> Files!Idle]
        /\ wanted = [r \in Sync |-> [f \in File |-> 0]] /\ temp = {} /\ disturbed = {} /\ touched = {}
    BY DEF PInit, Files!Init, Files!Empty
  <2>2. Files!Idle \in Progress /\ Files!Idle.pc = "idle"
    <3>1. WorkDir \in Dest
      BY PodAgentsAssumption DEF Files!WorkspaceAssumption
    <3> QED BY <3>1 DEF Files!Idle, Files!Empty, Progress, Version
  <2>3. FilesTypes
    BY <2>1, <2>2 DEF FilesTypes, Version
  <2> QED BY <2>1, <2>2, <2>3 DEF FilesInv, Orderly, Ours
<1>2. FilesInv /\ [Files!Next]_filesVars => FilesInv'
  <2> SUFFICES ASSUME FilesInv, [Files!Next]_filesVars PROVE FilesInv'
    OBVIOUS
  <2>1. CASE UNCHANGED filesVars
    BY <2>1 DEF filesVars, FilesInv, FilesTypes, Orderly, Ours
  <2>2. ASSUME NEW s \in Source, NEW f \in File, Files!Edit(s, f) PROVE FilesInv'
    <3>1. /\ edits' = edits + 1
          /\ tree' = [tree EXCEPT ![s][f] = edits + 1] \/ tree' = [tree EXCEPT ![s][f] = 0]
          /\ UNCHANGED <<archive, disk, temp, touched, sync, wanted, disturbed>>
      BY <2>2 DEF Files!Edit, Files!pod
    <3>2. tree' \in [Source -> Version]
      <4>1. edits + 1 \in Nat
        BY DEF FilesInv, FilesTypes
      <4> QED BY <3>1, <4>1 DEF FilesInv, FilesTypes, Version
    <3>4. FilesTypes'
      BY <3>1, <3>2 DEF FilesInv, FilesTypes
    <3>3. ASSUME NEW q \in Sync PROVE Orderly(q)'
      BY <3>1, FilesOthers
    <3> QED BY <3>3, <3>4 DEF FilesInv
  <2>3. ASSUME NEW r \in Sync, Files!ExtractFails(r) PROVE FilesInv'
    <3>1. /\ Files!Fails(r, "failed") /\ temp' = temp \ {r}
          /\ UNCHANGED <<tree, edits, archive, disk, touched, wanted, disturbed>>
      BY <2>3 DEF Files!ExtractFails, FilesInv, Orderly
    <3> QED BY <3>1, FilesFails
  <2> QED BY <2>1, <2>2, <2>3, FilesTar, FilesRead, FilesCleaned, FilesFetched, FilesChecked, FilesExtracted,
             FilesAnswered, FilesWritten DEF Files!Next
<1>3. FilesInv => SyncExact
  <2> SUFFICES ASSUME FilesInv PROVE SyncExact
    OBVIOUS
  <2>1. Files!RefusedWritesNothing
    BY DEF FilesInv, Orderly, Files!RefusedWritesNothing
  <2>2. ASSUME NEW r \in Sync \ disturbed, sync[r].pc = "done"
        PROVE  /\ \A f \in File : wanted[r][f] # 0 => disk[sync[r].dst][f] = wanted[r][f]
               /\ sync[r].clean => disk[sync[r].dst] = wanted[r]
    <3>1. Ours(sync[r], disk[sync[r].dst], wanted[r], archive) /\ sync[r].left = {}
      BY <2>2 DEF FilesInv, Orderly
    <3>2. wanted[r] \in Version /\ disk[sync[r].dst] \in Version
      <4>1. sync[r] \in Progress
        BY DEF FilesInv, FilesTypes
      <4>2. sync[r].dst \in Dest
        BY <4>1 DEF Progress
      <4> QED BY <4>2 DEF FilesInv, FilesTypes
    <3>3. \A f \in File : wanted[r][f] # 0 => disk[sync[r].dst][f] = wanted[r][f]
      BY <2>2, <3>1 DEF Ours
    <3>4. sync[r].clean => \A f \in File : disk[sync[r].dst][f] = wanted[r][f]
      BY <2>2, <3>1, <3>3 DEF Ours
    <3> QED BY <3>2, <3>3, <3>4 DEF Version
  <2> QED BY <2>1, <2>2 DEF SyncExact, Files!SyncExact
<1> QED BY <1>1, <1>2, <1>3, FilesStep, PTL DEF PSpec

-----------------------------------------------------------------------------
(* The types of all that runs beside /exec.  Those above are wider, as the  *)
(* bounds of the model are of no matter there.                              *)

(* A step of the whole is one of /exec, or leaves it as it is. *)
LEMMA ExecStep == [PNext]_PVars => [Next]_vars
  BY DEF PNext, PVars

(* The types of the process table, by the requests that it serves. *)
ProcsTyped ==
    /\ Procs!TypeOK
    /\ stopper \in [Stopper -> [p : 0..started, pc : {"idle", "term", "wait", "kill", "done"}]]
    /\ reader \in [Reader -> [p : 0..started, pc : {"idle", "read", "done"}, running : BOOLEAN,
                              lines : 0..MaxOutput, cut : 0..MaxOutput]]
    /\ \A t \in Reader : reader[t].pc # "idle" => reader[t].p # 0

(* A process more: all that was said of the others still holds. *)
LEMMA TypedStart == ASSUME ProcsTyped, NEW n \in Name, Procs!Start(n) PROVE ProcsTyped'
<1>1. /\ started < MaxProc /\ started' = started + 1
      /\ procs' = [procs EXCEPT ![n] = started + 1]
      /\ leader' = leader \cup {started + 1} /\ rest' = rest \cup {started + 1}
      /\ UNCHANGED <<log, wrote, stopper, reader>>
  BY DEF Procs!Start
<1>2. nameOf' = [p \in 1..(started + 1) |-> IF p = started + 1 THEN n ELSE nameOf[p]]
  BY <1>1 DEF Procs!Start
<1>3. started \in Nat /\ MaxProc \in Nat /\ started' \in 0..MaxProc
  BY <1>1, PodAgentsAssumption DEF ProcsTyped, Procs!TypeOK, Procs!ProcessAssumption
<1>4. 0..started \subseteq 0..started' /\ 1..started \subseteq 1..started' /\ started + 1 \in 1..started'
  BY <1>1, <1>3
<1>5. procs' \in [Name -> 0..started'] /\ leader' \subseteq 1..started' /\ rest' \subseteq 1..started'
  BY <1>1, <1>4 DEF ProcsTyped, Procs!TypeOK
<1>6. ASSUME NEW p \in 1..started' PROVE nameOf'[p] \in Name
  <2>1. p = started + 1 \/ p \in 1..started
    BY <1>1, <1>3
  <2>. QED
    BY <1>1, <1>2, <2>1 DEF ProcsTyped, Procs!TypeOK
<1>7. /\ stopper' \in [Stopper -> [p : 0..started', pc : {"idle", "term", "wait", "kill", "done"}]]
      /\ reader' \in [Reader -> [p : 0..started', pc : {"idle", "read", "done"}, running : BOOLEAN,
                                 lines : 0..MaxOutput, cut : 0..MaxOutput]]
  BY <1>1, <1>4 DEF ProcsTyped
<1>. QED
  BY <1>1, <1>3, <1>5, <1>6, <1>7 DEF ProcsTyped, Procs!TypeOK

(* A shell writes a line or ends. *)
LEMMA TypedRun ==
  ASSUME ProcsTyped, NEW p \in Procs!Proc, Procs!Write(p) \/ Procs!LeaderExits(p) \/ Procs!RestExits(p)
  PROVE  ProcsTyped'
<1>1. CASE Procs!Write(p)
  <2>1. /\ p \in 1..started /\ log[nameOf[p]] < MaxOutput
        /\ log' = [log EXCEPT ![nameOf[p]] = log[nameOf[p]] + 1]
        /\ UNCHANGED <<procs, nameOf, started, leader, rest, stopper, reader>>
    BY <1>1 DEF Procs!Write, Procs!table
  <2>2. nameOf[p] \in Name /\ MaxOutput \in Nat
    BY <2>1, PodAgentsAssumption DEF ProcsTyped, Procs!TypeOK, Procs!ProcessAssumption
  <2>3. log[nameOf[p]] + 1 \in 0..MaxOutput
    BY <2>1, <2>2 DEF ProcsTyped, Procs!TypeOK
  <2>4. log' \in [Name -> 0..MaxOutput] /\ log'[nameOf[p]] \in 0..MaxOutput
    BY <2>1, <2>2, <2>3 DEF ProcsTyped, Procs!TypeOK
  <2>5. wrote' = [wrote EXCEPT ![p] = log'[nameOf[p]]] \/ wrote' = wrote
    BY <1>1 DEF Procs!Write
  <2>6. wrote' \in [Procs!Proc -> 0..MaxOutput]
    BY <2>4, <2>5 DEF ProcsTyped, Procs!TypeOK
  <2>. QED
    BY <2>1, <2>4, <2>6 DEF ProcsTyped, Procs!TypeOK
<1>2. CASE Procs!LeaderExits(p) \/ Procs!RestExits(p)
  BY <1>2 DEF Procs!LeaderExits, Procs!RestExits, Procs!table, ProcsTyped, Procs!TypeOK
<1>. QED
  BY <1>1, <1>2

(* A /stop goes on. *)
LEMMA TypedStop ==
  ASSUME ProcsTyped, NEW t \in Stopper, Procs!Serve(t) \/ \E n \in Name : Procs!LookUp(t, n)
  PROVE  ProcsTyped'
<1>1. /\ UNCHANGED <<procs, nameOf, started, log, wrote, reader>>
      /\ leader' \subseteq leader /\ rest' \subseteq rest
  BY DEF Procs!Serve, Procs!Term, Procs!Wait, Procs!Kill, Procs!Answer, Procs!LookUp, Procs!Signal,
     Procs!table, Procs!system
<1>2. \/ \E place \in {"done", "wait", "kill"} : stopper' = [stopper EXCEPT ![t].pc = place]
      \/ \E n \in Name : stopper' = [stopper EXCEPT ![t] = [p |-> procs[n], pc |-> "term"]]
      \/ stopper' = [stopper EXCEPT ![t] = Procs!NotStopping]
  BY DEF Procs!Serve, Procs!Term, Procs!Wait, Procs!Kill, Procs!Answer, Procs!LookUp, Procs!Goes
<1>3. started \in Nat /\ \A n \in Name : procs[n] \in 0..started
  BY DEF ProcsTyped, Procs!TypeOK
<1>4. stopper' \in [Stopper -> [p : 0..started, pc : {"idle", "term", "wait", "kill", "done"}]]
  BY <1>2, <1>3 DEF ProcsTyped, Procs!NotStopping
<1>. QED
  BY <1>1, <1>4 DEF ProcsTyped, Procs!TypeOK

(* A /logs goes on. *)
LEMMA TypedLog ==
  ASSUME ProcsTyped, NEW t \in Reader,
         (\E tail \in 0..MaxOutput : Procs!ReadLog(t, tail)) \/ Procs!Reply(t) \/ \E n \in Name : Procs!PollLog(t, n)
  PROVE  ProcsTyped'
<1> DEFINE Logging == [p : 0..started, pc : {"idle", "read", "done"}, running : BOOLEAN,
                       lines : 0..MaxOutput, cut : 0..MaxOutput]
<1>1. UNCHANGED <<procs, nameOf, started, leader, rest, log, wrote, stopper>>
  BY DEF Procs!ReadLog, Procs!Reply, Procs!PollLog, Procs!table, Procs!system
<1>2. started \in Nat /\ MaxOutput \in Nat /\ reader \in [Reader -> Logging]
  BY PodAgentsAssumption DEF ProcsTyped, Procs!TypeOK, Procs!ProcessAssumption
<1>3. \E r \in Logging : reader' = [reader EXCEPT ![t] = r] /\ (r.pc # "idle" => r.p # 0)
  <2>1. ASSUME NEW tail \in 0..MaxOutput, Procs!ReadLog(t, tail)
        PROVE  \E r \in Logging : reader' = [reader EXCEPT ![t] = r] /\ (r.pc # "idle" => r.p # 0)
    <3> DEFINE size == log[nameOf[reader[t].p]]
               left == IF size > tail THEN size - tail ELSE 0
               r == [reader[t] EXCEPT !.pc = "done", !.lines = size, !.cut = left]
    <3>8. reader[t] \in Logging /\ reader[t].p # 0
      BY <1>2, <2>1 DEF Procs!ReadLog, ProcsTyped
    <3>1. reader[t] \in Logging /\ reader[t].p \in 1..started
      BY ONLY <1>2, <3>8
    <3>2. size \in 0..MaxOutput
      BY <3>1 DEF ProcsTyped, Procs!TypeOK
    <3>7. left \in 0..MaxOutput
      BY <1>2, <3>2
    <3>4. reader' = [reader EXCEPT ![t] = r]
      BY <2>1 DEF Procs!ReadLog
    <3> HIDE DEF size, left
    <3>3. r \in Logging
      BY <3>1, <3>2, <3>7
    <3>5. r.p = reader[t].p
      BY <3>1
    <3>6. r.p # 0
      BY <1>2, <3>1, <3>5
    <3>. QED
      BY <3>3, <3>4, <3>6
  <2>2. CASE Procs!Reply(t)
    <3>1. Procs!NotReading \in Logging /\ Procs!NotReading.pc = "idle"
      BY <1>2 DEF Procs!NotReading
    <3>. QED
      BY <2>2, <3>1 DEF Procs!Reply
  <2>3. ASSUME NEW n \in Name, Procs!PollLog(t, n)
        PROVE  \E r \in Logging : reader' = [reader EXCEPT ![t] = r] /\ (r.pc # "idle" => r.p # 0)
    <3> DEFINE r == [p |-> procs[n], pc |-> "read", running |-> Procs!Running(n), lines |-> 0, cut |-> 0]
    <3>1. Procs!Running(n) \in BOOLEAN /\ procs[n] \in 0..started /\ procs[n] # 0
      BY <2>3 DEF Procs!Running, Procs!PollLog, ProcsTyped, Procs!TypeOK
    <3>2. r \in Logging /\ r.p # 0
      BY <1>2, <3>1
    <3>3. reader' = [reader EXCEPT ![t] = r]
      BY <2>3 DEF Procs!PollLog
    <3> HIDE DEF r
    <3>. QED
      BY <3>2, <3>3
  <2>. QED
    BY <2>1, <2>2, <2>3
<1> HIDE DEF Logging
<1>4. reader' \in [Reader -> Logging] /\ \A u \in Reader : reader'[u].pc # "idle" => reader'[u].p # 0
  <2>1. \A u \in Reader : reader[u].pc # "idle" => reader[u].p # 0
    BY DEF ProcsTyped
  <2>. QED
    BY <1>2, <1>3, <2>1
<1>5. ProcsTyped
  OBVIOUS
<1>. QED
  BY ONLY <1>1, <1>2, <1>4, <1>5 DEF ProcsTyped, Procs!TypeOK, Logging

(* The process table keeps its types. *)
LEMMA TypedAlways == PSpec => []ProcsTyped
<1>1. ASSUME PInit PROVE ProcsTyped
  <2>1. MaxProc \in Nat /\ MaxOutput \in Nat
    BY PodAgentsAssumption DEF Procs!ProcessAssumption
  <2>2. /\ started = 0 /\ leader = {} /\ rest = {}
        /\ procs = [n \in Name |-> 0] /\ log = [n \in Name |-> 0] /\ wrote = [p \in Procs!Proc |-> 0]
        /\ stopper = [t \in Stopper |-> Procs!NotStopping] /\ reader = [t \in Reader |-> Procs!NotReading]
    BY <1>1 DEF PInit, Procs!Init
  <2>3. procs \in [Name -> 0..started] /\ log \in [Name -> 0..MaxOutput]
        /\ wrote \in [Procs!Proc -> 0..MaxOutput]
    BY <2>1, <2>2
  <2>4. /\ Procs!NotStopping \in [p : 0..started, pc : {"idle", "term", "wait", "kill", "done"}]
        /\ Procs!NotReading \in [p : 0..started, pc : {"idle", "read", "done"}, running : BOOLEAN,
                                  lines : 0..MaxOutput, cut : 0..MaxOutput]
        /\ Procs!NotReading.pc = "idle"
    BY <2>1, <2>2 DEF Procs!NotStopping, Procs!NotReading
  <2>5. /\ stopper \in [Stopper -> [p : 0..started, pc : {"idle", "term", "wait", "kill", "done"}]]
        /\ reader \in [Reader -> [p : 0..started, pc : {"idle", "read", "done"}, running : BOOLEAN,
                                  lines : 0..MaxOutput, cut : 0..MaxOutput]]
        /\ \A t \in Reader : reader[t].pc # "idle" => reader[t].p # 0
    BY ONLY <2>2, <2>4
  <2>6. \A p \in 1..started : nameOf[p] \in Name
    BY <2>2
  <2>. QED
    BY <2>1, <2>2, <2>3, <2>5, <2>6 DEF ProcsTyped, Procs!TypeOK
<1>2. ProcsTyped /\ [Procs!Next]_procsVars => ProcsTyped'
  <2> SUFFICES ASSUME ProcsTyped, [Procs!Next]_procsVars PROVE ProcsTyped'
    OBVIOUS
  <2>1. CASE UNCHANGED procsVars
    BY <2>1 DEF procsVars, ProcsTyped, Procs!TypeOK
  <2>. QED
    BY <2>1, TypedStart, TypedRun, TypedStop, TypedLog DEF Procs!Next
<1>. QED
  BY <1>1, <1>2, ProcsStep, PTL DEF PSpec

(* The files: a call takes the tree of a sandbox, or one that was taken.    *)
LEMMA FilesTyped == PSpec => []Files!TypeOK
<1>1. WorkDir \in Dest /\ MaxEdits \in Nat \ {0}
  BY PodAgentsAssumption DEF Files!WorkspaceAssumption
<1> DEFINE Places == {"idle", "tarred", "clean", "fetch", "check", "extract", "done", "failed", "refused"}
           Syncing == [pc : Places, dst : Dest, clean : BOOLEAN, bad : BOOLEAN, snap : Files!Tree,
                       left : SUBSET File]
           Kept == /\ bucket \in BOOLEAN /\ tree \in [Source -> Files!Tree] /\ edits \in 1..MaxEdits
                   /\ archive \in Files!Tree /\ disk \in [Dest -> Files!Tree] /\ wanted \in [Sync -> Files!Tree]
                   /\ sync \in [Sync -> Syncing]
                   /\ temp \subseteq Sync /\ disturbed \subseteq Sync /\ touched \subseteq Sync
<1>2. Files!Empty \in Files!Tree /\ Files!Idle \in Syncing
  BY <1>1 DEF Files!Empty, Files!Tree, Files!Idle
<1>3. ASSUME PInit PROVE Kept
  <2>1. [f \in File |-> 1] \in Files!Tree
    BY <1>1 DEF Files!Tree
  <2>. QED
    BY <1>1, <1>2, <1>3, <2>1 DEF PInit, Files!Init
<1>4. Kept /\ [Files!Next]_filesVars => Kept'
  <2> SUFFICES ASSUME Kept, [Files!Next]_filesVars PROVE Kept'
    OBVIOUS
  <2>1. ASSUME NEW r \in Sync, NEW place \in Places, Files!Goes(r, place) PROVE sync' \in [Sync -> Syncing]
    BY <2>1 DEF Files!Goes
  <2>2. ASSUME NEW r \in Sync, NEW place \in Places, Files!Fails(r, place) PROVE sync' \in [Sync -> Syncing]
    <3>1. [Files!Idle EXCEPT !.pc = place] \in Syncing
      BY <1>2
    <3>. QED
      BY <2>2, <3>1 DEF Files!Fails
  <2>3. ASSUME NEW s \in Source, NEW f \in File, Files!Edit(s, f) PROVE Kept'
    <3>1. /\ edits' \in 1..MaxEdits /\ 0 \in 0..MaxEdits /\ edits' \in 0..MaxEdits
          /\ UNCHANGED <<bucket, archive, disk, temp, touched, sync, wanted, disturbed>>
      BY <1>1, <2>3 DEF Files!Edit, Files!pod
    <3>2. tree' \in [Source -> Files!Tree]
      BY <2>3, <3>1 DEF Files!Edit, Files!Tree
    <3>. QED
      BY <3>1, <3>2
  <2>4. ASSUME NEW r \in Sync, NEW s \in Source, Files!Tar(r, s) PROVE Kept'
    <3>1. sync' \in [Sync -> Syncing]
      BY <2>1, <2>4 DEF Files!Tar
    <3>. QED
      BY <2>4, <3>1 DEF Files!Tar, Files!pod
  <2>5. ASSUME NEW r \in Sync, Files!ReadArchive(r) PROVE Kept'
    <3>1. sync' \in [Sync -> Syncing]
      BY <2>2, <2>5 DEF Files!ReadArchive
    <3>. QED
      BY <2>5, <3>1 DEF Files!ReadArchive, Files!pod
  <2>6. ASSUME NEW r \in Sync, NEW d \in Dest, NEW clean \in BOOLEAN, Files!Clean(r, d, clean) PROVE Kept'
    <3>1. Files!Cleans(d, clean) \in BOOLEAN
      BY DEF Files!Cleans
    <3>4. ASSUME NEW c \in BOOLEAN,
                 sync' = [sync EXCEPT ![r].pc = "fetch", ![r].dst = d, ![r].clean = c]
          PROVE  sync' \in [Sync -> Syncing]
      <4>1. [sync[r] EXCEPT !.pc = "fetch", !.dst = d, !.clean = c] \in Syncing
        OBVIOUS
      <4>2. sync' = [sync EXCEPT ![r] = [sync[r] EXCEPT !.pc = "fetch", !.dst = d, !.clean = c]]
        BY <3>4
      <4> HIDE DEF Syncing
      <4>. QED
        BY <4>1, <4>2
    <3>5. sync' = [sync EXCEPT ![r].pc = "fetch", ![r].dst = d, ![r].clean = Files!Cleans(d, clean)]
      BY <2>6 DEF Files!Clean
    <3>2. sync' \in [Sync -> Syncing]
      BY ONLY <3>1, <3>4, <3>5
    <3>3. disk' \in [Dest -> Files!Tree] /\ disturbed' \subseteq Sync
      BY <1>2, <2>6 DEF Files!Clean, Files!Others
    <3>. QED
      BY <2>6, <3>2, <3>3 DEF Files!Clean
  <2>7. ASSUME NEW r \in Sync, NEW ok \in BOOLEAN, Files!Download(r, ok) PROVE Kept'
    <3>1. sync' \in [Sync -> Syncing]
      BY <2>1, <2>2, <2>7 DEF Files!Download
    <3>. QED
      BY <2>7, <3>1 DEF Files!Download
  <2>8. ASSUME NEW r \in Sync, NEW bad \in BOOLEAN, Files!Check(r, bad) PROVE Kept'
    <3>1. sync' \in [Sync -> Syncing]
      BY <2>2, <2>8 DEF Files!Check
    <3>. QED
      BY <2>8, <3>1 DEF Files!Check
  <2>9. ASSUME NEW r \in Sync, NEW f \in File, Files!Extract(r, f) PROVE Kept'
    <3>1. sync' \in [Sync -> Syncing]
      BY <2>9 DEF Files!Extract
    <3>2. sync[r].dst \in Dest /\ sync[r].snap[f] \in 0..MaxEdits
      BY DEF Files!Tree
    <3>3. disk' \in [Dest -> Files!Tree] /\ disturbed' \subseteq Sync /\ touched' \subseteq Sync
      BY <2>9, <3>2 DEF Files!Extract, Files!Others, Files!Tree
    <3>. QED
      BY <2>9, <3>1, <3>3 DEF Files!Extract
  <2>10. ASSUME NEW r \in Sync, Files!ExtractFails(r) PROVE Kept'
    <3>1. sync' \in [Sync -> Syncing]
      BY <2>2, <2>10 DEF Files!ExtractFails
    <3>. QED
      BY <2>10, <3>1 DEF Files!ExtractFails
  <2>11. ASSUME NEW r \in Sync, Files!Answer(r) PROVE Kept'
    <3>1. sync' \in [Sync -> Syncing]
      BY <2>1, <2>11 DEF Files!Answer
    <3>. QED
      BY <2>11, <3>1 DEF Files!Answer
  <2>12. ASSUME NEW d \in Dest, NEW fs \in SUBSET File, Files!WriteFiles(d, fs) PROVE Kept'
    <3>1. edits' \in 1..MaxEdits /\ edits' \in 0..MaxEdits
      BY <1>1, <2>12 DEF Files!WriteFiles
    <3>2. disk[d] \in Files!Tree
      OBVIOUS
    <3>3. [f \in File |-> IF f \in fs THEN edits' ELSE disk[d][f]] \in Files!Tree
      BY ONLY <3>1, <3>2 DEF Files!Tree
    <3>4. disk' \in [Dest -> Files!Tree] /\ disturbed' \subseteq Sync
      BY <2>12, <3>3 DEF Files!WriteFiles, Files!Others
    <3>. QED
      BY <2>12, <3>1, <3>4 DEF Files!WriteFiles
  <2>13. CASE UNCHANGED filesVars
    BY <2>13 DEF filesVars
  <2> HIDE DEF Kept
  <2>. QED
    BY <2>3, <2>4, <2>5, <2>6, <2>7, <2>8, <2>9, <2>10, <2>11, <2>12, <2>13 DEF Files!Next
<1>5. Kept => Files!TypeOK
  BY DEF Files!TypeOK
<1> HIDE DEF Kept
<1>. QED
  BY <1>3, <1>4, <1>5, FilesStep, PTL DEF PSpec

(* The device: no dump and no recording is of a time to come.               *)
LEMMA DeviceTyped == PSpec => []Device!TypeOK
<1>1. MaxScreen \in Nat /\ MaxRec \in Nat
  BY PodAgentsAssumption DEF Device!ScreenAssumption
<1> DEFINE Viewing == [pc : {"idle", "dump", "cat", "answered"}, since : 0..MaxScreen,
                       got : 0..MaxScreen, failed : BOOLEAN]
           Stopping == [pc : {"idle", "signal", "wait", "cat", "answered"},
                        rec : 0..MaxRec, begun : 0..MaxRec, got : 0..MaxRec]
<1>2. Device!NoUi \in Viewing /\ Device!NoStop \in Stopping
  BY <1>1 DEF Device!NoUi, Device!NoStop
<1>3. PInit => Device!TypeOK
  BY <1>1, <1>2 DEF PInit, Device!Init, Device!TypeOK
<1>4. Device!TypeOK /\ [Device!Next]_deviceVars => Device!TypeOK'
  <2> SUFFICES ASSUME Device!TypeOK, [Device!Next]_deviceVars PROVE Device!TypeOK'
    OBVIOUS
  <2>1. /\ screen \in 0..MaxScreen /\ dumped \in 0..MaxScreen /\ ui \in [Viewer -> Viewing]
        /\ recs \in 0..MaxRec /\ reg \in 0..recs /\ mp4 \in 0..recs /\ alive \subseteq 1..recs
        /\ began \subseteq 1..recs /\ late \subseteq began
        /\ stop \in [Stopper -> Stopping]
    BY DEF Device!TypeOK
  <2>2. CASE Device!Change
    BY <1>1, <2>1, <2>2 DEF Device!Change, Device!TypeOK, Device!uivars, Device!recvars
  <2>3. CASE Device!StartRec
    <3>1. /\ recs' \in 0..MaxRec /\ 1..recs \subseteq 1..recs' /\ recs' \in 1..recs' /\ recs' \in 0..recs'
      BY <1>1, <2>1, <2>3 DEF Device!StartRec
    <3>. QED
      BY <2>1, <2>3, <3>1 DEF Device!StartRec, Device!TypeOK, Device!uivars
  <2>4. ASSUME NEW r \in Viewer, Device!AskUi(r) \/ Device!CatUi(r) \/ Device!ReplyUi(r)
        PROVE  Device!TypeOK'
    <3>2. [Device!NoUi EXCEPT !.pc = "dump", !.since = screen] \in Viewing
      BY <1>2, <2>1
    <3>3. [ui[r] EXCEPT !.pc = "answered", !.got = dumped] \in Viewing
      BY <2>1
    <3>4. \E v \in Viewing : ui' = [ui EXCEPT ![r] = v]
      <4> HIDE DEF Viewing
      <4>. QED
        BY <1>2, <2>1, <2>4, <3>2, <3>3 DEF Device!AskUi, Device!CatUi, Device!ReplyUi
    <3>1. ui' \in [Viewer -> Viewing]
      <4> HIDE DEF Viewing
      <4>. QED
        BY <2>1, <3>4
    <3>. QED
      BY <2>1, <2>4, <3>1 DEF Device!AskUi, Device!CatUi, Device!ReplyUi, Device!TypeOK, Device!recvars
  <2>5. ASSUME NEW r \in Viewer, NEW ok \in BOOLEAN, Device!Dump(r, ok) PROVE Device!TypeOK'
    <3>2. ASSUME NEW v \in BOOLEAN, ui' = [ui EXCEPT ![r].pc = "cat", ![r].failed = v]
          PROVE  ui' \in [Viewer -> Viewing]
      <4>1. [ui[r] EXCEPT !.pc = "cat", !.failed = v] \in Viewing
        BY <2>1
      <4>2. ui' = [ui EXCEPT ![r] = [ui[r] EXCEPT !.pc = "cat", !.failed = v]]
        BY <3>2
      <4> HIDE DEF Viewing
      <4>. QED
        BY <2>1, <4>1, <4>2
    <3>3. (~ok) \in BOOLEAN /\ ui' = [ui EXCEPT ![r].pc = "cat", ![r].failed = ~ok]
      BY <2>5 DEF Device!Dump
    <3>1. ui' \in [Viewer -> Viewing]
      BY ONLY <3>2, <3>3
    <3>. QED
      BY <2>1, <2>5, <3>1 DEF Device!Dump, Device!TypeOK, Device!recvars
  <2>6. ASSUME NEW p \in 1..MaxRec, Device!RecEnds(p) PROVE Device!TypeOK'
    BY <2>1, <2>6 DEF Device!RecEnds, Device!TypeOK, Device!uivars
  <2>10. ASSUME NEW p \in 1..MaxRec, Device!RecBegins(p) PROVE Device!TypeOK'
    <3>1. p \in 1..recs /\ p \in 0..recs
      BY <1>1, <2>1, <2>10 DEF Device!RecBegins
    <3>2. began' = began \cup {p} /\ mp4' = p /\ late' \subseteq late \cup {p}
          /\ UNCHANGED <<screen, dumped, ui, recs, reg, alive, stop>>
      BY <2>10 DEF Device!RecBegins, Device!uivars
    <3>. QED
      BY <2>1, <3>1, <3>2 DEF Device!TypeOK
  <2>7. ASSUME NEW t \in Stopper, Device!PopRec(t) PROVE Device!TypeOK'
    <3>1. reg \in 0..MaxRec /\ 0 \in 0..recs /\ 0 \in 0..MaxRec
      BY <1>1, <2>1
    <3>2. stop' \in [Stopper -> Stopping]
      BY <2>1, <2>7, <3>1 DEF Device!PopRec
    <3>. QED
      BY <2>1, <2>7, <3>1, <3>2 DEF Device!PopRec, Device!TypeOK, Device!uivars
  <2>8. ASSUME NEW t \in Stopper,
               Device!Pkill(t) \/ Device!WaitRec(t) \/ Device!CatRec(t) \/ Device!ReplyRec(t)
        PROVE  Device!TypeOK'
    <3>1. mp4 \in 0..MaxRec
      BY <1>1, <2>1
    <3>2. stop' \in [Stopper -> Stopping]
      BY <1>2, <2>1, <2>8, <3>1 DEF Device!Pkill, Device!WaitRec, Device!CatRec, Device!ReplyRec
    <3>. QED
      BY <2>1, <2>8, <3>2
      DEF Device!Pkill, Device!WaitRec, Device!CatRec, Device!ReplyRec, Device!TypeOK, Device!uivars
  <2>9. CASE UNCHANGED deviceVars
    BY <2>9 DEF deviceVars, Device!TypeOK
  <2>. QED
    BY <2>2, <2>3, <2>4, <2>5, <2>6, <2>7, <2>8, <2>9, <2>10
    DEF Device!Next, Device!UiNext, Device!RecNext
<1>. QED
  BY <1>3, <1>4, DeviceStep, PTL DEF PSpec

(* The builds: no directory was written in a time to come.                  *)
GradleTyped ==
    /\ backend \in {"sidecar", "docker"} /\ now \in 0..MaxTime
    /\ build \in [Build -> {"idle", "prep", "fetched", "ask", "run", "killed", "report", "ok", "failed"}]
    /\ dir \subseteq Build /\ apk \subseteq dir
    /\ shell \subseteq Build /\ children \subseteq Build /\ good \subseteq Build
    /\ mtime \in [Build -> 0..MaxTime] /\ \A b \in Build : mtime[b] <= now
    /\ deadline \in [Build -> 0..MaxTime] /\ waited \in [Build -> 0..MaxTime]
    /\ gate \in Build \cup {NoBuild} /\ installed \in [Build -> {"untried", "yes", "gone"}]

(* A build keeps it: how long it had waited is less than the time that was. *)
LEMMA GradleStarts ==
  ASSUME GradleTyped, NEW b \in Build, NEW t \in Nat, Gradle!Begins(b, t), gate' \in Build \cup {NoBuild}
  PROVE  GradleTyped'
<1>1. MaxTime \in Nat
  BY PodAgentsAssumption DEF Gradle!GradleAssumption
<1>2. now \in 0..MaxTime /\ mtime[b] \in 0..MaxTime /\ mtime[b] <= now /\ now + t <= MaxTime
  BY DEF GradleTyped, Gradle!Begins
<1>3. now - mtime[b] \in 0..MaxTime /\ now + t \in 0..MaxTime
  BY <1>1, <1>2
<1>4. deadline' \in [Build -> 0..MaxTime] /\ waited' \in [Build -> 0..MaxTime]
  BY <1>3 DEF GradleTyped, Gradle!Begins
<1>5. build' \in [Build -> {"idle", "prep", "fetched", "ask", "run", "killed", "report", "ok", "failed"}]
  BY DEF GradleTyped, Gradle!Begins, Gradle!Goes
<1>. QED
  BY <1>4, <1>5 DEF GradleTyped, Gradle!Begins

(* The whole of the agent of the Android host keeps its types.              *)
LEMMA GradleAlways == PSpec => []GradleTyped
<1>1. MaxTime \in Nat /\ MaxTimeout \in Nat /\ MaxDocker \in Nat
  BY PodAgentsAssumption DEF Gradle!GradleAssumption
<1>2. ASSUME PInit PROVE GradleTyped
  <2>1. /\ backend \in {"sidecar", "docker"} /\ now = 0 /\ build = [b \in Build |-> "idle"]
        /\ dir = {} /\ apk = {} /\ mtime = [b \in Build |-> 0]
        /\ gate = NoBuild /\ shell = {} /\ children = {} /\ good = {} /\ deadline = mtime /\ waited = mtime
        /\ installed = [b \in Build |-> "untried"]
    BY <1>2 DEF PInit, Gradle!Init
  <2>2. mtime \in [Build -> 0..MaxTime] /\ \A b \in Build : mtime[b] <= now
    BY <1>1, <2>1
  <2>. QED
    BY <1>1, <2>1, <2>2 DEF GradleTyped
<1>3. GradleTyped /\ [Gradle!Next]_gradleVars => GradleTyped'
  <2> SUFFICES ASSUME GradleTyped, [Gradle!Next]_gradleVars PROVE GradleTyped'
    OBVIOUS
  <2>1. ASSUME NEW b \in Build,
               \/ Gradle!MakeDirs(b) \/ Gradle!PrepFails(b) \/ Gradle!Download(b) \/ Gradle!Unpack(b)
               \/ Gradle!RunnerFails(b) \/ Gradle!Report(b) \/ Gradle!GradleWrites(b) \/ Gradle!Install(b)
        PROVE  GradleTyped'
    <3>1. UNCHANGED <<backend, now, gate, shell, children, good, deadline, waited>>
      BY <2>1 DEF Gradle!MakeDirs, Gradle!PrepFails, Gradle!Download, Gradle!Unpack, Gradle!RunnerFails,
         Gradle!Report, Gradle!GradleWrites, Gradle!Install, Gradle!processes
    <3>2. build' \in [Build -> {"idle", "prep", "fetched", "ask", "run", "killed", "report", "ok", "failed"}]
      BY <2>1 DEF Gradle!MakeDirs, Gradle!PrepFails, Gradle!Download, Gradle!Unpack, Gradle!RunnerFails,
         Gradle!Report, Gradle!GradleWrites, Gradle!Install, Gradle!processes, Gradle!Goes, GradleTyped
    <3>3. mtime' = mtime \/ mtime' = [mtime EXCEPT ![b] = now]
      BY <2>1 DEF Gradle!MakeDirs, Gradle!PrepFails, Gradle!Download, Gradle!Unpack, Gradle!RunnerFails,
         Gradle!Report, Gradle!GradleWrites, Gradle!Install
    <3>4. mtime' \in [Build -> 0..MaxTime] /\ \A c \in Build : mtime'[c] <= now
      BY <1>1, <3>3 DEF GradleTyped
    <3>5. dir' \subseteq Build /\ apk' \subseteq dir'
      BY <2>1 DEF Gradle!MakeDirs, Gradle!PrepFails, Gradle!Download, Gradle!Unpack, Gradle!RunnerFails,
         Gradle!Report, Gradle!GradleWrites, Gradle!Install, GradleTyped
    <3>6. installed' \in [Build -> {"untried", "yes", "gone"}]
      BY <2>1 DEF Gradle!MakeDirs, Gradle!PrepFails, Gradle!Download, Gradle!Unpack, Gradle!RunnerFails,
         Gradle!Report, Gradle!GradleWrites, Gradle!Install, GradleTyped
    <3>. QED
      BY <3>1, <3>2, <3>4, <3>5, <3>6 DEF GradleTyped
  <2>2. ASSUME NEW b \in Build, Gradle!KillGroup(b) \/ Gradle!Release(b) \/ Gradle!RemoveContainer(b)
        PROVE  GradleTyped'
    <3>1. build' \in [Build -> {"idle", "prep", "fetched", "ask", "run", "killed", "report", "ok", "failed"}]
      BY <2>2 DEF Gradle!KillGroup, Gradle!Release, Gradle!RemoveContainer, Gradle!Goes, GradleTyped
    <3>. QED
      BY <2>2, <3>1 DEF Gradle!KillGroup, Gradle!Release, Gradle!RemoveContainer, Gradle!Ends, GradleTyped
  <2>3. ASSUME NEW b \in Build, NEW ok \in BOOLEAN, Gradle!GradleExits(b, ok) PROVE GradleTyped'
    BY <2>3 DEF Gradle!GradleExits, GradleTyped
  <2>4. ASSUME NEW b \in Build, NEW t \in 1..MaxTimeout, Gradle!RunBuild(b, t) PROVE GradleTyped'
    <3>1. t \in Nat /\ Gradle!Begins(b, t) /\ gate' \in Build \cup {NoBuild}
      BY <1>1, <2>4 DEF Gradle!RunBuild
    <3>. QED
      BY <3>1, GradleStarts
  <2>5. ASSUME NEW b \in Build, NEW t \in 1..MaxDocker, Gradle!RunContainer(b, t) PROVE GradleTyped'
    <3>1. t \in Nat /\ Gradle!Begins(b, t) /\ gate' \in Build \cup {NoBuild}
      BY <1>1, <2>5 DEF Gradle!RunContainer, GradleTyped
    <3>. QED
      BY <3>1, GradleStarts
  <2>6. CASE Gradle!Tick
    <3>1. now' \in 0..MaxTime /\ \A b \in Build : mtime[b] <= now'
      BY <1>1, <2>6 DEF Gradle!Tick, GradleTyped
    <3>. QED
      BY <2>6, <3>1 DEF Gradle!Tick, Gradle!processes, GradleTyped
  <2>7. CASE UNCHANGED gradleVars
    BY <2>7 DEF gradleVars, GradleTyped
  <2>. QED
    BY <2>1, <2>2, <2>3, <2>4, <2>5, <2>6, <2>7 DEF Gradle!Next, Gradle!Step
<1>. QED
  BY <1>2, <1>3, GradleStep, PTL DEF PSpec

(* Every variable of every handler of the Pods has its type: a process that *)
(* a /stop or a /logs of the workload agent speaks of was started, a sync   *)
(* is of a tree of the sandbox, a build of the device agent is killed       *)
(* within the bound of the time, and no /ui or recording is of the future.  *)
THEOREM PodTypesAreKept == PSpec => []TypesOK
<1>1. PSpec => []TypeOK
  <2>1. PInit => TypeOK
    BY DEF PInit, Init, TypeOK, Attempt, Outcome, Answer
  <2>. QED
    BY <2>1, KeepsTypes, ExecStep, PTL DEF PSpec
<1>2. PSpec => [](focus \in Parts)
  <2>1. PInit => focus \in Parts
    BY DEF PInit
  <2>2. focus \in Parts /\ [PNext]_PVars => (focus \in Parts)'
    BY DEF PNext, PVars
  <2>. QED
    BY <2>1, <2>2, PTL DEF PSpec
<1>3. GradleTyped => Gradle!TypeOK
  BY DEF GradleTyped, Gradle!TypeOK
<1>4. ProcsTyped => Procs!TypeOK
  BY DEF ProcsTyped
<1>5. TypeOK /\ focus \in Parts /\ Gradle!TypeOK /\ Procs!TypeOK /\ Files!TypeOK /\ Device!TypeOK => TypesOK
  BY DEF TypesOK
<1>. QED
  BY <1>1, <1>2, <1>3, <1>4, <1>5, TypedAlways, FilesTyped, DeviceTyped, GradleAlways, PTL
=============================================================================
