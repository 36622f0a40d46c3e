------------------------- MODULE SessionWorkProofs -------------------------
(***************************************************************************)
(* What SessionWork's runs check of the locks, the runs of a session, the  *)
(* skills and the recording, proved for any number of threads, runs,       *)
(* writers and events: each part takes only its own steps, so an invariant *)
(* of its Next is one of WSpec.                                            *)
(***************************************************************************)
EXTENDS SessionWork, Sequences, FiniteSetTheorems, TLAPS

(* A step of the whole is one of the locks, or leaves them as they are.     *)
LEMMA LocksStep == [WNext]_<<focus, vars, hostVars, workVars>> => [Locks!Next]_lockVars
  BY DEF WNext, HNext, Work, hostVars, lockVars

(* The same of the runs ...                                                 *)
LEMMA RunsStep == [WNext]_<<focus, vars, hostVars, workVars>> => [Runs!Next]_runVars
  BY DEF WNext, HNext, Work, workVars

(* ... of the recording ...                                                 *)
LEMMA RecordingStep == [WNext]_<<focus, vars, hostVars, workVars>> => [Recording!Next]_recorderVars
  BY DEF WNext, HNext, Work, workVars

(* ... and of the skills.                                                   *)
LEMMA SkillsStep == [WNext]_<<focus, vars, hostVars, workVars>> => [Known!Next]_skillVars
  BY DEF WNext, HNext, Work, workVars

-----------------------------------------------------------------------------
(* _serialized: the entry counts exactly those who hold on to its lock.     *)

Using == {c \in Caller : caller[c].at # "outside"}

LocksTypes ==
    /\ entry \in [lock : Lock \cup {NoLock}, users : Nat]
    /\ caller \in [Caller -> [at : {"outside", "waits", "inside", "leaves"}, lock : Lock \cup {NoLock}]]

Counted == IsFiniteSet(Using) /\ entry.users = Cardinality(Using)

SameLock ==
    /\ entry.lock = NoLock => Using = {}
    /\ \A c \in Using : caller[c].lock = entry.lock

LocksInv == LocksTypes /\ Counted /\ SameLock /\ Locks!OneInside

(* A thread that leaves the map's entry to the others, or with the last of  *)
(* them takes it away, keeps the count.                                    *)
LEMMA LocksUnregister ==
  ASSUME LocksInv, NEW c \in Caller, Locks!Unregister(c)
  PROVE  LocksInv'
<1>1. caller[c].at = "leaves" /\ c \in Using
  BY DEF Locks!Unregister, Using
<1>2. caller' = [caller EXCEPT ![c] = Locks!Outside]
  BY DEF Locks!Unregister
<1>3. Using' = Using \ {c}
  BY <1>1, <1>2 DEF Using, LocksInv, LocksTypes, Locks!Outside
<1>4. IsFiniteSet(Using') /\ Cardinality(Using') = Cardinality(Using) - 1
  BY <1>1, <1>3, FS_RemoveElement DEF LocksInv, Counted
<1>5. entry' = IF entry.users - 1 = 0 THEN Locks!NoEntry ELSE [entry EXCEPT !.users = entry.users - 1]
  BY DEF Locks!Unregister, Locks!Left
<1>6. Cardinality(Using') \in Nat /\ entry.users - 1 = Cardinality(Using')
  BY <1>4, FS_CardinalityType DEF LocksInv, Counted
<1>7. LocksTypes' /\ entry'.users = Cardinality(Using')
  BY <1>2, <1>5, <1>6 DEF LocksInv, LocksTypes, Locks!NoEntry, Locks!Outside
<1>8. SameLock'
  <2>1. CASE entry.users - 1 = 0
    <3>1. Using' = {}
      BY <2>1, <1>4, <1>6, FS_EmptySet
    <3> QED BY <3>1 DEF SameLock
  <2>2. CASE entry.users - 1 # 0
    <3>1. entry'.lock = entry.lock
      BY <2>2, <1>5 DEF LocksInv, LocksTypes
    <3> QED BY <3>1, <1>1, <1>2, <1>3 DEF LocksInv, LocksTypes, SameLock, Using
  <2> QED BY <2>1, <2>2
<1>9. Locks!OneInside'
  BY <1>2 DEF LocksInv, LocksTypes, Locks!OneInside, Locks!Outside
<1> QED BY <1>4, <1>7, <1>8, <1>9 DEF LocksInv, Counted

(* A thread that comes takes the lock of the entry, or a new one if nobody  *)
(* uses it.                                                                *)
LEMMA LocksRegister ==
  ASSUME LocksInv, NEW c \in Caller, NEW l \in Lock, Locks!Register(c, l)
  PROVE  LocksInv'
<1>1. caller[c].at = "outside" /\ c \notin Using
  BY DEF Locks!Register, Locks!Outside, Using
<1>2. caller' = [caller EXCEPT ![c] = [at |-> "waits", lock |-> l]]
  BY DEF Locks!Register
<1>3. entry' = [lock |-> l, users |-> entry.users + 1]
  BY DEF Locks!Register
<1>4. Using' = Using \cup {c}
  BY <1>1, <1>2 DEF Using, LocksInv, LocksTypes
<1>5. IsFiniteSet(Using') /\ Cardinality(Using') = Cardinality(Using) + 1
  BY <1>1, <1>4, FS_AddElement DEF LocksInv, Counted
<1>6. LocksTypes' /\ Counted'
  BY <1>2, <1>3, <1>5 DEF LocksInv, LocksTypes, Counted
<1>7. SameLock'
  <2>1. entry'.lock # NoLock
    BY <1>3, SessionHostsAssumption DEF Locks!SerializedAssumption
  <2>2. entry.lock = NoLock \/ l = entry.lock
    BY DEF Locks!Register
  <2>3. ASSUME NEW d \in Using' PROVE caller'[d].lock = entry'.lock
    BY <2>2, <2>3, <1>1, <1>2, <1>3, <1>4 DEF LocksInv, LocksTypes, SameLock, Using
  <2> QED BY <2>1, <2>3 DEF SameLock
<1>8. Locks!OneInside'
  BY <1>2 DEF LocksInv, LocksTypes, Locks!OneInside
<1> QED BY <1>6, <1>7, <1>8 DEF LocksInv

(* A thread gets the lock, or lets go of it; all that use the map's entry   *)
(* use one lock, so nobody else is inside.                                 *)
LEMMA LocksMove ==
  ASSUME LocksInv, NEW c \in Caller, Locks!Enter(c) \/ Locks!Exit(c)
  PROVE  LocksInv'
<1>1. \E place \in {"inside", "leaves"} : caller' = [caller EXCEPT ![c].at = place]
  BY DEF Locks!Enter, Locks!Exit, Locks!Goes
<1>2. entry' = entry /\ caller[c].at \in {"waits", "inside"}
  BY DEF Locks!Enter, Locks!Exit
<1>3. Using' = Using
  BY <1>1, <1>2 DEF Using, LocksInv, LocksTypes
<1>4. LocksTypes' /\ Counted'
  BY <1>1, <1>2, <1>3 DEF LocksInv, LocksTypes, Counted
<1>5. SameLock'
  BY <1>1, <1>2, <1>3 DEF LocksInv, LocksTypes, SameLock, Using
<1>6. Locks!OneInside'
  <2>1. CASE Locks!Enter(c)
    <3>1. caller[c].lock = entry.lock
      BY <1>2 DEF LocksInv, SameLock, Using
    <3>2. \A d \in Caller : caller[d].at # "inside"
      BY <2>1, <3>1 DEF Locks!Enter, Locks!Held, LocksInv, SameLock, Using
    <3> QED BY <1>1, <3>2 DEF LocksInv, LocksTypes, Locks!OneInside
  <2>2. CASE Locks!Exit(c)
    BY <2>2 DEF Locks!Exit, Locks!Goes, LocksInv, LocksTypes, Locks!OneInside
  <2> QED BY <2>1, <2>2
<1> QED BY <1>4, <1>5, <1>6 DEF LocksInv

(* Nothing else keeps the count.                                            *)
LEMMA LocksAlways == WSpec => []LocksInv
<1>1. WInit => LocksInv
  <2> SUFFICES ASSUME WInit PROVE LocksInv
    OBVIOUS
  <2>1. entry = Locks!NoEntry /\ caller = [c \in Caller |-> Locks!Outside]
    BY DEF WInit, HInit, Locks!Init
  <2>2. Using = {}
    BY <2>1 DEF Using, Locks!Outside
  <2> QED BY <2>1, <2>2, FS_EmptySet
      DEF LocksInv, LocksTypes, Counted, SameLock, Using, Locks!OneInside, Locks!Outside, Locks!NoEntry
<1>2. LocksInv /\ [Locks!Next]_lockVars => LocksInv'
  <2> SUFFICES ASSUME LocksInv, [Locks!Next]_lockVars PROVE LocksInv'
    OBVIOUS
  <2>1. CASE UNCHANGED lockVars
    BY <2>1 DEF lockVars, LocksInv, LocksTypes, Counted, SameLock, Using, Locks!OneInside
  <2>2. CASE Locks!Next
    BY <2>2, LocksMove, LocksRegister, LocksUnregister DEF Locks!Next
  <2> QED BY <2>1, <2>2
<1> QED BY <1>1, <1>2, LocksStep, PTL DEF WSpec

(* "Serialize every call for one runtime session inside this process": for  *)
(* any number of threads, and whatever locks come and go.                  *)
THEOREM CallsAreOneAtATime == WSpec => []OneInside
<1>1. LocksInv => OneInside
  BY DEF LocksInv, OneInside
<1> QED BY <1>1, LocksAlways, PTL

-----------------------------------------------------------------------------
(* Skills: what is approved, in the store or on its way there, was read, or *)
(* is one of the texts that nobody meant.                                  *)

Word == [status : {"draft", "approved", "missing"}, body : Known!Body, length : 0..2]

Explained == approved \cup blended \cup carried

SkillsInv ==
    /\ skill \in Word
    /\ put \in [Known!Writer -> [step : {"idle", "open", "write", "done"}, text : Word]]
    /\ skill.status = "approved" => skill.body \in Explained
    /\ \A w \in Known!Writer : put[w].text.status = "approved" => put[w].text.body \in Explained
    /\ given \subseteq Explained

(* Drafters save drafts, but for what a description carries, and an         *)
(* approver what it has read.                                              *)
LEMMA SkillsKept == SkillsInv /\ [Known!Next]_skillVars => SkillsInv'
<1> SUFFICES ASSUME SkillsInv, [Known!Next]_skillVars PROVE SkillsInv'
  OBVIOUS
<1>1. CASE UNCHANGED skillVars
  BY <1>1 DEF skillVars, SkillsInv, Explained
<1>7. ASSUME NEW w \in Known!Writer, NEW text \in Word, put' = [put EXCEPT ![w] = [step |-> "open", text |-> text]],
             skill' = skill, given' = given, Explained \subseteq Explained',
             text.status = "approved" => text.body \in Explained'
      PROVE  SkillsInv'
  BY <1>7 DEF SkillsInv
<1>2. ASSUME NEW d \in Drafter, Known!DistillSkill(d) PROVE SkillsInv'
  <2>1. PICK carries \in BOOLEAN, length \in Known!Length :
            /\ Known!Save(d, Known!Draft(d, carries, length))
            /\ carried' = IF carries THEN carried \cup {{d}} ELSE carried
    BY <1>2 DEF Known!DistillSkill
  <2> DEFINE text == Known!Draft(d, carries, length)
  <2>2. d \in Known!Writer /\ text \in Word /\ text.body = {d} /\ (text.status = "approved" => carries)
    BY DEF Known!Writer, Known!Body, Known!Draft, Known!Length, Word
  <2>3. /\ put' = [put EXCEPT ![d] = [step |-> "open", text |-> text]]
        /\ skill' = skill /\ given' = given /\ approved' = approved /\ blended' = blended
    BY <1>2, <2>1 DEF Known!DistillSkill, Known!Save
  <2> HIDE DEF text
  <2>4. Explained \subseteq Explained' /\ (text.status = "approved" => text.body \in Explained')
    BY <2>1, <2>2, <2>3 DEF Explained
  <2> QED BY <1>7, <2>2, <2>3, <2>4
<1>3. ASSUME NEW a \in Approver, Known!Approve(a) PROVE SkillsInv'
  <2> DEFINE text == [skill EXCEPT !.status = "approved"]
  <2>1. a \in Known!Writer /\ text \in Word /\ text.body = skill.body
    BY DEF Known!Writer, SkillsInv, Word
  <2>2. /\ put' = [put EXCEPT ![a] = [step |-> "open", text |-> text]]
        /\ approved' = approved \cup {skill.body} /\ skill' = skill /\ given' = given
        /\ blended' = blended /\ carried' = carried
    BY <1>3 DEF Known!Approve, Known!Save
  <2> HIDE DEF text
  <2>3. Explained \subseteq Explained' /\ text.body \in Explained'
    BY <2>1, <2>2 DEF Explained
  <2> QED BY <1>7, <2>1, <2>2, <2>3
<1>4. ASSUME NEW w \in Known!Writer, Known!Open(w) PROVE SkillsInv'
  <2>1. Known!Empty \in Word /\ Known!Empty.status = "draft"
    BY DEF Word, Known!Body, Known!Empty
  <2> QED BY <1>4, <2>1 DEF Known!Open, SkillsInv, Explained
<1>5. ASSUME NEW w \in Known!Writer, Known!Write(w) PROVE SkillsInv'
  <2>1. put[w].text \in Word /\ skill \in Word /\ (put[w].text.status = "approved" => put[w].text.body \in Explained)
    BY DEF SkillsInv
  <2>2. put' = [put EXCEPT ![w].step = "done"] /\ UNCHANGED <<approved, given, carried>>
    BY <1>5 DEF Known!Write
  <2>3. \/ skill' = Known!Over(put[w].text) /\ blended' = blended \cup {skill'.body}
        \/ skill' = put[w].text /\ blended' = blended
    BY <1>5 DEF Known!Write
  <2>4. Known!Over(put[w].text) \in Word
    BY <2>1 DEF Known!Over, Known!Body, Word
  <2>5. Explained \subseteq Explained'
    BY <2>2, <2>3 DEF Explained
  <2>6. skill' \in Word /\ (skill'.status = "approved" => skill'.body \in Explained')
    BY <2>1, <2>3, <2>4, <2>5 DEF Explained
  <2> QED BY <2>2, <2>5, <2>6 DEF SkillsInv
<1>6. CASE Known!LoadSkill
  BY <1>6 DEF Known!LoadSkill, Known!Loadable, SkillsInv, Explained
<1> QED BY <1>1, <1>2, <1>3, <1>4, <1>5, <1>6 DEF Known!Next

(* What agents have read is accounted for, always.                          *)
LEMMA SkillsAlways == WSpec => []SkillsInv
<1>1. WInit => SkillsInv
  BY DEF WInit, Known!Init, Known!Missing, Known!Body, SkillsInv, Word, Explained
<1> QED BY <1>1, SkillsKept, SkillsStep, PTL DEF WSpec

(* "the agent reads it once a human approves it" (session.py 431): any      *)
(* other text that an agent loads was written over another at the same     *)
(* time, or is a draft whose description carries a status; for any number   *)
(* of sessions that distill and of people who approve.                     *)
THEOREM ReadIsApproved == WSpec => []AgentReadsApproved
<1>1. SkillsInv => AgentReadsApproved
  BY DEF SkillsInv, Explained, AgentReadsApproved, Known!AgentReadsApproved
<1> QED BY <1>1, SkillsAlways, PTL

-----------------------------------------------------------------------------
(* The Pods of one session: who has a live Pod holds _workload_lock and     *)
(* nobody is attached, or is the one attached.                             *)

Live == {w \in Starter : podOf[w] \in {"starting", "running"}}

PodsTypes ==
    /\ starter \in [Starter -> {"idle", "check", "begin", "pod", "up", "attach", "end", "over"}]
    /\ podOf \in [Starter -> {"none", "starting", "running", "gone", "stuck"}]
    /\ workload \in Starter \cup {NoOne}

(* The starter of a live Pod, and who may come to have one.                 *)
Placed(w) ==
    /\ starter[w] \in {"check", "begin", "pod", "up", "attach", "end"} => lock = w
    /\ starter[w] \in {"begin", "pod", "up", "attach"} => workload = NoOne
    /\ w \in Live => workload = w \/ starter[w] \in {"pod", "up", "attach"}

(* When the Pod came up after close(), the check of the status is to come   *)
(* or has stopped it.                                                      *)
TooLate(w) ==
    /\ ready = "closed" /\ starter[w] \in {"up", "over"}
    /\ starter[w] = "over" => podOf[w] \in {"gone", "stuck"}

PodsInv ==
    /\ PodsTypes
    /\ \A w \in Starter : Placed(w)
    /\ closing = "done" => ready = "closed"
    /\ early \subseteq Starter /\ \A w \in early : TooLate(w)

(* The Cardinality that DevSession was instantiated with is the library's.  *)
LEMMA RunsCardinality == \A S : Runs!Cardinality(S) = Cardinality(S)
  BY DEF Runs!Cardinality, Cardinality

(* Any two live Pods are one.                                               *)
LEMMA PodsApart == PodsInv => Runs!OnePod /\ Runs!NotLeftBehind
<1> SUFFICES ASSUME PodsInv PROVE Runs!OnePod /\ Runs!NotLeftBehind
  OBVIOUS
<1>1. ASSUME NEW v \in Live, NEW w \in Live PROVE v = w
  BY <1>1, SessionWorkAssumption DEF PodsInv, Placed, Live, Runs!SessionAssumption
<1>2. Cardinality(Live) <= 1
  <2>1. CASE Live = {}
    BY <2>1, FS_EmptySet
  <2>2. CASE Live # {}
    <3>1. PICK w \in Live : TRUE
      BY <2>2
    <3>2. Live = {w}
      BY <1>1, <3>1
    <3>3. Cardinality({w}) = 1
      BY FS_Singleton
    <3> QED BY <3>2, <3>3
  <2> QED BY <2>1, <2>2
<1>3. Runs!OnePod
  BY <1>2, RunsCardinality DEF Runs!OnePod, Live
<1>4. Runs!NotLeftBehind
  BY DEF Runs!NotLeftBehind, PodsInv, TooLate
<1> QED BY <1>3, <1>4

(* A step of start_workload() leaves the lock with one starter, and attaches *)
(* only what the lock was taken for.                                       *)
LEMMA PodsStarted ==
  ASSUME PodsInv, NEW w \in Starter, Runs!StartWorkload(w)
  PROVE  PodsInv'
<1> USE SessionWorkAssumption
    DEF Runs!SessionAssumption, PodsInv, PodsTypes, Placed, TooLate, Live, Runs!Goes, Runs!Leave, Runs!Stopped
<1>1. CASE Runs!TakeLock(w)
  BY <1>1 DEF Runs!TakeLock, Runs!session
<1>2. CASE Runs!RefuseStart(w)
  BY <1>2 DEF Runs!RefuseStart, Runs!session
<1>3. CASE Runs!ReadRun(w)
  BY <1>3 DEF Runs!ReadRun, Runs!session
<1>4. CASE Runs!BeginStart(w)
  BY <1>4 DEF Runs!BeginStart
<1>5. CASE Runs!PodUp(w)
  BY <1>5 DEF Runs!PodUp, Runs!session
<1>6. CASE Runs!PodFails(w)
  BY <1>6 DEF Runs!PodFails
<1>7. CASE Runs!CheckClosed(w)
  BY <1>7 DEF Runs!CheckClosed, Runs!session
<1>8. CASE Runs!AttachWorkload(w)
  BY <1>8 DEF Runs!AttachWorkload
<1>9. CASE Runs!EndStart(w)
  BY <1>9 DEF Runs!EndStart
<1> QED BY <1>1, <1>2, <1>3, <1>4, <1>5, <1>6, <1>7, <1>8, <1>9 DEF Runs!StartWorkload

(* close() only takes Pods away; everything else leaves them.               *)
LEMMA PodsKept == PodsInv /\ [Runs!Next]_runVars => PodsInv'
<1> SUFFICES ASSUME PodsInv, [Runs!Next]_runVars PROVE PodsInv'
  OBVIOUS
<1>1. CASE UNCHANGED runVars
  BY <1>1 DEF runVars, PodsInv, PodsTypes, Placed, TooLate, Live
<1>2. CASE Runs!CloseHosts \/ Runs!CloseStatus
  BY <1>2 DEF PodsInv, PodsTypes, Placed, TooLate, Live, Runs!CloseHosts, Runs!CloseStatus, Runs!session
<1>3. CASE UNCHANGED <<starter, podOf, workload, lock, ready, closing, early>>
  BY <1>3 DEF PodsInv, PodsTypes, Placed, TooLate, Live
<1>4. CASE Runs!BeginTask \/ Runs!Say \/ Runs!EndTask \/ Runs!Exec \/ Runs!PostRun \/ Runs!FinishRun
  BY <1>3, <1>4 DEF Runs!BeginTask, Runs!Say, Runs!EndTask, Runs!Exec, Runs!PostRun, Runs!FinishRun, Runs!podvars
<1>5. ASSUME NEW k \in Tool, Runs!Approve(k) \/ Runs!Deny(k) \/ Runs!Execute(k) \/ Runs!RecordTool(k)
      PROVE  PodsInv'
  BY <1>3, <1>5 DEF Runs!Approve, Runs!Deny, Runs!Execute, Runs!RecordTool, Runs!podvars, Runs!session
<1> QED BY <1>1, <1>2, <1>4, <1>5, PodsStarted DEF Runs!Next

(* Whoever has a live Pod holds the lock or is attached, always.            *)
LEMMA PodsAlways == WSpec => []PodsInv
<1>1. WInit => PodsInv
  BY SessionWorkAssumption
  DEF WInit, Runs!Init, PodsInv, PodsTypes, Placed, TooLate, Live, Runs!SessionAssumption
<1> QED BY <1>1, PodsKept, RunsStep, PTL DEF WSpec

(* One Pod per session, and none left behind by a close() that was over     *)
(* before it came up: for any number of calls of start_workload().          *)
THEOREM PodsOfASession == WSpec => []NotLeftBehind
<1>1. PodsInv => NotLeftBehind
  BY PodsApart DEF NotLeftBehind
<1> QED BY <1>1, PodsAlways, PTL

-----------------------------------------------------------------------------
(* The budget: what a run has beyond it are executions of the harness; and  *)
(* once the run of the task is marked as over, no call is let through any   *)
(* more, and only those that were then on their way are refused after they  *)
(* ran.  The current run never becomes that run again.                      *)

Charges == [budget : BOOLEAN, count : Nat, system : 0..MaxSystem, over : BOOLEAN]
Charge == {r \in Charges : r.count <= MaxExec + r.system}

RunsOK == runs \in Seq(Charge) /\ cur \in 0..Len(runs)

Answering == {k \in Tool : tool[k] # "idle"}

Overrun ==
    cur # 0 /\ runs[cur].budget =>
        /\ ~runs[cur].over => refused = 0
        /\ runs[cur].over => refused + Cardinality(Answering) <= Cardinality(Tool)

BudgetInv ==
    /\ RunsOK
    /\ tool \in [Tool -> {"idle", "approved", "ran"}] /\ refused \in Nat
    /\ task = "none" => refused = 0 /\ Answering = {}
    /\ refused <= Cardinality(Tool)
    /\ Overrun

(* What happens to the current run: it is over, or another without a budget *)
(* takes its place, or it is charged; ...                                  *)
Moves ==
    /\ RunsOK'
    /\ \/ cur' = 0
       \/ cur' # 0 /\ ~runs'[cur'].budget
       \/ cur' = cur /\ runs'[cur].budget = runs[cur].budget /\ runs'[cur].over = runs[cur].over

(* ... or it is marked.                                                     *)
Marks ==
    /\ RunsOK' /\ cur # 0 /\ cur' = cur /\ runs[cur].budget
    /\ runs'[cur].budget = runs[cur].budget /\ runs'[cur].over = TRUE

(* What the constants say of numbers.                                       *)
LEMMA BudgetBounds == MaxExec \in Nat /\ MaxSystem \in Nat
  BY SessionWorkAssumption DEF Runs!SessionAssumption

(* The tool calls are finitely many.                                        *)
LEMMA ToolsCounted ==
  ASSUME NEW S \in SUBSET Tool
  PROVE  /\ Cardinality(S) \in Nat /\ Cardinality(Tool) \in Nat /\ Cardinality(S) <= Cardinality(Tool)
         /\ \A k \in S : Cardinality(S \ {k}) = Cardinality(S) - 1
         /\ \A R \in SUBSET S : Cardinality(R) \in Nat /\ Cardinality(R) <= Cardinality(S)
<1>1. IsFiniteSet(Tool)
  BY SessionWorkAssumption DEF Runs!SessionAssumption, Runs!IsFiniteSet, IsFiniteSet
<1>2. IsFiniteSet(S)
  BY <1>1, FS_Subset
<1>3. \A k \in S : Cardinality(S \ {k}) = Cardinality(S) - 1
  BY <1>2, FS_RemoveElement
<1>4. \A R \in SUBSET S : IsFiniteSet(R) /\ Cardinality(R) <= Cardinality(S)
  BY <1>2, FS_Subset
<1>. QED
  BY <1>1, <1>2, <1>3, <1>4, FS_Subset, FS_CardinalityType

(* A run that begins has spent nothing.                                     *)
LEMMA NewCharge == ASSUME NEW budget \in BOOLEAN PROVE Runs!NewRun(budget) \in Charge
<1>1. Runs!NewRun(budget) \in Charges
  BY BudgetBounds DEF Charges, Runs!NewRun
<1>2. Runs!NewRun(budget).count = 0 /\ Runs!NewRun(budget).system = 0
  BY DEF Runs!NewRun
<1>. QED
  BY <1>1, <1>2, BudgetBounds DEF Charge

(* The new run is the current one.                                          *)
LEMMA RunBegun ==
  ASSUME RunsOK, NEW budget \in BOOLEAN, Runs!BeginRun(budget)
  PROVE  RunsOK' /\ cur' # 0 /\ runs'[cur'].budget = budget /\ runs'[cur'].over = FALSE
<1> DEFINE r == Runs!NewRun(budget)
<1>1. r \in Charge /\ r.budget = budget /\ r.over = FALSE
  BY NewCharge DEF Runs!NewRun
<1>2. runs' = Append(runs, r) /\ cur' = Len(runs) + 1
  BY DEF Runs!BeginRun
<1> HIDE DEF r
<1>3. RunsOK' /\ cur' # 0 /\ runs'[cur'] = r
  BY <1>1, <1>2 DEF RunsOK
<1> QED BY <1>1, <1>3

(* A run that is marked or charged stays a run.                             *)
LEMMA RunChanged ==
  ASSUME RunsOK, cur # 0, NEW r \in Charge, runs' = [runs EXCEPT ![cur] = r], cur' = cur
  PROVE  RunsOK' /\ runs'[cur] = r
BY DEF RunsOK

(* Beginning, ending and noting move the current run.                       *)
LEMMA RunsMove ==
  ASSUME RunsOK,
         UNCHANGED <<runs, cur>> \/ Runs!BeginRun(FALSE) \/ Runs!RequireRun \/ Runs!EndRun
  PROVE  Moves
<1>1. CASE UNCHANGED <<runs, cur>>
  BY <1>1 DEF Moves, RunsOK
<1>2. CASE Runs!BeginRun(FALSE)
  BY <1>2, RunBegun DEF Moves
<1>3. CASE Runs!RequireRun
  BY <1>1, <1>2, <1>3 DEF Runs!RequireRun
<1>4. CASE Runs!EndRun
  <2> DEFINE r == Runs!NewRun(FALSE)
  <2>1. cur' = 0 /\ (runs' = runs \/ runs' = Append(runs, r))
    BY <1>4 DEF Runs!EndRun
  <2>2. r \in Charge
    BY NewCharge
  <2> HIDE DEF r
  <2>3. CASE runs' = runs
    BY <2>1, <2>3 DEF Moves, RunsOK
  <2>4. CASE runs' = Append(runs, r)
    BY <2>1, <2>2, <2>4 DEF Moves, RunsOK
  <2> QED BY <2>1, <2>3, <2>4
<1> QED BY <1>1, <1>2, <1>3, <1>4

(* An execution is charged within the budget, or for the harness.           *)
LEMMA RunKept == ASSUME RunsOK, NEW actor, Runs!Keep(actor) PROVE Moves
<1>1. CASE cur = 0 /\ Runs!BeginRun(FALSE)
  BY <1>1, RunsMove
<1>2. CASE /\ cur # 0 /\ cur' = cur
           /\ IF actor = "system" THEN runs[cur].system < MaxSystem ELSE ~Runs!Spent(cur)
           /\ runs' = [runs EXCEPT ![cur] = Runs!Counted(runs[cur], actor)]
  <2> DEFINE r == Runs!Counted(runs[cur], actor)
  <2>1. runs[cur] \in Charge
    BY <1>2 DEF RunsOK
  <2>2. r \in Charge /\ r.budget = runs[cur].budget /\ r.over = runs[cur].over
    <3>1. CASE ~runs[cur].budget
      BY <2>1, <3>1 DEF Runs!Counted
    <3>2. CASE runs[cur].budget /\ actor = "system"
      <4>1. r = [runs[cur] EXCEPT !.count = runs[cur].count + 1, !.system = runs[cur].system + 1]
        BY <3>2 DEF Runs!Counted
      <4>2. /\ runs[cur].count \in Nat /\ runs[cur].system \in 0..MaxSystem
            /\ runs[cur].count <= MaxExec + runs[cur].system
            /\ runs[cur].system < MaxSystem /\ runs[cur] \in Charges
        BY <1>2, <2>1, <3>2 DEF Charge, Charges
      <4>4. runs[cur].count + 1 \in Nat /\ runs[cur].system + 1 \in 0..MaxSystem
        BY <4>2, BudgetBounds
      <4>5. runs[cur] \in Charges
        BY <4>2
      <4>3. r \in Charges /\ r.count = runs[cur].count + 1 /\ r.system = runs[cur].system + 1
            /\ r.budget = runs[cur].budget /\ r.over = runs[cur].over
        BY ONLY <4>1, <4>4, <4>5 DEF Charges
      <4>. QED
        BY <4>2, <4>3, BudgetBounds DEF Charge
    <3>3. CASE runs[cur].budget /\ actor # "system"
      <4>1. r = [runs[cur] EXCEPT !.count = runs[cur].count + 1]
        <5>1. r = [runs[cur] EXCEPT !.count = runs[cur].count + 1, !.system = runs[cur].system]
          BY <3>3 DEF Runs!Counted
        <5>. QED
          BY <2>1, <5>1 DEF Charge, Charges
      <4>2. runs[cur].count \in Nat /\ runs[cur].count < MaxExec /\ runs[cur].system \in 0..MaxSystem
            /\ runs[cur] \in Charges
        BY <1>2, <2>1, <3>3, BudgetBounds DEF Charge, Charges, Runs!Spent
      <4>4. runs[cur].count + 1 \in Nat
        BY <4>2
      <4>5. runs[cur] \in Charges
        BY <4>2
      <4>3. r \in Charges /\ r.count = runs[cur].count + 1 /\ r.system = runs[cur].system
            /\ r.budget = runs[cur].budget /\ r.over = runs[cur].over
        BY ONLY <4>1, <4>4, <4>5 DEF Charges
      <4>. QED
        BY <4>2, <4>3, BudgetBounds DEF Charge
    <3>. QED
      BY <3>1, <3>2, <3>3
  <2>4. runs' = [runs EXCEPT ![cur] = r]
    BY <1>2
  <2> HIDE DEF r
  <2>3. RunsOK' /\ runs'[cur] = r
    BY <1>2, <2>2, <2>4, RunChanged
  <2> QED BY <1>2, <2>2, <2>3 DEF Moves
<1> QED BY <1>1, <1>2 DEF Runs!Keep

(* A run that is marked keeps what it was charged.                          *)
LEMMA RunMarked ==
  ASSUME RunsOK, cur # 0, runs[cur].budget, runs' = [runs EXCEPT ![cur].over = TRUE], cur' = cur
  PROVE  Marks
<1> DEFINE r == [runs[cur] EXCEPT !.over = TRUE]
<1>1. runs[cur] \in Charge
  BY DEF RunsOK
<1>2. r \in Charges /\ r.count = runs[cur].count /\ r.system = runs[cur].system
      /\ r.budget = runs[cur].budget /\ r.over = TRUE
  BY <1>1 DEF Charge, Charges
<1>3. r \in Charge
  BY <1>1, <1>2 DEF Charge
<1>4. runs' = [runs EXCEPT ![cur] = r]
  OBVIOUS
<1> HIDE DEF r
<1>5. RunsOK' /\ runs'[cur] = r
  BY <1>3, <1>4, RunChanged
<1> QED BY <1>2, <1>5 DEF Marks

(* While calls end and none is refused, what moves or marks the run keeps   *)
(* the bound on what is refused.                                           *)
LEMMA BudgetMoves ==
  ASSUME BudgetInv, Moves \/ Marks, UNCHANGED refused, task' = "none" => task = "none",
         tool' \in [Tool -> {"idle", "approved", "ran"}], Answering' \subseteq Answering
  PROVE  BudgetInv'
<1>1. /\ Cardinality(Answering) \in Nat /\ Cardinality(Answering') \in Nat /\ Cardinality(Tool) \in Nat
      /\ Cardinality(Answering') <= Cardinality(Answering) /\ Cardinality(Answering) <= Cardinality(Tool)
  <2>1. Answering \in SUBSET Tool
    BY DEF Answering
  <2>. QED
    BY <2>1, ToolsCounted
<1>2. Overrun'
  <2>1. CASE Moves
    BY <1>1, <2>1 DEF BudgetInv, Overrun, Moves
  <2>2. CASE Marks
    BY <1>1, <2>2 DEF BudgetInv, Overrun, Marks
  <2>. QED
    BY <2>1, <2>2
<1>3. RunsOK'
  BY DEF Moves, Marks
<1>4. task' = "none" => refused' = 0 /\ Answering' = {}
  BY DEF BudgetInv
<1>. QED
  BY <1>2, <1>3, <1>4 DEF BudgetInv

(* A call that is recorded, or refused after it ran, is on its way no more. *)
LEMMA BudgetTool ==
  ASSUME BudgetInv, NEW k \in Tool, Runs!RecordTool(k)
  PROVE  BudgetInv'
<1>1. k \in Answering /\ task # "none" /\ tool' = [tool EXCEPT ![k] = "idle"] /\ task' = task
  BY DEF Runs!RecordTool, Answering, BudgetInv
<1>2. Answering' = Answering \ {k} /\ tool' \in [Tool -> {"idle", "approved", "ran"}]
  BY <1>1 DEF Answering, BudgetInv
<1>3. /\ Cardinality(Answering) \in Nat /\ Cardinality(Tool) \in Nat
      /\ Cardinality(Answering') = Cardinality(Answering) - 1
      /\ Cardinality(Answering) <= Cardinality(Tool)
  <2>1. Answering \in SUBSET Tool
    BY DEF Answering
  <2>. QED
    BY <1>1, <1>2, <2>1, ToolsCounted
<1>4. CASE Runs!Keep("agent") /\ UNCHANGED refused
  <2>1. Moves
    BY <1>4, RunKept DEF BudgetInv
  <2>. QED
    BY <1>1, <1>2, <1>4, <2>1, BudgetMoves
<1>5. CASE Runs!Refuse /\ refused' = refused + 1
  <2>1. Marks
    BY <1>5, RunMarked DEF BudgetInv, Runs!Refuse
  <2>2. refused \in Nat /\ refused + Cardinality(Answering) <= Cardinality(Tool)
    <3>1. refused \in Nat /\ cur # 0 /\ runs[cur].budget
      BY <2>1 DEF Marks, BudgetInv
    <3>2. CASE runs[cur].over
      BY <3>1, <3>2 DEF BudgetInv, Overrun
    <3>3. CASE ~runs[cur].over
      BY <1>3, <3>1, <3>3 DEF BudgetInv, Overrun
    <3>. QED
      BY <3>1, <3>2, <3>3
  <2>3. refused' \in Nat /\ refused' + Cardinality(Answering') <= Cardinality(Tool)
    BY <1>3, <1>5, <2>2
  <2>5. Answering # {} /\ Cardinality(Answering') \in Nat
    <3>1. Answering' \in SUBSET Tool
      BY <1>2 DEF Answering
    <3>. QED
      BY <1>1, <3>1, ToolsCounted
  <2>4. Overrun' /\ refused' <= Cardinality(Tool)
    BY <1>3, <2>1, <2>3, <2>5 DEF Overrun, Marks
  <2>. QED
    BY <1>1, <1>2, <2>1, <2>3, <2>4 DEF BudgetInv, Marks
<1>. QED
  BY <1>4, <1>5 DEF Runs!RecordTool

(* The other steps of a tool call: it is let through while the current run  *)
(* is not over, or has no budget to keep.                                  *)
LEMMA BudgetCalls ==
  ASSUME BudgetInv, NEW k \in Tool, Runs!Approve(k) \/ Runs!Deny(k) \/ Runs!Execute(k)
  PROVE  BudgetInv'
<1>1. CASE Runs!Approve(k)
  <2>1. UNCHANGED <<runs, cur, task, refused>> /\ task # "none"
    BY <1>1 DEF Runs!Approve, Runs!session
  <2>2. tool' = [tool EXCEPT ![k] = "approved"]
    BY <1>1 DEF Runs!Approve
  <2>3. cur # 0 /\ runs[cur].budget => ~runs[cur].over /\ refused = 0
    BY <1>1 DEF Runs!Approve, BudgetInv, Overrun
  <2> QED BY <2>1, <2>2, <2>3 DEF BudgetInv, RunsOK, Overrun
<1>2. CASE Runs!Deny(k)
  <2>1. Marks
    BY <1>2, RunMarked DEF Runs!Deny, BudgetInv
  <2>2. UNCHANGED <<tool, refused>> /\ task' # "none"
    BY <1>2 DEF Runs!Deny
  <2> QED BY <2>1, <2>2, BudgetMoves DEF BudgetInv, Answering
<1>3. CASE Runs!Execute(k)
  <2>1. tool[k] # "idle" /\ tool' = [tool EXCEPT ![k] = "ran"]
    BY <1>3 DEF Runs!Execute
  <2>2. Answering' = Answering /\ tool' \in [Tool -> {"idle", "approved", "ran"}]
    BY <2>1 DEF Answering, BudgetInv
  <2>3. UNCHANGED <<runs, cur, task, refused>>
    BY <1>3 DEF Runs!Execute, Runs!session
  <2>4. Moves
    BY <2>3, RunsMove DEF BudgetInv
  <2> QED BY <2>2, <2>3, <2>4, BudgetMoves
<1> QED BY <1>1, <1>2, <1>3

(* Every step of the session keeps the budget.                              *)
LEMMA BudgetKept == BudgetInv /\ [Runs!Next]_runVars => BudgetInv'
<1> SUFFICES ASSUME BudgetInv, [Runs!Next]_runVars PROVE BudgetInv'
  OBVIOUS
<1>1. ASSUME Moves \/ Marks, UNCHANGED <<tool, refused>>, task' = "none" => task = "none" PROVE BudgetInv'
  <2>1. tool' \in [Tool -> {"idle", "approved", "ran"}] /\ Answering' \subseteq Answering
    BY <1>1 DEF BudgetInv, Answering
  <2> QED BY <1>1, <2>1, BudgetMoves
<1>2. RunsOK
  BY DEF BudgetInv
<1>3. CASE UNCHANGED runVars
  <2>1. UNCHANGED <<runs, cur, task, tool, refused>>
    BY <1>3 DEF runVars
  <2> QED BY <1>1, <1>2, <2>1, RunsMove
<1>4. ASSUME NEW w \in Starter, Runs!StartWorkload(w) PROVE BudgetInv'
  <2>1. UNCHANGED <<task, tool, refused>>
    BY <1>4 DEF Runs!StartWorkload, Runs!TakeLock, Runs!RefuseStart, Runs!ReadRun, Runs!BeginStart,
                Runs!PodUp, Runs!PodFails, Runs!CheckClosed, Runs!AttachWorkload, Runs!EndStart, Runs!agent
  <2>2. UNCHANGED <<runs, cur>> \/ Runs!BeginRun(FALSE) \/ Runs!RequireRun \/ Runs!EndRun
    BY <1>4 DEF Runs!StartWorkload, Runs!TakeLock, Runs!RefuseStart, Runs!ReadRun, Runs!BeginStart,
                Runs!PodUp, Runs!PodFails, Runs!CheckClosed, Runs!AttachWorkload, Runs!EndStart,
                Runs!EndRunIf, Runs!session
  <2>3. Moves
    BY <1>2, <2>2, RunsMove
  <2> QED BY <1>1, <2>1, <2>3
<1>5. CASE Runs!CloseHosts \/ Runs!CloseStatus
  <2>1. UNCHANGED <<runs, cur, task, tool, refused>>
    BY <1>5 DEF Runs!CloseHosts, Runs!CloseStatus, Runs!session, Runs!agent
  <2> QED BY <1>1, <1>2, <2>1, RunsMove
<1>6. CASE Runs!BeginTask
  <2>1. refused = 0 /\ refused' = 0 /\ tool' = tool /\ task' # "none" /\ Answering = {} /\ Runs!BeginRun(TRUE)
    BY <1>6 DEF Runs!BeginTask, BudgetInv
  <2>2. RunsOK' /\ Answering' = {} /\ cur' # 0 /\ runs'[cur'].over = FALSE
    BY <1>2, <2>1, RunBegun DEF Answering
  <2>3. Cardinality(Tool) \in Nat
    BY ToolsCounted
  <2> QED BY <2>1, <2>2, <2>3 DEF BudgetInv, Overrun
<1>7. CASE Runs!Say \/ Runs!PostRun \/ Runs!FinishRun
  <2>1. UNCHANGED <<task, tool, refused>>
    BY <1>7 DEF Runs!Say, Runs!PostRun, Runs!FinishRun, Runs!agent
  <2>2. Moves
    BY <1>2, <1>7, RunsMove DEF Runs!Say, Runs!PostRun, Runs!FinishRun
  <2> QED BY <1>1, <2>1, <2>2
<1>8. CASE Runs!EndTask
  <2>1. Moves /\ UNCHANGED <<tool, refused>> /\ task' # "none"
    BY <1>2, <1>8, RunsMove DEF Runs!EndTask
  <2> QED BY <1>1, <2>1
<1>9. CASE Runs!Exec
  <2>1. UNCHANGED <<task, tool, refused>> /\ \E actor \in {"user", "system"} : Runs!Record(actor)
    BY <1>9 DEF Runs!Exec, Runs!agent
  <2>2. Moves \/ Marks
    BY <1>2, <2>1, RunKept, RunMarked DEF Runs!Record, Runs!Refuse
  <2> QED BY <1>1, <2>1, <2>2
<1> QED BY <1>3, <1>4, <1>5, <1>6, <1>7, <1>8, <1>9, BudgetCalls, BudgetTool DEF Runs!Next

(* The budget is kept from the start.                                       *)
LEMMA BudgetAlways == WSpec => []BudgetInv
<1>1. WInit => BudgetInv
  <2> SUFFICES ASSUME WInit PROVE BudgetInv
    OBVIOUS
  <2>1. /\ runs = <<>> /\ cur = 0 /\ task = "none" /\ refused = 0
        /\ tool = [k \in Tool |-> "idle"]
    BY DEF WInit, Runs!Init
  <2>2. Cardinality(Tool) \in Nat
    BY ToolsCounted
  <2> QED BY <2>1, <2>2 DEF BudgetInv, RunsOK, Answering, Overrun
<1> QED BY <1>1, BudgetKept, RunsStep, PTL DEF WSpec

(* What is recorded beyond the budget of a run are executions of the        *)
(* harness, which do not ask for it (session.py 150-162), and what was      *)
(* executed in vain is at most the calls that were let through together:    *)
(* for any number of tool calls, starters and runs, and any budget.         *)
THEOREM BudgetIsHeld == WSpec => []BudgetHeld
<1>1. BudgetInv => BudgetHeld
  <2> SUFFICES ASSUME BudgetInv PROVE BudgetHeld
    OBVIOUS
  <2>1. ASSUME NEW r \in DOMAIN runs PROVE runs[r].count <= MaxExec + runs[r].system
    <3>1. runs[r] \in Charge
      BY DEF BudgetInv, RunsOK
    <3> QED BY <3>1 DEF Charge
  <2> QED BY <2>1, RunsCardinality DEF BudgetHeld, Runs!BudgetHeld, Runs!OverrunBounded, BudgetInv
<1> QED BY <1>1, BudgetAlways, PTL

-----------------------------------------------------------------------------
(* The event file: the process that was let in last has every acknowledged  *)
(* line before it, unless it served before somebody else did or another     *)
(* records still; and an event is identified by its opening and number     *)
(* wherever it is kept.                                                    *)

Line == [id : Nat, seq : Nat, opening : Nat]
Numbered == [event : Line, by : Server]

RecordingTypes ==
    /\ file \in Seq(Line) /\ copy \in [Server -> Seq(Line)]
    /\ seq \in [Server -> Nat] /\ opening \in [Server -> Nat] /\ live \subseteq Server /\ inCall \subseteq Server
    /\ pend \in [Thread -> Numbered \cup {Recording!None}]
    /\ serving \in Server \cup {Nobody} /\ last \in Server \cup {Nobody}
    /\ opened \in Nat /\ drawn \in Nat /\ stale \in BOOLEAN

(* What is acknowledged is in the file, and among what the process that     *)
(* served last would write back.                                           *)
AckedInv ==
    /\ last = Nobody /\ ~stale => acked = {}
    /\ store = "local" \/ ~stale => acked \subseteq Recording!Members(file)
    /\ store = "s3" /\ ~stale /\ last # Nobody => acked \subseteq Recording!Members(Recording!Lines(last))

Waiting == {e \in Line : \E t \in Thread : pend[t] # Recording!None /\ pend[t].event = e}
Copied == {e \in Line : \E p \in Server : e \in Recording!Members(copy[p])}
Seen == Recording!Members(file) \cup Copied \cup Waiting

Distinct(s) == \A i, j \in DOMAIN s : s[i] = s[j] => i = j

(* Who draws a number has an opening of its own, and all numbers given in   *)
(* it are behind the counter; a line is waiting in one thread or written.   *)
NumbersInv ==
    /\ \A p \in live \cup inCall : opening[p] # 0
    /\ \A p, q \in Server : opening[p] = opening[q] /\ opening[p] # 0 => p = q
    /\ \A p \in Server : opening[p] <= opened
    /\ \A e \in Seen : e.opening <= opened
    /\ \A e \in Seen : \A p \in Server : e.opening = opening[p] => e.seq <= seq[p]
    /\ \A e, f \in Seen : e.opening = f.opening /\ e.seq = f.seq => e = f

WrittenOnce ==
    /\ Distinct(file) /\ \A p \in Server : Distinct(copy[p])
    /\ \A t, u \in Thread :
          pend[t] # Recording!None /\ pend[u] # Recording!None /\ pend[t].event = pend[u].event => t = u
    /\ \A e \in Waiting : e \notin Recording!Members(file)
                          /\ \A p \in Server : e \notin Recording!Members(copy[p])

RecordingInv == RecordingTypes /\ AckedInv /\ NumbersInv /\ WrittenOnce

LEMMA SeenAreLines ==
  ASSUME RecordingTypes
  PROVE  Seen \subseteq Line
BY DEF RecordingTypes, Seen, Copied, Waiting, Recording!Members

(* What is numbered and not appended has its process.                       *)
LEMMA NumberedIsSome == ASSUME NEW x \in Numbered PROVE x # Recording!None /\ x.event \in Line /\ x.by \in Server
  BY SessionWorkAssumption DEF Numbered, Recording!None, Recording!RecorderAssumption

(* A line more in a file.                                                  *)
LEMMA OneLineMore ==
  ASSUME NEW s \in Seq(Line), NEW e \in Line
  PROVE  /\ Append(s, e) \in Seq(Line)
         /\ Append(s, e) # <<>>
         /\ Recording!Members(Append(s, e)) = Recording!Members(s) \cup {e}
         /\ Distinct(s) /\ e \notin Recording!Members(s) => Distinct(Append(s, e))
<1>1. /\ Append(s, e) \in Seq(Line) /\ Len(Append(s, e)) = Len(s) + 1 /\ Len(s) \in Nat
      /\ DOMAIN s = 1..Len(s) /\ DOMAIN Append(s, e) = 1..(Len(s) + 1)
      /\ \A i \in 1..Len(s) : Append(s, e)[i] = s[i]
      /\ Append(s, e)[Len(s) + 1] = e
  OBVIOUS
<1>2. \A i \in 1..(Len(s) + 1) : i \in 1..Len(s) \/ i = Len(s) + 1
  BY <1>1
<1>3. Recording!Members(Append(s, e)) = Recording!Members(s) \cup {e}
  BY <1>1, <1>2 DEF Recording!Members
<1>4. Distinct(s) /\ e \notin Recording!Members(s) => Distinct(Append(s, e))
  BY <1>1, <1>2 DEF Recording!Members, Distinct
<1>5. Append(s, e) # <<>>
  BY <1>1
<1>. QED
  BY <1>1, <1>3, <1>4, <1>5

(* Numbers stay apart while none is drawn and nobody opens the session.     *)
LEMMA NumbersStay ==
  ASSUME RecordingTypes, NumbersInv, Seen' \subseteq Seen,
         UNCHANGED <<seq, opening, opened>>, live' \cup inCall' \subseteq live \cup inCall
  PROVE  NumbersInv'
BY DEF NumbersInv, RecordingTypes

(* The lines that a process would write back with its next one.             *)
LEMMA LinesKnown ==
  ASSUME RecordingTypes, WrittenOnce, NEW p \in Server
  PROVE  /\ Recording!Lines(p) \in Seq(Line) /\ Distinct(Recording!Lines(p))
         /\ Recording!Members(Recording!Lines(p)) \subseteq
              Recording!Members(file) \cup Recording!Members(copy[p])
BY DEF RecordingTypes, WrittenOnce, Recording!Lines

(* A call reaches a process: what it opens gets an opening of its own.      *)
LEMMA RecordingServe ==
  ASSUME RecordingInv, NEW p \in Server, Recording!Serve(p)
  PROVE  RecordingInv'
<1> USE DEF Recording!Serve
<1>1. Len(file) \in Nat
  BY DEF RecordingInv, RecordingTypes
<1>2. /\ UNCHANGED <<store, file, copy, pend, drawn, acked>>
      /\ live' = live \cup {p} /\ inCall' = inCall \cup {p} /\ serving' = p /\ last' = p
      /\ stale' = (stale \/ (last \notin {p, Nobody} /\ (p \in live \/ copy[p] # <<>>)))
  OBVIOUS
<1>3. \/ p \in live /\ UNCHANGED <<seq, opened, opening>>
      \/ /\ p \notin live /\ seq' = [seq EXCEPT ![p] = Len(file)]
         /\ opened' = opened + 1 /\ opening' = [opening EXCEPT ![p] = opened + 1]
  OBVIOUS
<1> HIDE DEF Recording!Serve
<1>4. RecordingTypes'
  <2>1. seq' \in [Server -> Nat] /\ opening' \in [Server -> Nat] /\ opened' \in Nat
    <3>1. seq \in [Server -> Nat] /\ opening \in [Server -> Nat] /\ opened \in Nat
      BY DEF RecordingInv, RecordingTypes
    <3>. QED
      BY ONLY <1>1, <1>3, <3>1
  <2>2. live' \subseteq Server /\ inCall' \subseteq Server /\ serving' \in Server \cup {Nobody} /\ stale' \in BOOLEAN
    BY <1>2 DEF RecordingInv, RecordingTypes
  <2>. QED
    BY <1>2, <2>1, <2>2 DEF RecordingInv, RecordingTypes
<1>5. Seen' = Seen
  <2>1. Waiting' = Waiting /\ Copied' = Copied
    BY <1>2 DEF Waiting, Copied
  <2>. QED
    BY <1>2, <2>1 DEF Seen
<1>6. AckedInv'
  <2>1. Recording!Lines(p)' = Recording!Lines(p)
    BY <1>2 DEF Recording!Lines
  <2>2. Nobody \notin Server
    BY SessionWorkAssumption DEF Recording!RecorderAssumption
  <2>3. ASSUME store = "s3", ~stale' PROVE acked \subseteq Recording!Members(Recording!Lines(p))
    <3>1. ~stale /\ (last = p \/ last = Nobody \/ copy[p] = <<>>)
      BY <1>2, <2>3
    <3>. QED
      BY <2>3, <3>1, <2>2 DEF RecordingInv, AckedInv, Recording!Lines
  <2>4. store = "local" \/ ~stale' => acked \subseteq Recording!Members(file)
    BY <1>2 DEF RecordingInv, AckedInv
  <2>. QED
    BY <1>2, <2>1, <2>2, <2>3, <2>4 DEF AckedInv
<1>7. NumbersInv'
  <2>1. CASE p \in live
    <3>1. live' \cup inCall' \subseteq live \cup inCall /\ UNCHANGED <<seq, opening, opened>>
      BY <1>2, <1>3, <2>1
    <3>. QED
      BY <1>5, <3>1, NumbersStay DEF RecordingInv
  <2>2. CASE p \notin live
    <3>1. /\ seq' = [seq EXCEPT ![p] = Len(file)] /\ opened' = opened + 1
          /\ opening' = [opening EXCEPT ![p] = opened + 1]
      BY <1>3, <2>2
    <3>2. \A q \in Server : /\ opening'[q] = IF q = p THEN opened + 1 ELSE opening[q]
                            /\ q # p => seq'[q] = seq[q]
                            /\ opening[q] \in Nat /\ opening[q] <= opened
      BY <3>1 DEF RecordingInv, RecordingTypes, NumbersInv
    <3>3. opened \in Nat /\ \A e \in Seen : e.opening \in Nat /\ e.opening <= opened
      BY SeenAreLines DEF RecordingInv, RecordingTypes, NumbersInv, Line
    <3>4. /\ \A q \in live' \cup inCall' : opening'[q] # 0
          /\ \A q \in Server : opening'[q] <= opened'
          /\ \A e \in Seen' : e.opening <= opened'
      BY <1>2, <1>5, <3>1, <3>2, <3>3 DEF RecordingInv, RecordingTypes, NumbersInv
    <3>5. \A q, o \in Server : opening'[q] = opening'[o] /\ opening'[q] # 0 => q = o
      BY <3>2, <3>3 DEF RecordingInv, NumbersInv
    <3>6. \A e \in Seen' : \A q \in Server : e.opening = opening'[q] => e.seq <= seq'[q]
      BY <1>5, <3>2, <3>3 DEF RecordingInv, NumbersInv
    <3>. QED
      BY <1>5, <3>4, <3>5, <3>6 DEF RecordingInv, NumbersInv
  <2>. QED
    BY <2>1, <2>2
<1>8. WrittenOnce'
  BY <1>2 DEF RecordingInv, WrittenOnce, Waiting
<1>. QED
  BY <1>4, <1>6, <1>7, <1>8 DEF RecordingInv

(* A number is drawn under the lock: no line has it.                        *)
LEMMA RecordingDraw ==
  ASSUME RecordingInv, NEW t \in Thread, NEW p \in Server, Recording!Draw(t, p)
  PROVE  RecordingInv'
<1> DEFINE e == [id |-> drawn + 1, seq |-> seq[p] + 1, opening |-> opening[p]]
           d == [event |-> e, by |-> p]
<1>1. /\ p \in inCall /\ pend[t] = Recording!None
      /\ seq' = [seq EXCEPT ![p] = seq[p] + 1] /\ drawn' = drawn + 1
      /\ UNCHANGED <<store, file, copy, live, closed, inCall, serving, last, opened, opening, acked, stale>>
  BY DEF Recording!Draw
<1>2. seq'[p] = seq[p] + 1 /\ e \in Line
  BY <1>1 DEF RecordingInv, RecordingTypes, Line
<1>3. pend' = [pend EXCEPT ![t] = d]
  BY <1>2 DEF Recording!Draw
<1>4. e.seq = seq[p] + 1 /\ e.opening = opening[p]
  BY DEF e
<1>12. d \in Numbered /\ d.event = e
  BY <1>2 DEF Numbered
<1> HIDE DEF d, e
<1>13. d # Recording!None
  BY <1>12, NumberedIsSome
<1>14. /\ pend'[t] = d /\ \A u \in Thread : u # t => pend'[u] = pend[u]
       /\ pend' \in [Thread -> Numbered \cup {Recording!None}]
  BY <1>3, <1>12 DEF RecordingInv, RecordingTypes
<1>5. e \notin Seen
  BY <1>1, <1>4 DEF RecordingInv, RecordingTypes, NumbersInv
<1>6. Waiting' \subseteq Waiting \cup {e}
  BY <1>12, <1>14 DEF Waiting
<1>7. Seen' \subseteq Seen \cup {e}
  <2>1. Copied' = Copied
    BY <1>1 DEF Copied
  <2>. QED
    BY <1>1, <1>6, <2>1 DEF Seen
<1>8. RecordingTypes'
  <2>1. seq' \in [Server -> Nat]
    BY <1>1 DEF RecordingInv, RecordingTypes
  <2>. QED
    BY <1>1, <1>14, <2>1 DEF RecordingInv, RecordingTypes
<1>9. AckedInv'
  BY <1>1 DEF RecordingInv, AckedInv, Recording!Lines
<1>10. NumbersInv'
  <2>1. \A q, o \in Server : opening'[q] = opening'[o] /\ opening'[q] # 0 => q = o
    BY <1>1 DEF RecordingInv, NumbersInv
  <2>2. \A q \in Server : seq'[q] = IF q = p THEN seq[q] + 1 ELSE seq[q]
    BY <1>1 DEF RecordingInv, RecordingTypes
  <2>3. opening[p] # 0
    BY <1>1 DEF RecordingInv, NumbersInv
  <2>4. \A f \in Seen \cup {e} : \A q \in Server : f.opening = opening'[q] => f.seq <= seq'[q]
    <3>1. ASSUME NEW f \in Seen, NEW q \in Server, f.opening = opening[q] PROVE f.seq <= seq'[q]
      <4>1. f.seq <= seq[q] /\ seq[q] \in Nat /\ f.seq \in Nat
        BY <3>1, SeenAreLines DEF RecordingInv, RecordingTypes, NumbersInv, Line
      <4>. QED
        BY <4>1, <2>2
    <3>2. ASSUME NEW q \in Server, e.opening = opening[q] PROVE e.seq <= seq'[q]
      <4>1. q = p
        BY <3>2, <1>1, <1>4, <2>3 DEF RecordingInv, NumbersInv
      <4>. QED
        BY <4>1, <1>1, <1>4, <2>2 DEF RecordingInv, RecordingTypes
    <3>. QED
      BY <3>1, <3>2, <1>1
  <2>5. \A f \in Seen : ~(f.opening = e.opening /\ f.seq = e.seq)
    BY <1>1, <1>4 DEF RecordingInv, RecordingTypes, NumbersInv
  <2>6. \A f, g \in Seen \cup {e} : f.opening = g.opening /\ f.seq = g.seq => f = g
    BY <2>5 DEF RecordingInv, NumbersInv
  <2>7. \A f \in Seen \cup {e} : f.opening <= opened
    BY <1>1, <1>4 DEF RecordingInv, NumbersInv
  <2>. QED
    BY <1>1, <1>7, <2>1, <2>4, <2>6, <2>7 DEF RecordingInv, NumbersInv
<1>11. WrittenOnce'
  <2>1. \A u \in Thread : pend[u] # Recording!None => pend[u].event # e
    BY <1>2, <1>5 DEF Seen, Waiting
  <2>2. ASSUME NEW u \in Thread, NEW w \in Thread, pend'[u] # Recording!None, pend'[w] # Recording!None,
               pend'[u].event = pend'[w].event
        PROVE  u = w
    BY <1>12, <1>14, <2>1, <2>2 DEF RecordingInv, WrittenOnce
  <2>3. e \notin Recording!Members(file) /\ \A q \in Server : e \notin Recording!Members(copy[q])
    BY <1>2, <1>5 DEF Seen, Copied
  <2>. QED
    BY <1>1, <1>6, <2>2, <2>3 DEF RecordingInv, WrittenOnce
<1>. QED
  BY <1>8, <1>9, <1>10, <1>11 DEF RecordingInv

(* A line is appended, to the file of the directory or to the copy of the   *)
(* process of its call, with which it replaces the file.                   *)
LEMMA RecordingAppend ==
  ASSUME RecordingInv, NEW t \in Thread, NEW written \in BOOLEAN, Recording!AppendLine(t, written)
  PROVE  RecordingInv'
<1>15. pend[t] \in Numbered
  BY DEF Recording!AppendLine, RecordingInv, RecordingTypes
<1>17. PICK p \in Server : p = pend[t].by
  BY <1>15, NumberedIsSome
<1> DEFINE e == pend[t].event
           lines == Append(Recording!Lines(p), e)
           longer == Append(file, e)
<1>1. /\ p \in Server /\ e \in Line
      /\ pend' = [pend EXCEPT ![t] = Recording!None]
      /\ acked' = IF written THEN acked \cup {e} ELSE acked
      /\ stale' = (stale \/ p # last)
      /\ UNCHANGED <<store, seq, live, closed, inCall, serving, last, drawn, opened, opening>>
  BY <1>15, <1>17, NumberedIsSome DEF Recording!AppendLine
<1>16. /\ pend'[t] = Recording!None /\ pend[t] # Recording!None
       /\ \A u \in Thread : u # t => pend'[u] = pend[u]
       /\ pend' \in [Thread -> Numbered \cup {Recording!None}]
  BY <1>1, <1>15, NumberedIsSome DEF RecordingInv, RecordingTypes
<1>2. \/ /\ store = "s3" /\ copy' = [copy EXCEPT ![p] = lines]
         /\ file' = IF written THEN lines ELSE file
      \/ store # "s3" /\ written /\ file' = longer /\ copy' = copy
  BY <1>17 DEF Recording!AppendLine, Recording!AppendS3, Recording!AppendLocal
<1>3. e \in Waiting /\ e \notin Recording!Members(file)
      /\ \A q \in Server : e \notin Recording!Members(copy[q])
  BY <1>1, <1>16 DEF Waiting, RecordingInv, WrittenOnce
<1>4. /\ Recording!Lines(p) \in Seq(Line) /\ Distinct(Recording!Lines(p))
      /\ Recording!Members(Recording!Lines(p)) \subseteq
           Recording!Members(file) \cup Recording!Members(copy[p])
  BY <1>1, LinesKnown DEF RecordingInv
<1>5. /\ lines \in Seq(Line) /\ lines # <<>> /\ Distinct(lines)
      /\ Recording!Members(lines) = Recording!Members(Recording!Lines(p)) \cup {e}
  BY <1>1, <1>3, <1>4, OneLineMore
<1>6. /\ longer \in Seq(Line) /\ Distinct(longer)
      /\ Recording!Members(longer) = Recording!Members(file) \cup {e}
  BY <1>1, <1>3, OneLineMore DEF RecordingInv, RecordingTypes, WrittenOnce
<1> HIDE DEF lines, longer, e
<1>7. /\ file' \in Seq(Line) /\ copy' \in [Server -> Seq(Line)] /\ Distinct(file')
      /\ \A q \in Server : Distinct(copy'[q])
  BY <1>1, <1>2, <1>5, <1>6 DEF RecordingInv, RecordingTypes, WrittenOnce
<1>8. /\ Recording!Members(file') \subseteq Recording!Members(file) \cup Copied \cup {e}
      /\ \A q \in Server : Recording!Members(copy'[q]) \subseteq
           Recording!Members(file) \cup Recording!Members(copy[q]) \cup {e}
  <2>1. Recording!Members(copy[p]) \subseteq Copied
    BY <1>1 DEF RecordingInv, RecordingTypes, Copied, Recording!Members
  <2>2. \A q \in Server : copy'[q] = copy[q] \/ (q = p /\ copy'[q] = lines)
    <3>1. copy' = copy \/ copy' = [copy EXCEPT ![p] = lines]
      BY <1>2
    <3>2. copy \in [Server -> Seq(Line)]
      BY DEF RecordingInv, RecordingTypes
    <3>. QED
      BY ONLY <1>1, <3>1, <3>2
  <2>3. file' \in {file, lines, longer}
    BY <1>2
  <2>. QED
    BY <1>4, <1>5, <1>6, <2>1, <2>2, <2>3
<1>9. Waiting' \subseteq Waiting /\ e \notin Waiting'
  BY <1>16 DEF e, RecordingInv, WrittenOnce, Waiting
<1>10. Seen' \subseteq Seen
  <2>1. Recording!Members(file') \subseteq Seen
    BY <1>3, <1>8 DEF Seen
  <2>2. Copied' \subseteq Seen
    BY <1>3, <1>8 DEF Seen, Copied
  <2>. QED
    BY <1>9, <2>1, <2>2 DEF Seen
<1>11. RecordingTypes'
  BY <1>1, <1>7, <1>16 DEF RecordingInv, RecordingTypes
<1>12. AckedInv'
  <2>1. CASE store = "s3"
    <3>1. Recording!Lines(p)' = lines
      BY <1>1, <1>2, <1>5, <2>1 DEF Recording!Lines, RecordingInv, RecordingTypes
    <3>2. ASSUME ~stale'
          PROVE  acked \subseteq Recording!Members(file) /\ acked \subseteq Recording!Members(lines)
      <4>1. ~stale /\ p = last /\ last # Nobody
        BY <1>1, <3>2, SessionWorkAssumption DEF Recording!RecorderAssumption
      <4>. QED
        BY <1>5, <2>1, <4>1 DEF RecordingInv, AckedInv
    <3>3. ASSUME ~stale'
          PROVE  acked' \subseteq Recording!Members(file') /\ acked' \subseteq Recording!Members(lines)
      BY <1>1, <1>2, <1>5, <2>1, <3>2, <3>3
    <3>4. store # "local" /\ (~stale' => p = last /\ last # Nobody)
      BY <1>1, <2>1, SessionWorkAssumption DEF Recording!RecorderAssumption
    <3>. QED
      BY <1>1, <2>1, <3>1, <3>3, <3>4 DEF AckedInv
  <2>2. CASE store # "s3"
    <3>1. store = "local" \/ ~stale => acked \subseteq Recording!Members(file)
      BY DEF RecordingInv, AckedInv
    <3>2. ~stale' => ~stale /\ last # Nobody
      BY <1>1, SessionWorkAssumption DEF Recording!RecorderAssumption
    <3>. QED
      BY <1>1, <1>2, <1>6, <2>2, <3>1, <3>2 DEF AckedInv
  <2>. QED
    BY <2>1, <2>2
<1>13. NumbersInv'
  BY <1>1, <1>10, NumbersStay DEF RecordingInv
<1>14. WrittenOnce'
  <2>1. ASSUME NEW u \in Thread, NEW w \in Thread, pend'[u] # Recording!None, pend'[w] # Recording!None,
               pend'[u].event = pend'[w].event
        PROVE  u = w
    BY <1>16, <2>1 DEF RecordingInv, WrittenOnce
  <2>2. ASSUME NEW f \in Waiting'
        PROVE  f \notin Recording!Members(file') /\ \A q \in Server : f \notin Recording!Members(copy'[q])
    BY <1>8, <1>9 DEF RecordingInv, WrittenOnce, Copied
  <2>. QED
    BY <1>7, <2>1, <2>2 DEF WrittenOnce
<1>. QED
  BY <1>11, <1>12, <1>13, <1>14 DEF RecordingInv

(* A call ends, a session is let go, closed, or dies with its process.      *)
LEMMA RecordingEnds ==
  ASSUME RecordingInv,
         \/ Recording!LoseLease
         \/ \E p \in Server : \/ Recording!Leave(p) \/ Recording!Close(p)
                              \/ Recording!Detach(p) \/ Recording!Crash(p)
  PROVE  RecordingInv'
<1>1. /\ UNCHANGED <<store, file, seq, last, drawn, opened, opening, acked, stale>>
      /\ live' \subseteq live /\ inCall' \subseteq inCall /\ serving' \in {serving, Nobody}
  BY DEF Recording!LoseLease, Recording!Leave, Recording!Close, Recording!Detach, Recording!Crash
<1>2. pend' = pend \/ \E p \in Server : pend' = [t \in Thread |-> IF pend[t].by = p THEN Recording!None ELSE pend[t]]
  BY DEF Recording!LoseLease, Recording!Leave, Recording!Close, Recording!Detach, Recording!Crash
<1>12. /\ \A t \in Thread : pend'[t] \in {pend[t], Recording!None}
       /\ pend' \in [Thread -> Numbered \cup {Recording!None}]
  BY <1>2 DEF RecordingInv, RecordingTypes
<1>3. copy' = copy \/ \E p \in Server : copy' = [copy EXCEPT ![p] = <<>>]
  BY DEF Recording!LoseLease, Recording!Leave, Recording!Close, Recording!Detach, Recording!Crash, Recording!Evict,
     RecordingInv, RecordingTypes
<1>4. RecordingTypes'
  <2>1. <<>> \in Seq(Line)
    OBVIOUS
  <2>2. copy' \in [Server -> Seq(Line)]
    BY <1>3, <2>1 DEF RecordingInv, RecordingTypes
  <2>. QED
    BY <1>1, <1>12, <2>2 DEF RecordingInv, RecordingTypes
<1>5. \A p \in Server : copy'[p] \in {copy[p], <<>>}
  BY <1>3 DEF RecordingInv, RecordingTypes
<1>6. Recording!Members(<<>>) = {} /\ Distinct(<<>>)
  BY DEF Recording!Members, Distinct
<1>7. Waiting' \subseteq Waiting
  BY <1>12 DEF Waiting
<1>8. Seen' \subseteq Seen
  <2>1. Copied' \subseteq Copied
    BY <1>5, <1>6 DEF Copied
  <2>. QED
    BY <1>1, <1>7, <2>1 DEF Seen
<1>9. AckedInv'
  <2>1. \A p \in Server : Recording!Lines(p)' \in {file, Recording!Lines(p)}
    BY <1>1, <1>5 DEF Recording!Lines
  <2>2. last \in Server \cup {Nobody}
    BY DEF RecordingInv, RecordingTypes
  <2>3. last \in Server => Recording!Lines(last)' \in {file, Recording!Lines(last)}
    BY <1>1, <2>1
  <2>. QED
    BY <1>1, <2>2, <2>3 DEF RecordingInv, AckedInv
<1>10. NumbersInv'
  BY <1>1, <1>8, NumbersStay DEF RecordingInv
<1>11. WrittenOnce'
  <2>1. \A t, u \in Thread : pend'[t] # Recording!None /\ pend'[u] # Recording!None
                             /\ pend'[t].event = pend'[u].event => t = u
    BY <1>12 DEF RecordingInv, WrittenOnce
  <2>. QED
    BY <1>1, <1>5, <1>6, <1>7, <2>1 DEF RecordingInv, WrittenOnce
<1>. QED
  BY <1>4, <1>9, <1>10, <1>11 DEF RecordingInv

(* The event file is in order from the start ...                            *)
LEMMA RecordingAlways == WSpec => []RecordingInv
<1>1. WInit => RecordingInv
  <2> SUFFICES ASSUME WInit PROVE RecordingInv
    OBVIOUS
  <2>1. Recording!Init
    BY DEF WInit
  <2>2. /\ file = <<>> /\ copy = [p \in Server |-> <<>>] /\ live = {} /\ inCall = {} /\ acked = {}
        /\ seq = [p \in Server |-> 0] /\ opening = [p \in Server |-> 0] /\ opened = 0 /\ drawn = 0
        /\ pend = [t \in Thread |-> Recording!None] /\ serving = Nobody /\ last = Nobody
        /\ stale = FALSE
    BY <2>1 DEF Recording!Init
  <2>3. Recording!Members(<<>>) = {} /\ Distinct(<<>>) /\ <<>> \in Seq(Line)
    BY DEF Recording!Members, Distinct
  <2>4. Waiting = {} /\ Copied = {} /\ Seen = {}
    BY <2>2, <2>3 DEF Waiting, Copied, Seen
  <2>. QED
    <3>1. RecordingTypes
      BY ONLY <2>2, <2>3 DEF RecordingTypes
    <3>2. AckedInv /\ WrittenOnce
      BY ONLY <2>2, <2>3, <2>4 DEF AckedInv, WrittenOnce
    <3>3. NumbersInv
      BY ONLY <2>2, <2>4 DEF NumbersInv
    <3>. QED
      BY <3>1, <3>2, <3>3 DEF RecordingInv
<1>2. RecordingInv /\ [Recording!Next]_recorderVars => RecordingInv'
  <2> SUFFICES ASSUME RecordingInv, [Recording!Next]_recorderVars PROVE RecordingInv'
    OBVIOUS
  <2>1. CASE Recording!Next
    BY <2>1, RecordingServe, RecordingDraw, RecordingAppend, RecordingEnds DEF Recording!Next
  <2>2. CASE UNCHANGED recorderVars
    BY <2>2 DEF recorderVars, RecordingInv, RecordingTypes, AckedInv, NumbersInv, WrittenOnce,
       Waiting, Copied, Seen, Recording!Lines
  <2>. QED
    BY <2>1, <2>2
<1>. QED
  BY <1>1, <1>2, RecordingStep, PTL DEF WSpec

(* ... and the session stays with the store it was made for.                *)
LEMMA StoreAlways == WSpec => [](store \in {"local", "s3"})
<1>1. WInit => store \in {"local", "s3"}
  BY DEF WInit, Recording!Init
<1>2. store \in {"local", "s3"} /\ [Recording!Next]_recorderVars => (store \in {"local", "s3"})'
  BY DEF Recording!Next, Recording!Serve, Recording!Detach, Recording!Crash, Recording!Draw,
     Recording!AppendLine, Recording!Leave, Recording!Close, Recording!LoseLease, recorderVars
<1>. QED
  BY <1>1, <1>2, RecordingStep, PTL DEF WSpec

(* "Every call is recorded" (docs/architecture.md 46): an event whose       *)
(* recording returned stays in the file unless a process records from an    *)
(* old copy of it, when the session comes back to it or its call has        *)
(* outlived the lease; and no two lines of one opening have one number      *)
(* (recorder.py 104-186); for any number of processes, threads, openings    *)
(* and events.                                                             *)
THEOREM RecordedIsKept == WSpec => []EventsKept
<1>1. RecordingInv /\ store \in {"local", "s3"} => EventsKept
  <2> SUFFICES ASSUME RecordingInv, store \in {"local", "s3"} PROVE EventsKept
    OBVIOUS
  <2>1. Recording!KeptUnlessStale
    BY DEF Recording!KeptUnlessStale, Recording!Kept, RecordingInv, AckedInv
  <2>2. Recording!NumberedOnce
    <3>1. \A i \in DOMAIN file : file[i] \in Seen
      BY DEF Seen, Recording!Members
    <3>. QED
      BY <3>1 DEF Recording!NumberedOnce, RecordingInv, NumbersInv, WrittenOnce, Distinct
  <2>. QED
    BY <2>1, <2>2 DEF EventsKept
<1>. QED
  BY <1>1, RecordingAlways, StoreAlways, PTL
=============================================================================
