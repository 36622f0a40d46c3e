---------------------------- MODULE DeviceScreen ----------------------------
(***************************************************************************)
(* What the device agent (src/device_agent/app.py) reads off one device:   *)
(* the dump of the UI hierarchy (/ui) and the recording of the screen      *)
(* (/screenrecord/start and /stop), each by way of one file of the device. *)
(* Requests overlap: each is served on a thread of its own.                *)
(***************************************************************************)
EXTENDS Integers, FiniteSets

CONSTANTS
    Viewer,     \* requests to /ui
    Stopper,    \* requests to /screenrecord/stop
    MaxScreen,  \* bound: changes of the screen
    MaxRec      \* bound: recordings started

ScreenAssumption == MaxScreen \in Nat /\ MaxRec \in Nat

VARIABLES
    screen,     \* what the device shows, by a number
    dumped,     \* the screen that cwe_ui.xml shows
    ui,         \* each /ui: its step, the screen it began with, the one it read, a failed dump
    recs,       \* recordings started
    reg,        \* _record_procs[device]: a recording, or 0
    alive,      \* recordings whose process lives
    began,      \* recordings that began on the device
    mp4,        \* the recording that cwe_record.mp4 is of, 0 while there is none
    late,       \* history: recordings that began beside a later one, a /stop waiting for them
    stop        \* each /stop: its step, the recording it popped, those begun before, the one it read
uivars == <<dumped, ui>>
recvars == <<recs, reg, alive, began, mp4, late, stop>>
vars == <<screen, uivars, recvars>>

NoUi == [pc |-> "idle", since |-> 0, got |-> 0, failed |-> FALSE]
NoStop == [pc |-> "idle", rec |-> 0, begun |-> 0, got |-> 0]

TypeOK ==
    /\ screen \in 0..MaxScreen /\ dumped \in 0..MaxScreen
    /\ ui \in [Viewer -> [pc : {"idle", "dump", "cat", "answered"}, since : 0..MaxScreen,
                          got : 0..MaxScreen, failed : BOOLEAN]]
    /\ recs \in 0..MaxRec /\ reg \in 0..recs /\ mp4 \in 0..recs
    /\ alive \subseteq 1..recs /\ began \subseteq 1..recs /\ late \subseteq began
    /\ stop \in [Stopper -> [pc : {"idle", "signal", "wait", "cat", "answered"},
                             rec : 0..MaxRec, begun : 0..MaxRec, got : 0..MaxRec]]

Init ==
    /\ screen = 0 /\ dumped = 0 /\ ui = [r \in Viewer |-> NoUi]
    /\ recs = 0 /\ reg = 0 /\ alive = {} /\ began = {} /\ mp4 = 0 /\ late = {}
    /\ stop = [t \in Stopper |-> NoStop]

Change ==
    /\ screen < MaxScreen /\ screen' = screen + 1
    /\ UNCHANGED <<uivars, recvars>>

-----------------------------------------------------------------------------
(* ui_dump: uiautomator writes the file, or fails, which is not looked at;  *)
(* then the file is read, whoever wrote it.                                *)

AskUi(r) ==
    /\ ui[r].pc = "idle" /\ ui' = [ui EXCEPT ![r] = [NoUi EXCEPT !.pc = "dump", !.since = screen]]
    /\ UNCHANGED <<screen, dumped, recvars>>

Dump(r, ok) ==
    /\ ui[r].pc = "dump" /\ dumped' = IF ok THEN screen ELSE dumped
    /\ ui' = [ui EXCEPT ![r].pc = "cat", ![r].failed = ~ok]
    /\ UNCHANGED <<screen, recvars>>

CatUi(r) ==
    /\ ui[r].pc = "cat" /\ ui' = [ui EXCEPT ![r].pc = "answered", ![r].got = dumped]
    /\ UNCHANGED <<screen, dumped, recvars>>

ReplyUi(r) ==
    /\ ui[r].pc = "answered" /\ ui' = [ui EXCEPT ![r] = NoUi]
    /\ UNCHANGED <<screen, dumped, recvars>>

-----------------------------------------------------------------------------
(* Mutant: what is registered is not asked whether it lives.                *)
RecordableAgain == reg <= recs

(* screenrecord_start, under _record_lock: 409 while the one that is        *)
(* registered lives.                                                       *)
Recordable == reg \notin alive

(* adb is started, and nobody looks whether the recording begins.           *)
StartRec ==
    /\ recs < MaxRec /\ Recordable
    /\ recs' = recs + 1 /\ reg' = recs' /\ alive' = alive \cup {recs'}
    /\ UNCHANGED <<screen, uivars, began, mp4, late, stop>>

Stopping(p) == \E t \in Stopper : stop[t].pc \in {"signal", "wait"} /\ stop[t].rec = p

(* screenrecord opens the file on the device.                               *)
RecBegins(p) ==
    /\ p \in alive \ began /\ began' = began \cup {p} /\ mp4' = p
    /\ late' = IF p < recs /\ Stopping(p) THEN late \cup {p} ELSE late
    /\ UNCHANGED <<screen, uivars, recs, reg, alive, stop>>

(* Its time is over, or it fails, maybe before it has begun.                *)
RecEnds(p) ==
    /\ p \in alive /\ alive' = alive \ {p}
    /\ UNCHANGED <<screen, uivars, recs, reg, began, mp4, late, stop>>

(* screenrecord_stop: only the pop is under the lock.                       *)
PopRec(t) ==
    /\ stop[t].pc = "idle" /\ recs > 0 /\ reg' = 0
    /\ stop' = [stop EXCEPT ![t] = [pc |-> IF reg \in alive THEN "signal" ELSE "cat", rec |-> reg,
                                    begun |-> recs, got |-> 0]]
    /\ UNCHANGED <<screen, uivars, recs, alive, began, mp4, late>>

(* pkill on the device: every recording there is told to end, and some have *)
(* by the time it returns.                                                 *)
Pkill(t) ==
    /\ stop[t].pc = "signal" /\ stop' = [stop EXCEPT ![t].pc = "wait"]
    /\ alive' \in SUBSET alive
    /\ UNCHANGED <<screen, uivars, recs, reg, began, mp4, late>>

(* The popped recording has ended, or is killed after 15 seconds.           *)
WaitRec(t) ==
    /\ stop[t].pc = "wait" /\ stop' = [stop EXCEPT ![t].pc = "cat"]
    /\ alive' = alive \ {stop[t].rec}
    /\ UNCHANGED <<screen, uivars, recs, reg, began, mp4, late>>

CatRec(t) ==
    /\ stop[t].pc = "cat" /\ stop' = [stop EXCEPT ![t].pc = "answered", ![t].got = mp4]
    /\ UNCHANGED <<screen, uivars, recs, reg, alive, began, mp4, late>>

ReplyRec(t) ==
    /\ stop[t].pc = "answered" /\ stop' = [stop EXCEPT ![t] = NoStop]
    /\ UNCHANGED <<screen, uivars, recs, reg, alive, began, mp4, late>>

(* The two use files of their own.                                          *)
UiNext ==
    \/ Change
    \/ \E r \in Viewer : AskUi(r) \/ CatUi(r) \/ ReplyUi(r) \/ \E ok \in BOOLEAN : Dump(r, ok)

RecNext ==
    \/ StartRec
    \/ \E p \in 1..MaxRec : RecBegins(p) \/ RecEnds(p)
    \/ \E t \in Stopper : PopRec(t) \/ Pkill(t) \/ WaitRec(t) \/ CatRec(t) \/ ReplyRec(t)

Next == UiNext \/ RecNext

Spec == Init /\ [][Next]_vars

-----------------------------------------------------------------------------
(* The elements that /ui returns are not older than its request, unless its *)
(* own dump failed: requests that overlap share one file.                   *)
UiFresh ==
    \A r \in Viewer : ui[r].pc = "answered" => ui[r].got >= ui[r].since \/ ui[r].failed

(* Two recordings write the one file only while a /stop is waiting for one  *)
(* of them; ...                                                            *)
OverlapOnlyWhileStopping ==
    \A p, q \in alive : p # q => Stopping(p) \/ Stopping(q)

(* ... and what a /stop returns is the recording it stopped, if that one    *)
(* ever began, unless another was started before the file was read, or an  *)
(* earlier one, whose own /stop overlaps, began on the device only then.   *)
(* If its own never began, /stop returns whatever recording was before.    *)
StopReturnsOwn ==
    \A t \in Stopper : stop[t].pc = "answered" /\ stop[t].rec \in began
                       => stop[t].got = stop[t].rec \/ stop[t].got > stop[t].begun
                          \/ stop[t].got \in late
=============================================================================
