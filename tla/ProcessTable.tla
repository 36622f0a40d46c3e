---------------------------- MODULE ProcessTable ----------------------------
(***************************************************************************)
(* The named background processes of a workload Pod (start_proc, stop_proc *)
(* and proc_logs of src/cwe/workload_agent.py), asked for by several       *)
(* requests at once.  A process is a shell, the leader of a new process    *)
(* group, and what it leaves in that group.  All processes of one name     *)
(* append to one log file.                                                 *)
(***************************************************************************)
EXTENDS Integers, FiniteSets

CONSTANTS
    Name,
    Stopper,    \* requests to /stop
    Reader,     \* requests to /logs
    MaxProc,    \* bound: processes started
    MaxOutput   \* bound: lines written to the logs

ProcessAssumption == MaxProc \in Nat /\ MaxOutput \in Nat

VARIABLES
    procs,      \* _procs: the process last started under each name, 0 for none
    nameOf,     \* history: the name of each process
    started,    \* how many processes were started
    leader,     \* processes whose shell lives
    rest,       \* processes of which others of the group live
    log,        \* lines in each log file
    wrote,      \* history: where the last line of each shell is
    stopper,    \* progress of each /stop: the process, and what it does next
    reader      \* progress of each /logs: the last line it read, and how many it cut off
table == <<procs, nameOf, started>>
system == <<leader, rest, log, wrote>>
vars == <<table, system, stopper, reader>>

Proc == 1..MaxProc
NotStopping == [p |-> 0, pc |-> "idle"]
NotReading == [p |-> 0, pc |-> "idle", running |-> TRUE, lines |-> 0, cut |-> 0]

TypeOK ==
    /\ started \in 0..MaxProc /\ procs \in [Name -> 0..started]
    /\ \A p \in 1..started : nameOf[p] \in Name
    /\ leader \subseteq 1..started /\ rest \subseteq 1..started
    /\ log \in [Name -> 0..MaxOutput] /\ wrote \in [Proc -> 0..MaxOutput]
    /\ \A t \in Stopper : stopper[t].p \in 0..started
                          /\ stopper[t].pc \in {"idle", "term", "wait", "kill", "done"}
    /\ \A t \in Reader : reader[t].p \in 0..started /\ reader[t].pc \in {"idle", "read", "done"}
                         /\ reader[t].running \in BOOLEAN /\ reader[t].lines \in 0..MaxOutput
                         /\ reader[t].cut \in 0..MaxOutput

Init ==
    /\ procs = [n \in Name |-> 0] /\ started = 0 /\ nameOf = [p \in {} |-> 0]
    /\ leader = {} /\ rest = {}
    /\ log = [n \in Name |-> 0] /\ wrote = [p \in Proc |-> 0]
    /\ stopper = [t \in Stopper |-> NotStopping] /\ reader = [t \in Reader |-> NotReading]

-----------------------------------------------------------------------------
(* poll() of the process that has the name                                 *)
Running(n) == procs[n] \in leader

(* Mutant: /start does not wait for a /stop to have its effect.             *)
StartableOnceSignalled(n) ==
    ~Running(n) \/ \E t \in Stopper : stopper[t].p = procs[n] /\ stopper[t].pc = "wait"

(* start_proc, under _procs_lock: 409 while the name has a live shell.      *)
Startable(n) == ~Running(n)

Start(n) ==
    /\ started < MaxProc /\ Startable(n)
    /\ started' = started + 1
    /\ procs' = [procs EXCEPT ![n] = started'] /\ nameOf' = [p \in 1..started' |->
           IF p = started' THEN n ELSE nameOf[p]]
    /\ leader' = leader \cup {started'} /\ rest' = rest \cup {started'}
    /\ UNCHANGED <<log, wrote, stopper, reader>>

(* The shell writes a line, or another of its group does.                   *)
Write(p) ==
    /\ p \in 1..started /\ log[nameOf[p]] < MaxOutput
    /\ log' = [log EXCEPT ![nameOf[p]] = @ + 1]
    /\ \/ p \in leader /\ wrote' = [wrote EXCEPT ![p] = log'[nameOf[p]]]
       \/ p \in rest /\ UNCHANGED wrote
    /\ UNCHANGED <<table, leader, rest, stopper, reader>>

(* The shell ends by itself; others of its group may outlive it.            *)
LeaderExits(p) ==
    /\ p \in leader /\ leader' = leader \ {p}
    /\ UNCHANGED <<table, rest, log, wrote, stopper, reader>>

RestExits(p) ==
    /\ p \in rest /\ rest' = rest \ {p}
    /\ UNCHANGED <<table, leader, log, wrote, stopper, reader>>

-----------------------------------------------------------------------------
(* stop_proc: the name is looked up under the lock, the rest happens        *)
(* outside it, while the name may get another process.                     *)
Goes(t, step) == stopper' = [stopper EXCEPT ![t].pc = step]

LookUp(t, n) ==
    /\ stopper[t].pc = "idle" /\ procs[n] # 0
    /\ stopper' = [stopper EXCEPT ![t] = [p |-> procs[n], pc |-> "term"]]
    /\ UNCHANGED <<table, system, reader>>

Signal(p, shell, others) ==
    /\ leader' = IF shell THEN leader \ {p} ELSE leader
    /\ rest' = IF others THEN rest \ {p} ELSE rest

(* SIGTERM to the group, unless the shell has ended: each of the group may  *)
(* die of it or ignore it.                                                 *)
Term(t) ==
    /\ stopper[t].pc = "term"
    /\ LET p == stopper[t].p
       IN  \/ p \notin leader /\ Goes(t, "done") /\ UNCHANGED <<leader, rest>>
           \/ /\ p \in leader /\ Goes(t, "wait")
              /\ \E shell, others \in BOOLEAN : Signal(p, shell, others)
    /\ UNCHANGED <<table, log, wrote, reader>>

(* Mutant: the wait has no timeout.                                         *)
WaitForEver(t) ==
    /\ stopper[t].pc = "wait" /\ stopper[t].p \notin leader /\ Goes(t, "done")
    /\ UNCHANGED <<table, system, reader>>

(* process.wait(timeout=grace) sees the shell's end, or has waited enough.  *)
Wait(t) ==
    /\ stopper[t].pc = "wait"
    /\ Goes(t, IF stopper[t].p \in leader THEN "kill" ELSE "done")
    /\ UNCHANGED <<table, system, reader>>

Kill(t) ==
    /\ stopper[t].pc = "kill" /\ Goes(t, "done") /\ Signal(stopper[t].p, TRUE, TRUE)
    /\ UNCHANGED <<table, log, wrote, reader>>

Answer(t) ==
    /\ stopper[t].pc = "done" /\ stopper' = [stopper EXCEPT ![t] = NotStopping]
    /\ UNCHANGED <<table, system, reader>>

-----------------------------------------------------------------------------
(* proc_logs: first whether it runs, then the tail of the file.             *)
PollLog(t, n) ==
    /\ reader[t].pc = "idle" /\ procs[n] # 0
    /\ reader' = [reader EXCEPT ![t] =
           [p |-> procs[n], pc |-> "read", running |-> Running(n), lines |-> 0, cut |-> 0]]
    /\ UNCHANGED <<table, system, stopper>>

(* _tail: as many of the last lines as the limit has room for; "truncated"  *)
(* stands above them if others are left out.                               *)
ReadLog(t, tail) ==
    /\ reader[t].pc = "read"
    /\ LET size == log[nameOf[reader[t].p]]
       IN  reader' = [reader EXCEPT ![t].pc = "done", ![t].lines = size,
                                    ![t].cut = IF size > tail THEN size - tail ELSE 0]
    /\ UNCHANGED <<table, system, stopper>>

Reply(t) ==
    /\ reader[t].pc = "done" /\ reader' = [reader EXCEPT ![t] = NotReading]
    /\ UNCHANGED <<table, system, stopper>>

Serve(t) == Term(t) \/ Wait(t) \/ Kill(t) \/ Answer(t)

Next ==
    \/ \E n \in Name : Start(n)
    \/ \E p \in Proc : Write(p) \/ LeaderExits(p) \/ RestExits(p)
    \/ \E t \in Stopper : Serve(t) \/ \E n \in Name : LookUp(t, n)
    \/ \E t \in Reader : Reply(t) \/ \E n \in Name : PollLog(t, n)
    \/ \E t \in Reader, tail \in 0..MaxOutput : ReadLog(t, tail)

Fairness == \A t \in Stopper : WF_vars(Serve(t))

Spec == Init /\ [][Next]_vars /\ Fairness

-----------------------------------------------------------------------------
(* A name never has two live shells, whatever is started and stopped at    *)
(* once: two services on one port are what /start refuses with 409.         *)
OneShellPerName ==
    \A p, q \in leader : nameOf[p] = nameOf[q] => p = q

(* When /stop answers, the shell it looked up is over, by whatever path.    *)
StoppedIsOver == \A t \in Stopper : stopper[t].pc = "done" => stopper[t].p \notin leader

(* A reply that says the process is over carries the last line its shell    *)
(* wrote, or says that it is cut off.                                      *)
Carried(t) == (reader[t].cut + 1)..reader[t].lines
FinalLogIsWhole ==
    \A t \in Reader : reader[t].pc = "done" /\ ~reader[t].running
                      => \/ wrote[reader[t].p] \in Carried(t)
                         \/ wrote[reader[t].p] <= reader[t].cut

(* A /stop ends, even of a process that ignores SIGTERM.                    *)
StopAnswers == \A t \in Stopper : stopper[t].pc # "idle" ~> stopper[t].pc = "idle"
=============================================================================
