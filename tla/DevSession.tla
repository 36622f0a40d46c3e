----------------------------- MODULE DevSession -----------------------------
(***************************************************************************)
(* One DevSession (src/cwe/session.py) that several threads of the REST    *)
(* API (src/cwe/api.py) use at once: an agent task whose tool calls run in *)
(* parallel (src/cwe/agent.py), calls of start_workload, executions of the *)
(* user and of the harness itself, runs that a client begins and finishes, *)
(* and the call that closes the session.                                   *)
(* A run is what executions are recorded under; the session has one        *)
(* current run (_current_run), whoever began it.                           *)
(***************************************************************************)
EXTENDS Integers, Sequences, FiniteSets

CONSTANTS
    Starter,    \* threads that call start_workload
    NoOne,
    Tool,       \* tool calls the agent may have open at a time
    MaxExec,    \* max_executions of the task's budget
    MaxRuns,    \* bound: runs the session may begin
    MaxSystem   \* bound: executions of the harness in one run

SessionAssumption ==
    /\ NoOne \notin Starter
    /\ IsFiniteSet(Tool)
    /\ MaxExec \in Nat /\ MaxRuns \in Nat /\ MaxSystem \in Nat

VARIABLES
    runs,       \* info.runs
    cur,        \* index of _current_run, 0 for None
    status,     \* info.status
    host,       \* _workload_host, by the thread that attached it
    closer,     \* progress of close()
    starter,    \* progress of each start_workload()
    owns,       \* the starters that found no current run (owns_run)
    lock,       \* who holds _workload_lock
    pod,        \* the Pod of each start_workload(): "stuck" when its deletion failed
    early,      \* history: close() had returned when the Pod of the starter came up
    task,       \* progress of run_task()
    tool,       \* progress of each tool call
    serial,     \* the tool call that holds the lock of cwe_tools
    refused     \* history: tool calls refused by the budget after they ran

session == <<runs, cur, status>>
podvars == <<host, closer, starter, owns, lock, pod, early>>
agent == <<task, tool, serial, refused>>
vars == <<session, podvars, agent>>

(* A RunRecord: whether it has a budget, exec_count, how many of these are  *)
(* the harness's own executions, and harness["budget_exceeded"].           *)
Run == [budget : BOOLEAN, count : Nat, system : 0..MaxSystem, over : BOOLEAN]

TypeOK ==
    /\ runs \in Seq(Run) /\ Len(runs) <= MaxRuns
    /\ cur \in 0..Len(runs)
    /\ status \in {"ready", "closed"}
    /\ host \in Starter \cup {NoOne} /\ lock \in Starter \cup {NoOne}
    /\ closer \in {"open", "stopping", "done", "raised"}
    /\ starter \in [Starter -> {"idle", "check", "begin", "pod", "up", "attach", "end", "over"}]
    /\ owns \subseteq Starter /\ early \subseteq Starter
    /\ pod \in [Starter -> {"none", "starting", "running", "gone", "stuck"}]
    /\ task \in {"none", "running", "stopping", "ended"}
    /\ tool \in [Tool -> {"idle", "approved", "ran"}]
    /\ serial \in Tool \cup {NoOne}
    /\ refused \in Nat

Init ==
    /\ runs = <<>> /\ cur = 0 /\ status = "ready"
    /\ host = NoOne /\ closer = "open" /\ lock = NoOne
    /\ starter = [w \in Starter |-> "idle"] /\ owns = {} /\ early = {}
    /\ pod = [w \in Starter |-> "none"]
    /\ task = "none" /\ tool = [k \in Tool |-> "idle"] /\ serial = NoOne
    /\ refused = 0

-----------------------------------------------------------------------------
(* Runs *)

NewRun(budget) == [budget |-> budget, count |-> 0, system |-> 0, over |-> FALSE]

(* begin_run: the new run is the current one, and the one before stays as   *)
(* it is.                                                                  *)
BeginRun(budget) ==
    /\ Len(runs) < MaxRuns
    /\ runs' = Append(runs, NewRun(budget))
    /\ cur' = Len(runs) + 1

(* _require_run: the current run, or a new one, "adhoc".                   *)
RequireRun == IF cur = 0 THEN BeginRun(FALSE) ELSE UNCHANGED <<runs, cur>>

(* end_run ends the current run; without one it begins and ends another.   *)
EndRun ==
    /\ cur' = 0
    /\ \/ cur # 0 /\ UNCHANGED runs
       \/ cur = 0 /\ Len(runs) < MaxRuns /\ runs' = Append(runs, NewRun(FALSE))

EndRunIf(owned) == IF owned THEN EndRun ELSE UNCHANGED <<runs, cur>>

(* Mutant: one execution more.                                              *)
SpentOnceExceeded(r) == runs[r].budget /\ runs[r].count > MaxExec

Spent(r) == runs[r].budget /\ runs[r].count >= MaxExec

(* Of runs without a budget, which are all but a task's, the executions are *)
(* not counted here.                                                       *)
Counted(run, actor) ==
    IF ~run.budget THEN run
    ELSE [run EXCEPT !.count = @ + 1, !.system = IF actor = "system" THEN @ + 1 ELSE @]

(* An execution that has taken place is recorded; check_budget is not asked *)
(* about the harness's own.                                                *)
Keep(actor) ==
    \/ cur = 0 /\ BeginRun(FALSE)
    \/ /\ cur # 0
       /\ IF actor = "system" THEN runs[cur].system < MaxSystem ELSE ~Spent(cur)
       /\ runs' = [runs EXCEPT ![cur] = Counted(@, actor)] /\ cur' = cur

(* The budget is used up: its executions, or its seconds, and that may be   *)
(* at any time.                                                            *)
Refuse ==
    /\ cur # 0 /\ runs[cur].budget
    /\ runs' = [runs EXCEPT ![cur].over = TRUE] /\ cur' = cur

(* _record: the budget is looked at and the count raised under one lock.    *)
Record(actor) == Keep(actor) \/ (actor # "system" /\ Refuse)

-----------------------------------------------------------------------------
(* start_workload *)

Goes(w, step) == starter' = [starter EXCEPT ![w] = step]

TakeLock(w) ==
    /\ starter[w] = "idle" /\ lock = NoOne
    /\ lock' = w /\ Goes(w, "check")
    /\ UNCHANGED <<session, host, closer, owns, pod, early, agent>>

Leave(w) == lock' = NoOne /\ Goes(w, "over")

(* host.stop(), which may fail.                                             *)
Stopped(w) == \E end \in {"gone", "stuck"} : pod' = [pod EXCEPT ![w] = end]

RefuseStart(w) ==
    /\ starter[w] = "check" /\ (status = "closed" \/ host # NoOne)
    /\ Leave(w)
    /\ UNCHANGED <<session, host, closer, owns, pod, early, agent>>

(* owns_run = self._current_run is None *)
ReadRun(w) ==
    /\ starter[w] = "check" /\ status # "closed" /\ host = NoOne
    /\ owns' = IF cur = 0 THEN owns \cup {w} ELSE owns
    /\ Goes(w, "begin")
    /\ UNCHANGED <<session, host, closer, lock, pod, early, agent>>

BeginStart(w) ==
    /\ starter[w] = "begin"
    /\ IF w \in owns THEN BeginRun(FALSE) ELSE UNCHANGED <<runs, cur>>
    /\ pod' = [pod EXCEPT ![w] = "starting"] /\ Goes(w, "pod")
    /\ UNCHANGED <<status, host, closer, owns, lock, early, agent>>

(* host.start() returns with a running Pod, or stops what it began.        *)
PodUp(w) ==
    /\ starter[w] = "pod"
    /\ pod' = [pod EXCEPT ![w] = "running"] /\ Goes(w, "up")
    /\ early' = IF closer = "done" THEN early \cup {w} ELSE early
    /\ UNCHANGED <<session, host, closer, owns, lock, agent>>

PodFails(w) ==
    /\ starter[w] = "pod" /\ Stopped(w)
    /\ EndRunIf(w \in owns) /\ Leave(w)
    /\ UNCHANGED <<status, host, closer, owns, early, agent>>

(* Mutant: the host is attached without asking whether the session is open. *)
AttachAnyway(w) ==
    /\ starter[w] = "up" /\ Goes(w, "attach")
    /\ UNCHANGED <<session, host, closer, owns, lock, pod, early, agent>>

(* Closed while the Pod was starting: the Pod is stopped again.            *)
CheckClosed(w) ==
    /\ starter[w] = "up"
    /\ \/ /\ status = "closed"
          /\ Stopped(w) /\ Leave(w)
       \/ /\ status # "closed"
          /\ pod' = pod /\ lock' = lock /\ Goes(w, "attach")
    /\ UNCHANGED <<session, host, closer, owns, early, agent>>

(* _attach_workload also writes a note under the current run.              *)
AttachWorkload(w) ==
    /\ starter[w] = "attach"
    /\ host' = w /\ RequireRun /\ Goes(w, "end")
    /\ UNCHANGED <<status, closer, owns, lock, pod, early, agent>>

EndStart(w) ==
    /\ starter[w] = "end"
    /\ EndRunIf(w \in owns) /\ Leave(w)
    /\ UNCHANGED <<status, host, closer, owns, pod, early, agent>>

StartWorkload(w) ==
    \/ TakeLock(w) \/ RefuseStart(w) \/ ReadRun(w) \/ BeginStart(w) \/ PodUp(w)
    \/ PodFails(w) \/ CheckClosed(w) \/ AttachWorkload(w) \/ EndStart(w)

-----------------------------------------------------------------------------
(* close: the manager hands the session to one caller only.  A host whose  *)
(* stop() fails does not keep the sandbox from being stopped; when that     *)
(* raises, so does close(), and the status stays as it is.                 *)

CloseHosts ==
    /\ closer = "open" /\ closer' = "stopping"
    /\ \/ host # NoOne /\ pod' = [pod EXCEPT ![host] = "gone"]
       \/ pod' = pod
    /\ UNCHANGED <<session, host, starter, owns, lock, early, agent>>

CloseStatus ==
    /\ closer = "stopping"
    /\ \/ closer' = "done" /\ status' = "closed"
       \/ closer' = "raised" /\ status' = status
    /\ UNCHANGED <<runs, cur, host, starter, owns, lock, pod, early, agent>>

-----------------------------------------------------------------------------
(* run_task and the tool calls of its agent *)

BeginTask ==
    /\ task = "none" /\ task' = "running"
    /\ BeginRun(TRUE)
    /\ UNCHANGED <<status, podvars, tool, serial, refused>>

(* session.message                                                         *)
Say ==
    /\ task \in {"running", "stopping"} /\ cur = 0 /\ RequireRun
    /\ UNCHANGED <<status, podvars, agent>>

(* The PreToolUse hook lets the call through, ...                          *)
Approve(k) ==
    /\ task = "running" /\ tool[k] = "idle"
    /\ cur # 0 => ~runs[cur].over /\ ~Spent(cur)
    /\ tool' = [tool EXCEPT ![k] = "approved"]
    /\ UNCHANGED <<session, podvars, task, serial, refused>>

(* ... or denies it and stops the agent: its executions, its seconds or,    *)
(* as the meter of module AgentRun says, its cost are used up.             *)
Deny(k) ==
    /\ task = "running" /\ tool[k] = "idle"
    /\ cur # 0 /\ runs[cur].budget
    /\ runs' = [runs EXCEPT ![cur].over = TRUE] /\ task' = "stopping"
    /\ UNCHANGED <<cur, status, podvars, tool, serial, refused>>

(* The command runs in the sandbox under the lock of cwe_tools, ...        *)
Execute(k) ==
    /\ tool[k] = "approved" /\ serial = NoOne
    /\ serial' = k /\ tool' = [tool EXCEPT ![k] = "ran"]
    /\ UNCHANGED <<session, podvars, task, refused>>

(* ... and is recorded afterwards, if the budget permits.                  *)
RecordTool(k) ==
    /\ tool[k] = "ran"
    /\ \/ Keep("agent") /\ UNCHANGED refused
       \/ Refuse /\ refused' = refused + 1
    /\ serial' = NoOne /\ tool' = [tool EXCEPT ![k] = "idle"]
    /\ UNCHANGED <<status, podvars, task>>

(* The agent has ended, with a result or an error.                         *)
EndTask ==
    /\ task \in {"running", "stopping"} /\ \A k \in Tool : tool[k] = "idle"
    /\ task' = "ended" /\ EndRun
    /\ UNCHANGED <<status, podvars, tool, serial, refused>>

-----------------------------------------------------------------------------
(* Other calls of the REST API *)

(* POST .../exec and the like: recorded under the same current run; a       *)
(* background task that is waited for, and the command of a verification,  *)
(* as the harness's own.                                                   *)
Exec ==
    /\ \E actor \in {"user", "system"} : Record(actor)
    /\ UNCHANGED <<status, podvars, agent>>

(* POST .../runs: the run has no budget.                                   *)
PostRun ==
    /\ BeginRun(FALSE)
    /\ UNCHANGED <<status, podvars, agent>>

(* POST .../runs/{run_id}/finish: that the named run is the current one is  *)
(* asked outside the lock; what is ended is the run that is current then,  *)
(* or none is any more.                                                    *)
FinishRun ==
    /\ runs # <<>> /\ EndRun
    /\ UNCHANGED <<status, podvars, agent>>

-----------------------------------------------------------------------------
Next ==
    \/ \E w \in Starter : StartWorkload(w)
    \/ CloseHosts \/ CloseStatus
    \/ BeginTask \/ Say \/ EndTask \/ Exec \/ PostRun \/ FinishRun
    \/ \E k \in Tool : Approve(k) \/ Deny(k) \/ Execute(k) \/ RecordTool(k)

Spec == Init /\ [][Next]_vars

-----------------------------------------------------------------------------
(* The session never has two Pods, however many requests ask for one.      *)
OnePod == Cardinality({w \in Starter : pod[w] \in {"starting", "running"}}) <= 1

(* A Pod that comes up when close() has returned does not stay once its     *)
(* start_workload() has returned as well (session.py 338-340), unless it    *)
(* could not be deleted.                                                   *)
NotLeftBehind ==
    \A w \in early : starter[w] = "over" => pod[w] \in {"gone", "stuck"}

(* However the tool calls, the user and other runs interleave, what a run   *)
(* has beyond its budget are executions of the harness itself, which do not *)
(* ask for it (session.py 150-162), ...                                    *)
BudgetHeld == \A r \in DOMAIN runs : runs[r].count <= MaxExec + runs[r].system

(* ... and what was executed in vain is at most the calls that were let     *)
(* through together (agent.py 329-352).                                    *)
OverrunBounded == refused <= Cardinality(Tool)
=============================================================================
