# A TLA+ model of the AgentCore code workbench

The workbench gives every *runtime session* (a conversation with a coding
agent on Amazon Bedrock AgentCore Runtime) one development environment: a Code
Interpreter sandbox, optionally a *workload Pod* for long builds and an Android
emulator, in a Pod or on an EC2 instance. Requests of one runtime session may
be served by any number of microVM processes, at the same time or one after the
other, and each process may be replaced at any moment; within one process the
threads of a REST API and the parallel tool calls of an agent use one session.
This directory models what those share: the record, lease and cache that keep a
session to one environment, the hosts the environment is made of, the agents in
them, and what is recorded and graded of the work. TLC checks the models; what
they promise most is proved with TLAPS.

Paths below are relative to the repository; `cwe/` stands for `src/cwe/`.

| Module | What it is |
|---|---|
| `SessionLease` | the conditional lease of one item: `DynamoLease` |
| `SingleServer` | the abstract promise of a lease, which `SessionLease` implements |
| `SessionGuard` | composes the lease with processes that keep a session, and the guard in it, from call to call |
| `StickyRuntime` | the calls of a runtime session: `runtime_app`, `SessionManager`, record, cache, sandbox and Pod |
| `SessionHosts` | composes `StickyRuntime` with what it takes as given: `Provision` (the sandbox), `JobHost` (Kubernetes Jobs), `WarmPool` (Android hosts on EC2), `Serialized` (the lock of a runtime session) |
| `SessionWork` | composes `SessionHosts` with what is done in a session: `DevSession` (runs, budgets, start and close), `AgentRun` (an agent's tool calls), `Recorder`, `Evaluation`, `Skills` |
| `WorkloadAgent` | `remote exec`: the client's retry and the agent's table of request ids |
| `PodAgents` | composes `WorkloadAgent` with the other handlers of the agents: `ProcessTable`, `Workspace`, `GradleBuild`, `DeviceScreen` |
| `MC*` | symmetry sets for TLC |
| `*Proofs` | theorems of the module they are named after; `SessionReportsProofs` holds those of `SessionWork` about what is reported (`AgentRun`, `Evaluation`), and its types |

The parts that `PodAgents`, `SessionHosts` and `SessionWork` compose are views of
one system. In the code some of their state is the same: `_current_run` and
`exec_count` are in `DevSession` and in `AgentRun`, the sandbox and the Pod in
`StickyRuntime` and in the modules of `SessionHosts`, `_record` in four of them.
As TLA+ variables each part has its own, and where another part changes what it
looks at, that is an action of its own: `AgentRun` has `BeginOther`, `EndOther`
and `RecordOther` for whoever begins a run, ends one or executes; `DevSession`
has a simpler agent; `Recorder` lets a call lose its lease. So each part
is complete for its own properties, and nothing relates the state of two parts.
The composed modules use that: `focus`, chosen at the start, says which part
moves, the others stay in their initial state, and TLC explores the sum of the
state spaces and not their product. Where a property is about state of both,
parts are one module (`DevSession` has runs, Pod and close together for that
reason), or one extends the other (`SessionGuard`).

## 1. Inventory

| Component | State it keeps | Operations that change it | Modelled by |
|---|---|---|---|
| Registry and lease (`cwe/registry.py`) | item: `lease_owner`, `lease_until`, `record`; per lease: `_expires`, `_lost`, the renewer thread | acquire, renew, release, put, delete | `SessionLease`; put and delete also in `StickyRuntime` |
| Runtime entry point (`cwe/runtime_app.py`) | `_by_runtime_session`, the lock map of `_serialized` | invoke, `_session`, `_remember`, `_forget_local`, `_serialized` | `StickyRuntime`, `SessionGuard`, `Serialized` |
| SessionManager (`cwe/session.py`) | `_sessions` | create, attach, close, detach, open_recorded | `StickyRuntime`, `Provision`, `Evaluation` |
| DevSession (`cwe/session.py`) | status, hosts, runs, current run, budget, results, reports | execute, start_workload, begin/end_run, evaluate, verify, sync, close | `DevSession`, `Evaluation`, `Workspace` |
| Job hosts (`cwe/eks.py`, `cwe/workload.py`) | Jobs, Secrets, tokens, port-forwards | start, connect, describe, attach, stop, reap | `JobHost`; as outcomes in `StickyRuntime` |
| Workload client and agent (`cwe/workload.py`, `cwe/workload_agent.py`) | `_requests`; `_procs`; the workspace | exec and its retry; start, stop, logs; fetch, write_files | `WorkloadAgent`, `ProcessTable`, `Workspace` |
| Sandbox and emulator (`cwe/sandbox.py`, `cwe/emulator.py`) | the Code Interpreter session, mock services | start, provision, invoke, stop | `Provision`; as outcomes in `StickyRuntime` |
| Recorder (`cwe/recorder.py`) | event file, sequence number, the S3 store's cached copy | record, append, evict | `Recorder` |
| Agent loop (`cwe/agent.py`) | usage meter, budget flag, lock of the tools, last reference | run_async, the PreToolUse hook, the tools | `AgentRun`; run_task also in `DevSession` |
| Evaluator (`cwe/evaluator.py`) | none; reads results, reports, verification | the rules and their weighing | `Evaluation` |
| Skills (`cwe/skills.py`) | `SKILL.md` per skill | save, approve, load, distill | `Skills` |
| Snapshots (`cwe/snapshot.py`) | the archive's one path in the sandbox | take, restore | `Workspace`; restore in `Provision` |
| Android hosts (`cwe/android.py`) | EC2 instances, their tags, token parameters, tunnels | claim, launch, connect, bind, stop; the commands android-pool and reap | `WarmPool` |
| Device agent (`device_agent/app.py`) | `SESSION`, build directories, `_record_procs`, files of the device | bind, build, install, ui, screenrecord | `WarmPool`, `GradleBuild`, `DeviceScreen` |
| Builder (`device_agent/builder.py`) | `LOCK`, a process group | build | `GradleBuild` |
| REST API (`cwe/api.py`) | a thread per request | none of its own | its handlers are the threads of `Provision`, `DevSession`, `AgentRun`, `Evaluation`, `Workspace` |
| GitHub and Kubernetes helpers, CLI parsing, configuration, infrastructure | none, or of another component | | see 8 |

How they interact: `invoke` takes the in-process lock, then the lease (an
object that renews itself in a thread of its own until the block ends), reads
the record with it, finds or makes a `DevSession`, acts, and writes the record
under the condition that the item still names its lease. A `DevSession` asks
its guard, `lease.check`, whenever it records an execution. Its hosts are
clients of agents in Pods and on instances, reached through tunnels that may
drop; each agent serves every request on a thread of its own. The REST API has
the same sessions without a lease, with several threads on one of them; the
agent loop calls its tools in parallel. Everything executed is recorded in an
event file, from which a run can be graded after the session is gone.

What is hard here, and what makes each part correct:

* **Lease.** An acquire or a renewal that arrives, or is answered, late; a
  repeated request; a crash while the item names the process; clocks that
  disagree. Two processes must never both pass `check`; a stale owner must not
  write; a release must be final; a healthy owner must not be refused.
* **Calls.** Crash or refused write between the creation of a sandbox and its
  record; a cache that another process outdated; errors inside the reattach,
  which one handler catches wholesale; a close that fails half way. The
  recorded session must be the one acted on; no environment may be forgotten;
  a session must stay with its sandbox.
* **Hosts.** A start that fails between a Job and its Secret, or when the
  session is already closed; kubectl that times out after it has succeeded;
  tags without compare-and-swap; a process that goes before what it started is
  recorded. Nothing that costs money may run unaccounted for; no two sessions
  may share a device.
* **Threads of a session.** Status, current run and budget are read at one
  time and used at another, the current run changes under its readers, and the
  harness executes without asking for the budget. A closed session must keep no
  Pod; a budget must hold up to the calls under way and the harness's own; a run
  must be graded by what it did.
* **Agents in the Pods.** Names, paths and files that overlapping requests
  share; a request that arrives after its own retry; a table that is full. A
  command must not run twice beside itself; what is answered must be what was
  asked for; a stop must end.
* **What is kept.** A file that is rewritten from a cached copy, by calls that
  may have lost their lease; a recording that clips what was long; files without
  locks. What was recorded must stay; what was not approved must not be read.

`PROJECT.json` lists every hazard with the line where it bites.

## 2. Plan

Done, in this order: `SessionLease` with `SingleServer` and its proofs;
`SessionGuard` and its proofs; `StickyRuntime` and `WorkloadAgent` with theirs; then
`DevSession`, `Recorder`, `Serialized`, `Skills`, `Provision`, `JobHost`,
`WarmPool`, `AgentRun`, `Evaluation` and their composition; `ProcessTable`,
`Workspace`, `GradleBuild`, `DeviceScreen` and theirs; `SessionWorkProofs`,
`SessionHostsProofs`, `PodAgentsProofs` and `SessionReportsProofs`. Every
invariant and every action property that a run checks is now also a theorem.

Left, the most important first:

1. That `StickyRuntime` uses leases as `SessionLease` allows, as
   `CallsUseTheLease` shows for `SessionGuard`; and a single Pod under the fault
   "crash", up to the Pods of the calls that crashed.
2. `close()` beside an execution or an evaluation that is under way: `Provision`
   has an execution that outlives its session, `Evaluation` does not.
3. The replay of a session from its recording.

## 3. The modules and the code

Names in a module are those of the code where TLA+ allows it. *History*
variables record what has happened for the sake of a property; most stand for
an exception that the code makes or a window it leaves open, so that the
property says: this, and nothing else, is how it goes wrong. They do not
restrict what a step may do, beyond counting towards a bound.

### SessionLease

The actors are lease objects, one per `with registry.lease(rid)` block; the
object stands for its `lease_owner` uuid. `owner` and `leaseUntil` are the
item, `stale` the set of leases whose copy of the record was overwritten,
`expires` and `lost` the fields of the object, `renewer`, `until` and `due` the
thread `_renew`. A conditional update is three steps: the client reads the
time (`Attempt`, `RenewSend`), DynamoDB decides (`AcquireApplies`,
`RenewApplies`, ...), the answer arrives (`Granted`, `RenewReturns`), so any
delay falls between two of them. `clock` is true time; `time.time()` is any
value of `clock .. clock + Skew`, anew at every reading.

Faults are named in the constant `Faults`: "network" (an update fails, or is
applied without an answer and repeated by botocore), "crash", "record" (the
record does not open, so `acquire` raises while the item names the lease).
`MaxStall` bounds delays; a value beyond `MaxClock` removes the bound.

### SingleServer

Whoever serves does so alone, and the next one only after a state in which
nobody serves. `SessionLease` implements it with `serving` := the leases whose
`check` passes.

### SessionGuard

`runtime_app` keeps the `DevSession` of a runtime session between calls.
`attach` and `create` give it the guard of the lease of that call; the call
that finds it in the cache does not replace the guard (`_session`, lines
102-110), and an old lease object is not renewed any more. `handler` is the
lease of the present call, `guard` that of the cached session. The module
extends `SessionLease`; `LeaseStep` is everything the lease does on its own.

### StickyRuntime

The steps of one call, `pc`, follow `invoke`: lease, `_session` (cache, or
attach, or drop the record and create), the action (exec, workload or close,
which stand for all: the other actions execute like exec or only read),
`_remember`, release. Of the lease the module keeps what `SessionLease`
proves: the item names at most one call, and a call may lose it to another
when it is dead or stalls (`Expirable`). `known` and `host` are
`manager._sessions` and each session's workload host, `cache` is
`_by_runtime_session`, `view` the record read with the lease. The sandbox and
the Job are environment: they end on their own under the faults "sandbox" and
"pod". Other faults: "swap" and "crash" (the process is replaced between
calls or within one), "registry" and "delete" (a write fails, applied or not),
"attach" (a request of the reattach fails although its target lives), "stop"
(the Job cannot be deleted, or the service refuses to stop the sandbox),
"stall". Where a new session could not be recorded or its start failed, the code
stops the sandbox and only logs it if that raises (`StopOrAbandon`,
`CreateFails`): the sandbox lives on, unrecorded, until its idle time-out.
`served` and `abandoned` are history variables; `abandoned` holds the sandboxes
given up in that way, by a crash before the record, or by a reattach that failed.

### SessionHosts: Provision, JobHost, WarmPool, Serialized

`StickyRuntime` sees the sandbox and the Pod of a session as one resource each.
These four modules are what it takes as given.

`Provision` is one session from `create` to `close` while the REST API already
lists it. `create`, `step`, `exec` and `closer` are where each thread is;
`info` is the sandbox the record names, `client` the one the SDK's client
would use. A command of a client that has no sandbox starts one, in `Invoke`:
that is what the SDK does. History: `stray` holds the sandboxes that came up
behind the back of a session that was over, `unstopped` those whose stop failed.

`JobHost` is the two kinds of hosts on Kubernetes, an Android one with a second
Job for its twin and a workload one. `job` and `secret` are the cluster's, `host`
the objects of the process, `record` what `describe` wrote. Each kubectl call
fails before or after it was applied. The record is what attaches: jobs and
tokens by position (`RecordAttachable`). History: `adrift` holds Jobs whose
deletion failed or which were let go unrecorded; the deadline in the Job is what
the code leaves them to.

`WarmPool` follows `_acquire_pool_instance` line by line, since its correctness
is in the order of describe, re-check, tag and verify, none of which excludes
another. `bound` is `SESSION` of the device agent; `_bind_lock` makes `Bind` one
step, and `AskBind` is the authorisation that precedes it. History: `rivals`
(who saw the instance ready when it re-checked), `reaped`, `undeleted`.

`Serialized` is the two critical sections around the lock of a runtime session,
and a lock that leaves the map with its last user.

### SessionWork: DevSession, AgentRun, Recorder, Evaluation, Skills

`DevSession` is one session object under the threads of the REST API: any
number of `start_workload` calls (the lock, the status read before the Pod and
after it), one `close`, executions (`Exec`), runs that a client begins and
finishes (`PostRun`, `FinishRun`), and one task whose tool calls run in parallel.
`runs` has a count and a budget flag per run; `cur` is `_current_run`, which
every thread shares. The actor "system" is the harness: a background task that
is waited for, and the command of a verification. `_record` does not ask the
budget about it and counts it all the same; `system` is how many of a run's
executions are such. History: `early` (a Pod that came up when close() was over)
and `refused` (the agent's executions refused after they ran). A Pod whose
deletion failed is "stuck".

`AgentRun` is one run of the agent over the SDK's stream. `unread` holds
messages that `run_async` has not consumed: several per response, each with
the usage of all of it, which is why `_UsageMeter` keeps `seen`. Run 1 is the
agent's; `cur` is the current run, which others end or replace at any time
(`start_workload`, a client's `/runs` and `/finish`, a message when there is
none). The hook and `_record` decide for the run that is current: only run 1 has
a budget, and only then do `over`, the count and the meter matter. `owner` says
who was recorded under each number of each run, so that the reference a tool
answers with, of whatever run `_require_run` then gives or begins, can be compared
with the execution it is for. A call may end unrecorded: a read, a failure, or a
guard that refuses. History: `lapped` (calls between whose lock and reference
another execution was recorded or the current run changed), `dropped` (a call
that had stored an artifact was not recorded), `covered` and `denied`.

`Recorder` has both stores. A bucket's file is rewritten from `cache`, which
only `close` and the death of a process evict; `live` are processes that keep
the session, `calls` those that are in a call of it, `serving` the one whose call
holds the lease. Nothing that is appended asks for the lease: notes and messages
never do, and an execution is asked before its number is drawn. A call that has
lost its lease (`LoseLease`) therefore records on, beside the call that was let
in next. History: `stale`, a process that serves again with the copy it had when
another served in between, or that records when another was let in last.

`Evaluation` is `evaluate` and `verify` step by step beside executions, and the
grading of the recording: after `close`, after a crash, or while the session
lives (which nothing prevents). Outcomes of executions and the
criteria of a caller are small sets. What is written to the file is `Clipped`: of
a `long` output the recording keeps the two ends, and what stood in the middle,
the tests it counted and the mark a rule looks for, is not there when the
recording is graded. The rule `file_exists` asks a list of files that is the
sandbox's while there is one, and is made of the events afterwards; either may
have the file without the other, so `there` is any answer each time. Modelled
rules: exit_code, no_errors, stdout_contains, stdout_not_contains, file_exists,
harness_verification, pytest and the judge. The others are left out:
stdout_regex reads outputs as stdout_contains does, instrumented_tests a report
in the metadata of the run as pytest does, max_execution_time and
device_action_count fields that the recording keeps as they are. History: `same`
(nothing was executed under the run since it was graded) and `mixed` (two
executions were being recorded at once, so that the order of the file is not the
order of the results).

`Skills` is one skill under processes without a lock; `put` of the local store
empties the file before it writes, from its beginning. Of two writers that both
have it open the later one covers what it is long enough for: the longer text's
tail stays behind a shorter one (`Over`), with the status of the shorter. A text
is the status `parse_skill` reads in it, which ends at the first `---`: the
description that a model distils may hold a line `status: approved` and that end
(`carries`). History: `approved`, `given`, `blended` (bodies of two texts),
`carried` (bodies of drafts with such a description).

### WorkloadAgent

A call of `WorkloadClient.exec` sends one body at most twice under one id, so
the call stands for its id and `request[c]` holds the two HTTP requests with
the state of each one's handler. `_claim_request` runs under a lock and is one
step: `Own`, `Join` or `Refuse`, with the eviction of the oldest quarter of the
finished entries (`MakeRoom`) inside it. `older` is the order of the field
`created`. The command ends (`Execute`, by itself, killed at its timeout or not
started) before the event is set (`Finish`), and joiners answer after it. A
joiner holds the entry and not the id, so it is served after an eviction, too.
`Flaky` calls may lose their connection before or after the request arrived;
`Slow` ones may keep a joiner waiting past `timeout + 30`.

### PodAgents: ProcessTable, Workspace, GradleBuild, DeviceScreen

`ProcessTable` is `_procs` of the workload agent. A process is its shell
(`leader`) and the others of its group (`rest`), which may outlive it. `/stop`
looks the name up under the lock and signals outside it. `/logs` answers with
the tail of the log, as much as its limit has room for, and says so when it cuts
(`cut` lines of the `lines` there were). `wrote` is the line of the log at which
a shell last wrote.

`Workspace` is `sync_workspace_to_workload`: the archive at its one path in the
sandbox, read back in a second call, then fetched, checked and unpacked by the
Pod's agent, file by file, while files are edited and other calls do the same.
History: `wanted` (the directory as it was archived), `disturbed` (a call whose
archive or destination another one wrote in between), `touched`.

`GradleBuild` has the builds of one host under either backend: the builder
beside the agent, which runs one Gradle at a time and answers 409 to others,
or a container per build. Directories are pruned by age by whoever builds
next. History: `waited`, how old a directory was when its Gradle began; the
builder allows a build as long as directories are kept, so one that had waited
may lose its directory for that long at the end.

`DeviceScreen` is the dump of the UI and the recording of the screen, each by
way of one file on the device (the parts "screen" and "device").
`/screenrecord/start` only starts adb (`StartRec`); that the recording begins, and
so that the file is its own, is a step of the device (`RecBegins`), which may
never come: the recording fails, or is stopped first. Then `/stop` returns the
recording that was there before. Only the table of recordings is under a lock;
`pkill` and the reading of the file are not. The adb that the agent started and
the recorder on the device are taken as one process.
History: `late`, recordings that began beside a later one while a `/stop` waited
for them.

## 4. What is checked

| Run | Result | Instance, and why it is enough |
|---|---|---|
| `SessionLease_safety` | pass | Two leases, every fault, no bound on delays, skew = margin (the worst case the assumption admits). Within 9 ticks a lease of 3 runs out, is taken over, and a renewal sent before is answered after. The proofs remove the bounds. |
| `SessionLease_timely` | pass | Delays of at most 1 and no failing call: `HolderPasses`; and `acquire` ends although the holder may crash. The lease time is the smallest that satisfies `TimelyRenewal`. |
| `SessionLease_busy` | violation | finding 1 |
| `SessionGuard_alone` | pass | Two processes, three calls: one process has a guard left over while the other takes the session and gives it back. The skew is half the margin (`ClocksAgree`); with a skew of the whole margin, which the lease itself tolerates, TLC finds `OldGuardIsSafe` violated. |
| `SessionGuard_cached` | violation | finding 2 |
| `StickyRuntime_calls` | pass | Two processes, three calls, two sandboxes, a Pod and every fault. Three calls are one that makes the environment, one elsewhere that changes it, one that meets what both left; the second sandbox is the one that replaces the first, or is made beside one left behind. The proofs remove the bounds. |
| `StickyRuntime_pods` | pass | `MCSessionWork`, one part at a time (below): 1.07 million states, about three minutes. |
| `StickyRuntime_twopods` | violation | finding 3 |
| `StickyRuntime_podgone` | violation | finding 4 |
| `WorkloadAgent_exec` | pass | `PodAgents`, one part at a time (below): 270 thousand states with liveness, about three minutes. |
| `WorkloadAgent_evicted` | violation | finding 5 |
| `Evaluation_harness` | violation | finding 6 |

The parts of `StickyRuntime_pods`:

* `StickyRuntime`: one process, replaced between calls, failing deletes, six
  calls and a Pod for each of three sandboxes.
* `Provision`: two requests, `MaxSandbox` = 3: the one that start() makes, one
  that a command starts in its place, one more behind a closed session.
* `JobHost`: two Android Jobs and one workload Job, so that a start fails between
  them and a stop deletes one and not the other.
* `WarmPool`: two sessions that claim one pool instance, one of which may launch
  the spare one instead.
* `Serialized`: three callers: one inside, one that waits for the same lock, one
  that comes when the entry is gone.
* `DevSession`: two `start_workload` calls, two parallel tool calls under a budget
  of `MaxExec` = 2, `MaxRuns` = 2 (the agent's and another), `MaxSystem` = 1
  execution of the harness in a run with a budget, and a close. The executions of
  runs without a budget are not counted: nothing asks how many they are.
* `AgentRun`: two parallel tool calls, `MaxTurns` = 1 response of cost 1, in one message
  or two, with `MaxCost` = 0 (it is exceeded once the message is read, and the
  hook may come before that), `MaxExec` = 2, `MaxUser` = 1 execution of a user or
  the harness, a second run (`MaxRuns` = 2) that takes one execution
  (`MaxOther` = 1).
* `Recorder`: two processes that open the session at most `MaxOpened` = 2 times (one
  returns with its old copy, or goes on without its lease), two threads,
  `MaxEvents` = 3: one that both have, one of each.
* `Evaluation`: one worker, at most `MaxExec` = 2 executions and two runs, an
  outcome that is long among three, two sets of criteria that between them use
  every modelled rule.
* `Skills`: two drafts and two approvals of one skill, texts short or long (`Length`).

One part moves at a time, so parts may use the same values: `w1`, `w2` and `y1`,
`y2` are the threads of several. That lets one symmetry set of `MCSessionWork`
reduce them all; no property of this run is a liveness property, and no part
names one of these values.

The parts of `WorkloadAgent_exec`:

* `WorkloadAgent`: three calls and a table of two: the smallest table in which
  an entry is evicted while another still runs, and in which a call is refused.
* `ProcessTable`: two processes of one name, two `/stop`, one `/logs`, `MaxOutput` = 2
  lines (one may be cut off) and every limit.
* `Workspace`: two syncs of two files into the workspace or a directory of it,
  `MaxEdits` = 2 versions.
* `GradleBuild`: two builds and four hours (`MaxTime` = 3), where the builder allows
  one (`MaxTimeout`), containers two (`MaxDocker`) and a directory lives one (`MaxAge`):
  the ratios of the code.
* `DeviceScreen`: two `/ui` that overlap and one change of the screen; and, apart
  from them, two `/screenrecord/stop` and two recordings. The two use files of
  their own, and each has a `focus` of its own ("screen", "device").

All other bounds that are not of the code: `MaxClock` (time stops), `MaxCalls`
(invocations), and the finite sets of leases, sessions, Pods and calls, each
used once. Because actors are used up, behaviours end and deadlock is not
checked; that calls do end is checked as liveness. Lease objects, processes,
sessions and Pods are interchangeable and reduced by symmetry in the runs of
`MCSessionLease`, `MCSessionGuard` and `MCStickyRuntime` without liveness, as
threads are in `MCSessionWork`.

The properties, by what they protect:

* `GuardExclusive`, `ServesAlone`, `ExecutesAlone`, `OldGuardIsSafe`: at most
  one process records executions, with the guard of this call or an older one.
* `OwnerViewIsCurrent`, `ServesRecorded`: "the record read under the lease is
  the truth".
* `CleanRelease`, `HolderPasses`: a late renewal neither brings a lease back
  nor costs a healthy owner its lease.
* `OneEnvironment`, `Sticky`: no live sandbox is forgotten, and a runtime
  session leaves its sandbox only if that is gone or was given up by a crash,
  by a failed reattach, or by a stop that the service refused after a failed
  start or a refused record. The exceptions are those the code has; they are the
  history variable `abandoned` and stopped Pods (`GivenUp`). A sandbox in
  `abandoned` costs money until its idle time-out: the property says when that
  may happen, not that it does not.
* `OnePodPerSession`, `PodReachable`: with one process. With two, see finding 3.
* `NothingRunsUnaccounted`: when everybody is done with a session, no sandbox
  runs but a `stray` or `unstopped` one, a listed session uses the sandbox its
  record names, every Job that runs is held, recorded or `adrift`, and what is
  recorded can be attached.
* `HostOfItsOwn`: two sessions are never on one Android host; the host of a
  session is taken away only by a rival of the same claim or for its age; no
  token stays in the parameter store unless its deletion failed.
* `OneInside`: `_serialized` serialises, although its locks come and go.
* `NotLeftBehind`, `BudgetHeld`: Pods and close(), budgets and parallel calls. What
  a run has beyond its budget is no more than the harness's own executions in it;
  to which run an execution is charged is whichever is current when it is recorded.
* `AgentToldTrue`: the reference, the cost, the artifacts and the outcome an
  agent or its caller is told are those of what it did. A reference may be of
  another execution, or another run, if one was recorded or begun since the lock
  (`lapped`); an artifact may be overwritten if its own call was refused (`over`)
  or dropped.
* `EventsKept`: a recorded event stays, but in a bucket's file when a process
  records from an old copy, returned or with its lease lost (`stale`); numbers are
  given once.
* `VerdictStands`: the harness's counted tests decide, the recording gives the
  verdict of the live session, and close() has the last word on what is saved. The
  recording gives it if no output was too long for it, `file_exists` finds the
  same and the judge says the same.
* `AgentReadsApproved`: what an agent loads some approve() has read, unless two
  texts were written over each other (`blended`) or the draft's description
  carries a status (`carried`). In these two cases a draft may reach an agent.
* `RunsAgainOnlyIfEvicted`, `NeverBesideItself`, `ReturnsAResult`,
  `RefusedOnlyWhenFull`: what is left of "runs once" when a table forgets.
* `NamedProcesses`, `SyncExact`, `BuildsApart`, `ScreenOwn`: requests that share
  a name, a path, a directory or a file get what they asked for, up to the
  exceptions named above. A `/logs` that says the shell is over has the last line
  it wrote, or says that its limit has cut it off (others of its group may have
  written more behind it).
* `TypesOK` and the `TypeOK` of each module (of `SessionWork`, the module that is
  looked at, since the others stand still): types, with some bounds that are
  more than that (in the agent's run every execution beyond the budget is the
  harness's, no table is beyond its size).

## 5. Fairness

Safety runs assume none. `AcquireReturns` assumes that time goes on and weak
fairness of a lease's acquire, renewal and release: each is a thread with no
lock to wait for, and DynamoDB calls have timeouts. It holds although a crashed
holder is not fair. `CallEnds` assumes weak fairness of every handler of the
agent (one thread per request; a command is killed at its timeout) and of the
client reading an answer that came. No fairness is assumed of retries, of
dropped connections or of a command that outlives its timeout. `StopAnswers`
assumes weak fairness of each `/stop` handler, a thread of its own whose wait
has a timeout and which then kills; nothing is assumed of the process it stops,
which may ignore SIGTERM for ever.

## 6. What is proved

All theorems hold for any number of actors and any values of the constants
that satisfy the named assumptions.

`SessionLeaseProofs`, from `LeaseAssumption` (clocks apart by no more than the
10 seconds `check` keeps back, and by no more than the renewal interval):

* `LeaseInvariant`. `GuardExclusive` is not inductive: it does not say what a
  handler may still learn. `LeaseInv` adds that a time a handler knows, *or may
  still be told* (in an answer under way), is no later than the stored
  `lease_until` while the item names it, and is behind the clock of anybody
  who took the lease over otherwise. The case that needs care is `Acquirable`:
  the new owner's clock is past the stored expiry, hence past the old owner's.
* `AtMostOneGuard` (`GuardExclusive`), `RecordIsTruth` (`OwnerViewIsCurrent`),
  `ReleaseIsFinal` (`CleanRelease`), and `RefinesSingleServer`: every step is a
  hand-over of `SingleServer` or a stutter.
* `HolderKeepsLease`: under `TimelyRenewal` (no failing call, and
  3 delays + renewal interval + 2 skews + margin below the lease time) the
  holder is never refused. With the 120, 20 and 10 seconds of the code that allows
  for delays of almost 30 seconds when clocks agree.

`StickyRuntimeProofs`, from `StickyAssumption` (the null values are no
elements):

* `TypeCorrect` and `StickyInvariant`. The invariant ties the record to the call that owns it at
  each step (`OwnersRecord`), keeps Pods with their sessions, and says that a
  session nobody made yet is named nowhere (`Fresh`), without which a new
  session could be one that a stale cache already names.
* `ActsOnTheRecord`, `NoSecondEnvironment`, `StaysWithItsSession`.
* `OnePodForASession` (`OnePodPerSession`), assuming `OneProcess` (one at a time,
  replaced as often as one likes) and `CallsRecord` (no fault "crash" or
  "registry"; under either, and with two processes, TLC finds a second Pod).
  `PodsInv` says that whoever serves holds the lease and that a Pod which runs
  is found by whoever serves its session: as its host if the session is managed,
  else in the record. A Pod is started only by a call that found none.
* `PodsAreReachable` (`PodReachable`), assuming `OneProcess` and `SessionsStay`
  (faults "swap", "stall", "delete" and "pod" only). A sandbox that is gone, a
  reattach that fails and a Job that cannot be deleted make the code give a
  session up, and its Pod is then left to the Job's deadline. Without those,
  `ReachInv` says that a Pod which runs is that of the recorded session, and
  that no call is about to start over.

`WorkloadAgentProofs`, from `AgentAssumption` (finitely many calls):

* `AgentInvariant`: handlers agree with the entries they own, an id whose
  command is in flight stays in the table, an id that was run is in the table
  or was evicted, and every good answer has a run that is done.
* `RerunsNeedEviction`, `OneRunAtATime`, `ReturnedIsOver`.
* `RefusalIsJustified`, with the bound on the table and the cardinality of what
  is evicted.
* `RunsOnceWithRoom`: with no more calls than `MAX_REQUESTS` the documented
  promise holds as it stands. It is the counterpart of finding 5.

These three modules also prove the type invariant of theirs (`TypeCorrect`).

`SessionGuardProofs`, from `LeaseAssumption` and, for the two results,
`ClocksAgree`: two readings of the clock differ by at most half the margin of
`check()`, 5 of its 10 seconds.

* `OldGuardIsHarmless` (`OldGuardIsSafe`) and `OneProcessExecutes`
  (`ExecutesAlone`). A process uses its leases as `SessionLease` allows
  (`CallsUseTheLease`), so the lease invariant holds. A guard of an earlier call
  knows an expiry no further away than one lease time from the fastest clock
  (`Bounded`); the present call's request is read from a clock at most the skew
  behind, so the old expiry is at most one skew after the time the item is held
  until (`OldGuardRunsOut`), and whoever takes the item over has waited for that
  by a clock that may itself run one skew ahead. The skew therefore counts
  twice, where it counts once for a guard of the present call.

`SessionWorkProofs`, about `WSpec`. A step of the whole is a step of each part
or leaves it alone (a lemma per part), so each theorem rests on the invariant
of one part:

* `CallsAreOneAtATime` (`OneInside`): the invariant counts the users of the entry and
  says that a lock which is not in the map has nobody who waits for it or is inside.
* `ReadIsApproved` (`AgentReadsApproved`): what is about to be written as
  approved was loaded by an approve() or carries its status, and what has the
  tail of another text is `blended`.
* `PodsOfASession` (`NotLeftBehind`): only the holder of `_workload_lock` has a
  Pod that is not attached yet, and one whose Pod came up after close() has the
  check of the status, which is final, still to come.
* `BudgetIsHeld` (`BudgetHeld`): a run's count is raised within its budget or
  together with the harness's own; and each refused execution was let through
  by the hook before the run's flag was set, and is one of the calls then open.

* `RecordedIsKept` (`EventsKept`): until a copy is `stale`, the process that was let
  in last, with or without its lease, has every acknowledged line in what it would
  write back; a line is identified by its opening and its number, wherever it is
  kept, and is either waiting in one thread or written once.

`SessionHostsProofs`, also about `WSpec`:

* `AllIsAccountedFor` (`NothingRunsUnaccounted`). Of sandboxes (`SandboxesInv`): one
  that runs is `stray`, `unstopped` or the client's, and no longer the client's
  once create() has raised or close() has stopped it; until then the record and
  the client name the same. Of Jobs (`JobsInv`): at each step of a start, a stop
  or a reattach, the host's object has the Jobs created so far, each with its
  token at the same place; a Job with a Secret is the host's while the host may
  still stop it, or in the record, or `adrift`; and the record names all of a
  host or nothing of it.
* `HostsAreOwn` (`HostOfItsOwn`): an agent serves the session that launched its
  instance or the first that bound it; who holds an instance of the pool has seen
  it ready, so that whoever stops what another one holds is its rival for it.

`SessionReportsProofs`, about `WSpec`, of what is reported:

* `RecordingGivesVerdict` (`VerdictStands`). What the events of a file have of a
  run is computed by recursion; appending an event appends to it (by induction).
  While the session lives, unless two executions were being recorded at once,
  the results of each run are what the file has of it, up to the one execution
  that is not written yet (`RecordingFollows`), clipped; and clipping changes nothing
  if none was long. So when the session is over the recording has all that was
  graded, and the rules, which the proof never opens, come to the same on the
  same results and the same answer to `file_exists`. A report that was made late
  is made of what is saved (`VerdictInv`).
* `AgentIsToldTrue` (`AgentToldTrue`). A reference read after the lock was left is
  of the call's own execution unless another was recorded or the current run
  changed since (`RefsFollow`);
  an artifact bears the next number only while its call has the lock
  (`ShotsFollow`); the meter has the first m responses, and the unread messages
  run in order from m or m + 1 to the last (`MeterFollows`), so that counting
  once per id leaves nothing out and nothing counted twice.
* `AllTypesAreKept`, of every part at once, and from it `TypesAreKept` (`TypesOK`
  of `SessionWork`, which is about the part that is looked at), for finitely many
  callers of the lock, since `Serialized` counts them. Most parts follow from the invariants
  above; the bound on the recorder's sequence number needs that the lines of a
  file or of a copy, with the events that are on their way, are no more than the
  events there were (`DrawnInv`).

`PodAgentsProofs`, about `PSpec`, in the same way:

* `ScreensAreOwn` (`ScreenOwn`): the file shows a screen no older than a dump
  begun before it; every recording but the registered one is about to be
  stopped by a `/stop`; and once a recording has begun, the file is its own, a
  later one's, or that of one which began late.
* `ProcessesAreNamed` (`NamedProcesses`): a live shell is the one its name has
  in the table; a `/stop` past its wait has seen the shell's end or kills it; a
  log read after the shell's end has no fewer lines than the shell's last.
* `BuildsAreApart` (`BuildsApart`), assuming `MaxTimeout <= MaxAge`, which is how
  the code sets `MAX_SIDECAR_TIMEOUT` and `max_age`: whoever has live processes
  holds the lock, and a deadline is no later than the directory's age, the wait
  and the time-out allow.
* `SyncedFilesAreExact` (`SyncExact`): a call that is not disturbed has its own
  directory in the archive, then in what it read, then file after file in the
  destination; and only a call that passed the check has touched a file.
* `PodTypesAreKept` (`TypesOK` of `PodAgents`): each part's types are inductive with
  little more; a `/logs` under way has a process (`ProcsTyped`), and no directory
  was written in a time to come (`GradleTyped`).

Assumptions that are not of the constants' types are these, each explained where
it is used: `LeaseAssumption`, `ClocksAgree`, `TimelyRenewal`, `OneProcess`,
`CallsRecord`, `SessionsStay`, `MaxTimeout <= MaxAge`, and finite sets of calls
(`WorkloadAgent`), tool calls (`DevSession`) and callers (`Serialized`).

The library states induction over numbers for an operator that is a parameter,
which the provers cannot instantiate. `SessionHostsProofs` therefore derives it from
well-foundedness for *sets* (`Induction`, `InductionUpTo`: a set with 0 and every
successor has all), and from it that a function defined by recursion exists
(`RecursionExists`). Tables over sequences (`OutsTable`, the sums of costs) are
proved with these; in the modules they are recursive functions.

Only model-checked: the liveness properties `AcquireReturns`, `CallEnds` and
`StopAnswers` with the fairness they need, which is out of this prover's reach
as is ENABLED. What the evaluation's rules come to (`Aggregate`) is opened by no
proof: `VerdictStands` needs only that they are a function, so that a rule that
says something else than the code is for TLC and its mutants to find. No module
declares a RECURSIVE operator.

## 7. Findings

1. **"busy in another process" without another process** (`cwe/registry.py:162`,
   `SessionLease_busy`). When the answer to the first acquire is lost, botocore
   repeats it; the condition fails on the caller's own uuid, and `acquire`
   waits for itself until it gives up.
2. **A cached session keeps the guard of an earlier call**
   (`cwe/runtime_app.py:108`, `SessionGuard_cached`). Once the old lease time
   has passed, a process that holds a good lease is told "session lease lost".
   It errs on the safe side: `OldGuardIsSafe`.
3. **Two Pods for one session** (`cwe/runtime_app.py:106`,
   `StickyRuntime_twopods`). The cache is compared with the record by session
   id only. A process that has the session cached does not see the Pod another
   one recorded since, starts a second one and overwrites the record of the
   first.
4. **A lost Pod loses the sandbox** (`cwe/session.py:652`,
   `StickyRuntime_podgone`). After a swap the reattach needs every recorded
   host; if the Pod's Job is over, the whole record is dropped and the session
   starts over, although its sandbox is READY.
5. **A retry runs the build again** (`cwe/workload_agent.py:143`,
   `WorkloadAgent_evicted`). Finished entries are evicted by the time they were
   *created*: a long build that ended a moment ago is the oldest, and is
   forgotten just before the client, whose connection dropped, asks for it.
6. **The pytest rule may pass on the agent's word** (`cwe/session.py:502`,
   `Evaluation_harness`). A verification that ends without counting a test (a
   collection error) gives way to the run's own report or results, and those
   are of the agent's executions. `HarnessDecides` is what does hold: as soon
   as the harness counted a test, nothing else matters.

The exceptions in the properties are observations of the same kind, which no
document contradicts:

* a process that returns to a session, or whose call has outlived its lease,
  rewrites the bucket's event file from its old copy, and what another recorded
  meanwhile is lost (`cwe/recorder.py:104`, `stale`);
* a sandbox whose start failed, or whose record was refused, and that the service
  then refuses to stop lives on and no process knows of it
  (`cwe/runtime_app.py:82`, `cwe/session.py:574`, `abandoned`);
* a background task that is waited for and a verification in mode "same" count
  towards the budget of the run without being asked for it (`cwe/session.py:155`,
  `system`), and an execution that the budget refuses has already run;
* the reference a tool answers with is of whatever was recorded last in whatever
  run is current by then (`cwe/session.py:172`, `lapped`);
* grading a recording while its session lives saves the older `session.json` over
  the newer; and the recording may give another verdict than the session did, for
  it lacks the middle of long outputs and lists other files (`cwe/session.py:500`);
* two saves of a skill and an approve() overwrite each other, in the local store
  also in part (`blended`), and a distilled description may approve its own draft
  (`cwe/skills.py:42`, `carried`);
* a Pod that is attached while close() stops the sandbox, its hosts already
  stopped and its status not yet set, is left to its deadline (`early` holds those
  that come later);
* the token parameter of a pool instance that nobody claims stays when the
  instance is reaped;
* a recording that never began is not told from the one before it, which `/stop`
  then returns (`device_agent/app.py:681`, `began`);
* a build that uses all of its hour after a wait may lose its directory in its
  last moments (`waited`).

## 8. What is not modelled, and why

* The store registry, used without DynamoDB: it has no lease and is meant for
  one local process.
* `expires_at`, the TTL of the whole item (days), sealing of records, KMS.
* An error of the deletion of a Pod whose start failed, in `StickyRuntime`; it is
  in `JobHost`. The Android host is stored, recorded and reattached as the
  workload host is; `StickyRuntime` has one host per session.
* `close()` beside an evaluation under way (see 2), viewer access tokens, and
  requests that only read, among them server-sent events and /ps.
* The replay sandbox, which reads a recording; the AgentCore evaluator service
  and the model that judges, whose opinion is any.
* The rules of the evaluator named in 3, whose inputs the recording keeps or that
  read what another rule reads.
* The port-forward's own restarts, node pools and manifests; what tar, adb,
  Gradle and pytest do beside the outcome the code looks at.
* GitHub and Kubernetes helpers: calls of outside services without state;
  command line parsing, configuration, data models; Terraform, image builds,
  scripts and examples.
