---------------------------- MODULE StickyRuntime ----------------------------
(***************************************************************************)
(* One runtime session as the AgentCore Runtime serves it                  *)
(* (src/cwe/runtime_app.py on src/cwe/session.py's SessionManager): several *)
(* processes, each with a cache of its own, find the session's sandbox and  *)
(* workload Pod through the DynamoDB record.  Each process serves one call  *)
(* at a time (module Serialized) and holds the lease meanwhile; of the      *)
(* lease only what SessionLease proves is kept: the item names at most one  *)
(* call, and a call may lose it.                                           *)
(***************************************************************************)
EXTENDS Integers, FiniteSets

CONSTANTS
    Proc, NoProc,   \* Runtime processes (microVMs)
    Sid, NoSid,     \* DevSessions; each has one Code Interpreter sandbox
    Pod, NoPod,     \* workload Jobs
    Faults,         \* what may go wrong: a subset of {"swap", "crash", "stall",
                    \* "registry", "attach", "delete", "stop", "pod", "sandbox"}
    MaxCalls        \* bound: invocations

ASSUME StickyAssumption ==
    /\ NoProc \notin Proc /\ NoSid \notin Sid /\ NoPod \notin Pod
    /\ MaxCalls \in Nat

VARIABLES
    sandbox, pod,       \* the cloud: state of every sandbox and of every Job
    session,            \* the session a Job was started for
    owner, record,      \* the table item: lease_owner, record
    leased,             \* processes whose present call took the lease
    known, host,        \* manager._sessions and each one's workload host
    cache,              \* _by_runtime_session[rid]
    pc, action, sid,    \* the call in progress: its step, action and session
    view,               \* lease.record
    calls,              \* invocations so far
    served,             \* history: the session of the last execution
    abandoned           \* history: sessions left alive without a record by a
                        \* crash, a failed reattach or a failed stop

cloud  == <<sandbox, pod, session>>
table  == <<owner, record>>
memory == <<known, host, cache>>
call   == <<pc, action, sid, view, leased>>
vars == <<cloud, table, memory, call, calls, served, abandoned>>

Action == {"exec", "workload", "close"}
Record == [sid: Sid, pod: Pod \cup {NoPod}]
NoRecord == [sid |-> NoSid, pod |-> NoPod]
Pc == {"idle", "lease", "session", "attach", "attached", "drop", "create",
       "created", "act", "pod", "delete", "final", "release"}

TypeOK ==
    /\ sandbox \in [Sid -> {"none", "ready", "stopped"}]
    /\ pod \in [Pod -> {"none", "running", "stopped"}]
    /\ session \in [Pod -> Sid \cup {NoSid}]
    /\ owner \in Proc \cup {NoProc}
    /\ record \in Record \cup {NoRecord}
    /\ leased \in SUBSET Proc
    /\ known \in [Proc -> SUBSET Sid]
    /\ host \in [Proc -> [Sid -> Pod \cup {NoPod}]]
    /\ cache \in [Proc -> Sid \cup {NoSid}]
    /\ pc \in [Proc -> Pc]
    /\ action \in [Proc -> Action]
    /\ sid \in [Proc -> Sid \cup {NoSid}]
    /\ view \in [Proc -> Record \cup {NoRecord}]
    /\ calls \in 0 .. MaxCalls
    /\ served \in Sid \cup {NoSid}
    /\ abandoned \in SUBSET Sid

Owns(p) == owner = p /\ p \in leased
Goto(p, step) == pc' = [pc EXCEPT ![p] = step]

Init ==
    /\ sandbox = [s \in Sid |-> "none"]
    /\ pod = [j \in Pod |-> "none"]
    /\ session = [j \in Pod |-> NoSid]
    /\ owner = NoProc /\ record = NoRecord /\ leased = {}
    /\ known = [p \in Proc |-> {}]
    /\ host = [p \in Proc |-> [s \in Sid |-> NoPod]]
    /\ cache = [p \in Proc |-> NoSid]
    /\ pc = [p \in Proc |-> "idle"]
    /\ action = [p \in Proc |-> "exec"]
    /\ sid = [p \in Proc |-> NoSid]
    /\ view = [p \in Proc |-> NoRecord]
    /\ calls = 0 /\ served = NoSid /\ abandoned = {}

-----------------------------------------------------------------------------
(* The table: conditional writes under the lease *)

(* Mutant: put and delete carry no condition. *)
WrittenAnyway(p, r) == record' = r

Written(p, r) == Owns(p) /\ record' = r

(* Refused by the condition, or failed; a failed write may have applied. *)
NotWritten(p, r, fault) ==
    \/ ~Owns(p) /\ UNCHANGED record
    \/ fault \in Faults /\ (UNCHANGED record \/ Written(p, r))

(* Mutant: the record leaves out the hosts. *)
EntryWithoutHosts(p) == [sid |-> sid[p], pod |-> NoPod]

(* registry_record of the session a process serves *)
Entry(p) == [sid |-> sid[p], pod |-> host[p][sid[p]]]

(* _by_runtime_session.pop *)
Forget(p) == cache' = [cache EXCEPT ![p] = NoSid]

(* The live session objects of p: cleared when it leaves the manager. *)
Drop(p, s) ==
    /\ known' = [known EXCEPT ![p] = @ \ {s}]
    /\ host' = [host EXCEPT ![p][s] = NoPod]

-----------------------------------------------------------------------------
(* invoke: lease, _session *)

StartCall(p, a) ==
    /\ pc[p] = "idle"
    /\ calls < MaxCalls
    /\ calls' = calls + 1
    /\ action' = [action EXCEPT ![p] = a]
    /\ Goto(p, "lease")
    /\ UNCHANGED <<cloud, table, memory, sid, view, leased, served, abandoned>>

(* A lease runs out after a crash, or while its holder does not get to run. *)
Expirable == owner \notin leased \/ "stall" \in Faults

TakeLease(p) ==
    /\ pc[p] = "lease"
    /\ owner = NoProc \/ Expirable
    /\ owner' = p
    /\ leased' = leased \cup {p}
    /\ view' = [view EXCEPT ![p] = record]
    /\ Goto(p, "session")
    /\ UNCHANGED <<cloud, record, memory, action, sid, calls, served, abandoned>>

Busy(p) ==
    /\ pc[p] = "lease"
    /\ owner # NoProc
    /\ Goto(p, "idle")
    /\ UNCHANGED <<cloud, table, memory, action, sid, view, leased, calls, served, abandoned>>

CloseNothing(p) ==
    /\ pc[p] = "session"
    /\ action[p] = "close" /\ cache[p] = NoSid /\ view[p] = NoRecord
    /\ Goto(p, "release")
    /\ UNCHANGED <<cloud, table, memory, action, sid, view, leased, calls, served, abandoned>>

(* Mutant: the cache is not compared with the record. *)
CacheTrusted(p) == cache[p] # NoSid /\ cache[p] \in known[p]

CacheHolds(p) == cache[p] # NoSid /\ cache[p] = view[p].sid /\ cache[p] \in known[p]

UseCached(p) ==
    /\ pc[p] = "session"
    /\ CacheHolds(p)
    /\ sid' = [sid EXCEPT ![p] = cache[p]]
    /\ Goto(p, "act")
    /\ UNCHANGED <<cloud, table, memory, action, view, leased, calls, served, abandoned>>

(* The cache is empty or outdated: forget it and follow the record. *)
FollowRecord(p) ==
    /\ pc[p] = "session"
    /\ ~CacheHolds(p)
    /\ ~(action[p] = "close" /\ cache[p] = NoSid /\ view[p] = NoRecord)
    /\ Forget(p)
    /\ IF cache[p] # NoSid /\ cache[p] # view[p].sid
         THEN Drop(p, cache[p])
         ELSE UNCHANGED <<known, host>>
    /\ Goto(p, IF view[p] = NoRecord THEN "create" ELSE "attach")
    /\ UNCHANGED <<cloud, table, action, sid, view, leased, calls, served, abandoned>>

(* Mutant: a session with a Pod is not reattached. *)
AttachableAlone(p) == sandbox[view[p].sid] = "ready" /\ view[p].pod = NoPod

(* manager.attach: a session still managed here is taken as it is; else the *)
(* sandbox must be READY and every recorded Pod Running.                    *)
Attachable(p) ==
    /\ sandbox[view[p].sid] = "ready"
    /\ view[p].pod # NoPod => pod[view[p].pod] = "running"

Attach(p) ==
    LET s == view[p].sid IN
    /\ pc[p] = "attach"
    /\ s \in known[p] \/ Attachable(p)
    /\ known' = [known EXCEPT ![p] = @ \cup {s}]
    /\ host' = [host EXCEPT ![p][s] = IF s \in known[p] THEN @ ELSE view[p].pod]
    /\ cache' = [cache EXCEPT ![p] = s]
    /\ sid' = [sid EXCEPT ![p] = s]
    /\ Goto(p, "attached")
    /\ UNCHANGED <<cloud, table, action, view, leased, calls, served, abandoned>>

(* Any error ends the reattach: what is recorded is gone, or only a request *)
(* to it failed, and then a live session is given up.                      *)
AttachFails(p) ==
    /\ pc[p] = "attach"
    /\ view[p].sid \notin known[p]
    /\ \/ ~Attachable(p) /\ UNCHANGED abandoned
       \/ /\ "attach" \in Faults
          /\ abandoned' = IF Owns(p) THEN abandoned \cup {view[p].sid} ELSE abandoned
    /\ Goto(p, "drop")
    /\ UNCHANGED <<cloud, table, memory, action, sid, view, leased, calls, served>>

(* _remember after the reattach; if it fails, the exception handler around *)
(* the reattach goes on to a fresh session.                                *)
RememberAttached(p) ==
    /\ pc[p] = "attached"
    /\ \/ Written(p, Entry(p)) /\ Goto(p, "act") /\ UNCHANGED <<cache, abandoned>>
       \/ /\ NotWritten(p, Entry(p), "registry")
          /\ Forget(p)
          /\ abandoned' = IF Owns(p) THEN abandoned \cup {sid[p]} ELSE abandoned
          /\ Goto(p, "drop")
    /\ UNCHANGED <<cloud, owner, known, host, action, sid, view, leased, calls, served>>

(* Mutant: the hosts stay in the record. *)
DropSessionOnly(p) ==
    /\ pc[p] = "drop"
    /\ Written(p, [record EXCEPT !.sid = NoSid]) \/ NotWritten(p, NoRecord, "delete")
    /\ Goto(p, "create")
    /\ UNCHANGED <<cloud, owner, memory, action, sid, view, leased, calls, served, abandoned>>

DropRecord(p) ==
    /\ pc[p] = "drop"
    /\ Written(p, NoRecord) \/ NotWritten(p, NoRecord, "delete")
    /\ Goto(p, "create")
    /\ UNCHANGED <<cloud, owner, memory, action, sid, view, leased, calls, served, abandoned>>

Create(p) ==
    /\ pc[p] = "create"
    /\ \E s \in Sid :
         /\ sandbox[s] = "none"
         /\ sandbox' = [sandbox EXCEPT ![s] = "ready"]
         /\ known' = [known EXCEPT ![p] = @ \cup {s}]
         /\ sid' = [sid EXCEPT ![p] = s]
         /\ cache' = [cache EXCEPT ![p] = s]
    /\ Goto(p, "created")
    /\ UNCHANGED <<pod, session, table, host, action, view, leased, calls, served, abandoned>>

(* Mutant: the session that could not be recorded is not closed. *)
RememberCreatedKept(p) ==
    /\ pc[p] = "created"
    /\ \/ Written(p, Entry(p)) /\ Goto(p, "act") /\ UNCHANGED cache
       \/ /\ NotWritten(p, Entry(p), "registry")
          /\ Forget(p)
          /\ Goto(p, "release")
    /\ UNCHANGED <<cloud, owner, known, host, action, sid, view, leased, calls, served, abandoned>>

(* sandbox.stop of a session nobody else knows; when the service refuses,   *)
(* that is only logged, and the sandbox stays.                             *)
StopOrAbandon(s) ==
    \/ sandbox' = [sandbox EXCEPT ![s] = "stopped"] /\ UNCHANGED abandoned
    \/ "stop" \in Faults /\ abandoned' = abandoned \cup {s} /\ UNCHANGED sandbox

(* _remember(created=True): without a record the new session is closed. *)
RememberCreated(p) ==
    /\ pc[p] = "created"
    /\ \/ /\ Written(p, Entry(p))
          /\ Goto(p, "act")
          /\ UNCHANGED <<sandbox, memory, abandoned>>
       \/ /\ NotWritten(p, Entry(p), "registry")
          /\ StopOrAbandon(sid[p])
          /\ Drop(p, sid[p])
          /\ Forget(p)
          /\ Goto(p, "release")
    /\ UNCHANGED <<pod, session, owner, action, sid, view, leased, calls, served>>

(* manager.create: the start fails after the sandbox exists, and so does its stop. *)
CreateFails(p) ==
    /\ pc[p] = "create"
    /\ "stop" \in Faults
    /\ \E s \in Sid :
         /\ sandbox[s] = "none"
         /\ sandbox' = [sandbox EXCEPT ![s] = "ready"]
         /\ abandoned' = abandoned \cup {s}
    /\ Goto(p, "release")
    /\ UNCHANGED <<pod, session, table, memory, action, sid, view, leased, calls, served>>

-----------------------------------------------------------------------------
(* _invoke: the action *)

(* exec is recorded only while the lease guard passes; then the item names *)
(* this call (SessionLease).                                               *)
Exec(p) ==
    /\ pc[p] = "act" /\ action[p] = "exec"
    /\ Owns(p) /\ sandbox[sid[p]] = "ready"
    /\ served' = sid[p]
    /\ Goto(p, "final")
    /\ UNCHANGED <<cloud, table, memory, action, sid, view, leased, calls, abandoned>>

(* The call raises: no sandbox can be started (or it is stopped again), the *)
(* guard refuses (a session kept in the cache has that of an earlier call, *)
(* see SessionGuard), the sandbox is gone, the Pod does not start and its  *)
(* host deletes the Job, or what was done cannot be recorded or reported.  *)
Raise(p) ==
    /\ \/ pc[p] \in {"create", "final"}
       \/ pc[p] = "act" /\ action[p] # "close"
    /\ Goto(p, "release")
    /\ UNCHANGED <<cloud, table, memory, action, sid, view, leased, calls, served, abandoned>>

KeepWorkload(p) ==
    /\ pc[p] = "act" /\ action[p] = "workload"
    /\ host[p][sid[p]] # NoPod
    /\ Goto(p, "pod")
    /\ UNCHANGED <<cloud, table, memory, action, sid, view, leased, calls, served, abandoned>>

(* Mutant: the Pod that already runs is not looked for. *)
StartWorkloadAgain(p) ==
    /\ pc[p] = "act" /\ action[p] = "workload"
    /\ \E j \in Pod :
         /\ pod[j] = "none"
         /\ pod' = [pod EXCEPT ![j] = "running"]
         /\ session' = [session EXCEPT ![j] = sid[p]]
         /\ host' = [host EXCEPT ![p][sid[p]] = j]
    /\ Goto(p, "pod")
    /\ UNCHANGED <<sandbox, table, known, cache, action, sid, view, leased, calls, served, abandoned>>

StartWorkload(p) ==
    /\ pc[p] = "act" /\ action[p] = "workload"
    /\ host[p][sid[p]] = NoPod
    /\ \E j \in Pod :
         /\ pod[j] = "none"
         /\ pod' = [pod EXCEPT ![j] = "running"]
         /\ session' = [session EXCEPT ![j] = sid[p]]
         /\ host' = [host EXCEPT ![p][sid[p]] = j]
    /\ Goto(p, "pod")
    /\ UNCHANGED <<sandbox, table, known, cache, action, sid, view, leased, calls, served, abandoned>>

(* _remember after the workload action, and again at the end of every call that *)
(* did not close the session: a failed write forgets the cache and raises. *)
Remember(p) ==
    /\ pc[p] \in {"pod", "final"}
    /\ \/ /\ Written(p, Entry(p))
          /\ Goto(p, IF pc[p] = "pod" THEN "final" ELSE "release")
          /\ UNCHANGED cache
       \/ /\ NotWritten(p, Entry(p), "registry")
          /\ Forget(p)
          /\ Goto(p, "release")
    /\ UNCHANGED <<cloud, owner, known, host, action, sid, view, leased, calls, served, abandoned>>

(* manager.close: the session leaves the manager first.  If its Pod cannot *)
(* be deleted, the sandbox is stopped all the same and close raises; so it  *)
(* does when the sandbox cannot be stopped.                                *)
Close(p) ==
    LET s == sid[p]
        j == host[p][s]
        stopped == [sandbox EXCEPT ![s] = "stopped"]
        deleted == IF j = NoPod THEN pod ELSE [pod EXCEPT ![j] = "stopped"]
    IN
    /\ pc[p] = "act" /\ action[p] = "close"
    /\ Drop(p, s)
    /\ \/ sandbox' = stopped /\ pod' = deleted /\ Forget(p) /\ Goto(p, "delete")
       \/ /\ "stop" \in Faults
          /\ sandbox' \in {sandbox, stopped} /\ pod' \in {pod, deleted}
          /\ Goto(p, "release")
          /\ UNCHANGED cache
    /\ UNCHANGED <<session, table, action, sid, view, leased, calls, served, abandoned>>

(* registry.delete: a failure is only logged. *)
DeleteRecord(p) ==
    /\ pc[p] = "delete"
    /\ Written(p, NoRecord) \/ NotWritten(p, NoRecord, "delete")
    /\ Goto(p, "release")
    /\ UNCHANGED <<cloud, owner, memory, action, sid, view, leased, calls, served, abandoned>>

(* Leaving the lease block; an update that fails leaves the lease to expire. *)
Release(p) ==
    /\ pc[p] = "release"
    /\ IF Owns(p)
         THEN owner' = NoProc \/ ("registry" \in Faults /\ UNCHANGED owner)
         ELSE UNCHANGED owner
    /\ leased' = leased \ {p}
    /\ sid' = [sid EXCEPT ![p] = NoSid]
    /\ view' = [view EXCEPT ![p] = NoRecord]
    /\ Goto(p, "idle")
    /\ UNCHANGED <<cloud, record, memory, action, calls, served, abandoned>>

-----------------------------------------------------------------------------
(* The microVM is replaced: between calls (detach_all), or within one. *)
Replace(p) ==
    /\ \/ "swap" \in Faults /\ pc[p] = "idle"
       \/ "crash" \in Faults /\ pc[p] # "idle"
    /\ known[p] # {} \/ pc[p] # "idle"
    /\ known' = [known EXCEPT ![p] = {}]
    /\ host' = [host EXCEPT ![p] = [s \in Sid |-> NoPod]]
    /\ Forget(p)
    /\ sid' = [sid EXCEPT ![p] = NoSid]
    /\ view' = [view EXCEPT ![p] = NoRecord]
    /\ leased' = leased \ {p}
    /\ abandoned' = IF pc[p] = "created" THEN abandoned \cup {sid[p]} ELSE abandoned
    /\ Goto(p, "idle")
    /\ UNCHANGED <<cloud, table, action, calls, served>>

(* A Pod reaches its deadline or loses its node; a sandbox times out. *)
PodEnds(j) ==
    /\ "pod" \in Faults
    /\ pod[j] = "running"
    /\ pod' = [pod EXCEPT ![j] = "stopped"]
    /\ UNCHANGED <<sandbox, session, table, memory, call, calls, served, abandoned>>

SandboxEnds(s) ==
    /\ "sandbox" \in Faults
    /\ sandbox[s] = "ready"
    /\ sandbox' = [sandbox EXCEPT ![s] = "stopped"]
    /\ UNCHANGED <<pod, session, table, memory, call, calls, served, abandoned>>

Step(p) ==
    \/ TakeLease(p) \/ CloseNothing(p) \/ UseCached(p) \/ FollowRecord(p)
    \/ Attach(p) \/ AttachFails(p) \/ RememberAttached(p) \/ DropRecord(p)
    \/ Create(p) \/ CreateFails(p) \/ RememberCreated(p)
    \/ Exec(p) \/ Raise(p) \/ KeepWorkload(p) \/ StartWorkload(p) \/ Remember(p)
    \/ Close(p) \/ DeleteRecord(p) \/ Release(p)

Next ==
    \/ \E p \in Proc :
         Step(p) \/ Busy(p) \/ Replace(p) \/ \E a \in Action : StartCall(p, a)
    \/ \E j \in Pod : PodEnds(j)
    \/ \E s \in Sid : SandboxEnds(s)

Spec == Init /\ [][Next]_vars

-----------------------------------------------------------------------------
(* Correctness *)

(* "The record read under the lease is the truth" (_session): whatever a    *)
(* process had cached, the session it acts on while its lease is good is   *)
(* the one the record names.                                               *)
ServesRecorded ==
    \A p \in Proc :
        pc[p] \in {"act", "pod", "final"} /\ Owns(p) => record.sid = sid[p]

(* A session that a reattach gives up although its sandbox may be READY.    *)
GivenUp(s) ==
    \/ s \in abandoned
    \/ \E j \in Pod : session[j] = s /\ pod[j] = "stopped"

(* "so two cold processes cannot each create an environment" (README): a    *)
(* live sandbox is the recorded one, or one that a call is about to record *)
(* or close, or one given up to its idle timeout: by a crash before it was *)
(* recorded, by a reattach that failed, or by a stop the service refused   *)
(* after a failed start or a refused record.                               *)
OneEnvironment ==
    \A s \in Sid :
        sandbox[s] = "ready" =>
            \/ record.sid = s
            \/ \E p \in Proc : pc[p] = "created" /\ sid[p] = s
            \/ GivenUp(s)

(* "the next microVM reattaches instead of starting over" (README): a       *)
(* runtime session moves on to another sandbox only when the one that       *)
(* served it last is gone or was given up.                                 *)
Sticky ==
    [][served # NoSid /\ served' # served =>
          sandbox[served] # "ready" \/ GivenUp(served)]_served

(* docs/architecture.md, item 3: "If the sandbox is gone the record is      *)
(* dropped and a fresh session starts": then, and only then, does the       *)
(* runtime session move on to another sandbox.                             *)
StartsOverOnlyWithoutSandbox ==
    [][served # NoSid /\ served' # served => sandbox[served] # "ready"]_served

(* "a Pod is never left running without a durable pointer to it": between   *)
(* calls a running Pod is named by the record, or held by a live process    *)
(* (whose next call records it).                                           *)
PodReachable ==
    (\A p \in Proc : pc[p] = "idle") =>
        \A j \in Pod :
            pod[j] = "running" =>
                \/ record.pod = j
                \/ \E p \in Proc :
                     session[j] \in known[p] /\ host[p][session[j]] = j

(* "One workload Pod per session." (EKSWorkloadHost): start_workload refuses *)
(* a second one, in whatever process the request arrives.                  *)
OnePodPerSession ==
    \A i, j \in Pod :
        pod[i] = "running" /\ pod[j] = "running" /\ session[i] = session[j] => i = j

-----------------------------------------------------------------------------
(* Why they hold: the inductive invariant *)

Lost(s) == sandbox[s] # "ready" \/ GivenUp(s)

Shape ==
    \A p \in Proc :
        /\ pc[p] = "attach" => view[p] # NoRecord
        /\ pc[p] \in {"attached", "created", "act", "pod", "final", "delete"} =>
              sid[p] \in Sid
        /\ pc[p] = "delete" => sandbox[sid[p]] = "stopped"

(* What the item says to the call that owns it, at each of its steps. *)
OwnersRecord ==
    \A p \in Proc :
        Owns(p) =>
            /\ pc[p] \in {"session", "attach"} => record = view[p]
            /\ pc[p] \in {"attached", "act", "pod", "final", "delete"} =>
                  record.sid = sid[p]
            /\ pc[p] \in {"drop", "create", "created"} =>
                  record = NoRecord \/ Lost(record.sid)

(* A Pod is recorded, read and held with the session it was started for. *)
PodOf(s, j) == j # NoPod => session[j] = s /\ pod[j] # "none"

PodsOfTheirSessions ==
    /\ PodOf(record.sid, record.pod)
    /\ \A p \in Proc :
        /\ PodOf(view[p].sid, view[p].pod)
        /\ \A s \in Sid : PodOf(s, host[p][s])

(* Whatever names s outside p; p itself names s as the call it serves. *)
NamedBeside(s, p) ==
    \/ record.sid = s \/ served = s
    \/ \E q \in Proc : view[q].sid = s
    \/ \E q \in Proc \ {p} : sid[q] = s \/ cache[q] = s \/ s \in known[q]

(* A session nobody created is named nowhere, and one just created only by *)
(* the call that is about to record it.                                    *)
Fresh ==
    \A s \in Sid :
        /\ sandbox[s] = "none" =>
              \A p \in Proc : ~NamedBeside(s, p) /\ sid[p] # s /\ cache[p] # s /\ s \notin known[p]
        /\ \A p \in Proc : pc[p] = "created" /\ sid[p] = s => ~NamedBeside(s, p)

StickyInv ==
    Shape /\ OwnersRecord /\ PodsOfTheirSessions /\ Fresh /\ OneEnvironment
=============================================================================
