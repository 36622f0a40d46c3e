---------------------------- MODULE SessionHosts ----------------------------
(***************************************************************************)
(* What a runtime session holds in the clouds, and what serialises its     *)
(* calls: StickyRuntime looks at the sandbox and the Pod of a session as   *)
(* one resource each, and leaves out how they come about.  Here are the    *)
(* sandbox (Provision), the Kubernetes Jobs (JobHost), the Android hosts   *)
(* on EC2 (WarmPool) and the lock of _serialized (Serialized).  They share *)
(* no state with each other, so that it is enough to look at one of them   *)
(* at a time: focus says at which.  Module SessionWork adds what is done   *)
(* in a session.                                                           *)
(***************************************************************************)
EXTENDS MCStickyRuntime

CONSTANTS Request, MaxSandbox, Session, Free, Pool, Spare, Caller, Lock, NoLock

VARIABLES focus,
          listed, status, info, client, started, running, mocks, run, create, step, exec, closer,
          stray, unstopped,
          job, secret, jobHost, jobRecord, process, adrift,
          inst, tag, bound, poolParam, unpaired, claim, offered, at, claimed, fromPool, param, tunnel, token,
          reaped, rivals, undeleted,
          entry, fresh, caller

(* A device with an instrumented twin is two Jobs, a workload one. *)
Sandboxes == INSTANCE Provision WITH Steps <- <<"command", "mocks", "restore">>
Jobs == INSTANCE JobHost WITH AndroidJobs <- <<"a1", "a2">>, WorkloadJobs <- <<"w1">>,
                              host <- jobHost, record <- jobRecord
Instances == INSTANCE WarmPool WITH pc <- claim, host <- claimed
Locks == INSTANCE Serialized

ASSUME SessionHostsAssumption ==
    /\ Sandboxes!ProvisionAssumption /\ Jobs!JobHostAssumption
    /\ Instances!WarmPoolAssumption /\ Locks!SerializedAssumption

sandboxVars == <<listed, status, info, client, started, running, mocks, run, create, step, exec,
                 closer, stray, unstopped>>
jobVars == <<job, secret, jobHost, jobRecord, process, adrift>>
instanceVars == <<inst, tag, bound, poolParam, unpaired, claim, offered, at, claimed, fromPool, param,
                  tunnel, token, reaped, rivals, undeleted>>
lockVars == <<entry, fresh, caller>>

hostVars == <<sandboxVars, jobVars, instanceVars, lockVars>>

HInit == Init /\ Sandboxes!Init /\ Jobs!Init /\ Instances!Init /\ Locks!Init

HNext ==
    \/ focus = "runtime" /\ Next /\ UNCHANGED hostVars
    \/ focus = "sandboxes" /\ Sandboxes!Next /\ UNCHANGED <<vars, jobVars, instanceVars, lockVars>>
    \/ focus = "jobs" /\ Jobs!Next /\ UNCHANGED <<vars, sandboxVars, instanceVars, lockVars>>
    \/ focus = "instances" /\ Instances!Next /\ UNCHANGED <<vars, sandboxVars, jobVars, lockVars>>
    \/ focus = "locks" /\ Locks!Next /\ UNCHANGED <<vars, sandboxVars, jobVars, instanceVars>>

-----------------------------------------------------------------------------
HostsTypeOK == Sandboxes!TypeOK /\ Jobs!TypeOK /\ Instances!TypeOK /\ Locks!TypeOK

(* However start, close and the calls of a session interleave and fail, no  *)
(* sandbox and no Job of it runs that nobody accounts for, and the record   *)
(* gives each Job its own token.                                           *)
NothingRunsUnaccounted ==
    Sandboxes!SandboxAccounted /\ Jobs!NoJobUnseen /\ Jobs!RecordAttachable

(* Two sessions are never on one Android host; what is in use is terminated *)
(* only by a rival for the same claim; and no token is left in the          *)
(* parameter store.                                                        *)
HostOfItsOwn ==
    Instances!ExclusiveHost /\ Instances!CutOffOnlyInTheWindow /\ Instances!NothingLeft

(* The calls of a runtime session are one at a time in a process.           *)
OneInside == Locks!OneInside
=============================================================================
