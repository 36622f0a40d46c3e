----------------------------- MODULE Provision -----------------------------
(***************************************************************************)
(* How one session comes to have a Code Interpreter sandbox and to lose it *)
(* (SessionManager.create and close, DevSession.start and close of         *)
(* src/cwe/session.py, src/cwe/emulator.py, AgentCoreSandbox of            *)
(* src/cwe/sandbox.py), when requests of the REST API overlap: the session *)
(* is listed, and may be used and closed, before it is ready.              *)
(* A sandbox that is not stopped is paid for until the service ends it.    *)
(***************************************************************************)
EXTENDS Integers, Sequences, FiniteSets

CONSTANTS
    Steps,      \* what provisioning does, in order: "command", "mocks", "restore"
    Request,    \* requests that execute something in the session
    MaxSandbox  \* bound: sandboxes started

ProvisionAssumption ==
    /\ Steps \in Seq({"command", "mocks", "restore"})
    /\ MaxSandbox \in Nat

VARIABLES
    listed,     \* the session is in _sessions
    status,     \* info.status
    info,       \* info.sandbox_session_id
    client,     \* the sandbox of the SDK's client, 0 for none
    started,    \* sandboxes started so far
    running,    \* sandboxes that run
    mocks,      \* those in which mock services run
    run,        \* the provision run: "none", "running", "succeeded" or "failed"
    create,     \* progress of create()
    step,       \* provisioning steps done
    exec,       \* progress of each execution
    closer,     \* progress of close()
    stray,      \* history: sandboxes a command started, having none, or start() when all was over
    unstopped   \* history: sandboxes whose stop failed
service == <<client, started, running, mocks>>
vars == <<listed, status, info, service, run, create, step, exec, closer, stray, unstopped>>

Sandbox == 1..MaxSandbox

TypeOK ==
    /\ listed \in BOOLEAN /\ status \in {"starting", "ready", "error", "closed"}
    /\ started \in 0..MaxSandbox /\ info \in 0..started /\ client \in 0..started
    /\ running \subseteq 1..started /\ mocks \subseteq 1..started
    /\ run \in {"none", "running", "succeeded", "failed"} /\ step \in 0..Len(Steps)
    /\ create \in {"idle", "start", "run", "steps", "ready", "error", "pop", "stop", "raised", "done"}
    /\ exec \in [Request -> {"idle", "have", "over"}]
    /\ closer \in {"idle", "mocks", "sandbox", "status", "done"}
    /\ stray \subseteq 1..started /\ unstopped \subseteq 1..started

Init ==
    /\ listed = FALSE /\ status = "starting" /\ info = 0
    /\ client = 0 /\ started = 0 /\ running = {} /\ mocks = {}
    /\ run = "none" /\ create = "idle" /\ step = 0
    /\ exec = [e \in Request |-> "idle"] /\ closer = "idle"
    /\ stray = {} /\ unstopped = {}

-----------------------------------------------------------------------------
(* AgentCoreSandbox *)

(* A call of the client starts a sandbox if there is none, and fails if its *)
(* sandbox is gone.                                                        *)
Invoke ==
    \/ client # 0 /\ UNCHANGED <<client, started, running, stray>>
    \/ /\ client = 0 /\ started < MaxSandbox
       /\ started' = started + 1 /\ client' = started + 1
       /\ running' = running \cup {started + 1} /\ stray' = stray \cup {started + 1}

CanAnswer == client = 0 \/ client \in running

(* stop: the client forgets its sandbox if the service says it is stopped.  *)
StopSandbox ==
    \/ /\ running' = running \ {client} /\ mocks' = mocks \ {client} /\ client' = 0
       /\ unstopped' = unstopped
    \/ /\ client # 0 /\ unstopped' = unstopped \cup {client}
       /\ UNCHANGED <<running, mocks, client>>

(* The service ends a sandbox at its timeout.                              *)
Expire(n) ==
    /\ n \in running /\ running' = running \ {n} /\ mocks' = mocks \ {n}
    /\ UNCHANGED <<listed, status, info, client, started, run, create, step, exec, closer, stray,
                   unstopped>>

-----------------------------------------------------------------------------
(* create and start *)

Register ==
    /\ create = "idle" /\ listed' = TRUE /\ create' = "start"
    /\ UNCHANGED <<status, info, service, run, step, exec, closer, stray, unstopped>>

(* An error of start() itself leaves the status as it is.                   *)
StartSandbox(ok) ==
    /\ create = "start" /\ started < MaxSandbox
    /\ IF ok
          THEN /\ started' = started + 1 /\ client' = started + 1
               /\ running' = running \cup {started + 1} /\ info' = started + 1 /\ create' = "run"
               /\ stray' = IF listed THEN stray ELSE stray \cup {started + 1}
          ELSE create' = "pop" /\ UNCHANGED <<started, client, running, info, stray>>
    /\ UNCHANGED <<listed, status, mocks, run, step, exec, closer, unstopped>>

BeginRun ==
    /\ create = "run" /\ run' = "running" /\ create' = "steps"
    /\ UNCHANGED <<listed, status, info, service, step, exec, closer, stray, unstopped>>

(* A command that fails is recorded and passed over; only a call that is    *)
(* not answered, a name that is not allowed, and a restore that fails end   *)
(* the provisioning.                                                       *)
ProvisionStep ==
    /\ create = "steps" /\ step < Len(Steps) /\ CanAnswer
    /\ Invoke /\ step' = step + 1
    /\ mocks' = IF Steps[step + 1] = "mocks" THEN mocks \cup {client'} ELSE mocks
    /\ create' = IF step' = Len(Steps) THEN "ready" ELSE "steps"
    /\ UNCHANGED <<listed, status, info, run, exec, closer, unstopped>>

ProvisionFails ==
    /\ create = "steps" /\ create' = "error"
    /\ UNCHANGED <<listed, status, info, service, run, step, exec, closer, stray, unstopped>>

Ready ==
    /\ create = "ready" /\ create' = "done" /\ status' = "ready" /\ run' = "succeeded"
    /\ UNCHANGED <<listed, info, service, step, exec, closer, stray, unstopped>>

Error ==
    /\ create = "error" /\ create' = "pop" /\ status' = "error" /\ run' = "failed"
    /\ UNCHANGED <<listed, info, service, step, exec, closer, stray, unstopped>>

Pop ==
    /\ create = "pop" /\ create' = "stop" /\ listed' = FALSE
    /\ UNCHANGED <<status, info, service, run, step, exec, closer, stray, unstopped>>

(* Mutant: a failed start is taken off the list, and its sandbox left.      *)
RaiseUnstopped ==
    /\ create = "stop" /\ create' = "raised"
    /\ UNCHANGED <<listed, status, info, service, run, step, exec, closer, stray, unstopped>>

StopFailedStart ==
    /\ create = "stop" /\ create' = "raised" /\ StopSandbox
    /\ UNCHANGED <<listed, status, info, started, run, step, exec, closer, stray>>

-----------------------------------------------------------------------------
(* Requests *)

Get(e) ==
    /\ exec[e] = "idle" /\ listed /\ exec' = [exec EXCEPT ![e] = "have"]
    /\ UNCHANGED <<listed, status, info, service, run, create, step, closer, stray, unstopped>>

(* The command runs, wherever the session is by now, or is not answered.    *)
Execute(e) ==
    /\ exec[e] = "have" /\ exec' = [exec EXCEPT ![e] = "over"]
    /\ \/ CanAnswer /\ Invoke
       \/ UNCHANGED <<client, started, running, stray>>
    /\ UNCHANGED <<listed, status, info, mocks, run, create, step, closer, unstopped>>

(* DELETE, or the end of the server: one of them gets the session.          *)
Close ==
    /\ listed /\ closer = "idle" /\ listed' = FALSE /\ closer' = "mocks"
    /\ UNCHANGED <<status, info, service, run, create, step, exec, stray, unstopped>>

(* stop_all: the mock services were started by another emulator object, so  *)
(* this one knows none; they end with their sandbox.                       *)
CloseMocks ==
    /\ closer = "mocks" /\ closer' = "sandbox"
    /\ UNCHANGED <<listed, status, info, service, run, create, step, exec, stray, unstopped>>

(* A stop that raises leaves the status as it was.                          *)
CloseSandbox ==
    /\ closer = "sandbox" /\ StopSandbox
    /\ closer' = IF client' = 0 THEN "status" ELSE "done"
    /\ UNCHANGED <<listed, status, info, started, run, create, step, exec, stray>>

CloseStatus ==
    /\ closer = "status" /\ closer' = "done" /\ status' = "closed"
    /\ UNCHANGED <<listed, info, service, run, create, step, exec, stray, unstopped>>

Next ==
    \/ Register \/ BeginRun \/ ProvisionStep \/ ProvisionFails \/ Ready \/ Error \/ Pop
    \/ StopFailedStart \/ Close \/ CloseMocks \/ CloseSandbox \/ CloseStatus
    \/ \E ok \in BOOLEAN : StartSandbox(ok)
    \/ \E n \in Sandbox : Expire(n)
    \/ \E e \in Request : Get(e) \/ Execute(e)

Spec == Init /\ [][Next]_vars

-----------------------------------------------------------------------------
Over == /\ create \in {"raised", "done"} /\ closer \in {"idle", "done"}
        /\ \A e \in Request : exec[e] # "have"

(* "so the sandbox doesn't keep accruing charges" (session.py 573): however *)
(* a start fails and whoever closes meanwhile, a session that is not listed *)
(* any more has no sandbox running, but for one whose stop failed and one   *)
(* that was begun behind its back; and a listed one uses the sandbox that   *)
(* its record names.                                                       *)
SandboxAccounted ==
    /\ Over /\ ~listed => running \subseteq stray \cup unstopped
    /\ listed /\ create = "done" => info = client
=============================================================================
