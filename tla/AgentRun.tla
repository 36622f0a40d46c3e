------------------------------ MODULE AgentRun ------------------------------
(***************************************************************************)
(* One run of the agent (src/cwe/agent.py) over the stream of the Agent    *)
(* SDK: responses of the model reach run_async as messages, a response in  *)
(* several of them, while the hook and the tool calls of the response are  *)
(* served at the same time, and users of the REST API execute under the    *)
(* same run, begin another one or end it.  What the budget is worth among  *)
(* several tasks is module DevSession's, which has a simpler agent and     *)
(* runs of its own: the two modules are two views of _current_run.         *)
(***************************************************************************)
EXTENDS Integers, Sequences

CONSTANTS
    Call,       \* tool calls the model may have open at a time
    User,       \* who else executes: recorded in place of a call
    System,     \* and the harness itself, which is not asked for the budget
    Price,      \* what a response may cost
    MaxCost,    \* max_cost_usd of the budget
    MaxExec,    \* max_executions of the budget
    MaxTurns,   \* bound: responses of the model
    MaxUser,    \* bound: executions of users and of the harness
    MaxRuns,    \* bound: the agent's run and the others that are begun meanwhile
    MaxOther    \* bound: executions recorded in one of the others

RunAssumption ==
    /\ User \notin Call /\ System \notin Call \cup {User}
    /\ Price \subseteq Nat \ {0} /\ {MaxCost, MaxExec, MaxTurns, MaxUser, MaxOther} \subseteq Nat
    /\ MaxRuns \in Nat \ {0}

VARIABLES
    phase,      \* of the conversation
    spent,      \* what each response cost
    unread,     \* the responses whose messages run_async has not consumed, message by message
    seen,       \* _UsageMeter.seen
    meter,      \* what the meter makes of it
    over,       \* the agent's run has its harness["budget_exceeded"]
    owner,      \* who is recorded under each number of each run; as long as exec_count
    cur,        \* index of _current_run, 0 for None; 1 is the agent's
    lock,       \* the call that holds the lock of cwe_tools
    call,       \* each tool call: its step, the reference it was answered with
    shot,       \* the run and number that the last artifact is named for
    covered,    \* history: an artifact was written over the one before
    users,      \* executions of users and of the harness so far
    lapped,     \* history: calls after which, before they had their reference, another was
                \* recorded or the current run became another
    denied,     \* history: a call was denied or refused
    dropped,    \* history: a call that had stored an artifact was not recorded
    status      \* what the run is reported as

usage == <<spent, unread, seen, meter>>
book == <<owner, cur>>
shots == <<shot, covered>>
tools == <<lock, call, shots, lapped, denied, dropped>>
vars == <<phase, usage, over, book, users, tools, status>>

NoRef == [run |-> 0, no |-> 0]
Idle == [pc |-> "idle", ref |-> NoRef]
NoCall == User

TypeOK ==
    /\ phase \in {"running", "stopping", "ended"} /\ over \in BOOLEAN
    /\ spent \in Seq(Price) /\ \A i \in DOMAIN unread : unread[i] \in DOMAIN spent
    /\ seen \subseteq DOMAIN spent /\ meter \in Nat
    /\ owner \in Seq(Seq(Call \cup {User, System})) /\ owner # <<>> /\ cur \in 0..Len(owner)
    /\ \A i \in DOMAIN owner[1] : i <= MaxExec \/ owner[1][i] = System
    /\ lock \in Call \cup {NoCall} /\ lapped \subseteq Call
    /\ call \in [Call -> [pc : {"idle", "asked", "approved", "shell", "stored", "ran",
                                "answered"},
                          ref : [run : Nat, no : Nat]]]
    /\ shot \in [run : Nat, no : Nat]
    /\ users \in 0..MaxUser /\ denied \in BOOLEAN /\ dropped \in BOOLEAN /\ covered \in BOOLEAN
    /\ status \in {"running", "succeeded", "failed", "cancelled"}

Init ==
    /\ phase = "running" /\ spent = <<>> /\ unread = <<>> /\ seen = {} /\ meter = 0
    /\ over = FALSE /\ owner = << <<>> >> /\ cur = 1 /\ lock = NoCall /\ call = [k \in Call |-> Idle]
    /\ shot = NoRef /\ covered = FALSE /\ users = 0 /\ lapped = {} /\ denied = FALSE /\ dropped = FALSE
    /\ status = "running"

Goes(k, step) == call' = [call EXCEPT ![k].pc = step]
AllIdle == \A k \in Call : call[k].pc = "idle"
Ran == {k \in Call : call[k].pc = "ran"}

-----------------------------------------------------------------------------
(* The current run *)

(* _require_run: without a current run another is begun, "adhoc".          *)
Present == IF cur = 0 THEN Len(owner) + 1 ELSE cur
Required == IF cur = 0 THEN Append(owner, <<>>) ELSE owner

RequireRun == Present <= MaxRuns /\ owner' = Required /\ cur' = Present

(* end_run, of the run that is current then.                               *)
EndCurrent == owner' = Required /\ cur' = 0

(* A client begins a run, the workload or the device begins one of its own, *)
(* or a message is recorded when there is none.                            *)
BeginOther ==
    /\ phase # "ended" /\ Len(owner) < MaxRuns
    /\ owner' = Append(owner, <<>>) /\ cur' = Len(owner) + 1 /\ lapped' = lapped \cup Ran
    /\ UNCHANGED <<phase, usage, over, users, lock, call, shots, denied, dropped, status>>

(* A client finishes the current run, or what has begun one ends it.        *)
EndOther ==
    /\ phase # "ended" /\ Present <= MaxRuns /\ EndCurrent /\ lapped' = lapped \cup Ran
    /\ UNCHANGED <<phase, usage, over, users, lock, call, shots, denied, dropped, status>>

-----------------------------------------------------------------------------
(* The stream *)

(* A response comes in one message per block, each with the usage of all    *)
(* of it; the tool calls it asks for may be served before any is read.      *)
Respond(price, blocks, asked) ==
    /\ phase = "running" /\ AllIdle /\ Len(spent) < MaxTurns
    /\ spent' = Append(spent, price)
    /\ unread' = unread \o [i \in 1..blocks |-> Len(spent')]
    /\ call' = [k \in Call |-> IF k \in asked THEN [Idle EXCEPT !.pc = "asked"] ELSE Idle]
    /\ UNCHANGED <<phase, seen, meter, over, book, users, lock, shots, lapped, denied, dropped, status>>

(* Mutant: every message is counted.                                        *)
CountsEach(id) == id \in DOMAIN spent

Counts(id) == id \notin seen

(* _UsageMeter.add                                                         *)
Consume ==
    /\ unread # <<>> /\ unread' = Tail(unread) /\ seen' = seen \cup {Head(unread)}
    /\ meter' = IF Counts(Head(unread)) THEN meter + spent[Head(unread)] ELSE meter
    /\ UNCHANGED <<phase, spent, over, book, users, tools, status>>

-----------------------------------------------------------------------------
(* The hook *)

(* Mutant: one execution more.                                              *)
FullOnceExceeded == cur = 1 /\ Len(owner[1]) > MaxExec

(* Only the agent's run has a budget.                                       *)
Full == cur = 1 /\ Len(owner[1]) >= MaxExec

(* The hook, which also asks for the cost, lets the call through, ...       *)
Approve(k) ==
    /\ call[k].pc = "asked" /\ Goes(k, "approved")
    /\ cur = 1 => ~over /\ ~Full /\ meter <= MaxCost
    /\ UNCHANGED <<phase, usage, over, book, users, lock, shots, lapped, denied, dropped, status>>

(* ... or denies it and ends the agent's work; the seconds of the budget    *)
(* may be used up at any time.                                             *)
Deny(k) ==
    /\ call[k].pc = "asked" /\ Goes(k, "idle")
    /\ cur = 1 /\ over' = TRUE /\ phase' = "stopping" /\ denied' = TRUE
    /\ UNCHANGED <<usage, book, users, lock, shots, lapped, dropped, status>>

-----------------------------------------------------------------------------
(* Tool calls *)

(* load_skill, read_full_output and the like take no lock.                  *)
ReadOnly(k) ==
    /\ call[k].pc = "approved" /\ Goes(k, "idle")
    /\ UNCHANGED <<phase, usage, over, book, users, lock, shots, lapped, denied, dropped, status>>

(* A tap, a swipe or the like has been carried out before the call waits    *)
(* for the lock.                                                           *)
Run(k) ==
    /\ call[k].pc = "approved" /\ lock = NoCall /\ lock' = k /\ Goes(k, "shell")
    /\ UNCHANGED <<phase, usage, over, book, users, shots, lapped, denied, dropped, status>>

LastRef == [run |-> Present, no |-> Len(Required[Present])]

(* device_action: an artifact is stored for the number that comes next in   *)
(* the present run; numbers do not go back, nor runs.                      *)
NextRef == [LastRef EXCEPT !.no = @ + 1]

Store(k) ==
    /\ call[k].pc = "shell" /\ Goes(k, "stored") /\ RequireRun
    /\ shot' = NextRef /\ covered' = (covered \/ NextRef = shot)
    /\ UNCHANGED <<phase, usage, over, users, lock, lapped, denied, dropped, status>>

(* What is read of the sandbox, the Pod or the device, or what failed there, *)
(* is not recorded; nor is anything once the guard of the lease refuses.    *)
Unrecorded(k) ==
    /\ call[k].pc \in {"shell", "stored"} /\ lock' = NoCall /\ Goes(k, "idle")
    /\ dropped' = (dropped \/ call[k].pc = "stored")
    /\ UNCHANGED <<phase, usage, over, book, users, shots, lapped, denied, status>>

(* _record, of whoever: the number is drawn and the output kept under it,   *)
(* in the present run (of another run, not more than MaxOther) ...         *)
Keep(who) ==
    /\ who # System => ~Full
    /\ cur = 1 \/ Len(Required[Present]) < MaxOther
    /\ Present <= MaxRuns /\ cur' = Present
    /\ owner' = [Required EXCEPT ![Present] = Append(@, who)] /\ lapped' = lapped \cup Ran
    /\ over' = over

(* ... or its budget is used up, the executions or the seconds.             *)
Refuse == cur = 1 /\ over' = TRUE /\ UNCHANGED <<book, lapped>>

RecordCall(k) ==
    /\ call[k].pc \in {"shell", "stored"} /\ lock' = NoCall
    /\ \/ Keep(k) /\ Goes(k, "ran") /\ UNCHANGED denied
       \/ Refuse /\ Goes(k, "idle") /\ denied' = TRUE
    /\ UNCHANGED <<phase, usage, users, shots, dropped, status>>

(* The executions of users, and those the harness waits for or verifies by. *)
RecordOther ==
    /\ phase # "ended" /\ users < MaxUser /\ users' = users + 1
    /\ Keep(User) \/ Keep(System) \/ Refuse
    /\ UNCHANGED <<phase, usage, lock, call, shots, denied, dropped, status>>

(* write_and_run, android_ui and others do a second thing under the lock;   *)
(* the hook is not asked again.                                            *)
Again(k) ==
    /\ call[k].pc = "ran" /\ Goes(k, "approved") /\ lapped' = lapped \ {k}
    /\ UNCHANGED <<phase, usage, over, book, users, lock, shots, denied, dropped, status>>

(* remote_logs, android_run_tests and others answer without a reference.    *)
AnswerPlain(k) ==
    /\ call[k].pc = "ran" /\ Goes(k, "idle") /\ lapped' = lapped \ {k}
    /\ UNCHANGED <<phase, usage, over, book, users, lock, shots, denied, dropped, status>>

(* last_exec_ref, when the lock has been left: of the present run.          *)
Refer(k) ==
    /\ call[k].pc = "ran" /\ RequireRun
    /\ call' = [call EXCEPT ![k] = [pc |-> "answered", ref |-> LastRef]]
    /\ UNCHANGED <<phase, usage, over, users, lock, shots, lapped, denied, dropped, status>>

(* The model has the answer, and may read the output of its reference.      *)
Answer(k) ==
    /\ call[k].pc = "answered" /\ call' = [call EXCEPT ![k] = Idle] /\ lapped' = lapped \ {k}
    /\ UNCHANGED <<phase, usage, over, book, users, lock, shots, denied, dropped, status>>

-----------------------------------------------------------------------------
(* The end: asyncio.run waits for the threads of the tool calls.            *)

(* record_result; the SDK has a limit of its own on what it knows was spent *)
Outcome(subtype) ==
    IF over \/ subtype = "budget" THEN "cancelled"
    ELSE IF subtype = "error" THEN "failed" ELSE "succeeded"

Total ==
    LET sum[n \in 0..Len(spent)] == IF n = 0 THEN 0 ELSE sum[n - 1] + spent[n]
    IN  sum[Len(spent)]

EndRun(subtype) ==
    /\ phase # "ended" /\ AllIdle /\ unread = <<>>
    /\ subtype = "budget" => Total > MaxCost
    /\ phase' = "ended" /\ status' = Outcome(subtype) /\ EndCurrent
    /\ UNCHANGED <<usage, over, users, tools>>

(* The SDK raises: the run has failed, whatever was recorded of it.         *)
Raise ==
    /\ phase # "ended" /\ AllIdle /\ phase' = "ended" /\ status' = "failed" /\ EndCurrent
    /\ UNCHANGED <<usage, over, users, tools>>

Next ==
    \/ \E price \in Price, blocks \in 1..2, asked \in SUBSET Call : Respond(price, blocks, asked)
    \/ Consume \/ BeginOther \/ EndOther \/ RecordOther \/ Raise
    \/ \E k \in Call : Approve(k) \/ Deny(k) \/ ReadOnly(k) \/ Run(k) \/ Store(k)
                       \/ Unrecorded(k) \/ RecordCall(k) \/ Again(k) \/ AnswerPlain(k)
                       \/ Refer(k) \/ Answer(k)
    \/ \E subtype \in {"success", "error", "budget"} : EndRun(subtype)

Spec == Init /\ [][Next]_vars

-----------------------------------------------------------------------------
(* "Returns a summary with exit code and a ref for the full output"         *)
(* (agent.py 137): the reference is of the call's own execution, unless,    *)
(* between the lock and the reference, another execution was recorded or    *)
(* the current run became another.                                         *)
RefOwn ==
    \A k \in Call : call[k].pc = "answered" =>
        k \in lapped \/ owner[call[k].ref.run][call[k].ref.no] = k

(* "so we count it once per message_id" (agent.py 310): when the stream is  *)
(* read, the meter is what the responses cost.                              *)
MeterExact == unread = <<>> => meter = Total

(* No artifact is written over another, unless a call that stored one was   *)
(* not recorded: for the budget, or for the lease.                         *)
ShotsKept == covered => over \/ dropped

(* A run of which a call was denied or refused is not reported a success.   *)
TellsOfBudget == status = "succeeded" => ~denied
=============================================================================
