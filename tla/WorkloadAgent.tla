---------------------------- MODULE WorkloadAgent ----------------------------
(***************************************************************************)
(* remote exec: WorkloadClient.exec (src/cwe/workload.py) sends a command  *)
(* with a request_id, and once more if the connection drops; the agent in  *)
(* the Pod (src/cwe/workload_agent.py) runs it for the first request of an *)
(* id and lets the others join, while it remembers the id.  Each call has  *)
(* a request_id of its own, so a call also stands for its id, and the same *)
(* body is sent twice.                                                     *)
(***************************************************************************)
EXTENDS Integers, FiniteSets

CONSTANTS
    Call,           \* calls of WorkloadClient.exec
    MaxRequests,    \* MAX_REQUESTS
    Flaky,          \* calls whose connection may drop
    Slow            \* calls whose command may outlive its timeout

ASSUME AgentAssumption == IsFiniteSet(Call) /\ MaxRequests \in Nat

VARIABLES
    client,     \* what the client of each call does
    request,    \* its two HTTP requests, and the handler of each
    table,      \* ids in _requests
    older,      \* which of two entries of the table was created first
    result,     \* entry["result"] or ["error"] of the entry a request owns
    done,       \* entries whose event is set, by the request that owns them
    evicted     \* history: ids that were dropped from the table

entries == <<table, older, evicted>>
outcomes == <<result, done>>
vars == <<client, request, entries, outcomes>>

Attempt == {1, 2}
Other(k) == 3 - k
Outcome == {"ok", "error"}
Answer == Outcome \cup {"refused", "late"}

TypeOK ==
    /\ client \in [Call -> {"new", "first", "second", "returned", "failed"}]
    /\ request \in [Call -> [Attempt ->
          {"none", "sent", "lost", "running", "stored", "waiting"} \cup Answer]]
    /\ table \in SUBSET Call
    /\ older \in SUBSET (table \X table)
    /\ result \in [Call -> [Attempt -> Outcome \cup {"none"}]]
    /\ done \in SUBSET (Call \X Attempt)
    /\ evicted \in SUBSET Call

Init ==
    /\ client = [c \in Call |-> "new"]
    /\ request = [c \in Call |-> [k \in Attempt |-> "none"]]
    /\ table = {} /\ older = {} /\ evicted = {}
    /\ result = [c \in Call |-> [k \in Attempt |-> "none"]]
    /\ done = {}

Becomes(c, k, state) == request' = [request EXCEPT ![c][k] = state]

-----------------------------------------------------------------------------
(* WorkloadClient.exec *)

Send(c) ==
    /\ client[c] = "new"
    /\ client' = [client EXCEPT ![c] = "first"]
    /\ Becomes(c, 1, "sent")
    /\ UNCHANGED <<entries, outcomes>>

(* A transport error, or no answer in time: what was sent may still arrive. *)
Dropped(c, k) ==
    {request[c][k]} \cup {x \in {"lost"} : request[c][k] = "sent"}

Retry(c) ==
    /\ c \in Flaky
    /\ client[c] = "first"
    /\ client' = [client EXCEPT ![c] = "second"]
    /\ \E x \in Dropped(c, 1) :
         request' = [request EXCEPT ![c] = [k \in Attempt |-> IF k = 1 THEN x ELSE "sent"]]
    /\ UNCHANGED <<entries, outcomes>>

GiveUp(c) ==
    /\ c \in Flaky
    /\ client[c] = "second"
    /\ client' = [client EXCEPT ![c] = "failed"]
    /\ \E x \in Dropped(c, 2) : Becomes(c, 2, x)
    /\ UNCHANGED <<entries, outcomes>>

Receive(c) ==
    \E k \in Attempt :
        /\ client[c] = (IF k = 1 THEN "first" ELSE "second")
        /\ request[c][k] \in Answer
        /\ client' = [client EXCEPT ![c] =
                        IF request[c][k] = "ok" THEN "returned" ELSE "failed"]
        /\ UNCHANGED <<request, entries, outcomes>>

-----------------------------------------------------------------------------
(* _claim_request: under the lock *)

(* Mutant: entries go whether their command has ended or not. *)
FinishedOrNot == table

(* The event of the entry of an id is set. *)
Finished == {c \in table : \A k \in Attempt : request[c][k] \notin {"running", "stored"}}

(* Mutant: without the max. *)
QuarterDown(n) == n \div 4

(* finished[: max(1, len(finished) // 4)] *)
Quarter(n) == IF n \in 1 .. 3 THEN 1 ELSE n \div 4

(* The oldest quarter of the finished entries goes when the table is full. *)
MakeRoom(gone) ==
    IF Cardinality(table) < MaxRequests
      THEN gone = {}
      ELSE /\ gone \subseteq Finished
           /\ Cardinality(gone) = Quarter(Cardinality(Finished))
           /\ \A c \in gone, d \in Finished \ gone : <<c, d>> \in older

(* Mutant: an entry keeps its place when it is dropped. *)
UpdateKeepsOlder(gone, new) ==
    /\ table' = (table \ gone) \cup new
    /\ older' = older \cup ((table \ gone) \X new)
    /\ evicted' = evicted \cup gone

(* The table without gone and with new, which is the youngest. *)
Update(gone, new) ==
    /\ table' = (table \ gone) \cup new
    /\ older' = (older \cap ((table \ gone) \X (table \ gone))) \cup ((table \ gone) \X new)
    /\ evicted' = evicted \cup gone

(* Mutant: a known id is not looked for. *)
OwnAgain(c, k) ==
    /\ request[c][k] = "sent"
    /\ \E gone \in SUBSET table :
         /\ MakeRoom(gone)
         /\ Cardinality(table \ gone) < MaxRequests
         /\ Update(gone, {c})
    /\ Becomes(c, k, "running")
    /\ UNCHANGED <<client, outcomes>>

Own(c, k) ==
    /\ request[c][k] = "sent"
    /\ c \notin table
    /\ \E gone \in SUBSET table :
         /\ MakeRoom(gone)
         /\ Cardinality(table \ gone) < MaxRequests
         /\ Update(gone, {c})
    /\ Becomes(c, k, "running")
    /\ UNCHANGED <<client, outcomes>>

Refuse(c, k) ==
    /\ request[c][k] = "sent"
    /\ c \notin table
    /\ \E gone \in SUBSET table :
         /\ MakeRoom(gone)
         /\ Cardinality(table \ gone) >= MaxRequests
         /\ Update(gone, {})
    /\ Becomes(c, k, "refused")
    /\ UNCHANGED <<client, outcomes>>

Join(c, k) ==
    /\ request[c][k] = "sent"
    /\ c \in table
    /\ Becomes(c, k, "waiting")
    /\ UNCHANGED <<client, entries, outcomes>>

-----------------------------------------------------------------------------
(* run_exec *)

(* The command ends, is killed at its timeout, or cannot be started. *)
Execute(c, k) ==
    /\ request[c][k] = "running"
    /\ \E r \in Outcome : result' = [result EXCEPT ![c][k] = r]
    /\ Becomes(c, k, "stored")
    /\ UNCHANGED <<client, entries, done>>

(* Mutant: the id is forgotten with its command. *)
FinishForgets(c, k) ==
    /\ request[c][k] = "stored"
    /\ done' = done \cup {<<c, k>>}
    /\ table' = table \ {c}
    /\ older' = older \cap (table' \X table')
    /\ Becomes(c, k, result[c][k])
    /\ UNCHANGED <<client, evicted, result>>

(* Mutant: the event is not set when the command fails. *)
FinishWell(c, k) ==
    /\ request[c][k] = "stored"
    /\ done' = IF result[c][k] = "ok" THEN done \cup {<<c, k>>} ELSE done
    /\ Becomes(c, k, result[c][k])
    /\ UNCHANGED <<client, entries, result>>

Finish(c, k) ==
    /\ request[c][k] = "stored"
    /\ done' = done \cup {<<c, k>>}
    /\ Becomes(c, k, result[c][k])
    /\ UNCHANGED <<client, entries, result>>

(* The joined command is done: its result, or its error, is the answer. *)
Joined(c, k) ==
    /\ request[c][k] = "waiting"
    /\ <<c, Other(k)>> \in done
    /\ Becomes(c, k, result[c][Other(k)])
    /\ UNCHANGED <<client, entries, outcomes>>

(* The command outlives its timeout by 30 seconds. *)
JoinLate(c, k) ==
    /\ c \in Slow
    /\ request[c][k] = "waiting"
    /\ <<c, Other(k)>> \notin done
    /\ Becomes(c, k, "late")
    /\ UNCHANGED <<client, entries, outcomes>>

-----------------------------------------------------------------------------
Handle(c, k) ==
    \/ Own(c, k) \/ Refuse(c, k) \/ Join(c, k)
    \/ Execute(c, k) \/ Finish(c, k) \/ Joined(c, k)

Next ==
    \E c \in Call :
        \/ Send(c) \/ Retry(c) \/ GiveUp(c) \/ Receive(c)
        \/ \E k \in Attempt : Handle(c, k) \/ JoinLate(c, k)

Spec == Init /\ [][Next]_vars

(* Every handler is a thread of its own, a command is killed at its timeout, *)
(* and the client reads an answer that has come.                            *)
Fairness ==
    \A c \in Call :
        /\ WF_vars(Receive(c))
        /\ \A k \in Attempt : WF_vars(Handle(c, k))

FairSpec == Spec /\ Fairness

-----------------------------------------------------------------------------
Ran(c, k) == request[c][k] = "running" \/ result[c][k] # "none"

(* "A retry ... joins the running command or gets its stored result         *)
(* instead of running the build a second time" (workload_agent.py 19-21).  *)
RunsOnce == \A c \in Call : ~(Ran(c, 1) /\ Ran(c, 2))

(* ... at any rate while the agent remembers the id.                       *)
RunsAgainOnlyIfEvicted == \A c \in Call : Ran(c, 1) /\ Ran(c, 2) => c \in evicted

(* Forgotten or not, a command never runs beside itself in the Pod: only   *)
(* finished entries make room (workload_agent.py 142-145).                 *)
NeverBesideItself ==
    \A c \in Call : ~(request[c][1] = "running" /\ request[c][2] = "running")

(* exec() returns the result of a run that ended well, and then, if the id *)
(* is still known, no late copy of the request can start the command again.*)
ReturnsAResult ==
    \A c \in Call :
        client[c] = "returned" =>
            /\ \E k \in Attempt : <<c, k>> \in done /\ result[c][k] = "ok"
            /\ c \notin evicted =>
                 c \in table /\ \A k \in Attempt : request[c][k] # "running"

(* "too many commands in flight" (429) is only said while every entry of a  *)
(* full table belongs to a command that has not ended.                      *)
RefusedOnlyWhenFull ==
    [][\A c \in Call, k \in Attempt :
         request'[c][k] = "refused" /\ request[c][k] # "refused" =>
             Finished = {} /\ Cardinality(table) >= MaxRequests]_vars

(* Why: the requests of a call and the entries they own say the same, ...   *)
InFlight(c, k) == request[c][k] \in {"running", "stored"}

Consistent ==
    \A c \in Call, k \in Attempt :
        /\ client[c] = "new" \/ (client[c] = "first" /\ k = 2) => request[c][k] = "none"
        /\ request[c][k] \in {"none", "sent", "lost", "waiting", "refused", "late", "running"} =>
             result[c][k] = "none"
        /\ request[c][k] = "stored" => result[c][k] # "none"
        /\ <<c, k>> \in done => result[c][k] # "none" /\ request[c][k] = result[c][k]

(* ... an entry outlives its command, ...                                  *)
Remembered ==
    \A c \in Call :
        /\ \A k \in Attempt :
             /\ InFlight(c, k) => c \in table /\ ~InFlight(c, Other(k))
             /\ Ran(c, k) => c \in table \cup evicted
        /\ Ran(c, 1) /\ Ran(c, 2) => c \in evicted

(* ... and a good answer comes from a run that is done.                    *)
Answered ==
    \A c \in Call :
        /\ client[c] = "returned" => \E k \in Attempt : request[c][k] = "ok"
        /\ (\E k \in Attempt : request[c][k] = "ok") =>
             \E k \in Attempt : <<c, k>> \in done /\ result[c][k] = "ok"

AgentInv == Consistent /\ Remembered /\ Answered

(* A call of exec() ends.                                                  *)
CallEnds ==
    \A c \in Call :
        client[c] \in {"first", "second"} ~> client[c] \in {"returned", "failed"}
=============================================================================
