------------------------------ MODULE JobHost ------------------------------
(***************************************************************************)
(* The Kubernetes Jobs of one session (EKSJobHost and EKSEmulatorHost of   *)
(* src/cwe/eks.py, EKSWorkloadHost of src/cwe/workload.py): a host creates *)
(* a Job and then the Secret its Pod needs, connects to the Pod, is        *)
(* described in the registry record, stopped by close() or by its own      *)
(* failed start, and attached by the process that takes the session over.  *)
(* kubectl may fail after the API server has done what was asked.          *)
(***************************************************************************)
EXTENDS Integers, Sequences

CONSTANTS
    AndroidJobs,    \* the Jobs an Android host creates, in order
    WorkloadJobs    \* the one Job of a workload host

JobHostAssumption == AndroidJobs # <<>> /\ Len(WorkloadJobs) = 1

Kind == {"android", "workload"}
Jobs(k) == IF k = "android" THEN AndroidJobs ELSE WorkloadJobs
Members(s) == {s[i] : i \in DOMAIN s}
Job == Members(AndroidJobs) \cup Members(WorkloadJobs)

VARIABLES
    job,        \* each Job in the cluster
    secret,     \* the Jobs whose Secret exists
    host,       \* each host object: its progress, jobs, tokens, connected devices
    record,     \* the registry record: the jobs and tokens of each host
    process,    \* "live", "gone", "attaching" or "closed"
    adrift      \* history: Jobs whose delete failed, or that were let go unrecorded
vars == <<job, secret, host, record, process, adrift>>

NoHost == [phase |-> "none", jobs |-> <<>>, tokens |-> <<>>, up |-> 0]
NoRecord == [jobs |-> <<>>, tokens |-> <<>>]

TypeOK ==
    /\ job \in [Job -> {"none", "pending", "running", "over", "deleted"}]
    /\ secret \subseteq Job /\ adrift \subseteq Job
    /\ \A k \in Kind :
          /\ host[k].phase \in {"none", "create", "secret", "connect", "up", "stop", "failed"}
          /\ host[k].jobs \in Seq(Job) /\ host[k].tokens \in Seq(Job)
          /\ host[k].up \in 0..Len(host[k].jobs)
          /\ record[k].jobs \in Seq(Job) /\ record[k].tokens \in Seq(Job)
    /\ process \in {"live", "gone", "attaching", "closed"}

Init ==
    /\ job = [j \in Job |-> "none"] /\ secret = {} /\ adrift = {}
    /\ host = [k \in Kind |-> NoHost] /\ record = [k \in Kind |-> NoRecord]
    /\ process = "live"

-----------------------------------------------------------------------------
(* The cluster *)

(* The containers of a Pod do not start before their Secret exists.         *)
PodRuns(j) ==
    /\ job[j] = "pending" /\ j \in secret /\ job' = [job EXCEPT ![j] = "running"]
    /\ UNCHANGED <<secret, host, record, process, adrift>>

(* The Pod ends, fails, or activeDeadlineSeconds are over.                  *)
PodEnds(j) ==
    /\ job[j] \in {"pending", "running"} /\ job' = [job EXCEPT ![j] = "over"]
    /\ UNCHANGED <<secret, host, record, process, adrift>>

(* ttlSecondsAfterFinished, or reap() for a Job that is finished; the       *)
(* Secret goes with its owner.                                             *)
Reap(j) ==
    /\ job[j] = "over" /\ job' = [job EXCEPT ![j] = "deleted"] /\ secret' = secret \ {j}
    /\ UNCHANGED <<host, record, process, adrift>>

-----------------------------------------------------------------------------
(* start *)

At(k, phase) == process = "live" /\ host[k].phase = phase
Set(k, h) == host' = [host EXCEPT ![k] = h]

Start(k) ==
    /\ At(k, "none") /\ \A j \in Members(Jobs(k)) : job[j] = "none"
    /\ Set(k, [NoHost EXCEPT !.phase = "create"])
    /\ UNCHANGED <<job, secret, record, process, adrift>>

Next1(k) == Jobs(k)[Len(host[k].jobs) + 1]

Created(k) == [host[k] EXCEPT !.jobs = Append(@, Next1(k)), !.phase = "secret"]
NotCreated(k) == [host[k] EXCEPT !.phase = "stop"]

(* _create_job_with_secret: the name is kept as soon as the Job is known to *)
(* exist, and not when the create has failed or timed out.                  *)
CreateJob(k) ==
    /\ At(k, "create")
    /\ \/ job' = [job EXCEPT ![Next1(k)] = "pending"] /\ Set(k, Created(k))
       \/ job' \in {job, [job EXCEPT ![Next1(k)] = "pending"]} /\ Set(k, NotCreated(k))
    /\ UNCHANGED <<secret, record, process, adrift>>

(* An Android host keeps the token now, a workload host once its Pod runs.  *)
CreateSecret(k) ==
    /\ At(k, "secret")
    /\ LET h == host[k]
           j == h.jobs[Len(h.jobs)]
       IN  \/ /\ secret' = secret \cup {j}
              /\ Set(k, [h EXCEPT !.phase = IF Len(h.jobs) = Len(Jobs(k)) THEN "connect" ELSE "create",
                                  !.tokens = IF k = "android" THEN Append(@, j) ELSE @])
           \/ secret' \in {secret, secret \cup {j}} /\ Set(k, [h EXCEPT !.phase = "stop"])
    /\ UNCHANGED <<job, record, process, adrift>>

(* _wait_pod, _base_url, and wait_boot or wait_ready, Job after Job.        *)
Connect(k) ==
    /\ At(k, "connect")
    /\ LET h == host[k]
           j == h.jobs[h.up + 1]
       IN  \/ /\ job[j] = "running"
              /\ Set(k, [h EXCEPT !.up = @ + 1, !.tokens = IF k = "workload" THEN Append(@, j) ELSE @,
                                  !.phase = IF h.up + 1 = Len(h.jobs) THEN "up" ELSE @])
           \/ Set(k, [h EXCEPT !.phase = "stop"])
    /\ UNCHANGED <<job, secret, record, process, adrift>>

(* The Jobs of js, in their order, that could not be deleted.               *)
Kept(js, left) ==
    LET kept[n \in 0..Len(js)] ==
            IF n = 0 THEN <<>>
            ELSE IF js[n] \in left THEN Append(kept[n - 1], js[n]) ELSE kept[n - 1]
    IN  kept[Len(js)]

(* stop: clients, tokens and forwards go first; a Job that cannot be        *)
(* deleted stays in self.jobs and the call raises.                          *)
Stopped(h, left) == [phase |-> "failed", jobs |-> Kept(h.jobs, left), tokens |-> <<>>, up |-> 0]

Delete(js) ==
    /\ job' = [j \in Job |-> IF j \in js THEN "deleted" ELSE job[j]]
    /\ secret' = secret \ js

(* A start that failed stops what it has begun; start_android stops again.  *)
StopFailedStart(k) ==
    /\ At(k, "stop") \/ (k = "android" /\ At(k, "failed") /\ host[k].jobs # <<>>)
    /\ \E left \in SUBSET Members(host[k].jobs) :
          /\ Delete(Members(host[k].jobs) \ left) /\ Set(k, Stopped(host[k], left))
          /\ adrift' = adrift \cup left
    /\ UNCHANGED <<record, process>>

-----------------------------------------------------------------------------
(* The session *)

Held == UNION {Members(host[k].jobs) : k \in Kind}
Recorded == UNION {Members(record[k].jobs) : k \in Kind}

(* describe(), written by _remember when the call has returned.             *)
Described(k) ==
    IF host[k].phase = "up" THEN [jobs |-> host[k].jobs, tokens |-> host[k].tokens] ELSE NoRecord

Remember ==
    /\ process = "live" /\ \A k \in Kind : host[k].phase \in {"none", "up", "failed"}
    /\ record' = [k \in Kind |-> Described(k)]
    /\ UNCHANGED <<job, secret, host, process, adrift>>

(* detach(), or a crash: the Jobs are forgotten, not deleted.               *)
Leave ==
    /\ process = "live" /\ process' = "gone" /\ host' = [k \in Kind |-> NoHost]
    /\ adrift' = adrift \cup (Held \ Recorded)
    /\ UNCHANGED <<job, secret, record>>

TakeOver ==
    /\ process = "gone" /\ process' = "attaching"
    /\ UNCHANGED <<job, secret, host, record, adrift>>

Attachable(k) ==
    /\ Len(record[k].jobs) = Len(record[k].tokens)
    /\ \A j \in Members(record[k].jobs) : job[j] = "running"

(* attach: the token of each Job is the one at its place in the record.     *)
AttachHost(k) ==
    /\ process = "attaching" /\ record[k] # NoRecord /\ host[k] = NoHost
    /\ Attachable(k)
    /\ Set(k, [phase |-> "up", jobs |-> record[k].jobs, tokens |-> record[k].tokens,
               up |-> Len(record[k].jobs)])
    /\ UNCHANGED <<job, secret, record, process, adrift>>

AttachDone ==
    /\ process = "attaching" /\ \A k \in Kind : host[k] # NoHost \/ record[k] = NoRecord
    /\ process' = "live"
    /\ UNCHANGED <<job, secret, host, record, adrift>>

(* A Pod is gone or does not answer: what was attached is detached again    *)
(* and the record deleted; the deadlines are left to reclaim the Pods.      *)
AttachFails ==
    /\ process = "attaching" /\ \E k \in Kind : record[k] # NoRecord /\ host[k] = NoHost
    /\ process' = "closed" /\ host' = [k \in Kind |-> NoHost]
    /\ record' = [k \in Kind |-> NoRecord] /\ adrift' = adrift \cup Recorded
    /\ UNCHANGED <<job, secret>>

(* close: the device host first; if its stop() raises, the workload host    *)
(* is not stopped.                                                         *)
CloseHosts ==
    /\ process = "live" /\ \A k \in Kind : host[k].phase \in {"none", "up", "failed"}
    /\ LET mine(k) == IF host[k].phase = "up" THEN Members(host[k].jobs) ELSE {}
       IN  \E left \in SUBSET (mine("android") \cup mine("workload")) :
              LET js == IF left \cap mine("android") = {}
                           THEN (mine("android") \cup mine("workload")) \ left
                           ELSE mine("android") \ left
              IN  /\ left \cap mine("android") # {} => left \cap mine("workload") = {}
                  /\ Delete(js) /\ adrift' = adrift \cup ((mine("android") \cup mine("workload")) \ js)
    /\ process' = "closed" /\ host' = [k \in Kind |-> NoHost]
    /\ record' = [k \in Kind |-> NoRecord]

Next ==
    \/ \E j \in Job : PodRuns(j) \/ PodEnds(j) \/ Reap(j)
    \/ \E k \in Kind :
          Start(k) \/ CreateJob(k) \/ CreateSecret(k) \/ Connect(k) \/ StopFailedStart(k) \/ AttachHost(k)
    \/ Remember \/ Leave \/ TakeOver \/ AttachDone \/ AttachFails \/ CloseHosts

Spec == Init /\ [][Next]_vars

-----------------------------------------------------------------------------
(* No Job runs unseen: one that runs is held by a host, named in the record *)
(* or known to be adrift.  What kubectl created without saying so never     *)
(* gets a Secret, and a failed start has deleted the rest.                  *)
NoJobUnseen ==
    \A j \in Job : job[j] = "running" => j \in Held \cup Recorded \cup adrift

(* The record names each Job with its own token, so that the process that   *)
(* takes over talks to each Pod with the right one.                         *)
Paired(h) == h.tokens = h.jobs
RecordAttachable ==
    \A k \in Kind : Paired(record[k]) /\ (host[k].phase = "up" => Paired(host[k]))
=============================================================================
