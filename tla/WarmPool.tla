------------------------------ MODULE WarmPool ------------------------------
(***************************************************************************)
(* Android hosts on EC2 (EC2EmulatorHost of src/cwe/android.py): sessions  *)
(* claim an instance of the warm pool by its tags, or launch one, connect  *)
(* to its device agent through Systems Manager (CWE_ANDROID_ACCESS=ssm, as *)
(* configured by default), bind it and use it; DevSession.start_android    *)
(* and close stop the host.  Tags are written without compare-and-swap; what   *)
(* decides between two claims is /bind of src/device_agent/app.py.         *)
(***************************************************************************)
EXTENDS Integers, FiniteSets

CONSTANTS
    Session,
    Free,       \* nobody: the tag "ready", the agent that is bound to nobody
    Pool,       \* instances that "cwe android-pool" may launch
    Spare       \* instances that sessions may launch

WarmPoolAssumption == Free \notin Session /\ Pool \cap Spare = {} /\ Free \notin Pool \cup Spare

Instance == Pool \cup Spare

VARIABLES
    inst,       \* state of each instance
    tag,        \* cwe:pool of each instance: Free for ready, or the claiming session
    bound,      \* SESSION of each device agent
    poolParam,  \* the pool instances whose token parameter exists
    unpaired,   \* those that run and whose parameter is still to be written
    pc,         \* progress of each session's start_android()
    offered,    \* the ready instances that describe_instances returned
    at,         \* the instance that the session is about to claim
    host,       \* self.instance_id
    fromPool,   \* the sessions with self.from_pool
    param,      \* self.pool_token_param, by the instance it belongs to
    tunnel,     \* the sessions whose port forwarding lives
    token,      \* the sessions whose own token parameter exists
    reaped,     \* history: the instances that were terminated for their age
    rivals,     \* history: sessions that saw the instance ready when they re-checked its tag
    undeleted   \* history: the sessions of which a delete_parameter failed
cloud == <<inst, tag, bound, poolParam, unpaired>>
history == <<reaped, rivals, undeleted>>
vars == <<cloud, pc, offered, at, host, fromPool, param, tunnel, token, history>>

Claiming == {"scan", "tag", "verify", "fetch"}
Up == {"up"}

TypeOK ==
    /\ inst \in [Instance -> {"none", "running", "terminated"}]
    /\ tag \in [Instance -> Session \cup {Free}] /\ bound \in [Instance -> Session \cup {Free}]
    /\ poolParam \subseteq Pool /\ unpaired \subseteq Pool /\ reaped \subseteq Instance /\ fromPool \subseteq Session
    /\ pc \in [Session -> Claiming \cup Up \cup
               {"idle", "launch", "forward", "reach", "bind", "asked", "boot", "stop", "stopped"}]
    /\ offered \in [Session -> SUBSET Pool]
    /\ at \in [Session -> Instance \cup {Free}] /\ host \in [Session -> Instance \cup {Free}]
    /\ tunnel \subseteq Session /\ token \subseteq Session /\ undeleted \subseteq Session
    /\ rivals \in [Instance -> SUBSET Session] /\ param \in [Session -> Pool \cup {Free}]

Init ==
    /\ inst = [i \in Instance |-> "none"] /\ unpaired = {}
    /\ tag = [i \in Instance |-> Free] /\ bound = [i \in Instance |-> Free]
    /\ poolParam = {} /\ fromPool = {} /\ tunnel = {} /\ token = {} /\ undeleted = {} /\ reaped = {}
    /\ pc = [s \in Session |-> "idle"] /\ offered = [s \in Session |-> {}]
    /\ at = [s \in Session |-> Free] /\ host = [s \in Session |-> Free]
    /\ rivals = [i \in Instance |-> {}] /\ param = [s \in Session |-> Free]

Goes(s, step) == pc' = [pc EXCEPT ![s] = step]

-----------------------------------------------------------------------------
(* cmd_android_pool: an instance is launched, ready by its tag, and only    *)
(* then is the token of its agent written down.                            *)
LaunchPool(i) ==
    /\ inst[i] = "none" /\ inst' = [inst EXCEPT ![i] = "running"] /\ unpaired' = unpaired \cup {i}
    /\ UNCHANGED <<tag, bound, poolParam, pc, offered, at, host, fromPool, param, tunnel, token, history>>

PutPoolToken(i) ==
    /\ i \in unpaired /\ unpaired' = unpaired \ {i} /\ poolParam' = poolParam \cup {i}
    /\ UNCHANGED <<inst, tag, bound, pc, offered, at, host, fromPool, param, tunnel, token, history>>

-----------------------------------------------------------------------------
(* _acquire_pool_instance *)

Describe(s) ==
    /\ pc[s] = "idle" /\ Goes(s, "scan")
    /\ offered' = [offered EXCEPT ![s] = {i \in Pool : tag[i] = Free /\ inst[i] = "running"}]
    /\ UNCHANGED <<cloud, at, host, fromPool, param, tunnel, token, history>>

StillReady(i) == tag[i] = Free

(* The next candidate: its tags are read again before they are written.  A *)
(* call of the API that fails passes on to the next one, here as below.     *)
Recheck(s) ==
    /\ pc[s] = "scan"
    /\ \E i \in offered[s] :
          /\ offered' = [offered EXCEPT ![s] = @ \ {i}]
          /\ \/ /\ StillReady(i) /\ at' = [at EXCEPT ![s] = i] /\ Goes(s, "tag")
                /\ rivals' = IF tag[i] = Free THEN [rivals EXCEPT ![i] = @ \cup {s}] ELSE rivals
             \/ UNCHANGED <<at, pc, rivals>>
    /\ UNCHANGED <<cloud, host, fromPool, param, tunnel, token, reaped, undeleted>>

NextCandidate(s) == pc[s] \in Claiming \ {"scan"} /\ Goes(s, "scan")
                    /\ UNCHANGED <<cloud, offered, at, host, fromPool, param, tunnel, token, history>>

CreateTags(s) ==
    /\ pc[s] = "tag" /\ Goes(s, "verify")
    /\ tag' = [tag EXCEPT ![at[s]] = s]
    /\ UNCHANGED <<inst, bound, poolParam, unpaired, offered, at, host, fromPool, param, tunnel, token, history>>

Verify(s) ==
    /\ pc[s] = "verify" /\ tag[at[s]] = s /\ Goes(s, "fetch")
    /\ param' = [param EXCEPT ![s] = at[s]]
    /\ UNCHANGED <<cloud, offered, at, host, fromPool, tunnel, token, history>>

(* The token that the instance's agent came up with is read.                *)
FetchToken(s) ==
    /\ pc[s] = "fetch" /\ at[s] \in poolParam /\ Goes(s, "forward")
    /\ host' = [host EXCEPT ![s] = at[s]] /\ fromPool' = fromPool \cup {s}
    /\ UNCHANGED <<cloud, offered, at, param, tunnel, token, history>>

-----------------------------------------------------------------------------
(* start and _connect *)

PublishToken(s) ==
    /\ pc[s] = "scan" /\ offered[s] = {} /\ Goes(s, "launch")
    /\ token' = token \cup {s}
    /\ UNCHANGED <<cloud, offered, at, host, fromPool, param, tunnel, history>>

(* The agent of a launched instance comes up bound to its session.          *)
RunInstances(s) ==
    /\ pc[s] = "launch" /\ Goes(s, "forward")
    /\ \E i \in Spare :
          /\ inst[i] = "none" /\ inst' = [inst EXCEPT ![i] = "running"]
          /\ bound' = [bound EXCEPT ![i] = s] /\ host' = [host EXCEPT ![s] = i]
    /\ UNCHANGED <<tag, poolParam, unpaired, offered, at, fromPool, param, tunnel, token, history>>

(* The instance runs, has registered, and the plugin has opened the port.   *)
StartPortForward(s) ==
    /\ pc[s] = "forward" /\ inst[host[s]] = "running" /\ Goes(s, "reach")
    /\ tunnel' = tunnel \cup {s}
    /\ UNCHANGED <<cloud, offered, at, host, fromPool, param, token, history>>

(* auth: the tokens of two that claimed one instance are the same; who is   *)
(* let in is a matter of the session in the header.                         *)
LetIn(i, s) == bound[i] \in {Free, s}

Answers(i, s) == s \in tunnel /\ inst[i] = "running" /\ LetIn(i, s)

(* wait_agent                                                              *)
Reach(s) ==
    /\ pc[s] = "reach" /\ Answers(host[s], s)
    /\ Goes(s, IF s \in fromPool THEN "bind" ELSE "boot")
    /\ UNCHANGED <<cloud, offered, at, host, fromPool, param, tunnel, token, history>>

(* 409 once the agent is bound.                                             *)
Bindable(i) == bound[i] = Free

(* bind: auth has let the request in before the handler takes _bind_lock.   *)
AskBind(s) ==
    /\ pc[s] = "bind" /\ Answers(host[s], s) /\ Goes(s, "asked")
    /\ UNCHANGED <<cloud, offered, at, host, fromPool, param, tunnel, token, history>>

Bind(s) ==
    /\ pc[s] = "asked" /\ inst[host[s]] = "running" /\ Bindable(host[s])
    /\ bound' = [bound EXCEPT ![host[s]] = s] /\ Goes(s, "boot")
    /\ UNCHANGED <<inst, tag, poolParam, unpaired, offered, at, host, fromPool, param, tunnel, token, history>>

(* Mutant: a session that has no instance has nothing to delete.            *)
DeleteTokenOfHost(s) ==
    /\ token' = IF host[s] = Free THEN token ELSE token \ {s}
    /\ undeleted' = undeleted

(* _delete_token_param gives up on a parameter it cannot delete.            *)
DeleteToken(s) ==
    \/ token' = token \ {s} /\ undeleted' = undeleted
    \/ s \in token /\ token' = token /\ undeleted' = undeleted \cup {s}

Boot(s) ==
    /\ pc[s] = "boot" /\ Answers(host[s], s)
    /\ DeleteToken(s) /\ Goes(s, "up")
    /\ UNCHANGED <<cloud, offered, at, host, fromPool, param, tunnel, reaped, rivals>>

(* Anything in start() that fails: start_android stops the host.            *)
StartFails(s) ==
    /\ pc[s] \in {"launch", "forward", "reach", "bind", "asked", "boot"} /\ Goes(s, "stop")
    /\ UNCHANGED <<cloud, offered, at, host, fromPool, param, tunnel, token, history>>

CloseSession(s) ==
    /\ pc[s] = "up" /\ Goes(s, "stop")
    /\ UNCHANGED <<cloud, offered, at, host, fromPool, param, tunnel, token, history>>

(* _terminate_ssm_session ends every session to the instance, or is skipped *)
CutTunnels(s) ==
    \E cut \in {{s}, {s} \cup {t \in Session : host[s] # Free /\ host[t] = host[s]}} :
        tunnel' = tunnel \ cut

(* stop: the instance is terminated and both parameters deleted; the one of *)
(* the pool is deleted by whoever read it.                                 *)
Stop(s) ==
    /\ pc[s] = "stop" /\ Goes(s, "stopped") /\ CutTunnels(s)
    /\ \/ inst' = IF host[s] = Free THEN inst ELSE [inst EXCEPT ![host[s]] = "terminated"]
       \/ inst' = inst      \* terminate_instances failed: logged
    /\ DeleteToken(s)
    /\ \/ poolParam' = poolParam \ {param[s]}
       \/ poolParam' = poolParam
    /\ host' = [host EXCEPT ![s] = Free] /\ param' = [param EXCEPT ![s] = Free]
    /\ UNCHANGED <<tag, bound, unpaired, offered, at, fromPool, reaped, rivals>>

(* cmd_reap, and the shutdown that an instance has scheduled for itself: it *)
(* is older than what cwe:expires-at allows it, used or not.                *)
Reap(i) ==
    /\ inst[i] = "running" /\ inst' = [inst EXCEPT ![i] = "terminated"] /\ reaped' = reaped \cup {i}
    /\ UNCHANGED <<tag, bound, poolParam, unpaired, pc, offered, at, host, fromPool, param, tunnel, token,
                   rivals, undeleted>>

Step(s) ==
    \/ Describe(s) \/ Recheck(s) \/ NextCandidate(s) \/ CreateTags(s) \/ Verify(s) \/ FetchToken(s)
    \/ PublishToken(s) \/ RunInstances(s) \/ StartPortForward(s) \/ Reach(s) \/ AskBind(s) \/ Bind(s) \/ Boot(s)
    \/ StartFails(s) \/ CloseSession(s) \/ Stop(s)

Next ==
    \/ \E s \in Session : Step(s)
    \/ \E i \in Pool : LaunchPool(i) \/ PutPoolToken(i)
    \/ \E i \in Instance : Reap(i)

Spec == Init /\ [][Next]_vars

-----------------------------------------------------------------------------
(* However the claims interleave, an instance serves one session: of two    *)
(* that both found their tag, /bind lets one through.                      *)
ExclusiveHost ==
    \A s, t \in Session : s # t /\ pc[s] = "up" /\ pc[t] = "up" => host[s] # host[t]

(* Until it is too old, the host of a running session is terminated, or its *)
(* connection cut, only by a session that had seen the same instance ready: *)
(* the window that the waits of _acquire_pool_instance are to keep small.   *)
CutOffOnlyInTheWindow ==
    \A s \in Session :
        pc[s] = "up" => \/ (inst[host[s]] = "running" \/ host[s] \in reaped) /\ s \in tunnel
                        \/ Cardinality(rivals[host[s]]) > 1

(* No parameter with the token of a host outlives the start that published  *)
(* it, unless its deletion failed; and no connection outlives the session.  *)
NothingLeft ==
    \A s \in Session :
        /\ pc[s] \in {"up", "stopped"} /\ s \notin undeleted => s \notin token
        /\ pc[s] = "stopped" => s \notin tunnel
=============================================================================
