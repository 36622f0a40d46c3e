---------------------------- MODULE SessionGuard ----------------------------
(***************************************************************************)
(* The lease as the Runtime uses it (src/cwe/runtime_app.py): a process    *)
(* keeps its DevSession between calls, and the session keeps the guard it  *)
(* was given when it was attached or created.  Every call opens a lease of *)
(* its own; the call that finds its session in the cache does not replace  *)
(* the guard.  Composes SessionLease with the calls of the processes.      *)
(***************************************************************************)
EXTENDS SessionLease

CONSTANT Proc           \* Runtime processes asked for the same runtime session

VARIABLES
    handler,    \* the lease of the call a process is serving, or NoLease
    obtained,   \* processes whose call is past _session()
    guard,      \* _lease_guard of the cached session (NoLease: no session)
    current     \* processes whose cached session is the recorded one

callState == <<handler, obtained>>
cacheVars == <<guard, current>>
gvars == <<vars, callState, cacheVars>>

GTypeOK ==
    /\ TypeOK
    /\ handler \in [Proc -> Lease \cup {NoLease}]
    /\ obtained \in SUBSET Proc
    /\ guard \in [Proc -> Lease \cup {NoLease}]
    /\ current \in SUBSET Proc

GInit ==
    /\ Init
    /\ handler = [p \in Proc |-> NoLease]
    /\ obtained = {}
    /\ guard = [p \in Proc |-> NoLease]
    /\ current = {}

(* _serialized: one call per runtime session at a time in a process. *)
OpenCall(p, o) ==
    /\ handler[p] = NoLease
    /\ Begin(o)
    /\ handler' = [handler EXCEPT ![p] = o]
    /\ UNCHANGED <<obtained, cacheVars>>

InBody(p) == handler[p] # NoLease /\ pc[handler[p]] = "held"

(* _session: the cached session, if the record still names it. *)
UseCached(p) ==
    /\ InBody(p) /\ p \notin obtained
    /\ p \in current
    /\ obtained' = obtained \cup {p}
    /\ UNCHANGED <<vars, handler, cacheVars>>

(* _session: attach the recorded session (others keep it too), or create a *)
(* new one (every other cached session is outdated); then _remember.       *)
AttachOrCreate(p) ==
    /\ InBody(p) /\ p \notin obtained
    /\ p \notin current
    /\ Write(handler[p])
    /\ guard' = [guard EXCEPT ![p] = handler[p]]
    /\ \/ current # {} /\ current' = current \cup {p}
       \/ current' = {p}
    /\ obtained' = obtained \cup {p}
    /\ UNCHANGED handler

(* The close action: the session and its record are gone. *)
CloseSession(p) ==
    /\ InBody(p) /\ p \in obtained
    /\ Write(handler[p])
    /\ guard' = [guard EXCEPT ![p] = NoLease]
    /\ current' = {}
    /\ obtained' = obtained \ {p}
    /\ UNCHANGED handler

(* Leaving the lease block: the object is dropped from registry._leases. *)
LeaveCall(p) ==
    /\ handler[p] # NoLease
    /\ \/ StopRenewing(handler[p]) /\ UNCHANGED callState
       \/ /\ pc[handler[p]] \in {"done", "busy", "failed"}
          /\ handler' = [handler EXCEPT ![p] = NoLease]
          /\ obtained' = obtained \ {p}
          /\ UNCHANGED vars
    /\ UNCHANGED cacheVars

(* The microVM is replaced, within a call or between two. *)
CrashProcess(p) ==
    /\ \/ handler[p] # NoLease /\ Crash(handler[p])
       \/ /\ "crash" \in Faults
          /\ handler[p] = NoLease /\ guard[p] # NoLease
          /\ UNCHANGED vars
    /\ handler' = [handler EXCEPT ![p] = NoLease]
    /\ obtained' = obtained \ {p}
    /\ guard' = [guard EXCEPT ![p] = NoLease]
    /\ current' = current \ {p}

(* Everything the lease does on its own: the table, the renewer, time. *)
LeaseStep ==
    /\ \/ Tick
       \/ \E o \in Lease :
            \/ Acquire(o) \/ Renew(o) \/ ReleaseApplies(o) \/ ReleaseRefused(o)
            \/ RecordUnusable(o) \/ AcquireUnanswered(o) \/ RenewFails(o)
            \/ RenewRepeats(o) \/ ReleaseFails(o)
    /\ UNCHANGED <<callState, cacheVars>>

GNext ==
    \/ LeaseStep
    \/ \E p \in Proc :
         \/ UseCached(p) \/ AttachOrCreate(p) \/ CloseSession(p)
         \/ LeaveCall(p) \/ CrashProcess(p)
         \/ \E o \in Lease : OpenCall(p, o)

GSpec == GInit /\ [][GNext]_gvars

-----------------------------------------------------------------------------
(* The guard of the session a process serves with, old or new, lets it pass. *)
GuardMayPass(p) ==
    /\ guard[p] # NoLease
    /\ ~lost[guard[p]]
    /\ clock < expires[guard[p]] - Margin

MayExecute(p) == InBody(p) /\ p \in obtained /\ GuardMayPass(p)

(* Two processes never get a result of the same runtime session past their *)
(* guards and into its record together, although a guard may belong to an  *)
(* earlier call of its process (session.py 150-158, runtime_app.py 107-114).*)
ExecutesAlone == \A p, q \in Proc : MayExecute(p) /\ MayExecute(q) => p = q

(* Two readings of the clock differ by at most half the margin.            *)
ClocksAgree == 2 * Skew <= Margin

(* A guard left over from an earlier call never passes after the lease of  *)
(* the present call was taken over: an old lease runs out before it.       *)
OldGuardIsSafe == \A p \in Proc : MayExecute(p) => owner = handler[p]

(* "session lease lost" (registry.py 175) is only said to a process whose  *)
(* lease may be lost: while the lease of the call is surely good, the      *)
(* guard of the session passes.                                            *)
RefusedMeansLost ==
    \A p \in Proc :
      /\ InBody(p) /\ p \in obtained
      /\ SurelyPasses(handler[p])
      => GuardMayPass(p)
=============================================================================
