---------------------------- MODULE SessionLease ----------------------------
(***************************************************************************)
(* The conditional lease DynamoLease takes on the table item of ONE        *)
(* runtime session (src/cwe/registry.py).  A request handler opens one     *)
(* `with registry.lease(rid)` block, so the actors are the lease objects:  *)
(* a lease object is its own `lease_owner` uuid.  DynamoDB applies each    *)
(* conditional update atomically; a request carries a time the client read *)
(* before sending it, and its answer may come late or never.               *)
(*                                                                         *)
(* `clock` is true time.  A process reads time.time() as any value of Now: *)
(* clocks run at most Skew ahead, and may step within that window.         *)
(* A local variable that is out of scope, and a dead process, hold zeros.  *)
(***************************************************************************)
EXTENDS Integers

CONSTANTS
    Lease,          \* the DynamoLease objects, one per lease() block
    NoLease,        \* the attribute lease_owner is absent
    LeaseSeconds,   \* LEASE_SECONDS
    RenewSeconds,   \* LEASE_RENEW_SECONDS
    WaitSeconds,    \* LEASE_WAIT_SECONDS
    Margin,         \* the 10 seconds check() keeps before the expiry
    Skew,           \* how far two readings of time.time() may disagree
    MaxStall,       \* longest delay of a renewal or of an answer
    Faults,         \* what may go wrong: a subset of {"network","crash","record"}
    MaxClock        \* bound: time stops here

ASSUME LeaseAssumption ==
    /\ NoLease \notin Lease
    /\ {LeaseSeconds, RenewSeconds, WaitSeconds, Margin, Skew, MaxStall, MaxClock}
         \subseteq Nat
    /\ Skew <= Margin
    /\ Skew <= RenewSeconds

VARIABLES
    clock,
    owner, leaseUntil,      \* the item's lease_owner and lease_until
    stale,                  \* leases whose copy of the record is out of date
    pc,                     \* where the handler of each lease is
    at,                     \* the `now` in the acquire request
    deadline,               \* when acquire gives up
    expires, lost,          \* _expires and _lost
    renewer, until, due     \* the _renew thread, its request, its next wake-up

tableVars == <<owner, leaseUntil, stale>>
callVars  == <<at, deadline>>
EndCall(o) == at' = [at EXCEPT ![o] = 0] /\ deadline' = [deadline EXCEPT ![o] = 0]
guardVars == <<expires, lost>>
renewVars == <<renewer, until, due>>
vars == <<clock, tableVars, pc, callVars, guardVars, renewVars>>

Pc == {"new", "wait", "acquiring", "granted", "held", "releasing",
       "done", "busy", "failed", "dead"}
Renewer == {"off", "idle", "sent", "applied"}

TypeOK ==
    /\ clock \in Nat
    /\ owner \in Lease \cup {NoLease}
    /\ leaseUntil \in Nat
    /\ stale \in SUBSET Lease
    /\ pc \in [Lease -> Pc]
    /\ at \in [Lease -> Nat]
    /\ deadline \in [Lease -> Nat]
    /\ expires \in [Lease -> Nat]
    /\ lost \in [Lease -> BOOLEAN]
    /\ renewer \in [Lease -> Renewer]
    /\ until \in [Lease -> Nat]
    /\ due \in [Lease -> Nat]

Now == clock .. clock + Skew

(* DynamoLease.check: the guard passes for at least one reading of the clock. *)
MayPass(o) == pc[o] = "held" /\ ~lost[o] /\ clock < expires[o] - Margin

(* ... and for every reading of the clock. *)
SurelyPasses(o) == ~lost[o] /\ clock + Skew < expires[o] - Margin

Init ==
    /\ clock = 0
    /\ owner = NoLease /\ leaseUntil = 0 /\ stale = {}
    /\ pc = [o \in Lease |-> "new"]
    /\ at = [o \in Lease |-> 0]
    /\ deadline = [o \in Lease |-> 0]
    /\ expires = [o \in Lease |-> 0]
    /\ lost = [o \in Lease |-> FALSE]
    /\ renewer = [o \in Lease |-> "off"]
    /\ until = [o \in Lease |-> 0]
    /\ due = [o \in Lease |-> 0]

-----------------------------------------------------------------------------
(* acquire: the loop of conditional updates *)

Begin(o) ==
    /\ pc[o] = "new"
    /\ clock + WaitSeconds <= MaxClock
    /\ pc' = [pc EXCEPT ![o] = "wait"]
    /\ deadline' = [deadline EXCEPT ![o] = clock + WaitSeconds]
    /\ UNCHANGED <<clock, tableVars, at, guardVars, renewVars>>

Attempt(o) ==
    /\ pc[o] = "wait"
    /\ \E t \in Now : at' = [at EXCEPT ![o] = t]
    /\ pc' = [pc EXCEPT ![o] = "acquiring"]
    /\ UNCHANGED <<clock, tableVars, deadline, guardVars, renewVars>>

(* Mutant: the update carries no condition. *)
AcquirableAlways(o) == TRUE

(* attribute_not_exists(lease_owner) OR lease_until < :now *)
Acquirable(o) == owner = NoLease \/ leaseUntil < at[o]

AcquireApplies(o) ==
    /\ pc[o] = "acquiring"
    /\ Acquirable(o)
    /\ owner' = o
    /\ leaseUntil' = at[o] + LeaseSeconds
    /\ stale' = stale \ {o}
    /\ pc' = [pc EXCEPT ![o] = "granted"]
    /\ UNCHANGED <<clock, callVars, guardVars, renewVars>>

(* Mutant: acquire retries for ever. *)
AcquireRefusedAgain(o) ==
    /\ pc[o] = "acquiring"
    /\ ~Acquirable(o)
    /\ pc' = [pc EXCEPT ![o] = "wait"]
    /\ at' = [at EXCEPT ![o] = 0]
    /\ UNCHANGED <<clock, tableVars, deadline, guardVars, renewVars>>

AcquireRefused(o) ==
    /\ pc[o] = "acquiring"
    /\ ~Acquirable(o)
    /\ IF clock >= deadline[o]
         THEN pc' = [pc EXCEPT ![o] = "busy"] /\ EndCall(o)
         ELSE /\ pc' = [pc EXCEPT ![o] = "wait"]
              /\ at' = [at EXCEPT ![o] = 0]
              /\ UNCHANGED deadline
    /\ UNCHANGED <<clock, tableVars, guardVars, renewVars>>

(* Mutant: the expiry is counted from the answer, not from the request. *)
GrantedFromAnswer(o) ==
    /\ pc[o] = "granted"
    /\ pc' = [pc EXCEPT ![o] = "held"]
    /\ expires' = [expires EXCEPT ![o] = clock + LeaseSeconds]
    /\ renewer' = [renewer EXCEPT ![o] = "idle"]
    /\ due' = [due EXCEPT ![o] = clock + RenewSeconds]
    /\ EndCall(o)
    /\ UNCHANGED <<clock, tableVars, lost, until>>

(* Mutant: the lease time is subtracted. *)
GrantedExpired(o) ==
    /\ pc[o] = "granted"
    /\ pc' = [pc EXCEPT ![o] = "held"]
    /\ expires' = [expires EXCEPT ![o] = at[o] - LeaseSeconds]
    /\ renewer' = [renewer EXCEPT ![o] = "idle"]
    /\ due' = [due EXCEPT ![o] = clock + RenewSeconds]
    /\ EndCall(o)
    /\ UNCHANGED <<clock, tableVars, lost, until>>

(* The answer arrives: _expires is set and the renewer starts. *)
Granted(o) ==
    /\ pc[o] = "granted"
    /\ pc' = [pc EXCEPT ![o] = "held"]
    /\ expires' = [expires EXCEPT ![o] = at[o] + LeaseSeconds]
    /\ renewer' = [renewer EXCEPT ![o] = "idle"]
    /\ due' = [due EXCEPT ![o] = clock + RenewSeconds]
    /\ EndCall(o)
    /\ UNCHANGED <<clock, tableVars, lost, until>>

(* The record does not open: acquire raises while the item names this lease. *)
RecordUnusable(o) ==
    /\ "record" \in Faults
    /\ pc[o] = "granted"
    /\ pc' = [pc EXCEPT ![o] = "failed"]
    /\ EndCall(o)
    /\ UNCHANGED <<clock, tableVars, guardVars, renewVars>>

(* No answer: botocore sends the same request again, or acquire raises. *)
AcquireUnanswered(o) ==
    /\ "network" \in Faults
    /\ pc[o] \in {"acquiring", "granted"}
    /\ \/ pc' = [pc EXCEPT ![o] = "acquiring"] /\ UNCHANGED callVars
       \/ pc' = [pc EXCEPT ![o] = "failed"] /\ EndCall(o)
    /\ UNCHANGED <<clock, tableVars, guardVars, renewVars>>

-----------------------------------------------------------------------------
(* _renew: the background thread *)

RenewSend(o) ==
    /\ renewer[o] = "idle"
    /\ clock >= due[o]
    /\ \E t \in Now : until' = [until EXCEPT ![o] = t + LeaseSeconds]
    /\ renewer' = [renewer EXCEPT ![o] = "sent"]
    /\ due' = [due EXCEPT ![o] = 0]
    /\ UNCHANGED <<clock, tableVars, pc, callVars, guardVars>>

(* Mutant: the renewal puts the owner back without a condition. *)
RenewTakesBack(o) ==
    /\ renewer[o] = "sent"
    /\ owner' = o
    /\ leaseUntil' = until[o]
    /\ renewer' = [renewer EXCEPT ![o] = "applied"]
    /\ UNCHANGED <<clock, stale, pc, callVars, guardVars, until, due>>

RenewApplies(o) ==
    /\ renewer[o] = "sent"
    /\ owner = o
    /\ leaseUntil' = until[o]
    /\ renewer' = [renewer EXCEPT ![o] = "applied"]
    /\ UNCHANGED <<clock, owner, stale, pc, callVars, guardVars, until, due>>

(* Mutant: the renewed expiry is not stored. *)
RenewReturnsForgotten(o) ==
    /\ renewer[o] = "applied"
    /\ until' = [until EXCEPT ![o] = 0]
    /\ IF pc[o] = "held"
         THEN /\ renewer' = [renewer EXCEPT ![o] = "idle"]
              /\ due' = [due EXCEPT ![o] = clock + RenewSeconds]
         ELSE renewer' = [renewer EXCEPT ![o] = "off"] /\ UNCHANGED due
    /\ UNCHANGED <<clock, tableVars, pc, callVars, guardVars>>

RenewReturns(o) ==
    /\ renewer[o] = "applied"
    /\ expires' = [expires EXCEPT ![o] = until[o]]
    /\ until' = [until EXCEPT ![o] = 0]
    /\ IF pc[o] = "held"
         THEN /\ renewer' = [renewer EXCEPT ![o] = "idle"]
              /\ due' = [due EXCEPT ![o] = clock + RenewSeconds]
         ELSE renewer' = [renewer EXCEPT ![o] = "off"] /\ UNCHANGED due
    /\ UNCHANGED <<clock, tableVars, pc, callVars, lost>>

LoseLease(o) ==
    /\ lost' = [lost EXCEPT ![o] = TRUE]
    /\ renewer' = [renewer EXCEPT ![o] = "off"]
    /\ until' = [until EXCEPT ![o] = 0]
    /\ UNCHANGED <<clock, tableVars, pc, callVars, expires, due>>

RenewRefused(o) ==
    /\ renewer[o] = "sent"
    /\ owner # o
    /\ LoseLease(o)

RenewFails(o) ==
    /\ "network" \in Faults
    /\ renewer[o] \in {"sent", "applied"}
    /\ LoseLease(o)

(* The answer is lost and botocore repeats the request. *)
RenewRepeats(o) ==
    /\ "network" \in Faults
    /\ renewer[o] = "applied"
    /\ renewer' = [renewer EXCEPT ![o] = "sent"]
    /\ UNCHANGED <<clock, tableVars, pc, callVars, guardVars, until, due>>

-----------------------------------------------------------------------------
(* The body of the lease block, and its end *)

(* Mutant: put and delete carry no condition. *)
WriteAnyway(o) ==
    /\ pc[o] = "held"
    /\ stale' = Lease \ {o}
    /\ UNCHANGED <<clock, owner, leaseUntil, pc, callVars, guardVars, renewVars>>

(* DynamoRegistry.put and delete: refused unless lease_owner is still o. *)
Write(o) ==
    /\ pc[o] = "held"
    /\ owner = o
    /\ stale' = Lease \ {o}
    /\ UNCHANGED <<clock, owner, leaseUntil, pc, callVars, guardVars, renewVars>>

StopRenewing(o) ==
    /\ pc[o] = "held"
    /\ pc' = [pc EXCEPT ![o] = "releasing"]
    /\ renewer' = [renewer EXCEPT ![o] = IF @ = "idle" THEN "off" ELSE @]
    /\ due' = [due EXCEPT ![o] = 0]
    /\ UNCHANGED <<clock, tableVars, callVars, guardVars, until>>

(* release joins the renewer first, but not for ever. *)
Joined(o) == renewer[o] = "off" \/ "network" \in Faults

ReleaseApplies(o) ==
    /\ pc[o] = "releasing"
    /\ Joined(o)
    /\ owner = o
    /\ owner' = NoLease /\ leaseUntil' = 0
    /\ pc' = [pc EXCEPT ![o] = "done"]
    /\ UNCHANGED <<clock, stale, callVars, guardVars, renewVars>>

ReleaseRefused(o) ==
    /\ pc[o] = "releasing"
    /\ Joined(o)
    /\ owner # o
    /\ pc' = [pc EXCEPT ![o] = "done"]
    /\ lost' = [lost EXCEPT ![o] = TRUE]
    /\ UNCHANGED <<clock, tableVars, callVars, expires, renewVars>>

(* The update never reaches the table: logged, the lease runs out on its own. *)
ReleaseFails(o) ==
    /\ "network" \in Faults
    /\ pc[o] = "releasing"
    /\ pc' = [pc EXCEPT ![o] = "failed"]
    /\ UNCHANGED <<clock, tableVars, callVars, guardVars, renewVars>>

(* The microVM of this handler is replaced. *)
Crash(o) ==
    /\ "crash" \in Faults
    /\ pc[o] \notin {"new", "done", "busy", "failed", "dead"}
    /\ pc' = [pc EXCEPT ![o] = "dead"]
    /\ EndCall(o)
    /\ expires' = [expires EXCEPT ![o] = 0]
    /\ lost' = [lost EXCEPT ![o] = FALSE]
    /\ renewer' = [renewer EXCEPT ![o] = "off"]
    /\ until' = [until EXCEPT ![o] = 0]
    /\ due' = [due EXCEPT ![o] = 0]
    /\ UNCHANGED <<clock, tableVars>>

(* Time passes, but no request or renewal is later than MaxStall. *)
Timely(o) ==
    /\ pc[o] \in {"acquiring", "granted"} => clock < at[o] + MaxStall
    /\ renewer[o] = "idle" => clock < due[o] + MaxStall
    /\ renewer[o] \in {"sent", "applied"} => clock + LeaseSeconds < until[o] + MaxStall

Tick ==
    /\ clock < MaxClock
    /\ \A o \in Lease : Timely(o)
    /\ clock' = clock + 1
    /\ UNCHANGED <<tableVars, pc, callVars, guardVars, renewVars>>

-----------------------------------------------------------------------------
Acquire(o) ==
    \/ Attempt(o) \/ AcquireApplies(o) \/ AcquireRefused(o) \/ Granted(o)

Renew(o) ==
    \/ RenewSend(o) \/ RenewApplies(o) \/ RenewReturns(o) \/ RenewRefused(o)

Release(o) ==
    \/ StopRenewing(o) \/ ReleaseApplies(o) \/ ReleaseRefused(o)

Fault(o) ==
    \/ RecordUnusable(o) \/ AcquireUnanswered(o) \/ RenewFails(o)
    \/ RenewRepeats(o) \/ ReleaseFails(o) \/ Crash(o)

Next ==
    \/ Tick
    \/ \E o \in Lease :
         Begin(o) \/ Acquire(o) \/ Renew(o) \/ Write(o) \/ Release(o) \/ Fault(o)

Spec == Init /\ [][Next]_vars

(* Time goes on, and a thread that can take a step takes it. *)
Fairness ==
    /\ WF_vars(Tick)
    /\ \A o \in Lease : WF_vars(Acquire(o)) /\ WF_vars(Renew(o)) /\ WF_vars(Release(o))

FairSpec == Spec /\ Fairness

-----------------------------------------------------------------------------
(* At most one lease object can get an execution past check() at any time, *)
(* whatever is delayed, lost or crashed (registry.py 173-175, 20-23).      *)
GuardExclusive == \A o, q \in Lease : MayPass(o) /\ MayPass(q) => o = q

(* The lease implements the abstract hand-over between handlers: the next  *)
(* one may execute only after a time in which nobody may.                  *)
Serving == {o \in Lease : MayPass(o)}
Server == INSTANCE SingleServer WITH Server <- Lease, serving <- Serving
ServesAlone == Server!Spec

(* The record a handler got with its lease is still the stored one as long *)
(* as the item names it: nobody else's put or delete came in between.      *)
OwnerViewIsCurrent == owner \in Lease => owner \notin stale

(* A release that reached the table leaves no trace of this lease behind:  *)
(* no late renewal makes the item name it again.                           *)
CleanRelease == \A o \in Lease : pc[o] = "done" => owner # o

(* While no call fails and no step is later than MaxStall, the handler of  *)
(* a lease is never refused by its own guard.                              *)
HolderPasses == \A o \in Lease : pc[o] = "held" => SurelyPasses(o)

(* What makes it so: calls and renewals end before the lease they extend.  *)
TimelyRenewal ==
    /\ "network" \notin Faults
    /\ 3 * MaxStall + RenewSeconds + 2 * Skew + Margin < LeaseSeconds

(* The error "busy in another process" is only raised because of another   *)
(* process (registry.py 163-164).                                          *)
BusyMeansAnother == \A o \in Lease : pc[o] = "busy" => owner # o

(* Why the guard is exclusive.  A handler whose lease the item still names *)
(* knows an expiry no later than the stored one; once the item names       *)
(* another, the expiry it knows, and any it may still hear of, is behind.  *)
Fresh(o, time) == IF owner = o THEN time <= leaseUntil ELSE time < clock + Skew

LeaseInv ==
    \A o \in Lease :
      /\ pc[o] \in {"new", "wait", "acquiring", "granted"} => renewer[o] = "off"
      /\ pc[o] \in {"acquiring", "granted"} => at[o] <= clock + Skew
      /\ pc[o] = "granted" => Fresh(o, at[o] + LeaseSeconds)
      /\ pc[o] = "held" => Fresh(o, expires[o])
      /\ pc[o] = "held" /\ renewer[o] = "idle" =>
           expires[o] + RenewSeconds <= due[o] + LeaseSeconds + Skew
      /\ pc[o] = "held" /\ renewer[o] \in {"sent", "applied"} =>
           expires[o] <= until[o] /\ until[o] <= clock + Skew + LeaseSeconds
      /\ pc[o] = "held" /\ renewer[o] = "applied" => Fresh(o, until[o])

(* acquire() ends: with the lease, or with an error.                       *)
AcquireReturns ==
    \A o \in Lease :
      pc[o] \in {"wait", "acquiring", "granted"} ~>
        pc[o] \notin {"wait", "acquiring", "granted"}
=============================================================================
