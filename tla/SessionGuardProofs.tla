-------------------------- MODULE SessionGuardProofs --------------------------
(***************************************************************************)
(* Proofs about SessionGuard: the guard an earlier call left in a session  *)
(* lets nobody execute beside the present holder, for any number of        *)
(* processes and calls and any time constants, provided the clocks agree   *)
(* to within half the margin of the guard.                                 *)
(***************************************************************************)
EXTENDS SessionGuard, SessionLeaseProofs

(* Every variable of the processes keeps its type.                         *)
THEOREM GTypeCorrect == GSpec => []GTypeOK
<1>1. GInit => GTypeOK
  BY LeaseAssumption DEF GInit, Init, GTypeOK, TypeOK, Pc, Renewer
<1>2. GTypeOK /\ [GNext]_gvars => GTypeOK'
  <2> SUFFICES ASSUME GTypeOK, [GNext]_gvars PROVE GTypeOK'
    OBVIOUS
  <2> USE LeaseAssumption DEF TypeOK, Pc, Renewer, GTypeOK, vars, tableVars, callVars,
        guardVars, renewVars, callState, cacheVars
  <2>1. ASSUME NEW o \in Lease, Attempt(o), UNCHANGED <<callState, cacheVars>> PROVE GTypeOK'
    BY <2>1 DEF Attempt, Now
  <2>2. ASSUME NEW o \in Lease, AcquireApplies(o), UNCHANGED <<callState, cacheVars>> PROVE GTypeOK'
    BY <2>2 DEF AcquireApplies, Acquirable
  <2>3. ASSUME NEW o \in Lease, AcquireRefused(o), UNCHANGED <<callState, cacheVars>> PROVE GTypeOK'
    BY <2>3 DEF AcquireRefused, Acquirable, EndCall
  <2>4. ASSUME NEW o \in Lease, Granted(o), UNCHANGED <<callState, cacheVars>> PROVE GTypeOK'
    BY <2>4 DEF Granted, EndCall
  <2>5. ASSUME NEW o \in Lease, RenewSend(o), UNCHANGED <<callState, cacheVars>> PROVE GTypeOK'
    BY <2>5 DEF RenewSend, Now
  <2>6. ASSUME NEW o \in Lease, RenewApplies(o), UNCHANGED <<callState, cacheVars>> PROVE GTypeOK'
    BY <2>6 DEF RenewApplies
  <2>7. ASSUME NEW o \in Lease, RenewReturns(o), UNCHANGED <<callState, cacheVars>> PROVE GTypeOK'
    BY <2>7 DEF RenewReturns
  <2>8. ASSUME NEW o \in Lease, RenewRefused(o), UNCHANGED <<callState, cacheVars>> PROVE GTypeOK'
    BY <2>8 DEF RenewRefused, LoseLease
  <2>9. ASSUME NEW o \in Lease, ReleaseApplies(o), UNCHANGED <<callState, cacheVars>> PROVE GTypeOK'
    BY <2>9 DEF ReleaseApplies
  <2>10. ASSUME NEW o \in Lease, ReleaseRefused(o), UNCHANGED <<callState, cacheVars>> PROVE GTypeOK'
    BY <2>10 DEF ReleaseRefused
  <2>11. ASSUME NEW o \in Lease, RecordUnusable(o), UNCHANGED <<callState, cacheVars>> PROVE GTypeOK'
    BY <2>11 DEF RecordUnusable, EndCall
  <2>12. ASSUME NEW o \in Lease, AcquireUnanswered(o), UNCHANGED <<callState, cacheVars>> PROVE GTypeOK'
    BY <2>12 DEF AcquireUnanswered, EndCall
  <2>13. ASSUME NEW o \in Lease, RenewFails(o), UNCHANGED <<callState, cacheVars>> PROVE GTypeOK'
    BY <2>13 DEF RenewFails, LoseLease
  <2>14. ASSUME NEW o \in Lease, RenewRepeats(o), UNCHANGED <<callState, cacheVars>> PROVE GTypeOK'
    BY <2>14 DEF RenewRepeats
  <2>15. ASSUME NEW o \in Lease, ReleaseFails(o), UNCHANGED <<callState, cacheVars>> PROVE GTypeOK'
    BY <2>15 DEF ReleaseFails
  <2>16. ASSUME Tick, UNCHANGED <<callState, cacheVars>> PROVE GTypeOK'
    BY <2>16 DEF Tick
  <2>17. ASSUME NEW p \in Proc, UseCached(p) PROVE GTypeOK'
    BY <2>17 DEF UseCached, InBody
  <2>18. ASSUME NEW p \in Proc, AttachOrCreate(p) PROVE GTypeOK'
    BY <2>18 DEF AttachOrCreate, InBody, Write
  <2>19. ASSUME NEW p \in Proc, CloseSession(p) PROVE GTypeOK'
    BY <2>19 DEF CloseSession, InBody, Write
  <2>20. ASSUME NEW p \in Proc, LeaveCall(p) PROVE GTypeOK'
    BY <2>20 DEF LeaveCall, StopRenewing
  <2>21. ASSUME NEW p \in Proc, CrashProcess(p) PROVE GTypeOK'
    <3>1. TypeOK'
      <4>1. CASE UNCHANGED vars
        BY <4>1
      <4>2. CASE handler[p] # NoLease /\ Crash(handler[p])
        BY <4>2 DEF Crash, EndCall
      <4>. QED
        BY <2>21, <4>1, <4>2 DEF CrashProcess
    <3>. QED
      BY <2>21, <3>1 DEF CrashProcess
  <2>22. ASSUME NEW p \in Proc, NEW o \in Lease, OpenCall(p, o) PROVE GTypeOK'
    BY <2>22 DEF OpenCall, Begin
  <2>23. CASE UNCHANGED gvars
    BY <2>23 DEF gvars
  <2>. QED
    BY <2>1, <2>2, <2>3, <2>4, <2>5, <2>6, <2>7, <2>8, <2>9, <2>10,
        <2>11, <2>12, <2>13, <2>14, <2>15, <2>16, <2>17, <2>18, <2>19,
        <2>20, <2>21, <2>22, <2>23
    DEF GNext, LeaseStep, Acquire, Renew
<1>. QED
  BY <1>1, <1>2, PTL DEF GSpec

(* What the processes do to their leases is what the leases may do.        *)
LEMMA CallsUseTheLease == GSpec => Spec
<1>1. GInit => Init
  BY DEF GInit
<1>2. GTypeOK /\ [GNext]_gvars => [Next]_vars
  <2> SUFFICES ASSUME GTypeOK, [GNext]_gvars PROVE [Next]_vars
    OBVIOUS
  <2>1. ASSUME NEW p \in Proc, handler[p] # NoLease PROVE handler[p] \in Lease
    BY <2>1 DEF GTypeOK
  <2>2. CASE LeaseStep
    BY <2>2 DEF LeaseStep, Next, Fault, Release
  <2>3. ASSUME NEW p \in Proc, NEW o \in Lease, OpenCall(p, o) PROVE Next
    BY <2>3 DEF OpenCall, Next
  <2>4. ASSUME NEW p \in Proc, UseCached(p) PROVE UNCHANGED vars
    BY <2>4 DEF UseCached
  <2>5. ASSUME NEW p \in Proc, AttachOrCreate(p) \/ CloseSession(p) PROVE Next
    BY <2>1, <2>5 DEF AttachOrCreate, CloseSession, InBody, Next
  <2>6. ASSUME NEW p \in Proc, LeaveCall(p) PROVE [Next]_vars
    BY <2>1, <2>6 DEF LeaveCall, Next, Release
  <2>7. ASSUME NEW p \in Proc, CrashProcess(p) PROVE [Next]_vars
    BY <2>1, <2>7 DEF CrashProcess, Next, Fault
  <2>8. CASE UNCHANGED gvars
    BY <2>8 DEF gvars
  <2>. QED
    BY <2>2, <2>3, <2>4, <2>5, <2>6, <2>7, <2>8 DEF GNext
<1>. QED
  BY <1>1, <1>2, GTypeCorrect, PTL DEF GSpec, Spec

-----------------------------------------------------------------------------
(* Who holds which lease object: a call of one process is nobody else's,   *)
(* and the guard of an earlier call belongs to a call that has ended.      *)
Roles ==
    /\ \A o \in Lease : renewer[o] = "idle" => pc[o] = "held"
    /\ \A p \in Proc : handler[p] \in Lease => pc[handler[p]] \notin {"new", "dead"}
    /\ \A p, q \in Proc : handler[p] \in Lease /\ handler[p] = handler[q] => p = q
    /\ \A p \in Proc : guard[p] \in Lease /\ guard[p] # handler[p] =>
         pc[guard[p]] \in {"done", "busy", "failed"}

LEMMA RolesHold == GSpec => []Roles
<1>1. GInit => Roles
  BY LeaseAssumption DEF GInit, Init, Roles
<1>2. GTypeOK /\ Roles /\ [GNext]_gvars => Roles'
  <2> SUFFICES ASSUME GTypeOK, Roles, [GNext]_gvars PROVE Roles'
    OBVIOUS
  <2> USE LeaseAssumption DEF TypeOK, Pc, Renewer, GTypeOK, vars, tableVars, callVars,
        guardVars, renewVars, callState, cacheVars, Roles
  <2>1. ASSUME NEW o \in Lease, Attempt(o), UNCHANGED <<callState, cacheVars>> PROVE Roles'
    BY <2>1 DEF Attempt, Now
  <2>2. ASSUME NEW o \in Lease, AcquireApplies(o), UNCHANGED <<callState, cacheVars>> PROVE Roles'
    BY <2>2 DEF AcquireApplies, Acquirable
  <2>3. ASSUME NEW o \in Lease, AcquireRefused(o), UNCHANGED <<callState, cacheVars>> PROVE Roles'
    BY <2>3 DEF AcquireRefused, Acquirable, EndCall
  <2>4. ASSUME NEW o \in Lease, Granted(o), UNCHANGED <<callState, cacheVars>> PROVE Roles'
    BY <2>4 DEF Granted, EndCall
  <2>5. ASSUME NEW o \in Lease, RenewSend(o), UNCHANGED <<callState, cacheVars>> PROVE Roles'
    BY <2>5 DEF RenewSend, Now
  <2>6. ASSUME NEW o \in Lease, RenewApplies(o), UNCHANGED <<callState, cacheVars>> PROVE Roles'
    BY <2>6 DEF RenewApplies
  <2>7. ASSUME NEW o \in Lease, RenewReturns(o), UNCHANGED <<callState, cacheVars>> PROVE Roles'
    BY <2>7 DEF RenewReturns
  <2>8. ASSUME NEW o \in Lease, RenewRefused(o), UNCHANGED <<callState, cacheVars>> PROVE Roles'
    BY <2>8 DEF RenewRefused, LoseLease
  <2>9. ASSUME NEW o \in Lease, ReleaseApplies(o), UNCHANGED <<callState, cacheVars>> PROVE Roles'
    BY <2>9 DEF ReleaseApplies
  <2>10. ASSUME NEW o \in Lease, ReleaseRefused(o), UNCHANGED <<callState, cacheVars>> PROVE Roles'
    BY <2>10 DEF ReleaseRefused
  <2>11. ASSUME NEW o \in Lease, RecordUnusable(o), UNCHANGED <<callState, cacheVars>> PROVE Roles'
    BY <2>11 DEF RecordUnusable, EndCall
  <2>12. ASSUME NEW o \in Lease, AcquireUnanswered(o), UNCHANGED <<callState, cacheVars>> PROVE Roles'
    BY <2>12 DEF AcquireUnanswered, EndCall
  <2>13. ASSUME NEW o \in Lease, RenewFails(o), UNCHANGED <<callState, cacheVars>> PROVE Roles'
    BY <2>13 DEF RenewFails, LoseLease
  <2>14. ASSUME NEW o \in Lease, RenewRepeats(o), UNCHANGED <<callState, cacheVars>> PROVE Roles'
    BY <2>14 DEF RenewRepeats
  <2>15. ASSUME NEW o \in Lease, ReleaseFails(o), UNCHANGED <<callState, cacheVars>> PROVE Roles'
    BY <2>15 DEF ReleaseFails
  <2>16. ASSUME Tick, UNCHANGED <<callState, cacheVars>> PROVE Roles'
    BY <2>16 DEF Tick
  <2>17. ASSUME NEW p \in Proc, UseCached(p) PROVE Roles'
    BY <2>17 DEF UseCached, InBody
  <2>18. ASSUME NEW p \in Proc, AttachOrCreate(p) PROVE Roles'
    BY <2>18 DEF AttachOrCreate, InBody, Write
  <2>19. ASSUME NEW p \in Proc, CloseSession(p) PROVE Roles'
    BY <2>19 DEF CloseSession, InBody, Write
  <2>20. ASSUME NEW p \in Proc, LeaveCall(p) PROVE Roles'
    BY <2>20 DEF LeaveCall, StopRenewing
  <2>21. ASSUME NEW p \in Proc, CrashProcess(p) PROVE Roles'
    BY <2>21 DEF CrashProcess, Crash, EndCall
  <2>22. ASSUME NEW p \in Proc, NEW o \in Lease, OpenCall(p, o) PROVE Roles'
    BY <2>22 DEF OpenCall, Begin
  <2>23. CASE UNCHANGED gvars
    BY <2>23 DEF gvars
  <2>. QED
    BY <2>1, <2>2, <2>3, <2>4, <2>5, <2>6, <2>7, <2>8, <2>9, <2>10,
        <2>11, <2>12, <2>13, <2>14, <2>15, <2>16, <2>17, <2>18, <2>19,
        <2>20, <2>21, <2>22, <2>23
    DEF GNext, LeaseStep, Acquire, Renew
<1>. QED
  BY <1>1, <1>2, GTypeCorrect, PTL DEF GSpec

(* No lease object knows, or may still hear of, an expiry further away     *)
(* than one lease time from the clock that runs ahead.                     *)
Furthest == clock + Skew + LeaseSeconds
Bounded == \A o \in Lease : expires[o] <= Furthest /\ until[o] <= Furthest

LEMMA ExpiriesAreBounded == GSpec => []Bounded
<1>1. GInit => Bounded
  <2>1. Skew \in Nat /\ LeaseSeconds \in Nat
    BY LeaseAssumption
  <2>2. SUFFICES ASSUME GInit, NEW o \in Lease
        PROVE  expires[o] <= Furthest /\ until[o] <= Furthest
    BY DEF Bounded
  <2>3. clock = 0 /\ expires[o] = 0 /\ until[o] = 0
    BY <2>2 DEF GInit, Init
  <2>. QED
    BY <2>1, <2>3 DEF Furthest
<1>2. GTypeOK /\ LeaseInv /\ Bounded /\ [GNext]_gvars => Bounded'
  <2> SUFFICES ASSUME GTypeOK, LeaseInv, Bounded, [GNext]_gvars PROVE Bounded'
    OBVIOUS
  <2> USE LeaseAssumption DEF TypeOK, Pc, Renewer, GTypeOK, vars, tableVars, callVars,
        guardVars, renewVars, callState, cacheVars, LeaseInv, Bounded, Furthest
  <2>1. ASSUME NEW o \in Lease, Attempt(o), UNCHANGED <<callState, cacheVars>> PROVE Bounded'
    BY <2>1 DEF Attempt, Now
  <2>2. ASSUME NEW o \in Lease, AcquireApplies(o), UNCHANGED <<callState, cacheVars>> PROVE Bounded'
    BY <2>2 DEF AcquireApplies, Acquirable
  <2>3. ASSUME NEW o \in Lease, AcquireRefused(o), UNCHANGED <<callState, cacheVars>> PROVE Bounded'
    BY <2>3 DEF AcquireRefused, Acquirable, EndCall
  <2>4. ASSUME NEW o \in Lease, Granted(o), UNCHANGED <<callState, cacheVars>> PROVE Bounded'
    BY <2>4 DEF Granted, EndCall
  <2>5. ASSUME NEW o \in Lease, RenewSend(o), UNCHANGED <<callState, cacheVars>> PROVE Bounded'
    BY <2>5 DEF RenewSend, Now
  <2>6. ASSUME NEW o \in Lease, RenewApplies(o), UNCHANGED <<callState, cacheVars>> PROVE Bounded'
    BY <2>6 DEF RenewApplies
  <2>7. ASSUME NEW o \in Lease, RenewReturns(o), UNCHANGED <<callState, cacheVars>> PROVE Bounded'
    BY <2>7 DEF RenewReturns
  <2>8. ASSUME NEW o \in Lease, RenewRefused(o), UNCHANGED <<callState, cacheVars>> PROVE Bounded'
    BY <2>8 DEF RenewRefused, LoseLease
  <2>9. ASSUME NEW o \in Lease, ReleaseApplies(o), UNCHANGED <<callState, cacheVars>> PROVE Bounded'
    BY <2>9 DEF ReleaseApplies
  <2>10. ASSUME NEW o \in Lease, ReleaseRefused(o), UNCHANGED <<callState, cacheVars>> PROVE Bounded'
    BY <2>10 DEF ReleaseRefused
  <2>11. ASSUME NEW o \in Lease, RecordUnusable(o), UNCHANGED <<callState, cacheVars>> PROVE Bounded'
    BY <2>11 DEF RecordUnusable, EndCall
  <2>12. ASSUME NEW o \in Lease, AcquireUnanswered(o), UNCHANGED <<callState, cacheVars>> PROVE Bounded'
    BY <2>12 DEF AcquireUnanswered, EndCall
  <2>13. ASSUME NEW o \in Lease, RenewFails(o), UNCHANGED <<callState, cacheVars>> PROVE Bounded'
    BY <2>13 DEF RenewFails, LoseLease
  <2>14. ASSUME NEW o \in Lease, RenewRepeats(o), UNCHANGED <<callState, cacheVars>> PROVE Bounded'
    BY <2>14 DEF RenewRepeats
  <2>15. ASSUME NEW o \in Lease, ReleaseFails(o), UNCHANGED <<callState, cacheVars>> PROVE Bounded'
    BY <2>15 DEF ReleaseFails
  <2>16. ASSUME Tick, UNCHANGED <<callState, cacheVars>> PROVE Bounded'
    BY <2>16 DEF Tick
  <2>17. ASSUME NEW p \in Proc, UseCached(p) PROVE Bounded'
    BY <2>17 DEF UseCached, InBody
  <2>18. ASSUME NEW p \in Proc, AttachOrCreate(p) PROVE Bounded'
    BY <2>18 DEF AttachOrCreate, InBody, Write
  <2>19. ASSUME NEW p \in Proc, CloseSession(p) PROVE Bounded'
    BY <2>19 DEF CloseSession, InBody, Write
  <2>20. ASSUME NEW p \in Proc, LeaveCall(p) PROVE Bounded'
    BY <2>20 DEF LeaveCall, StopRenewing
  <2>21. ASSUME NEW p \in Proc, CrashProcess(p) PROVE Bounded'
    BY <2>21 DEF CrashProcess, Crash, EndCall
  <2>22. ASSUME NEW p \in Proc, NEW o \in Lease, OpenCall(p, o) PROVE Bounded'
    BY <2>22 DEF OpenCall, Begin
  <2>23. CASE UNCHANGED gvars
    BY <2>23 DEF gvars
  <2>. QED
    BY <2>1, <2>2, <2>3, <2>4, <2>5, <2>6, <2>7, <2>8, <2>9, <2>10,
        <2>11, <2>12, <2>13, <2>14, <2>15, <2>16, <2>17, <2>18, <2>19,
        <2>20, <2>21, <2>22, <2>23
    DEF GNext, LeaseStep, Acquire, Renew
<1>. QED
  BY <1>1, <1>2, GTypeCorrect, CallsUseTheLease, LeaseInvariant, PTL DEF GSpec

-----------------------------------------------------------------------------
(* An old expiry x seen from the lease h of the present call.  When h asks *)
(* for the item, x is at most one lease time ahead; from the grant on it   *)
(* is behind the time the item is held until, but for the skew; and once   *)
(* somebody else took the item over, it is behind the clock.               *)
RunsOutBefore(h, x) ==
    /\ pc[h] \in {"acquiring", "granted"} => x <= at[h] + Skew + LeaseSeconds
    /\ pc[h] \in {"granted", "held"} /\ owner = h => x <= leaseUntil + Skew
    /\ pc[h] \in {"granted", "held"} /\ owner # h => x <= clock + 2 * Skew
    /\ pc[h] = "held" /\ renewer[h] \in {"sent", "applied"} => x <= until[h] + Skew

OldGuardRunsOut ==
    \A p \in Proc :
      guard[p] \in Lease /\ handler[p] \in Lease /\ guard[p] # handler[p] =>
        /\ RunsOutBefore(handler[p], expires[guard[p]])
        /\ RunsOutBefore(handler[p], until[guard[p]])

LEMMA OldGuardsRunOut == GSpec => []OldGuardRunsOut
<1>1. GInit => OldGuardRunsOut
  BY LeaseAssumption DEF GInit, Init, OldGuardRunsOut
<1>2. GTypeOK /\ LeaseInv /\ Roles /\ Bounded /\ OldGuardRunsOut /\ [GNext]_gvars => OldGuardRunsOut'
  <2> SUFFICES ASSUME GTypeOK, LeaseInv, Roles, Bounded, OldGuardRunsOut, [GNext]_gvars PROVE OldGuardRunsOut'
    OBVIOUS
  <2> USE LeaseAssumption DEF TypeOK, Pc, Renewer, GTypeOK, vars, tableVars, callVars,
        guardVars, renewVars, callState, cacheVars, LeaseInv, Fresh,
        Roles, Bounded, Furthest, OldGuardRunsOut, RunsOutBefore
  <2>1. ASSUME NEW o \in Lease, Attempt(o), UNCHANGED <<callState, cacheVars>> PROVE OldGuardRunsOut'
    BY <2>1 DEF Attempt, Now
  <2>2. ASSUME NEW o \in Lease, AcquireApplies(o), UNCHANGED <<callState, cacheVars>> PROVE OldGuardRunsOut'
    BY <2>2 DEF AcquireApplies, Acquirable
  <2>3. ASSUME NEW o \in Lease, AcquireRefused(o), UNCHANGED <<callState, cacheVars>> PROVE OldGuardRunsOut'
    BY <2>3 DEF AcquireRefused, Acquirable, EndCall
  <2>4. ASSUME NEW o \in Lease, Granted(o), UNCHANGED <<callState, cacheVars>> PROVE OldGuardRunsOut'
    BY <2>4 DEF Granted, EndCall
  <2>5. ASSUME NEW o \in Lease, RenewSend(o), UNCHANGED <<callState, cacheVars>> PROVE OldGuardRunsOut'
    BY <2>5 DEF RenewSend, Now
  <2>6. ASSUME NEW o \in Lease, RenewApplies(o), UNCHANGED <<callState, cacheVars>> PROVE OldGuardRunsOut'
    BY <2>6 DEF RenewApplies
  <2>7. ASSUME NEW o \in Lease, RenewReturns(o), UNCHANGED <<callState, cacheVars>> PROVE OldGuardRunsOut'
    BY <2>7 DEF RenewReturns
  <2>8. ASSUME NEW o \in Lease, RenewRefused(o), UNCHANGED <<callState, cacheVars>> PROVE OldGuardRunsOut'
    BY <2>8 DEF RenewRefused, LoseLease
  <2>9. ASSUME NEW o \in Lease, ReleaseApplies(o), UNCHANGED <<callState, cacheVars>> PROVE OldGuardRunsOut'
    BY <2>9 DEF ReleaseApplies
  <2>10. ASSUME NEW o \in Lease, ReleaseRefused(o), UNCHANGED <<callState, cacheVars>> PROVE OldGuardRunsOut'
    BY <2>10 DEF ReleaseRefused
  <2>11. ASSUME NEW o \in Lease, RecordUnusable(o), UNCHANGED <<callState, cacheVars>> PROVE OldGuardRunsOut'
    BY <2>11 DEF RecordUnusable, EndCall
  <2>12. ASSUME NEW o \in Lease, AcquireUnanswered(o), UNCHANGED <<callState, cacheVars>> PROVE OldGuardRunsOut'
    BY <2>12 DEF AcquireUnanswered, EndCall
  <2>13. ASSUME NEW o \in Lease, RenewFails(o), UNCHANGED <<callState, cacheVars>> PROVE OldGuardRunsOut'
    BY <2>13 DEF RenewFails, LoseLease
  <2>14. ASSUME NEW o \in Lease, RenewRepeats(o), UNCHANGED <<callState, cacheVars>> PROVE OldGuardRunsOut'
    BY <2>14 DEF RenewRepeats
  <2>15. ASSUME NEW o \in Lease, ReleaseFails(o), UNCHANGED <<callState, cacheVars>> PROVE OldGuardRunsOut'
    BY <2>15 DEF ReleaseFails
  <2>16. ASSUME Tick, UNCHANGED <<callState, cacheVars>> PROVE OldGuardRunsOut'
    BY <2>16 DEF Tick
  <2>17. ASSUME NEW p \in Proc, UseCached(p) PROVE OldGuardRunsOut'
    BY <2>17 DEF UseCached, InBody
  <2>18. ASSUME NEW p \in Proc, AttachOrCreate(p) PROVE OldGuardRunsOut'
    BY <2>18 DEF AttachOrCreate, InBody, Write
  <2>19. ASSUME NEW p \in Proc, CloseSession(p) PROVE OldGuardRunsOut'
    BY <2>19 DEF CloseSession, InBody, Write
  <2>20. ASSUME NEW p \in Proc, LeaveCall(p) PROVE OldGuardRunsOut'
    BY <2>20 DEF LeaveCall, StopRenewing
  <2>21. ASSUME NEW p \in Proc, CrashProcess(p) PROVE OldGuardRunsOut'
    BY <2>21 DEF CrashProcess, Crash, EndCall
  <2>22. ASSUME NEW p \in Proc, NEW o \in Lease, OpenCall(p, o) PROVE OldGuardRunsOut'
    BY <2>22 DEF OpenCall, Begin
  <2>23. CASE UNCHANGED gvars
    BY <2>23 DEF gvars
  <2>. QED
    BY <2>1, <2>2, <2>3, <2>4, <2>5, <2>6, <2>7, <2>8, <2>9, <2>10,
        <2>11, <2>12, <2>13, <2>14, <2>15, <2>16, <2>17, <2>18, <2>19,
        <2>20, <2>21, <2>22, <2>23
    DEF GNext, LeaseStep, Acquire, Renew
<1>. QED
  BY <1>1, <1>2, GTypeCorrect, RolesHold, ExpiriesAreBounded, CallsUseTheLease,
     LeaseInvariant, PTL DEF GSpec

-----------------------------------------------------------------------------
(* A guard of an earlier call does not pass once the lease of the present  *)
(* call was taken over (runtime_app.py 107-114, registry.py 173-175), if   *)
(* two readings of the clock differ by at most half the margin.            *)
THEOREM OldGuardIsHarmless == ClocksAgree => (GSpec => []OldGuardIsSafe)
<1> SUFFICES ASSUME ClocksAgree PROVE GSpec => []OldGuardIsSafe
  OBVIOUS
<1>1. GTypeOK /\ LeaseInv /\ OldGuardRunsOut => OldGuardIsSafe
  <2> SUFFICES ASSUME GTypeOK, LeaseInv, OldGuardRunsOut,
                      NEW p \in Proc, MayExecute(p), owner # handler[p]
               PROVE  FALSE
    BY DEF OldGuardIsSafe
  <2> DEFINE h == handler[p]  g == guard[p]
  <2>1. h \in Lease /\ g \in Lease /\ pc[h] = "held"
    BY DEF MayExecute, InBody, GuardMayPass, GTypeOK
  <2>2. expires[g] \in Nat /\ expires[h] \in Nat /\ clock \in Nat
        /\ clock < expires[g] - Margin
    BY <2>1 DEF MayExecute, GuardMayPass, GTypeOK, TypeOK
  <2>3. CASE g = h
    BY <2>1, <2>2, <2>3, LeaseAssumption DEF LeaseInv, Fresh
  <2>4. CASE g # h
    BY <2>1, <2>2, <2>4, LeaseAssumption
    DEF OldGuardRunsOut, RunsOutBefore, ClocksAgree
  <2>. QED
    BY <2>3, <2>4
<1>. QED
  BY <1>1, GTypeCorrect, CallsUseTheLease, LeaseInvariant, OldGuardsRunOut, PTL

(* Two processes that keep the session of one user never both execute: the *)
(* item names one call, and that is the call of one process.               *)
THEOREM OneProcessExecutes == ClocksAgree => (GSpec => []ExecutesAlone)
<1>1. GTypeOK /\ Roles /\ OldGuardIsSafe => ExecutesAlone
  BY DEF GTypeOK, Roles, OldGuardIsSafe, ExecutesAlone, MayExecute, InBody
<1>. QED
  BY <1>1, GTypeCorrect, RolesHold, OldGuardIsHarmless, PTL
=============================================================================
