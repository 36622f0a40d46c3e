-------------------------- MODULE SessionLeaseProofs --------------------------
(***************************************************************************)
(* Proofs about SessionLease, for any number of lease objects and any time *)
(* constants that satisfy LeaseAssumption.                                 *)
(***************************************************************************)
EXTENDS SessionLease, TLAPS

(* Every variable of the lease keeps its type. *)
THEOREM TypeCorrect == Spec => []TypeOK
<1>1. Init => TypeOK
  BY LeaseAssumption DEF Init, TypeOK, Pc, Renewer
<1>2. TypeOK /\ [Next]_vars => TypeOK'
  <2> SUFFICES ASSUME TypeOK, [Next]_vars PROVE TypeOK'
    OBVIOUS
  <2> USE LeaseAssumption DEF TypeOK, Pc, Renewer, tableVars, callVars, guardVars, renewVars
  <2>1. ASSUME NEW o \in Lease, Begin(o) PROVE TypeOK'
    BY <2>1 DEF Begin
  <2>2. ASSUME NEW o \in Lease, Attempt(o) PROVE TypeOK'
    BY <2>2 DEF Attempt, Now
  <2>3. ASSUME NEW o \in Lease, AcquireApplies(o) PROVE TypeOK'
    BY <2>3 DEF AcquireApplies, Acquirable
  <2>4. ASSUME NEW o \in Lease, AcquireRefused(o) PROVE TypeOK'
    BY <2>4 DEF AcquireRefused, Acquirable, EndCall
  <2>5. ASSUME NEW o \in Lease, Granted(o) PROVE TypeOK'
    BY <2>5 DEF Granted, EndCall
  <2>6. ASSUME NEW o \in Lease, RenewSend(o) PROVE TypeOK'
    BY <2>6 DEF RenewSend, Now
  <2>7. ASSUME NEW o \in Lease, RenewApplies(o) PROVE TypeOK'
    BY <2>7 DEF RenewApplies
  <2>8. ASSUME NEW o \in Lease, RenewReturns(o) PROVE TypeOK'
    BY <2>8 DEF RenewReturns
  <2>9. ASSUME NEW o \in Lease, RenewRefused(o) PROVE TypeOK'
    BY <2>9 DEF RenewRefused, LoseLease
  <2>10. ASSUME NEW o \in Lease, Write(o) PROVE TypeOK'
    BY <2>10 DEF Write
  <2>11. ASSUME NEW o \in Lease, StopRenewing(o) PROVE TypeOK'
    BY <2>11 DEF StopRenewing
  <2>12. ASSUME NEW o \in Lease, ReleaseApplies(o) PROVE TypeOK'
    BY <2>12 DEF ReleaseApplies
  <2>13. ASSUME NEW o \in Lease, ReleaseRefused(o) PROVE TypeOK'
    BY <2>13 DEF ReleaseRefused
  <2>14. ASSUME NEW o \in Lease, RecordUnusable(o) PROVE TypeOK'
    BY <2>14 DEF RecordUnusable, EndCall
  <2>15. ASSUME NEW o \in Lease, AcquireUnanswered(o) PROVE TypeOK'
    BY <2>15 DEF AcquireUnanswered, EndCall
  <2>16. ASSUME NEW o \in Lease, RenewFails(o) PROVE TypeOK'
    BY <2>16 DEF RenewFails, LoseLease
  <2>17. ASSUME NEW o \in Lease, RenewRepeats(o) PROVE TypeOK'
    BY <2>17 DEF RenewRepeats
  <2>18. ASSUME NEW o \in Lease, ReleaseFails(o) PROVE TypeOK'
    BY <2>18 DEF ReleaseFails
  <2>19. ASSUME NEW o \in Lease, Crash(o) PROVE TypeOK'
    BY <2>19 DEF Crash, EndCall
  <2>20. CASE Tick
    BY <2>20 DEF Tick
  <2>21. CASE UNCHANGED vars
    BY <2>21 DEF vars, tableVars, callVars, guardVars, renewVars
  <2>. QED
    BY <2>1, <2>2, <2>3, <2>4, <2>5, <2>6, <2>7, <2>8, <2>9, <2>10, <2>11,
        <2>12, <2>13, <2>14, <2>15, <2>16, <2>17, <2>18, <2>19, <2>20, <2>21
    DEF Next, Acquire, Renew, Release, Fault
<1>. QED
  BY <1>1, <1>2, PTL DEF Spec

-----------------------------------------------------------------------------
(* The invariant that ties what a handler knows of its lease to the item.  *)
THEOREM LeaseInvariant == Spec => []LeaseInv
<1>1. Init => LeaseInv
  BY DEF Init, LeaseInv
<1>2. TypeOK /\ LeaseInv /\ [Next]_vars => LeaseInv'
  <2> SUFFICES ASSUME TypeOK, LeaseInv, [Next]_vars PROVE LeaseInv'
    OBVIOUS
  <2> USE LeaseAssumption DEF TypeOK, Pc, Renewer, LeaseInv, Fresh,
        tableVars, callVars, guardVars, renewVars
  <2>1. ASSUME NEW o \in Lease, Begin(o) PROVE LeaseInv'
    BY <2>1 DEF Begin
  <2>2. ASSUME NEW o \in Lease, Attempt(o) PROVE LeaseInv'
    BY <2>2 DEF Attempt, Now
  <2>3. ASSUME NEW o \in Lease, AcquireApplies(o) PROVE LeaseInv'
    BY <2>3 DEF AcquireApplies, Acquirable
  <2>4. ASSUME NEW o \in Lease, AcquireRefused(o) PROVE LeaseInv'
    BY <2>4 DEF AcquireRefused, Acquirable, EndCall
  <2>5. ASSUME NEW o \in Lease, Granted(o) PROVE LeaseInv'
    BY <2>5 DEF Granted, EndCall
  <2>6. ASSUME NEW o \in Lease, RenewSend(o) PROVE LeaseInv'
    BY <2>6 DEF RenewSend, Now
  <2>7. ASSUME NEW o \in Lease, RenewApplies(o) PROVE LeaseInv'
    BY <2>7 DEF RenewApplies
  <2>8. ASSUME NEW o \in Lease, RenewReturns(o) PROVE LeaseInv'
    BY <2>8 DEF RenewReturns
  <2>9. ASSUME NEW o \in Lease, RenewRefused(o) PROVE LeaseInv'
    BY <2>9 DEF RenewRefused, LoseLease
  <2>10. ASSUME NEW o \in Lease, Write(o) PROVE LeaseInv'
    BY <2>10 DEF Write
  <2>11. ASSUME NEW o \in Lease, StopRenewing(o) PROVE LeaseInv'
    BY <2>11 DEF StopRenewing
  <2>12. ASSUME NEW o \in Lease, ReleaseApplies(o) PROVE LeaseInv'
    BY <2>12 DEF ReleaseApplies
  <2>13. ASSUME NEW o \in Lease, ReleaseRefused(o) PROVE LeaseInv'
    BY <2>13 DEF ReleaseRefused
  <2>14. ASSUME NEW o \in Lease, RecordUnusable(o) PROVE LeaseInv'
    BY <2>14 DEF RecordUnusable, EndCall
  <2>15. ASSUME NEW o \in Lease, AcquireUnanswered(o) PROVE LeaseInv'
    BY <2>15 DEF AcquireUnanswered, EndCall
  <2>16. ASSUME NEW o \in Lease, RenewFails(o) PROVE LeaseInv'
    BY <2>16 DEF RenewFails, LoseLease
  <2>17. ASSUME NEW o \in Lease, RenewRepeats(o) PROVE LeaseInv'
    BY <2>17 DEF RenewRepeats
  <2>18. ASSUME NEW o \in Lease, ReleaseFails(o) PROVE LeaseInv'
    BY <2>18 DEF ReleaseFails
  <2>19. ASSUME NEW o \in Lease, Crash(o) PROVE LeaseInv'
    BY <2>19 DEF Crash, EndCall
  <2>20. CASE Tick
    BY <2>20 DEF Tick
  <2>21. CASE UNCHANGED vars
    BY <2>21 DEF vars
  <2>. QED
    BY <2>1, <2>2, <2>3, <2>4, <2>5, <2>6, <2>7, <2>8, <2>9, <2>10, <2>11,
        <2>12, <2>13, <2>14, <2>15, <2>16, <2>17, <2>18, <2>19, <2>20, <2>21
    DEF Next, Acquire, Renew, Release, Fault
<1>. QED
  BY <1>1, <1>2, TypeCorrect, PTL DEF Spec

(* Two handlers never get past check() at the same time: one of them is    *)
(* not the owner, so the expiry it knows is behind by more than the margin.*)
LEMMA LeaseInvExcludes == TypeOK /\ LeaseInv => GuardExclusive
<1> SUFFICES ASSUME TypeOK, LeaseInv, NEW o \in Lease, NEW q \in Lease,
                    MayPass(o), MayPass(q), o # q
             PROVE  FALSE
  BY DEF GuardExclusive
<1>1. ASSUME NEW x \in Lease, MayPass(x) PROVE owner = x
  BY <1>1, LeaseAssumption DEF TypeOK, LeaseInv, Fresh, MayPass
<1>. QED
  BY <1>1

(* DynamoLease.check lets at most one handler of a runtime session pass at *)
(* any time, whatever the network does and wherever a process stops.       *)
THEOREM AtMostOneGuard == Spec => []GuardExclusive
BY TypeCorrect, LeaseInvariant, LeaseInvExcludes, PTL

-----------------------------------------------------------------------------
(* The record read under the lease is the stored one while the lease is    *)
(* owned: the condition of every write fences everybody else off.          *)
THEOREM RecordIsTruth == Spec => []OwnerViewIsCurrent
<1>1. Init => OwnerViewIsCurrent
  BY DEF Init, OwnerViewIsCurrent
<1>2. TypeOK /\ OwnerViewIsCurrent /\ [Next]_vars => OwnerViewIsCurrent'
  <2> SUFFICES ASSUME TypeOK, OwnerViewIsCurrent, [Next]_vars
               PROVE  OwnerViewIsCurrent'
    OBVIOUS
  <2> USE LeaseAssumption DEF TypeOK, OwnerViewIsCurrent,
        tableVars, callVars, guardVars, renewVars
  <2>1. ASSUME NEW o \in Lease, Begin(o) PROVE OwnerViewIsCurrent'
    BY <2>1 DEF Begin
  <2>2. ASSUME NEW o \in Lease, Attempt(o) PROVE OwnerViewIsCurrent'
    BY <2>2 DEF Attempt, Now
  <2>3. ASSUME NEW o \in Lease, AcquireApplies(o) PROVE OwnerViewIsCurrent'
    BY <2>3 DEF AcquireApplies, Acquirable
  <2>4. ASSUME NEW o \in Lease, AcquireRefused(o) PROVE OwnerViewIsCurrent'
    BY <2>4 DEF AcquireRefused, Acquirable, EndCall
  <2>5. ASSUME NEW o \in Lease, Granted(o) PROVE OwnerViewIsCurrent'
    BY <2>5 DEF Granted, EndCall
  <2>6. ASSUME NEW o \in Lease, RenewSend(o) PROVE OwnerViewIsCurrent'
    BY <2>6 DEF RenewSend, Now
  <2>7. ASSUME NEW o \in Lease, RenewApplies(o) PROVE OwnerViewIsCurrent'
    BY <2>7 DEF RenewApplies
  <2>8. ASSUME NEW o \in Lease, RenewReturns(o) PROVE OwnerViewIsCurrent'
    BY <2>8 DEF RenewReturns
  <2>9. ASSUME NEW o \in Lease, RenewRefused(o) PROVE OwnerViewIsCurrent'
    BY <2>9 DEF RenewRefused, LoseLease
  <2>10. ASSUME NEW o \in Lease, Write(o) PROVE OwnerViewIsCurrent'
    BY <2>10 DEF Write
  <2>11. ASSUME NEW o \in Lease, StopRenewing(o) PROVE OwnerViewIsCurrent'
    BY <2>11 DEF StopRenewing
  <2>12. ASSUME NEW o \in Lease, ReleaseApplies(o) PROVE OwnerViewIsCurrent'
    BY <2>12 DEF ReleaseApplies
  <2>13. ASSUME NEW o \in Lease, ReleaseRefused(o) PROVE OwnerViewIsCurrent'
    BY <2>13 DEF ReleaseRefused
  <2>14. ASSUME NEW o \in Lease, RecordUnusable(o) PROVE OwnerViewIsCurrent'
    BY <2>14 DEF RecordUnusable, EndCall
  <2>15. ASSUME NEW o \in Lease, AcquireUnanswered(o) PROVE OwnerViewIsCurrent'
    BY <2>15 DEF AcquireUnanswered, EndCall
  <2>16. ASSUME NEW o \in Lease, RenewFails(o) PROVE OwnerViewIsCurrent'
    BY <2>16 DEF RenewFails, LoseLease
  <2>17. ASSUME NEW o \in Lease, RenewRepeats(o) PROVE OwnerViewIsCurrent'
    BY <2>17 DEF RenewRepeats
  <2>18. ASSUME NEW o \in Lease, ReleaseFails(o) PROVE OwnerViewIsCurrent'
    BY <2>18 DEF ReleaseFails
  <2>19. ASSUME NEW o \in Lease, Crash(o) PROVE OwnerViewIsCurrent'
    BY <2>19 DEF Crash, EndCall
  <2>20. CASE Tick
    BY <2>20 DEF Tick
  <2>21. CASE UNCHANGED vars
    BY <2>21 DEF vars
  <2>. QED
    BY <2>1, <2>2, <2>3, <2>4, <2>5, <2>6, <2>7, <2>8, <2>9, <2>10, <2>11,
        <2>12, <2>13, <2>14, <2>15, <2>16, <2>17, <2>18, <2>19, <2>20, <2>21
    DEF Next, Acquire, Renew, Release, Fault
<1>. QED
  BY <1>1, <1>2, TypeCorrect, PTL DEF Spec

(* Once a release has reached the table the item never names it again.     *)
THEOREM ReleaseIsFinal == Spec => []CleanRelease
<1>1. Init => CleanRelease
  BY DEF Init, CleanRelease
<1>2. TypeOK /\ CleanRelease /\ [Next]_vars => CleanRelease'
  <2> SUFFICES ASSUME TypeOK, CleanRelease, [Next]_vars
               PROVE  CleanRelease'
    OBVIOUS
  <2> USE LeaseAssumption DEF TypeOK, CleanRelease,
        tableVars, callVars, guardVars, renewVars
  <2>1. ASSUME NEW o \in Lease, Begin(o) PROVE CleanRelease'
    BY <2>1 DEF Begin
  <2>2. ASSUME NEW o \in Lease, Attempt(o) PROVE CleanRelease'
    BY <2>2 DEF Attempt, Now
  <2>3. ASSUME NEW o \in Lease, AcquireApplies(o) PROVE CleanRelease'
    BY <2>3 DEF AcquireApplies, Acquirable
  <2>4. ASSUME NEW o \in Lease, AcquireRefused(o) PROVE CleanRelease'
    BY <2>4 DEF AcquireRefused, Acquirable, EndCall
  <2>5. ASSUME NEW o \in Lease, Granted(o) PROVE CleanRelease'
    BY <2>5 DEF Granted, EndCall
  <2>6. ASSUME NEW o \in Lease, RenewSend(o) PROVE CleanRelease'
    BY <2>6 DEF RenewSend, Now
  <2>7. ASSUME NEW o \in Lease, RenewApplies(o) PROVE CleanRelease'
    BY <2>7 DEF RenewApplies
  <2>8. ASSUME NEW o \in Lease, RenewReturns(o) PROVE CleanRelease'
    BY <2>8 DEF RenewReturns
  <2>9. ASSUME NEW o \in Lease, RenewRefused(o) PROVE CleanRelease'
    BY <2>9 DEF RenewRefused, LoseLease
  <2>10. ASSUME NEW o \in Lease, Write(o) PROVE CleanRelease'
    BY <2>10 DEF Write
  <2>11. ASSUME NEW o \in Lease, StopRenewing(o) PROVE CleanRelease'
    BY <2>11 DEF StopRenewing
  <2>12. ASSUME NEW o \in Lease, ReleaseApplies(o) PROVE CleanRelease'
    BY <2>12 DEF ReleaseApplies
  <2>13. ASSUME NEW o \in Lease, ReleaseRefused(o) PROVE CleanRelease'
    BY <2>13 DEF ReleaseRefused
  <2>14. ASSUME NEW o \in Lease, RecordUnusable(o) PROVE CleanRelease'
    BY <2>14 DEF RecordUnusable, EndCall
  <2>15. ASSUME NEW o \in Lease, AcquireUnanswered(o) PROVE CleanRelease'
    BY <2>15 DEF AcquireUnanswered, EndCall
  <2>16. ASSUME NEW o \in Lease, RenewFails(o) PROVE CleanRelease'
    BY <2>16 DEF RenewFails, LoseLease
  <2>17. ASSUME NEW o \in Lease, RenewRepeats(o) PROVE CleanRelease'
    BY <2>17 DEF RenewRepeats
  <2>18. ASSUME NEW o \in Lease, ReleaseFails(o) PROVE CleanRelease'
    BY <2>18 DEF ReleaseFails
  <2>19. ASSUME NEW o \in Lease, Crash(o) PROVE CleanRelease'
    BY <2>19 DEF Crash, EndCall
  <2>20. CASE Tick
    BY <2>20 DEF Tick
  <2>21. CASE UNCHANGED vars
    BY <2>21 DEF vars
  <2>. QED
    BY <2>1, <2>2, <2>3, <2>4, <2>5, <2>6, <2>7, <2>8, <2>9, <2>10, <2>11,
        <2>12, <2>13, <2>14, <2>15, <2>16, <2>17, <2>18, <2>19, <2>20, <2>21
    DEF Next, Acquire, Renew, Release, Fault
<1>. QED
  BY <1>1, <1>2, TypeCorrect, PTL DEF Spec

-----------------------------------------------------------------------------
(* Refinement: who may execute changes only by someone starting when nobody*)
(* may, or by everybody having stopped.  A step that lets one lease pass    *)
(* (an answer arriving) does not move the clock, so it takes no other away. *)
LEMMA OneChange ==
  ASSUME TypeOK, [Next]_vars, NEW q \in Lease, MayPass(q)', ~MayPass(q),
         NEW x \in Lease, MayPass(x)
  PROVE  MayPass(x)'
<1> USE LeaseAssumption DEF TypeOK, MayPass, Pc, Renewer,
      tableVars, callVars, guardVars, renewVars
<1>1. ASSUME NEW o \in Lease, Begin(o) PROVE MayPass(x)'
  BY <1>1 DEF Begin
<1>2. ASSUME NEW o \in Lease, Attempt(o) PROVE MayPass(x)'
  BY <1>2 DEF Attempt, Now
<1>3. ASSUME NEW o \in Lease, AcquireApplies(o) PROVE MayPass(x)'
  BY <1>3 DEF AcquireApplies, Acquirable
<1>4. ASSUME NEW o \in Lease, AcquireRefused(o) PROVE MayPass(x)'
  BY <1>4 DEF AcquireRefused, Acquirable, EndCall
<1>5. ASSUME NEW o \in Lease, Granted(o) PROVE MayPass(x)'
  BY <1>5 DEF Granted, EndCall
<1>6. ASSUME NEW o \in Lease, RenewSend(o) PROVE MayPass(x)'
  BY <1>6 DEF RenewSend, Now
<1>7. ASSUME NEW o \in Lease, RenewApplies(o) PROVE MayPass(x)'
  BY <1>7 DEF RenewApplies
<1>8. ASSUME NEW o \in Lease, RenewReturns(o) PROVE MayPass(x)'
  BY <1>8 DEF RenewReturns
<1>9. ASSUME NEW o \in Lease, RenewRefused(o) PROVE MayPass(x)'
  BY <1>9 DEF RenewRefused, LoseLease
<1>10. ASSUME NEW o \in Lease, Write(o) PROVE MayPass(x)'
  BY <1>10 DEF Write
<1>11. ASSUME NEW o \in Lease, StopRenewing(o) PROVE MayPass(x)'
  BY <1>11 DEF StopRenewing
<1>12. ASSUME NEW o \in Lease, ReleaseApplies(o) PROVE MayPass(x)'
  BY <1>12 DEF ReleaseApplies
<1>13. ASSUME NEW o \in Lease, ReleaseRefused(o) PROVE MayPass(x)'
  BY <1>13 DEF ReleaseRefused
<1>14. ASSUME NEW o \in Lease, RecordUnusable(o) PROVE MayPass(x)'
  BY <1>14 DEF RecordUnusable, EndCall
<1>15. ASSUME NEW o \in Lease, AcquireUnanswered(o) PROVE MayPass(x)'
  BY <1>15 DEF AcquireUnanswered, EndCall
<1>16. ASSUME NEW o \in Lease, RenewFails(o) PROVE MayPass(x)'
  BY <1>16 DEF RenewFails, LoseLease
<1>17. ASSUME NEW o \in Lease, RenewRepeats(o) PROVE MayPass(x)'
  BY <1>17 DEF RenewRepeats
<1>18. ASSUME NEW o \in Lease, ReleaseFails(o) PROVE MayPass(x)'
  BY <1>18 DEF ReleaseFails
<1>19. ASSUME NEW o \in Lease, Crash(o) PROVE MayPass(x)'
  BY <1>19 DEF Crash, EndCall
<1>20. CASE Tick
  BY <1>20 DEF Tick
<1>21. CASE UNCHANGED vars
  BY <1>21 DEF vars
<1>. QED
  BY <1>1, <1>2, <1>3, <1>4, <1>5, <1>6, <1>7, <1>8, <1>9, <1>10, <1>11,
     <1>12, <1>13, <1>14, <1>15, <1>16, <1>17, <1>18, <1>19, <1>20, <1>21
  DEF Next, Acquire, Renew, Release, Fault

(* Every behaviour of the lease is a hand-over of SingleServer: the right   *)
(* to execute passes from one handler to the next only through nobody.     *)
THEOREM RefinesSingleServer == Spec => ServesAlone
<1>1. Init => Serving = {}
  BY DEF Init, Serving, MayPass
<1>2. TypeOK /\ GuardExclusive /\ GuardExclusive' /\ [Next]_vars
        => [Server!Next]_Serving
  <2> SUFFICES ASSUME TypeOK, GuardExclusive, GuardExclusive', [Next]_vars,
                      Serving' # Serving
               PROVE  Server!Next
    OBVIOUS
  <2>1. CASE \E q \in Lease : MayPass(q)' /\ ~MayPass(q)
    <3>1. PICK q \in Lease : MayPass(q)' /\ ~MayPass(q)
      BY <2>1
    <3>2. \A x \in Lease : ~MayPass(x)
      BY <3>1, OneChange DEF GuardExclusive
    <3>3. Serving = {} /\ Serving' = {q}
      BY <3>1, <3>2 DEF Serving, GuardExclusive
    <3>. QED
      BY <3>3 DEF Server!Next, Server!Start
  <2>2. CASE ~ \E q \in Lease : MayPass(q)' /\ ~MayPass(q)
    <3>1. PICK x \in Lease : MayPass(x) /\ ~MayPass(x)'
      BY <2>2 DEF Serving
    <3>2. Serving # {} /\ Serving' = {}
      BY <2>2, <3>1 DEF Serving, GuardExclusive
    <3>. QED
      BY <3>2 DEF Server!Next, Server!Stop
  <2>. QED
    BY <2>1, <2>2
<1>. QED
  BY <1>1, <1>2, TypeCorrect, AtMostOneGuard, PTL
  DEF Spec, ServesAlone, Server!Spec, Server!Init

-----------------------------------------------------------------------------
(* While calls do not fail and nothing is later than MaxStall, the handler *)
(* that holds the lease keeps it and its guard keeps passing.              *)
OnTime ==
    \A o \in Lease :
      /\ pc[o] \in {"acquiring", "granted"} => clock <= at[o] + MaxStall
      /\ pc[o] = "granted" => owner = o /\ leaseUntil = at[o] + LeaseSeconds
      /\ pc[o] \in {"new", "wait", "acquiring", "granted", "held"} => ~lost[o]
      /\ pc[o] = "held" => owner = o /\ expires[o] <= leaseUntil /\ renewer[o] # "off"
      /\ pc[o] = "held" /\ renewer[o] = "idle" =>
           /\ clock <= due[o] + MaxStall
           /\ due[o] + LeaseSeconds <= expires[o] + MaxStall + RenewSeconds
      /\ pc[o] = "held" /\ renewer[o] \in {"sent", "applied"} =>
           /\ clock + LeaseSeconds <= until[o] + MaxStall
           /\ until[o] <= expires[o] + 2 * MaxStall + RenewSeconds + Skew
      /\ pc[o] = "held" /\ renewer[o] = "applied" => until[o] <= leaseUntil

(* A handler whose renewals are on time passes its guard on every reading. *)
LEMMA OnTimeHolder ==
  ASSUME TimelyRenewal, TypeOK, OnTime, NEW o \in Lease, pc[o] = "held"
  PROVE  SurelyPasses(o)
BY LeaseAssumption DEF TimelyRenewal, TypeOK, Pc, Renewer, OnTime, SurelyPasses

(* With LEASE_SECONDS long enough for late renewals, and no failing call,   *)
(* check() never refuses the handler that holds the lease.                 *)
THEOREM HolderKeepsLease == TimelyRenewal => (Spec => []HolderPasses)
<1> SUFFICES ASSUME TimelyRenewal PROVE Spec => []HolderPasses
  OBVIOUS
<1>1. Init => OnTime
  BY DEF Init, OnTime
<1>2. TypeOK /\ LeaseInv /\ OnTime /\ [Next]_vars => OnTime'
  <2> SUFFICES ASSUME TypeOK, LeaseInv, OnTime, [Next]_vars PROVE OnTime'
    OBVIOUS
  <2> USE TimelyRenewal, LeaseAssumption
      DEF TimelyRenewal, TypeOK, Pc, Renewer, LeaseInv, Fresh, OnTime,
        tableVars, callVars, guardVars, renewVars
  <2>1. ASSUME NEW o \in Lease, Begin(o) PROVE OnTime'
    BY <2>1 DEF Begin
  <2>2. ASSUME NEW o \in Lease, Attempt(o) PROVE OnTime'
    BY <2>2 DEF Attempt, Now
  <2>3. ASSUME NEW o \in Lease, AcquireApplies(o) PROVE OnTime'
    BY <2>3 DEF AcquireApplies, Acquirable
  <2>4. ASSUME NEW o \in Lease, AcquireRefused(o) PROVE OnTime'
    BY <2>4 DEF AcquireRefused, Acquirable, EndCall
  <2>5. ASSUME NEW o \in Lease, Granted(o) PROVE OnTime'
    BY <2>5 DEF Granted, EndCall
  <2>6. ASSUME NEW o \in Lease, RenewSend(o) PROVE OnTime'
    BY <2>6 DEF RenewSend, Now
  <2>7. ASSUME NEW o \in Lease, RenewApplies(o) PROVE OnTime'
    BY <2>7 DEF RenewApplies
  <2>8. ASSUME NEW o \in Lease, RenewReturns(o) PROVE OnTime'
    BY <2>8 DEF RenewReturns
  <2>9. ASSUME NEW o \in Lease, RenewRefused(o) PROVE OnTime'
    BY <2>9 DEF RenewRefused, LoseLease
  <2>10. ASSUME NEW o \in Lease, Write(o) PROVE OnTime'
    BY <2>10 DEF Write
  <2>11. ASSUME NEW o \in Lease, StopRenewing(o) PROVE OnTime'
    BY <2>11 DEF StopRenewing
  <2>12. ASSUME NEW o \in Lease, ReleaseApplies(o) PROVE OnTime'
    BY <2>12 DEF ReleaseApplies
  <2>13. ASSUME NEW o \in Lease, ReleaseRefused(o) PROVE OnTime'
    BY <2>13 DEF ReleaseRefused
  <2>14. ASSUME NEW o \in Lease, RecordUnusable(o) PROVE OnTime'
    BY <2>14 DEF RecordUnusable, EndCall
  <2>15. ASSUME NEW o \in Lease, AcquireUnanswered(o) PROVE OnTime'
    BY <2>15 DEF AcquireUnanswered, EndCall
  <2>16. ASSUME NEW o \in Lease, RenewFails(o) PROVE OnTime'
    BY <2>16 DEF RenewFails, LoseLease
  <2>17. ASSUME NEW o \in Lease, RenewRepeats(o) PROVE OnTime'
    BY <2>17 DEF RenewRepeats
  <2>18. ASSUME NEW o \in Lease, ReleaseFails(o) PROVE OnTime'
    BY <2>18 DEF ReleaseFails
  <2>19. ASSUME NEW o \in Lease, Crash(o) PROVE OnTime'
    BY <2>19 DEF Crash, EndCall
  <2>20. CASE Tick
    BY <2>20 DEF Tick, Timely
  <2>21. CASE UNCHANGED vars
    BY <2>21 DEF vars
  <2>. QED
    BY <2>1, <2>2, <2>3, <2>4, <2>5, <2>6, <2>7, <2>8, <2>9, <2>10, <2>11,
        <2>12, <2>13, <2>14, <2>15, <2>16, <2>17, <2>18, <2>19, <2>20, <2>21
    DEF Next, Acquire, Renew, Release, Fault
<1>3. TypeOK /\ OnTime => HolderPasses
  BY OnTimeHolder DEF HolderPasses
<1>. QED
  BY <1>1, <1>2, <1>3, TypeCorrect, LeaseInvariant, PTL DEF Spec
=============================================================================
