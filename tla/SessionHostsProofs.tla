------------------------- MODULE SessionHostsProofs -------------------------
(***************************************************************************)
(* What SessionWork's run checks of the sandboxes, the Kubernetes Jobs and *)
(* the Android hosts on EC2, proved for any number of sessions, instances, *)
(* sandboxes and requests: each part takes only its own steps, so an       *)
(* invariant of its Next is one of WSpec.  The first section is induction  *)
(* over the numbers, for the proofs about functions that are defined by    *)
(* recursion.                                                              *)
(***************************************************************************)
EXTENDS SessionWork, FiniteSetTheorems, SequenceTheorems, WellFoundedInduction, TLAPS

-----------------------------------------------------------------------------
(* Induction and recursion *)

(* One number comes before another.                                         *)
Before == {ss \in Nat \X Nat : ss[1] < ss[2]}

(* A set of numbers that has 0, and with each number the next, has all.     *)
LEMMA Induction ==
  ASSUME NEW S, 0 \in S, \A n \in Nat : n \in S => n + 1 \in S
  PROVE  \A n \in Nat : n \in S
<1>1. IsWellFoundedOn(Before, Nat)
  BY NatLessThanWellFounded DEF OpToRel, Before
<1>2. ASSUME Nat \ S # {} PROVE FALSE
  <2>1. PICK n \in Nat \ S : \A m \in Nat \ S : <<m, n>> \notin Before
    <3>1. Nat \ S \subseteq Nat
      OBVIOUS
    <3>. QED
      BY <1>1, <1>2, <3>1, WFMin
  <2>2. n - 1 \in Nat /\ <<n - 1, n>> \in Before
    BY DEF Before
  <2>3. n - 1 \in S
    BY <2>1, <2>2
  <2>. QED
    BY <2>2, <2>3
<1>. QED
  BY <1>2

(* ... and up to some n.                                                    *)
LEMMA InductionUpTo ==
  ASSUME NEW S, NEW n \in Nat, 0 \in S, \A i \in 1..n : i - 1 \in S => i \in S
  PROVE  \A i \in 0..n : i \in S
<1> DEFINE A == {m \in Nat : m <= n => m \in S}
<1>1. 0 \in A
  OBVIOUS
<1>2. ASSUME NEW m \in Nat, m \in A PROVE m + 1 \in A
  <2> SUFFICES ASSUME m + 1 <= n PROVE m + 1 \in S
    OBVIOUS
  <2>1. m + 1 \in 1..n /\ (m + 1) - 1 = m /\ m \in S
    BY <1>2
  <2>. QED
    BY <2>1
<1>3. \A m \in Nat : m \in A
  <2> HIDE DEF A
  <2>. QED
    BY <1>1, <1>2, Induction
<1>. QED
  BY <1>3

(* What begins with base and goes on from each value to the next by F.      *)
Recursive(V, base, n, F) ==
    {f \in [0..n -> V] : f[0] = base /\ \A i \in 1..n : f[i] = F[<<f[i - 1], i>>]}

(* A recursion over 0..n whose steps stay in V has a solution.              *)
LEMMA RecursionExists ==
  ASSUME NEW V, NEW base \in V, NEW n \in Nat, NEW F \in [V \X (1..n) -> V]
  PROVE  Recursive(V, base, n, F) # {}
<1> DEFINE S == {m \in Nat : m <= n => Recursive(V, base, m, F) # {}}
<1>1. 0 \in S
  <2>1. [i \in 0..0 |-> base] \in Recursive(V, base, 0, F)
    BY DEF Recursive
  <2>. QED
    BY <2>1
<1>2. ASSUME NEW m \in Nat, m \in S PROVE m + 1 \in S
  <2> SUFFICES ASSUME m + 1 <= n PROVE Recursive(V, base, m + 1, F) # {}
    OBVIOUS
  <2>1. PICK f \in [0..m -> V] : f[0] = base /\ \A i \in 1..m : f[i] = F[<<f[i - 1], i>>]
    BY <1>2 DEF Recursive
  <2> DEFINE g == [i \in 0..(m + 1) |-> IF i = m + 1 THEN F[<<f[m], m + 1>>] ELSE f[i]]
  <2>2. F[<<f[m], m + 1>>] \in V
    <3>1. <<f[m], m + 1>> \in V \X (1..n)
      OBVIOUS
    <3>. QED
      BY <3>1
  <2>3. g \in [0..(m + 1) -> V]
    BY <2>2
  <2>4. g[0] = base
    BY <2>1
  <2>5. ASSUME NEW i \in 1..(m + 1) PROVE g[i] = F[<<g[i - 1], i>>]
    <3>1. i - 1 \in 0..m /\ g[i - 1] = f[i - 1]
      OBVIOUS
    <3>2. CASE i = m + 1
      <4>1. g[i] = F[<<f[m], m + 1>>]
        BY <3>2
      <4>2. g[i - 1] = f[m]
        BY <3>1, <3>2
      <4>. QED
        BY ONLY <3>2, <4>1, <4>2
    <3>3. CASE i \in 1..m
      <4>1. f[i] = F[<<f[i - 1], i>>]
        BY <2>1, <3>3
      <4>2. g[i] = f[i]
        BY <3>3
      <4>. QED
        BY ONLY <3>1, <4>1, <4>2
    <3>. QED
      BY <3>2, <3>3
  <2>6. g \in Recursive(V, base, m + 1, F)
    <3> HIDE DEF g
    <3>. QED
      BY <2>3, <2>4, <2>5 DEF Recursive
  <2>. QED
    BY <2>6
<1>3. n \in S
  <2> HIDE DEF S
  <2>. QED
    BY <1>1, <1>2, Induction
<1>. QED
  BY <1>3

-----------------------------------------------------------------------------
(* Sandboxes *)

(* A step of the whole is one of the sandboxes, or leaves them as they are. *)
LEMMA SandboxesStep == [WNext]_<<focus, vars, hostVars, workVars>> => [Sandboxes!Next]_sandboxVars
  BY DEF WNext, HNext, Work, hostVars, sandboxVars

(* What runs is paid for behind the session's back, or is the client's own; *)
(* and not even that once create() has raised or close() has stopped it.    *)
Abandoned == running \subseteq stray \cup unstopped

SandboxesControl ==
    /\ listed \in BOOLEAN /\ status \in {"starting", "ready", "error", "closed"}
    /\ run \in {"none", "running", "succeeded", "failed"} /\ step \in 0..3
    /\ create \in {"idle", "start", "run", "steps", "ready", "error", "pop", "stop", "raised", "done"}
    /\ exec \in [Request -> {"idle", "have", "over"}]
    /\ closer \in {"idle", "mocks", "sandbox", "status", "done"}

SandboxesCounted ==
    /\ started \in 0..MaxSandbox /\ info \in 0..started /\ client \in 0..started
    /\ running \subseteq 1..started /\ mocks \subseteq 1..started
    /\ stray \subseteq 1..started /\ unstopped \subseteq 1..started

SandboxesOrder ==
    /\ create = "idle" => listed = FALSE /\ closer = "idle"
    /\ closer # "idle" => listed = FALSE
    /\ listed = TRUE \/ closer # "idle" \/ create \in {"idle", "stop", "raised"}
    /\ listed = TRUE /\ create \in {"run", "steps", "ready", "done"} => info = client /\ client # 0
    /\ running \subseteq stray \cup unstopped \cup {client}
    /\ create \in {"idle", "start", "raised"} \/ closer \in {"status", "done"} => Abandoned

SandboxesInv == SandboxesControl /\ SandboxesCounted /\ SandboxesOrder

(* Whatever is done, the progress of each part keeps its type ...           *)
LEMMA SandboxesControlStep == SandboxesControl /\ [Sandboxes!Next]_sandboxVars => SandboxesControl'
<1> SUFFICES ASSUME SandboxesControl, [Sandboxes!Next]_sandboxVars PROVE SandboxesControl'
  OBVIOUS
<1>0. MaxSandbox \in Nat /\ Len(<<"command", "mocks", "restore">>) = 3
  BY SessionHostsAssumption DEF Sandboxes!ProvisionAssumption
<1> USE <1>0 DEF SandboxesControl, Sandboxes!service
<1>1. ASSUME Sandboxes!Register PROVE SandboxesControl'
  BY <1>1 DEF Sandboxes!Register
<1>2. ASSUME Sandboxes!BeginRun PROVE SandboxesControl'
  BY <1>2 DEF Sandboxes!BeginRun
<1>3. ASSUME Sandboxes!ProvisionFails PROVE SandboxesControl'
  BY <1>3 DEF Sandboxes!ProvisionFails
<1>4. ASSUME NEW ok \in BOOLEAN, Sandboxes!StartSandbox(ok) PROVE SandboxesControl'
  BY <1>4 DEF Sandboxes!StartSandbox
<1>5. ASSUME Sandboxes!ProvisionStep PROVE SandboxesControl'
  BY <1>5 DEF Sandboxes!ProvisionStep, Sandboxes!Invoke
<1>6. ASSUME Sandboxes!Ready PROVE SandboxesControl'
  BY <1>6 DEF Sandboxes!Ready
<1>7. ASSUME Sandboxes!Error PROVE SandboxesControl'
  BY <1>7 DEF Sandboxes!Error
<1>8. ASSUME Sandboxes!Pop PROVE SandboxesControl'
  BY <1>8 DEF Sandboxes!Pop
<1>9. ASSUME Sandboxes!StopFailedStart PROVE SandboxesControl'
  BY <1>9 DEF Sandboxes!StopFailedStart, Sandboxes!StopSandbox
<1>10. ASSUME Sandboxes!Close PROVE SandboxesControl'
  BY <1>10 DEF Sandboxes!Close
<1>11. ASSUME Sandboxes!CloseMocks PROVE SandboxesControl'
  BY <1>11 DEF Sandboxes!CloseMocks
<1>12. ASSUME Sandboxes!CloseStatus PROVE SandboxesControl'
  BY <1>12 DEF Sandboxes!CloseStatus
<1>13. ASSUME Sandboxes!CloseSandbox PROVE SandboxesControl'
  BY <1>13 DEF Sandboxes!CloseSandbox, Sandboxes!StopSandbox
<1>14. ASSUME NEW n \in Sandboxes!Sandbox, Sandboxes!Expire(n) PROVE SandboxesControl'
  BY <1>14 DEF Sandboxes!Expire, Sandboxes!Sandbox
<1>15. ASSUME NEW e \in Request, Sandboxes!Get(e) PROVE SandboxesControl'
  BY <1>15 DEF Sandboxes!Get
<1>16. ASSUME NEW e \in Request, Sandboxes!Execute(e) PROVE SandboxesControl'
  BY <1>16 DEF Sandboxes!Execute, Sandboxes!Invoke
<1>17. CASE UNCHANGED sandboxVars
  BY <1>17 DEF sandboxVars
<1>. QED
  BY <1>1, <1>2, <1>3, <1>4, <1>5, <1>6, <1>7, <1>8, <1>9, <1>10, <1>11, <1>12, <1>13, <1>14, <1>15, <1>16, <1>17 DEF Sandboxes!Next

(* One sandbox is started.                                                  *)
LEMMA OneSandboxMore ==
  ASSUME SandboxesCounted, started < MaxSandbox, started' = started + 1, client' = started + 1,
         info' \in {info, started + 1}, running' \subseteq running \cup {started + 1},
         mocks' \subseteq mocks \cup {started + 1}, stray' \subseteq stray \cup {started + 1},
         unstopped' = unstopped
  PROVE  SandboxesCounted'
<1>1. started \in Nat /\ MaxSandbox \in Nat
  BY SessionHostsAssumption DEF Sandboxes!ProvisionAssumption, SandboxesCounted
<1>2. started' \in 0..MaxSandbox /\ info' \in 0..started' /\ client' \in 0..started'
  BY <1>1 DEF SandboxesCounted
<1>3. \A S : S \subseteq 1..started => S \cup {started + 1} \subseteq 1..started'
  BY <1>1
<1>. QED
  BY <1>2, <1>3 DEF SandboxesCounted

(* No sandbox is started: the client's one is used or stopped.              *)
LEMMA SameSandboxes ==
  ASSUME SandboxesCounted, started' = started, client' \in {client, 0}, info' = info,
         running' \subseteq running, mocks' \subseteq mocks \cup ({client} \ {0}), stray' = stray,
         unstopped' \subseteq unstopped \cup ({client} \ {0})
  PROVE  SandboxesCounted'
<1>1. started \in Nat
  BY SessionHostsAssumption DEF Sandboxes!ProvisionAssumption, SandboxesCounted
<1>2. client' \in 0..started /\ {client} \ {0} \subseteq 1..started
  BY <1>1 DEF SandboxesCounted
<1>. QED
  BY <1>2 DEF SandboxesCounted

(* ... and what is known of sandboxes is of those that were started ...     *)
LEMMA SandboxesCountedStep == SandboxesCounted /\ [Sandboxes!Next]_sandboxVars => SandboxesCounted'
<1> SUFFICES ASSUME SandboxesCounted, [Sandboxes!Next]_sandboxVars PROVE SandboxesCounted'
  OBVIOUS
<1>1. ASSUME UNCHANGED <<info, client, started, running, mocks, stray, unstopped>>
      PROVE  SandboxesCounted'
  BY <1>1 DEF SandboxesCounted
<1>2. ASSUME NEW ok \in BOOLEAN, Sandboxes!StartSandbox(ok) PROVE SandboxesCounted'
  <2>1. CASE ok
    <3>1. /\ started < MaxSandbox /\ started' = started + 1 /\ client' = started + 1 /\ info' = started + 1
          /\ running' = running \cup {started + 1} /\ mocks' = mocks /\ unstopped' = unstopped
          /\ stray' \in {stray, stray \cup {started + 1}}
      BY <1>2, <2>1 DEF Sandboxes!StartSandbox
    <3>. QED
      BY <3>1, OneSandboxMore
  <2>2. CASE ~ok
    BY <1>1, <1>2, <2>2 DEF Sandboxes!StartSandbox
  <2>. QED
    BY <2>1, <2>2
<1>3. ASSUME Sandboxes!Invoke, info' = info, unstopped' = unstopped,
             mocks' \in {mocks, mocks \cup {client'}}
      PROVE  SandboxesCounted'
  <2>1. CASE client = 0
    <3>1. /\ started < MaxSandbox /\ started' = started + 1 /\ client' = started + 1
          /\ running' = running \cup {started + 1} /\ stray' = stray \cup {started + 1}
      BY <1>3, <2>1 DEF Sandboxes!Invoke
    <3>. QED
      BY <1>3, <3>1, OneSandboxMore
  <2>2. CASE client # 0
    BY <1>3, <2>2, SameSandboxes DEF Sandboxes!Invoke
  <2>. QED
    BY <2>1, <2>2
<1>4. ASSUME Sandboxes!StopSandbox, info' = info, started' = started, stray' = stray
      PROVE  SandboxesCounted'
  BY <1>4, SameSandboxes DEF Sandboxes!StopSandbox
<1>5. ASSUME NEW n \in Sandboxes!Sandbox, Sandboxes!Expire(n) PROVE SandboxesCounted'
  BY <1>5, SameSandboxes DEF Sandboxes!Expire
<1>6. ASSUME Sandboxes!ProvisionStep PROVE SandboxesCounted'
  BY <1>3, <1>6 DEF Sandboxes!ProvisionStep
<1>7. ASSUME Sandboxes!StopFailedStart \/ Sandboxes!CloseSandbox PROVE SandboxesCounted'
  BY <1>4, <1>7 DEF Sandboxes!StopFailedStart, Sandboxes!CloseSandbox
<1>8. ASSUME NEW e \in Request, Sandboxes!Execute(e) PROVE SandboxesCounted'
  BY <1>1, <1>3, <1>8 DEF Sandboxes!Execute
<1>. QED
  BY <1>1, <1>2, <1>5, <1>6, <1>7, <1>8
  DEF Sandboxes!Next, Sandboxes!Register, Sandboxes!BeginRun, Sandboxes!ProvisionFails, Sandboxes!Ready,
      Sandboxes!Error, Sandboxes!Pop, Sandboxes!Close, Sandboxes!CloseMocks, Sandboxes!CloseStatus,
      Sandboxes!Get, Sandboxes!service, sandboxVars

(* ... and none of them runs but for a reason.                              *)
LEMMA SandboxesOrderStep == SandboxesInv /\ [Sandboxes!Next]_sandboxVars => SandboxesOrder'
<1> SUFFICES ASSUME SandboxesInv, [Sandboxes!Next]_sandboxVars PROVE SandboxesOrder'
  OBVIOUS
<1>18. started \in Nat /\ started + 1 # 0 /\ 0 \notin running
  BY SessionHostsAssumption DEF Sandboxes!ProvisionAssumption, SandboxesInv, SandboxesCounted
<1>0. MaxSandbox \in Nat /\ Len(<<"command", "mocks", "restore">>) = 3
  BY SessionHostsAssumption DEF Sandboxes!ProvisionAssumption
<1> USE <1>0 DEF SandboxesInv, SandboxesControl, SandboxesOrder, Abandoned, Sandboxes!service
<1>1. ASSUME Sandboxes!Register PROVE SandboxesOrder'
  BY <1>1 DEF Sandboxes!Register
<1>2. ASSUME Sandboxes!BeginRun PROVE SandboxesOrder'
  BY <1>2 DEF Sandboxes!BeginRun
<1>3. ASSUME Sandboxes!ProvisionFails PROVE SandboxesOrder'
  BY <1>3 DEF Sandboxes!ProvisionFails
<1>4. ASSUME NEW ok \in BOOLEAN, Sandboxes!StartSandbox(ok) PROVE SandboxesOrder'
  BY <1>4, <1>18 DEF Sandboxes!StartSandbox
<1>5. ASSUME Sandboxes!ProvisionStep PROVE SandboxesOrder'
  <2>1. /\ create = "steps" /\ create' \in {"steps", "ready"} /\ Sandboxes!Invoke
        /\ UNCHANGED <<listed, info, closer, unstopped>>
    BY <1>5 DEF Sandboxes!ProvisionStep
  <2>2. CASE client # 0
    BY <2>1, <2>2 DEF Sandboxes!Invoke
  <2>3. CASE client = 0
    <3>1. listed = FALSE /\ listed' = FALSE /\ closer # "idle"
      BY <2>1, <2>3
    <3>2. running' \subseteq stray' \cup unstopped' \cup {client'}
      BY <2>1, <2>3, <1>18 DEF Sandboxes!Invoke
    <3>3. create \in {"idle", "start", "raised"} \/ closer \in {"status", "done"} => Abandoned'
      BY <2>1, <2>3, <1>18 DEF Sandboxes!Invoke
    <3>. QED
      BY <2>1, <3>1, <3>2, <3>3
  <2>. QED
    BY <2>2, <2>3
<1>6. ASSUME Sandboxes!Ready PROVE SandboxesOrder'
  BY <1>6 DEF Sandboxes!Ready
<1>7. ASSUME Sandboxes!Error PROVE SandboxesOrder'
  BY <1>7 DEF Sandboxes!Error
<1>8. ASSUME Sandboxes!Pop PROVE SandboxesOrder'
  BY <1>8 DEF Sandboxes!Pop
<1>9. ASSUME Sandboxes!StopFailedStart PROVE SandboxesOrder'
  BY <1>9 DEF Sandboxes!StopFailedStart, Sandboxes!StopSandbox
<1>10. ASSUME Sandboxes!Close PROVE SandboxesOrder'
  BY <1>10 DEF Sandboxes!Close
<1>11. ASSUME Sandboxes!CloseMocks PROVE SandboxesOrder'
  BY <1>11 DEF Sandboxes!CloseMocks
<1>12. ASSUME Sandboxes!CloseStatus PROVE SandboxesOrder'
  BY <1>12 DEF Sandboxes!CloseStatus
<1>13. ASSUME Sandboxes!CloseSandbox PROVE SandboxesOrder'
  BY <1>13 DEF Sandboxes!CloseSandbox, Sandboxes!StopSandbox
<1>14. ASSUME NEW n \in Sandboxes!Sandbox, Sandboxes!Expire(n) PROVE SandboxesOrder'
  BY <1>14 DEF Sandboxes!Expire, Sandboxes!Sandbox
<1>15. ASSUME NEW e \in Request, Sandboxes!Get(e) PROVE SandboxesOrder'
  BY <1>15 DEF Sandboxes!Get
<1>16. ASSUME NEW e \in Request, Sandboxes!Execute(e) PROVE SandboxesOrder'
  <2>1. /\ UNCHANGED <<listed, info, create, closer, unstopped>>
        /\ \/ Sandboxes!Invoke
           \/ UNCHANGED <<client, started, running, stray>>
    BY <1>16 DEF Sandboxes!Execute
  <2>2. CASE UNCHANGED <<client, started, running, stray>>
    BY <2>1, <2>2
  <2>3. CASE Sandboxes!Invoke /\ client # 0
    BY <2>1, <2>3 DEF Sandboxes!Invoke
  <2>4. CASE Sandboxes!Invoke /\ client = 0
    <3>1. listed = TRUE => create \notin {"run", "steps", "ready", "done"}
      BY <2>4
    <3>2. running' \subseteq stray' \cup unstopped' \cup {client'}
      BY <2>1, <2>4, <1>18 DEF Sandboxes!Invoke
    <3>3. create \in {"idle", "start", "raised"} \/ closer \in {"status", "done"} => Abandoned'
      BY <2>1, <2>4, <1>18 DEF Sandboxes!Invoke
    <3>. QED
      BY <2>1, <3>1, <3>2, <3>3
  <2>. QED
    BY <2>1, <2>2, <2>3, <2>4
<1>17. CASE UNCHANGED sandboxVars
  BY <1>17 DEF sandboxVars
<1>. QED
  BY <1>1, <1>2, <1>3, <1>4, <1>5, <1>6, <1>7, <1>8, <1>9, <1>10, <1>11, <1>12, <1>13, <1>14, <1>15, <1>16, <1>17 DEF Sandboxes!Next

(* So whatever create(), close() and the requests do next keeps it all.     *)
LEMMA SandboxesInvStep == SandboxesInv /\ [Sandboxes!Next]_sandboxVars => SandboxesInv'
  BY SandboxesControlStep, SandboxesCountedStep, SandboxesOrderStep DEF SandboxesInv

(* It holds before the first of them ...                                    *)
LEMMA SandboxesInvFirst == Sandboxes!Init => SandboxesInv
<1> SUFFICES ASSUME Sandboxes!Init PROVE SandboxesInv
  OBVIOUS
<1>1. SandboxesCounted
  BY SessionHostsAssumption DEF Sandboxes!ProvisionAssumption, Sandboxes!Init, SandboxesCounted
<1>2. SandboxesControl
  <2>1. listed \in BOOLEAN
    BY DEF Sandboxes!Init
  <2>2. exec \in [Request -> {"idle", "have", "over"}] /\ step \in 0..3
    BY DEF Sandboxes!Init
  <2>3. /\ status = "starting" /\ run = "none" /\ create = "idle" /\ closer = "idle"
    BY DEF Sandboxes!Init
  <2>. QED
    BY <2>1, <2>2, <2>3 DEF SandboxesControl
<1>3. SandboxesOrder
  BY DEF Sandboxes!Init, SandboxesOrder, Abandoned
<1>. QED
  BY <1>1, <1>2, <1>3 DEF SandboxesInv

(* ... and is what SandboxAccounted says, when all is over, and more.       *)
LEMMA SandboxesInvMeans == SandboxesInv => Sandboxes!SandboxAccounted /\ Sandboxes!TypeOK
<1> SUFFICES ASSUME SandboxesInv PROVE Sandboxes!SandboxAccounted /\ Sandboxes!TypeOK
  OBVIOUS
<1>1. Sandboxes!SandboxAccounted
  BY DEF SandboxesInv, SandboxesControl, SandboxesOrder, Abandoned, Sandboxes!SandboxAccounted, Sandboxes!Over
<1>2. Sandboxes!TypeOK
  BY DEF SandboxesInv, SandboxesControl, SandboxesCounted, Sandboxes!TypeOK
<1>. QED
  BY <1>1, <1>2

-----------------------------------------------------------------------------
(* Kubernetes Jobs *)

(* A step of the whole is one of the Jobs, or leaves them as they are.      *)
LEMMA JobsStep == [WNext]_<<focus, vars, hostVars, workVars>> => [Jobs!Next]_jobVars
  BY DEF WNext, HNext, Work, hostVars, jobVars

(* What stop() leaves of a list of Jobs is a list of Jobs.                  *)
LEMMA KeptIsSeq ==
  ASSUME NEW S, NEW js \in Seq(S), NEW left
  PROVE  Jobs!Kept(js, left) \in Seq(S)
<1> DEFINE n == Len(js)
           V == Seq(S)
           b == <<>>
           F == [x \in V \X (1..n) |-> IF js[x[2]] \in left THEN Append(x[1], js[x[2]]) ELSE x[1]]
           Is(g) == g = [i \in 0..n |-> IF i = 0 THEN b
                                        ELSE IF js[i] \in left THEN Append(g[i - 1], js[i]) ELSE g[i - 1]]
           kept == CHOOSE g : Is(g)
<1>1. n \in Nat /\ F \in [V \X (1..n) -> V] /\ b \in V
  OBVIOUS
<1>2. ASSUME NEW v \in V, NEW i \in 1..n
      PROVE  F[<<v, i>>] = IF js[i] \in left THEN Append(v, js[i]) ELSE v
  OBVIOUS
<1>3. PICK f : f \in Recursive(V, b, n, F)
  <2> HIDE DEF n, F, V, b
  <2>. QED
    BY ONLY <1>1, RecursionExists
<1>4. \E g : Is(g)
  <2> HIDE DEF n, F, V, b
  <2>1. f \in [0..n -> V] /\ f[0] = b /\ \A i \in 1..n : f[i] = F[<<f[i - 1], i>>]
    BY <1>3 DEF Recursive
  <2>2. ASSUME NEW i \in 1..n
        PROVE  f[i] = IF js[i] \in left THEN Append(f[i - 1], js[i]) ELSE f[i - 1]
    <3>1. f[i - 1] \in V /\ f[i] = F[<<f[i - 1], i>>]
      BY <1>1, <2>1
    <3>. QED
      BY <1>2, <3>1
  <2>3. ASSUME NEW i \in 0..n
        PROVE  f[i] = IF i = 0 THEN b ELSE IF js[i] \in left THEN Append(f[i - 1], js[i]) ELSE f[i - 1]
    <3>1. CASE i = 0
      BY <2>1, <3>1
    <3>2. CASE i \in 1..n
      BY <1>1, <2>2, <3>2
    <3>. QED
      BY <1>1, <3>1, <3>2
  <2>4. Is(f)
    BY ONLY <2>1, <2>3
  <2>. QED
    BY <2>4
<1>5. Is(kept)
  <2> HIDE DEF Is
  <2>. QED
    BY <1>4
<1>6. ASSUME NEW m \in Nat, m + 1 <= n
      PROVE  kept[m + 1] = IF js[m + 1] \in left THEN Append(kept[m], js[m + 1]) ELSE kept[m]
  <2> HIDE DEF kept, n, V, b
  <2>1. m + 1 \in 0..n /\ m + 1 # 0 /\ (m + 1) - 1 = m
    BY <1>1, <1>6
  <2>. QED
    BY ONLY <1>5, <2>1
<1> DEFINE A == {m \in 0..n : kept[m] \in V}
<1>7. 0 \in A
  <2> HIDE DEF kept, n, V, b
  <2>. QED
    BY <1>1, <1>5
<1>8. ASSUME NEW m \in 1..n, m - 1 \in A PROVE m \in A
  <2> HIDE DEF kept, V, n
  <2>1. m - 1 \in Nat /\ (m - 1) + 1 = m /\ m <= n /\ m \in 0..n
    BY <1>1
  <2>2. kept[m] = IF js[m] \in left THEN Append(kept[m - 1], js[m]) ELSE kept[m - 1]
    BY <1>6, <2>1
  <2>3. kept[m - 1] \in V
    BY <1>8
  <2>4. kept[m] \in V
    <3>1. js[m] \in S
      BY DEF n
    <3>. QED
      BY ONLY <2>2, <2>3, <3>1 DEF V
  <2>. QED
    BY <2>1, <2>4
<1>9. n \in A
  <2> HIDE DEF A, n
  <2>. QED
    <3>1. \A i \in 0..n : i \in A
      BY <1>1, <1>7, <1>8, InductionUpTo
    <3>. QED
      BY <1>1, <3>1
<1>. QED
  BY <1>9 DEF Jobs!Kept

(* The Jobs of a session: a device may have two, a workload has one.        *)
Android == <<"a1", "a2">>
Workload == <<"w1">>
Own(k) == IF k = "android" THEN {"a1", "a2"} ELSE {"w1"}

HostRecord ==
    [phase : {"none", "create", "secret", "connect", "up", "stop", "failed"},
     jobs : Seq(Jobs!Job), tokens : Seq(Jobs!Job), up : Nat]
Whole(k) == [jobs |-> Jobs!Jobs(k), tokens |-> Jobs!Jobs(k)]

JobsTypes ==
    /\ job \in [Jobs!Job -> {"none", "pending", "running", "over", "deleted"}]
    /\ secret \subseteq Jobs!Job /\ adrift \subseteq Jobs!Job
    /\ jobHost \in [Jobs!Kind -> HostRecord]
    /\ jobRecord \in [Jobs!Kind -> {Jobs!NoRecord, Whole("android"), Whole("workload")}]
    /\ process \in {"live", "gone", "attaching", "closed"}

(* How far a host is, given what the cluster has.                           *)
AndroidOK(h, jb) ==
    /\ h.phase = "none" => h = Jobs!NoHost
    /\ h.phase \in {"create", "secret"} => h.up = 0
    /\ h.phase = "create" =>
          /\ h.tokens = h.jobs /\ jb["a2"] = "none"
          /\ h.jobs = <<"a1">> \/ (h.jobs = <<>> /\ jb["a1"] = "none")
    /\ h.phase = "secret" =>
          \/ h.jobs = <<"a1">> /\ h.tokens = <<>> /\ jb["a1"] # "none" /\ jb["a2"] = "none"
          \/ h.jobs = Android /\ h.tokens = <<"a1">> /\ jb["a2"] # "none"
    /\ h.phase = "connect" => h.jobs = Android /\ h.tokens = Android /\ h.up \in {0, 1}
    /\ h.phase = "up" => h.jobs = Android /\ h.tokens = Android /\ h.up = 2
    /\ h.phase = "stop" => h.jobs \in {<<>>, <<"a1">>, Android} /\ h.up \in 0..Len(h.jobs)
    /\ h.phase = "failed" => h.jobs \in Seq({"a1", "a2"}) /\ h.up = 0

WorkloadOK(h, jb) ==
    /\ h.phase = "none" => h = Jobs!NoHost
    /\ h.phase = "create" => h.jobs = <<>> /\ h.tokens = <<>> /\ h.up = 0 /\ jb["w1"] = "none"
    /\ h.phase = "secret" => h.jobs = Workload /\ h.tokens = <<>> /\ h.up = 0 /\ jb["w1"] # "none"
    /\ h.phase = "connect" => h.jobs = Workload /\ h.tokens = <<>> /\ h.up = 0
    /\ h.phase = "up" => h.jobs = Workload /\ h.tokens = Workload /\ h.up = 1
    /\ h.phase = "stop" => h.jobs \in {<<>>, Workload} /\ h.up \in 0..Len(h.jobs)
    /\ h.phase = "failed" => h.jobs \in Seq({"w1"}) /\ h.up = 0

HostOK(k, h, jb) == IF k = "android" THEN AndroidOK(h, jb) ELSE WorkloadOK(h, jb)

(* The Jobs of a host that may still create, use and stop them.             *)
Safe(k) == IF jobHost[k].phase = "failed" THEN {} ELSE Jobs!Members(jobHost[k].jobs)
Accounted == Safe("android") \cup Safe("workload") \cup Jobs!Recorded \cup adrift

SecretsKept ==
    \A j \in Jobs!Job :
        /\ j \in secret => job[j] # "none"
        /\ job[j] = "running" => j \in secret
        /\ j \in secret /\ job[j] \in {"pending", "running"} => j \in Accounted

(* The record names what the process has, or had when it was left.          *)
RecordFits ==
    \A k \in Jobs!Kind :
        /\ jobRecord[k] \in {Jobs!NoRecord, Whole(k)}
        /\ process \in {"gone", "closed"} => jobHost[k] = Jobs!NoHost
        /\ process = "closed" => jobRecord[k] = Jobs!NoRecord
        /\ process = "live" /\ jobRecord[k] # Jobs!NoRecord => jobHost[k].phase = "up"
        /\ process = "attaching" =>
              jobHost[k] = Jobs!NoHost \/ (jobHost[k].phase = "up" /\ jobRecord[k] = Whole(k))

JobsInv ==
    /\ JobsTypes
    /\ \A k \in Jobs!Kind : HostOK(k, jobHost[k], job)
    /\ SecretsKept /\ RecordFits

(* The Jobs of the two hosts, by name.                                      *)
LEMMA JobNames ==
  /\ Jobs!Kind = {"android", "workload"} /\ Jobs!Job = {"a1", "a2", "w1"}
  /\ Jobs!Jobs("android") = Android /\ Jobs!Jobs("workload") = Workload
  /\ Jobs!Members(<<>>) = {} /\ Jobs!Members(<<"a1">>) = {"a1"}
  /\ Jobs!Members(Android) = {"a1", "a2"} /\ Jobs!Members(Workload) = {"w1"}
<1>1. /\ Jobs!Members(<<>>) = {} /\ Jobs!Members(<<"a1">>) = {"a1"}
      /\ Jobs!Members(Android) = {"a1", "a2"} /\ Jobs!Members(Workload) = {"w1"}
  BY DEF Jobs!Members, Android, Workload
<1>2. Jobs!Job = {"a1", "a2"} \cup {"w1"}
  BY <1>1 DEF Jobs!Job, Android, Workload
<1>. QED
  BY <1>1, <1>2 DEF Jobs!Kind, Jobs!Jobs, Android, Workload

(* The Jobs a host creates are a list of them.                              *)
LEMMA JobsInOrder ==
  ASSUME NEW k \in Jobs!Kind
  PROVE  Jobs!Jobs(k) \in Seq(Jobs!Job) /\ Len(Jobs!Jobs(k)) = IF k = "android" THEN 2 ELSE 1
<1>1. Android \in Seq(Jobs!Job) /\ Len(Android) = 2 /\ Workload \in Seq(Jobs!Job) /\ Len(Workload) = 1
  BY JobNames DEF Android, Workload
<1>. QED
  BY <1>1, JobNames

(* The members of a sequence over S are in S.                               *)
LEMMA MembersOf == ASSUME NEW S, NEW s \in Seq(S) PROVE Jobs!Members(s) \subseteq S
  BY DEF Jobs!Members

(* A host has no Jobs but its own.                                          *)
LEMMA JobsHeld ==
  ASSUME NEW k \in {"android", "workload"}, NEW h, NEW jb, HostOK(k, h, jb), h.phase \in {"none", "create", "secret", "connect", "up", "stop", "failed"}
  PROVE  Jobs!Members(h.jobs) \subseteq Own(k)
<1>1. CASE h.phase = "failed"
  BY <1>1, MembersOf DEF HostOK, AndroidOK, WorkloadOK, Own
<1>2. CASE h.phase = "none"
  BY <1>2, JobNames DEF HostOK, AndroidOK, WorkloadOK, Jobs!NoHost
<1>3. CASE h.phase \notin {"none", "failed"}
  <2>1. h.jobs \in IF k = "android" THEN {<<>>, <<"a1">>, Android} ELSE {<<>>, Workload}
    BY <1>3 DEF HostOK, AndroidOK, WorkloadOK
  <2>. QED
    BY <2>1, JobNames DEF Own
<1>. QED
  BY <1>1, <1>2, <1>3

(* What a host has done counts for what is "none" in the cluster only.      *)
LEMMA HostStays ==
  ASSUME NEW k \in {"android", "workload"}, NEW h, NEW jb, NEW jc, HostOK(k, h, jb),
         \A j \in Own(k) : (jb[j] = "none") <=> (jc[j] = "none")
  PROVE  HostOK(k, h, jc)
<1>1. CASE k = "android"
  BY <1>1 DEF HostOK, AndroidOK, Own
<1>2. CASE k = "workload"
  BY <1>2 DEF HostOK, WorkloadOK, Own
<1>. QED
  BY <1>1, <1>2

(* A Pod runs or ends, or a Job that is over is reaped.                     *)
LEMMA JobsCluster ==
  ASSUME JobsInv, NEW j \in Jobs!Job, Jobs!PodRuns(j) \/ Jobs!PodEnds(j) \/ Jobs!Reap(j)
  PROVE  JobsInv'
<1>1. /\ job[j] # "none" /\ secret' \subseteq secret
      /\ \E new \in {"running", "over", "deleted"} :
            /\ job' = [job EXCEPT ![j] = new] /\ (new = "running" => j \in secret)
            /\ new = "running" => job[j] = "pending"
      /\ j \notin secret' => job'[j] # "running"
      /\ \A i \in Jobs!Job : i # j /\ i \in secret => i \in secret'
      /\ UNCHANGED <<jobHost, jobRecord, process, adrift>>
  BY DEF Jobs!PodRuns, Jobs!PodEnds, Jobs!Reap, JobsInv, JobsTypes
<1>2. JobsTypes'
  BY <1>1 DEF JobsInv, JobsTypes
<1>3. \A i \in Jobs!Job : (job[i] = "none") <=> (job'[i] = "none")
  BY <1>1 DEF JobsInv, JobsTypes
<1>4. ASSUME NEW k \in Jobs!Kind PROVE HostOK(k, jobHost[k], job')
  BY <1>3, HostStays, JobNames DEF JobsInv, Own
<1>5. Accounted' = Accounted
  BY <1>1 DEF Accounted, Safe, Jobs!Recorded
<1>6. SecretsKept'
  BY <1>1, <1>5 DEF JobsInv, JobsTypes, SecretsKept
<1>7. RecordFits'
  BY <1>1 DEF JobsInv, RecordFits
<1>. QED
  BY <1>1, <1>2, <1>4, <1>6, <1>7 DEF JobsInv

(* One host changes, and no other.                                          *)
LEMMA HostSet ==
  ASSUME JobsTypes, NEW k \in Jobs!Kind, NEW h \in HostRecord, Jobs!Set(k, h)
  PROVE  /\ jobHost' \in [Jobs!Kind -> HostRecord] /\ jobHost'[k] = h
         /\ \A l \in Jobs!Kind : l # k => jobHost'[l] = jobHost[l]
  BY DEF JobsTypes, Jobs!Set

(* A host that is starting creates a Job or a Secret of its own.            *)
LEMMA HostMoves ==
  ASSUME JobsInv, process = "live", NEW k \in Jobs!Kind, NEW h \in HostRecord, Jobs!Set(k, h),
         jobHost[k].phase \in {"none", "create", "secret", "connect"}, h.phase # "failed",
         Jobs!Members(jobHost[k].jobs) \subseteq Jobs!Members(h.jobs), HostOK(k, h, job'),
         NEW new \in Own(k), job' \in {job, [job EXCEPT ![new] = "pending"]},
         job' # job => job[new] = "none",
         secret' \in {secret, secret \cup {new}},
         secret' # secret => new \in Jobs!Members(h.jobs) /\ job[new] # "none",
         UNCHANGED <<jobRecord, process, adrift>>
  PROVE  JobsInv'
<1>0. new \in Jobs!Job /\ \A l \in Jobs!Kind : l # k => new \notin Own(l)
  BY JobNames DEF Own
<1>1. /\ jobHost' \in [Jobs!Kind -> HostRecord] /\ jobHost'[k] = h
      /\ \A l \in Jobs!Kind : l # k => jobHost'[l] = jobHost[l]
  BY HostSet DEF JobsInv
<1>2. JobsTypes'
  BY <1>0, <1>1 DEF JobsInv, JobsTypes
<1>3. ASSUME NEW l \in Jobs!Kind PROVE HostOK(l, jobHost'[l], job')
  <2>1. CASE l = k
    BY <1>1, <2>1
  <2>2. CASE l # k
    <3>1. \A i \in Own(l) : job'[i] = job[i]
      BY <1>0, <2>2, JobNames DEF JobsInv, JobsTypes, Own
    <3>2. HostOK(l, jobHost[l], job)
      BY DEF JobsInv
    <3>. QED
      BY <1>1, <2>2, <3>1, <3>2, HostStays, JobNames
  <2>. QED
    BY <2>1, <2>2
<1>4. /\ \A l \in Jobs!Kind : Safe(l) \subseteq Safe(l)'
      /\ Jobs!Members(h.jobs) \subseteq Safe(k)' /\ Safe(k)' \subseteq Accounted' /\ Accounted \subseteq Accounted'
  <2>1. Safe(k)' = Jobs!Members(h.jobs) /\ Safe(k) \subseteq Jobs!Members(h.jobs)
    BY <1>1 DEF Safe
  <2>2. ASSUME NEW l \in Jobs!Kind, l # k PROVE Safe(l)' = Safe(l)
    BY <1>1, <2>2 DEF Safe
  <2>3. Jobs!Recorded' = Jobs!Recorded
    BY DEF Jobs!Recorded
  <2>. QED
    BY <2>1, <2>2, <2>3, JobNames DEF Accounted
<1>5. SecretsKept'
  <2> SUFFICES ASSUME NEW j \in Jobs!Job
               PROVE  /\ j \in secret' => job'[j] # "none"
                      /\ job'[j] = "running" => j \in secret'
                      /\ j \in secret' /\ job'[j] \in {"pending", "running"} => j \in Accounted'
    BY DEF SecretsKept
  <2>1. /\ j \in secret => job[j] # "none"
        /\ job[j] = "running" => j \in secret
        /\ j \in secret /\ job[j] \in {"pending", "running"} => j \in Accounted
    BY DEF JobsInv, SecretsKept
  <2>2. job'[j] = job[j] \/ (j = new /\ job[j] = "none" /\ job'[j] = "pending")
    BY <1>0 DEF JobsInv, JobsTypes
  <2>3. secret \subseteq secret' /\ (j \in secret' => j \in secret \/ (j = new /\ secret' # secret))
    OBVIOUS
  <2>. QED
    BY <1>4, <2>1, <2>2, <2>3
<1>6. RecordFits'
  BY <1>1 DEF JobsInv, RecordFits
<1>. QED
  BY <1>1, <1>2, <1>3, <1>5, <1>6 DEF JobsInv

(* The fields of a host that a step of its start changes.                   *)
Phase == {"none", "create", "secret", "connect", "up", "stop", "failed"}

(* What each of its steps makes of a host.                                  *)
LEMMA HostExcept ==
  ASSUME NEW h \in HostRecord, NEW p \in Phase, NEW js \in Seq(Jobs!Job), NEW ts \in Seq(Jobs!Job), NEW n \in Nat
  PROVE  /\ LET g == [h EXCEPT !.phase = p]
            IN  g \in HostRecord /\ g.phase = p /\ g.jobs = h.jobs /\ g.tokens = h.tokens /\ g.up = h.up
         /\ LET g == [h EXCEPT !.jobs = js, !.phase = p]
            IN  g \in HostRecord /\ g.phase = p /\ g.jobs = js /\ g.tokens = h.tokens /\ g.up = h.up
         /\ LET g == [h EXCEPT !.phase = p, !.tokens = ts]
            IN  g \in HostRecord /\ g.phase = p /\ g.jobs = h.jobs /\ g.tokens = ts /\ g.up = h.up
         /\ LET g == [h EXCEPT !.up = n, !.tokens = ts, !.phase = p]
            IN  g \in HostRecord /\ g.phase = p /\ g.jobs = h.jobs /\ g.tokens = ts /\ g.up = n
<1>1. LET g == [h EXCEPT !.phase = p]
      IN  g \in HostRecord /\ g.phase = p /\ g.jobs = h.jobs /\ g.tokens = h.tokens /\ g.up = h.up
  BY DEF HostRecord, Phase
<1>2. LET g == [h EXCEPT !.jobs = js, !.phase = p]
      IN  g \in HostRecord /\ g.phase = p /\ g.jobs = js /\ g.tokens = h.tokens /\ g.up = h.up
  BY DEF HostRecord, Phase
<1>3. LET g == [h EXCEPT !.phase = p, !.tokens = ts]
      IN  g \in HostRecord /\ g.phase = p /\ g.jobs = h.jobs /\ g.tokens = ts /\ g.up = h.up
  BY DEF HostRecord, Phase
<1>4. LET g == [h EXCEPT !.up = n, !.tokens = ts, !.phase = p]
      IN  g \in HostRecord /\ g.phase = p /\ g.jobs = h.jobs /\ g.tokens = ts /\ g.up = n
  BY DEF HostRecord, Phase
<1>. QED
  BY <1>1, <1>2, <1>3, <1>4

(* The second Job of the device completes the list.                         *)
LEMMA AppendTwo == Append(<<"a1">>, "a2") = Android
<1> DEFINE s == Append(<<"a1">>, "a2")
<1>1. s \in Seq({"a1", "a2"}) /\ Len(s) = 2 /\ s[1] = "a1" /\ s[2] = "a2"
  OBVIOUS
<1>2. Android \in Seq({"a1", "a2"}) /\ Len(Android) = 2 /\ Android[1] = "a1" /\ Android[2] = "a2"
  BY DEF Android
<1> HIDE DEF s
<1>3. \A i \in 1..Len(s) : s[i] = Android[i]
  BY <1>1, <1>2
<1>4. s = Android
  BY <1>1, <1>2, <1>3, SeqEqual
<1>. QED
  BY <1>4 DEF s

(* start() begins with no Job.                                              *)
LEMMA JobsStart == ASSUME JobsInv, NEW k \in Jobs!Kind, Jobs!Start(k) PROVE JobsInv'
<1> DEFINE h == [Jobs!NoHost EXCEPT !.phase = "create"]
<1>1. /\ process = "live" /\ jobHost[k].phase = "none" /\ Jobs!Set(k, h)
      /\ \A j \in Jobs!Members(Jobs!Jobs(k)) : job[j] = "none"
      /\ UNCHANGED <<job, secret, jobRecord, process, adrift>>
  BY DEF Jobs!Start, Jobs!At
<1>2. h \in HostRecord /\ h = [phase |-> "create", jobs |-> <<>>, tokens |-> <<>>, up |-> 0]
  <2>1. h = [phase |-> "create", jobs |-> <<>>, tokens |-> <<>>, up |-> 0]
    BY DEF Jobs!NoHost
  <2>2. <<>> \in Seq(Jobs!Job)
    OBVIOUS
  <2>3. [phase |-> "create", jobs |-> <<>>, tokens |-> <<>>, up |-> 0] \in HostRecord
    BY <2>2 DEF HostRecord
  <2>. QED
    BY <2>1, <2>3
<1>3. \A j \in Own(k) : job[j] = "none"
  BY <1>1, JobNames DEF Own
<1>4. HostOK(k, h, job')
  BY <1>1, <1>2, <1>3, JobNames DEF HostOK, AndroidOK, WorkloadOK, Own
<1>5. Jobs!Members(jobHost[k].jobs) = {}
  <2>1. jobHost[k] = Jobs!NoHost
    BY <1>1 DEF JobsInv, HostOK, AndroidOK, WorkloadOK
  <2>. QED
    BY <2>1, JobNames DEF Jobs!NoHost
<1>6. PICK new \in Own(k) : TRUE
  BY DEF Own
<1> HIDE DEF h
<1>. QED
  BY <1>1, <1>2, <1>4, <1>5, <1>6, HostMoves

(* A Job is created, or the create fails, applied or not.                   *)
LEMMA JobsCreate == ASSUME JobsInv, NEW k \in Jobs!Kind, Jobs!CreateJob(k) PROVE JobsInv'
<1> DEFINE new == Jobs!Next1(k)
           next == Append(jobHost[k].jobs, new)
           made == Jobs!Created(k)
           not == Jobs!NotCreated(k)
<1>0. jobHost[k] \in HostRecord /\ HostOK(k, jobHost[k], job)
  BY DEF JobsInv, JobsTypes
<1>1. /\ process = "live" /\ jobHost[k].phase = "create"
      /\ UNCHANGED <<secret, jobRecord, process, adrift>>
      /\ \/ job' = [job EXCEPT ![new] = "pending"] /\ Jobs!Set(k, made)
         \/ job' \in {job, [job EXCEPT ![new] = "pending"]} /\ Jobs!Set(k, not)
  BY DEF Jobs!CreateJob, Jobs!At
<1>2. /\ new \in Own(k) /\ job[new] = "none" /\ jobHost[k].up = 0
      /\ k = "android" => jobHost[k].tokens = jobHost[k].jobs /\ job["a2"] = "none"
                          /\ ((jobHost[k].jobs = <<>> /\ new = "a1") \/ (jobHost[k].jobs = <<"a1">> /\ new = "a2"))
      /\ k = "workload" => jobHost[k].jobs = <<>> /\ jobHost[k].tokens = <<>> /\ new = "w1"
  <2>1. CASE k = "android"
    <3>1. /\ jobHost[k].tokens = jobHost[k].jobs /\ job["a2"] = "none" /\ jobHost[k].up = 0
          /\ jobHost[k].jobs = <<"a1">> \/ (jobHost[k].jobs = <<>> /\ job["a1"] = "none")
      BY <1>0, <1>1, <2>1 DEF HostOK, AndroidOK
    <3>2. Jobs!Jobs(k) = <<"a1", "a2">>
      BY <2>1, JobNames DEF Android
    <3>3. CASE jobHost[k].jobs = <<>> /\ job["a1"] = "none"
      <4>1. new = "a1"
        BY <3>2, <3>3 DEF Jobs!Next1
      <4>. QED
        BY <2>1, <3>1, <3>3, <4>1 DEF Own
    <3>4. CASE jobHost[k].jobs = <<"a1">>
      <4>1. new = "a2"
        BY <3>2, <3>4 DEF Jobs!Next1
      <4>. QED
        BY <2>1, <3>1, <3>4, <4>1 DEF Own
    <3>. QED
      BY <3>1, <3>3, <3>4
  <2>2. CASE k = "workload"
    <3>1. jobHost[k].jobs = <<>> /\ jobHost[k].tokens = <<>> /\ job["w1"] = "none" /\ jobHost[k].up = 0
      BY <1>0, <1>1, <2>2 DEF HostOK, WorkloadOK
    <3>2. Jobs!Jobs(k) = <<"w1">>
      BY <2>2, JobNames DEF Workload
    <3>3. new = "w1"
      BY <3>1, <3>2 DEF Jobs!Next1
    <3>. QED
      BY <2>2, <3>1, <3>3 DEF Own
  <2>. QED
    BY <2>1, <2>2, JobNames
<1>3. /\ next \in {<<"a1">>, Android, Workload} /\ next \in Seq(Jobs!Job)
      /\ Jobs!Members(jobHost[k].jobs) \subseteq Jobs!Members(next)
      /\ k = "android" => (next = <<"a1">> /\ new = "a1" /\ jobHost[k].tokens = <<>>)
                          \/ (next = Android /\ new = "a2" /\ jobHost[k].tokens = <<"a1">>)
      /\ k = "workload" => next = Workload
  <2>1. CASE k = "android" /\ jobHost[k].jobs = <<>>
    <3>1. next = <<"a1">>
      BY <1>2, <2>1
    <3>. QED
      BY <1>2, <2>1, <3>1, JobNames
  <2>2. CASE k = "android" /\ jobHost[k].jobs = <<"a1">>
    <3>0. new = "a2" /\ jobHost[k].jobs = <<"a1">> /\ jobHost[k].tokens = <<"a1">>
      BY <1>2, <2>2
    <3> HIDE DEF new
    <3>1. next = Android
      BY ONLY <3>0, AppendTwo
    <3>2. next \in Seq(Jobs!Job)
      BY ONLY <3>1, JobNames DEF Android
    <3> HIDE DEF next
    <3>. QED
      BY ONLY <2>2, <3>0, <3>1, <3>2, JobNames
  <2>3. CASE k = "workload"
    <3>0. new = "w1" /\ jobHost[k].jobs = <<>>
      BY <1>2, <2>3
    <3> HIDE DEF new
    <3>1. next = Workload
      BY ONLY <3>0 DEF Workload
    <3>2. next \in Seq(Jobs!Job)
      BY ONLY <3>1, JobNames DEF Workload
    <3> HIDE DEF next
    <3>. QED
      BY ONLY <2>3, <3>0, <3>1, <3>2, JobNames
  <2>. QED
    BY <1>2, <2>1, <2>2, <2>3, JobNames
<1>4. CASE job' = [job EXCEPT ![new] = "pending"] /\ Jobs!Set(k, made)
  <2>1. made \in HostRecord /\ made.phase = "secret" /\ made.jobs = next /\ made.tokens = jobHost[k].tokens /\ made.up = 0
    <3>1. /\ jobHost[k] \in HostRecord /\ "secret" \in Phase /\ next \in Seq(Jobs!Job)
          /\ made = [jobHost[k] EXCEPT !.jobs = next, !.phase = "secret"]
      BY <1>0, <1>3 DEF Phase, Jobs!Created
    <3> HIDE DEF made, next, new
    <3>. QED
      BY <1>2, <3>1, HostExcept DEF HostRecord
  <2>2. \A j \in Jobs!Job : job'[j] = IF j = new THEN "pending" ELSE job[j]
    BY <1>4 DEF JobsInv, JobsTypes
  <2>3. HostOK(k, made, job')
    <3> HIDE DEF made, next, new
    <3>. QED
      BY <1>2, <1>3, <2>1, <2>2, JobNames DEF HostOK, AndroidOK, WorkloadOK
  <2> HIDE DEF made, next, new
  <2>. QED
    BY <1>1, <1>2, <1>3, <1>4, <2>1, <2>3, HostMoves
<1>5. CASE job' \in {job, [job EXCEPT ![new] = "pending"]} /\ Jobs!Set(k, not)
  <2>1. not \in HostRecord /\ not.phase = "stop" /\ not.jobs = jobHost[k].jobs /\ not.up = 0
    <3>1. "stop" \in Phase /\ not = [jobHost[k] EXCEPT !.phase = "stop"]
      BY DEF Phase, Jobs!NotCreated
    <3> HIDE DEF not, next, new
    <3>. QED
      BY <1>0, <1>2, <3>1, HostExcept DEF HostRecord
  <2>2. HostOK(k, not, job')
    <3> HIDE DEF not, new
    <3>. QED
      BY <1>2, <2>1, JobNames DEF HostOK, AndroidOK, WorkloadOK, Workload, Android
  <2> HIDE DEF not, new
  <2>. QED
    BY <1>1, <1>2, <1>5, <2>1, <2>2, HostMoves
<1>. QED
  BY <1>1, <1>4, <1>5

(* The Secret of the Job created last is created, or that fails, applied or *)
(* not.                                                                     *)
LEMMA JobsSecret == ASSUME JobsInv, NEW k \in Jobs!Kind, Jobs!CreateSecret(k) PROVE JobsInv'
<1> DEFINE h == jobHost[k]
           j == h.jobs[Len(h.jobs)]
           p == IF Len(h.jobs) = Len(Jobs!Jobs(k)) THEN "connect" ELSE "create"
           ts == IF k = "android" THEN Append(h.tokens, j) ELSE h.tokens
           made == [h EXCEPT !.phase = p, !.tokens = ts]
           not == [h EXCEPT !.phase = "stop"]
<1>0. h \in HostRecord /\ HostOK(k, h, job)
  BY DEF JobsInv, JobsTypes
<1>1. /\ process = "live" /\ h.phase = "secret"
      /\ UNCHANGED <<job, jobRecord, process, adrift>>
      /\ \/ secret' = secret \cup {j} /\ Jobs!Set(k, made)
         \/ secret' \in {secret, secret \cup {j}} /\ Jobs!Set(k, not)
  <2>1. made = [h EXCEPT !.phase = p, !.tokens = IF k = "android" THEN Append(@, j) ELSE @]
    OBVIOUS
  <2>. QED
    BY <2>1 DEF Jobs!CreateSecret, Jobs!At
<1>2. \/ /\ k = "android" /\ h.jobs = <<"a1">> /\ h.tokens = <<>> /\ job["a1"] # "none" /\ job["a2"] = "none"
         /\ j = "a1" /\ p = "create" /\ ts = <<"a1">>
      \/ /\ k = "android" /\ h.jobs = Android /\ h.tokens = <<"a1">> /\ job["a2"] # "none"
         /\ j = "a2" /\ p = "connect" /\ ts = Android
      \/ /\ k = "workload" /\ h.jobs = Workload /\ h.tokens = <<>> /\ job["w1"] # "none"
         /\ j = "w1" /\ p = "connect" /\ ts = <<>>
  <2>1. CASE k = "android" /\ h.jobs = <<"a1">> /\ h.tokens = <<>> /\ job["a1"] # "none" /\ job["a2"] = "none"
    <3>1. j = "a1" /\ p = "create"
      BY <2>1, JobNames DEF Android
    <3>2. ts = <<"a1">>
      BY <2>1, <3>1
    <3>. QED
      BY <2>1, <3>1, <3>2
  <2>2. CASE k = "android" /\ h.jobs = Android /\ h.tokens = <<"a1">> /\ job["a2"] # "none"
    <3>1. j = "a2" /\ p = "connect"
      BY <2>2, JobNames DEF Android
    <3>2. ts = Android
      BY <2>2, <3>1, AppendTwo
    <3>. QED
      BY <2>2, <3>1, <3>2
  <2>3. CASE k = "workload" /\ h.jobs = Workload /\ h.tokens = <<>> /\ job["w1"] # "none"
    <3>1. j = "w1" /\ p = "connect" /\ ts = <<>>
      BY <2>3, JobNames DEF Workload
    <3>. QED
      BY <2>3, <3>1
  <2>. QED
    BY <1>0, <1>1, <2>1, <2>2, <2>3, JobNames DEF HostOK, AndroidOK, WorkloadOK
<1>3. /\ h.up = 0 /\ j \in Own(k) /\ job[j] # "none" /\ j \in Jobs!Members(h.jobs)
      /\ p \in Phase /\ ts \in Seq(Jobs!Job) /\ "stop" \in Phase
  <2>1. h.up = 0
    BY <1>0, <1>1, JobNames DEF HostOK, AndroidOK, WorkloadOK
  <2>2. Android \in Seq(Jobs!Job) /\ <<"a1">> \in Seq(Jobs!Job) /\ <<>> \in Seq(Jobs!Job)
    BY JobNames DEF Android
  <2> HIDE DEF h, j, p, ts
  <2>. QED
    BY <1>2, <2>1, <2>2, JobNames DEF Own, Phase
<1>4. CASE secret' = secret \cup {j} /\ Jobs!Set(k, made)
  <2> HIDE DEF h, j, p, ts
  <2>1. made \in HostRecord /\ made.phase = p /\ made.jobs = h.jobs /\ made.tokens = ts /\ made.up = h.up
    BY <1>0, <1>3, HostExcept DEF HostRecord
  <2> HIDE DEF made
  <2>2. HostOK(k, made, job')
    BY <1>1, <1>2, <1>3, <2>1, JobNames DEF HostOK, AndroidOK, WorkloadOK
  <2>. QED
    BY <1>1, <1>2, <1>3, <1>4, <2>1, <2>2, HostMoves DEF h
<1>5. CASE secret' \in {secret, secret \cup {j}} /\ Jobs!Set(k, not)
  <2> HIDE DEF h, j, p, ts
  <2>1. not \in HostRecord /\ not.phase = "stop" /\ not.jobs = h.jobs /\ not.up = h.up
    BY <1>0, <1>3, HostExcept DEF HostRecord
  <2> HIDE DEF not
  <2>2. HostOK(k, not, job')
    BY <1>1, <1>2, <1>3, <2>1, JobNames DEF HostOK, AndroidOK, WorkloadOK, Android, Workload
  <2>. QED
    BY <1>1, <1>2, <1>3, <1>5, <2>1, <2>2, HostMoves DEF h
<1>. QED
  BY <1>1, <1>4, <1>5

(* The client reaches the next Pod, or gives up.                            *)
LEMMA JobsConnect == ASSUME JobsInv, NEW k \in Jobs!Kind, Jobs!Connect(k) PROVE JobsInv'
<1> DEFINE h == jobHost[k]
           j == h.jobs[h.up + 1]
           p == IF h.up + 1 = Len(h.jobs) THEN "up" ELSE h.phase
           ts == IF k = "workload" THEN Append(h.tokens, j) ELSE h.tokens
           n == h.up + 1
           made == [h EXCEPT !.up = n, !.tokens = ts, !.phase = p]
           not == [h EXCEPT !.phase = "stop"]
<1>0. h \in HostRecord /\ HostOK(k, h, job)
  BY DEF JobsInv, JobsTypes
<1>1. /\ process = "live" /\ h.phase = "connect"
      /\ UNCHANGED <<job, secret, jobRecord, process, adrift>>
      /\ Jobs!Set(k, made) \/ Jobs!Set(k, not)
  <2>1. made = [h EXCEPT !.up = @ + 1, !.tokens = IF k = "workload" THEN Append(@, j) ELSE @,
                         !.phase = IF h.up + 1 = Len(h.jobs) THEN "up" ELSE @]
    OBVIOUS
  <2>. QED
    BY <2>1 DEF Jobs!Connect, Jobs!At
<1>2. \/ /\ k = "android" /\ h.jobs = Android /\ ts = Android
         /\ (h.up = 0 /\ p = "connect") \/ (h.up = 1 /\ p = "up")
      \/ k = "workload" /\ h.jobs = Workload /\ h.up = 0 /\ ts = Workload /\ p = "up"
  <2>1. CASE k = "android" /\ h.jobs = Android /\ h.tokens = Android /\ h.up \in {0, 1}
    BY <1>1, <2>1 DEF Android
  <2>2. CASE k = "workload" /\ h.jobs = Workload /\ h.tokens = <<>> /\ h.up = 0
    <3>1. j = "w1" /\ p = "up"
      BY <2>2 DEF Workload
    <3>2. ts = Workload
      BY <2>2, <3>1 DEF Workload
    <3>. QED
      BY <2>2, <3>1, <3>2
  <2>. QED
    BY <1>0, <1>1, <2>1, <2>2, JobNames DEF HostOK, AndroidOK, WorkloadOK
<1>3. p \in Phase /\ ts \in Seq(Jobs!Job) /\ n \in Nat /\ "stop" \in Phase /\ h.up \in {0, 1} /\ n = h.up + 1
  <2>1. Android \in Seq(Jobs!Job) /\ Workload \in Seq(Jobs!Job)
    BY JobNames DEF Android, Workload
  <2>2. n = h.up + 1
    OBVIOUS
  <2> HIDE DEF h, j, p, ts, n
  <2>. QED
    BY <1>2, <2>1, <2>2 DEF Phase
<1>4. PICK new \in Own(k) : TRUE
  BY DEF Own
<1>5. CASE Jobs!Set(k, made)
  <2> HIDE DEF h, j, p, ts, n
  <2>1. made \in HostRecord /\ made.phase = p /\ made.jobs = h.jobs /\ made.tokens = ts /\ made.up = n
    BY <1>0, <1>3, HostExcept DEF HostRecord
  <2> HIDE DEF made
  <2>2. HostOK(k, made, job')
    BY <1>1, <1>2, <1>3, <2>1, JobNames DEF HostOK, AndroidOK, WorkloadOK
  <2>. QED
    BY <1>1, <1>2, <1>4, <1>5, <2>1, <2>2, HostMoves DEF h
<1>6. CASE Jobs!Set(k, not)
  <2> HIDE DEF h, j, p, ts, n
  <2>1. not \in HostRecord /\ not.phase = "stop" /\ not.jobs = h.jobs /\ not.up = h.up
    BY <1>0, <1>3, HostExcept DEF HostRecord
  <2> HIDE DEF not
  <2>2. HostOK(k, not, job')
    BY <1>1, <1>2, <1>3, <2>1, JobNames DEF HostOK, AndroidOK, WorkloadOK, Android, Workload
  <2>. QED
    BY <1>1, <1>2, <1>4, <1>6, <2>1, <2>2, HostMoves DEF h
<1>. QED
  BY <1>1, <1>5, <1>6

(* Jobs that are deleted were of one host or more; no other host minds.     *)
LEMMA OthersStay ==
  ASSUME JobsInv, NEW k \in Jobs!Kind, NEW js, js \cap Own(k) = {}, Jobs!Delete(js)
  PROVE  HostOK(k, jobHost[k], job')
<1>1. \A i \in Own(k) : job'[i] = job[i]
  BY JobNames DEF Jobs!Delete, Own
<1>2. HostOK(k, jobHost[k], job)
  BY DEF JobsInv
<1>. QED
  BY <1>1, <1>2, HostStays, JobNames

(* What has been deleted is gone with its Secret.                           *)
LEMMA DeletedTypes ==
  ASSUME JobsTypes, NEW js, Jobs!Delete(js)
  PROVE  /\ job' \in [Jobs!Job -> {"none", "pending", "running", "over", "deleted"}] /\ secret' \subseteq Jobs!Job
         /\ \A j \in Jobs!Job : job'[j] = IF j \in js THEN "deleted" ELSE job[j]
         /\ secret' = secret \ js
  BY DEF JobsTypes, Jobs!Delete

(* A failed start stops what it has begun; what cannot be deleted is adrift. *)
LEMMA JobsStop == ASSUME JobsInv, NEW k \in Jobs!Kind, Jobs!StopFailedStart(k) PROVE JobsInv'
<1>1. PICK left \in SUBSET Jobs!Members(jobHost[k].jobs) :
            /\ Jobs!Delete(Jobs!Members(jobHost[k].jobs) \ left)
            /\ Jobs!Set(k, Jobs!Stopped(jobHost[k], left)) /\ adrift' = adrift \cup left
  BY DEF Jobs!StopFailedStart
<1>2. process = "live" /\ jobHost[k].phase \in {"stop", "failed"} /\ UNCHANGED <<jobRecord, process>>
  BY DEF Jobs!StopFailedStart, Jobs!At
<1> DEFINE mine == Jobs!Members(jobHost[k].jobs)
           deleted == mine \ left
           h == Jobs!Stopped(jobHost[k], left)
<1>3. jobHost[k] \in HostRecord /\ HostOK(k, jobHost[k], job) /\ mine \subseteq Own(k) /\ Own(k) \subseteq Jobs!Job
  <2>1. jobHost[k] \in HostRecord /\ HostOK(k, jobHost[k], job)
    BY DEF JobsInv, JobsTypes
  <2>2. mine \subseteq Own(k)
    BY <2>1, JobsHeld, JobNames DEF HostRecord
  <2>. QED
    BY <2>1, <2>2, JobNames DEF Own
<1>4. jobHost[k].jobs \in Seq(Own(k))
  <2>2. CASE k = "android"
    <3>1. jobHost[k].jobs \in Seq({"a1", "a2"}) \/ jobHost[k].jobs \in {<<>>, <<"a1">>, Android}
      BY <1>2, <1>3, <2>2 DEF HostOK, AndroidOK
    <3>2. Android \in Seq({"a1", "a2"}) /\ <<"a1">> \in Seq({"a1", "a2"}) /\ <<>> \in Seq({"a1", "a2"})
      BY DEF Android
    <3>. QED
      BY ONLY <2>2, <3>1, <3>2 DEF Own
  <2>3. CASE k = "workload"
    <3>1. jobHost[k].jobs \in Seq({"w1"}) \/ jobHost[k].jobs \in {<<>>, Workload}
      BY <1>2, <1>3, <2>3 DEF HostOK, WorkloadOK
    <3>2. Workload \in Seq({"w1"}) /\ <<>> \in Seq({"w1"})
      BY DEF Workload
    <3>. QED
      BY ONLY <2>3, <3>1, <3>2 DEF Own
  <2>. QED
    BY <2>2, <2>3, JobNames
<1>5. /\ h.phase = "failed" /\ h.up = 0 /\ h.jobs \in Seq(Own(k)) /\ h \in HostRecord
  <2> DEFINE js == Jobs!Kept(jobHost[k].jobs, left)
  <2>1. js \in Seq(Own(k)) /\ js \in Seq(Jobs!Job)
    BY <1>3, <1>4, KeptIsSeq
  <2>2. h = [phase |-> "failed", jobs |-> js, tokens |-> <<>>, up |-> 0]
    BY DEF Jobs!Stopped
  <2> HIDE DEF js, h
  <2>. QED
    BY <2>1, <2>2 DEF HostRecord
<1>6. HostOK(k, h, job')
  <2> HIDE DEF h
  <2>. QED
    BY <1>5, JobNames DEF HostOK, AndroidOK, WorkloadOK, Own
<1>7. /\ jobHost' \in [Jobs!Kind -> HostRecord] /\ jobHost'[k] = h
      /\ \A l \in Jobs!Kind : l # k => jobHost'[l] = jobHost[l]
  BY <1>1, <1>5, HostSet DEF JobsInv
<1>8. \A l \in Jobs!Kind : HostOK(l, jobHost'[l], job')
  <2>1. ASSUME NEW l \in Jobs!Kind, l # k PROVE HostOK(l, jobHost[l], job')
    <3>1. deleted \cap Own(l) = {}
      BY <1>3, <2>1, JobNames DEF Own
    <3>. QED
      BY <1>1, <3>1, OthersStay
  <2>. QED
    BY <1>6, <1>7, <2>1
<1> HIDE DEF h
<1>9. /\ job' \in [Jobs!Job -> {"none", "pending", "running", "over", "deleted"}] /\ secret' \subseteq Jobs!Job
      /\ \A j \in Jobs!Job : job'[j] = IF j \in deleted THEN "deleted" ELSE job[j]
      /\ secret' = secret \ deleted
  BY <1>1, DeletedTypes DEF JobsInv
<1>10. JobsTypes'
  BY <1>1, <1>2, <1>3, <1>7, <1>9 DEF JobsInv, JobsTypes
<1>11. \A j \in Accounted : j \in deleted \/ j \in Accounted'
  <2>1. Safe(k) \subseteq mine
    BY DEF Safe
  <2>2. ASSUME NEW l \in Jobs!Kind, l # k PROVE Safe(l)' = Safe(l)
    BY <1>7, <2>2 DEF Safe
  <2>3. Jobs!Recorded' = Jobs!Recorded
    BY <1>2 DEF Jobs!Recorded
  <2>. QED
    BY <1>1, <2>1, <2>2, <2>3, JobNames DEF Accounted
<1>12. SecretsKept'
  BY <1>9, <1>11 DEF JobsInv, SecretsKept
<1>13. RecordFits'
  BY <1>2, <1>7 DEF JobsInv, RecordFits
<1>. QED
  BY <1>8, <1>10, <1>12, <1>13 DEF JobsInv

(* The record is written when no start is under way, and then names what is up. *)
LEMMA JobsRemember == ASSUME JobsInv, Jobs!Remember PROVE JobsInv'
<1>1. /\ process = "live" /\ UNCHANGED <<job, secret, jobHost, process, adrift>>
      /\ jobRecord' = [k \in Jobs!Kind |-> Jobs!Described(k)]
  BY DEF Jobs!Remember
<1>2. ASSUME NEW k \in Jobs!Kind
      PROVE  Jobs!Described(k) = IF jobHost[k].phase = "up" THEN Whole(k) ELSE Jobs!NoRecord
  BY JobNames DEF JobsInv, HostOK, AndroidOK, WorkloadOK, Jobs!Described, Whole
<1>3. JobsTypes'
  BY <1>1, <1>2, JobNames DEF JobsInv, JobsTypes
<1>4. ASSUME NEW k \in Jobs!Kind PROVE jobRecord[k] # Jobs!NoRecord => jobRecord'[k] = jobRecord[k]
  BY <1>1, <1>2 DEF JobsInv, RecordFits
<1>5. Accounted \subseteq Accounted'
  <2>1. Safe("android")' = Safe("android") /\ Safe("workload")' = Safe("workload")
    BY <1>1 DEF Safe
  <2>2. ASSUME NEW k \in Jobs!Kind PROVE Jobs!Members(jobRecord[k].jobs) \subseteq Jobs!Members(jobRecord'[k].jobs)
    <3>1. CASE jobRecord[k] = Jobs!NoRecord
      BY <3>1, JobNames DEF Jobs!NoRecord
    <3>2. CASE jobRecord[k] # Jobs!NoRecord
      BY <1>4, <3>2
    <3>. QED
      BY <3>1, <3>2
  <2>3. Jobs!Recorded \subseteq Jobs!Recorded'
    BY <2>2 DEF Jobs!Recorded
  <2>. QED
    BY <1>1, <2>1, <2>3 DEF Accounted
<1>6. SecretsKept'
  BY <1>1, <1>5 DEF JobsInv, SecretsKept
<1>7. RecordFits'
  BY <1>1, <1>2 DEF JobsInv, RecordFits
<1>8. \A k \in Jobs!Kind : HostOK(k, jobHost'[k], job')
  BY <1>1 DEF JobsInv
<1>. QED
  BY <1>3, <1>6, <1>7, <1>8 DEF JobsInv

(* A process that has no host is in order.                                  *)
LEMMA NoHostOK ==
  ASSUME NEW k \in Jobs!Kind, NEW jb
  PROVE  /\ HostOK(k, Jobs!NoHost, jb) /\ Jobs!NoHost \in HostRecord
         /\ Jobs!Members(Jobs!NoHost.jobs) = {} /\ Jobs!NoHost.phase = "none"
<1>1. <<>> \in Seq(Jobs!Job)
  OBVIOUS
<1>. QED
  BY <1>1, JobNames DEF HostOK, AndroidOK, WorkloadOK, Jobs!NoHost, HostRecord

(* The process lets all go: what it was about to use is recorded or adrift. *)
LEMMA JobsLetGo ==
  ASSUME JobsInv, jobHost' = [k \in Jobs!Kind |-> Jobs!NoHost], process' \in {"gone", "closed"},
         jobRecord' \in [Jobs!Kind -> {Jobs!NoRecord, Whole("android"), Whole("workload")}],
         \A k \in Jobs!Kind : jobRecord'[k] \in {Jobs!NoRecord, Whole(k)} /\ (process' = "closed" => jobRecord'[k] = Jobs!NoRecord),
         NEW js, Jobs!Delete(js), adrift' \subseteq Jobs!Job,
         Accounted \subseteq js \cup Jobs!Recorded' \cup adrift'
  PROVE  JobsInv'
<1>1. /\ job' \in [Jobs!Job -> {"none", "pending", "running", "over", "deleted"}] /\ secret' \subseteq Jobs!Job
      /\ \A j \in Jobs!Job : job'[j] = IF j \in js THEN "deleted" ELSE job[j]
      /\ secret' = secret \ js
  BY DeletedTypes DEF JobsInv
<1>2. JobsTypes'
  BY <1>1, NoHostOK DEF JobsInv, JobsTypes
<1>3. \A k \in Jobs!Kind : HostOK(k, jobHost'[k], job')
  BY NoHostOK
<1>4. SecretsKept'
  <2>1. Jobs!Recorded' \cup adrift' \subseteq Accounted'
    BY DEF Accounted
  <2>. QED
    BY <1>1, <2>1 DEF JobsInv, SecretsKept
<1>5. RecordFits'
  BY DEF RecordFits
<1>. QED
  BY <1>2, <1>3, <1>4, <1>5 DEF JobsInv

(* A process that leaves, or cannot attach, leaves its Jobs recorded or adrift. *)
LEMMA JobsLeave == ASSUME JobsInv, Jobs!Leave \/ Jobs!AttachFails PROVE JobsInv'
<1>1. /\ UNCHANGED <<job, secret>> /\ jobHost' = [k \in Jobs!Kind |-> Jobs!NoHost]
      /\ \/ process' = "gone" /\ jobRecord' = jobRecord /\ adrift' = adrift \cup (Jobs!Held \ Jobs!Recorded)
         \/ /\ process = "attaching" /\ process' = "closed" /\ adrift' = adrift \cup Jobs!Recorded
            /\ jobRecord' = [k \in Jobs!Kind |-> Jobs!NoRecord]
  BY DEF Jobs!Leave, Jobs!AttachFails
<1>2. Jobs!Delete({})
  <2>1. job' = [j \in Jobs!Job |-> IF j \in {} THEN "deleted" ELSE job[j]]
    BY <1>1 DEF JobsInv, JobsTypes
  <2>. QED
    BY <1>1, <2>1 DEF Jobs!Delete
<1>3. ASSUME NEW k \in Jobs!Kind
      PROVE  /\ Safe(k) \subseteq Jobs!Members(jobHost[k].jobs)
             /\ Jobs!Members(jobHost[k].jobs) \subseteq Jobs!Job
             /\ Jobs!Members(jobRecord[k].jobs) \subseteq Jobs!Job
             /\ process = "attaching" => Safe(k) \subseteq Jobs!Members(jobRecord[k].jobs)
  <2>1. Safe(k) \subseteq Jobs!Members(jobHost[k].jobs)
    BY DEF Safe
  <2>2. Jobs!Members(jobHost[k].jobs) \subseteq Jobs!Job
    BY JobsHeld, JobNames DEF JobsInv, JobsTypes, HostRecord, Own
  <2>3. Jobs!Members(jobRecord[k].jobs) \subseteq Jobs!Job
    BY JobNames DEF JobsInv, JobsTypes, Whole, Jobs!NoRecord
  <2>4. ASSUME process = "attaching" PROVE Safe(k) \subseteq Jobs!Members(jobRecord[k].jobs)
    <3>1. CASE jobHost[k] = Jobs!NoHost
      BY <2>1, <3>1, NoHostOK
    <3>2. CASE jobHost[k].phase = "up" /\ jobRecord[k] = Whole(k)
      <4>1. jobHost[k].jobs = jobRecord[k].jobs
        BY <3>2, JobNames DEF JobsInv, HostOK, AndroidOK, WorkloadOK, Whole
      <4>. QED
        BY <2>1, <4>1
    <3>. QED
      BY <2>4, <3>1, <3>2 DEF JobsInv, RecordFits
  <2>. QED
    BY <2>1, <2>2, <2>3, <2>4
<1>4. /\ Safe("android") \cup Safe("workload") \subseteq Jobs!Held
      /\ Jobs!Held \subseteq Jobs!Job /\ Jobs!Recorded \subseteq Jobs!Job
      /\ process = "attaching" => Safe("android") \cup Safe("workload") \subseteq Jobs!Recorded
  BY <1>3, JobNames DEF Jobs!Held, Jobs!Recorded
<1>5. /\ jobRecord' \in [Jobs!Kind -> {Jobs!NoRecord, Whole("android"), Whole("workload")}]
      /\ \A k \in Jobs!Kind : /\ jobRecord'[k] \in {Jobs!NoRecord, Whole(k)}
                              /\ process' = "closed" => jobRecord'[k] = Jobs!NoRecord
  BY <1>1 DEF JobsInv, JobsTypes, RecordFits
<1>6. adrift' \subseteq Jobs!Job
  BY <1>1, <1>4 DEF JobsInv, JobsTypes
<1>7. Accounted \subseteq {} \cup Jobs!Recorded' \cup adrift'
  <2>1. CASE jobRecord' = jobRecord /\ adrift' = adrift \cup (Jobs!Held \ Jobs!Recorded)
    <3>1. Jobs!Recorded' = Jobs!Recorded
      BY <2>1 DEF Jobs!Recorded
    <3>. QED
      BY <1>4, <2>1, <3>1 DEF Accounted
  <2>2. CASE process = "attaching" /\ adrift' = adrift \cup Jobs!Recorded
    BY <1>4, <2>2 DEF Accounted
  <2>. QED
    BY <1>1, <2>1, <2>2
<1>. QED
  BY <1>1, <1>2, <1>5, <1>6, <1>7, JobsLetGo

(* close() deletes what it has, or leaves it adrift.                        *)
LEMMA JobsClose == ASSUME JobsInv, Jobs!CloseHosts PROVE JobsInv'
<1> DEFINE mine(k) == IF jobHost[k].phase = "up" THEN Jobs!Members(jobHost[k].jobs) ELSE {}
           both == mine("android") \cup mine("workload")
<1>1. /\ process = "live" /\ \A k \in Jobs!Kind : jobHost[k].phase \in {"none", "up", "failed"}
      /\ process' = "closed" /\ jobHost' = [k \in Jobs!Kind |-> Jobs!NoHost]
      /\ jobRecord' = [k \in Jobs!Kind |-> Jobs!NoRecord]
  BY DEF Jobs!CloseHosts
<1>2. PICK js : Jobs!Delete(js) /\ adrift' = adrift \cup (both \ js)
  BY DEF Jobs!CloseHosts
<1>3. ASSUME NEW k \in Jobs!Kind
      PROVE  /\ mine(k) \subseteq Jobs!Job /\ Safe(k) \subseteq mine(k)
             /\ Jobs!Members(jobRecord[k].jobs) \subseteq mine(k)
  <2>1. mine(k) \subseteq Jobs!Job
    BY JobsHeld, JobNames DEF JobsInv, JobsTypes, HostRecord, Own
  <2>2. Safe(k) \subseteq mine(k)
    <3>1. CASE jobHost[k].phase = "none"
      <4>1. jobHost[k] = Jobs!NoHost
        BY <3>1, JobNames DEF JobsInv, HostOK, AndroidOK, WorkloadOK
      <4>. QED
        BY <4>1, NoHostOK DEF Safe
    <3>. QED
      BY <1>1, <3>1 DEF Safe
  <2>3. Jobs!Members(jobRecord[k].jobs) \subseteq mine(k)
    <3>1. CASE jobRecord[k] = Jobs!NoRecord
      BY <3>1, JobNames DEF Jobs!NoRecord
    <3>2. CASE jobRecord[k] # Jobs!NoRecord
      <4>1. jobRecord[k] = Whole(k) /\ jobHost[k].phase = "up"
        BY <1>1, <3>2 DEF JobsInv, RecordFits
      <4>2. jobHost[k].jobs = jobRecord[k].jobs
        BY <4>1, JobNames DEF JobsInv, HostOK, AndroidOK, WorkloadOK, Whole
      <4>. QED
        BY <4>1, <4>2
    <3>. QED
      BY <3>1, <3>2
  <2>. QED
    BY <2>1, <2>2, <2>3
<1>4. /\ adrift' \subseteq Jobs!Job
      /\ Accounted \subseteq both \cup adrift
  <2> HIDE DEF mine
  <2>1. both \subseteq Jobs!Job
    BY <1>3, JobNames
  <2>2. Jobs!Recorded \subseteq both
    BY <1>3, JobNames DEF Jobs!Recorded
  <2>. QED
    BY <1>2, <1>3, <2>1, <2>2, JobNames DEF JobsInv, JobsTypes, Accounted
<1>5. Accounted \subseteq js \cup Jobs!Recorded' \cup adrift'
  <2> HIDE DEF both
  <2>. QED
    BY <1>2, <1>4
<1>6. /\ jobRecord' \in [Jobs!Kind -> {Jobs!NoRecord, Whole("android"), Whole("workload")}]
      /\ \A k \in Jobs!Kind : jobRecord'[k] = Jobs!NoRecord
  BY <1>1
<1>. QED
  BY <1>1, <1>2, <1>4, <1>5, <1>6, JobsLetGo

(* The process that takes over has again what the record names.             *)
LEMMA JobsAttach ==
  ASSUME JobsInv, Jobs!TakeOver \/ Jobs!AttachDone \/ \E k \in Jobs!Kind : Jobs!AttachHost(k)
  PROVE  JobsInv'
<1>1. CASE Jobs!TakeOver \/ Jobs!AttachDone
  <2>1. UNCHANGED <<job, secret, jobHost, jobRecord, adrift>>
    BY <1>1 DEF Jobs!TakeOver, Jobs!AttachDone
  <2>2. JobsTypes'
    BY <1>1, <2>1 DEF JobsInv, JobsTypes, Jobs!TakeOver, Jobs!AttachDone
  <2>3. SecretsKept'
    BY <2>1 DEF JobsInv, SecretsKept, Accounted, Safe, Jobs!Recorded
  <2>4. RecordFits'
    BY <1>1, <2>1 DEF JobsInv, RecordFits, Jobs!TakeOver, Jobs!AttachDone
  <2>. QED
    BY <2>1, <2>2, <2>3, <2>4 DEF JobsInv
<1>2. ASSUME NEW k \in Jobs!Kind, Jobs!AttachHost(k) PROVE JobsInv'
  <2> DEFINE h == [phase |-> "up", jobs |-> jobRecord[k].jobs, tokens |-> jobRecord[k].tokens,
                   up |-> Len(jobRecord[k].jobs)]
  <2>1. /\ process = "attaching" /\ jobRecord[k] = Whole(k) /\ jobHost[k] = Jobs!NoHost /\ Jobs!Set(k, h)
        /\ UNCHANGED <<job, secret, jobRecord, process, adrift>>
    BY <1>2 DEF Jobs!AttachHost, JobsInv, RecordFits
  <2>2. h = [phase |-> "up", jobs |-> Jobs!Jobs(k), tokens |-> Jobs!Jobs(k), up |-> Len(Jobs!Jobs(k))]
    BY <2>1 DEF Whole
  <2>3. Jobs!Jobs(k) \in Seq(Jobs!Job) /\ Len(Jobs!Jobs(k)) = IF k = "android" THEN 2 ELSE 1
    BY JobsInOrder
  <2> HIDE DEF h
  <2>4. h \in HostRecord /\ h.phase = "up" /\ HostOK(k, h, job')
    BY <2>2, <2>3, JobNames DEF HostRecord, HostOK, AndroidOK, WorkloadOK
  <2>5. /\ jobHost' \in [Jobs!Kind -> HostRecord] /\ jobHost'[k] = h
        /\ \A l \in Jobs!Kind : l # k => jobHost'[l] = jobHost[l]
    BY <2>1, <2>4, HostSet DEF JobsInv
  <2>6. JobsTypes'
    BY <2>1, <2>5 DEF JobsInv, JobsTypes
  <2>7. \A l \in Jobs!Kind : HostOK(l, jobHost'[l], job')
    BY <2>1, <2>4, <2>5 DEF JobsInv
  <2>8. Accounted \subseteq Accounted'
    <3>1. Safe(k) = {}
      BY <2>1, NoHostOK DEF Safe
    <3>2. ASSUME NEW l \in Jobs!Kind, l # k PROVE Safe(l)' = Safe(l)
      BY <2>5, <3>2 DEF Safe
    <3>3. Jobs!Recorded' = Jobs!Recorded
      BY <2>1 DEF Jobs!Recorded
    <3>. QED
      BY <2>1, <3>1, <3>2, <3>3, JobNames DEF Accounted
  <2>9. SecretsKept'
    BY <2>1, <2>8 DEF JobsInv, SecretsKept
  <2>10. RecordFits'
    BY <2>1, <2>4, <2>5 DEF JobsInv, RecordFits
  <2>. QED
    BY <2>6, <2>7, <2>9, <2>10 DEF JobsInv
<1>. QED
  BY <1>1, <1>2

(* Whatever the cluster or a process does next keeps all this.              *)
LEMMA JobsInvStep == JobsInv /\ [Jobs!Next]_jobVars => JobsInv'
<1> SUFFICES ASSUME JobsInv, [Jobs!Next]_jobVars PROVE JobsInv'
  OBVIOUS
<1>1. CASE UNCHANGED jobVars
  BY <1>1 DEF jobVars, JobsInv, JobsTypes, SecretsKept, RecordFits, Accounted, Safe, Jobs!Recorded
<1>2. CASE Jobs!Next
  BY <1>2, JobsCluster, JobsStart, JobsCreate, JobsSecret, JobsConnect, JobsStop, JobsRemember, JobsLeave,
     JobsClose, JobsAttach DEF Jobs!Next
<1>. QED
  BY <1>1, <1>2

(* It holds before the first Job ...                                        *)
LEMMA JobsInvFirst == Jobs!Init => JobsInv
<1> SUFFICES ASSUME Jobs!Init PROVE JobsInv
  OBVIOUS
<1>1. JobsTypes
  BY NoHostOK DEF Jobs!Init, JobsTypes
<1>2. \A k \in Jobs!Kind : HostOK(k, jobHost[k], job)
  BY NoHostOK DEF Jobs!Init
<1>3. SecretsKept /\ RecordFits
  BY DEF Jobs!Init, SecretsKept, RecordFits
<1>. QED
  BY <1>1, <1>2, <1>3 DEF JobsInv

(* ... and is what the run checks, and more.                               *)
LEMMA JobsInvMeans == JobsInv => Jobs!NoJobUnseen /\ Jobs!RecordAttachable /\ Jobs!TypeOK
<1> SUFFICES ASSUME JobsInv PROVE Jobs!NoJobUnseen /\ Jobs!RecordAttachable /\ Jobs!TypeOK
  OBVIOUS
<1>1. Jobs!NoJobUnseen
  <2>1. Safe("android") \cup Safe("workload") \subseteq Jobs!Held
    BY JobNames DEF Safe, Jobs!Held
  <2>. QED
    BY <2>1 DEF JobsInv, SecretsKept, Accounted, Jobs!NoJobUnseen
<1>2. Jobs!RecordAttachable
  BY JobNames DEF JobsInv, HostOK, AndroidOK, WorkloadOK, RecordFits, Jobs!RecordAttachable, Jobs!Paired,
     Whole, Jobs!NoRecord
<1>3. Jobs!TypeOK
  <2>1. ASSUME NEW k \in Jobs!Kind
        PROVE  /\ jobHost[k].phase \in {"none", "create", "secret", "connect", "up", "stop", "failed"}
               /\ jobHost[k].jobs \in Seq(Jobs!Job) /\ jobHost[k].tokens \in Seq(Jobs!Job)
    BY DEF JobsInv, JobsTypes, HostRecord
  <2>2. ASSUME NEW k \in Jobs!Kind PROVE jobHost[k].up \in 0..Len(jobHost[k].jobs)
    <3>1. HostOK(k, jobHost[k], job) /\ Len(jobHost[k].jobs) \in Nat
      BY <2>1 DEF JobsInv
    <3>. QED
      BY <2>1, <3>1, JobNames DEF HostOK, AndroidOK, WorkloadOK, Jobs!NoHost, Android, Workload
  <2>3. ASSUME NEW k \in Jobs!Kind
        PROVE  jobRecord[k].jobs \in Seq(Jobs!Job) /\ jobRecord[k].tokens \in Seq(Jobs!Job)
    <3>1. jobRecord[k] = Whole(k) \/ jobRecord[k] = Jobs!NoRecord
      BY DEF JobsInv, RecordFits
    <3>2. Whole(k).jobs = Jobs!Jobs(k) /\ Whole(k).tokens = Jobs!Jobs(k)
      BY DEF Whole
    <3>3. Jobs!NoRecord.jobs \in Seq(Jobs!Job) /\ Jobs!NoRecord.tokens \in Seq(Jobs!Job)
      BY DEF Jobs!NoRecord
    <3>. QED
      BY <3>1, <3>2, <3>3, JobsInOrder
  <2>. QED
    BY <2>1, <2>2, <2>3 DEF Jobs!TypeOK, JobsInv, JobsTypes
<1>. QED
  BY <1>1, <1>2, <1>3

(* The sandboxes of a session are in order from its start on, ...           *)
LEMMA SandboxesAlways == WSpec => []SandboxesInv
<1>1. WInit => SandboxesInv
  BY SandboxesInvFirst DEF WInit, HInit
<1>. QED
  BY <1>1, SandboxesStep, SandboxesInvStep, PTL DEF WSpec

(* ... and so are its Jobs.                                                 *)
LEMMA JobsAlways == WSpec => []JobsInv
<1>1. WInit => JobsInv
  BY JobsInvFirst DEF WInit, HInit
<1>. QED
  BY <1>1, JobsStep, JobsInvStep, PTL DEF WSpec

(* However start, close and the calls of a session interleave and fail, no  *)
(* sandbox and no Job of it runs that nobody accounts for, and the record   *)
(* gives each Job its own token (session.py 573-606, 653-685; eks.py        *)
(* 95-183): for any number of requests and sandboxes.                       *)
THEOREM AllIsAccountedFor == WSpec => []NothingRunsUnaccounted
<1>1. SandboxesInv /\ JobsInv => NothingRunsUnaccounted
  BY SandboxesInvMeans, JobsInvMeans DEF NothingRunsUnaccounted
<1>. QED
  BY <1>1, SandboxesAlways, JobsAlways, PTL

-----------------------------------------------------------------------------
(* Android hosts on EC2 *)

(* A step of the whole is one of the instances, or leaves them as they are. *)
LEMMA InstancesStep == [WNext]_<<focus, vars, hostVars, workVars>> => [Instances!Next]_instanceVars
  BY DEF WNext, HNext, Work, hostVars, instanceVars

-----------------------------------------------------------------------------
(* Where a session that has found its instance can be. *)
Reaching == {"reach", "bind", "asked", "boot", "up"}
Starting == Reaching \cup {"launch", "forward"}

InstancesTypes ==
    /\ inst \in [Instances!Instance -> {"none", "running", "terminated"}]
    /\ bound \in [Instances!Instance -> Session \cup {Free}]
    /\ claim \in [Session -> Starting \cup {"scan", "tag", "verify", "fetch", "idle", "stop", "stopped"}]
    /\ offered \in [Session -> SUBSET Pool]
    /\ at \in [Session -> Instances!Instance \cup {Free}]
    /\ claimed \in [Session -> Instances!Instance \cup {Free}]
    /\ tunnel \subseteq Session /\ token \subseteq Session /\ undeleted \subseteq Session
    /\ fromPool \subseteq Session /\ reaped \subseteq Instances!Instance
    /\ rivals \in [Instances!Instance -> SUBSET Session]

(* A session that is about to claim an instance has seen it ready, and so   *)
(* has one that holds an instance of the pool.                             *)
SeenReady ==
    \A s \in Session :
        /\ claim[s] \in {"tag", "verify", "fetch"} => at[s] \in Pool /\ s \in rivals[at[s]]
        /\ claimed[s] \in Pool => s \in rivals[claimed[s]] /\ s \in fromPool

(* Whom the agent of an instance serves: the session that launched it, or   *)
(* the first that bound it.                                                *)
BoundFor ==
    \A s \in Session :
        /\ claim[s] \in Reaching \cup {"forward"} => claimed[s] \in Instances!Instance
        /\ claimed[s] \in Spare => bound[claimed[s]] = s /\ inst[claimed[s]] # "none"
        /\ claim[s] \in {"boot", "up"} => bound[claimed[s]] = s

(* Another session has seen the instance of s ready, too.                   *)
Rivalled(s) == \E t \in Session : t # s /\ {s, t} \subseteq rivals[claimed[s]]

(* A host is cut off or terminated only by a rival or for its age.          *)
Connected ==
    \A s \in Session :
        claim[s] \in Reaching =>
            \/ (inst[claimed[s]] = "running" \/ claimed[s] \in reaped) /\ s \in tunnel
            \/ Rivalled(s)

InstancesInv == InstancesTypes /\ SeenReady /\ BoundFor /\ Connected /\ Instances!NothingLeft

(* Whatever a session, the pool or the reaper does next keeps all this.      *)
LEMMA InstancesInvStep == InstancesInv /\ [Instances!Next]_instanceVars => InstancesInv'
<1> SUFFICES ASSUME InstancesInv, [Instances!Next]_instanceVars PROVE InstancesInv'
  OBVIOUS
<1>0. /\ Free \notin Session /\ Pool \cap Spare = {} /\ Free \notin Pool /\ Free \notin Spare
      /\ Instances!Instance = Pool \cup Spare
  BY SessionHostsAssumption DEF Instances!WarmPoolAssumption, Instances!Instance
<1> USE <1>0 DEF InstancesInv, InstancesTypes, SeenReady, BoundFor, Rivalled, Connected, Starting, Reaching,
        Instances!NothingLeft, Instances!Goes, Instances!cloud, Instances!history
<1>1. ASSUME NEW s \in Session, Instances!Describe(s) PROVE InstancesInv'
  BY <1>1 DEF Instances!Describe
<1>2. ASSUME NEW s \in Session, Instances!Recheck(s) PROVE InstancesInv'
  BY <1>2 DEF Instances!Recheck, Instances!StillReady
<1>3. ASSUME NEW s \in Session, Instances!NextCandidate(s) PROVE InstancesInv'
  BY <1>3 DEF Instances!NextCandidate, Instances!Claiming
<1>4. ASSUME NEW s \in Session, Instances!CreateTags(s) PROVE InstancesInv'
  BY <1>4 DEF Instances!CreateTags
<1>5. ASSUME NEW s \in Session, Instances!Verify(s) PROVE InstancesInv'
  BY <1>5 DEF Instances!Verify
<1>6. ASSUME NEW s \in Session, Instances!FetchToken(s) PROVE InstancesInv'
  BY <1>6 DEF Instances!FetchToken
<1>7. ASSUME NEW s \in Session, Instances!PublishToken(s) PROVE InstancesInv'
  BY <1>7 DEF Instances!PublishToken
<1>8. ASSUME NEW s \in Session, Instances!RunInstances(s) PROVE InstancesInv'
  BY <1>8 DEF Instances!RunInstances
<1>9. ASSUME NEW s \in Session, Instances!StartPortForward(s) PROVE InstancesInv'
  BY <1>9 DEF Instances!StartPortForward
<1>10. ASSUME NEW s \in Session, Instances!Reach(s) PROVE InstancesInv'
  BY <1>10 DEF Instances!Reach, Instances!Answers, Instances!LetIn
<1>11. ASSUME NEW s \in Session, Instances!AskBind(s) PROVE InstancesInv'
  BY <1>11 DEF Instances!AskBind, Instances!Answers, Instances!LetIn
<1>12. ASSUME NEW s \in Session, Instances!Bind(s) PROVE InstancesInv'
  BY <1>12 DEF Instances!Bind, Instances!Bindable
<1>13. ASSUME NEW s \in Session, Instances!Boot(s) PROVE InstancesInv'
  BY <1>13 DEF Instances!Boot, Instances!DeleteToken, Instances!Answers, Instances!LetIn
<1>14. ASSUME NEW s \in Session, Instances!StartFails(s) PROVE InstancesInv'
  BY <1>14 DEF Instances!StartFails
<1>15. ASSUME NEW s \in Session, Instances!CloseSession(s) PROVE InstancesInv'
  BY <1>15 DEF Instances!CloseSession
<1>16. ASSUME NEW s \in Session, Instances!Stop(s) PROVE InstancesInv'
  BY <1>16 DEF Instances!Stop, Instances!CutTunnels, Instances!DeleteToken
<1>17. ASSUME NEW j \in Pool, Instances!LaunchPool(j) PROVE InstancesInv'
  BY <1>17 DEF Instances!LaunchPool
<1>18. ASSUME NEW j \in Pool, Instances!PutPoolToken(j) PROVE InstancesInv'
  BY <1>18 DEF Instances!PutPoolToken
<1>19. ASSUME NEW j \in Instances!Instance, Instances!Reap(j) PROVE InstancesInv'
  BY <1>19 DEF Instances!Reap
<1>20. CASE UNCHANGED instanceVars
  BY <1>20 DEF instanceVars
<1>. QED
  BY <1>1, <1>2, <1>3, <1>4, <1>5, <1>6, <1>7, <1>8, <1>9, <1>10, <1>11, <1>12,
     <1>13, <1>14, <1>15, <1>16, <1>17, <1>18, <1>19, <1>20
  DEF Instances!Next, Instances!Step

(* Finitely many have seen an instance ready.                               *)
FewRivals ==
    /\ rivals \in [Instances!Instance -> SUBSET Session]
    /\ \A i \in Instances!Instance : IsFiniteSet(rivals[i])

LEMMA FewRivalsStep == FewRivals /\ [Instances!Next]_instanceVars => FewRivals'
<1> SUFFICES ASSUME FewRivals, [Instances!Next]_instanceVars, rivals' # rivals PROVE FewRivals'
  BY DEF FewRivals
<1>1. PICK s \in Session : Instances!Recheck(s)
  BY DEF Instances!Next, Instances!Step, Instances!Describe, Instances!NextCandidate,
     Instances!CreateTags, Instances!Verify, Instances!FetchToken, Instances!PublishToken,
     Instances!RunInstances, Instances!StartPortForward, Instances!Reach, Instances!AskBind,
     Instances!Bind, Instances!Boot, Instances!StartFails, Instances!CloseSession, Instances!Stop,
     Instances!LaunchPool, Instances!PutPoolToken, Instances!Reap, Instances!history, instanceVars
<1>2. PICK i \in offered[s] : rivals' = [rivals EXCEPT ![i] = rivals[i] \cup {s}]
  BY <1>1 DEF Instances!Recheck
<1>3. ASSUME NEW j \in Instances!Instance PROVE IsFiniteSet(rivals'[j])
  BY <1>2, FS_AddElement DEF FewRivals
<1>. QED
  BY <1>2, <1>3 DEF FewRivals

LEMMA InstancesCardinality == \A S : Instances!Cardinality(S) = Cardinality(S)
  BY DEF Instances!Cardinality, Cardinality

(* Two that have seen an instance ready are more than one.                  *)
LEMMA TwoRivals ==
  ASSUME FewRivals, NEW s \in Session, claimed[s] \in Instances!Instance, Rivalled(s)
  PROVE  Cardinality(rivals[claimed[s]]) > 1
<1>1. PICK t \in Session : t # s /\ {s, t} \subseteq rivals[claimed[s]]
  BY DEF Rivalled
<1>2. IsFiniteSet(rivals[claimed[s]])
  BY DEF FewRivals
<1>3. IsFiniteSet({s}) /\ Cardinality({s}) = 1
  BY FS_Singleton
<1>4. Cardinality({s, t}) = 2
  <2>1. {s, t} = {s} \cup {t} /\ t \notin {s}
    BY <1>1
  <2>2. Cardinality({s} \cup {t}) = IF t \in {s} THEN Cardinality({s}) ELSE Cardinality({s}) + 1
    BY ONLY <1>3, FS_AddElement
  <2>3. Cardinality({s} \cup {t}) = 2
    BY ONLY <1>3, <2>1, <2>2
  <2>. QED
    BY <2>1, <2>3
<1>5. Cardinality({s, t}) <= Cardinality(rivals[claimed[s]])
  BY <1>1, <1>2, FS_Subset
<1>6. Cardinality(rivals[claimed[s]]) \in Nat
  BY <1>2, FS_CardinalityType
<1>. QED
  BY <1>4, <1>5, <1>6

(* The hosts of the pool are bound and reached in order, always.            *)
LEMMA InstancesAlways == WSpec => [](InstancesInv /\ FewRivals)
<1>1. WInit => InstancesInv /\ FewRivals
  <2> SUFFICES ASSUME WInit PROVE InstancesInv /\ FewRivals
    OBVIOUS
  <2>1. Instances!Init
    BY DEF WInit, HInit
  <2>2. Free \notin Pool /\ Free \notin Spare /\ Instances!Instance = Pool \cup Spare
    BY SessionHostsAssumption DEF Instances!WarmPoolAssumption, Instances!Instance
  <2>3. InstancesInv
    BY <2>1, <2>2 DEF Instances!Init, InstancesInv, InstancesTypes, SeenReady, BoundFor, Connected,
       Starting, Reaching, Instances!NothingLeft
  <2>4. FewRivals
    <3>1. rivals = [i \in Instances!Instance |-> {}]
      BY <2>1 DEF Instances!Init
    <3>2. IsFiniteSet({})
      BY FS_EmptySet
    <3>. QED
      BY <3>1, <3>2 DEF FewRivals
  <2>. QED
    BY <2>3, <2>4
<1>. QED
  BY <1>1, InstancesStep, InstancesInvStep, FewRivalsStep, PTL DEF WSpec

(* Two sessions are never on one Android host (device_agent/app.py 295,     *)
(* bind), a host in use is cut off only by a rival for the same claim or   *)
(* for its age, and no token is left behind (android.py 386-513): for any   *)
(* number of sessions and instances and however their claims interleave.   *)
THEOREM HostsAreOwn == WSpec => []HostOfItsOwn
<1>1. InstancesInv /\ FewRivals => HostOfItsOwn
  <2> SUFFICES ASSUME InstancesInv, FewRivals PROVE HostOfItsOwn
    OBVIOUS
  <2>1. Instances!ExclusiveHost
    BY DEF Instances!ExclusiveHost, InstancesInv, BoundFor
  <2>2. ASSUME NEW s \in Session, claim[s] = "up"
        PROVE  \/ (inst[claimed[s]] = "running" \/ claimed[s] \in reaped) /\ s \in tunnel
               \/ Cardinality(rivals[claimed[s]]) > 1
    BY <2>2, TwoRivals DEF InstancesInv, Connected, BoundFor, Reaching
  <2>3. Instances!CutOffOnlyInTheWindow
    BY <2>2, InstancesCardinality DEF Instances!CutOffOnlyInTheWindow
  <2>4. Instances!NothingLeft
    BY DEF InstancesInv
  <2>. QED
    BY <2>1, <2>3, <2>4 DEF HostOfItsOwn
<1>. QED
  BY <1>1, InstancesAlways, PTL
=============================================================================
