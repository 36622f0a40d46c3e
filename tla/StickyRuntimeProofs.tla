------------------------- MODULE StickyRuntimeProofs -------------------------
(***************************************************************************)
(* Proofs about StickyRuntime, for any number of processes, sessions, Pods *)
(* and calls, and whatever goes wrong.                                     *)
(***************************************************************************)
EXTENDS StickyRuntime, TLAPS

(* A session leaves the manager of one process.                            *)
LEMMA Dropped ==
  ASSUME TypeOK, NEW p \in Proc, NEW s \in Sid, Drop(p, s)
  PROVE  /\ known' \in [Proc -> SUBSET Sid]
         /\ host' \in [Proc -> [Sid -> Pod \cup {NoPod}]]
         /\ \A q \in Proc : known'[q] \subseteq known[q]
         /\ \A q \in Proc : \A t \in Sid :
              host'[q][t] = IF q = p /\ t = s THEN NoPod ELSE host[q][t]
BY DEF TypeOK, Drop

(* The record a process writes.                                            *)
LEMMA EntryType ==
  ASSUME TypeOK, NEW p \in Proc, sid[p] \in Sid
  PROVE  /\ Entry(p) \in Record
         /\ Entry(p).sid = sid[p] /\ Entry(p).pod = host[p][sid[p]]
BY DEF TypeOK, Entry, Record

(* Every variable keeps its type: here the shape of a call is needed.      *)
LEMMA KeepsTypes == TypeOK /\ Shape /\ [Next]_vars => TypeOK'
<1> SUFFICES ASSUME TypeOK, Shape, [Next]_vars PROVE TypeOK'
  OBVIOUS
<1> USE StickyAssumption DEF TypeOK, Action, Pc, Shape, cloud, table, memory, call, Goto
<1>1. ASSUME NEW p \in Proc, TakeLease(p) PROVE TypeOK'
  BY <1>1 DEF TakeLease
<1>2. ASSUME NEW p \in Proc, CloseNothing(p) PROVE TypeOK'
  BY <1>2 DEF CloseNothing
<1>3. ASSUME NEW p \in Proc, UseCached(p) PROVE TypeOK'
  BY <1>3 DEF UseCached, CacheHolds
<1>4. ASSUME NEW p \in Proc, FollowRecord(p) PROVE TypeOK'
  <2>1. CASE cache[p] # NoSid /\ cache[p] # view[p].sid
    <3>1. cache[p] \in Sid /\ Drop(p, cache[p])
      BY <1>4, <2>1 DEF FollowRecord
    <3>. QED
      BY <1>4, <3>1, Dropped DEF FollowRecord, Forget
  <2>2. CASE ~(cache[p] # NoSid /\ cache[p] # view[p].sid)
    BY <1>4, <2>2 DEF FollowRecord, Forget
  <2>. QED
    BY <2>1, <2>2
<1>5. ASSUME NEW p \in Proc, Attach(p) PROVE TypeOK'
  <2>1. view[p] \in Record
    BY <1>5 DEF Attach
  <2>. QED
    BY <1>5, <2>1 DEF Attach, Record
<1>6. ASSUME NEW p \in Proc, AttachFails(p) PROVE TypeOK'
  <2>1. view[p] \in Record
    BY <1>6 DEF AttachFails
  <2>2. abandoned' \in SUBSET Sid
    BY <1>6, <2>1 DEF AttachFails, Record
  <2>. QED
    BY <1>6, <2>2 DEF AttachFails
<1>7. ASSUME NEW p \in Proc, RememberAttached(p) PROVE TypeOK'
  <2>1. Entry(p) \in Record
    BY <1>7, EntryType DEF RememberAttached
  <2>2. record' \in Record \cup {NoRecord}
    BY <1>7, <2>1 DEF RememberAttached, Written, NotWritten
  <2>3. pc' \in [Proc -> Pc]
    BY <1>7 DEF RememberAttached
  <2>4. UNCHANGED cache \/ Forget(p)
    BY <1>7 DEF RememberAttached
  <2>5. cache' \in [Proc -> Sid \cup {NoSid}]
    BY <2>4 DEF Forget
  <2>6. abandoned' \in SUBSET Sid
    BY <1>7 DEF RememberAttached
  <2>. QED
    BY <1>7, <2>2, <2>3, <2>5, <2>6 DEF RememberAttached
<1>8. ASSUME NEW p \in Proc, DropRecord(p) PROVE TypeOK'
  BY <1>8 DEF DropRecord, Written, NotWritten, Owns
<1>9. ASSUME NEW p \in Proc, Create(p) PROVE TypeOK'
  BY <1>9 DEF Create
<1>9a. ASSUME NEW p \in Proc, CreateFails(p) PROVE TypeOK'
  BY <1>9a DEF CreateFails
<1>10. ASSUME NEW p \in Proc, RememberCreated(p) PROVE TypeOK'
  <2>1. sid[p] \in Sid /\ Entry(p) \in Record
    BY <1>10, EntryType DEF RememberCreated, StopOrAbandon
  <2>2. record' \in Record \cup {NoRecord}
    BY <1>10, <2>1 DEF RememberCreated, StopOrAbandon, Written, NotWritten
  <2>3. Goto(p, "act") \/ Goto(p, "release")
    BY <1>10 DEF RememberCreated, StopOrAbandon
  <2>4. pc' \in [Proc -> Pc]
    BY <2>3
  <2>5. cache' \in [Proc -> Sid \cup {NoSid}]
    BY <1>10 DEF RememberCreated, StopOrAbandon, Forget, memory
  <2>6. CASE UNCHANGED <<sandbox, memory>>
    BY <1>10, <2>2, <2>4, <2>5, <2>6 DEF RememberCreated, StopOrAbandon
  <2>7. CASE Drop(p, sid[p]) /\ StopOrAbandon(sid[p])
    <3>1. sandbox' \in [Sid -> {"none", "ready", "stopped"}] /\ abandoned' \in SUBSET Sid
      BY <2>1, <2>7 DEF StopOrAbandon
    <3>. QED
      BY <1>10, <2>1, <2>2, <2>4, <2>5, <2>7, <3>1, Dropped DEF RememberCreated
  <2>. QED
    BY <1>10, <2>6, <2>7 DEF RememberCreated, StopOrAbandon
<1>11. ASSUME NEW p \in Proc, Exec(p) PROVE TypeOK'
  BY <1>11 DEF Exec, Owns
<1>12. ASSUME NEW p \in Proc, Raise(p) PROVE TypeOK'
  BY <1>12 DEF Raise
<1>13. ASSUME NEW p \in Proc, KeepWorkload(p) PROVE TypeOK'
  BY <1>13 DEF KeepWorkload
<1>14. ASSUME NEW p \in Proc, StartWorkload(p) PROVE TypeOK'
  BY <1>14 DEF StartWorkload
<1>15. ASSUME NEW p \in Proc, Remember(p) PROVE TypeOK'
  <2>1. Entry(p) \in Record
    BY <1>15, EntryType DEF Remember
  <2>2. record' \in Record \cup {NoRecord}
    BY <1>15, <2>1 DEF Remember, Written, NotWritten
  <2>3. pc' \in [Proc -> Pc]
    BY <1>15 DEF Remember
  <2>4. UNCHANGED cache \/ Forget(p)
    BY <1>15 DEF Remember
  <2>5. cache' \in [Proc -> Sid \cup {NoSid}]
    BY <2>4 DEF Forget
  <2>. QED
    BY <1>15, <2>2, <2>3, <2>5 DEF Remember
<1>16. ASSUME NEW p \in Proc, Close(p) PROVE TypeOK'
  <2>1. sid[p] \in Sid /\ Drop(p, sid[p])
    BY <1>16 DEF Close
  <2>2. pod' \in [Pod -> {"none", "running", "stopped"}]
    BY <1>16, <2>1 DEF Close
  <2>3. cache' \in [Proc -> Sid \cup {NoSid}]
    BY <1>16, <2>1 DEF Close, Forget
  <2>4. pc' \in [Proc -> Pc]
    BY <1>16 DEF Close
  <2>5. sandbox' \in [Sid -> {"none", "ready", "stopped"}]
    <3>1. sandbox' \in {sandbox, [sandbox EXCEPT ![sid[p]] = "stopped"]}
      BY <1>16 DEF Close
    <3>. QED
      BY <2>1, <3>1
  <2>. QED
    BY <1>16, <2>1, <2>2, <2>3, <2>4, <2>5, Dropped DEF Close
<1>17. ASSUME NEW p \in Proc, DeleteRecord(p) PROVE TypeOK'
  BY <1>17 DEF DeleteRecord, Written, NotWritten, Owns
<1>18. ASSUME NEW p \in Proc, Release(p) PROVE TypeOK'
  BY <1>18 DEF Release, Owns
<1>19. ASSUME NEW p \in Proc, Busy(p) PROVE TypeOK'
  BY <1>19 DEF Busy
<1>20. ASSUME NEW p \in Proc, Replace(p) PROVE TypeOK'
  BY <1>20 DEF Replace, Forget
<1>21. ASSUME NEW p \in Proc, NEW a \in Action, StartCall(p, a) PROVE TypeOK'
  BY <1>21 DEF StartCall
<1>22. ASSUME NEW j \in Pod, PodEnds(j) PROVE TypeOK'
  BY <1>22 DEF PodEnds
<1>23. ASSUME NEW s \in Sid, SandboxEnds(s) PROVE TypeOK'
  BY <1>23 DEF SandboxEnds
<1>24. CASE UNCHANGED vars
  BY <1>24 DEF vars
<1>. QED
  BY <1>1, <1>2, <1>3, <1>4, <1>5, <1>6, <1>7, <1>8, <1>9, <1>9a, <1>10, <1>11, <1>12,
     <1>13, <1>14, <1>15, <1>16, <1>17, <1>18, <1>19, <1>20, <1>21, <1>22, <1>23, <1>24
  DEF Next, Step

(* Each step of a call finds the session the step before it left.          *)
LEMMA KeepsShape == TypeOK /\ TypeOK' /\ Shape /\ [Next]_vars => Shape'
<1> SUFFICES ASSUME TypeOK, TypeOK', Shape, [Next]_vars PROVE Shape'
  OBVIOUS
<1> USE StickyAssumption
      DEF TypeOK, Action, Record, NoRecord, Pc, Shape, cloud, table, memory, call, Goto
<1>1. ASSUME NEW p \in Proc, TakeLease(p) PROVE Shape'
  BY <1>1 DEF TakeLease
<1>2. ASSUME NEW p \in Proc, CloseNothing(p) PROVE Shape'
  BY <1>2 DEF CloseNothing
<1>3. ASSUME NEW p \in Proc, UseCached(p) PROVE Shape'
  BY <1>3 DEF UseCached, CacheHolds
<1>4. ASSUME NEW p \in Proc, FollowRecord(p) PROVE Shape'
  BY <1>4 DEF FollowRecord, Forget, CacheHolds, Drop
<1>5. ASSUME NEW p \in Proc, Attach(p) PROVE Shape'
  BY <1>5 DEF Attach
<1>6. ASSUME NEW p \in Proc, AttachFails(p) PROVE Shape'
  BY <1>6 DEF AttachFails, Attachable
<1>7. ASSUME NEW p \in Proc, RememberAttached(p) PROVE Shape'
  BY <1>7 DEF RememberAttached, Forget, Written, NotWritten, Entry, Owns
<1>8. ASSUME NEW p \in Proc, DropRecord(p) PROVE Shape'
  BY <1>8 DEF DropRecord, Written, NotWritten, Owns
<1>9. ASSUME NEW p \in Proc, Create(p) PROVE Shape'
  BY <1>9 DEF Create
<1>9a. ASSUME NEW p \in Proc, CreateFails(p) PROVE Shape'
  BY <1>9a DEF CreateFails
<1>10. ASSUME NEW p \in Proc, RememberCreated(p) PROVE Shape'
  BY <1>10 DEF RememberCreated, StopOrAbandon, Forget, Written, NotWritten, Entry, Drop, Owns
<1>11. ASSUME NEW p \in Proc, Exec(p) PROVE Shape'
  BY <1>11 DEF Exec, Owns
<1>12. ASSUME NEW p \in Proc, Raise(p) PROVE Shape'
  BY <1>12 DEF Raise
<1>13. ASSUME NEW p \in Proc, KeepWorkload(p) PROVE Shape'
  BY <1>13 DEF KeepWorkload
<1>14. ASSUME NEW p \in Proc, StartWorkload(p) PROVE Shape'
  BY <1>14 DEF StartWorkload
<1>15. ASSUME NEW p \in Proc, Remember(p) PROVE Shape'
  BY <1>15 DEF Remember, Forget, Written, NotWritten, Entry, Owns
<1>16. ASSUME NEW p \in Proc, Close(p) PROVE Shape'
  BY <1>16 DEF Close, Forget, Drop
<1>17. ASSUME NEW p \in Proc, DeleteRecord(p) PROVE Shape'
  BY <1>17 DEF DeleteRecord, Written, NotWritten, Owns
<1>18. ASSUME NEW p \in Proc, Release(p) PROVE Shape'
  BY <1>18 DEF Release, Owns
<1>19. ASSUME NEW p \in Proc, Busy(p) PROVE Shape'
  BY <1>19 DEF Busy
<1>20. ASSUME NEW p \in Proc, Replace(p) PROVE Shape'
  BY <1>20 DEF Replace, Forget
<1>21. ASSUME NEW p \in Proc, NEW a \in Action, StartCall(p, a) PROVE Shape'
  BY <1>21 DEF StartCall
<1>22. ASSUME NEW j \in Pod, PodEnds(j) PROVE Shape'
  BY <1>22 DEF PodEnds
<1>23. ASSUME NEW s \in Sid, SandboxEnds(s) PROVE Shape'
  BY <1>23 DEF SandboxEnds
<1>24. CASE UNCHANGED vars
  BY <1>24 DEF vars
<1>. QED
  BY <1>1, <1>2, <1>3, <1>4, <1>5, <1>6, <1>7, <1>8, <1>9, <1>9a, <1>10, <1>11, <1>12,
     <1>13, <1>14, <1>15, <1>16, <1>17, <1>18, <1>19, <1>20, <1>21, <1>22, <1>23, <1>24
  DEF Next, Step

(* Every variable keeps its type.                                          *)
THEOREM TypeCorrect == Spec => []TypeOK
<1>1. Init => TypeOK /\ Shape
  BY StickyAssumption DEF Init, TypeOK, Shape, Action, Record, NoRecord, Pc
<1>2. TypeOK /\ Shape /\ [Next]_vars => (TypeOK /\ Shape)'
  BY KeepsTypes, KeepsShape
<1>. QED
  BY <1>1, <1>2, PTL DEF Spec

-----------------------------------------------------------------------------
(* The other parts of the inductive invariant, one lemma for each.         *)
LEMMA KeepsPods ==
  TypeOK /\ TypeOK' /\ Shape /\ PodsOfTheirSessions /\ [Next]_vars => PodsOfTheirSessions'
<1> SUFFICES ASSUME TypeOK, TypeOK', Shape, PodsOfTheirSessions, [Next]_vars
             PROVE PodsOfTheirSessions'
  OBVIOUS
<1> USE StickyAssumption DEF TypeOK, Action, Record, NoRecord, Pc, Shape,
      PodsOfTheirSessions, PodOf, cloud, table, memory, call, Goto
<1>1. ASSUME NEW p \in Proc, TakeLease(p) PROVE PodsOfTheirSessions'
  BY <1>1 DEF TakeLease
<1>2. ASSUME NEW p \in Proc, CloseNothing(p) PROVE PodsOfTheirSessions'
  BY <1>2 DEF CloseNothing
<1>3. ASSUME NEW p \in Proc, UseCached(p) PROVE PodsOfTheirSessions'
  BY <1>3 DEF UseCached, CacheHolds
<1>4. ASSUME NEW p \in Proc, FollowRecord(p) PROVE PodsOfTheirSessions'
  <2>1. CASE cache[p] # NoSid /\ cache[p] # view[p].sid
    <3>1. cache[p] \in Sid /\ Drop(p, cache[p])
      BY <1>4, <2>1 DEF FollowRecord
    <3>. QED
      BY <1>4, <3>1, Dropped DEF FollowRecord
  <2>2. CASE ~(cache[p] # NoSid /\ cache[p] # view[p].sid)
    BY <1>4, <2>2 DEF FollowRecord
  <2>. QED
    BY <2>1, <2>2
<1>5. ASSUME NEW p \in Proc, Attach(p) PROVE PodsOfTheirSessions'
  BY <1>5 DEF Attach
<1>6. ASSUME NEW p \in Proc, AttachFails(p) PROVE PodsOfTheirSessions'
  BY <1>6 DEF AttachFails, Attachable
<1>7. ASSUME NEW p \in Proc, RememberAttached(p) PROVE PodsOfTheirSessions'
  BY <1>7 DEF RememberAttached, Forget, Written, NotWritten, Entry, Owns
<1>8. ASSUME NEW p \in Proc, DropRecord(p) PROVE PodsOfTheirSessions'
  BY <1>8 DEF DropRecord, Written, NotWritten, Owns
<1>9. ASSUME NEW p \in Proc, Create(p) PROVE PodsOfTheirSessions'
  BY <1>9 DEF Create
<1>9a. ASSUME NEW p \in Proc, CreateFails(p) PROVE PodsOfTheirSessions'
  BY <1>9a DEF CreateFails
<1>10. ASSUME NEW p \in Proc, RememberCreated(p) PROVE PodsOfTheirSessions'
  <2>1. sid[p] \in Sid /\ UNCHANGED <<pod, session, view>>
    BY <1>10 DEF RememberCreated
  <2>2. \A q \in Proc : \A s \in Sid : host'[q][s] \in {host[q][s], NoPod}
    BY <1>10, <2>1, Dropped DEF RememberCreated
  <2>3. record' \in {record, Entry(p)}
    BY <1>10 DEF RememberCreated, Written, NotWritten
  <2>. QED
    BY <2>1, <2>2, <2>3 DEF Entry
<1>11. ASSUME NEW p \in Proc, Exec(p) PROVE PodsOfTheirSessions'
  BY <1>11 DEF Exec, Owns
<1>12. ASSUME NEW p \in Proc, Raise(p) PROVE PodsOfTheirSessions'
  BY <1>12 DEF Raise
<1>13. ASSUME NEW p \in Proc, KeepWorkload(p) PROVE PodsOfTheirSessions'
  BY <1>13 DEF KeepWorkload
<1>14. ASSUME NEW p \in Proc, StartWorkload(p) PROVE PodsOfTheirSessions'
  BY <1>14 DEF StartWorkload
<1>15. ASSUME NEW p \in Proc, Remember(p) PROVE PodsOfTheirSessions'
  BY <1>15 DEF Remember, Forget, Written, NotWritten, Entry, Owns
<1>16. ASSUME NEW p \in Proc, Close(p) PROVE PodsOfTheirSessions'
  BY <1>16 DEF Close, Forget, Drop
<1>17. ASSUME NEW p \in Proc, DeleteRecord(p) PROVE PodsOfTheirSessions'
  BY <1>17 DEF DeleteRecord, Written, NotWritten, Owns
<1>18. ASSUME NEW p \in Proc, Release(p) PROVE PodsOfTheirSessions'
  BY <1>18 DEF Release, Owns
<1>19. ASSUME NEW p \in Proc, Busy(p) PROVE PodsOfTheirSessions'
  BY <1>19 DEF Busy
<1>20. ASSUME NEW p \in Proc, Replace(p) PROVE PodsOfTheirSessions'
  BY <1>20 DEF Replace, Forget
<1>21. ASSUME NEW p \in Proc, NEW a \in Action, StartCall(p, a) PROVE PodsOfTheirSessions'
  BY <1>21 DEF StartCall
<1>22. ASSUME NEW j \in Pod, PodEnds(j) PROVE PodsOfTheirSessions'
  BY <1>22 DEF PodEnds
<1>23. ASSUME NEW s \in Sid, SandboxEnds(s) PROVE PodsOfTheirSessions'
  BY <1>23 DEF SandboxEnds
<1>24. CASE UNCHANGED vars
  BY <1>24 DEF vars
<1>. QED
  BY <1>1, <1>2, <1>3, <1>4, <1>5, <1>6, <1>7, <1>8, <1>9, <1>9a, <1>10, <1>11, <1>12,
     <1>13, <1>14, <1>15, <1>16, <1>17, <1>18, <1>19, <1>20, <1>21, <1>22, <1>23, <1>24
  DEF Next, Step

(* A new session stays unknown to everybody until its call records it.     *)
LEMMA KeepsFresh ==
  TypeOK /\ TypeOK' /\ Shape /\ Fresh /\ [Next]_vars => Fresh'
<1> SUFFICES ASSUME TypeOK, TypeOK', Shape, Fresh, [Next]_vars PROVE Fresh'
  OBVIOUS
<1> USE StickyAssumption DEF TypeOK, Action, Record, NoRecord, Pc, Shape,
      Fresh, NamedBeside, cloud, table, memory, call, Goto
<1>1. ASSUME NEW p \in Proc, TakeLease(p) PROVE Fresh'
  BY <1>1 DEF TakeLease
<1>2. ASSUME NEW p \in Proc, CloseNothing(p) PROVE Fresh'
  BY <1>2 DEF CloseNothing
<1>3. ASSUME NEW p \in Proc, UseCached(p) PROVE Fresh'
  BY <1>3 DEF UseCached, CacheHolds
<1>4. ASSUME NEW p \in Proc, FollowRecord(p) PROVE Fresh'
  BY <1>4 DEF FollowRecord, Forget, CacheHolds, Drop
<1>5. ASSUME NEW p \in Proc, Attach(p) PROVE Fresh'
  BY <1>5 DEF Attach
<1>6. ASSUME NEW p \in Proc, AttachFails(p) PROVE Fresh'
  BY <1>6 DEF AttachFails, Attachable
<1>7. ASSUME NEW p \in Proc, RememberAttached(p) PROVE Fresh'
  BY <1>7 DEF RememberAttached, Forget, Written, NotWritten, Entry, Owns
<1>8. ASSUME NEW p \in Proc, DropRecord(p) PROVE Fresh'
  BY <1>8 DEF DropRecord, Written, NotWritten, Owns
<1>9. ASSUME NEW p \in Proc, Create(p) PROVE Fresh'
  BY <1>9 DEF Create
<1>9a. ASSUME NEW p \in Proc, CreateFails(p) PROVE Fresh'
  BY <1>9a DEF CreateFails
<1>10. ASSUME NEW p \in Proc, RememberCreated(p) PROVE Fresh'
  <2>1. sid[p] \in Sid /\ ~NamedBeside(sid[p], p)
    BY <1>10 DEF RememberCreated, StopOrAbandon
  <2>2. CASE Written(p, Entry(p)) /\ Goto(p, "act") /\ UNCHANGED <<sandbox, memory>>
    BY <1>10, <2>1, <2>2 DEF RememberCreated, StopOrAbandon, Written, Entry
  <2>3. CASE /\ Drop(p, sid[p]) /\ Forget(p) /\ Goto(p, "release")
             /\ StopOrAbandon(sid[p])
    <3>1. sandbox[sid[p]] # "none"
      BY <2>1, <1>10 DEF RememberCreated
    <3>2. \A s \in Sid : sandbox'[s] = "none" => sandbox[s] = "none"
      BY <2>1, <2>3, <3>1 DEF StopOrAbandon
    <3>3. \A q \in Proc : cache'[q] \in {cache[q], NoSid}
      BY <2>3 DEF Forget
    <3>4. \A q \in Proc : pc'[q] = "created" => pc[q] = "created" /\ q # p
      BY <2>3
    <3>. QED
      BY <1>10, <2>1, <2>3, <3>1, <3>2, <3>3, <3>4, Dropped
      DEF RememberCreated, Written, NotWritten, Entry
  <2>. QED
    BY <1>10, <2>2, <2>3 DEF RememberCreated, StopOrAbandon
<1>11. ASSUME NEW p \in Proc, Exec(p) PROVE Fresh'
  BY <1>11 DEF Exec, Owns
<1>12. ASSUME NEW p \in Proc, Raise(p) PROVE Fresh'
  BY <1>12 DEF Raise
<1>13. ASSUME NEW p \in Proc, KeepWorkload(p) PROVE Fresh'
  BY <1>13 DEF KeepWorkload
<1>14. ASSUME NEW p \in Proc, StartWorkload(p) PROVE Fresh'
  BY <1>14 DEF StartWorkload
<1>15. ASSUME NEW p \in Proc, Remember(p) PROVE Fresh'
  BY <1>15 DEF Remember, Forget, Written, NotWritten, Entry, Owns
<1>16. ASSUME NEW p \in Proc, Close(p) PROVE Fresh'
  <2>1. sid[p] \in Sid /\ Drop(p, sid[p])
    BY <1>16 DEF Close
  <2>2. \A q \in Proc : cache'[q] \in {cache[q], NoSid}
    BY <1>16 DEF Close, Forget
  <2>3. \A s \in Sid : sandbox'[s] = "none" => sandbox[s] = "none"
    BY <1>16, <2>1 DEF Close
  <2>4. \A q \in Proc : pc'[q] = "created" => pc[q] = "created"
    BY <1>16 DEF Close
  <2>5. UNCHANGED <<record, served, view, sid>>
    BY <1>16 DEF Close
  <2>. QED
    BY <2>1, <2>2, <2>3, <2>4, <2>5, Dropped
<1>17. ASSUME NEW p \in Proc, DeleteRecord(p) PROVE Fresh'
  BY <1>17 DEF DeleteRecord, Written, NotWritten, Owns
<1>18. ASSUME NEW p \in Proc, Release(p) PROVE Fresh'
  BY <1>18 DEF Release, Owns
<1>19. ASSUME NEW p \in Proc, Busy(p) PROVE Fresh'
  BY <1>19 DEF Busy
<1>20. ASSUME NEW p \in Proc, Replace(p) PROVE Fresh'
  BY <1>20 DEF Replace, Forget
<1>21. ASSUME NEW p \in Proc, NEW a \in Action, StartCall(p, a) PROVE Fresh'
  BY <1>21 DEF StartCall
<1>22. ASSUME NEW j \in Pod, PodEnds(j) PROVE Fresh'
  BY <1>22 DEF PodEnds
<1>23. ASSUME NEW s \in Sid, SandboxEnds(s) PROVE Fresh'
  BY <1>23 DEF SandboxEnds
<1>24. CASE UNCHANGED vars
  BY <1>24 DEF vars
<1>. QED
  BY <1>1, <1>2, <1>3, <1>4, <1>5, <1>6, <1>7, <1>8, <1>9, <1>9a, <1>10, <1>11, <1>12,
     <1>13, <1>14, <1>15, <1>16, <1>17, <1>18, <1>19, <1>20, <1>21, <1>22, <1>23, <1>24
  DEF Next, Step

(* Nothing brings back a session that was given up.                        *)
LEMMA StaysGivenUp ==
  TypeOK /\ [Next]_vars => \A s \in Sid : GivenUp(s) => GivenUp(s)'
<1> DEFINE Kept ==
      /\ abandoned \subseteq abandoned'
      /\ \A k \in Pod : pod[k] = "stopped" =>
            pod'[k] = "stopped" /\ session'[k] = session[k]
<1> SUFFICES ASSUME TypeOK, [Next]_vars
             PROVE  Kept
  BY DEF GivenUp
<1> USE DEF TypeOK, cloud, table, memory, call, Goto
<1>1. ASSUME NEW p \in Proc, TakeLease(p) PROVE Kept
  BY <1>1 DEF TakeLease
<1>2. ASSUME NEW p \in Proc, CloseNothing(p) PROVE Kept
  BY <1>2 DEF CloseNothing
<1>3. ASSUME NEW p \in Proc, UseCached(p) PROVE Kept
  BY <1>3 DEF UseCached, CacheHolds
<1>4. ASSUME NEW p \in Proc, FollowRecord(p) PROVE Kept
  BY <1>4 DEF FollowRecord, Forget, CacheHolds, Drop
<1>5. ASSUME NEW p \in Proc, Attach(p) PROVE Kept
  BY <1>5 DEF Attach
<1>6. ASSUME NEW p \in Proc, AttachFails(p) PROVE Kept
  BY <1>6 DEF AttachFails, Attachable
<1>7. ASSUME NEW p \in Proc, RememberAttached(p) PROVE Kept
  BY <1>7 DEF RememberAttached, Forget, Written, NotWritten, Entry, Owns
<1>8. ASSUME NEW p \in Proc, DropRecord(p) PROVE Kept
  BY <1>8 DEF DropRecord, Written, NotWritten, Owns
<1>9. ASSUME NEW p \in Proc, Create(p) PROVE Kept
  BY <1>9 DEF Create
<1>9a. ASSUME NEW p \in Proc, CreateFails(p) PROVE Kept
  BY <1>9a DEF CreateFails
<1>10. ASSUME NEW p \in Proc, RememberCreated(p) PROVE Kept
  BY <1>10 DEF RememberCreated, StopOrAbandon, Forget, Written, NotWritten, Entry, Drop, Owns
<1>11. ASSUME NEW p \in Proc, Exec(p) PROVE Kept
  BY <1>11 DEF Exec, Owns
<1>12. ASSUME NEW p \in Proc, Raise(p) PROVE Kept
  BY <1>12 DEF Raise
<1>13. ASSUME NEW p \in Proc, KeepWorkload(p) PROVE Kept
  BY <1>13 DEF KeepWorkload
<1>14. ASSUME NEW p \in Proc, StartWorkload(p) PROVE Kept
  BY <1>14 DEF StartWorkload
<1>15. ASSUME NEW p \in Proc, Remember(p) PROVE Kept
  BY <1>15 DEF Remember, Forget, Written, NotWritten, Entry, Owns
<1>16. ASSUME NEW p \in Proc, Close(p) PROVE Kept
  BY <1>16 DEF Close, Forget, Drop
<1>17. ASSUME NEW p \in Proc, DeleteRecord(p) PROVE Kept
  BY <1>17 DEF DeleteRecord, Written, NotWritten, Owns
<1>18. ASSUME NEW p \in Proc, Release(p) PROVE Kept
  BY <1>18 DEF Release, Owns
<1>19. ASSUME NEW p \in Proc, Busy(p) PROVE Kept
  BY <1>19 DEF Busy
<1>20. ASSUME NEW p \in Proc, Replace(p) PROVE Kept
  BY <1>20 DEF Replace, Forget
<1>21. ASSUME NEW p \in Proc, NEW a \in Action, StartCall(p, a) PROVE Kept
  BY <1>21 DEF StartCall
<1>22. ASSUME NEW j \in Pod, PodEnds(j) PROVE Kept
  BY <1>22 DEF PodEnds
<1>23. ASSUME NEW s \in Sid, SandboxEnds(s) PROVE Kept
  BY <1>23 DEF SandboxEnds
<1>24. CASE UNCHANGED vars
  BY <1>24 DEF vars
<1>. QED
  BY <1>1, <1>2, <1>3, <1>4, <1>5, <1>6, <1>7, <1>8, <1>9, <1>9a, <1>10, <1>11, <1>12,
     <1>13, <1>14, <1>15, <1>16, <1>17, <1>18, <1>19, <1>20, <1>21, <1>22, <1>23, <1>24
  DEF Next, Step

(* While a call owns the item, nobody else changes what the record says.   *)
LEMMA KeepsOwnersRecord ==
  /\ TypeOK /\ TypeOK' /\ Shape /\ PodsOfTheirSessions /\ Fresh /\ OwnersRecord
  /\ [Next]_vars
  => OwnersRecord'
<1> SUFFICES ASSUME TypeOK, TypeOK', Shape, PodsOfTheirSessions, Fresh, OwnersRecord,
                    [Next]_vars
             PROVE OwnersRecord'
  OBVIOUS
<1> USE StickyAssumption DEF TypeOK, Action, Record, NoRecord, Pc, Shape, PodOf,
      PodsOfTheirSessions, Fresh, NamedBeside, OwnersRecord, Owns, Lost, GivenUp,
      cloud, table, memory, call, Goto
<1>1. ASSUME NEW p \in Proc, TakeLease(p) PROVE OwnersRecord'
  BY <1>1 DEF TakeLease
<1>2. ASSUME NEW p \in Proc, CloseNothing(p) PROVE OwnersRecord'
  BY <1>2 DEF CloseNothing
<1>3. ASSUME NEW p \in Proc, UseCached(p) PROVE OwnersRecord'
  BY <1>3 DEF UseCached, CacheHolds
<1>4. ASSUME NEW p \in Proc, FollowRecord(p) PROVE OwnersRecord'
  BY <1>4 DEF FollowRecord, Forget, CacheHolds, Drop
<1>5. ASSUME NEW p \in Proc, Attach(p) PROVE OwnersRecord'
  BY <1>5 DEF Attach
<1>6. ASSUME NEW p \in Proc, AttachFails(p) PROVE OwnersRecord'
  BY <1>6 DEF AttachFails, Attachable
<1>7. ASSUME NEW p \in Proc, RememberAttached(p) PROVE OwnersRecord'
  BY <1>7 DEF RememberAttached, Forget, Written, NotWritten, Entry, Owns
<1>8. ASSUME NEW p \in Proc, DropRecord(p) PROVE OwnersRecord'
  BY <1>8 DEF DropRecord, Written, NotWritten, Owns
<1>9. ASSUME NEW p \in Proc, Create(p) PROVE OwnersRecord'
  BY <1>9 DEF Create
<1>9a. ASSUME NEW p \in Proc, CreateFails(p) PROVE OwnersRecord'
  <2>1. \A s \in Sid : Lost(s) => Lost(s)'
    <3>1. \A s \in Sid : Lost(s) /\ sandbox[s] # "none" => Lost(s)'
      BY <1>9a, StaysGivenUp DEF CreateFails, Lost
    <3>2. \A s \in Sid : sandbox[s] = "none" => Lost(s)'
      BY <1>9a DEF CreateFails
    <3>. QED
      BY <3>1, <3>2
  <2> HIDE DEF Lost
  <2>. QED
    BY <1>9a, <2>1 DEF CreateFails, OwnersRecord, Owns
<1>10. ASSUME NEW p \in Proc, RememberCreated(p) PROVE OwnersRecord'
  BY <1>10 DEF RememberCreated, StopOrAbandon, Forget, Written, NotWritten, Entry, Drop, Owns
<1>11. ASSUME NEW p \in Proc, Exec(p) PROVE OwnersRecord'
  BY <1>11 DEF Exec, Owns
<1>12. ASSUME NEW p \in Proc, Raise(p) PROVE OwnersRecord'
  BY <1>12 DEF Raise
<1>13. ASSUME NEW p \in Proc, KeepWorkload(p) PROVE OwnersRecord'
  BY <1>13 DEF KeepWorkload
<1>14. ASSUME NEW p \in Proc, StartWorkload(p) PROVE OwnersRecord'
  <2>1. \A s \in Sid : Lost(s) => Lost(s)'
    BY <1>14, StaysGivenUp DEF StartWorkload, Lost
  <2> HIDE DEF Lost
  <2>. QED
    BY <1>14, <2>1 DEF StartWorkload, OwnersRecord, Owns
<1>15. ASSUME NEW p \in Proc, Remember(p) PROVE OwnersRecord'
  BY <1>15 DEF Remember, Forget, Written, NotWritten, Entry, Owns
<1>16. ASSUME NEW p \in Proc, Close(p) PROVE OwnersRecord'
  BY <1>16 DEF Close, Forget, Drop
<1>17. ASSUME NEW p \in Proc, DeleteRecord(p) PROVE OwnersRecord'
  BY <1>17 DEF DeleteRecord, Written, NotWritten, Owns
<1>18. ASSUME NEW p \in Proc, Release(p) PROVE OwnersRecord'
  BY <1>18 DEF Release, Owns
<1>19. ASSUME NEW p \in Proc, Busy(p) PROVE OwnersRecord'
  BY <1>19 DEF Busy
<1>20. ASSUME NEW p \in Proc, Replace(p) PROVE OwnersRecord'
  BY <1>20 DEF Replace, Forget
<1>21. ASSUME NEW p \in Proc, NEW a \in Action, StartCall(p, a) PROVE OwnersRecord'
  BY <1>21 DEF StartCall
<1>22. ASSUME NEW j \in Pod, PodEnds(j) PROVE OwnersRecord'
  BY <1>22 DEF PodEnds
<1>23. ASSUME NEW s \in Sid, SandboxEnds(s) PROVE OwnersRecord'
  BY <1>23 DEF SandboxEnds
<1>24. CASE UNCHANGED vars
  BY <1>24 DEF vars
<1>. QED
  BY <1>1, <1>2, <1>3, <1>4, <1>5, <1>6, <1>7, <1>8, <1>9, <1>9a, <1>10, <1>11, <1>12,
     <1>13, <1>14, <1>15, <1>16, <1>17, <1>18, <1>19, <1>20, <1>21, <1>22, <1>23, <1>24
  DEF Next, Step

(* Steps that start no sandbox, and neither change the record nor end a    *)
(* creation, keep every live sandbox accounted for.                        *)
LEMMA OneEnvironmentStable ==
  ASSUME OneEnvironment, record'.sid = record.sid,
         \A s \in Sid : GivenUp(s) => GivenUp(s)',
         \A s \in Sid : sandbox'[s] = "ready" => sandbox[s] = "ready",
         \A q \in Proc : pc[q] = "created" => pc'[q] = "created" /\ sid'[q] = sid[q]
  PROVE  OneEnvironment'
BY DEF OneEnvironment

(* No step leaves a live sandbox behind that nothing accounts for.         *)
LEMMA KeepsOneEnvironment ==
  /\ TypeOK /\ TypeOK' /\ Shape /\ PodsOfTheirSessions /\ OwnersRecord /\ OneEnvironment
  /\ [Next]_vars
  => OneEnvironment'
<1> SUFFICES ASSUME TypeOK, TypeOK', Shape, PodsOfTheirSessions, OwnersRecord,
                    OneEnvironment, [Next]_vars
             PROVE OneEnvironment'
  OBVIOUS
<1> USE StickyAssumption DEF TypeOK, Action, Record, NoRecord, Pc, Shape, PodOf,
      PodsOfTheirSessions, cloud, table, memory, call, Goto
<1>1. ASSUME NEW p \in Proc, TakeLease(p) PROVE OneEnvironment'
  BY <1>1, StaysGivenUp, OneEnvironmentStable
  DEF TakeLease
<1>2. ASSUME NEW p \in Proc, CloseNothing(p) PROVE OneEnvironment'
  BY <1>2, StaysGivenUp, OneEnvironmentStable
  DEF CloseNothing
<1>3. ASSUME NEW p \in Proc, UseCached(p) PROVE OneEnvironment'
  BY <1>3, StaysGivenUp, OneEnvironmentStable
  DEF UseCached, CacheHolds
<1>4. ASSUME NEW p \in Proc, FollowRecord(p) PROVE OneEnvironment'
  BY <1>4, StaysGivenUp, OneEnvironmentStable
  DEF FollowRecord, Forget, CacheHolds, Drop
<1>5. ASSUME NEW p \in Proc, Attach(p) PROVE OneEnvironment'
  BY <1>5, StaysGivenUp, OneEnvironmentStable
  DEF Attach
<1>6. ASSUME NEW p \in Proc, AttachFails(p) PROVE OneEnvironment'
  BY <1>6, StaysGivenUp, OneEnvironmentStable
  DEF AttachFails, Attachable
<1>7. ASSUME NEW p \in Proc, RememberAttached(p) PROVE OneEnvironment'
  BY <1>7, StaysGivenUp, OneEnvironmentStable
  DEF RememberAttached, Forget, Written, NotWritten, Entry, Owns, OwnersRecord
<1>8. ASSUME NEW p \in Proc, DropRecord(p) PROVE OneEnvironment'
  BY <1>8, StaysGivenUp DEF OneEnvironment, OwnersRecord, Lost, DropRecord, Written, NotWritten, Owns
<1>9. ASSUME NEW p \in Proc, Create(p) PROVE OneEnvironment'
  BY <1>9, StaysGivenUp DEF OneEnvironment, OwnersRecord, Lost, Owns, Create
<1>9a. ASSUME NEW p \in Proc, CreateFails(p) PROVE OneEnvironment'
  <2> SUFFICES ASSUME NEW s \in Sid, (sandbox[s] = "ready")'
               PROVE (\/ record.sid = s
                      \/ \E q \in Proc : pc[q] = "created" /\ sid[q] = s
                      \/ GivenUp(s))'
    BY DEF OneEnvironment
  <2>1. CASE sandbox[s] = "ready"
    <3>1. ASSUME NEW q \in Proc, pc[q] = "created", sid[q] = s
          PROVE  (pc[q] = "created" /\ sid[q] = s)'
      BY <1>9a, <3>1 DEF CreateFails
    <3>. QED
      BY <1>9a, <2>1, <3>1, StaysGivenUp DEF CreateFails, OneEnvironment
  <2>2. CASE sandbox[s] # "ready"
    BY <1>9a, <2>2 DEF CreateFails, GivenUp
  <2>. QED
    BY <2>1, <2>2
<1>10. ASSUME NEW p \in Proc, RememberCreated(p) PROVE OneEnvironment'
  <2> SUFFICES ASSUME NEW s \in Sid, (sandbox[s] = "ready")'
               PROVE (\/ record.sid = s
                      \/ \E q \in Proc : pc[q] = "created" /\ sid[q] = s
                      \/ GivenUp(s))'
    BY DEF OneEnvironment
  <2>1. CASE s = sid[p]
    <3>1. CASE Written(p, Entry(p))
      BY <2>1, <3>1 DEF Written, Entry
    <3>2. CASE StopOrAbandon(sid[p])
      BY <2>1, <3>2 DEF StopOrAbandon, GivenUp
    <3>. QED
      BY <1>10, <3>1, <3>2 DEF RememberCreated
  <2>2. CASE s # sid[p]
    <3>1. sandbox[s] = "ready"
      BY <1>10, <2>2 DEF RememberCreated, StopOrAbandon
    <3>2. CASE record.sid = s
      BY <1>10, <3>1, <3>2, StaysGivenUp
      DEF RememberCreated, StopOrAbandon, Written, NotWritten, OwnersRecord, Owns, Lost
    <3>3. ASSUME NEW q \in Proc, pc[q] = "created", sid[q] = s
          PROVE  (pc[q] = "created" /\ sid[q] = s)'
      BY <1>10, <2>2, <3>3 DEF RememberCreated, StopOrAbandon
    <3>. QED
      BY <3>1, <3>2, <3>3, StaysGivenUp DEF OneEnvironment
  <2>. QED
    BY <2>1, <2>2
<1>11. ASSUME NEW p \in Proc, Exec(p) PROVE OneEnvironment'
  BY <1>11, StaysGivenUp, OneEnvironmentStable
  DEF Exec, Owns
<1>12. ASSUME NEW p \in Proc, Raise(p) PROVE OneEnvironment'
  BY <1>12, StaysGivenUp, OneEnvironmentStable
  DEF Raise
<1>13. ASSUME NEW p \in Proc, KeepWorkload(p) PROVE OneEnvironment'
  BY <1>13, StaysGivenUp, OneEnvironmentStable
  DEF KeepWorkload
<1>14. ASSUME NEW p \in Proc, StartWorkload(p) PROVE OneEnvironment'
  BY <1>14, StaysGivenUp, OneEnvironmentStable
  DEF StartWorkload
<1>15. ASSUME NEW p \in Proc, Remember(p) PROVE OneEnvironment'
  BY <1>15, StaysGivenUp, OneEnvironmentStable
  DEF Remember, Forget, Written, NotWritten, Entry, Owns, OwnersRecord
<1>16. ASSUME NEW p \in Proc, Close(p) PROVE OneEnvironment'
  BY <1>16, StaysGivenUp, OneEnvironmentStable
  DEF Close, Forget, Drop
<1>17. ASSUME NEW p \in Proc, DeleteRecord(p) PROVE OneEnvironment'
  BY <1>17, StaysGivenUp DEF OneEnvironment, OwnersRecord, Lost, DeleteRecord, Written, NotWritten, Owns
<1>18. ASSUME NEW p \in Proc, Release(p) PROVE OneEnvironment'
  BY <1>18, StaysGivenUp, OneEnvironmentStable
  DEF Release, Owns
<1>19. ASSUME NEW p \in Proc, Busy(p) PROVE OneEnvironment'
  BY <1>19, StaysGivenUp, OneEnvironmentStable
  DEF Busy
<1>20. ASSUME NEW p \in Proc, Replace(p) PROVE OneEnvironment'
  <2> SUFFICES ASSUME NEW s \in Sid, (sandbox[s] = "ready")'
               PROVE (\/ record.sid = s
                      \/ \E q \in Proc : pc[q] = "created" /\ sid[q] = s
                      \/ GivenUp(s))'
    BY DEF OneEnvironment
  <2>1. CASE pc[p] = "created" /\ sid[p] = s
    BY <1>20, <2>1 DEF Replace, GivenUp
  <2>2. CASE ~(pc[p] = "created" /\ sid[p] = s)
    <3>1. sandbox[s] = "ready" /\ UNCHANGED record
      BY <1>20 DEF Replace
    <3>2. ASSUME NEW q \in Proc, pc[q] = "created", sid[q] = s
          PROVE  (pc[q] = "created" /\ sid[q] = s)'
      BY <1>20, <2>2, <3>2 DEF Replace
    <3>. QED
      BY <3>1, <3>2, StaysGivenUp DEF OneEnvironment
  <2>. QED
    BY <2>1, <2>2
<1>21. ASSUME NEW p \in Proc, NEW a \in Action, StartCall(p, a) PROVE OneEnvironment'
  BY <1>21, StaysGivenUp, OneEnvironmentStable
  DEF StartCall
<1>22. ASSUME NEW j \in Pod, PodEnds(j) PROVE OneEnvironment'
  BY <1>22, StaysGivenUp, OneEnvironmentStable
  DEF PodEnds
<1>23. ASSUME NEW s \in Sid, SandboxEnds(s) PROVE OneEnvironment'
  BY <1>23, StaysGivenUp, OneEnvironmentStable
  DEF SandboxEnds
<1>24. CASE UNCHANGED vars
  BY <1>24, StaysGivenUp, OneEnvironmentStable
  DEF vars
<1>. QED
  BY <1>1, <1>2, <1>3, <1>4, <1>5, <1>6, <1>7, <1>8, <1>9, <1>9a, <1>10, <1>11, <1>12,
     <1>13, <1>14, <1>15, <1>16, <1>17, <1>18, <1>19, <1>20, <1>21, <1>22, <1>23, <1>24
  DEF Next, Step

(* The record, the caches and the calls in progress stay consistent.       *)
THEOREM StickyInvariant == Spec => []StickyInv
<1>1. Init => StickyInv
  BY StickyAssumption
  DEF Init, StickyInv, Shape, OwnersRecord, PodsOfTheirSessions, PodOf, Fresh,
      NamedBeside, OneEnvironment, Owns, NoRecord
<1>2. TypeOK /\ TypeOK' /\ StickyInv /\ [Next]_vars => StickyInv'
  BY KeepsShape, KeepsPods, KeepsFresh, KeepsOwnersRecord, KeepsOneEnvironment
  DEF StickyInv
<1>. QED
  BY <1>1, <1>2, TypeCorrect, PTL DEF Spec

-----------------------------------------------------------------------------
(* A call whose lease is good acts on the recorded session.                *)
THEOREM ActsOnTheRecord == Spec => []ServesRecorded
<1>1. StickyInv => ServesRecorded
  BY DEF StickyInv, OwnersRecord, ServesRecorded
<1>. QED
  BY <1>1, StickyInvariant, PTL

(* Every live sandbox is recorded, about to be, or given up.               *)
THEOREM NoSecondEnvironment == Spec => []OneEnvironment
<1>1. StickyInv => OneEnvironment
  BY DEF StickyInv
<1>. QED
  BY <1>1, StickyInvariant, PTL

(* A runtime session moves on only from a session that is gone or given up. *)
THEOREM StaysWithItsSession == Spec => Sticky
<1>1. TypeOK /\ StickyInv /\ [Next]_vars =>
        [served # NoSid /\ served' # served =>
           sandbox[served] # "ready" \/ GivenUp(served)]_served
  <2> SUFFICES ASSUME TypeOK, StickyInv, NEW p \in Proc, Exec(p),
                      served # NoSid, served' # served
               PROVE sandbox[served] # "ready" \/ GivenUp(served)
    BY DEF Next, Step, vars, cloud, table, memory, call, TakeLease, CloseNothing,
       UseCached, FollowRecord, Attach, AttachFails, RememberAttached, DropRecord,
       Create, CreateFails, RememberCreated, StopOrAbandon, Raise, KeepWorkload, StartWorkload, Remember, Close,
       DeleteRecord, Release, Busy, Replace, StartCall, PodEnds, SandboxEnds
  <2>1. record.sid # served
    BY DEF Exec, StickyInv, OwnersRecord
  <2>2. \A q \in Proc : ~(pc[q] = "created" /\ sid[q] = served)
    BY DEF StickyInv, Fresh, NamedBeside, TypeOK
  <2>. QED
    BY <2>1, <2>2 DEF StickyInv, OneEnvironment, TypeOK
<1>. QED
  BY <1>1, TypeCorrect, StickyInvariant, PTL DEF Spec, Sticky
-----------------------------------------------------------------------------
(* One process at a time, which may be replaced between calls.  Faults are  *)
(* left out under which TLC finds the properties violated: a call that is   *)
(* cut short after its Pod is up, or cannot record it, leaves a Pod that    *)
(* the next process knows nothing of.                                      *)
OneProcess == Proc # {} /\ \A p, q \in Proc : p = q
CallsRecord == {"crash", "registry"} \cap Faults = {}

(* A call in progress holds the lease, and manages the session it serves.   *)
Leased == \A p \in Proc : pc[p] \notin {"idle", "lease"} => Owns(p)
ServesKnown ==
    \A p \in Proc : pc[p] \in {"attached", "created", "act", "pod", "final"} => sid[p] \in known[p]

(* The record names the Pod of a session that is managed, except after its  *)
(* start and before the record is written.                                 *)
RecordsHost ==
    \A p \in Proc :
        pc[p] # "pod" /\ record.sid \in known[p] => record.pod = host[p][record.sid]

(* A Pod that runs is found by whoever serves its session: as the host of a *)
(* session that is managed, else in the record.                            *)
PodFound ==
    \A p \in Proc, j \in Pod :
        pod[j] = "running" =>
            /\ session[j] \in Sid /\ sandbox[session[j]] # "none"
            /\ session[j] \in known[p] => host[p][session[j]] = j
            /\ session[j] \notin known[p] /\ record.sid = session[j] => record.pod = j

PodsInv == Leased /\ ServesKnown /\ RecordsHost /\ PodFound /\ OnePodPerSession

(* Every step keeps this.                                                   *)
LEMMA KeepsPodsFound ==
  ASSUME OneProcess, CallsRecord, TypeOK, TypeOK', StickyInv, PodsInv, [Next]_vars
  PROVE  PodsInv'
<1> USE StickyAssumption DEF TypeOK, Action, Record, NoRecord, Pc, Shape, PodOf,
      PodsOfTheirSessions, Fresh, NamedBeside, OwnersRecord, Owns, StickyInv, OneProcess,
      CallsRecord, PodsInv, Leased, ServesKnown, RecordsHost, PodFound, OnePodPerSession,
      cloud, table, memory, call, Goto
<1>1. ASSUME NEW p \in Proc, TakeLease(p) PROVE PodsInv'
  BY <1>1 DEF TakeLease
<1>2. ASSUME NEW p \in Proc, CloseNothing(p) PROVE PodsInv'
  BY <1>2 DEF CloseNothing
<1>3. ASSUME NEW p \in Proc, UseCached(p) PROVE PodsInv'
  BY <1>3 DEF UseCached, CacheHolds
<1>4. ASSUME NEW p \in Proc, FollowRecord(p) PROVE PodsInv'
  BY <1>4 DEF FollowRecord, Forget, CacheHolds, Drop
<1>5. ASSUME NEW p \in Proc, Attach(p) PROVE PodsInv'
  BY <1>5 DEF Attach
<1>6. ASSUME NEW p \in Proc, AttachFails(p) PROVE PodsInv'
  BY <1>6 DEF AttachFails, Attachable
<1>7. ASSUME NEW p \in Proc, RememberAttached(p) PROVE PodsInv'
  BY <1>7 DEF RememberAttached, Forget, Written, NotWritten, Entry
<1>8. ASSUME NEW p \in Proc, DropRecord(p) PROVE PodsInv'
  BY <1>8 DEF DropRecord, Written, NotWritten
<1>9. ASSUME NEW p \in Proc, Create(p) PROVE PodsInv'
  BY <1>9 DEF Create
<1>9a. ASSUME NEW p \in Proc, CreateFails(p) PROVE PodsInv'
  BY <1>9a DEF CreateFails
<1>10. ASSUME NEW p \in Proc, RememberCreated(p) PROVE PodsInv'
  <2>1. Owns(p) /\ pc[p] = "created" /\ sid[p] \in known[p]
    BY <1>10 DEF RememberCreated, StopOrAbandon
  <2>2. record' = Entry(p) /\ pc' = [pc EXCEPT ![p] = "act"]
        /\ UNCHANGED <<sandbox, memory, pod, session, owner, action, sid, view, leased>>
    BY <1>10, <2>1 DEF RememberCreated, StopOrAbandon, NotWritten, Written
  <2>. QED
    BY <2>1, <2>2 DEF Entry
<1>11. ASSUME NEW p \in Proc, Exec(p) PROVE PodsInv'
  BY <1>11 DEF Exec
<1>12. ASSUME NEW p \in Proc, Raise(p) PROVE PodsInv'
  BY <1>12 DEF Raise
<1>13. ASSUME NEW p \in Proc, KeepWorkload(p) PROVE PodsInv'
  BY <1>13 DEF KeepWorkload
<1>14. ASSUME NEW p \in Proc, StartWorkload(p) PROVE PodsInv'
  BY <1>14 DEF StartWorkload
<1>15. ASSUME NEW p \in Proc, Remember(p) PROVE PodsInv'
  BY <1>15 DEF Remember, Forget, Written, NotWritten, Entry
<1>16. ASSUME NEW p \in Proc, Close(p) PROVE PodsInv'
  <2> DEFINE s == sid[p]
             j == host[p][s]
  <2>0. pc[p] = "act" /\ Owns(p) /\ s \in known[p] /\ s \in Sid
    BY ONLY <1>16, Leased, ServesKnown, TypeOK DEF Close, Leased, ServesKnown, TypeOK
  <2>1. /\ Owns(p) /\ pc[p] = "act" /\ s \in known[p] /\ s \in Sid /\ record.sid = s
        /\ record.pod = j
    BY ONLY <2>0, OwnersRecord, RecordsHost DEF OwnersRecord, RecordsHost
  <2>2. /\ pod' \in {pod, [pod EXCEPT ![j] = "stopped"]}
        /\ sandbox' \in {sandbox, [sandbox EXCEPT ![s] = "stopped"]}
        /\ known' = [known EXCEPT ![p] = @ \ {s}]
        /\ host' = [host EXCEPT ![p][s] = NoPod]
        /\ pc' \in {[pc EXCEPT ![p] = "delete"], [pc EXCEPT ![p] = "release"]}
        /\ UNCHANGED <<session, owner, record, leased, sid>>
    BY <1>16 DEF Close, Drop
  <2>3. \A i \in Pod : pod'[i] = "running" => pod[i] = "running"
    BY <2>2
  <2>4. Leased' /\ ServesKnown'
    BY <2>1, <2>2
  <2>5. RecordsHost'
    BY <2>1, <2>2
  <2>6. PodFound'
    <3> SUFFICES ASSUME NEW i \in Pod, pod'[i] = "running"
                 PROVE  /\ session[i] \in Sid /\ sandbox'[session[i]] # "none"
                        /\ session[i] \in known'[p] => host'[p][session[i]] = i
                        /\ session[i] \notin known'[p] /\ record.sid = session[i] => record.pod = i
      BY <2>2
    <3>. QED
      BY <2>1, <2>2, <2>3
  <2>7. OnePodPerSession'
    BY <2>2, <2>3
  <2>. QED
    BY ONLY <2>4, <2>5, <2>6, <2>7 DEF PodsInv
<1>17. ASSUME NEW p \in Proc, DeleteRecord(p) PROVE PodsInv'
  BY <1>17 DEF DeleteRecord, Written, NotWritten
<1>18. ASSUME NEW p \in Proc, Release(p) PROVE PodsInv'
  BY <1>18 DEF Release
<1>19. ASSUME NEW p \in Proc, Busy(p) PROVE PodsInv'
  BY <1>19 DEF Busy
<1>20. ASSUME NEW p \in Proc, Replace(p) PROVE PodsInv'
  BY <1>20 DEF Replace, Forget
<1>21. ASSUME NEW p \in Proc, NEW a \in Action, StartCall(p, a) PROVE PodsInv'
  BY <1>21 DEF StartCall
<1>22. ASSUME NEW j \in Pod, PodEnds(j) PROVE PodsInv'
  BY <1>22 DEF PodEnds
<1>23. ASSUME NEW s \in Sid, SandboxEnds(s) PROVE PodsInv'
  BY <1>23 DEF SandboxEnds
<1>24. CASE UNCHANGED vars
  BY <1>24 DEF vars
<1>. QED
  BY <1>1, <1>2, <1>3, <1>4, <1>5, <1>6, <1>7, <1>8, <1>9, <1>9a, <1>10, <1>11, <1>12, <1>13, <1>14, <1>15, <1>16, <1>17, <1>18, <1>19, <1>20, <1>21, <1>22, <1>23, <1>24
  DEF Next, Step

(* "One workload Pod per session." (EKSWorkloadHost): with one process at a *)
(* time, replaced between calls as often as one likes, and whatever else    *)
(* goes wrong but a call that cannot record its Pod.                       *)
THEOREM OnePodForASession ==
  ASSUME OneProcess, CallsRecord
  PROVE  Spec => []OnePodPerSession
<1>1. Init => PodsInv
  BY StickyAssumption DEF Init, PodsInv, Leased, ServesKnown, RecordsHost, PodFound, OnePodPerSession
<1>2. TypeOK /\ TypeOK' /\ StickyInv /\ PodsInv /\ [Next]_vars => PodsInv'
  BY KeepsPodsFound
<1>3. PodsInv => OnePodPerSession
  BY DEF PodsInv
<1>. QED
  BY <1>1, <1>2, <1>3, TypeCorrect, StickyInvariant, PTL DEF Spec

(* Of those faults, the ones that leave the session of a Pod as it is: what *)
(* the runtime gives up with a sandbox that is gone, with a reattach that   *)
(* fails or with a Job it cannot delete is left to the Job's deadline.      *)
SessionsStay == Faults \subseteq {"swap", "stall", "delete", "pod"}

(* The sandbox of a session that is managed lives.                          *)
KnownReady == \A p \in Proc : \A s \in known[p] : sandbox[s] = "ready"

(* A Pod that runs is that of the recorded session, and nobody starts over. *)
PodRecorded ==
    \A j \in Pod :
        pod[j] = "running" =>
            /\ record.sid = session[j] /\ sandbox[session[j]] = "ready"
            /\ \A p \in Proc : pc[p] \notin {"drop", "create", "created"}

ReachInv == KnownReady /\ PodRecorded

(* Every step keeps this, too.                                              *)
LEMMA KeepsPodsRecorded ==
  ASSUME OneProcess, SessionsStay, TypeOK, TypeOK', StickyInv, PodsInv, ReachInv, [Next]_vars
  PROVE  ReachInv'
<1> USE StickyAssumption DEF TypeOK, Action, Record, NoRecord, Pc, Shape, PodOf,
      PodsOfTheirSessions, Fresh, NamedBeside, OwnersRecord, Owns, StickyInv, OneProcess,
      SessionsStay, PodsInv, Leased, ServesKnown, RecordsHost, PodFound, OnePodPerSession,
      ReachInv, KnownReady, PodRecorded, cloud, table, memory, call, Goto
<1>1. ASSUME NEW p \in Proc, TakeLease(p) PROVE ReachInv'
  BY <1>1 DEF TakeLease
<1>2. ASSUME NEW p \in Proc, CloseNothing(p) PROVE ReachInv'
  BY <1>2 DEF CloseNothing
<1>3. ASSUME NEW p \in Proc, UseCached(p) PROVE ReachInv'
  BY <1>3 DEF UseCached, CacheHolds
<1>4. ASSUME NEW p \in Proc, FollowRecord(p) PROVE ReachInv'
  <2>1. \A q \in Proc : known'[q] \subseteq known[q]
    BY <1>4 DEF FollowRecord, Drop
  <2>2. record = view[p] /\ pc' = [pc EXCEPT ![p] = IF view[p] = NoRecord THEN "create" ELSE "attach"]
        /\ UNCHANGED <<pod, session, sandbox, record>>
    BY <1>4 DEF FollowRecord
  <2>3. \A j \in Pod : pod[j] = "running" => pc'[p] = "attach"
    BY <2>2
  <2>. QED
    BY <2>1, <2>2, <2>3
<1>5. ASSUME NEW p \in Proc, Attach(p) PROVE ReachInv'
  BY <1>5 DEF Attach, Attachable
<1>6. ASSUME NEW p \in Proc, AttachFails(p) PROVE ReachInv'
  <2>1. /\ record = view[p] /\ record # NoRecord /\ record.sid \notin known[p]
        /\ UNCHANGED <<pod, session, sandbox, record, known>>
    BY <1>6 DEF AttachFails
  <2>2. \/ sandbox[record.sid] # "ready"
        \/ record.pod # NoPod /\ pod[record.pod] # "running"
    BY <1>6, <2>1 DEF AttachFails, Attachable
  <2>3. \A j \in Pod : pod[j] # "running"
    BY <2>1, <2>2
  <2>. QED
    BY <2>1, <2>3
<1>7. ASSUME NEW p \in Proc, RememberAttached(p) PROVE ReachInv'
  BY <1>7 DEF RememberAttached, Forget, Written, NotWritten, Entry
<1>8. ASSUME NEW p \in Proc, DropRecord(p) PROVE ReachInv'
  BY <1>8 DEF DropRecord, Written, NotWritten
<1>9. ASSUME NEW p \in Proc, Create(p) PROVE ReachInv'
  BY <1>9 DEF Create
<1>9a. ASSUME NEW p \in Proc, CreateFails(p) PROVE ReachInv'
  BY <1>9a DEF CreateFails
<1>10. ASSUME NEW p \in Proc, RememberCreated(p) PROVE ReachInv'
  BY <1>10 DEF RememberCreated, StopOrAbandon, Forget, Written, NotWritten, Entry, Drop
<1>11. ASSUME NEW p \in Proc, Exec(p) PROVE ReachInv'
  BY <1>11 DEF Exec
<1>12. ASSUME NEW p \in Proc, Raise(p) PROVE ReachInv'
  BY <1>12 DEF Raise
<1>13. ASSUME NEW p \in Proc, KeepWorkload(p) PROVE ReachInv'
  BY <1>13 DEF KeepWorkload
<1>14. ASSUME NEW p \in Proc, StartWorkload(p) PROVE ReachInv'
  <2>0. pc[p] = "act" /\ Owns(p) /\ sid[p] \in known[p] /\ sid[p] \in Sid
    BY ONLY <1>14, Leased, ServesKnown, TypeOK DEF StartWorkload, Leased, ServesKnown, TypeOK
  <2>1. record.sid = sid[p] /\ sid[p] \in Sid /\ sandbox[sid[p]] = "ready"
    BY ONLY <2>0, OwnersRecord, KnownReady DEF OwnersRecord, KnownReady
  <2>2. PICK j \in Pod : /\ pod' = [pod EXCEPT ![j] = "running"]
                         /\ session' = [session EXCEPT ![j] = sid[p]]
    BY <1>14 DEF StartWorkload
  <2>3. pc' = [pc EXCEPT ![p] = "pod"] /\ UNCHANGED <<sandbox, record, known>>
    BY <1>14 DEF StartWorkload
  <2>. QED
    BY <2>1, <2>2, <2>3
<1>15. ASSUME NEW p \in Proc, Remember(p) PROVE ReachInv'
  BY <1>15 DEF Remember, Forget, Written, NotWritten, Entry
<1>16. ASSUME NEW p \in Proc, Close(p) PROVE ReachInv'
  BY <1>16 DEF Close, Forget, Drop
<1>17. ASSUME NEW p \in Proc, DeleteRecord(p) PROVE ReachInv'
  BY <1>17 DEF DeleteRecord, Written, NotWritten
<1>18. ASSUME NEW p \in Proc, Release(p) PROVE ReachInv'
  BY <1>18 DEF Release
<1>19. ASSUME NEW p \in Proc, Busy(p) PROVE ReachInv'
  BY <1>19 DEF Busy
<1>20. ASSUME NEW p \in Proc, Replace(p) PROVE ReachInv'
  BY <1>20 DEF Replace, Forget
<1>21. ASSUME NEW p \in Proc, NEW a \in Action, StartCall(p, a) PROVE ReachInv'
  BY <1>21 DEF StartCall
<1>22. ASSUME NEW j \in Pod, PodEnds(j) PROVE ReachInv'
  BY <1>22 DEF PodEnds
<1>23. ASSUME NEW s \in Sid, SandboxEnds(s) PROVE ReachInv'
  BY <1>23 DEF SandboxEnds
<1>24. CASE UNCHANGED vars
  BY <1>24 DEF vars
<1>. QED
  BY <1>1, <1>2, <1>3, <1>4, <1>5, <1>6, <1>7, <1>8, <1>9, <1>9a, <1>10, <1>11, <1>12, <1>13, <1>14, <1>15, <1>16, <1>17, <1>18, <1>19, <1>20, <1>21, <1>22, <1>23, <1>24
  DEF Next, Step

(* "a Pod is never left running without a durable pointer to it": a Pod     *)
(* that runs between calls is named by the record, or held by the process   *)
(* whose next call records it.                                             *)
THEOREM PodsAreReachable ==
  ASSUME OneProcess, SessionsStay
  PROVE  Spec => []PodReachable
<1>1. Init => PodsInv /\ ReachInv
  BY StickyAssumption
  DEF Init, PodsInv, Leased, ServesKnown, RecordsHost, PodFound, OnePodPerSession,
      ReachInv, KnownReady, PodRecorded
<1>2. TypeOK /\ TypeOK' /\ StickyInv /\ PodsInv /\ ReachInv /\ [Next]_vars
        => PodsInv' /\ ReachInv'
  BY KeepsPodsFound, KeepsPodsRecorded DEF SessionsStay, CallsRecord
<1>3. TypeOK /\ PodsInv /\ ReachInv => PodReachable
  BY DEF OneProcess, TypeOK, PodsInv, PodFound, RecordsHost, ReachInv, PodRecorded, PodReachable
<1>. QED
  BY <1>1, <1>2, <1>3, TypeCorrect, StickyInvariant, PTL DEF Spec
=============================================================================
