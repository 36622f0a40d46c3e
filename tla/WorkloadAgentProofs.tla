------------------------- MODULE WorkloadAgentProofs -------------------------
(***************************************************************************)
(* Proofs about WorkloadAgent, for any finite number of calls, any size of *)
(* the table, and connections and commands as bad as they may be.          *)
(***************************************************************************)
EXTENDS WorkloadAgent, FiniteSetTheorems, TLAPS

(* Making room takes finished entries only.                                *)
LEMMA RoomIsFinished ==
  ASSUME NEW gone, MakeRoom(gone)
  PROVE  /\ gone \subseteq table
         /\ \A c \in gone, k \in Attempt : ~InFlight(c, k)
BY DEF MakeRoom, Finished, InFlight

(* Every variable keeps its type.                                          *)
LEMMA KeepsTypes == TypeOK /\ [Next]_vars => TypeOK'
<1> SUFFICES ASSUME TypeOK, [Next]_vars PROVE TypeOK'
  OBVIOUS
<1> USE DEF TypeOK, Attempt, Outcome, Answer, Other, Becomes, Dropped, entries, outcomes
<1>1. ASSUME NEW c \in Call, Send(c) PROVE TypeOK'
  BY <1>1 DEF Send
<1>2. ASSUME NEW c \in Call, Retry(c) PROVE TypeOK'
  BY <1>2 DEF Retry
<1>3. ASSUME NEW c \in Call, GiveUp(c) PROVE TypeOK'
  <2>1. PICK x \in Dropped(c, 2) : Becomes(c, 2, x)
    BY <1>3 DEF GiveUp
  <2>2. request' \in [Call -> [Attempt ->
          {"none", "sent", "lost", "running", "stored", "waiting"} \cup Answer]]
    BY <2>1
  <2>. QED
    BY <1>3, <2>2 DEF GiveUp
<1>4. ASSUME NEW c \in Call, Receive(c) PROVE TypeOK'
  BY <1>4 DEF Receive
<1>5. ASSUME NEW c \in Call, NEW k \in Attempt, Own(c, k) PROVE TypeOK'
  BY <1>5 DEF Own, Update
<1>6. ASSUME NEW c \in Call, NEW k \in Attempt, Refuse(c, k) PROVE TypeOK'
  BY <1>6 DEF Refuse, Update
<1>7. ASSUME NEW c \in Call, NEW k \in Attempt, Join(c, k) PROVE TypeOK'
  BY <1>7 DEF Join
<1>8. ASSUME NEW c \in Call, NEW k \in Attempt, Execute(c, k) PROVE TypeOK'
  BY <1>8 DEF Execute
<1>9. ASSUME NEW c \in Call, NEW k \in Attempt, Finish(c, k) PROVE TypeOK'
  BY <1>9 DEF Finish
<1>10. ASSUME NEW c \in Call, NEW k \in Attempt, Joined(c, k) PROVE TypeOK'
  BY <1>10 DEF Joined
<1>11. ASSUME NEW c \in Call, NEW k \in Attempt, JoinLate(c, k) PROVE TypeOK'
  BY <1>11 DEF JoinLate
<1>12. CASE UNCHANGED vars
  BY <1>12 DEF vars
<1>. QED
  BY <1>1, <1>2, <1>3, <1>4, <1>5, <1>6, <1>7, <1>8, <1>9, <1>10, <1>11, <1>12
  DEF Next, Handle

(* The agent and its client keep their types.                              *)
THEOREM TypeCorrect == Spec => []TypeOK
<1>1. Init => TypeOK
  BY DEF Init, TypeOK, Attempt, Outcome, Answer
<1>. QED
  BY <1>1, KeepsTypes, PTL DEF Spec

(* The other of two requests.                                              *)
LEMMA OtherIsOther == \A k \in Attempt : Other(k) \in Attempt /\ Other(k) # k
BY DEF Attempt, Other

(* A step changes one request, ...                                         *)
LEMMA OneRequest ==
  ASSUME TypeOK, NEW c \in Call, NEW k \in Attempt, NEW x, Becomes(c, k, x)
  PROVE  \A d \in Call, j \in Attempt :
           request'[d][j] = IF d = c /\ j = k THEN x ELSE request[d][j]
BY DEF TypeOK, Becomes

(* ... or, when the command has ended, one result.                         *)
LEMMA OneResult ==
  ASSUME TypeOK, NEW c \in Call, NEW k \in Attempt, NEW x,
         result' = [result EXCEPT ![c][k] = x]
  PROVE  \A d \in Call, j \in Attempt :
           result'[d][j] = IF d = c /\ j = k THEN x ELSE result[d][j]
BY DEF TypeOK

(* A client that gives up, or sends again, loses at most what was sent.    *)
LEMMA LosesSent ==
  ASSUME TypeOK, NEW c \in Call, Retry(c) \/ GiveUp(c)
  PROVE  \A d \in Call, j \in Attempt :
           \/ request'[d][j] = request[d][j]
           \/ request[d][j] = "sent" /\ request'[d][j] = "lost"
           \/ d = c /\ j = 2 /\ client[c] = "first" /\ request'[d][j] = "sent"
<1>1. CASE Retry(c)
  <2>1. PICK x \in Dropped(c, 1) :
          request' = [request EXCEPT ![c] = [k \in Attempt |-> IF k = 1 THEN x ELSE "sent"]]
    BY <1>1 DEF Retry
  <2>2. \A d \in Call, j \in Attempt :
          request'[d][j] = IF d = c THEN IF j = 1 THEN x ELSE "sent" ELSE request[d][j]
    BY <2>1 DEF TypeOK
  <2>3. \A j \in Attempt : j = 1 \/ j = 2
    BY DEF Attempt
  <2>4. x = request[c][1] \/ (request[c][1] = "sent" /\ x = "lost")
    BY DEF Dropped
  <2>. QED
    BY <1>1, <2>2, <2>3, <2>4 DEF Retry
<1>2. CASE GiveUp(c)
  <2>1. PICK x \in Dropped(c, 2) : Becomes(c, 2, x)
    BY <1>2 DEF GiveUp
  <2>2. 2 \in Attempt
    BY DEF Attempt
  <2>. QED
    BY <2>1, <2>2, OneRequest DEF Dropped
<1>. QED
  BY <1>1, <1>2

(* A handler and its entry change together.                                *)
LEMMA KeepsConsistent == TypeOK /\ Consistent /\ [Next]_vars => Consistent'
<1> DEFINE At(c, k) ==
      /\ client[c] = "new" \/ (client[c] = "first" /\ k = 2) => request[c][k] = "none"
      /\ request[c][k] \in {"none", "sent", "lost", "waiting", "refused", "late", "running"} =>
           result[c][k] = "none"
      /\ request[c][k] = "stored" => result[c][k] # "none"
      /\ <<c, k>> \in done => result[c][k] # "none" /\ request[c][k] = result[c][k]
<1> SUFFICES ASSUME TypeOK, Consistent, [Next]_vars, NEW e \in Call, NEW j \in Attempt
             PROVE  At(e, j)'
  BY DEF Consistent
<1>0. /\ At(e, j)
      /\ request[e][j] \in {"none", "sent", "lost", "running", "stored", "waiting"} \cup Answer
      /\ result[e][j] \in {"none", "ok", "error"}
  BY DEF Consistent, TypeOK, Outcome
<1>1. ASSUME NEW c \in Call, Send(c) PROVE At(e, j)'
  <2>1. request'[e][j] = IF e = c /\ j = 1 THEN "sent" ELSE request[e][j]
    BY <1>1, OneRequest DEF Send, Attempt
  <2>2. client'[e] = IF e = c THEN "first" ELSE client[e]
    BY <1>1 DEF Send, TypeOK
  <2>. QED
    BY <1>0, <1>1, <2>1, <2>2 DEF Send, entries, outcomes, Answer, Outcome
<1>2. ASSUME NEW c \in Call, Retry(c) PROVE At(e, j)'
  <2>1. \/ request'[e][j] = request[e][j]
        \/ request[e][j] = "sent" /\ request'[e][j] = "lost"
        \/ e = c /\ j = 2 /\ client[c] = "first" /\ request'[e][j] = "sent"
    BY <1>2, LosesSent
  <2>2. client'[e] = IF e = c THEN "second" ELSE client[e]
    BY <1>2 DEF Retry, TypeOK
  <2>. QED
    BY <1>0, <1>2, <2>1, <2>2 DEF Retry, entries, outcomes, Answer, Outcome
<1>3. ASSUME NEW c \in Call, GiveUp(c) PROVE At(e, j)'
  <2>1. \/ request'[e][j] = request[e][j]
        \/ request[e][j] = "sent" /\ request'[e][j] = "lost"
        \/ e = c /\ j = 2 /\ client[c] = "first" /\ request'[e][j] = "sent"
    BY <1>3, LosesSent
  <2>2. client'[e] = IF e = c THEN "failed" ELSE client[e]
    BY <1>3 DEF GiveUp, TypeOK
  <2>. QED
    BY <1>0, <1>3, <2>1, <2>2 DEF GiveUp, entries, outcomes, Answer, Outcome
<1>4. ASSUME NEW c \in Call, Receive(c) PROVE At(e, j)'
  <2>2. client'[e] \in {"returned", "failed"} \/ client'[e] = client[e]
    BY <1>4 DEF Receive, TypeOK
  <2>. QED
    BY <1>0, <1>4, <2>2 DEF Receive, entries, outcomes, Answer, Outcome
<1>5. ASSUME NEW c \in Call, NEW k \in Attempt, Own(c, k) PROVE At(e, j)'
  <2>1. request'[e][j] = IF e = c /\ j = k THEN "running" ELSE request[e][j]
    BY <1>5, OneRequest DEF Own
  <2>. QED
    BY <1>0, <1>5, <2>1 DEF Own, entries, outcomes, Answer, Outcome
<1>6. ASSUME NEW c \in Call, NEW k \in Attempt, Refuse(c, k) PROVE At(e, j)'
  <2>1. request'[e][j] = IF e = c /\ j = k THEN "refused" ELSE request[e][j]
    BY <1>6, OneRequest DEF Refuse
  <2>. QED
    BY <1>0, <1>6, <2>1 DEF Refuse, entries, outcomes, Answer, Outcome
<1>7. ASSUME NEW c \in Call, NEW k \in Attempt, Join(c, k) PROVE At(e, j)'
  <2>1. request'[e][j] = IF e = c /\ j = k THEN "waiting" ELSE request[e][j]
    BY <1>7, OneRequest DEF Join
  <2>. QED
    BY <1>0, <1>7, <2>1 DEF Join, entries, outcomes, Answer, Outcome
<1>8. ASSUME NEW c \in Call, NEW k \in Attempt, Execute(c, k) PROVE At(e, j)'
  <2>1. request'[e][j] = IF e = c /\ j = k THEN "stored" ELSE request[e][j]
    BY <1>8, OneRequest DEF Execute
  <2>2. \/ result'[e][j] \in Outcome
        \/ ~(e = c /\ j = k) /\ result'[e][j] = result[e][j]
    <3>1. PICK r \in Outcome : result' = [result EXCEPT ![c][k] = r]
      BY <1>8 DEF Execute
    <3>2. result'[e][j] = IF e = c /\ j = k THEN r ELSE result[e][j]
      BY <3>1 DEF TypeOK
    <3>. QED
      BY <3>2
  <2>. QED
    BY <1>0, <1>8, <2>1, <2>2 DEF Execute, entries, outcomes, Answer, Outcome
<1>9. ASSUME NEW c \in Call, NEW k \in Attempt, Finish(c, k) PROVE At(e, j)'
  <2>1. request'[e][j] = IF e = c /\ j = k THEN result[c][k] ELSE request[e][j]
    BY <1>9, OneRequest DEF Finish
  <2>. QED
    BY <1>0, <1>9, <2>1 DEF Finish, entries, outcomes, Answer, Outcome
<1>10. ASSUME NEW c \in Call, NEW k \in Attempt, Joined(c, k) PROVE At(e, j)'
  <2>1. request'[e][j] = IF e = c /\ j = k THEN result[c][Other(k)] ELSE request[e][j]
    BY <1>10, OneRequest DEF Joined
  <2>2. result[c][Other(k)] \in Outcome
    BY <1>10, OtherIsOther DEF Joined, Consistent, TypeOK
  <2>. QED
    BY <1>0, <1>10, <2>1, <2>2 DEF Joined, entries, outcomes, Answer, Outcome
<1>11. ASSUME NEW c \in Call, NEW k \in Attempt, JoinLate(c, k) PROVE At(e, j)'
  <2>1. request'[e][j] = IF e = c /\ j = k THEN "late" ELSE request[e][j]
    BY <1>11, OneRequest DEF JoinLate
  <2>. QED
    BY <1>0, <1>11, <2>1 DEF JoinLate, entries, outcomes, Answer, Outcome
<1>12. CASE UNCHANGED vars
  BY <1>0, <1>12 DEF vars, entries, outcomes
<1>. QED
  BY <1>1, <1>2, <1>3, <1>4, <1>5, <1>6, <1>7, <1>8, <1>9, <1>10, <1>11, <1>12
  DEF Next, Handle

(* An id with a command in flight stays in the table.                      *)
LEMMA KeepsRemembered == TypeOK /\ Consistent /\ Remembered /\ [Next]_vars => Remembered'
<1> SUFFICES ASSUME TypeOK, Consistent, Remembered, [Next]_vars PROVE Remembered'
  OBVIOUS
<1> USE DEF TypeOK, Consistent, Remembered, InFlight, Ran, Attempt, Outcome, Answer,
      Other, Becomes, Dropped, entries, outcomes
<1>1. ASSUME NEW c \in Call, Send(c) PROVE Remembered'
  BY <1>1 DEF Send
<1>2. ASSUME NEW c \in Call, Retry(c) PROVE Remembered'
  BY <1>2 DEF Retry
<1>3. ASSUME NEW c \in Call, GiveUp(c) PROVE Remembered'
  BY <1>3 DEF GiveUp
<1>4. ASSUME NEW c \in Call, Receive(c) PROVE Remembered'
  BY <1>4 DEF Receive
<1>5. ASSUME NEW c \in Call, NEW k \in Attempt, Own(c, k) PROVE Remembered'
  <2>1. PICK gone \in SUBSET table :
          MakeRoom(gone) /\ Update(gone, {c})
    BY <1>5 DEF Own
  <2>2. \A d \in gone, j \in Attempt : ~InFlight(d, j)
    BY <2>1, RoomIsFinished
  <2>. QED
    BY <1>5, <2>1, <2>2 DEF Own, Update
<1>6. ASSUME NEW c \in Call, NEW k \in Attempt, Refuse(c, k) PROVE Remembered'
  <2>1. PICK gone \in SUBSET table :
          MakeRoom(gone) /\ Update(gone, {})
    BY <1>6 DEF Refuse
  <2>2. \A d \in gone, j \in Attempt : ~InFlight(d, j)
    BY <2>1, RoomIsFinished
  <2>. QED
    BY <1>6, <2>1, <2>2 DEF Refuse, Update
<1>7. ASSUME NEW c \in Call, NEW k \in Attempt, Join(c, k) PROVE Remembered'
  BY <1>7 DEF Join
<1>8. ASSUME NEW c \in Call, NEW k \in Attempt, Execute(c, k) PROVE Remembered'
  BY <1>8 DEF Execute
<1>9. ASSUME NEW c \in Call, NEW k \in Attempt, Finish(c, k) PROVE Remembered'
  BY <1>9 DEF Finish
<1>10. ASSUME NEW c \in Call, NEW k \in Attempt, Joined(c, k) PROVE Remembered'
  BY <1>10 DEF Joined
<1>11. ASSUME NEW c \in Call, NEW k \in Attempt, JoinLate(c, k) PROVE Remembered'
  BY <1>11 DEF JoinLate
<1>12. CASE UNCHANGED vars
  BY <1>12 DEF vars
<1>. QED
  BY <1>1, <1>2, <1>3, <1>4, <1>5, <1>6, <1>7, <1>8, <1>9, <1>10, <1>11, <1>12
  DEF Next, Handle

(* An answer stays, and what it answers with stays done.                   *)
LEMMA KeepsAnswered == TypeOK /\ Consistent /\ Answered /\ [Next]_vars => Answered'
<1> SUFFICES ASSUME TypeOK, Consistent, Answered, [Next]_vars, NEW e \in Call
             PROVE  /\ client'[e] = "returned" =>
                         \E j \in Attempt : request'[e][j] = "ok"
                    /\ \A j \in Attempt : request'[e][j] = "ok" =>
                         \E i \in Attempt : <<e, i>> \in done' /\ result'[e][i] = "ok"
  BY DEF Answered
<1>0. /\ client[e] = "returned" => \E j \in Attempt : request[e][j] = "ok"
      /\ \A j \in Attempt : request[e][j] = "ok" =>
           \E i \in Attempt : <<e, i>> \in done /\ result[e][i] = "ok"
  BY DEF Answered
<1>1. client'[e] = "returned" => client[e] = "returned" \/ \E j \in Attempt : request[e][j] = "ok"
  <2>1. ASSUME NEW c \in Call, Send(c) \/ Retry(c) \/ GiveUp(c)
        PROVE  client'[e] # "returned" \/ client'[e] = client[e]
    BY <2>1 DEF Send, Retry, GiveUp, TypeOK
  <2>2. ASSUME NEW c \in Call, Receive(c)
        PROVE  \/ client'[e] # "returned" \/ client'[e] = client[e]
               \/ \E j \in Attempt : request[e][j] = "ok"
    BY <2>2 DEF Receive, TypeOK
  <2>3. ASSUME NEW c \in Call, NEW k \in Attempt, Handle(c, k) \/ JoinLate(c, k)
        PROVE  client' = client
    BY <2>3 DEF Handle, Own, Refuse, Join, Execute, Finish, Joined, JoinLate
  <2>. QED
    BY <2>1, <2>2, <2>3 DEF Next, vars
<1>2. ASSUME NEW j \in Attempt
      PROVE  /\ request[e][j] = "ok" => request'[e][j] = "ok"
             /\ request'[e][j] = "ok" =>
                  \/ request[e][j] = "ok"
                  \/ \E i \in Attempt : <<e, i>> \in done' /\ result'[e][i] = "ok"
  <2> DEFINE Good ==
        /\ request[e][j] = "ok" => request'[e][j] = "ok"
        /\ request'[e][j] = "ok" =>
             \/ request[e][j] = "ok"
             \/ \E i \in Attempt : <<e, i>> \in done' /\ result'[e][i] = "ok"
  <2>1. ASSUME NEW c \in Call, Send(c) PROVE Good
    <3>1. request'[e][j] = IF e = c /\ j = 1 THEN "sent" ELSE request[e][j]
      BY <2>1, OneRequest DEF Send, Attempt
    <3>2. client[e] = "new" => request[e][j] = "none"
      BY DEF Consistent
    <3>. QED
      BY <2>1, <3>1, <3>2 DEF Send
  <2>2. ASSUME NEW c \in Call, Retry(c) \/ GiveUp(c) PROVE Good
    <3>1. \/ request'[e][j] = request[e][j]
          \/ request[e][j] = "sent" /\ request'[e][j] = "lost"
          \/ e = c /\ j = 2 /\ client[c] = "first" /\ request'[e][j] = "sent"
      BY <2>2, LosesSent
    <3>2. client[e] = "first" /\ j = 2 => request[e][j] = "none"
      BY DEF Consistent
    <3>. QED
      BY <3>1, <3>2
  <2>3. ASSUME NEW c \in Call, Receive(c) PROVE Good
    BY <2>3 DEF Receive
  <2>4. ASSUME NEW c \in Call, NEW k \in Attempt, Own(c, k) PROVE Good
    <3>1. request'[e][j] = IF e = c /\ j = k THEN "running" ELSE request[e][j]
      BY <2>4, OneRequest DEF Own
    <3>. QED
      BY <2>4, <3>1 DEF Own
  <2>5. ASSUME NEW c \in Call, NEW k \in Attempt, Refuse(c, k) PROVE Good
    <3>1. request'[e][j] = IF e = c /\ j = k THEN "refused" ELSE request[e][j]
      BY <2>5, OneRequest DEF Refuse
    <3>. QED
      BY <2>5, <3>1 DEF Refuse
  <2>6. ASSUME NEW c \in Call, NEW k \in Attempt, Join(c, k) PROVE Good
    <3>1. request'[e][j] = IF e = c /\ j = k THEN "waiting" ELSE request[e][j]
      BY <2>6, OneRequest DEF Join
    <3>. QED
      BY <2>6, <3>1 DEF Join
  <2>7. ASSUME NEW c \in Call, NEW k \in Attempt, Execute(c, k) PROVE Good
    <3>1. request'[e][j] = IF e = c /\ j = k THEN "stored" ELSE request[e][j]
      BY <2>7, OneRequest DEF Execute
    <3>. QED
      BY <2>7, <3>1 DEF Execute
  <2>8. ASSUME NEW c \in Call, NEW k \in Attempt, JoinLate(c, k) PROVE Good
    <3>1. request'[e][j] = IF e = c /\ j = k THEN "late" ELSE request[e][j]
      BY <2>8, OneRequest DEF JoinLate
    <3>. QED
      BY <2>8, <3>1 DEF JoinLate
  <2>9. ASSUME NEW c \in Call, NEW k \in Attempt, Finish(c, k) PROVE Good
    <3>1. request'[e][j] = IF e = c /\ j = k THEN result[c][k] ELSE request[e][j]
      BY <2>9, OneRequest DEF Finish
    <3>. QED
      BY <2>9, <3>1 DEF Finish
  <2>10. ASSUME NEW c \in Call, NEW k \in Attempt, Joined(c, k) PROVE Good
    <3>1. request'[e][j] = IF e = c /\ j = k THEN result[c][Other(k)] ELSE request[e][j]
      BY <2>10, OneRequest DEF Joined
    <3>. QED
      BY <2>10, <3>1, OtherIsOther DEF Joined, outcomes
  <2>11. CASE UNCHANGED vars
    BY <2>11 DEF vars
  <2>. QED
    BY <2>1, <2>2, <2>3, <2>4, <2>5, <2>6, <2>7, <2>8, <2>9, <2>10, <2>11 DEF Next, Handle
<1>3. ASSUME NEW i \in Attempt, <<e, i>> \in done, result[e][i] = "ok"
      PROVE  <<e, i>> \in done' /\ result'[e][i] = "ok"
  <2>1. ASSUME NEW c \in Call, NEW k \in Attempt, Execute(c, k)
        PROVE  <<e, i>> \in done' /\ result'[e][i] = "ok"
    <3>1. PICK r \in Outcome : result' = [result EXCEPT ![c][k] = r]
      BY <2>1 DEF Execute
    <3>2. ~(e = c /\ i = k)
      BY <1>3, <2>1 DEF Execute, Consistent
    <3>. QED
      BY <1>3, <2>1, <3>1, <3>2, OneResult DEF Execute
  <2>2. CASE UNCHANGED outcomes
    BY <1>3, <2>2 DEF outcomes
  <2>3. ASSUME NEW c \in Call, NEW k \in Attempt, Finish(c, k)
        PROVE  <<e, i>> \in done' /\ result'[e][i] = "ok"
    BY <1>3, <2>3 DEF Finish
  <2>. QED
    BY <2>1, <2>2, <2>3 DEF Next, Handle, Send, Retry, GiveUp, Receive, Own, Refuse,
      Join, Joined, JoinLate, vars
<1>. QED
  BY <1>0, <1>1, <1>2, <1>3

(* The inductive invariant of the agent and its client.                    *)
THEOREM AgentInvariant == Spec => []AgentInv
<1>1. Init => AgentInv
  BY DEF Init, AgentInv, Consistent, Remembered, Answered, InFlight, Ran, Attempt, Other
<1>2. TypeOK /\ AgentInv /\ [Next]_vars => AgentInv'
  BY KeepsConsistent, KeepsRemembered, KeepsAnswered DEF AgentInv
<1>. QED
  BY <1>1, <1>2, TypeCorrect, PTL DEF Spec

(* A command runs again only once the agent has forgotten its id.          *)
THEOREM RerunsNeedEviction == Spec => []RunsAgainOnlyIfEvicted
<1>1. AgentInv => RunsAgainOnlyIfEvicted
  BY DEF AgentInv, Remembered, RunsAgainOnlyIfEvicted
<1>. QED
  BY <1>1, AgentInvariant, PTL

(* A command never runs twice at the same time.                            *)
THEOREM OneRunAtATime == Spec => []NeverBesideItself
<1>1. AgentInv => NeverBesideItself
  BY DEF AgentInv, Remembered, NeverBesideItself, InFlight, Attempt, Other
<1>. QED
  BY <1>1, AgentInvariant, PTL

(* What exec() returns is the result of a run that ended well, and while   *)
(* the id is known the command does not run any more.                      *)
THEOREM ReturnedIsOver == Spec => []ReturnsAResult
<1>1. TypeOK /\ AgentInv => ReturnsAResult
  BY DEF TypeOK, AgentInv, Consistent, Remembered, Answered, ReturnsAResult, Ran, Attempt
<1>. QED
  BY <1>1, TypeCorrect, AgentInvariant, PTL

-----------------------------------------------------------------------------
(* The table never holds more than MAX_REQUESTS ids.                       *)
Bounded == Cardinality(table) <= MaxRequests

(* Making room leaves a finite table, no larger, and smaller if any entry  *)
(* of a full one had finished.                                             *)
LEMMA RoomIsMade ==
  ASSUME TypeOK, NEW gone, MakeRoom(gone)
  PROVE  /\ IsFiniteSet(table) /\ IsFiniteSet(table \ gone)
         /\ Cardinality(table) \in Nat /\ Cardinality(table \ gone) \in Nat
         /\ Cardinality(table \ gone) <= Cardinality(table)
         /\ Cardinality(table) < MaxRequests => gone = {}
         /\ Finished # {} /\ Cardinality(table) >= MaxRequests =>
              Cardinality(table \ gone) < Cardinality(table)
<1>1. IsFiniteSet(table)
  BY AgentAssumption, FS_Subset DEF TypeOK
<1>2. IsFiniteSet(table \ gone) /\ table \ gone \in SUBSET table
  BY <1>1, FS_Difference
<1>3. Cardinality(table) \in Nat /\ Cardinality(table \ gone) \in Nat
  BY <1>1, <1>2, FS_CardinalityType
<1>4. Cardinality(table \ gone) <= Cardinality(table)
  BY <1>1, <1>2, FS_Subset
<1>5. Cardinality(table) < MaxRequests => gone = {}
  BY DEF MakeRoom
<1>6. ASSUME Finished # {}, Cardinality(table) >= MaxRequests
      PROVE  Cardinality(table \ gone) < Cardinality(table)
  <2>1. gone \subseteq Finished /\ Cardinality(gone) = Quarter(Cardinality(Finished))
    BY <1>3, <1>6, AgentAssumption DEF MakeRoom
  <2>2. Finished \in SUBSET table
    BY DEF Finished
  <2>3. IsFiniteSet(Finished)
    BY <1>1, <2>2, FS_Subset
  <2>4. Cardinality(Finished) \in Nat /\ Cardinality(Finished) # 0
    BY <1>6, <2>3, FS_CardinalityType, FS_EmptySet
  <2>5. Cardinality(gone) # 0
    BY <2>1, <2>4 DEF Quarter
  <2>6. gone # {}
    BY <2>5, FS_EmptySet
  <2>7. table \ gone # table
    BY <2>1, <2>2, <2>6
  <2>8. Cardinality(table) # Cardinality(table \ gone)
    BY <1>1, <1>2, <2>7, FS_Subset
  <2>. QED
    BY <1>3, <1>4, <2>8
<1>. QED
  BY <1>1, <1>2, <1>3, <1>4, <1>5, <1>6

(* Only a new id makes the table larger, and only where there is room.     *)
LEMMA KeepsBounded == TypeOK /\ Bounded /\ [Next]_vars => Bounded'
<1> SUFFICES ASSUME TypeOK, Bounded, [Next]_vars PROVE Bounded'
  OBVIOUS
<1>1. ASSUME NEW c \in Call, NEW k \in Attempt, Own(c, k) PROVE Bounded'
  <2>1. PICK gone \in SUBSET table :
          /\ MakeRoom(gone)
          /\ Cardinality(table \ gone) < MaxRequests
          /\ table' = (table \ gone) \cup {c}
    BY <1>1 DEF Own, Update
  <2>2. IsFiniteSet(table \ gone) /\ Cardinality(table \ gone) \in Nat
    BY <2>1, RoomIsMade
  <2>3. Cardinality((table \ gone) \cup {c}) =
          IF c \in table \ gone THEN Cardinality(table \ gone) ELSE Cardinality(table \ gone) + 1
    BY <2>2, FS_AddElement, Zenon
  <2>. QED
    BY <2>1, <2>2, <2>3, AgentAssumption DEF Bounded
<1>2. ASSUME NEW c \in Call, NEW k \in Attempt, Refuse(c, k) PROVE Bounded'
  <2>1. PICK gone \in SUBSET table : MakeRoom(gone) /\ table' = table \ gone
    BY <1>2 DEF Refuse, Update
  <2>2. /\ Cardinality(table) \in Nat /\ Cardinality(table \ gone) \in Nat
        /\ Cardinality(table \ gone) <= Cardinality(table)
    BY <2>1, RoomIsMade
  <2>. QED
    BY <2>1, <2>2, AgentAssumption DEF Bounded
<1>3. CASE UNCHANGED table
  BY <1>3 DEF Bounded
<1>. QED
  BY <1>1, <1>2, <1>3
  DEF Next, Handle, Send, Retry, GiveUp, Receive, Join, Execute, Finish, Joined, JoinLate,
    vars, entries

(* "too many commands in flight" is only said of a full table in which     *)
(* every command still runs.                                               *)
THEOREM RefusalIsJustified == Spec => RefusedOnlyWhenFull
<1> DEFINE Full == Finished = {} /\ Cardinality(table) >= MaxRequests
<1> DEFINE Says ==
      \A c \in Call, k \in Attempt :
        request'[c][k] = "refused" /\ request[c][k] # "refused" => Full
<1>1. TypeOK /\ Consistent /\ Bounded /\ [Next]_vars => [Says]_vars
  <2> SUFFICES ASSUME TypeOK, Consistent, Bounded, Next, NEW e \in Call, NEW j \in Attempt,
                      request'[e][j] = "refused", request[e][j] # "refused"
               PROVE  Full
    OBVIOUS
  <2> HIDE DEF Full
  <2>1. ASSUME NEW c \in Call, NEW k \in Attempt, Refuse(c, k) PROVE Full
    <3>1. PICK gone \in SUBSET table :
            MakeRoom(gone) /\ Cardinality(table \ gone) >= MaxRequests
      BY <2>1 DEF Refuse
    <3>2. /\ Cardinality(table) \in Nat /\ Cardinality(table \ gone) \in Nat
          /\ Cardinality(table \ gone) <= Cardinality(table)
          /\ Finished # {} /\ Cardinality(table) >= MaxRequests =>
               Cardinality(table \ gone) < Cardinality(table)
      BY <3>1, RoomIsMade
    <3>. QED
      BY <3>1, <3>2, AgentAssumption DEF Full, Bounded
  <2>2. ASSUME NEW c \in Call, Send(c) PROVE FALSE
    BY <2>2, OneRequest DEF Send, Attempt
  <2>3. ASSUME NEW c \in Call, Retry(c) \/ GiveUp(c) PROVE FALSE
    BY <2>3, LosesSent
  <2>4. ASSUME NEW c \in Call, Receive(c) PROVE FALSE
    BY <2>4 DEF Receive
  <2>5. ASSUME NEW c \in Call, NEW k \in Attempt, Own(c, k) PROVE FALSE
    <3>1. request'[e][j] = IF e = c /\ j = k THEN "running" ELSE request[e][j]
      BY <2>5, OneRequest DEF Own
    <3>. QED
      BY <3>1
  <2>6. ASSUME NEW c \in Call, NEW k \in Attempt, Join(c, k) PROVE FALSE
    <3>1. request'[e][j] = IF e = c /\ j = k THEN "waiting" ELSE request[e][j]
      BY <2>6, OneRequest DEF Join
    <3>. QED
      BY <3>1
  <2>7. ASSUME NEW c \in Call, NEW k \in Attempt, Execute(c, k) PROVE FALSE
    <3>1. request'[e][j] = IF e = c /\ j = k THEN "stored" ELSE request[e][j]
      BY <2>7, OneRequest DEF Execute
    <3>. QED
      BY <3>1
  <2>8. ASSUME NEW c \in Call, NEW k \in Attempt, Finish(c, k) PROVE FALSE
    <3>1. request'[e][j] = IF e = c /\ j = k THEN result[c][k] ELSE request[e][j]
      BY <2>8, OneRequest DEF Finish
    <3>2. result[c][k] # "refused"
      BY DEF TypeOK, Outcome
    <3>. QED
      BY <3>1, <3>2
  <2>9. ASSUME NEW c \in Call, NEW k \in Attempt, Joined(c, k) PROVE FALSE
    <3>1. request'[e][j] = IF e = c /\ j = k THEN result[c][Other(k)] ELSE request[e][j]
      BY <2>9, OneRequest DEF Joined
    <3>2. result[c][Other(k)] # "refused"
      BY OtherIsOther DEF TypeOK, Outcome
    <3>. QED
      BY <3>1, <3>2
  <2>10. ASSUME NEW c \in Call, NEW k \in Attempt, JoinLate(c, k) PROVE FALSE
    <3>1. request'[e][j] = IF e = c /\ j = k THEN "late" ELSE request[e][j]
      BY <2>10, OneRequest DEF JoinLate
    <3>. QED
      BY <3>1
  <2>. QED
    BY <2>1, <2>2, <2>3, <2>4, <2>5, <2>6, <2>7, <2>8, <2>9, <2>10 DEF Next, Handle
<1>2. Init => Bounded
  BY AgentAssumption, FS_EmptySet DEF Init, Bounded
<1>3. AgentInv => Consistent
  BY DEF AgentInv
<1>. QED
  BY <1>1, <1>2, <1>3, TypeCorrect, AgentInvariant, KeepsBounded, PTL
  DEF Spec, RefusedOnlyWhenFull

(* While no more calls are made than the agent remembers, it runs every    *)
(* command at most once, as its documentation says.                        *)
THEOREM RunsOnceWithRoom ==
  ASSUME Cardinality(Call) <= MaxRequests
  PROVE  Spec => []RunsOnce
<1> DEFINE NoneForgotten == evicted = {}
<1>1. Init => NoneForgotten
  BY DEF Init
<1>2. TypeOK /\ NoneForgotten /\ [Next]_vars => NoneForgotten'
  <2> SUFFICES ASSUME TypeOK, evicted = {}, [Next]_vars PROVE evicted' = {}
    OBVIOUS
  <2>1. ASSUME NEW c \in Call, NEW k \in Attempt, Own(c, k) \/ Refuse(c, k)
        PROVE  evicted' = {}
    <3>1. PICK gone \in SUBSET table : MakeRoom(gone) /\ evicted' = evicted \cup gone
      BY <2>1 DEF Own, Refuse, Update
    <3>2. table \in SUBSET Call /\ table # Call
      BY <2>1 DEF TypeOK, Own, Refuse
    <3>3. /\ Cardinality(table) <= Cardinality(Call)
          /\ Cardinality(table) # Cardinality(Call)
          /\ Cardinality(table) \in Nat /\ Cardinality(Call) \in Nat
      BY <3>2, AgentAssumption, FS_Subset, FS_CardinalityType
    <3>4. Cardinality(table) < MaxRequests
      BY <3>3, AgentAssumption
    <3>. QED
      BY <3>1, <3>4, RoomIsMade
  <2>2. CASE UNCHANGED evicted
    BY <2>2
  <2>. QED
    BY <2>1, <2>2
    DEF Next, Handle, Send, Retry, GiveUp, Receive, Join, Execute, Finish, Joined, JoinLate,
      vars, entries
<1>3. AgentInv /\ NoneForgotten => RunsOnce
  BY DEF AgentInv, Remembered, RunsOnce
<1> HIDE DEF NoneForgotten
<1>. QED
  BY <1>1, <1>2, <1>3, TypeCorrect, AgentInvariant, PTL DEF Spec

=============================================================================
