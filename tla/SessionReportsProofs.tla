------------------------ MODULE SessionReportsProofs ------------------------
(***************************************************************************)
(* What a session reports: to the agent, of its tool calls and of what it  *)
(* has spent (AgentRun), and as the verdict of a run, while it lives and   *)
(* from its recording (Evaluation).  Both are about data that is computed  *)
(* by recursion, over the recorded events and over the responses, so the   *)
(* induction and the recursion of SessionHostsProofs are used.  The rules  *)
(* of the evaluation stay unopened: the theorem holds whatever they come   *)
(* to.  At the end are the types of all of SessionWork.                    *)
(***************************************************************************)
EXTENDS SessionHostsProofs, SessionWorkProofs

-----------------------------------------------------------------------------
(* What the recording has of a run *)

(* Of a long output it has the ends.                                        *)
Short == {Grading!Clipped(o) : o \in Outcomes}
ExecEvent == [run : 1..2, out : Short]

(* What the lines of a recording have of a run. *)
OutsTable(lines, r) ==
    CHOOSE outs : outs = [n \in 0..Len(lines) |->
        IF n = 0 THEN <<>>
        ELSE IF lines[n].run = r THEN Append(outs[n - 1], lines[n].out) ELSE outs[n - 1]]

(* The table has at each place what the lines up to there have of the run.  *)
LEMMA TableIs ==
  ASSUME NEW lines \in Seq(ExecEvent), NEW r \in 1..2
  PROVE  /\ OutsTable(lines, r) \in [0..Len(lines) -> Seq(Short)]
         /\ OutsTable(lines, r)[0] = <<>>
         /\ \A i \in 1..Len(lines) :
              OutsTable(lines, r)[i] = IF lines[i].run = r THEN Append(OutsTable(lines, r)[i - 1], lines[i].out)
                                   ELSE OutsTable(lines, r)[i - 1]
<1> DEFINE n == Len(lines)
           V == Seq(Short)
           b == <<>>
           F == [x \in V \X (1..n) |->
                   IF lines[x[2]].run = r THEN Append(x[1], lines[x[2]].out) ELSE x[1]]
           Is(g) == g = [i \in 0..n |-> IF i = 0 THEN b
                           ELSE IF lines[i].run = r THEN Append(g[i - 1], lines[i].out) ELSE g[i - 1]]
           tab == CHOOSE g : Is(g)
<1>1. n \in Nat /\ b \in V
  OBVIOUS
<1>2. ASSUME NEW v \in V, NEW i \in 1..n
      PROVE  F[<<v, i>>] = IF lines[i].run = r THEN Append(v, lines[i].out) ELSE v
  OBVIOUS
<1>3. ASSUME NEW i \in 1..n PROVE lines[i].out \in Short
  <2>1. lines[i] \in ExecEvent
    OBVIOUS
  <2>. QED
    BY <2>1 DEF ExecEvent
<1>4. F \in [V \X (1..n) -> V]
  <2>1. ASSUME NEW v \in V, NEW i \in 1..n
        PROVE  (IF lines[i].run = r THEN Append(v, lines[i].out) ELSE v) \in V
    BY <1>3
  <2>. QED
    BY <2>1
<1>5. PICK f : f \in Recursive(V, b, n, F)
  <2> HIDE DEF n, F, V, b
  <2>. QED
    BY ONLY <1>1, <1>4, RecursionExists
<1>6. \E g : Is(g)
  <2> HIDE DEF n, F, V, b
  <2>1. f \in [0..n -> V] /\ f[0] = b /\ \A i \in 1..n : f[i] = F[<<f[i - 1], i>>]
    BY <1>5 DEF Recursive
  <2>2. ASSUME NEW i \in 1..n
        PROVE  f[i] = IF lines[i].run = r THEN Append(f[i - 1], lines[i].out) ELSE f[i - 1]
    <3>1. f[i - 1] \in V /\ f[i] = F[<<f[i - 1], i>>]
      BY <1>1, <2>1
    <3>. QED
      BY <1>2, <3>1
  <2>3. ASSUME NEW i \in 0..n
        PROVE  f[i] = IF i = 0 THEN b
                      ELSE IF lines[i].run = r THEN Append(f[i - 1], lines[i].out) ELSE f[i - 1]
    <3>1. CASE i = 0
      BY <2>1, <3>1
    <3>2. CASE i \in 1..n
      BY <1>1, <2>2, <3>2
    <3>. QED
      BY <1>1, <3>1, <3>2
  <2>4. Is(f)
    BY ONLY <2>1, <2>3
  <2>. QED
    BY <2>4
<1>7. Is(tab)
  <2> HIDE DEF Is
  <2>. QED
    BY <1>6
<1>8. tab = OutsTable(lines, r)
  BY DEF OutsTable
<1>9. tab[0] = b
  <2> HIDE DEF tab, V
  <2>. QED
    BY <1>7
<1>10. ASSUME NEW i \in 1..n
       PROVE  tab[i] = IF lines[i].run = r THEN Append(tab[i - 1], lines[i].out) ELSE tab[i - 1]
  <2> HIDE DEF tab, V, n
  <2>1. i \in 0..n /\ i # 0
    BY <1>1
  <2>. QED
    BY ONLY <1>7, <2>1
<1>11. \A i \in 0..n : tab[i] \in V
  <2> DEFINE S == {i \in 0..n : tab[i] \in V}
  <2>1. 0 \in S
    <3> HIDE DEF tab, V, b
    <3>. QED
      BY <1>1, <1>9
  <2>2. ASSUME NEW i \in 1..n, i - 1 \in S PROVE i \in S
    <3>1. tab[i - 1] \in V /\ i \in 0..n
      BY <2>2
    <3>2. tab[i] \in V
      <4> HIDE DEF tab, n
      <4>1. lines[i].out \in Short
        BY <1>3
      <4>2. tab[i] = IF lines[i].run = r THEN Append(tab[i - 1], lines[i].out) ELSE tab[i - 1]
        BY <1>10
      <4>. QED
        BY ONLY <3>1, <4>1, <4>2
    <3>. QED
      BY <3>1, <3>2
  <2>3. \A i \in 0..n : i \in S
    <3> HIDE DEF S, n
    <3>. QED
      BY ONLY <1>1, <2>1, <2>2, InductionUpTo
  <2>. QED
    BY <2>3
<1>12. tab \in [0..n -> V]
  <2>1. tab = [i \in 0..n |-> tab[i]]
    <3> HIDE DEF tab, V
    <3>. QED
      BY <1>7
  <2> HIDE DEF tab, V
  <2>. QED
    BY <1>11, <2>1
<1> HIDE DEF tab
<1>. QED
  BY <1>8, <1>9, <1>10, <1>12

(* What the recording of the grading part has of a run. *)
OutsOf(lines, r) == OutsTable(lines, r)[Len(lines)]

(* It is what the model reads. *)
LEMMA EventsOfTable == \A r : Grading!EventsOf(r) = OutsOf(events, r)
  BY DEF Grading!EventsOf, OutsOf, OutsTable

(* One line more adds to what is recorded of its run, and of no other. *)
LEMMA LineAdds ==
  ASSUME NEW lines \in Seq(ExecEvent), NEW line \in ExecEvent, NEW r \in 1..2
  PROVE  /\ OutsOf(lines, r) \in Seq(Short)
         /\ OutsOf(Append(lines, line), r) = IF line.run = r THEN Append(OutsOf(lines, r), line.out)
                                             ELSE OutsOf(lines, r)
<1> DEFINE n == Len(lines)
           more == Append(lines, line)
           f == OutsTable(lines, r)
           g == OutsTable(more, r)
           S == {i \in 0..n : g[i] = f[i]}
<1>1. /\ n \in Nat /\ more \in Seq(ExecEvent) /\ Len(more) = n + 1 /\ more[n + 1] = line
      /\ \A i \in 1..n : more[i] = lines[i]
  OBVIOUS
<1>2. /\ f \in [0..n -> Seq(Short)] /\ f[0] = <<>>
      /\ \A i \in 1..n : f[i] = IF lines[i].run = r THEN Append(f[i - 1], lines[i].out) ELSE f[i - 1]
  BY TableIs
<1>3. /\ g[0] = <<>>
      /\ \A i \in 1..(n + 1) : g[i] = IF more[i].run = r THEN Append(g[i - 1], more[i].out) ELSE g[i - 1]
  <2> HIDE DEF more, n
  <2>1. g \in [0..Len(more) -> Seq(Short)] /\ g[0] = <<>>
        /\ \A i \in 1..Len(more) :
             g[i] = IF more[i].run = r THEN Append(g[i - 1], more[i].out) ELSE g[i - 1]
    BY <1>1, TableIs
  <2>. QED
    BY ONLY <1>1, <2>1
<1> HIDE DEF f, g, more
<1>4. 0 \in S
  BY <1>1, <1>2, <1>3
<1>5. ASSUME NEW i \in 1..n, i - 1 \in S PROVE i \in S
  <2>1. g[i - 1] = f[i - 1] /\ i \in 0..n /\ i \in 1..(n + 1)
    BY <1>5
  <2>. QED
    BY <1>1, <1>2, <1>3, <2>1
<1>6. \A i \in 0..n : i \in S
  <2> HIDE DEF S, n
  <2>. QED
    BY ONLY <1>1, <1>4, <1>5, InductionUpTo
<1>7. g[n] = f[n] /\ (n + 1) - 1 = n
  BY <1>1, <1>6
<1>8. g[n + 1] = IF line.run = r THEN Append(f[n], line.out) ELSE f[n]
  <2> HIDE DEF n
  <2>1. n + 1 \in 1..(n + 1)
    BY <1>1
  <2>. QED
    BY <1>1, <1>3, <1>7, <2>1
<1>9. OutsOf(lines, r) = f[n] /\ OutsOf(more, r) = g[n + 1]
  BY <1>1 DEF OutsOf, f, g
<1>10. f[n] \in Seq(Short)
  BY <1>1, <1>2
<1>. QED
  BY <1>8, <1>9, <1>10 DEF more

(* Nothing recorded. *)
LEMMA NoLines == \A r \in 1..2 : OutsOf(<<>>, r) = <<>>
<1>1. <<>> \in Seq(ExecEvent) /\ Len(<<>>) = 0
  OBVIOUS
<1>. QED
  BY <1>1, TableIs DEF OutsOf

(* What a recording keeps of the results of a run.                          *)
ClippedAll(rs) == [i \in DOMAIN rs |-> Grading!Clipped(rs[i])]

(* A result more is kept like those before; none are kept of none, and all   *)
(* as they are when none is long.                                          *)
LEMMA ClippedAppends ==
  ASSUME NEW rs \in Seq(Outcomes), NEW o \in Outcomes
  PROVE  /\ ClippedAll(Append(rs, o)) = Append(ClippedAll(rs), Grading!Clipped(o))
         /\ ClippedAll(rs) \in Seq(Short) /\ (ClippedAll(rs) = <<>> <=> rs = <<>>)
         /\ (\A i \in DOMAIN rs : ~rs[i].long) => ClippedAll(rs) = rs
<1>1. ASSUME NEW i \in DOMAIN rs PROVE Grading!Clipped(rs[i]) \in Short
  BY DEF Short
<1>2. Grading!Clipped(o) \in Short
  BY DEF Short
<1>3. (\A i \in DOMAIN rs : ~rs[i].long) => ClippedAll(rs) = rs
  <2> SUFFICES ASSUME \A i \in DOMAIN rs : ~rs[i].long PROVE ClippedAll(rs) = rs
    OBVIOUS
  <2>1. \A i \in DOMAIN rs : Grading!Clipped(rs[i]) = rs[i]
    BY DEF Grading!Clipped
  <2>2. rs = [i \in DOMAIN rs |-> rs[i]]
    OBVIOUS
  <2>3. ClippedAll(rs) = [i \in DOMAIN rs |-> rs[i]]
    BY <2>1 DEF ClippedAll
  <2>. QED
    BY ONLY <2>2, <2>3
<1> DEFINE c(x) == Grading!Clipped(x)
<1>4. \A x : c(x) = Grading!Clipped(x)
  OBVIOUS
<1> HIDE DEF c
<1>5. ClippedAll(rs) = [i \in 1..Len(rs) |-> c(rs[i])] /\ Len(rs) \in Nat
  BY <1>4 DEF ClippedAll
<1>6. ClippedAll(rs) \in Seq(Short) /\ Len(ClippedAll(rs)) = Len(rs)
  BY <1>1, <1>4, <1>5
<1>7. ClippedAll(Append(rs, o)) = [i \in 1..(Len(rs) + 1) |-> c(Append(rs, o)[i])]
  BY <1>4 DEF ClippedAll
<1>8. ClippedAll(Append(rs, o)) = Append(ClippedAll(rs), c(o))
  BY <1>5, <1>6, <1>7
<1>. QED
  BY <1>3, <1>4, <1>5, <1>6, <1>8

(* A step of the whole is one of the grading, or leaves it as it is. *)
LEMMA GradingStep == [WNext]_<<focus, vars, hostVars, workVars>> => [Grading!Next]_gradingVars
  BY DEF WNext, HNext, Work, workVars, gradingVars

Say == Outcomes \cup {Grading!Absent}
Tally == {"pass", "fail", "error", "none", "absent"}
Persist == [meta : [1..2 -> Tally], harness : [1..2 -> Say]]
Graded == [made : {TRUE}, run : 1..2, criteria : Criterias, ver : Say, saved : BOOLEAN,
           there : BOOLEAN, long : BOOLEAN, opinion : {0, 100}, pytest : BOOLEAN, passed : BOOLEAN]
Executing == [pc : {"idle", "ran", "written"}, run : 1..2, out : Say, pytest : BOOLEAN]
Evaluating == [pc : {"idle", "verify", "write", "attach", "grade", "save"}, run : 1..2,
               criteria : Criterias \cup {[checks |-> {}]}, ver : Say, mine : 1..2]
Reopened == {Grading!Unopened} \cup [made : {TRUE}, late : BOOLEAN, saved : Persist]

RecordTypes ==
    /\ results \in [1..2 -> Seq(Outcomes)] /\ events \in Seq(ExecEvent)
    /\ nruns \in 1..2 /\ graded \in 0..2 /\ graded <= nruns

GradingTypes ==
    /\ RecordTypes
    /\ meta \in [1..2 -> Tally] /\ harness \in [1..2 -> Say] /\ saved \in Persist
    /\ worker \in [Worker -> Executing]
    /\ \A w \in Worker : worker[w].pc # "idle" => worker[w].out \in Outcomes
    /\ eval \in Evaluating
    /\ eval.pc # "idle" => eval.criteria \in Criterias
    /\ eval.pc \in {"write", "attach"} => eval.ver \in Outcomes
    /\ verdict \in Graded \cup {Grading!NoReport} /\ again \in Graded \cup {Grading!NoReport, Grading!Ungraded}
    /\ reread \in Reopened
    /\ alive \in BOOLEAN /\ gone \in BOOLEAN /\ same \in BOOLEAN /\ mixed \in BOOLEAN

(* What follows what.                                                       *)
GradingOrder ==
    /\ gone => ~alive
    /\ ~alive => eval.pc = "idle" /\ \A w \in Worker : worker[w].pc = "idle"
    /\ eval.pc = "save" => verdict.made
    /\ reread.made /\ reread.late => ~alive /\ verdict.made
    /\ again.made => reread.made
    /\ same => verdict.made
    /\ same /\ eval.pc = "write" => eval.mine # verdict.run

(* What an execution comes to has an exit code and a count of tests. *)
LEMMA OutcomesTyped ==
  /\ \A o \in Outcomes : o.tests \in Tally
  /\ Outcomes \subseteq Say /\ Grading!Absent \in Say
  BY DEF Outcomes, Tally, Say

(* The rules come to yes or no.                                             *)
LEMMA RulesDecide ==
  /\ \A c, v, m, rs, t, o : Grading!Aggregate(c, v, m, rs, t, o) \in BOOLEAN
  /\ \A c : Grading!Opinions(c) \subseteq {0, 100} /\ Grading!Listings(c) \subseteq BOOLEAN
<1>1. \A c, v, m, rs, t, o : Grading!Aggregate(c, v, m, rs, t, o) \in BOOLEAN
  BY DEF Grading!Aggregate
<1>2. \A c : Grading!Opinions(c) \subseteq {0, 100} /\ Grading!Listings(c) \subseteq BOOLEAN
  BY DEF Grading!Opinions, Grading!Listings
<1>. QED
  BY <1>1, <1>2

(* Saving a report changes nothing else of it.                              *)
LEMMA ReportSaved ==
  ASSUME NEW v \in Graded
  PROVE  LET w == [v EXCEPT !.saved = TRUE]
         IN  /\ w \in Graded /\ w.made /\ w.saved = TRUE
             /\ w.run = v.run /\ w.criteria = v.criteria /\ w.ver = v.ver /\ w.opinion = v.opinion
             /\ w.there = v.there /\ w.long = v.long /\ w.pytest = v.pytest /\ w.passed = v.passed
  BY DEF Graded

(* A report that was made is one.                                           *)
LEMMA MadeIsGraded ==
  ASSUME NEW v \in Graded \cup {Grading!NoReport} PROVE v.made \in BOOLEAN /\ (v.made => v \in Graded)
<1>1. CASE v \in Graded
  BY <1>1 DEF Graded
<1>2. CASE v = Grading!NoReport
  BY <1>2 DEF Grading!NoReport
<1>. QED
  BY <1>1, <1>2

(* What was opened has what had been saved.                                 *)
LEMMA RereadIsKept ==
  ASSUME NEW x \in Reopened
  PROVE  x.made \in BOOLEAN /\ x.late \in BOOLEAN /\ (x.made => x.saved \in Persist)
<1>1. CASE x = Grading!Unopened
  BY <1>1 DEF Grading!Unopened
<1>2. CASE x \in [made : {TRUE}, late : BOOLEAN, saved : Persist]
  BY <1>2
<1>. QED
  BY <1>1, <1>2 DEF Reopened

(* A thread that executes, and one whose event is written. *)
LEMMA WorkerTyped ==
  ASSUME NEW b \in Executing
  PROVE  LET c == [b EXCEPT !.pc = "written"]
         IN  c \in Executing /\ c.pc = "written" /\ c.run = b.run /\ c.out = b.out
  BY DEF Executing

(* The places of an evaluation. *)
LEMMA EvalTyped ==
  ASSUME NEW e \in Evaluating
  PROVE  /\ LET f == [e EXCEPT !.pc = "attach"]
            IN  f \in Evaluating /\ f.pc = "attach" /\ f.run = e.run /\ f.mine = e.mine /\ f.ver = e.ver
                /\ f.criteria = e.criteria
         /\ LET f == [e EXCEPT !.pc = "grade"]
            IN  f \in Evaluating /\ f.pc = "grade" /\ f.run = e.run /\ f.mine = e.mine /\ f.ver = e.ver
                /\ f.criteria = e.criteria
         /\ LET f == [e EXCEPT !.pc = "save"]
            IN  f \in Evaluating /\ f.pc = "save" /\ f.run = e.run /\ f.mine = e.mine /\ f.ver = e.ver
                /\ f.criteria = e.criteria
         /\ e.pc \in {"idle", "verify", "write", "attach", "grade", "save"} /\ e.run \in 1..2
         /\ e.mine \in 1..2 /\ e.ver \in Say
  BY DEF Evaluating, Say

(* The run an execution goes to. *)
LEMMA TargetTyped ==
  ASSUME RecordTypes, Grading!Target <= 2
  PROVE  Grading!Target \in 1..2 /\ (graded # 0 => Grading!Target = graded) /\ (graded = 0 => Grading!Target = nruns + 1)
  BY DEF RecordTypes, Grading!Target

(* Recording an execution.                                                  *)
LEMMA RecordKept ==
  ASSUME RecordTypes, NEW o \in Outcomes, Grading!Record(o)
  PROVE  /\ RecordTypes' /\ alive /\ events' = events /\ Grading!Target \in 1..2
         /\ results'[Grading!Target] = Append(results[Grading!Target], o)
         /\ \A r \in 1..2 : r # Grading!Target => results'[r] = results[r]
         /\ same' = (same /\ verdict.run # Grading!Target) /\ mixed' = (mixed \/ Grading!Recording)
<1>1. Grading!Target \in 1..2 /\ (graded # 0 => Grading!Target = graded)
      /\ (graded = 0 => Grading!Target = nruns + 1)
  BY TargetTyped DEF Grading!Record
<1> DEFINE t == Grading!Target
<1>2. /\ alive /\ events' = events
      /\ results' = [results EXCEPT ![t] = Append(@, o)]
      /\ graded' = t /\ nruns' = IF graded = 0 THEN nruns + 1 ELSE nruns
      /\ same' = (same /\ verdict.run # t) /\ mixed' = (mixed \/ Grading!Recording)
  BY DEF Grading!Record
<1> HIDE DEF t
<1>3. t \in 1..2 /\ (graded # 0 => t = graded) /\ (graded = 0 => t = nruns + 1)
  BY <1>1 DEF t
<1>4. results[t] \in Seq(Outcomes) /\ Append(results[t], o) \in Seq(Outcomes)
  BY <1>3 DEF RecordTypes
<1>5. results' \in [1..2 -> Seq(Outcomes)] /\ results'[t] = Append(results[t], o)
      /\ \A r \in 1..2 : r # t => results'[r] = results[r]
  BY <1>2, <1>3, <1>4 DEF RecordTypes
<1>6. nruns' \in 1..2 /\ graded' \in 0..2 /\ graded' <= nruns'
  BY <1>2, <1>3 DEF RecordTypes
<1>7. RecordTypes'
  BY <1>2, <1>5, <1>6 DEF RecordTypes
<1>. QED
  BY <1>2, <1>3, <1>5, <1>7 DEF t

(* A run that is begun for a note alone.                                    *)
LEMMA TargetKept ==
  ASSUME RecordTypes, Grading!Target <= 2, graded' = Grading!Target,
         nruns' = IF graded = 0 THEN nruns + 1 ELSE nruns, UNCHANGED <<results, events>>
  PROVE  RecordTypes'
  BY TargetTyped DEF RecordTypes

GradingBase == GradingTypes /\ GradingOrder

(* Executions.                                                              *)
LEMMA BaseExecute ==
  ASSUME GradingBase, NEW w \in Worker, NEW o \in Outcomes, NEW p \in BOOLEAN, Grading!Execute(w, o, p)
  PROVE  GradingBase'
<1>1. RecordTypes' /\ alive /\ Grading!Target \in 1..2 /\ same' = (same /\ verdict.run # Grading!Target)
      /\ mixed' = (mixed \/ Grading!Recording)
  BY RecordKept DEF GradingBase, GradingTypes, Grading!Execute
<1> DEFINE b == [pc |-> "ran", run |-> Grading!Target, out |-> o, pytest |-> p]
<1>2. /\ worker' = [worker EXCEPT ![w] = b] /\ ~reread.made
      /\ UNCHANGED <<meta, harness, saved, eval, verdict, alive, gone, reread, again>>
  BY DEF Grading!Execute, Grading!session
<1>3. b \in Executing /\ b.out \in Outcomes
  BY <1>1, OutcomesTyped DEF Executing
<1> HIDE DEF b
<1>4. worker' \in [Worker -> Executing] /\ \A v \in Worker : worker'[v].pc # "idle" => worker'[v].out \in Outcomes
  BY <1>2, <1>3 DEF GradingBase, GradingTypes
<1>5. GradingTypes'
  <2>1. same' \in BOOLEAN /\ mixed' \in BOOLEAN
    BY <1>1
  <2>. QED
    BY <1>1, <1>2, <1>4, <2>1 DEF GradingBase, GradingTypes
<1>6. GradingOrder'
  BY <1>1, <1>2 DEF GradingBase, GradingOrder
<1>. QED
  BY <1>5, <1>6 DEF GradingBase

(* Events that are written, and counts that are noted.                      *)
LEMMA BaseWorker ==
  ASSUME GradingBase, NEW w \in Worker, Grading!WriteEvent(w) \/ Grading!SetPytest(w)
  PROVE  GradingBase'
<1>1. worker \in [Worker -> Executing] /\ worker[w] \in Executing /\ worker[w].pc # "idle" /\ worker[w].out \in Outcomes
      /\ worker[w].run \in 1..2 /\ worker[w].out.tests \in Tally
  <2>1. worker[w].pc # "idle"
    BY DEF Grading!WriteEvent, Grading!SetPytest
  <2>2. worker[w] \in Executing /\ worker[w].out \in Outcomes
    BY <2>1 DEF GradingBase, GradingTypes
  <2>3. worker[w].run \in 1..2
    BY <2>2 DEF Executing
  <2>. QED
    BY <2>1, <2>2, <2>3, OutcomesTyped DEF GradingBase, GradingTypes
<1>2. Grading!Idle \in Executing /\ Grading!Idle.pc = "idle"
  BY OutcomesTyped DEF Grading!Idle, Executing
<1>3. CASE Grading!WriteEvent(w)
  <2> DEFINE b == IF worker[w].pytest THEN [worker[w] EXCEPT !.pc = "written"] ELSE Grading!Idle
             e == [run |-> worker[w].run, out |-> Grading!Clipped(worker[w].out)]
  <2>1. /\ worker' = [worker EXCEPT ![w] = b] /\ events' = Append(events, e)
        /\ UNCHANGED <<results, graded, nruns, meta, harness, saved, eval, verdict, alive, gone, reread, same,
                       mixed, again>>
    BY <1>3 DEF Grading!WriteEvent, Grading!session
  <2>2. b \in Executing /\ (b.pc # "idle" => b.out \in Outcomes) /\ e \in ExecEvent
    BY <1>1, <1>2, WorkerTyped DEF ExecEvent, Short
  <2> HIDE DEF b, e
  <2>3. RecordTypes'
    BY <2>1, <2>2 DEF GradingBase, GradingTypes, RecordTypes
  <2>4. worker' \in [Worker -> Executing] /\ \A v \in Worker : worker'[v].pc # "idle" => worker'[v].out \in Outcomes
    BY <2>1, <2>2 DEF GradingBase, GradingTypes
  <2>5. GradingTypes'
    BY <2>1, <2>3, <2>4 DEF GradingBase, GradingTypes
  <2>6. GradingOrder'
    BY <1>1, <2>1 DEF GradingBase, GradingOrder
  <2>. QED
    BY <2>5, <2>6 DEF GradingBase
<1>4. CASE Grading!SetPytest(w)
  <2>1. /\ worker' = [worker EXCEPT ![w] = Grading!Idle] /\ Grading!Target <= 2
        /\ meta' = [meta EXCEPT ![Grading!Target] = worker[w].out.tests]
        /\ graded' = Grading!Target /\ nruns' = IF graded = 0 THEN nruns + 1 ELSE nruns
        /\ same' = (same /\ verdict.run # Grading!Target)
        /\ UNCHANGED <<results, events, harness, saved, eval, verdict, alive, gone, reread, mixed, again>>
    BY <1>4 DEF Grading!SetPytest, Grading!session
  <2>2. RecordTypes' /\ Grading!Target \in 1..2
    BY <2>1, TargetKept, TargetTyped DEF GradingBase, GradingTypes
  <2>3. worker' \in [Worker -> Executing] /\ \A v \in Worker : worker'[v].pc # "idle" => worker'[v].out \in Outcomes
    BY <1>2, <2>1 DEF GradingBase, GradingTypes
  <2>4. meta' \in [1..2 -> Tally] /\ same' \in BOOLEAN
    BY <1>1, <2>1, <2>2 DEF GradingBase, GradingTypes
  <2>5. GradingTypes'
    BY <2>1, <2>2, <2>3, <2>4 DEF GradingBase, GradingTypes
  <2>6. GradingOrder'
    BY <1>1, <2>1 DEF GradingBase, GradingOrder
  <2>. QED
    BY <2>5, <2>6 DEF GradingBase
<1>. QED
  BY <1>3, <1>4

(* An evaluation that begins, and one that fails.                           *)
LEMMA BaseEvaluate ==
  ASSUME GradingBase,
         \/ \E c \in Criterias, r \in 1..2 : Grading!Evaluate(c, r)
         \/ Grading!VerifyFails
  PROVE  GradingBase'
<1>1. /\ eval' \in Evaluating /\ eval'.pc \in {"idle", "verify", "grade"}
      /\ eval'.pc # "idle" => alive /\ eval'.criteria \in Criterias
  <2>1. ASSUME NEW c \in Criterias, NEW r \in 1..2, Grading!Evaluate(c, r) 
        PROVE  /\ eval' \in Evaluating /\ eval'.pc \in {"idle", "verify", "grade"}
               /\ eval'.pc # "idle" => alive /\ eval'.criteria \in Criterias
    <3>1. eval' = [pc |-> IF c.verify THEN "verify" ELSE "grade", run |-> r,
                   criteria |-> c, ver |-> harness[r], mine |-> r] /\ alive
      BY <2>1 DEF Grading!Evaluate
    <3>2. harness[r] \in Say
      BY DEF GradingBase, GradingTypes
    <3>. QED
      BY <3>1, <3>2 DEF Evaluating
  <2>2. CASE Grading!VerifyFails
    <3>1. Grading!NoEval \in Evaluating /\ Grading!NoEval.pc = "idle"
      BY OutcomesTyped DEF Grading!NoEval, Evaluating
    <3>. QED
      BY <2>2, <3>1 DEF Grading!VerifyFails
  <2>. QED
    BY <2>1, <2>2
<1>2. UNCHANGED <<results, events, graded, nruns, meta, harness, saved, worker, verdict, alive, gone, reread,
                  same, mixed, again>>
  BY DEF Grading!Evaluate, Grading!VerifyFails, Grading!session, Grading!record
<1>3. GradingTypes'
  BY <1>1, <1>2 DEF GradingBase, GradingTypes, RecordTypes
<1>4. GradingOrder'
  BY <1>1, <1>2 DEF GradingBase, GradingOrder
<1>. QED
  BY <1>3, <1>4 DEF GradingBase

(* What the harness executes, here or in a session of its own.              *)
LEMMA BaseVerify ==
  ASSUME GradingBase, NEW o \in Outcomes, Grading!Verify(o) \/ Grading!VerifyFresh(o)
  PROVE  GradingBase'
<1>1. eval \in Evaluating /\ eval.pc = "verify" /\ eval.criteria \in Criterias
  BY DEF GradingBase, GradingTypes, Grading!Verify, Grading!VerifyFresh
<1>2. CASE Grading!Verify(o)
  <2>1. RecordTypes' /\ alive /\ Grading!Target \in 1..2 /\ same' = (same /\ verdict.run # Grading!Target)
        /\ mixed' = (mixed \/ Grading!Recording)
    BY <1>2, RecordKept DEF GradingBase, GradingTypes, Grading!Verify
  <2>2. /\ eval' = [eval EXCEPT !.pc = "write", !.ver = o, !.mine = Grading!Target]
        /\ UNCHANGED <<meta, harness, saved, worker, verdict, alive, gone, reread, again>>
    BY <1>2 DEF Grading!Verify, Grading!session
  <2>3. eval' \in Evaluating /\ eval'.pc = "write" /\ eval'.ver = o /\ eval'.mine = Grading!Target
        /\ eval'.criteria = eval.criteria
    BY <1>1, <2>1, <2>2, OutcomesTyped DEF Evaluating
  <2>4. same' \in BOOLEAN /\ mixed' \in BOOLEAN
    BY <2>1
  <2>5. GradingTypes'
    BY <1>1, <2>1, <2>2, <2>3, <2>4 DEF GradingBase, GradingTypes
  <2>6. GradingOrder'
    BY <2>1, <2>2, <2>3 DEF GradingBase, GradingOrder
  <2>. QED
    BY <2>5, <2>6 DEF GradingBase
<1>3. CASE Grading!VerifyFresh(o)
  <2>1. /\ eval' = [eval EXCEPT !.pc = "attach", !.ver = o] /\ alive /\ Grading!Target <= 2
        /\ graded' = Grading!Target /\ nruns' = IF graded = 0 THEN nruns + 1 ELSE nruns
        /\ UNCHANGED <<results, events, meta, harness, saved, worker, verdict, alive, gone, reread, same, mixed,
                       again>>
    BY <1>3 DEF Grading!VerifyFresh, Grading!session
  <2>2. RecordTypes'
    BY <2>1, TargetKept DEF GradingBase, GradingTypes
  <2>3. eval' \in Evaluating /\ eval'.pc = "attach" /\ eval'.ver = o /\ eval'.criteria = eval.criteria
    BY <1>1, <2>1, OutcomesTyped DEF Evaluating
  <2>4. GradingTypes'
    BY <1>1, <2>1, <2>2, <2>3 DEF GradingBase, GradingTypes
  <2>5. GradingOrder'
    BY <2>1, <2>3 DEF GradingBase, GradingOrder
  <2>. QED
    BY <2>4, <2>5 DEF GradingBase
<1>. QED
  BY <1>2, <1>3

(* Its event, and the verification that is attached.                        *)
LEMMA BaseAttach ==
  ASSUME GradingBase, Grading!WriteVerification \/ Grading!Attach PROVE GradingBase'
<1>1. /\ eval \in Evaluating /\ eval.pc \in {"write", "attach"} /\ eval.criteria \in Criterias
      /\ eval.ver \in Outcomes /\ eval.ver \in Say /\ eval.mine \in 1..2 /\ eval.run \in 1..2
  <2>1. eval \in Evaluating /\ eval.pc \in {"write", "attach"} /\ eval.criteria \in Criterias /\ eval.ver \in Outcomes
    BY DEF GradingBase, GradingTypes, Grading!WriteVerification, Grading!Attach
  <2>. QED
    BY <2>1, EvalTyped
<1>2. CASE Grading!WriteVerification
  <2> DEFINE e == [run |-> eval.mine, out |-> Grading!Clipped(eval.ver)]
  <2>1. /\ events' = Append(events, e) /\ eval' = [eval EXCEPT !.pc = "attach"]
        /\ UNCHANGED <<results, graded, nruns, meta, harness, saved, worker, verdict, alive, gone, reread, same,
                       mixed, again>>
    BY <1>2 DEF Grading!WriteVerification, Grading!session
  <2>2. e \in ExecEvent
    BY <1>1 DEF ExecEvent, Short
  <2> HIDE DEF e
  <2>3. RecordTypes'
    BY <2>1, <2>2 DEF GradingBase, GradingTypes, RecordTypes
  <2>4. eval' \in Evaluating /\ eval'.pc = "attach" /\ eval'.ver = eval.ver /\ eval'.criteria = eval.criteria
    BY <1>1, <2>1, EvalTyped
  <2>5. GradingTypes'
    BY <1>1, <2>1, <2>3, <2>4 DEF GradingBase, GradingTypes
  <2>6. alive
    BY <1>1 DEF GradingBase, GradingOrder
  <2>7. GradingOrder'
    BY <2>1, <2>4, <2>6 DEF GradingBase, GradingOrder
  <2>. QED
    BY <2>5, <2>7 DEF GradingBase
<1>3. CASE Grading!Attach
  <2>1. /\ harness' = [harness EXCEPT ![eval.run] = eval.ver]
        /\ same' = (same /\ verdict.run # eval.run) /\ eval' = [eval EXCEPT !.pc = "grade"]
        /\ UNCHANGED <<results, events, graded, nruns, meta, saved, worker, verdict, alive, gone, reread, mixed,
                       again>>
    BY <1>3 DEF Grading!Attach, Grading!VerifiedRun, Grading!session, Grading!record
  <2>2. eval' \in Evaluating /\ eval'.pc = "grade" /\ eval'.criteria = eval.criteria
    BY <1>1, <2>1, EvalTyped
  <2>3. harness' \in [1..2 -> Say] /\ same' \in BOOLEAN
    BY <1>1, <2>1 DEF GradingBase, GradingTypes
  <2>4. GradingTypes'
    BY <1>1, <2>1, <2>2, <2>3 DEF GradingBase, GradingTypes, RecordTypes
  <2>5. alive
    BY <1>1 DEF GradingBase, GradingOrder
  <2>6. GradingOrder'
    BY <2>1, <2>2, <2>5 DEF GradingBase, GradingOrder
  <2>. QED
    BY <2>4, <2>6 DEF GradingBase
<1>. QED
  BY <1>2, <1>3

(* Some result of the run is too long for the recording.                    *)
HasLong(rs) == \E i \in DOMAIN rs : rs[i].long

(* The report that Grade makes, from the results or the recording.          *)
LEMMA GradeMakes ==
  ASSUME GradingTypes, Grading!Grade
  PROVE  /\ eval.pc = "grade" /\ eval' = [eval EXCEPT !.pc = "save"] /\ same' = (harness[eval.run] = eval.ver)
         /\ UNCHANGED <<results, events, graded, nruns, meta, harness, saved, worker, alive, gone, reread, mixed,
                        again>>
         /\ eval.run \in 1..2 /\ verdict' \in Graded /\ verdict'.made /\ verdict'.run = eval.run
         /\ verdict'.ver = eval.ver /\ verdict'.saved = FALSE
         /\ \E rs : /\ rs = IF results[eval.run] # <<>> THEN results[eval.run] ELSE OutsOf(events, eval.run)
                    /\ verdict'.pytest = (Grading!PytestReport(eval.ver, meta[eval.run], rs) = "pass")
                    /\ verdict'.long = HasLong(rs)
                    /\ verdict'.passed = Grading!Aggregate(verdict'.criteria, eval.ver, meta[eval.run], rs,
                                                           verdict'.there, verdict'.opinion)
<1> DEFINE rs == IF results[eval.run] # <<>> THEN results[eval.run] ELSE OutsOf(events, eval.run)
           report(t, o) == Grading!Report(eval.run, eval.criteria, eval.ver, meta[eval.run], rs, t, o)
<1>1. /\ eval.pc = "grade" /\ eval' = [eval EXCEPT !.pc = "save"] /\ same' = (harness[eval.run] = eval.ver)
      /\ UNCHANGED <<results, events, graded, nruns, meta, harness, saved, worker, alive, gone, reread, mixed,
                     again>>
      /\ \E t \in Grading!Listings(eval.criteria), o \in Grading!Opinions(eval.criteria) : verdict' = report(t, o)
  BY EventsOfTable DEF Grading!Grade, Grading!session, Grading!record
<1> HIDE DEF rs
<1>2. eval \in Evaluating /\ eval.run \in 1..2 /\ eval.ver \in Say /\ eval.criteria \in Criterias
  BY <1>1, EvalTyped DEF GradingTypes
<1>3. PICK t \in BOOLEAN, o \in {0, 100} : verdict' = report(t, o)
  <2> HIDE DEF report
  <2>. QED
    BY <1>1, RulesDecide
<1>4. PICK rep : rep = report(t, o)
  OBVIOUS
<1>5. rep = Grading!Report(eval.run, eval.criteria, eval.ver, meta[eval.run], rs, t, o) /\ verdict' = rep
  BY <1>3, <1>4
<1> HIDE DEF report
<1>6. /\ rep \in Graded /\ rep.made /\ rep.run = eval.run /\ rep.criteria = eval.criteria
      /\ rep.ver = eval.ver /\ rep.saved = FALSE /\ rep.there = t
      /\ rep.opinion = o /\ rep.long = HasLong(rs)
      /\ rep.pytest = (Grading!PytestReport(eval.ver, meta[eval.run], rs) = "pass")
      /\ rep.passed = Grading!Aggregate(eval.criteria, eval.ver, meta[eval.run], rs, t, o)
  <2>1. Grading!Aggregate(eval.criteria, eval.ver, meta[eval.run], rs, t, o) \in BOOLEAN
    BY RulesDecide
  <2>2. HasLong(rs) \in BOOLEAN
    BY DEF HasLong
  <2>3. rep = [made |-> TRUE, run |-> eval.run, criteria |-> eval.criteria, ver |-> eval.ver, saved |-> FALSE,
               there |-> t, opinion |-> o, long |-> HasLong(rs),
               pytest |-> (Grading!PytestReport(eval.ver, meta[eval.run], rs) = "pass"),
               passed |-> Grading!Aggregate(eval.criteria, eval.ver, meta[eval.run], rs, t, o)]
    BY ONLY <1>5 DEF Grading!Report, HasLong
  <2>. QED
    BY ONLY <1>2, <2>1, <2>2, <2>3, t \in BOOLEAN, o \in {0, 100} DEF Graded
<1>7. /\ verdict'.pytest = (Grading!PytestReport(eval.ver, meta[eval.run], rs) = "pass")
      /\ verdict'.long = HasLong(rs)
      /\ verdict'.passed = Grading!Aggregate(verdict'.criteria, eval.ver, meta[eval.run], rs, verdict'.there,
                                             verdict'.opinion)
  BY <1>5, <1>6
<1>8. verdict' \in Graded /\ verdict'.made /\ verdict'.run = eval.run /\ verdict'.ver = eval.ver
      /\ verdict'.saved = FALSE
  BY <1>5, <1>6
<1>9. \E x : /\ x = IF results[eval.run] # <<>> THEN results[eval.run] ELSE OutsOf(events, eval.run)
             /\ verdict'.pytest = (Grading!PytestReport(eval.ver, meta[eval.run], x) = "pass")
             /\ verdict'.long = HasLong(x)
             /\ verdict'.passed = Grading!Aggregate(verdict'.criteria, eval.ver, meta[eval.run], x,
                                                    verdict'.there, verdict'.opinion)
  BY <1>7 DEF rs
<1>. QED
  BY <1>1, <1>2, <1>8, <1>9

(* What Persisted is.                                                       *)
LEMMA PersistTyped ==
  ASSUME GradingTypes
  PROVE  /\ Grading!Persisted \in Persist /\ Grading!Persisted.meta = meta /\ Grading!Persisted.harness = harness
  BY DEF GradingTypes, Grading!Persisted, Persist

(* A report is made and saved.                                              *)
LEMMA BaseGrade ==
  ASSUME GradingBase, Grading!Grade \/ Grading!Save PROVE GradingBase'
<1>1. CASE Grading!Grade
  <2>1. /\ eval.pc = "grade" /\ eval' = [eval EXCEPT !.pc = "save"] /\ same' = (harness[eval.run] = eval.ver)
        /\ UNCHANGED <<results, events, graded, nruns, meta, harness, saved, worker, alive, gone, reread, mixed,
                       again>>
        /\ verdict' \in Graded /\ verdict'.made
    BY <1>1, GradeMakes DEF GradingBase
  <2>2. eval' \in Evaluating /\ eval'.pc = "save" /\ eval'.criteria \in Criterias
    BY <2>1, EvalTyped DEF GradingBase, GradingTypes
  <2>3. GradingTypes'
    BY <2>1, <2>2 DEF GradingBase, GradingTypes, RecordTypes
  <2>4. alive
    BY <2>1 DEF GradingBase, GradingOrder
  <2>5. GradingOrder'
    BY <2>1, <2>2, <2>4 DEF GradingBase, GradingOrder
  <2>. QED
    BY <2>3, <2>5 DEF GradingBase
<1>2. CASE Grading!Save
  <2>1. /\ eval.pc = "save" /\ saved' = Grading!Persisted /\ verdict' = [verdict EXCEPT !.saved = TRUE]
        /\ eval' = Grading!NoEval
        /\ UNCHANGED <<results, events, graded, nruns, meta, harness, worker, alive, gone, reread, same, mixed,
                       again>>
    BY <1>2 DEF Grading!Save, Grading!session, Grading!record
  <2>2. eval' \in Evaluating /\ eval'.pc = "idle"
    BY <2>1, OutcomesTyped DEF Grading!NoEval, Evaluating
  <2>3. verdict \in Graded
    BY <2>1, MadeIsGraded DEF GradingBase, GradingTypes, GradingOrder
  <2>4. verdict' \in Graded /\ verdict'.made /\ verdict'.run = verdict.run
    BY <2>1, <2>3, ReportSaved
  <2>5. saved' \in Persist
    BY <2>1, PersistTyped DEF GradingBase
  <2>6. GradingTypes'
    BY <2>1, <2>2, <2>4, <2>5 DEF GradingBase, GradingTypes, RecordTypes
  <2>7. GradingOrder'
    BY <2>1, <2>2, <2>4 DEF GradingBase, GradingOrder
  <2>. QED
    BY <2>6, <2>7 DEF GradingBase
<1>. QED
  BY <1>1, <1>2

(* The run ends, or the session does.                                       *)
LEMMA BaseEnds ==
  ASSUME GradingBase, Grading!EndRun \/ Grading!Close PROVE GradingBase'
<1>1. /\ saved' = Grading!Persisted /\ graded' \in {0, graded} /\ alive
      /\ alive' \in BOOLEAN /\ gone' \in BOOLEAN /\ (gone' => gone \/ ~alive') /\ (~alive' => Grading!Quiet)
      /\ UNCHANGED <<results, events, nruns, meta, harness, worker, eval, verdict, reread, same, mixed, again>>
  <2>1. CASE Grading!EndRun
    <3>1. alive \in BOOLEAN /\ gone \in BOOLEAN
      BY DEF GradingBase, GradingTypes
    <3>2. /\ saved' = Grading!Persisted /\ graded' = 0 /\ alive /\ alive' = alive /\ gone' = gone
          /\ UNCHANGED <<results, events, nruns, meta, harness, worker, eval, verdict, reread, same, mixed, again>>
      BY <2>1 DEF Grading!EndRun, Grading!session
    <3>3. alive' \in BOOLEAN /\ gone' \in BOOLEAN /\ alive' /\ (gone' => gone)
      BY <3>1, <3>2
    <3>. QED
      BY <3>2, <3>3
  <2>2. CASE Grading!Close
    BY <2>2 DEF Grading!Close, Grading!record
  <2>. QED
    BY <2>1, <2>2
<1>2. saved' \in Persist
  BY <1>1, PersistTyped DEF GradingBase
<1>3. GradingTypes'
  BY <1>1, <1>2 DEF GradingBase, GradingTypes, RecordTypes
<1>4. GradingOrder'
  BY <1>1 DEF GradingBase, GradingOrder, Grading!Quiet
<1>. QED
  BY <1>3, <1>4 DEF GradingBase

(* The process dies.                                                        *)
LEMMA BaseCrash == ASSUME GradingBase, Grading!Crash PROVE GradingBase'
<1>1. /\ alive /\ alive' = FALSE /\ worker' = [w \in Worker |-> Grading!Idle] /\ eval' = Grading!NoEval
      /\ same' = (same /\ \A w \in Worker : worker[w].pc = "ran" => worker[w].run # verdict.run)
      /\ UNCHANGED <<results, events, graded, nruns, meta, harness, saved, verdict, gone, reread, mixed, again>>
  BY DEF Grading!Crash, Grading!record
<1>2. Grading!Idle \in Executing /\ Grading!Idle.pc = "idle" /\ Grading!NoEval \in Evaluating /\ Grading!NoEval.pc = "idle"
  BY OutcomesTyped DEF Grading!Idle, Executing, Grading!NoEval, Evaluating
<1>3. same' \in BOOLEAN /\ (same' => same)
  BY <1>1
<1>4. GradingTypes'
  BY <1>1, <1>2, <1>3 DEF GradingBase, GradingTypes, RecordTypes
<1>5. GradingOrder'
  BY <1>1, <1>2, <1>3 DEF GradingBase, GradingOrder
<1>. QED
  BY <1>4, <1>5 DEF GradingBase

(* A recording that is opened, late or early.                               *)
LEMMA RereadMakes ==
  ASSUME GradingTypes, Grading!OpenRecorded
  PROVE  /\ ~reread.made /\ reread' = [made |-> TRUE, late |-> ~alive, saved |-> saved]
         /\ reread' \in Reopened /\ reread'.made /\ reread'.saved = saved /\ reread'.late = ~alive
         /\ (alive => ~verdict.made) /\ (~alive => verdict.made)
         /\ UNCHANGED <<results, events, graded, nruns, meta, harness, saved, worker, eval, verdict, alive, gone,
                        same, mixed, again>>
<1>1. /\ ~reread.made /\ reread' = [made |-> TRUE, late |-> ~alive, saved |-> saved]
      /\ (alive => ~verdict.made) /\ (~alive => verdict.made)
      /\ UNCHANGED <<results, events, graded, nruns, meta, harness, saved, worker, eval, verdict, alive, gone,
                     same, mixed, again>>
  BY DEF Grading!OpenRecorded, Grading!record
<1>2. saved \in Persist
  BY DEF GradingTypes
<1>. QED
  BY <1>1, <1>2 DEF Reopened

(* ... and the order stays.                                                 *)
LEMMA BaseOpen == ASSUME GradingBase, Grading!OpenRecorded PROVE GradingBase'
<1>1. GradingTypes'
  BY RereadMakes DEF GradingBase, GradingTypes, RecordTypes
<1>2. /\ reread'.made /\ reread'.late = ~alive /\ (~alive => verdict.made)
      /\ UNCHANGED <<worker, eval, verdict, alive, gone, same, again>>
  BY RereadMakes DEF GradingBase
<1>3. reread'.made /\ reread'.late => ~alive' /\ verdict'.made
  BY <1>2
<1>4. GradingOrder'
  BY <1>2, <1>3 DEF GradingBase, GradingOrder
<1>. QED
  BY <1>1, <1>4 DEF GradingBase

(* What was opened is saved and, when the session was over, graded.         *)
LEMMA AgainMakes ==
  ASSUME GradingBase, Grading!EvaluateRecorded
  PROVE  /\ reread.made /\ ~again.made /\ saved' = reread.saved /\ saved' \in Persist
         /\ again' \in Graded \cup {Grading!Ungraded} /\ again'.made
         /\ reread.late =>
              again'.passed = Grading!Aggregate(verdict.criteria, reread.saved.harness[verdict.run],
                                reread.saved.meta[verdict.run], OutsOf(events, verdict.run), again'.there,
                                again'.opinion)
         /\ UNCHANGED <<results, events, graded, nruns, meta, harness, worker, eval, verdict, alive, gone, reread,
                        same, mixed>>
<1> DEFINE rs == OutsOf(events, verdict.run)
           v == reread.saved.harness[verdict.run]
           m == reread.saved.meta[verdict.run]
           report(t, o) == Grading!Report(verdict.run, verdict.criteria, v, m, rs, t, o)
<1>1. /\ reread.made /\ ~again.made /\ saved' = reread.saved
      /\ (~reread.late => again' = Grading!Ungraded)
      /\ (reread.late => \E t \in Grading!Listings(verdict.criteria), o \in Grading!Opinions(verdict.criteria) :
                              again' = report(t, o))
      /\ UNCHANGED <<results, events, graded, nruns, meta, harness, worker, eval, verdict, alive, gone, reread,
                     same, mixed>>
  BY EventsOfTable DEF Grading!EvaluateRecorded, Grading!session, Grading!record
<1>2. saved' \in Persist
  BY <1>1, RereadIsKept DEF GradingBase, GradingTypes
<1>3. CASE reread.late
  <2>1. verdict \in Graded
    BY <1>1, <1>3, MadeIsGraded DEF GradingBase, GradingTypes, GradingOrder
  <2>2. verdict.run \in 1..2 /\ verdict.criteria \in Criterias
    BY <2>1 DEF Graded
  <2>3. v \in Say
    BY <1>1, <1>2, <2>2 DEF Persist
  <2> HIDE DEF rs, v, m
  <2>4. PICK t \in BOOLEAN, o \in {0, 100} : again' = report(t, o)
    <3> HIDE DEF report
    <3>. QED
      BY <1>1, <1>3, RulesDecide
  <2>5. PICK rep : rep = report(t, o)
    OBVIOUS
  <2>6. rep = Grading!Report(verdict.run, verdict.criteria, v, m, rs, t, o) /\ again' = rep
    BY <2>4, <2>5
  <2> HIDE DEF report
  <2>7. /\ rep \in Graded /\ rep.made /\ rep.there = t /\ rep.opinion = o
        /\ rep.passed = Grading!Aggregate(verdict.criteria, v, m, rs, t, o)
    <3>1. Grading!Aggregate(verdict.criteria, v, m, rs, t, o) \in BOOLEAN
      BY RulesDecide
    <3>2. HasLong(rs) \in BOOLEAN
      BY DEF HasLong
    <3>3. rep = [made |-> TRUE, run |-> verdict.run, criteria |-> verdict.criteria, ver |-> v, saved |-> FALSE,
                 there |-> t, opinion |-> o, long |-> HasLong(rs),
                 pytest |-> (Grading!PytestReport(v, m, rs) = "pass"),
                 passed |-> Grading!Aggregate(verdict.criteria, v, m, rs, t, o)]
      BY ONLY <2>6 DEF Grading!Report, HasLong
    <3>. QED
      BY ONLY <2>2, <2>3, <3>1, <3>2, <3>3, t \in BOOLEAN, o \in {0, 100} DEF Graded
  <2>8. /\ again' \in Graded /\ again'.made
        /\ again'.passed = Grading!Aggregate(verdict.criteria, v, m, rs, again'.there, again'.opinion)
    BY <2>6, <2>7
  <2>. QED
    BY <1>1, <1>2, <2>8 DEF rs, v, m
<1>4. CASE ~reread.late
  BY <1>1, <1>2, <1>4 DEF Grading!Ungraded
<1>. QED
  BY <1>3, <1>4

(* ... and the order stays.                                                 *)
LEMMA BaseAgain == ASSUME GradingBase, Grading!EvaluateRecorded PROVE GradingBase'
<1>1. GradingTypes'
  BY AgainMakes DEF GradingBase, GradingTypes, RecordTypes
<1>2. GradingOrder'
  BY AgainMakes DEF GradingBase, GradingOrder
<1>. QED
  BY <1>1, <1>2 DEF GradingBase

(* Every step of the grading keeps types and order. *)
LEMMA BaseKept == GradingBase /\ [Grading!Next]_gradingVars => GradingBase'
<1> SUFFICES ASSUME GradingBase, [Grading!Next]_gradingVars PROVE GradingBase'
  OBVIOUS
<1>1. ASSUME NEW w \in Worker, NEW o \in Outcomes, NEW p \in BOOLEAN, Grading!Execute(w, o, p) PROVE GradingBase'
  BY <1>1, BaseExecute
<1>2. ASSUME NEW w \in Worker, Grading!WriteEvent(w) \/ Grading!SetPytest(w) PROVE GradingBase'
  BY <1>2, BaseWorker
<1>3. ASSUME NEW c \in Criterias, NEW r \in 1..2, Grading!Evaluate(c, r) PROVE GradingBase'
  BY <1>3, BaseEvaluate
<1>4. ASSUME NEW o \in Outcomes, Grading!Verify(o) \/ Grading!VerifyFresh(o) PROVE GradingBase'
  BY <1>4, BaseVerify
<1>5. CASE Grading!VerifyFails
  BY <1>5, BaseEvaluate
<1>6. CASE Grading!WriteVerification \/ Grading!Attach
  BY <1>6, BaseAttach
<1>7. CASE Grading!Grade \/ Grading!Save
  BY <1>7, BaseGrade
<1>8. CASE Grading!EndRun \/ Grading!Close
  BY <1>8, BaseEnds
<1>9. CASE Grading!Crash
  BY <1>9, BaseCrash
<1>10. CASE Grading!OpenRecorded
  BY <1>10, BaseOpen
<1>11. CASE Grading!EvaluateRecorded
  BY <1>11, BaseAgain
<1>12. CASE UNCHANGED gradingVars
  BY <1>12 DEF gradingVars, GradingBase, GradingTypes, GradingOrder, RecordTypes
<1>. QED
  BY <1>1, <1>2, <1>3, <1>4, <1>5, <1>6, <1>7, <1>8, <1>9, <1>10, <1>11, <1>12
     DEF Grading!Next, Grading!Run

-----------------------------------------------------------------------------
(* What is recorded and what is remembered *)

(* Something was executed under a run and its event is not written yet.     *)
Unwritten(r) ==
    \/ \E w \in Worker : worker[w].pc = "ran" /\ worker[w].run = r
    \/ eval.pc = "write" /\ eval.mine = r

(* While the session lives and its executions are recorded one at a time,   *)
(* the file has what the session remembers, clipped, but for what is not    *)
(* written.                                                                *)
RecordingFollows ==
    alive /\ ~mixed =>
      /\ \A w \in Worker : worker[w].pc = "ran" =>
           /\ ClippedAll(results[worker[w].run])
                = Append(OutsOf(events, worker[w].run), Grading!Clipped(worker[w].out))
           /\ eval.pc # "write" /\ \A v \in Worker : worker[v].pc = "ran" => v = w
      /\ eval.pc = "write" =>
           ClippedAll(results[eval.mine]) = Append(OutsOf(events, eval.mine), Grading!Clipped(eval.ver))
      /\ \A r \in 1..2 : ~Unwritten(r) => ClippedAll(results[r]) = OutsOf(events, r)

(* Nothing is recorded under an earlier name when nothing changes.          *)
LEMMA FollowsStays ==
  ASSUME RecordingFollows, UNCHANGED <<results, events, mixed>>, alive' => alive,
         \A w \in Worker : worker'[w].pc = "ran" <=> worker[w].pc = "ran",
         \A w \in Worker : worker[w].pc = "ran" => worker'[w] = worker[w],
         eval'.pc = "write" <=> eval.pc = "write",
         eval.pc = "write" => eval'.mine = eval.mine /\ eval'.ver = eval.ver
  PROVE  RecordingFollows'
<1> SUFFICES ASSUME alive', ~mixed'
             PROVE  /\ \A w \in Worker : worker'[w].pc = "ran" =>
                         /\ ClippedAll(results'[worker'[w].run])
                              = Append(OutsOf(events', worker'[w].run), Grading!Clipped(worker'[w].out))
                         /\ eval'.pc # "write" /\ \A v \in Worker : worker'[v].pc = "ran" => v = w
                    /\ eval'.pc = "write" => ClippedAll(results'[eval'.mine])
                                                = Append(OutsOf(events', eval'.mine), Grading!Clipped(eval'.ver))
                    /\ \A r \in 1..2 : ~Unwritten(r)' => ClippedAll(results'[r]) = OutsOf(events', r)
  BY DEF RecordingFollows
<1>1. /\ \A w \in Worker : worker[w].pc = "ran" =>
           /\ ClippedAll(results[worker[w].run])
                = Append(OutsOf(events, worker[w].run), Grading!Clipped(worker[w].out))
           /\ eval.pc # "write" /\ \A v \in Worker : worker[v].pc = "ran" => v = w
      /\ eval.pc = "write" =>
           ClippedAll(results[eval.mine]) = Append(OutsOf(events, eval.mine), Grading!Clipped(eval.ver))
      /\ \A r \in 1..2 : ~Unwritten(r) => ClippedAll(results[r]) = OutsOf(events, r)
  BY DEF RecordingFollows
<1>2. ASSUME NEW r \in 1..2 PROVE Unwritten(r)' <=> Unwritten(r)
  BY DEF Unwritten
<1>. QED
  BY <1>1, <1>2

(* An execution, of a thread or of the harness.                             *)
LEMMA FollowsExecution ==
  ASSUME GradingBase, RecordingFollows, NEW o \in Outcomes,
         \/ \E w \in Worker, p \in BOOLEAN : Grading!Execute(w, o, p)
         \/ Grading!Verify(o)
  PROVE  RecordingFollows'
<1> DEFINE t == Grading!Target
<1>1. /\ alive /\ events' = events /\ t \in 1..2
      /\ results'[t] = Append(results[t], o)
      /\ \A r \in 1..2 : r # t => results'[r] = results[r]
      /\ mixed' = (mixed \/ Grading!Recording)
  BY RecordKept DEF GradingBase, GradingTypes, Grading!Execute, Grading!Verify
<1> SUFFICES ASSUME ~mixed' PROVE RecordingFollows'
  BY DEF RecordingFollows
<1>2. /\ \A w \in Worker : worker[w].pc # "ran"
      /\ eval.pc # "write"
      /\ \A r \in 1..2 : ClippedAll(results[r]) = OutsOf(events, r)
  BY <1>1 DEF Grading!Recording, RecordingFollows, Unwritten
<1>3. worker \in [Worker -> Executing] /\ eval \in Evaluating /\ results[t] \in Seq(Outcomes)
  BY <1>1 DEF GradingBase, GradingTypes, RecordTypes
<1> HIDE DEF t
<1>4. /\ ClippedAll(results'[t]) = Append(OutsOf(events', t), Grading!Clipped(o))
      /\ \A r \in 1..2 : r # t => ClippedAll(results'[r]) = OutsOf(events', r)
  <2>1. ClippedAll(results'[t]) = Append(ClippedAll(results[t]), Grading!Clipped(o))
    BY <1>1, <1>3, ClippedAppends
  <2>. QED
    BY <1>1, <1>2, <2>1
<1>5. ASSUME NEW w \in Worker, NEW p \in BOOLEAN, Grading!Execute(w, o, p) PROVE RecordingFollows'
  <2>1. worker' = [worker EXCEPT ![w] = [pc |-> "ran", run |-> t, out |-> o, pytest |-> p]] /\ eval' = eval
    BY <1>5 DEF Grading!Execute, t
  <2>2. /\ worker'[w].pc = "ran" /\ worker'[w].run = t /\ worker'[w].out = o
        /\ \A v \in Worker : v # w => worker'[v].pc # "ran"
    BY <1>2, <1>3, <2>1
  <2>3. \A r \in 1..2 : ~Unwritten(r)' => r # t
    BY <2>2 DEF Unwritten
  <2>. QED
    BY <1>2, <1>4, <2>1, <2>2, <2>3 DEF RecordingFollows
<1>6. CASE Grading!Verify(o)
  <2>1. worker' = worker /\ eval' = [eval EXCEPT !.pc = "write", !.ver = o, !.mine = t]
    BY <1>6 DEF Grading!Verify, t
  <2>2. eval'.pc = "write" /\ eval'.ver = o /\ eval'.mine = t
    BY <1>3, <2>1 DEF Evaluating
  <2>3. \A r \in 1..2 : ~Unwritten(r)' => r # t
    BY <2>2 DEF Unwritten
  <2>. QED
    BY <1>2, <1>4, <2>1, <2>2, <2>3 DEF RecordingFollows
<1>. QED
  BY <1>5, <1>6

(* One line more, of the run it names.                                      *)
LEMMA LineWritten ==
  ASSUME GradingBase, NEW e \in ExecEvent, events' = Append(events, e)
  PROVE  /\ OutsOf(events', e.run) = Append(OutsOf(events, e.run), e.out)
         /\ \A r \in 1..2 : r # e.run => OutsOf(events', r) = OutsOf(events, r)
<1>1. events \in Seq(ExecEvent) /\ e.run \in 1..2
  BY DEF GradingBase, GradingTypes, RecordTypes, ExecEvent
<1>2. ASSUME NEW r \in 1..2
      PROVE  OutsOf(events', r) = IF e.run = r THEN Append(OutsOf(events, r), e.out) ELSE OutsOf(events, r)
  BY <1>1, LineAdds
<1>. QED
  BY <1>1, <1>2

(* An event is written.                                                     *)
LEMMA FollowsWriting ==
  ASSUME GradingBase, RecordingFollows,
         Grading!WriteVerification \/ \E w \in Worker : Grading!WriteEvent(w)
  PROVE  RecordingFollows'
<1> SUFFICES ASSUME alive', ~mixed' PROVE RecordingFollows'
  BY DEF RecordingFollows
<1>1. worker \in [Worker -> Executing] /\ eval \in Evaluating
  BY DEF GradingBase, GradingTypes
<1>2. ASSUME NEW w \in Worker, Grading!WriteEvent(w) PROVE RecordingFollows'
  <2> DEFINE e == [run |-> worker[w].run, out |-> Grading!Clipped(worker[w].out)]
  <2>1. /\ worker[w].pc = "ran" /\ events' = Append(events, e) /\ alive /\ ~mixed /\ eval' = eval /\ results' = results
        /\ worker' = [worker EXCEPT ![w] = IF worker[w].pytest THEN [worker[w] EXCEPT !.pc = "written"]
                                           ELSE Grading!Idle]
    BY <1>2 DEF Grading!WriteEvent, Grading!session
  <2>2. worker[w] \in Executing /\ worker[w].out \in Outcomes /\ worker[w].run \in 1..2
    <3>1. worker[w] \in Executing /\ worker[w].out \in Outcomes
      BY <2>1 DEF GradingBase, GradingTypes
    <3>. QED
      BY <3>1 DEF Executing
  <2>3. e \in ExecEvent /\ e.run = worker[w].run /\ e.out = Grading!Clipped(worker[w].out)
    BY <2>2 DEF ExecEvent, Short
  <2> HIDE DEF e
  <2>4. worker'[w].pc # "ran" /\ \A v \in Worker : v # w => worker'[v] = worker[v]
    BY <1>1, <2>1, <2>2, WorkerTyped DEF Grading!Idle
  <2>5. /\ ClippedAll(results[e.run]) = Append(OutsOf(events, e.run), e.out) /\ eval.pc # "write"
        /\ \A v \in Worker : v # w => worker[v].pc # "ran"
        /\ \A r \in 1..2 : ~Unwritten(r) => ClippedAll(results[r]) = OutsOf(events, r)
    BY <2>1, <2>3 DEF RecordingFollows
  <2>6. \A r \in 1..2 : r # e.run => ~Unwritten(r)
    BY <2>3, <2>5 DEF Unwritten
  <2>7. \A r \in 1..2 : ClippedAll(results'[r]) = OutsOf(events', r)
    BY <2>1, <2>3, <2>5, <2>6, LineWritten
  <2>. QED
    BY <2>1, <2>4, <2>5, <2>7 DEF RecordingFollows
<1>3. CASE Grading!WriteVerification
  <2> DEFINE e == [run |-> eval.mine, out |-> Grading!Clipped(eval.ver)]
  <2>1. /\ eval.pc = "write" /\ events' = Append(events, e) /\ alive /\ ~mixed /\ worker' = worker /\ results' = results
        /\ eval' = [eval EXCEPT !.pc = "attach"]
    BY <1>3 DEF Grading!WriteVerification, Grading!session
  <2>2. eval.ver \in Outcomes /\ eval.mine \in 1..2 /\ eval'.pc = "attach"
    BY <1>1, <2>1, EvalTyped DEF GradingBase, GradingTypes
  <2>3. e \in ExecEvent /\ e.run = eval.mine /\ e.out = Grading!Clipped(eval.ver)
    BY <2>2 DEF ExecEvent, Short
  <2> HIDE DEF e
  <2>4. /\ ClippedAll(results[e.run]) = Append(OutsOf(events, e.run), e.out)
        /\ \A v \in Worker : worker[v].pc # "ran"
        /\ \A r \in 1..2 : ~Unwritten(r) => ClippedAll(results[r]) = OutsOf(events, r)
    BY <2>1, <2>3 DEF RecordingFollows
  <2>5. \A r \in 1..2 : r # e.run => ~Unwritten(r)
    BY <2>3, <2>4 DEF Unwritten
  <2>6. \A r \in 1..2 : ClippedAll(results'[r]) = OutsOf(events', r)
    BY <2>1, <2>3, <2>4, <2>5, LineWritten
  <2>. QED
    BY <2>1, <2>2, <2>4, <2>6 DEF RecordingFollows
<1>. QED
  BY <1>2, <1>3

(* Every other step leaves both as they are.                                *)
LEMMA FollowsKept == GradingBase /\ RecordingFollows /\ [Grading!Next]_gradingVars => RecordingFollows'
<1> SUFFICES ASSUME GradingBase, RecordingFollows, [Grading!Next]_gradingVars PROVE RecordingFollows'
  OBVIOUS
<1>1. worker \in [Worker -> Executing] /\ eval \in Evaluating
  BY DEF GradingBase, GradingTypes
<1>2. ASSUME NEW w \in Worker, NEW o \in Outcomes, NEW p \in BOOLEAN, Grading!Execute(w, o, p)
      PROVE  RecordingFollows'
  BY <1>2, FollowsExecution
<1>3. ASSUME NEW w \in Worker, Grading!WriteEvent(w) PROVE RecordingFollows'
  BY <1>3, FollowsWriting
<1>4. ASSUME NEW w \in Worker, Grading!SetPytest(w) PROVE RecordingFollows'
  <2>1. /\ worker[w].pc = "written" /\ worker' = [worker EXCEPT ![w] = Grading!Idle]
        /\ UNCHANGED <<results, events, mixed, eval, alive>>
    BY <1>4 DEF Grading!SetPytest, Grading!session
  <2>2. worker'[w].pc # "ran" /\ \A v \in Worker : v # w => worker'[v] = worker[v]
    BY <1>1, <2>1 DEF Grading!Idle
  <2>. QED
    BY <2>1, <2>2, FollowsStays
<1>5. ASSUME NEW c \in Criterias, NEW r \in 1..2, Grading!Evaluate(c, r) PROVE RecordingFollows'
  <2>1. eval.pc = "idle" /\ eval'.pc # "write" /\ UNCHANGED <<results, events, mixed, worker, alive>>
    BY <1>5 DEF Grading!Evaluate, Grading!session, Grading!record
  <2>. QED
    BY <2>1, FollowsStays
<1>6. ASSUME NEW o \in Outcomes, Grading!Verify(o) PROVE RecordingFollows'
  BY <1>6, FollowsExecution
<1>7. ASSUME NEW o \in Outcomes, Grading!VerifyFresh(o) PROVE RecordingFollows'
  <2>1. eval.pc = "verify" /\ eval' = [eval EXCEPT !.pc = "attach", !.ver = o]
        /\ UNCHANGED <<results, events, mixed, worker, alive>>
    BY <1>7 DEF Grading!VerifyFresh, Grading!session
  <2>2. eval'.pc = "attach"
    BY <1>1, <2>1 DEF Evaluating
  <2>. QED
    BY <2>1, <2>2, FollowsStays
<1>8. CASE Grading!VerifyFails \/ Grading!Save
  <2>1. eval.pc # "write" /\ eval' = Grading!NoEval /\ UNCHANGED <<results, events, mixed, worker, alive>>
    BY <1>8 DEF Grading!VerifyFails, Grading!Save, Grading!session, Grading!record
  <2>. QED
    BY <2>1, FollowsStays DEF Grading!NoEval
<1>9. CASE Grading!WriteVerification
  BY <1>9, FollowsWriting
<1>10. CASE Grading!Attach \/ Grading!Grade
  <2>1. eval.pc # "write" /\ (eval' = [eval EXCEPT !.pc = "grade"] \/ eval' = [eval EXCEPT !.pc = "save"])
        /\ UNCHANGED <<results, events, mixed, worker, alive>>
    BY <1>10 DEF Grading!Attach, Grading!Grade, Grading!session, Grading!record
  <2>2. [eval EXCEPT !.pc = "grade"].pc = "grade" /\ [eval EXCEPT !.pc = "save"].pc = "save"
    BY <1>1, EvalTyped
  <2>3. eval'.pc # "write"
    BY <2>1, <2>2
  <2>. QED
    BY <2>1, <2>3, FollowsStays
<1>11. CASE Grading!Close \/ Grading!Crash
  <2>1. ~alive'
    BY <1>11 DEF Grading!Close, Grading!Crash
  <2>. QED
    BY <2>1 DEF RecordingFollows
<1>12. CASE \/ Grading!EndRun \/ Grading!OpenRecorded \/ Grading!EvaluateRecorded
            \/ UNCHANGED gradingVars
  <2>1. UNCHANGED <<results, events, mixed, worker, eval, alive>>
    BY <1>12 DEF Grading!EndRun, Grading!OpenRecorded, Grading!EvaluateRecorded, gradingVars,
                 Grading!session, Grading!record
  <2>. QED
    BY <2>1, FollowsStays
<1>. QED
  BY <1>2, <1>3, <1>4, <1>5, <1>6, <1>7, <1>8, <1>9, <1>10, <1>11, <1>12 DEF Grading!Next, Grading!Run

-----------------------------------------------------------------------------
(* The verdict *)

(* When the session is over, the file has all of the run that was graded,   *)
(* clipped.                                                                *)
RecordingWhole == ~alive /\ same /\ ~mixed => ClippedAll(results[verdict.run]) = OutsOf(events, verdict.run)

(* The rules still come to what the report says.                            *)
VerdictHolds ==
    same /\ ~mixed =>
      /\ verdict.passed = Grading!Aggregate(verdict.criteria, harness[verdict.run], meta[verdict.run],
                                            results[verdict.run], verdict.there, verdict.opinion)
      /\ verdict.long = HasLong(results[verdict.run])

(* What the report was made from is in session.json, unless the recording   *)
(* that a live session had opened was saved over it.                        *)
VerdictSaved ==
    same /\ verdict.saved /\ ~(reread.made /\ ~reread.late) =>
      saved.meta[verdict.run] = meta[verdict.run] /\ saved.harness[verdict.run] = harness[verdict.run]

(* The recording that was opened late has what is saved, ...                *)
ReportOfRecording == reread.made /\ reread.late => reread.saved = saved

(* ... and its report is what the rules make of that.                       *)
SameReport ==
    again.made /\ reread.late =>
      again.passed = Grading!Aggregate(verdict.criteria, saved.harness[verdict.run], saved.meta[verdict.run],
                                       OutsOf(events, verdict.run), again.there, again.opinion)

VerdictInv ==
    /\ RecordingWhole /\ VerdictHolds /\ VerdictSaved /\ ReportOfRecording /\ SameReport
    /\ Grading!HarnessDecides /\ Grading!ClosedStays

(* The invariants imply what is to be shown.                                *)
LEMMA VerdictInvMeans ==
  ASSUME GradingBase, VerdictInv PROVE VerdictStands
<1>1. ASSUME again.made, reread.late, verdict.saved, same, ~mixed, ~verdict.long, again.there = verdict.there,
             again.opinion = verdict.opinion
      PROVE  again.passed = verdict.passed
  <2>1. reread.made /\ ~alive /\ verdict \in Graded
    BY <1>1, MadeIsGraded DEF GradingBase, GradingOrder, GradingTypes
  <2>2. /\ verdict.passed = Grading!Aggregate(verdict.criteria, harness[verdict.run], meta[verdict.run],
                                              results[verdict.run], verdict.there, verdict.opinion)
        /\ ~HasLong(results[verdict.run])
        /\ ClippedAll(results[verdict.run]) = OutsOf(events, verdict.run)
    BY <1>1, <2>1 DEF VerdictInv, RecordingWhole, VerdictHolds
  <2>3. results[verdict.run] = OutsOf(events, verdict.run)
    <3>1. verdict.run \in 1..2
      BY <2>1 DEF Graded
    <3>2. results[verdict.run] \in Seq(Outcomes)
      BY <3>1 DEF GradingBase, GradingTypes, RecordTypes
    <3>3. \E o : o \in Outcomes
      BY DEF Outcomes
    <3>. QED
      BY <2>2, <3>2, <3>3, ClippedAppends DEF HasLong
  <2>4. saved.meta[verdict.run] = meta[verdict.run] /\ saved.harness[verdict.run] = harness[verdict.run]
    BY <1>1 DEF VerdictInv, VerdictSaved
  <2>5. again.passed = Grading!Aggregate(verdict.criteria, saved.harness[verdict.run],
           saved.meta[verdict.run], OutsOf(events, verdict.run), again.there, again.opinion)
    BY <1>1 DEF VerdictInv, SameReport
  <2>. QED
    BY ONLY <1>1, <2>2, <2>3, <2>4, <2>5
<1>. QED
  BY <1>1 DEF VerdictStands, VerdictInv, Grading!SameWhenReopened

(* What does not touch the run that was graded leaves the verdict as it is. *)
LEMMA VerdictKeeps ==
  ASSUME GradingBase, VerdictInv, UNCHANGED <<verdict, reread, again, gone, saved, alive>>,
         same' => same, mixed => mixed',
         same' => /\ harness'[verdict.run] = harness[verdict.run] /\ meta'[verdict.run] = meta[verdict.run]
                  /\ results'[verdict.run] = results[verdict.run],
         alive \/ UNCHANGED <<events, results, harness, meta>>
  PROVE  VerdictInv'
<1>1. RecordingWhole' /\ VerdictHolds' /\ VerdictSaved'
  BY DEF VerdictInv, RecordingWhole, VerdictHolds, VerdictSaved
<1>2. ReportOfRecording' /\ SameReport'
  BY DEF VerdictInv, ReportOfRecording, SameReport, GradingBase, GradingOrder
<1>3. Grading!HarnessDecides'
  BY DEF VerdictInv, Grading!HarnessDecides, Grading!Counted
<1>4. Grading!ClosedStays'
  <2>1. ASSUME gone PROVE Grading!Persisted' = Grading!Persisted
    BY <2>1 DEF GradingBase, GradingOrder, Grading!Persisted
  <2>. QED
    BY <2>1 DEF VerdictInv, Grading!ClosedStays
<1>. QED
  BY <1>1, <1>2, <1>3, <1>4 DEF VerdictInv

(* What threads execute and write.                                          *)
LEMMA VerdictWorker ==
  ASSUME GradingBase, VerdictInv, NEW w \in Worker,
         \/ \E o \in Outcomes, p \in BOOLEAN : Grading!Execute(w, o, p)
         \/ Grading!WriteEvent(w)
         \/ Grading!SetPytest(w)
  PROVE  VerdictInv'
<1>1. same => verdict.run \in 1..2
  BY MadeIsGraded DEF GradingBase, GradingOrder, GradingTypes, Graded
<1>2. ASSUME NEW o \in Outcomes, NEW p \in BOOLEAN, Grading!Execute(w, o, p) PROVE VerdictInv'
  <2>1. /\ alive /\ Grading!Target \in 1..2 /\ \A r \in 1..2 : r # Grading!Target => results'[r] = results[r]
        /\ same' = (same /\ verdict.run # Grading!Target) /\ mixed' = (mixed \/ Grading!Recording)
        /\ UNCHANGED <<verdict, reread, again, gone, saved, alive, harness, meta>>
    BY <1>2, RecordKept DEF GradingBase, GradingTypes, Grading!Execute, Grading!session
  <2>. QED
    BY <1>1, <2>1, VerdictKeeps
<1>3. CASE Grading!WriteEvent(w)
  <2>1. worker[w].pc = "ran"
        /\ UNCHANGED <<verdict, reread, again, gone, saved, alive, harness, meta, results, same, mixed>>
    BY <1>3 DEF Grading!WriteEvent, Grading!session
  <2>2. alive
    BY <2>1 DEF GradingBase, GradingOrder
  <2>. QED
    BY <2>1, <2>2, VerdictKeeps
<1>4. CASE Grading!SetPytest(w)
  <2>1. /\ worker[w].pc = "written" /\ Grading!Target <= 2
        /\ meta' = [meta EXCEPT ![Grading!Target] = worker[w].out.tests]
        /\ same' = (same /\ verdict.run # Grading!Target)
        /\ UNCHANGED <<verdict, reread, again, gone, saved, alive, harness, results, mixed>>
    BY <1>4 DEF Grading!SetPytest, Grading!session
  <2>2. alive
    BY <2>1 DEF GradingBase, GradingOrder
  <2>3. \A r \in 1..2 : r # Grading!Target => meta'[r] = meta[r]
    BY <2>1 DEF GradingBase, GradingTypes
  <2>. QED
    BY <1>1, <2>1, <2>2, <2>3, VerdictKeeps
<1>. QED
  BY <1>2, <1>3, <1>4

(* What the harness does before it grades.                                  *)
LEMMA VerdictHarness ==
  ASSUME GradingBase, VerdictInv,
         \/ \E c \in Criterias, r \in 1..2 : Grading!Evaluate(c, r)
         \/ \E o \in Outcomes : Grading!Verify(o) \/ Grading!VerifyFresh(o)
         \/ Grading!VerifyFails \/ Grading!WriteVerification \/ Grading!Attach
  PROVE  VerdictInv'
<1>1. same => verdict.run \in 1..2
  BY MadeIsGraded DEF GradingBase, GradingOrder, GradingTypes, Graded
<1>2. ASSUME NEW o \in Outcomes, Grading!Verify(o) PROVE VerdictInv'
  <2>1. /\ alive /\ Grading!Target \in 1..2 /\ \A r \in 1..2 : r # Grading!Target => results'[r] = results[r]
        /\ same' = (same /\ verdict.run # Grading!Target) /\ mixed' = (mixed \/ Grading!Recording)
        /\ UNCHANGED <<verdict, reread, again, gone, saved, alive, harness, meta>>
    BY <1>2, RecordKept DEF GradingBase, GradingTypes, Grading!Verify, Grading!session
  <2>. QED
    BY <1>1, <2>1, VerdictKeeps
<1>3. CASE Grading!Attach
  <2>1. /\ eval.pc = "attach" /\ harness' = [harness EXCEPT ![eval.run] = eval.ver]
        /\ same' = (same /\ verdict.run # eval.run)
        /\ UNCHANGED <<verdict, reread, again, gone, saved, alive, meta, results, events, mixed>>
    BY <1>3 DEF Grading!Attach, Grading!VerifiedRun, Grading!session, Grading!record
  <2>2. alive
    BY <2>1 DEF GradingBase, GradingOrder
  <2>3. \A r \in 1..2 : r # eval.run => harness'[r] = harness[r]
    BY <2>1 DEF GradingBase, GradingTypes
  <2>. QED
    BY <1>1, <2>1, <2>2, <2>3, VerdictKeeps
<1>4. CASE Grading!WriteVerification
  <2>1. eval.pc = "write"
        /\ UNCHANGED <<verdict, reread, again, gone, saved, alive, harness, meta, results, same, mixed>>
    BY <1>4 DEF Grading!WriteVerification, Grading!session
  <2>2. alive
    BY <2>1 DEF GradingBase, GradingOrder
  <2>. QED
    BY <2>1, <2>2, VerdictKeeps
<1>5. CASE \/ \E c \in Criterias, r \in 1..2 : Grading!Evaluate(c, r)
           \/ \E o \in Outcomes : Grading!VerifyFresh(o)
           \/ Grading!VerifyFails
  <2>1. UNCHANGED <<verdict, reread, again, gone, saved, alive, harness, meta, results, events, same, mixed>>
    BY <1>5 DEF Grading!Evaluate, Grading!VerifyFresh, Grading!VerifyFails, Grading!session, Grading!record
  <2>. QED
    BY <2>1, VerdictKeeps
<1>. QED
  BY <1>2, <1>3, <1>4, <1>5

(* A run that is graded without a result has none in the file either.       *)
LEMMA GradedOnAll ==
  ASSUME GradingBase, RecordingFollows, alive, ~mixed, NEW r \in 1..2, eval.pc = "grade"
  PROVE  (IF results[r] # <<>> THEN results[r] ELSE OutsOf(events, r)) = results[r]
<1> SUFFICES ASSUME results[r] = <<>> PROVE OutsOf(events, r) = <<>>
  OBVIOUS
<1>1. /\ \A w \in Worker : worker[w].pc = "ran" =>
           ClippedAll(results[worker[w].run])
             = Append(OutsOf(events, worker[w].run), Grading!Clipped(worker[w].out))
      /\ (~Unwritten(r) => ClippedAll(results[r]) = OutsOf(events, r))
      /\ ClippedAll(results[r]) = <<>>
  <2>1. ClippedAll(results[r]) = <<>>
    <3>1. ClippedAll(results[r]) \in Seq(Short) /\ (ClippedAll(results[r]) = <<>> <=> results[r] = <<>>)
      <4>1. results[r] \in Seq(Outcomes)
        BY DEF GradingBase, GradingTypes, RecordTypes
      <4>2. PICK o \in Outcomes : TRUE
        BY DEF Outcomes
      <4>. QED
        BY <4>1, <4>2, ClippedAppends
    <3>. QED
      BY <3>1
  <2>. QED
    BY <2>1 DEF RecordingFollows
<1>2. ASSUME Unwritten(r) PROVE FALSE
  <2>1. PICK w \in Worker : worker[w].pc = "ran" /\ worker[w].run = r
    BY <1>2 DEF Unwritten
  <2>2. <<>> = Append(OutsOf(events, r), Grading!Clipped(worker[w].out)) /\ worker[w].out \in Outcomes
    BY <1>1, <2>1 DEF GradingBase, GradingTypes
  <2>3. OutsOf(events, r) \in Seq(Short)
    <3>1. [run |-> r, out |-> Grading!Clipped(worker[w].out)] \in ExecEvent /\ events \in Seq(ExecEvent)
      BY <2>2 DEF ExecEvent, Short, GradingBase, GradingTypes, RecordTypes
    <3>. QED
      BY <3>1, LineAdds
  <2>. QED
    BY <2>2, <2>3
<1>. QED
  BY <1>1, <1>2

(* A report that is made.                                                   *)
LEMMA VerdictGrade == ASSUME GradingBase, RecordingFollows, VerdictInv, Grading!Grade PROVE VerdictInv'
<1>1. /\ eval.pc = "grade" /\ same' = (harness[eval.run] = eval.ver)
      /\ UNCHANGED <<results, events, meta, harness, saved, alive, gone, reread, mixed, again>>
      /\ eval.run \in 1..2 /\ verdict'.run = eval.run /\ verdict'.ver = eval.ver /\ verdict'.saved = FALSE
  BY GradeMakes DEF GradingBase
<1>2. PICK rs : /\ rs = IF results[eval.run] # <<>> THEN results[eval.run] ELSE OutsOf(events, eval.run)
                /\ verdict'.pytest = (Grading!PytestReport(eval.ver, meta[eval.run], rs) = "pass")
                /\ verdict'.long = HasLong(rs)
                /\ verdict'.passed = Grading!Aggregate(verdict'.criteria, eval.ver, meta[eval.run], rs,
                                                       verdict'.there, verdict'.opinion)
  BY GradeMakes DEF GradingBase
<1>3. alive /\ ~gone /\ ~(reread.made /\ reread.late) /\ ~(again.made /\ reread.late)
  BY <1>1 DEF GradingBase, GradingOrder
<1>4. ~mixed => rs = results[eval.run]
  BY <1>1, <1>2, <1>3, GradedOnAll
<1>5. VerdictHolds'
  BY <1>1, <1>2, <1>4 DEF VerdictHolds
<1>6. RecordingWhole' /\ VerdictSaved' /\ ReportOfRecording'
  BY <1>1, <1>3 DEF RecordingWhole, VerdictSaved, ReportOfRecording
<1>7. SameReport'
  BY <1>1, <1>3 DEF SameReport
<1>8. Grading!HarnessDecides'
  <2>1. ASSUME Grading!Counted(eval.ver.tests)
        PROVE  verdict'.pytest <=> eval.ver.tests = "pass"
    <3>1. Grading!PytestReport(eval.ver, meta[eval.run], rs) = eval.ver.tests
      BY <2>1 DEF Grading!PytestReport
    <3>. QED
      BY <1>2, <3>1
  <2>2. verdict'.ver.tests = eval.ver.tests
    BY <1>1
  <2>. QED
    BY <2>1, <2>2 DEF Grading!HarnessDecides, Grading!Counted
<1>9. Grading!ClosedStays'
  BY <1>1, <1>3 DEF Grading!ClosedStays
<1>. QED
  BY <1>5, <1>6, <1>7, <1>8, <1>9 DEF VerdictInv

(* A report that is saved.                                                  *)
LEMMA VerdictSave == ASSUME GradingBase, VerdictInv, Grading!Save PROVE VerdictInv'
<1>1. /\ eval.pc = "save" /\ saved' = Grading!Persisted /\ verdict' = [verdict EXCEPT !.saved = TRUE]
      /\ UNCHANGED <<results, events, meta, harness, alive, gone, reread, same, mixed, again>>
  BY DEF Grading!Save, Grading!session, Grading!record
<1>2. verdict \in Graded
  BY <1>1, MadeIsGraded DEF GradingBase, GradingTypes, GradingOrder
<1>3. /\ verdict'.made /\ verdict'.run = verdict.run /\ verdict'.criteria = verdict.criteria
      /\ verdict'.ver = verdict.ver /\ verdict'.opinion = verdict.opinion /\ verdict'.pytest = verdict.pytest
      /\ verdict'.passed = verdict.passed /\ verdict'.there = verdict.there /\ verdict'.long = verdict.long
  BY <1>1, <1>2, ReportSaved
<1>4. alive /\ ~gone /\ ~(reread.made /\ reread.late) /\ ~(again.made /\ reread.late)
  BY <1>1 DEF GradingBase, GradingOrder
<1>5. saved'.meta = meta /\ saved'.harness = harness
  BY <1>1, PersistTyped DEF GradingBase
<1>6. VerdictHolds' /\ VerdictSaved'
  BY <1>1, <1>3, <1>5 DEF VerdictInv, VerdictHolds, VerdictSaved
<1>7. RecordingWhole' /\ ReportOfRecording'
  BY <1>1, <1>4 DEF RecordingWhole, ReportOfRecording
<1>8. SameReport'
  BY <1>1, <1>4 DEF SameReport
<1>9. Grading!HarnessDecides'
  <2>1. verdict.made
    BY <1>2 DEF Graded
  <2>. QED
    BY <1>3, <2>1 DEF VerdictInv, Grading!HarnessDecides, Grading!Counted
<1>10. Grading!ClosedStays'
  BY <1>1, <1>4 DEF Grading!ClosedStays
<1>. QED
  BY <1>6, <1>7, <1>8, <1>9, <1>10 DEF VerdictInv

(* The run ends, the session does, or the process dies.                     *)
LEMMA VerdictEnds ==
  ASSUME GradingBase, RecordingFollows, VerdictInv, Grading!EndRun \/ Grading!Close \/ Grading!Crash
  PROVE  VerdictInv'
<1>1. /\ alive /\ saved' \in {saved, Grading!Persisted} /\ (gone' => saved' = Grading!Persisted)
      /\ (same' => same)
      /\ (same' /\ ~alive' => ~Unwritten(verdict.run))
      /\ UNCHANGED <<results, events, meta, harness, verdict, reread, mixed, again>>
  <2>1. CASE Grading!EndRun
    <3>1. alive /\ saved' = Grading!Persisted
          /\ UNCHANGED <<results, events, meta, harness, verdict, alive, gone, reread, same, mixed, again>>
      BY <2>1 DEF Grading!EndRun, Grading!session
    <3>. QED
      BY <3>1
  <2>2. CASE Grading!Close
    <3>1. alive /\ saved' = Grading!Persisted /\ Grading!Quiet
          /\ UNCHANGED <<results, events, meta, harness, verdict, reread, same, mixed, again>>
      BY <2>2 DEF Grading!Close, Grading!record
    <3>2. ~Unwritten(verdict.run)
      BY <3>1 DEF Grading!Quiet, Unwritten
    <3>. QED
      BY <3>1, <3>2
  <2>3. CASE Grading!Crash
    <3>1. alive /\ same' = (same /\ \A w \in Worker : worker[w].pc = "ran" => worker[w].run # verdict.run)
          /\ UNCHANGED <<results, events, meta, harness, saved, verdict, gone, reread, mixed, again>>
      BY <2>3 DEF Grading!Crash, Grading!record
    <3>2. ~gone
      BY <3>1 DEF GradingBase, GradingOrder
    <3>3. same' => ~Unwritten(verdict.run)
      BY <3>1 DEF GradingBase, GradingOrder, Unwritten
    <3>. QED
      BY <3>1, <3>2, <3>3
  <2>. QED
    BY <2>1, <2>2, <2>3
<1>2. ~(reread.made /\ reread.late) /\ ~(again.made /\ reread.late)
  BY <1>1 DEF GradingBase, GradingOrder
<1>3. Grading!Persisted.meta = meta /\ Grading!Persisted.harness = harness /\ Grading!Persisted' = Grading!Persisted
  BY <1>1 DEF Grading!Persisted
<1>4. same => verdict.run \in 1..2
  BY MadeIsGraded DEF GradingBase, GradingOrder, GradingTypes, Graded
<1>5. RecordingWhole'
  BY <1>1, <1>4 DEF RecordingFollows, RecordingWhole
<1>6. VerdictHolds'
  BY <1>1 DEF VerdictInv, VerdictHolds
<1>7. VerdictSaved'
  BY <1>1, <1>3 DEF VerdictInv, VerdictSaved
<1>8. ReportOfRecording' /\ SameReport'
  BY <1>1, <1>2 DEF ReportOfRecording, SameReport
<1>9. Grading!HarnessDecides'
  BY <1>1 DEF VerdictInv, Grading!HarnessDecides, Grading!Counted
<1>10. Grading!ClosedStays'
  BY <1>1, <1>3 DEF Grading!ClosedStays
<1>. QED
  BY <1>5, <1>6, <1>7, <1>8, <1>9, <1>10 DEF VerdictInv

(* The recording is opened, and saved.                                      *)
LEMMA VerdictOpens ==
  ASSUME GradingBase, VerdictInv, Grading!OpenRecorded \/ Grading!EvaluateRecorded
  PROVE  VerdictInv'
<1>1. CASE Grading!OpenRecorded
  <2>1. /\ ~reread.made /\ reread'.made /\ reread'.late = ~alive /\ reread'.saved = saved
        /\ (alive => ~verdict.made)
        /\ UNCHANGED <<results, events, meta, harness, saved, verdict, alive, gone, same, mixed, again>>
    BY <1>1, RereadMakes DEF GradingBase
  <2>2. ~again.made /\ (alive => ~same /\ ~gone)
    BY <2>1 DEF GradingBase, GradingOrder
  <2>3. RecordingWhole' /\ VerdictHolds' /\ ReportOfRecording' /\ SameReport'
    BY <2>1, <2>2 DEF VerdictInv, RecordingWhole, VerdictHolds, ReportOfRecording, SameReport
  <2>4. VerdictSaved'
    BY <2>1, <2>2 DEF VerdictInv, VerdictSaved
  <2>5. Grading!HarnessDecides'
    BY <2>1 DEF VerdictInv, Grading!HarnessDecides, Grading!Counted
  <2>6. Grading!ClosedStays'
    <3>1. Grading!Persisted' = Grading!Persisted
      BY <2>1 DEF Grading!Persisted
    <3>. QED
      BY <2>1, <2>2, <3>1 DEF VerdictInv, Grading!ClosedStays
  <2>. QED
    BY <2>3, <2>4, <2>5, <2>6 DEF VerdictInv
<1>2. CASE Grading!EvaluateRecorded
  <2>1. /\ reread.made /\ ~again.made /\ saved' = reread.saved /\ again'.made
        /\ UNCHANGED <<results, events, meta, harness, verdict, alive, gone, reread, same, mixed>>
    BY <1>2, AgainMakes
  <2>2. reread.late => saved' = saved
    BY <2>1 DEF VerdictInv, ReportOfRecording
  <2>3. RecordingWhole' /\ VerdictHolds'
    BY <2>1 DEF VerdictInv, RecordingWhole, VerdictHolds
  <2>4. VerdictSaved' /\ ReportOfRecording'
    BY <2>1, <2>2 DEF VerdictInv, VerdictSaved, ReportOfRecording
  <2>5. SameReport'
    <3>1. ASSUME reread.late
          PROVE  again'.passed = Grading!Aggregate(verdict.criteria, reread.saved.harness[verdict.run],
                                   reread.saved.meta[verdict.run], OutsOf(events, verdict.run), again'.there,
                                   again'.opinion)
      BY <1>2, <3>1, AgainMakes
    <3>. QED
      BY ONLY <2>1, <3>1 DEF SameReport
  <2>6. Grading!HarnessDecides'
    BY <2>1 DEF VerdictInv, Grading!HarnessDecides, Grading!Counted
  <2>7. Grading!ClosedStays'
    <3>1. Grading!Persisted' = Grading!Persisted
      BY <2>1 DEF Grading!Persisted
    <3>2. CASE reread.late
      BY <2>1, <2>2, <3>1, <3>2 DEF VerdictInv, Grading!ClosedStays
    <3>3. CASE ~reread.late
      BY <2>1, <3>3 DEF Grading!ClosedStays
    <3>. QED
      BY <3>2, <3>3
  <2>. QED
    BY <2>3, <2>4, <2>5, <2>6, <2>7 DEF VerdictInv
<1>. QED
  BY <1>1, <1>2

GradingInv == GradingBase /\ RecordingFollows /\ VerdictInv

(* Every step of the grading keeps the invariant. *)
LEMMA GradingKept == GradingInv /\ [Grading!Next]_gradingVars => GradingInv'
<1> SUFFICES ASSUME GradingInv, [Grading!Next]_gradingVars PROVE GradingInv'
  OBVIOUS
<1>1. GradingBase /\ RecordingFollows /\ VerdictInv /\ GradingBase' /\ RecordingFollows'
  BY BaseKept, FollowsKept DEF GradingInv
<1>2. ASSUME NEW w \in Worker, NEW o \in Outcomes, NEW p \in BOOLEAN, Grading!Execute(w, o, p) PROVE VerdictInv'
  BY <1>1, <1>2, VerdictWorker
<1>3. ASSUME NEW w \in Worker, Grading!WriteEvent(w) \/ Grading!SetPytest(w) PROVE VerdictInv'
  BY <1>1, <1>3, VerdictWorker
<1>4. ASSUME NEW c \in Criterias, NEW r \in 1..2, Grading!Evaluate(c, r) PROVE VerdictInv'
  BY <1>1, <1>4, VerdictHarness
<1>5. ASSUME NEW o \in Outcomes, Grading!Verify(o) \/ Grading!VerifyFresh(o) PROVE VerdictInv'
  BY <1>1, <1>5, VerdictHarness
<1>6. ASSUME Grading!VerifyFails \/ Grading!WriteVerification \/ Grading!Attach PROVE VerdictInv'
  BY <1>1, <1>6, VerdictHarness
<1>7. ASSUME Grading!Grade PROVE VerdictInv'
  BY <1>1, <1>7, VerdictGrade
<1>8. ASSUME Grading!Save PROVE VerdictInv'
  BY <1>1, <1>8, VerdictSave
<1>9. ASSUME Grading!EndRun \/ Grading!Close \/ Grading!Crash PROVE VerdictInv'
  BY <1>1, <1>9, VerdictEnds
<1>10. ASSUME Grading!OpenRecorded \/ Grading!EvaluateRecorded PROVE VerdictInv'
  BY <1>1, <1>10, VerdictOpens
<1>11. ASSUME UNCHANGED gradingVars PROVE VerdictInv'
  BY <1>1, <1>11, VerdictKeeps DEF gradingVars
<1>12. VerdictInv'
  BY <1>2, <1>3, <1>4, <1>5, <1>6, <1>7, <1>8, <1>9, <1>10, <1>11 DEF Grading!Next, Grading!Run
<1>. QED
  BY <1>1, <1>12 DEF GradingInv

(* It holds when nothing has been recorded.                                 *)
LEMMA GradingStarts == Grading!Init => GradingInv
<1> SUFFICES ASSUME Grading!Init PROVE GradingInv
  OBVIOUS
<1>1. /\ results = [r \in 1..2 |-> <<>>] /\ events = <<>> /\ graded = 1 /\ nruns = 1
      /\ meta = [r \in 1..2 |-> "absent"] /\ harness = [r \in 1..2 |-> Grading!Absent]
      /\ saved = [meta |-> meta, harness |-> harness]
      /\ worker = [w \in Worker |-> Grading!Idle] /\ eval = Grading!NoEval
      /\ verdict = Grading!NoReport /\ again = Grading!NoReport
      /\ alive = TRUE /\ gone = FALSE /\ reread = Grading!Unopened /\ same = FALSE /\ mixed = FALSE
  BY DEF Grading!Init, Grading!Run
<1>2. RecordTypes
  BY <1>1 DEF RecordTypes
<1>3. meta \in [1..2 -> Tally] /\ harness \in [1..2 -> Say] /\ saved \in Persist
  BY <1>1, OutcomesTyped DEF Tally, Persist
<1>4. Grading!Idle \in Executing /\ Grading!Idle.pc = "idle" /\ Grading!NoEval \in Evaluating /\ Grading!NoEval.pc = "idle"
  BY OutcomesTyped DEF Grading!Idle, Executing, Grading!NoEval, Evaluating
<1>5. reread \in Reopened /\ reread.made = FALSE /\ reread.late = FALSE
      /\ verdict.made = FALSE /\ again.made = FALSE
  BY <1>1 DEF Reopened, Grading!Unopened, Grading!NoReport
<1>6. GradingBase
  <2>1. GradingTypes
    BY <1>1, <1>2, <1>3, <1>4, <1>5 DEF GradingTypes
  <2>2. GradingOrder
    BY <1>1, <1>4, <1>5 DEF GradingOrder
  <2>. QED
    BY <2>1, <2>2 DEF GradingBase
<1>7. RecordingFollows
  <2>1. ClippedAll(<<>>) = <<>>
    BY DEF ClippedAll
  <2>. QED
    BY <1>1, <1>4, <2>1, NoLines DEF RecordingFollows
<1>8. VerdictInv
  <2>1. RecordingWhole /\ VerdictHolds /\ VerdictSaved /\ ReportOfRecording /\ SameReport
    BY <1>1, <1>5 DEF RecordingWhole, VerdictHolds, VerdictSaved, ReportOfRecording, SameReport
  <2>2. Grading!HarnessDecides /\ Grading!ClosedStays
    BY <1>1, <1>5 DEF Grading!HarnessDecides, Grading!ClosedStays
  <2>. QED
    BY <2>1, <2>2 DEF VerdictInv
<1>. QED
  BY <1>6, <1>7, <1>8 DEF GradingInv

(* The grading is in order from the first execution on. *)
LEMMA GradingAlways == WSpec => []GradingInv
<1>1. WInit => GradingInv
  BY GradingStarts DEF WInit
<1>2. GradingInv /\ [WNext]_<<focus, vars, hostVars, workVars>> => GradingInv'
  BY GradingKept, GradingStep
<1>. QED
  BY <1>1, <1>2, PTL DEF WSpec

(* "the pytest rule looks only at the harness's run result" (session.py     *)
(* 501), "post-hoc grading" (api.py 297) and what close() saves: the        *)
(* harness's tests decide, the recording gives the verdict that the live    *)
(* session gave when it has all that the verdict was made from (no long      *)
(* output, the same listing of the file that is asked for), and grading it  *)
(* does not set back what close() saved; for any number of threads and      *)
(* executions, and whatever the rules come to.                              *)
THEOREM RecordingGivesVerdict == WSpec => []VerdictStands
<1>1. GradingInv => VerdictStands
  BY VerdictInvMeans DEF GradingInv
<1>. QED
  BY <1>1, GradingAlways, PTL

-----------------------------------------------------------------------------
(* What the agent is told *)

(* A step of the whole is one of the agent's run, or leaves it as it is.    *)
LEMMA AgentStep == [WNext]_<<focus, vars, hostVars, workVars>> => [Agent!Next]_agentVars
  BY DEF WNext, HNext, Work, workVars, agentVars

(* What the first responses cost, for each number of them.                  *)
Sums(prices) ==
    CHOOSE sum : sum = [n \in 0..Len(prices) |-> IF n = 0 THEN 0 ELSE sum[n - 1] + prices[n]]

(* It starts at nothing, and each response adds its price.                  *)
LEMMA SumsAre ==
  ASSUME NEW prices \in Seq(Nat)
  PROVE  /\ Sums(prices) \in [0..Len(prices) -> Nat] /\ Sums(prices)[0] = 0
         /\ \A i \in 1..Len(prices) : Sums(prices)[i] = Sums(prices)[i - 1] + prices[i]
<1> DEFINE n == Len(prices)
           F == [x \in Nat \X (1..n) |-> x[1] + prices[x[2]]]
           Is(g) == g = [i \in 0..n |-> IF i = 0 THEN 0 ELSE g[i - 1] + prices[i]]
           sums == CHOOSE g : Is(g)
<1>1. n \in Nat /\ 0 \in Nat
  OBVIOUS
<1>2. ASSUME NEW v \in Nat, NEW i \in 1..n PROVE F[<<v, i>>] = v + prices[i]
  OBVIOUS
<1>3. ASSUME NEW i \in 1..n PROVE prices[i] \in Nat
  OBVIOUS
<1>4. F \in [Nat \X (1..n) -> Nat]
  <2>1. ASSUME NEW v \in Nat, NEW i \in 1..n PROVE v + prices[i] \in Nat
    BY <1>3
  <2>. QED
    BY <2>1
<1>5. PICK f : f \in Recursive(Nat, 0, n, F)
  <2> HIDE DEF n, F
  <2>. QED
    BY ONLY <1>1, <1>4, RecursionExists
<1>6. \E g : Is(g)
  <2> HIDE DEF n, F
  <2>1. f \in [0..n -> Nat] /\ f[0] = 0 /\ \A i \in 1..n : f[i] = F[<<f[i - 1], i>>]
    BY <1>5 DEF Recursive
  <2>2. ASSUME NEW i \in 1..n PROVE f[i] = f[i - 1] + prices[i]
    <3>1. f[i - 1] \in Nat /\ f[i] = F[<<f[i - 1], i>>]
      BY <1>1, <2>1
    <3>. QED
      BY <1>2, <3>1
  <2>3. ASSUME NEW i \in 0..n PROVE f[i] = IF i = 0 THEN 0 ELSE f[i - 1] + prices[i]
    <3>1. CASE i = 0
      BY <2>1, <3>1
    <3>2. CASE i \in 1..n
      BY <1>1, <2>2, <3>2
    <3>. QED
      BY <1>1, <3>1, <3>2
  <2>4. Is(f)
    BY ONLY <2>1, <2>3
  <2>. QED
    BY <2>4
<1>7. Is(sums)
  <2> HIDE DEF Is
  <2>. QED
    BY <1>6
<1>8. sums = Sums(prices)
  BY DEF Sums
<1>9. sums[0] = 0
  <2> HIDE DEF sums
  <2>. QED
    BY <1>7
<1>10. ASSUME NEW i \in 1..n PROVE sums[i] = sums[i - 1] + prices[i]
  <2> HIDE DEF sums, n
  <2>1. i \in 0..n /\ i # 0
    BY <1>1
  <2>. QED
    BY ONLY <1>7, <2>1
<1>11. \A i \in 0..n : sums[i] \in Nat
  <2> DEFINE S == {i \in 0..n : sums[i] \in Nat}
  <2>1. 0 \in S
    <3> HIDE DEF sums
    <3>. QED
      BY <1>1, <1>9
  <2>2. ASSUME NEW i \in 1..n, i - 1 \in S PROVE i \in S
    <3>1. sums[i - 1] \in Nat /\ i \in 0..n
      BY <2>2
    <3>2. sums[i] \in Nat
      <4> HIDE DEF sums, n
      <4>. QED
        BY <1>3, <1>10, <3>1
    <3>. QED
      BY <3>1, <3>2
  <2>3. \A i \in 0..n : i \in S
    <3> HIDE DEF S, n
    <3>. QED
      BY ONLY <1>1, <2>1, <2>2, InductionUpTo
  <2>. QED
    BY <2>3
<1>12. sums \in [0..n -> Nat]
  <2>1. sums = [i \in 0..n |-> sums[i]]
    <3> HIDE DEF sums
    <3>. QED
      BY <1>7
  <2> HIDE DEF sums
  <2>. QED
    BY <1>11, <2>1
<1> HIDE DEF sums
<1>. QED
  BY <1>8, <1>9, <1>10, <1>12

(* What they all cost.                                                      *)
LEMMA TotalIs == Agent!Total = Sums(spent)[Len(spent)]
  BY DEF Agent!Total, Sums

(* One response more leaves what the others cost.                           *)
LEMMA SumsStay ==
  ASSUME NEW prices \in Seq(Nat), NEW price \in Nat
  PROVE  \A i \in 0..Len(prices) : Sums(Append(prices, price))[i] = Sums(prices)[i]
<1> DEFINE n == Len(prices)
           more == Append(prices, price)
           f == Sums(prices)
           g == Sums(more)
           S == {i \in 0..n : g[i] = f[i]}
<1>1. /\ n \in Nat /\ more \in Seq(Nat) /\ Len(more) = n + 1
      /\ \A i \in 1..n : more[i] = prices[i]
  OBVIOUS
<1>2. f[0] = 0 /\ \A i \in 1..n : f[i] = f[i - 1] + prices[i]
  BY SumsAre
<1>3. g[0] = 0 /\ \A i \in 1..(n + 1) : g[i] = g[i - 1] + more[i]
  <2> HIDE DEF more, n
  <2>1. g[0] = 0 /\ \A i \in 1..Len(more) : g[i] = g[i - 1] + more[i]
    BY <1>1, SumsAre
  <2>. QED
    BY ONLY <1>1, <2>1
<1> HIDE DEF f, g, more
<1>4. 0 \in S
  BY <1>1, <1>2, <1>3
<1>5. ASSUME NEW i \in 1..n, i - 1 \in S PROVE i \in S
  <2>1. g[i - 1] = f[i - 1] /\ i \in 0..n /\ i \in 1..(n + 1)
    BY <1>5
  <2>. QED
    BY <1>1, <1>2, <1>3, <2>1
<1>6. \A i \in 0..n : i \in S
  <2> HIDE DEF S, n
  <2>. QED
    BY ONLY <1>1, <1>4, <1>5, InductionUpTo
<1>. QED
  BY <1>6 DEF f, g, more

Actor == Call \cup {User, System}
Place == {"idle", "asked", "approved", "shell", "stored", "ran", "answered"}
Reference == [run : Nat, no : Nat]
ToolCall == [pc : Place, ref : Reference]

(* What is recorded, and the rest.                                          *)
BookTypes ==
    /\ author \in Seq(Seq(Actor)) /\ author # <<>> /\ runNow \in 0..Len(author)
    /\ \A i \in DOMAIN author[1] : i <= MaxExec \/ author[1][i] = System

CallTypes ==
    /\ phase \in {"running", "stopping", "ended"} /\ over \in BOOLEAN
    /\ spent \in Seq(Price) /\ (\A i \in DOMAIN unread : unread[i] \in DOMAIN spent)
    /\ seen \subseteq DOMAIN spent /\ meter \in Nat /\ unread \in Seq(Nat)
    /\ held \in Call \cup {User} /\ lapped \subseteq Call
    /\ toolCall \in [Call -> ToolCall] /\ shot \in Reference
    /\ users \in 0..MaxUser /\ denied \in BOOLEAN /\ dropped \in BOOLEAN /\ covered \in BOOLEAN
    /\ outcome \in {"running", "succeeded", "failed", "cancelled"}

AgentTypes == BookTypes /\ CallTypes

(* These are the types of the run.                                          *)
LEMMA AgentTypesMean == AgentTypes => Agent!TypeOK
<1>1. BookTypes => /\ author \in Seq(Seq(Call \cup {User, System})) /\ author # <<>> /\ runNow \in 0..Len(author)
                   /\ \A i \in DOMAIN author[1] : i <= MaxExec \/ author[1][i] = System
  BY DEF BookTypes, Actor
<1>2. CallTypes => toolCall \in [Call -> [pc : {"idle", "asked", "approved", "shell", "stored", "ran", "answered"},
                                          ref : [run : Nat, no : Nat]]]
                   /\ shot \in [run : Nat, no : Nat]
  BY DEF CallTypes, ToolCall, Place, Reference
<1>. QED
  BY <1>1, <1>2 DEF AgentTypes, CallTypes, Agent!TypeOK, Agent!NoCall

(* The call is recorded last in the run, and under the reference.           *)
NewestIn(book, r, k) == r # 0 /\ book[r] # <<>> /\ book[r][Len(book[r])] = k
NamedIn(book, ref, k) ==
    ref.run \in DOMAIN book /\ ref.no \in DOMAIN book[ref.run] /\ book[ref.run][ref.no] = k

(* What is read of the present run when the lock has been left names the    *)
(* call's own execution, or another was recorded or begun since; two hold   *)
(* no lock.                                                                *)
RefsFollow ==
    /\ \A k \in Call : toolCall[k].pc = "ran" => k \in lapped \/ NewestIn(author, runNow, k)
    /\ \A k \in Call : toolCall[k].pc = "answered" => k \in lapped \/ NamedIn(author, toolCall[k].ref, k)
    /\ \A k \in Call : toolCall[k].pc \in {"shell", "stored"} => held = k

SomeStored == \E k \in Call : toolCall[k].pc = "stored"

(* An artifact is named for the number that the present run draws next only *)
(* while the call that stored it has the lock; runs that are over do not    *)
(* come back.                                                              *)
ShotsFollow ==
    /\ shot.run <= Len(author)
    /\ runNow # 0 /\ shot.run = runNow => shot.no <= Len(author[runNow]) + 1
    /\ runNow # 0 /\ shot.run = runNow /\ shot.no = Len(author[runNow]) + 1 => over \/ dropped \/ SomeStored
    /\ Agent!ShotsKept

(* What was denied or refused is remembered until the run ends.             *)
DenialsFollow ==
    /\ denied => over
    /\ phase = "ended" => Agent!AllIdle
    /\ outcome = "succeeded" => phase = "ended" /\ ~denied

(* The meter has the first m responses, and the messages that are unread    *)
(* come in order, from the last that was counted or the next to the end.    *)
Metered(m) ==
    /\ seen = 1..m /\ meter = Sums(spent)[m]
    /\ unread = <<>> => m = Len(spent)
    /\ unread # <<>> => unread[1] \in {m, m + 1} /\ unread[Len(unread)] = Len(spent)
    /\ \A i \in 1..(Len(unread) - 1) : unread[i + 1] \in {unread[i], unread[i] + 1}

MeterFollows == \E m \in 0..Len(spent) : Metered(m)

ToolsInv == AgentTypes /\ RefsFollow /\ ShotsFollow /\ DenialsFollow
AgentInv == ToolsInv /\ MeterFollows

(* The invariants imply what is to be shown.                                *)
LEMMA AgentInvMeans == AgentInv => AgentToldTrue
<1> SUFFICES ASSUME AgentInv PROVE AgentToldTrue
  OBVIOUS
<1>1. Agent!RefOwn
  BY DEF AgentInv, ToolsInv, RefsFollow, NamedIn, Agent!RefOwn
<1>2. Agent!ShotsKept /\ Agent!TellsOfBudget
  BY DEF AgentInv, ToolsInv, ShotsFollow, DenialsFollow, Agent!TellsOfBudget
<1>3. Agent!MeterExact
  BY TotalIs DEF AgentInv, MeterFollows, Metered, Agent!MeterExact
<1>. QED
  BY <1>1, <1>2, <1>3 DEF AgentToldTrue

(* A user's name is no call's, nor is the harness's.                        *)
LEMMA AgentConstants ==
  /\ User \notin Call /\ Price \subseteq Nat /\ MaxExec \in Nat /\ MaxUser \in Nat
  /\ Agent!Idle \in ToolCall /\ Agent!Idle.pc = "idle"
  /\ [Agent!Idle EXCEPT !.pc = "asked"] \in ToolCall /\ [Agent!Idle EXCEPT !.pc = "asked"].pc = "asked"
  BY SessionWorkAssumption DEF Agent!RunAssumption, Agent!Idle, Agent!NoRef, ToolCall, Place, Reference

(* A tool call that goes a step on.                                         *)
LEMMA CallGoes ==
  ASSUME AgentTypes, NEW k \in Call, NEW place \in Place, Agent!Goes(k, place)
  PROVE  /\ toolCall' \in [Call -> ToolCall] /\ toolCall'[k].pc = place
         /\ \A l \in Call : l # k => toolCall'[l] = toolCall[l]
<1>1. toolCall \in [Call -> ToolCall] /\ toolCall' = [toolCall EXCEPT ![k].pc = place]
  BY DEF AgentTypes, CallTypes, Agent!Goes
<1>2. toolCall[k] \in ToolCall
  BY <1>1
<1>3. [toolCall[k] EXCEPT !.pc = place] \in ToolCall /\ [toolCall[k] EXCEPT !.pc = place].pc = place
  BY <1>2 DEF ToolCall
<1>4. toolCall' = [toolCall EXCEPT ![k] = [toolCall[k] EXCEPT !.pc = place]]
  BY <1>1
<1>. QED
  BY <1>1, <1>3, <1>4

(* What has no part in the meter, keeps it.                                 *)
LEMMA MeterStays ==
  ASSUME MeterFollows, UNCHANGED <<spent, unread, seen, meter>> PROVE MeterFollows'
  BY DEF MeterFollows, Metered

(* As long as a call is on its way, the run has not ended.                  *)
LEMMA OnItsWay ==
  ASSUME ToolsInv, NEW k \in Call, toolCall[k].pc # "idle" PROVE phase # "ended" /\ outcome # "succeeded"
  BY DEF ToolsInv, DenialsFollow, Agent!AllIdle

(* What has no part in the book, keeps its types.                           *)
LEMMA BookStays == ASSUME BookTypes, UNCHANGED <<author, runNow>> PROVE BookTypes'
  BY DEF BookTypes

(* The present run, which is begun if there is none.                        *)
LEMMA RequiredIs ==
  ASSUME BookTypes
  PROVE  /\ Agent!Required \in Seq(Seq(Actor)) /\ Agent!Present \in 1..Len(Agent!Required)
         /\ Len(author) <= Len(Agent!Required) /\ Len(author) \in Nat /\ Len(author) >= 1
         /\ \A r \in 1..Len(author) : Agent!Required[r] = author[r]
         /\ runNow # 0 => Agent!Present = runNow /\ Agent!Required = author
         /\ runNow = 0 => Agent!Present = Len(author) + 1 /\ Agent!Required[Agent!Present] = <<>>
<1>1. author \in Seq(Seq(Actor)) /\ author # <<>> /\ runNow \in 0..Len(author) /\ Len(author) \in Nat /\ Len(author) >= 1
  BY DEF BookTypes
<1>2. CASE runNow = 0
  <2>1. Agent!Required = Append(author, <<>>) /\ Agent!Present = Len(author) + 1
    BY <1>2 DEF Agent!Required, Agent!Present
  <2>2. <<>> \in Seq(Actor)
    OBVIOUS
  <2>. QED
    BY ONLY <1>1, <1>2, <2>1, <2>2
<1>3. CASE runNow # 0
  <2>1. Agent!Required = author /\ Agent!Present = runNow
    BY <1>3 DEF Agent!Required, Agent!Present
  <2>. QED
    BY ONLY <1>1, <1>3, <2>1
<1>. QED
  BY <1>2, <1>3

(* A run more, or none: what is recorded stays.                             *)
LEMMA BookRequired ==
  ASSUME BookTypes, author' = Agent!Required, runNow' \in {0, Agent!Present}
  PROVE  /\ BookTypes' /\ Len(author) <= Len(author')
         /\ \A ref, k : NamedIn(author, ref, k) => NamedIn(author', ref, k)
<1>1. /\ Agent!Required \in Seq(Seq(Actor)) /\ Agent!Present \in 1..Len(Agent!Required)
      /\ Len(author) <= Len(Agent!Required) /\ Len(author) \in Nat /\ Len(author) >= 1
      /\ \A r \in 1..Len(author) : Agent!Required[r] = author[r]
  BY RequiredIs
<1>2. author'[1] = author[1] /\ author' # <<>>
  BY <1>1
<1>3. BookTypes'
  BY <1>1, <1>2 DEF BookTypes
<1>4. DOMAIN author = 1..Len(author) /\ DOMAIN author' = 1..Len(author')
  BY <1>1 DEF BookTypes
<1>5. ASSUME NEW ref, NEW k, NamedIn(author, ref, k) PROVE NamedIn(author', ref, k)
  <2>1. ref.run \in 1..Len(author) /\ ref.run \in 1..Len(author')
    BY <1>1, <1>4, <1>5 DEF NamedIn
  <2>2. author'[ref.run] = author[ref.run]
    BY <1>1, <2>1
  <2>. QED
    BY <1>4, <1>5, <2>1, <2>2 DEF NamedIn
<1>. QED
  BY <1>1, <1>3, <1>5

(* What is recorded, by whoever.                                            *)
LEMMA BookKeeps ==
  ASSUME BookTypes, NEW who \in Actor, Agent!Keep(who)
  PROVE  /\ BookTypes' /\ Len(author) <= Len(author')
         /\ \A ref, k : NamedIn(author, ref, k) => NamedIn(author', ref, k)
         /\ NewestIn(author', runNow', who) /\ runNow' = Agent!Present
         /\ Len(author'[runNow']) = Len(Agent!Required[Agent!Present]) + 1
         /\ lapped' = lapped \cup {k \in Call : toolCall[k].pc = "ran"} /\ over' = over
<1> DEFINE b == Agent!Required
           p == Agent!Present
<1>1. /\ b \in Seq(Seq(Actor)) /\ p \in 1..Len(b)
      /\ Len(author) <= Len(b) /\ Len(author) \in Nat /\ Len(author) >= 1
      /\ \A r \in 1..Len(author) : b[r] = author[r]
      /\ runNow # 0 => p = runNow /\ b = author
      /\ runNow = 0 => p = Len(author) + 1 /\ b[p] = <<>>
  BY RequiredIs
<1>2. /\ author' = [b EXCEPT ![p] = Append(b[p], who)] /\ runNow' = p
      /\ lapped' = lapped \cup {k \in Call : toolCall[k].pc = "ran"} /\ over' = over
      /\ (who # System => ~Agent!Full)
  BY DEF Agent!Keep, Agent!Ran
<1> HIDE DEF b, p
<1>3. b[p] \in Seq(Actor) /\ Append(b[p], who) \in Seq(Actor) /\ Len(b[p]) \in Nat
  BY <1>1
<1>4. /\ author' \in Seq(Seq(Actor)) /\ Len(author') = Len(b) /\ author'[p] = Append(b[p], who)
      /\ \A r \in 1..Len(b) : r # p => author'[r] = b[r]
  BY <1>1, <1>2, <1>3
<1>5. Len(author'[p]) = Len(b[p]) + 1 /\ author'[p][Len(b[p]) + 1] = who /\ author'[p] # <<>>
      /\ \A i \in 1..Len(b[p]) : author'[p][i] = b[p][i]
  <2> DEFINE bs == b[p]
  <2>1. bs \in Seq(Actor) /\ author'[p] = Append(bs, who)
    BY <1>3, <1>4
  <2> HIDE DEF bs
  <2>2. Len(author'[p]) = Len(bs) + 1 /\ author'[p][Len(bs) + 1] = who /\ author'[p] # <<>>
        /\ \A i \in 1..Len(bs) : author'[p][i] = bs[i]
    BY ONLY <2>1
  <2>. QED
    BY <2>2 DEF bs
<1>6. NewestIn(author', runNow', who)
  BY <1>1, <1>2, <1>5 DEF NewestIn
<1>7. ASSUME NEW i \in DOMAIN author'[1] PROVE i <= MaxExec \/ author'[1][i] = System
  <2>1. CASE p = 1
    <3>1. runNow = 1 /\ b = author
      BY <1>1, <2>1
    <3>2. \A j \in DOMAIN author[1] : j <= MaxExec \/ author[1][j] = System
      BY DEF BookTypes
    <3>3. b[p] = author[1] /\ DOMAIN author[1] = 1..Len(b[p]) /\ i \in 1..(Len(b[p]) + 1)
      BY <1>3, <1>4, <1>5, <1>7, <2>1, <3>1
    <3>4. CASE i \in 1..Len(b[p])
      BY <1>5, <2>1, <3>2, <3>3, <3>4
    <3>5. CASE i = Len(b[p]) + 1
      <4>1. who # System => Len(author[1]) < MaxExec
        BY <1>2, <1>3, <3>1, <3>3, AgentConstants DEF Agent!Full
      <4>. QED
        BY <1>3, <1>5, <2>1, <3>3, <3>5, <4>1, AgentConstants
    <3>. QED
      BY <1>3, <3>3, <3>4, <3>5
  <2>2. CASE p # 1
    <3>1. author'[1] = author[1]
      BY <1>1, <1>4, <2>2
    <3>. QED
      BY <1>7, <3>1 DEF BookTypes
  <2>. QED
    BY <2>1, <2>2
<1>8. author' # <<>> /\ runNow' \in 0..Len(author')
  BY <1>1, <1>2, <1>4
<1>9. BookTypes'
  BY <1>4, <1>7, <1>8 DEF BookTypes
<1>10. ASSUME NEW ref, NEW k, NamedIn(author, ref, k) PROVE NamedIn(author', ref, k)
  <2>1. DOMAIN author = 1..Len(author) /\ DOMAIN author' = 1..Len(b)
    BY <1>4 DEF BookTypes
  <2>2. ref.run \in 1..Len(author) /\ ref.run \in 1..Len(b) /\ b[ref.run] = author[ref.run]
    BY <1>1, <1>10, <2>1 DEF NamedIn
  <2>3. CASE ref.run = p
    <3>1. ref.no \in 1..Len(b[p]) /\ b[p][ref.no] = k
      BY <1>3, <1>10, <2>2, <2>3 DEF NamedIn
    <3>2. ref.no \in 1..(Len(b[p]) + 1) /\ DOMAIN author'[p] = 1..(Len(b[p]) + 1)
      BY <1>3, <1>4, <3>1
    <3>3. author'[ref.run][ref.no] = k
      BY <1>5, <2>3, <3>1
    <3>. QED
      BY <2>1, <2>2, <2>3, <3>2, <3>3 DEF NamedIn
  <2>4. CASE ref.run # p
    <3>1. author'[ref.run] = author[ref.run]
      BY <1>4, <2>2, <2>4
    <3>. QED
      BY <1>10, <2>1, <2>2, <3>1 DEF NamedIn
  <2>. QED
    BY <2>3, <2>4
<1>. QED
  BY <1>1, <1>2, <1>4, <1>5, <1>6, <1>9, <1>10 DEF b, p

(* ... leaves the artifacts apart.                                          *)
LEMMA ShotsKeep ==
  ASSUME BookTypes, CallTypes, ShotsFollow, NEW who \in Actor, Agent!Keep(who), UNCHANGED <<shot, covered>>,
         dropped' = dropped
  PROVE  ShotsFollow'
<1>1. /\ Len(author) <= Len(author') /\ runNow' = Agent!Present
      /\ Len(author'[runNow']) = Len(Agent!Required[Agent!Present]) + 1 /\ over' = over /\ BookTypes'
  BY BookKeeps
<1>2. /\ runNow # 0 => Agent!Present = runNow /\ Agent!Required = author
      /\ runNow = 0 => Agent!Present = Len(author) + 1
      /\ Len(author) \in Nat
  BY RequiredIs
<1>3. shot.run \in Nat /\ shot.no \in Nat
  BY DEF CallTypes, Reference
<1>4. Len(author') \in Nat
  BY <1>1 DEF BookTypes
<1>5. shot.run <= Len(author')
  BY <1>1, <1>2, <1>3, <1>4 DEF ShotsFollow
<1>6. Agent!ShotsKept'
  BY <1>1 DEF ShotsFollow, Agent!ShotsKept
<1>7. CASE runNow = 0
  <2>1. shot.run # runNow'
    BY <1>1, <1>2, <1>3, <1>7 DEF ShotsFollow
  <2>. QED
    BY <1>5, <1>6, <2>1 DEF ShotsFollow
<1>8. CASE runNow # 0
  <2>1. runNow' = runNow /\ Len(author'[runNow]) = Len(author[runNow]) + 1
    BY <1>1, <1>2, <1>8
  <2>2. Len(author[runNow]) \in Nat
    BY <1>8 DEF BookTypes
  <2>3. shot.run = runNow => shot.no <= Len(author[runNow]) + 1
    BY <1>8 DEF ShotsFollow
  <2>4. shot.run = runNow => shot.no <= Len(author'[runNow]) + 1 /\ shot.no # Len(author'[runNow]) + 1
    BY ONLY <1>3, <2>1, <2>2, <2>3
  <2>. QED
    BY <1>5, <1>6, <2>1, <2>4 DEF ShotsFollow
<1>. QED
  BY <1>7, <1>8

(* ... and so does a run more, or none.                                     *)
LEMMA ShotsRequired ==
  ASSUME BookTypes, CallTypes, ShotsFollow, UNCHANGED <<shot, covered, over, dropped>>,
         \/ author' = Agent!Required /\ runNow' = 0
         \/ author' = Append(author, <<>>) /\ runNow' = Len(author) + 1
         \/ author' = Agent!Required /\ runNow' = Agent!Present /\ (SomeStored => SomeStored')
  PROVE  ShotsFollow'
<1>1. /\ Len(author) <= Len(Agent!Required) /\ Len(author) \in Nat /\ Len(Agent!Required) \in Nat
      /\ runNow # 0 => Agent!Present = runNow /\ Agent!Required = author
      /\ runNow = 0 => Agent!Present = Len(author) + 1
  BY RequiredIs
<1>2. shot.run \in Nat /\ shot.no \in Nat /\ shot.run <= Len(author)
  BY DEF CallTypes, Reference, ShotsFollow
<1>3. Agent!ShotsKept'
  BY DEF ShotsFollow, Agent!ShotsKept
<1>4. CASE author' = Agent!Required /\ runNow' = 0
  BY <1>1, <1>2, <1>3, <1>4 DEF ShotsFollow
<1>5. CASE author' = Append(author, <<>>) /\ runNow' = Len(author) + 1
  <2>1. Len(author') = Len(author) + 1
    BY <1>5 DEF BookTypes
  <2>. QED
    BY <1>1, <1>2, <1>3, <1>5, <2>1 DEF ShotsFollow
<1>6. CASE author' = Agent!Required /\ runNow' = Agent!Present /\ (SomeStored => SomeStored')
  <2>1. CASE runNow = 0
    <3>1. shot.run # runNow' /\ shot.run <= Len(author')
      BY <1>1, <1>2, <1>6, <2>1
    <3>. QED
      BY <1>3, <3>1 DEF ShotsFollow
  <2>2. CASE runNow # 0
    BY <1>1, <1>3, <1>6, <2>2 DEF ShotsFollow
  <2>. QED
    BY <2>1, <2>2
<1>. QED
  BY <1>4, <1>5, <1>6

(* A call that goes on without the lock, or gives up its reference.         *)
LEMMA ToolsMove ==
  ASSUME ToolsInv, NEW k \in Call, NEW place \in {"idle", "approved"}, Agent!Goes(k, place),
         toolCall[k].pc \in {"asked", "approved", "ran"},
         lapped' \in {lapped, lapped \ {k}},
         UNCHANGED <<spent, unread, seen, meter, phase, over, author, runNow, users, held, shot, covered, denied,
                     dropped, outcome>>
  PROVE  ToolsInv'
<1>1. /\ toolCall' \in [Call -> ToolCall] /\ toolCall'[k].pc = place
      /\ \A l \in Call : l # k => toolCall'[l] = toolCall[l]
  BY CallGoes DEF ToolsInv, Place
<1>2. BookTypes /\ CallTypes
  BY DEF AgentTypes, ToolsInv
<1>3. AgentTypes'
  <2>1. BookTypes'
    BY <1>2, BookStays
  <2>2. CallTypes'
    BY <1>1, <1>2 DEF CallTypes
  <2>. QED
    BY <2>1, <2>2 DEF AgentTypes
<1>4. RefsFollow'
  BY <1>1 DEF ToolsInv, RefsFollow, NewestIn, NamedIn
<1>5. ShotsFollow'
  <2>1. SomeStored => SomeStored'
    BY <1>1 DEF SomeStored
  <2>. QED
    BY <2>1 DEF ToolsInv, ShotsFollow, Agent!ShotsKept
<1>6. DenialsFollow'
  <2>1. phase # "ended" /\ outcome # "succeeded"
    BY OnItsWay
  <2>. QED
    BY <2>1 DEF ToolsInv, DenialsFollow
<1>. QED
  BY <1>3, <1>4, <1>5, <1>6 DEF ToolsInv

(* The hook denies a call.                                                  *)
LEMMA ToolsDeny == ASSUME ToolsInv, NEW k \in Call, Agent!Deny(k) PROVE ToolsInv'
<1>1. /\ toolCall[k].pc = "asked" /\ Agent!Goes(k, "idle") /\ over' = TRUE /\ phase' = "stopping" /\ denied' = TRUE
      /\ UNCHANGED <<spent, unread, seen, meter, author, runNow, users, held, shot, covered, lapped, dropped, outcome>>
  BY DEF Agent!Deny, Agent!usage, Agent!book, Agent!shots
<1>2. /\ toolCall' \in [Call -> ToolCall] /\ toolCall'[k].pc = "idle"
      /\ \A l \in Call : l # k => toolCall'[l] = toolCall[l]
  BY <1>1, CallGoes DEF ToolsInv, Place
<1>3. BookTypes /\ CallTypes
  BY DEF AgentTypes, ToolsInv
<1>4. AgentTypes'
  <2>1. BookTypes'
    BY <1>1, <1>3, BookStays
  <2>2. CallTypes'
    BY <1>1, <1>2, <1>3 DEF CallTypes
  <2>. QED
    BY <2>1, <2>2 DEF AgentTypes
<1>5. RefsFollow'
  BY <1>1, <1>2 DEF ToolsInv, RefsFollow, NewestIn, NamedIn
<1>6. ShotsFollow'
  BY <1>1 DEF ToolsInv, ShotsFollow, Agent!ShotsKept
<1>7. DenialsFollow'
  <2>1. outcome # "succeeded"
    BY <1>1, OnItsWay
  <2>. QED
    BY <1>1, <2>1 DEF DenialsFollow
<1>. QED
  BY <1>4, <1>5, <1>6, <1>7 DEF ToolsInv

(* The lock is taken.                                                       *)
LEMMA ToolsRun == ASSUME ToolsInv, NEW k \in Call, Agent!Run(k) PROVE ToolsInv'
<1>1. /\ toolCall[k].pc = "approved" /\ held = User /\ held' = k /\ Agent!Goes(k, "shell")
      /\ UNCHANGED <<spent, unread, seen, meter, phase, over, author, runNow, users, shot, covered, lapped, denied,
                     dropped, outcome>>
  BY DEF Agent!Run, Agent!NoCall, Agent!usage, Agent!book, Agent!shots
<1>2. /\ toolCall' \in [Call -> ToolCall] /\ toolCall'[k].pc = "shell"
      /\ \A l \in Call : l # k => toolCall'[l] = toolCall[l]
  BY <1>1, CallGoes DEF ToolsInv, Place
<1>3. BookTypes /\ CallTypes
  BY DEF AgentTypes, ToolsInv
<1>4. AgentTypes'
  <2>1. BookTypes'
    BY <1>1, <1>3, BookStays
  <2>2. CallTypes'
    BY <1>1, <1>2, <1>3 DEF CallTypes
  <2>. QED
    BY <2>1, <2>2 DEF AgentTypes
<1>5. \A l \in Call : toolCall[l].pc \notin {"shell", "stored"}
  BY <1>1, AgentConstants DEF ToolsInv, RefsFollow
<1>6. RefsFollow'
  BY <1>1, <1>2, <1>5 DEF ToolsInv, RefsFollow, NewestIn, NamedIn
<1>7. ShotsFollow'
  <2>1. SomeStored => SomeStored'
    BY <1>5 DEF SomeStored
  <2>. QED
    BY <1>1, <2>1 DEF ToolsInv, ShotsFollow, Agent!ShotsKept
<1>8. DenialsFollow'
  <2>1. phase # "ended" /\ outcome # "succeeded"
    BY <1>1, OnItsWay
  <2>. QED
    BY <1>1, <2>1 DEF ToolsInv, DenialsFollow
<1>. QED
  BY <1>4, <1>6, <1>7, <1>8 DEF ToolsInv

(* What stays of the references when the book grows.                        *)
LEMMA RefsGrow ==
  ASSUME RefsFollow, \A ref, k : NamedIn(author, ref, k) => NamedIn(author', ref, k),
         NEW l \in Call, toolCall'[l] = toolCall[l], toolCall[l].pc = "answered", l \in lapped => l \in lapped'
  PROVE  l \in lapped' \/ NamedIn(author', toolCall'[l].ref, l)
  BY DEF RefsFollow

(* An artifact is stored, by the call that has the lock.                    *)
LEMMA ToolsStore == ASSUME ToolsInv, NEW k \in Call, Agent!Store(k) PROVE ToolsInv'
<1>1. /\ toolCall[k].pc = "shell" /\ Agent!Goes(k, "stored") /\ author' = Agent!Required /\ runNow' = Agent!Present
      /\ shot' = Agent!NextRef /\ covered' = (covered \/ Agent!NextRef = shot)
      /\ UNCHANGED <<spent, unread, seen, meter, phase, over, users, held, lapped, denied, dropped, outcome>>
  BY DEF Agent!Store, Agent!RequireRun, Agent!usage
<1>2. /\ toolCall' \in [Call -> ToolCall] /\ toolCall'[k].pc = "stored"
      /\ \A l \in Call : l # k => toolCall'[l] = toolCall[l]
  BY <1>1, CallGoes DEF ToolsInv, Place
<1>3. BookTypes /\ CallTypes
  BY DEF AgentTypes, ToolsInv
<1>4. /\ Agent!Required \in Seq(Seq(Actor)) /\ Agent!Present \in 1..Len(Agent!Required)
      /\ Len(author) \in Nat
      /\ runNow # 0 => Agent!Present = runNow /\ Agent!Required = author
      /\ runNow = 0 => Agent!Present = Len(author) + 1
  BY <1>3, RequiredIs
<1>5. Len(Agent!Required[Agent!Present]) \in Nat
  BY <1>4
<1>6. Agent!NextRef = [run |-> Agent!Present, no |-> Len(Agent!Required[Agent!Present]) + 1]
  BY DEF Agent!NextRef, Agent!LastRef
<1>7. Agent!NextRef \in Reference
  BY <1>4, <1>5, <1>6 DEF Reference
<1>8. /\ BookTypes' /\ Len(author) <= Len(author')
      /\ \A ref, l : NamedIn(author, ref, l) => NamedIn(author', ref, l)
  BY <1>1, <1>3, BookRequired
<1>9. covered' \in BOOLEAN
  BY <1>1
<1>10. AgentTypes'
  <2>1. CallTypes'
    BY <1>1, <1>2, <1>3, <1>7, <1>9 DEF CallTypes
  <2>. QED
    BY <1>8, <2>1 DEF AgentTypes
<1>11. \A l \in Call : l # k => toolCall[l].pc \notin {"shell", "stored"}
  BY <1>1 DEF ToolsInv, RefsFollow
<1>12. RefsFollow'
  <2>1. ASSUME NEW l \in Call, toolCall'[l].pc = "ran" PROVE l \in lapped' \/ NewestIn(author', runNow', l)
    <3>1. l \in lapped \/ NewestIn(author, runNow, l)
      BY <1>2, <2>1 DEF ToolsInv, RefsFollow
    <3>2. NewestIn(author, runNow, l) => author' = author /\ runNow' = runNow
      BY <1>1, <1>4 DEF NewestIn
    <3>. QED
      BY <1>1, <3>1, <3>2
  <2>2. ASSUME NEW l \in Call, toolCall'[l].pc = "answered"
        PROVE  l \in lapped' \/ NamedIn(author', toolCall'[l].ref, l)
    <3>1. toolCall'[l] = toolCall[l]
      BY <1>2, <2>2
    <3>. QED
      BY <1>1, <1>8, <2>2, <3>1, RefsGrow DEF ToolsInv
  <2>3. \A l \in Call : toolCall'[l].pc \in {"shell", "stored"} => held' = l
    BY <1>1, <1>2, <1>11 DEF ToolsInv, RefsFollow
  <2>. QED
    BY <2>1, <2>2, <2>3 DEF RefsFollow
<1>13. ~SomeStored
  BY <1>1, <1>11 DEF SomeStored
<1>14. ShotsFollow'
  <2>1. Agent!NextRef = shot => over \/ dropped
    <3>1. SUFFICES ASSUME Agent!NextRef = shot PROVE over \/ dropped
      OBVIOUS
    <3>2. shot.run = Agent!Present /\ shot.no = Len(Agent!Required[Agent!Present]) + 1
      BY <1>6, <3>1
    <3>3. runNow # 0
      BY <1>4, <3>2 DEF ToolsInv, ShotsFollow
    <3>. QED
      BY <1>4, <1>13, <3>2, <3>3 DEF ToolsInv, ShotsFollow
  <2>2. Agent!ShotsKept'
    BY <1>1, <2>1 DEF ToolsInv, ShotsFollow, Agent!ShotsKept
  <2>3. SomeStored'
    BY <1>2 DEF SomeStored
  <2>4. shot'.run = runNow' /\ shot'.no = Len(author'[runNow']) + 1 /\ runNow' <= Len(author') /\ Len(author'[runNow']) \in Nat
    BY <1>1, <1>4, <1>5, <1>6
  <2>. QED
    BY <2>2, <2>3, <2>4 DEF ShotsFollow
<1>15. DenialsFollow'
  <2>1. phase # "ended" /\ outcome # "succeeded"
    BY <1>1, OnItsWay
  <2>. QED
    BY <1>1, <2>1 DEF ToolsInv, DenialsFollow
<1>. QED
  BY <1>10, <1>12, <1>14, <1>15 DEF ToolsInv

(* The lock is left, and nothing was recorded.                              *)
LEMMA ToolsUnrecorded == ASSUME ToolsInv, NEW k \in Call, Agent!Unrecorded(k) PROVE ToolsInv'
<1>1. /\ toolCall[k].pc \in {"shell", "stored"} /\ held' = User /\ Agent!Goes(k, "idle")
      /\ dropped' = (dropped \/ toolCall[k].pc = "stored")
      /\ UNCHANGED <<spent, unread, seen, meter, phase, over, author, runNow, users, shot, covered, lapped, denied,
                     outcome>>
  BY DEF Agent!Unrecorded, Agent!NoCall, Agent!usage, Agent!book, Agent!shots
<1>2. /\ toolCall' \in [Call -> ToolCall] /\ toolCall'[k].pc = "idle"
      /\ \A l \in Call : l # k => toolCall'[l] = toolCall[l]
  BY <1>1, CallGoes DEF ToolsInv, Place
<1>3. BookTypes /\ CallTypes
  BY DEF AgentTypes, ToolsInv
<1>4. dropped' \in BOOLEAN /\ (dropped => dropped') /\ (toolCall[k].pc = "stored" => dropped')
  BY <1>1
<1>5. AgentTypes'
  <2>1. BookTypes'
    BY <1>1, <1>3, BookStays
  <2>2. CallTypes'
    BY <1>1, <1>2, <1>3, <1>4 DEF CallTypes
  <2>. QED
    BY <2>1, <2>2 DEF AgentTypes
<1>6. \A l \in Call : l # k => toolCall[l].pc \notin {"shell", "stored"}
  BY <1>1 DEF ToolsInv, RefsFollow
<1>7. RefsFollow'
  BY <1>1, <1>2, <1>6 DEF ToolsInv, RefsFollow, NewestIn, NamedIn
<1>8. ShotsFollow'
  <2>1. SomeStored => dropped'
    BY <1>4, <1>6 DEF SomeStored
  <2>. QED
    BY <1>1, <1>4, <2>1 DEF ToolsInv, ShotsFollow, Agent!ShotsKept
<1>9. DenialsFollow'
  <2>1. phase # "ended" /\ outcome # "succeeded"
    BY <1>1, OnItsWay
  <2>. QED
    BY <1>1, <2>1 DEF ToolsInv, DenialsFollow
<1>. QED
  BY <1>5, <1>7, <1>8, <1>9 DEF ToolsInv

(* A call is recorded, or refused for its budget, and leaves the lock.      *)
LEMMA ToolsRecord == ASSUME ToolsInv, NEW k \in Call, Agent!RecordCall(k) PROVE ToolsInv'
<1>1. /\ toolCall[k].pc \in {"shell", "stored"} /\ held' = User
      /\ \/ Agent!Keep(k) /\ Agent!Goes(k, "ran") /\ denied' = denied
         \/ Agent!Refuse /\ Agent!Goes(k, "idle") /\ denied' = TRUE
      /\ UNCHANGED <<phase, spent, unread, seen, meter, users, shot, covered, dropped, outcome>>
  BY DEF Agent!RecordCall, Agent!NoCall, Agent!usage, Agent!shots
<1>2. BookTypes /\ CallTypes /\ k \in Actor
  BY DEF AgentTypes, ToolsInv, Actor
<1>3. \A l \in Call : l # k => toolCall[l].pc \notin {"shell", "stored"}
  BY <1>1 DEF ToolsInv, RefsFollow
<1>4. phase # "ended" /\ outcome # "succeeded"
  BY <1>1, OnItsWay
<1>5. CASE Agent!Keep(k) /\ Agent!Goes(k, "ran") /\ denied' = denied
  <2>1. /\ toolCall' \in [Call -> ToolCall] /\ toolCall'[k].pc = "ran"
        /\ \A l \in Call : l # k => toolCall'[l] = toolCall[l]
    BY <1>5, CallGoes DEF ToolsInv, Place
  <2>2. /\ BookTypes' /\ NewestIn(author', runNow', k)
        /\ \A ref, l : NamedIn(author, ref, l) => NamedIn(author', ref, l)
        /\ lapped' = lapped \cup {l \in Call : toolCall[l].pc = "ran"} /\ over' = over
    BY <1>2, <1>5, BookKeeps
  <2>3. lapped' \subseteq Call
    BY <1>2, <2>2 DEF CallTypes
  <2>4. AgentTypes'
    <3>1. CallTypes'
      BY <1>1, <1>2, <1>5, <2>1, <2>2, <2>3 DEF CallTypes
    <3>. QED
      BY <2>2, <3>1 DEF AgentTypes
  <2>5. RefsFollow'
    <3>1. ASSUME NEW l \in Call, toolCall'[l].pc = "ran" PROVE l \in lapped' \/ NewestIn(author', runNow', l)
      BY <2>1, <2>2, <3>1
    <3>2. ASSUME NEW l \in Call, toolCall'[l].pc = "answered"
          PROVE  l \in lapped' \/ NamedIn(author', toolCall'[l].ref, l)
      <4>1. toolCall'[l] = toolCall[l] /\ (l \in lapped => l \in lapped')
        BY <2>1, <2>2, <3>2
      <4>. QED
        BY <2>2, <3>2, <4>1, RefsGrow DEF ToolsInv
    <3>3. \A l \in Call : toolCall'[l].pc \notin {"shell", "stored"}
      BY <1>3, <2>1
    <3>. QED
      BY <3>1, <3>2, <3>3 DEF RefsFollow
  <2>6. ShotsFollow'
    BY <1>1, <1>2, <1>5, ShotsKeep DEF ToolsInv
  <2>7. DenialsFollow'
    BY <1>1, <1>4, <1>5, <2>2 DEF ToolsInv, DenialsFollow
  <2>. QED
    BY <2>4, <2>5, <2>6, <2>7 DEF ToolsInv
<1>6. CASE Agent!Refuse /\ Agent!Goes(k, "idle") /\ denied' = TRUE
  <2>1. /\ toolCall' \in [Call -> ToolCall] /\ toolCall'[k].pc = "idle"
        /\ \A l \in Call : l # k => toolCall'[l] = toolCall[l]
    BY <1>6, CallGoes DEF ToolsInv, Place
  <2>2. over' = TRUE /\ UNCHANGED <<author, runNow, lapped>>
    BY <1>6 DEF Agent!Refuse, Agent!book
  <2>3. AgentTypes'
    <3>1. BookTypes'
      BY <1>2, <2>2, BookStays
    <3>2. CallTypes'
      BY <1>1, <1>2, <1>6, <2>1, <2>2 DEF CallTypes
    <3>. QED
      BY <3>1, <3>2 DEF AgentTypes
  <2>4. RefsFollow'
    BY <1>3, <2>1, <2>2 DEF ToolsInv, RefsFollow, NewestIn, NamedIn
  <2>5. ShotsFollow'
    BY <1>1, <2>2 DEF ToolsInv, ShotsFollow, Agent!ShotsKept
  <2>6. DenialsFollow'
    BY <1>1, <1>4, <2>2 DEF DenialsFollow
  <2>. QED
    BY <2>3, <2>4, <2>5, <2>6 DEF ToolsInv
<1>. QED
  BY <1>1, <1>5, <1>6

(* What a user or the harness executes is recorded beside the calls.        *)
LEMMA ToolsOther == ASSUME ToolsInv, Agent!RecordOther PROVE ToolsInv'
<1>1. /\ phase # "ended" /\ users < MaxUser /\ users' = users + 1
      /\ Agent!Keep(User) \/ Agent!Keep(System) \/ Agent!Refuse
      /\ UNCHANGED <<phase, spent, unread, seen, meter, held, toolCall, shot, covered, denied, dropped, outcome>>
  BY DEF Agent!RecordOther, Agent!usage, Agent!shots
<1>2. BookTypes /\ CallTypes
  BY DEF AgentTypes, ToolsInv
<1>3. users' \in 0..MaxUser
  BY <1>1, <1>2, AgentConstants DEF CallTypes
<1>4. ASSUME NEW who \in Actor, Agent!Keep(who) PROVE ToolsInv'
  <2>1. /\ BookTypes' /\ \A ref, l : NamedIn(author, ref, l) => NamedIn(author', ref, l)
        /\ lapped' = lapped \cup {l \in Call : toolCall[l].pc = "ran"} /\ over' = over
    BY <1>2, <1>4, BookKeeps
  <2>2. lapped' \subseteq Call
    BY <1>2, <2>1 DEF CallTypes
  <2>3. AgentTypes'
    <3>1. CallTypes'
      BY <1>1, <1>2, <1>3, <2>1, <2>2 DEF CallTypes
    <3>. QED
      BY <2>1, <3>1 DEF AgentTypes
  <2>4. RefsFollow'
    <3>1. \A l \in Call : toolCall'[l].pc = "ran" => l \in lapped'
      BY <1>1, <2>1
    <3>2. ASSUME NEW l \in Call, toolCall'[l].pc = "answered"
          PROVE  l \in lapped' \/ NamedIn(author', toolCall'[l].ref, l)
      <4>1. toolCall'[l] = toolCall[l] /\ (l \in lapped => l \in lapped')
        BY <1>1, <2>1
      <4>. QED
        BY <2>1, <3>2, <4>1, RefsGrow DEF ToolsInv
    <3>3. \A l \in Call : toolCall'[l].pc \in {"shell", "stored"} => held' = l
      BY <1>1 DEF ToolsInv, RefsFollow
    <3>. QED
      BY <3>1, <3>2, <3>3 DEF RefsFollow
  <2>5. ShotsFollow'
    BY <1>1, <1>2, <1>4, ShotsKeep DEF ToolsInv
  <2>6. DenialsFollow'
    BY <1>1, <2>1 DEF ToolsInv, DenialsFollow, Agent!AllIdle
  <2>. QED
    BY <2>3, <2>4, <2>5, <2>6 DEF ToolsInv
<1>5. CASE Agent!Refuse
  <2>1. over' = TRUE /\ UNCHANGED <<author, runNow, lapped>>
    BY <1>5 DEF Agent!Refuse, Agent!book
  <2>2. AgentTypes'
    <3>1. BookTypes'
      BY <1>2, <2>1, BookStays
    <3>2. CallTypes'
      BY <1>1, <1>2, <1>3, <2>1 DEF CallTypes
    <3>. QED
      BY <3>1, <3>2 DEF AgentTypes
  <2>3. RefsFollow'
    BY <1>1, <2>1 DEF ToolsInv, RefsFollow, NewestIn, NamedIn
  <2>4. ShotsFollow'
    BY <1>1, <2>1 DEF ToolsInv, ShotsFollow, Agent!ShotsKept
  <2>5. DenialsFollow'
    BY <1>1, <2>1 DEF ToolsInv, DenialsFollow, Agent!AllIdle
  <2>. QED
    BY <2>2, <2>3, <2>4, <2>5 DEF ToolsInv
<1>6. User \in Actor /\ System \in Actor
  BY DEF Actor
<1>. QED
  BY <1>1, <1>4, <1>5, <1>6

(* Another run is begun, or the present one ended, by somebody else.        *)
LEMMA ToolsBegin == ASSUME ToolsInv, Agent!BeginOther \/ Agent!EndOther PROVE ToolsInv'
<1>1. /\ phase # "ended" /\ lapped' = lapped \cup {l \in Call : toolCall[l].pc = "ran"}
      /\ \/ author' = Append(author, <<>>) /\ runNow' = Len(author) + 1
         \/ author' = Agent!Required /\ runNow' = 0
      /\ UNCHANGED <<phase, spent, unread, seen, meter, over, users, held, toolCall, shot, covered, denied, dropped,
                     outcome>>
  BY DEF Agent!BeginOther, Agent!EndOther, Agent!EndCurrent, Agent!Ran, Agent!usage, Agent!shots
<1>2. BookTypes /\ CallTypes
  BY DEF AgentTypes, ToolsInv
<1>3. lapped' \subseteq Call
  BY <1>1, <1>2 DEF CallTypes
<1>4. BookTypes' /\ \A ref, l : NamedIn(author, ref, l) => NamedIn(author', ref, l)
  <2>1. CASE author' = Append(author, <<>>) /\ runNow' = Len(author) + 1
    <3>1. /\ author' \in Seq(Seq(Actor)) /\ Len(author') = Len(author) + 1 /\ Len(author) \in Nat /\ Len(author) >= 1
          /\ DOMAIN author = 1..Len(author) /\ DOMAIN author' = 1..(Len(author) + 1)
          /\ \A r \in 1..Len(author) : author'[r] = author[r]
      <4>1. author \in Seq(Seq(Actor)) /\ author # <<>> /\ <<>> \in Seq(Actor)
        BY <1>2 DEF BookTypes
      <4>. QED
        BY ONLY <2>1, <4>1
    <3>2. author'[1] = author[1] /\ author' # <<>> /\ runNow' \in 0..Len(author')
      BY <2>1, <3>1
    <3>3. BookTypes'
      BY <1>2, <3>1, <3>2 DEF BookTypes
    <3>. QED
      BY <3>1, <3>3 DEF NamedIn
  <2>2. CASE author' = Agent!Required /\ runNow' = 0
    BY <1>2, <2>2, BookRequired
  <2>. QED
    BY <1>1, <2>1, <2>2
<1>5. AgentTypes'
  <2>1. CallTypes'
    BY <1>1, <1>2, <1>3 DEF CallTypes
  <2>. QED
    BY <1>4, <2>1 DEF AgentTypes
<1>6. RefsFollow'
  <2>1. \A l \in Call : toolCall'[l].pc = "ran" => l \in lapped'
    BY <1>1
  <2>2. ASSUME NEW l \in Call, toolCall'[l].pc = "answered"
        PROVE  l \in lapped' \/ NamedIn(author', toolCall'[l].ref, l)
    <3>1. toolCall'[l] = toolCall[l] /\ (l \in lapped => l \in lapped')
      BY <1>1
    <3>. QED
      BY <1>4, <2>2, <3>1, RefsGrow DEF ToolsInv
  <2>3. \A l \in Call : toolCall'[l].pc \in {"shell", "stored"} => held' = l
    BY <1>1 DEF ToolsInv, RefsFollow
  <2>. QED
    BY <2>1, <2>2, <2>3 DEF RefsFollow
<1>7. ShotsFollow'
  BY <1>1, <1>2, ShotsRequired DEF ToolsInv
<1>8. DenialsFollow'
  BY <1>1 DEF ToolsInv, DenialsFollow, Agent!AllIdle
<1>. QED
  BY <1>5, <1>6, <1>7, <1>8 DEF ToolsInv

(* A call gets its reference.                                               *)
LEMMA ToolsRefer == ASSUME ToolsInv, NEW k \in Call, Agent!Refer(k) PROVE ToolsInv'
<1> DEFINE c == [pc |-> "answered", ref |-> Agent!LastRef]
<1>1. /\ toolCall[k].pc = "ran" /\ toolCall' = [toolCall EXCEPT ![k] = c]
      /\ author' = Agent!Required /\ runNow' = Agent!Present
      /\ UNCHANGED <<spent, unread, seen, meter, phase, over, users, held, shot, covered, lapped, denied, dropped,
                     outcome>>
  BY DEF Agent!Refer, Agent!RequireRun, Agent!usage, Agent!shots
<1>2. BookTypes /\ CallTypes
  BY DEF AgentTypes, ToolsInv
<1>3. /\ Agent!Required \in Seq(Seq(Actor)) /\ Agent!Present \in 1..Len(Agent!Required)
      /\ runNow # 0 => Agent!Present = runNow /\ Agent!Required = author
  BY <1>2, RequiredIs
<1>4. Len(Agent!Required[Agent!Present]) \in Nat
  BY <1>3
<1>5. Agent!LastRef = [run |-> Agent!Present, no |-> Len(Agent!Required[Agent!Present])]
  BY DEF Agent!LastRef
<1>6. c \in ToolCall /\ c.pc = "answered" /\ c.ref = Agent!LastRef
  BY <1>3, <1>4, <1>5 DEF ToolCall, Place, Reference
<1> HIDE DEF c
<1>7. toolCall' \in [Call -> ToolCall] /\ toolCall'[k] = c /\ \A l \in Call : l # k => toolCall'[l] = toolCall[l]
  BY <1>1, <1>2, <1>6 DEF CallTypes
<1>8. BookTypes' /\ \A ref, l : NamedIn(author, ref, l) => NamedIn(author', ref, l)
  BY <1>1, <1>2, BookRequired
<1>9. AgentTypes'
  <2>1. CallTypes'
    BY <1>1, <1>2, <1>7 DEF CallTypes
  <2>. QED
    BY <1>8, <2>1 DEF AgentTypes
<1>10. \A l \in Call : NewestIn(author, runNow, l) => author' = author /\ runNow' = runNow
  BY <1>1, <1>3 DEF NewestIn
<1>11. RefsFollow'
  <2>1. ASSUME NEW l \in Call, toolCall'[l].pc = "ran" PROVE l \in lapped' \/ NewestIn(author', runNow', l)
    <3>1. toolCall[l].pc = "ran"
      BY <1>6, <1>7, <2>1
    <3>. QED
      BY <1>1, <1>10, <3>1 DEF ToolsInv, RefsFollow
  <2>2. k \in lapped' \/ NamedIn(author', toolCall'[k].ref, k)
    <3>1. k \in lapped \/ NewestIn(author, runNow, k)
      BY <1>1 DEF ToolsInv, RefsFollow
    <3>2. ASSUME NewestIn(author, runNow, k) PROVE NamedIn(author', toolCall'[k].ref, k)
      <4>1. runNow # 0 /\ author' = author /\ toolCall'[k].ref = [run |-> runNow, no |-> Len(author[runNow])]
        BY <1>3, <1>5, <1>6, <1>7, <1>10, <3>2 DEF NewestIn
      <4>2. runNow \in DOMAIN author /\ author[runNow] \in Seq(Actor)
        BY <1>2, <4>1 DEF BookTypes
      <4>3. Len(author[runNow]) \in DOMAIN author[runNow]
        BY <3>2, <4>2 DEF NewestIn
      <4>. QED
        BY <3>2, <4>1, <4>2, <4>3 DEF NamedIn, NewestIn
    <3>. QED
      BY <1>1, <3>1, <3>2
  <2>3. ASSUME NEW l \in Call, l # k, toolCall'[l].pc = "answered"
        PROVE  l \in lapped' \/ NamedIn(author', toolCall'[l].ref, l)
    <3>1. toolCall'[l] = toolCall[l] /\ (l \in lapped => l \in lapped')
      BY <1>1, <1>7, <2>3
    <3>. QED
      BY <1>8, <2>3, <3>1, RefsGrow DEF ToolsInv
  <2>4. \A l \in Call : toolCall'[l].pc \in {"shell", "stored"} => held' = l
    BY <1>1, <1>6, <1>7 DEF ToolsInv, RefsFollow
  <2>. QED
    BY <2>1, <2>2, <2>3, <2>4 DEF RefsFollow
<1>12. SomeStored => SomeStored'
  BY <1>1, <1>7 DEF SomeStored
<1>13. ShotsFollow'
  BY <1>1, <1>2, <1>12, ShotsRequired DEF ToolsInv
<1>14. DenialsFollow'
  <2>1. phase # "ended" /\ outcome # "succeeded"
    BY <1>1, OnItsWay
  <2>. QED
    BY <1>1, <2>1 DEF ToolsInv, DenialsFollow
<1>. QED
  BY <1>9, <1>11, <1>13, <1>14 DEF ToolsInv

(* The model has its answer.                                                *)
LEMMA ToolsAnswer == ASSUME ToolsInv, NEW k \in Call, Agent!Answer(k) PROVE ToolsInv'
<1>1. /\ toolCall[k].pc = "answered" /\ toolCall' = [toolCall EXCEPT ![k] = Agent!Idle] /\ lapped' = lapped \ {k}
      /\ UNCHANGED <<spent, unread, seen, meter, phase, over, author, runNow, users, held, shot, covered, denied,
                     dropped, outcome>>
  BY DEF Agent!Answer, Agent!usage, Agent!book, Agent!shots
<1>2. BookTypes /\ CallTypes
  BY DEF AgentTypes, ToolsInv
<1>3. /\ toolCall' \in [Call -> ToolCall] /\ toolCall'[k].pc = "idle"
      /\ \A l \in Call : l # k => toolCall'[l] = toolCall[l]
  BY <1>1, <1>2, AgentConstants DEF CallTypes
<1>4. AgentTypes'
  <2>1. BookTypes'
    BY <1>1, <1>2, BookStays
  <2>2. CallTypes'
    BY <1>1, <1>2, <1>3 DEF CallTypes
  <2>. QED
    BY <2>1, <2>2 DEF AgentTypes
<1>5. RefsFollow'
  BY <1>1, <1>3 DEF ToolsInv, RefsFollow, NewestIn, NamedIn
<1>6. ShotsFollow'
  <2>1. SomeStored => SomeStored'
    BY <1>1, <1>3 DEF SomeStored
  <2>. QED
    BY <1>1, <2>1 DEF ToolsInv, ShotsFollow, Agent!ShotsKept
<1>7. DenialsFollow'
  <2>1. phase # "ended" /\ outcome # "succeeded"
    BY <1>1, OnItsWay
  <2>. QED
    BY <1>1, <2>1 DEF ToolsInv, DenialsFollow
<1>. QED
  BY <1>4, <1>5, <1>6, <1>7 DEF ToolsInv

(* The stream: a response, and what run_async consumes of it.               *)
LEMMA ToolsStream ==
  ASSUME ToolsInv,
         \/ \E price \in Price, blocks \in 1..2, asked \in SUBSET Call : Agent!Respond(price, blocks, asked)
         \/ Agent!Consume
  PROVE  ToolsInv'
<1>0. BookTypes /\ CallTypes
  BY DEF AgentTypes, ToolsInv
<1>1. /\ spent \in Seq(Price) /\ Price \subseteq Nat /\ Len(spent) \in Nat /\ unread \in Seq(Nat)
      /\ \A i \in DOMAIN unread : unread[i] \in DOMAIN spent
      /\ seen \subseteq DOMAIN spent /\ meter \in Nat
  BY <1>0, AgentConstants DEF CallTypes
<1>2. ASSUME NEW price \in Price, NEW blocks \in 1..2, NEW asked \in SUBSET Call,
             Agent!Respond(price, blocks, asked)
      PROVE  ToolsInv'
  <2> DEFINE n == Len(spent) + 1
             new == [i \in 1..blocks |-> n]
  <2>1. /\ phase = "running" /\ Agent!AllIdle /\ spent' = Append(spent, price)
        /\ unread' = unread \o [i \in 1..blocks |-> Len(spent')]
        /\ toolCall' = [k \in Call |-> IF k \in asked THEN [Agent!Idle EXCEPT !.pc = "asked"] ELSE Agent!Idle]
        /\ UNCHANGED <<phase, seen, meter, over, author, runNow, users, held, shot, covered, lapped, denied, dropped,
                       outcome>>
    BY <1>2 DEF Agent!Respond, Agent!book, Agent!shots
  <2>2. spent' \in Seq(Price) /\ Len(spent') = n /\ DOMAIN spent' = 1..n /\ n \in Nat /\ n >= 1
    BY <1>1, <2>1
  <2>3. new \in Seq(Nat) /\ \A i \in DOMAIN new : new[i] \in 1..n
    BY <2>2
  <2>4. unread' = unread \o new
    BY <2>1, <2>2
  <2>5. \A i \in DOMAIN unread : unread[i] \in 1..n
    BY <1>1
  <2> HIDE DEF n, new
  <2>6. unread' \in Seq(Nat) /\ \A i \in DOMAIN unread' : unread'[i] \in 1..n
    <3>1. /\ unread' \in Seq(Nat) /\ Len(unread') = Len(unread) + Len(new)
          /\ \A i \in 1..Len(unread) : unread'[i] = unread[i]
          /\ \A i \in 1..Len(new) : unread'[Len(unread) + i] = new[i]
      BY <1>1, <2>3, <2>4
    <3>2. ASSUME NEW i \in DOMAIN unread' PROVE unread'[i] \in 1..n
      <4>1. CASE i \in 1..Len(unread)
        <5>1. DOMAIN unread = 1..Len(unread)
          BY <1>1
        <5>2. unread[i] \in 1..n /\ unread'[i] = unread[i]
          BY ONLY <2>5, <3>1, <4>1, <5>1
        <5>. QED
          BY <5>2
      <4>2. CASE i > Len(unread)
        <5>1. i - Len(unread) \in 1..Len(new) /\ Len(unread) + (i - Len(unread)) = i
          BY <1>1, <2>3, <3>1, <4>2
        <5>2. PICK j \in 1..Len(new) : i = Len(unread) + j
          BY <5>1
        <5>3. unread'[i] = new[j]
          BY <3>1, <5>2
        <5>4. j \in DOMAIN new
          BY <2>3
        <5>. QED
          BY <2>3, <5>3, <5>4
      <4>. QED
        BY <1>1, <2>3, <3>1, <4>1, <4>2
    <3>. QED
      BY <3>1, <3>2
  <2>7. seen \subseteq 1..n
    BY <1>1 DEF n
  <2>8. /\ toolCall' \in [Call -> ToolCall]
        /\ \A k \in Call : toolCall'[k].pc \in {"idle", "asked"}
        /\ \A k \in Call : toolCall[k].pc = "idle"
    BY <2>1, AgentConstants DEF Agent!AllIdle
  <2>9. AgentTypes'
    <3>1. BookTypes'
      BY <1>0, <2>1, BookStays
    <3>2. CallTypes'
      BY <1>0, <1>1, <2>1, <2>2, <2>6, <2>7, <2>8 DEF CallTypes
    <3>. QED
      BY <3>1, <3>2 DEF AgentTypes
  <2>10. RefsFollow' /\ DenialsFollow'
    BY <2>1, <2>8 DEF ToolsInv, RefsFollow, DenialsFollow
  <2>11. ShotsFollow'
    <3>1. ~SomeStored
      BY <2>8 DEF SomeStored
    <3>. QED
      BY <2>1, <3>1 DEF ToolsInv, ShotsFollow, Agent!ShotsKept
  <2>. QED
    BY <2>9, <2>10, <2>11 DEF ToolsInv
<1>3. CASE Agent!Consume
  <2>1. /\ unread # <<>> /\ unread' = Tail(unread) /\ seen' = seen \cup {Head(unread)}
        /\ meter' = IF Agent!Counts(Head(unread)) THEN meter + spent[Head(unread)] ELSE meter
        /\ UNCHANGED <<phase, spent, over, author, runNow, users, held, toolCall, shot, covered, lapped, denied, dropped,
                       outcome>>
    BY <1>3 DEF Agent!Consume, Agent!tools, Agent!book, Agent!shots
  <2>2. /\ Head(unread) \in DOMAIN spent /\ unread' \in Seq(Nat)
        /\ \A i \in DOMAIN unread' : unread'[i] \in DOMAIN spent
    BY <1>1, <2>1
  <2>3. spent[Head(unread)] \in Nat
    <3>1. spent[Head(unread)] \in Price
      BY <1>1, <2>2
    <3>. QED
      BY <1>1, <3>1
  <2>4. meter' \in Nat /\ seen' \subseteq DOMAIN spent
    BY <1>1, <2>1, <2>2, <2>3
  <2>5. AgentTypes'
    <3>1. BookTypes'
      BY <1>0, <2>1, BookStays
    <3>2. CallTypes'
      BY <1>0, <2>1, <2>2, <2>4 DEF CallTypes
    <3>. QED
      BY <3>1, <3>2 DEF AgentTypes
  <2>6. RefsFollow' /\ ShotsFollow' /\ DenialsFollow'
    BY <2>1 DEF ToolsInv, RefsFollow, NewestIn, NamedIn, ShotsFollow, SomeStored, Agent!ShotsKept, DenialsFollow,
                Agent!AllIdle
  <2>. QED
    BY <2>5, <2>6 DEF ToolsInv
<1>. QED
  BY <1>2, <1>3

(* The run ends.                                                            *)
LEMMA ToolsEnd ==
  ASSUME ToolsInv, Agent!Raise \/ \E subtype \in {"success", "error", "budget"} : Agent!EndRun(subtype)
  PROVE  ToolsInv'
<1>1. /\ Agent!AllIdle /\ phase' = "ended" /\ outcome' \in {"succeeded", "failed", "cancelled"}
      /\ (outcome' = "succeeded" => ~over) /\ author' = Agent!Required /\ runNow' = 0
      /\ UNCHANGED <<spent, unread, seen, meter, over, users, held, toolCall, shot, covered, lapped, denied, dropped>>
  <2>1. CASE Agent!Raise
    BY <2>1 DEF Agent!Raise, Agent!EndCurrent, Agent!usage, Agent!tools, Agent!shots
  <2>2. ASSUME NEW subtype \in {"success", "error", "budget"}, Agent!EndRun(subtype)
        PROVE  /\ Agent!AllIdle /\ phase' = "ended" /\ outcome' \in {"succeeded", "failed", "cancelled"}
               /\ (outcome' = "succeeded" => ~over) /\ author' = Agent!Required /\ runNow' = 0
               /\ UNCHANGED <<spent, unread, seen, meter, over, users, held, toolCall, shot, covered, lapped, denied,
                              dropped>>
    BY <2>2 DEF Agent!EndRun, Agent!Outcome, Agent!EndCurrent, Agent!usage, Agent!tools, Agent!shots
  <2>. QED
    BY <2>1, <2>2
<1>2. BookTypes /\ CallTypes
  BY DEF AgentTypes, ToolsInv
<1>3. AgentTypes'
  <2>1. BookTypes'
    BY <1>1, <1>2, BookRequired
  <2>2. CallTypes'
    BY <1>1, <1>2 DEF CallTypes
  <2>. QED
    BY <2>1, <2>2 DEF AgentTypes
<1>4. \A k \in Call : toolCall'[k].pc = "idle"
  BY <1>1 DEF Agent!AllIdle
<1>5. RefsFollow'
  BY <1>4 DEF RefsFollow
<1>6. ShotsFollow'
  BY <1>1, <1>2, ShotsRequired DEF ToolsInv
<1>7. DenialsFollow'
  BY <1>1 DEF ToolsInv, DenialsFollow, Agent!AllIdle
<1>. QED
  BY <1>3, <1>5, <1>6, <1>7 DEF ToolsInv

(* Prices are numbers. *)
LEMMA PricesAreNumbers == ASSUME NEW prices \in Seq(Price) PROVE prices \in Seq(Nat)
  BY AgentConstants

(* A message that is consumed counts its response once.                     *)
LEMMA MeterConsumes ==
  ASSUME AgentTypes, MeterFollows, Agent!Consume PROVE MeterFollows'
<1>1. /\ unread # <<>> /\ unread' = Tail(unread) /\ seen' = seen \cup {Head(unread)} /\ spent' = spent
      /\ meter' = IF Head(unread) \notin seen THEN meter + spent[Head(unread)] ELSE meter
  BY DEF Agent!Consume, Agent!Counts
<1>2. PICK m \in 0..Len(spent) : Metered(m)
  BY DEF MeterFollows
<1>3. /\ unread \in Seq(Nat) /\ spent \in Seq(Nat) /\ Len(spent) \in Nat
      /\ \A i \in DOMAIN unread : unread[i] \in 1..Len(spent)
  <2>1. /\ unread \in Seq(Nat) /\ spent \in Seq(Price) /\ Price \subseteq Nat
        /\ \A i \in DOMAIN unread : unread[i] \in DOMAIN spent
    BY AgentConstants DEF AgentTypes, CallTypes
  <2>2. spent \in Seq(Nat)
    BY <2>1, PricesAreNumbers
  <2>3. Len(spent) \in Nat /\ DOMAIN spent = 1..Len(spent)
    BY ONLY <2>1
  <2>. QED
    BY <2>1, <2>2, <2>3
<1> DEFINE h == unread[1]
<1>4. /\ h \in {m, m + 1} /\ h \in 1..Len(spent) /\ seen = 1..m /\ meter = Sums(spent)[m]
      /\ unread[Len(unread)] = Len(spent) /\ Head(unread) = h /\ Len(unread) \in Nat /\ Len(unread) >= 1
      /\ \A i \in 1..(Len(unread) - 1) : unread[i + 1] \in {unread[i], unread[i] + 1}
  BY <1>1, <1>2, <1>3 DEF Metered
<1>5. seen' = 1..h
  BY <1>1, <1>4
<1>6. meter' = Sums(spent)[h]
  <2>1. CASE h = m
    BY <1>1, <1>4, <2>1
  <2>2. CASE h = m + 1
    <3>1. Sums(spent)[h] = Sums(spent)[h - 1] + spent[h] /\ h - 1 = m
      BY <1>2, <1>3, <1>4, <2>2, SumsAre
    <3>2. h \notin seen
      BY <1>2, <1>4, <2>2
    <3>. QED
      BY <1>1, <1>4, <3>1, <3>2
  <2>. QED
    BY <1>4, <2>1, <2>2
<1>7. /\ unread' \in Seq(Nat) /\ Len(unread') = Len(unread) - 1
      /\ \A i \in 1..(Len(unread) - 1) : unread'[i] = unread[i + 1]
  BY <1>1, <1>3, <1>4
<1>8. unread' = <<>> => h = Len(spent)
  <2>1. unread' = <<>> => Len(unread') = 0
    OBVIOUS
  <2>2. unread' = <<>> => Len(unread) = 1
    BY <1>4, <1>7, <2>1
  <2>. QED
    BY <1>4, <2>2
<1>9. unread' # <<>> => unread'[1] \in {h, h + 1} /\ unread'[Len(unread')] = Len(spent)
  <2> SUFFICES ASSUME unread' # <<>> PROVE unread'[1] \in {h, h + 1} /\ unread'[Len(unread')] = Len(spent)
    OBVIOUS
  <2>1. Len(unread) - 1 \in 1..(Len(unread) - 1)
    BY <1>4, <1>7
  <2>2. unread'[1] = unread[2] /\ unread[2] \in {h, h + 1}
    BY <1>4, <1>7, <2>1
  <2>3. unread'[Len(unread')] = unread[Len(unread)]
    BY <1>4, <1>7, <2>1
  <2>. QED
    BY <1>4, <2>2, <2>3
<1>10. ASSUME NEW i \in 1..(Len(unread') - 1) PROVE unread'[i + 1] \in {unread'[i], unread'[i] + 1}
  <2>1. i \in 1..(Len(unread) - 1) /\ i + 1 \in 1..(Len(unread) - 1)
    BY <1>4, <1>7
  <2>2. unread'[i] = unread[i + 1] /\ unread'[i + 1] = unread[(i + 1) + 1]
    BY <1>7, <2>1
  <2>. QED
    BY <1>4, <2>1, <2>2
<1>11. h \in 0..Len(spent)
  BY <1>4
<1> HIDE DEF h
<1>. QED
  BY <1>1, <1>5, <1>6, <1>8, <1>9, <1>10, <1>11 DEF MeterFollows, Metered

(* A response waits to be counted, in one message or more.                  *)
LEMMA MeterResponds ==
  ASSUME AgentTypes, MeterFollows, NEW price \in Price, NEW blocks \in 1..2, NEW asked \in SUBSET Call,
         Agent!Respond(price, blocks, asked)
  PROVE  MeterFollows'
<1> DEFINE n == Len(spent)
           new == [i \in 1..blocks |-> n + 1]
<1>1. /\ spent' = Append(spent, price) /\ unread' = unread \o [i \in 1..blocks |-> Len(spent')]
      /\ seen' = seen /\ meter' = meter
  BY DEF Agent!Respond
<1>2. PICK m \in 0..Len(spent) : Metered(m)
  BY DEF MeterFollows
<1>3. unread \in Seq(Nat) /\ spent \in Seq(Nat) /\ n \in Nat /\ price \in Nat
  BY AgentConstants DEF AgentTypes, CallTypes
<1>4. Len(spent') = n + 1 /\ unread' = unread \o new
  BY <1>1, <1>3
<1>5. new \in Seq(Nat) /\ Len(new) = blocks /\ \A i \in 1..blocks : new[i] = n + 1
  BY <1>3
<1> HIDE DEF n, new
<1>6. /\ unread' \in Seq(Nat) /\ Len(unread') = Len(unread) + blocks /\ Len(unread) \in Nat
      /\ \A i \in 1..Len(unread) : unread'[i] = unread[i]
      /\ \A i \in 1..blocks : unread'[Len(unread) + i] = n + 1
  BY <1>3, <1>4, <1>5
<1>7. /\ m \in 0..n /\ seen = 1..m /\ meter = Sums(spent)[m] /\ (unread = <<>> => m = n)
      /\ (unread # <<>> => unread[1] \in {m, m + 1} /\ unread[Len(unread)] = n)
      /\ \A i \in 1..(Len(unread) - 1) : unread[i + 1] \in {unread[i], unread[i] + 1}
  BY <1>2 DEF Metered, n
<1>8. Sums(spent')[m] = Sums(spent)[m]
  BY <1>1, <1>3, <1>7, SumsStay DEF n
<1>9. unread'[1] \in {m, m + 1} /\ unread' # <<>>
  <2>1. CASE unread = <<>>
    <3>1. Len(unread) = 0
      BY <2>1
    <3>. QED
      BY <1>6, <1>7, <2>1, <3>1
  <2>2. CASE unread # <<>>
    <3>1. 1 \in 1..Len(unread)
      BY <1>3, <2>2
    <3>. QED
      BY <1>6, <1>7, <2>2, <3>1
  <2>. QED
    BY <2>1, <2>2
<1>10. unread'[Len(unread')] = n + 1
  BY <1>6
<1>11. ASSUME NEW i \in 1..(Len(unread') - 1) PROVE unread'[i + 1] \in {unread'[i], unread'[i] + 1}
  <2>1. CASE i \in 1..(Len(unread) - 1)
    <3>1. i \in 1..Len(unread) /\ i + 1 \in 1..Len(unread)
      BY <1>6, <2>1
    <3>2. unread'[i] = unread[i] /\ unread'[i + 1] = unread[i + 1]
      BY <1>6, <3>1
    <3>. QED
      BY <1>7, <2>1, <3>2
  <2>2. CASE i = Len(unread)
    <3>1. unread # <<>> /\ unread'[i] = n
      BY <1>6, <1>7, <2>2
    <3>2. unread'[i + 1] = n + 1
      BY <1>6, <2>2
    <3>. QED
      BY <3>1, <3>2
  <2>3. CASE i > Len(unread)
    <3>1. i - Len(unread) \in 1..blocks /\ (i + 1) - Len(unread) \in 1..blocks
      BY <1>6, <2>3
    <3>2. unread'[Len(unread) + (i - Len(unread))] = n + 1 /\ unread'[Len(unread) + ((i + 1) - Len(unread))] = n + 1
      BY <1>6, <3>1
    <3>3. Len(unread) + (i - Len(unread)) = i /\ Len(unread) + ((i + 1) - Len(unread)) = i + 1
      BY <1>6
    <3>. QED
      BY <3>2, <3>3
  <2>. QED
    BY <1>6, <2>1, <2>2, <2>3
<1>12. m \in 0..Len(spent')
  BY <1>3, <1>4, <1>7
<1>. QED
  BY <1>1, <1>4, <1>7, <1>8, <1>9, <1>10, <1>11, <1>12 DEF MeterFollows, Metered

(* Every step of the run keeps what holds of the calls, ...                 *)
LEMMA ToolsKept == ToolsInv /\ [Agent!Next]_agentVars => ToolsInv'
<1> SUFFICES ASSUME ToolsInv, [Agent!Next]_agentVars PROVE ToolsInv'
  OBVIOUS
<1>1. ASSUME NEW price \in Price, NEW blocks \in 1..2, NEW asked \in SUBSET Call,
             Agent!Respond(price, blocks, asked)
      PROVE  ToolsInv'
  BY <1>1, ToolsStream
<1>2. CASE Agent!Consume
  BY <1>2, ToolsStream
<1>3. CASE Agent!RecordOther
  BY <1>3, ToolsOther
<1>4. CASE Agent!Raise \/ \E subtype \in {"success", "error", "budget"} : Agent!EndRun(subtype)
  BY <1>4, ToolsEnd
<1>5. CASE Agent!BeginOther \/ Agent!EndOther
  BY <1>5, ToolsBegin
<1>6. ASSUME NEW k \in Call, Agent!Approve(k) \/ Agent!ReadOnly(k) \/ Agent!Again(k) \/ Agent!AnswerPlain(k)
      PROVE  ToolsInv'
  <2>1. /\ \E place \in {"idle", "approved"} : Agent!Goes(k, place)
        /\ toolCall[k].pc \in {"asked", "approved", "ran"} /\ lapped' \in {lapped, lapped \ {k}}
        /\ UNCHANGED <<spent, unread, seen, meter, phase, over, author, runNow, users, held, shot, covered, denied,
                       dropped, outcome>>
    BY <1>6 DEF Agent!Approve, Agent!ReadOnly, Agent!Again, Agent!AnswerPlain, Agent!usage, Agent!book, Agent!shots
  <2>. QED
    BY <2>1, ToolsMove
<1>7. ASSUME NEW k \in Call, Agent!Deny(k) \/ Agent!Run(k) \/ Agent!Store(k) \/ Agent!Unrecorded(k) PROVE ToolsInv'
  BY <1>7, ToolsDeny, ToolsRun, ToolsStore, ToolsUnrecorded
<1>8. ASSUME NEW k \in Call, Agent!RecordCall(k) PROVE ToolsInv'
  BY <1>8, ToolsRecord
<1>9. ASSUME NEW k \in Call, Agent!Refer(k) \/ Agent!Answer(k) PROVE ToolsInv'
  BY <1>9, ToolsRefer, ToolsAnswer
<1>10. CASE UNCHANGED agentVars
  <2>1. UNCHANGED <<phase, spent, unread, seen, meter, over, author, runNow, held, toolCall, shot, covered, users,
                    lapped, denied, dropped, outcome>>
    BY <1>10 DEF agentVars
  <2>2. AgentTypes'
    <3>1. BookTypes /\ CallTypes
      BY DEF AgentTypes, ToolsInv
    <3>2. BookTypes' /\ CallTypes'
      BY <2>1, <3>1, BookStays DEF CallTypes
    <3>. QED
      BY <3>2 DEF AgentTypes
  <2>3. RefsFollow' /\ ShotsFollow' /\ DenialsFollow'
    BY <2>1 DEF ToolsInv, RefsFollow, NewestIn, NamedIn, ShotsFollow, SomeStored, Agent!ShotsKept, DenialsFollow,
                Agent!AllIdle
  <2>. QED
    BY <2>2, <2>3 DEF ToolsInv
<1>. QED
  BY <1>1, <1>2, <1>3, <1>4, <1>5, <1>6, <1>7, <1>8, <1>9, <1>10 DEF Agent!Next

(* ... and what holds of the meter.                                         *)
LEMMA MeterKept == AgentTypes /\ MeterFollows /\ [Agent!Next]_agentVars => MeterFollows'
<1> SUFFICES ASSUME AgentTypes, MeterFollows, [Agent!Next]_agentVars PROVE MeterFollows'
  OBVIOUS
<1>1. ASSUME NEW price \in Price, NEW blocks \in 1..2, NEW asked \in SUBSET Call,
             Agent!Respond(price, blocks, asked)
      PROVE  MeterFollows'
  BY <1>1, MeterResponds
<1>2. CASE Agent!Consume
  BY <1>2, MeterConsumes
<1>3. CASE \/ Agent!RecordOther \/ Agent!BeginOther \/ Agent!EndOther \/ Agent!Raise \/ UNCHANGED agentVars
           \/ \E subtype \in {"success", "error", "budget"} : Agent!EndRun(subtype)
  <2>1. UNCHANGED <<spent, unread, seen, meter>>
    BY <1>3 DEF Agent!RecordOther, Agent!BeginOther, Agent!EndOther, Agent!Raise, Agent!EndRun, Agent!usage,
                agentVars
  <2>. QED
    BY <2>1, MeterStays
<1>4. ASSUME NEW k \in Call,
             \/ Agent!Approve(k) \/ Agent!Deny(k) \/ Agent!ReadOnly(k) \/ Agent!Run(k) \/ Agent!Store(k)
             \/ Agent!Unrecorded(k) \/ Agent!RecordCall(k) \/ Agent!Again(k) \/ Agent!AnswerPlain(k)
             \/ Agent!Refer(k) \/ Agent!Answer(k)
      PROVE  MeterFollows'
  <2>1. UNCHANGED <<spent, unread, seen, meter>>
    BY <1>4 DEF Agent!Approve, Agent!Deny, Agent!ReadOnly, Agent!Run, Agent!Store, Agent!Unrecorded,
                Agent!RecordCall, Agent!Again, Agent!AnswerPlain, Agent!Refer, Agent!Answer, Agent!usage
  <2>. QED
    BY <2>1, MeterStays
<1>. QED
  BY <1>1, <1>2, <1>3, <1>4 DEF Agent!Next

(* They hold before the model has answered anything.                        *)
LEMMA AgentStarts == Agent!Init => AgentInv
<1> SUFFICES ASSUME Agent!Init PROVE AgentInv
  OBVIOUS
<1>1. /\ phase = "running" /\ spent = <<>> /\ unread = <<>> /\ seen = {} /\ meter = 0
      /\ over = FALSE /\ author = << <<>> >> /\ runNow = 1 /\ held = User
      /\ toolCall = [k \in Call |-> Agent!Idle] /\ shot = [run |-> 0, no |-> 0] /\ covered = FALSE
      /\ users = 0 /\ lapped = {} /\ denied = FALSE /\ dropped = FALSE /\ outcome = "running"
  BY DEF Agent!Init, Agent!NoCall, Agent!NoRef
<1>2. toolCall \in [Call -> ToolCall] /\ \A k \in Call : toolCall[k].pc = "idle"
  BY <1>1, AgentConstants
<1>3. BookTypes
  <2>1. <<>> \in Seq(Actor) /\ DOMAIN <<>> = {}
    OBVIOUS
  <2>2. author \in Seq(Seq(Actor)) /\ Len(author) = 1 /\ author[1] = <<>> /\ author # <<>>
    BY ONLY <1>1, <2>1
  <2>. QED
    BY <1>1, <2>1, <2>2 DEF BookTypes
<1>4. CallTypes
  <2>1. <<>> \in Seq(Price) /\ <<>> \in Seq(Nat) /\ DOMAIN <<>> = {}
    OBVIOUS
  <2>2. spent \in Seq(Price) /\ (\A i \in DOMAIN unread : unread[i] \in DOMAIN spent)
        /\ seen \subseteq DOMAIN spent /\ unread \in Seq(Nat) /\ meter \in Nat
    BY <1>1, <2>1
  <2>3. phase \in {"running", "stopping", "ended"} /\ over \in BOOLEAN
        /\ outcome \in {"running", "succeeded", "failed", "cancelled"}
    BY <1>1
  <2>4. held \in Call \cup {User} /\ lapped \subseteq Call /\ denied \in BOOLEAN /\ dropped \in BOOLEAN
        /\ covered \in BOOLEAN
    BY <1>1
  <2>5. users \in 0..MaxUser /\ shot \in Reference
    BY <1>1, AgentConstants DEF Reference
  <2>. QED
    BY <1>2, <2>2, <2>3, <2>4, <2>5 DEF CallTypes
<1>5. RefsFollow /\ DenialsFollow
  BY <1>1, <1>2 DEF RefsFollow, DenialsFollow
<1>6. ShotsFollow
  BY <1>1, <1>3 DEF ShotsFollow, Agent!ShotsKept, BookTypes
<1>7. MeterFollows
  <2>1. <<>> \in Seq(Nat) /\ Len(<<>>) = 0
    OBVIOUS
  <2>2. Sums(<<>>)[0] = 0
    BY <2>1, SumsAre
  <2>3. Metered(0)
    BY <1>1, <2>1, <2>2 DEF Metered
  <2>. QED
    BY <1>1, <2>1, <2>3 DEF MeterFollows
<1>8. AgentTypes
  BY <1>3, <1>4 DEF AgentTypes
<1>. QED
  BY <1>5, <1>6, <1>7, <1>8 DEF AgentInv, ToolsInv

(* The agent's calls and its meter are in order from the first response on. *)
LEMMA AgentAlways == WSpec => []AgentInv
<1>1. WInit => AgentInv
  BY AgentStarts DEF WInit
<1>2. AgentInv /\ [WNext]_<<focus, vars, hostVars, workVars>> => AgentInv'
  BY AgentStep, ToolsKept, MeterKept DEF AgentInv, ToolsInv
<1>. QED
  BY <1>1, <1>2, PTL DEF WSpec

(* "Returns a summary with exit code and a ref for the full output"         *)
(* (agent.py 137), "so we count it once per message_id" (agent.py 310): the *)
(* reference in an answer is of the call's own execution unless, between    *)
(* the lock and the reference, another was recorded or the current run      *)
(* became another; the meter is what the responses cost; no artifact is     *)
(* written over another unless a call that stored one was not recorded; and *)
(* a run of which a call was denied is no success; for any number of calls, *)
(* other executions and responses.                                         *)
THEOREM AgentIsToldTrue == WSpec => []AgentToldTrue
<1>1. AgentInv => AgentToldTrue
  BY AgentInvMeans
<1>. QED
  BY <1>1, AgentAlways, PTL

-----------------------------------------------------------------------------
(* The types of all that a session has: what no invariant above says.       *)

(* The locks *)

(* The Cardinality that Serialized was instantiated with is the library's. *)
LEMMA LocksCardinality == \A S : Locks!Cardinality(S) = Cardinality(S)
  BY DEF Locks!Cardinality, Cardinality

(* Locks are only taken from those that are not made yet. *)
LEMMA FreshAlways == WSpec => [](fresh \subseteq Lock)
<1>1. WInit => fresh \subseteq Lock
  BY DEF WInit, HInit, Locks!Init
<1>2. fresh \subseteq Lock /\ [Locks!Next]_lockVars => (fresh \subseteq Lock)'
  BY DEF Locks!Next, Locks!Enter, Locks!Exit, Locks!Register, Locks!Unregister, lockVars
<1>. QED
  BY <1>1, <1>2, LocksStep, PTL DEF WSpec

(* The users of the lock are threads of the process, so no more than it has. *)
LEMMA LocksMean ==
  ASSUME LocksInv, fresh \subseteq Lock, IsFiniteSet(Caller)
  PROVE  Locks!TypeOK
<1>1. Using \in SUBSET Caller
  BY DEF Using
<1>2. Cardinality(Using) \in Nat /\ Cardinality(Caller) \in Nat /\ Cardinality(Using) <= Cardinality(Caller)
  BY <1>1, FS_Subset, FS_CardinalityType
<1>3. entry.users \in 0..Locks!Cardinality(Caller)
  BY <1>2, LocksCardinality DEF LocksInv, Counted
<1>. QED
  BY <1>3 DEF LocksInv, LocksTypes, Locks!TypeOK

-----------------------------------------------------------------------------
(* The runs of the session *)

RunsTypes ==
    /\ Len(runs) <= MaxRuns
    /\ ready \in {"ready", "closed"} /\ lock \in Starter \cup {NoOne}
    /\ closing \in {"open", "stopping", "done", "raised"}
    /\ owns \subseteq Starter
    /\ task \in {"none", "running", "stopping", "ended"} /\ serial \in Tool \cup {NoOne}

(* The list of runs grows only while it may. *)
LEMMA RunsFew ==
  ASSUME RunsOK, Len(runs) <= MaxRuns,
         \/ UNCHANGED runs
         \/ \E budget \in BOOLEAN : Runs!BeginRun(budget)
         \/ Runs!RequireRun \/ Runs!EndRun \/ \E actor : Runs!Record(actor)
         \/ runs' = [runs EXCEPT ![cur].over = TRUE]
  PROVE  Len(runs') <= MaxRuns
<1>1. runs \in Seq(Charge) /\ Len(runs) \in Nat /\ MaxRuns \in Nat
  BY SessionWorkAssumption DEF RunsOK, Runs!SessionAssumption
<1>2. \/ runs' = runs
      \/ Len(runs) < MaxRuns /\ \E r : runs' = Append(runs, r)
      \/ \E r : runs' = [runs EXCEPT ![cur] = r]
  BY DEF Runs!BeginRun, Runs!RequireRun, Runs!EndRun, Runs!Record, Runs!Keep, Runs!Refuse
<1>3. ASSUME NEW r, runs' = Append(runs, r), Len(runs) < MaxRuns PROVE Len(runs') <= MaxRuns
  BY <1>1, <1>3
<1>4. ASSUME NEW r, runs' = [runs EXCEPT ![cur] = r] PROVE Len(runs') <= MaxRuns
  BY <1>1, <1>4
<1>. QED
  BY <1>2, <1>3, <1>4

(* Every step of the session keeps the types of its runs. *)
LEMMA RunsTypesKept == BudgetInv /\ RunsTypes /\ [Runs!Next]_runVars => RunsTypes'
<1> SUFFICES ASSUME BudgetInv, RunsTypes, [Runs!Next]_runVars PROVE RunsTypes'
  OBVIOUS
<1>1. CASE UNCHANGED runVars
  BY <1>1 DEF runVars, RunsTypes
<1>2. RunsOK /\ Len(runs) <= MaxRuns
  BY DEF BudgetInv, RunsTypes
<1>3. ASSUME NEW w \in Starter, Runs!StartWorkload(w) PROVE RunsTypes'
  <2>1. \/ UNCHANGED runs \/ Runs!BeginRun(FALSE) \/ Runs!RequireRun \/ Runs!EndRun
    BY <1>3 DEF Runs!StartWorkload, Runs!TakeLock, Runs!RefuseStart, Runs!ReadRun, Runs!BeginStart,
                Runs!PodUp, Runs!PodFails, Runs!CheckClosed, Runs!AttachWorkload, Runs!EndStart,
                Runs!EndRunIf, Runs!session
  <2>2. Len(runs') <= MaxRuns
    BY <1>2, <2>1, RunsFew
  <2>3. /\ ready' = ready /\ closing' = closing /\ UNCHANGED <<task, serial>>
        /\ lock' \in {lock, w, NoOne} /\ owns' \in {owns, owns \cup {w}}
    BY <1>3 DEF Runs!StartWorkload, Runs!TakeLock, Runs!RefuseStart, Runs!ReadRun, Runs!BeginStart,
                Runs!PodUp, Runs!PodFails, Runs!CheckClosed, Runs!AttachWorkload, Runs!EndStart,
                Runs!Leave, Runs!session, Runs!agent
  <2>. QED
    BY <2>2, <2>3 DEF RunsTypes
<1>4. CASE Runs!CloseHosts \/ Runs!CloseStatus
  BY <1>4 DEF Runs!CloseHosts, Runs!CloseStatus, Runs!session, Runs!agent, RunsTypes
<1>5. CASE Runs!BeginTask \/ Runs!Say \/ Runs!EndTask \/ Runs!Exec \/ Runs!PostRun \/ Runs!FinishRun
  <2>1. \/ UNCHANGED runs
        \/ \E budget \in BOOLEAN : Runs!BeginRun(budget)
        \/ Runs!RequireRun \/ Runs!EndRun \/ \E actor : Runs!Record(actor)
    BY <1>5 DEF Runs!BeginTask, Runs!Say, Runs!EndTask, Runs!Exec, Runs!PostRun, Runs!FinishRun
  <2>3. Len(runs') <= MaxRuns
    BY <1>2, <2>1, RunsFew
  <2>2. /\ UNCHANGED <<ready, lock, closing, owns, serial>>
        /\ task' \in {task, "running", "ended"}
    BY <1>5 DEF Runs!BeginTask, Runs!Say, Runs!EndTask, Runs!Exec, Runs!PostRun, Runs!FinishRun,
                Runs!podvars, Runs!agent
  <2>. QED
    BY <2>2, <2>3 DEF RunsTypes
<1>6. ASSUME NEW k \in Tool, Runs!Approve(k) \/ Runs!Deny(k) \/ Runs!Execute(k) \/ Runs!RecordTool(k)
      PROVE  RunsTypes'
  <2>1. UNCHANGED runs \/ (\E actor : Runs!Record(actor)) \/ runs' = [runs EXCEPT ![cur].over = TRUE]
    BY <1>6 DEF Runs!Approve, Runs!Deny, Runs!Execute, Runs!RecordTool, Runs!Record, Runs!Refuse, Runs!session
  <2>3. Len(runs') <= MaxRuns
    BY <1>2, <2>1, RunsFew
  <2>2. /\ UNCHANGED <<ready, lock, closing, owns>>
        /\ task' \in {task, "stopping"} /\ serial' \in {serial, k, NoOne}
    BY <1>6 DEF Runs!Approve, Runs!Deny, Runs!Execute, Runs!RecordTool, Runs!podvars, Runs!session
  <2>. QED
    BY <2>2, <2>3 DEF RunsTypes
<1>. QED
  BY <1>1, <1>3, <1>4, <1>5, <1>6 DEF Runs!Next

(* Their types are kept from the start. *)
LEMMA RunsTypesAlways == WSpec => []RunsTypes
<1>1. WInit => RunsTypes
  BY SessionWorkAssumption DEF WInit, Runs!Init, RunsTypes, Runs!SessionAssumption
<1>. QED
  BY <1>1, RunsTypesKept, BudgetAlways, RunsStep, PTL DEF WSpec

(* What the Pods, the budget and the rest say of the runs is their type. *)
LEMMA RunsMean == PodsInv /\ BudgetInv /\ RunsTypes => Runs!TypeOK
<1> SUFFICES ASSUME PodsInv, BudgetInv, RunsTypes PROVE Runs!TypeOK
  OBVIOUS
<1>2. Charge \subseteq Runs!Run
  BY DEF Charge, Charges, Runs!Run
<1>3. runs \in Seq(Runs!Run) /\ cur \in 0..Len(runs)
  BY <1>2 DEF BudgetInv, RunsOK
<1>. QED
  BY <1>3 DEF PodsInv, PodsTypes, BudgetInv, RunsTypes, Runs!TypeOK

-----------------------------------------------------------------------------
(* The recording: an event is numbered from a counter that was the length   *)
(* of the file, so that no number is greater than the events that were      *)
(* numbered.                                                               *)

NumberedSoFar == [id : 1..drawn, seq : 1..drawn, opening : Nat]
OnTheWay == {t \in Thread : pend[t] # Recording!None}
Pend == [event : NumberedSoFar, by : Server] \cup {Recording!None}

(* The events that are counted: those on their way with those in the file,  *)
(* and with those in a copy.                                               *)
DrawnInv ==
    /\ drawn \in 0..MaxEvents /\ opened \in 0..MaxOpened /\ closed \in BOOLEAN
    /\ file \in Seq(NumberedSoFar) /\ copy \in [Server -> Seq(NumberedSoFar)]
    /\ pend \in [Thread -> Pend] /\ acked \subseteq NumberedSoFar
    /\ seq \in [Server -> 0..drawn] /\ opening \in [Server -> Nat]
    /\ IsFiniteSet(OnTheWay)
    /\ Len(file) + Cardinality(OnTheWay) <= drawn
    /\ \A p \in Server : Len(copy[p]) + Cardinality(OnTheWay) <= drawn

(* How many events may be numbered, and the number of an event that is not. *)
LEMMA DrawnBounds ==
  /\ MaxEvents \in Nat /\ MaxOpened \in Nat /\ Nobody \notin Server
  /\ \A x \in [event : NumberedSoFar, by : Server] :
        x # Recording!None /\ x.event \in NumberedSoFar /\ x.by \in Server
<1>1. MaxEvents \in Nat /\ MaxOpened \in Nat /\ Nobody \notin Server
  BY SessionWorkAssumption DEF Recording!RecorderAssumption
<1>. QED
  BY <1>1 DEF Recording!None

(* A call reaches a process, which counts the lines of the file. *)
LEMMA DrawnServe == ASSUME DrawnInv, NEW p \in Server, Recording!Serve(p) PROVE DrawnInv'
<1>1. /\ UNCHANGED <<file, copy, closed, pend, drawn, acked>>
      /\ \/ UNCHANGED <<seq, opened, opening>>
         \/ /\ opened < MaxOpened /\ seq' = [seq EXCEPT ![p] = Len(file)]
            /\ opened' = opened + 1 /\ opening' = [opening EXCEPT ![p] = opened + 1]
  BY DEF Recording!Serve
<1>2. Len(file) \in 0..drawn
  BY FS_CardinalityType DEF DrawnInv
<1>3. opened \in Nat /\ MaxOpened \in Nat
  BY DrawnBounds DEF DrawnInv
<1>4. seq' \in [Server -> 0..drawn] /\ opening' \in [Server -> Nat] /\ opened' \in 0..MaxOpened
  <2>1. seq \in [Server -> 0..drawn] /\ opening \in [Server -> Nat] /\ opened \in 0..MaxOpened
    BY DEF DrawnInv
  <2>. QED
    BY ONLY <1>1, <1>2, <1>3, <2>1
<1>5. NumberedSoFar' = NumberedSoFar /\ OnTheWay' = OnTheWay /\ Pend' = Pend
  BY <1>1 DEF NumberedSoFar, OnTheWay, Pend
<1>. QED
  BY <1>1, <1>4, <1>5 DEF DrawnInv

(* What was numbered before stays so. *)
LEMMA NumberedGrows ==
  ASSUME drawn \in Nat, drawn' = drawn + 1
  PROVE  NumberedSoFar \subseteq NumberedSoFar' /\ 0..drawn \subseteq 0..drawn'
BY DEF NumberedSoFar

(* One event more, on its way. *)
LEMMA DrawnDraw ==
  ASSUME RecordingTypes, DrawnInv, NEW t \in Thread, NEW p \in Server, Recording!Draw(t, p)
  PROVE  DrawnInv'
<1> DEFINE e == [id |-> drawn + 1, seq |-> seq[p] + 1, opening |-> opening[p]]
           d == [event |-> e, by |-> p]
<1>1. /\ pend[t] = Recording!None /\ drawn < MaxEvents
      /\ seq' = [seq EXCEPT ![p] = seq[p] + 1] /\ drawn' = drawn + 1
      /\ UNCHANGED <<file, copy, closed, opened, opening, acked>>
  BY DEF Recording!Draw
<1>2. /\ drawn \in Nat /\ MaxEvents \in Nat /\ drawn' \in 0..MaxEvents
      /\ seq[p] \in 0..drawn /\ opening[p] \in Nat
  BY <1>1, DrawnBounds DEF DrawnInv
<1>3. seq'[p] = seq[p] + 1
  BY <1>1 DEF DrawnInv
<1>4. pend' = [pend EXCEPT ![t] = d]
  BY <1>3 DEF Recording!Draw
<1>5. e \in NumberedSoFar'
  BY <1>1, <1>2 DEF NumberedSoFar
<1>15. d \in [event : NumberedSoFar', by : Server]
  BY <1>5
<1>10. d # Recording!None
  BY DrawnBounds DEF Recording!None
<1> HIDE DEF d, e
<1>6. NumberedSoFar \subseteq NumberedSoFar' /\ 0..drawn \subseteq 0..drawn'
  BY <1>1, <1>2, NumberedGrows
<1>7. seq' \in [Server -> 0..drawn']
  <2>1. seq \in [Server -> 0..drawn]
    BY DEF DrawnInv
  <2>. QED
    BY <1>1, <1>2, <2>1
<1>8. pend' \in [Thread -> Pend']
  <2>1. pend \in [Thread -> Pend]
    BY DEF DrawnInv
  <2>2. Pend \subseteq Pend'
    BY <1>6 DEF Pend
  <2>3. d \in Pend'
    BY <1>15 DEF Pend
  <2>. QED
    BY ONLY <1>4, <2>1, <2>2, <2>3
<1>9. file' \in Seq(NumberedSoFar') /\ copy' \in [Server -> Seq(NumberedSoFar')] /\ acked' \subseteq NumberedSoFar'
  <2>1. file \in Seq(NumberedSoFar) /\ copy \in [Server -> Seq(NumberedSoFar)] /\ acked \subseteq NumberedSoFar
    BY DEF DrawnInv
  <2>2. Seq(NumberedSoFar) \subseteq Seq(NumberedSoFar')
    BY ONLY <1>6
  <2>. QED
    BY <1>1, <1>6, <2>1, <2>2
<1>11. OnTheWay' = OnTheWay \cup {t} /\ t \notin OnTheWay
  BY <1>1, <1>4, <1>10 DEF OnTheWay, DrawnInv
<1>12. IsFiniteSet(OnTheWay') /\ Cardinality(OnTheWay') = Cardinality(OnTheWay) + 1 /\ Cardinality(OnTheWay) \in Nat
  BY <1>11, FS_AddElement, FS_CardinalityType DEF DrawnInv
<1>13. /\ Len(file) + Cardinality(OnTheWay) <= drawn /\ Len(file) \in Nat
       /\ \A q \in Server : Len(copy[q]) + Cardinality(OnTheWay) <= drawn /\ Len(copy[q]) \in Nat
  BY DEF DrawnInv
<1>14. /\ Len(file') + Cardinality(OnTheWay') <= drawn'
       /\ \A q \in Server : Len(copy'[q]) + Cardinality(OnTheWay') <= drawn'
  BY ONLY <1>1, <1>2, <1>12, <1>13
<1>. QED
  BY <1>1, <1>2, <1>7, <1>8, <1>9, <1>12, <1>14 DEF DrawnInv

(* An event on its way becomes a line, of the file or of a copy. *)
LEMMA DrawnAppend ==
  ASSUME DrawnInv, NEW t \in Thread, NEW written \in BOOLEAN, Recording!AppendLine(t, written)
  PROVE  DrawnInv'
<1>16. pend[t] \in [event : NumberedSoFar, by : Server]
  BY DEF Recording!AppendLine, DrawnInv, Pend
<1>17. PICK p \in Server : p = pend[t].by
  BY <1>16
<1> DEFINE e == pend[t].event
           behind == Recording!Lines(p)
           lines == Append(behind, e)
           longer == Append(file, e)
<1>1. /\ pend[t] # Recording!None
      /\ pend' = [pend EXCEPT ![t] = Recording!None]
      /\ acked' = IF written THEN acked \cup {e} ELSE acked
      /\ UNCHANGED <<closed, seq, drawn, opened, opening>>
  BY DEF Recording!AppendLine
<1>2. \/ /\ copy' = [copy EXCEPT ![p] = lines]
         /\ file' = lines \/ file' = file
      \/ file' = longer /\ copy' = copy
  BY <1>17 DEF Recording!AppendLine, Recording!AppendS3, Recording!AppendLocal
<1>3. e \in NumberedSoFar
  BY <1>16
<1>4. behind \in Seq(NumberedSoFar) /\ behind \in {file, copy[p]}
  BY DEF DrawnInv, Recording!Lines
<1>5. lines \in Seq(NumberedSoFar) /\ Len(lines) = Len(behind) + 1
  BY <1>3, <1>4
<1>6. longer \in Seq(NumberedSoFar) /\ Len(longer) = Len(file) + 1
  BY <1>3 DEF DrawnInv
<1>7. NumberedSoFar' = NumberedSoFar /\ Pend' = Pend
  BY <1>1 DEF NumberedSoFar, Pend
<1>8. OnTheWay' = OnTheWay \ {t} /\ t \in OnTheWay
  BY <1>1 DEF OnTheWay, DrawnInv
<1>9. /\ IsFiniteSet(OnTheWay') /\ Cardinality(OnTheWay') = Cardinality(OnTheWay) - 1
      /\ Cardinality(OnTheWay) \in Nat
  BY <1>8, FS_RemoveElement, FS_CardinalityType DEF DrawnInv
<1>10. /\ Len(file) + Cardinality(OnTheWay) <= drawn /\ Len(file) \in Nat /\ drawn \in Nat
       /\ \A q \in Server : Len(copy[q]) + Cardinality(OnTheWay) <= drawn /\ Len(copy[q]) \in Nat
  BY DEF DrawnInv
<1>11. Len(behind) + Cardinality(OnTheWay) <= drawn /\ Len(behind) \in Nat
  BY <1>4, <1>10
<1>12. acked' \subseteq NumberedSoFar /\ pend' \in [Thread -> Pend]
  BY <1>1, <1>3 DEF DrawnInv, Pend
<1> HIDE DEF e, behind, lines, longer
<1>13. file' \in {file, lines, longer} /\ \A q \in Server : copy'[q] \in {copy[q], lines}
  BY <1>2 DEF DrawnInv
<1>14. file' \in Seq(NumberedSoFar) /\ copy' \in [Server -> Seq(NumberedSoFar)]
  <2>1. file \in Seq(NumberedSoFar) /\ copy \in [Server -> Seq(NumberedSoFar)]
    BY DEF DrawnInv
  <2>. QED
    BY ONLY <1>2, <1>5, <1>6, <2>1
<1>15. /\ Len(file') + Cardinality(OnTheWay') <= drawn
       /\ \A q \in Server : Len(copy'[q]) + Cardinality(OnTheWay') <= drawn
  <2>1. Len(lines) + Cardinality(OnTheWay') <= drawn
    BY ONLY <1>5, <1>9, <1>10, <1>11
  <2>2. Len(longer) + Cardinality(OnTheWay') <= drawn
    BY ONLY <1>6, <1>9, <1>10
  <2>3. /\ Len(file) + Cardinality(OnTheWay') <= drawn
        /\ \A q \in Server : Len(copy[q]) + Cardinality(OnTheWay') <= drawn
    BY ONLY <1>9, <1>10
  <2>. QED
    BY ONLY <1>13, <2>1, <2>2, <2>3
<1>. QED
  BY <1>1, <1>7, <1>9, <1>12, <1>14, <1>15 DEF DrawnInv

(* A call loses its lease or ends; a session is let go, closed, or dies with *)
(* its process.                                                            *)
LEMMA DrawnEnds ==
  ASSUME DrawnInv,
         \/ Recording!LoseLease
         \/ \E p \in Server : \/ Recording!Leave(p) \/ Recording!Close(p)
                              \/ Recording!Detach(p) \/ Recording!Crash(p)
  PROVE  DrawnInv'
<1>1. /\ UNCHANGED <<file, seq, drawn, opened, opening, acked>>
      /\ closed' \in BOOLEAN
      /\ \/ pend' = pend
         \/ \E p \in Server : pend' = [t \in Thread |-> IF pend[t].by = p THEN Recording!None ELSE pend[t]]
      /\ copy' = copy \/ \E p : copy' = [copy EXCEPT ![p] = <<>>]
  BY DEF Recording!LoseLease, Recording!Leave, Recording!Close, Recording!Detach, Recording!Crash,
         Recording!Evict, DrawnInv
<1>2. copy' \in [Server -> Seq(NumberedSoFar)] /\ \A p \in Server : copy'[p] \in {copy[p], <<>>}
  <2>1. copy \in [Server -> Seq(NumberedSoFar)] /\ <<>> \in Seq(NumberedSoFar)
    BY DEF DrawnInv
  <2>. QED
    BY <1>1, <2>1
<1>3. pend' \in [Thread -> Pend] /\ \A t \in Thread : pend'[t] \in {pend[t], Recording!None}
  <2>1. pend \in [Thread -> Pend] /\ Recording!None \in Pend
    BY DEF DrawnInv, Pend
  <2>. QED
    BY ONLY <1>1, <2>1
<1>4. OnTheWay' \in SUBSET OnTheWay
  BY <1>3 DEF OnTheWay
<1>5. /\ IsFiniteSet(OnTheWay') /\ Cardinality(OnTheWay') <= Cardinality(OnTheWay)
      /\ Cardinality(OnTheWay') \in Nat /\ Cardinality(OnTheWay) \in Nat
  BY <1>4, FS_Subset, FS_CardinalityType DEF DrawnInv
<1>6. /\ Len(file) + Cardinality(OnTheWay) <= drawn /\ Len(file) \in Nat /\ drawn \in Nat
      /\ \A p \in Server : Len(copy[p]) + Cardinality(OnTheWay) <= drawn /\ Len(copy[p]) \in Nat
  BY DEF DrawnInv
<1>7. /\ Len(file) + Cardinality(OnTheWay') <= drawn
      /\ \A p \in Server : Len(copy'[p]) + Cardinality(OnTheWay') <= drawn
  <2>1. Len(<<>>) = 0
    OBVIOUS
  <2>. QED
    BY <1>2, <1>5, <1>6, <2>1
<1>8. NumberedSoFar' = NumberedSoFar /\ Pend' = Pend
  BY <1>1 DEF NumberedSoFar, Pend
<1>. QED
  BY <1>1, <1>2, <1>3, <1>5, <1>7, <1>8 DEF DrawnInv

(* No number is greater than the events that were numbered, always. *)
LEMMA DrawnAlways == WSpec => []DrawnInv
<1>1. WInit => DrawnInv
  <2> SUFFICES ASSUME WInit PROVE DrawnInv
    OBVIOUS
  <2>1. /\ file = <<>> /\ copy = [p \in Server |-> <<>>] /\ acked = {}
        /\ seq = [p \in Server |-> 0] /\ opening = [p \in Server |-> 0] /\ opened = 0 /\ drawn = 0
        /\ pend = [t \in Thread |-> Recording!None] /\ closed = FALSE
    BY DEF WInit, Recording!Init
  <2>2. OnTheWay = {} /\ <<>> \in Seq(NumberedSoFar) /\ Len(<<>>) = 0
    BY <2>1 DEF OnTheWay
  <2>3. IsFiniteSet(OnTheWay) /\ Cardinality(OnTheWay) = 0
    BY <2>2, FS_EmptySet
  <2>4. drawn \in 0..MaxEvents /\ opened \in 0..MaxOpened
    BY <2>1, DrawnBounds
  <2>5. pend \in [Thread -> Pend] /\ acked \subseteq NumberedSoFar
    BY <2>1 DEF Pend
  <2>6. \A p \in Server : Len(copy[p]) + Cardinality(OnTheWay) <= drawn
    BY <2>1, <2>2, <2>3
  <2>7. file \in Seq(NumberedSoFar) /\ copy \in [Server -> Seq(NumberedSoFar)] /\ closed \in BOOLEAN
    BY <2>1, <2>2
  <2>8. seq \in [Server -> 0..drawn] /\ opening \in [Server -> Nat]
    BY <2>1
  <2>9. Len(file) + Cardinality(OnTheWay) <= drawn
    BY <2>1, <2>2, <2>3
  <2>. QED
    BY ONLY <2>3, <2>4, <2>5, <2>6, <2>7, <2>8, <2>9 DEF DrawnInv
<1>2. RecordingInv /\ DrawnInv /\ [Recording!Next]_recorderVars => DrawnInv'
  <2> SUFFICES ASSUME RecordingInv, DrawnInv, [Recording!Next]_recorderVars PROVE DrawnInv'
    OBVIOUS
  <2>1. CASE UNCHANGED recorderVars
    BY <2>1 DEF recorderVars, DrawnInv, NumberedSoFar, OnTheWay, Pend
  <2>2. CASE Recording!Next
    BY <2>2, DrawnServe, DrawnDraw, DrawnAppend, DrawnEnds DEF Recording!Next, RecordingInv
  <2>. QED
    BY <2>1, <2>2
<1>. QED
  BY <1>1, <1>2, RecordingAlways, RecordingStep, PTL DEF WSpec

(* The events that were numbered are of the type that the model gives them. *)
LEMMA RecordingMeans ==
  ASSUME RecordingInv, DrawnInv, store \in {"local", "s3"}
  PROVE  Recording!TypeOK
<1>1. NumberedSoFar \subseteq Recording!Event
  BY DrawnBounds DEF DrawnInv, NumberedSoFar, Recording!Event
<1>2. Seq(NumberedSoFar) \subseteq Seq(Recording!Event)
  BY ONLY <1>1
<1>4. Pend \subseteq Recording!Pending \cup {Recording!None}
  BY <1>1 DEF Pend, Recording!Pending
<1>3. /\ file \in Seq(Recording!Event) /\ \A p \in Server : copy[p] \in Seq(Recording!Event)
      /\ pend \in [Thread -> Recording!Pending \cup {Recording!None}] /\ acked \subseteq Recording!Event
  BY <1>1, <1>2, <1>4 DEF DrawnInv
<1>5. /\ seq \in [Server -> Nat] /\ opening \in [Server -> Nat] /\ live \subseteq Server /\ inCall \subseteq Server
      /\ serving \in Server \cup {Nobody} /\ last \in Server \cup {Nobody} /\ stale \in BOOLEAN
  BY DEF RecordingInv, RecordingTypes
<1>6. drawn \in 0..MaxEvents /\ opened \in 0..MaxOpened /\ closed \in BOOLEAN
  BY DEF DrawnInv
<1>. QED
  BY ONLY <1>3, <1>5, <1>6, store \in {"local", "s3"} DEF Recording!TypeOK

-----------------------------------------------------------------------------
(* The skill *)

SkillTypes ==
    /\ skill \in Known!Text \cup {Known!Missing}
    /\ approved \subseteq Known!Body /\ blended \subseteq Known!Body /\ carried \subseteq Known!Body
    /\ \A w \in Known!Writer : put[w].text \in Known!Text \cup {Known!Missing}
    /\ \A w \in Known!Writer : put[w].step \in {"open", "write"} => put[w].text \in Known!Text

(* What is saved has the status of a draft or of an approved skill. *)
LEMMA SkillTypesKept == SkillsInv /\ SkillTypes /\ [Known!Next]_skillVars => SkillTypes'
<1> SUFFICES ASSUME SkillsInv, SkillTypes, [Known!Next]_skillVars PROVE SkillTypes'
  OBVIOUS
<1>1. CASE UNCHANGED skillVars
  BY <1>1 DEF skillVars, SkillTypes
<1>2. ASSUME NEW w \in Known!Writer, NEW text \in Known!Text, Known!Save(w, text)
      PROVE  /\ \A v \in Known!Writer : put'[v].text \in Known!Text \cup {Known!Missing}
             /\ \A v \in Known!Writer : put'[v].step \in {"open", "write"} => put'[v].text \in Known!Text
  BY <1>2 DEF Known!Save, SkillsInv, SkillTypes
<1>3. ASSUME NEW d \in Drafter, Known!DistillSkill(d) PROVE SkillTypes'
  <2>1. PICK carries \in BOOLEAN, length \in Known!Length :
            /\ Known!Save(d, Known!Draft(d, carries, length))
            /\ carried' = IF carries THEN carried \cup {{d}} ELSE carried
    BY <1>3 DEF Known!DistillSkill
  <2>2. d \in Known!Writer /\ Known!Draft(d, carries, length) \in Known!Text /\ {d} \in Known!Body
    BY DEF Known!Writer, Known!Body, Known!Draft, Known!Text
  <2>3. skill' = skill /\ approved' = approved /\ blended' = blended
    BY <1>3 DEF Known!DistillSkill
  <2>4. carried' \subseteq Known!Body
    BY <2>1, <2>2 DEF SkillTypes
  <2>. QED
    BY <1>2, <2>1, <2>2, <2>3, <2>4 DEF SkillTypes
<1>4. ASSUME NEW a \in Approver, Known!Approve(a) PROVE SkillTypes'
  <2>1. a \in Known!Writer /\ [skill EXCEPT !.status = "approved"] \in Known!Text /\ skill.body \in Known!Body
    BY <1>4 DEF Known!Writer, Known!Approve, SkillTypes, Known!Text
  <2>2. skill' = skill /\ approved' = approved \cup {skill.body} /\ blended' = blended /\ carried' = carried
    BY <1>4 DEF Known!Approve
  <2>. QED
    BY <1>2, <1>4, <2>1, <2>2 DEF Known!Approve, SkillTypes
<1>5. ASSUME NEW w \in Known!Writer, Known!Open(w) PROVE SkillTypes'
  <2>1. Known!Empty \in Known!Text
    BY DEF Known!Text, Known!Body, Known!Empty
  <2>. QED
    BY <1>5, <2>1 DEF Known!Open, SkillsInv, SkillTypes
<1>6. ASSUME NEW w \in Known!Writer, Known!Write(w) PROVE SkillTypes'
  <2>1. /\ put[w].text \in Known!Text /\ put' = [put EXCEPT ![w].step = "done"]
        /\ approved' = approved /\ carried' = carried
    BY <1>6 DEF Known!Write, SkillTypes
  <2>2. skill \in Known!Text \cup {Known!Missing} /\ put[w].text.length \in 0..2
    BY <2>1 DEF SkillTypes, Known!Text, Known!Length
  <2>3. CASE skill.length > put[w].text.length
    <3>1. skill \in Known!Text
      BY <2>2, <2>3 DEF Known!Missing
    <3>2. Known!Over(put[w].text) \in Known!Text
      BY <2>1, <3>1 DEF Known!Over, Known!Text, Known!Body
    <3>3. skill' = Known!Over(put[w].text) /\ blended' = blended \cup {skill'.body}
      BY <1>6, <2>3 DEF Known!Write
    <3>4. skill' \in Known!Text /\ skill'.body \in Known!Body
      BY <3>2, <3>3 DEF Known!Text
    <3>. QED
      BY <2>1, <3>3, <3>4 DEF SkillsInv, SkillTypes
  <2>4. CASE ~(skill.length > put[w].text.length)
    BY <1>6, <2>1, <2>4 DEF Known!Write, SkillsInv, SkillTypes
  <2>. QED
    BY <2>3, <2>4
<1>7. CASE Known!LoadSkill
  BY <1>7 DEF Known!LoadSkill, SkillTypes
<1>. QED
  BY <1>1, <1>3, <1>4, <1>5, <1>6, <1>7 DEF Known!Next

(* The skill and what is on its way to it have a text, always. *)
LEMMA SkillTypesAlways == WSpec => []SkillTypes
<1>1. WInit => SkillTypes
  BY DEF WInit, Known!Init, SkillTypes
<1>. QED
  BY <1>1, SkillTypesKept, SkillsAlways, SkillsStep, PTL DEF WSpec

(* What the writers have is the type of the skill. *)
LEMMA SkillsMean == SkillsInv /\ SkillTypes => Known!TypeOK
<1> SUFFICES ASSUME SkillsInv, SkillTypes PROVE Known!TypeOK
  OBVIOUS
<1>1. given \subseteq Known!Body
  BY DEF SkillsInv, Explained, SkillTypes
<1>2. put \in [Known!Writer -> [step : {"idle", "open", "write", "done"}, text : Known!Text \cup {Known!Missing}]]
  BY DEF SkillsInv, SkillTypes
<1>. QED
  BY <1>1, <1>2 DEF SkillTypes, Known!TypeOK

-----------------------------------------------------------------------------
(* The Android hosts *)

TagTypes ==
    /\ tag \in [Instances!Instance -> Session \cup {Free}]
    /\ poolParam \subseteq Pool /\ unpaired \subseteq Pool
    /\ param \in [Session -> Pool \cup {Free}]

(* An instance is tagged by whoever claims it, and its token kept for it. *)
LEMMA TagTypesKept == InstancesInv /\ TagTypes /\ [Instances!Next]_instanceVars => TagTypes'
<1> SUFFICES ASSUME InstancesInv, TagTypes, [Instances!Next]_instanceVars PROVE TagTypes'
  OBVIOUS
<1>1. CASE UNCHANGED <<tag, poolParam, unpaired, param>>
  BY <1>1 DEF TagTypes
<1>2. CASE UNCHANGED instanceVars
  BY <1>1, <1>2 DEF instanceVars
<1>3. ASSUME NEW i \in Pool, Instances!LaunchPool(i) \/ Instances!PutPoolToken(i) PROVE TagTypes'
  BY <1>3 DEF Instances!LaunchPool, Instances!PutPoolToken, TagTypes
<1>4. ASSUME NEW i \in Instances!Instance, Instances!Reap(i) PROVE TagTypes'
  BY <1>1, <1>4 DEF Instances!Reap
<1>5. ASSUME NEW s \in Session, Instances!Step(s) PROVE TagTypes'
  <2>1. CASE Instances!CreateTags(s)
    BY <2>1 DEF Instances!CreateTags, TagTypes
  <2>2. CASE Instances!Verify(s)
    <3>1. at[s] \in Pool
      BY <2>2 DEF Instances!Verify, InstancesInv, SeenReady
    <3>. QED
      BY <2>2, <3>1 DEF Instances!Verify, Instances!cloud, TagTypes
  <2>3. CASE Instances!Stop(s)
    BY <2>3 DEF Instances!Stop, TagTypes
  <2>4. CASE \/ Instances!Describe(s) \/ Instances!Recheck(s) \/ Instances!NextCandidate(s)
             \/ Instances!FetchToken(s) \/ Instances!PublishToken(s) \/ Instances!RunInstances(s)
             \/ Instances!StartPortForward(s) \/ Instances!Reach(s) \/ Instances!AskBind(s)
             \/ Instances!Bind(s) \/ Instances!Boot(s) \/ Instances!StartFails(s)
             \/ Instances!CloseSession(s)
    <3>1. UNCHANGED <<tag, poolParam, unpaired, param>>
      BY <2>4 DEF Instances!Describe, Instances!Recheck, Instances!NextCandidate, Instances!FetchToken,
         Instances!PublishToken, Instances!RunInstances, Instances!StartPortForward, Instances!Reach,
         Instances!AskBind, Instances!Bind, Instances!Boot, Instances!StartFails, Instances!CloseSession,
         Instances!cloud
    <3>. QED
      BY <1>1, <3>1
  <2>. QED
    BY <1>5, <2>1, <2>2, <2>3, <2>4 DEF Instances!Step
<1>. QED
  BY <1>2, <1>3, <1>4, <1>5 DEF Instances!Next

(* Tags and parameters name sessions and instances of the pool, always. *)
LEMMA TagTypesAlways == WSpec => []TagTypes
<1>1. WInit => TagTypes
  BY DEF WInit, HInit, Instances!Init, TagTypes
<1>. QED
  BY <1>1, TagTypesKept, InstancesAlways, InstancesStep, PTL DEF WSpec

(* What is proved of the hosts and of their tags is their type. *)
LEMMA InstancesMean == InstancesInv /\ TagTypes => Instances!TypeOK
<1> SUFFICES ASSUME InstancesInv, TagTypes PROVE Instances!TypeOK
  OBVIOUS
<1>1. claim \in [Session -> Instances!Claiming \cup Instances!Up \cup
                 {"idle", "launch", "forward", "reach", "bind", "asked", "boot", "stop", "stopped"}]
  BY DEF InstancesInv, InstancesTypes, Starting, Reaching, Instances!Claiming, Instances!Up
<1>. QED
  BY <1>1 DEF InstancesInv, InstancesTypes, TagTypes, Instances!TypeOK

-----------------------------------------------------------------------------
(* The types *)

(* What is proved of the grading is its type. *)
LEMMA GradingMeans == GradingTypes => Grading!TypeOK
<1> SUFFICES ASSUME GradingTypes PROVE Grading!TypeOK
  OBVIOUS
<1>1. Grading!Run = 1..2
  BY DEF Grading!Run
<1>2. \A i \in DOMAIN events : events[i].run \in 1..2 /\ events[i].out \in {Grading!Clipped(o) : o \in Outcomes}
  <2>1. events \in Seq(ExecEvent)
    BY DEF GradingTypes, RecordTypes
  <2>2. \A i \in DOMAIN events : events[i] \in ExecEvent
    BY <2>1
  <2>. QED
    BY <2>2 DEF ExecEvent, Short
<1>3. \A w \in Worker : worker[w].pc \in {"idle", "ran", "written"} /\ worker[w].run \in 1..2
  BY DEF GradingTypes, Executing
<1>4. eval.pc \in {"idle", "verify", "write", "attach", "grade", "save"}
  BY DEF GradingTypes, Evaluating
<1>5. reread.made \in BOOLEAN
  BY RereadIsKept DEF GradingTypes
<1>. QED
  BY <1>1, <1>2, <1>3, <1>4, <1>5 DEF GradingTypes, RecordTypes, Tally, Say, Grading!TypeOK

AllTyped ==
    /\ focus \in Parts /\ HostsTypeOK
    /\ Runs!TypeOK /\ Agent!TypeOK /\ Recording!TypeOK /\ Grading!TypeOK /\ Known!TypeOK

(* Every variable of a session and of what it holds keeps its type, for any *)
(* number of threads, calls, events, runs, instances and requests; that the *)
(* threads of a process are finitely many is needed to count the users of   *)
(* its lock.                                                               *)
THEOREM AllTypesAreKept == ASSUME IsFiniteSet(Caller) PROVE WSpec => []AllTyped
<1>1. WSpec => [](focus \in Parts)
  <2>1. WInit => focus \in Parts
    BY DEF WInit
  <2>2. focus \in Parts /\ [WNext]_<<focus, vars, hostVars, workVars>> => (focus \in Parts)'
    BY DEF WNext
  <2>. QED
    BY <2>1, <2>2, PTL DEF WSpec
<1>2. LocksInv /\ fresh \subseteq Lock => Locks!TypeOK
  BY LocksMean
<1>3. SandboxesInv /\ JobsInv => Sandboxes!TypeOK /\ Jobs!TypeOK
  BY SandboxesInvMeans, JobsInvMeans
<1>4. InstancesInv /\ TagTypes => Instances!TypeOK
  BY InstancesMean
<1>5. RecordingInv /\ DrawnInv /\ store \in {"local", "s3"} => Recording!TypeOK
  BY RecordingMeans
<1>6. GradingInv => Grading!TypeOK
  BY GradingMeans DEF GradingInv, GradingBase
<1>7. AgentInv => Agent!TypeOK
  BY AgentTypesMean DEF AgentInv, ToolsInv
<1>8. /\ focus \in Parts /\ Sandboxes!TypeOK /\ Jobs!TypeOK /\ Instances!TypeOK /\ Locks!TypeOK
      /\ Runs!TypeOK /\ Agent!TypeOK /\ Recording!TypeOK /\ Grading!TypeOK /\ Known!TypeOK
      => AllTyped
  BY DEF AllTyped, HostsTypeOK
<1>. QED
  BY <1>1, <1>2, <1>3, <1>4, <1>5, <1>6, <1>7, <1>8, RunsMean, SkillsMean,
     LocksAlways, FreshAlways, SandboxesAlways, JobsAlways, InstancesAlways, TagTypesAlways,
     PodsAlways, BudgetAlways, RunsTypesAlways, RecordingAlways, StoreAlways, DrawnAlways, SkillsAlways,
     SkillTypesAlways, GradingAlways, AgentAlways, PTL

(* What the runs check of it, of the part that they look at.                *)
THEOREM TypesAreKept == ASSUME IsFiniteSet(Caller) PROVE WSpec => []TypesOK
<1>1. AllTyped => TypesOK
  BY DEF AllTyped, TypesOK
<1>. QED
  BY <1>1, AllTypesAreKept, PTL
=============================================================================
