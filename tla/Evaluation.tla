----------------------------- MODULE Evaluation -----------------------------
(***************************************************************************)
(* How a run is graded: DevSession.evaluate and verify (src/cwe/session.py)*)
(* with the rules of src/cwe/evaluator.py, while executions of the agent   *)
(* and the user go on, and again from the recording alone when the session *)
(* is closed or its process has died (SessionManager.open_recorded).       *)
(* Run 1 is the run of the task; others are begun when something is        *)
(* executed outside a run.                                                 *)
(***************************************************************************)
EXTENDS Integers, Sequences, FiniteSets, FiniteSetsExt

CONSTANTS
    Outcome,    \* what an execution may come to: exit code, tests its output counts, mark in it,
                \* and that it is long, with these in the middle
    Criteria,   \* [checks, threshold (in percent), verify, judge] that a caller may ask for
    Worker,     \* threads that execute commands
    MaxExec,    \* bound: executions
    MaxRuns     \* bound: runs

EvaluationAssumption ==
    /\ Outcome \subseteq [exit : Nat, tests : {"pass", "fail", "error", "none"}, says : BOOLEAN,
                           long : BOOLEAN]
    /\ MaxExec \in Nat /\ MaxRuns \in Nat \ {0}

VARIABLES
    results,    \* _run_results
    file,       \* the exec events of events.jsonl
    cur,        \* _current_run, 0 for None
    nruns,
    elsewhere,  \* executions in sessions of their own
    meta,       \* metadata["pytest"] of each run
    harness,    \* harness["verification"] of each run
    saved,      \* session.json
    worker,     \* progress of each thread
    eval,       \* progress of evaluate()
    verdict,    \* the last report
    alive,      \* the process has the session and its sandbox
    closed,     \* close() has saved the session
    opened,     \* session.json, as open_recorded read it
    same,       \* history: what the report was made from is unchanged
    mixed,      \* history: two executions were being recorded at once
    again       \* the report made from the recording
record == <<results, file, cur, nruns, elsewhere>>
session == <<alive, closed, opened>>
vars == <<record, meta, harness, saved, worker, eval, verdict, session, same, mixed, again>>

Run == 1..MaxRuns
Absent == [exit |-> 0, tests |-> "absent", says |-> FALSE, long |-> FALSE]
Idle == [pc |-> "idle", run |-> 1, out |-> Absent, pytest |-> FALSE]
NoEval == [pc |-> "idle", run |-> 1, criteria |-> [checks |-> {}], ver |-> Absent, mine |-> 1]
NoReport == [made |-> FALSE]
Ungraded == [made |-> TRUE]
Unopened == [made |-> FALSE, late |-> FALSE]

(* _clip: of a long output the recording has the two ends.                  *)
Clipped(o) == IF o.long THEN [o EXCEPT !.tests = "none", !.says = FALSE] ELSE o

TypeOK ==
    /\ results \in [Run -> Seq(Outcome)] /\ cur \in 0..nruns /\ nruns \in Run
    /\ \A i \in DOMAIN file : file[i].run \in Run /\ file[i].out \in {Clipped(o) : o \in Outcome}
    /\ harness \in [Run -> Outcome \cup {Absent}]
    /\ meta \in [Run -> {"pass", "fail", "error", "none", "absent"}]
    /\ \A w \in Worker : worker[w].pc \in {"idle", "ran", "written"} /\ worker[w].run \in Run
    /\ alive \in BOOLEAN /\ closed \in BOOLEAN /\ opened.made \in BOOLEAN
    /\ eval.pc \in {"idle", "verify", "write", "attach", "grade", "save"}

Init ==
    /\ results = [r \in Run |-> <<>>] /\ file = <<>> /\ cur = 1 /\ nruns = 1 /\ elsewhere = 0
    /\ meta = [r \in Run |-> "absent"] /\ harness = [r \in Run |-> Absent]
    /\ saved = [meta |-> meta, harness |-> harness]
    /\ worker = [w \in Worker |-> Idle] /\ eval = NoEval
    /\ verdict = NoReport /\ again = NoReport
    /\ alive = TRUE /\ closed = FALSE /\ opened = Unopened /\ same = FALSE /\ mixed = FALSE

-----------------------------------------------------------------------------
(* Recording *)

Executed == Len(file) + elsewhere + Cardinality({w \in Worker : worker[w].pc = "ran"})
            + (IF eval.pc = "write" THEN 1 ELSE 0)
Recording == (\E w \in Worker : worker[w].pc = "ran") \/ eval.pc = "write"

(* _record: under the current run, or a new one.                           *)
Target == IF cur = 0 THEN nruns + 1 ELSE cur

Record(o) ==
    /\ alive /\ Executed < MaxExec /\ Target <= MaxRuns
    /\ results' = [results EXCEPT ![Target] = Append(@, o)]
    /\ cur' = Target /\ nruns' = IF cur = 0 THEN nruns + 1 ELSE nruns
    /\ same' = (same /\ verdict.run # Target) /\ mixed' = (mixed \/ Recording)
    /\ UNCHANGED <<file, elsewhere>>

Execute(w, o, pytest) ==
    /\ worker[w].pc = "idle" /\ ~opened.made /\ Record(o)
    /\ worker' = [worker EXCEPT ![w] = [pc |-> "ran", run |-> Target, out |-> o, pytest |-> pytest]]
    /\ UNCHANGED <<meta, harness, saved, eval, verdict, session, again>>

(* The event is written when the session's lock has been left.             *)
WriteEvent(w) ==
    /\ worker[w].pc = "ran"
    /\ file' = Append(file, [run |-> worker[w].run, out |-> Clipped(worker[w].out)])
    /\ worker' = [worker EXCEPT ![w] = IF worker[w].pytest THEN [@ EXCEPT !.pc = "written"] ELSE Idle]
    /\ UNCHANGED <<results, cur, nruns, elsewhere, meta, harness, saved, eval, verdict, session, same, mixed, again>>

(* run_pytest: what the output counts goes to the run that is current now.  *)
SetPytest(w) ==
    /\ worker[w].pc = "written" /\ Target <= MaxRuns
    /\ meta' = [meta EXCEPT ![Target] = worker[w].out.tests]
    /\ cur' = Target /\ nruns' = IF cur = 0 THEN nruns + 1 ELSE nruns
    /\ same' = (same /\ verdict.run # Target)
    /\ worker' = [worker EXCEPT ![w] = Idle]
    /\ UNCHANGED <<results, file, elsewhere, harness, saved, eval, verdict, session, mixed, again>>

Persisted == [meta |-> meta, harness |-> harness]

EndRun ==
    /\ alive /\ cur # 0 /\ cur' = 0 /\ saved' = Persisted
    /\ UNCHANGED <<results, file, nruns, elsewhere, meta, harness, worker, eval, verdict, session, same, mixed, again>>

-----------------------------------------------------------------------------
(* The rules *)

Counted(tests) == tests \in {"pass", "fail"}

(* parse_pytest_output of all output: the last that counts anything.        *)
Parsed(rs) ==
    LET counting == {i \in DOMAIN rs : rs[i].tests # "none"}
    IN  IF counting = {} THEN "none" ELSE rs[Max(counting)].tests

(* Mutant: the report of the agent's own run_pytest comes first.            *)
OwnReportFirst(ver, own, rs) ==
    IF own # "absent" THEN own ELSE IF Counted(ver.tests) THEN ver.tests ELSE Parsed(rs)

(* The report of the pytest rule: of the harness if it counted a test, else *)
(* the one of run_pytest, else whatever the output says.                    *)
PytestReport(ver, own, rs) ==
    IF Counted(ver.tests) THEN ver.tests ELSE IF own # "absent" THEN own ELSE Parsed(rs)

Percent(ok) == IF ok THEN 100 ELSE 0
Errors(rs) == {i \in DOMAIN rs : rs[i].exit # 0}

(* there: the file that file_exists asks for is in the list.  The rules left *)
(* out read the like: stdout_regex the outputs, instrumented_tests a report *)
(* in the metadata, the others what the recording keeps as it is.           *)
Score(type, ver, own, rs, there) ==
    CASE type = "exit_code" -> Percent(rs # <<>> /\ rs[Len(rs)].exit = 0)
      [] type = "no_errors" -> 100 - (100 * Cardinality(Errors(rs))) \div (IF rs = <<>> THEN 1 ELSE Len(rs))
      [] type = "stdout_contains" -> Percent(\E i \in DOMAIN rs : rs[i].says)
      [] type = "stdout_not_contains" -> Percent(\A i \in DOMAIN rs : ~rs[i].says)
      [] type = "file_exists" -> Percent(there)
      [] type = "harness_verification" -> Percent(ver # Absent /\ ver.exit = 0)
      [] type = "pytest" -> Percent(PytestReport(ver, own, rs) = "pass")

Heavy(check) == check.weight >= 2      \* weights are counted in halves

(* LLMJudgeEvaluator: a score; the judge that fails or refuses gives none.  *)
Opinions(criteria) == IF criteria.judge THEN {0, 100} ELSE {0}
(* What the sandbox lists while it is there (nothing, when that fails), and  *)
(* what the events say was written, have nothing to do with one another:    *)
(* files are also made, and removed, by commands.                           *)
Listings(criteria) ==
    IF \E check \in criteria.checks : check.type = "file_exists" THEN BOOLEAN ELSE {FALSE}
Judge == 2                             \* the weight of its item, 1.0

Aggregate(criteria, ver, own, rs, there, opinion) ==
    LET score(check) == Score(check.type, ver, own, rs, there)
        judge == IF criteria.judge THEN Judge ELSE 0
        total == MapThenSumSet(LAMBDA check : check.weight * score(check), criteria.checks) + judge * opinion
        weight == MapThenSumSet(LAMBDA check : check.weight, criteria.checks) + judge
    IN  /\ total >= criteria.threshold * (IF weight = 0 THEN 2 ELSE weight)
        /\ \A check \in criteria.checks : Heavy(check) => score(check) = 100

Report(run, criteria, ver, own, rs, there, opinion) ==
    [made |-> TRUE, run |-> run, criteria |-> criteria, ver |-> ver, saved |-> FALSE, there |-> there,
     opinion |-> opinion, long |-> \E i \in DOMAIN rs : rs[i].long,
     pytest |-> PytestReport(ver, own, rs) = "pass",
     passed |-> Aggregate(criteria, ver, own, rs, there, opinion)]

(* What the recording has of a run, in the order it was written.            *)
EventsOf(run) ==
    LET outs[n \in 0..Len(file)] ==
            IF n = 0 THEN <<>>
            ELSE IF file[n].run = run THEN Append(outs[n - 1], file[n].out) ELSE outs[n - 1]
    IN  outs[Len(file)]

-----------------------------------------------------------------------------
(* evaluate and verify *)

(* Of the run a caller names, or the current, or the last.  Bound: nothing  *)
(* is begun in the session any more once its recording was opened.          *)
Evaluate(criteria, run) ==
    /\ alive /\ eval.pc = "idle" /\ ~opened.made
    /\ run \in {1, IF cur = 0 THEN nruns ELSE cur}
    /\ eval' = [pc |-> IF criteria.verify THEN "verify" ELSE "grade", run |-> run,
                criteria |-> criteria, ver |-> harness[run], mine |-> run]
    /\ UNCHANGED <<record, meta, harness, saved, worker, verdict, session, same, mixed, again>>

(* The harness runs the command itself, and what it comes to is recorded as *)
(* any execution is.                                                       *)
Verify(o) ==
    /\ eval.pc = "verify" /\ Record(o)
    /\ eval' = [eval EXCEPT !.pc = "write", !.ver = o, !.mine = Target]
    /\ UNCHANGED <<meta, harness, saved, worker, verdict, session, again>>

WriteVerification ==
    /\ eval.pc = "write" /\ file' = Append(file, [run |-> eval.mine, out |-> Clipped(eval.ver)])
    /\ eval' = [eval EXCEPT !.pc = "attach"]
    /\ UNCHANGED <<results, cur, nruns, elsewhere, meta, harness, saved, worker, verdict, session, same, mixed, again>>

(* With mode "fresh" it is executed in another session, restored from a     *)
(* snapshot, whose note goes to the current run.                           *)
VerifyFresh(o) ==
    /\ eval.pc = "verify" /\ alive /\ Executed < MaxExec /\ Target <= MaxRuns
    /\ elsewhere' = elsewhere + 1
    /\ cur' = Target /\ nruns' = IF cur = 0 THEN nruns + 1 ELSE nruns
    /\ eval' = [eval EXCEPT !.pc = "attach", !.ver = o]
    /\ UNCHANGED <<results, file, meta, harness, saved, worker, verdict, session, same, mixed, again>>

(* The command, the snapshot or the fresh session cannot be had.            *)
VerifyFails ==
    /\ eval.pc = "verify" /\ eval' = NoEval
    /\ UNCHANGED <<record, meta, harness, saved, worker, verdict, session, same, mixed, again>>

VerifiedRun == eval.run

Attach ==
    /\ eval.pc = "attach" /\ harness' = [harness EXCEPT ![VerifiedRun] = eval.ver]
    /\ same' = (same /\ verdict.run # VerifiedRun) /\ eval' = [eval EXCEPT !.pc = "grade"]
    /\ UNCHANGED <<record, meta, saved, worker, verdict, session, mixed, again>>

(* The results in memory, or those of the recording if there are none.     *)
Grade ==
    /\ eval.pc = "grade"
    /\ LET rs == IF results[eval.run] # <<>> THEN results[eval.run] ELSE EventsOf(eval.run)
       IN  \E there \in Listings(eval.criteria), opinion \in Opinions(eval.criteria) :
              verdict' = Report(eval.run, eval.criteria, eval.ver, meta[eval.run], rs, there, opinion)
    /\ same' = (harness[eval.run] = eval.ver) /\ eval' = [eval EXCEPT !.pc = "save"]
    /\ UNCHANGED <<record, meta, harness, saved, worker, session, mixed, again>>

Save ==
    /\ eval.pc = "save" /\ saved' = Persisted
    /\ verdict' = [verdict EXCEPT !.saved = TRUE] /\ eval' = NoEval
    /\ UNCHANGED <<record, meta, harness, worker, session, same, mixed, again>>

-----------------------------------------------------------------------------
(* The end of the session, and its recording *)

(* close() beside an evaluation or an execution is left out.                *)
Quiet == eval.pc = "idle" /\ \A w \in Worker : worker[w].pc = "idle"

Close ==
    /\ alive /\ Quiet /\ alive' = FALSE /\ closed' = TRUE /\ saved' = Persisted
    /\ UNCHANGED <<record, meta, harness, worker, eval, verdict, opened, same, mixed, again>>

(* An event that was not written yet is lost with the process.             *)
Crash ==
    /\ alive /\ alive' = FALSE
    /\ same' = (same /\ \A w \in Worker : worker[w].pc = "ran" => worker[w].run # verdict.run)
    /\ worker' = [w \in Worker |-> Idle] /\ eval' = NoEval
    /\ UNCHANGED <<record, meta, harness, saved, verdict, closed, opened, mixed, again>>

(* POST /v1/recorded: session.json and the events are read.  Nobody asks    *)
(* whether the session is still alive; bound: while it is, only when the    *)
(* first verification is about to be attached.                             *)
OpenRecorded ==
    /\ ~opened.made /\ IF alive THEN ~verdict.made /\ eval.pc = "attach" ELSE verdict.made
    /\ opened' = [made |-> TRUE, late |-> ~alive, saved |-> saved]
    /\ UNCHANGED <<record, meta, harness, saved, worker, eval, verdict, alive, closed, same, mixed, again>>

(* What was opened is graded, by the criteria of the live session, and      *)
(* saved.  There is no sandbox: nothing is executed, and the harness's      *)
(* verification is the one that had been saved.  What is graded of a        *)
(* session that is still alive does not matter here.                       *)
EvaluateRecorded ==
    /\ opened.made /\ ~again.made /\ saved' = opened.saved
    /\ IF ~opened.late THEN again' = Ungraded
       ELSE \E there \in Listings(verdict.criteria), opinion \in Opinions(verdict.criteria) :
                again' = Report(verdict.run, verdict.criteria, opened.saved.harness[verdict.run],
                                opened.saved.meta[verdict.run], EventsOf(verdict.run), there, opinion)
    /\ UNCHANGED <<record, meta, harness, worker, eval, verdict, session, same, mixed>>

Next ==
    \/ \E w \in Worker :
          \/ WriteEvent(w) \/ SetPytest(w)
          \/ \E o \in Outcome, pytest \in BOOLEAN : Execute(w, o, pytest)
    \/ \E criteria \in Criteria, run \in Run : Evaluate(criteria, run)
    \/ \E o \in Outcome : Verify(o) \/ VerifyFresh(o)
    \/ VerifyFails \/ EndRun \/ WriteVerification \/ Attach \/ Grade \/ Save
    \/ Close \/ Crash \/ OpenRecorded \/ EvaluateRecorded

Spec == Init /\ [][Next]_vars

-----------------------------------------------------------------------------
(* "the pytest rule looks only at the harness's run result" (session.py     *)
(* 501) whenever that counted a test: what the agent executes, and when,    *)
(* makes no difference.                                                    *)
HarnessDecides ==
    verdict.made /\ Counted(verdict.ver.tests) => (verdict.pytest <=> verdict.ver.tests = "pass")

(* ... "(ignores agent output)": once the harness has verified, nothing but *)
(* its own tests passes the pytest rule.                                    *)
HarnessAlone ==
    verdict.made /\ verdict.ver # Absent /\ verdict.pytest => verdict.ver.tests = "pass"

(* "post-hoc grading" (api.py 297): the recording of a session that is over *)
(* gives the verdict that the live session gave, a crash notwithstanding,   *)
(* if nothing was executed under the run since and no two executions were   *)
(* recorded at once, no output was too long for the recording, the file     *)
(* that is asked for is in both lists or in neither, and the judge has not  *)
(* changed its mind.                                                       *)
SameWhenReopened ==
    /\ again.made /\ opened.late /\ verdict.saved /\ same /\ ~mixed /\ ~verdict.long
    /\ again.there = verdict.there /\ again.opinion = verdict.opinion
    => again.passed = verdict.passed

(* What close() saved is what stays, unless the recording had been opened   *)
(* while the session was still alive: its grading saves the older state.    *)
ClosedStays == closed => saved = Persisted \/ (again.made /\ ~opened.late)
=============================================================================
