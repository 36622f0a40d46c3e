---------------------------- MODULE SessionWork ----------------------------
(***************************************************************************)
(* What is done in a session, beside what it holds (SessionHosts): runs,   *)
(* budgets and the start and end of the workload (DevSession), the agent's *)
(* tool calls (AgentRun), the recording (Recorder), the grading of a run   *)
(* (Evaluation) and the skills that are drawn from it (Skills).  Each of   *)
(* these modules has the threads it is about and the state they share as   *)
(* variables of its own; where it is the same state, as the current run of *)
(* DevSession and AgentRun, each has what the others do to it as steps of  *)
(* its own.  So one is looked at at a time: focus says which.              *)
(***************************************************************************)
EXTENDS SessionHosts

CONSTANTS Starter, NoOne, Tool, MaxExec, MaxRuns, MaxSystem,
          Call, User, System, Price, MaxCost, MaxTurns, MaxUser,
          Server, Nobody, Thread, MaxEvents, MaxOpened,
          Worker, Drafter, Approver

VARIABLES runs, cur, ready, workload, closing, starter, owns, lock, podOf, early, task, tool, serial, refused,
          phase, spent, unread, seen, meter, over, author, runNow, held, toolCall, shot, covered, users,
          lapped, denied, dropped, outcome,
          store, file, copy, seq, live, closed, inCall, serving, last, pend, drawn, opened, opening, acked,
          stale,
          results, events, graded, nruns, elsewhere, meta, harness, saved, worker, eval, verdict, alive,
          gone, reread, same, mixed, again,
          skill, put, approved, given, blended, carried

(* What an execution may come to, and what a caller may ask to be graded by. *)
Outcomes ==
    {[exit |-> 0, tests |-> "pass", says |-> FALSE, long |-> FALSE],
     [exit |-> 1, tests |-> "fail", says |-> TRUE, long |-> FALSE],
     [exit |-> 1, tests |-> "error", says |-> TRUE, long |-> TRUE]}
Check(type, weight) == [type |-> type, weight |-> weight]
Criterias ==
    {[checks |-> {Check("pytest", 2), Check("no_errors", 1), Check("file_exists", 1)}, threshold |-> 70,
      verify |-> TRUE, judge |-> FALSE],
     [checks |-> {Check("exit_code", 2), Check("stdout_contains", 1), Check("harness_verification", 1),
                  Check("stdout_not_contains", 1)}, threshold |-> 50, verify |-> FALSE,
      judge |-> TRUE]}

Runs == INSTANCE DevSession WITH status <- ready, host <- workload, closer <- closing, pod <- podOf
Agent == INSTANCE AgentRun WITH owner <- author, cur <- runNow, lock <- held, call <- toolCall,
                                status <- outcome, MaxRuns <- 2, MaxOther <- 1
Recording == INSTANCE Recorder WITH Proc <- Server, cache <- copy, calls <- inCall
Grading == INSTANCE Evaluation WITH Outcome <- Outcomes, Criteria <- Criterias, MaxRuns <- 2,
                                    file <- events, cur <- graded,
                                    closed <- gone, opened <- reread
Known == INSTANCE Skills

ASSUME SessionWorkAssumption ==
    /\ Runs!SessionAssumption /\ Agent!RunAssumption /\ Recording!RecorderAssumption
    /\ Grading!EvaluationAssumption /\ Known!SkillsAssumption

runVars == <<runs, cur, ready, workload, closing, starter, owns, lock, podOf, early, task, tool, serial, refused>>
agentVars == <<phase, spent, unread, seen, meter, over, author, runNow, held, toolCall, shot, covered,
               users, lapped, denied, dropped, outcome>>
recorderVars == <<store, file, copy, seq, live, closed, inCall, serving, last, pend, drawn, opened, opening,
                  acked, stale>>
gradingVars == <<results, events, graded, nruns, elsewhere, meta, harness, saved, worker, eval, verdict,
                 alive, gone, reread, same, mixed, again>>
skillVars == <<skill, put, approved, given, blended, carried>>

workVars == <<runVars, agentVars, recorderVars, gradingVars, skillVars>>

Parts == {"runtime", "sandboxes", "jobs", "instances", "locks",
          "runs", "agent", "recording", "grading", "skills"}

(* A part that is not looked at has one initial state. *)
WInit ==
    /\ focus \in Parts /\ HInit
    /\ Runs!Init /\ Agent!Init /\ Recording!Init /\ Grading!Init /\ Known!Init
    /\ focus # "recording" => store = "local"

Work ==
    \/ focus = "runs" /\ Runs!Next /\ UNCHANGED <<agentVars, recorderVars, gradingVars, skillVars>>
    \/ focus = "agent" /\ Agent!Next /\ UNCHANGED <<runVars, recorderVars, gradingVars, skillVars>>
    \/ focus = "recording" /\ Recording!Next /\ UNCHANGED <<runVars, agentVars, gradingVars, skillVars>>
    \/ focus = "grading" /\ Grading!Next /\ UNCHANGED <<runVars, agentVars, recorderVars, skillVars>>
    \/ focus = "skills" /\ Known!Next /\ UNCHANGED <<runVars, agentVars, recorderVars, gradingVars>>

WNext ==
    /\ UNCHANGED focus
    /\ \/ HNext /\ UNCHANGED workVars
       \/ Work /\ UNCHANGED <<vars, hostVars>>

WSpec == WInit /\ [][WNext]_<<focus, vars, hostVars, workVars>>

-----------------------------------------------------------------------------
(* The part that is looked at keeps its types; the others stay as they      *)
(* began, and that all keep theirs is proved (SessionReportsProofs).        *)
TypesOK ==
    /\ focus \in Parts
    /\ focus \in {"sandboxes", "jobs", "instances", "locks"} => HostsTypeOK
    /\ focus = "runs" => Runs!TypeOK
    /\ focus = "agent" => Agent!TypeOK
    /\ focus = "recording" => Recording!TypeOK
    /\ focus = "grading" => Grading!TypeOK
    /\ focus = "skills" => Known!TypeOK

(* A session has one Pod, and none once it is closed: one that comes up     *)
(* when close() is over is stopped by the call that started it.             *)
NotLeftBehind == Runs!OnePod /\ Runs!NotLeftBehind

(* However tool calls, the user and other runs interleave, what a run has   *)
(* beyond its budget are the harness's own executions, which do not ask for *)
(* it (session.py 150-162), and what was executed in vain is no more than   *)
(* the calls that were let through together.                               *)
BudgetHeld == Runs!BudgetHeld /\ Runs!OverrunBounded

(* What the agent is told: the reference in an answer is of its own         *)
(* execution, unless another was recorded or the current run changed since, *)
(* the meter counts a response once, no artifact is written over another    *)
(* while no call is dropped by the harness, and a run that was cut short is *)
(* not called a success.                                                   *)
AgentToldTrue == Agent!RefOwn /\ Agent!MeterExact /\ Agent!ShotsKept /\ Agent!TellsOfBudget

(* What was recorded stays, unless a process records from an old copy of    *)
(* the bucket's file: one that serves the session again after another, or   *)
(* whose call has outlived its lease; and no two events of one opening have *)
(* one number.                                                             *)
EventsKept == Recording!KeptUnlessStale /\ Recording!NumberedOnce

(* The harness's own tests decide whenever they counted anything, the       *)
(* recording gives the verdict that the session gave, where it has all that *)
(* the verdict was made from, and grading it does not set back what close() *)
(* saved.                                                                  *)
VerdictStands == Grading!HarnessDecides /\ Grading!SameWhenReopened /\ Grading!ClosedStays

(* "the pytest rule looks only at the harness's run result (ignores agent   *)
(* output)" (session.py 501): once the harness has verified, nothing but    *)
(* its own tests passes the rule.                                          *)
HarnessAlone == Grading!HarnessAlone

(* Agents load only what somebody has approved, but for texts that were     *)
(* written over each other and drafts that carry a status.                 *)
AgentReadsApproved == Known!AgentReadsApproved
=============================================================================
