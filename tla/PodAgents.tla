----------------------------- MODULE PodAgents -----------------------------
(***************************************************************************)
(* What runs beside /exec in the Pods: the other handlers of the workload  *)
(* agent (ProcessTable, Workspace) and the agent of the Android host       *)
(* (GradleBuild, DeviceScreen).  No property is about state that two of    *)
(* them, or one of them and /exec, share: it is enough to look at one at   *)
(* a time, and focus says at which.                                        *)
(***************************************************************************)
EXTENDS WorkloadAgent

CONSTANTS Name, Stopper, Reader, MaxProc, MaxOutput,
          Source, Dest, WorkDir, File, Sync, MaxEdits,
          Build, NoBuild, MaxAge, MaxTimeout, MaxDocker, MaxTime,
          Viewer, MaxScreen, MaxRec

VARIABLES focus,
          procs, nameOf, started, leader, rest, log, wrote, stopper, reader,
          bucket, tree, edits, archive, disk, sync, temp, wanted, disturbed, touched,
          backend, now, build, dir, mtime, apk, gate, shell, children, good, deadline, waited, installed,
          screen, dumped, ui, recs, reg, alive, began, mp4, late, stop

Procs == INSTANCE ProcessTable
Files == INSTANCE Workspace
Gradle == INSTANCE GradleBuild
Device == INSTANCE DeviceScreen

ASSUME PodAgentsAssumption ==
    Procs!ProcessAssumption /\ Files!WorkspaceAssumption /\ Gradle!GradleAssumption /\ Device!ScreenAssumption

procsVars == <<procs, nameOf, started, leader, rest, log, wrote, stopper, reader>>
filesVars == <<bucket, tree, edits, archive, disk, sync, temp, wanted, disturbed, touched>>
gradleVars == <<backend, now, build, dir, mtime, apk, gate, shell, children, good, deadline, waited, installed>>
deviceVars == <<screen, dumped, ui, recs, reg, alive, began, mp4, late, stop>>

Parts == {"exec", "procs", "files", "gradle", "screen", "device"}

(* A part that is not looked at has one initial state. *)
PInit ==
    /\ focus \in Parts
    /\ Init /\ Procs!Init /\ Files!Init /\ Gradle!Init /\ Device!Init
    /\ focus # "files" => bucket
    /\ focus # "gradle" => backend = "docker"

PNext ==
    /\ UNCHANGED focus
    /\ \/ focus = "exec" /\ Next /\ UNCHANGED <<procsVars, filesVars, gradleVars, deviceVars>>
       \/ focus = "procs" /\ Procs!Next /\ UNCHANGED <<vars, filesVars, gradleVars, deviceVars>>
       \/ focus = "files" /\ Files!Next /\ UNCHANGED <<vars, procsVars, gradleVars, deviceVars>>
       \/ focus = "gradle" /\ Gradle!Next /\ UNCHANGED <<vars, procsVars, filesVars, deviceVars>>
       \/ focus = "screen" /\ Device!UiNext /\ UNCHANGED <<vars, procsVars, filesVars, gradleVars>>
       \/ focus = "device" /\ Device!RecNext /\ UNCHANGED <<vars, procsVars, filesVars, gradleVars>>

PVars == <<focus, vars, procsVars, filesVars, gradleVars, deviceVars>>

PSpec == PInit /\ [][PNext]_PVars /\ Fairness /\ Procs!Fairness

-----------------------------------------------------------------------------
TypesOK ==
    /\ focus \in Parts
    /\ TypeOK /\ Procs!TypeOK /\ Files!TypeOK /\ Gradle!TypeOK /\ Device!TypeOK

(* /start, /stop and /logs: a name never has two live shells; a /stop that  *)
(* answers leaves the shell it looked up dead; and a log that says a shell  *)
(* is over lacks nothing of what it wrote but what its limit cut off.      *)
NamedProcesses == Procs!OneShellPerName /\ Procs!StoppedIsOver /\ Procs!FinalLogIsWhole

(* A /stop ends, whatever is started under the name meanwhile.              *)
StopAnswers == Procs!StopAnswers

(* The workspace that a sync or a fetch has brought into the Pod is the one *)
(* of the sandbox, unless another call wrote the same place; an archive     *)
(* that is refused has written nothing.                                    *)
SyncExact == Files!SyncExact /\ Files!RefusedWritesNothing

(* One Gradle at a time in a Pod, and no build loses its directory to the   *)
(* pruning of another while its Gradle runs, but in its last moments.       *)
BuildsApart == Gradle!OneGradle /\ Gradle!PruneSparesRunning

(* Requests to the device that overlap share files on it, and still get     *)
(* what they asked for, but a recording that never began is not told from  *)
(* the one before it.                                                      *)
ScreenOwn == Device!UiFresh /\ Device!OverlapOnlyWhileStopping /\ Device!StopReturnsOwn
=============================================================================
