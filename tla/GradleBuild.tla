---------------------------- MODULE GradleBuild ----------------------------
(***************************************************************************)
(* Gradle builds on an Android host: /build and /install of the device     *)
(* agent (src/device_agent/app.py), which keeps a directory per build, and *)
(* the builder beside it (src/device_agent/builder.py), which runs one     *)
(* Gradle at a time.  On EC2 the agent runs a container per build instead. *)
(* Requests overlap.  Time is counted in hours.                            *)
(***************************************************************************)
EXTENDS Integers

CONSTANTS
    Build,      \* calls of /build, each with an id of its own
    NoBuild,
    MaxAge,     \* max_age of _prune_builds
    MaxTimeout, \* the longest timeout of the builder (MAX_SIDECAR_TIMEOUT)
    MaxDocker,  \* the longest timeout of /build itself
    MaxTime     \* bound: hours

GradleAssumption ==
    NoBuild \notin Build /\ {MaxAge, MaxTimeout, MaxDocker, MaxTime} \subseteq Nat

VARIABLES
    backend,    \* BUILD_BACKEND
    now,
    build,      \* progress of each call
    dir,        \* builds whose directory exists
    mtime,      \* when each directory was last written
    apk,        \* builds whose directory holds an APK
    gate,       \* the build that holds LOCK of the builder
    shell,      \* builds whose Gradle lives
    children,   \* builds of whose process group others live
    good,       \* builds whose Gradle has exited with 0
    deadline,   \* when each build is killed
    waited,     \* history: how old each directory was when its Gradle began
    installed   \* answered builds: what an install of their APK found
vars == <<backend, now, build, dir, mtime, apk, gate, shell, children, good, deadline, waited, installed>>
processes == <<gate, shell, children, good, deadline, waited>>

TypeOK ==
    /\ backend \in {"sidecar", "docker"} /\ now \in 0..MaxTime
    /\ build \in [Build -> {"idle", "prep", "fetched", "ask", "run", "killed", "report", "ok", "failed"}]
    /\ dir \subseteq Build /\ apk \subseteq dir /\ {shell, children, good} \subseteq SUBSET Build
    /\ {mtime, deadline, waited} \subseteq [Build -> 0..MaxTime]
    /\ gate \in Build \cup {NoBuild} /\ installed \in [Build -> {"untried", "yes", "gone"}]

Init ==
    /\ backend \in {"sidecar", "docker"} /\ now = 0 /\ build = [b \in Build |-> "idle"]
    /\ dir = {} /\ apk = {} /\ mtime = [b \in Build |-> 0]
    /\ gate = NoBuild /\ shell = {} /\ children = {} /\ good = {} /\ deadline = mtime /\ waited = mtime
    /\ installed = [b \in Build |-> "untried"]

Goes(b, step) == build' = [build EXCEPT ![b] = step]

-----------------------------------------------------------------------------
(* /build of the device agent *)

MakeDirs(b) ==
    /\ build[b] = "idle" /\ Goes(b, "prep")
    /\ dir' = dir \cup {b} /\ mtime' = [mtime EXCEPT ![b] = now]
    /\ UNCHANGED <<backend, now, apk, processes, installed>>

(* The download or the archive fails: the directory is removed.             *)
PrepFails(b) ==
    /\ build[b] \in {"prep", "fetched"} /\ Goes(b, "failed") /\ dir' = dir \ {b} /\ apk' = apk \ {b}
    /\ UNCHANGED <<backend, now, mtime, processes, installed>>

Download(b) ==
    /\ build[b] = "prep" /\ Goes(b, "fetched") /\ mtime' = [mtime EXCEPT ![b] = now]
    /\ UNCHANGED <<backend, now, dir, apk, processes, installed>>

(* _prune_builds: directories of others that are older than an hour.        *)
Stale(b, d) == d # b /\ now - mtime[d] > MaxAge

Unpack(b) ==
    /\ build[b] = "fetched" /\ Goes(b, "ask")
    /\ mtime' = [mtime EXCEPT ![b] = now]
    /\ dir' = {d \in dir : ~Stale(b, d)} /\ apk' = {d \in apk : ~Stale(b, d)}
    /\ UNCHANGED <<backend, now, processes, installed>>

(* The answer of the builder, or of the docker daemon, is an error: the     *)
(* directory stays.                                                        *)
RunnerFails(b) ==
    /\ build[b] = "ask" /\ Goes(b, "failed")
    /\ UNCHANGED <<backend, now, dir, mtime, apk, processes, installed>>

(* What Gradle left is listed: the build is ok if Gradle says so and there  *)
(* are APKs.                                                               *)
Report(b) ==
    /\ build[b] = "report" /\ Goes(b, IF b \in good \cap apk THEN "ok" ELSE "failed")
    /\ UNCHANGED <<backend, now, dir, mtime, apk, processes, installed>>

-----------------------------------------------------------------------------
(* Gradle *)

Begins(b, timeout) ==
    /\ build[b] = "ask" /\ b \in dir /\ now + timeout <= MaxTime /\ Goes(b, "run")
    /\ shell' = shell \cup {b} /\ children' = children \cup {b}
    /\ deadline' = [deadline EXCEPT ![b] = now + timeout] /\ waited' = [waited EXCEPT ![b] = now - mtime[b]]
    /\ UNCHANGED <<backend, now, dir, mtime, apk, good, installed>>

GradleWrites(b) ==
    /\ b \in shell /\ b \in dir /\ apk' = apk \cup {b}
    /\ UNCHANGED <<backend, now, build, dir, mtime, processes, installed>>

(* A container ends with its first process, a process group does not.       *)
GradleExits(b, ok) ==
    /\ b \in shell /\ shell' = shell \ {b} /\ good' = IF ok THEN good \cup {b} ELSE good
    /\ children' = IF backend = "docker" THEN children \ {b} ELSE children
    /\ UNCHANGED <<backend, now, build, dir, mtime, apk, gate, deadline, waited, installed>>

Over(b) == build[b] = "run" /\ (b \notin shell \/ now >= deadline[b])

Ends(b) ==
    /\ shell' = shell \ {b} /\ children' = children \ {b}
    /\ UNCHANGED <<backend, now, dir, mtime, apk, gate, good, deadline, waited, installed>>

(* Mutant: the lock is released when Gradle exits, before its group is killed *)
FreeOnceGradleExits == gate = NoBuild \/ gate \notin shell

-----------------------------------------------------------------------------
(* The builder: its lock is taken without waiting; who does not get it is   *)
(* told 409.                                                               *)
Free == gate = NoBuild

RunBuild(b, timeout) ==
    /\ backend = "sidecar" /\ Free /\ gate' = b
    /\ Begins(b, timeout)

(* Gradle is over or out of time, which is exit code 124 of an answer like  *)
(* others: its whole process group is killed, then the lock released.       *)
KillGroup(b) == backend = "sidecar" /\ Over(b) /\ Ends(b) /\ Goes(b, "killed")

Release(b) ==
    /\ build[b] = "killed" /\ gate' = NoBuild /\ Goes(b, "report")
    /\ UNCHANGED <<backend, now, dir, mtime, apk, shell, children, good, deadline, waited, installed>>

-----------------------------------------------------------------------------
(* docker_run: a container per build, as many as are asked for; one that is *)
(* out of time is an error.  It is removed in any case.                     *)
RunContainer(b, timeout) ==
    /\ backend = "docker" /\ gate' = gate
    /\ Begins(b, timeout)

RemoveContainer(b) ==
    /\ backend = "docker" /\ Over(b) /\ Ends(b)
    /\ Goes(b, IF b \in shell THEN "failed" ELSE "report")

-----------------------------------------------------------------------------
(* /install: the file is opened, copied and installed, or not found.        *)
Install(b) ==
    /\ build[b] = "ok" /\ installed[b] = "untried"
    /\ installed' = [installed EXCEPT ![b] = IF b \in apk THEN "yes" ELSE "gone"]
    /\ UNCHANGED <<backend, now, build, dir, mtime, apk, processes>>

(* No download takes an hour; to be handed to its runner may take a build   *)
(* from one hour into the next.                                            *)
Tick ==
    /\ now < MaxTime /\ now' = now + 1
    /\ \A b \in Build : build[b] \in {"idle", "ask", "run", "ok", "failed"}
    /\ \A b \in Build : build[b] = "run" => now < deadline[b]
    /\ UNCHANGED <<backend, build, dir, mtime, apk, processes, installed>>

Step(b) ==
    \/ MakeDirs(b) \/ PrepFails(b) \/ Download(b) \/ Unpack(b) \/ RunnerFails(b) \/ Report(b)
    \/ KillGroup(b) \/ Release(b) \/ RemoveContainer(b) \/ GradleWrites(b) \/ Install(b)
    \/ \E ok \in BOOLEAN : GradleExits(b, ok)
    \/ \E timeout \in 1..MaxTimeout : RunBuild(b, timeout)
    \/ \E timeout \in 1..MaxDocker : RunContainer(b, timeout)

Next == Tick \/ \E b \in Build : Step(b)

Spec == Init /\ [][Next]_vars

-----------------------------------------------------------------------------
(* In a Pod no two builds' processes live at once, those that a Gradle left *)
(* behind included: they share one cache and the memory of one container.   *)
OneGradle == backend = "sidecar" => \A b, c \in shell \cup children : b = c

(* A build loses its directory to the pruning of a later one, while its     *)
(* Gradle runs, only in the last of its time, for as long as it had waited  *)
(* for the builder; and an APK that an install does not find any more was   *)
(* older than MaxAge.  (With docker a build may outlive MaxAge.)            *)
PruneSparesRunning ==
    \A b \in Build :
        /\ backend = "sidecar" /\ b \in shell => b \in dir \/ now > deadline[b] - waited[b]
        /\ installed[b] = "gone" => now - mtime[b] > MaxAge
=============================================================================
