----------------------------- MODULE Workspace -----------------------------
(***************************************************************************)
(* How the files of the sandbox reach the workload Pod.                    *)
(* sync_workspace_to_workload (src/cwe/session.py) makes an archive of a   *)
(* directory of the sandbox, reads it back, stores it and has the agent of *)
(* the Pod (src/cwe/workload_agent.py) fetch and unpack it.  Requests      *)
(* overlap: the REST API serves each on a thread of its own, and all make  *)
(* their archive at the same path of the sandbox.                          *)
(* What a directory holds is the version of each file, 0 for no file.      *)
(***************************************************************************)
EXTENDS Integers, FiniteSets

CONSTANTS
    Source,     \* directories of the sandbox that are synced
    Dest,       \* directories of the Pod's workspace
    WorkDir,    \* the one that is the workspace itself (WORK)
    File,
    Sync,       \* calls of sync_workspace_to_workload
    MaxEdits    \* bound: versions of files, made in the sandbox or by others in the Pod

WorkspaceAssumption == WorkDir \in Dest /\ MaxEdits \in Nat \ {0}

VARIABLES
    bucket,     \* the recordings store is S3, so that a URL can be presigned
    tree,       \* the directories of the sandbox
    edits,      \* versions so far
    archive,    \* .cwe/snapshot.tar.gz of the sandbox
    disk,       \* the directories of the Pod
    sync,       \* each call
    temp,       \* calls whose temporary archive is on the Pod's disk
    wanted,     \* history: the directory each call made its archive of
    disturbed,  \* history: calls whose archive or destination another one touched
    touched     \* history: calls that have written a file
pod == <<disk, temp, touched>>
vars == <<bucket, tree, edits, archive, disk, sync, temp, wanted, disturbed, touched>>

Tree == [File -> 0..MaxEdits]
Empty == [f \in File |-> 0]
Idle == [pc |-> "idle", dst |-> WorkDir, clean |-> FALSE, bad |-> FALSE, snap |-> Empty, left |-> {}]

TypeOK ==
    /\ bucket \in BOOLEAN /\ tree \in [Source -> Tree] /\ edits \in 1..MaxEdits
    /\ archive \in Tree /\ disk \in [Dest -> Tree] /\ wanted \in [Sync -> Tree]
    /\ sync \in [Sync -> [pc : {"idle", "tarred", "clean", "fetch", "check", "extract", "done",
                                "failed", "refused"},
                          dst : Dest, clean : BOOLEAN, bad : BOOLEAN, snap : Tree, left : SUBSET File]]
    /\ temp \subseteq Sync /\ disturbed \subseteq Sync /\ touched \subseteq Sync

Init ==
    /\ bucket \in BOOLEAN /\ edits = 1 /\ archive = Empty
    /\ tree = [s \in Source |-> [f \in File |-> 1]] /\ disk = [d \in Dest |-> Empty]
    /\ sync = [r \in Sync |-> Idle] /\ wanted = [r \in Sync |-> Empty]
    /\ temp = {} /\ disturbed = {} /\ touched = {}

Goes(r, step) == sync' = [sync EXCEPT ![r].pc = step]
Fails(r, how) == sync' = [sync EXCEPT ![r] = [Idle EXCEPT !.pc = how]]

(* Another writer in the destination of a call that is past its clean, or   *)
(* is over.                                                                *)
Others(d) == {q \in Sync : sync[q].dst = d /\ sync[q].pc \in {"fetch", "check", "extract", "done"}}

-----------------------------------------------------------------------------
(* The sandbox *)

Edit(s, f) ==
    /\ edits < MaxEdits /\ edits' = edits + 1
    /\ tree' \in {[tree EXCEPT ![s][f] = edits'], [tree EXCEPT ![s][f] = 0]}
    /\ UNCHANGED <<bucket, archive, pod, sync, wanted, disturbed>>

(* take_snapshot, first call: tar.                                         *)
Tar(r, s) ==
    /\ sync[r].pc = "idle" /\ Goes(r, "tarred")
    /\ archive' = tree[s] /\ wanted' = [wanted EXCEPT ![r] = tree[s]]
    /\ disturbed' = disturbed \cup {q \in Sync : sync[q].pc = "tarred"}
    /\ UNCHANGED <<bucket, tree, edits, pod>>

(* A local store has no URL to give, and the call fails.                    *)
Presignable == bucket

(* Second call: the archive is read, stored and its URL presigned.          *)
ReadArchive(r) ==
    /\ sync[r].pc = "tarred"
    /\ IF Presignable THEN sync' = [sync EXCEPT ![r].snap = archive, ![r].pc = "clean"] ELSE Fails(r, "failed")
    /\ UNCHANGED <<bucket, tree, edits, archive, pod, wanted, disturbed>>

-----------------------------------------------------------------------------
(* fetch, in the Pod *)

(* The destination is emptied first, if so asked, but never the workspace   *)
(* itself.                                                                 *)
Cleans(d, clean) == clean /\ d # WorkDir

Clean(r, d, clean) ==
    /\ sync[r].pc = "clean"
    /\ sync' = [sync EXCEPT ![r].pc = "fetch", ![r].dst = d, ![r].clean = Cleans(d, clean)]
    /\ IF Cleans(d, clean)
          THEN disk' = [disk EXCEPT ![d] = Empty] /\ disturbed' = disturbed \cup Others(d)
          ELSE UNCHANGED <<disk, disturbed>>
    /\ UNCHANGED <<bucket, tree, edits, archive, temp, wanted, touched>>

(* _download: the URL has expired, the archive is too large or too slow.    *)
Download(r, ok) ==
    /\ sync[r].pc = "fetch"
    /\ IF ok THEN Goes(r, "check") ELSE Fails(r, "failed")
    /\ temp' = IF ok THEN temp \cup {r} ELSE temp
    /\ UNCHANGED <<bucket, tree, edits, archive, disk, wanted, disturbed, touched>>

(* Mutant: members are looked at one by one, as they are written.           *)
AcceptedUnread(bad) == bad \in BOOLEAN

Accepted(bad) == ~bad

(* _safe_extract looks at every member before it writes one: the archive is *)
(* bad if one is a link that leads out of the destination, or too large.    *)
Check(r, bad) ==
    /\ sync[r].pc = "check"
    /\ IF Accepted(bad)
          THEN /\ sync' = [sync EXCEPT ![r].pc = "extract", ![r].bad = bad,
                                       ![r].left = {f \in File : sync[r].snap[f] # 0}]
               /\ temp' = temp
          ELSE Fails(r, "refused") /\ temp' = temp \ {r}
    /\ UNCHANGED <<bucket, tree, edits, archive, disk, wanted, disturbed, touched>>

(* Then they are unpacked, in their order.                                 *)
Extract(r, f) ==
    /\ sync[r].pc = "extract" /\ f \in sync[r].left
    /\ disk' = [disk EXCEPT ![sync[r].dst][f] = sync[r].snap[f]]
    /\ sync' = [sync EXCEPT ![r].left = @ \ {f}]
    /\ touched' = touched \cup {r} /\ disturbed' = disturbed \cup (Others(sync[r].dst) \ {r})
    /\ UNCHANGED <<bucket, tree, edits, archive, temp, wanted>>

(* extractall refuses the member itself, or the disk is full.               *)
ExtractFails(r) ==
    /\ sync[r].pc = "extract" /\ sync[r].left # {}
    /\ Fails(r, IF sync[r].bad THEN "refused" ELSE "failed") /\ temp' = temp \ {r}
    /\ UNCHANGED <<bucket, tree, edits, archive, disk, wanted, disturbed, touched>>

Answer(r) ==
    /\ sync[r].pc = "extract" /\ sync[r].left = {}
    /\ Goes(r, "done") /\ temp' = temp \ {r}
    /\ UNCHANGED <<bucket, tree, edits, archive, disk, wanted, disturbed, touched>>

(* write_files: a path is checked when its turn comes, so those before a    *)
(* bad one are written.                                                    *)
WriteFiles(d, fs) ==
    /\ edits < MaxEdits /\ edits' = edits + 1
    /\ disk' = [disk EXCEPT ![d] = [f \in File |-> IF f \in fs THEN edits' ELSE @[f]]]
    /\ disturbed' = disturbed \cup Others(d)
    /\ UNCHANGED <<bucket, tree, archive, sync, temp, wanted, touched>>

Next ==
    \/ \E s \in Source, f \in File : Edit(s, f)
    \/ \E d \in Dest, fs \in (SUBSET File) \ {{}} : WriteFiles(d, fs)
    \/ \E r \in Sync :
          \/ \E s \in Source : Tar(r, s)
          \/ ReadArchive(r) \/ ExtractFails(r) \/ Answer(r)
          \/ \E d \in Dest, clean \in BOOLEAN : Clean(r, d, clean)
          \/ \E yes \in BOOLEAN : Download(r, yes) \/ Check(r, yes)
          \/ \E f \in File : Extract(r, f)

Spec == Init /\ [][Next]_vars

-----------------------------------------------------------------------------
(* What a call that has answered put into the Pod is the directory it was   *)
(* asked for, and nothing else is there if it was to be cleaned: whatever   *)
(* ran at the same time, unless it touched the very archive or destination.   *)
SyncExact ==
    \A r \in Sync \ disturbed : sync[r].pc = "done" =>
        /\ \A f \in File : wanted[r][f] # 0 => disk[sync[r].dst][f] = wanted[r][f]
        /\ sync[r].clean => disk[sync[r].dst] = wanted[r]

(* "Every member is checked against the destination before anything is      *)
(* written" (workload_agent.py 312), and no call leaves its archive behind. *)
RefusedWritesNothing ==
    \A r \in Sync : /\ sync[r].pc = "refused" => r \notin touched
                    /\ sync[r].pc \in {"done", "failed", "refused"} => r \notin temp
=============================================================================
