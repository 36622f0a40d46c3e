------------------------------ MODULE Recorder ------------------------------
(***************************************************************************)
(* The event file of one session (src/cwe/recorder.py) and the processes   *)
(* that write it: each opens the session with a Recorder of its own        *)
(* (SessionManager.create and attach), serves calls in which several       *)
(* threads record, and keeps the opened session for the calls that come    *)
(* back to it.  A call is let in with the session's lease; when the lease   *)
(* is lost the call goes on, and records on, beside those of the process    *)
(* that is served next: only an execution is asked for the lease, and that  *)
(* before its number is drawn.                                             *)
(* The store is a directory or a bucket.  A bucket has no append: the file *)
(* is written again from the copy that the process keeps in memory.        *)
(***************************************************************************)
EXTENDS Integers, Sequences, FiniteSets

CONSTANTS
    Proc,       \* processes a call of the session may reach
    Nobody,
    Thread,     \* threads of a call that record
    MaxEvents,  \* bound: events recorded
    MaxOpened   \* bound: times a process opens the session

RecorderAssumption ==
    Nobody \notin Proc /\ MaxEvents \in Nat /\ MaxOpened \in Nat

VARIABLES
    store,      \* "local" or "s3"
    file,       \* events.jsonl
    cache,      \* _S3Store._cache of each process, <<>> for none
    seq,        \* Recorder._seq of each process that has the session open
    live,       \* processes that have the session in _sessions
    closed,     \* the session was closed and its registry record deleted
    calls,      \* processes in a call of the session
    serving,    \* the process whose call holds the lease
    last,       \* history: the process that was let in last
    pend,       \* the event that each thread has numbered and not appended, and in which process
    drawn,      \* history: events numbered
    opened,     \* history: times a process opened the session
    opening,    \* history: which of them is each process' own
    acked,      \* history: events whose recording returned
    stale       \* history: a process recorded, or came to serve again, with an old copy
vars == <<store, file, cache, seq, live, closed, calls, serving, last, pend, drawn, opened,
          opening, acked, stale>>

Event == [id : 1..MaxEvents, seq : 1..MaxEvents, opening : Nat]
Pending == [event : Event, by : Proc]
None == [by |-> Nobody]
Members(s) == {s[i] : i \in DOMAIN s}

TypeOK ==
    /\ store \in {"local", "s3"} /\ file \in Seq(Event)
    /\ \A p \in Proc : cache[p] \in Seq(Event)
    /\ seq \in [Proc -> Nat] /\ opening \in [Proc -> Nat]
    /\ live \subseteq Proc /\ calls \subseteq Proc
    /\ serving \in Proc \cup {Nobody} /\ last \in Proc \cup {Nobody}
    /\ pend \in [Thread -> Pending \cup {None}] /\ acked \subseteq Event
    /\ drawn \in 0..MaxEvents /\ opened \in 0..MaxOpened /\ closed \in BOOLEAN /\ stale \in BOOLEAN

Init ==
    /\ store \in {"local", "s3"} /\ file = <<>> /\ cache = [p \in Proc |-> <<>>]
    /\ seq = [p \in Proc |-> 0] /\ live = {} /\ closed = FALSE /\ calls = {} /\ serving = Nobody /\ last = Nobody
    /\ pend = [t \in Thread |-> None] /\ drawn = 0 /\ opened = 0
    /\ opening = [p \in Proc |-> 0] /\ acked = {} /\ stale = FALSE

(* A call reaches p and gets the lease.  A session p still holds is used as *)
(* it is; otherwise it is created or attached, and the lines of the file    *)
(* are counted.                                                            *)
Serve(p) ==
    /\ serving = Nobody /\ ~closed /\ p \notin calls /\ (p \in live \/ opened < MaxOpened)
    /\ serving' = p /\ last' = p /\ calls' = calls \cup {p} /\ live' = live \cup {p}
    /\ stale' = (stale \/ (last \notin {p, Nobody} /\ (p \in live \/ cache[p] # <<>>)))
    /\ IF p \in live
          THEN UNCHANGED <<seq, opened, opening>>
          ELSE /\ seq' = [seq EXCEPT ![p] = Len(file)]
               /\ opened' = opened + 1 /\ opening' = [opening EXCEPT ![p] = opened + 1]
    /\ UNCHANGED <<store, file, cache, closed, pend, drawn, acked>>

(* The lease runs out under its call, and may be taken by another.          *)
LoseLease ==
    /\ serving # Nobody /\ serving' = Nobody
    /\ UNCHANGED <<store, file, cache, seq, live, closed, calls, last, pend, drawn, opened, opening,
                   acked, stale>>

(* record_exec and record: the number is drawn under the Recorder's lock    *)
Draw(t, p) ==
    /\ p \in calls /\ pend[t] = None /\ drawn < MaxEvents
    /\ seq' = [seq EXCEPT ![p] = @ + 1]
    /\ drawn' = drawn + 1
    /\ pend' = [pend EXCEPT ![t] =
           [event |-> [id |-> drawn + 1, seq |-> seq'[p], opening |-> opening[p]], by |-> p]]
    /\ UNCHANGED <<store, file, cache, live, closed, calls, serving, last, opened, opening, acked, stale>>

(* Mutant: a process that has no copy does not read the file first.         *)
LinesOfCopy(p) == cache[p]

(* What the process takes for the file's lines: its copy, once it has one.  *)
Lines(p) == IF cache[p] = <<>> THEN file ELSE cache[p]

AppendLocal(e) == file' = Append(file, e) /\ UNCHANGED cache

AppendS3(e, p, written) ==
    LET lines == Append(Lines(p), e)
    IN  /\ cache' = [cache EXCEPT ![p] = lines]
        /\ file' = IF written THEN lines ELSE file

(* append_line of the store, outside that lock.  A put_object that fails    *)
(* raises, and its line stays in the copy.                                 *)
AppendLine(t, written) ==
    /\ pend[t] # None
    /\ LET e == pend[t].event
           p == pend[t].by
       IN  /\ IF store = "s3" THEN AppendS3(e, p, written) ELSE written /\ AppendLocal(e)
           /\ acked' = IF written THEN acked \cup {e} ELSE acked
           /\ stale' = (stale \/ p # last)
    /\ pend' = [pend EXCEPT ![t] = None]
    /\ UNCHANGED <<store, seq, live, closed, calls, serving, last, drawn, opened, opening>>

(* The call is over and its lease released, if it has it still.             *)
Leave(p) ==
    /\ p \in calls /\ \A t \in Thread : pend[t].by # p
    /\ calls' = calls \ {p} /\ serving' = IF serving = p THEN Nobody ELSE serving
    /\ UNCHANGED <<store, file, cache, seq, live, closed, last, pend, drawn, opened, opening, acked,
                   stale>>

(* SessionManager.detach: the session is let go, the copy is not.           *)
Detach(p) ==
    /\ p \in live \ calls /\ live' = live \ {p}
    /\ UNCHANGED <<store, file, cache, seq, closed, calls, serving, last, pend, drawn, opened, opening,
                   acked, stale>>

Evict(p) == cache' = [cache EXCEPT ![p] = <<>>]

(* SessionManager.close and, with the lease, the delete of the registry     *)
(* record: no call reaches this session again, threads of those that are in *)
(* progress may be recording still.                                        *)
Close(p) ==
    /\ p \in live \cap calls
    /\ live' = live \ {p} /\ closed' = (closed \/ p = serving) /\ Evict(p)
    /\ UNCHANGED <<store, file, seq, calls, serving, last, pend, drawn, opened, opening, acked, stale>>

Crash(p) ==
    /\ p \in live \cup calls
    /\ live' = live \ {p} /\ calls' = calls \ {p} /\ Evict(p)
    /\ serving' = IF serving = p THEN Nobody ELSE serving
    /\ pend' = [t \in Thread |-> IF pend[t].by = p THEN None ELSE pend[t]]
    /\ UNCHANGED <<store, file, seq, closed, last, drawn, opened, opening, acked, stale>>

Next ==
    \/ \E p \in Proc :
          Serve(p) \/ Leave(p) \/ Close(p) \/ Detach(p) \/ Crash(p) \/ \E t \in Thread : Draw(t, p)
    \/ \E t \in Thread, written \in BOOLEAN : AppendLine(t, written)
    \/ LoseLease

Spec == Init /\ [][Next]_vars

-----------------------------------------------------------------------------
(* "Every call is recorded" (docs/architecture.md 46): an event whose       *)
(* recording returned stays in the file.                                   *)
Kept == acked \subseteq Members(file)

(* What breaks it is only the copy of a bucket's file that is old: in a      *)
(* process that serves the session again after another one, or that records *)
(* in a call whose lease another one has been let in with.  A directory     *)
(* never loses an event.                                                   *)
KeptUnlessStale == Kept \/ (stale /\ store = "s3")

(* The numbers of one opening of the session are given once, whatever its   *)
(* threads do (recorder.py 174-176).                                       *)
NumberedOnce ==
    \A i, j \in DOMAIN file :
        i # j /\ file[i].opening = file[j].opening => file[i].seq # file[j].seq
=============================================================================
