----------------------------- MODULE Serialized -----------------------------
(***************************************************************************)
(* _serialized(rid) of src/cwe/runtime_app.py: the calls of one runtime    *)
(* session, each on a thread, take a lock that is in the map only while    *)
(* somebody uses it.  The map is guarded by _locks_guard, so each of its   *)
(* two critical sections is one step; a call that comes when the entry has *)
(* gone makes another lock.                                                *)
(***************************************************************************)
EXTENDS Naturals, FiniteSets

CONSTANTS
    Caller,     \* threads
    Lock,       \* the locks made: each is new
    NoLock      \* there is no entry

SerializedAssumption == NoLock \notin Lock

VARIABLES
    entry,      \* _session_locks[rid]: the lock, how many use it
    fresh,      \* locks not made yet
    caller      \* each thread: where it is, the entry it holds on to
vars == <<entry, fresh, caller>>

NoEntry == [lock |-> NoLock, users |-> 0]
Outside == [at |-> "outside", lock |-> NoLock]

TypeOK ==
    /\ entry \in [lock : Lock \cup {NoLock}, users : 0..Cardinality(Caller)]
    /\ fresh \subseteq Lock
    /\ caller \in [Caller -> [at : {"outside", "waits", "inside", "leaves"}, lock : Lock \cup {NoLock}]]

Init == entry = NoEntry /\ fresh = Lock /\ caller = [c \in Caller |-> Outside]

Goes(c, place) == caller' = [caller EXCEPT ![c].at = place]

(* setdefault, and one more user.                                           *)
Register(c, l) ==
    /\ caller[c] = Outside
    /\ IF entry.lock = NoLock THEN l \in fresh ELSE l = entry.lock
    /\ fresh' = fresh \ {l} /\ entry' = [lock |-> l, users |-> entry.users + 1]
    /\ caller' = [caller EXCEPT ![c] = [at |-> "waits", lock |-> l]]

Held(l) == \E c \in Caller : caller[c].at = "inside" /\ caller[c].lock = l

Enter(c) ==
    /\ caller[c].at = "waits" /\ ~Held(caller[c].lock) /\ Goes(c, "inside")
    /\ UNCHANGED <<entry, fresh>>

Exit(c) ==
    /\ caller[c].at = "inside" /\ Goes(c, "leaves") /\ UNCHANGED <<entry, fresh>>

(* Mutant: the entry goes with any of its users.                            *)
LeftAtOnce(users) == [NoEntry EXCEPT !.users = 0 * users]

(* The entry goes with its last user.                                       *)
Left(users) == IF users = 0 THEN NoEntry ELSE [entry EXCEPT !.users = users]

Unregister(c) ==
    /\ caller[c].at = "leaves" /\ entry' = Left(entry.users - 1)
    /\ caller' = [caller EXCEPT ![c] = Outside]
    /\ UNCHANGED fresh

Next == \E c \in Caller : Enter(c) \/ Exit(c) \/ Unregister(c) \/ \E l \in Lock : Register(c, l)

Spec == Init /\ [][Next]_vars

-----------------------------------------------------------------------------
(* "Serialize every call for one runtime session inside this process"       *)
(* (runtime_app.py 55): no two threads are inside, whatever locks have come *)
(* and gone; a thread that waits for a lock the map no longer has would be  *)
(* let in beside one that took its successor.                              *)
OneInside == \A c, d \in Caller : caller[c].at = "inside" /\ caller[d].at = "inside" => c = d
=============================================================================
