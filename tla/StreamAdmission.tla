-------------------------- MODULE StreamAdmission --------------------------
(***************************************************************************)
(* What the stream limiter promises (backend/internal/pkg/streamgate): a   *)
(* connection is admitted only while every scope it counts in, its user,   *)
(* tenant, IP and the whole system, has room.  It is what the in-memory    *)
(* store does under its mutex, and what the Redis store, which goes from   *)
(* scope to scope, is shown to implement (StreamGate).                     *)
(***************************************************************************)
EXTENDS Naturals, FiniteSets

CONSTANTS
    Conns,      \* connection IDs
    Scopes,     \* the keys connections are counted under
    KeysOf,     \* the four keys of each connection, in the order of the code
    Limit       \* the limit of each scope; 0 is no limit

VARIABLE live   \* admitted connections whose lease has neither ended nor expired

CountsIn(k) == {c \in Conns : \E i \in DOMAIN KeysOf[c] : KeysOf[c][i] = k}

HasRoom(k, members) == Limit[k] > 0 => Cardinality(members \cap CountsIn(k)) < Limit[k]

AdmissionInit == live = {}

\* memoryStore.acquire, after prune.
Acquire(c) ==
    /\ c \notin live
    /\ \A i \in DOMAIN KeysOf[c] : HasRoom(KeysOf[c][i], live)
    /\ live' = live \cup {c}

\* memoryStore.release, or the lease's end (memoryStore.prune).
Leave(c) == c \in live /\ live' = live \ {c}

AdmissionNext == \E c \in Conns : Acquire(c) \/ Leave(c)

AdmissionSpec == AdmissionInit /\ [][AdmissionNext]_live
=============================================================================
