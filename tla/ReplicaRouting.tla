--------------------------- MODULE ReplicaRouting ---------------------------
(***************************************************************************)
(* One client of the dashboard that writes and reads through an API with a *)
(* PostgreSQL read replica.  A successful write answers with a cookie that *)
(* keeps the client's reads on the primary for TTL; afterwards an eventual *)
(* read goes to the replica while the lag monitor, which asks at most once *)
(* per CheckInterval, has seen a lag of at most MaxLag.                    *)
(*                                                                         *)
(* Time is discrete.  applied is the moment up to which the replica has    *)
(* replayed the primary: what was committed before it is visible.          *)
(***************************************************************************)
EXTENDS Integers

CONSTANTS
    Writes, Reads,
    TTL,            \* middleware/sticky_writer.go: 10 s
    MaxLag,         \* DB_READER_MAX_REPLICA_LAG: 2 s
    CheckInterval,  \* DB_READER_LAG_CHECK_INTERVAL: 5 s
    Delay,          \* the longest time an answer is under way
    MaxTime         \* bound of the clock

ASSUME RoutingAssumption ==
    /\ TTL \in Nat /\ Delay \in Nat /\ MaxTime \in Nat
    /\ MaxLag \in Nat \ {0} /\ CheckInterval \in Nat \ {0}
    /\ MaxLag + CheckInterval + Delay <= TTL

VARIABLES
    now, applied,
    checkedAt, healthy,   \* the lag monitor of the API instance
    cookie,               \* the client's cookie: primary until then
    write,                \* [Writes -> phase, time of its commit, its cookie]
    read                  \* [Reads -> phase, acknowledged writes, cookie, clock, result]

vars == <<now, applied, checkedAt, healthy, cookie, write, read>>

Init ==
    /\ now = 0 /\ applied = 0
    /\ checkedAt = -CheckInterval /\ healthy = TRUE
    /\ cookie = 0
    /\ write = [w \in Writes |-> [phase |-> "new", committed |-> 0, until |-> 0]]
    /\ read = [r \in Reads |-> [phase |-> "new", acked |-> {}, until |-> 0, at |-> 0, saw |-> {}]]

Commit(w) ==
    /\ write[w].phase = "new"
    /\ write' = [write EXCEPT ![w] = [@ EXCEPT !.phase = "committed", !.committed = now]]
    /\ UNCHANGED <<now, applied, checkedAt, healthy, cookie, read>>

\* The answer of a write that succeeded carries the cookie.  With any other status a
\* write stays committed here: there is no cookie and the client does not count on it.
refreshStickyWriter(w) ==
    /\ write[w].phase = "committed"
    /\ write' = [write EXCEPT ![w] = [@ EXCEPT !.phase = "answered", !.until = now + TTL]]
    /\ UNCHANGED <<now, applied, checkedAt, healthy, cookie, read>>

\* The client stores the cookie of the last answer to arrive, not of the last write.
Receive(w) ==
    /\ write[w].phase = "answered"
    /\ write' = [write EXCEPT ![w] = [@ EXCEPT !.phase = "acked", !.until = 0]]
    /\ cookie' = write[w].until
    /\ UNCHANGED <<now, applied, checkedAt, healthy, read>>

StartRead(r) ==
    /\ read[r].phase = "new"
    /\ read' = [read EXCEPT ![r] = [@ EXCEPT !.phase = "routing", !.until = cookie,
                                      !.acked = {w \in Writes : write[w].phase = "acked"}]]
    /\ UNCHANGED <<now, applied, checkedAt, healthy, cookie, write>>

\* Mutant of stickyWriterActive: the cookie is ignored.
CookieIgnored(r) == FALSE

stickyWriterActive(r) == read[r].until > now

\* Reader looks at the cookie, and only then at the lag; the monitor takes the
\* time before it waits for its lock.
Reader(r) ==
    /\ read[r].phase = "routing"
    /\ read' = [read EXCEPT ![r] = [@ EXCEPT !.at = now,
                                      !.phase = IF stickyWriterActive(r) THEN "writer" ELSE "checking"]]
    /\ UNCHANGED <<now, applied, checkedAt, healthy, cookie, write>>

Fresh(r) == read[r].at - checkedAt < CheckInterval

UseLastCheck(r) ==
    /\ read[r].phase = "checking" /\ Fresh(r)
    /\ read' = [read EXCEPT ![r].phase = IF healthy THEN "reader" ELSE "writer"]
    /\ UNCHANGED <<now, applied, checkedAt, healthy, cookie, write>>

CurrentReplicaLag == now - applied

\* The probe may also fail, which counts as unhealthy.
Measure(at) ==
    /\ healthy' \in BOOLEAN /\ (healthy' => CurrentReplicaLag <= MaxLag)
    /\ checkedAt' = at

Probe(r) ==
    /\ read[r].phase = "checking" /\ ~ Fresh(r)
    /\ Measure(read[r].at)
    /\ read' = [read EXCEPT ![r].phase = IF healthy' THEN "reader" ELSE "writer"]
    /\ UNCHANGED <<now, applied, cookie, write>>

\* The reads of other clients share the monitor.
OthersProbe ==
    /\ now - checkedAt >= CheckInterval
    /\ Measure(now)
    /\ UNCHANGED <<now, applied, cookie, write, read>>

Committed == {w \in Writes : write[w].phase # "new"}

Visible == {w \in Committed : write[w].committed < applied}

Query(r) ==
    /\ read[r].phase \in {"reader", "writer"}
    /\ read' = [read EXCEPT ![r] = [@ EXCEPT !.phase = "done", !.until = 0, !.at = 0,
                                      !.saw = IF read[r].phase = "writer" THEN Committed ELSE Visible]]
    /\ UNCHANGED <<now, applied, checkedAt, healthy, cookie, write>>

Apply ==
    /\ applied' \in (applied + 1) .. now
    /\ UNCHANGED <<now, checkedAt, healthy, cookie, write, read>>

\* An answer arrives within Delay.  The clock stops with the last read: a bound.
Tick ==
    /\ now < MaxTime /\ \E r \in Reads : read[r].phase # "done"
    /\ \A w \in Writes : write[w].phase = "answered" => now + 1 <= write[w].until - TTL + Delay
    /\ now' = now + 1
    /\ UNCHANGED <<applied, checkedAt, healthy, cookie, write, read>>

Next ==
    \/ \E w \in Writes : Commit(w) \/ refreshStickyWriter(w) \/ Receive(w)
    \/ \E r \in Reads :
          StartRead(r) \/ Reader(r) \/ UseLastCheck(r) \/ Probe(r) \/ Query(r)
    \/ OthersProbe
    \/ Apply
    \/ Tick

Spec == Init /\ [][Next]_vars

WriteState == [phase : {"new", "committed", "answered", "acked"},
               committed : Nat, until : Nat]

ReadState == [phase : {"new", "routing", "checking", "reader", "writer", "done"},
              acked : SUBSET Writes, until : Nat, at : Nat, saw : SUBSET Writes]

(* The variables keep their types and the replica is never ahead. *)
TypeOK ==
    /\ now \in Nat /\ applied \in 0 .. now
    /\ checkedAt \in Int /\ checkedAt <= now /\ healthy \in BOOLEAN /\ cookie \in Nat
    /\ write \in [Writes -> WriteState]
    /\ read \in [Reads -> ReadState]

(* A read sees every write whose success the client had been told when the read began, although *)
(* answers overtake each other, the cookie runs out and the lag was measured some time before.  *)
(* It rests on MaxLag + CheckInterval + Delay <= TTL, which the deployed values satisfy.        *)
ReadsOwnWrites == \A r \in Reads : read[r].phase = "done" => read[r].acked \subseteq read[r].saw

=============================================================================
