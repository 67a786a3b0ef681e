------------------------------ MODULE MCGuards ------------------------------
(***************************************************************************)
(* Components with a shared store, side by side: part says which of them a *)
(* behaviour is of, and the others stay as they are.                       *)
(*                                                                         *)
(* Stream gate: three connections, two of them of one user; a user and the *)
(* whole system may have one stream each; one fault.                       *)
(* Prepublish sync: two syncs of two platforms, two versions, two other    *)
(* requests.                                                               *)
(* Collaboration document: two instances, two edits and two requests to    *)
(* initialise, one crash or lost connection ("shared"); or the first of    *)
(* them alone, with two failing statements and a sync ("alone").           *)
(* Circuit breaker: three callers, opened by two failures, two attempts.   *)
(***************************************************************************)
EXTENDS StreamGate, PrepublishSync, CircuitBreaker, CollabDocument

CONSTANTS c1, c2, c3, i1, i2, k1, k2, e1, e2

MCConns == {c1, c2, c3}

MCKeysOf ==
    [c \in MCConns |-> <<IF c = c3 THEN "user2" ELSE "user1", "global">>]

MCScopes == {"user1", "user2", "global"}

MCCalls == {k1, k2, c1}

MCLimit == [k \in MCScopes |-> 1]

VARIABLE part

syncVars == <<version, pubs, running, sync, requests>>

all == <<part, gateVars, syncVars, docVars, breakerVars>>

\* The initial rows of the sync vary only in its own part.
AllInit ==
    /\ GateInit /\ Init /\ BreakerInit
    /\ part \in {"gate", "sync", "shared", "alone", "breaker"}
    /\ DOMAIN pubs = Platforms \/ part = "sync"
    /\ DocInit

GateStep == part = "gate" /\ GateNext /\ UNCHANGED <<part, syncVars, docVars, breakerVars>>

PrepublishStep == part = "sync" /\ Next /\ UNCHANGED <<part, gateVars, docVars, breakerVars>>

\* Several instances, of which one may crash or lose its connection.
SharedStep ==
    /\ part = "shared" /\ DocNext
    /\ docFaults' = (IF disturbed' THEN 1 ELSE 0) /\ syncs' = 0

\* One instance, opened for one initialisation, whose statements may fail.
AloneStep ==
    /\ part = "alone" /\ DocNext
    /\ Undisturbed' /\ \A k, l \in Initializers : call'[k] # "idle" /\ call'[l] # "idle" => k = l
    /\ \A i \in Instances : inbox[i] \subseteq inbox'[i]  \* nobody is there to receive

DocStep == (SharedStep \/ AloneStep) /\ UNCHANGED <<part, gateVars, syncVars, breakerVars>>

BreakerStep == part = "breaker" /\ BreakerNext /\ UNCHANGED <<part, gateVars, syncVars, docVars>>

AllNext == GateStep \/ PrepublishStep \/ DocStep \/ BreakerStep

AllSpec == AllInit /\ [][AllNext]_all

TLC == INSTANCE TLC

Symmetry ==
    TLC!Permutations({i1, i2}) \cup TLC!Permutations({e1, e2}) \cup TLC!Permutations({k1, k2})
=============================================================================
