----------------------------- MODULE MCSettles -----------------------------
(***************************************************************************)
(* Components that must get somewhere in the end, side by side: part says  *)
(* which of them a behaviour is of, and the others stay as they are.       *)
(*                                                                         *)
(* Prepublish sync: two syncs of two platforms, one other request.         *)
(* Stream gate: two connections of one user, who may have one stream; one  *)
(* fault.  Browser session: one session, two requests after it, two faults.*)
(* Browser worker: two sessions on a worker of one place, another worker   *)
(* that reaps, one fault.                                                  *)
(***************************************************************************)
EXTENDS PrepublishSync

CONSTANTS c1, c2, s1, w1, w2, NoSession

Conns == {c1, c2}

GateScopes == {"user", "global"}

VARIABLES
    part,
    members, owner, expired, gate, gateFaults,
    row, lock, quota, live, sweepable, named, browser, ended, start, call, sweep, browserFaults,
    pool, reservations, phase, launch, closing, pods, due, workerFaults

Gate == INSTANCE StreamGate WITH
    Scopes <- GateScopes, KeysOf <- [c \in Conns |-> <<"user", "global">>],
    Limit <- [k \in GateScopes |-> 1], MaxFaults <- 1, faults <- gateFaults

Browser == INSTANCE BrowserSession WITH
    SessionIDs <- {s1}, Calls <- Conns, Scopes <- {1}, Limit <- <<1>>, MaxFaults <- 2,
    expired <- ended, faults <- browserFaults

Worker == INSTANCE BrowserWorker WITH
    Sessions <- Conns, Workers <- {w1, w2}, PoolSize <- 1, MaxWorkerFaults <- 1

syncVars == <<version, pubs, running, sync, requests>>

gateVars == <<members, owner, expired, gate, gateFaults>>

browserVars ==
    <<row, lock, quota, live, sweepable, named, browser, ended, start, call, sweep, browserFaults>>

workerVars == <<pool, reservations, phase, launch, closing, pods, due, workerFaults>>

all == <<part, syncVars, gateVars, browserVars, workerVars>>

OfSync == part = "sync" /\ UNCHANGED <<part, gateVars, browserVars, workerVars>>

OfGate == part = "gate" /\ UNCHANGED <<part, syncVars, browserVars, workerVars>>

OfBrowser == part = "browser" /\ UNCHANGED <<part, syncVars, gateVars, workerVars>>

OfWorker == part = "worker" /\ UNCHANGED <<part, syncVars, gateVars, browserVars>>

\* The initial rows of the sync vary only in its own part.
AllInit ==
    /\ Init /\ Gate!GateInit /\ Browser!SessionInit
    /\ Worker!WorkerInitAt([c \in Conns |-> w1])
    /\ part \in {"sync", "gate", "browser", "worker"}
    /\ part = "sync" \/ DOMAIN pubs = Platforms

PrepublishStep == OfSync /\ Next

GateStep == OfGate /\ Gate!GateNext

BrowserStep == OfBrowser /\ Browser!SessionNext

WorkerStep == OfWorker /\ Worker!WorkerNext

AllNext == PrepublishStep \/ GateStep \/ BrowserStep \/ WorkerStep

\* A request that began runs on: the compiler's call has a deadline.
SyncFairness == \A r \in Syncs : WF_all(OfSync /\ SyncStep(r))

\* Time passes, and Redis drops what has expired.
GateFairness ==
    /\ \A c \in Conns : WF_all(OfGate /\ Gate!Expire(c)) /\ WF_all(OfGate /\ Gate!OwnerExpires(c))
    /\ \A k \in GateScopes : WF_all(OfGate /\ Gate!ScopeExpires(k))

\* So they do here, the worker's timers fire, a request runs on while its
\* instance lives, and the sweep is run once a minute.
BrowserFairness ==
    /\ WF_all(OfBrowser /\ Browser!StartStep(s1))
    /\ WF_all(OfBrowser /\ Browser!Expire(s1))
    /\ WF_all(OfBrowser /\ Browser!KeysExpire(s1))
    /\ WF_all(OfBrowser /\ s1 \in ended /\ Browser!WorkerSessionEnds(s1))
    /\ \A c \in Conns : WF_all(OfBrowser /\ Browser!CallStep(c))
    /\ WF_all(OfBrowser /\ Browser!SweepStep)

\* Annotations expire, a worker that has stopped is started again and reaps.
WorkerFairness ==
    /\ \A c \in Conns : WF_all(OfWorker /\ Worker!PodExpires(c))
    /\ \A w \in {w1, w2} :
          /\ WF_all(OfWorker /\ Worker!Exit(w))
          /\ WF_all(OfWorker /\ Worker!Restart(w))
          /\ WF_all(OfWorker /\ Worker!ReapExpiredSessions(w))

AllSpec ==
    /\ AllInit /\ [][AllNext]_all
    /\ SyncFairness /\ GateFairness /\ BrowserFairness /\ WorkerFairness

\* What a process leaves in Redis when it stops, and the pods of its sessions.
LeftoversEnd == Browser!RedisForgets /\ Gate!LeftoversExpire /\ Worker!PodsEnd
=============================================================================
