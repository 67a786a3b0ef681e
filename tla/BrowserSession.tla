--------------------------- MODULE BrowserSession ---------------------------
(***************************************************************************)
(* Remote browser sessions (backend/internal/services/browser_session):    *)
(* a user logs in to a platform in a browser that a worker runs, and the   *)
(* cookies are captured.  The sessions of one user on one platform are     *)
(* modelled, in the deployment with Redis: an active-session lock, quota   *)
(* sets, a live state and a sweep set in Redis, a row in PostgreSQL and    *)
(* the browser in the worker, kept together by hand.                       *)
(*                                                                         *)
(* A read, a write or a call is one step; the deletes of one clean-up, all *)
(* of keys of the one session, are taken together.  Redis answers; a       *)
(* database error, a worker error and a crash are faults.  Stream tokens   *)
(* are in BrowserStreamToken.                                              *)
(***************************************************************************)
EXTENDS Naturals, FiniteSets

CONSTANTS
    SessionIDs, \* one for each StartSession
    Calls,      \* requests to get, complete or cancel a session
    Scopes,     \* the quota scopes, numbered in the order they are taken
    Limit,      \* the limit of each scope; 0 is no limit
    NoSession,  \* no session ID
    MaxFaults   \* bound on errors, stalls and crashes

ASSUME SessionAssumption ==
    /\ NoSession \notin SessionIDs
    /\ Scopes \subseteq Nat
    /\ MaxFaults \in Nat

VARIABLES
    row,        \* status of each row of remote_browser_sessions
    lock,       \* mpp:browser:active of the user and platform
    quota,      \* mpp:browser:quota, by scope
    live,       \* mpp:browser:session of each session
    sweepable,  \* mpp:browser:cleanup
    named,      \* rows that have the worker_session_ref
    browser,    \* sessions the worker has
    expired,    \* sessions whose expires_at has passed
    start,      \* local state of each StartSession
    call,       \* local state of each other request
    sweep,      \* local state of the sweep
    faults      \* faults so far

redis == <<lock, quota, live, sweepable>>

sessionVars == <<row, redis, named, browser, expired, start, call, sweep, faults>>

ActiveStatuses == {"pending", "ready", "login_detected", "capturing"}

Terminal == {"connected", "expired", "failed"}

Streamable == {"ready", "login_detected", "capturing"}

Statuses == ActiveStatuses \cup Terminal

\* The live state: whether its status is login_detected, the only one told
\* from the others, and whether it names the worker's session.
Live == [login : BOOLEAN, ref : BOOLEAN]

Gone == [login |-> FALSE, ref |-> FALSE, gone |-> TRUE]

StartPC == {"idle", "blocked", "suspecting", "expelling", "retrying", "locked", "counting", "counted",
            "created", "saved", "started", "marked", "live", "done", "refused", "failed", "crashed"}

\* victim: the session found dead; scope: the next quota scope.
Start == [pc : StartPC, victim : SessionIDs \cup {NoSession}, scope : Nat]

CallPC == {"idle", "get", "getWrite", "complete", "capture", "undo", "save", "connect", "close",
           "cancel", "release", "expire", "done"}

\* login: whether the status the request goes by is login_detected.
Call == [pc : CallPC, session : SessionIDs \cup {NoSession}, login : BOOLEAN]

Sweep == [pc : {"idle", "write", "clean"}, session : SessionIDs \cup {NoSession}]

SessionTypeOK ==
    /\ row \in [SessionIDs -> Statuses \cup {"none"}]
    /\ lock \in SessionIDs \cup {NoSession}
    /\ quota \in [Scopes -> SUBSET SessionIDs]
    /\ live \in [SessionIDs -> Live \cup {Gone}]
    /\ sweepable \cup named \cup browser \cup expired \subseteq SessionIDs
    /\ start \in [SessionIDs -> Start]
    /\ call \in [Calls -> Call]
    /\ sweep \in Sweep
    /\ faults \in 0..MaxFaults

SessionInit ==
    /\ row = [s \in SessionIDs |-> "none"]
    /\ lock = NoSession
    /\ quota = [k \in Scopes |-> {}]
    /\ live = [s \in SessionIDs |-> Gone]
    /\ sweepable = {} /\ named = {} /\ browser = {} /\ expired = {}
    /\ start = [s \in SessionIDs |-> [pc |-> "idle", victim |-> NoSession, scope |-> 1]]
    /\ call = [c \in Calls |-> [pc |-> "idle", session |-> NoSession, login |-> FALSE]]
    /\ sweep = [pc |-> "idle", session |-> NoSession]
    /\ faults = 0

Fault == faults < MaxFaults /\ faults' = faults + 1

At(s, pc) == start[s].pc = pc

Goto(s, pc) == start' = [start EXCEPT ![s].pc = pc]

\* An update of one row by its ID, whose error the code ignores.
WriteStatus(s, status) == row' = [row EXCEPT ![s] = status]

\* saveRedisLiveSession: SET, then ZADD to the sweep set.
SaveLive(s, status, ref) ==
    /\ live' = [live EXCEPT ![s] = [login |-> status = "login_detected", ref |-> ref]]
    /\ sweepable' = sweepable \cup {s}
    /\ UNCHANGED <<lock, quota>>

\* Mutant of LockWithout: DEL.
LockDeleted(s) == NoSession

\* releaseRedisActiveSessionValue: compare and delete.
LockWithout(s) == IF lock = s THEN NoSession ELSE lock

QuotaWithout(s) == [k \in Scopes |-> quota[k] \ {s}]

\* cleanupRedisSessionForTenant.
CleanupRedis(s) ==
    /\ lock' = LockWithout(s)
    /\ quota' = QuotaWithout(s)
    /\ live' = [live EXCEPT ![s] = Gone]
    /\ sweepable' = sweepable \ {s}
-----------------------------------------------------------------------------
(* StartSession.                                                           *)

\* SET NX, the first time and after a recovery.
AcquireActive(s) ==
    /\ start[s].pc \in {"idle", "retrying"}
    /\ \/ lock = NoSession /\ lock' = s /\ Goto(s, "locked")
       \/ lock # NoSession /\ UNCHANGED lock
          /\ Goto(s, IF At(s, "idle") THEN "blocked" ELSE "refused")
    /\ UNCHANGED <<row, quota, live, sweepable, named, browser, expired, call, sweep, faults>>

\* recoverRedisActiveSessionLock reads the lock and the owner's live state.
\* Without a reference the owner is left alone for pendingSessionStaleAfter:
\* a start that takes longer has stalled or crashed.
InspectOwner(s) ==
    /\ At(s, "blocked")
    /\ \/ lock = NoSession /\ Goto(s, "retrying") /\ UNCHANGED faults
       \/ /\ lock # NoSession
          /\ \/ /\ live[lock] = Gone \/ lock \in expired
                /\ start' = [start EXCEPT ![s] = [@ EXCEPT !.pc = "expelling", !.victim = lock]]
                /\ UNCHANGED faults
             \/ /\ live[lock] # Gone /\ lock \notin expired /\ ~live[lock].ref
                /\ \/ Goto(s, "refused") /\ UNCHANGED faults
                   \/ /\ IF At(lock, "crashed") THEN UNCHANGED faults ELSE Fault
                      /\ start' = [start EXCEPT ![s] = [@ EXCEPT !.pc = "expelling", !.victim = lock]]
             \/ /\ live[lock] # Gone /\ lock \notin expired /\ live[lock].ref
                /\ start' = [start EXCEPT ![s] = [@ EXCEPT !.pc = "suspecting", !.victim = lock]]
                /\ UNCHANGED faults
    /\ UNCHANGED <<row, redis, named, browser, expired, call, sweep>>

\* The worker is asked; the heartbeat only chooses the message.
ProbeOwner(s) ==
    /\ At(s, "suspecting")
    /\ \/ start[s].victim \in browser /\ Goto(s, "refused") /\ UNCHANGED faults
       \/ start[s].victim \notin browser /\ Goto(s, "expelling") /\ UNCHANGED faults
       \/ start[s].victim \in browser /\ Fault /\ Goto(s, "expelling")
    /\ UNCHANGED <<row, redis, named, browser, expired, call, sweep>>

\* cleanupRecoveredRedisActiveSession: the row, if it is still active, then Redis.
ExpelOwner(s) ==
    /\ At(s, "expelling")
    /\ \/ /\ row' = [row EXCEPT ![start[s].victim] = IF @ \in ActiveStatuses THEN "expired" ELSE @]
          /\ CleanupRedis(start[s].victim)
          /\ start' = [start EXCEPT ![s] = [@ EXCEPT !.pc = "retrying", !.victim = NoSession]]
          /\ UNCHANGED faults
       \/ Fault /\ Goto(s, "refused") /\ UNCHANGED <<row, redis>>
    /\ UNCHANGED <<named, browser, expired, call, sweep>>

\* expireSupersededActiveRows; an error gives the lock back.
ExpireSuperseded(s) ==
    /\ At(s, "locked")
    /\ \/ /\ row' = [o \in SessionIDs |-> IF row[o] \in ActiveStatuses THEN "expired" ELSE row[o]]
          /\ Goto(s, "counting")
          /\ UNCHANGED <<redis, faults>>
       \/ /\ Fault
          /\ lock' = LockWithout(s)
          /\ Goto(s, "failed")
          /\ UNCHANGED <<row, quota, live, sweepable>>
    /\ UNCHANGED <<named, browser, expired, call, sweep>>

\* The script of acquireRedisConcurrencyQuotaScope; a scope that refuses gives
\* back the scopes taken before it, and the lock.
Counted(s) == (quota[start[s].scope] \cup {s}) \ (expired \ {s})

OverLimit(s) == Limit[start[s].scope] > 0 /\ Cardinality(Counted(s)) > Limit[start[s].scope]

AcquireQuota(s) ==
    /\ At(s, "counting")
    /\ LET k == start[s].scope IN
       \/ /\ ~OverLimit(s)
          /\ quota' = [quota EXCEPT ![k] = Counted(s)]
          /\ start' = [start EXCEPT ![s] = [@ EXCEPT !.scope = IF k + 1 \in Scopes THEN k + 1 ELSE k,
                                                     !.pc = IF k + 1 \in Scopes THEN "counting" ELSE "counted"]]
          /\ UNCHANGED lock
       \/ /\ OverLimit(s)
          /\ quota' = [QuotaWithout(s) EXCEPT ![k] = Counted(s) \ {s}]
          /\ lock' = LockWithout(s)
          /\ Goto(s, "failed")
    /\ UNCHANGED <<row, live, sweepable, named, browser, expired, call, sweep, faults>>

\* The row is inserted.  On PostgreSQL no unique index of active rows backs
\* the lock: db.go creates it for other databases only.
CreateRow(s) ==
    /\ At(s, "counted")
    /\ \/ /\ WriteStatus(s, "pending")
          /\ Goto(s, "created")
          /\ UNCHANGED <<redis, faults>>
       \/ /\ Fault
          /\ CleanupRedis(s)
          /\ Goto(s, "failed")
          /\ UNCHANGED row
    /\ UNCHANGED <<named, browser, expired, call, sweep>>

SavePending(s) ==
    /\ At(s, "created")
    /\ SaveLive(s, "pending", FALSE)
    /\ Goto(s, "saved")
    /\ UNCHANGED <<row, named, browser, expired, call, sweep, faults>>

\* The start gives up: browser stopped, Redis cleaned, row failed.
GiveUpStart(s) ==
    /\ browser' = browser \ {s}
    /\ CleanupRedis(s)
    /\ WriteStatus(s, "failed")
    /\ Goto(s, "failed")

\* CookieStore.LoadForAccount or CreateSession fails, or the browser starts.
CreateWorkerSession(s) ==
    /\ At(s, "saved")
    /\ \/ /\ browser' = browser \cup {s}
          /\ Goto(s, "started")
          /\ UNCHANGED <<row, redis, faults>>
       \/ Fault /\ GiveUpStart(s)
    /\ UNCHANGED <<named, expired, call, sweep>>

\* The row becomes ready and names the worker's session; on an error it is
\* left as it is.
MarkReady(s) ==
    /\ At(s, "started")
    /\ \/ /\ WriteStatus(s, "ready")
          /\ named' = named \cup {s}
          /\ Goto(s, "marked")
          /\ UNCHANGED <<redis, browser, faults>>
       \/ /\ Fault
          /\ browser' = browser \ {s}
          /\ CleanupRedis(s)
          /\ Goto(s, "failed")
          /\ UNCHANGED <<row, named>>
    /\ UNCHANGED <<expired, call, sweep>>

SaveReady(s) ==
    /\ At(s, "marked")
    /\ SaveLive(s, "ready", TRUE)
    /\ Goto(s, "live")
    /\ UNCHANGED <<row, named, browser, expired, call, sweep, faults>>

\* The token's expiry is stored and the user is answered.
AnswerStart(s) ==
    /\ At(s, "live")
    /\ \/ Goto(s, "done") /\ UNCHANGED <<row, redis, browser, faults>>
       \/ Fault /\ GiveUpStart(s)
    /\ UNCHANGED <<named, expired, call, sweep>>

\* The backend instance dies.
CrashStart(s) ==
    /\ start[s].pc \notin {"idle", "done", "refused", "failed", "crashed"}
    /\ Fault
    /\ start' = [start EXCEPT ![s] = [@ EXCEPT !.pc = "crashed", !.victim = NoSession]]
    /\ UNCHANGED <<row, redis, named, browser, expired, call, sweep>>
-----------------------------------------------------------------------------
(* GetSession, CompleteSession and CancelSession, of a session the user    *)
(* was told of.                                                            *)

InCall(c, pc) == call[c].pc = pc

CallGoto(c, pc) == call' = [call EXCEPT ![c].pc = pc, ![c].login = FALSE]

\* The row is read, and for GetSession the live state, which overrides it.
BeginGet(c, s) ==
    /\ InCall(c, "idle") /\ At(s, "done")
    /\ \/ /\ live[s] # Gone /\ live[s].ref
          /\ call' = [call EXCEPT ![c] = [pc |-> "get", session |-> s, login |-> live[s].login]]
       \/ /\ live[s] = Gone \/ ~live[s].ref
          /\ call' = [call EXCEPT ![c] =
                [pc |-> IF s \in expired /\ (live[s] # Gone \/ row[s] \notin Terminal) THEN "cancel" ELSE "done",
                 session |-> s, login |-> FALSE]]
    /\ UNCHANGED <<row, redis, named, browser, expired, start, sweep, faults>>

\* GetSession ends by cancelling a session that has expired.
CancelIfExpired(c) == CallGoto(c, IF call[c].session \in expired THEN "cancel" ELSE "done")

\* The worker answers, with or without a login, and the live state that was
\* read is written back; or it does not, and once the session or the
\* heartbeat is over the session is.
GetWorkerState(c) ==
    /\ InCall(c, "get")
    /\ LET s == call[c].session IN
       \/ /\ s \in browser
          /\ \/ /\ SaveLive(s, "login_detected", TRUE)
                /\ IF call[c].login THEN CancelIfExpired(c) ELSE CallGoto(c, "getWrite")
             \/ /\ SaveLive(s, IF call[c].login THEN "login_detected" ELSE "ready", TRUE)
                /\ CancelIfExpired(c)
          /\ UNCHANGED <<row, faults>>
       \/ /\ s \notin browser
          /\ \/ /\ row' = [row EXCEPT ![s] = IF s \in expired THEN "expired" ELSE "failed"]
                /\ CleanupRedis(s)
             \/ s \notin expired /\ UNCHANGED <<row, redis>>
          /\ CallGoto(c, "done")
          /\ UNCHANGED faults
       \/ /\ s \notin expired
          /\ Fault
          /\ CallGoto(c, "done")
          /\ UNCHANGED <<row, redis>>
    /\ UNCHANGED <<named, browser, expired, start, sweep>>

GetWriteStatus(c) ==
    /\ InCall(c, "getWrite")
    /\ WriteStatus(call[c].session, "login_detected")
    /\ CancelIfExpired(c)
    /\ UNCHANGED <<redis, named, browser, expired, start, sweep, faults>>

\* Only a streamable session can be completed.
BeginComplete(c, s) ==
    /\ InCall(c, "idle") /\ At(s, "done")
    /\ row[s] \in Streamable
    /\ call' = [call EXCEPT ![c] = [pc |-> "complete", session |-> s, login |-> FALSE]]
    /\ UNCHANGED <<row, redis, named, browser, expired, start, sweep, faults>>

MarkCapturing(c) ==
    /\ InCall(c, "complete")
    /\ WriteStatus(call[c].session, "capturing")
    /\ SaveLive(call[c].session, "capturing", TRUE)
    /\ CallGoto(c, "capture")
    /\ UNCHANGED <<named, browser, expired, start, sweep, faults>>

\* Cookies are captured, or the login is not detected, or the browser is gone.
CaptureSession(c) ==
    /\ InCall(c, "capture")
    /\ \/ call[c].session \in browser /\ CallGoto(c, "save")
       \/ CallGoto(c, "undo")
    /\ UNCHANGED <<row, redis, named, browser, expired, start, sweep, faults>>

\* The session is ready again.
UndoCapturing(c) ==
    /\ InCall(c, "undo")
    /\ WriteStatus(call[c].session, "ready")
    /\ SaveLive(call[c].session, "ready", TRUE)
    /\ CallGoto(c, "done")
    /\ UNCHANGED <<named, browser, expired, start, sweep, faults>>

\* authorizeSessionTarget and SaveForAccount.
SaveCookies(c) ==
    /\ InCall(c, "save")
    /\ \/ CallGoto(c, "connect") /\ UNCHANGED faults
       \/ Fault /\ CallGoto(c, "undo")
    /\ UNCHANGED <<row, redis, named, browser, expired, start, sweep>>

MarkConnected(c) ==
    /\ InCall(c, "connect")
    /\ WriteStatus(call[c].session, "connected")
    /\ CallGoto(c, "close")
    /\ UNCHANGED <<redis, named, browser, expired, start, sweep, faults>>

CloseCompleted(c) ==
    /\ InCall(c, "close")
    /\ browser' = browser \ {call[c].session}
    /\ CleanupRedis(call[c].session)
    /\ CallGoto(c, "done")
    /\ UNCHANGED <<row, named, expired, start, sweep, faults>>

\* CancelSession asks for no status; GetSession calls it for an expired session.
StopCancelled(c, s) ==
    /\ \/ InCall(c, "idle") /\ At(s, "done")
       \/ InCall(c, "cancel") /\ call[c].session = s
    /\ browser' = browser \ {s}
    /\ call' = [call EXCEPT ![c] = [pc |-> "release", session |-> s, login |-> FALSE]]
    /\ UNCHANGED <<row, redis, named, expired, start, sweep, faults>>

ReleaseCancelled(c) ==
    /\ InCall(c, "release")
    /\ CleanupRedis(call[c].session)
    /\ CallGoto(c, "expire")
    /\ UNCHANGED <<row, named, browser, expired, start, sweep, faults>>

\* Mutant of MarkCancelled: a status the contract does not have.
MarkAsCancelled(c) ==
    /\ InCall(c, "expire")
    /\ WriteStatus(call[c].session, "cancelled")
    /\ CallGoto(c, "done")
    /\ UNCHANGED <<redis, named, browser, expired, start, sweep, faults>>

MarkCancelled(c) ==
    /\ InCall(c, "expire")
    /\ WriteStatus(call[c].session, "expired")
    /\ CallGoto(c, "done")
    /\ UNCHANGED <<redis, named, browser, expired, start, sweep, faults>>

\* The backend instance dies.
CrashCall(c) ==
    /\ call[c].pc \notin {"idle", "done"}
    /\ Fault
    /\ CallGoto(c, "done")
    /\ UNCHANGED <<row, redis, named, browser, expired, start, sweep>>
-----------------------------------------------------------------------------
(* CleanupExpiredSessions, once a minute.                                  *)

SweepAt(pc) == sweep.pc = pc

\* The row is read; the browser of a session that is not over is stopped.
SweepRead(s) ==
    /\ SweepAt("idle") /\ s \in sweepable \cap expired
    /\ \/ /\ row[s] \in Terminal
          /\ sweep' = [pc |-> "clean", session |-> s]
          /\ UNCHANGED browser
       \/ /\ row[s] \notin Terminal
          /\ sweep' = [pc |-> "write", session |-> s]
          /\ browser' = browser \ (named \cap {s})
    /\ UNCHANGED <<row, redis, named, expired, start, call, faults>>

SweepWrite ==
    /\ SweepAt("write")
    /\ WriteStatus(sweep.session, "expired")
    /\ sweep' = [sweep EXCEPT !.pc = "clean"]
    /\ UNCHANGED <<redis, named, browser, expired, start, call, faults>>

SweepClean ==
    /\ SweepAt("clean")
    /\ CleanupRedis(sweep.session)
    /\ sweep' = [pc |-> "idle", session |-> NoSession]
    /\ UNCHANGED <<row, named, browser, expired, start, call, faults>>

\* An error, or the instance dies; the next sweep begins again.
SweepFails ==
    /\ ~SweepAt("idle")
    /\ Fault
    /\ sweep' = [pc |-> "idle", session |-> NoSession]
    /\ UNCHANGED <<row, redis, named, browser, expired, start, call>>
-----------------------------------------------------------------------------
(* The worker, and time.                                                   *)

\* StartLoop, getSession and captureSession save what they see.
WorkerSaves(s) ==
    /\ s \in browser
    /\ \E login \in BOOLEAN : live' = [live EXCEPT ![s] = [login |-> login, ref |-> TRUE]]
    /\ UNCHANGED <<row, lock, quota, sweepable, named, browser, expired, start, call, sweep, faults>>

\* The session's own timer in the worker, or the worker dies.
WorkerSessionEnds(s) ==
    /\ s \in browser
    /\ IF s \in expired THEN UNCHANGED faults ELSE Fault
    /\ browser' = browser \ {s}
    /\ UNCHANGED <<row, redis, named, expired, start, call, sweep>>

\* A quarter of an hour from the start; within the start, it is a stall.
Expire(s) ==
    /\ ~At(s, "idle") /\ s \notin expired
    /\ IF start[s].pc \in {"done", "refused", "failed", "crashed"} THEN UNCHANGED faults ELSE Fault
    /\ expired' = expired \cup {s}
    /\ UNCHANGED <<row, redis, named, browser, start, call, sweep>>

\* The TTLs of the lock and of the live state, and the scores of the quota.
KeysExpire(s) ==
    /\ s \in expired
    /\ lock' = LockWithout(s)
    /\ quota' = QuotaWithout(s)
    /\ live' = [live EXCEPT ![s] = Gone]
    /\ UNCHANGED <<row, sweepable, named, browser, expired, start, call, sweep, faults>>
-----------------------------------------------------------------------------
StartStep(s) ==
    \/ AcquireActive(s) \/ InspectOwner(s) \/ ProbeOwner(s) \/ ExpelOwner(s)
    \/ ExpireSuperseded(s) \/ AcquireQuota(s) \/ CreateRow(s) \/ SavePending(s)
    \/ CreateWorkerSession(s) \/ MarkReady(s) \/ SaveReady(s) \/ AnswerStart(s)

CallStep(c) ==
    \/ GetWorkerState(c) \/ GetWriteStatus(c)
    \/ MarkCapturing(c) \/ CaptureSession(c) \/ UndoCapturing(c)
    \/ SaveCookies(c) \/ MarkConnected(c) \/ CloseCompleted(c)
    \/ ReleaseCancelled(c) \/ MarkCancelled(c)

SweepStep == SweepWrite \/ SweepClean \/ \E s \in SessionIDs : SweepRead(s)

SessionNext ==
    \/ \E s \in SessionIDs :
          \/ StartStep(s) \/ CrashStart(s)
          \/ WorkerSaves(s) \/ WorkerSessionEnds(s) \/ Expire(s) \/ KeysExpire(s)
    \/ \E c \in Calls :
          \/ CallStep(c) \/ CrashCall(c)
          \/ \E s \in SessionIDs : BeginGet(c, s) \/ BeginComplete(c, s) \/ StopCancelled(c, s)
    \/ SweepStep \/ SweepFails

SessionSpec == SessionInit /\ [][SessionNext]_sessionVars
-----------------------------------------------------------------------------
(***************************************************************************)
(* A start that answers with an error leaves nothing behind: on every path *)
(* it gives back the lock, the quota, the live state, the place in the     *)
(* sweep set and the browser, whatever other starts did to it meanwhile.   *)
(***************************************************************************)
FailedStartLeavesNothing ==
    \A s \in SessionIDs : start[s].pc \in {"failed", "refused"} =>
        /\ lock # s
        /\ \A k \in Scopes : s \notin quota[k]
        /\ live[s] = Gone /\ s \notin sweepable
        /\ s \notin browser

\* Somebody has begun to end s, or found it dead, or its time is over.
Ending(s) ==
    \/ s \in expired
    \/ \E o \in SessionIDs : start[o].victim = s
    \/ \E c \in Calls : call[c].session = s
    \/ start[s].pc \in {"locked", "counting", "counted", "saved", "started", "live"}

(***************************************************************************)
(* "One session cannot release another session's lock": a session that     *)
(* nobody is ending keeps the lock, whatever late clean-ups of earlier     *)
(* sessions of the same user and platform do.                              *)
(***************************************************************************)
LockLostOnlyToItsEnd ==
    [][\A s \in SessionIDs : lock = s /\ lock' # s => Ending(s)]_sessionVars

(***************************************************************************)
(* Starts of one user and platform stay apart: neither does a failed start *)
(* leave anything, nor a live session lose its lock.                       *)
(***************************************************************************)
StartsStayApart == []FailedStartLeavesNothing /\ LockLostOnlyToItsEnd

(***************************************************************************)
(* "One active session per user/platform": two browsers never run for one  *)
(* user and platform, unless the time of one is over.                      *)
(***************************************************************************)
OneBrowser == Cardinality(browser \ expired) <= 1

(***************************************************************************)
(* "Cleanup must still stop containers and update durable audit rows": in  *)
(* the end nothing of a session is left in Redis, however it was abandoned *)
(* or revived.  The keys have TTLs; the sweep set has none, so the sweep   *)
(* must take out what a late writer puts back.                             *)
(***************************************************************************)
RedisForgets ==
    \A s \in SessionIDs : <>[](/\ lock # s /\ live[s] = Gone /\ s \notin sweepable
                             /\ \A k \in Scopes : s \notin quota[k])
=============================================================================
