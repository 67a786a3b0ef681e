---------------------------- MODULE CircuitBreaker ----------------------------
(***************************************************************************)
(* One circuit breaker and the calls that share it                         *)
(* (backend/internal/pkg/resilience/resilience.go, redisdegrade.go).       *)
(*                                                                         *)
(* A call asks Allow, tries its operation once or more often, and tells    *)
(* Record how it went.  Calls overlap: one that was let through while the  *)
(* breaker was closed may record in any later state of it.                 *)
(***************************************************************************)
EXTENDS Naturals

CONSTANTS
    Calls,     \* callers; each makes one call after the other
    Threshold, \* FailureThreshold
    Attempts   \* MaxAttempts

VARIABLES
    breaker,   \* state, failures and halfOpenInFlight
    cooled,    \* OpenAfter has passed since openedAt
    caller     \* progress of each caller; left: the attempts it may still make

breakerVars == <<breaker, cooled, caller>>

BreakerTypeOK ==
    /\ breaker \in [state : {"closed", "open", "half_open"}, failures : 0..Threshold,
                    inFlight : BOOLEAN]
    /\ cooled \in BOOLEAN
    /\ caller \in [Calls -> [pc : {"idle", "attempt", "sleep", "succeeded", "failed"},
                             left : 0..Attempts]]

BreakerInit ==
    /\ breaker = [state |-> "closed", failures |-> 0, inFlight |-> FALSE]
    /\ cooled = FALSE
    /\ caller = [c \in Calls |-> [pc |-> "idle", left |-> 0]]

Goes(c, to) == caller' = [caller EXCEPT ![c].pc = to]

-----------------------------------------------------------------------------
\* Run and RoundTrip retry; a POST and a guard of Redis get one attempt.
Enters(c) ==
    \E attempts \in {1, Attempts} :
        caller' = [caller EXCEPT ![c] = [pc |-> "attempt", left |-> attempts - 1]]

\* A refused caller gets ErrCircuitOpen: nothing changes.  By HalfOpenHasTrial the
\* last case, which the code provides for, does not happen.
Allow(c) ==
    /\ caller[c].pc = "idle"
    /\ \/ breaker.state = "closed" /\ UNCHANGED breaker
       \/ /\ breaker.state = "open" /\ cooled
          /\ breaker' = [breaker EXCEPT !.state = "half_open", !.inFlight = TRUE]
       \/ /\ breaker.state = "half_open" /\ ~breaker.inFlight
          /\ breaker' = [breaker EXCEPT !.inFlight = TRUE]
    /\ Enters(c)
    /\ UNCHANGED cooled

CoolDown ==
    /\ breaker.state = "open" /\ ~cooled
    /\ cooled' = TRUE
    /\ UNCHANGED <<breaker, caller>>

-----------------------------------------------------------------------------
(* Run, RoundTrip and Call                                                 *)

\* What is not worth a retry, a canceled operation among it, counts as success.
Succeed(c) ==
    /\ caller[c].pc = "attempt"
    /\ Goes(c, "succeeded")
    /\ UNCHANGED <<breaker, cooled>>

Fail(c) ==
    /\ caller[c].pc = "attempt"
    /\ Goes(c, IF caller[c].left > 0 THEN "sleep" ELSE "failed")
    /\ UNCHANGED <<breaker, cooled>>

WakeUp(c) ==
    /\ caller[c].pc = "sleep"
    /\ caller' = [caller EXCEPT ![c].pc = "attempt", ![c].left = @ - 1]
    /\ UNCHANGED <<breaker, cooled>>

\* Mutant of Interrupted: a call whose context ends records nothing.
LeaveUnrecorded(c) ==
    /\ caller[c].pc = "sleep"
    /\ Goes(c, "idle")
    /\ UNCHANGED <<breaker, cooled>>

\* The context ends while it sleeps, or the body can not be sent again.
Interrupted(c) ==
    /\ caller[c].pc = "sleep"
    /\ Goes(c, "failed")
    /\ UNCHANGED <<breaker, cooled>>

-----------------------------------------------------------------------------
Closed == [state |-> "closed", failures |-> 0, inFlight |-> FALSE]

Open(failures) == [state |-> "open", failures |-> failures, inFlight |-> FALSE]

RecordSuccess(c) ==
    /\ caller[c].pc = "succeeded"
    /\ breaker' = Closed
    /\ cooled' = FALSE
    /\ Goes(c, "idle")

RecordFailure(c) ==
    /\ caller[c].pc = "failed"
    /\ breaker' = CASE breaker.state = "half_open" -> Open(breaker.failures)
                    [] breaker.state = "open" -> breaker
                    [] breaker.state = "closed" ->
                          IF breaker.failures + 1 >= Threshold
                          THEN Open(breaker.failures + 1)
                          ELSE [breaker EXCEPT !.failures = @ + 1]
    /\ cooled' = (cooled /\ breaker.state = "open")
    /\ Goes(c, "idle")

BreakerNext ==
    \/ CoolDown
    \/ \E c \in Calls :
          \/ Allow(c) \/ Succeed(c) \/ Fail(c) \/ WakeUp(c) \/ Interrupted(c)
          \/ RecordSuccess(c) \/ RecordFailure(c)

BreakerSpec == BreakerInit /\ [][BreakerNext]_breakerVars

-----------------------------------------------------------------------------
(***************************************************************************)
(* A half-open breaker refuses everybody, so somebody must be on the way   *)
(* who will record and end that: no caller may leave without recording,    *)
(* and no call let through earlier may take the trial's place.             *)
(***************************************************************************)
HalfOpenHasTrial ==
    breaker.state = "half_open" => breaker.inFlight /\ \E c \in Calls : caller[c].pc # "idle"
=============================================================================
