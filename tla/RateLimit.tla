------------------------------ MODULE RateLimit ------------------------------
(***************************************************************************)
(* The request rate limit (backend/internal/middleware/rate_limit.go).     *)
(*                                                                         *)
(* A request is counted in its buckets one after the other, each a key of  *)
(* Redis that a script increments and lets expire with the bucket's        *)
(* window.  The first bucket over its limit refuses the request.  When     *)
(* Redis cannot be asked the request passes uncounted, if the deployment   *)
(* wants that, or is refused.  Requests run side by side.                  *)
(***************************************************************************)
EXTENDS Naturals, Sequences, FiniteSets

CONSTANTS
    Requests, Publishing, \* those that publish have buckets of their own
    UserOf,               \* [Requests -> users]; they share one tenant
    Limit,                \* [{"general", "publish"} -> [{"user", "tenant"} -> Nat]]
    FailOpen,             \* RATE_LIMIT_FAIL_OPEN
    MaxWindows,           \* bound: windows of a bucket
    MaxLimitFaults        \* bound: calls to Redis that fail

ASSUME LimitAssumption ==
    /\ IsFiniteSet(Requests) /\ MaxWindows \in Nat /\ MaxLimitFaults \in Nat
    /\ \A category \in {"general", "publish"}, scope \in {"user", "tenant"} : Limit[category][scope] \in Nat

VARIABLES
    count,    \* the counter in Redis; 0 is a key that is not there
    window,   \* history: the window of each bucket
    request,  \* [Requests -> phase, buckets left]
    counted,  \* history: the buckets and windows a request was counted in
    over,     \* history: requests that were told a count over the limit
    limitFaults

limitVars == <<count, window, request, counted, over, limitFaults>>

Users == {UserOf[r] : r \in Requests}

bucket(scope, who, category) == [scope |-> scope, who |-> who, category |-> category]

Buckets == {bucket("user", u, c) : u \in Users, c \in {"general", "publish"}}
             \cup {bucket("tenant", "tenant", c) : c \in {"general", "publish"}}

LimitOf(b) == Limit[b.category][b.scope]

Enabled(b) == LimitOf(b) > 0

\* The buckets per interface and per day go like those per category and per minute.
rateLimitBucketsFor(r) ==
    LET If(b) == IF Enabled(b) THEN <<b>> ELSE <<>>
        Of(category) == If(bucket("user", UserOf[r], category)) \o If(bucket("tenant", "tenant", category))
    IN  Of("general") \o (IF r \in Publishing THEN Of("publish") ELSE <<>>)

LimitInit ==
    /\ count = [b \in Buckets |-> 0] /\ window = [b \in Buckets |-> 0]
    /\ request = [r \in Requests |-> [phase |-> "new", buckets |-> <<>>]]
    /\ counted = [r \in Requests |-> {}]
    /\ over = {} /\ limitFaults = 0

Begin(r) ==
    /\ request[r].phase = "new"
    /\ request' = [request EXCEPT ![r] = [phase |-> "counting", buckets |-> rateLimitBucketsFor(r)]]
    /\ UNCHANGED <<count, window, counted, over, limitFaults>>

Answer(r, phase) == request' = [request EXCEPT ![r].phase = phase]

Asking(r) == request[r].phase = "counting" /\ request[r].buckets # <<>>

Bucket(r) == Head(request[r].buckets)

\* Mutant of checkRateLimitBucket: the count from before this request is compared.
checkCountBefore(r) ==
    IF count[Bucket(r)] > LimitOf(Bucket(r))
      THEN Answer(r, "limited")
      ELSE request' = [request EXCEPT ![r].buckets = Tail(@)]

\* A known exceeded bucket must not be downgraded by later Redis degradation.
checkRateLimitBucket(r) ==
    IF count'[Bucket(r)] > LimitOf(Bucket(r))
      THEN Answer(r, "limited")
      ELSE request' = [request EXCEPT ![r].buckets = Tail(@)]

\* One script: INCR, and PEXPIRE when it is the first of its window.
incrementRateLimitBucket(r) ==
    /\ Asking(r)
    /\ count' = [count EXCEPT ![Bucket(r)] = @ + 1]
    /\ counted' = [counted EXCEPT ![r] = @ \cup {<<Bucket(r), window[Bucket(r)]>>}]
    /\ over' = IF count'[Bucket(r)] > LimitOf(Bucket(r)) THEN over \cup {r} ELSE over
    /\ checkRateLimitBucket(r)
    /\ UNCHANGED <<window, limitFaults>>

RedisFault == limitFaults < MaxLimitFaults /\ limitFaults' = limitFaults + 1

\* An error that ShouldDegrade knows, or an open circuit breaker; the script
\* may have run when only its answer was lost.
RedisUnavailable(r) ==
    /\ Asking(r) /\ RedisFault
    /\ count' \in {count, [count EXCEPT ![Bucket(r)] = @ + 1]}
    /\ Answer(r, IF FailOpen THEN "uncounted" ELSE "unavailable")
    /\ UNCHANGED <<window, counted, over>>

\* Any other error, a cancelled request among them.
RedisFails(r) ==
    /\ Asking(r) /\ RedisFault
    /\ Answer(r, "unavailable")
    /\ UNCHANGED <<count, window, counted, over>>

Admit(r) ==
    /\ request[r].phase = "counting" /\ request[r].buckets = <<>>
    /\ Answer(r, "admitted")
    /\ UNCHANGED <<count, window, counted, over, limitFaults>>

WindowEnds(b) ==
    /\ count[b] > 0 /\ window[b] < MaxWindows
    /\ count' = [count EXCEPT ![b] = 0]
    /\ window' = [window EXCEPT ![b] = @ + 1]
    /\ UNCHANGED <<request, counted, over, limitFaults>>

LimitNext ==
    \/ \E r \in Requests :
          Begin(r) \/ incrementRateLimitBucket(r) \/ RedisUnavailable(r) \/ RedisFails(r) \/ Admit(r)
    \/ \E b \in Buckets : WindowEnds(b)

LimitSpec == LimitInit /\ [][LimitNext]_limitVars

(* The variables keep their types. *)
LimitTypeOK ==
    /\ count \in [Buckets -> Nat] /\ window \in [Buckets -> 0 .. MaxWindows]
    /\ request \in [Requests -> [phase : {"new", "counting", "admitted", "limited", "uncounted", "unavailable"},
                                 buckets : Seq(Buckets)]]
    /\ counted \in [Requests -> SUBSET (Buckets \X (0 .. MaxWindows))]
    /\ over \subseteq Requests /\ limitFaults \in 0 .. MaxLimitFaults

Passed == {r \in Requests : request[r].phase \in {"admitted", "uncounted"}}

(* In no window of a bucket do more requests pass that were counted in it than its limit, and   *)
(* none passes that was told of a full bucket, although requests count side by side, windows    *)
(* end in between, and Redis fails after some of a request's buckets have been asked.           *)
AdmissionBounded ==
    /\ \A b \in Buckets, w \in 0 .. MaxWindows :
          Enabled(b) => Cardinality({r \in Passed : <<b, w>> \in counted[r]}) <= LimitOf(b)
    /\ over \cap Passed = {}
=============================================================================
