--------------------------- MODULE RequestProofs ----------------------------
(***************************************************************************)
(* Proofs about what a request meets on its way: the rate limit, the       *)
(* circuit breaker of a dependency, the read replicas, a media asset, the  *)
(* base of a growth run, and the list of projects it reads.                *)
(***************************************************************************)
EXTENDS MCServices, CircuitBreaker, OrderLemmas

-----------------------------------------------------------------------------
(***************************************************************************)
(* The request rate limit.  In its current window a bucket's counter is at *)
(* least the number of requests counted in it that were not told it was    *)
(* full, and it tells no request beyond the limit that there is room.      *)
(***************************************************************************)

\* Requests that were counted in a window of a bucket and not told that it was full.
CountedIn(b, w) == {r \in Requests : <<b, w>> \in counted[r] /\ r \notin over}

\* The counter in Redis knows of all of these in its window, and never tells
\* more of them that there is room than the limit.
CountersCover ==
    /\ \A r \in Requests, b \in Buckets, w \in 0 .. MaxWindows : <<b, w>> \in counted[r] => w <= window[b]
    /\ \A b \in Buckets :
          /\ Cardinality(CountedIn(b, window[b])) <= count[b]
          /\ \A w \in 0 .. MaxWindows : Cardinality(CountedIn(b, w)) <= LimitOf(b)

FullIsLimited == \A r \in over : request[r].phase = "limited"

LimitInv == LimitTypeOK /\ CountersCover /\ FullIsLimited

(* The buckets of a request are buckets. *)
LEMMA BucketsOfRequest == ASSUME NEW r \in Requests PROVE rateLimitBucketsFor(r) \in Seq(Buckets)
<1> DEFINE If(b) == IF Enabled(b) THEN <<b>> ELSE <<>>
           Of(category) == If(bucket("user", UserOf[r], category)) \o If(bucket("tenant", "tenant", category))
<1>1. \A b \in Buckets : If(b) \in Seq(Buckets)
  OBVIOUS
<1>2. ASSUME NEW category \in {"general", "publish"} PROVE Of(category) \in Seq(Buckets)
  <2>1. bucket("user", UserOf[r], category) \in Buckets /\ bucket("tenant", "tenant", category) \in Buckets
    BY DEF Buckets, Users
  <2> QED
    BY <1>1, <2>1
<1> HIDE DEF Of
<1>3. Of("general") \o (IF r \in Publishing THEN Of("publish") ELSE <<>>) \in Seq(Buckets)
  BY <1>2
<1> QED
  BY <1>3 DEF rateLimitBucketsFor, Of

(* The limit of every bucket is a number. *)
LEMMA LimitsAreNumbers == ASSUME NEW b \in Buckets PROVE LimitOf(b) \in Nat
  BY LimitAssumption DEF Buckets, bucket, LimitOf

(* The initial state: nothing is counted. *)
LEMMA LimitInitInv == LimitInit => LimitInv
<1> SUFFICES ASSUME LimitInit PROVE LimitInv
  OBVIOUS
<1>1. LimitTypeOK /\ FullIsLimited
  BY LimitAssumption DEF LimitInit, LimitTypeOK, FullIsLimited
<1>2. \A b \in Buckets, w \in 0 .. MaxWindows : CountedIn(b, w) = {}
  BY DEF LimitInit, CountedIn
<1>3. \A b \in Buckets : count[b] = 0 /\ window[b] = 0 /\ 0 \in 0 .. MaxWindows /\ LimitOf(b) >= 0
  BY LimitsAreNumbers, LimitAssumption DEF LimitInit
<1>4. \A r \in Requests : counted[r] = {}
  BY DEF LimitInit
<1>5. CountersCover
  BY <1>2, <1>3, <1>4, FS_EmptySet DEF CountersCover
<1> QED
  BY <1>1, <1>5 DEF LimitInv

(* Every step keeps the types. *)
LEMMA LimitStepTypes == LimitTypeOK /\ [LimitNext]_limitVars => LimitTypeOK'
<1> SUFFICES ASSUME LimitTypeOK, [LimitNext]_limitVars PROVE LimitTypeOK'
  OBVIOUS
<1> USE LimitAssumption DEF LimitTypeOK, Answer
<1>1. ASSUME NEW r \in Requests, Begin(r) PROVE LimitTypeOK'
  BY <1>1, BucketsOfRequest DEF Begin
<1>2. ASSUME NEW r \in Requests, incrementRateLimitBucket(r) PROVE LimitTypeOK'
  <2>1. Bucket(r) \in Buckets /\ Tail(request[r].buckets) \in Seq(Buckets)
    BY <1>2 DEF incrementRateLimitBucket, Asking, Bucket
  <2>2. count' \in [Buckets -> Nat]
    BY <1>2, <2>1 DEF incrementRateLimitBucket
  <2>3. counted' \in [Requests -> SUBSET (Buckets \X (0 .. MaxWindows))]
    BY <1>2, <2>1 DEF incrementRateLimitBucket
  <2>4. request' \in [Requests -> [phase : {"new", "counting", "admitted", "limited", "uncounted", "unavailable"},
                                   buckets : Seq(Buckets)]]
    BY <1>2, <2>1 DEF incrementRateLimitBucket, checkRateLimitBucket
  <2> QED
    BY <1>2, <2>2, <2>3, <2>4 DEF incrementRateLimitBucket
<1>3. ASSUME NEW r \in Requests, RedisUnavailable(r) PROVE LimitTypeOK'
  <2>1. Bucket(r) \in Buckets
    BY <1>3 DEF RedisUnavailable, Asking, Bucket
  <2>2. request' \in [Requests -> [phase : {"new", "counting", "admitted", "limited", "uncounted", "unavailable"},
                                   buckets : Seq(Buckets)]]
    BY <1>3 DEF RedisUnavailable
  <2>3. count' \in [Buckets -> Nat]
    <3>1. count' = count \/ count' = [count EXCEPT ![Bucket(r)] = @ + 1]
      BY <1>3 DEF RedisUnavailable
    <3>2. count \in [Buckets -> Nat] /\ count[Bucket(r)] + 1 \in Nat
      BY <2>1
    <3> QED
      BY <3>1, <3>2
  <2>4. limitFaults' \in 0 .. MaxLimitFaults
    BY <1>3 DEF RedisUnavailable, RedisFault
  <2> QED
    BY <1>3, <2>2, <2>3, <2>4 DEF RedisUnavailable
<1>4. ASSUME NEW r \in Requests, RedisFails(r) PROVE LimitTypeOK'
  <2>1. request' \in [Requests -> [phase : {"new", "counting", "admitted", "limited", "uncounted", "unavailable"},
                                   buckets : Seq(Buckets)]]
    BY <1>4 DEF RedisFails
  <2>2. limitFaults' \in 0 .. MaxLimitFaults
    BY <1>4 DEF RedisFails, RedisFault
  <2> QED
    BY <1>4, <2>1, <2>2 DEF RedisFails
<1>5. ASSUME NEW r \in Requests, Admit(r) PROVE LimitTypeOK'
  BY <1>5 DEF Admit
<1>6. ASSUME NEW b \in Buckets, WindowEnds(b) PROVE LimitTypeOK'
  BY <1>6 DEF WindowEnds
<1>7. CASE UNCHANGED limitVars
  BY <1>7 DEF limitVars
<1> QED
  BY <1>1, <1>2, <1>3, <1>4, <1>5, <1>6, <1>7 DEF LimitNext

(* A request that is told of a full bucket is refused and stays so. *)
LEMMA LimitStepFull == LimitTypeOK /\ FullIsLimited /\ [LimitNext]_limitVars => FullIsLimited'
<1> SUFFICES ASSUME LimitTypeOK, FullIsLimited, [LimitNext]_limitVars PROVE FullIsLimited'
  OBVIOUS
<1> USE DEF LimitTypeOK, FullIsLimited, Answer
<1>1. ASSUME NEW r \in Requests, Begin(r) \/ RedisUnavailable(r) \/ RedisFails(r) \/ Admit(r)
      PROVE FullIsLimited'
  BY <1>1 DEF Begin, RedisUnavailable, RedisFails, Admit, Asking
<1>2. ASSUME NEW r \in Requests, incrementRateLimitBucket(r) PROVE FullIsLimited'
  BY <1>2 DEF incrementRateLimitBucket, checkRateLimitBucket, Asking
<1>3. CASE UNCHANGED <<request, over>>
  BY <1>3
<1> QED
  BY <1>1, <1>2, <1>3 DEF LimitNext, WindowEnds, limitVars

(* Counting adds the request to the bucket it is counted in when there is room,
   and to no other; a window that ends leaves what was counted before behind. *)
LEMMA LimitStepCounters == LimitTypeOK /\ CountersCover /\ [LimitNext]_limitVars => CountersCover'
<1> SUFFICES ASSUME LimitTypeOK, CountersCover, [LimitNext]_limitVars PROVE CountersCover'
  OBVIOUS
<1> DEFINE C(b, w) == {r \in Requests : <<b, w>> \in counted[r] /\ r \notin over}
           D(b, w) == {r \in Requests : <<b, w>> \in counted'[r] /\ r \notin over'}
           Past == \A r \in Requests, b \in Buckets, w \in 0 .. MaxWindows : <<b, w>> \in counted[r] => w <= window[b]
<1>1. /\ Past
      /\ \A b \in Buckets : Cardinality(C(b, window[b])) <= count[b]
      /\ \A b \in Buckets, w \in 0 .. MaxWindows : Cardinality(C(b, w)) <= LimitOf(b)
  BY DEF CountersCover, CountedIn
<1>2. ASSUME Past',
             \A b \in Buckets : Cardinality(D(b, window'[b])) <= count'[b],
             \A b \in Buckets, w \in 0 .. MaxWindows : Cardinality(D(b, w)) <= LimitOf(b)
      PROVE CountersCover'
  BY <1>2 DEF CountersCover, CountedIn, LimitOf
<1>3. ASSUME NEW b, NEW w PROVE IsFiniteSet(C(b, w)) /\ Cardinality(C(b, w)) \in Nat
  BY PartOfFinite, LimitAssumption
<1>4. ASSUME NEW b, NEW w PROVE Cardinality(D(b, w)) \in Nat
  BY PartOfFinite, LimitAssumption
<1>5. ASSUME NEW b, NEW w, D(b, w) \subseteq C(b, w) PROVE Cardinality(D(b, w)) <= Cardinality(C(b, w))
  BY <1>3, <1>5, PartOfFinite
<1>6. \A b \in Buckets : count[b] \in Nat /\ window[b] \in 0 .. MaxWindows /\ LimitOf(b) \in Nat
  BY LimitsAreNumbers DEF LimitTypeOK
<1>7. ASSUME NEW r \in Requests, incrementRateLimitBucket(r) PROVE CountersCover'
  <2> DEFINE b0 == Bucket(r)
             w0 == window[b0]
  <2>1. b0 \in Buckets /\ window' = window
    BY <1>7 DEF incrementRateLimitBucket, Asking, Bucket, LimitTypeOK
  <2>2. /\ count' = [count EXCEPT ![b0] = @ + 1]
        /\ counted' = [counted EXCEPT ![r] = @ \cup {<<b0, w0>>}]
        /\ over' = IF count'[b0] > LimitOf(b0) THEN over \cup {r} ELSE over
    BY <1>7 DEF incrementRateLimitBucket
  <2> HIDE DEF b0
  <2>3. /\ count'[b0] = count[b0] + 1
        /\ \A b \in Buckets : b # b0 => count'[b] = count[b]
        /\ counted'[r] = counted[r] \cup {<<b0, w0>>}
        /\ \A q \in Requests : q # r => counted'[q] = counted[q]
    BY <2>1, <2>2 DEF LimitTypeOK
  <2>4. Past'
    BY <1>1, <1>6, <2>1, <2>3, LimitAssumption
  <2>5. ASSUME NEW b, NEW w, <<b, w>> # <<b0, w0>> PROVE D(b, w) \subseteq C(b, w)
    BY <2>2, <2>3, <2>5
  <2>6. Cardinality(D(b0, w0)) <= count'[b0] /\ Cardinality(D(b0, w0)) <= LimitOf(b0)
    <3>1. CASE count'[b0] > LimitOf(b0)
      <4>1. D(b0, w0) \subseteq C(b0, w0)
        BY <2>2, <2>3, <3>1
      <4>2. Cardinality(D(b0, w0)) <= Cardinality(C(b0, w0))
        BY <1>5, <4>1
      <4> HIDE DEF C, D
      <4> QED
        BY <1>1, <1>3, <1>4, <1>6, <2>1, <2>3, <4>2
    <3>2. CASE ~(count'[b0] > LimitOf(b0))
      <4>1. D(b0, w0) \subseteq C(b0, w0) \cup {r}
        BY <2>2, <2>3, <3>2
      <4>2. /\ IsFiniteSet(C(b0, w0) \cup {r})
            /\ Cardinality(C(b0, w0) \cup {r}) <= Cardinality(C(b0, w0)) + 1
        <5> HIDE DEF C
        <5>1. IsFiniteSet(C(b0, w0)) /\ Cardinality(C(b0, w0)) \in Nat
          BY <1>3
        <5>2. /\ IsFiniteSet(C(b0, w0) \cup {r})
              /\ Cardinality(C(b0, w0) \cup {r}) =
                    IF r \in C(b0, w0) THEN Cardinality(C(b0, w0)) ELSE Cardinality(C(b0, w0)) + 1
          BY <5>1, FS_AddElement
        <5> QED
          BY <5>1, <5>2
      <4>3. Cardinality(D(b0, w0)) <= Cardinality(C(b0, w0) \cup {r}) /\ Cardinality(C(b0, w0) \cup {r}) \in Nat
        BY <4>1, <4>2, PartOfFinite
      <4> HIDE DEF C, D
      <4> QED
        BY <1>1, <1>3, <1>4, <1>6, <2>1, <2>3, <3>2, <4>2, <4>3
    <3> QED
      BY <3>1, <3>2
  <2>7. ASSUME NEW b \in Buckets, NEW w \in 0 .. MaxWindows, <<b, w>> # <<b0, w0>>
        PROVE Cardinality(D(b, w)) <= Cardinality(C(b, w))
    BY <1>5, <2>5, <2>7
  <2> HIDE DEF C, D, w0
  <2>8. ASSUME NEW b \in Buckets PROVE Cardinality(D(b, window'[b])) <= count'[b]
    <3>1. CASE b = b0
      BY <2>1, <2>6, <3>1 DEF w0
    <3>2. CASE b # b0
      <4>1. Cardinality(D(b, window[b])) <= Cardinality(C(b, window[b]))
        BY <1>6, <2>7, <3>2
      <4> QED
        BY <1>1, <1>3, <1>4, <1>6, <2>1, <2>3, <3>2, <4>1
    <3> QED
      BY <3>1, <3>2
  <2>9. ASSUME NEW b \in Buckets, NEW w \in 0 .. MaxWindows PROVE Cardinality(D(b, w)) <= LimitOf(b)
    BY <1>1, <1>3, <1>4, <1>6, <2>6, <2>7
  <2> QED
    BY <1>2, <2>4, <2>8, <2>9
<1>8. ASSUME NEW r \in Requests, RedisUnavailable(r) PROVE CountersCover'
  <2>1. /\ UNCHANGED <<window, counted, over>>
        /\ Bucket(r) \in Buckets
        /\ count' = count \/ count' = [count EXCEPT ![Bucket(r)] = @ + 1]
    BY <1>8 DEF RedisUnavailable, Asking, Bucket, LimitTypeOK
  <2>2. \A b \in Buckets : count[b] <= count'[b] /\ count'[b] \in Nat
    <3>1. CASE count' = count
      BY <1>6, <3>1
    <3>2. CASE count' = [count EXCEPT ![Bucket(r)] = @ + 1]
      <4>1. \A b \in Buckets : count'[b] = IF b = Bucket(r) THEN count[b] + 1 ELSE count[b]
        BY <3>2 DEF LimitTypeOK
      <4> QED
        BY <1>6, <4>1
    <3> QED
      BY <2>1, <3>1, <3>2
  <2>3. Past' /\ \A b, w : D(b, w) = C(b, w)
    BY <1>1, <2>1
  <2> HIDE DEF C, D
  <2> QED
    BY <1>1, <1>2, <1>3, <1>6, <2>1, <2>2, <2>3
<1>9. ASSUME NEW b0 \in Buckets, WindowEnds(b0) PROVE CountersCover'
  <2>1. /\ UNCHANGED <<counted, over>>
        /\ count' = [count EXCEPT ![b0] = 0] /\ window' = [window EXCEPT ![b0] = @ + 1]
        /\ window[b0] < MaxWindows
    BY <1>9 DEF WindowEnds
  <2>2. /\ count'[b0] = 0 /\ window'[b0] = window[b0] + 1 /\ window'[b0] \in 0 .. MaxWindows
        /\ \A b \in Buckets : b # b0 => count'[b] = count[b] /\ window'[b] = window[b]
    BY <1>6, <2>1, LimitAssumption DEF LimitTypeOK
  <2>3. Past'
    BY <1>1, <1>6, <2>1, <2>2, LimitAssumption
  <2>4. D(b0, window'[b0]) = {}
    BY <1>1, <1>6, <2>1, <2>2, LimitAssumption
  <2>5. \A b, w : D(b, w) = C(b, w)
    BY <2>1
  <2> HIDE DEF C, D
  <2>6. ASSUME NEW b \in Buckets PROVE Cardinality(D(b, window'[b])) <= count'[b]
    <3>1. CASE b = b0
      BY <2>2, <2>4, <3>1, FS_EmptySet
    <3>2. CASE b # b0
      BY <1>1, <2>2, <2>5, <3>2
    <3> QED
      BY <3>1, <3>2
  <2>7. \A b \in Buckets, w \in 0 .. MaxWindows : Cardinality(D(b, w)) <= LimitOf(b)
    BY <1>1, <2>5
  <2> QED
    BY <1>2, <2>3, <2>6, <2>7
<1>10. CASE UNCHANGED <<count, window, counted, over>>
  BY <1>10 DEF CountersCover, CountedIn
<1> QED
  BY <1>7, <1>8, <1>9, <1>10 DEF LimitNext, Begin, RedisFails, Admit, limitVars

(* The invariant of the counters holds in every behaviour. *)
LEMMA LimitInvariant == LimitSpec => []LimitInv
<1>1. LimitInv /\ [LimitNext]_limitVars => LimitInv'
  BY LimitStepTypes, LimitStepFull, LimitStepCounters DEF LimitInv
<1> QED
  BY <1>1, LimitInitInv, PTL DEF LimitSpec

(* In no window of a bucket do more requests pass that were counted in it than
   its limit, for any limits, users and number of requests side by side. *)
THEOREM LimitBounds == LimitSpec => []AdmissionBounded
<1>1. LimitInv => AdmissionBounded
  <2> SUFFICES ASSUME LimitInv PROVE AdmissionBounded
    OBVIOUS
  <2>1. over \cap Passed = {}
    BY DEF LimitInv, FullIsLimited, Passed
  <2>2. ASSUME NEW b \in Buckets, NEW w \in 0 .. MaxWindows
        PROVE Cardinality({r \in Passed : <<b, w>> \in counted[r]}) <= LimitOf(b)
    <3>1. {r \in Passed : <<b, w>> \in counted[r]} \subseteq CountedIn(b, w)
      BY <2>1 DEF Passed, CountedIn
    <3>2. IsFiniteSet(CountedIn(b, w))
      BY LimitAssumption, FS_Subset DEF CountedIn
    <3>3. /\ Cardinality({r \in Passed : <<b, w>> \in counted[r]}) <= Cardinality(CountedIn(b, w))
          /\ Cardinality({r \in Passed : <<b, w>> \in counted[r]}) \in Nat
      BY <3>1, <3>2, FS_Subset, FS_CardinalityType
    <3> QED
      BY <3>2, <3>3, FS_CardinalityType, LimitsAreNumbers DEF LimitInv, CountersCover
  <2> QED
    BY <2>1, <2>2 DEF AdmissionBounded
<1> QED
  BY <1>1, LimitInvariant, PTL

-----------------------------------------------------------------------------
(***************************************************************************)
(* The circuit breaker.  A caller becomes idle only by recording, and      *)
(* recording ends a half-open state; so whoever made the breaker half-open *)
(* is still on the way while it is.                                        *)
(***************************************************************************)

Breaker == [state : {"closed", "open", "half_open"}, failures : Nat, inFlight : BOOLEAN]

CallerPC == {"idle", "attempt", "sleep", "succeeded", "failed"}

BreakerInv ==
    /\ breaker \in Breaker
    /\ DOMAIN caller = Calls /\ \A c \in Calls : caller[c].pc \in CallerPC
    /\ \A c \in Calls : DOMAIN caller[c] = {"pc", "left"}
    /\ HalfOpenHasTrial

(* At first the breaker is closed and nobody is on his way. *)
LEMMA BreakerInitInv == BreakerInit => BreakerInv
  BY DEF BreakerInit, BreakerInv, Breaker, CallerPC, HalfOpenHasTrial

\* A step of one caller that is not idle after it and leaves the breaker alone.
LEMMA StaysOnTheWay ==
  ASSUME BreakerInv, NEW c \in Calls, caller[c].pc # "idle", UNCHANGED breaker,
         DOMAIN caller' = Calls, \A d \in Calls \ {c} : caller'[d] = caller[d],
         caller'[c].pc \in CallerPC \ {"idle"}, DOMAIN caller'[c] = {"pc", "left"}
  PROVE  BreakerInv'
  BY DEF BreakerInv, HalfOpenHasTrial, Breaker

(* Every step of a caller keeps the invariant. *)
LEMMA BreakerStepInv == BreakerInv /\ [BreakerNext]_breakerVars => BreakerInv'
<1> SUFFICES ASSUME BreakerInv, [BreakerNext]_breakerVars PROVE BreakerInv'
  OBVIOUS
<1>0. /\ breaker \in Breaker /\ DOMAIN caller = Calls
      /\ \A c \in Calls : DOMAIN caller[c] = {"pc", "left"} /\ caller[c].pc \in CallerPC
      /\ breaker.state = "half_open" => breaker.inFlight /\ \E c \in Calls : caller[c].pc # "idle"
  BY DEF BreakerInv, HalfOpenHasTrial
<1>1. ASSUME NEW c \in Calls, NEW to \in CallerPC \ {"idle"}, Goes(c, to),
             caller[c].pc # "idle", UNCHANGED breaker
      PROVE  BreakerInv'
  <2>1. /\ DOMAIN caller' = Calls /\ \A d \in Calls \ {c} : caller'[d] = caller[d]
        /\ caller'[c] = [caller[c] EXCEPT !.pc = to]
    BY <1>0, <1>1 DEF Goes
  <2>2. caller'[c].pc = to /\ DOMAIN caller'[c] = {"pc", "left"}
    BY <1>0, <2>1
  <2> QED
    BY <1>1, <2>1, <2>2, StaysOnTheWay
<1>2. ASSUME NEW c \in Calls, Allow(c) PROVE BreakerInv'
  <2>1. PICK attempts : caller' = [caller EXCEPT ![c] = [pc |-> "attempt", left |-> attempts - 1]]
    BY <1>2 DEF Allow, Enters
  <2>2. /\ DOMAIN caller' = Calls /\ \A d \in Calls \ {c} : caller'[d] = caller[d]
        /\ caller'[c].pc = "attempt" /\ DOMAIN caller'[c] = {"pc", "left"}
    BY <1>0, <2>1
  <2>3. breaker' \in Breaker /\ (breaker'.state = "half_open" => breaker'.inFlight)
    BY <1>0, <1>2 DEF Allow, Breaker
  <2> QED
    BY <1>0, <2>2, <2>3 DEF BreakerInv, HalfOpenHasTrial, CallerPC
<1>3. CASE CoolDown
  BY <1>0, <1>3 DEF CoolDown, BreakerInv, HalfOpenHasTrial
<1>4. ASSUME NEW c \in Calls, Succeed(c) \/ Fail(c) \/ Interrupted(c) PROVE BreakerInv'
  <2>1. /\ caller[c].pc # "idle" /\ UNCHANGED breaker
        /\ Goes(c, "succeeded") \/ Goes(c, "failed") \/ Goes(c, "sleep")
    BY <1>4 DEF Succeed, Fail, Interrupted
  <2> QED
    BY <1>1, <2>1 DEF CallerPC
<1>5. ASSUME NEW c \in Calls, WakeUp(c) PROVE BreakerInv'
  <2>1. /\ DOMAIN caller' = Calls /\ \A d \in Calls \ {c} : caller'[d] = caller[d]
        /\ caller'[c].pc = "attempt" /\ DOMAIN caller'[c] = {"pc", "left"}
        /\ caller[c].pc # "idle" /\ UNCHANGED breaker
    BY <1>0, <1>5 DEF WakeUp
  <2> QED
    BY <2>1, StaysOnTheWay DEF CallerPC
<1>6. ASSUME NEW c \in Calls, RecordSuccess(c) \/ RecordFailure(c) PROVE BreakerInv'
  <2>1. Goes(c, "idle")
    BY <1>6 DEF RecordSuccess, RecordFailure
  <2>2. /\ DOMAIN caller' = Calls /\ \A d \in Calls \ {c} : caller'[d] = caller[d]
        /\ caller'[c].pc = "idle" /\ DOMAIN caller'[c] = {"pc", "left"}
    BY <1>0, <2>1 DEF Goes
  <2>3. breaker' \in Breaker /\ breaker'.state # "half_open"
    <3>1. CASE RecordSuccess(c)
      BY <3>1 DEF RecordSuccess, Closed, Breaker
    <3>2. CASE RecordFailure(c)
      <4>1. breaker.failures \in Nat /\ breaker.failures + 1 \in Nat
        BY <1>0 DEF Breaker
      <4>2. CASE breaker.state = "half_open"
        <5>1. breaker' = Open(breaker.failures)
          BY <3>2, <4>2 DEF RecordFailure
        <5> QED
          BY <4>1, <5>1 DEF Open, Breaker
      <4>3. CASE breaker.state = "open"
        <5>1. breaker' = breaker
          BY <3>2, <4>3 DEF RecordFailure
        <5> QED
          BY <1>0, <4>3, <5>1
      <4>4. CASE breaker.state = "closed" /\ breaker.failures + 1 >= Threshold
        <5>1. breaker' = Open(breaker.failures + 1)
          BY <3>2, <4>4 DEF RecordFailure
        <5> QED
          BY <4>1, <5>1 DEF Open, Breaker
      <4>5. CASE breaker.state = "closed" /\ ~(breaker.failures + 1 >= Threshold)
        <5>1. breaker' = [breaker EXCEPT !.failures = breaker.failures + 1]
          BY <3>2, <4>5 DEF RecordFailure
        <5> QED
          BY <1>0, <4>1, <4>5, <5>1 DEF Breaker
      <4> QED
        BY <1>0, <4>2, <4>3, <4>4, <4>5 DEF Breaker
    <3> QED
      BY <1>6, <3>1, <3>2
  <2> QED
    BY <1>0, <2>2, <2>3 DEF BreakerInv, HalfOpenHasTrial, CallerPC
<1>7. CASE UNCHANGED breakerVars
  BY <1>0, <1>7 DEF breakerVars, BreakerInv, HalfOpenHasTrial
<1> QED
  BY <1>2, <1>3, <1>4, <1>5, <1>6, <1>7 DEF BreakerNext

(***************************************************************************)
(* A half-open breaker waits for a caller that will record: it cannot      *)
(* refuse everybody for ever.                                              *)
(***************************************************************************)
THEOREM HalfOpenIsTried == BreakerSpec => []HalfOpenHasTrial
<1>1. BreakerInv => HalfOpenHasTrial
  BY DEF BreakerInv
<1> QED
  BY BreakerInitInv, BreakerStepInv, <1>1, PTL DEF BreakerSpec

-----------------------------------------------------------------------------
(***************************************************************************)
(* The read replicas.  When a write is acknowledged the cookie of its      *)
(* client ends no earlier than TTL - Delay after the commit, also when the *)
(* answer of an older write overtakes it, because an answer is at most     *)
(* Delay old.  A read that is past its cookie is therefore that late; the  *)
(* replica was found at most MaxLag behind less than CheckInterval before; *)
(* so it has the commit.                                                   *)
(***************************************************************************)

\* No commit lies in the future, and an answer under way is at most Delay old.
AnswersInTime ==
    \A w \in Writes :
        /\ write[w].committed <= now
        /\ write[w].phase = "answered" => write[w].until >= now + TTL - Delay

\* What the client counts on is covered by the cookie it has now.
CookieCovers ==
    \A w \in Writes : write[w].phase = "acked" => cookie >= write[w].committed + TTL - Delay

\* What the monitor found: the replica had all that was older than MaxLag then.
MonitorTrue == healthy => applied >= checkedAt - MaxLag

\* A read on its way: its cookie covers its writes, then its clock is past them, then the
\* replica has them.
ReadCovered(r) ==
    /\ \A w \in read[r].acked : write[w].phase = "acked"
    /\ read[r].at <= now
    /\ read[r].phase = "routing" =>
          \A w \in read[r].acked : read[r].until >= write[w].committed + TTL - Delay
    /\ read[r].phase = "checking" =>
          \A w \in read[r].acked : read[r].at >= write[w].committed + TTL - Delay
    /\ read[r].phase = "reader" => \A w \in read[r].acked : write[w].committed < applied
    /\ read[r].phase = "done" => read[r].acked \subseteq read[r].saw

RoutingInv ==
    /\ TypeOK /\ AnswersInTime /\ CookieCovers /\ MonitorTrue
    /\ \A r \in Reads : ReadCovered(r)

(* Every step keeps the types: the monitor's clock is that of a read, which is past. *)
LEMMA RoutingStepTypes ==
  ASSUME TypeOK, \A r \in Reads : read[r].at <= now, [Next]_vars PROVE TypeOK'
<1>0. TTL \in Nat
  BY RoutingAssumption
<1> USE <1>0 DEF TypeOK
<1>1. ASSUME NEW w \in Writes, Commit(w) PROVE TypeOK'
  BY <1>1 DEF Commit, WriteState
<1>2. ASSUME NEW w \in Writes, refreshStickyWriter(w) PROVE TypeOK'
  <2>1. now + TTL \in Nat
    OBVIOUS
  <2>2. [write[w] EXCEPT !.phase = "answered", !.until = now + TTL] \in WriteState
    BY <2>1 DEF WriteState
  <2>3. write' \in [Writes -> WriteState]
    BY <1>2, <2>2 DEF refreshStickyWriter
  <2> QED
    BY <1>2, <2>3 DEF refreshStickyWriter
<1>3. ASSUME NEW w \in Writes, Receive(w) PROVE TypeOK'
  BY <1>3 DEF Receive, WriteState
<1>4. ASSUME NEW r \in Reads, StartRead(r) PROVE TypeOK'
  BY <1>4 DEF StartRead, ReadState
<1>5. ASSUME NEW r \in Reads, Reader(r) PROVE TypeOK'
  <2>1. read'[r] \in ReadState /\ read' = [read EXCEPT ![r] = read'[r]]
    BY <1>5 DEF Reader, ReadState
  <2> QED
    BY <1>5, <2>1 DEF Reader
<1>6. ASSUME NEW r \in Reads, UseLastCheck(r) PROVE TypeOK'
  BY <1>6 DEF UseLastCheck, ReadState
<1>7. ASSUME NEW r \in Reads, Probe(r) PROVE TypeOK'
  BY <1>7 DEF Probe, Measure, ReadState
<1>8. ASSUME NEW r \in Reads, Query(r) PROVE TypeOK'
  <2>1. read'[r] \in ReadState /\ read' = [read EXCEPT ![r] = read'[r]]
    BY <1>8 DEF Query, Committed, Visible, ReadState
  <2> QED
    BY <1>8, <2>1 DEF Query
<1>9. ASSUME OthersProbe PROVE TypeOK'
  BY <1>9 DEF OthersProbe, Measure
<1>10. ASSUME Apply PROVE TypeOK'
  BY <1>10 DEF Apply
<1>11. ASSUME Tick PROVE TypeOK'
  BY <1>11 DEF Tick
<1>12. CASE UNCHANGED vars
  BY <1>12 DEF vars
<1> QED
  BY <1>1, <1>2, <1>3, <1>4, <1>5, <1>6, <1>7, <1>8, <1>9, <1>10, <1>11, <1>12 DEF Next
(* At the start nothing is written and nobody reads. *)
LEMMA RoutingInitInv == Init => RoutingInv
  BY RoutingAssumption, SMT
     DEF Init, RoutingInv, TypeOK, WriteState, ReadState, AnswersInTime, CookieCovers, MonitorTrue, ReadCovered

(* Every step keeps the invariant. *)
LEMMA RoutingStepInv == RoutingInv /\ [Next]_vars => RoutingInv'
<1> SUFFICES ASSUME RoutingInv, [Next]_vars PROVE RoutingInv'
  OBVIOUS
<1>0. TypeOK /\ TypeOK'
  BY RoutingStepTypes DEF RoutingInv, ReadCovered
<1> USE RoutingAssumption, <1>0 DEF RoutingInv, TypeOK, WriteState, ReadState
<1>1. AnswersInTime'
  <2>1. ASSUME NEW w \in Writes, Commit(w) PROVE AnswersInTime'
    BY <2>1 DEF Commit, AnswersInTime
  <2>2. ASSUME NEW w \in Writes, refreshStickyWriter(w) PROVE AnswersInTime'
    BY <2>2 DEF refreshStickyWriter, AnswersInTime
  <2>3. ASSUME NEW w \in Writes, Receive(w) PROVE AnswersInTime'
    BY <2>3 DEF Receive, AnswersInTime
  <2>4. ASSUME Tick PROVE AnswersInTime'
    BY <2>4 DEF Tick, AnswersInTime
  <2>5. ASSUME UNCHANGED <<now, write>> PROVE AnswersInTime'
    BY <2>5 DEF AnswersInTime
  <2> QED
    BY <2>1, <2>2, <2>3, <2>4, <2>5
       DEF Next, vars, StartRead, Reader, UseLastCheck, Probe, Query, OthersProbe, Apply
<1>2. CookieCovers'
  <2>1. ASSUME NEW w \in Writes, Commit(w) PROVE CookieCovers'
    BY <2>1 DEF Commit, CookieCovers
  <2>2. ASSUME NEW w \in Writes, refreshStickyWriter(w) PROVE CookieCovers'
    BY <2>2 DEF refreshStickyWriter, CookieCovers
  <2>3. ASSUME NEW w \in Writes, Receive(w) PROVE CookieCovers'
    BY <2>3 DEF Receive, CookieCovers, AnswersInTime
  <2>4. ASSUME UNCHANGED <<cookie, write>> PROVE CookieCovers'
    BY <2>4 DEF CookieCovers
  <2> QED
    BY <2>1, <2>2, <2>3, <2>4
       DEF Next, vars, StartRead, Reader, UseLastCheck, Probe, Query, OthersProbe, Apply, Tick
<1>3. MonitorTrue'
  <2>1. ASSUME NEW r \in Reads, Probe(r) PROVE MonitorTrue'
    BY <2>1 DEF Probe, Measure, CurrentReplicaLag, MonitorTrue, ReadCovered
  <2>2. ASSUME OthersProbe PROVE MonitorTrue'
    BY <2>2 DEF OthersProbe, Measure, CurrentReplicaLag, MonitorTrue
  <2>3. ASSUME UNCHANGED <<checkedAt, healthy, applied>> PROVE MonitorTrue'
    BY <2>3 DEF MonitorTrue
  <2>4. ASSUME Apply PROVE MonitorTrue'
    BY <2>4 DEF Apply, MonitorTrue
  <2> QED
    BY <2>1, <2>2, <2>3, <2>4
       DEF Next, vars, Commit, refreshStickyWriter, Receive, StartRead, Reader, UseLastCheck, Query, Tick
<1>4. ASSUME NEW q \in Reads PROVE ReadCovered(q)'
  <2> USE DEF ReadCovered
  <2>1. ASSUME NEW w \in Writes, Commit(w) PROVE ReadCovered(q)'
    BY <2>1 DEF Commit
  <2>2. ASSUME NEW w \in Writes, refreshStickyWriter(w) PROVE ReadCovered(q)'
    BY <2>2 DEF refreshStickyWriter
  <2>3. ASSUME NEW w \in Writes, Receive(w) PROVE ReadCovered(q)'
    BY <2>3 DEF Receive
  <2>4. ASSUME NEW r \in Reads, StartRead(r) PROVE ReadCovered(q)'
    <3>1. CASE q = r
      <4> DEFINE acked == {w \in Writes : write[w].phase = "acked"}
      <4>1. read'[q] = [read[q] EXCEPT !.phase = "routing", !.until = cookie, !.acked = acked]
        BY <2>4, <3>1 DEF StartRead
      <4>2. \A w \in acked : write[w].phase = "acked" /\ cookie >= write[w].committed + TTL - Delay
        BY DEF CookieCovers
      <4> HIDE DEF acked
      <4>3. read'[q].phase = "routing" /\ read'[q].until = cookie /\ read'[q].acked = acked
            /\ read'[q].at = read[q].at
        BY <4>1
      <4>4. write' = write /\ now' = now /\ read[q].at <= now
        BY <2>4 DEF StartRead
      <4> HIDE <1>0, <2>4 DEF RoutingInv, TypeOK, WriteState, ReadState
      <4> QED
        BY <4>2, <4>3, <4>4
    <3>2. CASE q # r
      BY <2>4, <3>2 DEF StartRead
    <3> QED
      BY <3>1, <3>2
  <2>5. ASSUME NEW r \in Reads, Reader(r) PROVE ReadCovered(q)'
    BY <2>5 DEF Reader, stickyWriterActive
  <2>6. ASSUME NEW r \in Reads, UseLastCheck(r) PROVE ReadCovered(q)'
    BY <2>6 DEF UseLastCheck, Fresh, MonitorTrue
  <2>7. ASSUME NEW r \in Reads, Probe(r) PROVE ReadCovered(q)'
    <3>1. CASE q = r
      <4>1. healthy' => \A w \in read[q].acked : write[w].committed < applied
        <5>1. SUFFICES ASSUME healthy', NEW w \in read[q].acked PROVE write[w].committed < applied
          OBVIOUS
        <5>2. /\ now - applied <= MaxLag /\ read[q].at <= now
              /\ read[q].at >= write[w].committed + TTL - Delay
          BY <2>7, <3>1, <5>1 DEF Probe, Measure, CurrentReplicaLag
        <5>3. w \in Writes /\ write[w].committed \in Nat /\ read[q].at \in Nat
          OBVIOUS
        <5> QED
          BY <5>2, <5>3
      <4>2. /\ read'[q].phase = IF healthy' THEN "reader" ELSE "writer"
            /\ read'[q].acked = read[q].acked /\ read'[q].at = read[q].at
        BY <2>7, <3>1 DEF Probe
      <4> QED
        BY <2>7, <4>1, <4>2 DEF Probe
    <3>2. CASE q # r
      BY <2>7, <3>2 DEF Probe
    <3> QED
      BY <3>1, <3>2
  <2>8. ASSUME NEW r \in Reads, Query(r) PROVE ReadCovered(q)'
    <3>1. CASE q = r
      <4>1. /\ read'[q].phase = "done" /\ read'[q].at = 0 /\ read'[q].acked = read[q].acked
            /\ read'[q].saw = IF read[q].phase = "writer" THEN Committed ELSE Visible
        BY <2>8, <3>1 DEF Query
      <4>2. read[q].acked \subseteq IF read[q].phase = "writer" THEN Committed ELSE Visible
        BY <2>8, <3>1 DEF Query, Committed, Visible
      <4> QED
        BY <2>8, <4>1, <4>2 DEF Query
    <3>2. CASE q # r
      BY <2>8, <3>2 DEF Query
    <3> QED
      BY <3>1, <3>2
  <2>9. ASSUME UNCHANGED <<write, read>>, now' >= now, applied' >= applied PROVE ReadCovered(q)'
    BY <2>9
  <2> QED
    BY <2>1, <2>2, <2>3, <2>4, <2>5, <2>6, <2>7, <2>8, <2>9
       DEF Next, vars, OthersProbe, Apply, Tick
<1> QED
  BY <1>1, <1>2, <1>3, <1>4

(* The variables keep their types for any writes, reads and times. *)
THEOREM RoutingTypeCorrect == Spec => []TypeOK
<1>1. RoutingInv => TypeOK
  BY DEF RoutingInv
<1> QED
  BY <1>1, RoutingInitInv, RoutingStepInv, PTL DEF Spec

(* A client that has been told of its write sees it in every read it starts afterwards: the *)
(* cookie of StickyWriter and the lag monitor of the router together leave no gap.          *)
THEOREM ReadYourWrites == Spec => []ReadsOwnWrites
<1>1. RoutingInv => ReadsOwnWrites
  BY DEF RoutingInv, ReadCovered, ReadsOwnWrites
<1> QED
  BY <1>1, RoutingInitInv, RoutingStepInv, PTL DEF Spec

-----------------------------------------------------------------------------
(***************************************************************************)
(* The media asset.  Nobody removes the staged object before the final one *)
(* is there, and what begins after a deletion was answered finds the row   *)
(* gone.                                                                   *)
(***************************************************************************)

\* Until a deletion begins with the objects, an upload is in the store, and once it was copied under its final key.
ObjectsKept ==
    deletion.step \in {"new", "object"} =>
        /\ uploaded => objects # {}
        /\ row.key = "final" => "final" \in objects
        /\ \A c \in Completions :
              completion[c].step \in {"unstage", "record"} =>
                  completion[c].key = "staging" /\ "final" \in objects

ReadyIsFinal == row.status = "ready" => row.key = "final"

LateIsGone ==
    /\ flight.late => row.gone
    /\ \A r \in Resolves : resolve[r].late => row.gone

\* A computation that began after the deletion finds nothing, and who waits for one is as late as it;
\* what a computation stores is the key of an object.
LateFindsNothing ==
    /\ flight.step = "store" => flight.key \in Keys
    /\ flight.late => flight.step # "store" /\ (flight.step = "deliver" => flight.key \notin Keys)
    /\ \A r \in Resolves : resolve[r].step = "waiting" => resolve[r].late = flight.late

MediaInv ==
    /\ MediaTypeOK /\ ObjectsKept /\ ReadyIsFinal
    /\ LateIsGone /\ LateFindsNothing /\ DeletedIsRefused

(* Initially nothing is uploaded and nobody has asked. *)
LEMMA MediaInitInv == MediaInit => MediaInv
<1> SUFFICES ASSUME MediaInit PROVE MediaInv
  OBVIOUS
<1> USE DEF MediaInit
<1>1. MediaTypeOK
  <2>1. row \in [status : {"pending", "ready", "failed", "deleted"}, key : Keys, gone : BOOLEAN]
        /\ objects \subseteq Keys /\ uploaded \in BOOLEAN /\ entry \in Keys \cup {"none"}
    BY DEF Keys
  <2>2. completion \in [Completions -> Completion] /\ deletion \in Deletion
    BY DEF Completion, Deletion
  <2>3. flight \in Computation
    BY DEF Computation, Found
  <2>4. resolve \in [Resolves -> Resolve] /\ \A r \in Resolves : resolve[r].step # "waiting"
    BY DEF Resolve, Found
  <2>5. mediaFaults \in 0 .. MaxMediaFaults
    BY MediaAssumption
  <2> HIDE DEF MediaInit
  <2> QED
    BY <2>1, <2>2, <2>3, <2>4, <2>5 DEF MediaTypeOK
<1>2. ObjectsKept /\ ReadyIsFinal
  <2>1. row.key = "staging" /\ row.status = "pending" /\ ~uploaded
    OBVIOUS
  <2>2. \A c \in Completions : completion[c].step = "new"
    OBVIOUS
  <2> QED
    BY <2>1, <2>2 DEF ObjectsKept, ReadyIsFinal
<1>3. LateIsGone /\ LateFindsNothing /\ DeletedIsRefused
  BY DEF LateIsGone, LateFindsNothing, DeletedIsRefused
<1> QED
  BY <1>1, <1>2, <1>3 DEF MediaInv

(* The upload, and the completions of it: reads and their cache are left alone, but for the invalidation. *)
LEMMA CompletionInv ==
  ASSUME MediaInv,
         \/ Upload
         \/ \E c \in Completions :
               \/ mediaAssetForEdit(c) \/ HeadObject(c) \/ markMediaAssetFailed(c) \/ CopyObject(c)
               \/ DeleteStaged(c) \/ RecordReady(c) \/ Invalidate(c) \/ CompletionFails(c)
  PROVE  MediaInv'
<1>0. MediaTypeOK /\ ObjectsKept /\ ReadyIsFinal /\ LateIsGone /\ LateFindsNothing /\ DeletedIsRefused
  BY DEF MediaInv
<1>1. ASSUME UNCHANGED <<deletion, flight, resolve>>, MediaTypeOK', row.gone => row'.gone,
             ObjectsKept', ReadyIsFinal'
      PROVE  MediaInv'
  BY <1>0, <1>1 DEF LateIsGone, LateFindsNothing, DeletedIsRefused, MediaInv
<1>2. CASE Upload
  <2>1. MediaTypeOK'
    BY <1>0, <1>2 DEF Upload, MediaTypeOK, Keys
  <2>2. ObjectsKept' /\ ReadyIsFinal'
    BY <1>0, <1>2 DEF Upload, ObjectsKept, ReadyIsFinal
  <2> QED
    BY <1>1, <1>2, <2>1, <2>2 DEF Upload
<1>3. ASSUME NEW c \in Completions, mediaAssetForEdit(c) PROVE MediaInv'
  <2> DEFINE x == [step |-> "head", key |-> row.key]
  <2>1. completion' = [completion EXCEPT ![c] = x] /\ x \in Completion
        /\ UNCHANGED <<row, objects, uploaded, deletion, entry, flight, resolve, mediaFaults>>
    BY <1>0, <1>3 DEF mediaAssetForEdit, MediaTypeOK, Completion
  <2>2. MediaTypeOK'
    BY <1>0, <2>1 DEF MediaTypeOK
  <2>3. ObjectsKept' /\ ReadyIsFinal'
    BY <1>0, <2>1 DEF ObjectsKept, ReadyIsFinal, MediaTypeOK
  <2> QED
    BY <1>1, <2>1, <2>2, <2>3
<1>4. ASSUME NEW c \in Completions, NEW to \in {"copy", "reject", "unstage", "record", "invalidate", "done"},
             completion' = [completion EXCEPT ![c].step = to],
             UNCHANGED <<uploaded, deletion, flight, resolve>>, entry' \in {entry, "none"},
             mediaFaults' \in 0 .. MaxMediaFaults, objects' \subseteq Keys,
             row' \in [status : {"pending", "ready", "failed", "deleted"}, key : Keys, gone : BOOLEAN],
             row'.gone = row.gone, ReadyIsFinal',
             deletion.step \in {"new", "object"} =>
                 /\ uploaded => objects' # {}
                 /\ "final" \in objects => "final" \in objects'
                 /\ row'.key = "final" => "final" \in objects'
                 /\ to \in {"unstage", "record"} => completion[c].key = "staging" /\ "final" \in objects'
      PROVE  MediaInv'
  <2> DEFINE x == [completion[c] EXCEPT !.step = to]
  <2>1. completion' = [completion EXCEPT ![c] = x] /\ x \in Completion /\ x.step = to /\ x.key = completion[c].key
    BY <1>0, <1>4 DEF MediaTypeOK, Completion
  <2> HIDE DEF x
  <2>2. MediaTypeOK'
    <3>1. completion' \in [Completions -> Completion] /\ entry' \in Keys \cup {"none"}
      BY <1>0, <1>4, <2>1 DEF MediaTypeOK
    <3> QED
      BY <1>0, <1>4, <3>1 DEF MediaTypeOK
  <2>3. ObjectsKept'
    <3>1. completion'[c] = x /\ \A d \in Completions : d # c => completion'[d] = completion[d]
      BY <1>0, <2>1 DEF MediaTypeOK
    <3> QED
      BY <1>0, <1>4, <2>1, <3>1 DEF ObjectsKept
  <2> QED
    BY <1>1, <1>4, <2>2, <2>3
<1>5. mediaFaults \in 0 .. MaxMediaFaults /\ MaxMediaFaults \in Nat /\ objects \subseteq Keys
      /\ row \in [status : {"pending", "ready", "failed", "deleted"}, key : Keys, gone : BOOLEAN]
      /\ \A c \in Completions : completion[c].key \in Keys \cup {"none"}
  BY <1>0, MediaAssumption DEF MediaTypeOK, Completion
<1>6. ASSUME NEW c \in Completions, HeadObject(c) \/ Invalidate(c) \/ CompletionFails(c) PROVE MediaInv'
  <2>1. PICK to \in {"copy", "reject", "done"} : completion' = [completion EXCEPT ![c].step = to]
    BY <1>6 DEF HeadObject, Invalidate, CompletionFails
  <2>2. UNCHANGED <<row, objects, uploaded, deletion, flight, resolve>> /\ entry' \in {entry, "none"}
        /\ mediaFaults' \in 0 .. MaxMediaFaults
    BY <1>5, <1>6 DEF HeadObject, Invalidate, CompletionFails, MediaFault
  <2> QED
    BY <1>0, <1>4, <1>5, <2>1, <2>2 DEF ObjectsKept, ReadyIsFinal
<1>7. ASSUME NEW c \in Completions, markMediaAssetFailed(c) PROVE MediaInv'
  <2>1. /\ completion' = [completion EXCEPT ![c].step = "invalidate"]
        /\ row' = IF row.gone THEN row ELSE [row EXCEPT !.status = "failed", !.key = row.key]
        /\ UNCHANGED <<objects, uploaded, deletion, entry, flight, resolve, mediaFaults>>
    BY <1>7 DEF markMediaAssetFailed, SetRow
  <2>2. row' \in [status : {"pending", "ready", "failed", "deleted"}, key : Keys, gone : BOOLEAN]
        /\ row'.gone = row.gone /\ row'.key = row.key /\ (row'.status = "ready" => row.status = "ready")
    BY <1>5, <2>1
  <2> QED
    BY <1>0, <1>4, <1>5, <2>1, <2>2 DEF ObjectsKept, ReadyIsFinal
<1>8. ASSUME NEW c \in Completions, CopyObject(c) PROVE MediaInv'
  <2>1. UNCHANGED <<row, uploaded, deletion, entry, flight, resolve, mediaFaults>>
    BY <1>8 DEF CopyObject
  <2>2. CASE CanCopy(completion[c].key)
    <3>1. objects' = objects \cup {"final"} /\ completion' = [completion EXCEPT ![c].step = "unstage"]
      BY <1>8, <2>2 DEF CopyObject
    <3>2. completion[c].key = "staging"
      BY <1>5, <2>2 DEF CanCopy, Keys
    <3> QED
      BY <1>0, <1>4, <1>5, <2>1, <3>1, <3>2 DEF ObjectsKept, ReadyIsFinal, Keys
  <2>3. CASE ~CanCopy(completion[c].key)
    <3>1. UNCHANGED objects /\ completion' = [completion EXCEPT ![c].step = "done"]
      BY <1>8, <2>3 DEF CopyObject
    <3> QED
      BY <1>0, <1>4, <1>5, <2>1, <3>1 DEF ObjectsKept, ReadyIsFinal
  <2> QED
    BY <2>2, <2>3
<1>9. ASSUME NEW c \in Completions, DeleteStaged(c) PROVE MediaInv'
  <2>1. /\ completion[c].step = "unstage" /\ objects' = objects \ {completion[c].key}
        /\ completion' = [completion EXCEPT ![c].step = "record"]
        /\ UNCHANGED <<row, uploaded, deletion, entry, flight, resolve, mediaFaults>>
    BY <1>9 DEF DeleteStaged
  <2>2. deletion.step \in {"new", "object"} => completion[c].key = "staging" /\ "final" \in objects /\ "final" \in objects'
    BY <1>0, <2>1 DEF ObjectsKept
  <2> QED
    BY <1>0, <1>4, <1>5, <2>1, <2>2 DEF ReadyIsFinal
<1>10. ASSUME NEW c \in Completions, RecordReady(c) PROVE MediaInv'
  <2>1. /\ completion[c].step = "record" /\ completion' = [completion EXCEPT ![c].step = "invalidate"]
        /\ row' = IF row.gone THEN row ELSE [row EXCEPT !.status = "ready", !.key = "final"]
        /\ UNCHANGED <<objects, uploaded, deletion, entry, flight, resolve, mediaFaults>>
    BY <1>10 DEF RecordReady, SetRow
  <2>2. row' \in [status : {"pending", "ready", "failed", "deleted"}, key : Keys, gone : BOOLEAN]
        /\ row'.gone = row.gone /\ (row'.status = "ready" => row'.key = "final")
    BY <1>0, <1>5, <2>1 DEF Keys, ReadyIsFinal
  <2>3. deletion.step \in {"new", "object"} => "final" \in objects
    BY <1>0, <2>1 DEF ObjectsKept
  <2> QED
    BY <1>0, <1>4, <1>5, <2>1, <2>2, <2>3 DEF ObjectsKept, ReadyIsFinal
<1> QED
  BY <1>2, <1>3, <1>6, <1>7, <1>8, <1>9, <1>10

(* The deletion: the row that is gone stays gone. *)
LEMMA DeletionInv ==
  ASSUME MediaInv,
         BeginDelete \/ DeleteObject \/ MarkDeleted \/ SoftDelete \/ InvalidateDeleted \/ DeletionFails
  PROVE  MediaInv'
<1>0. MediaTypeOK /\ ObjectsKept /\ ReadyIsFinal /\ LateIsGone /\ LateFindsNothing /\ DeletedIsRefused
  BY DEF MediaInv
<1>1. /\ UNCHANGED <<uploaded, completion, flight, resolve>> /\ entry' \in {entry, "none"}
      /\ mediaFaults' \in 0 .. MaxMediaFaults /\ objects' \subseteq objects
  BY <1>0, MediaAssumption
     DEF BeginDelete, DeleteObject, MarkDeleted, SoftDelete, InvalidateDeleted, DeletionFails, MediaFault, MediaTypeOK
<1>2. row' \in [status : {"pending", "ready", "failed", "deleted"}, key : Keys, gone : BOOLEAN]
      /\ row'.key = row.key /\ (row'.status = "ready" => row.status = "ready") /\ (row.gone => row'.gone)
  <2>1. row' \in {row, [row EXCEPT !.status = "deleted"], [row EXCEPT !.gone = TRUE]}
    BY DEF BeginDelete, DeleteObject, MarkDeleted, SoftDelete, InvalidateDeleted, DeletionFails
  <2> QED
    BY <1>0, <2>1 DEF MediaTypeOK
<1>3. deletion' \in Deletion /\ (deletion'.step \in {"new", "object"} => deletion.step = "new" /\ UNCHANGED objects)
  <2>1. CASE BeginDelete
    BY <1>0, <2>1 DEF BeginDelete, Deletion, MediaTypeOK
  <2>2. CASE DeleteObject \/ MarkDeleted \/ SoftDelete \/ InvalidateDeleted \/ DeletionFails
    <3>1. PICK to \in {"status", "row", "invalidate", "done"} : deletion' = [deletion EXCEPT !.step = to]
      BY <2>2 DEF DeleteObject, MarkDeleted, SoftDelete, InvalidateDeleted, DeletionFails, Deletes
    <3> QED
      BY <1>0, <3>1 DEF Deletion, MediaTypeOK
  <2> QED
    BY <2>1, <2>2
<1>4. MediaTypeOK'
  <2>1. entry' \in Keys \cup {"none"} /\ objects' \subseteq Keys
    BY <1>0, <1>1 DEF MediaTypeOK
  <2> QED
    BY <1>0, <1>1, <1>2, <1>3, <2>1 DEF MediaTypeOK
<1>5. ObjectsKept' /\ ReadyIsFinal'
  BY <1>0, <1>1, <1>2, <1>3 DEF ObjectsKept, ReadyIsFinal
<1>6. LateIsGone' /\ LateFindsNothing' /\ DeletedIsRefused'
  BY <1>0, <1>1, <1>2 DEF LateIsGone, LateFindsNothing, DeletedIsRefused
<1> QED
  BY <1>4, <1>5, <1>6 DEF MediaInv

(* The reads and the computation they share. *)
LEMMA ResolveInv ==
  ASSUME MediaInv,
         \/ \E r \in Resolves : LookUp(r) \/ authorizeCachedResolvedMediaAsset(r) \/ Join(r)
         \/ LookAgain \/ AuthorizeAgain \/ computeResolvedMediaAsset \/ cacheResolvedMediaAsset
         \/ Deliver \/ EntryExpires
  PROVE  MediaInv'
<1>0. MediaTypeOK /\ ObjectsKept /\ ReadyIsFinal /\ LateIsGone /\ LateFindsNothing /\ DeletedIsRefused
  BY DEF MediaInv
<1>1. UNCHANGED <<row, objects, uploaded, completion, deletion>> /\ mediaFaults' \in 0 .. MaxMediaFaults
  <2>1. UNCHANGED <<row, objects, uploaded, completion, deletion>> /\ (UNCHANGED mediaFaults \/ MediaFault)
    BY DEF LookUp, authorizeCachedResolvedMediaAsset, Join, LookAgain, AuthorizeAgain, computeResolvedMediaAsset,
           cacheResolvedMediaAsset, Deliver, EntryExpires
  <2> QED
    BY <1>0, <2>1, MediaAssumption DEF MediaFault, MediaTypeOK
<1>2. row \in [status : {"pending", "ready", "failed", "deleted"}, key : Keys, gone : BOOLEAN]
      /\ entry \in Keys \cup {"none"} /\ flight \in Computation /\ resolve \in [Resolves -> Resolve]
  BY <1>0 DEF MediaTypeOK
<1>3. ASSUME entry' \in Keys \cup {"none"}, flight' \in Computation, resolve' \in [Resolves -> Resolve],
             \A r \in Resolves : resolve'[r].step = "waiting" => flight'.step # "none",
             LateIsGone', LateFindsNothing', DeletedIsRefused'
      PROVE  MediaInv'
  <2>1. MediaTypeOK'
    BY <1>0, <1>1, <1>3 DEF MediaTypeOK
  <2>2. ObjectsKept' /\ ReadyIsFinal'
    BY <1>0, <1>1 DEF ObjectsKept, ReadyIsFinal
  <2> QED
    BY <1>3, <2>1, <2>2 DEF MediaInv
<1>4. ASSUME NEW r \in Resolves, NEW x \in Resolve, resolve' = [resolve EXCEPT ![r] = x],
             UNCHANGED <<entry, flight>>, x.step # "waiting", x.late => row.gone,
             x.late /\ x.step = "done" => x.found \notin Keys
      PROVE  MediaInv'
  <2>1. resolve' \in [Resolves -> Resolve] /\ resolve'[r] = x
        /\ \A q \in Resolves : q # r => resolve'[q] = resolve[q]
    BY <1>2, <1>4
  <2>2. LateIsGone' /\ LateFindsNothing' /\ DeletedIsRefused'
    BY <1>0, <1>1, <1>4, <2>1 DEF LateIsGone, LateFindsNothing, DeletedIsRefused
  <2>3. \A q \in Resolves : resolve'[q].step = "waiting" => flight'.step # "none"
    BY <1>0, <1>4, <2>1 DEF MediaTypeOK
  <2> QED
    BY <1>2, <1>3, <1>4, <2>1, <2>2, <2>3
<1>5. ASSUME NEW r \in Resolves, LookUp(r) PROVE MediaInv'
  <2> DEFINE x == [step |-> IF entry = "none" THEN "miss" ELSE "authorize", late |-> Deleted, found |-> entry]
  <2>1. resolve' = [resolve EXCEPT ![r] = x] /\ UNCHANGED <<entry, flight>>
    BY <1>5 DEF LookUp
  <2>2. Deleted \in BOOLEAN /\ (Deleted => row.gone)
    BY <1>2 DEF Deleted
  <2>3. x \in Resolve /\ x.step \notin {"waiting", "done"} /\ (x.late => row.gone)
    BY <1>2, <2>2 DEF Resolve, Found
  <2> HIDE DEF x
  <2> QED
    BY <1>4, <2>1, <2>3
<1>6. ASSUME NEW r \in Resolves, authorizeCachedResolvedMediaAsset(r) PROVE MediaInv'
  <2>1. /\ UNCHANGED <<entry, flight>>
        /\ \/ ~Readable /\ Sees(r, "done", "refused")
           \/ Readable /\ Sees(r, "miss", "none")
           \/ Readable /\ Sees(r, "done", resolve[r].found)
    BY <1>6 DEF authorizeCachedResolvedMediaAsset
  <2>2. ASSUME NEW step \in {"done", "miss"}, NEW found \in Found, Sees(r, step, found),
               resolve[r].late /\ step = "done" => found \notin Keys
        PROVE  MediaInv'
    <3> DEFINE x == [resolve[r] EXCEPT !.step = step, !.found = found]
    <3>1. resolve' = [resolve EXCEPT ![r] = x]
      BY <2>2 DEF Sees
    <3>2. x \in Resolve /\ x.step = step /\ x.found = found /\ x.late = resolve[r].late
      BY <1>2 DEF Resolve
    <3> HIDE DEF x
    <3>3. x.late => row.gone
      BY <1>0, <3>2 DEF LateIsGone
    <3> QED
      BY <1>4, <2>1, <2>2, <3>1, <3>2, <3>3
  <2>3. "refused" \in Found /\ "none" \in Found /\ resolve[r].found \in Found /\ "refused" \notin Keys
    BY <1>2 DEF Found, Resolve, Keys
  <2>4. Readable => ~resolve[r].late
    BY <1>0 DEF Readable, LateIsGone
  <2> QED
    BY <2>1, <2>2, <2>3, <2>4
<1>7. ASSUME NEW r \in Resolves, Join(r) PROVE MediaInv'
  <2> DEFINE f == IF flight.step = "none" THEN [step |-> "look", key |-> "none", late |-> Deleted] ELSE flight
             x == [resolve[r] EXCEPT !.step = "waiting", !.late = f.late]
  <2>1. flight' = f /\ resolve' = [resolve EXCEPT ![r] = x] /\ UNCHANGED entry
    BY <1>7 DEF Join
  <2>2. Deleted \in BOOLEAN /\ (Deleted => row.gone)
    BY <1>2 DEF Deleted
  <2>3. f \in Computation /\ f.step # "none" /\ (f.late => row.gone)
        /\ (flight.step # "none" => f = flight)
        /\ (f.late => f.step # "store" /\ (f.step = "deliver" => f.key \notin Keys))
        /\ (f.step = "store" => f.key \in Keys)
    BY <1>0, <1>2, <2>2 DEF Computation, Found, LateIsGone, LateFindsNothing
  <2> HIDE DEF f
  <2>4. x \in Resolve /\ x.step = "waiting" /\ x.late = f.late
    BY <1>2, <2>3 DEF Resolve, Computation
  <2> HIDE DEF x
  <2>5. resolve' \in [Resolves -> Resolve] /\ resolve'[r] = x
        /\ \A q \in Resolves : q # r => resolve'[q] = resolve[q]
    BY <1>2, <2>1, <2>4
  <2>6. \A q \in Resolves : resolve'[q].step = "waiting" => resolve'[q].late = flight'.late
    <3>1. \A q \in Resolves : resolve[q].step = "waiting" => f = flight
      BY <1>0, <2>3 DEF MediaTypeOK
    <3> QED
      BY <1>0, <2>1, <2>4, <2>5, <3>1 DEF LateFindsNothing
  <2>7. LateIsGone' /\ LateFindsNothing' /\ DeletedIsRefused'
    BY <1>0, <1>1, <2>1, <2>3, <2>4, <2>5, <2>6 DEF LateIsGone, LateFindsNothing, DeletedIsRefused
  <2> QED
    BY <1>2, <1>3, <2>1, <2>3, <2>5, <2>7
<1>8. ASSUME NEW to \in {"compute", "authorize", "deliver", "store"}, NEW key \in Found,
             flight.step # "none", flight' = [flight EXCEPT !.step = to, !.key = key],
             entry' \in Keys \cup {"none"}, UNCHANGED resolve,
             flight.late => to # "store" /\ (to = "deliver" => key \notin Keys),
             to = "store" => key \in Keys
      PROVE  MediaInv'
  <2>1. flight' \in Computation /\ flight'.step = to /\ flight'.key = key /\ flight'.late = flight.late
    BY <1>2, <1>8 DEF Computation
  <2>2. LateIsGone' /\ LateFindsNothing' /\ DeletedIsRefused'
    BY <1>0, <1>1, <1>8, <2>1 DEF LateIsGone, LateFindsNothing, DeletedIsRefused
  <2> QED
    BY <1>2, <1>3, <1>8, <2>1, <2>2
<1>9. Keys \subseteq Found /\ {"none", "empty", "refused"} \subseteq Found /\ flight.key \in Found
      /\ Keys \cap {"none", "empty", "refused"} = {} /\ row.key \in Keys /\ entry \in Found
      /\ (flight.late => ~Readable)
  BY <1>0, <1>2 DEF Found, Keys, Computation, LateIsGone, Readable
<1>10. CASE LookAgain
  BY <1>2, <1>8, <1>9, <1>10 DEF LookAgain, Flies
<1>11. CASE AuthorizeAgain
  <2>1. /\ flight.step = "authorize" /\ UNCHANGED <<entry, resolve>>
        /\ \/ ~Readable /\ flight' = [flight EXCEPT !.step = "deliver", !.key = "empty"]
           \/ Readable /\ flight' = [flight EXCEPT !.step = "compute", !.key = "none"]
           \/ Readable /\ flight' = [flight EXCEPT !.step = "deliver", !.key = flight.key]
    BY <1>11 DEF AuthorizeAgain, Flies
  <2> QED
    BY <1>2, <1>8, <1>9, <2>1
<1>12. CASE computeResolvedMediaAsset
  <2>1. /\ flight.step = "compute" /\ UNCHANGED <<entry, resolve>>
        /\ \/ Readable /\ flight' = [flight EXCEPT !.step = "store", !.key = row.key]
           \/ ~Readable /\ flight' = [flight EXCEPT !.step = "deliver", !.key = "refused"]
    BY <1>12 DEF computeResolvedMediaAsset, Flies
  <2> QED
    BY <1>2, <1>8, <1>9, <2>1
<1>13. CASE cacheResolvedMediaAsset
  <2>1. flight.step = "store" /\ flight' = [flight EXCEPT !.step = "deliver", !.key = flight.key] /\ UNCHANGED resolve
        /\ entry' \in {entry, flight.key}
    BY <1>13 DEF cacheResolvedMediaAsset, Flies
  <2>2. ~flight.late /\ entry' \in Keys \cup {"none"}
    BY <1>0, <1>2, <2>1 DEF LateFindsNothing
  <2> QED
    BY <1>2, <1>8, <1>9, <2>1, <2>2
<1>14. CASE Deliver
  <2>1. flight.step = "deliver" /\ flight' = [flight EXCEPT !.step = "none", !.key = "none"] /\ UNCHANGED entry
        /\ resolve' = [r \in Resolves |-> IF resolve[r].step = "waiting"
                                          THEN [resolve[r] EXCEPT !.step = "done", !.found = flight.key]
                                          ELSE resolve[r]]
    BY <1>14 DEF Deliver, Flies
  <2>2. flight' \in Computation /\ flight'.step = "none" /\ flight'.late = flight.late
    BY <1>2, <1>9, <2>1 DEF Computation
  <2>3. ASSUME NEW r \in Resolves
        PROVE  /\ resolve'[r] \in Resolve /\ resolve'[r].step # "waiting" /\ resolve'[r].late = resolve[r].late
               /\ \/ resolve[r].step = "waiting" /\ resolve'[r].found = flight.key
                  \/ resolve'[r] = resolve[r]
    BY <1>2, <1>9, <2>1 DEF Resolve
  <2>4. resolve' \in [Resolves -> Resolve]
    BY <2>1, <2>3
  <2>5. LateIsGone'
    BY <1>0, <1>1, <2>2, <2>3 DEF LateIsGone
  <2>6. LateFindsNothing'
    BY <2>2, <2>3 DEF LateFindsNothing
  <2>7. DeletedIsRefused'
    BY <1>0, <2>1, <2>3 DEF LateFindsNothing, DeletedIsRefused
  <2> QED
    BY <1>2, <1>3, <2>1, <2>2, <2>3, <2>4, <2>5, <2>6, <2>7
<1>15. CASE EntryExpires
  <2>1. entry' \in Keys \cup {"none"} /\ UNCHANGED <<flight, resolve>>
    BY <1>15 DEF EntryExpires
  <2>2. LateIsGone' /\ LateFindsNothing' /\ DeletedIsRefused'
    BY <1>0, <1>1, <2>1 DEF LateIsGone, LateFindsNothing, DeletedIsRefused
  <2> QED
    BY <1>0, <1>2, <1>3, <2>1, <2>2 DEF MediaTypeOK
<1> QED
  BY <1>5, <1>6, <1>7, <1>10, <1>11, <1>12, <1>13, <1>14, <1>15

(* The invariant of an asset holds in every behaviour. *)
LEMMA MediaInvariant == MediaSpec => []MediaInv
<1>1. MediaInv /\ UNCHANGED mediaVars => MediaInv'
  BY DEF mediaVars, MediaInv, MediaTypeOK, ObjectsKept, ReadyIsFinal, LateIsGone, LateFindsNothing, DeletedIsRefused
<1>2. MediaInv /\ [MediaNext]_mediaVars => MediaInv'
  BY <1>1, CompletionInv, DeletionInv, ResolveInv DEF MediaNext
<1> QED
  BY <1>2, MediaInitInv, PTL DEF MediaSpec

(* An uploaded object is kept until it is deleted, and deleted it is refused: for any number of
   completions and reads, failures and overlaps of them. *)
THEOREM MediaIsKept == MediaSpec => []MediaKept
<1>1. MediaInv => MediaKept
  BY DEF MediaInv, MediaKept, UploadSurvives, ObjectsKept, ReadyIsFinal
<1> QED
  BY <1>1, MediaInvariant, PTL

-----------------------------------------------------------------------------
(* The base of a growth run                                                *)

Readings == {"project", "version", "drafts"}

\* Every change has a number of its own, so what was changed is not what it was.
EditsCounted ==
    /\ source \in Nat /\ version \in Nat /\ edits \in 0 .. MaxEdits
    /\ draft \in [Platforms -> (0 .. edits) \cup {NoDraft}]
    /\ base \in [source : 0 .. source, version : 0 .. version, drafts : [Targets -> (0 .. edits) \cup {NoDraft}]]
    /\ current \in [source : Nat, version : Nat, drafts : [Targets -> (0 .. edits) \cup {NoDraft}]]

RunTyped ==
    /\ run \in [step : {"project", "version", "drafts", "insert", "stream", "check project", "check version",
                        "check drafts", "compare", "compile", "save", "fail", "done"},
                status : {"none", "running", "ready", "failed"}]
    /\ run.step \in Readings => disturbed \cap Platforms = {}
    /\ run.step = "project" => "source" \notin disturbed
    /\ run.step \in {"project", "version"} => "version" \notin disturbed

Other(a, b) == b = NoDraft \/ b > a

\* What was disturbed is not what the base says any more.
DisturbedDiffers ==
    /\ "source" \in disturbed => source > base.source
    /\ "version" \in disturbed => version > base.version
    /\ \A p \in disturbed \cap Targets : base.drafts[p] # NoDraft => Other(base.drafts[p], draft[p])

CheckedDiffers ==
    /\ run.step \in {"check version", "check drafts", "compare", "compile", "save"} =>
          ("source" \in disturbed => current.source > base.source)
    /\ run.step \in {"check drafts", "compare", "compile", "save"} =>
          ("version" \in disturbed => current.version > base.version)
    /\ run.step \in {"compare", "compile", "save"} =>
          \A p \in disturbed \cap Targets : base.drafts[p] # NoDraft => Other(base.drafts[p], current.drafts[p])

Kept ==
    /\ run.step \in {"compile", "save"} => compareGrowthProposalBaseVersions
    /\ run.step = "save" => events # {} /\ events \subseteq Targets
    /\ run.step # "done" => proposals = {} /\ run.status # "ready"

GrowthInv == EditsCounted /\ RunTyped /\ DisturbedDiffers /\ CheckedDiffers /\ Kept /\ ProposalsOnBase

(* Initially nothing is read. *)
LEMMA GrowthInitInv == GrowthInit => GrowthInv
<1> SUFFICES ASSUME GrowthInit PROVE GrowthInv
  OBVIOUS
<1> USE GrowthAssumption DEF GrowthInit
<1>1. EditsCounted
  BY DEF EditsCounted, Nothing, NoDraft
<1> QED
  BY <1>1 DEF GrowthInv, RunTyped, DisturbedDiffers, CheckedDiffers, Kept, ProposalsOnBase

(* A change that disturbs the run makes what it concerns differ from the base. *)
LEMMA GrowthEditInv ==
  ASSUME GrowthInv, EditSource \/ CreateVersion \/ \E p \in Platforms : ChangeDraft(p)
  PROVE  GrowthInv'
<1> USE GrowthAssumption
<1>0. EditsCounted /\ RunTyped /\ DisturbedDiffers /\ CheckedDiffers /\ Kept /\ ProposalsOnBase
  BY DEF GrowthInv
<1>1. PICK what \in {"source", "version"} \cup Platforms, since \in {{"version", "drafts"}, {"drafts"}, {}} :
          /\ disturbed' = IF run.step \in since \cup {"insert", "stream"} THEN disturbed \cup {what} ELSE disturbed
          /\ what = "source" => since = {"version", "drafts"}
          /\ what = "version" => since = {"drafts"}
          /\ what \in Platforms => since = {}
          /\ UNCHANGED <<run, base, current, events, proposals>> /\ edits < MaxEdits /\ edits' = edits + 1
          /\ source' = IF what = "source" THEN source + 1 ELSE source
          /\ version' = IF what = "version" THEN version + 1 ELSE version
          /\ IF what \in Platforms
             THEN \/ draft' = [draft EXCEPT ![what] = edits']
                  \/ draft' = [draft EXCEPT ![what] = NoDraft]
             ELSE draft' = draft
  <2>1. CASE EditSource
    BY <2>1 DEF EditSource, Edit, Disturb
  <2>2. CASE CreateVersion
    BY <2>2 DEF CreateVersion, Edit, Disturb
  <2>3. ASSUME NEW p \in Platforms, ChangeDraft(p)
        PROVE  /\ disturbed' = IF run.step \in {} \cup {"insert", "stream"} THEN disturbed \cup {p} ELSE disturbed
               /\ UNCHANGED <<run, base, current, events, proposals, source, version>>
               /\ edits < MaxEdits /\ edits' = edits + 1
               /\ \/ draft' = [draft EXCEPT ![p] = edits']
                  \/ draft' = [draft EXCEPT ![p] = NoDraft]
               /\ p # "source" /\ p # "version"
    BY <2>3 DEF ChangeDraft, Edit, Disturb
  <2> QED
    BY <2>1, <2>2, <2>3
<1>2. EditsCounted'
  <2>1. edits' \in 0 .. MaxEdits /\ source' \in Nat /\ version' \in Nat /\ source' >= source /\ version' >= version
    BY <1>0, <1>1 DEF EditsCounted
  <2>2. draft' \in [Platforms -> (0 .. edits') \cup {NoDraft}]
    BY <1>0, <1>1 DEF EditsCounted
  <2>3. (0 .. edits) \subseteq (0 .. edits') /\ (0 .. source) \subseteq (0 .. source') /\ (0 .. version) \subseteq (0 .. version')
    BY <1>0, <1>1, <2>1 DEF EditsCounted
  <2> QED
    BY <1>0, <1>1, <2>1, <2>2, <2>3 DEF EditsCounted
<1>3. RunTyped'
  BY <1>0, <1>1 DEF RunTyped, Readings
<1>4. DisturbedDiffers'
  <2>1. /\ base.source \in 0 .. source /\ base.version \in 0 .. version /\ source \in Nat /\ version \in Nat
        /\ edits \in 0 .. MaxEdits
        /\ \A p \in Targets : base.drafts[p] \in (0 .. edits) \cup {NoDraft}
    BY <1>0 DEF EditsCounted
  <2>2. "source" \in disturbed' => source' > base.source
    BY <1>0, <1>1, <2>1 DEF DisturbedDiffers
  <2>3. "version" \in disturbed' => version' > base.version
    BY <1>0, <1>1, <2>1 DEF DisturbedDiffers
  <2>4. ASSUME NEW p \in disturbed' \cap Targets, base.drafts[p] # NoDraft
        PROVE  Other(base.drafts[p], draft'[p])
    <3>1. p \in Platforms /\ draft \in [Platforms -> (0 .. edits) \cup {NoDraft}]
      BY <1>0 DEF EditsCounted
    <3>2. CASE what = p
      <4>1. draft'[p] = edits + 1 \/ draft'[p] = NoDraft
        BY <1>1, <3>1, <3>2
      <4> QED
        BY <2>1, <2>4, <4>1 DEF Other
    <3>3. CASE what # p
      <4>1. p \in disturbed /\ draft'[p] = draft[p]
        BY <1>1, <2>4, <3>1, <3>3
      <4> QED
        BY <1>0, <2>4, <4>1 DEF DisturbedDiffers
    <3> QED
      BY <3>2, <3>3
  <2> QED
    BY <1>1, <2>2, <2>3, <2>4 DEF DisturbedDiffers
<1>5. CheckedDiffers' /\ Kept'
  BY <1>0, <1>1 DEF CheckedDiffers, Kept, compareGrowthProposalBaseVersions
<1>6. ProposalsOnBase'
  BY <1>0, <1>1 DEF ProposalsOnBase, Kept
<1> QED
  BY <1>2, <1>3, <1>4, <1>5, <1>6 DEF GrowthInv

(* A step of the run keeps the proposals on their base. *)
LEMMA GrowthRunInv ==
  ASSUME GrowthInv,
         \/ ReadBaseProject \/ ReadBaseVersion \/ ReadBaseDrafts \/ InsertRun \/ readGrowthOptimizationEvents
         \/ ReadCurrentProject \/ ReadCurrentVersion \/ ReadCurrentDrafts
         \/ Compare \/ CompileCandidates \/ SaveRunAndProposals \/ finishRunWithError \/ RunStepFails
  PROVE  GrowthInv'
<1> USE GrowthAssumption
<1>0. EditsCounted /\ RunTyped /\ DisturbedDiffers /\ CheckedDiffers /\ Kept /\ ProposalsOnBase
  BY DEF GrowthInv
<1>1. UNCHANGED <<source, version, draft, edits, disturbed>>
  BY DEF ReadBaseProject, ReadBaseVersion, ReadBaseDrafts, InsertRun, readGrowthOptimizationEvents, ReadCurrentProject,
         ReadCurrentVersion, ReadCurrentDrafts, Compare, CompileCandidates, SaveRunAndProposals, finishRunWithError,
         RunStepFails, Untouched
<1>2. EditsCounted'
  <2>1. DraftsNow \in [Targets -> (0 .. edits) \cup {NoDraft}]
    BY <1>0 DEF DraftsNow, EditsCounted
  <2>2. source \in 0 .. source /\ version \in 0 .. version /\ source \in Nat /\ version \in Nat
    BY <1>0 DEF EditsCounted
  <2>3. base' \in [source : 0 .. source, version : 0 .. version, drafts : [Targets -> (0 .. edits) \cup {NoDraft}]]
    <3>1. \/ base' = base \/ base' = [base EXCEPT !.source = source] \/ base' = [base EXCEPT !.version = version]
          \/ base' = [base EXCEPT !.drafts = DraftsNow]
      BY DEF ReadBaseProject, ReadBaseVersion, ReadBaseDrafts, InsertRun, readGrowthOptimizationEvents, ReadCurrentProject,
             ReadCurrentVersion, ReadCurrentDrafts, Compare, CompileCandidates, SaveRunAndProposals, finishRunWithError,
             RunStepFails
    <3> QED
      BY <1>0, <2>1, <2>2, <3>1 DEF EditsCounted
  <2>4. current' \in [source : Nat, version : Nat, drafts : [Targets -> (0 .. edits) \cup {NoDraft}]]
    <3>1. \/ current' = current \/ current' = [current EXCEPT !.source = source]
          \/ current' = [current EXCEPT !.version = version] \/ current' = [current EXCEPT !.drafts = DraftsNow]
      BY DEF ReadBaseProject, ReadBaseVersion, ReadBaseDrafts, InsertRun, readGrowthOptimizationEvents, ReadCurrentProject,
             ReadCurrentVersion, ReadCurrentDrafts, Compare, CompileCandidates, SaveRunAndProposals, finishRunWithError,
             RunStepFails
    <3> QED
      BY <1>0, <2>1, <2>2, <3>1 DEF EditsCounted
  <2> QED
    BY <1>0, <1>1, <2>3, <2>4 DEF EditsCounted
<1>3. ASSUME NEW from \in {"project", "version", "drafts", "insert", "stream", "check project", "check version",
                           "check drafts", "compare"},
             NEW to \in {"project", "version", "drafts", "insert", "stream", "check project", "check version",
                         "check drafts", "compare", "compile", "fail"},
             RunGoes(from, to)
      PROVE  /\ run.step = from /\ run'.step = to /\ run'.status = run.status
             /\ run' \in [step : {"project", "version", "drafts", "insert", "stream", "check project", "check version",
                                   "check drafts", "compare", "compile", "save", "fail", "done"},
                           status : {"none", "running", "ready", "failed"}]
  BY <1>0, <1>3 DEF RunGoes, RunTyped
<1>4. CASE ReadBaseProject
  <2>1. base'.source = source /\ base'.version = base.version /\ base'.drafts = base.drafts
    BY <1>0, <1>4 DEF ReadBaseProject, EditsCounted
  <2>2. run.step = "project" /\ run'.step = "version" /\ run'.status = run.status /\ UNCHANGED <<current, events, proposals>>
    BY <1>3, <1>4 DEF ReadBaseProject
  <2>3. RunTyped'
    BY <1>0, <1>1, <1>3, <1>4, <2>2 DEF ReadBaseProject, RunTyped, Readings
  <2> QED
    BY <1>0, <1>1, <1>2, <2>1, <2>2, <2>3
       DEF GrowthInv, RunTyped, Readings, DisturbedDiffers, CheckedDiffers, Kept, ProposalsOnBase
<1>5. CASE ReadBaseVersion
  <2>1. base'.source = base.source /\ base'.version = version /\ base'.drafts = base.drafts
    BY <1>0, <1>5 DEF ReadBaseVersion, EditsCounted
  <2>2. run.step = "version" /\ run'.step = "drafts" /\ run'.status = run.status /\ UNCHANGED <<current, events, proposals>>
    BY <1>3, <1>5 DEF ReadBaseVersion
  <2>3. RunTyped'
    BY <1>0, <1>1, <1>3, <1>5, <2>2 DEF ReadBaseVersion, RunTyped, Readings
  <2> QED
    BY <1>0, <1>1, <1>2, <2>1, <2>2, <2>3
       DEF GrowthInv, RunTyped, Readings, DisturbedDiffers, CheckedDiffers, Kept, ProposalsOnBase
<1>6. CASE ReadBaseDrafts
  <2>1. base'.source = base.source /\ base'.version = base.version
    BY <1>0, <1>6 DEF ReadBaseDrafts, EditsCounted
  <2>2. run.step = "drafts" /\ run'.step = "insert" /\ run'.status = run.status /\ UNCHANGED <<current, events, proposals>>
    BY <1>3, <1>6 DEF ReadBaseDrafts
  <2>3. RunTyped' /\ disturbed \cap Targets = {}
    BY <1>0, <1>1, <1>3, <1>6, <2>2 DEF ReadBaseDrafts, RunTyped, Readings
  <2> QED
    BY <1>0, <1>1, <1>2, <2>1, <2>2, <2>3
       DEF GrowthInv, DisturbedDiffers, CheckedDiffers, Kept, ProposalsOnBase
<1>7. CASE InsertRun \/ readGrowthOptimizationEvents
  <2>1. /\ run.step \in {"insert", "stream"} /\ run'.step \in {"stream", "check project"} /\ run'.status # "ready"
        /\ UNCHANGED <<base, current, proposals>>
    <3>1. CASE InsertRun
      BY <3>1 DEF InsertRun
    <3>2. CASE readGrowthOptimizationEvents
      <4>1. RunGoes("stream", "check project")
        BY <3>2 DEF readGrowthOptimizationEvents
      <4>2. run.step = "stream" /\ run'.step = "check project" /\ run'.status = run.status
        BY <1>3, <4>1
      <4> QED
        BY <1>0, <3>2, <4>2 DEF readGrowthOptimizationEvents, Kept
    <3> QED
      BY <1>7, <3>1, <3>2
  <2>2. RunTyped'
    <3>1. CASE InsertRun
      BY <1>0, <1>1, <3>1 DEF InsertRun, RunTyped, Readings
    <3>2. CASE readGrowthOptimizationEvents
      <4>1. RunGoes("stream", "check project")
        BY <3>2 DEF readGrowthOptimizationEvents
      <4> QED
        BY <1>0, <1>1, <4>1 DEF RunGoes, RunTyped, Readings
    <3> QED
      BY <1>7, <3>1, <3>2
  <2> QED
    BY <1>0, <1>1, <1>2, <2>1, <2>2 DEF GrowthInv, DisturbedDiffers, CheckedDiffers, Kept, ProposalsOnBase
<1>8. CASE ReadCurrentProject
  <2>1. current'.source = source
    BY <1>0, <1>8 DEF ReadCurrentProject, EditsCounted
  <2>2. /\ run.step = "check project" /\ run'.step = "check version" /\ run'.status = run.status
        /\ UNCHANGED <<base, events, proposals>>
    BY <1>3, <1>8 DEF ReadCurrentProject
  <2>3. RunTyped'
    BY <1>0, <1>1, <1>3, <1>8, <2>2 DEF ReadCurrentProject, RunTyped, Readings
  <2> QED
    BY <1>0, <1>1, <1>2, <2>1, <2>2, <2>3 DEF GrowthInv, DisturbedDiffers, CheckedDiffers, Kept, ProposalsOnBase
<1>9. CASE ReadCurrentVersion
  <2>1. current'.source = current.source /\ current'.version = version
    BY <1>0, <1>9 DEF ReadCurrentVersion, EditsCounted
  <2>2. /\ run.step = "check version" /\ run'.step = "check drafts" /\ run'.status = run.status
        /\ UNCHANGED <<base, events, proposals>>
    BY <1>3, <1>9 DEF ReadCurrentVersion
  <2>3. RunTyped'
    BY <1>0, <1>1, <1>3, <1>9, <2>2 DEF ReadCurrentVersion, RunTyped, Readings
  <2> QED
    BY <1>0, <1>1, <1>2, <2>1, <2>2, <2>3 DEF GrowthInv, DisturbedDiffers, CheckedDiffers, Kept, ProposalsOnBase
<1>10. CASE ReadCurrentDrafts
  <2>1. current'.source = current.source /\ current'.version = current.version /\ current'.drafts = DraftsNow
    BY <1>0, <1>10 DEF ReadCurrentDrafts, EditsCounted
  <2>2. /\ run.step = "check drafts" /\ run'.step = "compare" /\ run'.status = run.status
        /\ UNCHANGED <<base, events, proposals>>
    BY <1>3, <1>10 DEF ReadCurrentDrafts
  <2>3. RunTyped'
    BY <1>0, <1>1, <1>3, <1>10, <2>2 DEF ReadCurrentDrafts, RunTyped, Readings
  <2>4. \A p \in Targets : current'.drafts[p] = draft[p]
    BY <2>1 DEF DraftsNow
  <2> QED
    BY <1>0, <1>1, <1>2, <2>1, <2>2, <2>3, <2>4 DEF GrowthInv, DisturbedDiffers, CheckedDiffers, Kept, ProposalsOnBase
<1>11. CASE Compare
  <2>1. /\ run.step = "compare" /\ run'.status = run.status
        /\ run'.step = IF compareGrowthProposalBaseVersions THEN "compile" ELSE "fail"
        /\ UNCHANGED <<base, current, events, proposals>>
    BY <1>3, <1>11 DEF Compare
  <2>2. RunTyped'
    BY <1>0, <1>1, <1>3, <1>11, <2>1 DEF Compare, RunTyped, Readings
  <2>3. compareGrowthProposalBaseVersions' = compareGrowthProposalBaseVersions
    BY <2>1 DEF compareGrowthProposalBaseVersions
  <2> QED
    BY <1>0, <1>1, <1>2, <2>1, <2>2, <2>3 DEF GrowthInv, DisturbedDiffers, CheckedDiffers, Kept, ProposalsOnBase
<1>12. CASE CompileCandidates
  <2>1. /\ run.step = "compile" /\ run'.step \in {"fail", "save"} /\ run'.status = run.status
        /\ run'.step = "save" => events' # {} /\ events' \subseteq Targets
        /\ UNCHANGED <<base, current, proposals>>
    BY <1>0, <1>12 DEF CompileCandidates, RunTyped
  <2>2. RunTyped'
    BY <1>0, <1>1, <1>12, <2>1 DEF CompileCandidates, RunTyped, Readings
  <2>3. compareGrowthProposalBaseVersions' = compareGrowthProposalBaseVersions
    BY <2>1 DEF compareGrowthProposalBaseVersions
  <2> QED
    BY <1>0, <1>1, <1>2, <2>1, <2>2, <2>3 DEF GrowthInv, DisturbedDiffers, CheckedDiffers, Kept, ProposalsOnBase
<1>13. CASE SaveRunAndProposals
  <2>1. /\ run.step = "save" /\ run'.step = "done" /\ run'.status = "ready" /\ proposals' = events
        /\ UNCHANGED <<base, current, events>>
    BY <1>13 DEF SaveRunAndProposals
  <2>2. RunTyped'
    BY <1>0, <1>1, <1>13 DEF SaveRunAndProposals, RunTyped, Readings
  <2>3. /\ base.source = current.source /\ base.version = current.version
        /\ \A p \in Targets : base.drafts[p] = current.drafts[p]
        /\ events # {} /\ events \subseteq Targets
    BY <1>0, <2>1 DEF Kept, compareGrowthProposalBaseVersions
  <2>4. /\ "source" \in disturbed => current.source > base.source
        /\ "version" \in disturbed => current.version > base.version
        /\ \A p \in disturbed \cap Targets : base.drafts[p] # NoDraft => Other(base.drafts[p], current.drafts[p])
    BY <1>0, <2>1 DEF CheckedDiffers
  <2>5. base.source \in Nat /\ base.version \in Nat /\ \A p \in Targets : base.drafts[p] \in Nat
    BY <1>0 DEF EditsCounted, NoDraft
  <2>6. "source" \notin disturbed /\ "version" \notin disturbed
    BY <2>3, <2>4, <2>5
  <2>7. \A p \in disturbed \cap Targets : base.drafts[p] = NoDraft /\ current.drafts[p] = NoDraft
    BY <2>3, <2>4, <2>5 DEF Other
  <2>8. ProposalsOnBase'
    BY <1>1, <2>1, <2>3, <2>6, <2>7 DEF ProposalsOnBase
  <2> QED
    BY <1>0, <1>1, <1>2, <2>1, <2>2, <2>8 DEF GrowthInv, DisturbedDiffers, CheckedDiffers, Kept
<1>14. CASE finishRunWithError \/ RunStepFails
  <2>1. /\ run.step # "done" /\ run'.step \in {"done", "fail"} /\ run'.status # "ready"
        /\ UNCHANGED <<base, current, events, proposals>>
    <3>1. CASE finishRunWithError
      BY <3>1 DEF finishRunWithError
    <3>2. CASE RunStepFails
      BY <1>0, <3>2 DEF RunStepFails, Kept, RunTyped
    <3> QED
      BY <1>14, <3>1, <3>2
  <2>2. RunTyped'
    <3>1. CASE finishRunWithError
      BY <1>0, <1>1, <3>1 DEF finishRunWithError, RunTyped, Readings
    <3>2. CASE RunStepFails
      BY <1>0, <1>1, <3>2 DEF RunStepFails, RunTyped, Readings
    <3> QED
      BY <1>14, <3>1, <3>2
  <2> QED
    BY <1>0, <1>1, <1>2, <2>1, <2>2 DEF GrowthInv, DisturbedDiffers, CheckedDiffers, Kept, ProposalsOnBase
<1> QED
  BY <1>4, <1>5, <1>6, <1>7, <1>8, <1>9, <1>10, <1>11, <1>12, <1>13, <1>14

(* Proposals are kept only on the base they were made from, although it is read, and checked, in *)
(* three queries each and changes go on all the time (compareGrowthProposalBaseVersions).        *)
THEOREM ProposalsKeepBase == GrowthSpec => []ProposalsOnBase
<1>1. GrowthInv /\ [GrowthNext]_growthVars => GrowthInv'
  <2> SUFFICES ASSUME GrowthInv, [GrowthNext]_growthVars PROVE GrowthInv'
    OBVIOUS
  <2>1. CASE UNCHANGED growthVars
    BY <2>1 DEF growthVars, GrowthInv, EditsCounted, RunTyped, DisturbedDiffers, CheckedDiffers, Kept, ProposalsOnBase,
                compareGrowthProposalBaseVersions
  <2> QED
    BY <2>1, GrowthEditInv, GrowthRunInv DEF GrowthNext
<1>2. GrowthInv => ProposalsOnBase
  BY DEF GrowthInv
<1> QED
  BY <1>1, <1>2, GrowthInitInv, PTL DEF GrowthSpec

(* A change raises what it changes, and is counted. *)
LEMMA ChangesAreCounted ==
  ASSUME GrowthTypeOK, source <= edits, version <= edits,
         EditSource \/ CreateVersion \/ \E p \in Platforms : ChangeDraft(p)
  PROVE  GrowthTypeOK' /\ (source <= edits /\ version <= edits)'
<1>1. /\ source \in 0 .. MaxEdits /\ version \in 0 .. MaxEdits /\ edits \in 0 .. MaxEdits /\ MaxEdits \in Nat
      /\ draft \in [Platforms -> 0 .. NoDraft]
      /\ disturbed \subseteq {"source", "version"} \cup Platforms
  BY GrowthAssumption DEF GrowthTypeOK
<1>2. edits < MaxEdits /\ edits' = edits + 1
  BY DEF EditSource, CreateVersion, ChangeDraft, Edit
<1>3. /\ edits' \in 0 .. MaxEdits /\ edits' \in 0 .. NoDraft /\ NoDraft \in 0 .. NoDraft
      /\ (source' = source \/ source' = source + 1) /\ (version' = version \/ version' = version + 1)
  BY <1>1, <1>2 DEF EditSource, CreateVersion, ChangeDraft, NoDraft
<1>4. source' \in 0 .. MaxEdits /\ version' \in 0 .. MaxEdits /\ source' <= edits' /\ version' <= edits'
  BY <1>1, <1>2, <1>3
<1>5. draft' \in [Platforms -> 0 .. NoDraft]
  <2>1. CASE EditSource \/ CreateVersion
    BY <2>1, <1>1 DEF EditSource, CreateVersion
  <2>2. ASSUME NEW p \in Platforms, ChangeDraft(p) PROVE draft' \in [Platforms -> 0 .. NoDraft]
    BY <2>2, <1>1, <1>3 DEF ChangeDraft
  <2> QED
    BY <2>1, <2>2
<1>6. disturbed' \subseteq {"source", "version"} \cup Platforms
  BY <1>1 DEF EditSource, CreateVersion, ChangeDraft, Disturb
<1>7. UNCHANGED <<run, base, current, events, proposals, growthFaults>>
  BY DEF EditSource, CreateVersion, ChangeDraft
<1> QED
  BY <1>3, <1>4, <1>5, <1>6, <1>7 DEF GrowthTypeOK

RunSteps == {"project", "version", "drafts", "insert", "stream", "check project", "check version",
             "check drafts", "compare", "compile", "save", "fail", "done"}

RunStep ==
    \/ ReadBaseProject \/ ReadBaseVersion \/ ReadBaseDrafts
    \/ ReadCurrentProject \/ ReadCurrentVersion \/ ReadCurrentDrafts
    \/ InsertRun \/ readGrowthOptimizationEvents
    \/ Compare \/ CompileCandidates \/ SaveRunAndProposals \/ finishRunWithError \/ RunStepFails

(* What a step of the run changes. *)
LEMMA RunStepMoves ==
  ASSUME RunStep
  PROVE  /\ Untouched
         /\ \/ base' = base \/ base' = [base EXCEPT !.source = source]
            \/ base' = [base EXCEPT !.version = version] \/ base' = [base EXCEPT !.drafts = DraftsNow]
         /\ \/ current' = current \/ current' = [current EXCEPT !.source = source]
            \/ current' = [current EXCEPT !.version = version] \/ current' = [current EXCEPT !.drafts = DraftsNow]
         /\ \/ run' = [step |-> "stream", status |-> "running"] \/ run' = [step |-> "done", status |-> "ready"]
            \/ run' = [step |-> "done", status |-> "failed"]
            \/ \E to \in RunSteps : run' = [run EXCEPT !.step = to]
         /\ events' = events \/ events' \in SUBSET Platforms \/ events' \in SUBSET (events \cap Targets)
         /\ proposals' = proposals \/ proposals' = events
         /\ growthFaults' = growthFaults \/ (growthFaults < MaxGrowthFaults /\ growthFaults' = growthFaults + 1)
<1>1. CASE ReadBaseProject \/ ReadBaseVersion \/ ReadBaseDrafts
  BY <1>1 DEF ReadBaseProject, ReadBaseVersion, ReadBaseDrafts, RunGoes, RunSteps
<1>2. CASE ReadCurrentProject \/ ReadCurrentVersion \/ ReadCurrentDrafts
  BY <1>2 DEF ReadCurrentProject, ReadCurrentVersion, ReadCurrentDrafts, RunGoes, RunSteps
<1>3. CASE InsertRun \/ readGrowthOptimizationEvents
  BY <1>3 DEF InsertRun, readGrowthOptimizationEvents, RunGoes, RunSteps
<1>4. CASE Compare
  BY <1>4 DEF Compare, RunGoes, RunSteps
<1>5. CASE CompileCandidates
  <2>1. \E to \in RunSteps : run' = [run EXCEPT !.step = to]
    BY <1>5, Zenon DEF CompileCandidates, RunSteps
  <2> QED
    BY <1>5, <2>1 DEF CompileCandidates
<1>6. CASE SaveRunAndProposals \/ finishRunWithError
  BY <1>6 DEF SaveRunAndProposals, finishRunWithError
<1>7. CASE RunStepFails
  <2>1. \E to \in RunSteps : run' = [run EXCEPT !.step = to]
    BY <1>7, Zenon DEF RunStepFails, RunSteps
  <2> QED
    BY <1>7, <2>1 DEF RunStepFails
<1> QED
  BY <1>1, <1>2, <1>3, <1>4, <1>5, <1>6, <1>7 DEF RunStep

(* A step of the run keeps its types, and changes nothing that it reads. *)
LEMMA RunKeepsTypes == GrowthTypeOK /\ RunStep => GrowthTypeOK' /\ UNCHANGED <<source, version, edits>>
<1> SUFFICES ASSUME GrowthTypeOK, RunStep PROVE GrowthTypeOK' /\ UNCHANGED <<source, version, edits>>
  OBVIOUS
<1> DEFINE Runs == [step : RunSteps, status : {"none", "running", "ready", "failed"}]
<1>1. base \in Base /\ current \in Base /\ run \in Runs
  BY DEF GrowthTypeOK, RunSteps
<1>2. source \in 0 .. MaxEdits /\ version \in 0 .. MaxEdits /\ DraftsNow \in [Targets -> 0 .. NoDraft]
  BY GrowthAssumption DEF GrowthTypeOK, DraftsNow
<1>3. base' \in Base /\ current' \in Base
  BY <1>1, <1>2, RunStepMoves DEF Base
<1>4. run' \in Runs
  <2>1. CASE run' = [step |-> "stream", status |-> "running"]
    BY <2>1 DEF RunSteps
  <2>2. ASSUME NEW status \in {"ready", "failed"}, run' = [step |-> "done", status |-> status] PROVE run' \in Runs
    BY <2>2 DEF RunSteps
  <2>3. ASSUME NEW to \in RunSteps, run' = [run EXCEPT !.step = to] PROVE run' \in Runs
    BY <2>3, <1>1
  <2> HIDE DEF Runs
  <2> QED
    BY <2>1, <2>2, <2>3, RunStepMoves
<1>5. events' \subseteq Platforms /\ proposals' \subseteq Platforms
  BY RunStepMoves DEF GrowthTypeOK
<1>6. growthFaults' \in 0 .. MaxGrowthFaults
  <2>1. growthFaults \in 0 .. MaxGrowthFaults /\ MaxGrowthFaults \in Nat
    BY GrowthAssumption DEF GrowthTypeOK
  <2>2. growthFaults' = growthFaults \/ (growthFaults < MaxGrowthFaults /\ growthFaults' = growthFaults + 1)
    BY RunStepMoves
  <2> QED
    BY <2>1, <2>2
<1>7. Untouched
  BY RunStepMoves
<1> QED
  BY <1>3, <1>4, <1>5, <1>6, <1>7 DEF GrowthTypeOK, Untouched, RunSteps

(* The variables of a run keep their types: the source and the versions are raised by changes *)
(* that are counted (growth_service.go).                                                      *)
THEOREM GrowthTypesHold == GrowthSpec => []GrowthTypeOK
<1> DEFINE Typed == GrowthTypeOK /\ source <= edits /\ version <= edits
<1>1. GrowthInit => Typed
  <2> SUFFICES ASSUME GrowthInit PROVE Typed
    OBVIOUS
  <2>1. 0 \in 0 .. MaxEdits /\ 0 \in 0 .. MaxGrowthFaults /\ 0 \in 0 .. NoDraft /\ NoDraft \in 0 .. NoDraft
    BY GrowthAssumption DEF NoDraft
  <2>2. Nothing \in Base
    BY <2>1 DEF Nothing, Base
  <2>3. draft \in [Platforms -> 0 .. NoDraft]
    BY <2>1 DEF GrowthInit
  <2> QED
    BY <2>1, <2>2, <2>3 DEF GrowthInit, GrowthTypeOK
<1>2. Typed /\ [GrowthNext]_growthVars => Typed'
  <2>1. ASSUME Typed, UNCHANGED growthVars PROVE Typed'
    BY <2>1 DEF growthVars, GrowthTypeOK
  <2> QED
    BY <2>1, ChangesAreCounted, RunKeepsTypes DEF GrowthNext, RunStep
<1>3. Typed => GrowthTypeOK
  OBVIOUS
<1> QED
  BY <1>1, <1>2, <1>3, PTL DEF GrowthSpec

-----------------------------------------------------------------------------
(* The list of projects                                                    *)

\* The order of the list as a relation.
Listed == {p \in Projects \X Projects : Before(p[1], p[2])}

(* created_at and the id order any projects. *)
LEMMA ListOrder ==
  ASSUME NEW S \in SUBSET Projects
  PROVE  /\ Orders(Listed, S)
         /\ \A p, q \in S : <<p, q>> \in Listed <=> Before(p, q)
         /\ IsFiniteSet(S)
<1>1. \A p \in Projects : p \in Nat /\ CreatedAt[p] \in Nat
  BY ListingAssumption
<1>2. \A p, q \in Projects : <<p, q>> \in Listed <=> Before(p, q)
  BY DEF Listed
<1>3. \A p \in Projects : ~Before(p, p)
  BY <1>1 DEF Before
<1>4. \A p, q, r \in Projects : Before(p, q) /\ Before(q, r) => Before(p, r)
  BY <1>1 DEF Before
<1>5. \A p, q \in Projects : p # q => Before(p, q) \/ Before(q, p)
  BY <1>1 DEF Before
<1>6. IsFiniteSet(S)
  BY ListingAssumption, FS_Subset
<1> QED
  BY <1>2, <1>3, <1>4, <1>5, <1>6 DEF Orders

(* A page in order has each of its projects once. *)
LEMMA PageInOrder ==
  ASSUME NEW page \in SUBSET Projects
  PROVE  LET s == InOrder(page) IN
         /\ s \in Seq(page) /\ Len(s) \in Nat
         /\ \A p \in page : \E i \in 1..Len(s) : s[i] = p
         /\ \A i, j \in 1..Len(s) : s[i] = s[j] => i = j
<1> DEFINE s == InOrder(page)
           n == Cardinality(page)
           place == Place(Listed, page)
           e(i) == CHOOSE p \in page : Cardinality({q \in page : Before(q, p)}) = i - 1
<1>1. /\ Orders(Listed, page) /\ IsFiniteSet(page) /\ n \in Nat
      /\ \A p, q \in page : <<p, q>> \in Listed <=> Before(p, q)
  BY ListOrder, FS_CardinalityType
<1>2. \A k \in 0..(n - 1) : \E p \in page : place[p] = k
  BY <1>1, Places
<1>3. ASSUME NEW p \in page PROVE Cardinality({q \in page : Before(q, p)}) = place[p]
  <2>1. {q \in page : Before(q, p)} = {q \in page : <<q, p>> \in Listed}
    BY <1>1
  <2>2. place[p] = Cardinality({q \in page : <<q, p>> \in Listed})
    BY DEF Place
  <2> QED
    BY <2>1, <2>2
<1> HIDE DEF place
<1>4. ASSUME NEW i \in 1..n PROVE s[i] \in page /\ place[s[i]] = i - 1
  <2> DEFINE At(p) == Cardinality({q \in page : Before(q, p)}) = i - 1
  <2>1. s[i] = CHOOSE p \in page : At(p)
    BY DEF InOrder
  <2>2. i - 1 \in 0..(n - 1)
    BY <1>1
  <2>3. \E p \in page : At(p)
    BY <2>2, <1>2, <1>3
  <2> HIDE DEF At
  <2>4. s[i] \in page /\ At(s[i])
    BY <2>1, <2>3, Zenon
  <2> QED
    BY <2>4, <1>3 DEF At
<1>5. s \in Seq(page) /\ Len(s) = n
  <2>1. s = [i \in 1..n |-> e(i)]
    BY DEF InOrder
  <2> HIDE DEF s, e
  <2>2. \A i \in 1..n : e(i) \in page
    BY <2>1, <1>4
  <2>3. s \in [1..n -> page]
    BY <2>1, <2>2
  <2> QED
    BY <2>3, <1>1
<1> HIDE DEF s
<1>6. /\ \A p \in page : \E i \in 1..n : s[i] = p
      /\ \A i, j \in 1..n : i < j <=> <<s[i], s[j]>> \in Listed
  BY <1>1, <1>4, InPlace DEF place
<1>7. ASSUME NEW i \in 1..n, NEW j \in 1..n, s[i] = s[j] PROVE i = j
  <2>0. <<s[i], s[i]>> \notin Listed
    BY <1>1, <1>4 DEF Orders
  <2>1. ~(i < j) /\ ~(j < i)
    BY <2>0, <1>6, <1>7
  <2> QED
    BY <2>1, <1>1
<1> QED
  BY <1>1, <1>5, <1>6, <1>7 DEF s

\* Those with fewer than n before them.
Foremost(n, R, S) == {p \in S : Cardinality({q \in S : <<q, p>> \in R}) < n}

(* The first n of a set, n positive: not none; whoever is before one of them is among them; and *)
(* fewer than n only when they are all.                                                          *)
LEMMA FirstOnes ==
  ASSUME NEW S, IsFiniteSet(S), NEW R, Orders(R, S), NEW n \in Nat \ {0}
  PROVE  /\ Foremost(n, R, S) \subseteq S /\ IsFiniteSet(Foremost(n, R, S))
         /\ S # {} => Foremost(n, R, S) # {}
         /\ \A p \in Foremost(n, R, S) : \A q \in S : <<q, p>> \in R => q \in Foremost(n, R, S)
         /\ Cardinality(Foremost(n, R, S)) < n => Foremost(n, R, S) = S
<1> DEFINE Under(p) == {q \in S : <<q, p>> \in R}
           F == Foremost(n, R, S)
<1>f. F = {p \in S : Cardinality(Under(p)) < n}
  BY DEF Foremost
<1> HIDE DEF F
<1>1. F \subseteq S /\ IsFiniteSet(F) /\ Cardinality(F) \in Nat
  <2>1. F \subseteq S
    BY <1>f
  <2> QED
    BY <2>1, FS_Subset, FS_CardinalityType
<1>2. \A p \in S : p \in F <=> Cardinality(Under(p)) < n
  BY <1>f
<1>3. ASSUME NEW p \in S PROVE IsFiniteSet(Under(p)) /\ Cardinality(Under(p)) \in Nat
  <2>1. Under(p) \subseteq S
    OBVIOUS
  <2> QED
    BY <2>1, FS_Subset, FS_CardinalityType
<1>4. ASSUME S # {} PROVE F # {}
  <2>1. PICK p \in S : \A q \in S : <<q, p>> \notin R
    BY <1>4, FirstAndLast
  <2>2. Under(p) = {}
    BY <2>1
  <2>3. Cardinality(Under(p)) = 0
    BY <2>2, FS_EmptySet
  <2> QED
    BY <2>3, <1>2
<1>5. ASSUME NEW p \in F, NEW q \in S, <<q, p>> \in R PROVE q \in F
  <2>1. Under(q) \subseteq Under(p) /\ p \in S
    BY <1>1, <1>5 DEF Orders
  <2> HIDE DEF Under
  <2>2. Cardinality(Under(q)) <= Cardinality(Under(p))
    BY <2>1, <1>3, FS_Subset
  <2>3. Cardinality(Under(p)) < n
    BY <2>1, <1>2
  <2> QED
    BY <2>1, <2>2, <2>3, <1>2, <1>3
<1>6. ASSUME F # S PROVE ~(Cardinality(F) < n)
  <2> DEFINE rest == S \ F
  <2>1. rest # {} /\ IsFiniteSet(rest) /\ Orders(R, rest)
    <3>1. rest # {} /\ rest \subseteq S
      BY <1>1, <1>6
    <3>2. Orders(R, rest)
      BY <3>1 DEF Orders
    <3> QED
      BY <3>1, <3>2, FS_Subset
  <2>2. PICK p \in rest : \A q \in rest : <<q, p>> \notin R
    BY <2>1, FirstAndLast
  <2>3. Under(p) \subseteq F
    BY <2>2
  <2> HIDE DEF Under
  <2>4. Cardinality(Under(p)) <= Cardinality(F)
    BY <2>3, <1>1, FS_Subset
  <2>5. p \in S /\ ~(Cardinality(Under(p)) < n)
    BY <1>2
  <2> QED
    BY <2>4, <2>5, <1>1, <1>3
<1> QED
  BY <1>1, <1>4, <1>5, <1>6 DEF F

\* What the walk has shown, and what is still to come.
Shown(p) == \E i \in 1..Len(walk.items) : walk.items[i] = p
ToCome(p) == walk.cursor = 0 \/ Before(walk.cursor, p)

WalkTypes ==
    walk \in [phase : {"idle", "next", "counted", "summaries", "facts", "done"},
              cursor : Projects \cup {0}, counted : Nat, items : Seq(Projects)]

\* The cursor is the last project shown; who stayed has been shown or is behind the cursor.
WalkInv ==
    /\ \A i, j \in 1..Len(walk.items) : walk.items[i] = walk.items[j] => i = j
    /\ walk.phase = "idle" => walk.cursor = 0
    /\ walk.cursor # 0 => \A p \in Projects : Shown(p) => p = walk.cursor \/ Before(p, walk.cursor)
    /\ walk.cursor = 0 /\ walk.phase # "done" => walk.items = <<>>
    /\ stayed.walk \subseteq rows \cap summaries
    /\ \A p \in stayed.walk : Shown(p) \/ (walk.phase # "done" /\ ToCome(p))

(* A page begins after the cursor and leaves out nobody before the new one, whichever table it is of. *)
LEMMA PageKeepsWalk ==
  ASSUME WalkTypes, WalkInv, NEW from \in SUBSET Projects, stayed.walk \subseteq from, walk.phase # "done",
         Page(from), UNCHANGED <<rows, summaries, stayed>>
  PROVE  WalkTypes' /\ WalkInv'
<1> DEFINE after == ApplyCursorColumns(from)
           page == {p \in after : Cardinality({q \in after : Before(q, p)}) < PageSize}
           hasMore == page # after
           last == CHOOSE p \in page : \A q \in page \ {p} : Before(q, p)
           s == InOrder(page)
           c == walk.cursor
           items == walk.items
<1>p. /\ walk' = [phase |-> IF hasMore THEN "next" ELSE "done",
                  cursor |-> IF hasMore THEN last ELSE 0, counted |-> 0, items |-> items \o s]
      /\ walk'.phase = (IF hasMore THEN "next" ELSE "done") /\ walk'.cursor = (IF hasMore THEN last ELSE 0)
      /\ walk'.items = items \o s
  BY DEF Page
<1>1. /\ after \in SUBSET Projects
      /\ \A p \in Projects : p \in after <=> p \in from /\ ToCome(p)
  BY DEF ApplyCursorColumns, ToCome
<1>o. /\ \A p \in Projects : ~Before(p, p) /\ p # 0
      /\ \A p, q, r \in Projects : Before(p, q) /\ Before(q, r) => Before(p, r)
      /\ \A p, q \in Projects : p # q => Before(p, q) \/ Before(q, p)
  <2>1. \A p \in Projects : p \in Nat /\ CreatedAt[p] \in Nat /\ p # 0
    BY ListingAssumption
  <2> QED
    BY <2>1 DEF Before
<1> HIDE DEF after
<1>2. /\ page \subseteq after
      /\ after # {} => page # {}
      /\ \A p \in page : \A q \in after : Before(q, p) => q \in page
  <2>1. /\ Orders(Listed, after) /\ IsFiniteSet(after)
        /\ \A p, q \in after : <<p, q>> \in Listed <=> Before(p, q)
    BY <1>1, ListOrder
  <2>2. page = Foremost(PageSize, Listed, after)
    <3>1. \A p \in after : {q \in after : Before(q, p)} = {q \in after : <<q, p>> \in Listed}
      BY <2>1
    <3> QED
      BY <3>1 DEF Foremost
  <2> HIDE DEF page
  <2>3. /\ page \subseteq after
        /\ after # {} => page # {}
        /\ \A p \in page : \A q \in after : <<q, p>> \in Listed => q \in page
    BY <2>1, <2>2, FirstOnes, ListingAssumption
  <2> QED
    BY <2>1, <2>3
<1> HIDE DEF page
<1>3. hasMore => last \in page /\ \A q \in page : q = last \/ Before(q, last)
  <2> SUFFICES ASSUME hasMore PROVE last \in page /\ \A q \in page : q = last \/ Before(q, last)
    OBVIOUS
  <2>1. page # {}
    BY <1>2
  <2>2. /\ Orders(Listed, page) /\ IsFiniteSet(page)
        /\ \A p, q \in page : <<p, q>> \in Listed <=> Before(p, q)
    BY <1>1, <1>2, ListOrder
  <2>3. PICK x \in page : \A y \in page : y = x \/ <<y, x>> \in Listed
    BY <2>1, <2>2, FirstAndLast
  <2> DEFINE Ends(p) == \A q \in page \ {p} : Before(q, p)
  <2>4. \E p \in page : Ends(p)
    BY <2>2, <2>3
  <2>5. last = CHOOSE p \in page : Ends(p)
    OBVIOUS
  <2> HIDE DEF Ends, last
  <2>6. last \in page /\ Ends(last)
    BY <2>4, <2>5, Zenon
  <2> QED
    BY <2>6 DEF Ends
<1> HIDE DEF last, hasMore
<1>4. /\ s \in Seq(page) /\ Len(s) \in Nat
      /\ \A p \in page : \E i \in 1..Len(s) : s[i] = p
      /\ \A i, j \in 1..Len(s) : s[i] = s[j] => i = j
  BY <1>1, <1>2, PageInOrder
<1> HIDE DEF s
<1>5. /\ items \in Seq(Projects) /\ c \in Projects \cup {0} /\ Len(items) \in Nat
  BY DEF WalkTypes
<1>6. s \in Seq(Projects)
  BY <1>1, <1>2, <1>4
<1> DEFINE n == Len(items)
           m == Len(s)
           more == items \o s
<1>7. /\ more \in Seq(Projects) /\ Len(more) = n + m
      /\ \A i \in 1..n : more[i] = items[i] /\ i \in 1..(n + m)
      /\ \A i \in (n + 1)..(n + m) : more[i] = s[i - n] /\ i - n \in 1..m
      /\ \A k \in 1..m : more[n + k] = s[k] /\ n + k \in 1..(n + m)
  <2>1. /\ more \in Seq(Projects) /\ Len(more) = n + m
        /\ \A i \in 1..(n + m) : more[i] = IF i <= n THEN items[i] ELSE s[i - n]
    BY <1>5, <1>6, ConcatProperties
  <2> HIDE DEF more
  <2>2. n \in Nat /\ m \in Nat
    BY <1>4, <1>5
  <2> HIDE DEF n, m
  <2>3. \A i \in 1..n : i \in 1..(n + m) /\ i <= n
    BY <2>2
  <2>4. \A i \in (n + 1)..(n + m) : i \in 1..(n + m) /\ ~(i <= n) /\ i - n \in 1..m
    BY <2>2
  <2>5. \A k \in 1..m : n + k \in 1..(n + m) /\ ~(n + k <= n) /\ (n + k) - n = k
    BY <2>2
  <2> QED
    BY <2>1, <2>3, <2>4, <2>5
<1>n. n \in Nat /\ m \in Nat
  BY <1>4, <1>5
<1> HIDE DEF more, n, m
<1>8. \A i \in 1..(n + m) : i \in 1..n \/ i \in (n + 1)..(n + m)
  BY <1>n
<1>9. WalkTypes'
  <2>1. hasMore => last \in Projects
    BY <1>1, <1>2, <1>3
  <2> QED
    BY <1>p, <1>7, <2>1 DEF WalkTypes, more
<1>10. \A p \in Projects : Shown(p)' <=> Shown(p) \/ p \in page
  <2> SUFFICES ASSUME NEW p \in Projects
               PROVE  (\E i \in 1..(n + m) : more[i] = p) <=> (\E i \in 1..n : items[i] = p) \/ p \in page
    BY <1>p, <1>7 DEF Shown, n, more
  <2>1. ASSUME NEW i \in (n + 1)..(n + m) PROVE more[i] \in page
    <3> DEFINE k == i - n
    <3>1. k \in 1..m /\ more[i] = s[k]
      BY <1>7
    <3> HIDE DEF k
    <3> QED
      BY <3>1, <1>4 DEF m
  <2>2. ASSUME p \in page PROVE \E i \in 1..(n + m) : more[i] = p
    <3>1. PICK k \in 1..m : s[k] = p
      BY <2>2, <1>4 DEF m
    <3> QED
      BY <3>1, <1>7
  <2> QED
    BY <2>1, <2>2, <1>7, <1>8
<1>11. \A p \in page : p \in Projects /\ ~Shown(p) /\ ToCome(p)
  <2> SUFFICES ASSUME NEW p \in page PROVE p \in Projects /\ ~Shown(p) /\ ToCome(p)
    OBVIOUS
  <2>1. p \in Projects /\ ToCome(p)
    BY <1>1, <1>2
  <2>2. CASE c = 0
    <3>1. items = <<>>
      BY <2>2 DEF WalkInv
    <3> QED
      BY <2>1, <3>1 DEF Shown
  <2>3. CASE c # 0
    <3>1. Before(c, p) /\ c \in Projects
      BY <2>1, <2>3, <1>5 DEF ToCome
    <3>2. Shown(p) => p = c \/ Before(p, c)
      BY <2>1, <2>3 DEF WalkInv
    <3> QED
      BY <2>1, <3>1, <3>2, <1>o
  <2> QED
    BY <2>2, <2>3
<1>12. ASSUME NEW i \in 1..(n + m), NEW j \in 1..(n + m), more[i] = more[j] PROVE i = j
  <2>1. ASSUME NEW a \in 1..n PROVE Shown(more[a]) /\ more[a] \in Projects
    BY <1>7, <1>5 DEF Shown, n
  <2>2. ASSUME NEW a \in (n + 1)..(n + m) PROVE more[a] \in page
    <3> DEFINE k == a - n
    <3>1. k \in 1..m /\ more[a] = s[k]
      BY <1>7
    <3> HIDE DEF k
    <3> QED
      BY <3>1, <1>4 DEF m
  <2>3. CASE i \in 1..n /\ j \in 1..n
    BY <2>3, <1>12, <1>7 DEF WalkInv, n
  <2>4. CASE i \in (n + 1)..(n + m) /\ j \in (n + 1)..(n + m)
    <3> DEFINE k == i - n
               l == j - n
    <3>1. k \in 1..m /\ l \in 1..m /\ s[k] = s[l]
      BY <2>4, <1>12, <1>7
    <3> HIDE DEF k, l
    <3>2. k = l
      BY <3>1, <1>4 DEF m
    <3> QED
      BY <3>2, <1>n DEF k, l
  <2>5. CASE i \in 1..n /\ j \in (n + 1)..(n + m)
    BY <2>1, <2>2, <2>5, <1>12, <1>11
  <2>6. CASE i \in (n + 1)..(n + m) /\ j \in 1..n
    BY <2>1, <2>2, <2>6, <1>12, <1>11
  <2> QED
    BY <2>3, <2>4, <2>5, <2>6, <1>8
<1>13. (walk.cursor # 0 => \A p \in Projects : Shown(p) => p = walk.cursor \/ Before(p, walk.cursor))'
  <2> SUFFICES ASSUME hasMore, NEW p \in Projects, Shown(p)' PROVE p = last \/ Before(p, last)
    BY <1>p
  <2>1. CASE p \in page
    BY <2>1, <1>3
  <2>2. CASE Shown(p)
    <3>1. c # 0
      BY <2>2 DEF WalkInv, Shown
    <3>2. p = c \/ Before(p, c)
      BY <2>2, <3>1 DEF WalkInv
    <3>3. Before(c, last) /\ last \in Projects /\ c \in Projects
      BY <3>1, <1>3, <1>5, <1>11 DEF ToCome
    <3> QED
      BY <3>2, <3>3, <1>o
  <2> QED
    BY <2>1, <2>2, <1>10
<1>14. ASSUME NEW p \in stayed.walk
       PROVE  Shown(p)' \/ (hasMore /\ Before(last, p))
  <2>1. p \in Projects /\ p \in from
    OBVIOUS
  <2>2. CASE Shown(p) \/ p \in page
    BY <2>1, <2>2, <1>10
  <2>3. CASE ~Shown(p) /\ p \notin page
    <3>1. p \in after
      BY <2>1, <2>3, <1>1 DEF WalkInv
    <3>2. hasMore
      BY <2>3, <3>1 DEF hasMore
    <3>3. ~Before(p, last) /\ p # last /\ last \in Projects
      BY <2>3, <3>1, <3>2, <1>1, <1>2, <1>3
    <3> QED
      BY <2>1, <3>2, <3>3, <1>o
  <2> QED
    BY <2>2, <2>3
<1>15. WalkInv'
  <2>1. (\A i, j \in 1..Len(walk.items) : walk.items[i] = walk.items[j] => i = j)'
    BY <1>p, <1>7, <1>12 DEF more
  <2>2. walk'.phase # "idle" /\ (walk'.cursor = 0 /\ walk'.phase # "done" => FALSE)
    <3>1. hasMore => last # 0
      BY <1>1, <1>2, <1>3, <1>o
    <3> QED
      BY <1>p, <3>1
  <2>3. (stayed.walk \subseteq rows \cap summaries)'
    BY DEF WalkInv
  <2>4. (\A p \in stayed.walk : Shown(p) \/ (walk.phase # "done" /\ ToCome(p)))'
    <3> SUFFICES ASSUME NEW p \in stayed.walk PROVE Shown(p)' \/ (walk'.phase # "done" /\ ToCome(p)')
      OBVIOUS
    <3>1. hasMore /\ Before(last, p) => walk'.phase # "done" /\ ToCome(p)'
      BY <1>p DEF ToCome
    <3> QED
      BY <3>1, <1>14
  <2> QED
    BY <1>13, <2>1, <2>2, <2>3, <2>4 DEF WalkInv
<1> QED
  BY <1>9, <1>15

TableTypes ==
    /\ rows \subseteq created /\ summaries \subseteq created /\ created \subseteq Projects
    /\ changes \in 0 .. MaxProjectChanges
    /\ refresh \in [Projects -> {"none", "read", "upsert", "delete"}]
    /\ stayed \in [walk : SUBSET Projects, rebuild : SUBSET Projects]
    /\ \A p \in Projects : refresh[p] # "none" => p \in created

RebuildTypes ==
    /\ rebuild \in [phase : {"idle", "find", "upsert", "done"}, batch : SUBSET Projects, last : Projects \cup {0}]
    /\ rebuild.batch \subseteq created

\* A refresh that deletes is of a project that is gone.  Up to the last id read, who stayed has a
\* summary; who stayed and is not in the batch read comes after all of it, and the batch is full.
RebuildInv ==
    /\ \A p \in Projects : refresh[p] = "delete" => p \notin rows
    /\ stayed.rebuild \subseteq rows
    /\ rebuild.phase = "idle" => rebuild.last = 0
    /\ rebuild.phase \in {"find", "upsert"} =>
          \A p \in stayed.rebuild : p <= rebuild.last => p \in summaries
    /\ rebuild.phase = "upsert" =>
          /\ rebuild.batch # {} /\ IsFiniteSet(rebuild.batch)
          /\ \A p \in stayed.rebuild :
                \/ p <= rebuild.last \/ p \in rebuild.batch
                \/ Cardinality(rebuild.batch) >= BatchSize /\ \A b \in rebuild.batch : b < p
    /\ rebuild.phase = "done" => stayed.rebuild \subseteq summaries

ListingInv == TableTypes /\ WalkTypes /\ RebuildTypes /\ WalkInv /\ RebuildInv

\* The order of the batches as a relation.
ById == {p \in Projects \X Projects : p[1] < p[2]}

(* Ids order any projects. *)
LEMMA IdOrder ==
  ASSUME NEW S \in SUBSET Projects
  PROVE  /\ Orders(ById, S) /\ IsFiniteSet(S)
         /\ \A p, q \in S : <<p, q>> \in ById <=> p < q
<1>1. \A p \in Projects : p \in Nat
  BY ListingAssumption
<1>2. \A p, q \in Projects : <<p, q>> \in ById <=> p < q
  BY DEF ById
<1>3. IsFiniteSet(S)
  BY ListingAssumption, FS_Subset
<1> QED
  BY <1>1, <1>2, <1>3 DEF Orders

(* The walk stands still while others write, as long as who stayed keeps row and summary. *)
LEMMA WalkRests ==
  ASSUME WalkTypes, WalkInv, UNCHANGED walk,
         stayed'.walk \subseteq stayed.walk, stayed'.walk \subseteq rows' \cap summaries'
  PROVE  WalkTypes' /\ WalkInv'
  BY DEF WalkTypes, WalkInv, Shown, ToCome

(* The rebuild stands still while others write, as long as no summary of those who stayed goes. *)
LEMMA RebuildRestsInv ==
  ASSUME RebuildTypes, RebuildInv, UNCHANGED rebuild,
         \A p \in Projects : refresh'[p] = "delete" => p \notin rows',
         stayed'.rebuild \subseteq stayed.rebuild, stayed'.rebuild \subseteq rows',
         summaries \cap stayed'.rebuild \subseteq summaries', created \subseteq created'
  PROVE  RebuildTypes' /\ RebuildInv'
  BY DEF RebuildTypes, RebuildInv

(* Projects come and go, summaries follow. *)
LEMMA ChangesKeep ==
  ASSUME ListingInv, NEW p \in Projects,
         \/ CreateProject(p) \/ UpdateProject(p) \/ DeleteProject(p)
         \/ refreshProjectSummary(p) \/ upsertProjectSummaries(p) \/ DeleteSummary(p) \/ RefreshFails(p)
  PROVE  ListingInv'
<1>t. /\ TableTypes /\ WalkTypes /\ RebuildTypes /\ WalkInv /\ RebuildInv
      /\ MaxProjectChanges \in Nat
  BY ListingAssumption DEF ListingInv
<1>r. /\ \A q \in Projects : refresh[q] = "delete" => q \notin rows
      /\ stayed.rebuild \subseteq rows /\ stayed.walk \subseteq rows \cap summaries
  BY <1>t DEF RebuildInv, WalkInv
<1>u. UNCHANGED <<walk, rebuild>>
  BY DEF CreateProject, UpdateProject, DeleteProject, refreshProjectSummary, upsertProjectSummaries,
         DeleteSummary, RefreshFails
<1> SUFFICES /\ TableTypes'
             /\ \A q \in Projects : refresh'[q] = "delete" => q \notin rows'
             /\ stayed'.rebuild \subseteq stayed.rebuild /\ stayed'.rebuild \subseteq rows'
             /\ summaries \cap stayed'.rebuild \subseteq summaries'
             /\ created \subseteq created'
             /\ stayed'.walk \subseteq stayed.walk /\ stayed'.walk \subseteq rows' \cap summaries'
  BY <1>t, <1>u, WalkRests, RebuildRestsInv DEF ListingInv
<1> USE <1>t, <1>r DEF TableTypes, Keep, Change
<1>1. CASE CreateProject(p)
  BY <1>1 DEF CreateProject
<1>2. CASE UpdateProject(p)
  BY <1>2 DEF UpdateProject
<1>3. CASE DeleteProject(p)
  BY <1>3 DEF DeleteProject
<1>4. CASE refreshProjectSummary(p)
  BY <1>4 DEF refreshProjectSummary
<1>5. CASE upsertProjectSummaries(p)
  BY <1>5 DEF upsertProjectSummaries
<1>6. CASE DeleteSummary(p)
  BY <1>6 DEF DeleteSummary
<1>7. CASE RefreshFails(p)
  BY <1>7 DEF RefreshFails
<1> QED
  BY <1>1, <1>2, <1>3, <1>4, <1>5, <1>6, <1>7

(* What the invariant says of the values at hand. *)
LEMMA ListingFacts ==
  ASSUME ListingInv
  PROVE  /\ TableTypes /\ WalkTypes /\ RebuildTypes /\ WalkInv /\ RebuildInv
         /\ BatchSize \in Nat \ {0} /\ \A p \in Projects : p \in Nat /\ p # 0
         /\ rows \in SUBSET Projects /\ rebuild.last \in Nat /\ stayed.rebuild \subseteq rows
<1>1. TableTypes /\ WalkTypes /\ RebuildTypes /\ WalkInv /\ RebuildInv
  BY DEF ListingInv
<1>2. BatchSize \in Nat \ {0} /\ \A p \in Projects : p \in Nat /\ p # 0
  BY ListingAssumption
<1>3. rebuild.last \in Nat
  BY <1>1, <1>2 DEF RebuildTypes
<1>4. rows \in SUBSET Projects /\ stayed.rebuild \subseteq rows
  BY <1>1 DEF TableTypes, RebuildInv
<1> QED
  BY <1>1, <1>2, <1>3, <1>4

(* A batch is the first of what comes after the last, so nobody is left out before it. *)
LEMMA FindKeeps ==
  ASSUME ListingInv, FindInBatches
  PROVE  ListingInv'
<1> DEFINE later == {p \in rows : p > rebuild.last}
           batch == {p \in later : Cardinality({q \in later : q < p}) < BatchSize}
<1>t. /\ TableTypes /\ WalkTypes /\ RebuildTypes /\ WalkInv /\ RebuildInv
      /\ BatchSize \in Nat \ {0} /\ \A p \in Projects : p \in Nat /\ p # 0
      /\ rows \in SUBSET Projects /\ rebuild.last \in Nat /\ stayed.rebuild \subseteq rows
  BY ListingFacts
<1>1. /\ rebuild.phase = "find"
      /\ rebuild' = [rebuild EXCEPT !.phase = IF batch = {} THEN "done" ELSE "upsert", !.batch = batch]
      /\ UNCHANGED <<rows, summaries, created, changes, refresh, walk, stayed>>
  BY DEF FindInBatches
<1>2. later \subseteq rows /\ \A p \in rows : p \in later <=> ~(p <= rebuild.last)
  BY <1>t
<1> HIDE DEF later
<1>3. /\ batch \subseteq later /\ IsFiniteSet(batch)
      /\ batch = {} => later = {}
      /\ \A p \in batch : \A q \in later : q < p => q \in batch
      /\ Cardinality(batch) < BatchSize => batch = later
  <2>1. /\ Orders(ById, later) /\ IsFiniteSet(later)
        /\ \A p, q \in later : <<p, q>> \in ById <=> p < q
    BY <1>t, <1>2, IdOrder
  <2>2. batch = Foremost(BatchSize, ById, later)
    <3>1. \A p \in later : {q \in later : q < p} = {q \in later : <<q, p>> \in ById}
      BY <2>1
    <3> QED
      BY <3>1 DEF Foremost
  <2> HIDE DEF batch
  <2>3. /\ batch \subseteq later /\ IsFiniteSet(batch)
        /\ later # {} => batch # {}
        /\ \A p \in batch : \A q \in later : <<q, p>> \in ById => q \in batch
        /\ Cardinality(batch) < BatchSize => batch = later
    BY <2>1, <2>2, <1>t, FirstOnes
  <2> QED
    BY <2>1, <2>3
<1> HIDE DEF batch
<1>4. TableTypes'
  BY <1>1, <1>t DEF TableTypes
<1>5. WalkTypes' /\ WalkInv'
  BY <1>1, <1>t, WalkRests DEF WalkInv
<1>6. /\ rebuild'.phase = (IF batch = {} THEN "done" ELSE "upsert")
      /\ rebuild'.batch = batch /\ rebuild'.last = rebuild.last
      /\ RebuildTypes'
  BY <1>1, <1>2, <1>3, <1>t DEF RebuildTypes, TableTypes
<1>7. \A p \in stayed.rebuild : p <= rebuild.last => p \in summaries
  BY <1>1, <1>t DEF RebuildInv
<1>8. ASSUME NEW p \in stayed.rebuild, batch # {}
      PROVE  \/ p <= rebuild.last \/ p \in batch
             \/ Cardinality(batch) >= BatchSize /\ \A b \in batch : b < p
  <2>1. SUFFICES ASSUME p \in later, p \notin batch
                 PROVE  Cardinality(batch) >= BatchSize /\ \A b \in batch : b < p
    BY <1>2, <1>t
  <2>2. Cardinality(batch) >= BatchSize
    <3>1. ~(Cardinality(batch) < BatchSize)
      BY <2>1, <1>3
    <3>2. Cardinality(batch) \in Nat
      BY <1>3, FS_CardinalityType
    <3> QED
      BY <3>1, <3>2, <1>t
  <2>3. ASSUME NEW b \in batch PROVE b < p
    <3>1. ~(p < b) /\ p # b /\ b \in Nat /\ p \in Nat
      BY <2>1, <1>2, <1>3, <1>t
    <3> QED
      BY <3>1
  <2> QED
    BY <2>2, <2>3
<1>9. batch = {} => stayed.rebuild \subseteq summaries
  BY <1>2, <1>3, <1>7, <1>t
<1>10. RebuildInv'
  BY <1>1, <1>3, <1>6, <1>7, <1>8, <1>9, <1>t DEF RebuildInv
<1> QED
  BY <1>4, <1>5, <1>6, <1>10 DEF ListingInv

(* A batch is written, whoever of it has gone meanwhile: who stayed is not behind the last of it. *)
LEMMA UpsertKeeps ==
  ASSUME ListingInv, UpsertBatch
  PROVE  ListingInv'
<1> DEFINE batch == rebuild.batch
           last == Max(batch)
<1>t. /\ TableTypes /\ WalkTypes /\ RebuildTypes /\ WalkInv /\ RebuildInv
      /\ BatchSize \in Nat \ {0} /\ \A p \in Projects : p \in Nat /\ p # 0
      /\ rows \in SUBSET Projects /\ rebuild.last \in Nat /\ stayed.rebuild \subseteq rows
  BY ListingFacts
<1>1. /\ rebuild.phase = "upsert"
      /\ rebuild' = [phase |-> IF Cardinality(batch) < BatchSize THEN "done" ELSE "find",
                     batch |-> {}, last |-> last]
      /\ rebuild'.phase = (IF Cardinality(batch) < BatchSize THEN "done" ELSE "find")
      /\ rebuild'.last = last /\ rebuild'.batch = {}
      /\ rows' = rows /\ summaries' = summaries \cup batch
      /\ stayed' = [walk |-> stayed.walk \cap rows \cap summaries', rebuild |-> stayed.rebuild \cap rows]
      /\ UNCHANGED <<created, changes, refresh, walk>>
  BY DEF UpsertBatch, Keep
<1>2. /\ batch # {} /\ IsFiniteSet(batch) /\ batch \subseteq created /\ batch \subseteq Projects
      /\ \A p \in stayed.rebuild : p <= rebuild.last => p \in summaries
      /\ \A p \in stayed.rebuild :
            \/ p <= rebuild.last \/ p \in batch
            \/ Cardinality(batch) >= BatchSize /\ \A b \in batch : b < p
  BY <1>1, <1>t DEF RebuildInv, RebuildTypes
<1> HIDE DEF batch
<1>3. last \in batch /\ \A b \in batch : last >= b
  <2>1. batch \in SUBSET Nat
    BY <1>2, <1>t
  <2>2. PICK x \in batch : \A y \in batch : y <= x
    BY <1>2, <2>1, GreatestNumber
  <2>3. \E m \in batch : \A y \in batch : m >= y
    BY <2>1, <2>2
  <2> QED
    BY <2>3, Zenon DEF Max
<1> HIDE DEF last
<1>4. TableTypes'
  BY <1>1, <1>2, <1>t DEF TableTypes
<1>5. WalkTypes' /\ WalkInv'
  <2>1. stayed'.walk = stayed.walk \cap rows \cap summaries'
    BY <1>1
  <2> QED
    BY <2>1, <1>1, <1>t, WalkRests
<1>6. RebuildTypes'
  BY <1>1, <1>2, <1>3, <1>t DEF RebuildTypes
<1>s. stayed'.rebuild = stayed.rebuild \cap rows
  BY <1>1
<1>7. ASSUME NEW p \in stayed'.rebuild, p <= last \/ Cardinality(batch) < BatchSize
      PROVE  p \in summaries'
  <2>1. p \in stayed.rebuild /\ p \in Nat
    BY <1>s, <1>t
  <2>2. ~(Cardinality(batch) >= BatchSize /\ \A b \in batch : b < p)
    <3>1. Cardinality(batch) \in Nat /\ last \in Nat
      BY <1>2, <1>3, <1>t, FS_CardinalityType
    <3> QED
      BY <3>1, <2>1, <1>7, <1>3, <1>t
  <2> QED
    BY <2>1, <2>2, <1>1, <1>2
<1>8. RebuildInv'
  BY <1>1, <1>s, <1>7, <1>t DEF RebuildInv
<1> QED
  BY <1>4, <1>5, <1>6, <1>8 DEF ListingInv

(* A rebuild begins with the rows there are, and takes away the summaries of others only. *)
LEMMA StartKeeps ==
  ASSUME ListingInv, StartRebuild
  PROVE  ListingInv'
<1>t. /\ TableTypes /\ WalkTypes /\ RebuildTypes /\ WalkInv /\ RebuildInv
      /\ \A p \in Projects : p \in Nat /\ p # 0
  BY ListingAssumption DEF ListingInv
<1>1. /\ rebuild.phase = "idle" /\ rebuild' = [rebuild EXCEPT !.phase = "find"]
      /\ summaries' = summaries \cap rows
      /\ stayed' = [walk |-> stayed.walk \cap summaries', rebuild |-> rows]
      /\ UNCHANGED <<rows, created, changes, refresh, walk>>
  BY DEF StartRebuild
<1>2. TableTypes'
  BY <1>1, <1>t DEF TableTypes
<1>3. WalkTypes' /\ WalkInv'
  <2>1. stayed'.walk = stayed.walk \cap summaries'
    BY <1>1
  <2> QED
    BY <2>1, <1>1, <1>t, WalkRests DEF WalkInv
<1>4. RebuildTypes' /\ rebuild'.phase = "find" /\ rebuild'.last = 0
  BY <1>1, <1>t DEF RebuildTypes, RebuildInv
<1>5. RebuildInv'
  <2>1. stayed'.rebuild = rows /\ rows \subseteq Projects
    BY <1>1, <1>t DEF TableTypes
  <2>2. \A p \in rows : ~(p <= 0)
    BY <2>1, <1>t
  <2> QED
    BY <2>1, <2>2, <1>1, <1>4, <1>t DEF RebuildInv
<1> QED
  BY <1>2, <1>3, <1>4, <1>5 DEF ListingInv

(* The walk moves, the tables and the rebuild do not. *)
LEMMA WalkKeeps ==
  ASSUME ListingInv, CountSummaries \/ CountFacts \/ ListProjectSummaryPage \/ ListProjectPage
  PROVE  ListingInv'
<1>t. /\ TableTypes /\ WalkTypes /\ RebuildTypes /\ WalkInv /\ RebuildInv
      /\ rows \in SUBSET Projects /\ summaries \in SUBSET Projects
      /\ stayed.walk \subseteq rows \cap summaries
  BY DEF ListingInv, TableTypes, WalkInv
<1>1. CASE CountSummaries
  <2>1. /\ walk.phase \in {"idle", "next"}
        /\ walk' = [walk EXCEPT !.phase = IF summaries = {} THEN "facts" ELSE "counted",
                                !.counted = Cardinality(summaries)]
        /\ stayed' = [stayed EXCEPT !.walk = IF walk.phase = "idle" THEN rows \cap summaries ELSE @]
        /\ UNCHANGED <<rows, summaries, created, changes, refresh, rebuild>>
    BY <1>1 DEF CountSummaries
  <2>2. Cardinality(summaries) \in Nat
    BY <1>t, ListingAssumption, FS_Subset, FS_CardinalityType
  <2>3. /\ stayed' \in [walk : SUBSET Projects, rebuild : SUBSET Projects]
        /\ stayed'.rebuild = stayed.rebuild
        /\ stayed'.walk = IF walk.phase = "idle" THEN rows \cap summaries ELSE stayed.walk
    BY <2>1, <1>t DEF TableTypes
  <2>4. /\ WalkTypes' /\ walk'.cursor = walk.cursor /\ walk'.items = walk.items
        /\ walk'.phase \in {"facts", "counted"}
    BY <2>1, <2>2, <1>t DEF WalkTypes
  <2>5. TableTypes' /\ RebuildTypes' /\ RebuildInv'
    BY <2>1, <2>3, <1>t DEF TableTypes, RebuildTypes, RebuildInv
  <2>6. WalkInv'
    <3>1. walk.phase = "idle" => walk.cursor = 0
      BY <1>t DEF WalkInv
    <3>2. (\A p \in stayed.walk : Shown(p) \/ (walk.phase # "done" /\ ToCome(p)))'
      BY <3>1, <2>1, <2>3, <2>4, <1>t DEF WalkInv, Shown, ToCome
    <3> QED
      BY <3>2, <2>1, <2>3, <2>4, <1>t DEF WalkInv, Shown
  <2> QED
    BY <2>4, <2>5, <2>6 DEF ListingInv
<1>2. CASE CountFacts
  <2>1. /\ walk.phase = "counted"
        /\ walk' = [walk EXCEPT !.phase = IF walk.counted = Cardinality(rows) THEN "summaries" ELSE "facts"]
        /\ UNCHANGED <<rows, summaries, created, changes, refresh, rebuild, stayed>>
    BY <1>2 DEF CountFacts
  <2>2. /\ WalkTypes' /\ walk'.cursor = walk.cursor /\ walk'.items = walk.items
        /\ walk'.phase \in {"facts", "summaries"}
    BY <2>1, <1>t DEF WalkTypes
  <2>3. TableTypes' /\ RebuildTypes' /\ RebuildInv'
    BY <2>1, <1>t DEF TableTypes, RebuildTypes, RebuildInv
  <2>4. WalkInv'
    BY <2>1, <2>2, <1>t DEF WalkInv, Shown, ToCome
  <2> QED
    BY <2>2, <2>3, <2>4 DEF ListingInv
<1>3. ASSUME NEW from \in {rows, summaries}, walk.phase # "done", Page(from),
             UNCHANGED <<rows, summaries, created, changes, refresh, rebuild, stayed>>
      PROVE  ListingInv'
  <2>1. WalkTypes' /\ WalkInv'
    BY <1>3, <1>t, PageKeepsWalk
  <2>2. TableTypes' /\ RebuildTypes' /\ RebuildInv'
    BY <1>3, <1>t DEF TableTypes, RebuildTypes, RebuildInv
  <2> QED
    BY <2>1, <2>2 DEF ListingInv
<1>4. CASE ListProjectSummaryPage
  BY <1>3, <1>4 DEF ListProjectSummaryPage
<1>5. CASE ListProjectPage
  BY <1>3, <1>5 DEF ListProjectPage
<1> QED
  BY <1>1, <1>2, <1>4, <1>5

(* Whatever projects come and go, and whoever writes summaries meanwhile. *)
LEMMA ListingHolds == ListingSpec => []ListingInv
<1>1. ListingInit => ListingInv
  <2> SUFFICES ASSUME ListingInit PROVE ListingInv
    OBVIOUS
  <2>1. TableTypes
    BY ListingAssumption DEF ListingInit, TableTypes
  <2>2. WalkTypes /\ RebuildTypes
    BY DEF ListingInit, WalkTypes, RebuildTypes
  <2>3. WalkInv
    BY DEF ListingInit, WalkInv, Shown, ToCome
  <2>4. RebuildInv
    BY DEF ListingInit, RebuildInv
  <2> QED
    BY <2>1, <2>2, <2>3, <2>4 DEF ListingInv
<1>2. ListingInv /\ [ListingNext]_listingVars => ListingInv'
  <2> SUFFICES ASSUME ListingInv, [ListingNext]_listingVars PROVE ListingInv'
    OBVIOUS
  <2>1. CASE UNCHANGED listingVars
    BY <2>1 DEF listingVars, ListingInv, TableTypes, WalkTypes, RebuildTypes, WalkInv, RebuildInv, Shown, ToCome
  <2>2. CASE ListingNext
    BY <2>2, ChangesKeep, FindKeeps, UpsertKeeps, StartKeeps, WalkKeeps DEF ListingNext
  <2> QED
    BY <2>1, <2>2
<1> QED
  BY <1>1, <1>2, PTL DEF ListingSpec

(* Whoever walks the pages sees every project that stays in the list once, and a rebuild that ends *)
(* leaves every such project its summary, whatever is created, archived and refreshed meanwhile:   *)
(* for any projects, creation times and sizes of pages and batches (ListProjects; rebuild.go).     *)
THEOREM ListsAreComplete == ListingSpec => []ListIsComplete
<1>1. ListingInv => ListIsComplete
  <2> SUFFICES ASSUME ListingInv PROVE ListIsComplete
    OBVIOUS
  <2>1. walk.items \in Seq(Projects) /\ DOMAIN walk.items = 1..Len(walk.items)
    BY LenProperties DEF ListingInv, WalkTypes
  <2>2. \A p : Shown(p) => p \in Range(walk.items)
    BY <2>1 DEF Shown, Range
  <2>3. WalkIsComplete
    BY <2>1, <2>2 DEF ListingInv, WalkInv, WalkIsComplete
  <2>4. RebuildIsComplete
    BY DEF ListingInv, RebuildInv, RebuildIsComplete
  <2> QED
    BY <2>3, <2>4 DEF ListIsComplete
<1> QED
  BY <1>1, ListingHolds, PTL

(* The rows, the pages and the batches keep their types: no page holds what was never created. *)
THEOREM ListingTypesHold == ListingSpec => []ListingTypeOK
<1>1. ListingInv => ListingTypeOK
  BY DEF ListingInv, TableTypes, WalkTypes, RebuildTypes, ListingTypeOK
<1> QED
  BY <1>1, ListingHolds, PTL

-----------------------------------------------------------------------------
(* The parts side by side                                                  *)

(* A step of one part is a step of its component, and none of the others: every part of the *)
(* composition behaves as its component says.                                               *)
LEMMA PartsBehave == AllSpec => Spec /\ MediaSpec /\ LimitSpec /\ ListingSpec /\ GrowthSpec
<1>1. AllInit => Init /\ MediaInit /\ LimitInit /\ ListingInit /\ GrowthInit
  BY DEF AllInit
<1>2. [RoutingStep \/ MediaStep \/ LimitStep \/ ListStep \/ GrowthStep]_all
          => /\ [Next]_vars /\ [MediaNext]_mediaVars /\ [LimitNext]_limitVars
             /\ [ListingNext]_listingVars /\ [GrowthNext]_growthVars
  BY DEF RoutingStep, MediaStep, LimitStep, ListStep, GrowthStep, all
<1> QED
  BY <1>1, <1>2, PTL DEF AllSpec, Spec, MediaSpec, LimitSpec, ListingSpec, GrowthSpec

(* Whatever requests meet, every row, counter, page and reading is of its type: no page holds  *)
(* a project that was not created, no replica has applied more than was written, and nobody is *)
(* left waiting for a computation that is not there.                                           *)
THEOREM RequestTypesHold == AllSpec => []PartsTypeOK
<1>1. LimitInv /\ MediaInv => LimitTypeOK /\ MediaTypeOK
  BY DEF LimitInv, MediaInv
<1> QED
  BY <1>1, PartsBehave, RoutingTypeCorrect, LimitInvariant, MediaInvariant, GrowthTypesHold, ListingTypesHold, PTL
     DEF PartsTypeOK

=============================================================================
