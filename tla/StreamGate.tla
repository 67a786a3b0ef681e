----------------------------- MODULE StreamGate -----------------------------
(***************************************************************************)
(* The Redis store of the stream limiter (backend/internal/pkg/streamgate/ *)
(* streamgate.go): AI and browser streams are admitted per user, tenant,   *)
(* IP and in all.  Acquire runs one script per scope, one after the other, *)
(* and takes back what it has when a scope refuses or Redis fails; the     *)
(* owner's key is written last.  Every Redis command is one step.          *)
(*                                                                         *)
(* Connections of one kind are modelled; the kinds share no counting key.  *)
(* Time is the set of connections whose expires_at has passed.             *)
(***************************************************************************)
EXTENDS Naturals, Sequences, FiniteSets

CONSTANTS
    Conns,      \* connection IDs: randomID never repeats one
    Scopes,     \* the sorted sets that count connections
    KeysOf,     \* keys(): the sets of each connection, in acquireRedis's order
    Limit,      \* the limit of each scope; 0 is no limit
    MaxFaults   \* bound on failed Redis commands, crashes and stalls

ASSUME StreamGateAssumption ==
    /\ KeysOf \in [Conns -> Seq(Scopes)]
    /\ Limit \in [Scopes -> Nat]
    /\ MaxFaults \in Nat

VARIABLES
    members,    \* the sorted sets
    owner,      \* connections whose prefix:conn:<id> key is set
    expired,    \* connections whose score is in the past
    gate,       \* where each connection is in Acquire or Release
    faults      \* faults so far

gateVars == <<members, owner, expired, gate, faults>>

GatePC == {"idle", "acquiring", "open", "cleaning", "removing", "closed"}

\* next: the scope the next command is for; last: the last one to clean up;
\* now: what had expired when Acquire read the clock.
Gate == [pc : GatePC, next : Nat, last : Nat, now : SUBSET Conns]

GateTypeOK ==
    /\ members \in [Scopes -> SUBSET Conns]
    /\ owner \in SUBSET Conns
    /\ expired \in SUBSET Conns
    /\ gate \in [Conns -> Gate]
    /\ faults \in 0..MaxFaults

GateInit ==
    /\ members = [k \in Scopes |-> {}]
    /\ owner = {}
    /\ expired = {}
    /\ gate = [c \in Conns |-> [pc |-> "idle", next |-> 1, last |-> 0, now |-> {}]]
    /\ faults = 0

GateAt(c, pc) == gate[c].pc = pc

Fault == faults < MaxFaults /\ faults' = faults + 1

\* Redis executes the command, or it fails with or without effect.
Command(var, old, new) ==
    \/ var = new /\ UNCHANGED faults
    \/ var \in {old, new} /\ Fault

\* The scope the next command of c is for.
Key(c) == KeysOf[c][gate[c].next]

Become(c, pc, last) == gate' = [gate EXCEPT ![c] = [pc |-> pc, next |-> 1, last |-> last, now |-> {}]]

CleanUp(c, last) == Become(c, "cleaning", last)

Close(c) == Become(c, "closed", 0)
-----------------------------------------------------------------------------
\* Acquire draws an ID and reads the clock.
Begin(c) ==
    /\ GateAt(c, "idle")
    /\ gate' = [gate EXCEPT ![c] = [@ EXCEPT !.pc = "acquiring", !.now = expired]]
    /\ UNCHANGED <<members, owner, expired, faults>>

\* ZADD, then ZREMRANGEBYSCORE: what ZCARD counts.
Counted(c) == (members[Key(c)] \cup {c}) \ gate[c].now

\* Mutant of Accepted: the limit is compared before the ZADD.
AcceptedBeforeCounting(c) == Limit[Key(c)] > 0 => Cardinality(Counted(c) \ {c}) <= Limit[Key(c)]

Accepted(c) == Limit[Key(c)] > 0 => Cardinality(Counted(c)) <= Limit[Key(c)]

\* The sorted set after the script of acquireRedisScope.
ScopeAfter(c) ==
    [members EXCEPT ![Key(c)] = IF Accepted(c) THEN Counted(c) ELSE Counted(c) \ {c}]

AcquireScope(c) ==
    /\ GateAt(c, "acquiring") /\ gate[c].next <= Len(KeysOf[c])
    /\ members' = ScopeAfter(c)
    /\ IF Accepted(c) THEN gate' = [gate EXCEPT ![c].next = @ + 1]
                      ELSE CleanUp(c, gate[c].next - 1)
    /\ UNCHANGED <<owner, expired, faults>>

\* The script's answer is lost, or it never ran: this scope is not cleaned up.
AcquireScopeFails(c) ==
    /\ GateAt(c, "acquiring") /\ gate[c].next <= Len(KeysOf[c])
    /\ Fault
    /\ members' \in {members, ScopeAfter(c)}
    /\ CleanUp(c, gate[c].next - 1)
    /\ UNCHANGED <<owner, expired>>

\* All scopes accepted: the owner's key is written and the stream opens.
SetOwner(c) ==
    /\ GateAt(c, "acquiring") /\ gate[c].next > Len(KeysOf[c])
    /\ \/ /\ owner' = owner \cup {c}
          /\ Become(c, "open", 0)
          /\ UNCHANGED faults
       \/ /\ Fault
          /\ owner' \in {owner, owner \cup {c}}
          /\ CleanUp(c, Len(KeysOf[c]))
    /\ UNCHANGED <<members, expired>>

\* Release reads the owner's key; whether it is there makes no difference.
Release(c) ==
    /\ GateAt(c, "open")
    /\ \/ CleanUp(c, Len(KeysOf[c])) /\ UNCHANGED faults
       \/ Close(c) /\ Fault
    /\ UNCHANGED <<members, owner, expired>>

\* cleanupRedisAcquire and releaseRedis: DEL, then ZREM of each scope; an
\* error is collected and the next command is sent.
DeleteOwner(c) ==
    /\ GateAt(c, "cleaning")
    /\ Command(owner', owner, owner \ {c})
    /\ gate' = [gate EXCEPT ![c].pc = "removing"]
    /\ UNCHANGED <<members, expired>>

\* Mutant of RemoveMember: the last scope is left out.
RemoveMemberButLast(c) ==
    /\ GateAt(c, "removing")
    /\ \/ /\ gate[c].next < gate[c].last
          /\ Command(members', members, [members EXCEPT ![Key(c)] = @ \ {c}])
          /\ gate' = [gate EXCEPT ![c].next = @ + 1]
       \/ /\ gate[c].next >= gate[c].last
          /\ Close(c)
          /\ UNCHANGED <<members, faults>>
    /\ UNCHANGED <<owner, expired>>

RemoveMember(c) ==
    /\ GateAt(c, "removing")
    /\ \/ /\ gate[c].next <= gate[c].last
          /\ Command(members', members, [members EXCEPT ![Key(c)] = @ \ {c}])
          /\ gate' = [gate EXCEPT ![c].next = @ + 1]
       \/ /\ gate[c].next > gate[c].last
          /\ Close(c)
          /\ UNCHANGED <<members, faults>>
    /\ UNCHANGED <<owner, expired>>

\* The backend instance dies; nothing is taken back.
Crash(c) ==
    /\ gate[c].pc \notin {"idle", "closed"}
    /\ Fault
    /\ Close(c)
    /\ UNCHANGED <<members, owner, expired>>
-----------------------------------------------------------------------------
(* Time.                                                                   *)

\* A lease reaches expires_at; it is never refreshed.  That it does so within
\* Acquire or Release, whose commands end in seconds, is a stall: a fault.
Expire(c) ==
    /\ ~GateAt(c, "idle") /\ c \notin expired
    /\ \/ gate[c].pc \in {"open", "closed"} /\ UNCHANGED faults
       \/ gate[c].pc \notin {"open", "closed"} /\ Fault
    /\ expired' = expired \cup {c}
    /\ UNCHANGED <<members, owner, gate>>

\* The TTL of the owner's key, set after expires_at was computed.
OwnerExpires(c) ==
    /\ c \in owner \cap expired
    /\ owner' = owner \ {c}
    /\ UNCHANGED <<members, expired, gate, faults>>

\* PEXPIRE: the TTL restarts with every ZADD, so all members have expired.
ScopeExpires(k) ==
    /\ members[k] # {} /\ members[k] \subseteq expired
    /\ members' = [members EXCEPT ![k] = {}]
    /\ UNCHANGED <<owner, expired, gate, faults>>
-----------------------------------------------------------------------------
GateNext ==
    \/ \E c \in Conns :
          \/ Begin(c) \/ AcquireScope(c) \/ AcquireScopeFails(c) \/ SetOwner(c)
          \/ Release(c) \/ DeleteOwner(c) \/ RemoveMember(c) \/ Crash(c)
          \/ Expire(c) \/ OwnerExpires(c)
    \/ \E k \in Scopes : ScopeExpires(k)

GateSpec == GateInit /\ [][GateNext]_gateVars

\* Time passes, and Redis drops what has expired.
GateFairness ==
    /\ \A c \in Conns : WF_gateVars(Expire(c)) /\ WF_gateVars(OwnerExpires(c))
    /\ \A k \in Scopes : WF_gateVars(ScopeExpires(k))

GateFairSpec == GateSpec /\ GateFairness
-----------------------------------------------------------------------------
Live == {c \in Conns : GateAt(c, "open")} \ expired

Admission == INSTANCE StreamAdmission WITH live <- Live

(***************************************************************************)
(* The limiter implements StreamAdmission: although the scopes are taken   *)
(* one at a time, by racing instances with clocks read at different times, *)
(* with lost answers and crashes, a stream is only opened while each of    *)
(* its scopes has room among the streams open and not expired.             *)
(***************************************************************************)
ImplementsAdmission == Admission!AdmissionSpec

(***************************************************************************)
(* Nothing is left of a connection that was refused, failed or released,   *)
(* unless a Redis command failed: the partial clean-up of acquireRedis     *)
(* names exactly the scopes taken so far.                                  *)
(***************************************************************************)
ClosedLeavesNothing ==
    faults = 0 => \A c \in Conns : GateAt(c, "closed") =>
        c \notin owner /\ \A k \in Scopes : c \notin members[k]

(***************************************************************************)
(* "The configured TTL is the upper bound for stale admission state": what *)
(* a crash or a failed command left behind is gone in the end.             *)
(***************************************************************************)
LeftoversExpire ==
    \A c \in Conns : GateAt(c, "closed") ~>
        (c \notin owner /\ \A k \in Scopes : c \notin members[k])
=============================================================================
