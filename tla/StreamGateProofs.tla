-------------------------- MODULE StreamGateProofs --------------------------
(***************************************************************************)
(* The Redis store of the stream limiter, for any connections, scopes,     *)
(* limits and faults.                                                      *)
(*                                                                         *)
(* The argument: a connection holds a scope from the script that accepted  *)
(* it until its clean-up begins.  Holders whose lease runs are members of  *)
(* the scope's set, since only expired ones are pruned; so when a script   *)
(* accepts, the holders are among what it counted.  The step that opens a  *)
(* stream turns a holder of all its scopes into a live one.                *)
(***************************************************************************)
EXTENDS StreamGate, FiniteSetTheorems, TLAPS

\* The connection counts in scope k by one of its scopes lo..hi.
Named(c, k, lo, hi) ==
    \E i \in DOMAIN KeysOf[c] : lo <= i /\ i <= hi /\ KeysOf[c][i] = k

Holds(c, k) ==
    \/ GateAt(c, "acquiring") /\ Named(c, k, 1, gate[c].next - 1)
    \/ GateAt(c, "open") /\ Named(c, k, 1, Len(KeysOf[c]))

Holders(k) == {c \in Conns : c \notin expired /\ Holds(c, k)}

\* Acquire goes through the scopes in order; a clock was read in the past.
Ordered(c) ==
    /\ gate[c].next >= 1 /\ gate[c].now \subseteq expired
    /\ gate[c].pc \in {"idle", "cleaning"} => gate[c].next = 1
    /\ gate[c].pc = "acquiring" => gate[c].next <= Len(KeysOf[c]) + 1

Progress == \A c \in Conns : Ordered(c)

Counts ==
    \A k \in Scopes :
        /\ IsFiniteSet(members[k])
        /\ Holders(k) \subseteq members[k]
        /\ Limit[k] > 0 => Cardinality(Holders(k)) <= Limit[k]

\* What a connection may have left, as long as no command has failed.
Leaves(c) ==
    /\ c \in owner => gate[c].pc \in {"open", "cleaning"}
    /\ \A k \in Scopes : c \in members[k] =>
          /\ gate[c].pc \notin {"idle", "closed"}
          /\ GateAt(c, "acquiring") => Named(c, k, 1, gate[c].next - 1)
          /\ GateAt(c, "open") => Named(c, k, 1, Len(KeysOf[c]))
          /\ GateAt(c, "cleaning") => Named(c, k, 1, gate[c].last)
          /\ GateAt(c, "removing") => Named(c, k, gate[c].next, gate[c].last)

Tidy == faults = 0 => \A c \in Conns : Leaves(c)

Inv == GateTypeOK /\ Progress /\ Counts /\ Tidy
-----------------------------------------------------------------------------
(* The keys of a connection are scopes. *)
LEMMA KeyTypes ==
  ASSUME NEW c \in Conns
  PROVE  /\ Len(KeysOf[c]) \in Nat /\ DOMAIN KeysOf[c] = 1..Len(KeysOf[c])
         /\ \A i \in DOMAIN KeysOf[c] : KeysOf[c][i] \in Scopes
  BY StreamGateAssumption

(* The fields of a connection's state. *)
LEMMA GateTypes ==
  ASSUME GateTypeOK, NEW c \in Conns
  PROVE  gate[c].pc \in GatePC /\ gate[c].next \in Nat /\ gate[c].last \in Nat /\ gate[c].now \in SUBSET Conns
  BY DEF GateTypeOK, Gate

(* At first no connection holds a key. *)
LEMMA InitInv == GateInit => Inv
<1> SUFFICES ASSUME GateInit PROVE Inv
  OBVIOUS
<1>1. GateTypeOK
  BY StreamGateAssumption DEF GateInit, GateTypeOK, Gate, GatePC
<1>2. Progress
  BY KeyTypes DEF GateInit, Progress, Ordered
<1>3. Counts
  <2>1. \A k \in Scopes : members[k] = {} /\ Holders(k) = {}
    BY DEF GateInit, Holders, Holds, GateAt
  <2>2. IsFiniteSet({}) /\ Cardinality({}) = 0
    BY FS_EmptySet
  <2>3. \A k \in Scopes : Limit[k] >= 0
    BY StreamGateAssumption
  <2> QED
    BY <2>1, <2>2, <2>3 DEF Counts
<1>4. Tidy
  BY DEF GateInit, Tidy, Leaves
<1> QED
  BY <1>1, <1>2, <1>3, <1>4 DEF Inv

(***************************************************************************)
(* Types.                                                                  *)
(***************************************************************************)
LEMMA StepTypes == GateTypeOK /\ Progress /\ [GateNext]_gateVars => GateTypeOK'
<1> SUFFICES ASSUME GateTypeOK, Progress, [GateNext]_gateVars PROVE GateTypeOK'
  OBVIOUS
<1>0. Fault => faults' \in 0..MaxFaults
  BY StreamGateAssumption DEF Fault, GateTypeOK
<1>1. ASSUME NEW c \in Conns, NEW pc \in GatePC, NEW n \in Nat, Become(c, pc, n)
      PROVE  gate' \in [Conns -> Gate]
  BY <1>1 DEF Become, GateTypeOK, Gate
<1>2. ASSUME NEW c \in Conns, NEW pc \in GatePC, gate' = [gate EXCEPT ![c].pc = pc]
      PROVE  gate' \in [Conns -> Gate]
  BY <1>2 DEF GateTypeOK, Gate
<1>3. ASSUME NEW c \in Conns, gate' = [gate EXCEPT ![c].next = @ + 1]
      PROVE  gate' \in [Conns -> Gate]
  <2>1. gate[c] \in Gate /\ gate[c].next + 1 \in Nat
    BY GateTypes DEF GateTypeOK
  <2>2. [gate[c] EXCEPT !.next = @ + 1] \in Gate
    BY <2>1 DEF Gate
  <2> QED
    BY <1>3, <2>2 DEF GateTypeOK
<1>4. {"idle", "acquiring", "open", "cleaning", "removing", "closed"} = GatePC
  BY DEF GatePC
<1>5. ASSUME NEW c \in Conns, gate[c].next <= Len(KeysOf[c])
      PROVE  ScopeAfter(c) \in [Scopes -> SUBSET Conns]
  BY <1>5 DEF ScopeAfter, Counted, GateTypeOK
<1>6. ASSUME NEW c \in Conns, Begin(c) PROVE GateTypeOK'
  <2>0. gate[c] \in Gate /\ "acquiring" \in GatePC /\ expired \in SUBSET Conns
    BY DEF GateTypeOK, GatePC
  <2>1. [gate[c] EXCEPT !.pc = "acquiring", !.now = expired] \in Gate
    BY <2>0 DEF Gate
  <2>2. gate' \in [Conns -> Gate]
    BY <1>6, <2>1 DEF Begin, GateTypeOK
  <2> QED
    BY <1>6, <2>2 DEF Begin, GateTypeOK
<1>7. ASSUME NEW c \in Conns, AcquireScope(c) PROVE GateTypeOK'
  <2>1. gate[c].next - 1 \in Nat \/ Accepted(c)
    BY <1>7, GateTypes DEF AcquireScope, Progress, Ordered
  <2>2. gate' \in [Conns -> Gate]
    BY <1>1, <1>3, <1>4, <1>7, <2>1 DEF AcquireScope, CleanUp
  <2> QED
    BY <1>5, <1>7, <2>2 DEF AcquireScope, GateTypeOK
<1>8. ASSUME NEW c \in Conns, AcquireScopeFails(c) PROVE GateTypeOK'
  <2>1. gate[c].next - 1 \in Nat
    BY <1>8, GateTypes DEF AcquireScopeFails, Progress, Ordered
  <2>2. gate' \in [Conns -> Gate]
    BY <1>1, <1>4, <1>8, <2>1 DEF AcquireScopeFails, CleanUp
  <2> QED
    BY <1>0, <1>5, <1>8, <2>2 DEF AcquireScopeFails, GateTypeOK
<1>9. ASSUME NEW c \in Conns, SetOwner(c) PROVE GateTypeOK'
  <2>1. gate' \in [Conns -> Gate]
    BY <1>1, <1>4, <1>9, KeyTypes DEF SetOwner, CleanUp
  <2> QED
    BY <1>0, <1>9, <2>1 DEF SetOwner, GateTypeOK
<1>10. ASSUME NEW c \in Conns, Release(c) PROVE GateTypeOK'
  <2>1. gate' \in [Conns -> Gate]
    BY <1>1, <1>4, <1>10, KeyTypes DEF Release, CleanUp, Close
  <2> QED
    BY <1>0, <1>10, <2>1 DEF Release, GateTypeOK
<1>11. ASSUME NEW c \in Conns, DeleteOwner(c) PROVE GateTypeOK'
  <2>1. gate' \in [Conns -> Gate]
    BY <1>2, <1>4, <1>11 DEF DeleteOwner
  <2> QED
    BY <1>0, <1>11, <2>1 DEF DeleteOwner, Command, GateTypeOK
<1>12. ASSUME NEW c \in Conns, RemoveMember(c) PROVE GateTypeOK'
  <2>1. gate' \in [Conns -> Gate]
    BY <1>1, <1>3, <1>4, <1>12 DEF RemoveMember, Close
  <2>2. [members EXCEPT ![Key(c)] = @ \ {c}] \in [Scopes -> SUBSET Conns]
    BY DEF GateTypeOK
  <2> QED
    BY <1>0, <1>12, <2>1, <2>2 DEF RemoveMember, Command, GateTypeOK
<1>13. ASSUME NEW c \in Conns, Crash(c) PROVE GateTypeOK'
  <2>1. gate' \in [Conns -> Gate]
    BY <1>1, <1>4, <1>13 DEF Crash, Close
  <2> QED
    BY <1>0, <1>13, <2>1 DEF Crash, GateTypeOK
<1>14. ASSUME NEW c \in Conns, Expire(c) \/ OwnerExpires(c) PROVE GateTypeOK'
  BY <1>0, <1>14 DEF Expire, OwnerExpires, GateTypeOK
<1>15. ASSUME NEW k \in Scopes, ScopeExpires(k) PROVE GateTypeOK'
  BY <1>15 DEF ScopeExpires, GateTypeOK
<1>16. CASE UNCHANGED gateVars
  BY <1>16 DEF gateVars, GateTypeOK
<1> QED
  BY <1>6, <1>7, <1>8, <1>9, <1>10, <1>11, <1>12, <1>13, <1>14, <1>15, <1>16 DEF GateNext

(***************************************************************************)
(* The scopes are taken in order, and what a script prunes has expired.    *)
(***************************************************************************)
LEMMA StepProgress == GateTypeOK /\ Progress /\ [GateNext]_gateVars => Progress'
<1> SUFFICES ASSUME GateTypeOK, Progress, [GateNext]_gateVars, NEW d \in Conns
             PROVE  Ordered(d)'
  BY DEF Progress
<1>1. /\ gate \in [Conns -> Gate] /\ Ordered(d)
      /\ gate[d].next \in Nat /\ Len(KeysOf[d]) \in Nat
  BY KeyTypes, GateTypes DEF GateTypeOK, Progress
<1>2. ASSUME NEW c \in Conns, NEW pc, NEW n, Become(c, pc, n), pc # "acquiring", expired' = expired
      PROVE  Ordered(d)'
  BY <1>1, <1>2 DEF Become, Ordered
<1>3. ASSUME UNCHANGED gate, expired \subseteq expired'
      PROVE  Ordered(d)'
  BY <1>1, <1>3 DEF Ordered
<1>4. ASSUME NEW c \in Conns, gate' = [gate EXCEPT ![c].next = @ + 1], expired' = expired,
             gate[c].pc \in {"acquiring", "removing"},
             gate[c].pc = "acquiring" => gate[c].next <= Len(KeysOf[c])
      PROVE  Ordered(d)'
  <2>1. CASE c = d
    <3>1. gate'[d] = [gate[d] EXCEPT !.next = @ + 1] /\ gate[d] \in Gate
      BY <1>1, <1>4, <2>1
    <3>2. gate'[d].next = gate[d].next + 1 /\ gate'[d].now = gate[d].now /\ gate'[d].pc = gate[d].pc
      BY <3>1 DEF Gate
    <3> QED
      BY <1>1, <1>4, <2>1, <3>2 DEF Ordered
  <2>2. CASE c # d
    BY <1>1, <1>4, <2>2 DEF Ordered
  <2> QED
    BY <2>1, <2>2
<1>5. ASSUME NEW c \in Conns, Begin(c) PROVE Ordered(d)'
  <2>1. CASE c = d
    <3>1. gate'[d] = [gate[d] EXCEPT !.pc = "acquiring", !.now = expired] /\ gate[d] \in Gate
      BY <1>1, <1>5, <2>1 DEF Begin
    <3>2. gate'[d].next = gate[d].next /\ gate'[d].now = expired
      BY <3>1 DEF Gate
    <3>3. gate[d].pc = "idle" /\ expired' = expired
      BY <1>5, <2>1 DEF Begin, GateAt
    <3> QED
      BY <1>1, <3>2, <3>3 DEF Ordered
  <2>2. CASE c # d
    BY <1>1, <1>5, <2>2 DEF Begin, Ordered
  <2> QED
    BY <2>1, <2>2
<1>6. ASSUME NEW c \in Conns, DeleteOwner(c) PROVE Ordered(d)'
  <2>1. CASE c = d
    <3>1. gate'[d] = [gate[d] EXCEPT !.pc = "removing"] /\ gate[d] \in Gate
      BY <1>1, <1>6, <2>1 DEF DeleteOwner
    <3>2. gate'[d].next = gate[d].next /\ gate'[d].now = gate[d].now /\ gate'[d].pc = "removing"
      BY <3>1 DEF Gate
    <3> QED
      BY <1>1, <1>6, <3>2 DEF Ordered, DeleteOwner
  <2>2. CASE c # d
    BY <1>1, <1>6, <2>2 DEF DeleteOwner, Ordered
  <2> QED
    BY <2>1, <2>2
<1>7. ASSUME NEW c \in Conns, AcquireScope(c) \/ AcquireScopeFails(c) PROVE Ordered(d)'
  BY <1>2, <1>4, <1>7 DEF AcquireScope, AcquireScopeFails, CleanUp, GateAt
<1>8. ASSUME NEW c \in Conns, SetOwner(c) \/ Release(c) \/ Crash(c) PROVE Ordered(d)'
  BY <1>2, <1>8 DEF SetOwner, Release, Crash, CleanUp, Close
<1>9. ASSUME NEW c \in Conns, RemoveMember(c) PROVE Ordered(d)'
  BY <1>2, <1>4, <1>9 DEF RemoveMember, Close, GateAt
<1>10. ASSUME NEW c \in Conns, Expire(c) \/ OwnerExpires(c) PROVE Ordered(d)'
  BY <1>3, <1>10 DEF Expire, OwnerExpires
<1>11. ASSUME NEW k \in Scopes, ScopeExpires(k) PROVE Ordered(d)'
  BY <1>3, <1>11 DEF ScopeExpires
<1>12. CASE UNCHANGED gateVars
  BY <1>3, <1>12 DEF gateVars
<1> QED
  BY <1>5, <1>6, <1>7, <1>8, <1>9, <1>10, <1>11, <1>12 DEF GateNext

(***************************************************************************)
(* The holders of a scope.                                                 *)
(***************************************************************************)
LEMMA FewerHolders ==
  ASSUME Counts,
         \A k \in Scopes : /\ Holders(k)' \subseteq Holders(k)
                           /\ IsFiniteSet(members'[k])
                           /\ Holders(k)' \subseteq members'[k]
  PROVE  Counts'
<1> SUFFICES ASSUME NEW k \in Scopes, Limit[k] > 0
             PROVE  Cardinality(Holders(k)') <= Limit[k]
  BY DEF Counts
<1>1. IsFiniteSet(Holders(k)) /\ Holders(k)' \subseteq Holders(k) /\ Cardinality(Holders(k)) <= Limit[k]
  BY FS_Subset DEF Counts
<1>2. /\ Cardinality(Holders(k)') <= Cardinality(Holders(k))
      /\ Cardinality(Holders(k)') \in Nat /\ Cardinality(Holders(k)) \in Nat /\ Limit[k] \in Nat
  BY <1>1, FS_Subset, FS_CardinalityType, StreamGateAssumption
<1> QED
  BY <1>1, <1>2

\* Who gives up holds nothing; the others hold what they held.
LEMMA GivesUp ==
  ASSUME GateTypeOK, NEW c \in Conns, NEW pc, pc \notin {"acquiring", "open"}, NEW n,
         Become(c, pc, n), expired' = expired, NEW k
  PROVE  Holders(k)' = Holders(k) \ {c}
  BY DEF GateTypeOK, Become, Holders, Holds, GateAt

\* Time only takes holders away.
LEMMA TimePasses ==
  ASSUME gate' = gate, expired \subseteq expired', NEW k
  PROVE  Holders(k)' \subseteq Holders(k)
  BY DEF Holders, Holds, GateAt

\* The script prunes and refuses no running holder but its own connection.
LEMMA ScriptKeepsHolders ==
  ASSUME GateTypeOK, Progress, Counts, NEW c \in Conns, gate[c].next <= Len(KeysOf[c]), NEW k \in Scopes
  PROVE  IsFiniteSet(ScopeAfter(c)[k]) /\ Holders(k) \ {c} \subseteq ScopeAfter(c)[k]
<1>1. IsFiniteSet(members[k]) /\ Holders(k) \subseteq members[k] /\ Holders(k) \cap expired = {}
  BY DEF Counts, Holders
<1>2. gate[c].now \subseteq expired
  BY DEF Progress, Ordered
<1>3. CASE k = Key(c)
  <2>1. IsFiniteSet(members[k] \cup {c})
    BY <1>1, FS_AddElement
  <2>2. IsFiniteSet(Counted(c)) /\ IsFiniteSet(Counted(c) \ {c})
    BY <1>3, <2>1, FS_Subset DEF Counted
  <2>3. Holders(k) \ {c} \subseteq Counted(c) \ {c}
    BY <1>1, <1>2, <1>3 DEF Counted
  <2>4. ScopeAfter(c)[k] = IF Accepted(c) THEN Counted(c) ELSE Counted(c) \ {c}
    BY <1>3 DEF ScopeAfter, GateTypeOK
  <2> QED
    BY <2>2, <2>3, <2>4
<1>4. CASE k # Key(c)
  BY <1>1, <1>4 DEF ScopeAfter, GateTypeOK
<1> QED
  BY <1>3, <1>4

(***************************************************************************)
(* The running holders of a scope are members of its set and within its    *)
(* limit.                                                                  *)
(***************************************************************************)
LEMMA StepCounts == GateTypeOK /\ Progress /\ Counts /\ [GateNext]_gateVars => Counts'
<1> SUFFICES ASSUME GateTypeOK, Progress, Counts, [GateNext]_gateVars PROVE Counts'
  OBVIOUS
<1>1. \A k \in Scopes : IsFiniteSet(members[k]) /\ Holders(k) \subseteq members[k]
  BY DEF Counts
<1>2. ASSUME members' = members, \A k \in Scopes : Holders(k)' \subseteq Holders(k) PROVE Counts'
  BY <1>1, <1>2, FewerHolders
<1>3. ASSUME NEW c \in Conns, Begin(c) PROVE Counts'
  <2>1. ASSUME NEW k \in Scopes, NEW d \in Holders(k)' PROVE d \in Holders(k)
    <3>1. d \in Conns /\ d \notin expired /\ Holds(d, k)'
      BY <1>3, <2>1 DEF Holders, Begin
    <3>2. CASE d = c
      <4>1. gate'[c].pc = "acquiring" /\ gate'[c].next = 1
        <5>1. gate'[c] = [gate[c] EXCEPT !.pc = "acquiring", !.now = expired] /\ gate[c] \in Gate
          BY <1>3 DEF Begin, GateTypeOK
        <5>2. gate'[c].pc = "acquiring" /\ gate'[c].next = gate[c].next
          BY <5>1 DEF Gate
        <5> QED
          BY <1>3, <5>2 DEF Progress, Ordered, Begin, GateAt
      <4> QED
        BY <3>1, <3>2, <4>1, KeyTypes DEF Holds, Named, GateAt
    <3>3. CASE d # c
      BY <1>3, <3>1, <3>3 DEF Begin, Holders, Holds, GateAt, GateTypeOK
    <3> QED
      BY <3>2, <3>3
  <2> QED
    BY <1>2, <1>3, <2>1 DEF Begin
<1>4. ASSUME NEW c \in Conns, GateAt(c, "acquiring"), gate[c].next <= Len(KeysOf[c]),
             members' \in {members, ScopeAfter(c)}, CleanUp(c, gate[c].next - 1), expired' = expired
      PROVE  Counts'
  <2>1. ASSUME NEW k \in Scopes PROVE Holders(k)' = Holders(k) \ {c}
    BY <1>4, GivesUp DEF CleanUp
  <2>2. \A k \in Scopes : IsFiniteSet(members'[k]) /\ Holders(k) \ {c} \subseteq members'[k]
    BY <1>1, <1>4, ScriptKeepsHolders
  <2> QED
    BY <2>1, <2>2, FewerHolders
<1>5. ASSUME NEW c \in Conns, AcquireScope(c) PROVE Counts'
  <2>1. CASE ~Accepted(c)
    BY <1>4, <1>5, <2>1 DEF AcquireScope
  <2>2. CASE Accepted(c)
    <3>1. /\ GateAt(c, "acquiring") /\ gate[c].next <= Len(KeysOf[c]) /\ members' = ScopeAfter(c)
          /\ gate' = [gate EXCEPT ![c].next = @ + 1] /\ expired' = expired
      BY <1>5, <2>2 DEF AcquireScope
    <3>2. /\ gate[c].next \in Nat /\ gate[c].next >= 1 /\ gate[c].now \subseteq expired
          /\ Key(c) \in Scopes /\ gate[c].next \in DOMAIN KeysOf[c]
      BY <3>1, GateTypes, KeyTypes DEF Progress, Ordered, Key
    <3>3. gate'[c].next = gate[c].next + 1 /\ gate'[c].pc = "acquiring"
      <4>1. gate'[c] = [gate[c] EXCEPT !.next = @ + 1] /\ gate[c] \in Gate
        BY <3>1 DEF GateTypeOK
      <4> QED
        BY <3>1, <4>1 DEF Gate, GateAt
    <3>4. \A d \in Conns \ {c} : gate'[d] = gate[d]
      BY <3>1 DEF GateTypeOK
    <3>5. PICK key \in Scopes : key = Key(c)
      BY <3>2
    <3>6. ASSUME NEW k \in Scopes, k # key PROVE Holders(k)' = Holders(k)
      <4>1. Holds(c, k)' <=> Holds(c, k)
        BY <3>1, <3>2, <3>3, <3>5, <3>6 DEF Holds, Named, GateAt, Key
      <4>2. \A d \in Conns \ {c} : Holds(d, k)' <=> Holds(d, k)
        BY <3>4 DEF Holds, GateAt
      <4> QED
        BY <3>1, <4>1, <4>2 DEF Holders
    <3>7. Holders(key)' \subseteq Counted(c)
      <4>1. \A d \in Conns \ {c} : Holds(d, key)' <=> Holds(d, key)
        BY <3>4 DEF Holds, GateAt
      <4>2. Holders(key)' \subseteq Holders(key) \cup {c}
        BY <3>1, <4>1 DEF Holders
      <4>3. c \in Holders(key)' => c \notin expired
        BY <3>1 DEF Holders
      <4> QED
        BY <1>1, <3>2, <3>5, <4>2, <4>3 DEF Counted, Holders
    <3>8. members'[key] = Counted(c) /\ \A k \in Scopes : k # key => members'[k] = members[k]
      BY <2>2, <3>1, <3>5 DEF ScopeAfter, GateTypeOK
    <3>9. \A k \in Scopes : IsFiniteSet(members'[k])
      BY <3>1, ScriptKeepsHolders
    <3>10. ASSUME Limit[key] > 0 PROVE Cardinality(Holders(key)') <= Limit[key]
      <4>1. IsFiniteSet(Counted(c)) /\ Cardinality(Counted(c)) <= Limit[key]
        BY <2>2, <3>5, <3>8, <3>9, <3>10 DEF Accepted
      <4>2. /\ IsFiniteSet(Holders(key)')
            /\ Cardinality(Holders(key)') <= Cardinality(Counted(c))
        BY <3>7, <4>1, FS_Subset
      <4>3. Cardinality(Holders(key)') \in Nat /\ Cardinality(Counted(c)) \in Nat /\ Limit[key] \in Nat
        BY <4>1, <4>2, FS_CardinalityType, StreamGateAssumption
      <4> QED
        BY <4>1, <4>2, <4>3
    <3>11. ASSUME NEW k \in Scopes
           PROVE  /\ IsFiniteSet(members'[k]) /\ Holders(k)' \subseteq members'[k]
                  /\ Limit[k] > 0 => Cardinality(Holders(k)') <= Limit[k]
      <4>1. CASE k = key
        BY <3>7, <3>8, <3>9, <3>10, <4>1
      <4>2. CASE k # key
        <5>1. Holders(k)' = Holders(k) /\ members'[k] = members[k]
          BY <3>6, <3>8, <4>2
        <5> QED
          BY <5>1 DEF Counts
      <4> QED
        BY <4>1, <4>2
    <3> QED
      BY <3>11 DEF Counts
  <2> QED
    BY <2>1, <2>2
<1>6. ASSUME NEW c \in Conns, AcquireScopeFails(c) PROVE Counts'
  BY <1>4, <1>6 DEF AcquireScopeFails
<1>7. ASSUME NEW c \in Conns, NEW pc, NEW n, Become(c, pc, n), pc \notin {"acquiring", "open"},
             members' = members, expired' = expired
      PROVE  Counts'
  BY <1>2, <1>7, GivesUp
<1>8. ASSUME NEW c \in Conns, SetOwner(c) PROVE Counts'
  <2>1. CASE Become(c, "open", 0)
    <3>1. gate'[c].pc = "open" /\ \A d \in Conns \ {c} : gate'[d] = gate[d]
      BY <2>1 DEF Become, GateTypeOK
    <3>2. /\ GateAt(c, "acquiring") /\ gate[c].next - 1 = Len(KeysOf[c])
          /\ members' = members /\ expired' = expired
      BY <1>8, GateTypes, KeyTypes DEF SetOwner, Progress, Ordered, GateAt
    <3>3. ASSUME NEW k \in Scopes PROVE Holders(k)' \subseteq Holders(k)
      <4>1. \A d \in Conns : Holds(d, k)' => Holds(d, k)
        BY <3>1, <3>2 DEF Holds, GateAt
      <4> QED
        BY <3>2, <4>1 DEF Holders
    <3> QED
      BY <1>2, <3>2, <3>3
  <2>2. CASE CleanUp(c, Len(KeysOf[c]))
    BY <1>7, <1>8, <2>2 DEF SetOwner, CleanUp
  <2> QED
    BY <1>8, <2>1, <2>2 DEF SetOwner
<1>9. ASSUME NEW c \in Conns, Release(c) \/ Crash(c) PROVE Counts'
  BY <1>7, <1>9 DEF Release, Crash, CleanUp, Close
<1>10. ASSUME NEW c \in Conns, DeleteOwner(c) PROVE Counts'
  <2>1. /\ GateAt(c, "cleaning") /\ gate' = [gate EXCEPT ![c].pc = "removing"]
        /\ members' = members /\ expired' = expired
    BY <1>10 DEF DeleteOwner
  <2>2. gate'[c].pc = "removing" /\ \A d \in Conns \ {c} : gate'[d] = gate[d]
    BY <2>1 DEF GateTypeOK, Gate
  <2>3. \A k \in Scopes : Holders(k)' \subseteq Holders(k)
    BY <2>1, <2>2 DEF Holders, Holds, GateAt
  <2> QED
    BY <1>2, <2>1, <2>3
<1>11. ASSUME NEW c \in Conns, RemoveMember(c) PROVE Counts'
  <2>1. GateAt(c, "removing") /\ expired' = expired
    BY <1>11 DEF RemoveMember
  <2>2. CASE Close(c) /\ members' = members
    BY <1>7, <2>1, <2>2 DEF Close
  <2>3. CASE gate' = [gate EXCEPT ![c].next = @ + 1]
    <3>1. \A d \in Conns : gate'[d].pc = gate[d].pc /\ (d # c => gate'[d] = gate[d])
      BY <2>3 DEF GateTypeOK, Gate
    <3>2. \A k \in Scopes : c \notin Holders(k) /\ Holders(k)' \subseteq Holders(k)
      BY <2>1, <3>1 DEF Holders, Holds, GateAt
    <3>3. members' \in {members, [members EXCEPT ![Key(c)] = @ \ {c}]} \/ members' = members
      BY <1>11, <2>3 DEF RemoveMember, Command
    <3>4. \A k \in Scopes : members'[k] \in {members[k], members[k] \ {c}}
      BY <3>3 DEF GateTypeOK
    <3>5. \A k \in Scopes : IsFiniteSet(members[k] \ {c}) /\ Holders(k) \subseteq members[k] \ {c}
      BY <1>1, <3>2, FS_Subset
    <3> QED
      BY <1>1, <3>2, <3>4, <3>5, FewerHolders
  <2> QED
    BY <1>11, <2>2, <2>3 DEF RemoveMember
<1>12. ASSUME NEW c \in Conns, Expire(c) \/ OwnerExpires(c) PROVE Counts'
  BY <1>2, <1>12, TimePasses DEF Expire, OwnerExpires
<1>13. ASSUME NEW k \in Scopes, ScopeExpires(k) PROVE Counts'
  <2>1. Holders(k) = {} /\ \A j \in Scopes : Holders(j)' \subseteq Holders(j)
    BY <1>1, <1>13, TimePasses DEF ScopeExpires, Holders
  <2>2. members'[k] = {} /\ \A j \in Scopes \ {k} : members'[j] = members[j]
    BY <1>13 DEF ScopeExpires, GateTypeOK
  <2>3. ASSUME NEW j \in Scopes PROVE IsFiniteSet(members'[j]) /\ Holders(j)' \subseteq members'[j]
    BY <1>1, <2>1, <2>2, FS_EmptySet
  <2> QED
    BY <2>1, <2>3, FewerHolders
<1>14. CASE UNCHANGED gateVars
  BY <1>2, <1>14, TimePasses DEF gateVars
<1> QED
  BY <1>3, <1>5, <1>6, <1>8, <1>9, <1>10, <1>11, <1>12, <1>13, <1>14 DEF GateNext

(***************************************************************************)
(* What is left behind, while nothing has failed.                          *)
(***************************************************************************)
LEMMA StepTidy == GateTypeOK /\ Progress /\ Tidy /\ [GateNext]_gateVars => Tidy'
<1> SUFFICES ASSUME GateTypeOK, Progress, Tidy, [GateNext]_gateVars, faults' = 0, NEW d \in Conns
             PROVE  Leaves(d)'
  BY DEF Tidy
<1>1. faults \in Nat /\ (Fault => faults' = faults + 1)
  BY DEF GateTypeOK, Fault
<1>2. ~Fault
  BY <1>1
<1>3. ASSUME UNCHANGED faults PROVE Leaves(d)
  BY <1>3 DEF Tidy
<1>4. /\ gate \in [Conns -> Gate] /\ members \in [Scopes -> SUBSET Conns]
      /\ DOMAIN KeysOf[d] = 1..Len(KeysOf[d]) /\ Len(KeysOf[d]) \in Nat
      /\ gate[d].next \in Nat /\ gate[d].last \in Nat /\ gate[d].next >= 1
      /\ gate[d].pc \in {"idle", "cleaning"} => gate[d].next = 1
  BY KeyTypes, GateTypes DEF GateTypeOK, Progress, Ordered
<1>5. ASSUME gate'[d] = gate[d], UNCHANGED faults, d \in owner' => d \in owner,
             \A k \in Scopes : d \in members'[k] => d \in members[k]
      PROVE  Leaves(d)'
  BY <1>3, <1>5 DEF Leaves, GateAt
<1>6. ASSUME NEW c \in Conns, Begin(c) PROVE Leaves(d)'
  <2>1. CASE c = d
    <3>1. gate'[d] = [gate[d] EXCEPT !.pc = "acquiring", !.now = expired] /\ gate[d] \in Gate
      BY <1>4, <1>6, <2>1 DEF Begin
    <3>2. gate'[d].pc = "acquiring" /\ UNCHANGED <<members, owner, faults>> /\ gate[d].pc = "idle"
      BY <1>6, <2>1, <3>1 DEF Begin, Gate, GateAt
    <3> QED
      BY <1>3, <3>2 DEF Leaves
  <2>2. CASE c # d
    BY <1>4, <1>5, <1>6, <2>2 DEF Begin
  <2> QED
    BY <2>1, <2>2
<1>7. ASSUME NEW c \in Conns, AcquireScope(c) PROVE Leaves(d)'
  <2>1. CASE c # d
    <3>1. \A k \in Scopes : d \in members'[k] => d \in members[k]
      BY <1>4, <1>7, <2>1 DEF AcquireScope, ScopeAfter, Counted
    <3> QED
      BY <1>4, <1>5, <1>7, <2>1, <3>1 DEF AcquireScope, CleanUp, Become
  <2>2. CASE c = d
    <3>1. /\ gate[d].pc = "acquiring" /\ members' = ScopeAfter(d) /\ UNCHANGED <<owner, faults>>
          /\ gate[d].next <= Len(KeysOf[d])
      BY <1>7, <2>2 DEF AcquireScope, GateAt
    <3>2. d \notin owner
      BY <1>3, <3>1 DEF Leaves
    <3>3. \A k \in Scopes : d \in members[k] => Named(d, k, 1, gate[d].next - 1)
      BY <1>3, <3>1 DEF Leaves, GateAt
    <3>4. CASE Accepted(d)
      <4>1. gate'[d].pc = "acquiring" /\ gate'[d].next = gate[d].next + 1
        <5>1. gate'[d] = [gate[d] EXCEPT !.next = @ + 1] /\ gate[d] \in Gate
          BY <1>4, <1>7, <2>2, <3>4 DEF AcquireScope
        <5> QED
          BY <3>1, <5>1 DEF Gate
      <4>2. ASSUME NEW k \in Scopes, d \in members'[k] PROVE Named(d, k, 1, gate[d].next)
        <5>1. CASE k = Key(d)
          BY <1>4, <3>1, <5>1 DEF Named, Key
        <5>2. CASE k # Key(d)
          <6>1. d \in members[k]
            BY <1>4, <3>1, <4>2, <5>2 DEF ScopeAfter
          <6> QED
            BY <1>4, <3>3, <6>1 DEF Named
        <5> QED
          BY <5>1, <5>2
      <4>3. gate'[d].next - 1 = gate[d].next
        BY <1>4, <4>1
      <4> QED
        BY <3>1, <3>2, <4>1, <4>2, <4>3 DEF Leaves, GateAt, Named
    <3>5. CASE ~Accepted(d)
      <4>1. gate'[d].pc = "cleaning" /\ gate'[d].last = gate[d].next - 1
        BY <1>4, <1>7, <2>2, <3>5 DEF AcquireScope, CleanUp, Become
      <4>2. ASSUME NEW k \in Scopes, d \in members'[k] PROVE d \in members[k]
        BY <1>4, <3>1, <3>5, <4>2 DEF ScopeAfter
      <4> QED
        BY <3>1, <3>2, <3>3, <4>1, <4>2 DEF Leaves, GateAt, Named
    <3> QED
      BY <3>4, <3>5
  <2> QED
    BY <2>1, <2>2
<1>8. ASSUME NEW c \in Conns, SetOwner(c) PROVE Leaves(d)'
  <2>1. /\ gate[c].pc = "acquiring" /\ owner' = owner \cup {c} /\ Become(c, "open", 0)
        /\ UNCHANGED <<faults, members>> /\ gate[c].next - 1 = Len(KeysOf[c])
    BY <1>2, <1>8, GateTypes, KeyTypes DEF SetOwner, GateAt, Progress, Ordered
  <2>2. CASE c # d
    BY <1>4, <1>5, <2>1, <2>2 DEF Become
  <2>3. CASE c = d
    <3>1. gate'[d].pc = "open"
      BY <1>4, <2>1, <2>3 DEF Become
    <3>2. \A k \in Scopes : d \in members[k] => Named(d, k, 1, Len(KeysOf[d]))
      BY <1>3, <2>1, <2>3 DEF Leaves, GateAt
    <3> QED
      BY <2>1, <3>1, <3>2 DEF Leaves, GateAt, Named
  <2> QED
    BY <2>2, <2>3
<1>9. ASSUME NEW c \in Conns, Release(c) PROVE Leaves(d)'
  <2>1. /\ gate[c].pc = "open" /\ CleanUp(c, Len(KeysOf[c])) /\ UNCHANGED <<faults, members, owner>>
    BY <1>2, <1>9 DEF Release, GateAt
  <2>2. CASE c # d
    BY <1>4, <1>5, <2>1, <2>2 DEF CleanUp, Become
  <2>3. CASE c = d
    <3>1. gate'[d].pc = "cleaning" /\ gate'[d].last = Len(KeysOf[d])
      BY <1>4, <2>1, <2>3 DEF CleanUp, Become
    <3>2. \A k \in Scopes : d \in members[k] => Named(d, k, 1, Len(KeysOf[d]))
      BY <1>3, <2>1, <2>3 DEF Leaves, GateAt
    <3> QED
      BY <2>1, <3>1, <3>2 DEF Leaves, GateAt, Named
  <2> QED
    BY <2>2, <2>3
<1>10. ASSUME NEW c \in Conns, DeleteOwner(c) PROVE Leaves(d)'
  <2>1. /\ gate[c].pc = "cleaning" /\ gate' = [gate EXCEPT ![c].pc = "removing"]
        /\ owner' = owner \ {c} /\ UNCHANGED <<faults, members>>
    BY <1>2, <1>10 DEF DeleteOwner, Command, GateAt
  <2>2. CASE c # d
    BY <1>4, <1>5, <2>1, <2>2
  <2>3. CASE c = d
    <3>1. gate'[d].pc = "removing" /\ gate'[d].last = gate[d].last /\ gate'[d].next = 1
      BY <1>4, <2>1, <2>3 DEF Gate
    <3>2. \A k \in Scopes : d \in members[k] => Named(d, k, 1, gate[d].last)
      BY <1>3, <2>1, <2>3 DEF Leaves, GateAt
    <3> QED
      BY <2>1, <2>3, <3>1, <3>2 DEF Leaves, GateAt, Named
  <2> QED
    BY <2>2, <2>3
<1>11. ASSUME NEW c \in Conns, RemoveMember(c) PROVE Leaves(d)'
  <2>1. gate[c].pc = "removing" /\ UNCHANGED <<owner, faults>>
    BY <1>2, <1>11 DEF RemoveMember, Command, GateAt
  <2>2. CASE c # d
    <3>1. gate'[d] = gate[d]
      BY <1>4, <1>11, <2>2 DEF RemoveMember, Close, Become
    <3>2. \A k \in Scopes : d \in members'[k] => d \in members[k]
      BY <1>2, <1>4, <1>11 DEF RemoveMember, Command
    <3> QED
      BY <1>5, <2>1, <3>1, <3>2
  <2>3. CASE c = d
    <3>1. d \notin owner /\ \A k \in Scopes : d \in members[k] => Named(d, k, gate[d].next, gate[d].last)
      BY <1>3, <2>1, <2>3 DEF Leaves, GateAt
    <3>2. CASE gate[d].next <= gate[d].last
      <4>1. /\ members' = [members EXCEPT ![Key(d)] = @ \ {d}]
            /\ gate' = [gate EXCEPT ![d].next = @ + 1]
        BY <1>2, <1>4, <1>11, <2>3, <3>2 DEF RemoveMember, Command
      <4>2. gate'[d].pc = "removing" /\ gate'[d].last = gate[d].last /\ gate'[d].next = gate[d].next + 1
        BY <1>4, <2>1, <2>3, <4>1 DEF Gate
      <4>3. ASSUME NEW k \in Scopes, d \in members'[k]
            PROVE  Named(d, k, gate[d].next + 1, gate[d].last)
        <5>1. d \in members[k] /\ k # Key(d)
          BY <1>4, <4>1, <4>3
        <5> QED
          BY <1>4, <3>1, <5>1 DEF Named, Key
      <4> QED
        BY <2>1, <3>1, <4>2, <4>3 DEF Leaves, GateAt, Named
    <3>3. CASE gate[d].next > gate[d].last
      <4>1. gate'[d].pc = "closed" /\ members' = members
        BY <1>4, <1>11, <2>3, <3>3 DEF RemoveMember, Close, Become
      <4>2. \A k \in Scopes : d \notin members[k]
        BY <1>4, <3>1, <3>3 DEF Named
      <4> QED
        BY <2>1, <3>1, <4>1, <4>2 DEF Leaves
    <3> QED
      BY <1>4, <3>2, <3>3
  <2> QED
    BY <2>2, <2>3
<1>12. ASSUME NEW c \in Conns, AcquireScopeFails(c) \/ Crash(c) PROVE Leaves(d)'
  BY <1>2, <1>12 DEF AcquireScopeFails, Crash
<1>13. ASSUME NEW c \in Conns, Expire(c) \/ OwnerExpires(c) PROVE Leaves(d)'
  BY <1>2, <1>5, <1>13 DEF Expire, OwnerExpires
<1>14. ASSUME NEW k \in Scopes, ScopeExpires(k) PROVE Leaves(d)'
  BY <1>4, <1>5, <1>14 DEF ScopeExpires
<1>15. CASE UNCHANGED gateVars
  BY <1>5, <1>15 DEF gateVars
<1> QED
  BY <1>6, <1>7, <1>8, <1>9, <1>10, <1>11, <1>12, <1>13, <1>14, <1>15 DEF GateNext

(* The invariant of the gate holds in every behaviour. *)
LEMMA Invariance == GateSpec => []Inv
<1>1. Inv /\ [GateNext]_gateVars => Inv'
  BY StepTypes, StepProgress, StepCounts, StepTidy DEF Inv
<1> QED
  BY InitInv, <1>1, PTL DEF GateSpec

(***************************************************************************)
(* Type correctness of the store.                                          *)
(***************************************************************************)
THEOREM GateTypeCorrect == GateSpec => []GateTypeOK
<1>1. Inv => GateTypeOK
  BY DEF Inv
<1> QED
  BY Invariance, <1>1, PTL

(***************************************************************************)
(* Unless a command failed, a connection that was refused or released has  *)
(* left nothing in Redis, whichever scope refused it.                      *)
(***************************************************************************)
THEOREM ClosedConnsLeaveNothing == GateSpec => []ClosedLeavesNothing
<1>1. Inv => ClosedLeavesNothing
  BY DEF Inv, Tidy, Leaves, ClosedLeavesNothing, GateAt
<1> QED
  BY Invariance, <1>1, PTL
-----------------------------------------------------------------------------
(***************************************************************************)
(* The refinement.                                                         *)
(***************************************************************************)
\* The live connection a step may take away.
LEMMA AtMostOneLeaves ==
  ASSUME NEW c \in Conns, Live' = Live \ {c}
  PROVE  [Admission!AdmissionNext]_Live
<1>1. CASE c \in Live
  BY <1>1 DEF Admission!AdmissionNext, Admission!Leave
<1>2. CASE c \notin Live
  BY <1>2
<1> QED
  BY <1>1, <1>2

\* A stream is opened while its scopes have room.
LEMMA OpeningIsAcquire ==
  ASSUME Inv, NEW c \in Conns, c \notin expired, SetOwner(c), Become(c, "open", 0)
  PROVE  Admission!Acquire(c)
<1>1. /\ GateAt(c, "acquiring") /\ gate[c].next - 1 = Len(KeysOf[c]) /\ expired' = expired
  BY GateTypes, KeyTypes DEF SetOwner, Inv, Progress, Ordered, GateAt
<1>2. c \notin Live /\ Live' = Live \cup {c}
  <2>1. gate'[c].pc = "open" /\ \A d \in Conns \ {c} : gate'[d] = gate[d]
    BY DEF Become, Inv, GateTypeOK
  <2> QED
    BY <1>1, <2>1 DEF Live, GateAt
<1>3. ASSUME NEW i \in DOMAIN KeysOf[c] PROVE Admission!HasRoom(KeysOf[c][i], Live)
  <2>1. PICK k \in Scopes : k = KeysOf[c][i]
    BY KeyTypes
  <2>2. c \in Holders(k)
    BY <1>1, <2>1, KeyTypes DEF Holders, Holds, Named
  <2>3. Live \cap Admission!CountsIn(k) \subseteq Holders(k) \ {c}
    BY <1>2, KeyTypes DEF Live, Admission!CountsIn, Holders, Holds, Named
  <2>4. ASSUME Limit[k] > 0
        PROVE  Cardinality(Live \cap Admission!CountsIn(k)) < Limit[k]
    <3>1. IsFiniteSet(Holders(k)) /\ Cardinality(Holders(k)) <= Limit[k]
      BY <2>4, FS_Subset DEF Inv, Counts
    <3>2. /\ IsFiniteSet(Holders(k) \ {c})
          /\ Cardinality(Holders(k) \ {c}) = Cardinality(Holders(k)) - 1
      BY <2>2, <3>1, FS_RemoveElement
    <3>3. /\ IsFiniteSet(Live \cap Admission!CountsIn(k))
          /\ Cardinality(Live \cap Admission!CountsIn(k)) <= Cardinality(Holders(k) \ {c})
      BY <2>3, <3>2, FS_Subset
    <3>4. /\ Cardinality(Live \cap Admission!CountsIn(k)) \in Nat
          /\ Cardinality(Holders(k)) \in Nat /\ Limit[k] \in Nat
      BY <3>1, <3>3, FS_CardinalityType, StreamGateAssumption
    <3> QED
      BY <3>1, <3>2, <3>3, <3>4
  <2>5. \A S : Admission!Cardinality(S) = Cardinality(S)
    BY DEF Admission!Cardinality, Cardinality
  <2> QED
    BY <2>1, <2>4, <2>5 DEF Admission!HasRoom
<1> QED
  BY <1>2, <1>3 DEF Admission!Acquire

\* Every step of the store is a step of StreamAdmission or leaves it alone.
LEMMA StepRefines == Inv /\ [GateNext]_gateVars => [Admission!AdmissionNext]_Live
<1> SUFFICES ASSUME Inv, [GateNext]_gateVars PROVE [Admission!AdmissionNext]_Live
  OBVIOUS
<1>0. gate \in [Conns -> Gate]
  BY DEF Inv, GateTypeOK
<1>1. ASSUME NEW c \in Conns, NEW pc, pc # "open", NEW n, Become(c, pc, n), expired' = expired
      PROVE  [Admission!AdmissionNext]_Live
  <2>1. Live' = Live \ {c}
    BY <1>0, <1>1 DEF Become, Live, GateAt
  <2> QED
    BY <2>1, AtMostOneLeaves
<1>2. ASSUME \A d \in Conns : GateAt(d, "open")' <=> GateAt(d, "open"), expired' = expired
      PROVE  [Admission!AdmissionNext]_Live
  BY <1>2 DEF Live
<1>3. ASSUME NEW c \in Conns, Begin(c) PROVE [Admission!AdmissionNext]_Live
  BY <1>0, <1>2, <1>3 DEF Begin, GateAt, Gate
<1>4. ASSUME NEW c \in Conns, AcquireScope(c) PROVE [Admission!AdmissionNext]_Live
  BY <1>0, <1>1, <1>2, <1>4 DEF AcquireScope, CleanUp, GateAt, Gate
<1>5. ASSUME NEW c \in Conns, AcquireScopeFails(c) PROVE [Admission!AdmissionNext]_Live
  BY <1>1, <1>5 DEF AcquireScopeFails, CleanUp
<1>6. ASSUME NEW c \in Conns, SetOwner(c) PROVE [Admission!AdmissionNext]_Live
  <2>1. CASE Become(c, "open", 0) /\ c \notin expired
    BY <1>6, <2>1, OpeningIsAcquire DEF Admission!AdmissionNext
  <2>2. CASE Become(c, "open", 0) /\ c \in expired
    <3>1. Live' = Live
      BY <1>0, <1>6, <2>2 DEF SetOwner, Become, Live, GateAt
    <3> QED
      BY <3>1
  <2>3. CASE CleanUp(c, Len(KeysOf[c]))
    BY <1>1, <1>6, <2>3 DEF SetOwner, CleanUp
  <2> QED
    BY <1>6, <2>1, <2>2, <2>3 DEF SetOwner
<1>7. ASSUME NEW c \in Conns, Release(c) \/ Crash(c) PROVE [Admission!AdmissionNext]_Live
  BY <1>1, <1>7 DEF Release, Crash, CleanUp, Close
<1>8. ASSUME NEW c \in Conns, DeleteOwner(c) PROVE [Admission!AdmissionNext]_Live
  BY <1>0, <1>2, <1>8 DEF DeleteOwner, GateAt, Gate
<1>9. ASSUME NEW c \in Conns, RemoveMember(c) PROVE [Admission!AdmissionNext]_Live
  BY <1>0, <1>1, <1>2, <1>9 DEF RemoveMember, Close, GateAt, Gate
<1>10. ASSUME NEW c \in Conns, Expire(c) PROVE [Admission!AdmissionNext]_Live
  <2>1. Live' = Live \ {c}
    BY <1>10 DEF Expire, Live, GateAt
  <2> QED
    BY <2>1, AtMostOneLeaves
<1>11. CASE UNCHANGED <<gate, expired>>
  BY <1>2, <1>11 DEF GateAt
<1> QED
  BY <1>3, <1>4, <1>5, <1>6, <1>7, <1>8, <1>9, <1>10, <1>11
     DEF GateNext, gateVars, OwnerExpires, ScopeExpires

(***************************************************************************)
(* The store in Redis keeps the promise of the limiter, for any number of  *)
(* instances, scopes and faults: no stream opens in a scope that is full.  *)
(***************************************************************************)
THEOREM GateImplementsAdmission == GateSpec => ImplementsAdmission
<1>1. GateInit => Admission!AdmissionInit
  BY DEF GateInit, Admission!AdmissionInit, Live, GateAt
<1> QED
  BY Invariance, <1>1, StepRefines, PTL DEF GateSpec, ImplementsAdmission, Admission!AdmissionSpec
=============================================================================
