--------------------------- MODULE ReadingProofs ----------------------------
(***************************************************************************)
(* Proofs about what is read back: the answers of a cache, and the         *)
(* conversation of an assistant, replayed from its event log.              *)
(*                                                                         *)
(* The caches: what is announced changes only with the generation, so      *)
(* every reader with the same key came when the same changes were          *)
(* announced at the latest; and whatever is under a key was computed after *)
(* somebody had read that generation.                                      *)
(*                                                                         *)
(* The conversation: of a run that goes on, every event of the log is      *)
(* before the one it inserts next, so a tool call whose result is not      *)
(* there yet is the last of its run.                                       *)
(***************************************************************************)
EXTENDS ListCache, ContentSetupCache, AIRun, OrderLemmas

-----------------------------------------------------------------------------
(* The cache of one project list                                           *)

\* Every generation is for a change of its own.
GenerationsCounted ==
    /\ announced <= content
    /\ unannounced \subseteq 1..content
    /\ generation + Cardinality(unannounced) <= content

\* What is stored under a generation, or computed and about to be.
Holds(g, list) ==
    \/ entries[g] = list
    \/ \E i \in Instances : flight[<<i, g>>].pc \in {"store", "deliver"} /\ flight[<<i, g>>].content = list

\* A generation nobody could read yet has nothing.
UnreadAreEmpty ==
    \A g \in Contents : g > generation =>
        entries[g] = NoList /\ \A i \in Instances : flight[<<i, g>>].pc = "none"

FlightsAreKeyed ==
    \A f \in Instances \X ListKeys :
        /\ flight[f].pc \in {"store", "deliver"} => flight[f].content \in Contents
        /\ flight[f].pc \in {"look", "store"} => f[2] \in Contents

ReadersAreKeyed ==
    \A r \in Readers :
        /\ reader[r].key \in Contents => reader[r].key <= generation
        /\ reader[r].pc \in {"lookup", "alone"} => reader[r].key \in Contents
        /\ reader[r].since <= announced

KeysAreRead == UnreadAreEmpty /\ FlightsAreKeyed /\ ReadersAreKeyed

ListsAreRecent ==
    \A g \in Contents, list \in Contents : Holds(g, list) =>
        /\ g = generation => list >= announced
        /\ \A r \in Readers : reader[r].key = g => list >= reader[r].since

AnswersAreRecent ==
    \A r \in Readers :
        reader[r].pc = "answered" /\ reader[r].key \in Contents =>
            reader[r].got \in Contents /\ reader[r].got >= reader[r].since

ListInv == ListTypeOK /\ GenerationsCounted /\ KeysAreRead /\ ListsAreRecent /\ AnswersAreRecent

(* Initially nothing has changed and nothing is cached. *)
LEMMA ListInitInv == ListInit => ListInv
<1> SUFFICES ASSUME NEW at \in [Readers -> Instances], ListInitAt(at) PROVE ListInv
  BY DEF ListInit
<1> USE ListAssumption DEF ListInitAt, Contents, ListKeys, NoListFlight
<1>1. ListTypeOK
  BY DEF ListTypeOK, ListFlight, Reader
<1>2. GenerationsCounted
  BY FS_EmptySet DEF GenerationsCounted
<1>3. KeysAreRead /\ ListsAreRecent /\ AnswersAreRecent
  BY DEF KeysAreRead, UnreadAreEmpty, FlightsAreKeyed, ReadersAreKeyed, ListsAreRecent, AnswersAreRecent, Holds
<1> QED
  BY <1>1, <1>2, <1>3 DEF ListInv

(* A change is counted when it commits and raises the generation once. *)
LEMMA ListStepCounted ==
  ListTypeOK /\ GenerationsCounted /\ [ListNext]_listVars => GenerationsCounted' /\ generation' \in Contents
<1> SUFFICES ASSUME ListTypeOK, GenerationsCounted, [ListNext]_listVars
             PROVE GenerationsCounted' /\ generation' \in Contents
  OBVIOUS
<1> USE ListAssumption DEF ListTypeOK, GenerationsCounted, Contents
<1>0. IsFiniteSet(unannounced) /\ Cardinality(unannounced) \in Nat
  <2>1. IsFiniteSet(1..content)
    BY FS_Interval
  <2> QED
    BY <2>1, PartOfFinite
<1>1. CASE ChangeCommits
  <2>1. content + 1 \notin unannounced
    OBVIOUS
  <2>2. Cardinality(unannounced \cup {content + 1}) = Cardinality(unannounced) + 1
    BY <1>0, <2>1, FS_AddElement
  <2> QED
    BY <1>0, <1>1, <2>2 DEF ChangeCommits
<1>2. ASSUME NEW c \in Contents, Invalidate(c) \/ InvalidateFails(c)
      PROVE GenerationsCounted' /\ generation' \in Contents
  <2>1. c \in unannounced
    BY <1>2 DEF Invalidate, InvalidateFails
  <2>2. Cardinality(unannounced \ {c}) = Cardinality(unannounced) - 1
    BY <1>0, <2>1, FS_RemoveElement
  <2>3. Cardinality(unannounced \ {c}) \in Nat
    BY <1>0, PartOfFinite
  <2> QED
    <3>1. CASE Invalidate(c)
      <4>1. generation + 1 <= content /\ generation + 1 + Cardinality(unannounced') <= content
        BY <1>0, <2>2, <2>3, <3>1 DEF Invalidate
      <4> QED
        BY <2>1, <3>1, <4>1 DEF Invalidate
    <3>2. CASE InvalidateFails(c)
      <4>1. generation + Cardinality(unannounced') <= content
        BY <1>0, <2>2, <2>3, <3>2 DEF InvalidateFails
      <4> QED
        BY <3>2, <4>1 DEF InvalidateFails
    <3> QED
      BY <1>2, <3>1, <3>2
<1>3. CASE UNCHANGED <<content, generation, unannounced, announced>>
  BY <1>0, <1>3
<1> QED
  BY <1>1, <1>2, <1>3
     DEF ListNext, EntryGoes, ReadGeneration, ReadGenerationFails, LookUp, LookUpFails, ComputeAlone,
         LookAgain, Compute, Store, DeliverList, listVars

(* Every step keeps the types. *)
LEMMA ListStepTyped ==
  ListInv /\ [ListNext]_listVars => ListTypeOK'
<1> SUFFICES ASSUME ListInv, [ListNext]_listVars PROVE ListTypeOK'
  OBVIOUS
<1>0. ListTypeOK /\ GenerationsCounted /\ KeysAreRead /\ generation' \in Contents
  BY ListStepCounted DEF ListInv
<1> USE <1>0, ListAssumption DEF ListTypeOK
<1>1. ASSUME content' \in Contents, announced' \in Contents, unannounced' \subseteq Contents,
             UNCHANGED <<entries, flight, reader>>
      PROVE ListTypeOK'
  BY <1>1
<1>2. CASE ChangeCommits
  BY <1>1, <1>2 DEF ChangeCommits, Contents
<1>3. ASSUME NEW c \in Contents, Invalidate(c) \/ InvalidateFails(c) \/ EntryGoes(c) PROVE ListTypeOK'
  BY <1>3 DEF Invalidate, InvalidateFails, EntryGoes
<1>4. ASSUME NEW r \in Readers, ReadGeneration(r) \/ LookUpFails(r) \/ ComputeAlone(r) PROVE ListTypeOK'
  <2>1. reader' \in [Readers -> Reader]
    BY <1>4 DEF ReadGeneration, LookUpFails, ComputeAlone, Answer, cacheKey, Reader, ListKeys
  <2> QED
    BY <1>4, <2>1 DEF ReadGeneration, LookUpFails, ComputeAlone
<1>5. ASSUME NEW r \in Readers, ReadGenerationFails(r) PROVE ListTypeOK'
  <2>1. reader' \in [Readers -> Reader]
    <3> DEFINE waits == [reader[r] EXCEPT !.pc = "waits", !.key = Degraded, !.since = announced]
    <3>1. waits \in Reader
      BY DEF Reader, ListKeys
    <3>2. reader' = [reader EXCEPT ![r] = waits]
      BY <1>5 DEF ReadGenerationFails, Join
    <3> QED
      BY <3>1, <3>2
  <2>2. flight' \in [Instances \X ListKeys -> ListFlight]
    BY <1>5 DEF ReadGenerationFails, Join, ListFlight, NoListFlight
  <2> QED
    BY <1>5, <2>1, <2>2 DEF ReadGenerationFails
<1>6. ASSUME NEW r \in Readers, LookUp(r) PROVE ListTypeOK'
  <2>1. reader[r].key \in Contents /\ entries[reader[r].key] \in Contents \cup {NoList}
    BY <1>6 DEF LookUp, KeysAreRead, ReadersAreKeyed
  <2>2. reader' \in [Readers -> Reader]
    BY <1>6, <2>1 DEF LookUp, Answer, Reader
  <2>3. flight' \in [Instances \X ListKeys -> ListFlight]
    <3> DEFINE f == <<reader[r].at, reader[r].key>>
    <3>1. f \in Instances \X ListKeys
      BY <2>1 DEF Reader, ListKeys
    <3> DEFINE looks == [flight[f] EXCEPT !.pc = IF @ = "none" THEN "look" ELSE @]
    <3>2. looks \in ListFlight
      BY <3>1 DEF ListFlight
    <3>3. flight' = flight \/ flight' = [flight EXCEPT ![f] = looks]
      BY <1>6 DEF LookUp
    <3> HIDE DEF f, looks
    <3> QED
      BY <3>2, <3>3
  <2> QED
    BY <1>6, <2>2, <2>3 DEF LookUp
<1>7. ASSUME NEW f \in Instances \X ListKeys, LookAgain(f) \/ Compute(f) \/ Store(f) \/ DeliverList(f)
      PROVE ListTypeOK'
  <2>1. f[1] \in Instances /\ f[2] \in ListKeys
    OBVIOUS
  <2>2. CASE LookAgain(f)
    <3>1. f[2] \in Contents /\ entries[f[2]] \in Contents \cup {NoList}
      BY <2>2 DEF LookAgain, KeysAreRead, FlightsAreKeyed
    <3>2. flight' = [flight EXCEPT ![f] = [@ EXCEPT !.pc = "compute"]]
          \/ flight' = [flight EXCEPT ![f] = [pc |-> "deliver", content |-> entries[f[2]]]]
      BY <2>2 DEF LookAgain
    <3>3. [flight[f] EXCEPT !.pc = "compute"] \in ListFlight
      BY DEF ListFlight
    <3>4. [pc |-> "deliver", content |-> entries[f[2]]] \in ListFlight
      BY <3>1 DEF ListFlight
    <3>5. flight' \in [Instances \X ListKeys -> ListFlight]
      BY <3>2, <3>3, <3>4
    <3> QED
      BY <2>2, <3>5 DEF LookAgain
  <2>3. CASE Compute(f)
    BY <2>3 DEF Compute, ListFlight
  <2>4. CASE Store(f)
    BY <2>4 DEF Store, ListFlight
  <2>5. CASE DeliverList(f)
    <3>1. flight[f] \in ListFlight /\ flight' \in [Instances \X ListKeys -> ListFlight]
      BY <2>5 DEF DeliverList, ListFlight, NoListFlight
    <3>2. ASSUME NEW r \in Readers PROVE reader'[r] \in Reader
      <4>1. reader'[r] = [reader[r] EXCEPT !.pc = "answered", !.got = flight[f].content] \/ reader'[r] = reader[r]
        BY <2>5 DEF DeliverList
      <4>2. flight[f].content \in Contents \cup {NoList}
        BY <3>1 DEF ListFlight
      <4> QED
        BY <4>1, <4>2 DEF Reader
    <3>3. reader' \in [Readers -> Reader]
      BY <2>5, <3>2 DEF DeliverList
    <3> QED
      BY <2>5, <3>1, <3>3 DEF DeliverList
  <2> QED
    BY <1>7, <2>2, <2>3, <2>4, <2>5
<1>8. CASE UNCHANGED listVars
  BY <1>8 DEF listVars
<1> QED
  BY <1>2, <1>3, <1>4, <1>5, <1>6, <1>7, <1>8 DEF ListNext

(* Every step leaves the generations nobody read without a list. *)
LEMMA ListStepKeys ==
  ListInv /\ ListTypeOK' /\ [ListNext]_listVars => KeysAreRead'
<1> SUFFICES ASSUME ListInv, ListTypeOK', [ListNext]_listVars PROVE KeysAreRead'
  OBVIOUS
<1> USE ListAssumption DEF ListTypeOK, KeysAreRead
<1>0. ListTypeOK /\ GenerationsCounted /\ KeysAreRead
  BY DEF ListInv
<1>1. ASSUME UNCHANGED <<generation, announced, reader>>, NEW f \in Instances \X ListKeys,
             \A x \in Instances \X ListKeys \ {f} : flight'[x] = flight[x],
             flight[f].pc # "none" \/ flight'[f].pc = "none",
             flight'[f].pc \in {"store", "deliver"} => flight'[f].content \in Contents,
             flight'[f].pc \in {"look", "store"} => f[2] \in Contents,
             \A g \in Contents : entries'[g] = entries[g] \/ (g = f[2] /\ flight[f].pc = "store")
      PROVE  KeysAreRead'
  <2>1. ASSUME NEW g \in Contents, g > generation
        PROVE  entries'[g] = NoList /\ \A i \in Instances : flight'[<<i, g>>].pc = "none"
    <3>1. entries[g] = NoList /\ \A i \in Instances : flight[<<i, g>>].pc = "none"
      BY <1>0, <2>1 DEF UnreadAreEmpty
    <3>2. f = <<f[1], f[2]>> /\ f[1] \in Instances
      OBVIOUS
    <3>3. f[2] = g => flight[f].pc = "none"
      BY <3>1, <3>2
    <3>4. ASSUME NEW i \in Instances PROVE flight'[<<i, g>>].pc = "none"
      <4>1. <<i, g>> \in Instances \X ListKeys
        BY DEF ListKeys
      <4>2. CASE <<i, g>> = f
        BY <1>1, <3>3, <4>2
      <4>3. CASE <<i, g>> # f
        BY <1>1, <3>1, <4>1, <4>3
      <4> QED
        BY <4>2, <4>3
    <3> QED
      BY <1>1, <3>1, <3>3, <3>4
  <2>2. UnreadAreEmpty'
    BY <1>1, <2>1 DEF UnreadAreEmpty
  <2>3. FlightsAreKeyed'
    BY <1>0, <1>1 DEF FlightsAreKeyed
  <2>4. ReadersAreKeyed'
    BY <1>0, <1>1 DEF ReadersAreKeyed
  <2> QED
    BY <2>2, <2>3, <2>4
<1>2. ASSUME ChangeCommits \/ UNCHANGED listVars PROVE KeysAreRead'
  BY <1>0, <1>2 DEF ChangeCommits, listVars, UnreadAreEmpty, FlightsAreKeyed, ReadersAreKeyed
<1>3. ASSUME NEW c \in Contents, Invalidate(c) \/ InvalidateFails(c) \/ EntryGoes(c) PROVE KeysAreRead'
  <2>1. UnreadAreEmpty'
    BY <1>0, <1>3 DEF Invalidate, InvalidateFails, EntryGoes, UnreadAreEmpty, Contents
  <2>2. FlightsAreKeyed' /\ ReadersAreKeyed'
    BY <1>0, <1>3 DEF Invalidate, InvalidateFails, EntryGoes, FlightsAreKeyed, ReadersAreKeyed, Contents, Reader
  <2> QED
    BY <2>1, <2>2
<1>4. ASSUME NEW r \in Readers, ReadGeneration(r) \/ LookUpFails(r) \/ ComputeAlone(r) PROVE KeysAreRead'
  <2>1. UnreadAreEmpty' /\ FlightsAreKeyed'
    BY <1>0, <1>4 DEF ReadGeneration, LookUpFails, ComputeAlone, UnreadAreEmpty, FlightsAreKeyed
  <2>2. ReadersAreKeyed'
    <3>1. CASE ReadGeneration(r)
      BY <1>0, <3>1 DEF ReadGeneration, cacheKey, ReadersAreKeyed, Contents, Reader
    <3>2. CASE LookUpFails(r)
      BY <1>0, <3>2 DEF LookUpFails, ReadersAreKeyed, Reader
    <3>3. CASE ComputeAlone(r)
      BY <1>0, <3>3 DEF ComputeAlone, Answer, ReadersAreKeyed, Reader
    <3> QED
      BY <1>4, <3>1, <3>2, <3>3
  <2> QED
    BY <2>1, <2>2
<1>5. ASSUME NEW r \in Readers, ReadGenerationFails(r) PROVE KeysAreRead'
  <2> DEFINE f == <<reader[r].at, Degraded>>
  <2>1. Degraded \notin Contents /\ f \in Instances \X ListKeys
    BY <1>0 DEF Contents, ListKeys, Reader
  <2>2. /\ reader' = [reader EXCEPT ![r].pc = "waits", ![r].key = Degraded, ![r].since = announced]
        /\ UNCHANGED <<entries, generation, announced>>
    BY <1>5 DEF ReadGenerationFails, Join
  <2>3. flight' = flight \/ flight' = [flight EXCEPT ![f] = [NoListFlight EXCEPT !.pc = "compute"]]
    BY <1>0, <1>5 DEF ReadGenerationFails, Join
  <2>4. UnreadAreEmpty'
    <3>1. ASSUME NEW g \in Contents, NEW i \in Instances PROVE flight'[<<i, g>>] = flight[<<i, g>>]
      <4>1. <<i, g>> # f /\ <<i, g>> \in Instances \X ListKeys
        BY <2>1 DEF ListKeys
      <4> HIDE DEF f
      <4> QED
        BY <1>0, <2>3, <4>1
    <3> QED
      BY <1>0, <2>2, <3>1 DEF UnreadAreEmpty
  <2>5. FlightsAreKeyed'
    BY <1>0, <2>1, <2>3 DEF FlightsAreKeyed, NoListFlight
  <2>6. ReadersAreKeyed'
    BY <1>0, <2>1, <2>2 DEF ReadersAreKeyed, Contents, Reader
  <2> QED
    BY <2>4, <2>5, <2>6
<1>6. ASSUME NEW r \in Readers, LookUp(r) PROVE KeysAreRead'
  <2> DEFINE f == <<reader[r].at, reader[r].key>>
  <2>1. reader[r].key \in Contents /\ reader[r].key <= generation /\ f \in Instances \X ListKeys
    BY <1>0, <1>6 DEF LookUp, ReadersAreKeyed, ListKeys, Reader
  <2>2. flight' = flight \/ flight' = [flight EXCEPT ![f].pc = IF @ = "none" THEN "look" ELSE @]
    BY <1>6 DEF LookUp
  <2>3. ReadersAreKeyed'
    BY <1>0, <1>6 DEF LookUp, Answer, ReadersAreKeyed, Reader
  <2>4. FlightsAreKeyed'
    <3>1. ASSUME NEW x \in Instances \X ListKeys
          PROVE  flight'[x] = flight[x] \/ (x[2] \in Contents /\ flight'[x].pc = "look")
      <4>1. f[2] \in Contents
        BY <2>1
      <4> HIDE DEF f
      <4> QED
        BY <1>0, <2>2, <4>1 DEF ListFlight
    <3> QED
      BY <1>0, <3>1 DEF FlightsAreKeyed
  <2>5. UnreadAreEmpty'
    <3>1. UNCHANGED <<entries, generation>>
      BY <1>6 DEF LookUp
    <3>2. ASSUME NEW g \in Contents, g > generation, NEW i \in Instances PROVE flight'[<<i, g>>] = flight[<<i, g>>]
      <4>1. <<i, g>> # f /\ <<i, g>> \in Instances \X ListKeys
        BY <1>0, <2>1, <3>2 DEF Contents, ListKeys
      <4> HIDE DEF f
      <4> QED
        BY <1>0, <2>2, <4>1
    <3> QED
      BY <1>0, <3>1, <3>2 DEF UnreadAreEmpty
  <2> QED
    BY <2>3, <2>4, <2>5
<1>7. ASSUME NEW f \in Instances \X ListKeys, LookAgain(f) \/ Compute(f) \/ Store(f)
      PROVE KeysAreRead'
  <2>1. flight[f].pc \in {"look", "store"} => f[2] \in Contents /\ entries[f[2]] \in Contents \cup {NoList}
    BY <1>0 DEF FlightsAreKeyed
  <2>2. CASE LookAgain(f)
    BY <1>0, <1>1, <2>1, <2>2 DEF LookAgain, ListFlight
  <2>3. CASE Compute(f)
    BY <1>0, <1>1, <2>3 DEF Compute, ListKeys
  <2>4. CASE Store(f)
    BY <1>0, <1>1, <2>1, <2>4 DEF Store, FlightsAreKeyed, ListFlight
  <2> QED
    BY <1>7, <2>2, <2>3, <2>4
<1>8. ASSUME NEW f \in Instances \X ListKeys, DeliverList(f) PROVE KeysAreRead'
  <2>1. UnreadAreEmpty' /\ FlightsAreKeyed'
    <3>1. ASSUME NEW x \in Instances \X ListKeys PROVE flight'[x] = flight[x] \/ flight'[x].pc = "none"
      BY <1>0, <1>8 DEF DeliverList, NoListFlight
    <3>2. ASSUME NEW g \in Contents, NEW i \in Instances PROVE <<i, g>> \in Instances \X ListKeys
      BY DEF ListKeys
    <3>3. UNCHANGED <<entries, generation>>
      BY <1>8 DEF DeliverList
    <3>4. UnreadAreEmpty'
      BY <1>0, <3>1, <3>2, <3>3 DEF UnreadAreEmpty
    <3>5. FlightsAreKeyed'
      BY <1>0, <3>1 DEF FlightsAreKeyed
    <3> QED
      BY <3>4, <3>5
  <2>2. ReadersAreKeyed'
    BY <1>0, <1>8 DEF DeliverList, ReadersAreKeyed, Reader
  <2> QED
    BY <2>1, <2>2
<1> QED
  BY <1>2, <1>3, <1>4, <1>5, <1>6, <1>7, <1>8 DEF ListNext

(* What is computed is as new as anything announced. *)
LEMMA ContentIsRecent ==
  ListInv => content >= announced /\ \A r \in Readers : content >= reader[r].since
BY ListAssumption DEF ListInv, ListTypeOK, GenerationsCounted, KeysAreRead, ReadersAreKeyed, Contents, Reader

(* Every step keeps the lists recent. *)
LEMMA ListStepRecent ==
  ListInv /\ ListTypeOK' /\ [ListNext]_listVars => ListsAreRecent'
<1> SUFFICES ASSUME ListInv, ListTypeOK', [ListNext]_listVars PROVE ListsAreRecent'
  OBVIOUS
<1> USE ListAssumption DEF ListTypeOK
<1>0. ListTypeOK /\ GenerationsCounted /\ UnreadAreEmpty /\ ReadersAreKeyed /\ FlightsAreKeyed /\ ListsAreRecent
  BY DEF ListInv, KeysAreRead
<1>1. ASSUME UNCHANGED <<generation, announced>>,
             \A r \in Readers : reader'[r].key = reader[r].key /\ reader'[r].since = reader[r].since,
             \A g, list \in Contents : Holds(g, list)' => Holds(g, list) \/ list = content
      PROVE  ListsAreRecent'
  BY <1>0, <1>1, ContentIsRecent DEF ListsAreRecent
<1>2. ASSUME ChangeCommits \/ UNCHANGED listVars PROVE ListsAreRecent'
  BY <1>1, <1>2 DEF ChangeCommits, listVars, Holds
<1>3. ASSUME NEW c \in Contents, Invalidate(c) PROVE ListsAreRecent'
  <2>1. generation' = generation + 1 /\ UNCHANGED <<entries, flight, reader>>
    BY <1>3 DEF Invalidate
  <2>2. ASSUME NEW g \in Contents, NEW list \in Contents, Holds(g, list)'
        PROVE  g # generation' /\ Holds(g, list)
    <3>1. Holds(g, list)
      BY <2>1, <2>2 DEF Holds
    <3>2. ~ g > generation
      <4> SUFFICES ASSUME g > generation PROVE FALSE
        OBVIOUS
      <4>1. list # NoList
        BY DEF Contents
      <4>2. entries[g] = NoList /\ \A i \in Instances : flight[<<i, g>>].pc = "none"
        BY <1>0 DEF UnreadAreEmpty
      <4> QED
        BY <3>1, <4>1, <4>2 DEF Holds
    <3> QED
      BY <1>0, <2>1, <3>1, <3>2 DEF Contents
  <2> QED
    BY <1>0, <2>1, <2>2 DEF ListsAreRecent
<1>4. ASSUME NEW c \in Contents, InvalidateFails(c) \/ EntryGoes(c) PROVE ListsAreRecent'
  BY <1>0, <1>1, <1>4 DEF InvalidateFails, EntryGoes, Holds, Contents
<1>5. ASSUME NEW r \in Readers, ReadGeneration(r) PROVE ListsAreRecent'
  <2>1. /\ UNCHANGED <<entries, flight, generation, announced>>
        /\ reader'[r].key = generation /\ reader'[r].since = announced
        /\ \A q \in Readers \ {r} : reader'[q] = reader[q]
    BY <1>0, <1>5 DEF ReadGeneration, cacheKey, Reader
  <2>2. \A g, list \in Contents : Holds(g, list)' => Holds(g, list)
    BY <2>1 DEF Holds
  <2> QED
    BY <1>0, <2>1, <2>2 DEF ListsAreRecent
<1>6. ASSUME NEW r \in Readers, ReadGenerationFails(r) PROVE ListsAreRecent'
  <2>1. /\ UNCHANGED <<entries, generation, announced>>
        /\ reader'[r].key = Degraded /\ Degraded \notin Contents
        /\ \A q \in Readers \ {r} : reader'[q] = reader[q]
    BY <1>0, <1>6 DEF ReadGenerationFails, Join, Reader, Contents
  <2>2. ASSUME NEW g \in Contents, NEW i \in Instances PROVE flight'[<<i, g>>] = flight[<<i, g>>]
    BY <1>0, <1>6, <2>1 DEF ReadGenerationFails, Join, ListKeys
  <2>3. \A g, list \in Contents : Holds(g, list)' => Holds(g, list)
    BY <2>1, <2>2 DEF Holds
  <2> QED
    BY <1>0, <2>1, <2>3 DEF ListsAreRecent
<1>7. ASSUME NEW r \in Readers, LookUp(r) \/ LookUpFails(r) \/ ComputeAlone(r) PROVE ListsAreRecent'
  <2>1. /\ UNCHANGED <<entries, generation, announced>>
        /\ \A q \in Readers : reader'[q].key = reader[q].key /\ reader'[q].since = reader[q].since
    <3>1. CASE LookUp(r)
      BY <1>0, <3>1 DEF LookUp, Answer, Reader
    <3>2. CASE LookUpFails(r)
      BY <1>0, <3>2 DEF LookUpFails, Reader
    <3>3. CASE ComputeAlone(r)
      BY <1>0, <3>3 DEF ComputeAlone, Answer, Reader
    <3> QED
      BY <1>7, <3>1, <3>2, <3>3
  <2>2. ASSUME NEW x \in Instances \X ListKeys PROVE flight'[x] = flight[x] \/ flight'[x].pc = "look"
    <3> DEFINE f == <<reader[r].at, reader[r].key>>
    <3>1. flight' = flight \/ flight' = [flight EXCEPT ![f].pc = IF @ = "none" THEN "look" ELSE @]
      BY <1>7 DEF LookUp, LookUpFails, ComputeAlone
    <3> HIDE DEF f
    <3> QED
      BY <1>0, <3>1 DEF ListFlight
  <2>3. \A g, list \in Contents : Holds(g, list)' => Holds(g, list)
    <3>1. ASSUME NEW g \in Contents, NEW i \in Instances PROVE <<i, g>> \in Instances \X ListKeys
      BY DEF ListKeys
    <3> QED
      BY <2>1, <2>2, <3>1 DEF Holds
  <2> QED
    BY <1>1, <2>1, <2>3
<1>8. ASSUME NEW f \in Instances \X ListKeys, LookAgain(f) \/ Compute(f) \/ Store(f) \/ DeliverList(f)
      PROVE ListsAreRecent'
  <2>1. /\ UNCHANGED <<generation, announced>>
        /\ \A q \in Readers : reader'[q].key = reader[q].key /\ reader'[q].since = reader[q].since
    <3>1. CASE LookAgain(f) \/ Compute(f) \/ Store(f)
      BY <3>1 DEF LookAgain, Compute, Store
    <3>2. CASE DeliverList(f)
      BY <1>0, <3>2 DEF DeliverList, Reader
    <3> QED
      BY <1>8, <3>1, <3>2
  <2>2. f = <<f[1], f[2]>> /\ f[1] \in Instances /\ f[2] \in ListKeys
    OBVIOUS
  <2>3. ASSUME NEW x \in Instances \X ListKeys, x # f PROVE flight'[x] = flight[x]
    BY <1>0, <1>8, <2>3 DEF LookAgain, Compute, Store, DeliverList
  <2>4. ASSUME flight'[f].pc \in {"store", "deliver"}
        PROVE  \/ flight[f].pc = "look" /\ f[2] \in Contents /\ flight'[f].content = entries[f[2]]
               \/ flight'[f].content = content
               \/ flight[f].pc = "store" /\ flight'[f].content = flight[f].content
    <3>1. CASE LookAgain(f)
      BY <1>0, <2>4, <3>1 DEF LookAgain, ListFlight, FlightsAreKeyed
    <3>2. CASE Compute(f)
      BY <1>0, <3>2 DEF Compute
    <3>3. CASE Store(f)
      BY <1>0, <3>3 DEF Store, ListFlight
    <3>4. CASE DeliverList(f)
      BY <1>0, <2>4, <3>4 DEF DeliverList, NoListFlight
    <3> QED
      BY <1>8, <3>1, <3>2, <3>3, <3>4
  <2>5. ASSUME NEW g \in Contents
        PROVE  \/ entries'[g] = entries[g]
               \/ g = f[2] /\ flight[f].pc = "store" /\ entries'[g] = flight[f].content
    BY <1>0, <1>8 DEF LookAgain, Compute, Store, DeliverList
  <2>6. ASSUME NEW g \in Contents, NEW list \in Contents, Holds(g, list)' PROVE Holds(g, list) \/ list = content
    <3>1. \A i \in Instances : <<i, g>> \in Instances \X ListKeys
      BY DEF ListKeys
    <3>2. CASE entries'[g] = list
      BY <2>2, <2>5, <3>2 DEF Holds
    <3>3. ASSUME NEW i \in Instances, flight'[<<i, g>>].pc \in {"store", "deliver"}, flight'[<<i, g>>].content = list
          PROVE  Holds(g, list) \/ list = content
      <4>1. CASE <<i, g>> = f
        BY <2>4, <3>3, <4>1 DEF Holds
      <4>2. CASE <<i, g>> # f
        BY <2>3, <3>1, <3>3, <4>2 DEF Holds
      <4> QED
        BY <4>1, <4>2
    <3> QED
      BY <2>6, <3>2, <3>3 DEF Holds
  <2> QED
    BY <1>1, <2>1, <2>6
<1> QED
  BY <1>2, <1>3, <1>4, <1>5, <1>6, <1>7, <1>8 DEF ListNext

(* Every answer is recent. *)
LEMMA ListStepAnswers ==
  ListInv /\ ListTypeOK' /\ [ListNext]_listVars => AnswersAreRecent'
<1> SUFFICES ASSUME ListInv, ListTypeOK', [ListNext]_listVars PROVE AnswersAreRecent'
  OBVIOUS
<1> USE ListAssumption DEF ListTypeOK
<1>0. ListTypeOK /\ ReadersAreKeyed /\ FlightsAreKeyed /\ ListsAreRecent /\ AnswersAreRecent
  BY DEF ListInv, KeysAreRead
<1>1. ASSUME NEW r \in Readers, reader'[r].pc = "answered", reader'[r].key \in Contents, reader'[r] # reader[r]
      PROVE  reader'[r].got \in Contents /\ reader'[r].got >= reader'[r].since
  <2>1. CASE LookUp(r)
    <3>1. reader[r].key \in Contents /\ entries[reader[r].key] \in Contents
      BY <1>0, <1>1, <2>1 DEF LookUp, ReadersAreKeyed, Reader
    <3>2. Holds(reader[r].key, entries[reader[r].key])
      BY DEF Holds
    <3>3. reader'[r].got = entries[reader[r].key] /\ reader'[r].since = reader[r].since
      BY <1>0, <1>1, <2>1 DEF LookUp, Answer, Reader
    <3> QED
      BY <1>0, <3>1, <3>2, <3>3 DEF ListsAreRecent
  <2>2. CASE ComputeAlone(r)
    BY <1>0, <2>2, ContentIsRecent DEF ComputeAlone, Answer, Reader
  <2>3. ASSUME NEW f \in Instances \X ListKeys, DeliverList(f)
        PROVE  reader'[r].got \in Contents /\ reader'[r].got >= reader'[r].since
    <3>1. /\ f = <<reader[r].at, reader[r].key>> /\ flight[f].pc = "deliver"
          /\ reader'[r] = [reader[r] EXCEPT !.pc = "answered", !.got = flight[f].content]
      BY <1>0, <1>1, <2>3 DEF DeliverList
    <3>2. reader[r].key \in Contents /\ reader[r].at \in Instances /\ flight[f].content \in Contents
      BY <1>0, <1>1, <3>1 DEF FlightsAreKeyed, Reader
    <3>3. Holds(reader[r].key, flight[f].content)
      BY <3>1, <3>2 DEF Holds
    <3> QED
      BY <1>0, <3>1, <3>2, <3>3 DEF ListsAreRecent, Reader
  <2> QED
    <3>1. ASSUME NEW q \in Readers, ReadGeneration(q) \/ ReadGenerationFails(q) \/ LookUp(q) \/ LookUpFails(q)
                                    \/ ComputeAlone(q)
          PROVE  LookUp(r) \/ ComputeAlone(r)
      <4>1. CASE ReadGeneration(q)
        BY <1>0, <1>1, <4>1 DEF ReadGeneration, Reader
      <4>2. CASE ReadGenerationFails(q)
        BY <1>0, <1>1, <4>2 DEF ReadGenerationFails, Join, Reader
      <4>3. CASE LookUp(q)
        BY <1>0, <1>1, <4>3 DEF LookUp, Answer, Reader
      <4>4. CASE LookUpFails(q)
        BY <1>0, <1>1, <4>4 DEF LookUpFails, Reader
      <4>5. CASE ComputeAlone(q)
        BY <1>0, <1>1, <4>5 DEF ComputeAlone, Answer, Reader
      <4> QED
        BY <3>1, <4>1, <4>2, <4>3, <4>4, <4>5
    <3> QED
      BY <1>1, <2>1, <2>2, <2>3, <3>1 DEF ListNext, listVars, ChangeCommits, Invalidate, InvalidateFails, EntryGoes,
                                          LookAgain, Compute, Store
<1> QED
  BY <1>0, <1>1 DEF AnswersAreRecent

(* The invariant of a list holds in every behaviour. *)
LEMMA ListInvariant == ListSpec => []ListInv
<1>1. ListInv /\ [ListNext]_listVars => ListInv'
  BY ListStepCounted, ListStepTyped, ListStepKeys, ListStepRecent, ListStepAnswers DEF ListInv
<1> QED
  BY <1>1, ListInitInv, PTL DEF ListSpec

-----------------------------------------------------------------------------
(* Whoever asks after a change was announced sees it, whenever lists computed before are stored: *)
(* the generation in the key keeps them apart (cacheKey).                                        *)
THEOREM ListsAreFresh == ListSpec => []FreshAfterInvalidation
<1>1. ListInv => FreshAfterInvalidation
  BY DEF ListInv, AnswersAreRecent, FreshAfterInvalidation, ListTypeOK, ListKeys, Reader
<1> QED
  BY <1>1, ListInvariant, PTL

-----------------------------------------------------------------------------
(* The cache of the content templates                                      *)

TemplatesCounted ==
    /\ \A s \in Scopes : told[s] <= templates[s]
    /\ \A c \in creating : c[2] <= templates[c[1]]
    /\ \A s \in Scopes : generations[s] + Cardinality({c \in creating : c[1] = s}) <= templates[s]

\* What is stored under a key, or computed and about to be.
Lists(k, list) ==
    \/ cached[k] = list
    \/ computing[k].phase \in {"store", "deliver"} /\ computing[k].list = list

UnreadKeysAreEmpty ==
    \A k \in TemplateLists, s \in Scopes :
        k[s] > generations[s] => cached[k] = NoTemplateList /\ computing[k].phase = "none"

AskersAreKeyed ==
    \A r \in Askers :
        /\ asker[r].phase \in {"new", "user", "workspace", "lookup"} => asker[r].key \in TemplateLists
        /\ asker[r].key \in TemplateLists => \A s \in Scopes : asker[r].key[s] <= generations[s]
        /\ \A s \in Scopes : asker[r].since[s] <= told[s]

ComputedAreLists ==
    \A k \in TemplateKeys : computing[k].phase \in {"store", "deliver"} => computing[k].list \in TemplateLists

HasRead(r, s) ==
    \/ asker[r].phase \in {"lookup", "waiting", "done"}
    \/ asker[r].phase = "workspace" /\ s = "user"

\* The same of one scope: the other generation of the key may be older or newer.
TemplateListsRecent ==
    \A k, list \in TemplateLists, s \in Scopes : Lists(k, list) =>
        /\ k[s] = generations[s] => list[s] >= told[s]
        /\ \A r \in Askers :
              HasRead(r, s) /\ asker[r].key \in TemplateLists /\ asker[r].key[s] = k[s] => list[s] >= asker[r].since[s]

TemplateAnswersRecent ==
    \A r \in Askers :
        asker[r].phase = "done" /\ asker[r].key \in TemplateLists =>
            asker[r].got \in TemplateLists /\ \A s \in Scopes : asker[r].got[s] >= asker[r].since[s]

TemplateKeysRead == UnreadKeysAreEmpty /\ AskersAreKeyed /\ ComputedAreLists

TemplateInv ==
    TemplateTypeOK /\ TemplatesCounted /\ TemplateKeysRead /\ TemplateListsRecent /\ TemplateAnswersRecent

Asker == [phase : {"new", "user", "workspace", "lookup", "waiting", "done"},
          key : TemplateKeys, since : TemplateLists, got : TemplateLists \cup {NoTemplateList}]

(* Initially there is no template and nothing is cached. *)
LEMMA TemplateInitInv == TemplateInit => TemplateInv
<1> SUFFICES ASSUME TemplateInit PROVE TemplateInv
  OBVIOUS
<1> USE TemplateAssumption DEF TemplateInit
<1>1. NoTemplate \in TemplateLists /\ \A s \in Scopes : NoTemplate[s] = 0
  BY DEF NoTemplate, TemplateLists
<1>2. TemplateTypeOK
  BY <1>1 DEF TemplateTypeOK, TemplateFlight, NoTemplateFlight, TemplateKeys
<1>3. TemplatesCounted
  <2>1. \A s \in Scopes : {c \in creating : c[1] = s} = {}
    OBVIOUS
  <2> QED
    BY <1>1, <2>1, FS_EmptySet DEF TemplatesCounted
<1>4. TemplateKeysRead
  BY <1>1 DEF TemplateKeysRead, UnreadKeysAreEmpty, AskersAreKeyed, ComputedAreLists, NoTemplateFlight, TemplateKeys
<1>5. TemplateListsRecent /\ TemplateAnswersRecent
  BY <1>1 DEF TemplateListsRecent, TemplateAnswersRecent, Lists, NoTemplateFlight, TemplateKeys
<1> QED
  BY <1>2, <1>3, <1>4, <1>5 DEF TemplateInv

(* A template is counted when it commits and raises the generation of its scope once. *)
LEMMA TemplateStepCounted ==
  TemplateTypeOK /\ TemplatesCounted /\ [TemplateNext]_templateVars =>
      TemplatesCounted' /\ generations' \in TemplateLists /\ told' \in TemplateLists /\ templates' \in TemplateLists
<1> SUFFICES ASSUME TemplateTypeOK, TemplatesCounted, [TemplateNext]_templateVars
             PROVE  TemplatesCounted' /\ generations' \in TemplateLists /\ told' \in TemplateLists
                    /\ templates' \in TemplateLists
  OBVIOUS
<1> USE TemplateAssumption DEF TemplateTypeOK, TemplatesCounted, TemplateLists
<1> DEFINE Of(s) == {c \in creating : c[1] = s}
           C(s) == Cardinality(Of(s))
<1>0. ASSUME NEW s \in Scopes PROVE IsFiniteSet(Of(s)) /\ C(s) \in Nat
  <2>1. IsFiniteSet(1 .. MaxTemplates)
    BY FS_Interval
  <2>2. IsFiniteSet({s} \X (1 .. MaxTemplates))
    BY <2>1, FS_Singleton, FS_Product
  <2>3. Of(s) \subseteq {s} \X (1 .. MaxTemplates)
    OBVIOUS
  <2> QED
    BY <2>2, <2>3, PartOfFinite
<1>1. ASSUME NEW s \in Scopes, CreateContentTemplate(s)
      PROVE  TemplatesCounted' /\ generations' \in TemplateLists /\ told' \in TemplateLists
             /\ templates' \in TemplateLists
  <2> DEFINE c == <<s, templates[s] + 1>>
  <2>1. /\ templates' = [templates EXCEPT ![s] = @ + 1] /\ templates[s] < MaxTemplates
        /\ creating' = creating \cup {c} /\ UNCHANGED <<generations, told>>
    BY <1>1 DEF CreateContentTemplate
  <2>2. ASSUME NEW x \in Scopes PROVE Of(x)' = IF x = s THEN Of(x) \cup {c} ELSE Of(x)
    BY <2>1
  <2>3. c \notin Of(s)
    BY <1>0
  <2>4. ASSUME NEW x \in Scopes PROVE C(x)' = IF x = s THEN C(x) + 1 ELSE C(x)
    BY <1>0, <2>2, <2>3, FS_AddElement
  <2>5. ASSUME NEW x \in Scopes PROVE generations[x] + C(x)' <= templates'[x]
    <3>1. C(x) \in Nat /\ generations[x] + C(x) <= templates[x]
      BY <1>0
    <3> HIDE DEF C
    <3> QED
      BY <2>1, <2>4, <3>1
  <2>6. \A x \in creating' : x[2] <= templates'[x[1]]
    BY <2>1
  <2> QED
    BY <2>1, <2>5, <2>6
<1>2. ASSUME NEW c \in creating, InvalidateContentTemplateOptionsCache(c)
      PROVE  TemplatesCounted' /\ generations' \in TemplateLists /\ told' \in TemplateLists
             /\ templates' \in TemplateLists
  <2>1. /\ creating' = creating \ {c} /\ UNCHANGED templates
        /\ \/ generations' = [generations EXCEPT ![c[1]] = @ + 1]
              /\ told' = [told EXCEPT ![c[1]] = IF c[2] > @ THEN c[2] ELSE @]
           \/ UNCHANGED <<generations, told>>
    BY <1>2 DEF InvalidateContentTemplateOptionsCache
  <2>2. c[1] \in Scopes /\ c[2] \in 1 .. MaxTemplates /\ c \in Of(c[1])
    OBVIOUS
  <2>3. ASSUME NEW x \in Scopes PROVE Of(x)' = Of(x) \ {c}
    BY <2>1
  <2>4. ASSUME NEW x \in Scopes PROVE C(x)' = IF x = c[1] THEN C(x) - 1 ELSE C(x)
    <3>1. Cardinality(Of(x) \ {c}) = IF c \in Of(x) THEN C(x) - 1 ELSE C(x)
      BY <1>0, FS_RemoveElement
    <3>2. c \in Of(x) <=> x = c[1]
      BY <2>2
    <3> QED
      BY <2>3, <3>1, <3>2
  <2>5. ASSUME NEW x \in Scopes PROVE C(x)' \in Nat
    <3>1. IsFiniteSet(Of(x) \ {c})
      BY <1>0, FS_RemoveElement
    <3>2. Cardinality(Of(x) \ {c}) \in Nat
      BY <3>1, FS_CardinalityType
    <3> QED
      BY <2>3, <3>2
  <2>6. ASSUME NEW x \in Scopes PROVE generations'[x] + C(x)' <= templates[x] /\ generations'[x] \in 0 .. MaxTemplates
    <3>1. C(x) \in Nat /\ generations[x] + C(x) <= templates[x] /\ templates[x] \in 0 .. MaxTemplates
          /\ generations[x] \in 0 .. MaxTemplates
      BY <1>0
    <3>2. generations'[x] = generations[x] \/ (x = c[1] /\ generations'[x] = generations[x] + 1)
      BY <2>1, <2>2
    <3> HIDE DEF C
    <3> QED
      BY <2>4, <2>5, <3>1, <3>2
  <2>7. generations' \in TemplateLists
    BY <2>1, <2>6
  <2>8. \A x \in Scopes : told'[x] <= templates[x]
    BY <2>1, <2>2
  <2>9. told' \in TemplateLists
    BY <2>1, <2>2
  <2> QED
    BY <2>1, <2>6, <2>7, <2>8, <2>9
<1>3. CASE UNCHANGED <<templates, generations, creating, told>>
  BY <1>3
<1> QED
  BY <1>1, <1>2, <1>3
     DEF TemplateNext, templateVars, ListGoes, Ask, ReadUserGeneration, ReadWorkspaceGeneration, GenerationUnknown, Hit,
         Miss, cachedContentSetupOptions, refreshContentSetupOptionsCache, computeContentTemplates, DeliverTemplates

(* Every step keeps the types. *)
LEMMA TemplateStepTyped ==
  TemplateInv /\ [TemplateNext]_templateVars => TemplateTypeOK'
<1> SUFFICES ASSUME TemplateInv, [TemplateNext]_templateVars PROVE TemplateTypeOK'
  OBVIOUS
<1> USE TemplateAssumption DEF TemplateTypeOK
<1>0. /\ TemplateTypeOK /\ AskersAreKeyed /\ ComputedAreLists
      /\ generations' \in TemplateLists /\ told' \in TemplateLists /\ templates' \in TemplateLists
      /\ NoTemplateFlight \in TemplateFlight /\ asker \in [Askers -> Asker]
  BY TemplateStepCounted DEF TemplateInv, TemplateKeysRead, NoTemplateFlight, TemplateFlight, Asker
<1>1. ASSUME cached' \in [TemplateLists -> TemplateLists \cup {NoTemplateList}],
             creating' \subseteq Scopes \X (1 .. MaxTemplates),
             computing' \in [TemplateKeys -> TemplateFlight], asker' \in [Askers -> Asker]
      PROVE  TemplateTypeOK'
  BY <1>0, <1>1 DEF Asker
<1>2. ASSUME NEW s \in Scopes, CreateContentTemplate(s) PROVE TemplateTypeOK'
  <2>1. <<s, templates[s] + 1>> \in Scopes \X (1 .. MaxTemplates) /\ templates'[s] = templates[s] + 1
    BY <1>0, <1>2 DEF CreateContentTemplate, TemplateLists
  <2> QED
    BY <1>0, <1>1, <1>2, <2>1 DEF CreateContentTemplate
<1>3. ASSUME NEW c \in creating, InvalidateContentTemplateOptionsCache(c) PROVE TemplateTypeOK'
  BY <1>0, <1>1, <1>3 DEF InvalidateContentTemplateOptionsCache
<1>4. ASSUME NEW r \in Askers, Ask(r) \/ ReadUserGeneration(r) \/ ReadWorkspaceGeneration(r) PROVE TemplateTypeOK'
  <2>1. asker[r].phase # "lookup" /\ asker[r].phase \in {"new", "user", "workspace"} /\ asker[r].key \in TemplateLists
    BY <1>0, <1>4 DEF Ask, ReadUserGeneration, ReadWorkspaceGeneration, AskersAreKeyed
  <2>2. ASSUME NEW s \in Scopes PROVE [asker[r].key EXCEPT ![s] = generations[s]] \in TemplateKeys
    BY <1>0, <2>1 DEF TemplateLists, TemplateKeys
  <2>3. CASE Ask(r)
    <3>1. [asker[r] EXCEPT !.phase = "user", !.since = told] \in Asker
      BY <1>0 DEF Asker
    <3>2. asker' = [asker EXCEPT ![r] = [asker[r] EXCEPT !.phase = "user", !.since = told]]
      BY <1>0, <2>3 DEF Ask
    <3> QED
      BY <1>0, <1>1, <2>3, <3>1, <3>2 DEF Ask
  <2>4. ASSUME NEW s \in Scopes, NEW phase \in {"workspace", "lookup"},
               asker' = [asker EXCEPT ![r].phase = phase, ![r].key = [@ EXCEPT ![s] = generations[s]]]
        PROVE  asker' \in [Askers -> Asker]
    <3> DEFINE key == [asker[r].key EXCEPT ![s] = generations[s]]
    <3>1. asker' = [asker EXCEPT ![r] = [asker[r] EXCEPT !.phase = phase, !.key = key]]
      BY <1>0, <2>4
    <3>2. key \in TemplateKeys
      BY <2>2
    <3> HIDE DEF key
    <3>3. [asker[r] EXCEPT !.phase = phase, !.key = key] \in Asker
      BY <1>0, <3>2 DEF Asker
    <3> QED
      BY <1>0, <3>1, <3>3
  <2> QED
    BY <1>0, <1>1, <1>4, <2>3, <2>4 DEF ReadUserGeneration, ReadWorkspaceGeneration, Scopes
<1>5. ASSUME NEW r \in Askers, GenerationUnknown(r) \/ Miss(r) PROVE TemplateTypeOK'
  <2>1. PICK key \in TemplateKeys : Wait(r, key)
    BY <1>0, <1>5 DEF GenerationUnknown, Miss, AskersAreKeyed, TemplateKeys
  <2>2. [asker[r] EXCEPT !.phase = "waiting", !.key = key] \in Asker
    BY <1>0 DEF Asker
  <2>3. asker' = [asker EXCEPT ![r] = [asker[r] EXCEPT !.phase = "waiting", !.key = key]]
    BY <1>0, <2>1 DEF Wait
  <2>4. computing' \in [TemplateKeys -> TemplateFlight]
    BY <1>0, <2>1 DEF Wait, TemplateFlight
  <2> QED
    BY <1>0, <1>1, <1>5, <2>2, <2>3, <2>4 DEF GenerationUnknown, Miss
<1>6. ASSUME NEW r \in Askers, Hit(r) PROVE TemplateTypeOK'
  <2>1. cached[asker[r].key] \in TemplateLists
    BY <1>0, <1>6 DEF Hit, AskersAreKeyed
  <2>2. [asker[r] EXCEPT !.phase = "done", !.got = cached[asker[r].key]] \in Asker
    BY <1>0, <2>1 DEF Asker
  <2>3. asker' = [asker EXCEPT ![r] = [asker[r] EXCEPT !.phase = "done", !.got = cached[asker[r].key]]]
    BY <1>0, <1>6 DEF Hit
  <2> QED
    BY <1>0, <1>1, <1>6, <2>2, <2>3 DEF Hit
<1>7. ASSUME NEW k \in TemplateLists, ListGoes(k) \/ refreshContentSetupOptionsCache(k) PROVE TemplateTypeOK'
  <2>1. k \in TemplateKeys /\ computing[k] \in TemplateFlight
    BY <1>0 DEF TemplateKeys
  <2>2. CASE ListGoes(k)
    BY <1>0, <1>1, <2>2 DEF ListGoes
  <2>3. CASE refreshContentSetupOptionsCache(k)
    <3>1. computing[k].list \in TemplateLists
      BY <1>0, <2>1, <2>3 DEF refreshContentSetupOptionsCache, ComputedAreLists
    <3>2. [computing[k] EXCEPT !.phase = "deliver"] \in TemplateFlight
      BY <2>1 DEF TemplateFlight
    <3> QED
      BY <1>0, <1>1, <2>3, <3>1, <3>2 DEF refreshContentSetupOptionsCache
  <2> QED
    BY <1>7, <2>2, <2>3
<1>8. ASSUME NEW k \in TemplateLists, cachedContentSetupOptions(k) PROVE TemplateTypeOK'
  <2>1. k \in TemplateKeys /\ computing[k] \in TemplateFlight
    BY <1>0 DEF TemplateKeys
  <2>2. /\ [phase |-> "deliver", list |-> cached[k]] \in TemplateFlight
        /\ [computing[k] EXCEPT !.phase = "compute"] \in TemplateFlight
        /\ [computing[k] EXCEPT !.phase = "only compute"] \in TemplateFlight
    BY <1>0, <2>1 DEF TemplateFlight
  <2>3. PICK next \in {[phase |-> "deliver", list |-> cached[k]], [computing[k] EXCEPT !.phase = "compute"],
                         [computing[k] EXCEPT !.phase = "only compute"]} :
            computing' = [computing EXCEPT ![k] = next]
    BY <1>8 DEF cachedContentSetupOptions
  <2>4. computing' \in [TemplateKeys -> TemplateFlight]
    BY <1>0, <2>2, <2>3
  <2> QED
    BY <1>0, <1>1, <1>8, <2>4 DEF cachedContentSetupOptions
<1>9. ASSUME NEW k \in TemplateKeys, computeContentTemplates(k) \/ DeliverTemplates(k) PROVE TemplateTypeOK'
  <2>1. CASE computeContentTemplates(k)
    <3>1. ASSUME NEW phase \in {"store", "deliver"} PROVE [phase |-> phase, list |-> templates] \in TemplateFlight
      BY <1>0 DEF TemplateFlight
    <3>2. PICK phase \in {"store", "deliver"} :
              computing' = [computing EXCEPT ![k] = [phase |-> phase, list |-> templates]]
      BY <1>0, <2>1 DEF computeContentTemplates
    <3> QED
      BY <1>0, <1>1, <2>1, <3>1, <3>2 DEF computeContentTemplates
  <2>2. CASE DeliverTemplates(k)
    <3>1. computing[k].list \in TemplateLists
      BY <1>0, <2>2 DEF DeliverTemplates, ComputedAreLists
    <3>2. ASSUME NEW r \in Askers PROVE asker'[r] \in Asker
      <4>1. asker'[r] = [asker[r] EXCEPT !.phase = "done", !.got = computing[k].list] \/ asker'[r] = asker[r]
        BY <2>2 DEF DeliverTemplates
      <4> QED
        BY <1>0, <3>1, <4>1 DEF Asker
    <3> QED
      BY <1>0, <1>1, <2>2, <3>2 DEF DeliverTemplates
  <2> QED
    BY <1>9, <2>1, <2>2
<1>10. CASE UNCHANGED templateVars
  BY <1>0, <1>10 DEF templateVars
<1> QED
  BY <1>2, <1>3, <1>4, <1>5, <1>6, <1>7, <1>8, <1>9, <1>10 DEF TemplateNext

(* What a step may do to the generations, to a key and to an asker. *)
GenerationsRise ==
    \A s \in Scopes :
        /\ generations'[s] >= generations[s]
        /\ told'[s] >= told[s]
        /\ generations'[s] = generations[s] => told'[s] = told[s]

CachedMoves(k) ==
    \/ cached'[k] \in {cached[k], NoTemplateList}
    \/ computing[k].phase = "store" /\ cached'[k] = computing[k].list

ComputingMoves(k) ==
    \/ computing'[k] = computing[k]
    \/ /\ computing[k].phase # "none" \/ k = NoGeneration \/ \E r \in Askers : asker[r].key = k
       /\ \/ computing'[k].phase \notin {"store", "deliver"}
          \/ computing'[k].list = templates /\ computing[k].phase # "none"
          \/ k \in TemplateLists /\ computing'[k].list = cached[k] /\ cached[k] # NoTemplateList
          \/ computing[k].phase = "store" /\ computing'[k].list = computing[k].list
    \/ computing'[k].phase = "none"

Keeps(r) == asker'[r].key = asker[r].key /\ asker'[r].since = asker[r].since

AskerMoves(r) ==
    LET old == asker[r]
        new == asker'[r]
    IN
    \/ new = old
    \/ old.phase = "new" /\ new.phase = "user" /\ new.key = old.key /\ new.since = told
    \/ /\ old.phase = "user" /\ new.phase = "workspace" /\ new.since = old.since
       /\ new.key = [old.key EXCEPT !["user"] = generations["user"]]
    \/ /\ old.phase = "workspace" /\ new.phase = "lookup" /\ new.since = old.since
       /\ new.key = [old.key EXCEPT !["workspace"] = generations["workspace"]]
    \/ new.phase = "waiting" /\ new.key = NoGeneration /\ new.since = old.since
    \/ old.phase = "lookup" /\ new.phase = "waiting" /\ Keeps(r)
    \/ old.phase = "lookup" /\ new.phase = "done" /\ Keeps(r) /\ new.got = cached[old.key] /\ new.got # NoTemplateList
    \/ /\ old.phase = "waiting" /\ new.phase = "done" /\ Keeps(r)
       /\ computing[old.key].phase = "deliver" /\ new.got = computing[old.key].list

(* Every step is of that form. *)
LEMMA TemplateStepMoves ==
  ASSUME TemplateInv, [TemplateNext]_templateVars
  PROVE  /\ GenerationsRise
         /\ \A k \in TemplateLists : CachedMoves(k)
         /\ \A k \in TemplateKeys : ComputingMoves(k)
         /\ \A r \in Askers : AskerMoves(r)
<1> USE TemplateAssumption
<1>0. /\ generations \in TemplateLists /\ told \in TemplateLists /\ templates \in TemplateLists
      /\ cached \in [TemplateLists -> TemplateLists \cup {NoTemplateList}]
      /\ computing \in [TemplateKeys -> TemplateFlight] /\ asker \in [Askers -> Asker]
      /\ TemplateLists \subseteq TemplateKeys /\ AskersAreKeyed /\ creating \subseteq Scopes \X (1 .. MaxTemplates)
  BY DEF TemplateInv, TemplateTypeOK, TemplateKeysRead, Asker, TemplateKeys
<1>1. ASSUME UNCHANGED <<generations, told>> PROVE GenerationsRise
  BY <1>0, <1>1 DEF GenerationsRise, TemplateLists
<1>2. ASSUME UNCHANGED cached PROVE \A k \in TemplateLists : CachedMoves(k)
  BY <1>2 DEF CachedMoves
<1>3. ASSUME UNCHANGED computing PROVE \A k \in TemplateKeys : ComputingMoves(k)
  BY <1>3 DEF ComputingMoves
<1>4. ASSUME UNCHANGED asker PROVE \A r \in Askers : AskerMoves(r)
  BY <1>4 DEF AskerMoves
<1> DEFINE Moves == /\ GenerationsRise
                    /\ \A k \in TemplateLists : CachedMoves(k)
                    /\ \A k \in TemplateKeys : ComputingMoves(k)
                    /\ \A r \in Askers : AskerMoves(r)
<1>5. CASE UNCHANGED templateVars \/ \E s \in Scopes : CreateContentTemplate(s)
  BY <1>1, <1>2, <1>3, <1>4, <1>5 DEF templateVars, CreateContentTemplate
<1>6. ASSUME NEW c \in creating, InvalidateContentTemplateOptionsCache(c) PROVE Moves
  <2>1. GenerationsRise
    BY <1>0, <1>6 DEF InvalidateContentTemplateOptionsCache, GenerationsRise, TemplateLists
  <2> QED
    BY <1>2, <1>3, <1>4, <1>6, <2>1 DEF InvalidateContentTemplateOptionsCache
<1>7. ASSUME NEW r \in Askers, Ask(r) \/ ReadUserGeneration(r) \/ ReadWorkspaceGeneration(r) PROVE Moves
  <2>1. CASE Ask(r)
    <3>1. \A q \in Askers : AskerMoves(q)
      BY <1>0, <2>1 DEF Ask, AskerMoves, Asker
    <3> QED
      BY <1>1, <1>2, <1>3, <2>1, <3>1 DEF Ask
  <2>2. CASE ReadUserGeneration(r)
    <3>1. \A q \in Askers : AskerMoves(q)
      BY <1>0, <2>2 DEF ReadUserGeneration, AskerMoves, Asker
    <3> QED
      BY <1>1, <1>2, <1>3, <2>2, <3>1 DEF ReadUserGeneration
  <2>3. CASE ReadWorkspaceGeneration(r)
    <3>1. \A q \in Askers : AskerMoves(q)
      BY <1>0, <2>3 DEF ReadWorkspaceGeneration, AskerMoves, Asker
    <3> QED
      BY <1>1, <1>2, <1>3, <2>3, <3>1 DEF ReadWorkspaceGeneration
  <2> QED
    BY <1>7, <2>1, <2>2, <2>3
<1>8. ASSUME NEW r \in Askers, GenerationUnknown(r) \/ Miss(r) PROVE Moves
  <2>1. PICK key \in TemplateKeys :
            /\ Wait(r, key) /\ UNCHANGED <<generations, told, cached>>
            /\ key = NoGeneration \/ (asker[r].phase = "lookup" /\ asker[r].key = key)
    BY <1>0, <1>8 DEF GenerationUnknown, Miss, AskersAreKeyed, TemplateKeys
  <2>2. ASSUME NEW q \in Askers PROVE AskerMoves(q)
    <3>1. asker'[q] = IF q = r THEN [asker[r] EXCEPT !.phase = "waiting", !.key = key] ELSE asker[q]
      BY <1>0, <2>1 DEF Wait
    <3> QED
      BY <1>0, <2>1, <3>1 DEF AskerMoves, Keeps, Asker
  <2>3. ASSUME NEW k \in TemplateKeys PROVE ComputingMoves(k)
    <3>1. \/ computing'[k] = computing[k]
          \/ k = key /\ computing'[k].phase \in {"look", "only compute"}
      BY <1>0, <2>1 DEF Wait, TemplateFlight
    <3> QED
      BY <2>1, <3>1 DEF ComputingMoves
  <2> QED
    BY <1>1, <1>2, <2>1, <2>2, <2>3
<1>9. ASSUME NEW r \in Askers, Hit(r) PROVE Moves
  <2>1. \A q \in Askers : AskerMoves(q)
    BY <1>0, <1>9 DEF Hit, AskerMoves, Keeps, Asker
  <2> QED
    BY <1>1, <1>2, <1>3, <1>9, <2>1 DEF Hit
<1>10. ASSUME NEW k \in TemplateLists, ListGoes(k) PROVE Moves
  <2>1. \A x \in TemplateLists : CachedMoves(x)
    BY <1>0, <1>10 DEF ListGoes, CachedMoves
  <2> QED
    BY <1>1, <1>3, <1>4, <1>10, <2>1 DEF ListGoes
<1>11. ASSUME NEW k \in TemplateLists, cachedContentSetupOptions(k) PROVE Moves
  <2>1. ASSUME NEW x \in TemplateKeys PROVE ComputingMoves(x)
    <3>1. computing[k] \in TemplateFlight /\ computing[k].phase = "look"
      BY <1>0, <1>11 DEF cachedContentSetupOptions
    <3>2. CASE x # k
      BY <1>0, <1>11, <3>2 DEF cachedContentSetupOptions, ComputingMoves
    <3>3. CASE x = k /\ computing'[k] = [phase |-> "deliver", list |-> cached[k]] /\ cached[k] # NoTemplateList
      BY <1>0, <3>1, <3>3 DEF ComputingMoves
    <3>4. CASE x = k /\ computing'[k].phase \in {"compute", "only compute"}
      BY <3>1, <3>4 DEF ComputingMoves
    <3>5. \/ computing'[k] = [phase |-> "deliver", list |-> cached[k]] /\ cached[k] # NoTemplateList
          \/ computing'[k].phase \in {"compute", "only compute"}
      <4>1. /\ [computing[k] EXCEPT !.phase = "compute"].phase = "compute"
            /\ [computing[k] EXCEPT !.phase = "only compute"].phase = "only compute"
        BY <3>1 DEF TemplateFlight
      <4>2. CASE computing' = [computing EXCEPT ![k] = [computing[k] EXCEPT !.phase = "compute"]]
        BY <1>0, <4>1, <4>2
      <4>3. CASE computing' = [computing EXCEPT ![k] = [computing[k] EXCEPT !.phase = "only compute"]]
        BY <1>0, <4>1, <4>3
      <4>4. CASE computing' = [computing EXCEPT ![k] = [phase |-> "deliver", list |-> cached[k]]] /\ cached[k] # NoTemplateList
        BY <1>0, <4>4
      <4> QED
        BY <1>11, <4>2, <4>3, <4>4 DEF cachedContentSetupOptions
    <3> QED
      BY <3>2, <3>3, <3>4, <3>5
  <2> QED
    BY <1>1, <1>2, <1>4, <1>11, <2>1 DEF cachedContentSetupOptions
<1>12. ASSUME NEW k \in TemplateLists, refreshContentSetupOptionsCache(k) PROVE Moves
  <2>1. ASSUME NEW x \in TemplateKeys PROVE ComputingMoves(x)
    BY <1>0, <1>12 DEF refreshContentSetupOptionsCache, ComputingMoves, TemplateFlight
  <2>2. \A x \in TemplateLists : CachedMoves(x)
    BY <1>0, <1>12 DEF refreshContentSetupOptionsCache, CachedMoves
  <2> QED
    BY <1>1, <1>4, <1>12, <2>1, <2>2 DEF refreshContentSetupOptionsCache
<1>13. ASSUME NEW k \in TemplateKeys, computeContentTemplates(k) PROVE Moves
  <2>1. ASSUME NEW x \in TemplateKeys PROVE ComputingMoves(x)
    BY <1>0, <1>13 DEF computeContentTemplates, ComputingMoves
  <2> QED
    BY <1>1, <1>2, <1>4, <1>13, <2>1 DEF computeContentTemplates
<1>14. ASSUME NEW k \in TemplateKeys, DeliverTemplates(k) PROVE Moves
  <2>1. ASSUME NEW x \in TemplateKeys PROVE ComputingMoves(x)
    BY <1>0, <1>14 DEF DeliverTemplates, ComputingMoves, NoTemplateFlight
  <2>2. ASSUME NEW q \in Askers PROVE AskerMoves(q)
    <3>1. asker'[q] = IF asker[q].phase = "waiting" /\ asker[q].key = k
                      THEN [asker[q] EXCEPT !.phase = "done", !.got = computing[k].list] ELSE asker[q]
      BY <1>14 DEF DeliverTemplates
    <3> QED
      BY <1>0, <1>14, <3>1 DEF DeliverTemplates, AskerMoves, Keeps, Asker
  <2> QED
    BY <1>1, <1>2, <1>14, <2>1, <2>2 DEF DeliverTemplates
<1> QED
  BY <1>5, <1>6, <1>7, <1>8, <1>9, <1>10, <1>11, <1>12, <1>13, <1>14 DEF TemplateNext

(* Every step leaves the keys nobody could have read without a list. *)
LEMMA TemplateStepKeys ==
  ASSUME TemplateInv, TemplateTypeOK', [TemplateNext]_templateVars
  PROVE  TemplateKeysRead'
<1> USE TemplateAssumption
<1>0. /\ generations \in TemplateLists /\ told \in TemplateLists /\ templates \in TemplateLists
      /\ generations' \in TemplateLists /\ told' \in TemplateLists
      /\ cached \in [TemplateLists -> TemplateLists \cup {NoTemplateList}]
      /\ asker \in [Askers -> Asker] /\ TemplateLists \subseteq TemplateKeys
      /\ UnreadKeysAreEmpty /\ AskersAreKeyed /\ ComputedAreLists
  BY DEF TemplateInv, TemplateTypeOK, TemplateKeysRead, Asker, TemplateKeys
<1>1. /\ GenerationsRise
      /\ \A k \in TemplateLists : CachedMoves(k)
      /\ \A k \in TemplateKeys : ComputingMoves(k)
      /\ \A r \in Askers : AskerMoves(r)
  BY TemplateStepMoves
<1>2. UnreadKeysAreEmpty'
  <2> SUFFICES ASSUME NEW k \in TemplateLists, NEW s \in Scopes, k[s] > generations'[s]
               PROVE  cached'[k] = NoTemplateList /\ computing'[k].phase = "none"
    BY DEF UnreadKeysAreEmpty
  <2>1. k[s] > generations[s]
    BY <1>0, <1>1 DEF GenerationsRise, TemplateLists
  <2>2. cached[k] = NoTemplateList /\ computing[k].phase = "none"
    BY <1>0, <2>1 DEF UnreadKeysAreEmpty
  <2>3. k # NoGeneration /\ k \in TemplateKeys
    BY <1>0
  <2>4. ASSUME NEW r \in Askers PROVE asker[r].key # k
    BY <1>0, <2>1 DEF AskersAreKeyed, TemplateLists
  <2> QED
    BY <1>1, <2>2, <2>3, <2>4 DEF CachedMoves, ComputingMoves
<1>3. ComputedAreLists'
  <2> SUFFICES ASSUME NEW k \in TemplateKeys, computing'[k].phase \in {"store", "deliver"}
               PROVE  computing'[k].list \in TemplateLists
    BY DEF ComputedAreLists
  <2>1. ComputingMoves(k)
    BY <1>1
  <2> QED
    BY <1>0, <2>1 DEF ComputingMoves, ComputedAreLists
<1>4. AskersAreKeyed'
  <2> SUFFICES ASSUME NEW r \in Askers
               PROVE  /\ asker'[r].phase \in {"new", "user", "workspace", "lookup"} => asker'[r].key \in TemplateLists
                      /\ asker'[r].key \in TemplateLists => \A s \in Scopes : asker'[r].key[s] <= generations'[s]
                      /\ \A s \in Scopes : asker'[r].since[s] <= told'[s]
    BY DEF AskersAreKeyed
  <2>1. AskerMoves(r) /\ asker[r] \in Asker
    BY <1>0, <1>1
  <2>2. \A s \in Scopes : asker'[r].since[s] <= told'[s]
    <3>1. asker'[r].since \in {asker[r].since, told}
      BY <2>1 DEF AskerMoves, Keeps
    <3>2. \A s \in Scopes : asker[r].since[s] <= told[s]
      BY <1>0 DEF AskersAreKeyed
    <3> QED
      BY <1>0, <1>1, <2>1, <3>1, <3>2 DEF GenerationsRise, TemplateLists, Asker
  <2>3. ASSUME asker[r].key \in TemplateLists, NEW s \in Scopes
        PROVE  asker[r].key[s] <= generations'[s]
    BY <1>0, <1>1, <2>3 DEF AskersAreKeyed, GenerationsRise, TemplateLists
  <2>4. ASSUME asker[r].key \in TemplateLists, NEW x \in Scopes, asker'[r].key = [asker[r].key EXCEPT ![x] = generations[x]]
        PROVE  asker'[r].key \in TemplateLists /\ \A s \in Scopes : asker'[r].key[s] <= generations'[s]
    <3>1. asker'[r].key \in TemplateLists
      BY <1>0, <2>4 DEF TemplateLists
    <3>2. ASSUME NEW s \in Scopes PROVE asker'[r].key[s] <= generations'[s]
      <4>1. asker'[r].key[s] = IF s = x THEN generations[s] ELSE asker[r].key[s]
        BY <2>4 DEF TemplateLists
      <4> QED
        BY <1>0, <1>1, <2>3, <2>4, <4>1 DEF GenerationsRise, TemplateLists
    <3> QED
      BY <3>1, <3>2
  <2>5. CASE asker'[r].key = asker[r].key
             /\ (asker'[r].phase = asker[r].phase \/ asker[r].phase = "new"
                 \/ asker'[r].phase \notin {"new", "user", "workspace", "lookup"})
    BY <1>0, <2>2, <2>3, <2>5 DEF AskersAreKeyed
  <2>6. CASE asker'[r].key = NoGeneration /\ asker'[r].phase = "waiting"
    BY <2>2, <2>6
  <2>7. CASE \E x \in Scopes : /\ asker[r].phase \in {"user", "workspace"}
                                /\ asker'[r].key = [asker[r].key EXCEPT ![x] = generations[x]]
    <3>1. asker[r].key \in TemplateLists
      BY <1>0, <2>7 DEF AskersAreKeyed
    <3> QED
      BY <2>2, <2>4, <2>7, <3>1
  <2>8. "user" \in Scopes /\ "workspace" \in Scopes
    BY DEF Scopes
  <2> QED
    BY <2>1, <2>5, <2>6, <2>7, <2>8 DEF AskerMoves, Keeps
<1> QED
  BY <1>2, <1>3, <1>4 DEF TemplateKeysRead

(* Every step keeps the lists recent, in each scope. *)
LEMMA TemplateStepRecent ==
  ASSUME TemplateInv, TemplateTypeOK', [TemplateNext]_templateVars
  PROVE  TemplateListsRecent'
<1> USE TemplateAssumption
<1>0. /\ generations \in TemplateLists /\ told \in TemplateLists /\ templates \in TemplateLists
      /\ generations' \in TemplateLists /\ told' \in TemplateLists
      /\ asker \in [Askers -> Asker] /\ TemplateLists \subseteq TemplateKeys
      /\ UnreadKeysAreEmpty /\ AskersAreKeyed /\ ComputedAreLists /\ TemplateListsRecent
      /\ \A s \in Scopes : told[s] <= templates[s]
  BY DEF TemplateInv, TemplateTypeOK, TemplateKeysRead, Asker, TemplateKeys, TemplatesCounted
<1>1. /\ GenerationsRise
      /\ \A k \in TemplateLists : CachedMoves(k)
      /\ \A k \in TemplateKeys : ComputingMoves(k)
      /\ \A r \in Askers : AskerMoves(r)
  BY TemplateStepMoves
<1> SUFFICES ASSUME NEW k \in TemplateLists, NEW list \in TemplateLists, NEW s \in Scopes, Lists(k, list)'
             PROVE  /\ k[s] = generations'[s] => list[s] >= told'[s]
                    /\ \A r \in Askers :
                          HasRead(r, s)' /\ asker'[r].key \in TemplateLists /\ asker'[r].key[s] = k[s]
                              => list[s] >= asker'[r].since[s]
  BY DEF TemplateListsRecent
<1>2. Lists(k, list) \/ (list = templates /\ computing[k].phase # "none")
  <2>1. CachedMoves(k) /\ ComputingMoves(k) /\ list # NoTemplateList
    BY <1>0, <1>1
  <2> QED
    BY <2>1 DEF CachedMoves, ComputingMoves, Lists
<1>3. k[s] <= generations[s]
  <2>1. cached[k] # NoTemplateList \/ computing[k].phase # "none"
    BY <1>2 DEF Lists
  <2>2. ~ k[s] > generations[s]
    BY <1>0, <2>1 DEF UnreadKeysAreEmpty
  <2> QED
    BY <1>0, <2>2 DEF TemplateLists
<1>4. /\ k[s] \in Nat /\ generations[s] \in Nat /\ generations'[s] \in Nat /\ list[s] \in Nat
      /\ told[s] \in Nat /\ told'[s] \in Nat /\ templates[s] \in Nat
  BY <1>0 DEF TemplateLists
<1>5. k[s] = generations[s] => list[s] >= told[s]
  <2>1. CASE Lists(k, list)
    BY <1>0, <2>1 DEF TemplateListsRecent
  <2>2. CASE list = templates
    BY <1>0, <1>4, <2>2
  <2> QED
    BY <1>2, <2>1, <2>2
<1>6. k[s] = generations'[s] => list[s] >= told'[s]
  BY <1>1, <1>3, <1>4, <1>5 DEF GenerationsRise
<1>7. ASSUME NEW r \in Askers, HasRead(r, s)', asker'[r].key \in TemplateLists, asker'[r].key[s] = k[s]
      PROVE  list[s] >= asker'[r].since[s]
  <2>1. AskerMoves(r) /\ asker[r] \in Asker
    BY <1>0, <1>1
  <2>2. asker[r].since[s] \in Nat /\ asker[r].since[s] <= told[s]
    BY <1>0, <2>1 DEF AskersAreKeyed, Asker, TemplateLists
  <2>3. ASSUME HasRead(r, s), asker[r].key \in TemplateLists, asker[r].key[s] = k[s], asker'[r].since = asker[r].since
        PROVE  list[s] >= asker'[r].since[s]
    <3>1. CASE Lists(k, list)
      BY <1>0, <2>3, <3>1 DEF TemplateListsRecent
    <3>2. CASE list = templates
      BY <1>0, <1>4, <2>2, <2>3, <3>2
    <3> QED
      BY <1>2, <3>1, <3>2
  <2>4. ASSUME k[s] = generations[s], asker'[r].since = asker[r].since
        PROVE  list[s] >= asker'[r].since[s]
    BY <1>4, <1>5, <2>2, <2>4
  <2>5. CASE asker'[r] = asker[r]
    BY <1>7, <2>3, <2>5 DEF HasRead
  <2>6. CASE asker'[r].phase = "user" \/ asker'[r].key = NoGeneration
    BY <1>7, <2>6 DEF HasRead
  <2>7. CASE /\ asker[r].phase = "user" /\ asker'[r].phase = "workspace" /\ asker'[r].since = asker[r].since
             /\ asker'[r].key = [asker[r].key EXCEPT !["user"] = generations["user"]]
    <3>1. s = "user"
      BY <1>7, <2>7 DEF HasRead
    <3>2. asker[r].key \in TemplateLists
      BY <1>0, <2>7 DEF AskersAreKeyed
    <3>3. asker'[r].key[s] = generations[s]
      BY <2>7, <3>1, <3>2 DEF TemplateLists, Scopes
    <3> QED
      BY <1>7, <2>4, <2>7, <3>3
  <2>8. CASE /\ asker[r].phase = "workspace" /\ asker'[r].phase = "lookup" /\ asker'[r].since = asker[r].since
             /\ asker'[r].key = [asker[r].key EXCEPT !["workspace"] = generations["workspace"]]
    <3>1. asker[r].key \in TemplateLists
      BY <1>0, <2>8 DEF AskersAreKeyed
    <3>2. CASE s = "workspace"
      <4>1. asker'[r].key[s] = generations[s]
        BY <2>8, <3>1, <3>2 DEF TemplateLists, Scopes
      <4> QED
        BY <1>7, <2>4, <2>8, <4>1
    <3>3. CASE s = "user"
      <4>1. asker'[r].key[s] = asker[r].key[s]
        BY <2>8, <3>1, <3>3 DEF TemplateLists, Scopes
      <4> QED
        BY <1>7, <2>3, <2>8, <3>1, <3>3, <4>1 DEF HasRead
    <3> QED
      BY <3>2, <3>3 DEF Scopes
  <2>9. CASE Keeps(r) /\ asker[r].phase \in {"lookup", "waiting"}
    BY <1>7, <2>3, <2>9 DEF Keeps, HasRead
  <2> QED
    BY <2>1, <2>5, <2>6, <2>7, <2>8, <2>9 DEF AskerMoves
<1> QED
  BY <1>6, <1>7

(* Every answer is recent. *)
LEMMA TemplateStepAnswers ==
  ASSUME TemplateInv, [TemplateNext]_templateVars
  PROVE  TemplateAnswersRecent'
<1> USE TemplateAssumption
<1>0. /\ cached \in [TemplateLists -> TemplateLists \cup {NoTemplateList}] /\ asker \in [Askers -> Asker]
      /\ TemplateLists \subseteq TemplateKeys
      /\ AskersAreKeyed /\ ComputedAreLists /\ TemplateListsRecent /\ TemplateAnswersRecent
  BY DEF TemplateInv, TemplateTypeOK, TemplateKeysRead, Asker, TemplateKeys
<1> SUFFICES ASSUME NEW r \in Askers, asker'[r].phase = "done", asker'[r].key \in TemplateLists
             PROVE  asker'[r].got \in TemplateLists /\ \A s \in Scopes : asker'[r].got[s] >= asker'[r].since[s]
  BY DEF TemplateAnswersRecent
<1>1. AskerMoves(r)
  BY TemplateStepMoves
<1>2. ASSUME Keeps(r), Lists(asker[r].key, asker'[r].got), asker'[r].got \in TemplateLists,
             asker[r].phase \in {"lookup", "waiting"}
      PROVE  \A s \in Scopes : asker'[r].got[s] >= asker'[r].since[s]
  BY <1>0, <1>2 DEF TemplateListsRecent, HasRead, Keeps
<1>3. CASE asker'[r] = asker[r]
  BY <1>0, <1>3 DEF TemplateAnswersRecent
<1>4. CASE /\ asker[r].phase = "lookup" /\ Keeps(r) /\ asker'[r].got = cached[asker[r].key]
           /\ asker'[r].got # NoTemplateList
  <2>1. asker'[r].got \in TemplateLists /\ Lists(asker[r].key, asker'[r].got)
    BY <1>0, <1>4 DEF Keeps, Lists
  <2> QED
    BY <1>2, <1>4, <2>1
<1>5. CASE /\ asker[r].phase = "waiting" /\ Keeps(r)
           /\ computing[asker[r].key].phase = "deliver" /\ asker'[r].got = computing[asker[r].key].list
  <2>1. asker[r].key \in TemplateKeys
    BY <1>0, <1>5 DEF Keeps
  <2>2. asker'[r].got \in TemplateLists /\ Lists(asker[r].key, asker'[r].got)
    BY <1>0, <1>5, <2>1 DEF ComputedAreLists, Lists
  <2> QED
    BY <1>2, <1>5, <2>2
<1> QED
  BY <1>1, <1>3, <1>4, <1>5 DEF AskerMoves

(* The invariant of the templates holds in every behaviour. *)
LEMMA TemplateInvariant == TemplateSpec => []TemplateInv
<1>1. TemplateInv /\ [TemplateNext]_templateVars => TemplateInv'
  <2> SUFFICES ASSUME TemplateInv, [TemplateNext]_templateVars PROVE TemplateInv'
    OBVIOUS
  <2>1. TemplatesCounted' /\ TemplateTypeOK'
    BY TemplateStepCounted, TemplateStepTyped DEF TemplateInv
  <2>2. TemplateKeysRead' /\ TemplateListsRecent' /\ TemplateAnswersRecent'
    BY <2>1, TemplateStepKeys, TemplateStepRecent, TemplateStepAnswers
  <2> QED
    BY <2>1, <2>2 DEF TemplateInv
<1> QED
  BY <1>1, TemplateInitInv, PTL DEF TemplateSpec

-----------------------------------------------------------------------------
(* Whoever asks after a template was announced sees it, although the two generations of the key are *)
(* read one after the other (getCachedContentSetupOptions).                                         *)
THEOREM SetupListsAreFresh == TemplateSpec => []TemplatesAreFresh
<1>1. TemplateInv => TemplatesAreFresh
  BY DEF TemplateInv, TemplateTypeOK, TemplateAnswersRecent, TemplatesAreFresh, TemplateKeys
<1> QED
  BY <1>1, TemplateInvariant, PTL

-----------------------------------------------------------------------------
(* The runs of an assistant                                                *)

Inserting == {"insertCall", "insertResult"}

\* Between its turns a run may be past the last one; in a turn it is not, and what it inserts
\* has a number.
TurnsAreRunning ==
    \A r \in Runs :
        /\ run[r].pc \notin {"turn", "ended"} => run[r].turn \in 1..MaxTurns
        /\ run[r].pc \in Inserting => run[r].seq # 0

\* An event of a run that goes on is of an earlier turn, or the tool call of this one, and its
\* number is lower than the one that the run inserts next.
RunsAreAhead ==
    \A e \in log :
        /\ run[e.run].pc \in Inserting => e.seq < run[e.run].seq
        /\ \/ run[e.run].pc = "ended"
           \/ e.turn < run[e.run].turn
           \/ e.turn = run[e.run].turn /\ e.kind = "use" /\ run[e.run].pc \in {"result", "insertResult"}

\* What a run logs is numbered in the order of the run, and logged once.
LoggedInOrder ==
    \A e, f \in log : e.run = f.run =>
        /\ e.seq = f.seq => e = f
        /\ e.turn = f.turn /\ e.kind = f.kind => e = f
        /\ e.turn = f.turn /\ e.kind = "use" /\ f.kind = "result" => e.seq < f.seq

LogInv == AITypeOK /\ IsFiniteSet(log) /\ TurnsAreRunning /\ RunsAreAhead /\ LoggedInOrder

(* The number read for the next event is above all that are committed. *)
LEMMA NextIsLast ==
  ASSUME AITypeOK, IsFiniteSet(log)
  PROVE  /\ NextSequence \in Nat \ {0}
         /\ \A e \in log : e.seq < NextSequence
<1> DEFINE seqs == {e.seq : e \in log}
           T == {0} \cup seqs
           of == [e \in log |-> e.seq]
<1>1. \A e \in log : e.seq \in Nat
  BY DEF AITypeOK, Events
<1>2. IsFiniteSet(seqs)
  <2>1. of \in Surjection(log, seqs)
    BY DEF Surjection
  <2> QED
    BY <2>1, FS_Surjection
<1>3. IsFiniteSet(T) /\ T # {} /\ T \in SUBSET Nat
  <2>1. IsFiniteSet(seqs \cup {0})
    BY <1>2, FS_AddElement
  <2>2. T = seqs \cup {0}
    OBVIOUS
  <2> QED
    BY <1>1, <2>1, <2>2
<1>4. \A e \in log : e.seq \in T
  OBVIOUS
<1> HIDE DEF T
<1>5. PICK x \in T : \A y \in T : y <= x
  BY <1>3, GreatestNumber
<1>6. x \in T /\ \A y \in T : x >= y
  BY <1>3, <1>5
<1>7. Max(T) \in T /\ \A y \in T : Max(T) >= y
  BY <1>6, Zenon DEF Max
<1>8. NextSequence = 1 + Max(T)
  BY DEF NextSequence, T
<1>9. Max(T) \in Nat
  BY <1>3, <1>7
<1> QED
  BY <1>1, <1>4, <1>7, <1>8, <1>9

(* The number an action leaves a run with is all that the others see of it: they stay. *)
LEMMA RunMoves ==
  ASSUME AITypeOK, NEW r \in Runs, NEW v \in Run, run' = [run EXCEPT ![r] = v]
  PROVE  /\ run' \in [Runs -> Run] /\ run'[r] = v
         /\ \A q \in Runs : q # r => run'[q] = run[q]
  BY DEF AITypeOK

(* What a run does without a log entry keeps what is known of the log. *)
LEMMA LogKeptByRun ==
  ASSUME LogInv, NEW r \in Runs, NEW v \in Run, run' = [run EXCEPT ![r] = v], log' = log,
         aggregate' \in Nat, spent' \in Nat, unrecorded' \in Nat, runFaults' \in 0..MaxRunFaults,
         v.pc \notin {"turn", "ended"} => v.turn \in 1..MaxTurns,
         v.pc \in Inserting => v.seq # 0 /\ \A e \in log : e.seq < v.seq,
         \/ v.pc = "ended"
         \/ v.turn = run[r].turn /\ run[r].pc # "ended"
            /\ (run[r].pc \in {"result", "insertResult"} => v.pc \in {"result", "insertResult"})
         \/ v.turn = run[r].turn + 1 /\ run[r].pc # "ended"
  PROVE  LogInv'
<1>1. /\ run' \in [Runs -> Run] /\ run'[r] = v
      /\ \A q \in Runs : q # r => run'[q] = run[q]
  BY RunMoves DEF LogInv
<1>2. AITypeOK'
  BY <1>1 DEF AITypeOK, LogInv
<1>3. TurnsAreRunning'
  BY <1>1 DEF TurnsAreRunning, LogInv
<1>4. RunsAreAhead'
  <2> SUFFICES ASSUME NEW e \in log
               PROVE  /\ run'[e.run].pc \in Inserting => e.seq < run'[e.run].seq
                      /\ \/ run'[e.run].pc = "ended"
                         \/ e.turn < run'[e.run].turn
                         \/ e.turn = run'[e.run].turn /\ e.kind = "use"
                            /\ run'[e.run].pc \in {"result", "insertResult"}
    BY DEF RunsAreAhead
  <2>1. e.run \in Runs /\ e.turn \in Nat
    BY DEF LogInv, AITypeOK, Events
  <2>2. CASE e.run # r
    BY <1>1, <2>1, <2>2 DEF LogInv, RunsAreAhead
  <2>3. CASE e.run = r
    BY <1>1, <2>1, <2>3 DEF LogInv, RunsAreAhead, AITypeOK, Run
  <2> QED
    BY <2>2, <2>3
<1>5. IsFiniteSet(log)' /\ LoggedInOrder'
  BY DEF LogInv, LoggedInOrder
<1> QED
  BY <1>2, <1>3, <1>4, <1>5 DEF LogInv

(* An event under the number that the run has read, and the run goes on. *)
LEMMA LogKeptByInsert ==
  ASSUME LogInv, NEW r \in Runs, NEW v \in Run, run' = [run EXCEPT ![r] = v], NEW kind,
         log' = log \cup {[seq |-> run[r].seq, run |-> r, turn |-> run[r].turn, kind |-> kind]},
         \/ run[r].pc = "insertCall" /\ kind = "use" /\ v.pc = "result" /\ v.turn = run[r].turn
         \/ run[r].pc = "insertResult" /\ kind = "result" /\ v.pc = "turn" /\ v.turn = run[r].turn + 1
         \/ run[r].pc = "insertResult" /\ kind = "result" /\ v.pc = "ended",
         UNCHANGED <<aggregate, spent, unrecorded, runFaults>>
  PROVE  LogInv'
<1> DEFINE new == [seq |-> run[r].seq, run |-> r, turn |-> run[r].turn, kind |-> kind]
<1>1. /\ run' \in [Runs -> Run] /\ run'[r] = v
      /\ \A q \in Runs : q # r => run'[q] = run[q]
  BY RunMoves DEF LogInv
<1>2. /\ run[r].pc \in Inserting /\ run[r].turn \in 1..MaxTurns /\ run[r].seq \in Nat \ {0}
      /\ kind \in {"use", "result"} /\ v.pc \notin Inserting
  BY DEF LogInv, TurnsAreRunning, AITypeOK, Run, Inserting
<1>3. new \in Events
  BY <1>2 DEF Events
<1>n. new.seq = run[r].seq /\ new.run = r /\ new.turn = run[r].turn /\ new.kind = kind
  OBVIOUS
<1> HIDE DEF new
<1>4. log' = log \cup {new}
  BY DEF new
<1>5. AITypeOK' /\ TurnsAreRunning'
  <2>1. AITypeOK'
    BY <1>1, <1>3, <1>4 DEF AITypeOK, LogInv
  <2>2. TurnsAreRunning'
    BY <1>1, <1>2 DEF TurnsAreRunning, LogInv
  <2> QED
    BY <2>1, <2>2
<1>6. IsFiniteSet(log')
  BY <1>4, FS_AddElement DEF LogInv
<1>7. ASSUME NEW e \in log, e.run = r
      PROVE  /\ e.seq < new.seq
             /\ e.turn < new.turn \/ (e.turn = new.turn /\ e.kind = "use" /\ kind = "result")
  BY <1>7, <1>2, <1>n DEF LogInv, RunsAreAhead, Inserting
<1>8. \A e \in log : e.seq \in Nat /\ e.turn \in Nat /\ e.run \in Runs
  BY DEF LogInv, AITypeOK, Events
<1>9. LoggedInOrder'
  <2> SUFFICES ASSUME NEW e \in log', NEW f \in log', e.run = f.run
               PROVE  /\ e.seq = f.seq => e = f
                      /\ e.turn = f.turn /\ e.kind = f.kind => e = f
                      /\ e.turn = f.turn /\ e.kind = "use" /\ f.kind = "result" => e.seq < f.seq
    BY DEF LoggedInOrder
  <2>1. CASE e \in log /\ f \in log
    BY <2>1 DEF LoggedInOrder, LogInv
  <2>2. CASE e = new /\ f = new
    BY <2>2
  <2>3. CASE e \in log /\ f = new
    BY <2>3, <1>7, <1>8, <1>n, <1>2
  <2>4. CASE e = new /\ f \in log
    <3>1. f.run = r /\ f.seq < e.seq /\ f.seq \in Nat /\ e.seq \in Nat
      BY <2>4, <1>7, <1>8, <1>n, <1>2
    <3>2. f.turn < e.turn \/ (f.turn = e.turn /\ f.kind = "use" /\ e.kind = "result")
      BY <2>4, <1>7, <1>n, <3>1
    <3>3. f.turn \in Nat /\ e.turn \in Nat
      BY <2>4, <1>8, <1>n, <1>2
    <3> QED
      BY <3>1, <3>2, <3>3
  <2> QED
    BY <2>1, <2>2, <2>3, <2>4, <1>4
<1>10. RunsAreAhead'
  <2> SUFFICES ASSUME NEW e \in log'
               PROVE  /\ run'[e.run].pc \in Inserting => e.seq < run'[e.run].seq
                      /\ \/ run'[e.run].pc = "ended"
                         \/ e.turn < run'[e.run].turn
                         \/ e.turn = run'[e.run].turn /\ e.kind = "use"
                            /\ run'[e.run].pc \in {"result", "insertResult"}
    BY DEF RunsAreAhead
  <2>1. CASE e.run # r
    BY <1>1, <2>1, <1>4, <1>n, <1>8 DEF LogInv, RunsAreAhead
  <2>2. CASE e = new
    BY <1>1, <1>2, <1>n, <2>2
  <2>3. CASE e \in log /\ e.run = r
    BY <1>1, <1>2, <1>7, <1>8, <1>n, <2>3
  <2> QED
    BY <2>1, <2>2, <2>3, <1>4, <1>n
<1> QED
  BY <1>5, <1>6, <1>9, <1>10 DEF LogInv

(* Whatever runs do, the log keeps its order and its types. *)
LEMMA LogHolds == AISpec => []LogInv
<1>1. AIInit => LogInv
  BY RunAssumption, FS_EmptySet
  DEF AIInit, LogInv, AITypeOK, Run, TurnsAreRunning, RunsAreAhead, LoggedInOrder, Inserting
<1>2. LogInv /\ [AINext]_aiVars => LogInv'
  <2> SUFFICES ASSUME LogInv, [AINext]_aiVars PROVE LogInv'
    OBVIOUS
  <2>t. AITypeOK /\ TurnsAreRunning /\ IsFiniteSet(log)
    BY DEF LogInv
  <2>e. Ended \in Run /\ Ended.pc = "ended"
    BY RunAssumption DEF Ended, Run
  <2>r. ASSUME NEW r \in Runs
        PROVE  /\ run[r] \in Run /\ run[r].turn \in 1..(MaxTurns + 1) /\ MaxTurns \in Nat
               /\ run[r].pc \notin {"turn", "ended"} => run[r].turn \in 1..MaxTurns
    BY <2>t, RunAssumption DEF AITypeOK, Run, TurnsAreRunning
  <2>1. CASE UNCHANGED aiVars
    BY <2>1
    DEF aiVars, LogInv, AITypeOK, TurnsAreRunning, RunsAreAhead, LoggedInOrder
  <2>2. ASSUME NEW r \in Runs, CheckQuota(r) PROVE LogInv'
    <3> DEFINE v == IF run[r].turn > MaxTurns \/ aggregate >= LimitTokens THEN Ended ELSE [run[r] EXCEPT !.pc = "query"]
    <3>1. run' = [run EXCEPT ![r] = v]
      BY <2>2 DEF CheckQuota, RunGoes
    <3>2. v \in Run /\ (v.pc = "ended" \/ (v.pc = "query" /\ v.turn = run[r].turn /\ v.turn \in 1..MaxTurns))
      BY <2>e, <2>r DEF Run
    <3> HIDE DEF v
    <3>3. /\ log' = log /\ run[r].pc = "turn"
          /\ aggregate' \in Nat /\ spent' \in Nat /\ unrecorded' \in Nat /\ runFaults' \in 0..MaxRunFaults
      BY <2>2, <2>t DEF CheckQuota, AITypeOK
    <3> QED
      BY <3>1, <3>2, <3>3, LogKeptByRun DEF Inserting
  <2>3. ASSUME NEW r \in Runs, Query(r) PROVE LogInv'
    <3>1. PICK tool \in BOOLEAN : run' = [run EXCEPT ![r].pc = "usage", ![r].tool = tool]
      BY <2>3 DEF Query
    <3> DEFINE v == [run[r] EXCEPT !.pc = "usage", !.tool = tool]
    <3>2. run' = [run EXCEPT ![r] = v]
      BY <3>1, <2>t DEF AITypeOK
    <3>3. v \in Run /\ v.pc = "usage" /\ v.turn = run[r].turn
      BY <2>r DEF Run
    <3> HIDE DEF v
    <3>4. /\ log' = log /\ run[r].pc = "query"
          /\ aggregate' \in Nat /\ spent' \in Nat /\ unrecorded' \in Nat /\ runFaults' \in 0..MaxRunFaults
      BY <2>3, <2>t DEF Query, AITypeOK
    <3> QED
      BY <3>2, <3>3, <3>4, <2>r, LogKeptByRun DEF Inserting
  <2>4. ASSUME NEW r \in Runs, RecordUsage(r) PROVE LogInv'
    <3> DEFINE v == IF run[r].tool THEN [run[r] EXCEPT !.pc = "call"] ELSE Ended
    <3>1. run' = [run EXCEPT ![r] = v]
      BY <2>4 DEF RecordUsage, RunGoes
    <3>2. v \in Run /\ (v.pc = "ended" \/ (v.pc = "call" /\ v.turn = run[r].turn))
      BY <2>e, <2>r DEF Run
    <3> HIDE DEF v
    <3>3. /\ log' = log /\ run[r].pc = "usage"
          /\ aggregate' \in Nat /\ spent' \in Nat /\ unrecorded' \in Nat /\ runFaults' \in 0..MaxRunFaults
      BY <2>4, <2>t, RunAssumption DEF RecordUsage, RunFault, AITypeOK
    <3> QED
      BY <3>1, <3>2, <3>3, <2>r, LogKeptByRun DEF Inserting
  <2>5. ASSUME NEW r \in Runs, EndEarly(r) PROVE LogInv'
    <3>1. run' = [run EXCEPT ![r] = Ended]
      BY <2>5 DEF EndEarly, RunGoes
    <3>2. /\ log' = log
          /\ aggregate' \in Nat /\ spent' \in Nat /\ unrecorded' \in Nat /\ runFaults' \in 0..MaxRunFaults
      BY <2>5, <2>t DEF EndEarly, AITypeOK
    <3> QED
      BY <3>1, <3>2, <2>e, LogKeptByRun DEF Inserting
  <2>6. ASSUME NEW r \in Runs, Allocate(r) PROVE LogInv'
    <3>1. NextSequence \in Nat \ {0} /\ \A e \in log : e.seq < NextSequence
      BY <2>t, NextIsLast
    <3> DEFINE v == [run[r] EXCEPT !.pc = IF @ = "call" THEN "insertCall" ELSE "insertResult", !.seq = NextSequence]
    <3>2. run[r].pc \in {"call", "result"} /\ run' = [run EXCEPT ![r] = v]
      BY <2>6, <2>t DEF Allocate, AITypeOK
    <3>3. /\ v \in Run /\ v.turn = run[r].turn /\ v.seq = NextSequence
          /\ v.pc = IF run[r].pc = "call" THEN "insertCall" ELSE "insertResult"
      BY <3>1, <2>r DEF Run
    <3> HIDE DEF v
    <3>4. /\ log' = log
          /\ aggregate' \in Nat /\ spent' \in Nat /\ unrecorded' \in Nat /\ runFaults' \in 0..MaxRunFaults
      BY <2>6, <2>t DEF Allocate, AITypeOK
    <3> QED
      BY <3>1, <3>2, <3>3, <3>4, <2>r, LogKeptByRun DEF Inserting
  <2>7. ASSUME NEW r \in Runs, InsertCall(r) PROVE LogInv'
    <3> DEFINE v == [run[r] EXCEPT !.pc = "result"]
    <3>1. run' = [run EXCEPT ![r] = v]
      BY <2>7 DEF InsertCall, RunGoes
    <3>2. v \in Run /\ v.pc = "result" /\ v.turn = run[r].turn
      BY <2>r DEF Run
    <3> HIDE DEF v
    <3>3. run[r].pc = "insertCall" /\ UNCHANGED <<aggregate, spent, unrecorded>>
      BY <2>7 DEF InsertCall
    <3>4. CASE /\ log' = log \cup {[seq |-> run[r].seq, run |-> r, turn |-> run[r].turn, kind |-> "use"]}
               /\ UNCHANGED runFaults
      BY <3>1, <3>2, <3>3, <3>4, LogKeptByInsert
    <3>5. CASE RunFault /\ UNCHANGED log
      <4>1. /\ aggregate' \in Nat /\ spent' \in Nat /\ unrecorded' \in Nat /\ runFaults' \in 0..MaxRunFaults
        BY <3>3, <3>5, <2>t, RunAssumption DEF RunFault, AITypeOK
      <4> QED
        BY <3>1, <3>2, <3>3, <3>5, <4>1, <2>r, LogKeptByRun DEF Inserting
    <3> QED
      BY <2>7, <3>4, <3>5 DEF InsertCall, InsertEvent
  <2>8. ASSUME NEW r \in Runs, InsertResult(r) PROVE LogInv'
    <3>1. run[r].pc = "insertResult" /\ UNCHANGED <<aggregate, spent, unrecorded>>
      BY <2>8 DEF InsertResult
    <3>2. PICK v \in Run :
              /\ run' = [run EXCEPT ![r] = v]
              /\ v.pc = "ended" \/ (v.pc = "turn" /\ v.turn = run[r].turn + 1)
      <4>1. CASE RunGoes(r, "ended")
        BY <4>1, <2>e DEF RunGoes
      <4>2. CASE run' = [run EXCEPT ![r].pc = "turn", ![r].turn = @ + 1, ![r].seq = 0]
        <5> DEFINE v == [run[r] EXCEPT !.pc = "turn", !.turn = @ + 1, !.seq = 0]
        <5>t. run[r].turn + 1 \in 1..(MaxTurns + 1)
          BY <2>r, <3>1
        <5>1. v \in Run
          BY <5>t, <2>r DEF Run
        <5>v. v.pc = "turn" /\ v.turn = run[r].turn + 1
          BY <2>r DEF Run
        <5>2. run' = [run EXCEPT ![r] = v]
          BY <4>2, <2>t DEF AITypeOK
        <5> QED
          BY <5>1, <5>2, <5>v
      <4> QED
        BY <2>8, <4>1, <4>2 DEF InsertResult
    <3>4. CASE /\ log' = log \cup {[seq |-> run[r].seq, run |-> r, turn |-> run[r].turn, kind |-> "result"]}
               /\ UNCHANGED runFaults
      BY <3>1, <3>2, <3>4, LogKeptByInsert
    <3>5. CASE RunFault /\ UNCHANGED log
      <4>1. /\ aggregate' \in Nat /\ spent' \in Nat /\ unrecorded' \in Nat /\ runFaults' \in 0..MaxRunFaults
        BY <3>1, <3>5, <2>t, RunAssumption DEF RunFault, AITypeOK
      <4> QED
        BY <3>1, <3>2, <3>5, <4>1, <2>r, LogKeptByRun DEF Inserting
    <3> QED
      BY <2>8, <3>4, <3>5 DEF InsertResult, InsertEvent
  <2> QED
    BY <2>1, <2>2, <2>3, <2>4, <2>5, <2>6, <2>7, <2>8 DEF AINext
<1> QED
  BY <1>1, <1>2, PTL DEF AISpec

\* The runs that were answered or ask no more, and those about to be answered.
Answered == {r \in Runs : run[r].pc \in {"usage", "ended"}}
Asking == {r \in Runs : run[r].pc = "query"}

\* Whatever is spent and not counted was asked by a run that asks no more before it is counted.
SpendInv ==
    /\ spent <= aggregate + unrecorded + Cardinality(Answered)
    /\ spent + 1 + Cardinality(Asking) <= LimitTokens + Cardinality(Runs) + unrecorded

(* Runs in two different places are at most all of them. *)
LEMMA RunsCount ==
  ASSUME NEW A \in SUBSET Runs, NEW B \in SUBSET Runs, A \cap B = {}
  PROVE  /\ IsFiniteSet(A) /\ IsFiniteSet(B)
         /\ Cardinality(A) \in Nat /\ Cardinality(B) \in Nat /\ Cardinality(Runs) \in Nat
         /\ Cardinality(A) + Cardinality(B) <= Cardinality(Runs)
<1>1. IsFiniteSet(A) /\ IsFiniteSet(B) /\ IsFiniteSet(A \cup B)
  BY RunAssumption, FS_Subset, FS_Union
<1>2. Cardinality(A) \in Nat /\ Cardinality(B) \in Nat /\ Cardinality(Runs) \in Nat
  BY <1>1, RunAssumption, FS_CardinalityType
<1>3. Cardinality(A \cup B) = Cardinality(A) + Cardinality(B)
  <2>1. Cardinality(A \cup B) = Cardinality(A) + Cardinality(B) - Cardinality(A \cap B)
    BY <1>1, FS_Union
  <2>2. Cardinality(A \cap B) = 0
    BY FS_EmptySet
  <2> QED
    BY <2>1, <2>2, <1>2
<1>4. Cardinality(A \cup B) <= Cardinality(Runs)
  BY RunAssumption, FS_Subset
<1> QED
  BY <1>1, <1>2, <1>3, <1>4

(* A set with an element put in or taken out. *)
LEMMA OneMoreOrLess ==
  ASSUME NEW S, IsFiniteSet(S), NEW r
  PROVE  /\ Cardinality(S \cup {r}) >= Cardinality(S)
         /\ Cardinality(S \ {r}) <= Cardinality(S)
         /\ Cardinality(S \ {r}) >= Cardinality(S) - 1
         /\ r \in S => Cardinality(S \ {r}) = Cardinality(S) - 1
         /\ r \notin S => S \ {r} = S /\ Cardinality(S \cup {r}) = Cardinality(S) + 1
<1>1. Cardinality(S) \in Nat
  BY FS_CardinalityType
<1>2. Cardinality(S \cup {r}) = IF r \in S THEN Cardinality(S) ELSE Cardinality(S) + 1
  BY FS_AddElement
<1>3. Cardinality(S \ {r}) = IF r \in S THEN Cardinality(S) - 1 ELSE Cardinality(S)
  BY FS_RemoveElement
<1>4. CASE r \in S
  BY <1>1, <1>2, <1>3, <1>4
<1>5. CASE r \notin S
  BY <1>1, <1>2, <1>3, <1>5
<1> QED
  BY <1>4, <1>5

(* The quota: what was asked at the same time and what could not be recorded, and no more. *)
LEMMA SpendHolds == AISpec => [](LogInv /\ SpendInv)
<1>1. LogInv /\ AIInit => SpendInv
  <2> SUFFICES ASSUME LogInv, AIInit PROVE SpendInv
    OBVIOUS
  <2>1. Asking = {} /\ Answered = {} /\ spent = 0 /\ aggregate = 0 /\ unrecorded = 0
    BY DEF AIInit, Asking, Answered
  <2>2. Cardinality({}) = 0
    BY FS_EmptySet
  <2>3. Cardinality(Runs) \in Nat
    BY RunAssumption, FS_CardinalityType
  <2> QED
    BY <2>1, <2>2, <2>3, RunAssumption DEF SpendInv
<1>2. LogInv /\ SpendInv /\ LogInv' /\ [AINext]_aiVars => SpendInv'
  <2> SUFFICES ASSUME LogInv, SpendInv, LogInv', [AINext]_aiVars PROVE SpendInv'
    OBVIOUS
  <2>t. /\ AITypeOK /\ LimitTokens \in Nat
        /\ run \in [Runs -> Run]
        /\ aggregate \in Nat /\ spent \in Nat /\ unrecorded \in Nat
    BY RunAssumption DEF LogInv, AITypeOK
  <2>c. /\ Answered \in SUBSET Runs /\ Asking \in SUBSET Runs /\ Answered \cap Asking = {}
        /\ Answered' \in SUBSET Runs /\ Asking' \in SUBSET Runs /\ Answered' \cap Asking' = {}
    BY DEF Answered, Asking
  <2>n. /\ Cardinality(Answered) \in Nat /\ Cardinality(Asking) \in Nat /\ Cardinality(Runs) \in Nat
        /\ Cardinality(Answered') \in Nat /\ Cardinality(Asking') \in Nat
        /\ Cardinality(Answered) + Cardinality(Asking) <= Cardinality(Runs)
        /\ Cardinality(Answered') + Cardinality(Asking') <= Cardinality(Runs)
        /\ IsFiniteSet(Answered) /\ IsFiniteSet(Asking)
    BY <2>c, RunsCount
  <2>s. SpendInv
    OBVIOUS
  <2>1. CASE UNCHANGED aiVars
    BY <2>1 DEF aiVars, SpendInv, Answered, Asking
  <2>m. ASSUME NEW r \in Runs, NEW v \in Run, run' = [run EXCEPT ![r] = v]
        PROVE  /\ Answered' = IF v.pc \in {"usage", "ended"} THEN Answered \cup {r} ELSE Answered \ {r}
               /\ Asking' = IF v.pc = "query" THEN Asking \cup {r} ELSE Asking \ {r}
               /\ r \in Answered <=> run[r].pc \in {"usage", "ended"}
               /\ r \in Asking <=> run[r].pc = "query"
    <3>1. /\ run' \in [Runs -> Run] /\ run'[r] = v
          /\ \A q \in Runs : q # r => run'[q] = run[q]
      BY <2>m, <2>t, RunMoves
    <3> QED
      BY <3>1 DEF Answered, Asking
  <2>a. ASSUME NEW S, IsFiniteSet(S), NEW r
        PROVE  /\ Cardinality(S \cup {r}) = IF r \in S THEN Cardinality(S) ELSE Cardinality(S) + 1
               /\ Cardinality(S \ {r}) = IF r \in S THEN Cardinality(S) - 1 ELSE Cardinality(S)
    BY <2>a, FS_AddElement, FS_RemoveElement
  <2>e. Ended \in Run /\ Ended.pc = "ended"
    BY RunAssumption DEF Ended, Run
  <2>2. ASSUME NEW r \in Runs, CheckQuota(r) PROVE SpendInv'
    <3>1. CASE run[r].turn > MaxTurns \/ aggregate >= LimitTokens
      <4>1. run' = [run EXCEPT ![r] = Ended] /\ UNCHANGED <<aggregate, spent, unrecorded>> /\ run[r].pc = "turn"
        BY <2>2, <3>1 DEF CheckQuota, RunGoes
      <4>2. Answered' = Answered \cup {r} /\ Asking' = Asking \ {r} /\ r \notin Answered /\ r \notin Asking
        BY <4>1, <2>m, <2>e
      <4>3. Cardinality(Answered') = Cardinality(Answered) + 1 /\ Cardinality(Asking') = Cardinality(Asking)
        BY <4>2, <2>a, <2>n
      <4> QED
        BY <4>1, <4>3, <2>n, <2>t, <2>s DEF SpendInv
    <3>2. CASE ~(run[r].turn > MaxTurns \/ aggregate >= LimitTokens)
      <4> DEFINE v == [run[r] EXCEPT !.pc = "query"]
      <4>1. run' = [run EXCEPT ![r] = v] /\ UNCHANGED <<aggregate, spent, unrecorded>> /\ run[r].pc = "turn"
        BY <2>2, <3>2 DEF CheckQuota, RunGoes
      <4>v. v \in Run /\ v.pc = "query"
        BY <2>t DEF Run
      <4> HIDE DEF v
      <4>2. Answered' = Answered \ {r} /\ Asking' = Asking \cup {r} /\ r \notin Answered /\ r \notin Asking
        BY <4>1, <4>v, <2>m
      <4>3. Cardinality(Answered') = Cardinality(Answered) /\ Cardinality(Asking') = Cardinality(Asking) + 1
        BY <4>2, <2>a, <2>n
      <4>4. aggregate + 1 <= LimitTokens
        BY <3>2, <2>t
      <4> QED
        BY <4>1, <4>3, <4>4, <2>n, <2>t, <2>s DEF SpendInv
    <3> QED
      BY <3>1, <3>2
  <2>3. ASSUME NEW r \in Runs, Query(r) PROVE SpendInv'
    <3>1. PICK tool \in BOOLEAN : run' = [run EXCEPT ![r].pc = "usage", ![r].tool = tool]
      BY <2>3 DEF Query
    <3> DEFINE v == [run[r] EXCEPT !.pc = "usage", !.tool = tool]
    <3>2. run' = [run EXCEPT ![r] = v]
      BY <3>1, <2>t
    <3>3. v \in Run /\ v.pc = "usage"
      BY <2>t DEF Run
    <3> HIDE DEF v
    <3>4. run[r].pc = "query" /\ spent' = spent + 1 /\ UNCHANGED <<aggregate, unrecorded>>
      BY <2>3 DEF Query
    <3>5. Answered' = Answered \cup {r} /\ Asking' = Asking \ {r} /\ r \notin Answered /\ r \in Asking
      BY <3>2, <3>3, <3>4, <2>m
    <3>6. Cardinality(Answered') = Cardinality(Answered) + 1 /\ Cardinality(Asking') = Cardinality(Asking) - 1
      BY <3>5, <2>a, <2>n
    <3> QED
      BY <3>4, <3>6, <2>n, <2>t, <2>s DEF SpendInv
  <2>4. ASSUME NEW r \in Runs, RecordUsage(r) PROVE SpendInv'
    <3> DEFINE v == IF run[r].tool THEN [run[r] EXCEPT !.pc = "call"] ELSE Ended
    <3>1. run' = [run EXCEPT ![r] = v] /\ run[r].pc = "usage" /\ spent' = spent
      BY <2>4 DEF RecordUsage, RunGoes
    <3>2. v \in Run /\ v.pc \in {"ended", "call"}
      BY <2>e, <2>t DEF Run
    <3> HIDE DEF v
    <3>3. /\ Answered' = Answered \cup {r} \/ Answered' = Answered \ {r}
          /\ Asking' = Asking \ {r} /\ r \in Answered /\ r \notin Asking
      BY <3>1, <3>2, <2>m
    <3>4. Cardinality(Answered') >= Cardinality(Answered) - 1 /\ Cardinality(Asking') = Cardinality(Asking)
      <4>1. CASE Answered' = Answered \cup {r}
        <5>1. Answered' = Answered /\ Asking' = Asking
          BY <3>3, <4>1
        <5> QED
          BY <5>1, <2>n
      <4>2. CASE Answered' = Answered \ {r}
        BY <3>3, <4>2, <2>n, OneMoreOrLess
      <4> QED
        BY <3>3, <4>1, <4>2
    <3>5. \/ aggregate' = aggregate + 1 /\ unrecorded' = unrecorded
          \/ aggregate' = aggregate /\ unrecorded' = unrecorded + 1
      BY <2>4 DEF RecordUsage
    <3> QED
      BY <3>1, <3>4, <3>5, <2>n, <2>t, <2>s DEF SpendInv
  <2>q. ASSUME NEW r \in Runs, NEW v \in Run, run' = [run EXCEPT ![r] = v], UNCHANGED <<aggregate, spent, unrecorded>>,
               \/ v.pc = "ended"
               \/ v.pc \in {"insertCall", "insertResult", "result", "turn"} /\ run[r].pc \notin {"usage", "ended", "query"}
        PROVE SpendInv'
    <3>0. /\ Answered' = IF v.pc \in {"usage", "ended"} THEN Answered \cup {r} ELSE Answered \ {r}
          /\ Asking' = IF v.pc = "query" THEN Asking \cup {r} ELSE Asking \ {r}
          /\ r \in Answered <=> run[r].pc \in {"usage", "ended"}
      BY <2>q, <2>m
    <3>1. /\ Answered' = Answered \cup {r} \/ (Answered' = Answered \ {r} /\ r \notin Answered)
          /\ Asking' = Asking \ {r}
      BY <2>q, <3>0
    <3>2. Cardinality(Answered') >= Cardinality(Answered)
      <4>1. CASE Answered' = Answered \cup {r}
        BY <4>1, <2>n, OneMoreOrLess
      <4>2. CASE Answered' = Answered
        BY <4>2, <2>n
      <4> QED
        BY <3>1, <4>1, <4>2
    <3>3. Cardinality(Asking') <= Cardinality(Asking)
      BY <3>1, <2>n, OneMoreOrLess
    <3> QED
      BY <2>q, <3>2, <3>3, <2>n, <2>t, <2>s DEF SpendInv
  <2>5. ASSUME NEW r \in Runs, EndEarly(r) PROVE SpendInv'
    BY <2>5, <2>q, <2>e DEF EndEarly, RunGoes
  <2>6. ASSUME NEW r \in Runs, Allocate(r) PROVE SpendInv'
    <3>1. NextSequence \in Nat
      BY <2>t, NextIsLast DEF LogInv
    <3> DEFINE v == [run[r] EXCEPT !.pc = IF @ = "call" THEN "insertCall" ELSE "insertResult", !.seq = NextSequence]
    <3>2. /\ run[r].pc \in {"call", "result"} /\ run' = [run EXCEPT ![r] = v]
          /\ UNCHANGED <<aggregate, spent, unrecorded>>
      BY <2>6, <2>t DEF Allocate
    <3>3. v \in Run /\ v.pc \in {"insertCall", "insertResult"}
      BY <3>1, <2>t DEF Run
    <3> HIDE DEF v
    <3> QED
      BY <3>2, <3>3, <2>q
  <2>7. ASSUME NEW r \in Runs, InsertCall(r) PROVE SpendInv'
    <3> DEFINE v == [run[r] EXCEPT !.pc = "result"]
    <3>1. run' = [run EXCEPT ![r] = v] /\ run[r].pc = "insertCall" /\ UNCHANGED <<aggregate, spent, unrecorded>>
      BY <2>7 DEF InsertCall, RunGoes
    <3>2. v \in Run /\ v.pc = "result"
      BY <2>t DEF Run
    <3> HIDE DEF v
    <3> QED
      BY <3>1, <3>2, <2>q
  <2>8. ASSUME NEW r \in Runs, InsertResult(r) PROVE SpendInv'
    <3>1. /\ run[r].pc = "insertResult" /\ UNCHANGED <<aggregate, spent, unrecorded>>
          /\ run'[r].pc \in {"ended", "turn"} /\ run'[r] \in Run /\ run' = [run EXCEPT ![r] = run'[r]]
      <4>1. run'[r] \in Run
        BY DEF LogInv, AITypeOK
      <4>2. CASE RunGoes(r, "ended")
        BY <2>8, <4>1, <4>2, <2>t, <2>e DEF InsertResult, RunGoes
      <4>3. CASE run' = [run EXCEPT ![r].pc = "turn", ![r].turn = @ + 1, ![r].seq = 0]
        BY <2>8, <4>1, <4>3, <2>t DEF InsertResult, Run
      <4> QED
        BY <2>8, <4>2, <4>3 DEF InsertResult
    <3> QED
      BY <3>1, <2>q
  <2> QED
    BY <2>1, <2>2, <2>3, <2>4, <2>5, <2>6, <2>7, <2>8 DEF AINext
<1> QED
  BY <1>1, <1>2, LogHolds, PTL DEF AISpec

(* What is spent stays within the limit and one query of every run that asks. *)
LEMMA SpendIsBounded ==
  ASSUME LogInv, SpendInv
  PROVE  SpendBounded
<1>1. Asking \in SUBSET Runs /\ Asking \cap {} = {}
  BY DEF Asking
<1>2. Cardinality(Asking) \in Nat /\ Cardinality(Runs) \in Nat
  BY <1>1, RunsCount
<1> QED
  BY <1>2, RunAssumption DEF SpendInv, SpendBounded, LogInv, AITypeOK

\* The order of the replay as a relation.
Replayed == {p \in log \X log : Precedes(p[1], p[2])}

(* The replay is in a strict total order. *)
LEMMA ReplayOrder ==
  ASSUME LogInv
  PROVE  /\ Orders(Replayed, log)
         /\ \A e, f \in log : <<e, f>> \in Replayed <=> Precedes(e, f)
<1>1. \A e \in log : e.seq \in Nat /\ e.run \in Nat
  BY RunAssumption DEF LogInv, AITypeOK, Events
<1>2. \A e, f \in log : <<e, f>> \in Replayed <=> Precedes(e, f)
  BY DEF Replayed
<1>3. \A e \in log : ~Precedes(e, e)
  BY <1>1 DEF Precedes
<1>4. \A e, f, g \in log : Precedes(e, f) /\ Precedes(f, g) => Precedes(e, g)
  BY <1>1 DEF Precedes
<1>5. ASSUME NEW e \in log, NEW f \in log, e # f PROVE Precedes(e, f) \/ Precedes(f, e)
  <2>1. ~(e.run = f.run /\ e.seq = f.seq)
    BY <1>5 DEF LogInv, LoggedInOrder
  <2> QED
    BY <2>1, <1>1 DEF Precedes
<1> QED
  BY <1>2, <1>3, <1>4, <1>5 DEF Orders

(* The replay shows every event once, in that order. *)
LEMMA MessagesInOrder ==
  ASSUME LogInv
  PROVE  LET messages == BuildModelVisibleMessages  N == Cardinality(log) IN
         /\ N \in Nat
         /\ \A i \in 1..N : messages[i] \in log
         /\ \A e \in log : \E i \in 1..N : messages[i] = e
         /\ \A i, j \in 1..N : i < j => Precedes(messages[i], messages[j])
         /\ \A i, j \in 1..N : Precedes(messages[i], messages[j]) => i < j
<1> DEFINE messages == BuildModelVisibleMessages
           N == Cardinality(log)
           place == Place(Replayed, log)
<1>1. N \in Nat
  BY FS_CardinalityType DEF LogInv
<1>2. Orders(Replayed, log) /\ \A e, f \in log : <<e, f>> \in Replayed <=> Precedes(e, f)
  BY ReplayOrder
<1>3. /\ place \in [log -> 0..(N - 1)]
      /\ \A e, f \in log : <<e, f>> \in Replayed <=> place[e] < place[f]
      /\ \A k \in 0..(N - 1) : \E e \in log : place[e] = k
  BY <1>2, Places DEF LogInv
<1>4. ASSUME NEW e \in log PROVE Cardinality({f \in log : Precedes(f, e)}) = place[e]
  <2>1. {f \in log : Precedes(f, e)} = {f \in log : <<f, e>> \in Replayed}
    BY <1>2
  <2>2. place[e] = Cardinality({f \in log : <<f, e>> \in Replayed})
    BY DEF Place
  <2> QED
    BY <2>1, <2>2
<1> HIDE DEF place
<1>5. ASSUME NEW i \in 1..N
      PROVE  messages[i] \in log /\ place[messages[i]] = i - 1
  <2> DEFINE At(e) == Cardinality({f \in log : Precedes(f, e)}) = i - 1
  <2>1. messages[i] = CHOOSE e \in log : At(e)
    BY DEF BuildModelVisibleMessages
  <2>2. i - 1 \in 0..(N - 1)
    BY <1>1
  <2>3. \E e \in log : At(e)
    BY <2>2, <1>3, <1>4
  <2> HIDE DEF At
  <2>4. messages[i] \in log /\ At(messages[i])
    BY <2>1, <2>3, Zenon
  <2> QED
    BY <2>4, <1>4 DEF At
<1>6. /\ \A e \in log : \E i \in 1..N : messages[i] = e
      /\ \A i, j \in 1..N : i < j <=> <<messages[i], messages[j]>> \in Replayed
  <2> HIDE DEF messages
  <2> QED
    BY <1>2, <1>5, InPlace DEF LogInv, place
<1> HIDE DEF messages, N
<1> QED
  BY <1>1, <1>2, <1>5, <1>6 DEF messages, N

(* The loop has a state after each message: that of one message less, and the next message. *)
LEMMA LoopUnfolds ==
  ASSUME LogInv
  PROVE  /\ PairedAfter[0] = [open |-> {}, blocks |-> <<>>]
         /\ \A n \in 1..Cardinality(log) :
               PairedAfter[n] = Pair(PairedAfter[n - 1], BuildModelVisibleMessages[n])
<1> DEFINE m == BuildModelVisibleMessages
           N == Cardinality(log)
           start == [open |-> {}, blocks |-> <<>>]
           Loop(f, k) == f = [n \in 0..k |-> IF n = 0 THEN start ELSE Pair(f[n - 1], m[n])]
           Undefined == {k \in 0..N : ~\E f : Loop(f, k)}
<1>1. N \in Nat
  BY FS_CardinalityType DEF LogInv
<1>2. PairedAfter = CHOOSE f : Loop(f, N)
  BY DEF PairedAfter
<1> HIDE DEF m, N, start
<1>3. Undefined = {}
  <2> SUFFICES ASSUME Undefined # {} PROVE FALSE
    OBVIOUS
  <2>1. Undefined \in SUBSET Nat
    BY <1>1
  <2>2. PICK k \in Undefined : \A l \in Undefined : k <= l
    BY <2>1, LeastNumber
  <2>3. CASE k = 0
    <3> DEFINE f == [n \in 0..0 |-> start]
    <3>1. Loop(f, 0)
      OBVIOUS
    <3> QED
      BY <3>1, <2>2, <2>3
  <2>4. CASE k # 0
    <3>1. k \in 1..N /\ k - 1 \in 0..N /\ k - 1 \notin Undefined
      BY <2>2, <2>4, <1>1
    <3>2. PICK f : Loop(f, k - 1)
      BY <3>1
    <3> DEFINE g == [n \in 0..k |-> IF n = k THEN Pair(f[k - 1], m[k]) ELSE f[n]]
    <3>3. ASSUME NEW n \in 0..k PROVE g[n] = IF n = 0 THEN start ELSE Pair(g[n - 1], m[n])
      <4>1. CASE n = k
        BY <4>1, <3>1
      <4>2. CASE n # k
        <5>1. n \in 0..(k - 1) /\ g[n] = f[n]
          BY <4>2, <3>1
        <5>2. f[n] = IF n = 0 THEN start ELSE Pair(f[n - 1], m[n])
          BY <5>1, <3>2
        <5>3. n # 0 => g[n - 1] = f[n - 1]
          BY <5>1, <3>1
        <5> QED
          BY <5>1, <5>2, <5>3
      <4> QED
        BY <4>1, <4>2
    <3>4. Loop(g, k)
      BY <3>3
    <3> QED
      BY <3>4, <2>2
  <2> QED
    BY <2>3, <2>4
<1>4. \E f : Loop(f, N)
  BY <1>1, <1>3
<1>5. Loop(PairedAfter, N)
  BY <1>2, <1>4, Zenon
<1>6. ASSUME NEW n \in 0..N
      PROVE  PairedAfter[n] = IF n = 0 THEN start ELSE Pair(PairedAfter[n - 1], m[n])
  BY <1>5
<1>7. PairedAfter[0] = start /\ \A n \in 1..N : PairedAfter[n] = Pair(PairedAfter[n - 1], m[n])
  BY <1>1, <1>6
<1> QED
  BY <1>7 DEF m, N, start

\* A tool call, or the result of one that is in the log.
Known(e) == e.kind = "use" \/ \E f \in log : f.kind = "use" /\ Use(f) = Use(e)

Sorted(blocks) == \A i, j \in 1..Len(blocks) : i < j => Precedes(blocks[i], blocks[j])

Shows(blocks, e) == \E i \in 1..Len(blocks) : blocks[i] = e

Answers(f, e) == f.kind = "result" /\ Use(f) = Use(e)

\* What the loop has made of the events S, the first of the log.
Paired(acc, S) ==
    /\ acc.blocks \in Seq(log)
    /\ Sorted(acc.blocks)
    /\ \A e \in log : Shows(acc.blocks, e) <=> e \in S /\ Known(e)
    /\ acc.open = {Use(e) : e \in {f \in S : f.kind = "use" /\ \A g \in S : ~Answers(g, f)}}

(* A call is in the log once, its result at most once, and after it. *)
LEMMA SameUse ==
  ASSUME LogInv, NEW e \in log, NEW f \in log, Use(e) = Use(f)
  PROVE  /\ e.kind = f.kind => e = f
         /\ e.kind \in {"use", "result"}
         /\ e.kind = "use" /\ f.kind = "result" => Precedes(e, f)
<1>1. e.run = f.run /\ e.turn = f.turn
  BY DEF Use
<1>2. e.seq \in Nat /\ f.seq \in Nat /\ e.kind \in {"use", "result"}
  BY DEF LogInv, AITypeOK, Events
<1> QED
  BY <1>1, <1>2 DEF LogInv, LoggedInOrder, Precedes

(* An event that is after all of the messages goes to their end. *)
LEMMA AppendLast ==
  ASSUME NEW blocks \in Seq(log), Sorted(blocks), NEW e \in log,
         \A i \in 1..Len(blocks) : Precedes(blocks[i], e)
  PROVE  /\ Append(blocks, e) \in Seq(log) /\ Sorted(Append(blocks, e))
         /\ \A f \in log : Shows(Append(blocks, e), f) <=> Shows(blocks, f) \/ f = e
<1> DEFINE more == Append(blocks, e)
           n == Len(blocks)
<1>1. /\ more \in Seq(log) /\ n \in Nat /\ Len(more) = n + 1
      /\ \A i \in 1..n : more[i] = blocks[i]
      /\ more[n + 1] = e
  OBVIOUS
<1> HIDE DEF more
<1>2. Sorted(more)
  BY <1>1 DEF Sorted
<1>3. ASSUME NEW f \in log PROVE Shows(more, f) <=> Shows(blocks, f) \/ f = e
  BY <1>1 DEF Shows
<1> QED
  BY <1>1, <1>2, <1>3 DEF more

(* One more event in the loop: a result is kept just when its tool call has been logged, because *)
(* that came before and has not been answered.                                                   *)
LEMMA PairKeeps ==
  ASSUME LogInv, NEW S \in SUBSET log, NEW e \in log, e \notin S,
         \A f \in S : Precedes(f, e), \A f \in log : Precedes(f, e) => f \in S,
         NEW acc, Paired(acc, S)
  PROVE  Paired(Pair(acc, e), S \cup {e})
<1> DEFINE Open(T) == {f \in T : f.kind = "use" /\ \A g \in T : ~Answers(g, f)}
<1>1. /\ acc.blocks \in Seq(log) /\ Sorted(acc.blocks)
      /\ \A f \in log : Shows(acc.blocks, f) <=> f \in S /\ Known(f)
      /\ \A u : u \in acc.open <=> \E f \in Open(S) : Use(f) = u
  BY DEF Paired
<1>2. \A i \in 1..Len(acc.blocks) : acc.blocks[i] \in log /\ Precedes(acc.blocks[i], e)
  BY <1>1 DEF Shows
<1>3. /\ Append(acc.blocks, e) \in Seq(log) /\ Sorted(Append(acc.blocks, e))
      /\ \A f \in log : Shows(Append(acc.blocks, e), f) <=> Shows(acc.blocks, f) \/ f = e
  BY <1>1, <1>2, AppendLast
<1>4. CASE e.kind = "use"
  <2>1. Pair(acc, e).open = acc.open \cup {Use(e)} /\ Pair(acc, e).blocks = Append(acc.blocks, e)
    BY <1>4 DEF Pair
  <2>2. Known(e)
    BY <1>4 DEF Known
  <2>3. \A g \in S : ~Answers(g, e)
    <3> SUFFICES ASSUME NEW g \in S, Answers(g, e) PROVE FALSE
      OBVIOUS
    <3>1. Precedes(e, g)
      BY <1>4, SameUse DEF Answers
    <3>2. Precedes(g, e)
      OBVIOUS
    <3>3. e.seq \in Nat /\ g.seq \in Nat /\ e.run \in Nat /\ g.run \in Nat
      BY RunAssumption DEF LogInv, AITypeOK, Events
    <3> QED
      BY <3>1, <3>2, <3>3 DEF Precedes
  <2>4. \A f \in S \cup {e} : ~Answers(e, f)
    BY <1>4 DEF Answers
  <2>5. Open(S \cup {e}) = Open(S) \cup {e}
    BY <1>4, <2>3, <2>4
  <2>6. acc.open \cup {Use(e)} = {Use(f) : f \in Open(S \cup {e})}
    BY <1>1, <2>5
  <2> QED
    BY <1>1, <1>3, <2>1, <2>2, <2>6 DEF Paired
<1>5. CASE e.kind # "use"
  <2>1. e.kind = "result"
    BY <1>5 DEF LogInv, AITypeOK, Events
  <2>2. /\ Pair(acc, e).open = acc.open \ {Use(e)}
        /\ Pair(acc, e).blocks = IF Use(e) \in acc.open THEN Append(acc.blocks, e) ELSE acc.blocks
    BY <1>5 DEF Pair
  <2>3. Use(e) \in acc.open <=> Known(e)
    <3>1. ASSUME Use(e) \in acc.open PROVE Known(e)
      BY <3>1, <1>1 DEF Known
    <3>2. ASSUME Known(e) PROVE Use(e) \in acc.open
      <4>1. PICK f \in log : f.kind = "use" /\ Use(f) = Use(e)
        BY <3>2, <1>5 DEF Known
      <4>2. f \in S
        BY <4>1, <2>1, SameUse
      <4>3. \A g \in S : ~Answers(g, f)
        BY <4>1, <2>1, SameUse DEF Answers
      <4> QED
        BY <4>1, <4>2, <4>3, <1>1
    <3> QED
      BY <3>1, <3>2
  <2>4. acc.open \ {Use(e)} = {Use(f) : f \in Open(S \cup {e})}
    <3>1. ASSUME NEW f \in Open(S \cup {e}) PROVE f \in Open(S) /\ Use(f) # Use(e)
      BY <3>1, <1>5, <2>1 DEF Answers
    <3>2. ASSUME NEW f \in Open(S), Use(f) # Use(e) PROVE f \in Open(S \cup {e})
      BY <3>2 DEF Answers
    <3> HIDE DEF Open
    <3>3. \A u : u \in acc.open \ {Use(e)} <=> \E f \in Open(S \cup {e}) : Use(f) = u
      BY <3>1, <3>2, <1>1
    <3> QED
      BY <3>3
  <2>5. CASE Known(e)
    BY <2>2, <2>3, <2>4, <2>5, <1>1, <1>3 DEF Paired
  <2>6. CASE ~Known(e)
    BY <2>2, <2>3, <2>4, <2>6, <1>1 DEF Paired
  <2> QED
    BY <2>5, <2>6
<1> QED
  BY <1>4, <1>5

(* When the loop has ended it has paired the whole log. *)
LEMMA LoopPairs ==
  ASSUME LogInv
  PROVE  Paired(PairedAfter[Cardinality(log)], log)
<1> DEFINE m == BuildModelVisibleMessages
           N == Cardinality(log)
           Seen(n) == {m[i] : i \in 1..n}
           Wrong == {n \in 0..N : ~Paired(PairedAfter[n], Seen(n))}
<1>1. /\ N \in Nat
      /\ \A i \in 1..N : m[i] \in log
      /\ \A e \in log : \E i \in 1..N : m[i] = e
      /\ \A i, j \in 1..N : i < j => Precedes(m[i], m[j])
      /\ \A i, j \in 1..N : Precedes(m[i], m[j]) => i < j
  BY MessagesInOrder
<1>2. /\ PairedAfter[0] = [open |-> {}, blocks |-> <<>>]
      /\ \A n \in 1..N : PairedAfter[n] = Pair(PairedAfter[n - 1], m[n])
  BY LoopUnfolds
<1> HIDE DEF m, N
<1>3. Wrong = {}
  <2> SUFFICES ASSUME Wrong # {} PROVE FALSE
    OBVIOUS
  <2>1. Wrong \in SUBSET Nat
    BY <1>1
  <2>2. PICK n \in Wrong : \A l \in Wrong : n <= l
    BY <2>1, LeastNumber
  <2>3. CASE n = 0
    <3>1. Seen(0) = {}
      OBVIOUS
    <3>2. Paired([open |-> {}, blocks |-> <<>>], {})
      BY DEF Paired, Sorted, Shows
    <3> QED
      BY <2>2, <2>3, <3>1, <3>2, <1>2
  <2>4. CASE n # 0
    <3>1. n \in 1..N /\ n - 1 \in 0..N /\ n - 1 \notin Wrong
      BY <2>2, <2>4, <1>1
    <3>2. Paired(PairedAfter[n - 1], Seen(n - 1))
      BY <3>1
    <3>3. Seen(n) = Seen(n - 1) \cup {m[n]}
      BY <3>1
    <3>4. Seen(n - 1) \in SUBSET log /\ m[n] \in log
      BY <3>1, <1>1
    <3>5. \A f \in Seen(n - 1) : Precedes(f, m[n])
      BY <3>1, <1>1
    <3>6. ~Precedes(m[n], m[n])
      BY <3>1, <1>1
    <3>7. m[n] \notin Seen(n - 1)
      BY <3>5, <3>6
    <3>8. ASSUME NEW f \in log, Precedes(f, m[n]) PROVE f \in Seen(n - 1)
      <4>1. PICK i \in 1..N : m[i] = f
        BY <1>1
      <4>2. i < n
        BY <3>1, <3>8, <4>1, <1>1
      <4> QED
        BY <3>1, <4>1, <4>2
    <3> HIDE DEF Seen
    <3>9. Paired(Pair(PairedAfter[n - 1], m[n]), Seen(n - 1) \cup {m[n]})
      BY <3>2, <3>4, <3>5, <3>7, <3>8, PairKeeps
    <3>10. Paired(PairedAfter[n], Seen(n))
      BY <3>1, <3>3, <3>9, <1>2
    <3> QED
      BY <2>2, <3>10
  <2> QED
    BY <2>3, <2>4
<1>4. Seen(N) = log
  <2>1. Seen(N) \subseteq log
    BY <1>1
  <2>2. log \subseteq Seen(N)
    BY <1>1
  <2> QED
    BY <2>1, <2>2
<1>5. N \in 0..N
  BY <1>1
<1>6. Paired(PairedAfter[N], Seen(N))
  BY <1>3, <1>5
<1> HIDE DEF Seen
<1>7. Paired(PairedAfter[N], log)
  BY <1>4, <1>6
<1> QED
  BY <1>7 DEF N

(* A sequence of the elements of a finite set has each of them once. *)
LEMMA SequenceOfSet ==
  ASSUME NEW S, IsFiniteSet(S)
  PROVE  /\ SetToSeq(S) \in Seq(S) /\ Len(SetToSeq(S)) \in Nat
         /\ \A i, j \in 1..Len(SetToSeq(S)) : SetToSeq(S)[i] = SetToSeq(S)[j] => i = j
         /\ \A x \in S : \E i \in 1..Len(SetToSeq(S)) : SetToSeq(S)[i] = x
<1> DEFINE n == Cardinality(S)
           s == SetToSeq(S)
<1>1. n \in Nat /\ ExistsBijection(1..n, S)
  BY FS_CardinalityType
<1>2. \E f \in [1..n -> S] : IsInjective(f)
  BY <1>1 DEF ExistsBijection, Bijection, Injection
<1>3. s \in [1..n -> S] /\ IsInjective(s)
  BY <1>2, Zenon DEF SetToSeq
<1> HIDE DEF s
<1>4. s \in Seq(S) /\ Len(s) = n
  BY <1>1, <1>3
<1>5. IsFiniteSet(1..n) /\ Cardinality(1..n) = n
  <2>1. Cardinality(1..n) = IF 1 > n THEN 0 ELSE n - 1 + 1
    BY <1>1, FS_Interval
  <2> QED
    BY <2>1, <1>1, FS_Interval
<1>6. s \in Injection(1..n, S)
  BY <1>3 DEF Injection
<1>7. s \in Surjection(1..n, S)
  <2> HIDE DEF n
  <2>1. Cardinality(1..n) = Cardinality(S)
    BY <1>5 DEF n
  <2> QED
    BY <2>1, <1>6, FS_Injection
<1>8. \A i, j \in 1..n : s[i] = s[j] => i = j
  BY <1>3 DEF IsInjective
<1>9. \A x \in S : \E i \in 1..n : s[i] = x
  BY <1>7 DEF Surjection
<1> QED
  BY <1>1, <1>4, <1>8, <1>9 DEF s

Unanswered == {e \in log : e.kind = "use" /\ \A f \in log : ~Answers(f, e)}

(* What the model is shown: the paired events in order, then a result for every tool call left. *)
LEMMA BlocksShown ==
  ASSUME LogInv, NEW blocks, blocks = ensureToolResultPairing
  PROVE  \E p, n \in Nat :
            /\ p <= n /\ Len(blocks) = n /\ DOMAIN blocks = 1..n
            /\ \A i \in 1..p : blocks[i] \in log /\ Known(blocks[i])
            /\ \A i, j \in 1..p : i < j => Precedes(blocks[i], blocks[j])
            /\ \A e \in log : Known(e) => \E i \in 1..p : blocks[i] = e
            /\ \A i \in (p + 1)..n : \E e \in Unanswered : blocks[i] = Missing(Use(e))
            /\ \A e \in Unanswered : \E i \in (p + 1)..n : blocks[i] = Missing(Use(e))
            /\ \A i, j \in (p + 1)..n : blocks[i] = blocks[j] => i = j
<1> DEFINE paired == PairedAfter[Cardinality(log)]
           M == {Missing(u) : u \in paired.open}
           of == [e \in Unanswered |-> Missing(Use(e))]
           s == SetToSeq(M)
           T == log \cup M
           p == Len(paired.blocks)
           n == p + Len(s)
<1>1. Paired(paired, log)
  BY LoopPairs
<1> HIDE DEF paired
<1>2. M = {Missing(Use(e)) : e \in Unanswered}
  BY <1>1 DEF Paired, Unanswered
<1> HIDE DEF M
<1>3. IsFiniteSet(M)
  <2>1. IsFiniteSet(Unanswered)
    BY FS_Subset DEF LogInv, Unanswered
  <2>2. of \in Surjection(Unanswered, M)
    BY <1>2 DEF Surjection
  <2> QED
    BY <2>1, <2>2, FS_Surjection
<1>4. /\ s \in Seq(M) /\ Len(s) \in Nat
      /\ \A i, j \in 1..Len(s) : s[i] = s[j] => i = j
      /\ \A x \in M : \E i \in 1..Len(s) : s[i] = x
  BY <1>3, SequenceOfSet
<1>5. blocks = paired.blocks \o s
  BY DEF ensureToolResultPairing, paired, M
<1> HIDE DEF s
<1>6. paired.blocks \in Seq(log) /\ p \in Nat /\ n \in Nat /\ p <= n
  BY <1>1, <1>4 DEF Paired
<1>7. paired.blocks \in Seq(T) /\ s \in Seq(T)
  BY <1>4, <1>6
<1> HIDE DEF T
<1>8. /\ Len(blocks) = n /\ DOMAIN blocks = 1..n
      /\ \A i \in 1..n : blocks[i] = IF i <= p THEN paired.blocks[i] ELSE s[i - p]
  BY <1>4, <1>5, <1>6, <1>7, ConcatProperties, LenProperties
<1>9. /\ \A i \in 1..p : blocks[i] = paired.blocks[i]
      /\ \A i \in (p + 1)..n : blocks[i] = s[i - p] /\ i - p \in 1..Len(s)
      /\ \A k \in 1..Len(s) : blocks[k + p] = s[k] /\ k + p \in (p + 1)..n
  <2> DEFINE l == Len(s)
  <2>1. l \in Nat /\ p \in Nat /\ n = p + l
    BY <1>4, <1>6
  <2>2. \A i \in 1..n : blocks[i] = IF i <= p THEN paired.blocks[i] ELSE s[i - p]
    BY <1>8
  <2> HIDE DEF l, n, p
  <2>3. \A i \in 1..p : i \in 1..n /\ i <= p
    BY <2>1
  <2>4. \A i \in (p + 1)..n : i \in 1..n /\ ~(i <= p) /\ i - p \in 1..l
    BY <2>1
  <2>5. ASSUME NEW k \in 1..l PROVE blocks[k + p] = s[k] /\ k + p \in (p + 1)..n
    <3>1. k + p \in (p + 1)..n /\ (k + p) - p = k
      BY <2>1
    <3> QED
      BY <3>1, <2>2, <2>4
  <2> QED
    BY <2>2, <2>3, <2>4, <2>5 DEF l
<1>10. \A i \in 1..p : blocks[i] \in log /\ Known(blocks[i])
  BY <1>1, <1>6, <1>9 DEF Paired, Shows
<1>11. \A i, j \in 1..p : i < j => Precedes(blocks[i], blocks[j])
  BY <1>1, <1>6, <1>9 DEF Paired, Sorted
<1>12. \A e \in log : Known(e) => \E i \in 1..p : blocks[i] = e
  BY <1>1, <1>6, <1>9 DEF Paired, Shows
<1>13. \A i \in (p + 1)..n : \E e \in Unanswered : blocks[i] = Missing(Use(e))
  <2> SUFFICES ASSUME NEW i \in (p + 1)..n PROVE blocks[i] \in M
    BY <1>2
  <2> DEFINE k == i - p
  <2>1. k \in 1..Len(s) /\ blocks[i] = s[k]
    BY <1>9
  <2> HIDE DEF k
  <2>2. s[k] \in M
    BY <2>1, <1>4
  <2> QED
    BY <2>1, <2>2
<1>14. \A e \in Unanswered : \E i \in (p + 1)..n : blocks[i] = Missing(Use(e))
  <2> SUFFICES ASSUME NEW x \in M PROVE \E i \in (p + 1)..n : blocks[i] = x
    BY <1>2
  <2>1. PICK k \in 1..Len(s) : s[k] = x
    BY <1>4
  <2> QED
    BY <2>1, <1>9
<1>15. \A i, j \in (p + 1)..n : blocks[i] = blocks[j] => i = j
  <2> SUFFICES ASSUME NEW i \in (p + 1)..n, NEW j \in (p + 1)..n, blocks[i] = blocks[j] PROVE i = j
    OBVIOUS
  <2> DEFINE k == i - p
             l == j - p
  <2>1. k \in 1..Len(s) /\ l \in 1..Len(s) /\ s[k] = s[l]
    BY <1>9
  <2> HIDE DEF k, l
  <2>2. k = l
    BY <2>1, <1>4
  <2> QED
    BY <2>2, <1>6 DEF k, l
<1> QED
  BY <1>6, <1>8, <1>10, <1>11, <1>12, <1>13, <1>14, <1>15

(* Every tool call has its one result, after it; and every result its call: there are as many. *)
LEMMA ReplayPairs ==
  ASSUME LogInv
  PROVE  ResultsPaired
<1> DEFINE blocks == ensureToolResultPairing
           uses == {i \in DOMAIN blocks : blocks[i].kind = "use"}
           ResultsOf(i) == {j \in DOMAIN blocks \ uses : Use(blocks[j]) = Use(blocks[i])}
<1>1. PICK p, n \in Nat :
         /\ p <= n /\ Len(blocks) = n /\ DOMAIN blocks = 1..n
         /\ \A i \in 1..p : blocks[i] \in log /\ Known(blocks[i])
         /\ \A i, j \in 1..p : i < j => Precedes(blocks[i], blocks[j])
         /\ \A e \in log : Known(e) => \E i \in 1..p : blocks[i] = e
         /\ \A i \in (p + 1)..n : \E e \in Unanswered : blocks[i] = Missing(Use(e))
         /\ \A e \in Unanswered : \E i \in (p + 1)..n : blocks[i] = Missing(Use(e))
         /\ \A i, j \in (p + 1)..n : blocks[i] = blocks[j] => i = j
  BY BlocksShown
<1>g. ResultsPaired <=>
        /\ 2 * Cardinality(uses) = Len(blocks)
        /\ \A i \in uses : \E j \in DOMAIN blocks :
              /\ ResultsOf(i) = {j} /\ i < j
              /\ blocks[j].seq = 0 => ~\E e \in log : e.kind = "result" /\ Use(e) = Use(blocks[i])
  BY DEF ResultsPaired
<1> HIDE DEF blocks
<1>2. \A e \in log : e.seq \in Nat \ {0} /\ e.run \in Nat /\ e.kind \in {"use", "result"}
  BY RunAssumption DEF LogInv, AITypeOK, Events
<1>3. \A e : Missing(Use(e)).kind = "result" /\ Use(Missing(Use(e))) = Use(e)
  BY DEF Missing, Use
<1>4. \A e \in Unanswered : e \in log /\ e.kind = "use" /\ Known(e)
  BY DEF Unanswered, Known
<1>5. \A i, j \in 1..p : blocks[i] = blocks[j] => i = j
  BY <1>1, <1>2 DEF Precedes
<1>6. \A i \in 1..n : i \in 1..p \/ i \in (p + 1)..n
  BY <1>1
<1>7. /\ uses \subseteq 1..p
      /\ \A i \in uses : blocks[i] \in log /\ blocks[i].kind = "use"
      /\ \A i \in 1..p : i \notin uses => blocks[i].kind = "result"
      /\ \A i \in (p + 1)..n : i \notin uses /\ i \in 1..n
      /\ \A i \in 1..p : i \in 1..n
  BY <1>1, <1>2, <1>3, <1>6
<1>8. ASSUME NEW i \in uses
      PROVE  \E j \in 1..n :
                /\ ResultsOf(i) = {j} /\ i < j
                /\ blocks[j].seq = 0 => ~\E e \in log : e.kind = "result" /\ Use(e) = Use(blocks[i])
  <2> DEFINE e == blocks[i]
  <2>1. e \in log /\ e.kind = "use" /\ i \in 1..p
    BY <1>7
  <2>2. CASE \E f \in log : Answers(f, e)
    <3>1. PICK f \in log : f.kind = "result" /\ Use(f) = Use(e)
      BY <2>2 DEF Answers
    <3>2. Known(f)
      BY <2>1, <3>1 DEF Known
    <3>3. PICK j \in 1..p : blocks[j] = f
      BY <1>1, <3>2
    <3>4. i < j
      <4>1. Precedes(e, f)
        BY <2>1, <3>1, SameUse
      <4>2. i # j
        BY <2>1, <3>1, <3>3
      <4>3. ~(j < i)
        <5>1. ~Precedes(f, e)
          BY <4>1, <2>1, <1>2 DEF Precedes
        <5> QED
          BY <5>1, <1>1, <2>1, <3>3
      <4> QED
        BY <4>2, <4>3, <2>1
    <3>5. j \in DOMAIN blocks \ uses /\ j \in 1..n
      BY <1>1, <1>7, <3>1, <3>3
    <3>6. ASSUME NEW k \in DOMAIN blocks \ uses, Use(blocks[k]) = Use(e) PROVE k = j
      <4>1. CASE k \in 1..p
        <5>1. blocks[k] \in log /\ blocks[k].kind = "result"
          BY <4>1, <1>1, <1>7, <3>6
        <5>2. blocks[k] = blocks[j]
          BY <5>1, <3>1, <3>3, <3>6, SameUse
        <5> QED
          BY <5>2, <4>1, <1>5
      <4>2. CASE k \in (p + 1)..n
        <5>1. PICK g \in Unanswered : blocks[k] = Missing(Use(g))
          BY <4>2, <1>1
        <5>2. Use(g) = Use(e)
          BY <5>1, <3>6, <1>3
        <5>3. Answers(f, g)
          BY <5>2, <3>1 DEF Answers
        <5> QED
          BY <5>3 DEF Unanswered
      <4> QED
        BY <4>1, <4>2, <1>1, <1>6
    <3>7. ResultsOf(i) = {j}
      BY <3>1, <3>3, <3>5, <3>6
    <3>8. blocks[j].seq # 0
      BY <3>3, <1>2
    <3> QED
      BY <3>4, <3>5, <3>7, <3>8
  <2>3. CASE ~\E f \in log : Answers(f, e)
    <3>1. e \in Unanswered
      BY <2>1, <2>3 DEF Unanswered
    <3>2. PICK j \in (p + 1)..n : blocks[j] = Missing(Use(e))
      BY <3>1, <1>1
    <3>3. i < j /\ j \in 1..n /\ j \in DOMAIN blocks \ uses
      BY <2>1, <1>1, <1>7
    <3>4. Use(blocks[j]) = Use(e)
      BY <3>2, <1>3
    <3>5. ASSUME NEW k \in DOMAIN blocks \ uses, Use(blocks[k]) = Use(e) PROVE k = j
      <4>1. CASE k \in 1..p
        BY <4>1, <1>1, <1>7, <3>5, <2>3 DEF Answers
      <4>2. CASE k \in (p + 1)..n
        <5>1. PICK g \in Unanswered : blocks[k] = Missing(Use(g))
          BY <4>2, <1>1
        <5>2. Use(g) = Use(e)
          BY <5>1, <3>5, <1>3
        <5>3. blocks[k] = blocks[j]
          BY <5>1, <5>2, <3>2
        <5> QED
          BY <5>3, <4>2, <1>1
      <4> QED
        BY <4>1, <4>2, <1>1, <1>6
    <3>6. ResultsOf(i) = {j}
      BY <3>3, <3>4, <3>5
    <3> QED
      BY <3>3, <3>6, <2>3 DEF Answers
  <2> QED
    BY <2>2, <2>3
<1>9. ASSUME NEW j \in DOMAIN blocks \ uses
      PROVE  \E i \in uses : Use(blocks[j]) = Use(blocks[i])
  <2>1. \E e \in log : e.kind = "use" /\ Use(blocks[j]) = Use(e)
    <3>1. CASE j \in 1..p
      BY <3>1, <1>1, <1>7 DEF Known
    <3>2. CASE j \in (p + 1)..n
      BY <3>2, <1>1, <1>3, <1>4
    <3> QED
      BY <3>1, <3>2, <1>1, <1>6
  <2>2. PICK e \in log : e.kind = "use" /\ Use(blocks[j]) = Use(e)
    BY <2>1
  <2>3. Known(e)
    BY <2>2 DEF Known
  <2>4. PICK i \in 1..p : blocks[i] = e
    BY <2>3, <1>1
  <2> QED
    BY <2>2, <2>4, <1>1, <1>7
<1>10. 2 * Cardinality(uses) = n
  <2> DEFINE result == [i \in uses |-> CHOOSE j \in 1..n : ResultsOf(i) = {j}]
             others == DOMAIN blocks \ uses
  <2>1. ASSUME NEW i \in uses PROVE result[i] \in others /\ ResultsOf(i) = {result[i]}
    <3>1. \E j \in 1..n : ResultsOf(i) = {j}
      BY <1>8
    <3>2. ResultsOf(i) = {result[i]}
      BY <3>1
    <3> QED
      BY <3>2
  <2> HIDE DEF result
  <2>f. result \in [uses -> others]
    <3>1. result = [i \in uses |-> result[i]]
      BY DEF result
    <3> QED
      BY <3>1, <2>1
  <2>2. ASSUME NEW i \in uses, NEW j \in uses, result[i] = result[j] PROVE i = j
    <3>1. Use(blocks[i]) = Use(blocks[j])
      BY <2>1, <2>2
    <3>2. blocks[i] = blocks[j]
      BY <3>1, <1>7, SameUse
    <3> QED
      BY <3>2, <1>5, <1>7
  <2>3. ASSUME NEW j \in others PROVE \E i \in uses : result[i] = j
    <3>1. PICK i \in uses : Use(blocks[j]) = Use(blocks[i])
      BY <1>9
    <3>2. j \in ResultsOf(i)
      BY <3>1
    <3> QED
      BY <3>2, <2>1
  <2>4. result \in Bijection(uses, others)
    BY <2>f, <2>2, <2>3 DEF Bijection, Injection, Surjection, IsInjective
  <2>5. IsFiniteSet(1..n) /\ Cardinality(1..n) = n
    <3>1. Cardinality(1..n) = IF 1 > n THEN 0 ELSE n - 1 + 1
      BY <1>1, FS_Interval
    <3> QED
      BY <3>1, <1>1, FS_Interval
  <2>6. IsFiniteSet(uses) /\ uses \subseteq 1..n
    <3>1. uses \subseteq 1..n
      BY <1>1
    <3> QED
      BY <3>1, <2>5, FS_Subset
  <2>7. Cardinality(others) = Cardinality(uses)
    BY <2>4, <2>6, FS_Bijection DEF ExistsBijection
  <2>8. Cardinality(others) = n - Cardinality(uses)
    <3>1. Cardinality((1..n) \ uses) = Cardinality(1..n) - Cardinality((1..n) \cap uses)
      BY <2>5, FS_Difference
    <3>2. (1..n) \cap uses = uses /\ others = (1..n) \ uses
      BY <2>6, <1>1
    <3> QED
      BY <3>1, <3>2, <2>5
  <2>9. Cardinality(uses) \in Nat
    BY <2>6, FS_CardinalityType
  <2> QED
    BY <2>7, <2>8, <2>9, <1>1
<1> QED
  BY <1>1, <1>8, <1>10, <1>g

(* The replay of a log gives every tool call one result, after it, and no other, although runs     *)
(* insert side by side and stop anywhere (ensureToolResultPairing); and what they spend stays      *)
(* within the limit and one query of each run, unless the usage of a query could not be recorded:  *)
(* for any number of runs and turns.                                                               *)
THEOREM RunsAreAccounted == AISpec => []RunsAccounted
<1>1. LogInv /\ SpendInv => RunsAccounted
  BY ReplayPairs, SpendIsBounded DEF RunsAccounted
<1> QED
  BY <1>1, SpendHolds, PTL

=============================================================================
