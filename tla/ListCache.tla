------------------------------ MODULE ListCache ------------------------------
(***************************************************************************)
(* The cache of one project list                                           *)
(* (backend/internal/services/project/listing/cache.go, project/list.go).  *)
(*                                                                         *)
(* A change commits, then raises the generation in Redis.  A reader looks  *)
(* the list up under the generation it read; on a miss the readers of an   *)
(* instance share one computation, which reads the primary database, as    *)
(* the lists of a user and of a workspace do.  The content of the list is  *)
(* the number of changes committed.                                        *)
(***************************************************************************)
EXTENDS Naturals

CONSTANTS
    Readers,    \* requests for the list
    Instances,  \* API processes, each with its singleflight group
    MaxChanges, \* bound: changes of the list
    NoList,
    Degraded    \* the key when Redis did not tell the generation

ASSUME ListAssumption ==
    /\ MaxChanges \in Nat
    /\ NoList \notin 0..MaxChanges /\ Degraded \notin 0..MaxChanges

VARIABLES
    content,    \* changes committed
    generation, \* the generation key
    entries,    \* the list cached under each generation, or NoList
    unannounced,\* changes that have not raised the generation yet
    announced,  \* history: the newest change that did
    flight,     \* computation under way for each key of each instance
    reader      \* local state of each request

listVars == <<content, generation, entries, unannounced, announced, flight, reader>>

Contents == 0..MaxChanges

ListKeys == Contents \cup {Degraded}

\* content: what it computed.
ListFlight == [pc : {"none", "look", "compute", "store", "deliver"}, content : Contents \cup {NoList}]

\* key: where it looks; since: the newest change announced when it came.
Reader == [pc : {"idle", "lookup", "waits", "alone", "answered"}, at : Instances,
           key : ListKeys, since : Contents, got : Contents \cup {NoList}]

ListTypeOK ==
    /\ content \in Contents /\ generation \in Contents /\ announced \in Contents
    /\ entries \in [Contents -> Contents \cup {NoList}]
    /\ unannounced \subseteq Contents
    /\ flight \in [Instances \X ListKeys -> ListFlight]
    /\ reader \in [Readers -> Reader]

NoListFlight == [pc |-> "none", content |-> NoList]

ListInitAt(at) ==
    /\ content = 0 /\ generation = 0 /\ announced = 0
    /\ entries = [g \in Contents |-> NoList]
    /\ unannounced = {}
    /\ flight = [f \in Instances \X ListKeys |-> NoListFlight]
    /\ reader = [r \in Readers |->
           [pc |-> "idle", at |-> at[r], key |-> Degraded, since |-> 0, got |-> NoList]]

ListInit == \E at \in [Readers -> Instances] : ListInitAt(at)

-----------------------------------------------------------------------------
(* Changes                                                                 *)

ChangeCommits ==
    /\ content < MaxChanges
    /\ content' = content + 1
    /\ unannounced' = unannounced \cup {content + 1}
    /\ UNCHANGED <<generation, entries, announced, flight, reader>>

Invalidate(c) ==
    /\ c \in unannounced
    /\ unannounced' = unannounced \ {c}
    /\ generation' = generation + 1
    /\ announced' = IF c > announced THEN c ELSE announced
    /\ UNCHANGED <<content, entries, flight, reader>>

\* The error is dropped.
InvalidateFails(c) ==
    /\ c \in unannounced
    /\ unannounced' = unannounced \ {c}
    /\ UNCHANGED <<content, generation, entries, announced, flight, reader>>

\* Its TTL ends, or deleteKeys, which goes on after the generation, finds it.
EntryGoes(g) ==
    /\ entries[g] # NoList
    /\ entries' = [entries EXCEPT ![g] = NoList]
    /\ UNCHANGED <<content, generation, unannounced, announced, flight, reader>>

-----------------------------------------------------------------------------
(* Get                                                                     *)

\* Mutant of cacheKey: the key leaves the generation out.
keyWithoutGeneration(g) == 0

cacheKey(g) == g

Answer(r, list) == reader' = [reader EXCEPT ![r].pc = "answered", ![r].got = list]

ReadGeneration(r) ==
    /\ reader[r].pc = "idle"
    /\ reader' = [reader EXCEPT ![r].pc = "lookup", ![r].key = cacheKey(generation), ![r].since = announced]
    /\ UNCHANGED <<content, generation, entries, unannounced, announced, flight>>

\* Joins the computation of its key, or starts it.
Join(r, key) ==
    LET f == <<reader[r].at, key>> IN
    /\ reader' = [reader EXCEPT ![r].pc = "waits", ![r].key = key, ![r].since = announced]
    /\ flight' = [flight EXCEPT ![f] =
           IF @.pc # "none" THEN @ ELSE [NoListFlight EXCEPT !.pc = IF key = Degraded THEN "compute" ELSE "look"]]

ReadGenerationFails(r) ==
    /\ reader[r].pc = "idle"
    /\ Join(r, Degraded)
    /\ UNCHANGED <<content, generation, entries, unannounced, announced>>

LookUp(r) ==
    LET list == entries[reader[r].key]
        f == <<reader[r].at, reader[r].key>> IN
    /\ reader[r].pc = "lookup"
    /\ IF list # NoList
       THEN Answer(r, list) /\ UNCHANGED flight
       ELSE /\ reader' = [reader EXCEPT ![r].pc = "waits"]
            /\ flight' = [flight EXCEPT ![f].pc = IF @ = "none" THEN "look" ELSE @]
    /\ UNCHANGED <<content, generation, entries, unannounced, announced>>

LookUpFails(r) ==
    /\ reader[r].pc = "lookup"
    /\ reader' = [reader EXCEPT ![r].pc = "alone"]
    /\ UNCHANGED <<content, generation, entries, unannounced, announced, flight>>

ComputeAlone(r) ==
    /\ reader[r].pc = "alone"
    /\ Answer(r, content)
    /\ UNCHANGED <<content, generation, entries, unannounced, announced, flight>>

-----------------------------------------------------------------------------
(* refreshSingleflight and computeSingleflight                             *)

LookAgain(f) ==
    /\ flight[f].pc = "look"
    /\ flight' = [flight EXCEPT ![f] =
           IF entries[f[2]] = NoList THEN [@ EXCEPT !.pc = "compute"]
           ELSE [pc |-> "deliver", content |-> entries[f[2]]]]
    /\ UNCHANGED <<content, generation, entries, unannounced, announced, reader>>

\* A list computed for want of a generation is not kept.
Compute(f) ==
    /\ flight[f].pc = "compute"
    /\ flight' = [flight EXCEPT ![f] =
           [pc |-> IF f[2] = Degraded THEN "deliver" ELSE "store", content |-> content]]
    /\ UNCHANGED <<content, generation, entries, unannounced, announced, reader>>

Store(f) ==
    /\ flight[f].pc = "store"
    /\ \/ entries' = [entries EXCEPT ![f[2]] = flight[f].content]
       \/ UNCHANGED entries     \* the error is dropped
    /\ flight' = [flight EXCEPT ![f].pc = "deliver"]
    /\ UNCHANGED <<content, generation, unannounced, announced, reader>>

DeliverList(f) ==
    /\ flight[f].pc = "deliver"
    /\ reader' = [r \in Readers |->
           IF reader[r].pc = "waits" /\ <<reader[r].at, reader[r].key>> = f
           THEN [reader[r] EXCEPT !.pc = "answered", !.got = flight[f].content] ELSE reader[r]]
    /\ flight' = [flight EXCEPT ![f] = NoListFlight]
    /\ UNCHANGED <<content, generation, entries, unannounced, announced>>

-----------------------------------------------------------------------------
ListNext ==
    \/ ChangeCommits
    \/ \E c \in Contents : Invalidate(c) \/ InvalidateFails(c) \/ EntryGoes(c)
    \/ \E r \in Readers :
          ReadGeneration(r) \/ ReadGenerationFails(r) \/ LookUp(r) \/ LookUpFails(r) \/ ComputeAlone(r)
    \/ \E f \in Instances \X ListKeys : LookAgain(f) \/ Compute(f) \/ Store(f) \/ DeliverList(f)

ListSpec == ListInit /\ [][ListNext]_listVars

(***************************************************************************)
(* Whoever asks after a change was announced sees it, although a list that *)
(* was computed before may be stored after: it is stored under a           *)
(* generation nobody reads any more.  (Without the generation a reader may *)
(* share a computation that began before.)                                 *)
(***************************************************************************)
FreshAfterInvalidation ==
    \A r \in Readers :
        reader[r].pc = "answered" /\ reader[r].key # Degraded => reader[r].got >= reader[r].since
=============================================================================
