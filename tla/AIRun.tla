-------------------------------- MODULE AIRun --------------------------------
(***************************************************************************)
(* Drafting runs of one session and the workspace's token quota            *)
(* (backend/internal/services/ai/runner.go, event_log.go, quota.go).       *)
(*                                                                         *)
(* A run takes turns: it checks the quota, replays the session's log for   *)
(* the model, asks it, records the usage, and logs the tool call the model *)
(* wants and its result.  Runs of a session may overlap; an event that can *)
(* not be logged is skipped, and a run may end anywhere.                   *)
(***************************************************************************)
EXTENDS Naturals, FiniteSets, Sequences, SequencesExt

CONSTANTS
    Runs,         \* numbers; events of equal sequence are in their order
    MaxTurns,
    LimitTokens,  \* positive (quotaLimitFromEnv); each query costs one
    MaxRunFaults  \* bound: statements that fail and whose error is only logged

ASSUME RunAssumption ==
    /\ IsFiniteSet(Runs) /\ Runs \subseteq Nat
    /\ MaxTurns \in Nat /\ LimitTokens \in Nat \ {0} /\ MaxRunFaults \in Nat

VARIABLES
    log,       \* events the model sees: tool calls and their results
    aggregate, \* total_tokens of the workspace
    spent,     \* history: queries answered
    unrecorded,\* history: usages that could not be recorded
    run,       \* local state of each run
    runFaults

aiVars == <<log, aggregate, spent, unrecorded, run, runFaults>>

Events == [seq : Nat \ {0}, run : Runs, turn : 1..MaxTurns, kind : {"use", "result"}]

\* seq: the sequence read for the event about to be inserted.
Run == [pc : {"turn", "query", "usage", "call", "insertCall", "result", "insertResult", "ended"},
        turn : 1..(MaxTurns + 1), tool : BOOLEAN, seq : Nat]

AITypeOK ==
    /\ log \subseteq Events
    /\ aggregate \in Nat /\ spent \in Nat /\ unrecorded \in Nat
    /\ run \in [Runs -> Run]
    /\ runFaults \in 0..MaxRunFaults

AIInit ==
    /\ log = {} /\ aggregate = 0 /\ spent = 0 /\ unrecorded = 0 /\ runFaults = 0
    /\ run = [r \in Runs |-> [pc |-> "turn", turn |-> 1, tool |-> FALSE, seq |-> 0]]

Ended == [pc |-> "ended", turn |-> 1, tool |-> FALSE, seq |-> 0]

RunGoes(r, to) == run' = [run EXCEPT ![r] = IF to = "ended" THEN Ended ELSE [@ EXCEPT !.pc = to]]

RunFault == runFaults < MaxRunFaults /\ runFaults' = runFaults + 1

-----------------------------------------------------------------------------
(* RunSession                                                              *)

CheckQuota(r) ==
    /\ run[r].pc = "turn"
    /\ RunGoes(r, IF run[r].turn > MaxTurns \/ aggregate >= LimitTokens THEN "ended" ELSE "query")
    /\ UNCHANGED <<log, aggregate, spent, unrecorded, runFaults>>

Query(r) ==
    /\ run[r].pc = "query"
    /\ spent' = spent + 1
    /\ \E tool \in BOOLEAN : run' = [run EXCEPT ![r].pc = "usage", ![r].tool = tool]
    /\ UNCHANGED <<log, aggregate, unrecorded, runFaults>>

\* One transaction adds to the aggregate.
RecordUsage(r) ==
    /\ run[r].pc = "usage"
    /\ \/ aggregate' = aggregate + 1 /\ UNCHANGED <<unrecorded, runFaults>>
       \/ RunFault /\ unrecorded' = unrecorded + 1 /\ UNCHANGED aggregate
    /\ RunGoes(r, IF run[r].tool THEN "call" ELSE "ended")
    /\ UNCHANGED <<log, spent>>

\* The request ends, a query or a statement fails, the backend goes down.
EndEarly(r) ==
    /\ run[r].pc # "ended"
    /\ RunGoes(r, "ended")
    /\ UNCHANGED <<log, aggregate, spent, unrecorded, runFaults>>

-----------------------------------------------------------------------------
(* LogEvent                                                                *)

\* MAX(sequence) + 1 of what is committed: two runs may read the same.  The
\* session's other events take numbers as well, which changes no order.
NextSequence == 1 + Max({0} \cup {e.seq : e \in log})

Allocate(r) ==
    /\ \/ run[r].pc = "call" /\ run' = [run EXCEPT ![r].pc = "insertCall", ![r].seq = NextSequence]
       \/ run[r].pc = "result" /\ run' = [run EXCEPT ![r].pc = "insertResult", ![r].seq = NextSequence]
    /\ UNCHANGED <<log, aggregate, spent, unrecorded, runFaults>>

InsertEvent(r, kind) ==
    \/ /\ log' = log \cup {[seq |-> run[r].seq, run |-> r, turn |-> run[r].turn, kind |-> kind]}
       /\ UNCHANGED runFaults
    \/ RunFault /\ UNCHANGED log

InsertCall(r) ==
    /\ run[r].pc = "insertCall"
    /\ InsertEvent(r, "use")
    /\ RunGoes(r, "result")
    /\ UNCHANGED <<aggregate, spent, unrecorded>>

\* The tool has run meanwhile; its error ends the run, too.
InsertResult(r) ==
    /\ run[r].pc = "insertResult"
    /\ InsertEvent(r, "result")
    /\ \/ run' = [run EXCEPT ![r].pc = "turn", ![r].turn = @ + 1, ![r].seq = 0]
       \/ RunGoes(r, "ended")
    /\ UNCHANGED <<aggregate, spent, unrecorded>>

AINext ==
    \E r \in Runs :
        \/ CheckQuota(r) \/ Query(r) \/ RecordUsage(r) \/ EndEarly(r)
        \/ Allocate(r) \/ InsertCall(r) \/ InsertResult(r)

AISpec == AIInit /\ [][AINext]_aiVars

-----------------------------------------------------------------------------
(* ReplaySession: the blocks the model gets                                *)

Precedes(e, f) == e.seq < f.seq \/ (e.seq = f.seq /\ e.run < f.run)

BuildModelVisibleMessages ==
    [i \in 1..Cardinality(log) |-> CHOOSE e \in log : Cardinality({f \in log : Precedes(f, e)}) = i - 1]

Use(e) == <<e.run, e.turn>>

\* Mutant of Pair: a tool use stays open when its result has come.
PairKeepingOpen(acc, e) ==
    IF e.kind = "use"
    THEN [open |-> acc.open \cup {Use(e)}, blocks |-> Append(acc.blocks, e)]
    ELSE [acc EXCEPT !.blocks = IF Use(e) \in acc.open THEN Append(@, e) ELSE @]

\* A result is kept when its tool use is open.
Pair(acc, e) ==
    IF e.kind = "use"
    THEN [open |-> acc.open \cup {Use(e)}, blocks |-> Append(acc.blocks, e)]
    ELSE [open |-> acc.open \ {Use(e)},
          blocks |-> IF Use(e) \in acc.open THEN Append(acc.blocks, e) ELSE acc.blocks]

Missing(use) == [seq |-> 0, run |-> use[1], turn |-> use[2], kind |-> "result"]

\* The loop over the messages, after n of them.
PairedAfter[n \in 0..Cardinality(log)] ==
    IF n = 0
    THEN [open |-> {}, blocks |-> <<>>]
    ELSE Pair(PairedAfter[n - 1], BuildModelVisibleMessages[n])

ensureToolResultPairing ==
    LET paired == PairedAfter[Cardinality(log)]
    IN  paired.blocks \o SetToSeq({Missing(use) : use \in paired.open})

-----------------------------------------------------------------------------
(***************************************************************************)
(* Whatever was logged and in whatever order runs overlapped, the model is *)
(* shown every tool use with exactly one result, which comes after it and  *)
(* is the real one when that was logged, and no other result.              *)
(***************************************************************************)
ResultsPaired ==
    LET blocks == ensureToolResultPairing
        uses == {i \in DOMAIN blocks : blocks[i].kind = "use"}
        ResultsOf(i) == {j \in DOMAIN blocks \ uses : Use(blocks[j]) = Use(blocks[i])}
    IN  /\ 2 * Cardinality(uses) = Len(blocks)
        /\ \A i \in uses :
              \E j \in DOMAIN blocks :
                  /\ ResultsOf(i) = {j} /\ i < j
                  /\ blocks[j].seq = 0 =>
                        ~\E e \in log : e.kind = "result" /\ Use(e) = Use(blocks[i])

(***************************************************************************)
(* Overlapping runs overshoot the quota by what they ask at the same time, *)
(* one query each, and by what could not be recorded, not by turn after    *)
(* turn.                                                                   *)
(***************************************************************************)
SpendBounded == spent + 1 <= LimitTokens + Cardinality(Runs) + unrecorded

(* Overlapping runs and lost statements spoil neither what the model is shown (event_log.go) *)
(* nor what is spent (quota.go).                                                             *)
RunsAccounted == ResultsPaired /\ SpendBounded
=============================================================================
