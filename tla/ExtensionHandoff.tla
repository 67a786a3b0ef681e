---------------------------- MODULE ExtensionHandoff ----------------------------
(***************************************************************************)
(* Callbacks of the browser extension for one publication                  *)
(* (backend/internal/services/extension/handoffs.go, dedup.go).            *)
(*                                                                         *)
(* A handoff creates a callback token.  A callback is one transaction that *)
(* claims its event, inserts it and updates the publication; it may come   *)
(* more than once, and its answer may be lost.  Meanwhile the project may  *)
(* be deleted, and old events are archived with their claims.              *)
(***************************************************************************)
EXTENDS Naturals, FiniteSets

CONSTANTS
    Callbacks, \* requests to the callback endpoint
    Reports    \* event ids, of one handoff

ASSUME HandoffAssumption == IsFiniteSet(Callbacks)

VARIABLES
    status,      \* what each event reports; only "failed" counts as a retry
    token,       \* the handoff's callback token
    claimed,     \* events with a committed claim
    recorded,    \* events with a committed row
    applied,     \* history: events whose transaction committed
    publication, \* present: the row exists; retries: its retry_count
    deletion,    \* project deletion: event rows it found
    callback     \* local state of each request

handoffVars == <<status, token, claimed, recorded, applied, publication, deletion, callback>>

Statuses == {"failed", "user_review", "injecting"}

Callback == [pc : {"idle", "received", "begun", "claimed", "commit", "accepted", "duplicate",
                   "refused", "error"}, event : Reports]

HandoffTypeOK ==
    /\ status \in [Reports -> Statuses]
    /\ token \in {"none", "valid", "expired", "deleted"}
    /\ claimed \subseteq Reports /\ recorded \subseteq Reports /\ applied \subseteq Reports
    /\ publication \in [present : BOOLEAN, retries : 0..Cardinality(Callbacks)]
    /\ deletion \in [pc : {"idle", "plucked", "done"}, found : SUBSET Reports]
    /\ callback \in [Callbacks -> Callback]

HandoffInitOf(reported, event) ==
    /\ status = reported
    /\ token = "none"
    /\ claimed = {} /\ recorded = {} /\ applied = {}
    /\ publication = [present |-> TRUE, retries |-> 0]
    /\ deletion = [pc |-> "idle", found |-> {}]
    /\ callback = [c \in Callbacks |-> [pc |-> "idle", event |-> event[c]]]

HandoffInit == \E reported \in [Reports -> Statuses], event \in [Callbacks -> Reports] : HandoffInitOf(reported, event)

Event(c) == callback[c].event

Becomes(c, to) == callback' = [callback EXCEPT ![c].pc = to]

-----------------------------------------------------------------------------
CreateExtensionHandoff ==
    /\ token = "none" /\ publication.present /\ deletion.pc = "idle"
    /\ token' = "valid"
    /\ UNCHANGED <<status, claimed, recorded, applied, publication, deletion, callback>>

TokenExpires ==
    /\ token = "valid"
    /\ token' = "expired"
    /\ UNCHANGED <<status, claimed, recorded, applied, publication, deletion, callback>>

\* The token is looked at before the transaction, and not again.
RecordExtensionEvent(c) ==
    /\ callback[c].pc = "idle"
    /\ token # "none"
    /\ Becomes(c, IF token = "valid" THEN "received" ELSE "refused")
    /\ UNCHANGED <<status, token, claimed, recorded, applied, publication, deletion>>

\* Whoever inserts the same key second waits for the first to commit or fail.
KeyFree(e) == \A c \in Callbacks : Event(c) = e => callback[c].pc \notin {"claimed", "commit"}

\* Mutant of ClaimEvent: RowsAffected is not looked at.
ClaimUnchecked(c) ==
    /\ callback[c].pc = "received"
    /\ KeyFree(Event(c))
    /\ Becomes(c, "claimed")
    /\ UNCHANGED <<status, token, claimed, recorded, applied, publication, deletion>>

ClaimEvent(c) ==
    /\ callback[c].pc = "received"
    /\ KeyFree(Event(c))
    /\ IF Event(c) \in claimed THEN Becomes(c, "duplicate") ELSE Becomes(c, "claimed")
    /\ UNCHANGED <<status, token, claimed, recorded, applied, publication, deletion>>

\* Inserts the event.  An update waits for another one of the row, and for
\* its deletion.
ApplyExtensionPublicationEvent(c) ==
    /\ callback[c].pc = "claimed"
    /\ status[Event(c)] # "injecting" =>
          /\ \A other \in Callbacks : callback[other].pc = "commit" => status[Event(other)] = "injecting"
          /\ deletion.pc # "plucked"
    /\ Becomes(c, "commit")
    /\ UNCHANGED <<status, token, claimed, recorded, applied, publication, deletion>>

\* The answer may be lost although the transaction committed.
Commit(c) ==
    /\ callback[c].pc = "commit"
    /\ claimed' = claimed \cup {Event(c)}
    /\ recorded' = recorded \cup {Event(c)}
    /\ applied' = applied \cup {Event(c)}
    /\ publication' = [publication EXCEPT !.retries =
           IF publication.present /\ status[Event(c)] = "failed" THEN @ + 1 ELSE @]
    /\ \E to \in {"accepted", "error"} : Becomes(c, to)
    /\ UNCHANGED <<status, token, deletion>>

\* A statement fails, or the backend goes down: the transaction is undone.
RollBack(c) ==
    /\ callback[c].pc \in {"received", "claimed", "commit"}
    /\ Becomes(c, "error")
    /\ UNCHANGED <<status, token, claimed, recorded, applied, publication, deletion>>

-----------------------------------------------------------------------------
\* DeleteProject holds the publication's row when it looks for the events.
DeleteFindsEvents ==
    /\ deletion.pc = "idle"
    /\ \A c \in Callbacks : callback[c].pc = "commit" => status[Event(c)] = "injecting"
    /\ deletion' = [pc |-> "plucked", found |-> recorded]
    /\ UNCHANGED <<status, token, claimed, recorded, applied, publication, callback>>

\* Whatever is recorded goes, also what came since it looked; of the claims
\* those go that it found.
DeleteCommits ==
    /\ deletion.pc = "plucked"
    /\ deletion' = [deletion EXCEPT !.pc = "done"]
    /\ claimed' = claimed \ deletion.found
    /\ recorded' = {}
    /\ publication' = [publication EXCEPT !.present = FALSE]
    /\ token' = IF token = "none" THEN "none" ELSE "deleted"
    /\ UNCHANGED <<status, applied, callback>>

\* Months after the token expired: no callback it let pass is under way.
ArchiveEvents ==
    /\ token \in {"expired", "deleted"} /\ recorded # {}
    /\ \A c \in Callbacks : callback[c].pc \notin {"received", "claimed", "commit"}
    /\ deletion.pc # "plucked"
    /\ recorded' = {}
    /\ claimed' = claimed \ recorded
    /\ UNCHANGED <<status, token, applied, publication, deletion, callback>>

HandoffNext ==
    \/ CreateExtensionHandoff \/ TokenExpires \/ DeleteFindsEvents \/ DeleteCommits \/ ArchiveEvents
    \/ \E c \in Callbacks :
          \/ RecordExtensionEvent(c) \/ ClaimEvent(c)
          \/ ApplyExtensionPublicationEvent(c) \/ Commit(c) \/ RollBack(c)

HandoffSpec == HandoffInit /\ [][HandoffNext]_handoffVars

-----------------------------------------------------------------------------
(***************************************************************************)
(* retry_count counts failed events, not callbacks: repeated, overlapping  *)
(* and late callbacks change the publication once, also when the event has *)
(* been archived since.                                                    *)
(***************************************************************************)
FailuresCountedOnce ==
    publication.present => publication.retries = Cardinality({e \in applied : status[e] = "failed"})

(***************************************************************************)
(* A callback that was answered, as new or as a duplicate, has been        *)
(* applied: no answer rests on a transaction that is undone later.         *)
(***************************************************************************)
AnsweredIsApplied ==
    \A c \in Callbacks : callback[c].pc \in {"accepted", "duplicate"} => Event(c) \in applied

(* Both: a callback is answered when its event is applied, and that counts once. *)
CallbacksCountOnce == FailuresCountedOnce /\ AnsweredIsApplied
=============================================================================
