----------------------------- MODULE MediaAsset -----------------------------
(***************************************************************************)
(* One media asset of a project: its row, its object in the object store   *)
(* under a staging or a final key, and the entry of one user in the cache  *)
(* of resolved download addresses.  Completions, a deletion and reads of   *)
(* that user overlap; every call to the store and every statement is a     *)
(* step, and each may fail.                                                *)
(*                                                                         *)
(* The store refuses to copy an object onto itself.                        *)
(***************************************************************************)
EXTENDS Naturals

CONSTANTS
    Completions, Resolves,
    MaxMediaFaults   \* bound of the calls that fail

ASSUME MediaAssumption == MaxMediaFaults \in Nat

Keys == {"staging", "final"}

VARIABLES
    row,        \* status, object key, and whether the row is soft-deleted
    objects,    \* the keys the store has an object under
    uploaded,   \* history: the client's upload is over
    completion, \* [Completions -> step, key it read]
    deletion,   \* the one deletion: step, key it read
    entry,      \* the cached address: the key it is of, or none
    flight,     \* the shared computation: step and the key it resolved
    resolve,    \* [Resolves -> step, began after the deletion, what it found]
    mediaFaults

mediaVars == <<row, objects, uploaded, completion, deletion, entry, flight, resolve, mediaFaults>>

\* CreateProjectMediaUpload has inserted the row and answered with the address to upload to.
MediaInit ==
    /\ row = [status |-> "pending", key |-> "staging", gone |-> FALSE]
    /\ objects = {} /\ uploaded = FALSE
    /\ completion = [c \in Completions |-> [step |-> "new", key |-> "none"]]
    /\ deletion = [step |-> "new", key |-> "none"]
    /\ entry = "none"
    /\ flight = [step |-> "none", key |-> "none", late |-> FALSE]
    /\ resolve = [r \in Resolves |-> [step |-> "new", late |-> FALSE, found |-> "none"]]
    /\ mediaFaults = 0

MediaFault == mediaFaults < MaxMediaFaults /\ mediaFaults' = mediaFaults + 1

\* The client uploads once, while the address is good.
Upload ==
    /\ ~ uploaded
    /\ uploaded' = TRUE /\ objects' = objects \cup {"staging"}
    /\ UNCHANGED <<row, completion, deletion, entry, flight, resolve, mediaFaults>>

(***************************************************************************)
(* Completing an upload.                                                   *)
(***************************************************************************)

mediaAssetForEdit(c) ==
    /\ completion[c].step = "new" /\ ~ row.gone
    /\ completion' = [completion EXCEPT ![c] = [step |-> "head", key |-> row.key]]
    /\ UNCHANGED <<row, objects, uploaded, deletion, entry, flight, resolve, mediaFaults>>

\* An object that is missing fails the asset.
HeadObject(c) ==
    /\ completion[c].step = "head"
    /\ completion' = [completion EXCEPT ![c].step =
                         IF completion[c].key \in objects THEN "copy" ELSE "reject"]
    /\ UNCHANGED <<row, objects, uploaded, deletion, entry, flight, resolve, mediaFaults>>

\* A statement on a soft-deleted row changes nothing and reports no error.
SetRow(status, key) ==
    row' = IF row.gone THEN row ELSE [row EXCEPT !.status = status, !.key = key]

markMediaAssetFailed(c) ==
    /\ completion[c].step = "reject"
    /\ SetRow("failed", row.key)
    /\ completion' = [completion EXCEPT ![c].step = "invalidate"]
    /\ UNCHANGED <<objects, uploaded, deletion, entry, flight, resolve, mediaFaults>>

CanCopy(key) == key \in objects /\ key # "final"

\* Mutant of CopyObject: the answer of the copy is not looked at.
CopyUnchecked(c) ==
    /\ completion[c].step = "copy"
    /\ objects' = IF CanCopy(completion[c].key) THEN objects \cup {"final"} ELSE objects
    /\ completion' = [completion EXCEPT ![c].step = "unstage"]
    /\ UNCHANGED <<row, uploaded, deletion, entry, flight, resolve, mediaFaults>>

CopyObject(c) ==
    /\ completion[c].step = "copy"
    /\ IF CanCopy(completion[c].key)
         THEN /\ objects' = objects \cup {"final"}
              /\ completion' = [completion EXCEPT ![c].step = "unstage"]
         ELSE /\ completion' = [completion EXCEPT ![c].step = "done"]
              /\ UNCHANGED objects
    /\ UNCHANGED <<row, uploaded, deletion, entry, flight, resolve, mediaFaults>>

DeleteStaged(c) ==
    /\ completion[c].step = "unstage"
    /\ objects' = objects \ {completion[c].key}
    /\ completion' = [completion EXCEPT ![c].step = "record"]
    /\ UNCHANGED <<row, uploaded, deletion, entry, flight, resolve, mediaFaults>>

RecordReady(c) ==
    /\ completion[c].step = "record"
    /\ SetRow("ready", "final")
    /\ completion' = [completion EXCEPT ![c].step = "invalidate"]
    /\ UNCHANGED <<objects, uploaded, deletion, entry, flight, resolve, mediaFaults>>

Invalidate(c) ==
    /\ completion[c].step = "invalidate"
    /\ entry' = "none"
    /\ completion' = [completion EXCEPT ![c].step = "done"]
    /\ UNCHANGED <<row, objects, uploaded, deletion, flight, resolve, mediaFaults>>

\* A call that fails ends the request with what it has done so far.
CompletionFails(c) ==
    /\ completion[c].step \in {"head", "reject", "copy", "unstage", "record"}
    /\ MediaFault
    /\ completion' = [completion EXCEPT ![c].step = "done"]
    /\ UNCHANGED <<row, objects, uploaded, deletion, entry, flight, resolve>>

(***************************************************************************)
(* Deleting the asset.                                                     *)
(***************************************************************************)

Deletes(from, to) == deletion.step = from /\ deletion' = [deletion EXCEPT !.step = to]

BeginDelete ==
    /\ deletion.step = "new" /\ ~ row.gone
    /\ deletion' = [step |-> "object", key |-> row.key]
    /\ UNCHANGED <<row, objects, uploaded, completion, entry, flight, resolve, mediaFaults>>

DeleteObject ==
    /\ Deletes("object", "status")
    /\ objects' = objects \ {deletion.key}
    /\ UNCHANGED <<row, uploaded, completion, entry, flight, resolve, mediaFaults>>

MarkDeleted ==
    /\ Deletes("status", "row")
    /\ row' = [row EXCEPT !.status = "deleted"]
    /\ UNCHANGED <<objects, uploaded, completion, entry, flight, resolve, mediaFaults>>

SoftDelete ==
    /\ Deletes("row", "invalidate")
    /\ row' = [row EXCEPT !.gone = TRUE]
    /\ UNCHANGED <<objects, uploaded, completion, entry, flight, resolve, mediaFaults>>

\* The deferred invalidation also runs when a call before it failed.
InvalidateDeleted ==
    /\ Deletes("invalidate", "done")
    /\ entry' = "none"
    /\ UNCHANGED <<row, objects, uploaded, completion, flight, resolve, mediaFaults>>

DeletionFails ==
    /\ deletion.step \in {"object", "status", "row"}
    /\ MediaFault
    /\ deletion' = [deletion EXCEPT !.step = "invalidate"]
    /\ UNCHANGED <<row, objects, uploaded, completion, entry, flight, resolve>>

\* The user has been told that the asset is deleted.
Deleted == deletion.step = "done" /\ row.gone

(***************************************************************************)
(* Resolving the download address, through the cache and one flight.       *)
(***************************************************************************)

Sees(r, step, found) ==
    resolve' = [resolve EXCEPT ![r].step = step, ![r].found = found]

LookUp(r) ==
    /\ resolve[r].step = "new"
    /\ resolve' = [resolve EXCEPT ![r] =
                      [step |-> IF entry = "none" THEN "miss" ELSE "authorize",
                       late |-> Deleted, found |-> entry]]
    /\ UNCHANGED <<row, objects, uploaded, completion, deletion, entry, flight, mediaFaults>>

Readable == ~ row.gone /\ row.status = "ready"

\* An entry counts only while the row is ready and still names its object.
authorizeCachedResolvedMediaAsset(r) ==
    /\ resolve[r].step = "authorize"
    /\ CASE ~ Readable -> Sees(r, "done", "refused")
         [] Readable /\ row.key # resolve[r].found -> Sees(r, "miss", "none")
         [] OTHER -> Sees(r, "done", resolve[r].found)
    /\ UNCHANGED <<row, objects, uploaded, completion, deletion, entry, flight, mediaFaults>>

\* A request waits for the computation under way, or starts one; late is now that of its answer.
Join(r) ==
    /\ resolve[r].step = "miss"
    /\ flight' = IF flight.step = "none"
                    THEN [step |-> "look", key |-> "none", late |-> Deleted] ELSE flight
    /\ resolve' = [resolve EXCEPT ![r].step = "waiting", ![r].late = flight'.late]
    /\ UNCHANGED <<row, objects, uploaded, completion, deletion, entry, mediaFaults>>

Flies(from, to, key) ==
    flight.step = from /\ flight' = [flight EXCEPT !.step = to, !.key = key]

LookAgain ==
    /\ Flies("look", IF entry = "none" THEN "compute" ELSE "authorize", entry)
    /\ UNCHANGED <<row, objects, uploaded, completion, deletion, entry, resolve, mediaFaults>>

\* An entry the row does not bear out is answered as if it were a hit, with an empty item.
AuthorizeAgain ==
    /\ flight.step = "authorize"
    /\ CASE ~ Readable -> Flies("authorize", "deliver", "empty")
         [] Readable /\ row.key # flight.key -> Flies("authorize", "compute", "none")
         [] OTHER -> Flies("authorize", "deliver", flight.key)
    /\ UNCHANGED <<row, objects, uploaded, completion, deletion, entry, resolve, mediaFaults>>

computeResolvedMediaAsset ==
    /\ IF Readable THEN Flies("compute", "store", row.key) ELSE Flies("compute", "deliver", "refused")
    /\ UNCHANGED <<row, objects, uploaded, completion, deletion, entry, resolve, mediaFaults>>

\* A write that fails is ignored.
cacheResolvedMediaAsset ==
    /\ Flies("store", "deliver", flight.key)
    /\ \/ entry' = flight.key /\ UNCHANGED mediaFaults
       \/ MediaFault /\ UNCHANGED entry
    /\ UNCHANGED <<row, objects, uploaded, completion, deletion, resolve>>

\* Mutant of Deliver: only one of those that wait is answered.
DeliverToOne ==
    /\ Flies("deliver", "none", "none")
    /\ \E r \in Resolves :
          /\ resolve[r].step = "waiting"
          /\ resolve' = [resolve EXCEPT ![r].step = "done", ![r].found = flight.key]
    /\ UNCHANGED <<row, objects, uploaded, completion, deletion, entry, mediaFaults>>

Deliver ==
    /\ Flies("deliver", "none", "none")
    /\ resolve' = [r \in Resolves |->
                      IF resolve[r].step = "waiting"
                        THEN [resolve[r] EXCEPT !.step = "done", !.found = flight.key]
                        ELSE resolve[r]]
    /\ UNCHANGED <<row, objects, uploaded, completion, deletion, entry, mediaFaults>>

EntryExpires ==
    /\ entry # "none" /\ entry' = "none"
    /\ UNCHANGED <<row, objects, uploaded, completion, deletion, flight, resolve, mediaFaults>>

MediaNext ==
    \/ Upload
    \/ \E c \in Completions :
          \/ mediaAssetForEdit(c) \/ HeadObject(c) \/ markMediaAssetFailed(c) \/ CopyObject(c)
          \/ DeleteStaged(c) \/ RecordReady(c) \/ Invalidate(c) \/ CompletionFails(c)
    \/ BeginDelete \/ DeleteObject \/ MarkDeleted \/ SoftDelete \/ InvalidateDeleted \/ DeletionFails
    \/ \E r \in Resolves : LookUp(r) \/ authorizeCachedResolvedMediaAsset(r) \/ Join(r)
    \/ LookAgain \/ AuthorizeAgain \/ computeResolvedMediaAsset \/ cacheResolvedMediaAsset
    \/ Deliver \/ EntryExpires

MediaSpec == MediaInit /\ [][MediaNext]_mediaVars

Completion == [step : {"new", "head", "reject", "copy", "unstage", "record", "invalidate", "done"},
               key : Keys \cup {"none"}]

Deletion == [step : {"new", "object", "status", "row", "invalidate", "done"}, key : Keys \cup {"none"}]

Found == Keys \cup {"none", "empty", "refused"}

Computation == [step : {"none", "look", "authorize", "compute", "store", "deliver"}, key : Found, late : BOOLEAN]

Resolve == [step : {"new", "miss", "authorize", "waiting", "done"}, late : BOOLEAN, found : Found]

(* The variables keep their types; a row never goes back to pending and a computation is shared. *)
MediaTypeOK ==
    /\ row \in [status : {"pending", "ready", "failed", "deleted"}, key : Keys, gone : BOOLEAN]
    /\ objects \subseteq Keys /\ uploaded \in BOOLEAN
    /\ completion \in [Completions -> Completion]
    /\ deletion \in Deletion
    /\ entry \in Keys \cup {"none"}
    /\ flight \in Computation
    /\ resolve \in [Resolves -> Resolve]
    /\ mediaFaults \in 0 .. MaxMediaFaults
    /\ (\E r \in Resolves : resolve[r].step = "waiting") => flight.step # "none"

(* What the client uploaded is in the store until a deletion takes it, and a ready row names an   *)
(* object that is there, however completions overlap, repeat and fail between the store's calls. *)
UploadSurvives ==
    deletion.step \in {"new", "object"} =>
        /\ uploaded => objects # {}
        /\ row.status = "ready" => row.key \in objects

(* A read that looks for itself after the deletion was answered is refused, although an older     *)
(* read writes the address to the cache after the invalidation; only the answer of a computation *)
(* that began before may be shared.                                                              *)
DeletedIsRefused ==
    \A r \in Resolves :
        resolve[r].late /\ resolve[r].step = "done" => resolve[r].found \notin Keys

(* Both, of the same asset. *)
MediaKept == UploadSurvives /\ DeletedIsRefused
=============================================================================
