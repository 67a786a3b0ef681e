-------------------------- MODULE BrowserStreamToken --------------------------
(***************************************************************************)
(* The stream tokens of one remote browser session                         *)
(* (backend/internal/services/browser_session/tokens.go and read.go).      *)
(*                                                                         *)
(* A token is a key of its own and a pointer names the current one.  Only  *)
(* the redemption is a script; a rotation and a clean-up are made of       *)
(* several Redis commands, and requests interleave between them.  A token  *)
(* is random, so each rotation has its own.                                *)
(***************************************************************************)
EXTENDS Naturals

CONSTANTS
    Tokens,     \* one for each rotation
    Streams,    \* WebSocket requests
    NoToken     \* no token

VARIABLES
    keys,       \* mpp:browser:stream-token keys
    current,    \* mpp:browser:stream-current
    rotation,   \* local state of each rotation
    stream,     \* local state of each WebSocket request
    wipe,       \* local state of deleteRedisStreamToken
    open,       \* whether the row has a streamable status
    replaced    \* history: tokens that another took over from

tokenVars == <<keys, current, rotation, stream, wipe, open, replaced>>

RotationPC == {"idle", "check", "read", "set", "point", "undo", "drop", "told", "over"}

TokenTypes ==
    /\ keys \subseteq Tokens
    /\ current \in Tokens \cup {NoToken}
    /\ rotation \in [Tokens -> [pc : RotationPC, old : Tokens \cup {NoToken}]]
    /\ stream \in [Streams -> [pc : {"idle", "redeem", "accepted", "refused"}, token : Tokens \cup {NoToken}]]
    /\ wipe \in [pc : {"idle", "pointer", "tokens"}, found : SUBSET Tokens]
    /\ open \in BOOLEAN
    /\ replaced \subseteq Tokens

TokenInit ==
    /\ keys = {} /\ current = NoToken
    /\ rotation = [t \in Tokens |-> [pc |-> "idle", old |-> NoToken]]
    /\ stream = [r \in Streams |-> [pc |-> "idle", token |-> NoToken]]
    /\ wipe = [pc |-> "idle", found |-> {}]
    /\ open = TRUE
    /\ replaced = {}

RotationStep(t, pc, old) == rotation' = [rotation EXCEPT ![t] = [pc |-> pc, old |-> old]]

Rotating(t, pc) == rotation[t].pc = pc
-----------------------------------------------------------------------------
(* A rotation: GetSession, or the start of the session.                    *)

\* hasCurrentStreamToken reads the pointer, then the key.
CheckPointer(t) ==
    /\ Rotating(t, "idle") /\ open
    /\ RotationStep(t, IF current = NoToken THEN "read" ELSE "check", current)
    /\ UNCHANGED <<keys, current, stream, wipe, open, replaced>>

CheckKey(t) ==
    /\ Rotating(t, "check")
    /\ RotationStep(t, IF rotation[t].old \in keys THEN "over" ELSE "read", NoToken)
    /\ UNCHANGED <<keys, current, stream, wipe, open, replaced>>

ReadOld(t) ==
    /\ Rotating(t, "read")
    /\ RotationStep(t, "set", current)
    /\ UNCHANGED <<keys, current, stream, wipe, open, replaced>>

SetKey(t) ==
    /\ Rotating(t, "set")
    /\ keys' = keys \cup {t}
    /\ RotationStep(t, "point", rotation[t].old)
    /\ UNCHANGED <<current, stream, wipe, open, replaced>>

\* An error may be reported of a SET that was applied.
SetCurrent(t) ==
    /\ Rotating(t, "point")
    /\ \/ /\ current' = t
          /\ replaced' = replaced \cup ({current} \ {NoToken})
          /\ \E pc \in {"drop", "undo"} : RotationStep(t, pc, rotation[t].old)
       \/ RotationStep(t, "undo", rotation[t].old) /\ UNCHANGED <<current, replaced>>
    /\ UNCHANGED <<keys, stream, wipe, open>>

UndoKey(t) ==
    /\ Rotating(t, "undo")
    /\ keys' = keys \ {t}
    /\ RotationStep(t, "over", NoToken)
    /\ UNCHANGED <<current, stream, wipe, open, replaced>>

DropOld(t) ==
    /\ Rotating(t, "drop")
    /\ keys' = keys \ {rotation[t].old}
    /\ RotationStep(t, "told", NoToken)
    /\ UNCHANGED <<current, stream, wipe, open, replaced>>

\* A Redis error, or the instance dies: the user gets no token.
GiveUp(t) ==
    /\ rotation[t].pc \notin {"idle", "told", "over"}
    /\ RotationStep(t, "over", NoToken)
    /\ UNCHANGED <<keys, current, stream, wipe, open, replaced>>
-----------------------------------------------------------------------------
(* GetStreamEndpoint of a WebSocket request reads the row, then redeems.   *)

BeginStream(r, t) ==
    /\ stream[r].pc = "idle" /\ Rotating(t, "told") /\ open
    /\ stream' = [stream EXCEPT ![r] = [pc |-> "redeem", token |-> t]]
    /\ UNCHANGED <<keys, current, rotation, wipe, open, replaced>>

Answer(r, pc) == stream' = [stream EXCEPT ![r] = [pc |-> pc, token |-> stream[r].token]]

\* Mutant of Redeem: GETDEL of the token's key, whatever the pointer says.
RedeemKey(r) ==
    /\ stream[r].pc = "redeem"
    /\ LET t == stream[r].token IN
       /\ Answer(r, IF t \in keys THEN "accepted" ELSE "refused")
       /\ keys' = keys \ {t}
    /\ UNCHANGED <<current, rotation, wipe, open, replaced>>

\* Mutant of Redeem: GET, which leaves the key and the pointer.
RedeemKeeping(r) ==
    /\ stream[r].pc = "redeem"
    /\ LET t == stream[r].token IN
       Answer(r, IF t \in keys /\ current = t THEN "accepted" ELSE "refused")
    /\ UNCHANGED <<keys, current, rotation, wipe, open, replaced>>

\* The script.
Redeem(r) ==
    /\ stream[r].pc = "redeem"
    /\ LET t == stream[r].token IN
       \/ /\ current = t /\ t \in keys
          /\ Answer(r, "accepted")
          /\ keys' = keys \ {t}
          /\ current' = NoToken
       \/ /\ current # t \/ t \notin keys
          /\ Answer(r, "refused")
          /\ UNCHANGED <<keys, current>>
    /\ UNCHANGED <<rotation, wipe, open, replaced>>
-----------------------------------------------------------------------------
(* deleteRedisStreamToken: the pointer and the keys a scan found.  The row *)
(* becomes terminal before, after or without it.                           *)

WipeScan ==
    /\ wipe.pc = "idle"
    /\ wipe' = [pc |-> "pointer", found |-> keys]
    /\ UNCHANGED <<keys, current, rotation, stream, open, replaced>>

WipePointer ==
    /\ wipe.pc = "pointer"
    /\ current' = NoToken
    /\ wipe' = [pc |-> "tokens", found |-> wipe.found]
    /\ UNCHANGED <<keys, rotation, stream, open, replaced>>

WipeTokens ==
    /\ wipe.pc = "tokens"
    /\ keys' = keys \ wipe.found
    /\ wipe' = [pc |-> "idle", found |-> {}]
    /\ UNCHANGED <<current, rotation, stream, open, replaced>>

RowEnds ==
    /\ open
    /\ open' = FALSE
    /\ UNCHANGED <<keys, current, rotation, stream, wipe, replaced>>

\* The keys' TTLs.
KeyExpires(t) ==
    /\ t \in keys
    /\ keys' = keys \ {t}
    /\ UNCHANGED <<current, rotation, stream, wipe, open, replaced>>

PointerExpires ==
    /\ current # NoToken
    /\ current' = NoToken
    /\ UNCHANGED <<keys, rotation, stream, wipe, open, replaced>>
-----------------------------------------------------------------------------
TokenNext ==
    \/ \E t \in Tokens :
          \/ CheckPointer(t) \/ CheckKey(t) \/ ReadOld(t) \/ SetKey(t) \/ SetCurrent(t)
          \/ UndoKey(t) \/ DropOld(t) \/ GiveUp(t) \/ KeyExpires(t)
          \/ \E r \in Streams : BeginStream(r, t)
    \/ \E r \in Streams : Redeem(r)
    \/ WipeScan \/ WipePointer \/ WipeTokens \/ RowEnds \/ PointerExpires

TokenSpec == TokenInit /\ [][TokenNext]_tokenVars
-----------------------------------------------------------------------------
(***************************************************************************)
(* "Single-use browser stream token": however many requests present a      *)
(* token at once, and whatever rotations and clean-ups run meanwhile, one  *)
(* of them at most is let through.                                         *)
(***************************************************************************)
RedeemedOnce ==
    \A r, q \in Streams :
        stream[r].pc = "accepted" /\ stream[q].pc = "accepted" /\ stream[r].token = stream[q].token => r = q

(***************************************************************************)
(* A rotation revokes: no request is let through with a token that another *)
(* took over from, although two rotations that read the same old token     *)
(* leave a key that neither of them deletes.                               *)
(***************************************************************************)
ReplacedRefused ==
    [][\A r \in Streams :
          stream[r].pc # "accepted" /\ stream'[r].pc = "accepted" => stream[r].token \notin replaced]_tokenVars
=============================================================================
