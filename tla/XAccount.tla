------------------------------- MODULE XAccount -------------------------------
(***************************************************************************)
(* The X account of a workspace: OAuth2 connections and token refreshes    *)
(* (backend/internal/services/platform_account/x_oauth2.go,                *)
(* oauth2_state_store.go).                                                 *)
(*                                                                         *)
(* A connection stores a pending state, which its callback consumes before *)
(* it exchanges the code and saves the credentials.  Publishing refreshes  *)
(* credentials that are about to expire.  X accepts a code and a refresh   *)
(* token once.  Nothing locks the account's row.                               *)
(***************************************************************************)
EXTENDS Naturals

CONSTANTS
    States,     \* connections that are started, each a grant of X
    Callbacks,  \* requests to the callback endpoint
    Refreshers, \* publish attempts that find the credentials about to expire
    MaxRefresh, \* bound: refreshes of one grant
    First       \* the grant the account has at the start

ASSUME AccountAssumption == MaxRefresh \in Nat \ {0}

VARIABLES
    pending,   \* none, stored or gone, for each state
    account,   \* its row: grant and refresh token (the how-manieth) saved
    valid,     \* X: the refresh token of each grant that is valid, 0 for none
    callback,
    refresher,
    lost       \* history: a token X gave out could not be saved

xVars == <<pending, account, valid, callback, refresher, lost>>

Grants == States \cup {First}

Credentials == [grant : Grants, token : 1..MaxRefresh]

AccountTypeOK ==
    /\ pending \in [States -> {"none", "stored", "gone"}]
    /\ account \in Credentials
    /\ valid \in [Grants -> 0..MaxRefresh]
    /\ callback \in [Callbacks -> [pc : {"idle", "refused", "exchange", "save", "done"}, state : States]]
    /\ refresher \in [Refreshers -> [pc : {"idle", "ask", "save"}, has : Credentials]]
    /\ lost \in BOOLEAN

AccountInitAs(state) ==
    /\ pending = [s \in States |-> "none"]
    /\ account = [grant |-> First, token |-> 1]
    /\ valid = [g \in Grants |-> IF g = First THEN 1 ELSE 0]
    /\ callback = [c \in Callbacks |-> [pc |-> "idle", state |-> state[c]]]
    /\ refresher = [r \in Refreshers |-> [pc |-> "idle", has |-> account]]
    /\ lost = FALSE

AccountInit == \E state \in [Callbacks -> States] : AccountInitAs(state)

-----------------------------------------------------------------------------
(* StartXOAuth2 and CompleteXOAuth2                                        *)

StartXOAuth2(s) ==
    /\ pending[s] = "none"
    /\ pending' = [pending EXCEPT ![s] = "stored"]
    /\ UNCHANGED <<account, valid, callback, refresher, lost>>

StateExpires(s) ==
    /\ pending[s] = "stored"
    /\ pending' = [pending EXCEPT ![s] = "gone"]
    /\ UNCHANGED <<account, valid, callback, refresher, lost>>

\* One GETDEL.  ErrInvalidXOAuth2State if it is not there.
Consume(c) ==
    LET s == callback[c].state IN
    /\ callback[c].pc = "idle"
    /\ IF pending[s] = "stored"
       THEN /\ pending' = [pending EXCEPT ![s] = "gone"]
            /\ callback' = [callback EXCEPT ![c].pc = "exchange"]
       ELSE callback' = [callback EXCEPT ![c].pc = "refused"] /\ UNCHANGED pending
    /\ UNCHANGED <<account, valid, refresher, lost>>

\* X may refuse the code, and Me may fail.
Exchange(c) ==
    LET s == callback[c].state IN
    /\ callback[c].pc = "exchange"
    /\ \/ /\ valid[s] = 0
          /\ valid' = [valid EXCEPT ![s] = 1]
          /\ callback' = [callback EXCEPT ![c].pc = "save"]
       \/ callback' = [callback EXCEPT ![c].pc = "done"] /\ UNCHANGED valid
    /\ UNCHANGED <<pending, account, refresher, lost>>

saveXOAuth2Account(c) ==
    /\ callback[c].pc = "save"
    /\ callback' = [callback EXCEPT ![c].pc = "done"]
    /\ \/ account' = [grant |-> callback[c].state, token |-> 1]
       \/ UNCHANGED account     \* the database fails
    /\ UNCHANGED <<pending, valid, refresher, lost>>

-----------------------------------------------------------------------------
(* refreshXOAuth2CredentialsIfNeeded                                       *)

BeginRefresh(r) ==
    /\ refresher[r].pc = "idle"
    /\ refresher' = [refresher EXCEPT ![r] = [pc |-> "ask", has |-> account]]
    /\ UNCHANGED <<pending, account, valid, callback, lost>>

Accepted(has) == valid[has.grant] = has.token /\ has.token < MaxRefresh

\* Mutant of Refused: the error is not looked at.
SaveRefused(r) ==
    /\ refresher[r].pc = "ask" /\ ~Accepted(refresher[r].has)
    /\ refresher' = [refresher EXCEPT ![r].pc = "save"]
    /\ UNCHANGED <<pending, account, valid, callback, lost>>

\* The token has been used by another refresh, or X is not there.
Refused(r) ==
    /\ refresher[r].pc = "ask"
    /\ refresher' = [refresher EXCEPT ![r].pc = "idle"]
    /\ UNCHANGED <<pending, account, valid, callback, lost>>

\* The answer may not arrive.
Refresh(r) ==
    LET has == refresher[r].has IN
    /\ refresher[r].pc = "ask" /\ Accepted(has)
    /\ valid' = [valid EXCEPT ![has.grant] = @ + 1]
    /\ \/ /\ refresher' = [refresher EXCEPT ![r] = [pc |-> "save", has |-> [has EXCEPT !.token = @ + 1]]]
          /\ UNCHANGED lost
       \/ refresher' = [refresher EXCEPT ![r].pc = "idle"] /\ lost' = TRUE
    /\ UNCHANGED <<pending, account, callback>>

\* Over whatever the row holds by now.
SaveRefreshed(r) ==
    /\ refresher[r].pc = "save"
    /\ refresher' = [refresher EXCEPT ![r].pc = "idle"]
    /\ \/ account' = refresher[r].has /\ UNCHANGED lost
       \/ lost' = TRUE /\ UNCHANGED account
    /\ UNCHANGED <<pending, valid, callback>>

AccountNext ==
    \/ \E s \in States : StartXOAuth2(s) \/ StateExpires(s)
    \/ \E c \in Callbacks : Consume(c) \/ Exchange(c) \/ saveXOAuth2Account(c)
    \/ \E r \in Refreshers : BeginRefresh(r) \/ Refused(r) \/ Refresh(r) \/ SaveRefreshed(r)

AccountSpec == AccountInit /\ [][AccountNext]_xVars

-----------------------------------------------------------------------------
(***************************************************************************)
(* Of the callbacks with one state, repeated or forged, at most one passes *)
(* to the exchange, whichever instance they reach.                         *)
(***************************************************************************)
StateUsedOnce ==
    \A c, d \in {e \in Callbacks : callback[e].pc \notin {"idle", "refused"}} :
        callback[c].state = callback[d].state => c = d

(***************************************************************************)
(* The refresh token saved is the one X accepts next, although publish     *)
(* attempts refresh at the same time, between reconnections: whoever loses *)
(* the race writes nothing.  (Unless a token X gave out was lost.)         *)
(***************************************************************************)
SavedIsValid ==
    lost \/ account.token = valid[account.grant]
         \/ \E r \in Refreshers : refresher[r].pc = "save" /\ refresher[r].has.grant = account.grant

(* Both: a token is saved by one callback of its state, and stays usable. *)
SavedTokenUsable == SavedIsValid /\ StateUsedOnce
=============================================================================
