---------------------------- MODULE AccessProofs ----------------------------
(***************************************************************************)
(* Proofs about how accounts are connected: the stream tokens and the      *)
(* sessions of a remote browser, the places of the worker it runs on, and  *)
(* the credentials of an X account.                                        *)
(***************************************************************************)
EXTENDS MCBrowser, OrderLemmas

-----------------------------------------------------------------------------
(* Stream tokens of a remote browser session                               *)

KeySet == {"point", "undo", "drop", "told", "over"}

Pointed == {"undo", "drop", "told", "over"}

\* A redeemed token's key is gone and its rotation, which alone sets it, past that.
RedeemedIsGone ==
    \A r \in Streams :
        /\ stream[r].pc # "idle" => stream[r].token \in Tokens
        /\ stream[r].pc = "accepted" =>
              stream[r].token \notin keys /\ rotation[stream[r].token].pc \in KeySet
        /\ stream[r].pc = "redeem" => rotation[stream[r].token].pc \in KeySet

\* A rotation sets the pointer once, so a replaced token is never current again.
ReplacedIsPast ==
    /\ current # NoToken => rotation[current].pc \in Pointed
    /\ NoToken \notin replaced
    /\ \A t \in replaced : current # t /\ rotation[t].pc \in Pointed

TokenInv == TokenTypes /\ RedeemedIsGone /\ ReplacedIsPast /\ RedeemedOnce

(* The initial state: nothing is stored and nobody has a token. *)
LEMMA TokenInitInv == TokenInit => TokenInv
  BY DEF TokenInit, TokenInv, TokenTypes, RedeemedIsGone, ReplacedIsPast, RedeemedOnce, RotationPC

(* Every command of a rotation, a redemption, a clean-up or an expiry keeps
   the types. *)
LEMMA TokenStepTypes == TokenTypes /\ [TokenNext]_tokenVars => TokenTypes'
<1> SUFFICES ASSUME TokenTypes, [TokenNext]_tokenVars PROVE TokenTypes'
  OBVIOUS
<1> USE DEF TokenTypes, RotationPC, RotationStep, Rotating, Answer
<1>1. ASSUME NEW t \in Tokens, CheckPointer(t) PROVE TokenTypes'
  BY <1>1 DEF CheckPointer
<1>2. ASSUME NEW t \in Tokens, CheckKey(t) PROVE TokenTypes'
  BY <1>2 DEF CheckKey
<1>3. ASSUME NEW t \in Tokens, ReadOld(t) PROVE TokenTypes'
  BY <1>3 DEF ReadOld
<1>4. ASSUME NEW t \in Tokens, SetKey(t) PROVE TokenTypes'
  BY <1>4 DEF SetKey
<1>5. ASSUME NEW t \in Tokens, SetCurrent(t) PROVE TokenTypes'
  BY <1>5 DEF SetCurrent
<1>6. ASSUME NEW t \in Tokens, UndoKey(t) PROVE TokenTypes'
  BY <1>6 DEF UndoKey
<1>7. ASSUME NEW t \in Tokens, DropOld(t) PROVE TokenTypes'
  BY <1>7 DEF DropOld
<1>8. ASSUME NEW t \in Tokens, GiveUp(t) PROVE TokenTypes'
  BY <1>8 DEF GiveUp
<1>9. ASSUME NEW t \in Tokens, KeyExpires(t) PROVE TokenTypes'
  BY <1>9 DEF KeyExpires
<1>10. ASSUME NEW t \in Tokens, NEW r \in Streams, BeginStream(r, t) PROVE TokenTypes'
  BY <1>10 DEF BeginStream
<1>11. ASSUME NEW r \in Streams, Redeem(r) PROVE TokenTypes'
  BY <1>11 DEF Redeem
<1>12. CASE WipeScan
  BY <1>12 DEF WipeScan
<1>13. CASE WipePointer
  BY <1>13 DEF WipePointer
<1>14. CASE WipeTokens
  BY <1>14 DEF WipeTokens
<1>15. CASE RowEnds
  BY <1>15 DEF RowEnds
<1>16. CASE PointerExpires
  BY <1>16 DEF PointerExpires
<1>17. CASE UNCHANGED tokenVars
  BY <1>17 DEF tokenVars
<1>18. QED
  BY <1>1, <1>2, <1>3, <1>4, <1>5, <1>6, <1>7, <1>8, <1>9, <1>10, <1>11, <1>12, <1>13,
     <1>14, <1>15, <1>16, <1>17 DEF TokenNext

(* Every step keeps the invariant. *)
LEMMA TokenStepInv == TokenInv /\ [TokenNext]_tokenVars => TokenInv'
<1> SUFFICES ASSUME TokenInv, [TokenNext]_tokenVars PROVE TokenInv'
  OBVIOUS
<1>0. TokenTypes'
  BY TokenStepTypes DEF TokenInv
<1> DEFINE Rest == RedeemedIsGone /\ ReplacedIsPast /\ RedeemedOnce
<1> USE DEF TokenInv, RedeemedIsGone, ReplacedIsPast, RedeemedOnce, KeySet, Pointed, TokenTypes, RotationStep, Rotating, Answer, RotationPC
<1>1. ASSUME NEW t \in Tokens, CheckPointer(t) PROVE Rest'
  BY <1>1 DEF CheckPointer
<1>2. ASSUME NEW t \in Tokens, CheckKey(t) PROVE Rest'
  BY <1>2 DEF CheckKey
<1>3. ASSUME NEW t \in Tokens, ReadOld(t) PROVE Rest'
  BY <1>3 DEF ReadOld
<1>4. ASSUME NEW t \in Tokens, SetKey(t) PROVE Rest'
  BY <1>4 DEF SetKey
<1>5. ASSUME NEW t \in Tokens, SetCurrent(t) PROVE Rest'
  BY <1>5 DEF SetCurrent
<1>6. ASSUME NEW t \in Tokens, UndoKey(t) PROVE Rest'
  BY <1>6 DEF UndoKey
<1>7. ASSUME NEW t \in Tokens, DropOld(t) PROVE Rest'
  BY <1>7 DEF DropOld
<1>8. ASSUME NEW t \in Tokens, GiveUp(t) PROVE Rest'
  BY <1>8 DEF GiveUp, RotationPC
<1>9. ASSUME NEW t \in Tokens, KeyExpires(t) PROVE Rest'
  BY <1>9 DEF KeyExpires
<1>10. ASSUME NEW t \in Tokens, NEW r \in Streams, BeginStream(r, t) PROVE Rest'
  BY <1>10 DEF BeginStream
<1>11. ASSUME NEW r \in Streams, Redeem(r) PROVE Rest'
  BY <1>11 DEF Redeem
<1>12. CASE WipeScan
  BY <1>12 DEF WipeScan
<1>13. CASE WipePointer
  BY <1>13 DEF WipePointer
<1>14. CASE WipeTokens
  BY <1>14 DEF WipeTokens
<1>15. CASE RowEnds
  BY <1>15 DEF RowEnds
<1>16. CASE PointerExpires
  BY <1>16 DEF PointerExpires
<1>17. CASE UNCHANGED tokenVars
  BY <1>17 DEF tokenVars
<1>18. QED
  BY <1>0, <1>1, <1>2, <1>3, <1>4, <1>5, <1>6, <1>7, <1>8, <1>9, <1>10, <1>11, <1>12, <1>13,
     <1>14, <1>15, <1>16, <1>17 DEF TokenNext

(* The invariant holds in every reachable state. *)
LEMMA TokenInvariant == TokenSpec => []TokenInv
  BY TokenInitInv, TokenStepInv, PTL DEF TokenSpec

(* The keys, the pointer and the requests keep their types. *)
THEOREM TokenTypeOK == TokenSpec => []TokenTypes
<1>1. TokenInv => TokenTypes
  BY DEF TokenInv
<1>2. QED
  BY <1>1, TokenInvariant, PTL

(* At most one request is let through with a token. *)
THEOREM TokenRedeemedOnce == TokenSpec => []RedeemedOnce
<1>1. TokenInv => RedeemedOnce
  BY DEF TokenInv
<1>2. QED
  BY <1>1, TokenInvariant, PTL

(* No request is let through with a token that another took over from. *)
THEOREM TokenReplacedRefused == TokenSpec => ReplacedRefused
<1>1. TokenInv /\ [TokenNext]_tokenVars =>
        [\A r \in Streams :
            stream[r].pc # "accepted" /\ stream'[r].pc = "accepted" => stream[r].token \notin replaced]_tokenVars
  <2> SUFFICES ASSUME TokenInv, TokenNext, NEW r \in Streams, stream[r].pc # "accepted", stream'[r].pc = "accepted"
               PROVE stream[r].token \notin replaced
    BY DEF tokenVars
  <2>1. PICK q \in Streams : Redeem(q)
    BY DEF TokenNext, TokenInv, TokenTypes, CheckPointer, CheckKey, ReadOld, SetKey, SetCurrent, UndoKey, DropOld, GiveUp, RotationStep,
           KeyExpires, BeginStream, WipeScan, WipePointer, WipeTokens, RowEnds, PointerExpires
  <2>2. q = r /\ current = stream[r].token
    BY <2>1 DEF Redeem, Answer, TokenInv, TokenTypes
  <2>3. QED
    BY <2>2 DEF TokenInv, ReplacedIsPast
<1>2. QED
  BY <1>1, TokenInvariant, PTL DEF TokenSpec, ReplacedRefused

-----------------------------------------------------------------------------
(* X accounts                                                              *)

Refreshing == {r \in Refreshers : refresher[r].pc = "save"}

\* The token a refresh got is known to nobody else until it is saved.
RefreshedIsSecret ==
    /\ account.token <= valid[account.grant]
    /\ \A r \in Refreshers : refresher[r].pc = "ask" =>
          refresher[r].has.token <= valid[refresher[r].has.grant]
    /\ \A r \in Refreshing :
          /\ refresher[r].has.token = valid[refresher[r].has.grant]
          /\ account.grant = refresher[r].has.grant => account.token < valid[account.grant]
          /\ \A q \in Refreshers :
                q # r /\ refresher[q].pc # "idle" /\ refresher[q].has.grant = refresher[r].has.grant =>
                    refresher[q].pc = "ask" /\ refresher[q].has.token < valid[refresher[r].has.grant]

\* Nor is a grant before the callback that got it has saved it.
GrantIsSecret ==
    \A c \in Callbacks : callback[c].pc = "save" =>
        /\ valid[callback[c].state] = 1
        /\ account.grant # callback[c].state
        /\ \A r \in Refreshers :
              refresher[r].pc # "idle" => refresher[r].has.grant # callback[c].state
        /\ \A d \in Callbacks :
              d # c /\ callback[d].pc = "save" => callback[d].state # callback[c].state

StateIsConsumed ==
    \A c \in Callbacks : callback[c].pc \notin {"idle", "refused"} => pending[callback[c].state] = "gone"

AccountInv ==
    /\ AccountTypeOK /\ RefreshedIsSecret /\ GrantIsSecret
    /\ StateIsConsumed /\ SavedTokenUsable

(* The initial state: one grant, its first token saved, nobody at work. *)
LEMMA AccountInitInv == AccountInit => AccountInv
<1> SUFFICES ASSUME NEW state \in [Callbacks -> States], AccountInitAs(state) PROVE AccountInv
  BY DEF AccountInit
<1>1. AccountTypeOK
  <2>1. account \in Credentials
    BY AccountAssumption DEF AccountInitAs, Credentials, Grants
  <2>2. valid \in [Grants -> 0..MaxRefresh]
    BY AccountAssumption DEF AccountInitAs
  <2> QED
    BY <2>1, <2>2 DEF AccountInitAs, AccountTypeOK
<1>2. RefreshedIsSecret /\ GrantIsSecret
  BY DEF AccountInitAs, RefreshedIsSecret, GrantIsSecret, Refreshing, Grants
<1>3. StateIsConsumed /\ SavedTokenUsable
  BY DEF AccountInitAs, StateIsConsumed, SavedTokenUsable, SavedIsValid, StateUsedOnce, Grants
<1> QED
  BY <1>1, <1>2, <1>3 DEF AccountInv

(* A refresh that X accepts gives the next token to the refresher, or to nobody. *)
LEMMA RefreshedOrLost ==
  ASSUME AccountTypeOK, NEW r \in Refreshers, Refresh(r)
  PROVE  LET has == refresher[r].has IN
         \/ refresher' = [refresher EXCEPT ![r] =
                [pc |-> "save", has |-> [grant |-> has.grant, token |-> has.token + 1]]]
         \/ refresher' = [refresher EXCEPT ![r] = [pc |-> "idle", has |-> has]]
<1>1. refresher[r] \in [pc : {"idle", "ask", "save"}, has : Credentials]
  BY DEF AccountTypeOK
<1>2. [refresher[r].has EXCEPT !.token = @ + 1] =
         [grant |-> refresher[r].has.grant, token |-> refresher[r].has.token + 1]
  BY <1>1 DEF Credentials
<1>3. [refresher[r] EXCEPT !.pc = "idle"] = [pc |-> "idle", has |-> refresher[r].has]
  BY <1>1 DEF Credentials
<1> QED
  BY <1>2, <1>3 DEF Refresh, AccountTypeOK

(* Every step of a connection, a callback or a refresh keeps the types. *)
LEMMA AccountStepTypes == AccountTypeOK /\ [AccountNext]_xVars => AccountTypeOK'
<1> SUFFICES ASSUME AccountTypeOK, [AccountNext]_xVars PROVE AccountTypeOK'
  OBVIOUS
<1> USE AccountAssumption DEF AccountTypeOK, Credentials, Grants
<1>1. ASSUME NEW s \in States, StartXOAuth2(s) \/ StateExpires(s) PROVE AccountTypeOK'
  BY <1>1 DEF StartXOAuth2, StateExpires
<1>2. ASSUME NEW c \in Callbacks, Consume(c) PROVE AccountTypeOK'
  BY <1>2 DEF Consume
<1>3. ASSUME NEW c \in Callbacks, Exchange(c) PROVE AccountTypeOK'
  <2>1. valid' \in [Grants -> 0..MaxRefresh]
    BY <1>3 DEF Exchange
  <2>2. callback' \in [Callbacks -> [pc : {"idle", "refused", "exchange", "save", "done"}, state : States]]
    BY <1>3 DEF Exchange
  <2> QED
    BY <1>3, <2>1, <2>2 DEF Exchange
<1>4. ASSUME NEW c \in Callbacks, saveXOAuth2Account(c) PROVE AccountTypeOK'
  BY <1>4 DEF saveXOAuth2Account
<1>5. ASSUME NEW r \in Refreshers, BeginRefresh(r) PROVE AccountTypeOK'
  BY <1>5 DEF BeginRefresh
<1>6. ASSUME NEW r \in Refreshers, Refused(r) PROVE AccountTypeOK'
  BY <1>6 DEF Refused
<1>7. ASSUME NEW r \in Refreshers, Refresh(r) PROVE AccountTypeOK'
  <2> DEFINE has == refresher[r].has
  <2>1. has \in Credentials /\ has.token + 1 \in 1..MaxRefresh /\ valid[has.grant] = has.token
    BY <1>7 DEF Refresh, Accepted
  <2>2. valid' \in [Grants -> 0..MaxRefresh]
    BY <1>7, <2>1 DEF Refresh
  <2>3. refresher' \in [Refreshers -> [pc : {"idle", "ask", "save"}, has : Credentials]]
    BY <1>7, <2>1, RefreshedOrLost
  <2>4. lost' \in BOOLEAN
    BY <1>7 DEF Refresh
  <2> QED
    BY <1>7, <2>2, <2>3, <2>4 DEF Refresh
<1>8. ASSUME NEW r \in Refreshers, SaveRefreshed(r) PROVE AccountTypeOK'
  BY <1>8 DEF SaveRefreshed
<1>9. CASE UNCHANGED xVars
  BY <1>9 DEF xVars
<1> QED
  BY <1>1, <1>2, <1>3, <1>4, <1>5, <1>6, <1>7, <1>8, <1>9 DEF AccountNext

(* A state is consumed once, by one callback. *)
LEMMA AccountStepStates ==
  AccountTypeOK /\ StateIsConsumed /\ StateUsedOnce /\ [AccountNext]_xVars
    => StateIsConsumed' /\ StateUsedOnce'
<1> SUFFICES ASSUME AccountTypeOK, StateIsConsumed, StateUsedOnce, [AccountNext]_xVars
             PROVE StateIsConsumed' /\ StateUsedOnce'
  OBVIOUS
<1> USE DEF AccountTypeOK, StateIsConsumed, StateUsedOnce
<1>1. ASSUME NEW s \in States, StartXOAuth2(s) \/ StateExpires(s) PROVE StateIsConsumed' /\ StateUsedOnce'
  BY <1>1 DEF StartXOAuth2, StateExpires
<1>2. ASSUME NEW c \in Callbacks, Consume(c) PROVE StateIsConsumed' /\ StateUsedOnce'
  <2>1. CASE pending[callback[c].state] = "stored"
    BY <1>2, <2>1 DEF Consume
  <2>2. CASE pending[callback[c].state] # "stored"
    <3>1. /\ callback' = [callback EXCEPT ![c] = [pc |-> "refused", state |-> callback[c].state]]
          /\ pending' = pending
      BY <1>2, <2>2 DEF Consume
    <3> QED
      BY <3>1
  <2> QED
    BY <2>1, <2>2
<1>3. ASSUME NEW c \in Callbacks, Exchange(c) \/ saveXOAuth2Account(c)
      PROVE StateIsConsumed' /\ StateUsedOnce'
  <2>1. /\ pending' = pending
        /\ callback[c].pc \notin {"idle", "refused"}
        /\ \/ callback' = [callback EXCEPT ![c].pc = "save"]
           \/ callback' = [callback EXCEPT ![c].pc = "done"]
    <3>1. CASE Exchange(c)
      BY <3>1 DEF Exchange
    <3>2. CASE saveXOAuth2Account(c)
      BY <3>2 DEF saveXOAuth2Account
    <3> QED
      BY <1>3, <3>1, <3>2
  <2>2. \A d \in Callbacks : callback'[d].state = callback[d].state
    BY <2>1
  <2>3. \A d \in Callbacks : callback'[d].pc \notin {"idle", "refused"}
                             => callback[d].pc \notin {"idle", "refused"}
    BY <2>1
  <2>4. StateIsConsumed'
    BY <2>1, <2>2, <2>3
  <2> QED
    BY <2>2, <2>3, <2>4
<1>4. CASE UNCHANGED <<pending, callback>>
  BY <1>4
<1> QED
  BY <1>1, <1>2, <1>3, <1>4 DEF AccountNext, BeginRefresh, Refused, Refresh, SaveRefreshed, xVars

(* A refresh makes the token it used invalid for everybody else, and the token
   it got is only in its hands; so is a new grant in its callback's. *)
LEMMA AccountStepSecrets == AccountInv /\ [AccountNext]_xVars => (RefreshedIsSecret /\ GrantIsSecret)'
<1> SUFFICES ASSUME AccountInv, [AccountNext]_xVars PROVE (RefreshedIsSecret /\ GrantIsSecret)'
  OBVIOUS
<1> USE AccountAssumption DEF AccountInv, AccountTypeOK, Credentials, Grants, RefreshedIsSecret, GrantIsSecret,
    Refreshing
<1>1. ASSUME NEW s \in States, StartXOAuth2(s) \/ StateExpires(s)
      PROVE (RefreshedIsSecret /\ GrantIsSecret)'
  BY <1>1 DEF StartXOAuth2, StateExpires
<1>2. ASSUME NEW c \in Callbacks, Consume(c) PROVE (RefreshedIsSecret /\ GrantIsSecret)'
  BY <1>2 DEF Consume
<1>3. ASSUME NEW c \in Callbacks, Exchange(c) PROVE (RefreshedIsSecret /\ GrantIsSecret)'
  <2> DEFINE s == callback[c].state
  <2>1. CASE valid' = valid /\ callback' = [callback EXCEPT ![c].pc = "done"]
    BY <1>3, <2>1 DEF Exchange
  <2>2. CASE /\ valid[s] = 0 /\ valid' = [valid EXCEPT ![s] = 1]
             /\ callback' = [callback EXCEPT ![c].pc = "save"]
    <3>1. account.grant # s
      BY <2>2
    <3>2. \A r \in Refreshers : refresher[r].pc # "idle" => refresher[r].has.grant # s
      BY <2>2
    <3>3. \A d \in Callbacks : callback[d].pc = "save" => callback[d].state # s
      BY <2>2
    <3>4. RefreshedIsSecret'
      BY <1>3, <2>2, <3>1, <3>2 DEF Exchange
    <3>5. GrantIsSecret'
      BY <1>3, <2>2, <3>1, <3>2, <3>3 DEF Exchange
    <3> QED
      BY <3>4, <3>5
  <2> QED
    BY <1>3, <2>1, <2>2 DEF Exchange
<1>4. ASSUME NEW c \in Callbacks, saveXOAuth2Account(c) PROVE (RefreshedIsSecret /\ GrantIsSecret)'
  BY <1>4 DEF saveXOAuth2Account
<1>5. ASSUME NEW r \in Refreshers, BeginRefresh(r) PROVE (RefreshedIsSecret /\ GrantIsSecret)'
  BY <1>5 DEF BeginRefresh
<1>6. ASSUME NEW r \in Refreshers, Refused(r) PROVE (RefreshedIsSecret /\ GrantIsSecret)'
  BY <1>6 DEF Refused
<1>7. ASSUME NEW r \in Refreshers, Refresh(r) PROVE (RefreshedIsSecret /\ GrantIsSecret)'
  <2> DEFINE g == refresher[r].has.grant
  <2>1. /\ g \in Grants /\ refresher[r].pc = "ask" /\ refresher[r].has.token = valid[g]
        /\ valid' = [valid EXCEPT ![g] = @ + 1]
        /\ UNCHANGED <<pending, account, callback>>
        /\ \/ refresher' = [refresher EXCEPT ![r] =
                  [pc |-> "save", has |-> [grant |-> g, token |-> valid[g] + 1]]]
           \/ refresher' = [refresher EXCEPT ![r] = [pc |-> "idle", has |-> refresher[r].has]]
    BY <1>7, RefreshedOrLost DEF Refresh, Accepted
  <2>2. \A q \in Refreshing : refresher[q].has.grant # g
    BY <2>1
  <2>3. RefreshedIsSecret'
    <3>1. \A h \in Grants : valid'[h] = IF h = g THEN valid[g] + 1 ELSE valid[h]
      BY <2>1
    <3>2. account.token <= valid[account.grant]
      BY <2>1
    <3>3. \A q \in Refreshers : q # r => refresher'[q] = refresher[q]
      BY <2>1
    <3>4. \/ refresher'[r] = [pc |-> "save", has |-> [grant |-> g, token |-> valid'[g]]]
          \/ refresher'[r].pc = "idle"
      BY <2>1, <3>1
    <3>5. account' = account /\ account'.token <= valid'[account'.grant]
      BY <2>1, <3>1, <3>2
    <3>6. ASSUME NEW q \in Refreshers, refresher'[q].pc = "ask"
          PROVE refresher'[q].has.token <= valid'[refresher'[q].has.grant]
      <4>1. q # r
        BY <3>4, <3>6
      <4> QED
        BY <3>1, <3>3, <3>6, <4>1
    <3>7. ASSUME NEW q \in Refreshers, refresher'[q].pc = "save"
          PROVE /\ refresher'[q].has.token = valid'[refresher'[q].has.grant]
                /\ account.grant = refresher'[q].has.grant => account.token < valid'[account.grant]
                /\ \A p \in Refreshers :
                      p # q /\ refresher'[p].pc # "idle" /\ refresher'[p].has.grant = refresher'[q].has.grant =>
                          refresher'[p].pc = "ask" /\ refresher'[p].has.token < valid'[refresher'[q].has.grant]
      <4>1. CASE q = r
        <5>1. refresher'[q].has.grant = g /\ refresher'[q].has.token = valid'[g]
          BY <3>4, <3>7, <4>1
        <5>2. valid[g] \in Nat /\ valid'[g] = valid[g] + 1
          BY <2>1, <3>1
        <5>3. account.grant = g => account.token < valid'[account.grant]
          BY <2>1, <3>1, <3>2
        <5>4. ASSUME NEW p \in Refreshers, p # r, refresher'[p].pc # "idle", refresher'[p].has.grant = g
              PROVE refresher'[p].pc = "ask" /\ refresher'[p].has.token < valid'[g]
          <6>1. refresher'[p] = refresher[p] /\ refresher[p].has.token \in Nat
            BY <3>3, <5>4
          <6>2. refresher[p].pc = "ask"
            BY <2>2, <5>4, <6>1
          <6> QED
            BY <5>2, <5>4, <6>1, <6>2
        <5> QED
          BY <4>1, <5>1, <5>3, <5>4
      <4>2. CASE q # r
        <5>1. refresher'[q] = refresher[q] /\ q \in Refreshing
          BY <3>3, <3>7, <4>2
        <5>2. LET h == refresher[q].has.grant IN h \in Grants /\ h # g /\ valid'[h] = valid[h]
          BY <2>2, <3>1, <5>1
        <5>3. ASSUME NEW p \in Refreshers, p # q, refresher'[p].pc # "idle",
                     refresher'[p].has.grant = refresher[q].has.grant
              PROVE refresher'[p] = refresher[p]
          BY <3>3, <3>4, <5>2, <5>3
        <5> QED
          BY <5>1, <5>2, <5>3
      <4> QED
        BY <4>1, <4>2
    <3> QED
      BY <3>5, <3>6, <3>7
  <2>4. GrantIsSecret'
    BY <2>1
  <2> QED
    BY <2>3, <2>4
<1>8. ASSUME NEW r \in Refreshers, SaveRefreshed(r) PROVE (RefreshedIsSecret /\ GrantIsSecret)'
  BY <1>8 DEF SaveRefreshed
<1>9. CASE UNCHANGED xVars
  BY <1>9 DEF xVars
<1> QED
  BY <1>1, <1>2, <1>3, <1>4, <1>5, <1>6, <1>7, <1>8, <1>9 DEF AccountNext

(* Who has the valid token saves it, or it is lost. *)
LEMMA AccountStepSaved == AccountInv /\ [AccountNext]_xVars => SavedIsValid'
<1> SUFFICES ASSUME AccountInv, [AccountNext]_xVars PROVE SavedIsValid'
  OBVIOUS
<1> USE DEF AccountInv, AccountTypeOK, Credentials, Grants, SavedTokenUsable, SavedIsValid
<1>1. ASSUME NEW c \in Callbacks, Exchange(c) PROVE SavedIsValid'
  BY <1>1 DEF Exchange, RefreshedIsSecret
<1>2. ASSUME NEW c \in Callbacks, saveXOAuth2Account(c) PROVE SavedIsValid'
  BY <1>2 DEF saveXOAuth2Account, GrantIsSecret
<1>3. ASSUME NEW r \in Refreshers, BeginRefresh(r) \/ Refused(r) PROVE SavedIsValid'
  BY <1>3 DEF BeginRefresh, Refused
<1>4. ASSUME NEW r \in Refreshers, Refresh(r) PROVE SavedIsValid'
  BY <1>4 DEF Refresh, Accepted
<1>5. ASSUME NEW r \in Refreshers, SaveRefreshed(r) PROVE SavedIsValid'
  BY <1>5 DEF SaveRefreshed, RefreshedIsSecret, Refreshing
<1>6. CASE UNCHANGED <<account, valid, refresher, lost>>
  BY <1>6
<1> QED
  BY <1>1, <1>2, <1>3, <1>4, <1>5, <1>6 DEF AccountNext, StartXOAuth2, StateExpires, Consume, xVars

(* The invariant of an account holds in every behaviour. *)
LEMMA AccountInvariant == AccountSpec => []AccountInv
<1>1. AccountInv /\ [AccountNext]_xVars => AccountInv'
  BY AccountStepTypes, AccountStepStates, AccountStepSecrets, AccountStepSaved
     DEF AccountInv, SavedTokenUsable
<1> QED
  BY <1>1, AccountInitInv, PTL DEF AccountSpec

(* The refresh token saved is the valid one, or about to be saved, unless it
   was lost, and a state passes one callback: for any number of connections,
   callbacks and refreshes side by side. *)
THEOREM AccountKeepsToken == AccountSpec => []SavedTokenUsable
<1>1. AccountInv => SavedTokenUsable
  BY DEF AccountInv
<1> QED
  BY <1>1, AccountInvariant, PTL
-----------------------------------------------------------------------------
(* Remote browser sessions                                                 *)

\* The statuses a start goes through before its row is there, and those it fails with.
BeforeRow == {"idle", "blocked", "suspecting", "expelling", "retrying", "locked", "counting", "counted",
              "failed", "refused"}

Absent(s) == live[s] = Gone /\ s \notin sweepable /\ s \notin browser

Uncounted(s) == \A k \in Scopes : s \notin quota[k]

\* Who works on a session has one: a start on the session it found dead, a request on one that
\* was answered, which no start touches any more, the sweep on one whose time is over.
SessionsInHand ==
    /\ \A s \in SessionIDs : start[s].pc \in {"suspecting", "expelling"} => start[s].victim \in SessionIDs
    /\ \A c \in Calls :
          /\ call[c].pc \notin {"idle", "done"} => call[c].session \in SessionIDs
          /\ call[c].session \in SessionIDs => start[call[c].session].pc = "done"
    /\ sweep.pc # "idle" => sweep.session \in expired

\* Before the row is there nothing is stored but the lock and places in the quota.
StartsAreTidy ==
    \A s \in SessionIDs : start[s].pc \in BeforeRow =>
        /\ Absent(s)
        /\ start[s].pc \notin {"locked", "counting", "counted"} => lock # s
        /\ start[s].pc \notin {"counting", "counted"} => Uncounted(s)

SessionInv == SessionTypeOK /\ SessionsInHand /\ StartsAreTidy

(* At first nobody has a session and nothing is stored. *)
LEMMA SessionInitInv == SessionInit => SessionInv
  BY SessionAssumption
     DEF SessionInit, SessionInv, SessionTypeOK, SessionsInHand, StartsAreTidy, Absent, Uncounted, Statuses,
         Live, Gone, Start, StartPC, Call, CallPC, Sweep

(* A step of a start changes its own record only, and of it the place alone. *)
LEMMA StartMoves ==
  ASSUME SessionTypeOK, NEW s \in SessionIDs, NEW pc \in StartPC, Goto(s, pc)
  PROVE  /\ start' \in [SessionIDs -> Start]
         /\ start'[s].pc = pc /\ start'[s].victim = start[s].victim
         /\ \A o \in SessionIDs : o # s => start'[o] = start[o]
  BY DEF Goto, SessionTypeOK, Start

(* A step of a start that also says whom it has found. *)
LEMMA StartTurns ==
  ASSUME SessionTypeOK, NEW s \in SessionIDs, NEW pc \in StartPC, NEW v \in SessionIDs \cup {NoSession},
         start' = [start EXCEPT ![s] = [@ EXCEPT !.pc = pc, !.victim = v]]
  PROVE  /\ start' \in [SessionIDs -> Start]
         /\ start'[s].pc = pc /\ start'[s].victim = v
         /\ \A o \in SessionIDs : o # s => start'[o] = start[o]
  BY DEF SessionTypeOK, Start

(* A step of a call changes its own record only, and of it the place alone. *)
LEMMA CallMoves ==
  ASSUME SessionTypeOK, NEW c \in Calls, NEW pc \in CallPC, CallGoto(c, pc)
  PROVE  /\ call' \in [Calls -> Call]
         /\ call'[c].pc = pc /\ call'[c].session = call[c].session
         /\ \A o \in Calls : o # c => call'[o] = call[o]
  BY DEF CallGoto, SessionTypeOK, Call

(* What the steps of a start do to its own record. *)
LEMMA InspectMoves ==
  ASSUME SessionTypeOK, NEW s \in SessionIDs, InspectOwner(s)
  PROVE  /\ start' \in [SessionIDs -> Start]
         /\ start[s].pc = "blocked"
         /\ start'[s].pc \in {"retrying", "refused", "expelling", "suspecting"}
         /\ start'[s].pc \in {"expelling", "suspecting"} => start'[s].victim \in SessionIDs
         /\ \A o \in SessionIDs : o # s => start'[o] = start[o]
<1>1. CASE \E pc \in {"retrying", "refused"} : Goto(s, pc)
  BY <1>1, StartMoves DEF StartPC, InspectOwner, At
<1>2. CASE \E pc \in {"expelling", "suspecting"} :
             start' = [start EXCEPT ![s] = [@ EXCEPT !.pc = pc, !.victim = lock]] /\ lock # NoSession
  <2>1. start[s].pc = "blocked" /\ lock \in SessionIDs
    BY <1>2 DEF InspectOwner, At, SessionTypeOK
  <2> QED
    BY <1>2, <2>1, StartTurns DEF StartPC
<1> QED
  BY <1>1, <1>2 DEF InspectOwner

(* A start that has asked the worker of the owner is refused, or goes on to expel it. *)
LEMMA ProbeMoves ==
  ASSUME SessionTypeOK, NEW s \in SessionIDs, ProbeOwner(s)
  PROVE  /\ start' \in [SessionIDs -> Start]
         /\ start[s].pc = "suspecting"
         /\ start'[s].pc \in {"refused", "expelling"} /\ start'[s].victim = start[s].victim
         /\ \A o \in SessionIDs : o # s => start'[o] = start[o]
<1>1. \E pc \in {"refused", "expelling"} : Goto(s, pc)
  BY DEF ProbeOwner
<1> QED
  BY <1>1, StartMoves DEF StartPC, ProbeOwner, At

(* A start that expels the owner of the lock tries again, or is refused when a query fails. *)
LEMMA ExpelMoves ==
  ASSUME SessionTypeOK, NEW s \in SessionIDs, ExpelOwner(s)
  PROVE  /\ start' \in [SessionIDs -> Start]
         /\ start[s].pc = "expelling"
         /\ start'[s].pc \in {"refused", "retrying"}
         /\ \A o \in SessionIDs : o # s => start'[o] = start[o]
<1>1. CASE Goto(s, "refused")
  BY <1>1, StartMoves DEF StartPC, ExpelOwner, At
<1>2. CASE start' = [start EXCEPT ![s] = [@ EXCEPT !.pc = "retrying", !.victim = NoSession]]
  BY <1>2, StartTurns DEF StartPC, ExpelOwner, At
<1> QED
  BY <1>1, <1>2 DEF ExpelOwner

(* A start takes its place in a scope, or gives up with whatever it has. *)
LEMMA QuotaMoves ==
  ASSUME SessionTypeOK, NEW s \in SessionIDs, AcquireQuota(s)
  PROVE  /\ start' \in [SessionIDs -> Start]
         /\ start[s].pc = "counting"
         /\ start'[s].pc \in {"counting", "counted", "failed"}
         /\ start'[s].pc = "failed" => lock' = LockWithout(s) /\ \A k \in Scopes : quota'[k] \subseteq quota[k] \ {s}
         /\ start'[s].pc # "failed" => lock' = lock /\ \A k \in Scopes : quota'[k] \subseteq quota[k] \cup {s}
         /\ quota' \in [Scopes -> SUBSET SessionIDs]
         /\ \A o \in SessionIDs : o # s => start'[o] = start[o]
<1> DEFINE k == start[s].scope
           n == IF k + 1 \in Scopes THEN k + 1 ELSE k
           to == IF k + 1 \in Scopes THEN "counting" ELSE "counted"
<1>0. start[s] \in Start /\ k \in Nat /\ n \in Nat /\ to \in {"counting", "counted"} /\ start[s].pc = "counting"
  BY SessionAssumption DEF SessionTypeOK, Start, AcquireQuota, At
<1>1. CASE ~OverLimit(s)
  <2>1. start' = [start EXCEPT ![s] = [@ EXCEPT !.scope = n, !.pc = to]]
        /\ quota' = [quota EXCEPT ![k] = Counted(s)] /\ lock' = lock
    BY <1>1 DEF AcquireQuota
  <2> HIDE DEF n, to
  <2>2. [start[s] EXCEPT !.scope = n, !.pc = to] \in Start
    BY <1>0 DEF Start, StartPC
  <2>3. start' \in [SessionIDs -> Start] /\ start'[s].pc = to /\ \A o \in SessionIDs : o # s => start'[o] = start[o]
    BY <1>0, <2>1, <2>2 DEF SessionTypeOK, Start
  <2>4. \A q \in Scopes : quota'[q] \subseteq quota[q] \cup {s}
    BY <2>1 DEF Counted, SessionTypeOK
  <2> QED
    BY <1>0, <2>1, <2>3, <2>4 DEF SessionTypeOK
<1>2. CASE OverLimit(s)
  <2>1. Goto(s, "failed") /\ lock' = LockWithout(s) /\ quota' = [QuotaWithout(s) EXCEPT ![k] = Counted(s) \ {s}]
    BY <1>2 DEF AcquireQuota
  <2>2. \A q \in Scopes : quota'[q] \subseteq quota[q] \ {s}
    BY <2>1 DEF Counted, QuotaWithout, SessionTypeOK
  <2>3. quota' \in [Scopes -> SUBSET SessionIDs]
    BY <2>1 DEF Counted, QuotaWithout, SessionTypeOK
  <2> QED
    BY <1>0, <2>1, <2>2, <2>3, StartMoves DEF StartPC
<1> QED
  BY <1>1, <1>2

(* The process of a start goes down. *)
LEMMA CrashMoves ==
  ASSUME SessionTypeOK, NEW s \in SessionIDs, CrashStart(s)
  PROVE  start' \in [SessionIDs -> Start]
  BY StartTurns DEF CrashStart, StartPC

(* The steps of a start that looks for the owner of the lock. *)
LEMMA OwnerStep ==
  ASSUME SessionInv, NEW s \in SessionIDs, InspectOwner(s) \/ ProbeOwner(s) \/ ExpelOwner(s)
  PROVE  SessionInv'
<1> USE DEF SessionInv, SessionTypeOK
<1>1. CASE InspectOwner(s)
  <2>1. faults' \in 0 .. MaxFaults
    BY <1>1, SessionAssumption DEF InspectOwner, Fault
  <2>2. SessionTypeOK'
    BY <1>1, <2>1, InspectMoves DEF InspectOwner, redis
  <2>3. SessionsInHand'
    <3>1. \A o \in SessionIDs : start'[o].pc \in {"suspecting", "expelling"} => start'[o].victim \in SessionIDs
      BY <1>1, InspectMoves DEF SessionsInHand
    <3>2. \A o \in SessionIDs : start[o].pc = "done" => start'[o].pc = "done"
      BY <1>1, InspectMoves
    <3> QED
      BY <1>1, <3>1, <3>2 DEF InspectOwner, redis, SessionsInHand
  <2>4. StartsAreTidy'
    BY <1>1, InspectMoves DEF InspectOwner, redis, StartsAreTidy, BeforeRow, Absent, Uncounted
  <2> QED
    BY <2>2, <2>3, <2>4
<1>2. CASE ProbeOwner(s)
  <2>1. faults' \in 0 .. MaxFaults
    BY <1>2, SessionAssumption DEF ProbeOwner, Fault
  <2>2. SessionTypeOK'
    BY <1>2, <2>1, ProbeMoves DEF ProbeOwner, redis
  <2>3. SessionsInHand'
    BY <1>2, ProbeMoves DEF ProbeOwner, redis, SessionsInHand
  <2>4. StartsAreTidy'
    BY <1>2, ProbeMoves DEF ProbeOwner, redis, StartsAreTidy, BeforeRow, Absent, Uncounted
  <2> QED
    BY <2>2, <2>3, <2>4
<1>3. CASE ExpelOwner(s)
  <2>0. start[s].victim \in SessionIDs
    BY <1>3, ExpelMoves DEF SessionsInHand
  <2>1. faults' \in 0 .. MaxFaults
    BY <1>3, SessionAssumption DEF ExpelOwner, Fault
  <2>2. row' \in [SessionIDs -> Statuses \cup {"none"}] /\ lock' \in SessionIDs \cup {NoSession}
        /\ quota' \in [Scopes -> SUBSET SessionIDs] /\ live' \in [SessionIDs -> Live \cup {Gone}] /\ sweepable' \subseteq SessionIDs
    BY <1>3, <2>0 DEF ExpelOwner, CleanupRedis, LockWithout, QuotaWithout, redis, Statuses, Terminal
  <2>3. SessionTypeOK'
    BY <1>3, <2>1, <2>2, ExpelMoves DEF ExpelOwner
  <2>4. SessionsInHand'
    BY <1>3, ExpelMoves DEF ExpelOwner, SessionsInHand
  <2>5. \A o \in SessionIDs : /\ live'[o] \in {live[o], Gone} /\ (o \in sweepable' => o \in sweepable)
                              /\ (lock' = o => lock = o) /\ \A k \in Scopes : o \in quota'[k] => o \in quota[k]
    BY <1>3, <2>0, SessionAssumption DEF ExpelOwner, CleanupRedis, LockWithout, QuotaWithout, redis
  <2>6. StartsAreTidy'
    BY <1>3, <2>5, ExpelMoves DEF ExpelOwner, StartsAreTidy, BeforeRow, Absent, Uncounted
  <2> QED
    BY <2>3, <2>4, <2>6
<1> QED
  BY <1>1, <1>2, <1>3

(* Counting a start in the quota keeps the invariant. *)
LEMMA QuotaStep ==
  ASSUME SessionInv, NEW s \in SessionIDs, AcquireQuota(s)
  PROVE  SessionInv'
<1> USE DEF SessionInv, SessionTypeOK
<1>1. SessionTypeOK'
  BY QuotaMoves DEF AcquireQuota, LockWithout
<1>2. SessionsInHand'
  <2>1. \A o \in SessionIDs : start'[o].pc \in {"suspecting", "expelling"} => start'[o].victim \in SessionIDs
    BY QuotaMoves DEF SessionsInHand
  <2>2. \A o \in SessionIDs : start[o].pc = "done" => start'[o].pc = "done"
    BY QuotaMoves
  <2> QED
    BY <2>1, <2>2 DEF AcquireQuota, SessionsInHand
<1>3. \A o \in SessionIDs : o # s => (lock' = o => lock = o)
  BY QuotaMoves, SessionAssumption DEF LockWithout
<1>4. start'[s].pc = "failed" => lock' # s
  BY QuotaMoves, SessionAssumption DEF LockWithout
<1>5. StartsAreTidy'
  <2>1. ASSUME NEW o \in SessionIDs, start'[o].pc \in BeforeRow, o # s
        PROVE Absent(o)' /\ (start'[o].pc \notin {"locked", "counting", "counted"} => lock' # o)
              /\ (start'[o].pc \notin {"counting", "counted"} => Uncounted(o)')
    <3>1. start'[o] = start[o] /\ \A k \in Scopes : o \in quota'[k] => o \in quota[k]
      BY <2>1, QuotaMoves
    <3> QED
      BY <1>3, <2>1, <3>1 DEF AcquireQuota, StartsAreTidy, BeforeRow, Absent, Uncounted
  <2>2. Absent(s)'
    BY QuotaMoves DEF AcquireQuota, StartsAreTidy, BeforeRow, Absent
  <2>3. start'[s].pc \notin {"counting", "counted"} => lock' # s /\ Uncounted(s)'
    BY <1>4, QuotaMoves DEF Uncounted
  <2> QED
    BY <2>1, <2>2, <2>3, QuotaMoves DEF StartsAreTidy
<1> QED
  BY <1>1, <1>2, <1>5

(* The answer of the worker. *)
LEMMA WorkerAnswer ==
  ASSUME SessionInv, NEW c \in Calls, GetWorkerState(c)
  PROVE  SessionTypeOK' /\ SessionsInHand'
<1> USE DEF SessionInv, SessionTypeOK
<1>1. call[c].session \in SessionIDs
  BY DEF GetWorkerState, InCall, SessionsInHand
<1>2. \E pc \in {"cancel", "done", "getWrite"} : CallGoto(c, pc)
  BY DEF GetWorkerState, CancelIfExpired
<1>3. faults' \in 0 .. MaxFaults
  <2>1. UNCHANGED faults \/ Fault
    BY DEF GetWorkerState
  <2> QED
    BY <2>1, SessionAssumption DEF Fault
<1>4. row' \in [SessionIDs -> Statuses \cup {"none"}] /\ lock' \in SessionIDs \cup {NoSession}
      /\ quota' \in [Scopes -> SUBSET SessionIDs] /\ sweepable' \subseteq SessionIDs
  BY <1>1 DEF GetWorkerState, SaveLive, CleanupRedis, LockWithout, QuotaWithout, redis, Statuses, Terminal
<1>5. live' \in [SessionIDs -> Live \cup {Gone}]
  <2>1. \/ UNCHANGED live
        \/ \E l \in Live \cup {Gone} : live' = [live EXCEPT ![call[c].session] = l]
    BY DEF GetWorkerState, SaveLive, CleanupRedis, redis, Live
  <2> QED
    BY <1>1, <2>1
<1>6. /\ call' \in [Calls -> Call]
      /\ call'[c].session = call[c].session
      /\ \A o \in Calls : o # c => call'[o] = call[o]
  BY <1>2, CallMoves DEF CallPC
<1>7. SessionTypeOK'
  BY <1>3, <1>4, <1>5, <1>6 DEF GetWorkerState
<1>8. SessionsInHand'
  BY <1>1, <1>6 DEF GetWorkerState, SessionsInHand
<1> QED
  BY <1>7, <1>8

(* The other steps of a request, and its beginning. *)
LEMMA CallStepTypes ==
  ASSUME SessionInv, NEW c \in Calls,
         \/ GetWriteStatus(c) \/ MarkCapturing(c) \/ CaptureSession(c) \/ UndoCapturing(c) \/ SaveCookies(c)
         \/ MarkConnected(c) \/ CloseCompleted(c) \/ ReleaseCancelled(c) \/ MarkCancelled(c) \/ CrashCall(c)
  PROVE  SessionTypeOK'
<1> USE DEF SessionInv, SessionTypeOK
<1> DEFINE s == call[c].session
<1>1. s \in SessionIDs
  BY DEF SessionsInHand, InCall, GetWriteStatus, MarkCapturing, CaptureSession, UndoCapturing, SaveCookies,
         MarkConnected, CloseCompleted, ReleaseCancelled, MarkCancelled, CrashCall
<1> HIDE DEF s
<1>2. \E pc \in {"cancel", "done", "capture", "save", "undo", "connect", "close", "expire"} : CallGoto(c, pc)
  BY DEF CancelIfExpired, GetWriteStatus, MarkCapturing, CaptureSession, UndoCapturing, SaveCookies,
         MarkConnected, CloseCompleted, ReleaseCancelled, MarkCancelled, CrashCall
<1>3. call' \in [Calls -> Call]
  BY <1>2, CallMoves DEF CallPC
<1>4. row' \in [SessionIDs -> Statuses \cup {"none"}]
  <2>1. UNCHANGED row \/ \E status \in Statuses : row' = [row EXCEPT ![s] = status]
    BY DEF s, WriteStatus, redis, Statuses, ActiveStatuses, Terminal, GetWriteStatus, MarkCapturing,
           CaptureSession, UndoCapturing, SaveCookies, MarkConnected, CloseCompleted, ReleaseCancelled,
           MarkCancelled, CrashCall
  <2> QED
    BY <1>1, <2>1
<1>5. faults' \in 0 .. MaxFaults
  <2>1. UNCHANGED faults \/ Fault
    BY DEF GetWriteStatus, MarkCapturing, CaptureSession, UndoCapturing, SaveCookies, MarkConnected,
           CloseCompleted, ReleaseCancelled, MarkCancelled, CrashCall
  <2> QED
    BY <2>1, SessionAssumption DEF Fault
<1>6. /\ lock' \in SessionIDs \cup {NoSession} /\ quota' \in [Scopes -> SUBSET SessionIDs]
      /\ live' \in [SessionIDs -> Live \cup {Gone}] /\ sweepable' \subseteq SessionIDs
  <2>1. CASE UNCHANGED redis
    BY <2>1 DEF redis
  <2>2. CASE CleanupRedis(s)
    BY <1>1, <2>2 DEF CleanupRedis, LockWithout, QuotaWithout
  <2>3. CASE \E status \in Statuses : SaveLive(s, status, TRUE)
    <3>1. \E l \in Live : live' = [live EXCEPT ![s] = l]
      BY <2>3 DEF SaveLive, Live
    <3> QED
      BY <1>1, <2>3, <3>1 DEF SaveLive
  <2> QED
    BY <2>1, <2>2, <2>3
       DEF s, Statuses, ActiveStatuses, GetWriteStatus, MarkCapturing, CaptureSession, UndoCapturing, SaveCookies,
           MarkConnected, CloseCompleted, ReleaseCancelled, MarkCancelled, CrashCall
<1>7. UNCHANGED <<named, expired, start, sweep>> /\ browser' \subseteq browser
  BY DEF GetWriteStatus, MarkCapturing, CaptureSession, UndoCapturing, SaveCookies, MarkConnected,
         CloseCompleted, ReleaseCancelled, MarkCancelled, CrashCall
<1> QED
  BY <1>3, <1>4, <1>5, <1>6, <1>7

(* Calls that begin, and cancelled ones that end, keep the types. *)
LEMMA BeginStepTypes ==
  ASSUME SessionTypeOK, NEW c \in Calls, NEW s \in SessionIDs,
         BeginGet(c, s) \/ BeginComplete(c, s) \/ StopCancelled(c, s)
  PROVE  SessionTypeOK'
<1> USE DEF SessionTypeOK
<1>1. \E r \in Call : call' = [call EXCEPT ![c] = r]
  <2>1. CASE BeginGet(c, s)
    <3>1. CASE live[s] # Gone /\ live[s].ref
      <4>1. live[s].login \in BOOLEAN
        BY <3>1 DEF Live
      <4> QED
        BY <2>1, <3>1, <4>1 DEF BeginGet, Call, CallPC
    <3>2. CASE ~(live[s] # Gone /\ live[s].ref)
      <4>1. \E pc \in {"cancel", "done"} : call' = [call EXCEPT ![c] = [pc |-> pc, session |-> s, login |-> FALSE]]
        BY <2>1, <3>2 DEF BeginGet
      <4> QED
        BY <4>1 DEF Call, CallPC
    <3> QED
      BY <3>1, <3>2
  <2>2. CASE BeginComplete(c, s) \/ StopCancelled(c, s)
    BY <2>2 DEF BeginComplete, StopCancelled, Call, CallPC
  <2> QED
    BY <2>1, <2>2
<1>2. call' \in [Calls -> Call]
  BY <1>1
<1> QED
  BY <1>2 DEF BeginGet, BeginComplete, StopCancelled, redis


(* Every step keeps the types. *)
LEMMA SessionStepTypes == SessionInv /\ [SessionNext]_sessionVars => SessionTypeOK'
<1> SUFFICES ASSUME SessionInv, SessionTypeOK, SessionsInHand, [SessionNext]_sessionVars PROVE SessionTypeOK'
  BY DEF SessionInv
<1> USE SessionAssumption
    DEF SessionTypeOK, SessionsInHand, Statuses, Terminal, Live, Start, StartPC, Call, CallPC, Sweep,
        At, Goto, InCall, CallGoto
<1>1. ASSUME NEW s \in SessionIDs, AcquireActive(s) PROVE SessionTypeOK'
  BY <1>1 DEF AcquireActive
<1>2. ASSUME NEW s \in SessionIDs, InspectOwner(s) \/ ProbeOwner(s) \/ ExpelOwner(s) PROVE SessionTypeOK'
  BY <1>2, OwnerStep DEF SessionInv
<1>3. ASSUME NEW s \in SessionIDs, ExpireSuperseded(s) PROVE SessionTypeOK'
  BY <1>3 DEF ExpireSuperseded, Fault, LockWithout, redis, ActiveStatuses
<1>4. ASSUME NEW s \in SessionIDs, AcquireQuota(s) PROVE SessionTypeOK'
  BY <1>4, QuotaStep DEF SessionInv
<1>5. ASSUME NEW s \in SessionIDs, CreateRow(s) PROVE SessionTypeOK'
  <2>1. start' \in [SessionIDs -> Start]
    BY <1>5, StartMoves DEF CreateRow
  <2>2. row' \in [SessionIDs -> Statuses \cup {"none"}]
    BY <1>5 DEF CreateRow, WriteStatus, ActiveStatuses
  <2>3. faults' \in 0 .. MaxFaults
    BY <1>5 DEF CreateRow, Fault
  <2> QED
    BY <1>5, <2>1, <2>2, <2>3 DEF CreateRow, CleanupRedis, LockWithout, QuotaWithout, redis
<1>6. ASSUME NEW s \in SessionIDs, SavePending(s) PROVE SessionTypeOK'
  BY <1>6 DEF SavePending, SaveLive
<1>7. ASSUME NEW s \in SessionIDs, CreateWorkerSession(s) PROVE SessionTypeOK'
  BY <1>7 DEF CreateWorkerSession, Fault, GiveUpStart, WriteStatus, CleanupRedis, LockWithout, QuotaWithout, redis
<1>8. ASSUME NEW s \in SessionIDs, MarkReady(s) PROVE SessionTypeOK'
  <2>1. start' \in [SessionIDs -> Start]
    BY <1>8, StartMoves DEF MarkReady
  <2>2. row' \in [SessionIDs -> Statuses \cup {"none"}]
    BY <1>8 DEF MarkReady, WriteStatus, ActiveStatuses
  <2>3. faults' \in 0 .. MaxFaults
    BY <1>8 DEF MarkReady, Fault
  <2> QED
    BY <1>8, <2>1, <2>2, <2>3 DEF MarkReady, CleanupRedis, LockWithout, QuotaWithout, redis
<1>9. ASSUME NEW s \in SessionIDs, SaveReady(s) PROVE SessionTypeOK'
  BY <1>9 DEF SaveReady, SaveLive
<1>10. ASSUME NEW s \in SessionIDs, AnswerStart(s) PROVE SessionTypeOK'
  BY <1>10 DEF AnswerStart, Fault, GiveUpStart, WriteStatus, CleanupRedis, LockWithout, QuotaWithout, redis
<1>11. ASSUME NEW s \in SessionIDs, CrashStart(s) PROVE SessionTypeOK'
  <2>1. faults' \in 0 .. MaxFaults
    BY <1>11 DEF CrashStart, Fault
  <2> QED
    BY <1>11, <2>1, CrashMoves DEF CrashStart, redis
<1>12. ASSUME NEW s \in SessionIDs, WorkerSaves(s) PROVE SessionTypeOK'
  BY <1>12 DEF WorkerSaves
<1>13. ASSUME NEW s \in SessionIDs, WorkerSessionEnds(s) PROVE SessionTypeOK'
  BY <1>13 DEF WorkerSessionEnds, Fault, redis
<1>14. ASSUME NEW s \in SessionIDs, Expire(s) PROVE SessionTypeOK'
  BY <1>14 DEF Expire, Fault, redis
<1>15. ASSUME NEW s \in SessionIDs, KeysExpire(s) PROVE SessionTypeOK'
  BY <1>15 DEF KeysExpire, LockWithout, QuotaWithout
<1>16. ASSUME NEW s \in SessionIDs, SweepRead(s) PROVE SessionTypeOK'
  BY <1>16 DEF SweepRead, redis, SweepAt
<1>17. ASSUME NEW c \in Calls, CallStep(c) \/ CrashCall(c) PROVE SessionTypeOK'
  BY <1>17, WorkerAnswer, CallStepTypes DEF CallStep
<1>18. ASSUME NEW c \in Calls, NEW s \in SessionIDs, BeginGet(c, s) \/ BeginComplete(c, s) \/ StopCancelled(c, s)
       PROVE SessionTypeOK'
  BY <1>18, BeginStepTypes
<1>19. CASE SweepWrite
  BY <1>19 DEF SweepWrite, WriteStatus, SweepAt, redis
<1>20. CASE SweepClean
  BY <1>20 DEF SweepClean, CleanupRedis, LockWithout, QuotaWithout, SweepAt
<1>21. CASE SweepFails
  BY <1>21 DEF SweepFails, Fault, SweepAt, redis
<1>22. CASE UNCHANGED sessionVars
  BY <1>22 DEF sessionVars, redis
<1> QED
  BY <1>1, <1>2, <1>3, <1>4, <1>5, <1>6, <1>7, <1>8, <1>9, <1>10, <1>11, <1>12, <1>13, <1>14, <1>15, <1>16,
     <1>17, <1>18, <1>19, <1>20, <1>21, <1>22
     DEF SessionNext, StartStep, SweepStep

(* Every step leaves its session in hand. *)
LEMMA SessionStepInHand == SessionInv /\ [SessionNext]_sessionVars => SessionsInHand'
<1> SUFFICES ASSUME SessionInv, SessionTypeOK, SessionsInHand, [SessionNext]_sessionVars PROVE SessionsInHand'
  BY DEF SessionInv
<1> USE SessionAssumption
    DEF SessionTypeOK, SessionsInHand, Start, Call, Sweep, At, Goto, InCall, CallGoto
<1>1. ASSUME NEW s \in SessionIDs, AcquireActive(s) PROVE SessionsInHand'
  <2>1. \E pc \in {"locked", "blocked", "refused"} : Goto(s, pc)
    BY <1>1 DEF AcquireActive
  <2>2. start[s].pc \in {"idle", "retrying"}
    BY <1>1 DEF AcquireActive
  <2> QED
    BY <1>1, <2>1, <2>2 DEF AcquireActive
<1>2. ASSUME NEW s \in SessionIDs, InspectOwner(s) \/ ProbeOwner(s) \/ ExpelOwner(s) PROVE SessionsInHand'
  BY <1>2, OwnerStep DEF SessionInv
<1>3. ASSUME NEW s \in SessionIDs, ExpireSuperseded(s) PROVE SessionsInHand'
  BY <1>3 DEF ExpireSuperseded, Fault, LockWithout, redis, ActiveStatuses
<1>4. ASSUME NEW s \in SessionIDs, AcquireQuota(s) PROVE SessionsInHand'
  BY <1>4, QuotaStep DEF SessionInv
<1>5. ASSUME NEW s \in SessionIDs, CreateRow(s) PROVE SessionsInHand'
  BY <1>5 DEF CreateRow, Fault, WriteStatus, CleanupRedis, LockWithout, QuotaWithout, redis
<1>6. ASSUME NEW s \in SessionIDs, SavePending(s) PROVE SessionsInHand'
  BY <1>6 DEF SavePending, SaveLive
<1>7. ASSUME NEW s \in SessionIDs, CreateWorkerSession(s) PROVE SessionsInHand'
  BY <1>7 DEF CreateWorkerSession, Fault, GiveUpStart, WriteStatus, CleanupRedis, LockWithout, QuotaWithout, redis
<1>8. ASSUME NEW s \in SessionIDs, MarkReady(s) PROVE SessionsInHand'
  BY <1>8 DEF MarkReady, Fault, WriteStatus, CleanupRedis, LockWithout, QuotaWithout, redis
<1>9. ASSUME NEW s \in SessionIDs, SaveReady(s) PROVE SessionsInHand'
  BY <1>9 DEF SaveReady, SaveLive
<1>10. ASSUME NEW s \in SessionIDs, AnswerStart(s) PROVE SessionsInHand'
  BY <1>10 DEF AnswerStart, Fault, GiveUpStart, WriteStatus, CleanupRedis, LockWithout, QuotaWithout, redis
<1>11. ASSUME NEW s \in SessionIDs, CrashStart(s) PROVE SessionsInHand'
  BY <1>11 DEF CrashStart, Fault, redis
<1>12. ASSUME NEW s \in SessionIDs, WorkerSaves(s) PROVE SessionsInHand'
  BY <1>12 DEF WorkerSaves
<1>13. ASSUME NEW s \in SessionIDs, WorkerSessionEnds(s) PROVE SessionsInHand'
  BY <1>13 DEF WorkerSessionEnds, Fault, redis
<1>14. ASSUME NEW s \in SessionIDs, Expire(s) PROVE SessionsInHand'
  BY <1>14 DEF Expire, Fault, redis
<1>15. ASSUME NEW s \in SessionIDs, KeysExpire(s) PROVE SessionsInHand'
  BY <1>15 DEF KeysExpire, LockWithout, QuotaWithout
<1>16. ASSUME NEW s \in SessionIDs, SweepRead(s) PROVE SessionsInHand'
  BY <1>16 DEF SweepRead, redis, SweepAt
<1>17. ASSUME NEW c \in Calls, GetWorkerState(c) PROVE SessionsInHand'
  BY <1>17, WorkerAnswer
<1>18. ASSUME NEW c \in Calls, GetWriteStatus(c) PROVE SessionsInHand'
  BY <1>18 DEF GetWriteStatus, WriteStatus, CancelIfExpired, redis
<1>19. ASSUME NEW c \in Calls, MarkCapturing(c) PROVE SessionsInHand'
  BY <1>19 DEF MarkCapturing, WriteStatus, SaveLive
<1>20. ASSUME NEW c \in Calls, CaptureSession(c) PROVE SessionsInHand'
  BY <1>20 DEF CaptureSession, redis
<1>21. ASSUME NEW c \in Calls, UndoCapturing(c) PROVE SessionsInHand'
  BY <1>21 DEF UndoCapturing, WriteStatus, SaveLive
<1>22. ASSUME NEW c \in Calls, SaveCookies(c) PROVE SessionsInHand'
  BY <1>22 DEF SaveCookies, Fault, redis
<1>23. ASSUME NEW c \in Calls, MarkConnected(c) PROVE SessionsInHand'
  BY <1>23 DEF MarkConnected, WriteStatus, redis
<1>24. ASSUME NEW c \in Calls, CloseCompleted(c) PROVE SessionsInHand'
  BY <1>24 DEF CloseCompleted, CleanupRedis, LockWithout, QuotaWithout
<1>25. ASSUME NEW c \in Calls, ReleaseCancelled(c) PROVE SessionsInHand'
  BY <1>25 DEF ReleaseCancelled, CleanupRedis, LockWithout, QuotaWithout
<1>26. ASSUME NEW c \in Calls, MarkCancelled(c) PROVE SessionsInHand'
  BY <1>26 DEF MarkCancelled, WriteStatus, redis
<1>27. ASSUME NEW c \in Calls, CrashCall(c) PROVE SessionsInHand'
  BY <1>27 DEF CrashCall, Fault, redis
<1>28. ASSUME NEW c \in Calls, NEW s \in SessionIDs, BeginGet(c, s) PROVE SessionsInHand'
  BY <1>28 DEF BeginGet, redis
<1>29. ASSUME NEW c \in Calls, NEW s \in SessionIDs, BeginComplete(c, s) PROVE SessionsInHand'
  BY <1>29 DEF BeginComplete, redis
<1>30. ASSUME NEW c \in Calls, NEW s \in SessionIDs, StopCancelled(c, s) PROVE SessionsInHand'
  BY <1>30 DEF StopCancelled, redis
<1>31. CASE SweepWrite
  BY <1>31 DEF SweepWrite, WriteStatus, SweepAt, redis
<1>32. CASE SweepClean
  BY <1>32 DEF SweepClean, CleanupRedis, LockWithout, QuotaWithout, SweepAt
<1>33. CASE SweepFails
  BY <1>33 DEF SweepFails, Fault, SweepAt, redis
<1>34. CASE UNCHANGED sessionVars
  BY <1>34 DEF sessionVars, redis
<1> QED
  BY <1>1, <1>2, <1>3, <1>4, <1>5, <1>6, <1>7, <1>8, <1>9, <1>10, <1>11, <1>12, <1>13,
     <1>14, <1>15, <1>16, <1>17, <1>18, <1>19, <1>20, <1>21, <1>22, <1>23, <1>24,
     <1>25, <1>26, <1>27, <1>28, <1>29, <1>30, <1>31, <1>32, <1>33, <1>34
     DEF SessionNext, StartStep, CallStep, SweepStep

(* No step stores anything of a start that has no row, and a start that fails
   takes back what it had stored. *)
LEMMA SessionStepTidy == SessionInv /\ [SessionNext]_sessionVars => StartsAreTidy'
<1> SUFFICES ASSUME SessionInv, SessionTypeOK, SessionsInHand, StartsAreTidy, [SessionNext]_sessionVars
             PROVE StartsAreTidy'
  BY DEF SessionInv
<1> USE SessionAssumption
    DEF SessionTypeOK, SessionsInHand, StartsAreTidy, BeforeRow, Absent, Uncounted, Start, Call, Sweep,
        At, Goto, InCall, CallGoto
<1>1. ASSUME NEW s \in SessionIDs, AcquireActive(s) PROVE StartsAreTidy'
  BY <1>1 DEF AcquireActive
<1>2. ASSUME NEW s \in SessionIDs, InspectOwner(s) \/ ProbeOwner(s) \/ ExpelOwner(s) PROVE StartsAreTidy'
  BY <1>2, OwnerStep DEF SessionInv
<1>3. ASSUME NEW s \in SessionIDs, ExpireSuperseded(s) PROVE StartsAreTidy'
  BY <1>3 DEF ExpireSuperseded, Fault, LockWithout, redis, ActiveStatuses
<1>4. ASSUME NEW s \in SessionIDs, AcquireQuota(s) PROVE StartsAreTidy'
  BY <1>4, QuotaStep DEF SessionInv
<1>5. ASSUME NEW s \in SessionIDs, CreateRow(s) PROVE StartsAreTidy'
  BY <1>5 DEF CreateRow, Fault, WriteStatus, CleanupRedis, LockWithout, QuotaWithout, redis
<1>6. ASSUME NEW s \in SessionIDs, SavePending(s) PROVE StartsAreTidy'
  BY <1>6 DEF SavePending, SaveLive
<1>7. ASSUME NEW s \in SessionIDs, CreateWorkerSession(s) PROVE StartsAreTidy'
  BY <1>7 DEF CreateWorkerSession, Fault, GiveUpStart, WriteStatus, CleanupRedis, LockWithout, QuotaWithout, redis
<1>8. ASSUME NEW s \in SessionIDs, MarkReady(s) PROVE StartsAreTidy'
  BY <1>8 DEF MarkReady, Fault, WriteStatus, CleanupRedis, LockWithout, QuotaWithout, redis
<1>9. ASSUME NEW s \in SessionIDs, SaveReady(s) PROVE StartsAreTidy'
  BY <1>9 DEF SaveReady, SaveLive
<1>10. ASSUME NEW s \in SessionIDs, AnswerStart(s) PROVE StartsAreTidy'
  BY <1>10 DEF AnswerStart, Fault, GiveUpStart, WriteStatus, CleanupRedis, LockWithout, QuotaWithout, redis
<1>11. ASSUME NEW s \in SessionIDs, CrashStart(s) PROVE StartsAreTidy'
  BY <1>11 DEF CrashStart, Fault, redis
<1>12. ASSUME NEW s \in SessionIDs, WorkerSaves(s) PROVE StartsAreTidy'
  BY <1>12 DEF WorkerSaves
<1>13. ASSUME NEW s \in SessionIDs, WorkerSessionEnds(s) PROVE StartsAreTidy'
  BY <1>13 DEF WorkerSessionEnds, Fault, redis
<1>14. ASSUME NEW s \in SessionIDs, Expire(s) PROVE StartsAreTidy'
  BY <1>14 DEF Expire, Fault, redis
<1>15. ASSUME NEW s \in SessionIDs, KeysExpire(s) PROVE StartsAreTidy'
  BY <1>15 DEF KeysExpire, LockWithout, QuotaWithout
<1>16. ASSUME NEW s \in SessionIDs, SweepRead(s) PROVE StartsAreTidy'
  BY <1>16 DEF SweepRead, redis, SweepAt
<1>17. ASSUME NEW c \in Calls, GetWorkerState(c) PROVE StartsAreTidy'
  BY <1>17 DEF GetWorkerState, Fault, SaveLive, CancelIfExpired, CleanupRedis, LockWithout, QuotaWithout, redis
<1>18. ASSUME NEW c \in Calls, GetWriteStatus(c) PROVE StartsAreTidy'
  BY <1>18 DEF GetWriteStatus, WriteStatus, CancelIfExpired, redis
<1>19. ASSUME NEW c \in Calls, MarkCapturing(c) PROVE StartsAreTidy'
  BY <1>19 DEF MarkCapturing, WriteStatus, SaveLive
<1>20. ASSUME NEW c \in Calls, CaptureSession(c) PROVE StartsAreTidy'
  BY <1>20 DEF CaptureSession, redis
<1>21. ASSUME NEW c \in Calls, UndoCapturing(c) PROVE StartsAreTidy'
  BY <1>21 DEF UndoCapturing, WriteStatus, SaveLive
<1>22. ASSUME NEW c \in Calls, SaveCookies(c) PROVE StartsAreTidy'
  BY <1>22 DEF SaveCookies, Fault, redis
<1>23. ASSUME NEW c \in Calls, MarkConnected(c) PROVE StartsAreTidy'
  BY <1>23 DEF MarkConnected, WriteStatus, redis
<1>24. ASSUME NEW c \in Calls, CloseCompleted(c) PROVE StartsAreTidy'
  BY <1>24 DEF CloseCompleted, CleanupRedis, LockWithout, QuotaWithout
<1>25. ASSUME NEW c \in Calls, ReleaseCancelled(c) PROVE StartsAreTidy'
  BY <1>25 DEF ReleaseCancelled, CleanupRedis, LockWithout, QuotaWithout
<1>26. ASSUME NEW c \in Calls, MarkCancelled(c) PROVE StartsAreTidy'
  BY <1>26 DEF MarkCancelled, WriteStatus, redis
<1>27. ASSUME NEW c \in Calls, CrashCall(c) PROVE StartsAreTidy'
  BY <1>27 DEF CrashCall, Fault, redis
<1>28. ASSUME NEW c \in Calls, NEW s \in SessionIDs, BeginGet(c, s) PROVE StartsAreTidy'
  BY <1>28 DEF BeginGet, redis
<1>29. ASSUME NEW c \in Calls, NEW s \in SessionIDs, BeginComplete(c, s) PROVE StartsAreTidy'
  BY <1>29 DEF BeginComplete, redis
<1>30. ASSUME NEW c \in Calls, NEW s \in SessionIDs, StopCancelled(c, s) PROVE StartsAreTidy'
  BY <1>30 DEF StopCancelled, redis
<1>31. CASE SweepWrite
  BY <1>31 DEF SweepWrite, WriteStatus, SweepAt, redis
<1>32. CASE SweepClean
  BY <1>32 DEF SweepClean, CleanupRedis, LockWithout, QuotaWithout, SweepAt
<1>33. CASE SweepFails
  BY <1>33 DEF SweepFails, Fault, SweepAt, redis
<1>34. CASE UNCHANGED sessionVars
  BY <1>34 DEF sessionVars, redis
<1> QED
  BY <1>1, <1>2, <1>3, <1>4, <1>5, <1>6, <1>7, <1>8, <1>9, <1>10, <1>11, <1>12, <1>13,
     <1>14, <1>15, <1>16, <1>17, <1>18, <1>19, <1>20, <1>21, <1>22, <1>23, <1>24,
     <1>25, <1>26, <1>27, <1>28, <1>29, <1>30, <1>31, <1>32, <1>33, <1>34
     DEF SessionNext, StartStep, CallStep, SweepStep

(* A session loses the lock by a step of who has begun to end it. *)
LEMMA SessionStepLock ==
  SessionInv /\ [SessionNext]_sessionVars =>
    [\A s \in SessionIDs : lock = s /\ lock' # s => Ending(s)]_sessionVars
<1> SUFFICES ASSUME SessionInv, SessionTypeOK, SessionsInHand, [SessionNext]_sessionVars,
                    NEW o \in SessionIDs, lock = o, lock' # o
             PROVE Ending(o)
  BY DEF SessionInv
<1> USE SessionAssumption
    DEF SessionTypeOK, SessionsInHand, Start, Call, Sweep, At, Goto, InCall, CallGoto, Ending
<1>1. ASSUME NEW s \in SessionIDs, AcquireActive(s) PROVE Ending(o)
  BY <1>1 DEF AcquireActive
<1>2. ASSUME NEW s \in SessionIDs, InspectOwner(s) \/ ProbeOwner(s) \/ ExpelOwner(s) PROVE Ending(o)
  BY <1>2 DEF InspectOwner, ProbeOwner, ExpelOwner, CleanupRedis, LockWithout, redis
<1>3. ASSUME NEW s \in SessionIDs, ExpireSuperseded(s) PROVE Ending(o)
  BY <1>3 DEF ExpireSuperseded, Fault, LockWithout, redis, ActiveStatuses
<1>4. ASSUME NEW s \in SessionIDs, AcquireQuota(s) PROVE Ending(o)
  BY <1>4 DEF AcquireQuota, Counted, QuotaWithout, LockWithout
<1>5. ASSUME NEW s \in SessionIDs, CreateRow(s) PROVE Ending(o)
  BY <1>5 DEF CreateRow, Fault, WriteStatus, CleanupRedis, LockWithout, QuotaWithout, redis
<1>6. ASSUME NEW s \in SessionIDs, SavePending(s) PROVE Ending(o)
  BY <1>6 DEF SavePending, SaveLive
<1>7. ASSUME NEW s \in SessionIDs, CreateWorkerSession(s) PROVE Ending(o)
  BY <1>7 DEF CreateWorkerSession, Fault, GiveUpStart, WriteStatus, CleanupRedis, LockWithout, QuotaWithout, redis
<1>8. ASSUME NEW s \in SessionIDs, MarkReady(s) PROVE Ending(o)
  BY <1>8 DEF MarkReady, Fault, WriteStatus, CleanupRedis, LockWithout, QuotaWithout, redis
<1>9. ASSUME NEW s \in SessionIDs, SaveReady(s) PROVE Ending(o)
  BY <1>9 DEF SaveReady, SaveLive
<1>10. ASSUME NEW s \in SessionIDs, AnswerStart(s) PROVE Ending(o)
  BY <1>10 DEF AnswerStart, Fault, GiveUpStart, WriteStatus, CleanupRedis, LockWithout, QuotaWithout, redis
<1>11. ASSUME NEW s \in SessionIDs, CrashStart(s) PROVE Ending(o)
  BY <1>11 DEF CrashStart, Fault, redis
<1>12. ASSUME NEW s \in SessionIDs, WorkerSaves(s) PROVE Ending(o)
  BY <1>12 DEF WorkerSaves
<1>13. ASSUME NEW s \in SessionIDs, WorkerSessionEnds(s) PROVE Ending(o)
  BY <1>13 DEF WorkerSessionEnds, Fault, redis
<1>14. ASSUME NEW s \in SessionIDs, Expire(s) PROVE Ending(o)
  BY <1>14 DEF Expire, Fault, redis
<1>15. ASSUME NEW s \in SessionIDs, KeysExpire(s) PROVE Ending(o)
  BY <1>15 DEF KeysExpire, LockWithout, QuotaWithout
<1>16. ASSUME NEW s \in SessionIDs, SweepRead(s) PROVE Ending(o)
  BY <1>16 DEF SweepRead, redis, SweepAt
<1>17. ASSUME NEW c \in Calls, GetWorkerState(c) PROVE Ending(o)
  BY <1>17 DEF GetWorkerState, Fault, SaveLive, CancelIfExpired, CleanupRedis, LockWithout, QuotaWithout, redis
<1>18. ASSUME NEW c \in Calls, GetWriteStatus(c) PROVE Ending(o)
  BY <1>18 DEF GetWriteStatus, WriteStatus, CancelIfExpired, redis
<1>19. ASSUME NEW c \in Calls, MarkCapturing(c) PROVE Ending(o)
  BY <1>19 DEF MarkCapturing, WriteStatus, SaveLive
<1>20. ASSUME NEW c \in Calls, CaptureSession(c) PROVE Ending(o)
  BY <1>20 DEF CaptureSession, redis
<1>21. ASSUME NEW c \in Calls, UndoCapturing(c) PROVE Ending(o)
  BY <1>21 DEF UndoCapturing, WriteStatus, SaveLive
<1>22. ASSUME NEW c \in Calls, SaveCookies(c) PROVE Ending(o)
  BY <1>22 DEF SaveCookies, Fault, redis
<1>23. ASSUME NEW c \in Calls, MarkConnected(c) PROVE Ending(o)
  BY <1>23 DEF MarkConnected, WriteStatus, redis
<1>24. ASSUME NEW c \in Calls, CloseCompleted(c) PROVE Ending(o)
  BY <1>24 DEF CloseCompleted, CleanupRedis, LockWithout, QuotaWithout
<1>25. ASSUME NEW c \in Calls, ReleaseCancelled(c) PROVE Ending(o)
  BY <1>25 DEF ReleaseCancelled, CleanupRedis, LockWithout, QuotaWithout
<1>26. ASSUME NEW c \in Calls, MarkCancelled(c) PROVE Ending(o)
  BY <1>26 DEF MarkCancelled, WriteStatus, redis
<1>27. ASSUME NEW c \in Calls, CrashCall(c) PROVE Ending(o)
  BY <1>27 DEF CrashCall, Fault, redis
<1>28. ASSUME NEW c \in Calls, NEW s \in SessionIDs, BeginGet(c, s) PROVE Ending(o)
  BY <1>28 DEF BeginGet, redis
<1>29. ASSUME NEW c \in Calls, NEW s \in SessionIDs, BeginComplete(c, s) PROVE Ending(o)
  BY <1>29 DEF BeginComplete, redis
<1>30. ASSUME NEW c \in Calls, NEW s \in SessionIDs, StopCancelled(c, s) PROVE Ending(o)
  BY <1>30 DEF StopCancelled, redis
<1>31. CASE SweepWrite
  BY <1>31 DEF SweepWrite, WriteStatus, SweepAt, redis
<1>32. CASE SweepClean
  BY <1>32 DEF SweepClean, CleanupRedis, LockWithout, QuotaWithout, SweepAt
<1>33. CASE SweepFails
  BY <1>33 DEF SweepFails, Fault, SweepAt, redis
<1>34. CASE UNCHANGED sessionVars
  BY <1>34 DEF sessionVars, redis
<1> QED
  BY <1>1, <1>2, <1>3, <1>4, <1>5, <1>6, <1>7, <1>8, <1>9, <1>10, <1>11, <1>12, <1>13,
     <1>14, <1>15, <1>16, <1>17, <1>18, <1>19, <1>20, <1>21, <1>22, <1>23, <1>24,
     <1>25, <1>26, <1>27, <1>28, <1>29, <1>30, <1>31, <1>32, <1>33, <1>34
     DEF SessionNext, StartStep, CallStep, SweepStep

(* The invariant of the sessions holds in every behaviour. *)
LEMMA SessionInvariant == SessionSpec => []SessionInv
<1>1. SessionInv /\ [SessionNext]_sessionVars => SessionInv'
  BY SessionStepTypes, SessionStepInHand, SessionStepTidy DEF SessionInv
<1> QED
  BY <1>1, SessionInitInv, PTL DEF SessionSpec

(* A start that failed has left nothing behind, and a live session keeps the
   lock until somebody ends it: for any starts, requests, scopes and faults. *)
THEOREM SessionsStayApart == SessionSpec => StartsStayApart
<1>1. SessionInv => FailedStartLeavesNothing
  BY DEF SessionInv, StartsAreTidy, BeforeRow, Absent, Uncounted, FailedStartLeavesNothing
<1>2. SessionInv /\ [SessionNext]_sessionVars =>
        [\A s \in SessionIDs : lock = s /\ lock' # s => Ending(s)]_sessionVars
  BY SessionStepLock
<1> QED
  BY <1>1, <1>2, SessionInvariant, PTL DEF SessionSpec, StartsStayApart, LockLostOnlyToItsEnd

(* The rows, the keys and the processes keep their types. *)
THEOREM SessionTypesHold == SessionSpec => []SessionTypeOK
  BY SessionInvariant, PTL DEF SessionInv

-----------------------------------------------------------------------------
(* The pool of a browser worker                                            *)

\* Whoever is under way has a reservation.
ReservationsCounted == \A w \in Workers : reservations[w] = Cardinality(Under(w))

PoolInv == WorkerTypeOK /\ ReservationsCounted /\ PoolWithinLimit

UnderWay == {"create", "prepare", "undo", "put", "release"}

(* The sets counted are finite. *)
LEMMA PoolIsFinite ==
  ASSUME WorkerTypeOK, NEW w \in Workers
  PROVE  /\ IsFiniteSet(pool[w]) /\ IsFiniteSet(Under(w)) /\ IsFiniteSet(pool[w] \cup Under(w))
         /\ Cardinality(pool[w]) \in Nat /\ Cardinality(Under(w)) \in Nat
         /\ Cardinality(pool[w] \cup Under(w)) \in Nat
         /\ Cardinality(Under(w)) <= Cardinality(Sessions)
         /\ Cardinality(Sessions) \in Nat
<1>1. pool[w] \subseteq Sessions /\ Under(w) \subseteq Sessions /\ pool[w] \cup Under(w) \subseteq Sessions
  BY DEF WorkerTypeOK, Under
<1> QED
  BY <1>1, PartOfFinite, WorkerAssumption

(* A step of one request: who is under way then. *)
LEMMA LaunchMoves ==
  ASSUME WorkerTypeOK, NEW s \in Sessions,
         NEW to \in {"idle", "create", "prepare", "undo", "put", "release", "done", "failed"}, LaunchGoes(s, to)
  PROVE  /\ launch' \in [Sessions -> Launch] /\ Of(s) \in Workers
         /\ \A w \in Workers : Under(w)' = IF w # Of(s) THEN Under(w)
                                           ELSE IF to \in UnderWay THEN Under(w) \cup {s} ELSE Under(w) \ {s}
<1>1. /\ \A x \in Sessions : launch[x] \in Launch
      /\ \A x \in Sessions : launch'[x] = IF x = s THEN [launch[s] EXCEPT !.pc = to] ELSE launch[x]
      /\ launch' \in [Sessions -> Launch]
  BY DEF WorkerTypeOK, LaunchGoes, Launch
<1>2. \A x \in Sessions : launch'[x].at = launch[x].at /\ launch'[x].pc = IF x = s THEN to ELSE launch[x].pc
  BY <1>1 DEF Launch
<1>3. Of(s) \in Workers
  BY <1>1 DEF Of, Launch
<1>4. ASSUME NEW w \in Workers
      PROVE  Under(w)' = IF w # Of(s) THEN Under(w)
                         ELSE IF to \in UnderWay THEN Under(w) \cup {s} ELSE Under(w) \ {s}
  BY <1>2 DEF Under, Of, UnderWay
<1> QED
  BY <1>1, <1>3, <1>4

(* Initially every worker is empty. *)
LEMMA WorkerInitInv == WorkerInit => PoolInv
<1> SUFFICES ASSUME NEW at \in [Sessions -> Workers], WorkerInitAt(at) PROVE PoolInv
  BY DEF WorkerInit
<1> USE WorkerAssumption DEF WorkerInitAt
<1>1. Cardinality(Sessions) \in Nat
  BY FS_CardinalityType
<1>2. WorkerTypeOK
  BY <1>1 DEF WorkerTypeOK, Launch
<1>3. \A w \in Workers : Under(w) = {} /\ pool[w] = {} /\ reservations[w] = 0
  BY DEF Under, Of
<1> QED
  <2>1. Cardinality({}) = 0
    BY FS_EmptySet
  <2>2. \A w \in Workers : pool[w] \cup Under(w) = {}
    BY <1>3
  <2>3. ReservationsCounted
    BY <1>3, <2>1 DEF ReservationsCounted
  <2>4. PoolWithinLimit
    <3>1. ASSUME NEW w \in Workers PROVE Cardinality(pool[w] \cup Under(w)) = 0
      BY <2>1, <2>2, Zenon
    <3>2. PoolSize >= 0
      OBVIOUS
    <3> QED
      BY <3>1, <3>2 DEF PoolWithinLimit
  <2> QED
    BY <1>2, <2>3, <2>4 DEF PoolInv

(* A request takes a reservation while there is place, and gives it back when it ends. *)
LEMMA LaunchStepInv ==
  ASSUME PoolInv, NEW s \in Sessions, LaunchStep(s)
  PROVE  PoolInv'
<1> USE WorkerAssumption
<1>0. WorkerTypeOK /\ ReservationsCounted /\ PoolWithinLimit
  BY DEF PoolInv
<1>1. PICK w \in Workers : w = Of(s)
  BY <1>0 DEF WorkerTypeOK, Of, Launch
<1>2. /\ IsFiniteSet(pool[w]) /\ IsFiniteSet(Under(w)) /\ IsFiniteSet(pool[w] \cup Under(w))
      /\ Cardinality(pool[w]) \in Nat /\ Cardinality(Under(w)) \in Nat
      /\ reservations[w] = Cardinality(Under(w)) /\ Cardinality(pool[w] \cup Under(w)) <= PoolSize
      /\ Cardinality(pool[w] \cup Under(w)) \in Nat
      /\ Cardinality(Sessions) \in Nat /\ Cardinality(Under(w)) <= Cardinality(Sessions)
  BY <1>0, <1>1, PoolIsFinite DEF ReservationsCounted, PoolWithinLimit
<1>3. ASSUME NEW to \in {"idle", "create", "prepare", "undo", "put", "release", "done", "failed"}, LaunchGoes(s, to),
             reservations' = [reservations EXCEPT ![w] = Cardinality(Under(w)')],
             pool' \in [Workers -> SUBSET Sessions], \A x \in Workers \ {w} : pool'[x] = pool[x],
             Cardinality(pool'[w] \cup Under(w)') <= PoolSize, Cardinality(Under(w)') \in 0 .. Cardinality(Sessions),
             UNCHANGED <<phase, closing, due>>, pods' \subseteq Sessions, workerFaults' \in 0 .. MaxWorkerFaults
      PROVE  PoolInv'
  <2>1. launch' \in [Sessions -> Launch] /\ \A x \in Workers \ {w} : Under(x)' = Under(x)
    BY <1>0, <1>1, <1>3, LaunchMoves
  <2>2. WorkerTypeOK'
    BY <1>0, <1>3, <2>1 DEF WorkerTypeOK
  <2>3. ASSUME NEW x \in Workers PROVE reservations'[x] = Cardinality(Under(x)')
    BY <1>0, <1>3, <2>1 DEF WorkerTypeOK, ReservationsCounted
  <2>4. ASSUME NEW x \in Workers PROVE Cardinality(pool'[x] \cup Under(x)') <= PoolSize
    BY <1>0, <1>3, <2>1 DEF PoolWithinLimit
  <2> QED
    BY <2>2, <2>3, <2>4 DEF PoolInv, ReservationsCounted, PoolWithinLimit
<1>4. ASSUME NEW to \in {"prepare", "undo", "put", "release"}, LaunchGoes(s, to), launch[s].pc \in UnderWay,
             UNCHANGED reservations, pool' \in [Workers -> SUBSET Sessions],
             \A x \in Workers \ {w} : pool'[x] = pool[x], pool'[w] \subseteq pool[w] \cup {s}, pool[w] \subseteq pool'[w],
             UNCHANGED <<phase, closing, due>>, pods' \subseteq Sessions, workerFaults' \in 0 .. MaxWorkerFaults
      PROVE  PoolInv'
  <2>1. s \in Under(w)
    BY <1>1, <1>4 DEF Under, UnderWay
  <2>2. Under(w)' = Under(w)
    BY <1>0, <1>1, <1>4, <2>1, LaunchMoves DEF UnderWay
  <2>3. pool'[w] \cup Under(w)' = pool[w] \cup Under(w)
    BY <1>4, <2>1, <2>2
  <2>4. reservations' = [reservations EXCEPT ![w] = Cardinality(Under(w)')]
    BY <1>0, <1>2, <1>4, <2>2 DEF WorkerTypeOK
  <2>5. Cardinality(pool'[w] \cup Under(w)') <= PoolSize /\ Cardinality(Under(w)') \in 0 .. Cardinality(Sessions)
    <3>1. Cardinality(pool'[w] \cup Under(w)') = Cardinality(pool[w] \cup Under(w))
      BY <2>3, Zenon
    <3>2. Cardinality(Under(w)') = Cardinality(Under(w))
      BY <2>2, Zenon
    <3> QED
      BY <1>2, <3>1, <3>2
  <2> QED
    BY <1>3, <1>4, <2>4, <2>5
<1>5. CASE TryReserve(s)
  <2>1. CASE Cardinality(pool[w]) + reservations[w] >= PoolSize
    <3>1. /\ LaunchGoes(s, "failed") /\ launch[s].pc = "idle"
          /\ UNCHANGED <<reservations, pool, phase, closing, pods, due, workerFaults>>
      BY <1>1, <1>5, <2>1 DEF TryReserve
    <3>2. s \notin Under(w)
      BY <1>1, <3>1 DEF Under
    <3>3. Under(w)' = Under(w)
      BY <1>0, <1>1, <3>1, <3>2, LaunchMoves DEF UnderWay
    <3>4. reservations' = [reservations EXCEPT ![w] = Cardinality(Under(w)')]
      BY <1>0, <1>2, <3>1, <3>3 DEF WorkerTypeOK
    <3>5. /\ pool' \in [Workers -> SUBSET Sessions] /\ pods' \subseteq Sessions /\ workerFaults' \in 0 .. MaxWorkerFaults
          /\ \A x \in Workers \ {w} : pool'[x] = pool[x]
      BY <1>0, <3>1 DEF WorkerTypeOK
    <3>6. Cardinality(pool'[w] \cup Under(w)') <= PoolSize /\ Cardinality(Under(w)') \in 0 .. Cardinality(Sessions)
      BY <1>2, <3>1, <3>3
    <3> QED
      BY <1>3, <3>1, <3>4, <3>5, <3>6
  <2>2. CASE ~(Cardinality(pool[w]) + reservations[w] >= PoolSize)
    <3>1. /\ LaunchGoes(s, "create") /\ launch[s].pc = "idle"
          /\ reservations' = [reservations EXCEPT ![w] = @ + 1]
          /\ UNCHANGED <<pool, phase, closing, pods, due, workerFaults>>
      BY <1>1, <1>5, <2>2 DEF TryReserve
    <3>2. s \notin Under(w)
      BY <1>1, <3>1 DEF Under
    <3>3. Under(w)' = Under(w) \cup {s}
      BY <1>0, <1>1, <3>1, LaunchMoves DEF UnderWay
    <3>4. Cardinality(Under(w)') = Cardinality(Under(w)) + 1
      BY <1>2, <3>2, <3>3, FS_AddElement
    <3>5. /\ IsFiniteSet(Under(w)') /\ Cardinality(Under(w)') \in Nat
          /\ Cardinality(Under(w)') <= Cardinality(Sessions)
      <4>1. Under(w)' \subseteq Sessions
        BY <3>3 DEF Under
      <4> QED
        BY <4>1, PartOfFinite
    <3>6. Cardinality(pool[w] \cup Under(w)') <= Cardinality(pool[w]) + Cardinality(Under(w)')
      <4>1. Cardinality(pool[w] \cup Under(w)') =
                Cardinality(pool[w]) + Cardinality(Under(w)') - Cardinality(pool[w] \cap Under(w)')
        BY <1>2, <3>5, FS_Union
      <4>2. Cardinality(pool[w] \cap Under(w)') \in Nat
        BY <1>2, PartOfFinite
      <4> QED
        BY <1>2, <3>5, <4>1, <4>2
    <3>7. Cardinality(pool[w] \cup Under(w)') <= PoolSize
      <4>1. Cardinality(pool[w] \cup Under(w)') \in Nat
        <5>1. pool[w] \cup Under(w)' \subseteq Sessions
          BY <1>0, <1>1, <3>3 DEF WorkerTypeOK, Under
        <5> QED
          BY <5>1, PartOfFinite
      <4> QED
        BY <1>2, <2>2, <3>4, <3>6, <4>1
    <3>8. reservations' = [reservations EXCEPT ![w] = Cardinality(Under(w)')]
      BY <1>0, <1>1, <1>2, <3>1, <3>4 DEF WorkerTypeOK
    <3>9. pool' \in [Workers -> SUBSET Sessions] /\ pods' \subseteq Sessions /\ workerFaults' \in 0 .. MaxWorkerFaults
          /\ pool' = pool
      BY <1>0, <3>1 DEF WorkerTypeOK
    <3>10. Cardinality(pool'[w] \cup Under(w)') <= PoolSize /\ Cardinality(Under(w)') \in 0 .. Cardinality(Sessions)
      BY <1>2, <3>5, <3>7, <3>9
    <3> QED
      BY <1>3, <3>1, <3>8, <3>9, <3>10
  <2> QED
    BY <2>1, <2>2
<1>6. CASE StartSession(s) \/ StartSessionFails(s) \/ Prepare(s) \/ Undo(s)
  <2>1. UNCHANGED <<reservations, pool, phase, closing, due>> /\ launch[s].pc \in UnderWay
    BY <1>6 DEF StartSession, StartSessionFails, Prepare, Undo, UnderWay
  <2>2. PICK to \in {"prepare", "undo", "put", "release"} : LaunchGoes(s, to)
    BY <1>6 DEF StartSession, StartSessionFails, Prepare, Undo
  <2>3. pods' \subseteq Sessions /\ workerFaults' \in 0 .. MaxWorkerFaults /\ pool' \in [Workers -> SUBSET Sessions]
    BY <1>0, <1>6, <2>1 DEF StartSession, StartSessionFails, Prepare, Undo, StopSession, WorkerFault, WorkerTypeOK
  <2> QED
    BY <1>4, <2>1, <2>2, <2>3
<1>7. CASE Put(s)
  <2>1. /\ UNCHANGED <<reservations, phase, closing, pods, due, workerFaults>> /\ launch[s].pc \in UnderWay
        /\ LaunchGoes(s, "release") /\ pool' = [pool EXCEPT ![w] = @ \cup {s}]
    BY <1>1, <1>7 DEF Put, UnderWay
  <2>2. /\ pool' \in [Workers -> SUBSET Sessions] /\ pool'[w] = pool[w] \cup {s}
        /\ \A x \in Workers \ {w} : pool'[x] = pool[x]
        /\ pods' \subseteq Sessions /\ workerFaults' \in 0 .. MaxWorkerFaults
    BY <1>0, <1>1, <2>1 DEF WorkerTypeOK
  <2> QED
    BY <1>4, <2>1, <2>2
<1>8. CASE ReleaseReservation(s)
  <2>1. /\ UNCHANGED <<pool, phase, closing, pods, due, workerFaults>> /\ launch[s].pc = "release"
        /\ LaunchGoes(s, "done") /\ reservations' = [reservations EXCEPT ![w] = @ - 1]
    BY <1>1, <1>8 DEF ReleaseReservation
  <2>2. s \in Under(w)
    BY <1>1, <2>1 DEF Under
  <2>3. Under(w)' = Under(w) \ {s}
    BY <1>0, <1>1, <2>1, LaunchMoves DEF UnderWay
  <2>4. Cardinality(Under(w)') = Cardinality(Under(w)) - 1
    BY <1>2, <2>2, <2>3, FS_RemoveElement
  <2>5. Cardinality(Under(w)') \in Nat
    BY <1>2, <2>3, PartOfFinite
  <2>6. Cardinality(pool[w] \cup Under(w)') <= PoolSize
    <3>1. pool[w] \cup Under(w)' \subseteq pool[w] \cup Under(w)
      BY <2>3
    <3>2. /\ Cardinality(pool[w] \cup Under(w)') <= Cardinality(pool[w] \cup Under(w))
          /\ Cardinality(pool[w] \cup Under(w)') \in Nat
      BY <1>2, <3>1, PartOfFinite
    <3> QED
      BY <1>2, <3>2
  <2>7. reservations' = [reservations EXCEPT ![w] = Cardinality(Under(w)')]
    BY <1>0, <1>1, <1>2, <2>1, <2>4 DEF WorkerTypeOK
  <2>8. pool' = pool /\ pool' \in [Workers -> SUBSET Sessions] /\ pods' \subseteq Sessions
        /\ workerFaults' \in 0 .. MaxWorkerFaults
    BY <1>0, <2>1 DEF WorkerTypeOK
  <2> QED
    BY <1>2, <1>3, <2>1, <2>4, <2>5, <2>6, <2>7, <2>8
<1> QED
  BY <1>5, <1>6, <1>7, <1>8 DEF LaunchStep

(* Ending a session, reaping, and the process going down leave every worker within its limit. *)
LEMMA OtherStepInv ==
  ASSUME PoolInv, [WorkerNext]_workerVars, ~ \E s \in Sessions : LaunchStep(s)
  PROVE  PoolInv'
<1> USE WorkerAssumption
<1>0. WorkerTypeOK /\ ReservationsCounted /\ PoolWithinLimit
  BY DEF PoolInv
<1>1. ASSUME WorkerTypeOK', \A w \in Workers : Under(w)' \subseteq Under(w) /\ pool'[w] \subseteq pool[w],
             \A w \in Workers : reservations'[w] = Cardinality(Under(w)')
      PROVE  PoolInv'
  <2>1. ASSUME NEW w \in Workers PROVE Cardinality(pool'[w] \cup Under(w)') <= PoolSize
    <3>1. pool'[w] \cup Under(w)' \subseteq pool[w] \cup Under(w)
      BY <1>1
    <3>2. /\ IsFiniteSet(pool[w] \cup Under(w)) /\ Cardinality(pool[w] \cup Under(w)) <= PoolSize
          /\ Cardinality(pool[w] \cup Under(w)) \in Nat
      BY <1>0, PoolIsFinite DEF PoolWithinLimit
    <3>3. /\ Cardinality(pool'[w] \cup Under(w)') <= Cardinality(pool[w] \cup Under(w))
          /\ Cardinality(pool'[w] \cup Under(w)') \in Nat
      BY <3>1, <3>2, PartOfFinite
    <3> QED
      BY <3>2, <3>3
  <2> QED
    BY <1>1, <2>1 DEF PoolInv, ReservationsCounted, PoolWithinLimit
<1>2. ASSUME WorkerTypeOK', UNCHANGED <<launch, reservations>>, \A w \in Workers : pool'[w] \subseteq pool[w]
      PROVE  PoolInv'
  <2>1. \A w \in Workers : Under(w)' = Under(w)
    BY <1>2 DEF Under, Of
  <2> QED
    BY <1>0, <1>1, <1>2, <2>1 DEF ReservationsCounted
<1>3. ASSUME NEW s \in Sessions, PodExpires(s) PROVE PoolInv'
  <2>1. WorkerTypeOK'
    BY <1>0, <1>3 DEF PodExpires, WorkerTypeOK
  <2> QED
    BY <1>2, <1>3, <2>1 DEF PodExpires
<1>4. ASSUME NEW w \in Workers, ReapExpiredSessions(w) PROVE PoolInv'
  <2>1. WorkerTypeOK'
    BY <1>0, <1>4 DEF ReapExpiredSessions, WorkerFault, WorkerTypeOK
  <2> QED
    BY <1>2, <1>4, <2>1 DEF ReapExpiredSessions
<1>5. ASSUME NEW w \in Workers, NEW s \in Sessions, Remove(w, s) PROVE PoolInv'
  <2>1. WorkerTypeOK'
    BY <1>0, <1>5 DEF Remove, WorkerTypeOK
  <2>2. \A x \in Workers : pool'[x] \subseteq pool[x]
    BY <1>0, <1>5 DEF Remove, WorkerTypeOK
  <2> QED
    BY <1>2, <1>5, <2>1, <2>2 DEF Remove
<1>6. ASSUME NEW w \in Workers, NEW s \in Sessions, cleanupSession(w, s) PROVE PoolInv'
  <2>1. WorkerTypeOK'
    BY <1>0, <1>6 DEF cleanupSession, StopSession, WorkerFault, WorkerTypeOK
  <2> QED
    BY <1>2, <1>6, <2>1 DEF cleanupSession
<1>7. ASSUME NEW w \in Workers, Terminate(w) \/ Restart(w) PROVE PoolInv'
  <2>1. WorkerTypeOK'
    BY <1>0, <1>7 DEF Terminate, Restart, WorkerFault, WorkerTypeOK
  <2> QED
    BY <1>2, <1>7, <2>1 DEF Terminate, Restart
<1>8. ASSUME NEW w \in Workers, ShutdownSessions(w) PROVE PoolInv'
  <2>1. WorkerTypeOK'
    BY <1>0, <1>8 DEF ShutdownSessions, WorkerTypeOK
  <2>2. \A x \in Workers : pool'[x] \subseteq pool[x]
    BY <1>0, <1>8 DEF ShutdownSessions, WorkerTypeOK
  <2> QED
    BY <1>2, <1>8, <2>1, <2>2 DEF ShutdownSessions
<1>9. ASSUME NEW w \in Workers, Crash(w) \/ Exit(w) PROVE PoolInv'
  <2>1. Exits(w) /\ workerFaults' \in 0 .. MaxWorkerFaults
    BY <1>0, <1>9 DEF Crash, Exit, WorkerFault, WorkerTypeOK
  <2>2. /\ pool' = [pool EXCEPT ![w] = {}] /\ reservations' = [reservations EXCEPT ![w] = 0]
        /\ phase' = [phase EXCEPT ![w] = "down"] /\ closing' = [closing EXCEPT ![w] = {}] /\ UNCHANGED <<pods, due>>
        /\ launch' = [s \in Sessions |-> IF s \in Under(w) THEN [launch[s] EXCEPT !.pc = "failed"] ELSE launch[s]]
    BY <2>1 DEF Exits
  <2>3. ASSUME NEW s \in Sessions
        PROVE  /\ launch'[s] \in Launch /\ launch'[s].at = launch[s].at
               /\ launch'[s].pc = IF s \in Under(w) THEN "failed" ELSE launch[s].pc
    BY <1>0, <2>2 DEF WorkerTypeOK, Launch
  <2>4. launch' \in [Sessions -> Launch]
    BY <2>2, <2>3
  <2>5. Cardinality(Sessions) \in Nat /\ Cardinality({}) = 0
    BY FS_CardinalityType, FS_EmptySet
  <2>6. WorkerTypeOK'
    BY <1>0, <2>1, <2>2, <2>4, <2>5 DEF WorkerTypeOK
  <2>7. ASSUME NEW x \in Workers PROVE Under(x)' = IF x = w THEN {} ELSE Under(x)
    BY <2>3 DEF Under, Of
  <2>8. ASSUME NEW x \in Workers PROVE reservations'[x] = Cardinality(Under(x)')
    BY <1>0, <2>2, <2>5, <2>7 DEF ReservationsCounted, WorkerTypeOK
  <2>9. \A x \in Workers : pool'[x] \subseteq pool[x]
    BY <1>0, <2>2 DEF WorkerTypeOK
  <2> QED
    BY <1>1, <2>6, <2>7, <2>8, <2>9
<1>10. CASE UNCHANGED workerVars
  <2>1. WorkerTypeOK'
    BY <1>0, <1>10 DEF workerVars, WorkerTypeOK
  <2> QED
    BY <1>2, <1>10, <2>1 DEF workerVars
<1> QED
  BY <1>3, <1>4, <1>5, <1>6, <1>7, <1>8, <1>9, <1>10 DEF WorkerNext, ProcessStep

(* The invariant of the pools holds in every behaviour. *)
LEMMA PoolInvariant == WorkerSpec => []PoolInv
<1>1. PoolInv /\ [WorkerNext]_workerVars => PoolInv'
  BY LaunchStepInv, OtherStepInv
<1> QED
  BY <1>1, WorkerInitInv, PTL DEF WorkerSpec

(* However starts overlap, fail and end, a worker never runs more browsers than its pool has places *)
(* (TryReserve counts the reservations).                                                            *)
THEOREM PoolHolds == WorkerSpec => []PoolWithinLimit
<1>1. PoolInv => PoolWithinLimit
  BY DEF PoolInv
<1> QED
  BY <1>1, PoolInvariant, PTL

-----------------------------------------------------------------------------
(* The parts side by side                                                  *)

(* A step of one part is a step of its component, and none of the others: every part of the *)
(* composition behaves as its component says.                                               *)
LEMMA PartsBehave == AllSpec => TokenSpec /\ SessionSpec /\ WorkerSpec /\ AccountSpec
<1>1. AllInit => TokenInit /\ SessionInit /\ WorkerInit /\ AccountInit
  BY DEF AllInit
<1>2. [TokenStep \/ SessionStep \/ WorkerStep \/ XStep]_all
          => [TokenNext]_tokenVars /\ [SessionNext]_sessionVars /\ [WorkerNext]_workerVars /\ [AccountNext]_xVars
  BY DEF TokenStep, SessionStep, WorkerStep, XStep, all
<1> QED
  BY <1>1, <1>2, PTL DEF AllSpec, TokenSpec, SessionSpec, WorkerSpec, AccountSpec

(* Whatever is connected in whatever order, every row, key, place and credential is of its type: *)
(* no worker counts more reservations than there are requests, and no credentials are half old   *)
(* and half new.                                                                                 *)
THEOREM AccessTypesHold == AllSpec => []PartsTypeOK
<1>1. PoolInv /\ AccountInv => WorkerTypeOK /\ AccountTypeOK
  BY DEF PoolInv, AccountInv
<1> QED
  BY <1>1, PartsBehave, TokenTypeOK, SessionTypesHold, PoolInvariant, AccountInvariant, PTL DEF PartsTypeOK

=============================================================================
