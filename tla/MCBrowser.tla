------------------------------ MODULE MCBrowser ------------------------------
(***************************************************************************)
(* How accounts are connected, by remote browser or OAuth2, side by side:  *)
(* part says which component a behaviour is of, and the others stay as     *)
(* they are.                                                               *)
(*                                                                         *)
(* Stream tokens: two rotations and two connections.                       *)
(* Sessions: two starts and a later request, a quota of two sessions per   *)
(* user and of one in all.                                                 *)
(* Worker: three sessions and two places on one worker, two faults.        *)
(* X account: a connection, two callbacks, two refreshers, three tokens.   *)
(***************************************************************************)
EXTENDS BrowserStreamToken, BrowserSession, BrowserWorker, XAccount, TLC

CONSTANTS s1, s2, c1, w1

\* Two sessions of a user, one in all.
MCLimit == <<2, 1>>

VARIABLE part

all == <<part, tokenVars, sessionVars, workerVars, xVars>>

AllInit ==
    /\ part \in {"token", "session", "worker", "x"}
    /\ TokenInit /\ SessionInit /\ WorkerInit /\ AccountInit

TokenStep == part = "token" /\ TokenNext /\ UNCHANGED <<part, sessionVars, workerVars, xVars>>

SessionStep == part = "session" /\ SessionNext /\ UNCHANGED <<part, tokenVars, workerVars, xVars>>

WorkerStep == part = "worker" /\ WorkerNext /\ UNCHANGED <<part, tokenVars, sessionVars, xVars>>

XStep == part = "x" /\ AccountNext /\ UNCHANGED <<part, tokenVars, sessionVars, workerVars>>

AllSpec == AllInit /\ [][TokenStep \/ SessionStep \/ WorkerStep \/ XStep]_all

PartsTypeOK ==
    /\ TokenTypes /\ SessionTypeOK /\ WorkerTypeOK /\ AccountTypeOK

Symmetry == Permutations({s1, s2})
=============================================================================
