----------------------------- MODULE MCServices -----------------------------
(***************************************************************************)
(* What requests meet on their way through the API, side by side: part     *)
(* says which component a behaviour is of, and the others stay as they     *)
(* are.                                                                    *)
(*                                                                         *)
(* Replica routing: two writes and a read, TTL 3, lag, interval and delay  *)
(* 1, up to time 3.  Media asset: two completions, a deletion, two reads,  *)
(* one fault.  Rate limit: four requests of two users, two of them         *)
(* publish, two windows, one fault.  Project list: four projects, three of *)
(* them created at once, pages and batches of two, two changes, a rebuild. *)
(* Growth run: two platforms, one of them asked about, two changes, one    *)
(* fault.                                                                  *)
(***************************************************************************)
EXTENDS ReplicaRouting, RateLimit, GrowthRun, MediaAsset, ProjectListing

CONSTANTS x1, x2, y1, y2, j1, j2

MCUserOf == [r \in {y1, y2, j1, j2} |-> IF r = j2 THEN "second" ELSE "first"]

MCLimit == [general |-> [user |-> 2, tenant |-> 2], publish |-> [user |-> 0, tenant |-> 1]]

MCCreatedAt == <<2, 1, 1, 1>>

VARIABLE part

all == <<part, vars, mediaVars, limitVars, listingVars, growthVars>>

\* The drafts at the start vary only in their own part.
AllInit ==
    /\ part \in {"routing", "media", "limit", "list", "growth"}
    /\ Init /\ MediaInit /\ LimitInit /\ ListingInit /\ GrowthInit
    /\ part = "growth" \/ draft = [p \in {j1, j2} |-> 0]

RoutingStep == part = "routing" /\ Next /\ UNCHANGED <<part, mediaVars, limitVars, listingVars, growthVars>>

MediaStep == part = "media" /\ MediaNext /\ UNCHANGED <<part, vars, limitVars, listingVars, growthVars>>

LimitStep == part = "limit" /\ LimitNext /\ UNCHANGED <<part, vars, mediaVars, listingVars, growthVars>>

ListStep == part = "list" /\ ListingNext /\ UNCHANGED <<part, vars, mediaVars, limitVars, growthVars>>

GrowthStep == part = "growth" /\ GrowthNext /\ UNCHANGED <<part, vars, mediaVars, limitVars, listingVars>>

AllSpec == AllInit /\ [][RoutingStep \/ MediaStep \/ LimitStep \/ ListStep \/ GrowthStep]_all

PartsTypeOK ==
    /\ TypeOK /\ LimitTypeOK /\ GrowthTypeOK /\ MediaTypeOK /\ ListingTypeOK

TLC == INSTANCE TLC

Symmetry == TLC!Permutations({x1, x2}) \cup TLC!Permutations({y1, y2})
=============================================================================
