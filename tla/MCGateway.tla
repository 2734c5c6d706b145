----------------------------- MODULE MCGateway -----------------------------
(***************************************************************************)
(* The gateway for TLC: a call and a stream with one virtual key, so that  *)
(* both are charged to the team's budget and to the key's.  One more call  *)
(* crosses the key's 80% line, and two do not fit under its cap.           *)
(***************************************************************************)
EXTENDS Gateway

CONSTANTS c1, c2, team, key

MCApplies == [c \in Calls |-> {team, key}]
MCLimit == (team :> 6) @@ (key :> 5)
MCSpent == (team :> 0) @@ (key :> 2)
=============================================================================
