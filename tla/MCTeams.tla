------------------------------ MODULE MCTeams ------------------------------
(***************************************************************************)
(* A team of two owners for TLC: each removes or demotes the other, two    *)
(* strangers open one link, one of them also has an invite by name and may *)
(* be removed again, and the link is revoked meanwhile.                    *)
(***************************************************************************)
EXTENDS Teams, TLC

CONSTANTS ann, bob, eve, kim, link, letter,
          demote, remove, oust, send, open1, open2, open3, revoke

MCFirstRole == (ann :> "owner") @@ (bob :> "owner") @@ (eve :> "none") @@ (kim :> "none")
MCGrants == (link :> "viewer") @@ (letter :> "admin")
MCAddress == (link :> Anyone) @@ (letter :> kim)

Operation(kind, actor, target, i) ==
  [kind |-> kind, actor |-> actor, target |-> target, role |-> "editor", invite |-> i]

MCOp ==
  (demote :> Operation("role", ann, bob, link))
  @@ (remove :> Operation("remove", bob, ann, link))
  @@ (oust :> Operation("remove", ann, kim, link))
  @@ (send :> Operation("invite", ann, bob, letter))
  @@ (open1 :> Operation("accept", eve, eve, link))
  @@ (open2 :> Operation("accept", kim, kim, link))
  @@ (open3 :> Operation("accept", kim, kim, letter))
  @@ (revoke :> Operation("revoke", bob, bob, link))
=============================================================================
