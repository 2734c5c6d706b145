----------------------------- MODULE MCRegistry -----------------------------
(***************************************************************************)
(* The registry for TLC: prompt pA is there without a version.  One        *)
(* workload is about its name (two patches, a create, an import and a      *)
(* delete), the others about its versions: two commits, a candidate that   *)
(* is committed and promoted at once, and somebody's own promotion.        *)
(***************************************************************************)
EXTENDS Registry, TLC

CONSTANTS pA, qA, create, import, keep, rename, delete, commit1, commit2, cand1, cand2,
          promote, custom, uncustom

Operation(kind, names, a, number) ==
  [kind |-> kind, names |-> names, prompt |-> pA, candidate |-> qA, alias |-> a, number |-> number]

AllOps ==
  (create    :> Operation("create", <<"x">>, "none", 0))
  @@ (import :> Operation("import", <<"x", "x-imported">>, "none", 0))
  @@ (keep   :> Operation("patch", <<"x">>, "none", 0))
  @@ (rename :> Operation("patch", <<"y">>, "none", 0))
  @@ (delete :> Operation("delete", <<>>, "none", 0))
  @@ (commit1 :> Operation("commit", <<>>, "none", 0))
  @@ (commit2 :> Operation("commit", <<>>, "none", 0))
  @@ (cand1  :> Operation("candidate", <<>>, "none", 0))
  @@ (cand2  :> Operation("candidate", <<>>, "production", 0))
  @@ (promote :> Operation("promote", <<>>, "production", 1))
  @@ (custom :> Operation("promote", <<>>, "custom", 1))
  @@ (uncustom :> Operation("unalias", <<>>, "custom", 0))

MCOp == [r \in Requests |-> AllOps[r]]
MCFirstName == [p \in Prompts |-> "x"]
MCOwner == [q \in Candidates |-> pA]
MCWorkloads == {{create, import, keep, rename, delete},
                {commit1, commit2, cand1, cand2, promote},
                {cand1, cand2, delete, custom, uncustom}}
=============================================================================
