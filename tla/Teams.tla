------------------------------- MODULE Teams -------------------------------
(***************************************************************************)
(* The members and invites of one team.  Requests interleave statement by  *)
(* statement: a role change or a removal locks the rows of the owners      *)
(* before it decides, and an invite is claimed in the transaction that     *)
(* adds the member.  Any request may die between two statements.           *)
(*                                                                         *)
(* Mail, audit rows and the default team of a user follow the commit and   *)
(* are left out; so are teams other than this one.                         *)
(***************************************************************************)
EXTENDS Naturals, FiniteSets

CONSTANTS
  Users,
  FirstRole,  \* of a user, when the behaviour starts; "none" outside the team
  Invites,    \* ids of the invites that may be made
  Sent,       \* those that were made before
  Grants,     \* of an invite: the role
  Address,    \* of an invite: the user it names, or Anyone
  Anyone,
  Requests,
  Op          \* of a request: [kind, actor, target, role, invite]

Granted == {"admin", "editor", "viewer"}    \* what the schemas accept
Kinds == {"role", "remove", "invite", "revoke", "accept"}

\* A team has an owner from its creation, and may have several: before a member
\* held one role only, "owner" was one of a set.
ASSUME TeamsAssumption ==
  /\ FirstRole \in [Users -> Granted \cup {"owner", "none"}]
  /\ \E u \in Users : FirstRole[u] = "owner"
  /\ Grants \in [Invites -> Granted]
  /\ Address \in [Invites -> Users \cup {Anyone}]
  /\ Op \in [Requests -> [kind : Kinds, actor : Users, target : Users,
                          role : Granted, invite : Invites]]

VARIABLES
  member,   \* of a user: the role, or "none"
  invite,   \* of an invite: "none", "open", "expired", "used" or "gone"
  pc,       \* where each request is
  holds,    \* of a request: the members' rows it has locked
  adds,     \* of a request: the member it has added and not committed, as a set
  claims,   \* of a request: the invite it has claimed and not committed, as a set
  admitted  \* of an invite: who came in with it

vars == <<member, invite, pc, holds, adds, claims, admitted>>

-----------------------------------------------------------------------------
Ended == {"done", "refused", "failed"}

At(r, where) == pc[r] = where
Goes(r, where) == pc' = [pc EXCEPT ![r] = where]
Is(r, kind) == Op[r].kind = kind

Owners == {u \in Users : member[u] = "owner"}
Manages(u) == member[u] \in {"owner", "admin"}

\* Rows that another transaction has written wait for its end.
UserFree(r, u) == \A s \in Requests \ {r} : u \notin adds[s]
InviteFree(r, i) == \A s \in Requests \ {r} : i \notin claims[s]

\* Mutant: a transaction that is rolled back keeps its claim.
Releases_Claimed(r) ==
  /\ holds' = [holds EXCEPT ![r] = {}]
  /\ adds' = [adds EXCEPT ![r] = {}]
  /\ UNCHANGED claims
\* The end of r's transaction.
Releases(r) ==
  /\ holds' = [holds EXCEPT ![r] = {}]
  /\ adds' = [adds EXCEPT ![r] = {}]
  /\ claims' = [claims EXCEPT ![r] = {}]

-----------------------------------------------------------------------------
Init ==
  /\ member = FirstRole
  /\ invite = [i \in Invites |-> IF i \in Sent THEN "open" ELSE "none"]
  /\ pc = [r \in Requests |-> "new"]
  /\ holds = [r \in Requests |-> {}]
  /\ adds = [r \in Requests |-> {}]
  /\ claims = [r \in Requests |-> {}]
  /\ admitted = [i \in Invites |-> {}]

\* requireTeamRole reads the actor's role once; an accept needs none.
Arrive(r) ==
  /\ At(r, "new")
  /\ Goes(r, IF Is(r, "accept") THEN "find" ELSE IF Manages(Op[r].actor) THEN Op[r].kind
             ELSE "refused")
  /\ UNCHANGED <<member, invite, holds, adds, claims, admitted>>

-----------------------------------------------------------------------------
(* Members. *)

\* Mutant: the owners' rows are read and not locked.
MayLock_Always(r) == TRUE
\* SELECT ... FOR UPDATE waits for whoever locked one of the rows.
MayLock(r) == \A s \in Requests \ {r} : holds[s] \cap Owners = {}

\* lockOwnerUserIds and assertNotSoleOwner.
LockOwners(r) ==
  /\ At(r, "role") \/ At(r, "remove")
  /\ MayLock(r)
  /\ IF Owners = {Op[r].target}
     THEN /\ Goes(r, "refused")
          /\ UNCHANGED holds
     ELSE /\ Goes(r, "write")
          /\ holds' = [holds EXCEPT ![r] = Owners]
  /\ UNCHANGED <<member, invite, adds, claims, admitted>>

\* updateRole or removeMember of the target, if it is a member, and the commit.
WriteMember(r) ==
  LET u == Op[r].target
  IN  /\ At(r, "write")
      /\ member' = IF member[u] = "none" THEN member
                   ELSE [member EXCEPT ![u] = IF Is(r, "remove") THEN "none" ELSE Op[r].role]
      /\ Goes(r, IF member[u] = "none" THEN "refused" ELSE "done")
      /\ Releases(r)
      /\ UNCHANGED <<invite, admitted>>

-----------------------------------------------------------------------------
(* Invites. *)

\* generateInvite.
Invite(r) ==
  LET i == Op[r].invite
  IN  /\ At(r, "invite")
      /\ invite[i] = "none"     \* an invite gets an id of its own
      /\ invite' = [invite EXCEPT ![i] = "open"]
      /\ Goes(r, "done")
      /\ UNCHANGED <<member, holds, adds, claims, admitted>>

\* deleteById, whatever became of the invite meanwhile.
Revoke(r) ==
  LET i == Op[r].invite
  IN  /\ At(r, "revoke")
      /\ IF invite[i] \in {"none", "gone"}
         THEN /\ Goes(r, "refused")
              /\ UNCHANGED invite
         ELSE /\ InviteFree(r, i)
              /\ invite' = [invite EXCEPT ![i] = "gone"]
              /\ Goes(r, "done")
      /\ UNCHANGED <<member, holds, adds, claims, admitted>>

\* Seven days pass.
Expire(i) ==
  /\ invite[i] = "open"
  /\ invite' = [invite EXCEPT ![i] = "expired"]
  /\ UNCHANGED <<member, pc, holds, adds, claims, admitted>>

\* acceptInvite's reads: the invite, the address it names, the membership.
FindInvite(r) ==
  LET i == Op[r].invite
      u == Op[r].actor
  IN  /\ At(r, "find")
      /\ Goes(r, IF invite[i] = "open" /\ Address[i] \in {u, Anyone} /\ member[u] = "none"
                 THEN "add" ELSE "refused")
      /\ UNCHANGED <<member, invite, holds, adds, claims, admitted>>

\* addMemberWithRole inserts the member, unless the unique index has the row.
AddMember(r) ==
  LET u == Op[r].actor
  IN  /\ At(r, "add")
      /\ UserFree(r, u)
      /\ IF member[u] # "none"
         THEN /\ Goes(r, "failed")
              /\ UNCHANGED adds
         ELSE /\ Goes(r, "claim")
              /\ adds' = [adds EXCEPT ![r] = {u}]
      /\ UNCHANGED <<member, invite, holds, claims, admitted>>

\* Mutant: the invite is stamped as used whatever it was.
Claimable_Always(i) == TRUE
\* The UPDATE's condition: the row is there and unused.
Claimable(i) == invite[i] \in {"open", "expired"}

\* The conditional UPDATE claims the invite, or the transaction rolls back.
ClaimInvite(r) ==
  LET i == Op[r].invite
  IN  /\ At(r, "claim")
      /\ InviteFree(r, i)
      /\ IF Claimable(i)
         THEN /\ claims' = [claims EXCEPT ![r] = {i}]
              /\ Goes(r, "commit")
              /\ UNCHANGED <<holds, adds>>
         ELSE /\ Releases(r)
              /\ Goes(r, "refused")
      /\ UNCHANGED <<member, invite, admitted>>

CommitMember(r) ==
  LET i == Op[r].invite
      u == Op[r].actor
  IN  /\ At(r, "commit")
      /\ member' = [member EXCEPT ![u] = Grants[i]]
      /\ invite' = [invite EXCEPT ![i] = "used"]
      /\ admitted' = [admitted EXCEPT ![i] = @ \cup {u}]
      /\ Releases(r)
      /\ Goes(r, "done")

-----------------------------------------------------------------------------
\* The process dies or a statement fails: the transaction is rolled back.
Dies(r) ==
  /\ pc[r] \notin Ended
  /\ Releases(r)
  /\ Goes(r, "failed")
  /\ UNCHANGED <<member, invite, admitted>>

Handles(r) ==
  \/ Arrive(r) \/ LockOwners(r) \/ WriteMember(r)
  \/ Invite(r) \/ Revoke(r)
  \/ FindInvite(r) \/ AddMember(r) \/ ClaimInvite(r) \/ CommitMember(r)

Next ==
  \/ \E r \in Requests : Handles(r) \/ Dies(r)
  \/ \E i \in Invites : Expire(i)

Spec == Init /\ [][Next]_vars

-----------------------------------------------------------------------------
(* Properties. *)

\* The values of the variables; only a request in the middle of a transaction
\* has locked, added or claimed anything, and what two of them did differs.
TypeOK ==
  /\ member \in [Users -> Granted \cup {"owner", "none"}]
  /\ invite \in [Invites -> {"none", "open", "expired", "used", "gone"}]
  /\ pc \in [Requests -> Ended \cup Kinds \cup {"new", "find", "write", "add", "claim", "commit"}]
  /\ holds \in [Requests -> SUBSET Users]
  /\ adds \in [Requests -> SUBSET Users]
  /\ claims \in [Requests -> SUBSET Invites]
  /\ admitted \in [Invites -> SUBSET Users]
  /\ \A r \in Requests :
       /\ ~At(r, "write") => holds[r] = {}
       /\ pc[r] \notin {"claim", "commit"} => adds[r] = {}
       /\ ~At(r, "commit") => claims[r] = {}
  /\ \A r, s \in Requests :
       r # s => holds[r] \cap holds[s] = {} /\ adds[r] \cap adds[s] = {} /\ claims[r] \cap claims[s] = {}

\* A team never loses its last owner, whichever of its owners are demoted and
\* removed at the same moment, by themselves or by each other (issue: two owners
\* that each read "two owners" and both go; lockOwnerUserIds).
AlwaysAnOwner == Owners # {}

\* An invite lets in one person at most, however many hold the link and open it
\* at the same moment, and nobody any more once it was revoked
\* (addMemberWithRole's conditional claim).
InviteOnce ==
  [][\A i \in Invites :
       admitted'[i] # admitted[i] => admitted[i] = {} /\ invite[i] \notin {"used", "gone"}]_vars
=============================================================================
