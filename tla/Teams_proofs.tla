---------------------------- MODULE Teams_proofs ----------------------------
(***************************************************************************)
(* For every set of users, invites and requests: a team keeps an owner,    *)
(* and an invite lets in one person at most.  Both follow from one         *)
(* inductive invariant: what a transaction in progress has read under its  *)
(* locks is still so when it writes.                                       *)
(***************************************************************************)
EXTENDS Teams, TLAPS

\* Whoever is about to demote or remove a member holds the rows of all owners,
\* and that member is not the only one.
OwnersLocked ==
  \A r \in Requests : At(r, "write") => holds[r] = Owners /\ Owners # {Op[r].target}

\* Whoever adds a member holds its key, and the member is not there yet.
MemberAdded ==
  \A r \in Requests :
    pc[r] \in {"claim", "commit"} => adds[r] = {Op[r].actor} /\ member[Op[r].actor] = "none"

\* Whoever is about to commit has claimed the invite, and nobody used or
\* revoked it since.
InviteClaimed ==
  \A r \in Requests :
    At(r, "commit") => claims[r] = {Op[r].invite} /\ invite[Op[r].invite] \in {"open", "expired"}

\* Who came in has used the invite up.
AdmittedOnce == \A i \in Invites : invite[i] \in {"none", "open", "expired"} => admitted[i] = {}

IInv ==
  /\ TypeOK
  /\ AlwaysAnOwner
  /\ OwnersLocked
  /\ MemberAdded
  /\ InviteClaimed
  /\ AdmittedOnce

-----------------------------------------------------------------------------
\* What the assumptions say of one request.
LEMMA OpTypes ==
  ASSUME NEW r \in Requests
  PROVE  /\ Op[r].actor \in Users /\ Op[r].target \in Users /\ Op[r].invite \in Invites
         /\ Op[r].role \in Granted /\ Op[r].kind \in Kinds
         /\ Grants[Op[r].invite] \in Granted
         /\ "owner" \notin Granted /\ "none" \notin Granted
BY TeamsAssumption DEF Granted

LEMMA InitIInv == Init => IInv
<1> SUFFICES ASSUME Init PROVE IInv
  OBVIOUS
<1> USE TeamsAssumption DEF Init
<1>1. TypeOK
  BY DEF TypeOK, At
<1>2. AlwaysAnOwner
  BY DEF AlwaysAnOwner, Owners
<1>3. OwnersLocked /\ MemberAdded /\ InviteClaimed /\ AdmittedOnce
  BY DEF OwnersLocked, MemberAdded, InviteClaimed, AdmittedOnce, At
<1> QED
  BY <1>1, <1>2, <1>3 DEF IInv

-----------------------------------------------------------------------------
LEMMA ArriveKeeps == ASSUME NEW r \in Requests, IInv, Arrive(r) PROVE IInv'
<1> USE OpTypes DEF IInv, Arrive, Is, Goes, At, Manages, Kinds, Ended
<1>1. TypeOK'
  <2>1. pc[r] = "new" /\ holds[r] = {} /\ adds[r] = {} /\ claims[r] = {}
    BY DEF TypeOK
  <2> QED
    BY <2>1 DEF TypeOK, Kinds, Ended
<1>2. Owners' = Owners
  BY DEF TypeOK, Owners
<1>3. AlwaysAnOwner'
  BY <1>2 DEF AlwaysAnOwner
<1>4. OwnersLocked'
  BY <1>2 DEF TypeOK, OwnersLocked, AlwaysAnOwner
<1>5. MemberAdded'
  BY DEF TypeOK, MemberAdded
<1>6. InviteClaimed'
  BY DEF TypeOK, InviteClaimed
<1>7. AdmittedOnce'
  BY DEF TypeOK, AdmittedOnce
<1> QED
  BY <1>1, <1>3, <1>4, <1>5, <1>6, <1>7

LEMMA LockOwnersKeeps == ASSUME NEW r \in Requests, IInv, LockOwners(r) PROVE IInv'
<1> USE OpTypes DEF IInv, LockOwners, Is, Goes, At, MayLock
<1>1. TypeOK'
  <2>1. holds' \in [Requests -> SUBSET Users] /\ \A s \in Requests \ {r} : holds'[s] = holds[s]
    BY DEF TypeOK, Owners
  <2>2. \A s \in Requests \ {r} : holds[s] \cap holds'[r] = {}
    BY DEF TypeOK
  <2>3. pc' \in [Requests -> Ended \cup Kinds \cup {"new", "find", "write", "add", "claim", "commit"}]
    BY DEF TypeOK, Kinds, Ended
  <2>4. \A s \in Requests : /\ pc'[s] # "write" => holds'[s] = {}
                            /\ pc'[s] \notin {"claim", "commit"} => adds[s] = {}
                            /\ pc'[s] # "commit" => claims[s] = {}
    BY <2>1 DEF TypeOK
  <2>5. \A s, q \in Requests : s # q => holds'[s] \cap holds'[q] = {}
    BY <2>1, <2>2 DEF TypeOK
  <2> QED
    BY <2>1, <2>3, <2>4, <2>5 DEF TypeOK
<1>2. Owners' = Owners
  BY DEF TypeOK, Owners
<1>3. AlwaysAnOwner'
  BY <1>2 DEF AlwaysAnOwner
<1>4. OwnersLocked'
  BY <1>2 DEF TypeOK, OwnersLocked, AlwaysAnOwner
<1>5. MemberAdded'
  BY DEF TypeOK, MemberAdded
<1>6. InviteClaimed'
  BY DEF TypeOK, InviteClaimed
<1>7. AdmittedOnce'
  BY DEF TypeOK, AdmittedOnce
<1> QED
  BY <1>1, <1>3, <1>4, <1>5, <1>6, <1>7

LEMMA WriteMemberKeeps == ASSUME NEW r \in Requests, IInv, WriteMember(r) PROVE IInv'
<1> USE OpTypes DEF IInv, WriteMember, Is, Goes, At, Releases
<1>1. TypeOK'
  BY DEF TypeOK, Kinds, Ended
<1>2. Owners \ {Op[r].target} \subseteq Owners'
  BY DEF TypeOK, Owners
<1>3. AlwaysAnOwner'
  BY <1>2 DEF AlwaysAnOwner, OwnersLocked
\* Nobody else holds the owners' rows, so nobody else is about to write.
<1>4. OwnersLocked'
  <2>1. \A s \in Requests \ {r} : ~At(s, "write")
    BY DEF TypeOK, OwnersLocked, AlwaysAnOwner
  <2>2. \A s \in Requests : pc'[s] # "write"
    BY <2>1 DEF TypeOK
  <2> QED
    BY <2>2 DEF OwnersLocked
<1>5. MemberAdded'
  BY DEF TypeOK, MemberAdded
<1>6. InviteClaimed'
  BY DEF TypeOK, InviteClaimed
<1>7. AdmittedOnce'
  BY DEF TypeOK, AdmittedOnce
<1> QED
  BY <1>1, <1>3, <1>4, <1>5, <1>6, <1>7

LEMMA InviteKeeps == ASSUME NEW r \in Requests, IInv, Invite(r) PROVE IInv'
<1> USE OpTypes DEF IInv, Invite, Is, Goes, At
<1>1. TypeOK'
  BY DEF TypeOK, Kinds, Ended
<1>2. Owners' = Owners
  BY DEF TypeOK, Owners
<1>3. AlwaysAnOwner'
  BY <1>2 DEF AlwaysAnOwner
<1>4. OwnersLocked'
  BY <1>2 DEF TypeOK, OwnersLocked, AlwaysAnOwner
<1>5. MemberAdded'
  BY DEF TypeOK, MemberAdded
<1>6. InviteClaimed'
  BY DEF TypeOK, InviteClaimed
<1>7. AdmittedOnce'
  BY DEF TypeOK, AdmittedOnce
<1> QED
  BY <1>1, <1>3, <1>4, <1>5, <1>6, <1>7

LEMMA RevokeKeeps == ASSUME NEW r \in Requests, IInv, Revoke(r) PROVE IInv'
<1> USE OpTypes DEF IInv, Revoke, Is, Goes, At, InviteFree
<1>1. TypeOK'
  BY DEF TypeOK, Kinds, Ended
<1>2. Owners' = Owners
  BY DEF TypeOK, Owners
<1>3. AlwaysAnOwner'
  BY <1>2 DEF AlwaysAnOwner
<1>4. OwnersLocked'
  BY <1>2 DEF TypeOK, OwnersLocked, AlwaysAnOwner
<1>5. MemberAdded'
  BY DEF TypeOK, MemberAdded
<1>6. InviteClaimed'
  BY DEF TypeOK, InviteClaimed
<1>7. AdmittedOnce'
  BY DEF TypeOK, AdmittedOnce
<1> QED
  BY <1>1, <1>3, <1>4, <1>5, <1>6, <1>7

LEMMA FindInviteKeeps == ASSUME NEW r \in Requests, IInv, FindInvite(r) PROVE IInv'
<1> USE OpTypes DEF IInv, FindInvite, Is, Goes, At
<1>1. TypeOK'
  BY DEF TypeOK, Kinds, Ended
<1>2. Owners' = Owners
  BY DEF TypeOK, Owners
<1>3. AlwaysAnOwner'
  BY <1>2 DEF AlwaysAnOwner
<1>4. OwnersLocked'
  BY <1>2 DEF TypeOK, OwnersLocked, AlwaysAnOwner
<1>5. MemberAdded'
  BY DEF TypeOK, MemberAdded
<1>6. InviteClaimed'
  BY DEF TypeOK, InviteClaimed
<1>7. AdmittedOnce'
  BY DEF TypeOK, AdmittedOnce
<1> QED
  BY <1>1, <1>3, <1>4, <1>5, <1>6, <1>7

LEMMA AddMemberKeeps == ASSUME NEW r \in Requests, IInv, AddMember(r) PROVE IInv'
<1> USE OpTypes DEF IInv, AddMember, Is, Goes, At, UserFree
<1>1. TypeOK'
  BY DEF TypeOK, Kinds, Ended
<1>2. Owners' = Owners
  BY DEF TypeOK, Owners
<1>3. AlwaysAnOwner'
  BY <1>2 DEF AlwaysAnOwner
<1>4. OwnersLocked'
  BY <1>2 DEF TypeOK, OwnersLocked, AlwaysAnOwner
<1>5. MemberAdded'
  BY DEF TypeOK, MemberAdded
<1>6. InviteClaimed'
  BY DEF TypeOK, InviteClaimed
<1>7. AdmittedOnce'
  BY DEF TypeOK, AdmittedOnce
<1> QED
  BY <1>1, <1>3, <1>4, <1>5, <1>6, <1>7

LEMMA ClaimInviteKeeps == ASSUME NEW r \in Requests, IInv, ClaimInvite(r) PROVE IInv'
<1> USE OpTypes DEF IInv, ClaimInvite, Is, Goes, At, InviteFree, Claimable, Releases
<1>1. TypeOK'
  BY DEF TypeOK, Kinds, Ended
<1>2. Owners' = Owners
  BY DEF TypeOK, Owners
<1>3. AlwaysAnOwner'
  BY <1>2 DEF AlwaysAnOwner
<1>4. OwnersLocked'
  BY <1>2 DEF TypeOK, OwnersLocked, AlwaysAnOwner
<1>5. MemberAdded'
  BY DEF TypeOK, MemberAdded
<1>6. InviteClaimed'
  BY DEF TypeOK, InviteClaimed
<1>7. AdmittedOnce'
  BY DEF TypeOK, AdmittedOnce
<1> QED
  BY <1>1, <1>3, <1>4, <1>5, <1>6, <1>7

LEMMA CommitMemberKeeps == ASSUME NEW r \in Requests, IInv, CommitMember(r) PROVE IInv'
<1> USE OpTypes DEF IInv, CommitMember, Is, Goes, At, Releases
<1>1. TypeOK'
  BY DEF TypeOK, Kinds, Ended
<1>2. Owners' = Owners
  BY DEF TypeOK, Owners, MemberAdded
<1>3. AlwaysAnOwner'
  BY <1>2 DEF AlwaysAnOwner
<1>4. OwnersLocked'
  BY <1>2 DEF TypeOK, OwnersLocked, AlwaysAnOwner
<1>5. MemberAdded'
  BY DEF TypeOK, MemberAdded
<1>6. InviteClaimed'
  BY DEF TypeOK, InviteClaimed
<1>7. AdmittedOnce'
  BY DEF TypeOK, AdmittedOnce
<1> QED
  BY <1>1, <1>3, <1>4, <1>5, <1>6, <1>7

LEMMA DiesKeeps == ASSUME NEW r \in Requests, IInv, Dies(r) PROVE IInv'
<1> USE OpTypes DEF IInv, Dies, Is, Goes, At, Releases
<1>1. TypeOK'
  BY DEF TypeOK, Kinds, Ended
<1>2. Owners' = Owners
  BY DEF TypeOK, Owners
<1>3. AlwaysAnOwner'
  BY <1>2 DEF AlwaysAnOwner
<1>4. OwnersLocked'
  BY <1>2 DEF TypeOK, OwnersLocked, AlwaysAnOwner
<1>5. MemberAdded'
  BY DEF TypeOK, MemberAdded
<1>6. InviteClaimed'
  BY DEF TypeOK, InviteClaimed
<1>7. AdmittedOnce'
  BY DEF TypeOK, AdmittedOnce
<1> QED
  BY <1>1, <1>3, <1>4, <1>5, <1>6, <1>7

LEMMA ExpireKeeps == ASSUME NEW i \in Invites, IInv, Expire(i) PROVE IInv'
<1> USE DEF IInv, Expire, At
<1>1. TypeOK'
  BY DEF TypeOK
<1>2. AlwaysAnOwner' /\ OwnersLocked' /\ MemberAdded'
  BY DEF AlwaysAnOwner, OwnersLocked, MemberAdded, Owners
<1>3. InviteClaimed' /\ AdmittedOnce'
  BY DEF TypeOK, InviteClaimed, AdmittedOnce
<1> QED
  BY <1>1, <1>2, <1>3

-----------------------------------------------------------------------------
LEMMA NextIInv == IInv /\ [Next]_vars => IInv'
<1> SUFFICES ASSUME IInv, [Next]_vars PROVE IInv'
  OBVIOUS
<1>1. CASE UNCHANGED vars
  BY <1>1 DEF vars, IInv, TypeOK, AlwaysAnOwner, OwnersLocked, MemberAdded, InviteClaimed,
              AdmittedOnce, At, Owners
<1>2. ASSUME NEW r \in Requests, Handles(r) PROVE IInv'
  BY <1>2, ArriveKeeps, LockOwnersKeeps, WriteMemberKeeps, InviteKeeps, RevokeKeeps,
     FindInviteKeeps, AddMemberKeeps, ClaimInviteKeeps, CommitMemberKeeps DEF Handles
<1>3. ASSUME NEW r \in Requests, Dies(r) PROVE IInv'
  BY <1>3, DiesKeeps
<1>4. ASSUME NEW i \in Invites, Expire(i) PROVE IInv'
  BY <1>4, ExpireKeeps
<1> QED
  BY <1>1, <1>2, <1>3, <1>4 DEF Next

LEMMA IInvAlways == Spec => []IInv
<1> QED
  BY InitIInv, NextIInv, PTL DEF Spec

\* The variables keep their values, and locks, added members and claims belong to
\* one open transaction each (members.repository.ts, invites.service.ts).
THEOREM TypeCorrect == Spec => []TypeOK
<1>1. IInv => TypeOK
  BY DEF IInv
<1> QED
  BY <1>1, IInvAlways, PTL

\* A team always has an owner, for any number of owners and of requests to demote
\* or remove them (assertNotSoleOwner under lockOwnerUserIds).
THEOREM OwnerRemains == Spec => []AlwaysAnOwner
<1>1. IInv => AlwaysAnOwner
  BY DEF IInv
<1> QED
  BY <1>1, IInvAlways, PTL

\* An invite lets in one person at most, and nobody once it is revoked, for any
\* number of people who hold the link (addMemberWithRole).
THEOREM InviteAdmitsOne == Spec => InviteOnce
<1> DEFINE Admits ==
      \A i \in Invites :
        admitted'[i] # admitted[i] => admitted[i] = {} /\ invite[i] \notin {"used", "gone"}
<1>1. IInv /\ [Next]_vars => [Admits]_vars
  <2> SUFFICES ASSUME IInv, Next, NEW i \in Invites, admitted'[i] # admitted[i]
               PROVE  admitted[i] = {} /\ invite[i] \notin {"used", "gone"}
    OBVIOUS
  <2>1. PICK r \in Requests : CommitMember(r)
    BY DEF Next, Handles, Arrive, LockOwners, WriteMember, Invite, Revoke, Expire, FindInvite,
           AddMember, ClaimInvite, Dies
  <2>2. i = Op[r].invite
    BY <2>1, OpTypes DEF CommitMember, IInv, TypeOK
  <2>3. invite[i] \in {"open", "expired"}
    BY <2>1, <2>2 DEF CommitMember, IInv, InviteClaimed
  <2> QED
    BY <2>3 DEF IInv, AdmittedOnce
<1> QED
  BY <1>1, IInvAlways, PTL DEF Spec, InviteOnce
=============================================================================
