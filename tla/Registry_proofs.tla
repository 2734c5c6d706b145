--------------------------- MODULE Registry_proofs ---------------------------
(***************************************************************************)
(* For every set of prompts, candidates and requests: names are unique     *)
(* unless a patch was overtaken, the versions of a prompt are numbered     *)
(* without a gap, and a candidate becomes one version.  Each follows from  *)
(* a lock: whoever is about to write holds it, and what it read before     *)
(* holding it, or under it, is still so.                                   *)
(***************************************************************************)
EXTENDS Registry, FiniteSetTheorems, TLAPS

LockIds == {Name(n) : n \in Names} \cup {Row(p) : p \in Ids} \cup {Candidate(q) : q \in Candidates}

Types ==
  /\ prompt \in [Ids -> PromptType]
  /\ versions \subseteq VersionType
  /\ alias \in [Ids -> [Aliases -> Nat]]
  /\ linked \in [Candidates -> Nat]
  /\ locks \in [LockIds -> Requests \cup {Free}]
  /\ req \in [Requests -> RequestType]
  /\ overtaken \in BOOLEAN

-----------------------------------------------------------------------------
(***************************************************************************)
(* The inductive invariant: first what holds of the rows ...               *)
(***************************************************************************)

\* Only a request in a transaction holds a lock.
LocksHeld == \A x \in LockIds : locks[x] # Free => req[locks[x]].pc \in Holding

\* A prompt is there from the start, or by the request that created it; before
\* that it is not active and has no versions.
Born(p) == p \in Prompts \/ At(p, "done")
BornFirst == \A p \in Ids : ~Born(p) => ~prompt[p].active /\ Of(p) = {}

\* The versions of a prompt have the numbers from 1 on, each once.
Count(p) == Cardinality(Of(p))
InTurn ==
  \A p \in Ids :
    /\ IsFiniteSet(Of(p))
    /\ {v.number : v \in Of(p)} = 1 .. Count(p)
    /\ \A v, w \in Of(p) : v.number = w.number => v = w

\* A candidate's versions are the one that it is linked to.
LinkedOnce ==
  \A q \in Candidates : \A v \in versions :
    v.candidate = q => v.prompt = Owner[q] /\ v.number = linked[q]

\* An alias and a candidate point at a version that is there.
AliasPoints ==
  \A p \in Ids : \A a \in Aliases :
    alias[p][a] # 0 => \E v \in Of(p) : v.number = alias[p][a]
LinkPoints ==
  \A q \in Candidates : linked[q] # 0 =>
    [prompt |-> Owner[q], number |-> linked[q], candidate |-> q] \in versions

(***************************************************************************)
(* ... and then what holds of each request.                                *)
(***************************************************************************)

\* Which kinds of request get where, and which name one is at.
InPlace(r) ==
  /\ req[r].pc \in {"claim", "write"} =>
       Op[r].kind \in {"create", "import", "patch"} /\ req[r].try \in DOMAIN Op[r].names
  /\ At(r, "new") => req[r].try = 1
  /\ req[r].pc \in {"lock candidate", "find"} => Is(r, "candidate")
  /\ req[r].pc \in {"number", "insert"} => Is(r, "commit") \/ Is(r, "candidate")
  /\ At(r, "aliases") => Is(r, "commit")
  /\ At(r, "upsert") => Promotes(r)

\* Whoever is about to add a version to a prompt has found it there.
BornTarget(r) == req[r].pc \in {"lock candidate", "number", "insert"} => Born(Target(r))

\* Whoever claimed the name it is about to write still holds its lock, and,
\* while no patch was overtaken, nobody else has the name.
Claims(r) == ~Is(r, "patch") \/ req[r].seen # Claimed(r)
ClaimHeld(r) ==
  At(r, "write") /\ Claims(r) =>
    /\ locks[Name(Claimed(r))] = r
    /\ ~overtaken => ~Taken(r)

\* Whoever is about to insert a version holds the prompt's row, and has the next
\* number.
InsertLocked(r) ==
  At(r, "insert") =>
    locks[Row(Target(r))] = r /\ req[r].number = Count(Target(r)) + 1

\* Whoever is about to link a candidate holds its row, and it is not linked.
LinkLocked(r) ==
  Is(r, "candidate") /\ req[r].pc \in {"number", "insert"} =>
    locks[Candidate(Op[r].candidate)] = r /\ linked[Op[r].candidate] = 0

\* A request about a candidate answers with the version it is linked to.
AnswersLinked(r) ==
  Is(r, "candidate") /\ req[r].pc \in {"find", "upsert", "done"} =>
    linked[Op[r].candidate] # 0 /\ req[r].number = linked[Op[r].candidate]

\* An alias that is about to be written points at a version.
AliasFound(r) ==
  /\ At(r, "aliases") => req[r].number = 1 /\ \E v \in Of(Target(r)) : v.number = 1
  /\ At(r, "upsert") => \E v \in Of(Target(r)) : v.number = Wanted(r)

\* What a request was refused by a unique index for is a first version's aliases.
ConflictFirst(r) == At(r, "conflict") => req[r].number = 1 /\ ~NoDefaults(Target(r))

Good(r) ==
  /\ InPlace(r) /\ BornTarget(r) /\ ClaimHeld(r)
  /\ InsertLocked(r) /\ LinkLocked(r) /\ AnswersLinked(r)
  /\ AliasFound(r) /\ ConflictFirst(r)

IInv ==
  /\ Types
  /\ LocksHeld /\ BornFirst /\ NamesClaimed
  /\ InTurn /\ LinkedOnce /\ AliasPoints /\ LinkPoints
  /\ \A r \in Requests : Good(r)

-----------------------------------------------------------------------------
(***************************************************************************)
(* What the assumptions say of one request, and of locks.                  *)
(***************************************************************************)

LEMMA OpTypes ==
  ASSUME NEW r \in Requests
  PROVE  /\ r \in Ids /\ r # Free /\ Target(r) \in Ids /\ Op[r].alias \in Aliases
         /\ Op[r].prompt \in Ids /\ Op[r].number \in Nat /\ Op[r].kind \in Kinds
         /\ Is(r, "candidate") => Op[r].candidate \in Candidates /\ Target(r) = Owner[Op[r].candidate]
         /\ \A i \in DOMAIN Op[r].names : Op[r].names[i] \in Names
         /\ Op[r].kind \in {"create", "import", "patch"} => 1 \in DOMAIN Op[r].names
         /\ "production" \in Aliases
<1>1. Target(r) \in Ids
  BY RegistryAssumption DEF Target, Is, Ids
<1>2. \A i \in DOMAIN Op[r].names : Op[r].names[i] \in Names
  BY RegistryAssumption
<1>3. Op[r].kind \in {"create", "import", "patch"} => 1 \in DOMAIN Op[r].names
  BY RegistryAssumption
<1> QED
  BY <1>1, <1>2, <1>3, RegistryAssumption DEF Target, Is, Ids, Aliases, Defaults

\* A name that a request claims has a lock, and so have rows and candidates.
LEMMA HasLock ==
  /\ \A n \in Names : Name(n) \in LockIds
  /\ \A p \in Ids : Row(p) \in LockIds
  /\ \A q \in Candidates : Candidate(q) \in LockIds
BY DEF LockIds

\* Locks on different things are different locks.
LEMMA LocksDiffer ==
  /\ \A m, n : Name(m) = Name(n) => m = n
  /\ \A p, q : Row(p) = Row(q) => p = q
  /\ \A p, q : Candidate(p) = Candidate(q) => p = q
  /\ \A p, q : Name(p) # Row(q) /\ Name(p) # Candidate(q) /\ Row(p) # Candidate(q)
BY DEF Name, Row, Candidate

\* What unlocking does.
LEMMA Unlocks ==
  ASSUME Types, NEW r \in Requests, Unlock(r)
  PROVE  /\ locks' \in [LockIds -> Requests \cup {Free}]
         /\ \A x \in LockIds : locks'[x] = IF locks[x] = r THEN Free ELSE locks[x]
BY DEF Types, Unlock

LEMMA Locks ==
  ASSUME Types, NEW r \in Requests, NEW x \in LockIds, Lock(r, x)
  PROVE  /\ locks' \in [LockIds -> Requests \cup {Free}]
         /\ locks'[x] = r
         /\ \A y \in LockIds : y # x => locks'[y] = locks[y]
BY DEF Types, Lock

LEMMA InitIInv == Init => IInv
<1> SUFFICES ASSUME Init PROVE IInv
  OBVIOUS
<1>1. PICK W \in Workloads :
        req = [r \in Requests |-> IF r \in W THEN NewRequest ELSE [NewRequest EXCEPT !.pc = "dead"]]
  BY DEF Init
<1>2. \A r \in Requests : req[r] \in RequestType /\ req[r].pc \in {"new", "dead"} /\ req[r].try = 1
  <2>1. NewRequest \in RequestType /\ NewRequest.pc = "new" /\ NewRequest.try = 1
    BY DEF NewRequest, RequestType, Pcs, Texts
  <2>2. "dead" \in Pcs
    BY DEF Pcs, Ended
  <2> QED
    BY <1>1, <2>1, <2>2 DEF RequestType
<1>3. req \in [Requests -> RequestType]
  BY <1>1, <1>2
<1>4. prompt \in [Ids -> PromptType]
  BY RegistryAssumption DEF Init, PromptType, Texts, NoPrompt, Names
<1>5. Types
  BY <1>3, <1>4 DEF Init, Types, VersionType, LockIds
<1>6. \A p \in Ids : Of(p) = {}
  BY DEF Init, Of
<1>7. LocksHeld /\ AliasPoints /\ LinkPoints
  BY <1>6 DEF Init, LocksHeld, AliasPoints, LinkPoints, LockIds
<1>8. BornFirst /\ NamesClaimed /\ LinkedOnce
  BY <1>6, RegistryAssumption
     DEF Init, BornFirst, Born, NamesClaimed, UniqueNames, SameName, LinkedOnce, NoPrompt
<1>9. InTurn
  <2> SUFFICES ASSUME NEW p \in Ids
               PROVE  /\ IsFiniteSet(Of(p))
                      /\ {v.number : v \in Of(p)} = 1 .. Count(p)
                      /\ \A v, w \in Of(p) : v.number = w.number => v = w
    BY DEF InTurn
  <2>1. Cardinality({}) = 0 /\ IsFiniteSet({})
    BY FS_EmptySet
  <2>2. Of(p) = {} /\ Count(p) = 0
    BY <1>6, <2>1 DEF Count
  <2> QED
    BY <2>1, <2>2
<1>10. ASSUME NEW r \in Requests PROVE Good(r)
  BY <1>2 DEF Good, InPlace, BornTarget, ClaimHeld, InsertLocked, LinkLocked, AnswersLinked,
              AliasFound, ConflictFirst, At, Holding, Ended
<1> QED
  BY <1>5, <1>7, <1>8, <1>9, <1>10 DEF IInv

-----------------------------------------------------------------------------
(***************************************************************************)
(* What a step of one request leaves alone.                                *)
(***************************************************************************)

\* A step of r writes only its own entry, and takes and releases only its own
\* locks.  Who had come to its end stays there.
OnlyBy(r) ==
  /\ req' \in [Requests -> RequestType]
  /\ \A s \in Requests \ {r} : req'[s] = req[s]
  /\ req[r].pc # "done"
  /\ locks' \in [LockIds -> Requests \cup {Free}]
  /\ \A x \in LockIds : \/ locks'[x] = locks[x] /\ locks[x] # r
                        \/ locks[x] \in {Free, r} /\ locks'[x] \in {Free, r}
  /\ \A x \in LockIds : locks'[x] = r => req'[r].pc \in Holding

\* Rows that others rely on are only added to.
Grows ==
  /\ versions \subseteq versions'
  /\ \A q \in Candidates : linked[q] # 0 => linked'[q] = linked[q]
  /\ \A p \in Ids : ~NoDefaults(p) => ~NoDefaults(p)'
  /\ overtaken => overtaken'

LEMMA BornStays ==
  ASSUME NEW r \in Requests, OnlyBy(r), NEW p \in Ids, Born(p)
  PROVE  Born(p)'
BY DEF OnlyBy, Born, At, Ids

LEMMA LocksStay ==
  ASSUME NEW r \in Requests, OnlyBy(r), LocksHeld, Types
  PROVE  /\ LocksHeld'
         /\ \A s \in Requests \ {r} : \A x \in LockIds : locks[x] = s => locks'[x] = s
BY RegistryAssumption DEF OnlyBy, LocksHeld, Types

\* The other requests are where they were, as long as the three kinds of rows
\* they wait to write are untouched.
LEMMA OthersGood ==
  ASSUME IInv, NEW r \in Requests, OnlyBy(r), Grows, NEW s \in Requests \ {r},
         At(s, "insert") => Of(Target(s))' = Of(Target(s)),
         Is(s, "candidate") /\ req[s].pc \in {"number", "insert"}
           => linked'[Op[s].candidate] = linked[Op[s].candidate],
         At(s, "write") /\ Claims(s) /\ ~overtaken' /\ ~Taken(s) => ~Taken(s)'
  PROVE  Good(s)'
<1>1. Good(s) /\ req'[s] = req[s]
  BY DEF IInv, OnlyBy
<1>2. \A x \in LockIds : locks[x] = s => locks'[x] = s
  BY LocksStay DEF IInv
<1>3. InPlace(s)'
  BY <1>1 DEF Good, InPlace, At, Is, Promotes
<1>4. BornTarget(s)'
  BY <1>1, BornStays, OpTypes DEF Good, BornTarget, Target, Is
<1>5. ClaimHeld(s)'
  <2> SUFFICES ASSUME At(s, "write"), Claims(s)
               PROVE  locks'[Name(Claimed(s))] = s /\ (~overtaken' => ~Taken(s)')
    BY <1>1 DEF ClaimHeld, At, Claims, Is, Claimed
  <2>1. locks[Name(Claimed(s))] = s /\ (~overtaken => ~Taken(s))
    BY <1>1 DEF Good, ClaimHeld
  <2>2. Name(Claimed(s)) \in LockIds
    BY <1>1, OpTypes, HasLock DEF Good, InPlace, Claimed, At
  <2> QED
    BY <1>2, <2>1, <2>2 DEF Grows
<1>6. InsertLocked(s)'
  <2> SUFFICES ASSUME At(s, "insert")
               PROVE  locks'[Row(Target(s))] = s /\ req'[s].number = Count(Target(s))' + 1
    BY <1>1 DEF InsertLocked, At, Target, Is
  <2>1. locks[Row(Target(s))] = s /\ req[s].number = Count(Target(s)) + 1
    BY <1>1 DEF Good, InsertLocked
  <2> QED
    BY <1>1, <1>2, <2>1, OpTypes, HasLock DEF Count
<1>7. LinkLocked(s)'
  BY <1>1, <1>2, OpTypes, HasLock DEF Good, LinkLocked, Is
<1>8. AnswersLinked(s)'
  BY <1>1, OpTypes DEF Good, AnswersLinked, Is, Grows
<1>9. AliasFound(s)'
  BY <1>1 DEF Good, AliasFound, At, Of, Grows, Wanted, Target, Is
<1>10. ConflictFirst(s)'
  BY <1>1, OpTypes DEF Good, ConflictFirst, At, Grows, Target, Is
<1> QED
  BY <1>3, <1>4, <1>5, <1>6, <1>7, <1>8, <1>9, <1>10 DEF Good

\* A step that writes no row.
LEMMA NoRows ==
  ASSUME IInv, NEW r \in Requests, OnlyBy(r), Good(r)',
         UNCHANGED <<prompt, versions, alias, linked, overtaken>>
  PROVE  IInv'
<1>1. Types'
  BY DEF IInv, Types, OnlyBy
<1>2. LocksHeld'
  BY LocksStay DEF IInv
<1>3. \A p \in Ids : Of(p)' = Of(p) /\ NoDefaults(p)' = NoDefaults(p)
  BY DEF Of, NoDefaults
<1>4. BornFirst'
  BY <1>3, BornStays DEF IInv, BornFirst
<1>5. AliasPoints' /\ LinkPoints'
  BY <1>3 DEF IInv, AliasPoints, LinkPoints
<1>6. NamesClaimed' /\ LinkedOnce'
  BY DEF IInv, NamesClaimed, UniqueNames, SameName, LinkedOnce
<1>7. InTurn'
  BY <1>3 DEF IInv, InTurn, Count
<1>8. ASSUME NEW s \in Requests \ {r} PROVE Good(s)'
  <2>1. Grows
    BY <1>3 DEF Grows
  <2>2. Taken(s)' = Taken(s)
    BY DEF Taken, Claimed, OnlyBy, Is
  <2> QED
    BY <1>3, <2>1, <2>2, OthersGood, OpTypes DEF Target, Is
<1> QED
  BY <1>1, <1>2, <1>4, <1>5, <1>6, <1>7, <1>8 DEF IInv

-----------------------------------------------------------------------------
(***************************************************************************)
(* How a step goes from one place to the next.                             *)
(***************************************************************************)

\* A step that takes and releases no lock.
LEMMA LocksUnchanged ==
  ASSUME IInv, NEW r \in Requests, NEW new \in RequestType, req' = [req EXCEPT ![r] = new],
         UNCHANGED locks, req[r].pc # "done", req[r].pc \in Holding => new.pc \in Holding
  PROVE  OnlyBy(r) /\ req'[r] = new
BY RegistryAssumption DEF IInv, Types, OnlyBy, LocksHeld

LEMMA TakesLock ==
  ASSUME IInv, NEW r \in Requests, NEW new \in RequestType, req' = [req EXCEPT ![r] = new],
         NEW x \in LockIds, CanLock(r, x), Lock(r, x), new.pc \in Holding, req[r].pc # "done"
  PROVE  OnlyBy(r) /\ req'[r] = new
BY Locks, RegistryAssumption DEF IInv, Types, OnlyBy, CanLock

LEMMA ReleasesLocks ==
  ASSUME IInv, NEW r \in Requests, NEW new \in RequestType, req' = [req EXCEPT ![r] = new],
         Unlock(r), req[r].pc # "done"
  PROVE  OnlyBy(r) /\ req'[r] = new
BY Unlocks, RegistryAssumption, OpTypes DEF IInv, Types, OnlyBy

\* Nothing is asked of a request that is refused or dead, nor of one that is done
\* unless it is a candidate's.
LEMMA Rests ==
  ASSUME NEW r \in Requests, req'[r].pc \in {"refused", "dead", "done"},
         req'[r].pc = "done" => ~Is(r, "candidate")
  PROVE  Good(r)'
BY DEF Good, InPlace, BornTarget, ClaimHeld, InsertLocked, LinkLocked, AnswersLinked,
       AliasFound, ConflictFirst, At, Is

\* A request goes to another place with the rest of its entry as it is.
LEMMA GoesTyped ==
  ASSUME Types, NEW r \in Requests, NEW pc \in Pcs, Goes(r, pc)
  PROVE  /\ [req[r] EXCEPT !.pc = pc] \in RequestType
         /\ req' = [req EXCEPT ![r] = [req[r] EXCEPT !.pc = pc]]
BY DEF Types, RequestType, Goes

-----------------------------------------------------------------------------
(***************************************************************************)
(* Names.                                                                  *)
(***************************************************************************)

LEMMA BeginKeeps == ASSUME NEW r \in Requests, IInv, Begin(r) PROVE IInv'
<1> USE DEF Begin
<1>1. At(r, "new") /\ req[r].try = 1 /\ req[r] \in RequestType
  BY DEF IInv, Types, Good, InPlace
<1>2. CASE (Is(r, "create") \/ Is(r, "import")) /\ Goes(r, "claim")
  <2> DEFINE new == [req[r] EXCEPT !.pc = "claim"]
  <2>1. new \in RequestType /\ req' = [req EXCEPT ![r] = new]
    BY <1>2, GoesTyped DEF IInv, Pcs, Holding
  <2>2. new.pc = "claim" /\ new.try = 1
    BY <1>1 DEF RequestType
  <2> HIDE DEF new
  <2>3. OnlyBy(r) /\ req'[r] = new
    BY <1>1, <2>1, <2>2, LocksUnchanged DEF At, Holding
  <2>4. Good(r)'
    BY <1>2, <2>2, <2>3, OpTypes
       DEF Good, InPlace, BornTarget, ClaimHeld, InsertLocked, LinkLocked, AnswersLinked,
           AliasFound, ConflictFirst, At, Is
  <2> QED
    BY <2>3, <2>4, NoRows
<1>3. CASE /\ Is(r, "patch") /\ prompt[Op[r].prompt].active
           /\ req' = [req EXCEPT ![r].seen = prompt[Op[r].prompt].name,
                ![r].pc = IF prompt[Op[r].prompt].name = Claimed(r) THEN "write" ELSE "claim"]
  <2> DEFINE name == prompt[Op[r].prompt].name
  <2> DEFINE new == [req[r] EXCEPT !.seen = name, !.pc = IF name = Claimed(r) THEN "write" ELSE "claim"]
  <2>1. name \in Texts
    BY OpTypes DEF IInv, Types, PromptType
  <2>2. new \in RequestType /\ req' = [req EXCEPT ![r] = new]
    BY <1>1, <1>3, <2>1 DEF RequestType, Pcs, Holding, IInv, Types
  <2>3. /\ new.pc \in {"claim", "write"} /\ new.try = 1 /\ new.seen = name
        /\ new.pc = "write" => name = Claimed(r)
    BY <1>1 DEF RequestType
  <2> HIDE DEF new
  <2>4. OnlyBy(r) /\ req'[r] = new
    BY <1>1, <2>2, <2>3, LocksUnchanged DEF At, Holding
  <2>5. Claimed(r)' = Claimed(r)
    BY <1>1, <2>3, <2>4 DEF Claimed
  <2>6. Good(r)'
    BY <1>3, <2>3, <2>4, <2>5, OpTypes
       DEF Good, InPlace, BornTarget, ClaimHeld, Claims, InsertLocked, LinkLocked, AnswersLinked,
           AliasFound, ConflictFirst, At, Is
  <2> QED
    BY <2>4, <2>6, NoRows
<1>4. CASE Is(r, "patch") /\ Goes(r, "refused")
  <2> DEFINE new == [req[r] EXCEPT !.pc = "refused"]
  <2>1. new \in RequestType /\ req' = [req EXCEPT ![r] = new]
    BY <1>4, GoesTyped DEF IInv, Pcs, Ended
  <2>2. new.pc = "refused"
    BY <1>1 DEF RequestType
  <2> HIDE DEF new
  <2>3. OnlyBy(r) /\ req'[r] = new
    BY <1>1, <2>1, <2>2, LocksUnchanged DEF At, Holding
  <2> QED
    BY <2>2, <2>3, Rests, NoRows
<1> QED
  BY <1>2, <1>3, <1>4

LEMMA ClaimKeeps == ASSUME NEW r \in Requests, IInv, Claim(r) PROVE IInv'
<1> USE DEF Claim
<1>1. /\ At(r, "claim") /\ req[r] \in RequestType
      /\ Op[r].kind \in {"create", "import", "patch"} /\ req[r].try \in DOMAIN Op[r].names
  BY DEF IInv, Types, Good, InPlace, At
<1>2. Name(Claimed(r)) \in LockIds /\ CanLock(r, Name(Claimed(r)))
  BY <1>1, OpTypes, HasLock DEF Claimed, MayClaim
<1>3. CASE ~Taken(r) /\ Lock(r, Name(Claimed(r))) /\ Goes(r, "write")
  <2> DEFINE new == [req[r] EXCEPT !.pc = "write"]
  <2>1. new \in RequestType /\ req' = [req EXCEPT ![r] = new]
    BY <1>3, GoesTyped DEF IInv, Pcs, Holding
  <2>2. new.pc = "write" /\ new.try = req[r].try
    BY <1>1 DEF RequestType
  <2> HIDE DEF new
  <2>3. OnlyBy(r) /\ req'[r] = new
    BY <1>1, <1>2, <1>3, <2>1, <2>2, TakesLock DEF At, Holding
  <2>4. Claimed(r)' = Claimed(r)
    BY <2>2, <2>3 DEF Claimed
  <2>5. locks'[Name(Claimed(r))] = r /\ ~Taken(r)'
    BY <1>2, <1>3, <2>4, Locks DEF Taken, Is, IInv
  <2>6. Good(r)'
    BY <1>1, <2>2, <2>3, <2>4, <2>5
       DEF Good, InPlace, BornTarget, ClaimHeld, InsertLocked, LinkLocked, AnswersLinked,
           AliasFound, ConflictFirst, At, Is
  <2> QED
    BY <2>3, <2>6, NoRows
<1>4. CASE /\ req[r].try < Len(Op[r].names) /\ Lock(r, Name(Claimed(r)))
           /\ req' = [req EXCEPT ![r].try = @ + 1]
  <2> DEFINE new == [req[r] EXCEPT !.try = req[r].try + 1]
  <2>0. req[r].try + 1 \in Nat \ {0}
    BY <1>1 DEF RequestType
  <2>1. new \in RequestType /\ req' = [req EXCEPT ![r] = new]
    BY <1>1, <1>4, <2>0 DEF RequestType
  <2>2. new.pc = "claim" /\ new.try \in DOMAIN Op[r].names
    BY <1>1, <1>4, RegistryAssumption DEF RequestType, At
  <2> HIDE DEF new
  <2>3. OnlyBy(r) /\ req'[r] = new
    BY <1>1, <1>2, <1>4, <2>1, <2>2, TakesLock DEF At, Holding
  <2>4. Good(r)'
    BY <1>1, <2>2, <2>3
       DEF Good, InPlace, BornTarget, ClaimHeld, InsertLocked, LinkLocked, AnswersLinked,
           AliasFound, ConflictFirst, At, Is
  <2> QED
    BY <2>3, <2>4, NoRows
<1>5. CASE Unlock(r) /\ Goes(r, "refused")
  <2> DEFINE new == [req[r] EXCEPT !.pc = "refused"]
  <2>1. new \in RequestType /\ req' = [req EXCEPT ![r] = new]
    BY <1>5, GoesTyped DEF IInv, Pcs, Ended
  <2>2. new.pc = "refused"
    BY <1>1 DEF RequestType
  <2> HIDE DEF new
  <2>3. OnlyBy(r) /\ req'[r] = new
    BY <1>1, <1>5, <2>1, ReleasesLocks DEF At
  <2> QED
    BY <2>2, <2>3, Rests, NoRows
<1> QED
  BY <1>3, <1>4, <1>5

LEMMA DiesKeeps == ASSUME NEW r \in Requests, IInv, Dies(r) PROVE IInv'
<1> USE DEF Dies
<1> DEFINE new == [req[r] EXCEPT !.pc = "dead"]
<1>1. new \in RequestType /\ req' = [req EXCEPT ![r] = new]
  BY GoesTyped DEF IInv, Pcs, Ended
<1>2. new.pc = "dead"
  BY DEF IInv, Types, RequestType
<1> HIDE DEF new
<1>3. OnlyBy(r) /\ req'[r] = new
  BY <1>1, ReleasesLocks DEF Ended
<1> QED
  BY <1>2, <1>3, Rests, NoRows

\* A name is written: by then it is nobody else's, or a patch was overtaken.
LEMMA WriteKeeps == ASSUME NEW r \in Requests, IInv, Write(r) PROVE IInv'
<1> DEFINE p == IF Is(r, "patch") THEN Op[r].prompt ELSE r
<1> DEFINE n == Claimed(r)
<1>1. /\ At(r, "write") /\ req[r] \in RequestType
      /\ Op[r].kind \in {"create", "import", "patch"} /\ req[r].try \in DOMAIN Op[r].names
      /\ Unlock(r) /\ UNCHANGED linked
  BY DEF Write, IInv, Types, Good, InPlace, At
<1>2. p \in Ids /\ n \in Names /\ Name(n) \in LockIds
  BY <1>1, OpTypes, HasLock DEF Claimed
<1>3. CASE Is(r, "patch") /\ ~prompt[p].active
  <2> DEFINE new == [req[r] EXCEPT !.pc = "refused"]
  <2>1. Goes(r, "refused") /\ UNCHANGED <<prompt, versions, alias, linked, overtaken>>
    BY <1>3 DEF Write, Is
  <2>2. new \in RequestType /\ req' = [req EXCEPT ![r] = new]
    BY <2>1, GoesTyped DEF IInv, Pcs, Ended
  <2>3. new.pc = "refused"
    BY <1>1 DEF RequestType
  <2> HIDE DEF new
  <2>4. OnlyBy(r) /\ req'[r] = new
    BY <1>1, <2>2, ReleasesLocks DEF At
  <2> QED
    BY <2>1, <2>3, <2>4, Rests, NoRows
<1>4. CASE ~(Is(r, "patch") /\ ~prompt[p].active)
  <2> DEFINE new == [req[r] EXCEPT !.pc = "done"]
  <2> DEFINE first == [prompt |-> r, number |-> 1, candidate |-> Free]
  <2>1. /\ prompt' = [prompt EXCEPT ![p] = [name |-> n, active |-> TRUE]]
        /\ overtaken' = (overtaken \/ (req[r].seen = n /\ prompt[p].name # n))
        /\ Goes(r, "done")
    BY <1>4 DEF Write
  <2>2. /\ Is(r, "import") =>
             /\ versions' = versions \cup {first}
             /\ alias' = [alias EXCEPT ![r] = [a \in Aliases |-> IF a \in Defaults THEN 1 ELSE 0]]
        /\ ~Is(r, "import") => UNCHANGED <<versions, alias>>
    BY DEF Write, Is
  <2>3. new \in RequestType /\ req' = [req EXCEPT ![r] = new]
    BY <2>1, GoesTyped DEF IInv, Pcs, Ended
  <2>4. new.pc = "done"
    BY <1>1 DEF RequestType
  <2> HIDE DEF new
  <2>5. OnlyBy(r) /\ req'[r] = new
    BY <1>1, <2>3, ReleasesLocks DEF At
  <2>6. r \in Ids /\ Born(r)' /\ ~Born(r)
    BY <1>1, <2>4, <2>5, RegistryAssumption DEF Born, At, Ids
  <2>7. Of(r) = {}
    BY <2>6 DEF IInv, BornFirst
  <2>8. Is(r, "patch") => prompt[p].active
    BY <1>4
  <2>9. first \in VersionType /\ Free \notin Candidates
    BY <2>6, RegistryAssumption DEF VersionType
  <2> HIDE DEF first
  <2>10. first.prompt = r /\ first.number = 1 /\ first.candidate = Free
    BY DEF first
  <2>11. /\ \A q \in Ids : q # r => Of(q)' = Of(q)
         /\ Of(r)' = IF Is(r, "import") THEN {first} ELSE {}
    BY <2>2, <2>7, <2>10 DEF Of
  \* Nobody else has the name.
  <2>12. ASSUME ~overtaken', NEW q \in Ids, q # p, prompt[q].active PROVE prompt[q].name # n
    <3>1. ~overtaken /\ UniqueNames
      BY <2>1, <2>12 DEF IInv, Types, NamesClaimed
    <3>2. CASE Claims(r)
      <4>1. ~Taken(r)
        BY <1>1, <3>1, <3>2 DEF IInv, Good, ClaimHeld
      <4> QED
        BY <2>12, <4>1 DEF Taken
    <3>3. CASE ~Claims(r)
      <4>1. Is(r, "patch") /\ prompt[p].name = n /\ prompt[p].active
        BY <2>1, <2>8, <2>12, <3>3 DEF Claims, Types, IInv
      <4> QED
        BY <1>2, <2>12, <3>1, <4>1 DEF UniqueNames, SameName
    <3> QED
      BY <3>2, <3>3
  <2> HIDE DEF p, n
  <2>13. Types'
    <3>1. prompt' \in [Ids -> PromptType]
      BY <1>2, <2>1 DEF IInv, Types, PromptType, Texts
    <3>2. alias' \in [Ids -> [Aliases -> Nat]]
      BY <2>2, <2>6 DEF IInv, Types
    <3>3. versions' \subseteq VersionType
      BY <2>2, <2>9 DEF IInv, Types
    <3>4. overtaken' \in BOOLEAN
      BY <2>1 DEF IInv, Types
    <3> QED
      BY <1>1, <2>5, <3>1, <3>2, <3>3, <3>4 DEF IInv, Types, OnlyBy
  <2>14. LocksHeld'
    BY <2>5, LocksStay DEF IInv
  <2>15. BornFirst'
    <3> SUFFICES ASSUME NEW q \in Ids, ~Born(q)' PROVE ~prompt'[q].active /\ Of(q)' = {}
      BY DEF BornFirst
    <3>1. ~Born(q) /\ q # r
      BY <2>5, <2>6, BornStays
    <3>2. q # p
      BY <2>8, <3>1 DEF IInv, BornFirst, p
    <3> QED
      BY <2>1, <2>11, <3>1, <3>2 DEF IInv, BornFirst, Types
  <2>16. NamesClaimed'
    <3> SUFFICES ASSUME ~overtaken', NEW p1 \in Ids, NEW p2 \in Ids, SameName(p1, p2)'
                 PROVE  FALSE
      BY DEF NamesClaimed, UniqueNames
    <3>1. UniqueNames
      BY <2>1 DEF IInv, NamesClaimed, Types
    <3>2. \A q \in Ids : prompt'[q] = IF q = p THEN [name |-> n, active |-> TRUE] ELSE prompt[q]
      BY <1>2, <2>1 DEF IInv, Types
    <3> QED
      BY <2>12, <3>1, <3>2 DEF UniqueNames, SameName
  <2>17. InTurn'
    <3> SUFFICES ASSUME NEW q \in Ids
                 PROVE  /\ IsFiniteSet(Of(q)')
                        /\ {v.number : v \in Of(q)'} = 1 .. Cardinality(Of(q)')
                        /\ \A v, w \in Of(q)' : v.number = w.number => v = w
      BY DEF InTurn, Count
    <3>1. CASE Of(q)' = Of(q)
      BY <3>1 DEF IInv, InTurn, Count
    <3>2. CASE Of(q)' = {first}
      <4>1. Cardinality({first}) = 1 /\ IsFiniteSet({first})
        BY FS_Singleton
      <4> QED
        BY <2>10, <3>2, <4>1
    <3> QED
      BY <2>7, <2>11, <3>1, <3>2
  <2>18. LinkedOnce'
    BY <1>1, <2>2, <2>9, <2>10 DEF IInv, LinkedOnce
  <2>19. AliasPoints'
    <3> SUFFICES ASSUME NEW q \in Ids, NEW a \in Aliases, alias'[q][a] # 0
                 PROVE  \E v \in Of(q)' : v.number = alias'[q][a]
      BY DEF AliasPoints
    <3>1. CASE Is(r, "import") /\ q = r
      BY <2>2, <2>6, <2>10, <2>11, <3>1 DEF IInv, Types
    <3>2. CASE ~(Is(r, "import") /\ q = r)
      <4>1. alias'[q] = alias[q]
        BY <2>2, <3>2 DEF IInv, Types
      <4>2. Of(q) \subseteq Of(q)'
        BY <2>7, <2>11
      <4> QED
        BY <4>1, <4>2 DEF IInv, AliasPoints
    <3> QED
      BY <3>1, <3>2
  <2>20. LinkPoints'
    BY <1>1, <2>2 DEF IInv, LinkPoints
  <2>21. Good(r)'
    BY <1>1, <2>4, <2>5, Rests DEF Is
  <2>22. ASSUME NEW s \in Requests \ {r} PROVE Good(s)'
    <3>1. Grows
      <4>1. \A q \in Ids : ~NoDefaults(q) => ~NoDefaults(q)'
        BY <2>2, <2>6 DEF NoDefaults, IInv, Types, Aliases
      <4> QED
        BY <1>1, <2>1, <2>2, <4>1 DEF Grows
    <3>2. At(s, "insert") => Of(Target(s))' = Of(Target(s))
      BY <2>6, <2>11, OpTypes DEF IInv, Good, BornTarget, At, Target, Is
    <3>3. ASSUME At(s, "write"), Claims(s), ~overtaken', ~Taken(s) PROVE ~Taken(s)'
      <4> SUFFICES ASSUME NEW q \in Ids, prompt'[q].active, prompt'[q].name = Claimed(s),
                          ~(Is(s, "patch") /\ q = Op[s].prompt)
                   PROVE  FALSE
        BY <2>5 DEF Taken, OnlyBy, Claimed, Is
      <4>1. q = p
        BY <1>2, <2>1, <3>3 DEF Taken, IInv, Types
      <4>2. n = Claimed(s)
        BY <1>2, <2>1, <4>1 DEF IInv, Types
      <4>3. CASE Claims(r)
        BY <1>1, <3>3, <4>2, <4>3 DEF IInv, Good, ClaimHeld, n
      <4>4. CASE ~Claims(r)
        <5>1. prompt[p].active /\ prompt[p].name = n
          BY <2>1, <2>8, <3>3, <4>4 DEF Claims, n, IInv, Types
        <5> QED
          BY <1>2, <3>3, <4>1, <4>2, <5>1 DEF Taken
      <4> QED
        BY <4>3, <4>4
    <3> QED
      BY <1>1, <2>5, <3>1, <3>2, <3>3, OthersGood
  <2> QED
    BY <2>13, <2>14, <2>15, <2>16, <2>17, <2>18, <2>19, <2>20, <2>21, <2>22 DEF IInv
<1> QED
  BY <1>3, <1>4

\* A prompt that is deleted leaves its name to others.
LEMMA DeleteKeeps == ASSUME NEW r \in Requests, IInv, Delete(r) PROVE IInv'
<1> DEFINE p == Op[r].prompt
<1>1. At(r, "new") /\ Is(r, "delete") /\ UNCHANGED <<versions, alias, linked, locks, overtaken>>
  BY DEF Delete
<1>2. p \in Ids /\ prompt' = [prompt EXCEPT ![p].active = FALSE]
  BY OpTypes DEF Delete
<1>3. PICK new \in RequestType :
        req' = [req EXCEPT ![r] = new] /\ new.pc \in {"done", "refused"}
  <2> DEFINE new == [req[r] EXCEPT !.pc = IF prompt[p].active THEN "done" ELSE "refused"]
  <2>1. new \in RequestType /\ new.pc \in {"done", "refused"}
    BY DEF IInv, Types, RequestType, Pcs, Ended
  <2>2. req' = [req EXCEPT ![r] = new]
    BY DEF Delete, Goes
  <2> QED
    BY <2>1, <2>2
<1>4. OnlyBy(r) /\ req'[r] = new
  BY <1>1, <1>3, LocksUnchanged DEF At, Holding
<1>5. \A q \in Ids : /\ prompt'[q].name = prompt[q].name
                     /\ prompt'[q].active => prompt[q].active
  BY <1>2 DEF IInv, Types, PromptType
<1>6. \A q \in Ids : Of(q)' = Of(q) /\ NoDefaults(q)' = NoDefaults(q)
  BY <1>1 DEF Of, NoDefaults
<1>7. Types'
  <2>1. prompt' \in [Ids -> PromptType]
    BY <1>2 DEF IInv, Types, PromptType
  <2> QED
    BY <1>1, <1>4, <2>1 DEF IInv, Types, OnlyBy
<1>8. LocksHeld'
  BY <1>4, LocksStay DEF IInv
<1>9. BornFirst'
  BY <1>4, <1>5, <1>6, BornStays DEF IInv, BornFirst
<1>10. NamesClaimed'
  BY <1>1, <1>5 DEF IInv, NamesClaimed, UniqueNames, SameName
<1>11. InTurn'
  BY <1>6 DEF IInv, InTurn, Count
<1>12. LinkedOnce' /\ AliasPoints' /\ LinkPoints'
  BY <1>1, <1>6 DEF IInv, LinkedOnce, AliasPoints, LinkPoints
<1>13. Good(r)'
  BY <1>1, <1>3, <1>4, Rests DEF Is
<1>14. ASSUME NEW s \in Requests \ {r} PROVE Good(s)'
  <2>1. Grows
    BY <1>1, <1>6 DEF Grows
  <2>2. ~Taken(s) => ~Taken(s)'
    BY <1>4, <1>5 DEF Taken, Claimed, OnlyBy, Is
  <2>3. Of(Target(s))' = Of(Target(s))
    BY <1>6, OpTypes DEF Target, Is
  <2> QED
    BY <1>1, <1>4, <2>1, <2>2, <2>3, OthersGood
<1> QED
  BY <1>7, <1>8, <1>9, <1>10, <1>11, <1>12, <1>13, <1>14 DEF IInv

-----------------------------------------------------------------------------
(***************************************************************************)
(* Versions.                                                               *)
(***************************************************************************)

\* The number a candidate is linked to is the number of a version of its prompt.
LEMMA LinkIsVersion ==
  ASSUME IInv, NEW q \in Candidates, linked[q] # 0
  PROVE  \E v \in Of(Owner[q]) : v.number = linked[q]
<1>1. [prompt |-> Owner[q], number |-> linked[q], candidate |-> q] \in versions
  BY DEF IInv, LinkPoints
<1> QED
  BY <1>1 DEF Of

\* A candidate's request that finds it linked answers with that version.
LEMMA AnswersKeeps ==
  ASSUME NEW r \in Requests, IInv, Is(r, "candidate"), linked[Op[r].candidate] # 0,
         req[r].pc \in {"new", "lock candidate"}, Answers(r, linked[Op[r].candidate]),
         UNCHANGED <<prompt, versions, alias, linked, locks, overtaken>>
  PROVE  IInv'
<1> DEFINE n == linked[Op[r].candidate]
<1> DEFINE pc == IF Op[r].alias # "none" THEN "find" ELSE "done"
<1> DEFINE new == [req[r] EXCEPT !.number = n, !.pc = pc]
<1>1. n \in Nat /\ req[r] \in RequestType
  BY OpTypes DEF IInv, Types
<1>2. new \in RequestType /\ req' = [req EXCEPT ![r] = new]
  BY <1>1 DEF Answers, RequestType, Pcs, Ended
<1>3. new.pc \in {"find", "done"} /\ new.number = n
  BY <1>1 DEF RequestType
<1> HIDE DEF new, pc
<1>4. OnlyBy(r) /\ req'[r] = new
  BY <1>2, LocksUnchanged DEF Holding
<1>5. Good(r)'
  BY <1>3, <1>4 DEF Good, InPlace, BornTarget, ClaimHeld, InsertLocked, LinkLocked,
                    AnswersLinked, AliasFound, ConflictFirst, At, Is
<1> QED
  BY <1>4, <1>5, NoRows

LEMMA PrepareKeeps == ASSUME NEW r \in Requests, IInv, Prepare(r) PROVE IInv'
<1> USE DEF Prepare
<1>1. At(r, "new") /\ (Is(r, "commit") \/ Is(r, "candidate")) /\ req[r] \in RequestType
  BY DEF IInv, Types
<1>2. CASE Is(r, "candidate") /\ linked[Op[r].candidate] # 0 /\ prompt[Target(r)].active
  BY <1>1, <1>2, AnswersKeeps DEF At, Is
<1>3. CASE ~(Is(r, "candidate") /\ linked[Op[r].candidate] # 0 /\ prompt[Target(r)].active)
  <2> DEFINE pc == IF ~prompt[Target(r)].active THEN "refused"
                   ELSE IF Is(r, "commit") THEN "number" ELSE "lock candidate"
  <2> DEFINE new == [req[r] EXCEPT !.pc = pc]
  <2>1. pc \in Pcs /\ Goes(r, pc)
    BY <1>1, <1>3 DEF Pcs, Holding, Ended, Is
  <2>2. new \in RequestType /\ req' = [req EXCEPT ![r] = new] /\ new.pc = pc
    BY <1>1, <2>1, GoesTyped DEF IInv, RequestType
  <2>3. /\ pc # "refused" => prompt[Target(r)].active
        /\ pc = "lock candidate" => Is(r, "candidate")
        /\ pc = "number" => Is(r, "commit")
        /\ pc \in {"refused", "number", "lock candidate"}
    BY <1>1
  <2> HIDE DEF pc, new
  <2>4. OnlyBy(r) /\ req'[r] = new
    BY <1>1, <2>2, LocksUnchanged DEF At, Holding
  <2>5. pc # "refused" => Born(Target(r))'
    BY <2>3, <2>4, BornStays, OpTypes DEF IInv, BornFirst
  <2>6. Target(r)' = Target(r)
    BY DEF Target, Is
  <2>7. Good(r)'
    BY <2>2, <2>3, <2>4, <2>5, <2>6
       DEF Good, InPlace, BornTarget, Born, ClaimHeld, InsertLocked, LinkLocked,
           AnswersLinked, AliasFound, ConflictFirst, At, Is
  <2> QED
    BY <2>4, <2>7, NoRows
<1> QED
  BY <1>2, <1>3

LEMMA LockCandidateKeeps == ASSUME NEW r \in Requests, IInv, LockCandidate(r) PROVE IInv'
<1> USE DEF LockCandidate, LinkUnderLock
<1>1. At(r, "lock candidate") /\ Is(r, "candidate") /\ req[r] \in RequestType
  BY DEF IInv, Types, Good, InPlace, At
<1>2. CASE linked[Op[r].candidate] # 0 /\ prompt[Target(r)].active
  BY <1>1, <1>2, AnswersKeeps DEF At
<1>3. CASE linked[Op[r].candidate] # 0 /\ ~prompt[Target(r)].active
  <2> DEFINE new == [req[r] EXCEPT !.pc = "refused"]
  <2>1. new \in RequestType /\ req' = [req EXCEPT ![r] = new] /\ new.pc = "refused"
    BY <1>1, <1>3, GoesTyped DEF IInv, Pcs, Ended, RequestType
  <2> HIDE DEF new
  <2>2. OnlyBy(r) /\ req'[r] = new
    BY <1>1, <1>3, <2>1, LocksUnchanged DEF At, Holding
  <2> QED
    BY <2>1, <2>2, Rests, NoRows
<1>4. CASE linked[Op[r].candidate] = 0
  <2> DEFINE x == Candidate(Op[r].candidate)
  <2> DEFINE new == [req[r] EXCEPT !.pc = "number"]
  <2>1. x \in LockIds /\ CanLock(r, x) /\ Lock(r, x)
    BY <1>1, <1>4, OpTypes, HasLock
  <2>2. new \in RequestType /\ req' = [req EXCEPT ![r] = new] /\ new.pc = "number"
    BY <1>1, <1>4, GoesTyped DEF IInv, Pcs, Holding, RequestType
  <2> HIDE DEF new
  <2>3. OnlyBy(r) /\ req'[r] = new
    BY <1>1, <2>1, <2>2, TakesLock DEF At, Holding
  <2>4. locks'[x] = r
    BY <2>1, Locks DEF IInv
  <2>5. Born(Target(r))'
    BY <1>1, <2>3, BornStays, OpTypes DEF IInv, Good, BornTarget, At
  <2>6. Target(r)' = Target(r)
    BY DEF Target, Is
  <2>7. Good(r)'
    BY <1>1, <1>4, <2>2, <2>3, <2>4, <2>5, <2>6
       DEF Good, InPlace, BornTarget, Born, ClaimHeld, InsertLocked, LinkLocked,
           AnswersLinked, AliasFound, ConflictFirst, At, Is
  <2> QED
    BY <2>3, <2>7, NoRows
<1> QED
  BY <1>2, <1>3, <1>4

\* The highest number of a prompt is how many versions it has.
LEMMA MaxIsCount ==
  ASSUME IInv, NEW p \in Ids
  PROVE  Count(p) \in Nat /\ MaxNumber(p) = Count(p)
<1> DEFINE S == {v.number : v \in Of(p)} \cup {0}
<1>1. Count(p) \in Nat /\ S = 0 .. Count(p)
  BY FS_CardinalityType DEF IInv, InTurn, Count
<1>2. \A m \in S : (\A y \in S : m >= y) => m = Count(p)
  BY <1>1
<1>3. Count(p) \in S /\ \A y \in S : Count(p) >= y
  BY <1>1
<1>4. MaxNumber(p) = CHOOSE m \in S : \A y \in S : m >= y
  BY DEF MaxNumber, Max
<1> QED
  BY <1>1, <1>2, <1>3, <1>4

LEMMA NumberKeeps == ASSUME NEW r \in Requests, IInv, Number(r) PROVE IInv'
<1> DEFINE p == Target(r)
<1>1. /\ At(r, "number") /\ (Is(r, "commit") \/ Is(r, "candidate")) /\ req[r] \in RequestType
      /\ UNCHANGED <<prompt, versions, alias, linked, overtaken>>
  BY DEF Number, IInv, Types, Good, InPlace, At
<1>2. p \in Ids /\ Row(p) \in LockIds /\ CanLock(r, Row(p)) /\ Lock(r, Row(p))
  BY OpTypes, HasLock DEF Number, MayNumber
<1>3. Count(p) \in Nat /\ MaxNumber(p) = Count(p)
  BY <1>2, MaxIsCount
<1> DEFINE new == [req[r] EXCEPT !.number = Count(p) + 1, !.pc = "insert"]
<1>4. new \in RequestType /\ req' = [req EXCEPT ![r] = new]
  <2>1. Count(p) + 1 \in Nat
    BY <1>3
  <2>2. req' = [req EXCEPT ![r] = new]
    BY <1>3 DEF Number
  <2> QED
    BY <1>1, <2>1, <2>2 DEF RequestType, Pcs, Holding
<1>5. new.pc = "insert" /\ new.number = Count(p) + 1
  BY <1>1 DEF RequestType
<1> HIDE DEF new
<1>6. OnlyBy(r) /\ req'[r] = new
  BY <1>1, <1>2, <1>4, <1>5, TakesLock DEF At, Holding
<1>7. locks'[Row(p)] = r /\ \A q : Candidate(q) \in LockIds => locks'[Candidate(q)] = locks[Candidate(q)]
  BY <1>2, Locks, LocksDiffer DEF IInv
<1>8. Target(r)' = p /\ Count(p)' = Count(p)
  BY <1>1 DEF Target, Is, Count, Of
<1>9. Born(p)'
  BY <1>1, <1>2, <1>6, BornStays DEF IInv, Good, BornTarget, At
<1>10. InsertLocked(r)'
  BY <1>5, <1>6, <1>7, <1>8 DEF InsertLocked, Count, Of
<1>11. LinkLocked(r)'
  BY <1>1, <1>7, OpTypes, HasLock DEF LinkLocked, Is, IInv, Good, At
<1>12. Good(r)'
  BY <1>1, <1>5, <1>6, <1>8, <1>9, <1>10, <1>11
     DEF Good, InPlace, BornTarget, Born, ClaimHeld, AnswersLinked, AliasFound, ConflictFirst, At, Is
<1> QED
  BY <1>1, <1>6, <1>12, NoRows

\* A version is inserted: nobody else is about to insert one of the prompt or to
\* link the candidate.
LEMMA InsertKeeps == ASSUME NEW r \in Requests, IInv, Insert(r) PROVE IInv'
<1> DEFINE p == Target(r)
<1> DEFINE n == Count(p) + 1
<1> DEFINE cand == IF Is(r, "candidate") THEN Op[r].candidate ELSE Free
<1>1. /\ At(r, "insert") /\ (Is(r, "commit") \/ Is(r, "candidate")) /\ req[r] \in RequestType
      /\ req[r].number = n /\ Born(p) /\ locks[Row(p)] = r
      /\ UNCHANGED <<prompt, overtaken>>
  BY DEF Insert, IInv, Types, Good, InPlace, BornTarget, InsertLocked, At
<1>2. p \in Ids /\ Row(p) \in LockIds
  BY OpTypes, HasLock
<1>3. Count(p) \in Nat /\ {v.number : v \in Of(p)} = 1 .. Count(p) /\ IsFiniteSet(Of(p))
  BY <1>2, MaxIsCount DEF IInv, InTurn
<1>4. n \in Nat \ {0} /\ \A v \in Of(p) : v.number # n
  BY <1>3
<1>5. CASE Conflict(r) /\ Is(r, "candidate") /\ n = 1 /\ ~NoDefaults(p)
  <2> DEFINE new == [req[r] EXCEPT !.pc = "conflict"]
  <2>1. /\ new \in RequestType /\ req' = [req EXCEPT ![r] = new]
        /\ new.pc = "conflict" /\ new.number = n
    BY <1>1, <1>5, GoesTyped DEF Conflict, IInv, Pcs, Ended, RequestType
  <2> HIDE DEF new
  <2>2. OnlyBy(r) /\ req'[r] = new
    BY <1>1, <1>5, <2>1, ReleasesLocks DEF Conflict, At
  <2>3. NoDefaults(Target(r))' = NoDefaults(p)
    BY <1>5 DEF Conflict, NoDefaults, Target, Is
  <2>4. Good(r)'
    BY <1>5, <2>1, <2>2, <2>3
       DEF Good, InPlace, BornTarget, ClaimHeld, InsertLocked, LinkLocked,
           AnswersLinked, AliasFound, ConflictFirst, At, Is
  <2> QED
    BY <1>1, <1>5, <2>2, <2>4, NoRows DEF Conflict
<1>6. CASE ~(Is(r, "candidate") /\ n = 1 /\ ~NoDefaults(p))
  <2> DEFINE v1 == [prompt |-> p, number |-> n, candidate |-> cand]
  <2> DEFINE pc == IF Is(r, "candidate")
                   THEN IF Op[r].alias # "none" THEN "find" ELSE "done"
                   ELSE IF n = 1 THEN "aliases" ELSE "done"
  <2> DEFINE new == [req[r] EXCEPT !.number = n, !.pc = pc]
  <2>1. ~(\E v \in Of(p) : v.number = req[r].number)
    BY <1>1, <1>4
  <2>2. /\ versions' = versions \cup {v1} /\ Unlock(r)
        /\ Is(r, "candidate") =>
             /\ linked' = [linked EXCEPT ![cand] = n]
             /\ alias' = IF n = 1 THEN WithDefaults(p, n) ELSE alias
             /\ Answers(r, n)
        /\ ~Is(r, "candidate") =>
             Goes(r, IF n = 1 THEN "aliases" ELSE "done") /\ UNCHANGED <<alias, linked>>
    BY <1>1, <1>6, <2>1 DEF Insert
  <2>3. new \in RequestType /\ new.pc = pc /\ new.number = n
    BY <1>1, <1>4 DEF RequestType, Pcs, Ended
  <2>4. req' = [req EXCEPT ![r] = new]
    <3>1. CASE Is(r, "candidate")
      BY <2>2, <3>1 DEF Answers
    <3>2. CASE ~Is(r, "candidate")
      <4>1. new = [req[r] EXCEPT !.pc = pc]
        BY <1>1, <3>2 DEF RequestType
      <4> QED
        BY <2>2, <3>2, <4>1 DEF Goes
    <3> QED
      BY <3>1, <3>2
  <2>5. /\ Is(r, "candidate") => pc \in {"find", "done"} /\ cand = Op[r].candidate
        /\ ~Is(r, "candidate") => pc \in {"aliases", "done"} /\ cand = Free
        /\ pc = "aliases" => n = 1
    OBVIOUS
  <2>6. v1.prompt = p /\ v1.number = n /\ v1.candidate = cand
    OBVIOUS
  <2>7. v1 \in VersionType
    BY <1>2, <1>4, OpTypes DEF VersionType
  <2>8. Is(r, "candidate") => /\ cand \in Candidates /\ p = Owner[cand] /\ linked[cand] = 0
                              /\ locks[Candidate(cand)] = r
    BY <1>1, OpTypes DEF IInv, Good, LinkLocked, At
  <2> HIDE DEF new, pc, v1, cand, n
  <2>9. OnlyBy(r) /\ req'[r] = new
    BY <1>1, <2>2, <2>3, <2>4, ReleasesLocks DEF At
  <2>10. Of(p)' = Of(p) \cup {v1} /\ \A q \in Ids : q # p => Of(q)' = Of(q)
    BY <2>2, <2>6 DEF Of
  <2>11. \A q \in Ids : Of(q) \subseteq Of(q)'
    BY <2>10
  <2>12. Types'
    <3>1. versions' \subseteq VersionType
      BY <2>2, <2>7 DEF IInv, Types
    <3>2. linked' \in [Candidates -> Nat]
      BY <1>4, <2>2, <2>8 DEF IInv, Types
    <3>3. alias' \in [Ids -> [Aliases -> Nat]]
      <4>1. WithDefaults(p, n) \in [Ids -> [Aliases -> Nat]]
        BY <1>2, <1>4 DEF WithDefaults, IInv, Types
      <4> QED
        BY <2>2, <4>1 DEF IInv, Types
    <3> QED
      BY <1>1, <2>9, <3>1, <3>2, <3>3 DEF IInv, Types, OnlyBy
  <2>13. LocksHeld'
    BY <2>9, LocksStay DEF IInv
  <2>14. BornFirst'
    BY <1>1, <1>2, <2>9, <2>10, BornStays DEF IInv, BornFirst
  <2>15. NamesClaimed'
    BY <1>1 DEF IInv, NamesClaimed, UniqueNames, SameName
  <2>16. InTurn'
    <3> SUFFICES ASSUME NEW q \in Ids
                 PROVE  /\ IsFiniteSet(Of(q)')
                        /\ {v.number : v \in Of(q)'} = 1 .. Cardinality(Of(q)')
                        /\ \A v, w \in Of(q)' : v.number = w.number => v = w
      BY DEF InTurn, Count
    <3>1. CASE q # p
      BY <2>10, <3>1 DEF IInv, InTurn, Count
    <3>2. CASE q = p
      <4>1. v1 \notin Of(p)
        BY <1>4, <2>6
      <4>2. IsFiniteSet(Of(p)') /\ Cardinality(Of(p)') = Cardinality(Of(p)) + 1
        BY <1>3, <2>10, <4>1, FS_AddElement
      <4>3. {v.number : v \in Of(p)'} = {v.number : v \in Of(p)} \cup {n}
        BY <2>6, <2>10
      <4>4. {v.number : v \in Of(p)'} = 1 .. n
        BY <1>3, <4>3 DEF n
      <4>5. \A v, w \in Of(p)' : v.number = w.number => v = w
        BY <1>2, <1>4, <2>6, <2>10 DEF IInv, InTurn
      <4> QED
        BY <3>2, <4>2, <4>4, <4>5 DEF n, Count
    <3> QED
      BY <3>1, <3>2
  <2>17. LinkedOnce'
    <3> SUFFICES ASSUME NEW q \in Candidates, NEW v \in versions', v.candidate = q
                 PROVE  v.prompt = Owner[q] /\ v.number = linked'[q]
      BY DEF LinkedOnce
    <3>1. CASE v = v1
      BY <2>2, <2>5, <2>6, <2>8, <3>1, RegistryAssumption DEF IInv, Types
    <3>2. CASE v \in versions
      <4>1. v.prompt = Owner[q] /\ v.number = linked[q] /\ v.number # 0
        BY <3>2 DEF IInv, LinkedOnce, Types, VersionType
      <4> QED
        BY <2>2, <2>8, <4>1 DEF IInv, Types
    <3> QED
      BY <2>2, <3>1, <3>2
  <2>18. AliasPoints'
    <3> SUFFICES ASSUME NEW q \in Ids, NEW a \in Aliases, alias'[q][a] # 0
                 PROVE  \E v \in Of(q)' : v.number = alias'[q][a]
      BY DEF AliasPoints
    <3>1. CASE alias'[q][a] = alias[q][a]
      BY <2>11, <3>1 DEF IInv, AliasPoints
    <3>2. CASE alias'[q][a] # alias[q][a]
      <4>1. q = p /\ alias'[q][a] = n
        BY <1>2, <2>2, <3>2 DEF WithDefaults, IInv, Types
      <4> QED
        BY <2>6, <2>10, <4>1
    <3> QED
      BY <3>1, <3>2
  <2>19. LinkPoints'
    <3> SUFFICES ASSUME NEW q \in Candidates, linked'[q] # 0
                 PROVE  [prompt |-> Owner[q], number |-> linked'[q], candidate |-> q] \in versions'
      BY DEF LinkPoints
    <3>1. CASE linked'[q] = linked[q]
      BY <2>2, <3>1 DEF IInv, LinkPoints
    <3>2. CASE linked'[q] # linked[q]
      <4>1. Is(r, "candidate") /\ q = cand /\ linked'[q] = n
        BY <2>2, <2>8, <3>2 DEF IInv, Types
      <4> QED
        BY <2>2, <2>8, <4>1 DEF v1
    <3> QED
      BY <3>1, <3>2
  <2>20. Good(r)'
    <3>1. Target(r)' = p
      BY DEF Target, Is
    <3>2. AliasFound(r)'
      BY <1>1, <2>3, <2>5, <2>6, <2>9, <2>10, <3>1 DEF AliasFound, At, Is
    <3>3. AnswersLinked(r)'
      BY <1>4, <2>2, <2>3, <2>5, <2>8, <2>9 DEF AnswersLinked, Is, IInv, Types
    <3> QED
      BY <1>1, <2>3, <2>5, <2>9, <3>2, <3>3
         DEF Good, InPlace, BornTarget, ClaimHeld, InsertLocked, LinkLocked, ConflictFirst, At, Is
  <2>21. ASSUME NEW s \in Requests \ {r} PROVE Good(s)'
    <3>1. Grows
      <4>1. \A q \in Ids : ~NoDefaults(q) => ~NoDefaults(q)'
        BY <1>2, <1>4, <2>2 DEF NoDefaults, WithDefaults, IInv, Types, Aliases
      <4>2. \A q \in Candidates : linked[q] # 0 => linked'[q] = linked[q]
        BY <2>2, <2>8 DEF IInv, Types
      <4> QED
        BY <1>1, <2>2, <4>1, <4>2 DEF Grows
    <3>2. At(s, "insert") => Of(Target(s))' = Of(Target(s))
      BY <1>1, <2>10, OpTypes DEF IInv, Good, InsertLocked, Target, Is
    <3>3. Is(s, "candidate") /\ req[s].pc \in {"number", "insert"}
            => linked'[Op[s].candidate] = linked[Op[s].candidate]
      BY <2>2, <2>8, OpTypes DEF IInv, Good, LinkLocked, Types
    <3>4. Taken(s)' = Taken(s)
      BY <1>1, <2>9 DEF Taken, Claimed, OnlyBy, Is
    <3> QED
      BY <2>9, <3>1, <3>2, <3>3, <3>4, OthersGood
  <2> QED
    BY <2>12, <2>13, <2>14, <2>15, <2>16, <2>17, <2>18, <2>19, <2>20, <2>21 DEF IInv
<1>7. \/ Conflict(r) /\ Is(r, "candidate") /\ n = 1 /\ ~NoDefaults(p)
      \/ ~(Is(r, "candidate") /\ n = 1 /\ ~NoDefaults(p))
  BY <1>1, <1>4 DEF Insert
<1> QED
  BY <1>5, <1>6, <1>7

-----------------------------------------------------------------------------
(***************************************************************************)
(* Aliases.                                                                *)
(***************************************************************************)

\* A step that writes aliases alone, each to a version that is there, and takes no
\* default away.
LEMMA WritesAliases ==
  ASSUME IInv, NEW r \in Requests, OnlyBy(r), Good(r)',
         UNCHANGED <<prompt, versions, linked, overtaken>>,
         alias' \in [Ids -> [Aliases -> Nat]],
         \A p \in Ids : \A a \in Aliases :
           alias'[p][a] \notin {0, alias[p][a]} => \E v \in Of(p) : v.number = alias'[p][a],
         \A p \in Ids : \A a \in Defaults : alias'[p][a] = 0 => alias[p][a] = 0
  PROVE  IInv'
<1>1. Types'
  BY DEF IInv, Types, OnlyBy
<1>2. LocksHeld'
  BY LocksStay DEF IInv
<1>3. \A p \in Ids : Of(p)' = Of(p)
  BY DEF Of
<1>4. BornFirst'
  BY <1>3, BornStays DEF IInv, BornFirst
<1>5. AliasPoints'
  BY <1>3 DEF IInv, AliasPoints
<1>6. NamesClaimed' /\ LinkedOnce' /\ LinkPoints'
  BY DEF IInv, NamesClaimed, UniqueNames, SameName, LinkedOnce, LinkPoints
<1>7. InTurn'
  BY <1>3 DEF IInv, InTurn, Count
<1>8. ASSUME NEW s \in Requests \ {r} PROVE Good(s)'
  <2>1. Grows
    BY DEF Grows, NoDefaults
  <2>2. Taken(s)' = Taken(s)
    BY DEF Taken, Claimed, OnlyBy, Is
  <2> QED
    BY <1>3, <2>1, <2>2, OthersGood, OpTypes DEF Target, Is
<1> QED
  BY <1>1, <1>2, <1>4, <1>5, <1>6, <1>7, <1>8 DEF IInv

LEMMA CreateAliasesKeeps == ASSUME NEW r \in Requests, IInv, CreateAliases(r) PROVE IInv'
<1> DEFINE p == Target(r)
<1>1. /\ At(r, "aliases") /\ Is(r, "commit") /\ req[r] \in RequestType /\ p \in Ids
      /\ req[r].number = 1 /\ \E v \in Of(p) : v.number = 1
      /\ UNCHANGED <<prompt, versions, linked, locks, overtaken>>
  BY OpTypes DEF CreateAliases, IInv, Types, Good, InPlace, AliasFound, At
<1>2. CASE NoDefaults(p)
  <2> DEFINE new == [req[r] EXCEPT !.pc = "done"]
  <2>1. alias' = WithDefaults(p, 1) /\ Goes(r, "done")
    BY <1>1, <1>2 DEF CreateAliases
  <2>2. new \in RequestType /\ req' = [req EXCEPT ![r] = new] /\ new.pc = "done"
    BY <1>1, <2>1, GoesTyped DEF IInv, Pcs, Ended, RequestType
  <2> HIDE DEF new
  <2>3. OnlyBy(r) /\ req'[r] = new
    BY <1>1, <2>2, LocksUnchanged DEF At, Holding
  <2>4. Good(r)'
    BY <1>1, <2>2, <2>3, Rests DEF Is
  <2>5. /\ alias' \in [Ids -> [Aliases -> Nat]]
        /\ \A q \in Ids : \A a \in Aliases : alias'[q][a] # alias[q][a] => q = p /\ alias'[q][a] = 1
        /\ \A q \in Ids : \A a \in Defaults : alias'[q][a] = 0 => alias[q][a] = 0
    <3>1. \A q \in Ids : alias'[q] =
            IF q = p THEN [a \in Aliases |-> IF a \in Defaults THEN 1 ELSE alias[p][a]] ELSE alias[q]
      BY <1>1, <2>1 DEF WithDefaults, IInv, Types
    <3>2. alias' \in [Ids -> [Aliases -> Nat]]
      BY <1>1, <2>1 DEF WithDefaults, IInv, Types
    <3>3. \A q \in Ids : \A a \in Aliases :
            alias'[q][a] = IF q = p /\ a \in Defaults THEN 1 ELSE alias[q][a]
      BY <3>1
    <3>4. Defaults \subseteq Aliases
      BY DEF Aliases
    <3> QED
      BY <3>2, <3>3, <3>4
  <2> QED
    BY <1>1, <2>3, <2>4, <2>5, WritesAliases
<1>3. CASE ~NoDefaults(p)
  <2> DEFINE new == [req[r] EXCEPT !.pc = "conflict"]
  <2>1. UNCHANGED alias /\ Goes(r, "conflict")
    BY <1>1, <1>3 DEF CreateAliases
  <2>2. /\ new \in RequestType /\ req' = [req EXCEPT ![r] = new]
        /\ new.pc = "conflict" /\ new.number = 1
    BY <1>1, <2>1, GoesTyped DEF IInv, Pcs, Ended, RequestType
  <2> HIDE DEF new
  <2>3. OnlyBy(r) /\ req'[r] = new
    BY <1>1, <2>2, LocksUnchanged DEF At, Holding
  <2>4. NoDefaults(Target(r))' = NoDefaults(p)
    BY <2>1 DEF NoDefaults, Target, Is
  <2>5. Good(r)'
    BY <1>1, <1>3, <2>2, <2>3, <2>4
       DEF Good, InPlace, BornTarget, ClaimHeld, InsertLocked, LinkLocked,
           AnswersLinked, AliasFound, ConflictFirst, At, Is
  <2> QED
    BY <1>1, <2>1, <2>3, <2>5, NoRows
<1> QED
  BY <1>2, <1>3

LEMMA FindKeeps == ASSUME NEW r \in Requests, IInv, Find(r) PROVE IInv'
<1> DEFINE p == Target(r)
<1> DEFINE pc == IF prompt[p].active /\ (\E v \in Of(p) : v.number = Wanted(r))
                 THEN "upsert" ELSE "refused"
<1> DEFINE new == [req[r] EXCEPT !.pc = pc]
<1>1. /\ Promotes(r) /\ At(r, IF Is(r, "promote") THEN "new" ELSE "find")
      /\ req[r] \in RequestType /\ Goes(r, pc)
      /\ UNCHANGED <<prompt, versions, alias, linked, locks, overtaken>>
  BY DEF Find, IInv, Types
<1>2. /\ new \in RequestType /\ req' = [req EXCEPT ![r] = new]
      /\ new.pc = pc /\ new.number = req[r].number
  BY <1>1, GoesTyped DEF IInv, Pcs, Ended, RequestType
<1>3. pc \in {"upsert", "refused"} /\ (pc = "upsert" => \E v \in Of(p) : v.number = Wanted(r))
  OBVIOUS
<1> HIDE DEF new, pc
<1>4. OnlyBy(r) /\ req'[r] = new
  BY <1>1, <1>2, LocksUnchanged DEF At, Holding
<1>5. Wanted(r)' = Wanted(r) /\ Of(Target(r))' = Of(p)
  BY <1>1, <1>2, <1>4 DEF Wanted, Of, Target, Is
<1>6. AnswersLinked(r)'
  BY <1>1, <1>2, <1>3, <1>4 DEF AnswersLinked, IInv, Good, Is, At
<1>7. AliasFound(r)'
  BY <1>2, <1>3, <1>4, <1>5 DEF AliasFound, At
<1>8. Good(r)'
  BY <1>1, <1>2, <1>3, <1>4, <1>6, <1>7
     DEF Good, InPlace, BornTarget, ClaimHeld, InsertLocked, LinkLocked, ConflictFirst,
         At, Is, Promotes
<1> QED
  BY <1>1, <1>4, <1>8, NoRows

LEMMA UpsertKeeps == ASSUME NEW r \in Requests, IInv, Upsert(r) PROVE IInv'
<1> DEFINE p == Target(r)
<1> DEFINE new == [req[r] EXCEPT !.pc = "done"]
<1>1. /\ At(r, "upsert") /\ req[r] \in RequestType /\ Goes(r, "done")
      /\ alias' = [alias EXCEPT ![p][Op[r].alias] = Wanted(r)]
      /\ UNCHANGED <<prompt, versions, linked, locks, overtaken>>
  BY DEF Upsert, IInv, Types
<1>2. p \in Ids /\ Op[r].alias \in Aliases
  BY OpTypes
<1>3. PICK v \in Of(p) : v.number = Wanted(r)
  BY <1>1 DEF IInv, Good, AliasFound
<1>4. Wanted(r) \in Nat \ {0}
  BY <1>3 DEF Of, IInv, Types, VersionType
<1>5. /\ new \in RequestType /\ req' = [req EXCEPT ![r] = new]
      /\ new.pc = "done" /\ new.number = req[r].number
  BY <1>1, GoesTyped DEF IInv, Pcs, Ended, RequestType
<1> HIDE DEF new
<1>6. OnlyBy(r) /\ req'[r] = new
  BY <1>1, <1>5, LocksUnchanged DEF At, Holding
<1>7. Good(r)'
  BY <1>1, <1>5, <1>6
     DEF IInv, Good, InPlace, BornTarget, ClaimHeld, InsertLocked, LinkLocked, AnswersLinked,
         AliasFound, ConflictFirst, At, Is
<1>8. /\ alias' \in [Ids -> [Aliases -> Nat]]
      /\ \A q \in Ids : \A a \in Aliases :
           alias'[q][a] # alias[q][a] => q = p /\ alias'[q][a] = Wanted(r)
      /\ \A q \in Ids : \A a \in Defaults : alias'[q][a] = 0 => alias[q][a] = 0
  BY <1>1, <1>2, <1>4 DEF IInv, Types, Aliases
<1> QED
  BY <1>1, <1>3, <1>6, <1>7, <1>8, WritesAliases

LEMMA UnaliasKeeps == ASSUME NEW r \in Requests, IInv, Unalias(r) PROVE IInv'
<1> DEFINE p == Op[r].prompt
<1> DEFINE removes == prompt[p].active /\ Op[r].alias \notin Defaults /\ alias[p][Op[r].alias] # 0
<1> DEFINE new == [req[r] EXCEPT !.pc = IF removes THEN "done" ELSE "refused"]
<1>1. /\ At(r, "new") /\ Is(r, "unalias") /\ req[r] \in RequestType
      /\ UNCHANGED <<prompt, versions, linked, locks, overtaken>>
  BY DEF Unalias, IInv, Types
<1>2. p \in Ids /\ Op[r].alias \in Aliases
  BY OpTypes
<1>3. req' = [req EXCEPT ![r] = new] /\ new \in RequestType /\ new.pc \in {"done", "refused"}
  BY <1>1 DEF Unalias, Goes, RequestType, Pcs, Ended
<1>4. \/ alias' = alias
      \/ Op[r].alias \notin Defaults /\ alias' = [alias EXCEPT ![p][Op[r].alias] = 0]
  BY DEF Unalias
<1> HIDE DEF new
<1>5. OnlyBy(r) /\ req'[r] = new
  BY <1>1, <1>3, LocksUnchanged DEF At, Holding
<1>6. Good(r)'
  BY <1>1, <1>3, <1>5, Rests DEF Is
<1>7. /\ alias' \in [Ids -> [Aliases -> Nat]]
      /\ \A q \in Ids : \A a \in Aliases : alias'[q][a] \in {0, alias[q][a]}
      /\ \A q \in Ids : \A a \in Defaults : alias'[q][a] = alias[q][a]
  <2>1. CASE alias' = alias
    BY <2>1 DEF IInv, Types
  <2>2. CASE Op[r].alias \notin Defaults /\ alias' = [alias EXCEPT ![p][Op[r].alias] = 0]
    <3>1. \A q \in Ids : \A a \in Aliases :
            alias'[q][a] = IF q = p /\ a = Op[r].alias THEN 0 ELSE alias[q][a]
      BY <1>2, <2>2 DEF IInv, Types
    <3>2. alias' \in [Ids -> [Aliases -> Nat]]
      BY <1>2, <2>2 DEF IInv, Types
    <3>3. \A a \in Defaults : a \in Aliases /\ a # Op[r].alias
      BY <2>2 DEF Aliases
    <3>4. \A q \in Ids : \A a \in Aliases : alias'[q][a] \in {0, alias[q][a]}
      BY <3>1
    <3>5. \A q \in Ids : \A a \in Defaults : alias'[q][a] = alias[q][a]
      BY <3>1, <3>3
    <3> QED
      BY <3>2, <3>4, <3>5
  <2> QED
    BY <1>4, <2>1, <2>2
<1> QED
  BY <1>1, <1>5, <1>6, <1>7, WritesAliases

-----------------------------------------------------------------------------
LEMMA StutterKeeps == IInv /\ UNCHANGED vars => IInv'
<1> SUFFICES ASSUME IInv, UNCHANGED vars PROVE IInv'
  OBVIOUS
<1> USE DEF vars
<1>1. Types' /\ LocksHeld' /\ BornFirst' /\ NamesClaimed'
  BY DEF IInv, Types, LocksHeld, BornFirst, Born, At, Of, NamesClaimed, UniqueNames, SameName
<1>2. InTurn' /\ LinkedOnce' /\ AliasPoints' /\ LinkPoints'
  BY DEF IInv, InTurn, Count, Of, LinkedOnce, AliasPoints, LinkPoints
<1>3. ASSUME NEW r \in Requests PROVE Good(r)'
  <2>1. Good(r)
    BY DEF IInv
  <2>2. (InPlace(r) /\ BornTarget(r) /\ ClaimHeld(r))'
    BY <2>1 DEF Good, InPlace, BornTarget, Born, ClaimHeld, Claims, Claimed, Taken, At, Is,
                Promotes, Target
  <2>3. (InsertLocked(r) /\ LinkLocked(r) /\ AnswersLinked(r) /\ AliasFound(r) /\ ConflictFirst(r))'
    BY <2>1 DEF Good, InsertLocked, Count, Of, LinkLocked, AnswersLinked, AliasFound, Wanted,
                ConflictFirst, NoDefaults, At, Is, Target
  <2> QED
    BY <2>2, <2>3 DEF Good
<1> QED
  BY <1>1, <1>2, <1>3 DEF IInv

LEMMA NextIInv == IInv /\ [Next]_vars => IInv'
<1> SUFFICES ASSUME IInv, [Next]_vars PROVE IInv'
  OBVIOUS
<1>1. CASE UNCHANGED vars
  BY <1>1, StutterKeeps
<1>2. ASSUME NEW r \in Requests, Begin(r) \/ Claim(r) \/ Write(r) \/ Delete(r) PROVE IInv'
  BY <1>2, BeginKeeps, ClaimKeeps, WriteKeeps, DeleteKeeps
<1>3. ASSUME NEW r \in Requests, Prepare(r) \/ LockCandidate(r) \/ Number(r) \/ Insert(r) PROVE IInv'
  BY <1>3, PrepareKeeps, LockCandidateKeeps, NumberKeeps, InsertKeeps
<1>4. ASSUME NEW r \in Requests, CreateAliases(r) \/ Find(r) \/ Upsert(r) \/ Unalias(r) \/ Dies(r)
      PROVE  IInv'
  BY <1>4, CreateAliasesKeeps, FindKeeps, UpsertKeeps, UnaliasKeeps, DiesKeeps
<1> QED
  BY <1>1, <1>2, <1>3, <1>4 DEF Next

LEMMA IInvAlways == Spec => []IInv
BY InitIInv, NextIInv, PTL DEF Spec

\* Every row, lock and request holds what its type says, only a request in a
\* transaction holds a lock, and no alias or candidate points at a version that is
\* not there.
THEOREM TypeCorrect == Spec => []TypeOK
<1>1. IInv => TypeOK
  <2> SUFFICES ASSUME IInv PROVE TypeOK
    OBVIOUS
  <2>1. Types /\ DOMAIN locks = LockIds
    BY DEF IInv, Types
  <2>2. \A x \in DOMAIN locks : locks[x] # Free => req[locks[x]].pc \in Holding
    BY <2>1 DEF IInv, LocksHeld
  <2>3. /\ \A p \in Ids : \A a \in Aliases :
             alias[p][a] # 0 => \E v \in Of(p) : v.number = alias[p][a]
        /\ \A q \in Candidates :
             linked[q] # 0 => [prompt |-> Owner[q], number |-> linked[q], candidate |-> q] \in versions
    BY DEF IInv, AliasPoints, LinkPoints
  <2> QED
    BY <2>1, <2>2, <2>3 DEF Types, TypeOK
<1> QED
  BY <1>1, IInvAlways, PTL

\* lockName and assertNameFree: whoever creates, imports or renames at the same
\* moment, no two active prompts have one name, unless a patch that kept its
\* name was overtaken by a rename.
THEOREM NamesStayUnique == Spec => []NamesClaimed
<1>1. IInv => NamesClaimed
  BY DEF IInv
<1> QED
  BY <1>1, IInvAlways, PTL

\* insertNext: the versions of a prompt are numbered from 1 without a gap, and
\* no commit fails on the unique index but for the aliases of a first version.
THEOREM VersionsInTurn == Spec => []Numbered
<1>1. IInv => Numbered
  BY DEF IInv, Numbered, InTurn, Count, Good, ConflictFirst
<1> QED
  BY <1>1, IInvAlways, PTL

\* commitVersionOnce: a candidate becomes one version, however often it is
\* committed or promoted, and every such request answers with that version.
THEOREM CandidateBecomesOne == Spec => []CandidateOnce
<1>1. IInv => CandidateOnce
  <2> SUFFICES ASSUME IInv, NEW q \in Candidates
               PROVE  /\ Cardinality({v \in versions : v.candidate = q}) <= 1
                      /\ \A r \in Requests :
                           Is(r, "candidate") /\ Op[r].candidate = q
                             /\ req[r].pc \in {"find", "upsert", "done"}
                           => req[r].number = linked[q]
    BY DEF CandidateOnce
  <2> DEFINE S == {v \in versions : v.candidate = q}
  <2>1. \A v, w \in S : v = w
    <3> SUFFICES ASSUME NEW v \in S, NEW w \in S PROVE v = w
      OBVIOUS
    <3>1. v \in Of(Owner[q]) /\ w \in Of(Owner[q]) /\ v.number = w.number
      BY DEF IInv, LinkedOnce, Of
    <3>2. Owner[q] \in Ids
      BY RegistryAssumption DEF Ids
    <3> QED
      BY <3>1, <3>2 DEF IInv, InTurn
  <2>2. Cardinality(S) <= 1
    <3>1. CASE S = {}
      <4>1. Cardinality(S) = 0
        BY <3>1, FS_EmptySet
      <4> QED
        BY <4>1
    <3>2. CASE S # {}
      <4>1. PICK v \in S : TRUE
        BY <3>2
      <4>2. S = {v}
        BY <2>1, <4>1
      <4>3. Cardinality(S) = 1
        BY <4>2, FS_Singleton
      <4> QED
        BY <4>3
    <3> QED
      BY <3>1, <3>2
  <2>3. \A r \in Requests :
          Is(r, "candidate") /\ Op[r].candidate = q /\ req[r].pc \in {"find", "upsert", "done"}
          => req[r].number = linked[q]
    BY DEF IInv, Good, AnswersLinked
  <2> QED
    BY <2>2, <2>3
<1> QED
  BY <1>1, IInvAlways, PTL
=============================================================================
