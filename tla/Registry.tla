------------------------------ MODULE Registry ------------------------------
(***************************************************************************)
(* The prompt registry of one team: prompt names, immutable versions,      *)
(* aliases, and the optimizer's candidates that become versions.  Requests *)
(* interleave statement by statement.  Names are claimed under an advisory *)
(* lock, versions are numbered under a lock of the prompt's row, and a     *)
(* candidate is committed under a lock of its own; all three are held to   *)
(* the end of their transaction.                                           *)
(*                                                                         *)
(* Templates, tool bindings and audit rows are left out, and so is reading *)
(* (render and getVersion change nothing).                                 *)
(***************************************************************************)
EXTENDS Naturals, FiniteSets, Sequences, FiniteSetsExt

CONSTANTS
  Prompts,     \* ids of prompts that exist at first, named by FirstName
  FirstName,
  Candidates,  \* the optimizer's candidates
  Owner,       \* of a candidate: the prompt it rewrites
  Requests,
  Op,          \* of a request: [kind, names, prompt, candidate, alias, number]
  Workloads,   \* the sets of requests that may be made in one behaviour
  Free         \* no transaction holds the lock

Kinds == {"create", "import", "patch", "delete", "commit", "candidate", "promote", "unalias"}
Defaults == {"production", "staging"}
Ids == Prompts \cup Requests   \* a request that creates a prompt gives it its id
Names == {FirstName[p] : p \in Prompts} \cup UNION {{Op[r].names[i] : i \in DOMAIN Op[r].names} : r \in Requests}
Aliases == Defaults \cup {Op[r].alias : r \in Requests}

\* At first no two prompts have one name.  A request may be about a prompt that
\* another one creates, and claims a name if it is to write one.
ASSUME RegistryAssumption ==
  /\ Prompts \cap Requests = {} /\ Free \notin Requests \cup Candidates
  /\ Owner \in [Candidates -> Prompts]
  /\ \A p, q \in Prompts : FirstName[p] = FirstName[q] => p = q
  /\ \A r \in Requests :
       /\ Op[r].kind \in Kinds
       /\ Op[r].prompt \in Ids /\ Op[r].number \in Nat
       /\ Op[r].kind = "candidate" => Op[r].candidate \in Candidates
       /\ Op[r].names \in Seq(Names)
       /\ Op[r].kind \in {"create", "import", "patch"} => Op[r].names # <<>>
  /\ Workloads \subseteq SUBSET Requests

VARIABLES
  prompt,    \* the rows: [name, active], or NoPrompt
  versions,  \* committed versions: [prompt, number, candidate]
  alias,     \* of a prompt and an alias: the number it points at, 0 without one
  linked,    \* of a candidate: the number of its version, 0 without one
  locks,     \* of a name, a prompt row or a candidate row: who holds the lock
  req,       \* where each request is, see NewRequest
  overtaken  \* history: a patch wrote a name that it had not claimed anew

vars == <<prompt, versions, alias, linked, locks, req, overtaken>>

-----------------------------------------------------------------------------
NoPrompt == [name |-> "", active |-> FALSE]
\* seen is the name it read, try the index of the name it claims, number the one
\* its version gets, or got.
NewRequest == [pc |-> "new", seen |-> "", try |-> 1, number |-> 0]
Ended == {"done", "refused", "conflict", "dead"}

Name(n) == <<"name", n>>
Row(p) == <<"prompt", p>>
Candidate(q) == <<"candidate", q>>

At(r, pc) == req[r].pc = pc
Is(r, kind) == Op[r].kind = kind
Claimed(r) == Op[r].names[req[r].try]
Target(r) == IF Is(r, "candidate") THEN Owner[Op[r].candidate] ELSE Op[r].prompt

CanLock(r, x) == locks[x] \in {Free, r}
Lock(r, x) == locks' = [locks EXCEPT ![x] = r]
\* Mutant: a transaction that ends keeps its locks.
Unlock_Kept(r) == UNCHANGED locks
\* An advisory lock or a row's lock is released with its transaction.
Unlock(r) == locks' = [x \in DOMAIN locks |-> IF locks[x] = r THEN Free ELSE locks[x]]

Goes(r, pc) == req' = [req EXCEPT ![r].pc = pc]

Of(p) == {v \in versions : v.prompt = p}
MaxNumber(p) == Max({v.number : v \in Of(p)} \cup {0})

-----------------------------------------------------------------------------
Init ==
  /\ prompt = [p \in Ids |-> IF p \in Prompts THEN [name |-> FirstName[p], active |-> TRUE]
                             ELSE NoPrompt]
  /\ versions = {}
  /\ alias = [p \in Ids |-> [a \in Aliases |-> 0]]
  /\ linked = [q \in Candidates |-> 0]
  /\ locks = [x \in {Name(n) : n \in Names} \cup {Row(p) : p \in Ids}
                      \cup {Candidate(q) : q \in Candidates} |-> Free]
  /\ \E W \in Workloads :
       req = [r \in Requests |-> IF r \in W THEN NewRequest ELSE [NewRequest EXCEPT !.pc = "dead"]]
  /\ overtaken = FALSE

-----------------------------------------------------------------------------
(* Names. *)

\* Mutant: the name is checked without waiting for whoever claims it too.
MayClaim_Always(r, n) == TRUE
\* lockName waits for every other transaction that claims the name.
MayClaim(r, n) == CanLock(r, Name(n))

Taken(r) ==
  \E p \in Ids : /\ prompt[p].active /\ prompt[p].name = Claimed(r)
                 /\ ~(Is(r, "patch") /\ p = Op[r].prompt)

\* The prompt is read before the transaction; a patch that keeps the name claims
\* none.
Begin(r) ==
  /\ At(r, "new")
  /\ \/ /\ Is(r, "create") \/ Is(r, "import")
        /\ Goes(r, "claim")
     \/ /\ Is(r, "patch") /\ prompt[Op[r].prompt].active
        /\ req' = [req EXCEPT ![r].seen = prompt[Op[r].prompt].name,
             ![r].pc = IF prompt[Op[r].prompt].name = Claimed(r) THEN "write" ELSE "claim"]
     \/ /\ Is(r, "patch") /\ ~prompt[Op[r].prompt].active
        /\ Goes(r, "refused")
  /\ UNCHANGED <<prompt, versions, alias, linked, locks, overtaken>>

\* lockName and assertNameFree; an import that finds the name taken claims the
\* next one, under its first lock.
Claim(r) ==
  /\ At(r, "claim")
  /\ MayClaim(r, Claimed(r))
  /\ \/ /\ ~Taken(r)
        /\ Lock(r, Name(Claimed(r)))
        /\ Goes(r, "write")
     \/ /\ Taken(r) /\ Is(r, "import") /\ req[r].try < Len(Op[r].names)
        /\ Lock(r, Name(Claimed(r)))
        /\ req' = [req EXCEPT ![r].try = @ + 1]
     \/ /\ Taken(r) /\ ~Is(r, "import")
        /\ Unlock(r)
        /\ Goes(r, "refused")
  /\ UNCHANGED <<prompt, versions, alias, linked, overtaken>>

\* An update of a prompt's row waits for a commit that holds it.
MayUpdate(r, p) == prompt[p].active => CanLock(r, Row(p))

\* The prompt is inserted or renamed, and the transaction commits.  An import
\* brings its first version and the default aliases along.
Write(r) ==
  LET n == Claimed(r)
      p == IF Is(r, "patch") THEN Op[r].prompt ELSE r
  IN  /\ At(r, "write")
      /\ Is(r, "patch") => MayUpdate(r, p)
      /\ Unlock(r)
      /\ IF Is(r, "patch") /\ ~prompt[p].active
         THEN /\ Goes(r, "refused")
              /\ UNCHANGED <<prompt, overtaken>>
         ELSE /\ prompt' = [prompt EXCEPT ![p] = [name |-> n, active |-> TRUE]]
              /\ overtaken' = (overtaken \/ (req[r].seen = n /\ prompt[p].name # n))
              /\ Goes(r, "done")
      /\ IF Is(r, "import")
         THEN /\ versions' = versions \cup {[prompt |-> p, number |-> 1, candidate |-> Free]}
              /\ alias' = [alias EXCEPT ![p] = [a \in Aliases |-> IF a \in Defaults THEN 1 ELSE 0]]
         ELSE UNCHANGED <<versions, alias>>
      /\ UNCHANGED linked

\* softDelete; versions and aliases stay.
Delete(r) ==
  /\ At(r, "new") /\ Is(r, "delete")
  /\ MayUpdate(r, Op[r].prompt)
  /\ prompt' = [prompt EXCEPT ![Op[r].prompt].active = FALSE]
  /\ Goes(r, IF prompt[Op[r].prompt].active THEN "done" ELSE "refused")
  /\ UNCHANGED <<versions, alias, linked, locks, overtaken>>

-----------------------------------------------------------------------------
(* Versions. *)

\* A request that answers with a version, or moves an alias to it.
Answers(r, number) ==
  req' = [req EXCEPT ![r].number = number,
            ![r].pc = IF Is(r, "candidate") /\ Op[r].alias # "none" THEN "find" ELSE "done"]

\* prepareVersion's checks and, for a candidate, the read of its row.
Prepare(r) ==
  /\ At(r, "new") /\ (Is(r, "commit") \/ Is(r, "candidate"))
  /\ IF ~prompt[Target(r)].active THEN Goes(r, "refused")
     ELSE IF Is(r, "commit") THEN Goes(r, "number")
     ELSE IF linked[Op[r].candidate] # 0 THEN Answers(r, linked[Op[r].candidate])
     ELSE Goes(r, "lock candidate")
  /\ UNCHANGED <<prompt, versions, alias, linked, locks, overtaken>>

\* Mutant: the candidate's link is not read again under the lock.
LinkUnderLock_Before(r) == 0
\* The link as it is once the candidate's row is locked.
LinkUnderLock(r) == linked[Op[r].candidate]

\* commitVersionOnce: the candidate's row is locked, and its link read again.
LockCandidate(r) ==
  /\ At(r, "lock candidate")
  /\ CanLock(r, Candidate(Op[r].candidate))
  /\ IF LinkUnderLock(r) # 0
     THEN /\ UNCHANGED locks
          /\ IF prompt[Target(r)].active THEN Answers(r, LinkUnderLock(r))
             ELSE Goes(r, "refused")
     ELSE Goes(r, "number") /\ Lock(r, Candidate(Op[r].candidate))
  /\ UNCHANGED <<prompt, versions, alias, linked, overtaken>>

\* Mutant: the next number is read without the lock of the prompt's row.
MayNumber_Always(r) == TRUE
\* insertNext waits for every other commit to the prompt.
MayNumber(r) == CanLock(r, Row(Target(r)))

\* insertNext: the prompt's row is locked, and MAX is read.
Number(r) ==
  /\ At(r, "number")
  /\ MayNumber(r)
  /\ Lock(r, Row(Target(r)))
  /\ req' = [req EXCEPT ![r].number = MaxNumber(Target(r)) + 1, ![r].pc = "insert"]
  /\ UNCHANGED <<prompt, versions, alias, linked, overtaken>>

\* autoCreateAliases: two inserts, and neither if one of the rows is there.
NoDefaults(p) == \A a \in Defaults : alias[p][a] = 0
WithDefaults(p, number) ==
  [alias EXCEPT ![p] = [a \in Aliases |-> IF a \in Defaults THEN number ELSE alias[p][a]]]

\* The transaction of r hits a unique index and is rolled back: a 500.
Conflict(r) ==
  /\ Unlock(r)
  /\ Goes(r, "conflict")
  /\ UNCHANGED <<versions, alias, linked>>

\* The insert, and the commit.  A candidate's transaction also creates a first
\* version's aliases and links the candidate; a plain commit creates them after.
Insert(r) ==
  LET p == Target(r)
      n == req[r].number
      cand == IF Is(r, "candidate") THEN Op[r].candidate ELSE Free
      first == n = 1
  IN  /\ At(r, "insert")
      /\ IF \E v \in Of(p) : v.number = n THEN Conflict(r)
         ELSE IF Is(r, "candidate") /\ first /\ ~NoDefaults(p) THEN Conflict(r)
         ELSE /\ versions' = versions \cup {[prompt |-> p, number |-> n, candidate |-> cand]}
              /\ Unlock(r)
              /\ IF Is(r, "candidate")
                 THEN /\ linked' = [linked EXCEPT ![cand] = n]
                      /\ alias' = IF first THEN WithDefaults(p, n) ELSE alias
                      /\ Answers(r, n)
                 ELSE /\ Goes(r, IF first THEN "aliases" ELSE "done")
                      /\ UNCHANGED <<alias, linked>>
      /\ UNCHANGED <<prompt, overtaken>>

\* The first version's aliases, in a transaction of their own.
CreateAliases(r) ==
  /\ At(r, "aliases")
  /\ IF NoDefaults(Target(r))
     THEN /\ alias' = WithDefaults(Target(r), req[r].number)
          /\ Goes(r, "done")
     ELSE /\ Goes(r, "conflict")
          /\ UNCHANGED alias
  /\ UNCHANGED <<prompt, versions, linked, locks, overtaken>>

-----------------------------------------------------------------------------
(* Aliases. *)

Promotes(r) == Is(r, "promote") \/ Is(r, "candidate")
Wanted(r) == IF Is(r, "promote") THEN Op[r].number ELSE req[r].number

\* promoteAlias looks the version up ...
Find(r) ==
  /\ Promotes(r)
  /\ At(r, IF Is(r, "promote") THEN "new" ELSE "find")
  /\ Goes(r, IF prompt[Target(r)].active /\ (\E v \in Of(Target(r)) : v.number = Wanted(r))
             THEN "upsert" ELSE "refused")
  /\ UNCHANGED <<prompt, versions, alias, linked, locks, overtaken>>

\* ... and inserts the alias or moves it.
Upsert(r) ==
  /\ At(r, "upsert")
  /\ alias' = [alias EXCEPT ![Target(r)][Op[r].alias] = Wanted(r)]
  /\ Goes(r, "done")
  /\ UNCHANGED <<prompt, versions, linked, locks, overtaken>>

\* deleteAlias, never of a default.
Unalias(r) ==
  LET p == Op[r].prompt
  IN  /\ At(r, "new") /\ Is(r, "unalias")
      /\ IF prompt[p].active /\ Op[r].alias \notin Defaults /\ alias[p][Op[r].alias] # 0
         THEN alias' = [alias EXCEPT ![p][Op[r].alias] = 0] /\ Goes(r, "done")
         ELSE Goes(r, "refused") /\ UNCHANGED alias
      /\ UNCHANGED <<prompt, versions, linked, locks, overtaken>>

-----------------------------------------------------------------------------
\* The server process dies, or the database refuses a statement.
Dies(r) ==
  /\ req[r].pc \notin Ended
  /\ Unlock(r)
  /\ Goes(r, "dead")
  /\ UNCHANGED <<prompt, versions, alias, linked, overtaken>>

Next ==
  \E r \in Requests :
    \/ Begin(r) \/ Claim(r) \/ Write(r) \/ Delete(r)
    \/ Prepare(r) \/ LockCandidate(r) \/ Number(r) \/ Insert(r) \/ CreateAliases(r)
    \/ Find(r) \/ Upsert(r) \/ Unalias(r)
    \/ Dies(r)

Spec == Init /\ [][Next]_vars

-----------------------------------------------------------------------------
(* Properties. *)

\* What the rows and the requests hold.  A lock belongs to a request that has not
\* ended, and no alias or candidate points at a version that is not there.
Holding == {"claim", "write", "number", "insert"}
Pcs == {"new", "lock candidate", "aliases", "find", "upsert"} \cup Holding \cup Ended
Texts == Names \cup {""}
PromptType  == [name : Texts, active : BOOLEAN]
VersionType == [prompt : Ids, number : Nat \ {0}, candidate : Candidates \cup {Free}]
RequestType == [pc : Pcs, seen : Texts, try : Nat \ {0}, number : Nat]
TypeOK ==
  /\ prompt \in [Ids -> PromptType]
  /\ versions \subseteq VersionType
  /\ alias \in [Ids -> [Aliases -> Nat]]
  /\ linked \in [Candidates -> Nat]
  /\ locks \in [DOMAIN locks -> Requests \cup {Free}]
  /\ req \in [Requests -> RequestType]
  /\ overtaken \in BOOLEAN
  /\ \A x \in DOMAIN locks : locks[x] # Free => req[locks[x]].pc \in Holding
  /\ \A p \in Ids : \A a \in Aliases :
       alias[p][a] # 0 => \E v \in Of(p) : v.number = alias[p][a]
  /\ \A q \in Candidates :
       linked[q] # 0 => [prompt |-> Owner[q], number |-> linked[q], candidate |-> q] \in versions

SameName(p, q) == p # q /\ prompt[p].active /\ prompt[q].active /\ prompt[p].name = prompt[q].name

\* findByName's comment: "Names are unique among active prompts now".
UniqueNames == \A p, q \in Ids : ~SameName(p, q)

\* They are, whoever creates, imports or renames at the same moment, but for a
\* patch that kept the name it had read and was overtaken by a rename.
NamesClaimed == ~overtaken => UniqueNames

\* Commits to one prompt at the same moment are numbered in turn: the numbers
\* have no gap, and none fails on the unique index (issue #742).  Only the aliases
\* of a first version may conflict, with a promotion that came in between.
Numbered ==
  \A p \in Ids :
    /\ {v.number : v \in Of(p)} = 1 .. Cardinality(Of(p))
    /\ \A r \in Requests : At(r, "conflict") /\ Target(r) = p => req[r].number = 1 /\ ~NoDefaults(p)

\* A candidate becomes a version once, however often it is committed or promoted,
\* and each of those requests answers with that version.
CandidateOnce ==
  \A q \in Candidates :
    /\ Cardinality({v \in versions : v.candidate = q}) <= 1
    /\ \A r \in Requests :
         Is(r, "candidate") /\ Op[r].candidate = q /\ req[r].pc \in {"find", "upsert", "done"}
           => req[r].number = linked[q]
=============================================================================
