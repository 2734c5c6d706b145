--------------------------- MODULE LocalRun_proofs ---------------------------
(***************************************************************************)
(* For every set of examples, uploads, finish requests and judge calls:    *)
(* an example has one row, an answered outcome stays, and one version of   *)
(* the judge prompt grades a run.  What an upload reads under the lock of  *)
(* the run's row is still so when it writes; what a judge call reads       *)
(* without a lock is still so because it is written once.                  *)
(***************************************************************************)
EXTENDS LocalRun, FiniteSetTheorems, TLAPS

InTransaction(u) == up[u].pc \in {"locked", "deleted"}

\* Two rows are of two examples.
RowsDiffer == \A x, y \in rows : x[1] = y[1] => x = y

\* An upload in its transaction holds the run's row, and what it is about to
\* replace is all there is of its examples.
UploadLocks ==
  \A u \in Uploads :
    /\ InTransaction(u) => holder = u
    /\ up[u].pc = "deleted" => up[u].gone = {x \in rows : x[1] \in up[u].batch}
    /\ up[u].bad \subseteq up[u].batch

\* An example of an upload that was acknowledged has a row.
DoneHasRows ==
  \A u \in Uploads :
    up[u].pc = "done" /\ status # "deleted"
      => \A e \in up[u].batch : \E x \in rows : x[1] = e

\* A judge call that has seen or used a frozen version has the one that is frozen.
CallsFrozen ==
  status # "deleted" =>
    \A j \in Calls :
      /\ call[j].pc = "resolving" /\ call[j].seen # None => call[j].seen = frozen
      /\ call[j].pc = "reading" => frozen # None
      /\ call[j].pc = "graded" => frozen # None /\ call[j].used = frozen

CallsWant == \A j \in Calls : call[j].pc = "freezing" => call[j].want # None

IInv ==
  /\ TypeOK
  /\ RowsDiffer
  /\ UploadLocks
  /\ DoneHasRows
  /\ FinishedAsAnswered
  /\ CallsFrozen
  /\ CallsWant

-----------------------------------------------------------------------------
(***************************************************************************)
(* Counting rows.                                                          *)
(***************************************************************************)

\* No two rows are of one example, so there are no more rows than examples.
LEMMA RowsCounted ==
  ASSUME NEW R, R \subseteq RowIds, \A x, y \in R : x[1] = y[1] => x = y
  PROVE  IsFiniteSet(R) /\ Cardinality(R) \in 0 .. Cardinality(Examples)
<1>1. IsFiniteSet(Examples)
  BY LocalAssumption
<1> DEFINE f == [x \in R |-> x[1]]
<1>2. f \in Injection(R, Examples)
  BY DEF Injection, IsInjective, RowIds
<1>3. IsFiniteSet(R) /\ Cardinality(R) <= Cardinality(Examples)
  BY <1>1, <1>2, FS_Injection
<1>4. Cardinality(R) \in Nat /\ Cardinality(Examples) \in Nat
  BY <1>1, <1>3, FS_CardinalityType
<1> QED
  BY <1>3, <1>4

LEMMA Counts ==
  ASSUME IInv
  PROVE  /\ Cardinality(rows) \in -1 .. Cardinality(Examples)
         /\ Cardinality(errored) \in -1 .. Cardinality(Examples)
<1>1. Cardinality(rows) \in 0 .. Cardinality(Examples)
  BY RowsCounted DEF IInv, TypeOK, RowsDiffer
<1>2. Cardinality(errored) \in 0 .. Cardinality(Examples)
  BY RowsCounted DEF IInv, TypeOK, RowsDiffer
<1> QED
  BY <1>1, <1>2

LEMMA InitIInv == Init => IInv
<1> SUFFICES ASSUME Init PROVE IInv
  OBVIOUS
<1> USE DEF Init, NoUpload, NoFinish, NoCall
<1>1. Cardinality(Examples) \in Nat
  BY LocalAssumption, FS_CardinalityType
<1>2. fin \in [Finishes -> [pc : FinishStates, broke : BOOLEAN, total : -1..Cardinality(Examples),
                           bad : -1..Cardinality(Examples), outcome : Settled]]
  BY <1>1 DEF FinishStates, Settled
<1>3. TypeOK
  BY <1>2 DEF TypeOK, UploadStates, CallStates
<1>4. RowsDiffer /\ UploadLocks /\ DoneHasRows
  BY DEF RowsDiffer, UploadLocks, DoneHasRows, InTransaction
<1>5. FinishedAsAnswered /\ CallsFrozen /\ CallsWant
  BY DEF FinishedAsAnswered, CallsFrozen, CallsWant
<1> QED
  BY <1>3, <1>4, <1>5 DEF IInv

-----------------------------------------------------------------------------
(***************************************************************************)
(* Uploads.                                                                *)
(***************************************************************************)

\* A request of one kind, as TypeOK has it.
UploadType == [pc : UploadStates, batch : SUBSET Examples,
               bad : SUBSET Examples, gone : SUBSET RowIds]

LEMMA UploadCheckKeeps == ASSUME NEW u \in Uploads, IInv, UploadCheck(u) PROVE IInv'
<1> USE DEF UploadCheck, runVars, resultVars, judgeVars
<1>1. up \in [Uploads -> UploadType]
  BY DEF IInv, TypeOK, UploadType
<1>2. PICK new \in UploadType :
        /\ up' = [up EXCEPT ![u] = new]
        /\ new.pc \in {"refused", "checked"} /\ new.bad \subseteq new.batch
  <2>1. CASE status # "running"
    <3> DEFINE new == [up[u] EXCEPT !.pc = "refused"]
    <3>1. new \in UploadType /\ up' = [up EXCEPT ![u] = new]
      BY <1>1, <2>1 DEF UploadType, UploadStates
    <3>2. new.pc = "refused" /\ new.bad \subseteq new.batch
      BY <1>1 DEF IInv, UploadLocks, UploadType
    <3> QED
      BY <3>1, <3>2
  <2>2. CASE status = "running"
    <3>1. PICK batch \in SUBSET Examples : \E bad \in SUBSET batch :
            up' = [up EXCEPT ![u] = [NoUpload EXCEPT !.pc = "checked", !.batch = batch, !.bad = bad]]
      BY <2>2
    <3>2. PICK bad \in SUBSET batch :
            up' = [up EXCEPT ![u] = [NoUpload EXCEPT !.pc = "checked", !.batch = batch, !.bad = bad]]
      BY <3>1
    <3> DEFINE new == [pc |-> "checked", batch |-> batch, bad |-> bad, gone |-> {}]
    <3>3. new \in UploadType /\ up' = [up EXCEPT ![u] = new]
      BY <3>2 DEF UploadType, UploadStates, NoUpload
    <3> QED
      BY <3>3
  <2> QED
    BY <2>1, <2>2
<1>3. TypeOK'
  <2>1. up' \in [Uploads -> UploadType]
    BY <1>1, <1>2
  <2> QED
    BY <2>1 DEF IInv, TypeOK, UploadType
<1>4. RowsDiffer'
  BY DEF IInv, RowsDiffer
<1>5. UploadLocks'
  BY <1>1, <1>2 DEF IInv, UploadLocks, InTransaction
<1>6. DoneHasRows'
  BY <1>1, <1>2 DEF IInv, DoneHasRows
<1>7. FinishedAsAnswered' /\ CallsFrozen' /\ CallsWant'
  BY DEF IInv, FinishedAsAnswered, CallsFrozen, CallsWant
<1> QED
  BY <1>3, <1>4, <1>5, <1>6, <1>7 DEF IInv

LEMMA UploadLockKeeps == ASSUME NEW u \in Uploads, IInv, UploadLock(u) PROVE IInv'
<1> USE DEF UploadLock, MayLock, runVars, judgeVars
<1>1. TypeOK'
  <2>1. up \in [Uploads -> UploadType]
    BY DEF IInv, TypeOK, UploadType
  <2>2. up' \in [Uploads -> UploadType]
    BY <2>1 DEF UploadType, UploadStates
  <2> QED
    BY <2>2 DEF IInv, TypeOK, UploadType
<1>2. RowsDiffer'
  BY DEF IInv, RowsDiffer
<1>3. UploadLocks'
  BY LocalAssumption DEF IInv, TypeOK, UploadLocks, InTransaction
<1>4. DoneHasRows'
  BY DEF IInv, TypeOK, DoneHasRows
<1>5. FinishedAsAnswered' /\ CallsFrozen' /\ CallsWant'
  BY DEF IInv, FinishedAsAnswered, CallsFrozen, CallsWant
<1> QED
  BY <1>1, <1>2, <1>3, <1>4, <1>5 DEF IInv

LEMMA UploadDeleteKeeps == ASSUME NEW u \in Uploads, IInv, UploadDelete(u) PROVE IInv'
<1> USE DEF UploadDelete, runVars, resultVars, judgeVars
<1>1. TypeOK'
  <2>1. up \in [Uploads -> UploadType]
    BY DEF IInv, TypeOK, UploadType
  <2>2. {x \in rows : x[1] \in up[u].batch} \in SUBSET RowIds
    BY DEF IInv, TypeOK
  <2>3. up' \in [Uploads -> UploadType]
    BY <2>1, <2>2 DEF UploadType, UploadStates
  <2> QED
    BY <2>3 DEF IInv, TypeOK, UploadType
<1>2. RowsDiffer'
  BY DEF IInv, RowsDiffer
<1>3. UploadLocks'
  BY DEF IInv, TypeOK, UploadLocks, InTransaction
<1>4. DoneHasRows'
  BY DEF IInv, TypeOK, DoneHasRows
<1>5. FinishedAsAnswered' /\ CallsFrozen' /\ CallsWant'
  BY DEF IInv, FinishedAsAnswered, CallsFrozen, CallsWant
<1> QED
  BY <1>1, <1>2, <1>3, <1>4, <1>5 DEF IInv

\* What u replaces is all there is of its examples, and it alone has the lock.
LEMMA UploadCommitKeeps == ASSUME NEW u \in Uploads, IInv, UploadCommit(u) PROVE IInv'
<1> USE DEF UploadCommit, Replaced, Unlocked, judgeVars
<1> DEFINE batch == up[u].batch
<1>1. /\ holder = u
      /\ up[u].gone = {x \in rows : x[1] \in batch}
      /\ up[u].bad \subseteq batch /\ batch \subseteq Examples
  BY DEF IInv, TypeOK, UploadLocks, InTransaction
<1>2. \A v \in Uploads : InTransaction(v) => v = u
  BY <1>1 DEF IInv, UploadLocks
<1>3. rows' = {x \in rows : x[1] \notin batch} \cup (batch \X {u})
  BY <1>1
<1>4. errored' \subseteq rows' /\ rows' \subseteq RowIds
  BY <1>1 DEF IInv, TypeOK, RowIds
<1>5. TypeOK'
  <2>1. up \in [Uploads -> UploadType]
    BY DEF IInv, TypeOK, UploadType
  <2>2. up' \in [Uploads -> UploadType]
    BY <2>1 DEF UploadType, UploadStates
  <2>3. holder' \in Uploads \cup {None}
    BY DEF IInv, TypeOK
  <2> QED
    BY <1>4, <2>2, <2>3 DEF IInv, TypeOK, UploadType
<1>6. RowsDiffer'
  BY <1>3 DEF IInv, RowsDiffer
<1>7. UploadLocks'
  <2>1. \A v \in Uploads : ~InTransaction(v)'
    BY <1>2 DEF IInv, TypeOK, InTransaction
  <2> QED
    BY <2>1 DEF IInv, TypeOK, UploadLocks, InTransaction
<1>8. DoneHasRows'
  <2> SUFFICES ASSUME NEW v \in Uploads, up'[v].pc = "done", NEW e \in up'[v].batch
               PROVE  \E x \in rows' : x[1] = e
    BY DEF DoneHasRows
  <2>1. CASE e \in batch
    <3>1. <<e, u>> \in rows' /\ <<e, u>>[1] = e
      BY <1>3, <2>1
    <3> QED
      BY <3>1
  <2>2. CASE e \notin batch
    <3>1. v # u /\ up[v].pc = "done" /\ e \in up[v].batch
      BY <2>2 DEF IInv, TypeOK
    <3>2. PICK x \in rows : x[1] = e
      BY <3>1 DEF IInv, DoneHasRows
    <3> QED
      BY <1>3, <2>2, <3>2
  <2> QED
    BY <2>1, <2>2
<1>9. FinishedAsAnswered' /\ CallsFrozen' /\ CallsWant'
  BY DEF IInv, FinishedAsAnswered, CallsFrozen, CallsWant
<1> QED
  BY <1>5, <1>6, <1>7, <1>8, <1>9 DEF IInv

LEMMA UploadAbortKeeps == ASSUME NEW u \in Uploads, IInv, UploadAbort(u) PROVE IInv'
<1> USE DEF UploadAbort, Unlocked, NoUpload, runVars, judgeVars
<1>1. TypeOK'
  BY DEF IInv, TypeOK, UploadStates
<1>2. RowsDiffer'
  BY DEF IInv, RowsDiffer
<1>3. UploadLocks'
  <2>1. \A v \in Uploads \ {u} : InTransaction(v)' => InTransaction(v) /\ holder = v /\ holder' = v
    BY DEF IInv, TypeOK, UploadLocks, InTransaction
  <2> QED
    BY <2>1 DEF IInv, TypeOK, UploadLocks, InTransaction
<1>4. DoneHasRows'
  BY DEF IInv, TypeOK, DoneHasRows
<1>5. FinishedAsAnswered' /\ CallsFrozen' /\ CallsWant'
  BY DEF IInv, FinishedAsAnswered, CallsFrozen, CallsWant
<1> QED
  BY <1>1, <1>2, <1>3, <1>4, <1>5 DEF IInv

-----------------------------------------------------------------------------
(***************************************************************************)
(* The other requests leave the rows alone, and a deleted run is gone.     *)
(***************************************************************************)

Gone == status = "deleted" => status' = "deleted"

LEMMA UploadsUnchanged ==
  ASSUME IInv, UNCHANGED <<rows, holder, up>>, Gone
  PROVE  RowsDiffer' /\ UploadLocks' /\ DoneHasRows'
BY DEF IInv, RowsDiffer, UploadLocks, DoneHasRows, InTransaction, Gone

LEMMA CallsUnchanged ==
  ASSUME IInv, UNCHANGED <<frozen, call>>, Gone
  PROVE  CallsFrozen' /\ CallsWant'
BY DEF IInv, CallsFrozen, CallsWant, Gone

LEMMA CreateKeeps == ASSUME IInv, Create PROVE IInv'
<1> USE DEF Create, resultVars, judgeVars
<1>1. TypeOK'
  BY DEF IInv, TypeOK
<1>2. FinishedAsAnswered'
  BY DEF IInv, TypeOK, FinishedAsAnswered, Settled
<1> QED
  BY <1>1, <1>2, UploadsUnchanged, CallsUnchanged DEF IInv, Gone

FinishType == [pc : FinishStates, broke : BOOLEAN, total : -1..Cardinality(Examples),
               bad : -1..Cardinality(Examples), outcome : Settled]

\* The requests as TypeOK has them, when only one of kind finish changes.
LEMMA FinishTyped ==
  ASSUME IInv, NEW f \in Finishes, NEW new \in FinishType, fin' = [fin EXCEPT ![f] = new],
         UNCHANGED <<sdk, fresh, rows, errored, holder, up, latest, frozen, call, del>>,
         status' \in {"none", "running", "deleted"} \cup Settled
  PROVE  TypeOK'
<1>1. fin' \in [Finishes -> FinishType]
  BY DEF IInv, TypeOK, FinishType
<1> QED
  BY <1>1 DEF IInv, TypeOK, FinishType

LEMMA FinishCheckKeeps == ASSUME NEW f \in Finishes, IInv, FinishCheck(f) PROVE IInv'
<1> USE DEF FinishCheck, runVars, resultVars, judgeVars
<1>1. fin \in [Finishes -> FinishType] /\ status \in {"none", "running", "deleted"} \cup Settled
  BY DEF IInv, TypeOK, FinishType
<1>2. PICK new \in FinishType : fin' = [fin EXCEPT ![f] = new] /\ new.pc \in {"refused", "counting"}
  <2>1. CASE status # "running"
    <3> DEFINE new == [fin[f] EXCEPT !.pc = "refused"]
    <3>1. new \in FinishType /\ fin' = [fin EXCEPT ![f] = new] /\ new.pc = "refused"
      BY <1>1, <2>1 DEF FinishType, FinishStates
    <3> QED
      BY <3>1
  <2>2. CASE status = "running"
    <3>1. PICK broke \in BOOLEAN : fin' = [fin EXCEPT ![f].pc = "counting", ![f].broke = broke]
      BY <2>2
    <3> DEFINE new == [fin[f] EXCEPT !.pc = "counting", !.broke = broke]
    <3>2. new \in FinishType /\ fin' = [fin EXCEPT ![f] = new] /\ new.pc = "counting"
      BY <1>1, <3>1 DEF FinishType, FinishStates
    <3> QED
      BY <3>2
  <2> QED
    BY <2>1, <2>2
<1>3. TypeOK'
  BY <1>1, <1>2, FinishTyped
<1>4. FinishedAsAnswered'
  BY <1>1, <1>2 DEF IInv, FinishedAsAnswered
<1> QED
  BY <1>3, <1>4, UploadsUnchanged, CallsUnchanged DEF IInv, Gone

\* The two counts are at most the number of examples, whenever they are taken.
LEMMA FinishCountKeeps == ASSUME NEW f \in Finishes, IInv, FinishCount(f) PROVE IInv'
<1> USE DEF FinishCount, runVars, resultVars, judgeVars
<1>1. fin \in [Finishes -> FinishType] /\ status \in {"none", "running", "deleted"} \cup Settled
  BY DEF IInv, TypeOK, FinishType
<1>2. PICK new \in FinishType : fin' = [fin EXCEPT ![f] = new] /\ new.pc = "counting"
  <2>1. CASE fin' = [fin EXCEPT ![f].total = Cardinality(rows)]
    <3> DEFINE new == [fin[f] EXCEPT !.total = Cardinality(rows)]
    <3>1. new \in FinishType /\ fin' = [fin EXCEPT ![f] = new] /\ new.pc = "counting"
      BY <1>1, <2>1, Counts DEF FinishType
    <3> QED
      BY <3>1
  <2>2. CASE fin' = [fin EXCEPT ![f].bad = Cardinality(errored)]
    <3> DEFINE new == [fin[f] EXCEPT !.bad = Cardinality(errored)]
    <3>1. new \in FinishType /\ fin' = [fin EXCEPT ![f] = new] /\ new.pc = "counting"
      BY <1>1, <2>2, Counts DEF FinishType
    <3> QED
      BY <3>1
  <2> QED
    BY <2>1, <2>2
<1>3. TypeOK'
  BY <1>1, <1>2, FinishTyped
<1>4. FinishedAsAnswered'
  BY <1>1, <1>2 DEF IInv, FinishedAsAnswered
<1> QED
  BY <1>3, <1>4, UploadsUnchanged, CallsUnchanged DEF IInv, Gone

LEMMA NoFinishTyped ==
  /\ \A o \in Settled : [NoFinish EXCEPT !.pc = "done", !.outcome = o] \in FinishType
  /\ [NoFinish EXCEPT !.pc = "refused"] \in FinishType
<1>1. Cardinality(Examples) \in Nat
  BY LocalAssumption, FS_CardinalityType
<1>2. NoFinish \in FinishType
  BY <1>1 DEF NoFinish, FinishType, FinishStates, Settled
<1> QED
  BY <1>2 DEF FinishType, FinishStates

\* The write is conditional, so it comes before every other answer.
LEMMA FinishWriteKeeps == ASSUME NEW f \in Finishes, IInv, FinishWrite(f) PROVE IInv'
<1> USE DEF FinishWrite, MayFinish, resultVars, judgeVars
<1>1. fin \in [Finishes -> FinishType] /\ status \in {"none", "running", "deleted"} \cup Settled
  BY DEF IInv, TypeOK, FinishType
<1>2. Outcome(f) \in Settled
  BY DEF Outcome, Settled
<1>3. CASE status = "running"
  <2> DEFINE new == [NoFinish EXCEPT !.pc = "done", !.outcome = Outcome(f)]
  <2>1. new \in FinishType
    BY <1>2, NoFinishTyped
  <2>2. fin' = [fin EXCEPT ![f] = new] /\ status' = Outcome(f)
    BY <1>3
  <2>3. new.pc = "done" /\ new.outcome = Outcome(f)
    BY DEF NoFinish
  <2>4. TypeOK'
    BY <1>2, <2>1, <2>2, FinishTyped
  <2>5. \A g \in Finishes : fin[g].pc # "done"
    BY <1>1, <1>3 DEF IInv, FinishedAsAnswered, FinishType, Settled
  <2>6. FinishedAsAnswered'
    BY <1>1, <2>2, <2>3, <2>5 DEF FinishedAsAnswered
  <2> QED
    BY <1>3, <2>4, <2>6, UploadsUnchanged, CallsUnchanged DEF IInv, Gone
<1>4. CASE status # "running"
  <2> DEFINE new == [NoFinish EXCEPT !.pc = "refused"]
  <2>1. new \in FinishType
    BY NoFinishTyped
  <2>2. new.pc = "refused"
    BY DEF NoFinish
  <2>3. fin' = [fin EXCEPT ![f] = new] /\ status' = status
    BY <1>4
  <2>4. TypeOK'
    BY <1>1, <2>1, <2>3, FinishTyped
  <2>5. FinishedAsAnswered'
    BY <1>1, <2>2, <2>3 DEF IInv, FinishedAsAnswered
  <2> QED
    BY <2>3, <2>4, <2>5, UploadsUnchanged, CallsUnchanged DEF IInv, Gone
<1> QED
  BY <1>3, <1>4

LEMMA FinishAbortKeeps == ASSUME NEW f \in Finishes, IInv, FinishAbort(f) PROVE IInv'
<1> USE DEF FinishAbort, runVars, resultVars, judgeVars
<1>1. fin \in [Finishes -> FinishType] /\ status \in {"none", "running", "deleted"} \cup Settled
  BY DEF IInv, TypeOK, FinishType
<1> DEFINE new == [NoFinish EXCEPT !.pc = "refused"]
<1>2. new \in FinishType
  BY NoFinishTyped
<1>3. new.pc = "refused"
  BY DEF NoFinish
<1>4. TypeOK'
  BY <1>1, <1>2, FinishTyped
<1>5. FinishedAsAnswered'
  BY <1>1, <1>2, <1>3 DEF IInv, FinishedAsAnswered
<1> QED
  BY <1>4, <1>5, UploadsUnchanged, CallsUnchanged DEF IInv, Gone

-----------------------------------------------------------------------------
(***************************************************************************)
(* Judge calls.  What is frozen is frozen once.                            *)
(***************************************************************************)

CallType == [pc : CallStates, named : Versions \cup {None}, seen : Versions \cup {None},
             want : Versions \cup {None}, used : Versions \cup {None}]

\* What of a judge call CallsFrozen and CallsWant speak of.
CallOK(new) ==
  /\ new.pc = "freezing" => new.want # None
  /\ status # "deleted" =>
       /\ new.pc = "resolving" /\ new.seen # None => new.seen = frozen'
       /\ new.pc = "reading" => frozen' # None
       /\ new.pc = "graded" => frozen' # None /\ new.used = frozen'

LEMMA CallMoves ==
  ASSUME IInv, NEW j \in Calls, NEW new \in CallType, call' = [call EXCEPT ![j] = new],
         frozen' \in Versions \cup {None}, frozen # None => frozen' = frozen, CallOK(new),
         UNCHANGED <<status, sdk, fresh, rows, errored, holder, up, fin, latest, del>>
  PROVE  IInv'
<1>1. call \in [Calls -> CallType]
  BY DEF IInv, TypeOK, CallType
<1>2. TypeOK'
  <2>1. call' \in [Calls -> CallType]
    BY <1>1
  <2> QED
    BY <2>1 DEF IInv, TypeOK, CallType
<1>3. CallsFrozen'
  BY <1>1 DEF IInv, CallsFrozen, CallOK
<1>4. CallsWant'
  BY <1>1 DEF IInv, CallsWant, CallOK
<1>5. FinishedAsAnswered'
  BY DEF IInv, FinishedAsAnswered
<1> QED
  BY <1>2, <1>3, <1>4, <1>5, UploadsUnchanged DEF IInv, Gone

LEMMA CallReadKeeps == ASSUME NEW j \in Calls, IInv, CallRead(j) PROVE IInv'
<1> USE DEF CallRead, runVars, resultVars
<1>1. PICK named \in Versions \cup {None} :
        call' = [call EXCEPT ![j] = [NoCall EXCEPT !.pc = "resolving", !.named = named, !.seen = frozen]]
  OBVIOUS
<1> DEFINE new == [pc |-> "resolving", named |-> named, seen |-> frozen, want |-> None, used |-> None]
<1>2. call' = [call EXCEPT ![j] = new]
  BY <1>1 DEF NoCall
<1>3. new \in CallType /\ frozen' \in Versions \cup {None}
  BY DEF IInv, TypeOK, CallType, CallStates
<1>4. CallOK(new)
  BY DEF CallOK
<1> QED
  BY <1>2, <1>3, <1>4, CallMoves

\* A call that is answered was graded with the version it is given, or refused.
LEMMA GradedMoves ==
  ASSUME IInv, NEW j \in Calls, NEW version \in Versions \cup {None}, Graded(j, version),
         status # "deleted" => version # None /\ version = frozen',
         frozen' \in Versions \cup {None}, frozen # None => frozen' = frozen,
         UNCHANGED <<status, sdk, fresh, rows, errored, holder, up, fin, latest, del>>
  PROVE  IInv'
<1> DEFINE accepted == [NoCall EXCEPT !.pc = "graded", !.used = version]
<1> DEFINE refused  == [NoCall EXCEPT !.pc = "refused"]
<1>1. NoCall \in CallType
  BY DEF NoCall, CallType, CallStates
<1>2. accepted \in CallType /\ CallOK(accepted)
  BY <1>1 DEF CallType, CallStates, CallOK
<1>3. refused \in CallType /\ CallOK(refused)
  BY <1>1 DEF CallType, CallStates, CallOK
<1>4. \/ call' = [call EXCEPT ![j] = accepted]
      \/ call' = [call EXCEPT ![j] = refused]
  BY DEF Graded
<1> HIDE DEF accepted, refused
<1> QED
  BY <1>2, <1>3, <1>4, CallMoves

LEMMA CallResolveKeeps == ASSUME NEW j \in Calls, IInv, CallResolve(j) PROVE IInv'
<1> USE DEF CallResolve, runVars, resultVars
<1>1. call[j] \in CallType /\ latest \in Versions /\ frozen \in Versions \cup {None}
  BY DEF IInv, TypeOK, CallType
<1>2. CASE call[j].seen # None /\ Graded(j, call[j].seen)
  <2>1. call[j].seen \in Versions \cup {None}
    BY <1>1 DEF CallType
  <2>2. status # "deleted" => call[j].seen = frozen
    BY <1>2 DEF IInv, CallsFrozen
  <2> QED
    BY <1>1, <1>2, <2>1, <2>2, GradedMoves
<1>3. CASE call[j].seen = None
  <2> DEFINE want == IF call[j].named # None THEN call[j].named ELSE latest
  <2> DEFINE new == [call[j] EXCEPT !.pc = "freezing", !.want = want]
  <2>1. want \in Versions /\ want # None
    BY <1>1, LocalAssumption DEF CallType
  <2>2. call' = [call EXCEPT ![j] = new]
    BY <1>1, <1>3 DEF CallType
  <2>3. new \in CallType /\ new.pc = "freezing" /\ new.want = want
    BY <1>1, <2>1 DEF CallType, CallStates
  <2>4. CallOK(new)
    BY <2>1, <2>3 DEF CallOK
  <2> QED
    BY <1>1, <2>2, <2>3, <2>4, CallMoves
<1> QED
  BY <1>2, <1>3

LEMMA CallFreezeKeeps == ASSUME NEW j \in Calls, IInv, CallFreeze(j) PROVE IInv'
<1> USE DEF CallFreeze, MayFreeze, runVars, resultVars
<1>1. call[j] \in CallType /\ frozen \in Versions \cup {None}
  BY DEF IInv, TypeOK, CallType
<1>2. CASE frozen = None /\ frozen' = call[j].want /\ Graded(j, call[j].want)
  <2>1. call[j].want \in Versions \cup {None} /\ call[j].want # None
    BY <1>1 DEF IInv, CallsWant, CallType
  <2> QED
    BY <1>2, <2>1, GradedMoves
<1>3. CASE /\ status = "deleted" \/ frozen # None
           /\ call' = [call EXCEPT ![j].pc = "reading"]
           /\ frozen' = frozen
  <2> DEFINE new == [call[j] EXCEPT !.pc = "reading"]
  <2>1. call' = [call EXCEPT ![j] = new] /\ new \in CallType /\ new.pc = "reading"
    BY <1>1, <1>3 DEF CallType, CallStates
  <2>2. CallOK(new)
    BY <1>3, <2>1 DEF CallOK
  <2> QED
    BY <1>1, <1>3, <2>1, <2>2, CallMoves
<1> QED
  BY <1>2, <1>3

LEMMA CallReadBackKeeps == ASSUME NEW j \in Calls, IInv, CallReadBack(j) PROVE IInv'
<1> USE DEF CallReadBack, runVars, resultVars
<1> DEFINE version == IF status # "deleted" /\ frozen # None THEN frozen ELSE call[j].want
<1>1. version \in Versions \cup {None} /\ frozen \in Versions \cup {None}
  BY DEF IInv, TypeOK
<1>2. status # "deleted" => version # None /\ version = frozen
  BY DEF IInv, CallsFrozen
<1>3. Graded(j, version)
  OBVIOUS
<1> QED
  BY <1>1, <1>2, <1>3, GradedMoves

-----------------------------------------------------------------------------
(***************************************************************************)
(* Everybody else.                                                         *)
(***************************************************************************)

LEMMA PromoteKeeps == ASSUME IInv, Promote PROVE IInv'
<1> USE DEF Promote, runVars, resultVars
<1>1. TypeOK' /\ FinishedAsAnswered'
  BY DEF IInv, TypeOK, FinishedAsAnswered
<1> QED
  BY <1>1, UploadsUnchanged, CallsUnchanged DEF IInv, Gone

LEMMA TimeKeeps == ASSUME IInv, SdkGone \/ Tick \/ DeleteCheck PROVE IInv'
<1> USE DEF SdkGone, Tick, DeleteCheck, runVars, resultVars, judgeVars
<1>1. TypeOK' /\ FinishedAsAnswered'
  BY DEF IInv, TypeOK, FinishedAsAnswered
<1> QED
  BY <1>1, UploadsUnchanged, CallsUnchanged DEF IInv, Gone

\* The sweep finds a run in flight, so no finish request was answered yet.
LEMMA ReapKeeps == ASSUME IInv, Reap PROVE IInv'
<1> USE DEF Reap, Stale, InFlight, resultVars, judgeVars
<1>1. TypeOK'
  BY DEF IInv, TypeOK, Settled
<1>2. FinishedAsAnswered'
  BY DEF IInv, TypeOK, FinishedAsAnswered, Settled
<1> QED
  BY <1>1, <1>2, UploadsUnchanged, CallsUnchanged DEF IInv, Gone

\* The delete waits for the row, so no upload is in its transaction.
LEMMA DeleteRunKeeps == ASSUME IInv, DeleteRun PROVE IInv'
<1> USE DEF DeleteRun, RowFree, judgeVars
<1>1. TypeOK'
  BY DEF IInv, TypeOK
<1>2. \A u \in Uploads : ~InTransaction(u)
  BY LocalAssumption DEF IInv, UploadLocks
<1>3. RowsDiffer' /\ UploadLocks' /\ DoneHasRows'
  BY <1>2 DEF IInv, RowsDiffer, UploadLocks, DoneHasRows, InTransaction
<1>4. FinishedAsAnswered' /\ CallsFrozen' /\ CallsWant'
  BY DEF IInv, FinishedAsAnswered, CallsFrozen, CallsWant
<1> QED
  BY <1>1, <1>3, <1>4 DEF IInv

-----------------------------------------------------------------------------
LEMMA NextIInv == IInv /\ [Next]_localVars => IInv'
<1> SUFFICES ASSUME IInv, [Next]_localVars PROVE IInv'
  OBVIOUS
<1>1. CASE UNCHANGED localVars
  <2> USE <1>1 DEF localVars
  <2>1. TypeOK' /\ FinishedAsAnswered'
    BY DEF IInv, TypeOK, FinishedAsAnswered
  <2> QED
    BY <2>1, UploadsUnchanged, CallsUnchanged DEF IInv, Gone
<1>2. CASE \E u \in Uploads : UploadCheck(u) \/ Upload(u)
  BY <1>2, UploadCheckKeeps, UploadLockKeeps, UploadDeleteKeeps, UploadCommitKeeps,
     UploadAbortKeeps DEF Upload
<1>3. CASE \E f \in Finishes : FinishCheck(f) \/ Finish(f)
  BY <1>3, FinishCheckKeeps, FinishCountKeeps, FinishWriteKeeps, FinishAbortKeeps DEF Finish
<1>4. CASE \E j \in Calls : CallRead(j) \/ Grading(j)
  BY <1>4, CallReadKeeps, CallResolveKeeps, CallFreezeKeeps, CallReadBackKeeps DEF Grading
<1>5. CASE Create \/ Promote \/ SdkGone \/ Tick \/ Reap \/ DeleteCheck \/ DeleteRun
  BY <1>5, CreateKeeps, PromoteKeeps, TimeKeeps, ReapKeeps, DeleteRunKeeps
<1> QED
  BY <1>1, <1>2, <1>3, <1>4, <1>5 DEF Next

LEMMA IInvAlways == Spec => []IInv
BY InitIInv, NextIInv, PTL DEF Spec

\* Type correctness: in particular, what a finish request counted is never more
\* than the run has examples.
THEOREM TypeCorrect == Spec => []TypeOK
<1>1. IInv => TypeOK
  BY DEF IInv
<1> QED
  BY <1>1, IInvAlways, PTL

\* replaceResults: whatever uploads were sent again while others were written, an
\* example has one row at most, and one if an upload of it was acknowledged.
THEOREM OneRowEach == Spec => []OneRowPerExample
<1>1. IInv => OneRowPerExample
  <2> SUFFICES ASSUME IInv, NEW e \in Examples
               PROVE  LET written == {x \in rows : x[1] = e}
                      IN  /\ Cardinality(written) <= 1
                          /\ status # "deleted" /\ (\E u \in Uploads : up[u].pc = "done" /\ e \in up[u].batch)
                               => written # {}
    BY DEF OneRowPerExample
  <2> DEFINE written == {x \in rows : x[1] = e}
  <2>1. Cardinality(written) <= 1
    <3>1. CASE written = {}
      BY <3>1, FS_EmptySet
    <3>2. CASE written # {}
      <4>1. PICK x \in written : TRUE
        BY <3>2
      <4>2. written = {x}
        BY <4>1 DEF IInv, RowsDiffer
      <4>3. Cardinality(written) = 1
        BY <4>2, FS_Singleton
      <4> QED
        BY <4>3
    <3> QED
      BY <3>1, <3>2
  <2>2. status # "deleted" /\ (\E u \in Uploads : up[u].pc = "done" /\ e \in up[u].batch)
          => written # {}
    BY DEF IInv, DoneHasRows
  <2> QED
    BY <2>1, <2>2
<1> QED
  BY <1>1, IInvAlways, PTL

\* finishRun: the outcome a caller was told is never rewritten, by another finish
\* request or by the sweep.
THEOREM AnswerStays == Spec => []FinishedAsAnswered
<1>1. IInv => FinishedAsAnswered
  BY DEF IInv
<1> QED
  BY <1>1, IInvAlways, PTL

\* freezeJudgePromptVersion: whatever is promoted meanwhile, all outputs of a run
\* are graded by one version of the judge prompt.
THEOREM GradedByOne == Spec => []OneRubric
<1>1. IInv => OneRubric
  BY DEF IInv, CallsFrozen, OneRubric
<1> QED
  BY <1>1, IInvAlways, PTL

-----------------------------------------------------------------------------
(***************************************************************************)
(* The refinement.  Only a caller's process is lost, and only once the run *)
(* is there; the API's requests move the status as a lifecycle allows.     *)
(***************************************************************************)

\* The process is there until the run is, and a delete request has seen a settled
\* run, which stays settled.
LifecycleInv ==
  /\ TypeOK
  /\ status = "none" => sdk
  /\ del = "checked" => status \in Settled

\* What a step does to what a lifecycle sees.
StatusStep ==
  \/ status' = status /\ sdk' = sdk
  \/ status = "none" /\ status' = "running" /\ sdk' = sdk
  \/ status = "running" /\ status' \in Settled /\ sdk' = sdk
  \/ status \in Settled /\ status' = "deleted" /\ sdk' = sdk
  \/ status \notin {"none", "deleted"} /\ status' = status /\ ~sdk'

LEMMA StatusShape ==
  ASSUME LifecycleInv, [Next]_localVars
  PROVE  /\ StatusStep
         /\ \/ del' = del /\ (status' = status \/ status' # "deleted")
            \/ del' = "checked" /\ status \in Settled /\ status' = status
            \/ del' = "done"
<1> USE DEF runVars, resultVars, judgeVars, StatusStep
<1>1. CASE UNCHANGED localVars
  BY <1>1 DEF localVars
<1>2. ASSUME NEW u \in Uploads, UploadCheck(u) \/ Upload(u) PROVE UNCHANGED <<status, sdk, del>>
  BY <1>2 DEF UploadCheck, Upload, UploadLock, UploadDelete, UploadCommit, UploadAbort
<1>3. ASSUME NEW f \in Finishes, FinishCheck(f) \/ Finish(f)
      PROVE  /\ UNCHANGED <<sdk, del>>
             /\ \/ status' = status
                \/ status = "running" /\ status' \in Settled
  BY <1>3 DEF FinishCheck, Finish, FinishCount, FinishWrite, FinishAbort, MayFinish, Outcome, Settled
<1>4. ASSUME NEW j \in Calls, CallRead(j) \/ Grading(j) PROVE UNCHANGED <<status, sdk, del>>
  BY <1>4 DEF CallRead, Grading, CallResolve, CallFreeze, CallReadBack
<1>5. CASE Create \/ Promote \/ SdkGone
  BY <1>5 DEF Create, Promote, SdkGone
<1>6. CASE Tick \/ Reap
  BY <1>6 DEF Tick, Reap, Stale, InFlight, Settled
<1>7. CASE DeleteCheck \/ DeleteRun
  BY <1>7 DEF DeleteCheck, DeleteRun, LifecycleInv
<1> QED
  BY <1>1, <1>2, <1>3, <1>4, <1>5, <1>6, <1>7 DEF Next, Settled

LEMMA LifecycleInvStep ==
  ASSUME LifecycleInv, TypeOK', [Next]_localVars
  PROVE  LifecycleInv'
BY StatusShape DEF LifecycleInv, StatusStep, Settled

LEMMA LifecycleStep ==
  ASSUME LifecycleInv, [Next]_localVars
  PROVE  [Lifecycle!Next]_(Lifecycle!vars)
<1> USE DEF Lifecycle!InFlight, Lifecycle!Settled, Settled
<1>1. StatusStep /\ sdk \in BOOLEAN
  BY StatusShape DEF LifecycleInv, TypeOK
<1>2. CASE status' = status /\ sdk' = sdk
  BY <1>2 DEF Lifecycle!vars
<1>3. CASE status = "none" /\ status' = "running" /\ sdk' = sdk
  BY <1>3 DEF LifecycleInv, TypeOK, Lifecycle!Next, Lifecycle!Create
<1>4. CASE status = "running" /\ status' \in Settled /\ sdk' = sdk
  BY <1>4 DEF Lifecycle!Next, Lifecycle!Settle
<1>5. CASE status \in Settled /\ status' = "deleted" /\ sdk' = sdk
  BY <1>5 DEF Lifecycle!Next, Lifecycle!Delete
<1>6. CASE status \notin {"none", "deleted"} /\ status' = status /\ ~sdk' /\ sdk' # sdk
  <2>1. status \in {"running"} \cup Settled /\ sdk' = FALSE
    BY <1>6 DEF LifecycleInv, TypeOK
  <2> QED
    BY <1>6, <2>1 DEF Lifecycle!Next, Lifecycle!Lose
<1> QED
  BY <1>1, <1>2, <1>3, <1>4, <1>5, <1>6 DEF StatusStep

\* A local run keeps a run's lifecycle: its status goes from running to settled
\* once and never back, and its driver, the caller's process, is gone only when
\* that process is (local-runs.service.ts).
THEOREM LocalImplementsLifecycle == Spec => Lifecycle!Spec
<1>1. Init => LifecycleInv
  BY InitIInv DEF Init, LifecycleInv, IInv
<1>2. LifecycleInv /\ TypeOK' /\ [Next]_localVars => LifecycleInv'
  BY LifecycleInvStep
<1>3. Init => Lifecycle!Init
  BY DEF Init, Lifecycle!Init
<1>4. LifecycleInv /\ [Next]_localVars => [Lifecycle!Next]_(Lifecycle!vars)
  BY LifecycleStep
<1> QED
  BY <1>1, <1>2, <1>3, <1>4, TypeCorrect, PTL DEF Spec, Lifecycle!Spec
=============================================================================
