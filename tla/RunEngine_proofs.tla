-------------------------- MODULE RunEngine_proofs --------------------------
(***************************************************************************)
(* Theorems about the run engine, for every number of cells, re-judge      *)
(* requests, attempts and process deaths.                                  *)
(***************************************************************************)
EXTENDS RunEngine, TLAPS, FiniteSetTheorems

-----------------------------------------------------------------------------
(***************************************************************************)
(* Type correctness.                                                       *)
(***************************************************************************)

\* Counts of rows are integers, as PollCount stores them.
LEMMA CountIsNat ==
  ASSUME NEW S, S \subseteq RowIds
  PROVE  Cardinality(S) \in Nat
<1>1. IsFiniteSet(1..RowsPerCell)
  BY EngineAssumption, FS_Interval
<1>2. IsFiniteSet(RowIds)
  BY <1>1, EngineAssumption, FS_Product DEF RowIds
<1>3. IsFiniteSet(S)
  BY <1>2, FS_Subset
<1> QED
  BY <1>3, FS_CardinalityType

\* The records a job or a request starts and ends with are in their types.
LEMMA RecordTypes ==
  /\ NoCell \in CellJobs /\ QueuedCell \in CellJobs
  /\ NoJob \in JudgeJobs /\ QueuedJob \in JudgeJobs
  /\ NoFin \in FinalizeJobs /\ QueuedFin \in FinalizeJobs
  /\ IdlePoll \in PollSlots
  /\ NoReq \in Requests
BY EngineAssumption
   DEF NoCell, QueuedCell, NoJob, QueuedJob, NoFin, QueuedFin, IdlePoll, NoReq,
       CellJobs, JudgeJobs, FinalizeJobs, PollSlots, Requests, CellStates,
       JudgeStates, FinStates, PollSteps, ReqStates, RowStates, Settled, Passes

LEMMA EndedTypes ==
  /\ \A pc \in CellStates : EndedCell(pc) \in CellJobs
  /\ EndedJob \in JudgeJobs
  /\ \A pc \in FinStates : EndedFin(pc) \in FinalizeJobs
BY RecordTypes
   DEF EndedCell, EndedJob, EndedFin, CellJobs, JudgeJobs, FinalizeJobs, JudgeStates

LEMMA TypeInit == Init => TypeOK
<1> SUFFICES ASSUME Init PROVE TypeOK
  OBVIOUS
<1> USE DEF Init
<1>1. row \in [RowIds -> RowStates]
  BY DEF RowStates
<1>2. cell \in [Cells -> CellJobs] /\ judge \in [RowIds -> JudgeJobs]
  BY RecordTypes
<1>3. fin \in [Passes -> FinalizeJobs] /\ poll \in PollSlots
  BY RecordTypes
<1>4. req \in [Rejudges -> Requests]
  BY RecordTypes
<1>5. crashes \in 0..MaxCrashes
  BY EngineAssumption
<1> QED
  BY <1>1, <1>2, <1>3, <1>4, <1>5 DEF TypeOK

LEMMA CellType ==
  ASSUME TypeOK, NEW c \in Cells, Cell(c)
  PROVE  TypeOK'
<1> USE DEF TypeOK, runVars, judgeVars, finVars
<1>1. CASE CellStart(c)
  <2>1. cell' \in [Cells -> CellJobs]
    BY <1>1 DEF CellStart, CellJobs, CellStates
  <2>2. status' \in {"none", "deleted"} \cup InFlight \cup Settled
    BY <1>1 DEF CellStart, MarkRunning, InFlight
  <2> QED
    BY <1>1, <2>1, <2>2 DEF CellStart
<1>2. CASE CellAnswer(c)
  <2>1. PICK k \in 1..RowsPerCell :
          cell' = [cell EXCEPT ![c].pc = "written", ![c].row = k]
    BY <1>2 DEF CellAnswer
  <2>2. cell' \in [Cells -> CellJobs]
    BY <2>1 DEF CellJobs, CellStates
  <2>3. row' \in [RowIds -> RowStates]
    BY <1>2 DEF CellAnswer, RowStates
  <2> QED
    BY <1>2, <2>2, <2>3 DEF CellAnswer
<1>3. CASE CellHandOver(c)
  <2>1. cell' \in [Cells -> CellJobs]
    BY <1>3 DEF CellHandOver, CellJobs, CellStates
  <2>2. judge' \in [RowIds -> JudgeJobs]
    BY <1>3, RecordTypes DEF CellHandOver, AddJudgeJobs
  <2> QED
    BY <1>3, <2>1, <2>2 DEF CellHandOver
<1>4. CASE CellDone(c)
  BY <1>4, EndedTypes DEF CellDone, CellStates
<1>5. CASE CellFail(c)
  <2>1. PICK permanent \in BOOLEAN :
          cell' = [cell EXCEPT ![c] =
                     IF Terminal(cell[c].tries + 1, CellAttempts, permanent)
                     THEN EndedCell("failing")
                     ELSE [QueuedCell EXCEPT !.tries = cell[c].tries + 1]]
    BY <1>5 DEF CellFail
  <2>2. cell[c].tries \in 0..(CellAttempts - 1)
    BY DEF CellJobs
  <2>3. CASE Terminal(cell[c].tries + 1, CellAttempts, permanent)
    <3>1. cell' \in [Cells -> CellJobs]
      BY <2>1, <2>3, EndedTypes DEF CellStates
    <3> QED
      BY <1>5, <3>1 DEF CellFail
  <2>4. CASE ~Terminal(cell[c].tries + 1, CellAttempts, permanent)
    <3>1. cell[c].tries + 1 \in 0..(CellAttempts - 1)
      BY <2>2, <2>4, EngineAssumption DEF Terminal
    <3>2. [QueuedCell EXCEPT !.tries = cell[c].tries + 1] \in CellJobs
      BY <3>1, RecordTypes DEF CellJobs
    <3>3. cell' \in [Cells -> CellJobs]
      BY <2>1, <2>4, <3>2
    <3> QED
      BY <1>5, <3>3 DEF CellFail
  <2> QED
    BY <2>3, <2>4
<1>6. CASE CellFailed(c)
  <2>1. row' \in [RowIds -> RowStates]
    BY <1>6 DEF CellFailed, RowStates
  <2> QED
    BY <1>6, <2>1, EndedTypes DEF CellFailed, CellStates
<1> QED
  BY <1>1, <1>2, <1>3, <1>4, <1>5, <1>6 DEF Cell

LEMMA JudgeType ==
  ASSUME TypeOK, NEW r \in RowIds, Judge(r)
  PROVE  TypeOK'
<1> USE DEF TypeOK, runVars, judgeVars, finVars
<1>1. CASE JudgeStart(r)
  <2>1. judge' \in [RowIds -> JudgeJobs]
    BY <1>1 DEF JudgeStart, JudgeJobs, JudgeStates
  <2> QED
    BY <1>1, <2>1 DEF JudgeStart
<1>2. CASE JudgeVerdict(r)
  <2>1. judge' \in [RowIds -> JudgeJobs]
    BY <1>2 DEF JudgeVerdict, JudgeJobs, JudgeStates
  <2>2. row' \in [RowIds -> RowStates]
    BY <1>2 DEF JudgeVerdict, RowStates, Verdicts
  <2> QED
    BY <1>2, <2>1, <2>2 DEF JudgeVerdict
<1>3. CASE JudgeDone(r)
  BY <1>3, EndedTypes DEF JudgeDone, JudgeStates
<1>4. CASE JudgeFail(r)
  <2>1. PICK permanent \in BOOLEAN :
          /\ judge' = [judge EXCEPT ![r] =
                        IF Terminal(judge[r].tries + 1, JudgeAttempts, permanent)
                        THEN EndedJob
                        ELSE [QueuedJob EXCEPT !.tries = judge[r].tries + 1]]
          /\ judgeLate' \subseteq judgeLate \cup {r}
    BY <1>4 DEF JudgeFail
  <2>2. judge[r].tries \in 0..(JudgeAttempts - 1)
    BY DEF JudgeJobs
  <2>3. judge' \in [RowIds -> JudgeJobs]
    <3>1. CASE Terminal(judge[r].tries + 1, JudgeAttempts, permanent)
      BY <2>1, <3>1, EndedTypes DEF JudgeStates
    <3>2. CASE ~Terminal(judge[r].tries + 1, JudgeAttempts, permanent)
      <4>1. judge[r].tries + 1 \in 0..(JudgeAttempts - 1)
        BY <2>2, <3>2, EngineAssumption DEF Terminal
      <4>2. [QueuedJob EXCEPT !.tries = judge[r].tries + 1] \in JudgeJobs
        BY <4>1, RecordTypes DEF JudgeJobs
      <4> QED
        BY <2>1, <3>2, <4>2
    <3> QED
      BY <3>1, <3>2
  <2> QED
    BY <1>4, <2>1, <2>3 DEF JudgeFail
<1>5. CASE JudgeFailed(r)
  <2>1. row' \in [RowIds -> RowStates]
    BY <1>5 DEF JudgeFailed, RowStates, Verdicts
  <2> QED
    BY <1>5, <2>1 DEF JudgeFailed
<1> QED
  BY <1>1, <1>2, <1>3, <1>4, <1>5 DEF Judge

\* A finalize job that used up an attempt has not used up too many.
LEMMA AttemptType ==
  ASSUME TypeOK, NEW p \in Passes, UseAttempt(p)
  PROVE  fin' \in [Passes -> FinalizeJobs]
<1> DEFINE tries == fin[p].tries + 1
<1>1. fin \in [Passes -> FinalizeJobs]
  BY DEF TypeOK
<1>2. fin[p].tries \in 0..(FinalizeAttempts - 1)
  BY <1>1 DEF FinalizeJobs
<1>3. CASE Terminal(tries, FinalizeAttempts, FALSE)
  <2>1. fin' = [fin EXCEPT ![p] = EndedFin("failing")]
    BY <1>3 DEF UseAttempt
  <2> QED
    BY <1>1, <2>1, EndedTypes DEF FinStates
<1>4. CASE ~Terminal(tries, FinalizeAttempts, FALSE)
  <2>1. fin' = [fin EXCEPT ![p].tries = tries]
    BY <1>4 DEF UseAttempt
  <2>2. tries \in 0..(FinalizeAttempts - 1)
    BY <1>2, <1>4, EngineAssumption DEF Terminal
  <2> QED
    BY <1>1, <2>1, <2>2 DEF FinalizeJobs
<1> QED
  BY <1>3, <1>4

(* A poll that sees progress remembers the count and stops the stall clock. *)
LEMMA ProgressType ==
  ASSUME NEW j \in FinalizeJobs, NEW m \in Int
  PROVE  [j EXCEPT !.last = m, !.idle = 0] \in FinalizeJobs
<1>1. [j EXCEPT !.last = m] \in FinalizeJobs
  BY DEF FinalizeJobs
<1>2. [j EXCEPT !.last = m, !.idle = 0] = [[j EXCEPT !.last = m] EXCEPT !.idle = 0]
  BY DEF FinalizeJobs
<1>3. ASSUME NEW i \in FinalizeJobs
      PROVE  [i EXCEPT !.idle = 0] \in FinalizeJobs
  BY DEF FinalizeJobs
<1> QED
  BY <1>1, <1>2, <1>3

LEMMA FinalizeType ==
  ASSUME TypeOK, NEW p \in Passes, StallClock(p) \/ PollCount(p) \/ Handler(p)
  PROVE  TypeOK'
<1> USE DEF TypeOK, runVars, judgeVars
<1>1. CASE StallClock(p)
  <2>1. fin' \in [Passes -> FinalizeJobs]
    BY <1>1 DEF StallClock, FinalizeJobs
  <2> QED
    BY <1>1, <2>1 DEF StallClock
<1>2. CASE PollCount(p)
  <2> DEFINE n == Cardinality(Produced) + Cardinality(Judged)
  <2>1. n \in Int
    BY CountIsNat DEF Produced, Judged
  <2>2. FinalStatus \in Settled
    BY DEF FinalStatus, Settled
  <2>3. fin' \in [Passes -> FinalizeJobs]
    <3>1. \/ fin' = fin \/ UseAttempt(p)
          \/ fin' = [fin EXCEPT ![p] = [fin[p] EXCEPT !.last = n, !.idle = 0]]
      BY <1>2 DEF PollCount, Requeue
    <3>2. CASE fin' = [fin EXCEPT ![p] = [fin[p] EXCEPT !.last = n, !.idle = 0]]
      <4>1. fin[p] \in FinalizeJobs
        OBVIOUS
      <4> QED
        BY <2>1, <3>2, <4>1, ProgressType
    <3>3. CASE UseAttempt(p)
      BY <3>3, AttemptType
    <3>4. CASE fin' = fin
      BY <3>4
    <3> QED
      BY <3>1, <3>2, <3>3, <3>4
  <2>4. poll' \in PollSlots
    <3>1. \/ poll' = [IdlePoll EXCEPT !.step = "settle", !.pass = p, !.outcome = FinalStatus]
          \/ poll' = IdlePoll \/ poll' = poll
          \/ poll' = [IdlePoll EXCEPT !.step = "stalled", !.pass = p, !.count = n]
      BY <1>2 DEF PollCount, Requeue
    <3> QED
      BY <2>1, <2>2, <3>1, RecordTypes DEF PollSlots, PollSteps
  <2> QED
    BY <1>2, <2>3, <2>4 DEF PollCount
<1>3. CASE FinalizeFailed(p)
  BY <1>3, EndedTypes DEF FinalizeFailed, FinStates, SetRunStatus, Settled
<1>4. CASE FinalizeFailedNotify(p)
  BY <1>4, EndedTypes DEF FinalizeFailedNotify, FinStates
<1> QED
  BY <1>1, <1>2, <1>3, <1>4 DEF Handler

LEMMA PollType ==
  ASSUME TypeOK, Poll
  PROVE  TypeOK'
<1> USE DEF TypeOK, runVars, judgeVars
<1>1. CASE PollStalled
  <2>1. poll' \in PollSlots
    BY <1>1 DEF PollStalled, PollSlots, PollSteps, Unjudged
  <2> QED
    BY <1>1, <2>1 DEF PollStalled
<1>2. CASE PollAsk
  <2>1. poll.pass \in Passes /\ poll.count \in Int
    BY DEF PollSlots
  <2>2. fin' \in [Passes -> FinalizeJobs]
    <3>1. \/ fin' = fin
          \/ fin' = [fin EXCEPT ![poll.pass].last = poll.count,
                                ![poll.pass].idle = fin[poll.pass].idle]
      BY <1>2 DEF PollAsk, Requeue
    <3> QED
      BY <2>1, <3>1 DEF FinalizeJobs
  <2>3. poll' \in PollSlots
    <3>1. \/ poll' = IdlePoll
          \/ poll' = [IdlePoll EXCEPT !.step = "settle", !.pass = poll.pass, !.gaveUp = TRUE]
      BY <1>2 DEF PollAsk, Requeue
    <3> QED
      BY <2>1, <3>1, RecordTypes DEF PollSlots, PollSteps
  <2> QED
    BY <1>2, <2>2, <2>3 DEF PollAsk
<1>3. CASE PollSettle
  <2>1. status' \in Settled
    BY <1>3 DEF PollSettle, SetRunStatus, PollSlots
  <2>2. poll' \in PollSlots
    BY <1>3, RecordTypes DEF PollSettle, PollSlots, PollSteps
  <2> QED
    BY <1>3, <2>1, <2>2 DEF PollSettle
<1>4. CASE PollNotify
  <2>1. fin' \in [Passes -> FinalizeJobs] /\ poll' \in PollSlots
    BY <1>4, RecordTypes, EndedTypes DEF PollNotify, FinStates
  <2> QED
    BY <1>4, <2>1 DEF PollNotify
<1>5. CASE PollError
  <2>1. UseAttempt(poll.pass) /\ poll.pass \in Passes
    BY <1>5 DEF PollError, PollSlots
  <2>2. fin' \in [Passes -> FinalizeJobs]
    BY <2>1, AttemptType
  <2> QED
    BY <1>5, <2>2, RecordTypes DEF PollError
<1> QED
  BY <1>1, <1>2, <1>3, <1>4, <1>5 DEF Poll

LEMMA RejudgeType ==
  ASSUME TypeOK, NEW q \in Rejudges, RejudgeRead(q) \/ Rejudge(q)
  PROVE  TypeOK'
<1> USE DEF TypeOK, runVars, judgeVars, finVars
<1>0. req[q].saved \in [RowIds -> RowStates] /\ req[q].left \subseteq RowIds
      /\ req[q].old \in Settled
  BY DEF Requests
<1>a. ASSUME NEW pc \in ReqStates, SetReq(q, pc) \/ EndReq(q, pc)
      PROVE  req' \in [Rejudges -> Requests]
  <2>1. req[q] \in Requests
    OBVIOUS
  <2>2. [req[q] EXCEPT !.pc = pc] \in Requests /\ [NoReq EXCEPT !.pc = pc] \in Requests
    BY <2>1, RecordTypes DEF Requests
  <2>3. \/ req' = [req EXCEPT ![q] = [req[q] EXCEPT !.pc = pc]]
        \/ req' = [req EXCEPT ![q] = [NoReq EXCEPT !.pc = pc]]
    BY <1>a DEF SetReq, EndReq
  <2> QED
    BY <2>2, <2>3
<1>b. ASSUME NEW pc \in ReqStates, NEW left \in SUBSET RowIds,
             req' = [req EXCEPT ![q] = [req[q] EXCEPT !.pc = pc, !.left = left]]
      PROVE  req' \in [Rejudges -> Requests]
  <2>1. req[q] \in Requests
    OBVIOUS
  <2>2. [req[q] EXCEPT !.pc = pc, !.left = left] \in Requests
    BY <2>1 DEF Requests
  <2> QED
    BY <1>b, <2>2
<1>c. Chosen(q) \in SUBSET RowIds
  BY DEF Chosen
<1>d. ASSUME Undo(q) PROVE req' \in [Rejudges -> Requests]
  <2>1. req' = [req EXCEPT ![q] = [req[q] EXCEPT !.pc = "undoing", !.left = Chosen(q)]]
    BY <1>d DEF Undo
  <2>2. "undoing" \in ReqStates
    BY DEF ReqStates
  <2> QED
    BY <1>b, <1>c, <2>1, <2>2
<1>e. ASSUME NEW r, req' = [req EXCEPT ![q].left = @ \ {r}]
      PROVE  req' \in [Rejudges -> Requests]
  <2>1. req[q] \in Requests /\ req[q].left \ {r} \in SUBSET RowIds
    BY <1>0
  <2>2. [req[q] EXCEPT !.left = req[q].left \ {r}] \in Requests
    BY <2>1 DEF Requests
  <2> QED
    BY <1>e, <2>2
<1>1. CASE RejudgeRead(q)
  <2>1. PICK only \in BOOLEAN :
          req' = [req EXCEPT ![q] = [NoReq EXCEPT !.pc = "listing", !.only = only,
                                                  !.old = status]]
    BY <1>1 DEF RejudgeRead
  <2>2. NoReq \in Requests /\ status \in Settled
    BY <1>1, RecordTypes DEF RejudgeRead
  <2>3. [NoReq EXCEPT !.pc = "listing", !.only = only, !.old = status] \in Requests
    BY <2>2 DEF Requests, ReqStates
  <2>4. req' \in [Rejudges -> Requests]
    BY <2>1, <2>3
  <2> QED
    BY <1>1, <2>4 DEF RejudgeRead
<1>2. CASE RejudgeList(q)
  <2> DEFINE targets == Targets(req[q].only)
             saved == [r \in RowIds |-> IF r \in targets THEN row[r] ELSE "absent"]
  <2>1. saved \in [RowIds -> RowStates]
    BY DEF RowStates
  <2>2. \/ EndReq(q, "refused")
        \/ req' = [req EXCEPT ![q] = [req[q] EXCEPT !.pc = "checking", !.only = FALSE,
                                                   !.saved = saved]]
    BY <1>2 DEF RejudgeList
  <2>3. ASSUME NEW old \in [RowIds -> RowStates]
        PROVE  [req[q] EXCEPT !.pc = "checking", !.only = FALSE, !.saved = old] \in Requests
    BY DEF Requests, ReqStates
  <2>4. req' \in [Rejudges -> Requests]
    BY <1>a, <2>1, <2>2, <2>3 DEF ReqStates
  <2> QED
    BY <1>2, <2>4 DEF RejudgeList
<1>3. CASE RejudgeCheck(q)
  <2>1. \/ EndReq(q, "refused")
        \/ req' = [req EXCEPT ![q] = [req[q] EXCEPT !.pc = "removing", !.left = Chosen(q)]]
    BY <1>3 DEF RejudgeCheck
  <2>2. "refused" \in ReqStates /\ "removing" \in ReqStates
    BY DEF ReqStates
  <2>3. req' \in [Rejudges -> Requests]
    BY <1>a, <1>b, <1>c, <2>1, <2>2
  <2> QED
    BY <1>3, <2>3 DEF RejudgeCheck
<1>4. CASE RejudgeRemove(q)
  <2>1. PICK r \in req[q].left :
          /\ judge' = [judge EXCEPT ![r] = NoJob]
          /\ req' = [req EXCEPT ![q].left = @ \ {r}]
    BY <1>4 DEF RejudgeRemove
  <2>2. judge' \in [RowIds -> JudgeJobs]
    BY <2>1, RecordTypes
  <2>3. req' \in [Rejudges -> Requests]
    BY <1>e, <2>1
  <2> QED
    BY <1>4, <2>2, <2>3 DEF RejudgeRemove
<1>5. CASE RejudgeReopen(q)
  <2>1. req' \in [Rejudges -> Requests]
    BY <1>5, <1>a DEF RejudgeReopen, ReqStates
  <2>2. row' \in [RowIds -> RowStates]
    BY <1>5 DEF RejudgeReopen, RowStates
  <2> QED
    BY <1>5, <2>1, <2>2 DEF RejudgeReopen, InFlight
<1>6. CASE RejudgeEnqueue(q)
  <2>1. req' \in [Rejudges -> Requests]
    BY <1>6, <1>a, <1>d DEF RejudgeEnqueue, ReqStates
  <2>2. judge' \in [RowIds -> JudgeJobs]
    BY <1>6, RecordTypes DEF RejudgeEnqueue, AddJudgeJobs
  <2> QED
    BY <1>6, <2>1, <2>2 DEF RejudgeEnqueue
<1>7. CASE RejudgeFinalize(q)
  <2>1. req' \in [Rejudges -> Requests]
    BY <1>7, <1>a, <1>d DEF RejudgeFinalize, ReqStates
  <2>2. fin' \in [Passes -> FinalizeJobs]
    BY <1>7, RecordTypes DEF RejudgeFinalize
  <2> QED
    BY <1>7, <2>1, <2>2 DEF RejudgeFinalize
<1>8. CASE RejudgeUndoRemove(q)
  <2>1. PICK r \in req[q].left :
          /\ judge' = judge \/ judge' = [judge EXCEPT ![r] = NoJob]
          /\ req' = [req EXCEPT ![q].left = @ \ {r}]
    BY <1>8 DEF RejudgeUndoRemove
  <2>2. judge' \in [RowIds -> JudgeJobs]
    BY <2>1, RecordTypes
  <2>3. req' \in [Rejudges -> Requests]
    BY <1>e, <2>1
  <2> QED
    BY <1>8, <2>2, <2>3 DEF RejudgeUndoRemove
<1>9. CASE RejudgeRestore(q)
  <2>1. [NoReq EXCEPT !.pc = "restored", !.saved = req[q].saved] \in Requests
    BY <1>0, RecordTypes DEF Requests, ReqStates
  <2>2. req' \in [Rejudges -> Requests]
    BY <1>9, <2>1 DEF RejudgeRestore
  <2>3. row' \in [RowIds -> RowStates]
    BY <1>0, <1>9 DEF RejudgeRestore, Restored
  <2> QED
    BY <1>0, <1>9, <2>2, <2>3 DEF RejudgeRestore
<1>10. CASE RejudgeLost(q) \/ RejudgeError(q)
  BY <1>10, <1>a DEF RejudgeLost, RejudgeError, ReqStates
<1> QED
  BY <1>1, <1>2, <1>3, <1>4, <1>5, <1>6, <1>7, <1>8, <1>9, <1>10 DEF Rejudge

LEMMA CrashType ==
  ASSUME TypeOK, Crash
  PROVE  TypeOK'
<1> USE DEF TypeOK, Crash, runVars
<1>1. ASSUME NEW c \in Cells PROVE CellAfterCrash(cell[c]) \in CellJobs
  <2>1. [QueuedCell EXCEPT !.tries = cell[c].tries] \in CellJobs
    BY RecordTypes DEF CellJobs
  <2> QED
    BY <2>1, EndedTypes DEF CellAfterCrash, CellStates
<1>2. ASSUME NEW r \in RowIds PROVE JudgeAfterCrash(judge[r]) \in JudgeJobs
  BY DEF JudgeAfterCrash, JudgeJobs, JudgeStates
<1>3. ASSUME NEW p \in Passes, NEW polled \in BOOLEAN
      PROVE  FinAfterCrash(fin[p], polled) \in FinalizeJobs
  <2>1. ASSUME NEW j \in FinalizeJobs PROVE [j EXCEPT !.stalls = 1] \in FinalizeJobs
    BY DEF FinalizeJobs
  <2>2. [fin[p] EXCEPT !.stalls = 1] \in FinalizeJobs
    BY <2>1
  <2> QED
    BY <2>2, EndedTypes DEF FinAfterCrash, FinStates
<1>4. cell' \in [Cells -> CellJobs]
  BY <1>1
<1>5. judge' \in [RowIds -> JudgeJobs]
  BY <1>2
<1>6. fin' \in [Passes -> FinalizeJobs]
  BY <1>3
<1>7. crashes' \in 0..MaxCrashes
  BY EngineAssumption
<1> QED
  BY <1>4, <1>5, <1>6, <1>7, RecordTypes

LEMMA OtherType ==
  ASSUME TypeOK,
         StartCreate \/ StartFlow \/ StartLost \/ Reaper \/ DeleteCheck \/ DeleteRun
  PROVE  TypeOK'
<1> USE DEF TypeOK, runVars, judgeVars, finVars
<1>1. CASE StartCreate \/ StartLost
  BY <1>1 DEF StartCreate, StartLost, InFlight
<1>2. CASE StartFlow
  BY <1>2, RecordTypes DEF StartFlow, Passes
<1>3. CASE Reaper
  BY <1>3 DEF Reaper, Tick, Reap, Settled
<1>4. CASE DeleteCheck
  BY <1>4 DEF DeleteCheck
<1>5. CASE DeleteRun
  BY <1>5 DEF DeleteRun, RowStates
<1> QED
  BY <1>1, <1>2, <1>3, <1>4, <1>5

LEMMA TypeStep == TypeOK /\ [Next]_engineVars => TypeOK'
<1> SUFFICES ASSUME TypeOK, [Next]_engineVars PROVE TypeOK'
  OBVIOUS
<1>1. CASE UNCHANGED engineVars
  BY <1>1 DEF engineVars, TypeOK
<1>2. CASE Next
  BY <1>2, CellType, JudgeType, FinalizeType, PollType, RejudgeType, CrashType,
     OtherType DEF Next, RunStep
<1> QED
  BY <1>1, <1>2

\* Every row, job and request is always in one of its states, whatever the
\* interleaving of the workers, the requests, the reaper and the crashes.
THEOREM TypeCorrect == Spec => []TypeOK
BY TypeInit, TypeStep, PTL DEF Spec

-----------------------------------------------------------------------------
(***************************************************************************)
(* A run in flight has a driver.  The steps that touch neither the start,  *)
(* nor a finalize job, nor a request cannot disturb the invariant, as long *)
(* as they do not put the run in flight.                                   *)
(***************************************************************************)

LEMMA DriverInit == Init => DriverInv
<1> SUFFICES ASSUME Init PROVE DriverInv
  OBVIOUS
<1>1. TypeOK
  BY TypeInit
<1>2. HasDriver /\ StartedOnce /\ PassQueuedOnce
  BY DEF Init, HasDriver, StartedOnce, PassQueuedOnce, InFlight, NoFin, NoReq, Passes
<1>3. PolledWaits /\ NotifierHasSuccessor
  BY DEF Init, PolledWaits, NotifierHasSuccessor, IdlePoll
<1> QED
  BY <1>1, <1>2, <1>3 DEF DriverInv

LEMMA DriverFrame ==
  ASSUME DriverInv, TypeOK',
         UNCHANGED <<start, fin, poll, req>>,
         status \notin InFlight => status' \notin InFlight,
         status' \in {"none", "queued"} => status' = status,
         start = "idle" => status' = status
  PROVE  DriverInv'
<1> USE DEF DriverInv
<1>1. HasDriver'
  BY DEF HasDriver, Driver, Lost, Opening
<1>2. StartedOnce' /\ PassQueuedOnce'
  BY DEF StartedOnce, PassQueuedOnce
<1>3. PolledWaits'
  BY DEF PolledWaits
<1>4. NotifierHasSuccessor'
  BY DEF NotifierHasSuccessor, Lost, Opening
<1> QED
  BY <1>1, <1>2, <1>3, <1>4

LEMMA CellDriver ==
  ASSUME DriverInv, TypeOK', Alive, NEW c \in Cells, Cell(c)
  PROVE  DriverInv'
<1> USE DEF finVars, runVars, judgeVars
<1>1. UNCHANGED <<start, fin, poll, req>>
  BY DEF Cell, CellStart, CellAnswer, CellHandOver, CellDone, CellFail, CellFailed
<1>2. status' = status \/ (status = "queued" /\ status' = "running")
  BY DEF Cell, CellStart, CellAnswer, CellHandOver, CellDone, CellFail, CellFailed,
         MarkRunning
<1>3. start # "idle"
  BY DEF DriverInv, StartedOnce, Alive
<1> QED
  BY <1>1, <1>2, <1>3, DriverFrame DEF InFlight

LEMMA JudgeDriver ==
  ASSUME DriverInv, TypeOK', NEW r \in RowIds, Judge(r)
  PROVE  DriverInv'
<1>1. UNCHANGED <<status, start, fin, poll, req>>
  BY DEF Judge, JudgeStart, JudgeVerdict, JudgeDone, JudgeFail, JudgeFailed,
         finVars, runVars
<1> QED
  BY <1>1, DriverFrame

LEMMA ReaperDeleteDriver ==
  ASSUME DriverInv, TypeOK', Alive, Reaper \/ DeleteCheck \/ DeleteRun
  PROVE  DriverInv'
<1>1. UNCHANGED <<start, fin, poll, req>>
  BY DEF Reaper, Tick, Reap, DeleteCheck, DeleteRun, finVars, runVars
<1>2. status' = status \/ status' \in {"failed", "deleted"}
  BY DEF Reaper, Tick, Reap, DeleteCheck, DeleteRun, runVars
<1>3. start # "idle"
  BY DEF DriverInv, StartedOnce, Alive
<1> QED
  BY <1>1, <1>2, <1>3, DriverFrame DEF InFlight

LEMMA StartDriver ==
  ASSUME DriverInv, TypeOK', StartCreate \/ (Alive /\ (StartFlow \/ StartLost))
  PROVE  DriverInv'
<1> USE DEF DriverInv, runVars, judgeVars, finVars
<1>1. CASE StartCreate
  <2>1. start' = "created" /\ status = "none" /\ UNCHANGED <<fin, poll, req>>
    BY <1>1 DEF StartCreate, StartedOnce
  <2>2. HasDriver' /\ NotifierHasSuccessor' /\ PolledWaits'
    BY <2>1 DEF HasDriver, Driver, NotifierHasSuccessor, PolledWaits
  <2>3. StartedOnce' /\ PassQueuedOnce'
    BY <1>1, <2>1 DEF StartCreate, StartedOnce, PassQueuedOnce
  <2> QED
    BY <2>2, <2>3
<1>2. CASE Alive /\ StartFlow
  <2>1. /\ fin' = [fin EXCEPT ![First] = QueuedFin]
        /\ start = "created" /\ start' = "queued"
        /\ UNCHANGED <<status, poll, req>>
    BY <1>2 DEF StartFlow
  <2>2. First \in Passes /\ \A q \in Rejudges : q # First
    BY EngineAssumption DEF Passes
  <2>3. fin'[First].pc = "waiting" /\ \A p \in Passes \ {First} : fin'[p] = fin[p]
    BY <2>1, <2>2 DEF TypeOK, QueuedFin, NoFin
  <2>4. poll.pass \in Passes
    BY DEF TypeOK, PollSlots
  <2>5. poll.step # "idle" => poll.pass # First
    BY <2>1 DEF StartedOnce, PolledWaits
  <2>6. HasDriver' /\ NotifierHasSuccessor'
    BY <2>1, <2>2, <2>3, <2>5 DEF HasDriver, Driver, NotifierHasSuccessor
  <2>7. StartedOnce' /\ PassQueuedOnce'
    BY <2>1, <2>2, <2>3 DEF StartedOnce, PassQueuedOnce, Passes
  <2>8. PolledWaits'
    BY <2>1, <2>3, <2>4, <2>5 DEF PolledWaits
  <2> QED
    BY <2>6, <2>7, <2>8
<1>3. CASE Alive /\ StartLost
  <2>1. start = "created" /\ start' = "lost" /\ UNCHANGED <<status, fin, poll, req>>
    BY <1>3 DEF StartLost
  <2>2. Lost'
    BY <2>1 DEF Lost
  <2>3. HasDriver' /\ NotifierHasSuccessor'
    BY <2>2 DEF HasDriver, NotifierHasSuccessor
  <2>4. StartedOnce' /\ PassQueuedOnce' /\ PolledWaits'
    BY <2>1 DEF StartedOnce, PassQueuedOnce, PolledWaits
  <2> QED
    BY <2>3, <2>4
<1> QED
  BY <1>1, <1>2, <1>3

\* Steps of the finalize worker: they change where one pass that was queued
\* already stands, and may settle the run.
LEMMA PassFrame ==
  ASSUME DriverInv, TypeOK', Alive, NEW p \in Passes,
         UNCHANGED <<start, req>>,
         fin[p].pc # "absent",
         \A o \in Passes \ {p} : fin'[o] = fin[o],
         status' = status \/ status' \in Settled
  PROVE  /\ StartedOnce' /\ PassQueuedOnce'
         /\ Lost /\ fin[p].pc # "dropped" => Lost'
<1> USE DEF DriverInv
<1>1. StartedOnce'
  BY EngineAssumption DEF StartedOnce, Alive, Passes
<1>2. PassQueuedOnce'
  BY DEF PassQueuedOnce, Settled, Passes
<1>3. Lost /\ fin[p].pc # "dropped" => Lost'
  BY DEF Lost
<1> QED
  BY <1>1, <1>2, <1>3

LEMMA FinalizeDriver ==
  ASSUME DriverInv, TypeOK', Alive, NEW p \in Passes,
         StallClock(p) \/ PollCount(p) \/ Handler(p)
  PROVE  DriverInv'
<1> USE DEF DriverInv, runVars, judgeVars
<1>0. poll.pass \in Passes /\ fin[p] \in FinalizeJobs
  BY DEF TypeOK, PollSlots
<1>1. CASE StallClock(p) \/ PollCount(p)
  <2>1. UNCHANGED <<status, start, req>> /\ fin[p].pc = "waiting"
    BY <1>1 DEF StallClock, PollCount
  <2>2. /\ \/ fin'[p].pc = "waiting"
           \/ fin'[p].pc = "failing" /\ poll' = poll /\ poll.step = "idle"
        /\ \A o \in Passes \ {p} : fin'[o] = fin[o]
    <3>1. CASE UseAttempt(p) /\ poll' = poll /\ poll.step = "idle"
      BY <1>0, <2>1, <3>1 DEF UseAttempt, EndedFin, NoFin, TypeOK, FinalizeJobs
    <3>2. CASE ~(UseAttempt(p) /\ poll' = poll /\ poll.step = "idle")
      BY <1>0, <1>1, <3>2 DEF StallClock, PollCount, Requeue, TypeOK, FinalizeJobs
    <3> QED
      BY <3>1, <3>2
  <2>3. StartedOnce' /\ PassQueuedOnce' /\ (Lost => Lost')
    BY <2>1, <2>2, PassFrame
  <2>4. HasDriver'
    BY <2>1, <2>2 DEF HasDriver, Driver
  <2>5. \/ poll' = poll \/ poll'.step = "idle"
        \/ poll'.step \in {"settle", "stalled"} /\ poll'.pass = p
    <3>1. \/ poll' = poll \/ poll' = IdlePoll
          \/ poll' = [IdlePoll EXCEPT !.step = "settle", !.pass = p, !.outcome = FinalStatus]
          \/ \E n : poll' = [IdlePoll EXCEPT !.step = "stalled", !.pass = p, !.count = n]
      BY <1>1 DEF StallClock, PollCount, Requeue
    <3>2. CASE poll' = IdlePoll
      BY <3>2 DEF IdlePoll
    <3>3. CASE poll' = [IdlePoll EXCEPT !.step = "settle", !.pass = p, !.outcome = FinalStatus]
      BY <3>3 DEF IdlePoll
    <3>4. CASE \E n : poll' = [IdlePoll EXCEPT !.step = "stalled", !.pass = p, !.count = n]
      BY <3>4 DEF IdlePoll
    <3> QED
      BY <3>1, <3>2, <3>3, <3>4
  <2>6. PolledWaits'
    BY <1>0, <2>1, <2>2, <2>5 DEF PolledWaits
  <2>7. NotifierHasSuccessor'
    BY <1>0, <2>1, <2>2, <2>3, <2>5 DEF NotifierHasSuccessor, Opening
  <2> QED
    BY <2>3, <2>4, <2>6, <2>7
<1>2. CASE FinalizeFailed(p) \/ FinalizeFailedNotify(p)
  <2>1. UNCHANGED <<start, poll, req>> /\ fin[p].pc \in {"failing", "exhausted"}
    BY <1>2 DEF FinalizeFailed, FinalizeFailedNotify
  <2>2. \A o \in Passes \ {p} : fin'[o] = fin[o]
    BY <1>2 DEF FinalizeFailed, FinalizeFailedNotify, TypeOK
  <2>3. \/ status' = "failed"
        \/ status' = status /\ fin'[p].pc = "dropped"
        \/ status' = status /\ fin[p].pc = "exhausted"
    BY <1>2 DEF FinalizeFailed, FinalizeFailedNotify, SetRunStatus, EndedFin,
                NoFin, TypeOK
  <2>4. StartedOnce' /\ PassQueuedOnce' /\ (Lost => Lost')
    BY <2>1, <2>2, <2>3, PassFrame DEF Settled
  <2>5. poll.step # "idle" => poll.pass # p
    BY <2>1 DEF PolledWaits
  <2>6. PolledWaits'
    BY <1>0, <2>1, <2>2, <2>5 DEF PolledWaits
  <2>7. status' = status /\ fin'[p].pc = "dropped" => Lost'
    BY DEF Lost
  <2>8. HasDriver'
    BY <2>1, <2>2, <2>3, <2>4, <2>7 DEF HasDriver, Driver, InFlight, Opening
  <2>9. NotifierHasSuccessor'
    BY <2>1, <2>2, <2>3, <2>4, <2>7
       DEF NotifierHasSuccessor, InFlight, Opening
  <2> QED
    BY <2>4, <2>6, <2>8, <2>9
<1> QED
  BY <1>1, <1>2 DEF Handler

LEMMA PollDriver ==
  ASSUME DriverInv, TypeOK', Alive, Poll
  PROVE  DriverInv'
<1> DEFINE p == poll.pass
<1> USE DEF DriverInv, runVars, judgeVars
<1>0. p \in Passes /\ fin[p] \in FinalizeJobs
  BY DEF TypeOK, PollSlots
<1>1. poll.step # "idle" /\ fin[p].pc = "waiting"
  BY DEF Poll, PollStalled, PollAsk, PollSettle, PollNotify, PollError, PolledWaits
<1>2. UNCHANGED <<start, req>>
  BY DEF Poll, PollStalled, PollAsk, PollSettle, PollNotify, PollError
<1>3. \A o \in Passes \ {p} : fin'[o] = fin[o]
  BY DEF Poll, PollStalled, PollAsk, PollSettle, PollNotify, PollError, Requeue,
         UseAttempt, TypeOK
<1>4. status' = status \/ status' \in Settled
  BY DEF Poll, PollStalled, PollAsk, PollSettle, PollNotify, PollError,
         SetRunStatus, TypeOK, PollSlots
<1>5. StartedOnce' /\ PassQueuedOnce' /\ (Lost => Lost')
  BY <1>0, <1>1, <1>2, <1>3, <1>4, PassFrame
<1>6. CASE PollStalled \/ PollAsk \/ PollSettle
  <2>1. fin'[p].pc = "waiting"
    BY <1>0, <1>1, <1>6 DEF PollStalled, PollAsk, PollSettle, Requeue, TypeOK,
                            FinalizeJobs
  <2>2. poll'.step = "idle" \/ poll'.pass = p
    <3>1. \/ poll' = [poll EXCEPT !.step = "asking", !.rows = Unjudged]
          \/ poll' = IdlePoll
          \/ poll' = [IdlePoll EXCEPT !.step = "settle", !.pass = p, !.gaveUp = TRUE]
          \/ poll' = [IdlePoll EXCEPT !.step = "notify", !.pass = poll.pass]
      BY <1>6 DEF PollStalled, PollAsk, PollSettle, Requeue
    <3>2. poll \in PollSlots
      BY DEF TypeOK
    <3>3. CASE poll' = [poll EXCEPT !.step = "asking", !.rows = Unjudged]
      BY <3>2, <3>3 DEF PollSlots
    <3>4. CASE poll' = IdlePoll
      BY <3>4 DEF IdlePoll
    <3>5. CASE poll' = [IdlePoll EXCEPT !.step = "settle", !.pass = p, !.gaveUp = TRUE]
      BY <3>5 DEF IdlePoll
    <3>6. CASE poll' = [IdlePoll EXCEPT !.step = "notify", !.pass = poll.pass]
      BY <3>6 DEF IdlePoll
    <3> QED
      BY <3>1, <3>3, <3>4, <3>5, <3>6
  <2>3. PolledWaits' /\ HasDriver'
    BY <1>0, <2>1, <2>2 DEF PolledWaits, HasDriver, Driver
  <2>4. poll'.step # "notify" \/ status' \notin InFlight
    <3>1. CASE PollSettle
      BY <3>1 DEF PollSettle, SetRunStatus, TypeOK, PollSlots, InFlight, Settled
    <3>2. CASE PollStalled \/ PollAsk
      <4>1. \/ poll' = [poll EXCEPT !.step = "asking", !.rows = Unjudged]
            \/ poll' = IdlePoll
            \/ poll' = [IdlePoll EXCEPT !.step = "settle", !.pass = p, !.gaveUp = TRUE]
        BY <3>2 DEF PollStalled, PollAsk, Requeue
      <4>2. CASE poll' = [poll EXCEPT !.step = "asking", !.rows = Unjudged]
        BY <4>2 DEF TypeOK, PollSlots
      <4>3. CASE poll' = IdlePoll
        BY <4>3 DEF IdlePoll
      <4>4. CASE poll' = [IdlePoll EXCEPT !.step = "settle", !.pass = p, !.gaveUp = TRUE]
        BY <4>4 DEF IdlePoll
      <4> QED
        BY <4>1, <4>2, <4>3, <4>4
    <3> QED
      BY <1>6, <3>1, <3>2
  <2>5. NotifierHasSuccessor'
    BY <2>4 DEF NotifierHasSuccessor
  <2> QED
    BY <1>5, <2>3, <2>5
<1>7. CASE PollNotify \/ PollError
  <2>1. poll'.step = "idle" /\ status' = status
    <3>1. poll' = IdlePoll
      BY <1>7 DEF PollNotify, PollError
    <3>2. status' = status
      BY <1>7 DEF PollNotify, PollError
    <3> QED
      BY <3>1, <3>2 DEF IdlePoll
  <2>2. PolledWaits' /\ NotifierHasSuccessor'
    BY <2>1 DEF PolledWaits, NotifierHasSuccessor
  <2>3. CASE PollNotify
    <3>1. status \in InFlight => \/ start = "created"
                                 \/ \E o \in Passes \ {p} : fin[o].pc \in {"waiting", "failing"}
                                 \/ \E q \in Rejudges : Opening(q)
                                 \/ Lost
      BY <2>3 DEF PollNotify, NotifierHasSuccessor
    <3>2. HasDriver'
      BY <1>2, <1>3, <1>5, <2>1, <3>1 DEF HasDriver, Driver, Opening
    <3> QED
      BY <1>5, <2>2, <3>2
  <2>4. CASE PollError
    <3>1. fin'[p].pc \in {"waiting", "failing"}
      BY <1>0, <1>1, <2>4 DEF PollError, UseAttempt, EndedFin, NoFin, TypeOK, FinalizeJobs
    <3>2. HasDriver'
      BY <1>0, <3>1 DEF HasDriver, Driver
    <3> QED
      BY <1>5, <2>2, <3>2
  <2> QED
    BY <1>7, <2>3, <2>4
<1> QED
  BY <1>6, <1>7 DEF Poll

\* What a step of a re-judge request does to the request, the run and the
\* finalize jobs: nothing yet, reopen the run, go on queueing or undoing, hand
\* over to its finalize job, restore the run, or die.
LEMMA RejudgeShape ==
  ASSUME TypeOK, NEW q \in Rejudges, RejudgeRead(q) \/ Rejudge(q)
  PROVE  /\ UNCHANGED <<start, poll>>
         /\ \A o \in Rejudges \ {q} : req'[o] = req[o]
         /\ \/ /\ req[q].pc \in {"idle", "listing", "checking", "removing"}
               /\ req'[q].pc \in {"listing", "checking", "removing", "refused"}
               /\ req[q].pc = "idle" => status \in Settled
               /\ UNCHANGED <<status, fin>>
            \/ /\ req[q].pc = "removing" /\ req'[q].pc = "enqueueing"
               /\ status \in Settled /\ status' = "running" /\ fin' = fin
            \/ /\ Opening(q) /\ req'[q].pc \in {"finalizing", "undoing"}
               /\ UNCHANGED <<status, fin>>
            \/ /\ req[q].pc = "finalizing" /\ req'[q].pc = "done"
               /\ status' = status /\ fin' = [fin EXCEPT ![q] = QueuedFin]
            \/ /\ req[q].pc = "undoing" /\ req'[q].pc = "restored"
               /\ status' = IF status = "running" THEN req[q].old ELSE status
               /\ fin' = fin
            \/ /\ Opening(q) /\ req'[q].pc = "crashed"
               /\ UNCHANGED <<status, fin>>
<1> USE DEF TypeOK, runVars, judgeVars, finVars, Opening
<1>0. req[q] \in Requests
  OBVIOUS
<1>a. ASSUME NEW pc, SetReq(q, pc) \/ EndReq(q, pc)
      PROVE  req'[q].pc = pc /\ \A o \in Rejudges \ {q} : req'[o] = req[o]
  <2>1. CASE SetReq(q, pc)
    BY <1>0, <2>1 DEF SetReq, Requests
  <2>2. CASE EndReq(q, pc)
    BY <2>2 DEF EndReq, NoReq
  <2> QED
    BY <1>a, <2>1, <2>2
<1>b. ASSUME Undo(q)
      PROVE  req'[q].pc = "undoing" /\ \A o \in Rejudges \ {q} : req'[o] = req[o]
  BY <1>0, <1>b DEF Undo, Requests
<1>c. ASSUME NEW r, req' = [req EXCEPT ![q].left = @ \ {r}]
      PROVE  req'[q].pc = req[q].pc /\ \A o \in Rejudges \ {q} : req'[o] = req[o]
  BY <1>0, <1>c DEF Requests
<1>1. CASE RejudgeRead(q)
  <2>1. PICK only \in BOOLEAN :
          req' = [req EXCEPT ![q] = [NoReq EXCEPT !.pc = "listing", !.only = only,
                                                  !.old = status]]
    BY <1>1 DEF RejudgeRead
  <2>2. req'[q].pc = "listing" /\ \A o \in Rejudges \ {q} : req'[o] = req[o]
    BY <2>1 DEF NoReq
  <2> QED
    BY <1>1, <2>2 DEF RejudgeRead
<1>2. CASE RejudgeList(q)
  <2>1. \/ EndReq(q, "refused")
        \/ \E saved : req' = [req EXCEPT ![q].pc = "checking", ![q].only = FALSE,
                                          ![q].saved = saved]
    BY <1>2 DEF RejudgeList
  <2>2. ASSUME NEW saved, req' = [req EXCEPT ![q].pc = "checking", ![q].only = FALSE,
                                             ![q].saved = saved]
        PROVE  req'[q].pc = "checking" /\ \A o \in Rejudges \ {q} : req'[o] = req[o]
    BY <1>0, <2>2 DEF Requests
  <2>3. /\ req'[q].pc \in {"refused", "checking"}
        /\ \A o \in Rejudges \ {q} : req'[o] = req[o]
    BY <1>a, <2>1, <2>2
  <2> QED
    BY <1>2, <2>3 DEF RejudgeList
<1>3. CASE RejudgeCheck(q)
  <2>1. \/ EndReq(q, "refused")
        \/ req' = [req EXCEPT ![q].pc = "removing", ![q].left = Chosen(q)]
    BY <1>3 DEF RejudgeCheck
  <2>2. CASE req' = [req EXCEPT ![q].pc = "removing", ![q].left = Chosen(q)]
    <3>1. req'[q].pc = "removing" /\ \A o \in Rejudges \ {q} : req'[o] = req[o]
      BY <1>0, <2>2 DEF Requests
    <3> QED
      BY <1>3, <3>1 DEF RejudgeCheck
  <2>3. CASE EndReq(q, "refused")
    BY <1>3, <1>a, <2>3 DEF RejudgeCheck
  <2> QED
    BY <2>1, <2>2, <2>3
<1>4. CASE RejudgeRemove(q)
  <2>1. \E r : req' = [req EXCEPT ![q].left = @ \ {r}]
    BY <1>4 DEF RejudgeRemove
  <2>2. req'[q].pc = req[q].pc /\ \A o \in Rejudges \ {q} : req'[o] = req[o]
    BY <1>c, <2>1
  <2> QED
    BY <1>4, <2>2 DEF RejudgeRemove
<1>5. CASE RejudgeReopen(q)
  BY <1>5, <1>a DEF RejudgeReopen
<1>6. CASE RejudgeEnqueue(q)
  BY <1>6, <1>a, <1>b DEF RejudgeEnqueue
<1>7. CASE RejudgeFinalize(q)
  BY <1>7, <1>a, <1>b DEF RejudgeFinalize
<1>8. CASE RejudgeUndoRemove(q)
  <2>1. \E r : req' = [req EXCEPT ![q].left = @ \ {r}]
    BY <1>8 DEF RejudgeUndoRemove
  <2>2. req'[q].pc = "undoing" /\ \A o \in Rejudges \ {q} : req'[o] = req[o]
    BY <1>8, <1>c, <2>1 DEF RejudgeUndoRemove
  <2> QED
    BY <1>8, <2>2 DEF RejudgeUndoRemove
<1>9. CASE RejudgeRestore(q)
  <2>1. req'[q].pc = "restored" /\ \A o \in Rejudges \ {q} : req'[o] = req[o]
    BY <1>9 DEF RejudgeRestore, NoReq
  <2> QED
    BY <1>9, <2>1 DEF RejudgeRestore
<1>10. CASE RejudgeLost(q) \/ RejudgeError(q)
  BY <1>10, <1>a DEF RejudgeLost, RejudgeError
<1> QED
  BY <1>1, <1>2, <1>3, <1>4, <1>5, <1>6, <1>7, <1>8, <1>9, <1>10 DEF Rejudge

LEMMA RejudgeDriver ==
  ASSUME DriverInv, TypeOK', Alive, NEW q \in Rejudges, RejudgeRead(q) \/ Rejudge(q)
  PROVE  DriverInv'
<1> USE DEF DriverInv
<1>1. UNCHANGED <<start, poll>> /\ \A o \in Rejudges \ {q} : req'[o] = req[o]
  BY RejudgeShape
<1>2. q \in Passes /\ q # First /\ poll.pass \in Passes /\ req[q].old \in Settled
  BY EngineAssumption DEF Passes, TypeOK, PollSlots, Requests
<1>3. start # "idle"
  BY DEF StartedOnce, Alive
<1>4. req[q].pc # "idle" => status \notin {"none", "queued"}
  BY DEF PassQueuedOnce
<1>5. CASE /\ req[q].pc \in {"idle", "listing", "checking", "removing"}
           /\ req'[q].pc \in {"listing", "checking", "removing", "refused"}
           /\ req[q].pc = "idle" => status \in Settled
           /\ UNCHANGED <<status, fin>>
  <2>1. Lost => Lost'
    BY <1>1, <1>5 DEF Lost
  <2>2. \A o \in Rejudges : Opening(o) => Opening(o)'
    BY <1>1, <1>5 DEF Opening
  <2>3. StartedOnce' /\ PassQueuedOnce' /\ PolledWaits'
    BY <1>1, <1>4, <1>5 DEF StartedOnce, PassQueuedOnce, PolledWaits, Settled
  <2>4. HasDriver' /\ NotifierHasSuccessor'
    BY <1>1, <1>5, <2>1, <2>2 DEF HasDriver, Driver, NotifierHasSuccessor
  <2> QED
    BY <2>3, <2>4
<1>6. CASE /\ req[q].pc = "removing" /\ req'[q].pc = "enqueueing"
           /\ status \in Settled /\ status' = "running" /\ fin' = fin
  <2>1. Opening(q)'
    BY <1>6 DEF Opening
  <2>2. StartedOnce' /\ PassQueuedOnce' /\ PolledWaits'
    BY <1>1, <1>3, <1>6 DEF StartedOnce, PassQueuedOnce, PolledWaits
  <2>3. HasDriver' /\ NotifierHasSuccessor'
    BY <2>1 DEF HasDriver, Driver, NotifierHasSuccessor
  <2> QED
    BY <2>2, <2>3
<1>7. CASE /\ Opening(q) /\ req'[q].pc \in {"finalizing", "undoing"}
           /\ UNCHANGED <<status, fin>>
  <2>1. Opening(q)'
    BY <1>7 DEF Opening
  <2>2. StartedOnce' /\ PassQueuedOnce' /\ PolledWaits'
    BY <1>1, <1>4, <1>7 DEF StartedOnce, PassQueuedOnce, PolledWaits, Opening
  <2>3. HasDriver' /\ NotifierHasSuccessor'
    BY <2>1 DEF HasDriver, Driver, NotifierHasSuccessor
  <2> QED
    BY <2>2, <2>3
<1>8. CASE /\ req[q].pc = "finalizing" /\ req'[q].pc = "done"
           /\ status' = status /\ fin' = [fin EXCEPT ![q] = QueuedFin]
  <2>1. fin[q].pc = "absent"
    BY <1>8 DEF PassQueuedOnce
  <2>2. fin'[q].pc = "waiting" /\ \A p \in Passes \ {q} : fin'[p] = fin[p]
    BY <1>2, <1>8 DEF TypeOK, QueuedFin, NoFin
  <2>3. poll.step # "idle" => poll.pass # q
    BY <2>1 DEF PolledWaits
  <2>4. StartedOnce' /\ PassQueuedOnce'
    BY <1>1, <1>2, <1>3, <1>4, <1>8, <2>2, EngineAssumption
       DEF StartedOnce, PassQueuedOnce, Passes
  <2>5. PolledWaits'
    BY <1>1, <1>2, <2>2, <2>3 DEF PolledWaits
  <2>6. HasDriver' /\ NotifierHasSuccessor'
    BY <1>1, <1>2, <2>2, <2>3 DEF HasDriver, Driver, NotifierHasSuccessor
  <2> QED
    BY <2>4, <2>5, <2>6
<1>9. CASE /\ req[q].pc = "undoing" /\ req'[q].pc = "restored"
           /\ status' = IF status = "running" THEN req[q].old ELSE status
           /\ fin' = fin
  <2>1. status' \notin InFlight /\ status' # "none"
    BY <1>2, <1>4, <1>9 DEF InFlight, Settled
  <2>2. StartedOnce' /\ PassQueuedOnce' /\ PolledWaits'
    BY <1>1, <1>3, <1>9, <2>1 DEF StartedOnce, PassQueuedOnce, PolledWaits, InFlight
  <2>3. HasDriver' /\ NotifierHasSuccessor'
    BY <2>1 DEF HasDriver, NotifierHasSuccessor
  <2> QED
    BY <2>2, <2>3
<1>10. CASE /\ Opening(q) /\ req'[q].pc = "crashed"
            /\ UNCHANGED <<status, fin>>
  <2>1. Lost'
    BY <1>10 DEF Lost
  <2>2. StartedOnce' /\ PassQueuedOnce' /\ PolledWaits'
    BY <1>1, <1>4, <1>10 DEF StartedOnce, PassQueuedOnce, PolledWaits, Opening
  <2>3. HasDriver' /\ NotifierHasSuccessor'
    BY <2>1 DEF HasDriver, NotifierHasSuccessor
  <2> QED
    BY <2>2, <2>3
<1> QED
  BY <1>5, <1>6, <1>7, <1>8, <1>9, <1>10, RejudgeShape

LEMMA CrashDriver ==
  ASSUME DriverInv, TypeOK', Crash
  PROVE  DriverInv'
<1> USE DEF DriverInv
<1>1. UNCHANGED <<status, start, req>> /\ poll'.step = "idle"
  BY DEF Crash, runVars, IdlePoll
<1>2. ASSUME NEW p \in Passes
      PROVE  /\ fin[p].pc = "absent" => fin'[p].pc = "absent"
             /\ fin[p].pc = "dropped" => fin'[p].pc = "dropped"
             /\ fin[p].pc \in {"waiting", "failing"} => fin'[p].pc \in {"waiting", "dropped"}
  <2> DEFINE polled == poll.step # "idle" /\ poll.pass = p
  <2>1. fin'[p] = FinAfterCrash(fin[p], polled) /\ fin[p] \in FinalizeJobs
    BY DEF Crash, TypeOK
  <2>2. EndedFin("dropped").pc = "dropped"
    BY DEF EndedFin, NoFin
  <2>3. CASE fin[p].pc = "waiting"
    <3>1. fin'[p] \in {fin[p], [fin[p] EXCEPT !.stalls = 1], EndedFin("dropped")}
      BY <2>1, <2>3 DEF FinAfterCrash
    <3>2. [fin[p] EXCEPT !.stalls = 1].pc = "waiting"
      BY <2>1, <2>3 DEF FinalizeJobs
    <3> QED
      BY <2>2, <2>3, <3>1, <3>2
  <2>4. CASE fin[p].pc = "failing"
    BY <2>1, <2>2, <2>4 DEF FinAfterCrash
  <2>5. CASE fin[p].pc \in {"absent", "dropped"}
    BY <2>1, <2>5 DEF FinAfterCrash
  <2> QED
    BY <2>3, <2>4, <2>5
<1>3. Lost => Lost'
  BY <1>1, <1>2 DEF Lost
<1>4. Driver => Driver' \/ Lost'
  BY <1>1, <1>2 DEF Driver, Lost, Opening
<1>5. HasDriver'
  BY <1>1, <1>3, <1>4 DEF HasDriver
<1>6. StartedOnce' /\ PassQueuedOnce'
  BY <1>1, <1>2 DEF StartedOnce, PassQueuedOnce, Passes
<1>7. PolledWaits' /\ NotifierHasSuccessor'
  BY <1>1 DEF PolledWaits, NotifierHasSuccessor
<1> QED
  BY <1>5, <1>6, <1>7

LEMMA DriverStep == DriverInv /\ [Next]_engineVars => DriverInv'
<1> SUFFICES ASSUME DriverInv, [Next]_engineVars PROVE DriverInv'
  OBVIOUS
<1>1. TypeOK'
  BY TypeStep DEF DriverInv
<1>2. CASE UNCHANGED engineVars
  <2>1. UNCHANGED <<status, start, fin, poll, req>>
    BY <1>2 DEF engineVars
  <2> QED
    BY <1>1, <2>1, DriverFrame
<1>3. CASE Next
  BY <1>1, <1>3, StartDriver, CellDriver, JudgeDriver, FinalizeDriver, PollDriver,
     RejudgeDriver, ReaperDeleteDriver, CrashDriver DEF Next, RunStep
<1> QED
  BY <1>2, <1>3

\* The inductive invariant holds throughout.
THEOREM DriverInvariant == Spec => []DriverInv
BY DriverInit, DriverStep, PTL DEF Spec

\* A run in flight always has something left that will settle it, whatever a
\* stale finalize, the reaper, the re-judges and the crashes do, unless what
\* was to settle it was lost (rejudgeRun, processFinalize, markFinalizeExhausted).
THEOREM RunHasDriver == Spec => []HasDriver
<1>1. DriverInv => HasDriver
  BY DEF DriverInv
<1> QED
  BY <1>1, DriverInvariant, PTL

-----------------------------------------------------------------------------
(***************************************************************************)
(* Only a re-judge that was let in puts a settled run back in flight.      *)
(***************************************************************************)

LEMMA ReopenStep ==
  ASSUME DriverInv, [Next]_engineVars, status \in Settled, status' \in InFlight
  PROVE  Opened' # Opened
<1> USE DEF runVars, judgeVars, finVars, Settled, InFlight
<1>1. start # "idle"
  BY DEF DriverInv, StartedOnce
<1>2. ~UNCHANGED engineVars
  BY DEF engineVars
<1>3. \A c \in Cells : ~Cell(c)
  BY DEF Cell, CellStart, CellAnswer, CellHandOver, CellDone, CellFail, CellFailed,
         MarkRunning
<1>4. \A r \in RowIds : ~Judge(r)
  BY DEF Judge, JudgeStart, JudgeVerdict, JudgeDone, JudgeFail, JudgeFailed
<1>5. \A p \in Passes : ~(StallClock(p) \/ PollCount(p) \/ Handler(p))
  BY DEF StallClock, PollCount, Handler, FinalizeFailed, FinalizeFailedNotify,
         SetRunStatus
<1>6. ~Poll
  BY DEF Poll, PollStalled, PollAsk, PollSettle, PollNotify, PollError,
         SetRunStatus, DriverInv, TypeOK, PollSlots
<1>7. ~(StartCreate \/ StartFlow \/ StartLost \/ Reaper \/ DeleteCheck \/ DeleteRun \/ Crash)
  BY <1>1 DEF StartCreate, StartFlow, StartLost, Reaper, Tick, Reap,
              DeleteCheck, DeleteRun, Crash
<1>8. PICK q \in Rejudges : RejudgeRead(q) \/ Rejudge(q)
  BY <1>2, <1>3, <1>4, <1>5, <1>6, <1>7 DEF Next, RunStep
<1>9. req[q].pc = "removing" /\ req'[q].pc = "enqueueing"
  BY <1>8, RejudgeShape DEF DriverInv
<1> QED
  BY <1>9 DEF Opened, Opening

\* A late cell, a stale finalize job, the reaper or a failed re-judge never put
\* a settled run back in flight (markRunning, reopenForRejudge).
THEOREM ReopensOnlyByRejudge == Spec => OnlyRejudgeReopens
<1>1. DriverInv /\ [Next]_engineVars =>
        [(status \in Settled /\ status' \in InFlight) => Opened' # Opened]_engineVars
  BY ReopenStep
<1> QED
  BY <1>1, DriverInvariant, PTL DEF Spec, OnlyRejudgeReopens

-----------------------------------------------------------------------------
(***************************************************************************)
(* Verdicts.  The outcome finalize is to write stays true, and an undone   *)
(* re-judge changes no row but those its jobs wrote, for three reasons: a  *)
(* job or a request that will write a row's verdict has seen an answer in  *)
(* that row; cells have settled once the first pass is polled; and a       *)
(* request that was let in stays known (Opened).                           *)
(***************************************************************************)

Answered(r) == row[r] \notin {"absent", "error"}
HasRow(c) == \E k \in 1..RowsPerCell : row[<<c, k>>] # "absent"

JobsHaveRows ==
  status # "deleted" =>
    /\ \A r \in RowIds : judge[r].pc # "absent" \/ r \in judgeLate => Answered(r)
    /\ \A c \in Cells : cell[c].pc \in {"written", "handed"} => Answered(<<c, cell[c].row>>)
    /\ \A c \in Cells : cell[c].pc = "done" => HasRow(c)
    /\ \A q \in Rejudges : \A r \in Chosen(q) : Answered(r) /\ req[q].saved[r] # "error"

CellsSettled == poll.step # "idle" /\ poll.pass = First => ChildrenSettled(First)

\* Nothing is unjudged but what the poll is asking about.
AskedAll == poll.step = "asking" /\ Opened = {} => Unjudged \subseteq poll.rows

\* What finalize counted still holds: rows only come, and stay judged.
CountsStand ==
  poll.step = "settle" /\ ~poll.gaveUp /\ Opened = {} /\ Alive =>
    Ready /\ poll.outcome = FinalStatus

\* A row that was cleared is waiting to be put back, or was written again.
UndoKeeps ==
  \A q \in Rejudges :
    Opening(q) /\ Opened = {q} /\ Alive =>
      \A r \in Chosen(q) : row[r] = "unjudged" \/ (r \in rewritten /\ row[r] \in Verdicts)

VerdictInv ==
  /\ JobsHaveRows
  /\ CellsSettled
  /\ AskedAll
  /\ UndoKeeps
  /\ CountsStand
  /\ StallStaysTrue
  /\ RestoredKeepsVerdicts

LEMMA VerdictInit == Init => VerdictInv
<1> SUFFICES ASSUME Init PROVE VerdictInv
  OBVIOUS
<1>1. poll.step = "idle" /\ status = "none"
  BY DEF Init, IdlePoll
<1>2. CellsSettled /\ AskedAll /\ CountsStand /\ StallStaysTrue
  BY <1>1 DEF CellsSettled, AskedAll, CountsStand, StallStaysTrue
<1>3. UndoKeeps /\ RestoredKeepsVerdicts
  BY <1>1 DEF UndoKeeps, RestoredKeepsVerdicts, Undone, Alive
<1>4. JobsHaveRows
  BY DEF Init, JobsHaveRows, NoJob, NoCell, NoReq, Chosen
<1> QED
  BY <1>2, <1>3, <1>4 DEF VerdictInv

\* How a step changes a row: a cell writes one that was absent, a judge job or
\* its handler writes an answered one, a request clears verdicts or puts them back, or
\* all rows go with the run.
RowChange(r) ==
  \/ row'[r] = row[r]
  \/ row[r] = "absent" /\ row'[r] = "error"
  \/ row[r] = "absent" /\ row'[r] = "unjudged" /\ \E c \in Cells : cell[c].pc = "running"
  \/ Answered(r) /\ row'[r] \in Verdicts /\ r \in rewritten'
  \/ \E q \in Rejudges : /\ req[q].pc = "removing" /\ Opening(q)'
                         /\ r \in Chosen(q) /\ row'[r] = "unjudged"
  \/ \E q \in Rejudges : /\ req[q].pc = "undoing" /\ req'[q].pc = "restored"
                         /\ req'[q].saved = req[q].saved
                         /\ row'[r] = Restored(row[r], req[q].saved[r])
  \/ status' = "deleted" /\ row'[r] = "absent"

LEMMA CellRows ==
  ASSUME TypeOK, NEW c \in Cells, Cell(c), NEW r \in RowIds
  PROVE  RowChange(r)
<1> USE DEF TypeOK, RowChange
<1>1. CASE CellAnswer(c)
  BY <1>1 DEF CellAnswer, NextRow
<1>2. CASE CellFailed(c)
  BY <1>2 DEF CellFailed, NextRow
<1>3. CASE ~CellAnswer(c) /\ ~CellFailed(c)
  BY <1>3 DEF Cell, CellStart, CellHandOver, CellDone, CellFail
<1> QED
  BY <1>1, <1>2, <1>3

LEMMA JudgeRows ==
  ASSUME TypeOK, JobsHaveRows, Alive, NEW j \in RowIds, Judge(j), NEW r \in RowIds
  PROVE  RowChange(r)
<1> USE DEF TypeOK, RowChange, Verdicts
<1>1. judge[j].pc # "absent" \/ j \in judgeLate => Answered(j)
  BY DEF JobsHaveRows, Alive
<1>2. CASE JudgeVerdict(j)
  BY <1>1, <1>2 DEF JudgeVerdict
<1>3. CASE JudgeFailed(j)
  BY <1>1, <1>3 DEF JudgeFailed
<1>4. CASE ~JudgeVerdict(j) /\ ~JudgeFailed(j)
  BY <1>4 DEF Judge, JudgeStart, JudgeDone, JudgeFail
<1> QED
  BY <1>2, <1>3, <1>4

LEMMA RejudgeRows ==
  ASSUME TypeOK, NEW q \in Rejudges, RejudgeRead(q) \/ Rejudge(q), NEW r \in RowIds
  PROVE  RowChange(r)
<1> USE DEF RowChange
<1>1. CASE RejudgeReopen(q)
  <2>1. CASE row' = row
    BY <2>1
  <2>2. CASE row' # row
    <3>1. /\ req[q].pc = "removing" /\ SetReq(q, "enqueueing")
          /\ row' = [x \in RowIds |-> IF x \in Chosen(q) THEN "unjudged" ELSE row[x]]
      BY <1>1, <2>2 DEF RejudgeReopen
    <3>2. req'[q].pc = "enqueueing"
      BY <3>1 DEF SetReq, TypeOK, Requests
    <3>3. Opening(q)'
      BY <3>2 DEF Opening
    <3> QED
      BY <3>1, <3>3
  <2> QED
    BY <2>1, <2>2
<1>2. CASE RejudgeRestore(q)
  <2>1. /\ req' = [req EXCEPT ![q] = [NoReq EXCEPT !.pc = "restored", !.saved = req[q].saved]]
        /\ row' = [x \in RowIds |-> Restored(row[x], req[q].saved[x])]
        /\ req[q].pc = "undoing"
    BY <1>2 DEF RejudgeRestore
  <2>2. req'[q].pc = "restored" /\ req'[q].saved = req[q].saved
    BY <2>1 DEF TypeOK, NoReq
  <2> QED
    BY <2>1, <2>2
<1>3. CASE ~RejudgeReopen(q) /\ ~RejudgeRestore(q)
  BY <1>3 DEF RejudgeRead, Rejudge, RejudgeList, RejudgeCheck, RejudgeRemove,
              RejudgeError, RejudgeEnqueue, RejudgeFinalize, RejudgeUndoRemove, RejudgeLost
<1> QED
  BY <1>1, <1>2, <1>3

LEMMA RowsChange ==
  ASSUME TypeOK, JobsHaveRows, Alive, RunStep, NEW r \in RowIds
  PROVE  RowChange(r)
<1>1. CASE \E c \in Cells : Cell(c)
  BY <1>1, CellRows
<1>2. CASE \E j \in RowIds : Judge(j)
  BY <1>2, JudgeRows
<1>3. CASE \E q \in Rejudges : RejudgeRead(q) \/ Rejudge(q)
  BY <1>3, RejudgeRows
<1>4. CASE DeleteRun
  BY <1>4 DEF DeleteRun, RowChange
<1>5. CASE StartFlow \/ StartLost \/ Reaper \/ DeleteCheck \/ Crash
  <2>1. row' = row
    BY <1>5 DEF StartFlow, StartLost, Reaper, Tick, Reap, DeleteCheck, Crash
  <2> QED
    BY <2>1 DEF RowChange
<1>6. CASE Poll \/ \E p \in Passes : StallClock(p) \/ PollCount(p) \/ Handler(p)
  <2>1. row' = row
    BY <1>6 DEF Poll, PollStalled, PollAsk, PollSettle, PollNotify, PollError,
                StallClock, PollCount, Handler, FinalizeFailed, FinalizeFailedNotify
  <2> QED
    BY <2>1 DEF RowChange
<1> QED
  BY <1>1, <1>2, <1>3, <1>4, <1>5, <1>6 DEF RunStep

\* Nothing but a cell's own steps, the start and a crash moves a cell.
LEMMA OnlyCells ==
  ASSUME \/ StartLost \/ Reaper \/ DeleteCheck \/ DeleteRun
         \/ \E j \in RowIds : Judge(j)
         \/ \E q \in Rejudges : RejudgeRead(q) \/ Rejudge(q)
         \/ Poll \/ \E p \in Passes : StallClock(p) \/ PollCount(p) \/ Handler(p)
  PROVE  cell' = cell
<1>1. CASE StartLost \/ Reaper \/ DeleteCheck \/ DeleteRun
  BY <1>1 DEF StartLost, Reaper, Tick, Reap, DeleteCheck, DeleteRun
<1>2. CASE \E j \in RowIds : Judge(j)
  BY <1>2 DEF Judge, JudgeStart, JudgeVerdict, JudgeDone, JudgeFail, JudgeFailed
<1>3. CASE \E q \in Rejudges : RejudgeRead(q) \/ Rejudge(q)
  BY <1>3 DEF RejudgeRead, Rejudge, RejudgeList, RejudgeCheck, RejudgeRemove, RejudgeError,
              RejudgeReopen, RejudgeEnqueue, RejudgeFinalize, RejudgeUndoRemove,
              RejudgeRestore, RejudgeLost
<1>4. CASE Poll \/ \E p \in Passes : StallClock(p) \/ PollCount(p) \/ Handler(p)
  BY <1>4 DEF Poll, PollStalled, PollAsk, PollSettle, PollNotify, PollError,
              StallClock, PollCount, Handler, FinalizeFailed, FinalizeFailedNotify
<1> QED
  BY <1>1, <1>2, <1>3, <1>4

LEMMA RowsStay ==
  ASSUME TypeOK, NEW r \in RowIds, row[r] # "absent", RowChange(r), status' # "deleted",
         \A q \in Rejudges : req[q].saved[r] # "error"
  PROVE  row'[r] # "absent" /\ (Answered(r) => Answered(r)')
<1>1. ASSUME NEW q \in Rejudges, row'[r] = Restored(row[r], req[q].saved[r])
      PROVE  row'[r] # "absent" /\ (Answered(r) => Answered(r)')
  BY <1>1 DEF Restored, Answered
<1> QED
  BY <1>1 DEF RowChange, Verdicts, Answered

\* The rows written since the run was reopened stay known until the next time.
LEMMA RewrittenStay ==
  ASSUME TypeOK, RunStep
  PROVE  \/ rewritten \subseteq rewritten'
         \/ \E q \in Rejudges : req[q].pc = "removing" /\ Opening(q)'
<1>1. CASE \E q \in Rejudges : RejudgeReopen(q)
  <2>1. PICK q \in Rejudges : RejudgeReopen(q)
    BY <1>1
  <2>2. CASE rewritten' = rewritten
    BY <2>2
  <2>3. CASE rewritten' # rewritten
    <3>1. req[q].pc = "removing" /\ SetReq(q, "enqueueing")
      BY <2>1, <2>3 DEF RejudgeReopen
    <3>2. req'[q].pc = "enqueueing"
      BY <3>1 DEF SetReq, TypeOK, Requests
    <3> QED
      BY <3>1, <3>2 DEF Opening
  <2> QED
    BY <2>2, <2>3
<1>2. CASE \E j \in RowIds : Judge(j)
  BY <1>2 DEF Judge, JudgeStart, JudgeVerdict, JudgeDone, JudgeFail, JudgeFailed, judgeVars
<1>3. CASE \E c \in Cells : Cell(c)
  BY <1>3 DEF Cell, CellStart, CellAnswer, CellHandOver, CellDone, CellFail, CellFailed, judgeVars
<1>4. CASE \E q \in Rejudges : (RejudgeRead(q) \/ Rejudge(q)) /\ ~RejudgeReopen(q)
  BY <1>4 DEF RejudgeRead, Rejudge, RejudgeList, RejudgeCheck, RejudgeRemove, RejudgeError,
              RejudgeEnqueue, RejudgeFinalize, RejudgeUndoRemove, RejudgeRestore, RejudgeLost,
              judgeVars
<1>5. CASE StartFlow \/ StartLost \/ Reaper \/ DeleteCheck \/ DeleteRun \/ Crash
  BY <1>5 DEF StartFlow, StartLost, Reaper, Tick, Reap, DeleteCheck, DeleteRun, Crash, judgeVars
<1>6. CASE Poll \/ \E p \in Passes : StallClock(p) \/ PollCount(p) \/ Handler(p)
  BY <1>6 DEF Poll, PollStalled, PollAsk, PollSettle, PollNotify, PollError, StallClock,
              PollCount, Handler, FinalizeFailed, FinalizeFailedNotify, judgeVars
<1> QED
  BY <1>1, <1>2, <1>3, <1>4, <1>5, <1>6 DEF RunStep

\* Where jobs for judging come from: nothing else adds one, or starts one that
\* had ended.
JobChange(r) ==
  \/ /\ judge'[r].pc # "absent" \/ r \in judgeLate' => judge[r].pc # "absent" \/ r \in judgeLate
     /\ Unsettled(r)' => Unsettled(r)
  \/ \E c \in Cells : cell[c].pc = "written" /\ r = <<c, cell[c].row>>
  \/ \E q \in Rejudges : /\ req[q].pc = "enqueueing" /\ r \in Chosen(q)
                         /\ req'[q].pc = "finalizing"

LEMMA CellJobChange ==
  ASSUME TypeOK, NEW c \in Cells, Cell(c), NEW r \in RowIds
  PROVE  JobChange(r)
<1>1. CASE CellHandOver(c)
  <2>1. CASE r = <<c, cell[c].row>>
    BY <1>1, <2>1 DEF CellHandOver, JobChange
  <2>2. CASE r # <<c, cell[c].row>>
    <3>1. judge'[r] = judge[r] /\ judgeLate' = judgeLate
      BY <1>1, <2>2 DEF CellHandOver, AddJudgeJobs
    <3> QED
      BY <3>1 DEF JobChange, Unsettled
  <2> QED
    BY <2>1, <2>2
<1>2. CASE ~CellHandOver(c)
  <2>1. UNCHANGED judgeVars
    BY <1>2 DEF Cell, CellStart, CellAnswer, CellDone, CellFail, CellFailed
  <2> QED
    BY <2>1 DEF JobChange, Unsettled, judgeVars
<1> QED
  BY <1>1, <1>2

LEMMA JudgeJobChange ==
  ASSUME TypeOK, NEW j \in RowIds, Judge(j), NEW r \in RowIds
  PROVE  JobChange(r)
<1>0. judge[j] \in JudgeJobs /\ judge \in [RowIds -> JudgeJobs]
  BY DEF TypeOK
<1>1. CASE JudgeStart(j) \/ JudgeVerdict(j)
  <2>1. \E pc \in {"active", "graded"} : judge' = [judge EXCEPT ![j].pc = pc]
    BY <1>1 DEF JudgeStart, JudgeVerdict
  <2>2. judge[j].pc \in {"waiting", "active"} /\ judgeLate' = judgeLate
    BY <1>1 DEF JudgeStart, JudgeVerdict, judgeVars
  <2>3. r # j => judge'[r] = judge[r]
    BY <1>0, <2>1
  <2> QED
    BY <2>2, <2>3 DEF JobChange, Unsettled
<1>2. CASE JudgeDone(j)
  <2>1. judge'[j].pc = "ended" /\ judge[j].pc = "graded" /\ judgeLate' = judgeLate
    BY <1>0, <1>2 DEF JudgeDone, EndedJob, NoJob
  <2>2. r # j => judge'[r] = judge[r]
    BY <1>0, <1>2 DEF JudgeDone
  <2> QED
    BY <2>1, <2>2 DEF JobChange, Unsettled
<1>3. CASE JudgeFail(j)
  <2>1. judge[j].pc = "active" /\ judgeLate' \subseteq judgeLate \cup {j}
    BY <1>3 DEF JudgeFail
  <2>2. \A i \in RowIds \ {j} : judge'[i] = judge[i]
    BY <1>0, <1>3 DEF JudgeFail
  <2> QED
    BY <2>1, <2>2 DEF JobChange, Unsettled
<1>4. CASE JudgeFailed(j)
  <2>1. judge' = judge /\ judgeLate' \subseteq judgeLate
    BY <1>4 DEF JudgeFailed
  <2> QED
    BY <2>1 DEF JobChange, Unsettled
<1> QED
  BY <1>1, <1>2, <1>3, <1>4 DEF Judge

LEMMA RejudgeJobChange ==
  ASSUME TypeOK, NEW q \in Rejudges, RejudgeRead(q) \/ Rejudge(q), NEW r \in RowIds
  PROVE  JobChange(r)
<1>0. judge \in [RowIds -> JudgeJobs]
  BY DEF TypeOK
<1>1. CASE RejudgeRemove(q) \/ RejudgeUndoRemove(q)
  <2>1. judgeLate' = judgeLate
    BY <1>1 DEF RejudgeRemove, RejudgeUndoRemove
  <2>2. judge' = judge \/ \E x \in RowIds : judge' = [judge EXCEPT ![x] = NoJob]
    BY <1>1 DEF RejudgeRemove, RejudgeUndoRemove, TypeOK, Requests
  <2>3. judge'[r] = judge[r] \/ judge'[r].pc = "absent"
    BY <1>0, <2>2 DEF NoJob
  <2> QED
    BY <2>1, <2>3 DEF JobChange, Unsettled
<1>2. CASE RejudgeEnqueue(q)
  <2>1. CASE judge' = judge
    BY <1>2, <2>1 DEF RejudgeEnqueue, JobChange, Unsettled
  <2>2. CASE judge' # judge
    <3>1. /\ AddJudgeJobs(Chosen(q)) /\ SetReq(q, "finalizing")
          /\ req[q].pc = "enqueueing" /\ judgeLate' = judgeLate
      BY <1>2, <2>2 DEF RejudgeEnqueue
    <3>2. req'[q].pc = "finalizing"
      BY <3>1 DEF SetReq, TypeOK, Requests
    <3>3. r \notin Chosen(q) => judge'[r] = judge[r]
      BY <3>1 DEF AddJudgeJobs
    <3> QED
      BY <3>1, <3>2, <3>3 DEF JobChange, Unsettled
  <2> QED
    BY <2>1, <2>2
<1>3. CASE ~RejudgeRemove(q) /\ ~RejudgeUndoRemove(q) /\ ~RejudgeEnqueue(q)
  <2>1. judge' = judge /\ judgeLate' = judgeLate
    BY <1>3 DEF RejudgeRead, Rejudge, RejudgeList, RejudgeCheck, RejudgeError,
                RejudgeReopen, RejudgeFinalize, RejudgeRestore, RejudgeLost, judgeVars
  <2> QED
    BY <2>1 DEF JobChange, Unsettled
<1> QED
  BY <1>1, <1>2, <1>3

LEMMA JobsChange ==
  ASSUME TypeOK, Alive, RunStep, NEW r \in RowIds
  PROVE  JobChange(r)
<1>1. CASE \E c \in Cells : Cell(c)
  BY <1>1, CellJobChange
<1>2. CASE \E j \in RowIds : Judge(j)
  BY <1>2, JudgeJobChange
<1>3. CASE \E q \in Rejudges : RejudgeRead(q) \/ Rejudge(q)
  BY <1>3, RejudgeJobChange
<1>4. CASE StartFlow \/ StartLost \/ Reaper \/ DeleteCheck \/ DeleteRun
  <2>1. UNCHANGED judgeVars
    BY <1>4 DEF StartFlow, StartLost, Reaper, Tick, Reap, DeleteCheck, DeleteRun
  <2> QED
    BY <2>1 DEF JobChange, Unsettled, judgeVars
<1>5. CASE Crash
  <2>1. judgeLate' = {} /\ judge'[r] = JudgeAfterCrash(judge[r]) /\ judge[r] \in JudgeJobs
    BY <1>5 DEF Crash, TypeOK
  <2>2. judge'[r] = judge[r] \/ (judge[r].pc \in {"active", "graded"} /\ judge'[r].pc = "waiting")
    BY <2>1 DEF JudgeAfterCrash, JudgeJobs
  <2> QED
    BY <2>1, <2>2 DEF JobChange, Unsettled
<1>6. CASE Poll \/ \E p \in Passes : StallClock(p) \/ PollCount(p) \/ Handler(p)
  <2>1. UNCHANGED judgeVars
    BY <1>6 DEF Poll, PollStalled, PollAsk, PollSettle, PollNotify, PollError,
                StallClock, PollCount, Handler, FinalizeFailed, FinalizeFailedNotify
  <2> QED
    BY <2>1 DEF JobChange, Unsettled, judgeVars
<1> QED
  BY <1>1, <1>2, <1>3, <1>4, <1>5, <1>6 DEF RunStep

\* What a cell that has written its row does next, and where it came from.
LEMMA WrittenCells ==
  ASSUME TypeOK, Alive, RunStep, NEW c \in Cells, cell'[c].pc \in {"written", "handed"}
  PROVE  \/ cell'[c].row = cell[c].row /\ cell[c].pc \in {"written", "handed"}
         \/ cell'[c].row \in 1..RowsPerCell /\ row'[<<c, cell'[c].row>>] = "unjudged"
<1>0. cell \in [Cells -> CellJobs]
  BY DEF TypeOK
<1>1. CASE \E d \in Cells : Cell(d)
  <2>1. PICK d \in Cells : Cell(d)
    BY <1>1
  <2>2. CASE d # c
    BY <1>0, <2>1, <2>2 DEF Cell, CellStart, CellAnswer, CellHandOver, CellDone, CellFail, CellFailed
  <2>3. CASE d = c /\ CellAnswer(c)
    <3>1. PICK k \in 1..RowsPerCell :
            /\ row' = [row EXCEPT ![<<c, k>>] = "unjudged"]
            /\ cell' = [cell EXCEPT ![c].pc = "written", ![c].row = k]
      BY <2>3 DEF CellAnswer
    <3>2. cell'[c].row = k
      BY <1>0, <3>1 DEF CellJobs
    <3>3. <<c, k>> \in RowIds /\ row \in [RowIds -> RowStates]
      BY DEF RowIds, TypeOK
    <3>4. row'[<<c, k>>] = "unjudged"
      BY <3>1, <3>3
    <3> QED
      BY <3>2, <3>4
  <2>4. CASE d = c /\ (CellStart(c) \/ CellHandOver(c))
    <3>1. \/ cell' = [cell EXCEPT ![c].pc = "running"]
          \/ cell[c].pc = "written" /\ cell' = [cell EXCEPT ![c].pc = "handed"]
      BY <2>4 DEF CellStart, CellHandOver
    <3>2. \/ cell'[c].pc = "running"
          \/ cell[c].pc = "written" /\ cell'[c].row = cell[c].row
      BY <1>0, <3>1 DEF CellJobs
    <3> QED
      BY <3>2
  <2>5. CASE d = c /\ (CellDone(c) \/ CellFailed(c))
    <3>1. \E pc \in {"done", "failed"} : cell' = [cell EXCEPT ![c] = EndedCell(pc)]
      BY <2>5 DEF CellDone, CellFailed
    <3>2. cell'[c].pc \in {"done", "failed"}
      BY <1>0, <3>1 DEF EndedCell, NoCell
    <3> QED
      BY <3>2
  <2>6. CASE d = c /\ CellFail(c)
    <3>1. cell'[c].pc \in {"failing", "waiting"}
      BY <1>0, <2>6 DEF CellFail, EndedCell, NoCell, QueuedCell
    <3> QED
      BY <3>1
  <2> QED
    BY <2>1, <2>2, <2>3, <2>4, <2>5, <2>6 DEF Cell
<1>2. CASE StartFlow
  BY <1>2 DEF StartFlow, QueuedCell
<1>3. CASE Crash
  <2>1. cell'[c] = CellAfterCrash(cell[c]) /\ cell[c] \in CellJobs
    BY <1>0, <1>3 DEF Crash
  <2>2. CASE cell[c].pc \in {"running", "written", "handed"}
    BY <2>1, <2>2 DEF CellAfterCrash, QueuedCell
  <2>3. CASE cell[c].pc = "failing"
    BY <2>1, <2>3 DEF CellAfterCrash, EndedCell, NoCell
  <2>4. CASE cell[c].pc \notin {"running", "written", "handed", "failing"}
    BY <2>1, <2>4 DEF CellAfterCrash
  <2> QED
    BY <2>2, <2>3, <2>4
<1>4. CASE \/ StartLost \/ Reaper \/ DeleteCheck \/ DeleteRun
           \/ \E j \in RowIds : Judge(j)
           \/ \E q \in Rejudges : RejudgeRead(q) \/ Rejudge(q)
           \/ Poll \/ \E p \in Passes : StallClock(p) \/ PollCount(p) \/ Handler(p)
  <2>1. cell' = cell
    BY <1>4, OnlyCells
  <2> QED
    BY <2>1
<1> QED
  BY <1>1, <1>2, <1>3, <1>4 DEF RunStep

\* What a request remembers of verdicts it read from rows that were there.
LEMMA SavedRows ==
  ASSUME TypeOK, NEW q \in Rejudges, RejudgeRead(q) \/ Rejudge(q),
         NEW r \in RowIds, req'[q].saved[r] # "absent"
  PROVE  \/ req'[q].saved[r] = req[q].saved[r]
         \/ Answered(r) /\ row' = row /\ req'[q].saved[r] # "error"
<1>0. req[q] \in Requests /\ req \in [Rejudges -> Requests]
  BY DEF TypeOK
<1>1. ASSUME NEW pc, EndReq(q, pc) PROVE FALSE
  BY <1>0, <1>1 DEF EndReq, NoReq
<1>2. CASE RejudgeRead(q)
  <2>1. PICK only \in BOOLEAN :
          req' = [req EXCEPT ![q] = [NoReq EXCEPT !.pc = "listing", !.only = only,
                                                  !.old = status]]
    BY <1>2 DEF RejudgeRead
  <2>2. req'[q].saved[r] = "absent"
    BY <1>0, <2>1 DEF NoReq
  <2> QED
    BY <2>2
<1>3. CASE RejudgeList(q)
  <2> DEFINE saved == [x \in RowIds |-> IF x \in Targets(req[q].only) THEN row[x] ELSE "absent"]
  <2>1. /\ req' = [req EXCEPT ![q].pc = "checking", ![q].only = FALSE, ![q].saved = saved]
        /\ row' = row
    BY <1>1, <1>3 DEF RejudgeList
  <2>2. saved[r] # "absent" => Answered(r) /\ saved[r] # "error"
    BY DEF Targets, Answered, Verdicts
  <2> HIDE DEF saved
  <2>3. req'[q].saved = saved
    BY <1>0, <2>1 DEF Requests
  <2> QED
    BY <2>1, <2>2, <2>3
<1>4. CASE RejudgeRestore(q)
  BY <1>0, <1>4 DEF RejudgeRestore, NoReq
<1>5. ASSUME NEW pc, SetReq(q, pc) PROVE req'[q].saved = req[q].saved
  BY <1>0, <1>5 DEF SetReq, Requests
<1>6. ASSUME Undo(q) PROVE req'[q].saved = req[q].saved
  BY <1>0, <1>6 DEF Undo, Requests
<1>7. ASSUME NEW x, req' = [req EXCEPT ![q].left = @ \ {x}]
      PROVE  req'[q].saved = req[q].saved
  BY <1>0, <1>7 DEF Requests
<1>8. CASE RejudgeCheck(q)
  <2>1. req' = [req EXCEPT ![q].pc = "removing", ![q].left = Chosen(q)]
    BY <1>1, <1>8 DEF RejudgeCheck
  <2>2. req'[q].saved = req[q].saved
    BY <1>0, <2>1 DEF Requests
  <2> QED
    BY <2>2
<1>9. CASE RejudgeRemove(q) \/ RejudgeUndoRemove(q)
  BY <1>7, <1>9 DEF RejudgeRemove, RejudgeUndoRemove
<1>10. CASE RejudgeError(q) \/ RejudgeLost(q)
  BY <1>1, <1>10 DEF RejudgeError, RejudgeLost
<1>11. CASE RejudgeReopen(q) \/ RejudgeEnqueue(q) \/ RejudgeFinalize(q)
  BY <1>1, <1>5, <1>6, <1>11 DEF RejudgeReopen, RejudgeEnqueue, RejudgeFinalize
<1> QED
  BY <1>2, <1>3, <1>4, <1>8, <1>9, <1>10, <1>11 DEF Rejudge

\* Only a request's own steps change it.
LEMMA OnlyRequests ==
  ASSUME \/ StartFlow \/ StartLost \/ Reaper \/ DeleteCheck \/ DeleteRun \/ Crash
         \/ \E c \in Cells : Cell(c)
         \/ \E j \in RowIds : Judge(j)
         \/ Poll \/ \E p \in Passes : StallClock(p) \/ PollCount(p) \/ Handler(p)
  PROVE  req' = req
<1>1. CASE StartFlow \/ StartLost \/ Reaper \/ DeleteCheck \/ DeleteRun \/ Crash
  BY <1>1 DEF StartFlow, StartLost, Reaper, Tick, Reap, DeleteCheck, DeleteRun, Crash
<1>2. CASE \E c \in Cells : Cell(c)
  BY <1>2 DEF Cell, CellStart, CellAnswer, CellHandOver, CellDone, CellFail, CellFailed
<1>3. CASE \E j \in RowIds : Judge(j)
  BY <1>3 DEF Judge, JudgeStart, JudgeVerdict, JudgeDone, JudgeFail, JudgeFailed
<1>4. CASE Poll \/ \E p \in Passes : StallClock(p) \/ PollCount(p) \/ Handler(p)
  BY <1>4 DEF Poll, PollStalled, PollAsk, PollSettle, PollNotify, PollError,
              StallClock, PollCount, Handler, FinalizeFailed, FinalizeFailedNotify
<1> QED
  BY <1>1, <1>2, <1>3, <1>4

\* A cell is done only after it handed its row over.
LEMMA DoneCells ==
  ASSUME TypeOK, RunStep, NEW c \in Cells, cell'[c].pc = "done"
  PROVE  cell[c].pc \in {"handed", "done"}
<1>0. cell \in [Cells -> CellJobs]
  BY DEF TypeOK
<1>1. CASE \E d \in Cells : Cell(d)
  <2>1. PICK d \in Cells : Cell(d)
    BY <1>1
  <2>2. CASE d # c
    BY <1>0, <2>1, <2>2 DEF Cell, CellStart, CellAnswer, CellHandOver, CellDone, CellFail, CellFailed
  <2>3. CASE d = c /\ CellDone(c)
    BY <2>3 DEF CellDone
  <2>4. CASE d = c /\ CellFailed(c)
    BY <1>0, <2>4 DEF CellFailed, EndedCell, NoCell
  <2>5. CASE d = c /\ CellFail(c)
    BY <1>0, <2>5 DEF CellFail, EndedCell, NoCell, QueuedCell
  <2>6. CASE d = c /\ (CellStart(c) \/ CellHandOver(c))
    <3>1. \E pc \in {"running", "handed"} : cell' = [cell EXCEPT ![c].pc = pc]
      BY <2>6 DEF CellStart, CellHandOver
    <3>2. cell'[c].pc \in {"running", "handed"}
      BY <1>0, <3>1 DEF CellJobs
    <3> QED
      BY <3>2
  <2>7. CASE d = c /\ CellAnswer(c)
    <3>1. PICK k \in 1..RowsPerCell :
            cell' = [cell EXCEPT ![c].pc = "written", ![c].row = k]
      BY <2>7 DEF CellAnswer
    <3>2. cell'[c].pc = "written"
      BY <1>0, <3>1 DEF CellJobs
    <3> QED
      BY <3>2
  <2> QED
    BY <2>1, <2>2, <2>3, <2>4, <2>5, <2>6, <2>7 DEF Cell
<1>2. CASE StartFlow
  BY <1>2 DEF StartFlow, QueuedCell
<1>3. CASE Crash
  <2>1. cell'[c] = CellAfterCrash(cell[c]) /\ cell[c] \in CellJobs
    BY <1>0, <1>3 DEF Crash
  <2> QED
    BY <2>1 DEF CellAfterCrash, QueuedCell, EndedCell, NoCell
<1>4. CASE ~StartFlow /\ ~Crash /\ \A d \in Cells : ~Cell(d)
  <2>1. cell' = cell
    BY <1>4, OnlyCells DEF RunStep
  <2> QED
    BY <2>1
<1> QED
  BY <1>1, <1>2, <1>3, <1>4

LEMMA JobsHaveRowsStep ==
  ASSUME DriverInv, JobsHaveRows, [Next]_engineVars
  PROVE  JobsHaveRows'
<1> SUFFICES ASSUME status' # "deleted"
             PROVE  /\ \A r \in RowIds : judge'[r].pc # "absent" \/ r \in judgeLate'
                                           => Answered(r)'
                    /\ \A c \in Cells : cell'[c].pc \in {"written", "handed"}
                                           => row'[<<c, cell'[c].row>>] \notin {"absent", "error"}
                    /\ \A c \in Cells : cell'[c].pc = "done" => HasRow(c)'
                    /\ \A q \in Rejudges : \A r \in RowIds :
                         req'[q].saved[r] # "absent" => Answered(r)' /\ req'[q].saved[r] # "error"
  BY DEF JobsHaveRows, Chosen, Answered
<1>0. TypeOK
  BY DEF DriverInv
<1>1. CASE UNCHANGED engineVars
  BY <1>1 DEF engineVars, JobsHaveRows, Chosen, Answered, HasRow
<1>2. CASE StartCreate
  <2>1. status = "none" /\ UNCHANGED <<row, judge, judgeLate, cell, req>>
    BY <1>2 DEF StartCreate, judgeVars, DriverInv, StartedOnce
  <2> QED
    BY <2>1 DEF JobsHaveRows, Chosen, Answered, HasRow
<1>3. CASE Alive /\ RunStep
  <2>0. /\ \A r \in RowIds : judge[r].pc # "absent" \/ r \in judgeLate => Answered(r)
        /\ \A c \in Cells : cell[c].pc \in {"written", "handed"} => Answered(<<c, cell[c].row>>)
        /\ \A c \in Cells : cell[c].pc = "done" => HasRow(c)
        /\ \A q \in Rejudges : \A r \in RowIds :
             req[q].saved[r] # "absent" => Answered(r) /\ req[q].saved[r] # "error"
    BY <1>3 DEF JobsHaveRows, Alive, Chosen
  <2>1. ASSUME NEW r \in RowIds, row[r] # "absent"
        PROVE  row'[r] # "absent" /\ (Answered(r) => Answered(r)')
    <3>1. \A q \in Rejudges : req[q].saved[r] # "error"
      BY <2>0
    <3>2. RowChange(r)
      BY <1>0, <1>3, RowsChange
    <3> QED
      BY <1>0, <2>1, <3>1, <3>2, RowsStay
  <2>2. ASSUME NEW r \in RowIds, Answered(r) PROVE Answered(r)'
    BY <2>1, <2>2 DEF Answered
  <2>3. ASSUME NEW r \in RowIds, judge'[r].pc # "absent" \/ r \in judgeLate'
        PROVE  Answered(r)'
    <3>1. JobChange(r)
      BY <1>0, <1>3, JobsChange
    <3>2. Answered(r)
      BY <2>0, <2>3, <3>1 DEF JobChange, Chosen
    <3> QED
      BY <2>2, <3>2
  <2>4. ASSUME NEW c \in Cells, cell'[c].pc \in {"written", "handed"}
        PROVE  row'[<<c, cell'[c].row>>] \notin {"absent", "error"}
    <3>1. CASE cell'[c].row = cell[c].row /\ cell[c].pc \in {"written", "handed"}
      <4>1. PICK k \in 1..RowsPerCell : k = cell[c].row
        BY <1>0 DEF TypeOK, CellJobs
      <4>2. <<c, k>> \in RowIds
        BY DEF RowIds
      <4>3. Answered(<<c, k>>)
        BY <2>0, <3>1, <4>1
      <4>4. Answered(<<c, k>>)'
        BY <2>2, <4>2, <4>3
      <4> QED
        BY <3>1, <4>1, <4>4 DEF Answered
    <3> QED
      BY <1>0, <1>3, <2>4, <3>1, WrittenCells
  <2>5. ASSUME NEW c \in Cells, cell'[c].pc = "done"
        PROVE  HasRow(c)'
    <3>1. HasRow(c)
      <4>1. cell[c].pc \in {"handed", "done"}
        BY <1>0, <1>3, <2>5, DoneCells
      <4>2. cell[c].row \in 1..RowsPerCell
        BY <1>0 DEF TypeOK, CellJobs
      <4> QED
        BY <2>0, <4>1, <4>2 DEF HasRow, Answered
    <3>2. PICK k \in 1..RowsPerCell : row[<<c, k>>] # "absent"
      BY <3>1 DEF HasRow
    <3>3. <<c, k>> \in RowIds
      BY DEF RowIds
    <3>4. row'[<<c, k>>] # "absent"
      BY <2>1, <3>2, <3>3
    <3> QED
      BY <3>4 DEF HasRow
  <2>6. ASSUME NEW q \in Rejudges, NEW r \in RowIds, req'[q].saved[r] # "absent"
        PROVE  Answered(r)' /\ req'[q].saved[r] # "error"
    <3>1. CASE req'[q].saved[r] = req[q].saved[r]
      BY <2>0, <2>2, <2>6, <3>1
    <3>2. CASE RejudgeRead(q) \/ Rejudge(q)
      <4>1. CASE Answered(r) /\ row' = row /\ req'[q].saved[r] # "error"
        BY <4>1 DEF Answered
      <4> QED
        BY <1>0, <2>6, <3>1, <3>2, <4>1, SavedRows
    <3>3. CASE \E o \in Rejudges \ {q} : RejudgeRead(o) \/ Rejudge(o)
      <4>1. req'[q] = req[q]
        BY <1>0, <3>3, RejudgeShape
      <4> QED
        BY <3>1, <4>1
    <3>4. CASE \A o \in Rejudges : ~(RejudgeRead(o) \/ Rejudge(o))
      <4>1. req' = req
        BY <1>3, <3>4, OnlyRequests DEF RunStep
      <4> QED
        BY <3>1, <4>1
    <3> QED
      BY <3>2, <3>3, <3>4
  <2> QED
    BY <2>3, <2>4, <2>5, <2>6
<1> QED
  BY <1>1, <1>2, <1>3 DEF Next

\* Cells that have settled stay so, whatever else happens to the run.
LEMMA SettledCellsStay ==
  ASSUME TypeOK, RunStep, ~StartFlow, NEW c \in Cells,
         cell[c].pc \in {"done", "failing", "failed"}
  PROVE  cell'[c].pc \in {"done", "failing", "failed"}
<1>0. cell \in [Cells -> CellJobs]
  BY DEF TypeOK
<1>1. CASE Crash
  <2>1. cell'[c] = CellAfterCrash(cell[c])
    BY <1>1 DEF Crash
  <2>2. CASE cell[c].pc = "failing"
    BY <2>1, <2>2 DEF CellAfterCrash, EndedCell, NoCell
  <2>3. CASE cell[c].pc # "failing"
    BY <2>1, <2>3 DEF CellAfterCrash
  <2> QED
    BY <2>2, <2>3
<1>2. CASE \E d \in Cells : Cell(d)
  <2>1. PICK d \in Cells : Cell(d)
    BY <1>2
  <2>2. CASE d # c
    BY <1>0, <2>1, <2>2 DEF Cell, CellStart, CellAnswer, CellHandOver, CellDone, CellFail, CellFailed
  <2>3. CASE d = c
    <3>1. cell' = [cell EXCEPT ![c] = EndedCell("failed")]
      BY <2>1, <2>3 DEF Cell, CellStart, CellAnswer, CellHandOver, CellDone, CellFail, CellFailed
    <3> QED
      BY <1>0, <3>1 DEF EndedCell, NoCell
  <2> QED
    BY <2>2, <2>3
<1>3. CASE ~Crash /\ \A d \in Cells : ~Cell(d)
  <2>1. cell' = cell
    BY <1>3, OnlyCells DEF RunStep
  <2> QED
    BY <2>1
<1> QED
  BY <1>1, <1>2, <1>3

\* What becomes of the finalize worker's slot: it stays as it is, and so does
\* the clock of its job; or it is freed, or takes its next step.
PollChange ==
  \/ poll' = poll /\ (poll.step # "idle" => fin'[poll.pass] = fin[poll.pass])
  \/ poll'.step = "idle"
  \/ poll.step # "idle" /\ poll'.step = "notify" /\ poll'.pass = poll.pass
  \/ /\ poll.step = "idle" /\ ChildrenSettled(poll'.pass) /\ UNCHANGED <<row, cell>>
     /\ \/ poll'.step = "stalled"
        \/ poll'.step = "settle" /\ ~poll'.gaveUp /\ Ready /\ poll'.outcome = FinalStatus
  \/ /\ poll.step = "stalled" /\ poll'.step = "asking" /\ poll'.pass = poll.pass
     /\ poll'.rows = Unjudged /\ row' = row
  \/ /\ poll.step = "asking" /\ poll'.step = "settle" /\ poll'.gaveUp /\ poll'.pass = poll.pass
     /\ ~JudgePending(poll.rows) \/ fin[poll.pass].idle = 2
     /\ UNCHANGED <<row, judge, fin>>

LEMMA PollsChange ==
  ASSUME DriverInv, RunStep
  PROVE  PollChange
<1> USE DEF PollChange
<1>0. /\ fin \in [Passes -> FinalizeJobs] /\ poll \in PollSlots
      /\ poll.step # "idle" => fin[poll.pass].pc = "waiting"
      /\ poll.pass \in Passes
  BY DEF DriverInv, TypeOK, PolledWaits, PollSlots
<1>1. CASE StartFlow
  <2>1. poll' = poll /\ fin' = [fin EXCEPT ![First] = QueuedFin] /\ start = "created"
    BY <1>1 DEF StartFlow
  <2>2. poll.step # "idle" => poll.pass # First
    BY <1>0, <2>1 DEF DriverInv, StartedOnce
  <2> QED
    BY <1>0, <2>1, <2>2
<1>2. CASE \E q \in Rejudges : RejudgeRead(q) \/ Rejudge(q)
  <2>1. PICK q \in Rejudges : RejudgeRead(q) \/ Rejudge(q)
    BY <1>2
  <2>2. /\ poll' = poll
        /\ fin' = fin \/ (req[q].pc = "finalizing" /\ fin' = [fin EXCEPT ![q] = QueuedFin])
    BY <2>1, RejudgeShape DEF DriverInv
  <2>3. CASE fin' = fin
    BY <2>2, <2>3
  <2>4. CASE req[q].pc = "finalizing" /\ fin' = [fin EXCEPT ![q] = QueuedFin]
    <3>1. fin[q].pc = "absent"
      BY <2>4 DEF DriverInv, PassQueuedOnce
    <3>2. poll.step # "idle" => poll.pass # q
      BY <1>0, <3>1
    <3> QED
      BY <1>0, <2>2, <2>4, <3>2
  <2> QED
    BY <2>2, <2>3, <2>4
<1>3. CASE \/ StartLost \/ Reaper \/ DeleteCheck \/ DeleteRun
           \/ \E c \in Cells : Cell(c)
           \/ \E j \in RowIds : Judge(j)
  <2>1. UNCHANGED finVars
    BY <1>3 DEF StartLost, Reaper, Tick, Reap, DeleteCheck, DeleteRun,
                Cell, CellStart, CellAnswer, CellHandOver, CellDone, CellFail, CellFailed,
                Judge, JudgeStart, JudgeVerdict, JudgeDone, JudgeFail, JudgeFailed
  <2> QED
    BY <2>1 DEF finVars
<1>4. CASE Crash
  BY <1>4 DEF Crash, IdlePoll
<1>5. CASE \E p \in Passes : StallClock(p) \/ Handler(p)
  <2>1. PICK p \in Passes : StallClock(p) \/ Handler(p)
    BY <1>5
  <2>2. poll' = poll
    BY <2>1 DEF StallClock, Handler, FinalizeFailed, FinalizeFailedNotify
  <2>3. poll.step # "idle" => poll.pass # p
    BY <1>0, <2>1 DEF StallClock, Handler, FinalizeFailed, FinalizeFailedNotify
  <2>4. \A o \in Passes \ {p} : fin'[o] = fin[o]
    BY <1>0, <2>1 DEF StallClock, Handler, FinalizeFailed, FinalizeFailedNotify
  <2> QED
    BY <1>0, <2>2, <2>3, <2>4
<1>6. CASE \E p \in Passes : PollCount(p)
  <2>1. PICK p \in Passes : PollCount(p)
    BY <1>6
  <2>2. /\ poll.step = "idle" /\ ChildrenSettled(p) /\ UNCHANGED <<row, cell>>
    BY <2>1 DEF PollCount
  <2>3. \/ poll' = poll
        \/ poll' = IdlePoll
        \/ Ready /\ poll' = [IdlePoll EXCEPT !.step = "settle", !.pass = p, !.outcome = FinalStatus]
        \/ \E n : poll' = [IdlePoll EXCEPT !.step = "stalled", !.pass = p, !.count = n]
    BY <2>1 DEF PollCount, Requeue
  <2>4. CASE poll' = poll \/ poll' = IdlePoll
    BY <2>2, <2>4 DEF IdlePoll
  <2>5. CASE Ready /\ poll' = [IdlePoll EXCEPT !.step = "settle", !.pass = p, !.outcome = FinalStatus]
    <3>1. poll'.step = "settle" /\ ~poll'.gaveUp /\ poll'.pass = p /\ poll'.outcome = FinalStatus
      BY <2>5 DEF IdlePoll
    <3> QED
      BY <2>2, <2>5, <3>1
  <2>6. CASE \E n : poll' = [IdlePoll EXCEPT !.step = "stalled", !.pass = p, !.count = n]
    <3>1. poll'.step = "stalled" /\ poll'.pass = p
      BY <2>6 DEF IdlePoll
    <3> QED
      BY <2>2, <3>1
  <2> QED
    BY <2>3, <2>4, <2>5, <2>6
<1>7. CASE Poll
  <2>1. CASE PollStalled
    <3>1. poll' = [poll EXCEPT !.step = "asking", !.rows = Unjudged] /\ row' = row
          /\ poll.step = "stalled"
      BY <2>1 DEF PollStalled
    <3>2. poll'.step = "asking" /\ poll'.rows = Unjudged /\ poll'.pass = poll.pass
      BY <1>0, <3>1 DEF PollSlots
    <3> QED
      BY <3>1, <3>2
  <2>2. CASE PollAsk
    <3>1. \/ poll' = IdlePoll
          \/ /\ poll' = [IdlePoll EXCEPT !.step = "settle", !.pass = poll.pass, !.gaveUp = TRUE]
             /\ ~JudgePending(poll.rows) \/ fin[poll.pass].idle = 2
             /\ fin' = fin
      BY <2>2 DEF PollAsk, Requeue
    <3>2. poll.step = "asking" /\ UNCHANGED <<row, judge>>
      BY <2>2 DEF PollAsk, judgeVars
    <3>3. IdlePoll.step = "idle"
      BY DEF IdlePoll
    <3>4. ASSUME poll' = [IdlePoll EXCEPT !.step = "settle", !.pass = poll.pass, !.gaveUp = TRUE]
          PROVE  poll'.step = "settle" /\ poll'.gaveUp /\ poll'.pass = poll.pass
      BY <3>4 DEF IdlePoll
    <3> QED
      BY <3>1, <3>2, <3>3, <3>4
  <2>3. CASE PollSettle
    BY <2>3 DEF PollSettle, IdlePoll
  <2>4. CASE PollNotify \/ PollError
    BY <2>4 DEF PollNotify, PollError, IdlePoll
  <2> QED
    BY <1>7, <2>1, <2>2, <2>3, <2>4 DEF Poll
<1> QED
  BY <1>1, <1>2, <1>3, <1>4, <1>5, <1>6, <1>7 DEF RunStep

LEMMA CellsSettledStep ==
  ASSUME DriverInv, CellsSettled, RunStep
  PROVE  CellsSettled'
<1> SUFFICES ASSUME poll'.step # "idle", poll'.pass = First
             PROVE  \A c \in Cells : cell'[c].pc \in {"done", "failing", "failed"}
  BY DEF CellsSettled, ChildrenSettled
<1>0. TypeOK /\ PollChange
  BY PollsChange DEF DriverInv
<1>1. CASE poll.step = "idle"
  <2>1. ChildrenSettled(First) /\ cell' = cell
    BY <1>0, <1>1 DEF PollChange
  <2> QED
    BY <2>1 DEF ChildrenSettled
<1>2. CASE poll.step # "idle"
  <2>1. poll.pass = First
    BY <1>0, <1>2 DEF PollChange
  <2>2. \A c \in Cells : cell[c].pc \in {"done", "failing", "failed"}
    BY <1>2, <2>1 DEF CellsSettled, ChildrenSettled
  <2>3. start # "created"
    BY <1>2, <2>1 DEF DriverInv, StartedOnce, PolledWaits
  <2>4. ~StartFlow
    BY <2>3 DEF StartFlow
  <2> QED
    BY <1>0, <2>2, <2>4, SettledCellsStay
<1> QED
  BY <1>1, <1>2

\* A request that was let in stays known.
LEMMA OpenedGrows ==
  ASSUME TypeOK, RunStep
  PROVE  Opened \subseteq Opened'
<1>1. CASE \E q \in Rejudges : RejudgeRead(q) \/ Rejudge(q)
  <2>1. PICK q \in Rejudges : RejudgeRead(q) \/ Rejudge(q)
    BY <1>1
  <2>2. \A o \in Rejudges \ {q} : req'[o] = req[o]
    BY <2>1, RejudgeShape
  <2>3. q \in Opened => q \in Opened'
    BY <2>1, RejudgeShape DEF Opened, Opening
  <2> QED
    BY <2>2, <2>3 DEF Opened, Opening
<1>2. CASE \A q \in Rejudges : ~(RejudgeRead(q) \/ Rejudge(q))
  <2>1. req' = req
    BY <1>2, OnlyRequests DEF RunStep
  <2> QED
    BY <2>1 DEF Opened, Opening
<1> QED
  BY <1>1, <1>2

\* Before any re-judge was let in, it is the first pass that is polled.
LEMMA FirstIsPolled ==
  ASSUME DriverInv, Opened = {}, poll.step # "idle"
  PROVE  poll.pass = First
<1>1. poll.pass \in Passes /\ fin[poll.pass].pc = "waiting"
  BY DEF DriverInv, TypeOK, PollSlots, PolledWaits
<1>2. ASSUME poll.pass \in Rejudges PROVE FALSE
  BY <1>1, <1>2 DEF DriverInv, PassQueuedOnce, Opened
<1> QED
  BY <1>1, <1>2 DEF Passes

\* While the first pass is polled, and no re-judge was let in, rows are given
\* verdicts or turn out to be errors, and jobs only end.
Quiet(r) ==
  \/ row'[r] = row[r]
  \/ row[r] = "absent" /\ row'[r] = "error"
  \/ Answered(r) /\ row'[r] \in Verdicts

LEMMA QuietRows ==
  ASSUME DriverInv, VerdictInv, Alive, RunStep, Opened' = {}, poll.step # "idle",
         NEW r \in RowIds
  PROVE  /\ Unsettled(r)' => Unsettled(r)
         /\ status' # "deleted" => Quiet(r)
         /\ status' = "deleted" => Quiet(r) \/ row'[r] = "absent"
<1>0. TypeOK /\ JobsHaveRows /\ Opened = {}
  BY OpenedGrows DEF DriverInv, VerdictInv
<1>1. \A c \in Cells : cell[c].pc \in {"done", "failing", "failed"}
  BY <1>0, FirstIsPolled DEF VerdictInv, CellsSettled, ChildrenSettled
<1>2. \A q \in Rejudges : ~Opening(q) /\ ~Opening(q)'
  BY <1>0 DEF Opened
<1>3. RowChange(r) /\ JobChange(r)
  BY <1>0, RowsChange, JobsChange
<1>4. Unsettled(r)' => Unsettled(r)
  BY <1>1, <1>2, <1>3 DEF JobChange, Opening
<1>5. Quiet(r) \/ (status' = "deleted" /\ row'[r] = "absent")
  BY <1>1, <1>2, <1>3 DEF RowChange, Quiet, Opening
<1> QED
  BY <1>4, <1>5

LEMMA ReadyKept ==
  ASSUME TypeOK, Ready, \A r \in RowIds : Quiet(r)
  PROVE  Ready'
<1>1. Produced \subseteq Produced' /\ Judged' = Produced'
  BY DEF Ready, Produced, Judged, Quiet, Verdicts, TypeOK, Answered
<1>2. IsFiniteSet(Produced')
  <2>1. IsFiniteSet(1..RowsPerCell)
    BY EngineAssumption, FS_Interval
  <2>2. IsFiniteSet(RowIds)
    BY <2>1, EngineAssumption, FS_Product DEF RowIds
  <2> QED
    BY <2>2, FS_Subset DEF Produced
<1>3. Cardinality(Produced) <= Cardinality(Produced')
  BY <1>1, <1>2, FS_Subset
<1>4. Cardinality(Produced) \in Nat /\ Cardinality(Produced') \in Nat
  BY CountIsNat DEF Produced
<1>5. Cardinality(Cells) \in Nat
  BY EngineAssumption, FS_CardinalityType
<1> QED
  BY <1>1, <1>3, <1>4, <1>5 DEF Ready

\* The outcome stays what the rows say: a new row is an error, an error stays
\* one, and an answer never becomes one.
LEMMA OutcomeKept ==
  ASSUME TypeOK, Ready, \A r \in RowIds : Quiet(r)
  PROVE  FinalStatus' = FinalStatus
<1>1. /\ Produced \subseteq Produced' /\ Errored \subseteq Errored'
      /\ Produced' \ Produced \subseteq Errored' /\ Errored' \cap Produced \subseteq Errored
  BY DEF Produced, Errored, Quiet, Answered, Verdicts, TypeOK
<1>2. Errored \subseteq Produced /\ Errored' \subseteq Produced'
  BY DEF Produced, Errored
<1>3. CASE Produced # {}
  <2>1. Errored = Produced <=> Errored' = Produced'
    BY <1>1, <1>2
  <2> QED
    BY <1>1, <1>3, <2>1 DEF FinalStatus
<1>4. CASE Produced = {}
  <2>1. Cardinality(Cells) \in Nat /\ Cardinality({}) = 0
    BY EngineAssumption, FS_CardinalityType, FS_EmptySet
  <2>2. Cardinality(Cells) = 0
    BY <1>4, <2>1 DEF Ready
  <2>3. Cells = {}
    BY <2>2, EngineAssumption, FS_EmptySet
  <2> QED
    BY <2>3 DEF FinalStatus
<1> QED
  BY <1>3, <1>4

LEMMA ReadyStep ==
  ASSUME DriverInv, VerdictInv, Alive, RunStep
  PROVE  CountsStand'
<1> SUFFICES ASSUME poll'.step = "settle", ~poll'.gaveUp, Opened' = {}, Alive'
             PROVE  Ready' /\ poll'.outcome = FinalStatus'
  BY DEF CountsStand
<1>0. TypeOK /\ PollChange /\ Opened = {}
  BY OpenedGrows, PollsChange DEF DriverInv
<1>1. CASE poll' = poll
  <2>1. Ready /\ poll.outcome = FinalStatus
    BY <1>0, <1>1 DEF VerdictInv, CountsStand
  <2>2. \A r \in RowIds : Quiet(r)
    BY <1>1, QuietRows DEF Alive
  <2> QED
    BY <1>0, <1>1, <2>1, <2>2, ReadyKept, OutcomeKept
<1>2. CASE Ready /\ row' = row /\ poll'.outcome = FinalStatus
  BY <1>2 DEF Ready, Produced, Judged, Errored, FinalStatus
<1> QED
  BY <1>0, <1>1, <1>2 DEF PollChange

LEMMA AskedStep ==
  ASSUME DriverInv, VerdictInv, Alive, RunStep
  PROVE  AskedAll'
<1> SUFFICES ASSUME poll'.step = "asking", Opened' = {}
             PROVE  Unjudged' \subseteq poll'.rows
  BY DEF AskedAll
<1>0. PollChange /\ Opened = {}
  BY OpenedGrows, PollsChange DEF DriverInv
<1>1. CASE poll' = poll
  <2>1. Unjudged \subseteq poll.rows
    BY <1>0, <1>1 DEF VerdictInv, AskedAll
  <2>2. Unjudged' \subseteq Unjudged
    BY <1>1, QuietRows DEF Unjudged, Quiet, Verdicts
  <2> QED
    BY <1>1, <2>1, <2>2
<1>2. CASE poll'.rows = Unjudged /\ row' = row
  BY <1>2 DEF Unjudged
<1> QED
  BY <1>0, <1>1, <1>2 DEF PollChange

LEMMA StallStep ==
  ASSUME DriverInv, VerdictInv, Alive, RunStep
  PROVE  StallStaysTrue'
<1> SUFFICES ASSUME poll'.step = "settle", poll'.gaveUp, Opened' = {},
                    fin'[poll'.pass].idle < 2,
                    NEW r \in RowIds, row'[r] = "unjudged"
             PROVE  ~Unsettled(r)'
  BY DEF StallStaysTrue, Unjudged
<1>0. PollChange /\ Opened = {}
  BY OpenedGrows, PollsChange DEF DriverInv
<1>1. CASE poll' = poll
  <2>1. fin'[poll.pass] = fin[poll.pass]
    <3>1. poll.step = "settle" /\ poll.step # "idle"
      BY <1>1
    <3> QED
      BY <1>0, <1>1, <3>1 DEF PollChange
  <2>2. \A x \in Unjudged : ~Unsettled(x)
    BY <1>0, <1>1, <2>1 DEF VerdictInv, StallStaysTrue
  <2>3. row[r] = "unjudged" /\ (Unsettled(r)' => Unsettled(r))
    BY <1>1, QuietRows DEF Quiet, Verdicts
  <2> QED
    BY <2>2, <2>3 DEF Unjudged
<1>2. CASE /\ poll.step = "asking" /\ poll'.pass = poll.pass
           /\ ~JudgePending(poll.rows) \/ fin[poll.pass].idle = 2
           /\ UNCHANGED <<row, judge, fin>>
  <2>1. ~JudgePending(poll.rows)
    BY <1>2
  <2>2. r \in poll.rows
    BY <1>0, <1>2 DEF VerdictInv, AskedAll, Unjudged
  <2>3. ~Unsettled(r)
    BY <2>1, <2>2 DEF JudgePending
  <2> QED
    BY <1>2, <2>3 DEF Unsettled
<1> QED
  BY <1>0, <1>1, <1>2 DEF PollChange

\* What a step makes of a request that was let in, or was undone.
LEMMA LetInChange ==
  ASSUME TypeOK, RunStep, NEW q \in Rejudges, Opening(q)' \/ req'[q].pc = "restored"
  PROVE  \/ req'[q] = req[q]
         \/ /\ req'[q].saved = req[q].saved /\ Opening(q)'
            /\ \A r \in Chosen(q) : row'[r] = "unjudged"
         \/ req'[q].saved = req[q].saved /\ Opening(q) /\ Opening(q)' /\ row' = row
         \/ /\ req'[q].saved = req[q].saved /\ Opening(q) /\ req'[q].pc = "restored"
            /\ \A r \in RowIds : row'[r] = Restored(row[r], req[q].saved[r])
<1> USE DEF Opening
<1>0. req[q] \in Requests /\ req \in [Rejudges -> Requests]
  BY DEF TypeOK
<1>1. CASE \E o \in Rejudges \ {q} : RejudgeRead(o) \/ Rejudge(o)
  BY <1>1, RejudgeShape
<1>2. CASE \A o \in Rejudges : ~(RejudgeRead(o) \/ Rejudge(o))
  BY <1>2, OnlyRequests DEF RunStep
<1>3. CASE RejudgeRead(q) \/ Rejudge(q)
  <2>1. ASSUME NEW pc, EndReq(q, pc) PROVE req'[q].pc = pc
    BY <1>0, <2>1 DEF EndReq, NoReq
  <2>2. ASSUME NEW pc, SetReq(q, pc) PROVE req'[q].pc = pc /\ req'[q].saved = req[q].saved
    BY <1>0, <2>2 DEF SetReq, Requests
  <2>3. ASSUME Undo(q) PROVE req'[q].pc = "undoing" /\ req'[q].saved = req[q].saved
    BY <1>0, <2>3 DEF Undo, Requests
  <2>4. CASE req[q].pc \in {"idle", "listing", "checking"}
    BY <1>3, <2>4, RejudgeShape
  <2>5. CASE req[q].pc = "removing"
    <3>a. RejudgeRemove(q) \/ RejudgeError(q) \/ RejudgeReopen(q)
      BY <1>3, <2>5
         DEF RejudgeRead, Rejudge, RejudgeList, RejudgeCheck, RejudgeEnqueue,
             RejudgeFinalize, RejudgeUndoRemove, RejudgeRestore, RejudgeLost
    <3>b. ~RejudgeError(q)
      BY <2>1 DEF RejudgeError
    <3>c. ASSUME RejudgeRemove(q) PROVE FALSE
      <4>1. PICK x : req' = [req EXCEPT ![q].left = @ \ {x}]
        BY <3>c DEF RejudgeRemove
      <4>2. req'[q].pc = req[q].pc
        BY <1>0, <4>1 DEF Requests
      <4> QED
        BY <2>5, <4>2
    <3>1. RejudgeReopen(q) /\ SetReq(q, "enqueueing")
      BY <2>1, <3>a, <3>b, <3>c DEF RejudgeReopen
    <3>2. row' = [r \in RowIds |-> IF r \in Chosen(q) THEN "unjudged" ELSE row[r]]
      BY <2>1, <3>1 DEF RejudgeReopen
    <3> QED
      BY <2>2, <3>1, <3>2 DEF Chosen
  <2>6. CASE RejudgeEnqueue(q) \/ RejudgeFinalize(q)
    BY <2>1, <2>2, <2>3, <2>6 DEF RejudgeEnqueue, RejudgeFinalize
  <2>7. CASE RejudgeUndoRemove(q)
    <3>1. PICK x : req' = [req EXCEPT ![q].left = @ \ {x}]
      BY <2>7 DEF RejudgeUndoRemove
    <3>2. req'[q].saved = req[q].saved /\ req'[q].pc = req[q].pc
      BY <1>0, <3>1 DEF Requests
    <3> QED
      BY <2>7, <3>2 DEF RejudgeUndoRemove
  <2>8. CASE RejudgeRestore(q)
    <3>1. req'[q].saved = req[q].saved /\ req'[q].pc = "restored"
      BY <1>0, <2>8 DEF RejudgeRestore, NoReq
    <3> QED
      BY <2>8, <3>1 DEF RejudgeRestore
  <2>9. CASE RejudgeLost(q)
    BY <2>1, <2>9 DEF RejudgeLost
  <2> QED
    BY <1>3, <2>4, <2>5, <2>6, <2>7, <2>8, <2>9
       DEF RejudgeRead, Rejudge, RejudgeList, RejudgeCheck, RejudgeRemove, RejudgeError, RejudgeReopen
<1> QED
  BY <1>1, <1>2, <1>3

LEMMA UndoStep ==
  ASSUME DriverInv, VerdictInv, Alive, RunStep
  PROVE  UndoKeeps' /\ RestoredKeepsVerdicts'
<1> DEFINE Again(r) == r \in rewritten /\ row[r] \in Verdicts
<1> SUFFICES ASSUME NEW q \in Rejudges, Opened' = {q}, Alive',
                    Opening(q)' \/ req'[q].pc = "restored",
                    NEW r \in RowIds, req'[q].saved[r] # "absent"
             PROVE  /\ Opening(q)' => row'[r] = "unjudged" \/ Again(r)'
                    /\ req'[q].pc = "restored" => row'[r] = req'[q].saved[r] \/ Again(r)'
  BY DEF UndoKeeps, RestoredKeepsVerdicts, Undone, Chosen
<1>0. TypeOK /\ JobsHaveRows /\ ~(Opening(q)' /\ req'[q].pc = "restored")
  BY DEF DriverInv, VerdictInv, Opening
<1>1. Opened \subseteq {q}
  BY <1>0, OpenedGrows
<1>2. req[q].saved[r] # "absent" =>
        /\ Opening(q) => row[r] = "unjudged" \/ Again(r)
        /\ req[q].pc = "restored" => row[r] = req[q].saved[r] \/ Again(r)
  <2>1. ASSUME Opening(q) \/ req[q].pc = "restored" PROVE Opened = {q}
    BY <1>1, <2>1 DEF Opened
  <2> QED
    BY <2>1 DEF VerdictInv, UndoKeeps, RestoredKeepsVerdicts, Undone, Chosen
<1>3. CASE req'[q] = req[q]
  <2>1. ASSUME NEW o \in Rejudges, req[o].pc = "removing", Opening(o)' PROVE FALSE
    <3>1. o = q
      BY <2>1 DEF Opened
    <3> QED
      BY <1>3, <2>1, <3>1 DEF Opening
  <2>2. ASSUME NEW o \in Rejudges, req[o].pc = "undoing", req'[o].pc = "restored" PROVE FALSE
    <3>1. o = q
      BY <2>2 DEF Opened
    <3> QED
      BY <1>3, <2>2, <3>1
  <2>3. Answered(r) /\ status' # "deleted"
    BY <1>0, <1>3 DEF JobsHaveRows, Chosen, Alive
  <2>4. row'[r] = row[r] \/ (row'[r] \in Verdicts /\ r \in rewritten')
    BY <1>0, <2>1, <2>2, <2>3, RowsChange DEF RowChange, Answered
  <2>5. rewritten \subseteq rewritten'
    BY <1>0, <2>1, RewrittenStay
  <2> QED
    BY <1>2, <1>3, <2>4, <2>5 DEF Opening
<1>4. CASE /\ req'[q].saved = req[q].saved /\ Opening(q)'
           /\ \A x \in Chosen(q) : row'[x] = "unjudged"
  BY <1>0, <1>4 DEF Chosen
<1>5. CASE req'[q].saved = req[q].saved /\ Opening(q) /\ Opening(q)' /\ row' = row
  <2>1. ASSUME NEW o \in Rejudges, req[o].pc = "removing", Opening(o)' PROVE FALSE
    <3>1. o = q
      BY <2>1 DEF Opened
    <3> QED
      BY <1>5, <2>1, <3>1 DEF Opening
  <2>2. rewritten \subseteq rewritten'
    BY <1>0, <2>1, RewrittenStay
  <2> QED
    BY <1>0, <1>2, <1>5, <2>2
<1>6. CASE /\ req'[q].saved = req[q].saved /\ Opening(q) /\ req'[q].pc = "restored"
           /\ \A x \in RowIds : row'[x] = Restored(row[x], req[q].saved[x])
  <2>1. ASSUME NEW o \in Rejudges, req[o].pc = "removing", Opening(o)' PROVE FALSE
    <3>1. o = q
      BY <2>1 DEF Opened
    <3> QED
      BY <1>6, <2>1, <3>1 DEF Opening
  <2>2. rewritten \subseteq rewritten'
    BY <1>0, <2>1, RewrittenStay
  <2> QED
    BY <1>0, <1>2, <1>6, <2>2 DEF Restored, Verdicts
<1> QED
  BY <1>0, <1>3, <1>4, <1>5, <1>6, LetInChange

LEMMA VerdictStep == DriverInv /\ VerdictInv /\ [Next]_engineVars => VerdictInv'
<1> SUFFICES ASSUME DriverInv, VerdictInv, [Next]_engineVars PROVE VerdictInv'
  OBVIOUS
<1>1. JobsHaveRows'
  BY JobsHaveRowsStep DEF VerdictInv
<1>2. CASE Alive /\ RunStep
  <2>1. CellsSettled'
    BY <1>2, CellsSettledStep DEF VerdictInv
  <2> QED
    BY <1>1, <1>2, <2>1, ReadyStep, AskedStep, StallStep, UndoStep DEF VerdictInv
<1>3. CASE StartCreate
  <2>1. UNCHANGED <<poll, req>> /\ start = "idle" /\ status = "none"
    BY <1>3 DEF StartCreate, finVars, DriverInv, StartedOnce
  <2>2. \A p \in Passes : fin[p].pc = "absent"
    BY <2>1 DEF DriverInv, StartedOnce, PassQueuedOnce, Passes
  <2>3. poll'.step = "idle"
    BY <2>1, <2>2 DEF DriverInv, PolledWaits, TypeOK, PollSlots
  <2>4. \A q \in Rejudges : req'[q].pc = "idle"
    BY <2>1 DEF DriverInv, PassQueuedOnce
  <2> QED
    BY <1>1, <2>3, <2>4 DEF VerdictInv, CellsSettled, AskedAll, CountsStand, StallStaysTrue,
                            UndoKeeps, RestoredKeepsVerdicts, Undone, Opening
<1>4. CASE UNCHANGED engineVars
  <2>1. UNCHANGED <<status, row, cell, judge, rewritten, fin, poll, req>>
    BY <1>4 DEF engineVars
  <2>2. CellsSettled' /\ AskedAll' /\ UndoKeeps' /\ RestoredKeepsVerdicts'
    BY <2>1 DEF VerdictInv, CellsSettled, ChildrenSettled, AskedAll, Opened, Opening, Unjudged,
                UndoKeeps, RestoredKeepsVerdicts, Undone, Chosen, Alive
  <2>3. CountsStand'
    BY <2>1 DEF VerdictInv, CountsStand, Ready, Produced, Judged, Errored, FinalStatus,
                Opened, Opening, Alive
  <2>4. StallStaysTrue'
    BY <2>1 DEF VerdictInv, StallStaysTrue, Unsettled, Unjudged, Opened, Opening
  <2> QED
    BY <1>1, <2>2, <2>3, <2>4 DEF VerdictInv
<1> QED
  BY <1>2, <1>3, <1>4 DEF Next

LEMMA VerdictInvariant == Spec => []VerdictInv
BY VerdictInit, VerdictStep, DriverInvariant, PTL DEF Spec

\* The outcome that the first finalize job is to write fits the rows, all of
\* them judged, and every cell has a row or has failed for good, for any number
\* of cells, attempts and deaths: whatever rows are written beside it, and
\* although a row may stand in for another cell's (processFinalize, startRun).
THEOREM OutcomeFits == Spec => []OutcomeStaysTrue
<1>1. ASSUME DriverInv, VerdictInv PROVE OutcomeStaysTrue
  <2> SUFFICES ASSUME poll.step = "settle", ~poll.gaveUp, Opened = {}, Alive
               PROVE  /\ \A c \in Cells : HasRow(c) \/ cell[c].pc \in {"failing", "failed"}
                      /\ Unjudged = {}
                      /\ poll.outcome = FinalStatus
    BY DEF OutcomeStaysTrue, HasRow
  <2>1. Ready /\ poll.outcome = FinalStatus
    BY <1>1 DEF VerdictInv, CountsStand
  <2>2. Unjudged = {}
    BY <2>1 DEF Ready, Produced, Judged, Unjudged, Verdicts
  <2>3. \A c \in Cells : cell[c].pc \in {"done", "failing", "failed"}
    BY <1>1, FirstIsPolled DEF VerdictInv, CellsSettled, ChildrenSettled
  <2>4. \A c \in Cells : cell[c].pc = "done" => HasRow(c)
    BY <1>1 DEF VerdictInv, JobsHaveRows, Alive
  <2> QED
    BY <2>1, <2>2, <2>3, <2>4
<1> QED
  BY <1>1, DriverInvariant, VerdictInvariant, PTL

\* When finalize fails a run as stalled, before the longest wait is over, no row
\* that is still unjudged has a judge job that will still run; the handler of a
\* job that failed may write such a row meanwhile (pending-judge-jobs.ts).
THEOREM StalledForGood == Spec => []StallStaysTrue
<1>1. VerdictInv => StallStaysTrue
  BY DEF VerdictInv
<1> QED
  BY <1>1, VerdictInvariant, PTL

\* After a re-judge was undone, each row it had chosen says what it said before,
\* unless a judge job or the handler of its last failure wrote it since the run
\* was reopened (restoreAfterFailedRejudge).
THEOREM UndoneRestores == Spec => []RestoredKeepsVerdicts
<1>1. VerdictInv => RestoredKeepsVerdicts
  BY DEF VerdictInv
<1> QED
  BY <1>1, VerdictInvariant, PTL

-----------------------------------------------------------------------------
(***************************************************************************)
(* The engine implements the run's lifecycle: every step of the workers,   *)
(* the requests, the reaper and the crashes is a step of RunLifecycle or   *)
(* leaves what it shows unchanged.  This is the safety part of             *)
(* RefinesLifecycle; its liveness part is left to TLC.                     *)
(***************************************************************************)

\* A delete request has seen the run settled, so the run has begun.
DeletesBegunRun == status \in {"none", "queued"} => del # "checked"

LifecycleInv == DriverInv /\ DeletesBegunRun

-----------------------------------------------------------------------------
(***************************************************************************)
(* What a step does to the run's status.  A step that changes it never     *)
(* loses a driver.                                                         *)
(***************************************************************************)

StatusStep ==
  \/ status' = status
  \/ status = "none" /\ status' = "queued" /\ Driver' /\ (Lost' <=> Lost)
  \/ status = "queued" /\ status' = "running" /\ (Driver' <=> Driver) /\ (Lost' <=> Lost)
  \/ status \in InFlight \cup Settled /\ status' \in Settled /\ (Lost' <=> Lost)
  \/ status \in Settled /\ status' = "running" /\ Driver' /\ (Lost' <=> Lost)
  \/ status \in InFlight \cup Settled /\ status' = "deleted" /\ del = "checked"
       /\ (Lost' <=> Lost)

\* Lost and Driver are about the start, the finalize jobs and the requests.
LEMMA DriverUnchanged ==
  UNCHANGED <<start, fin, req>> => (Driver' <=> Driver) /\ (Lost' <=> Lost)
BY DEF Driver, Lost, Opening

LEMMA DriverBoolean ==
  /\ Driver \in BOOLEAN /\ Driver' \in BOOLEAN
  /\ Lost \in BOOLEAN /\ Lost' \in BOOLEAN
  /\ (Driver' <=> Driver) => Driver' = Driver
  /\ (Lost' <=> Lost) => Lost' = Lost
<1>1. Driver \in BOOLEAN /\ Driver' \in BOOLEAN
  BY DEF Driver
<1>2. Lost \in BOOLEAN /\ Lost' \in BOOLEAN
  BY DEF Lost
<1> QED
  BY <1>1, <1>2

LEMMA AliveStatus ==
  ASSUME TypeOK, Alive
  PROVE  status \in InFlight \cup Settled
BY DEF TypeOK, Alive

LEMMA CellStatus ==
  ASSUME NEW c \in Cells, Cell(c)
  PROVE  StatusStep
<1> USE DEF finVars, runVars, judgeVars
<1>1. UNCHANGED <<start, fin, req>>
  BY DEF Cell, CellStart, CellAnswer, CellHandOver, CellDone, CellFail, CellFailed
<1>2. status' = status \/ (status = "queued" /\ status' = "running")
  BY DEF Cell, CellStart, CellAnswer, CellHandOver, CellDone, CellFail, CellFailed,
         MarkRunning
<1> QED
  BY <1>1, <1>2, DriverUnchanged DEF StatusStep

LEMMA PassStatus ==
  ASSUME DriverInv, Alive, NEW p \in Passes,
         StallClock(p) \/ PollCount(p) \/ Handler(p)
  PROVE  StatusStep
<1> USE DEF finVars, runVars, judgeVars, StatusStep
<1>1. CASE StallClock(p) \/ PollCount(p) \/ FinalizeFailedNotify(p)
  BY <1>1 DEF StallClock, PollCount, FinalizeFailedNotify
<1>2. CASE FinalizeFailed(p)
  <2>1. CASE status' = SetRunStatus(status, "failed") /\ fin' = [fin EXCEPT ![p] = EndedFin("exhausted")]
    <3>1. fin[p].pc = "failing" /\ fin'[p].pc = "exhausted"
          /\ (\A o \in Passes \ {p} : fin'[o] = fin[o]) /\ UNCHANGED <<start, req>>
      BY <1>2, <2>1 DEF FinalizeFailed, EndedFin, NoFin, DriverInv, TypeOK
    <3>2. Lost' <=> Lost
      BY <3>1 DEF Lost
    <3>3. status' = "failed" /\ status \in InFlight \cup Settled
      BY <2>1, AliveStatus DEF SetRunStatus, DriverInv
    <3> QED
      BY <3>2, <3>3 DEF Settled
  <2>2. CASE status' = status
    BY <2>2
  <2> QED
    BY <1>2, <2>1, <2>2 DEF FinalizeFailed
<1> QED
  BY <1>1, <1>2 DEF Handler

LEMMA PollStatus ==
  ASSUME TypeOK, Alive, Poll
  PROVE  StatusStep
<1> USE DEF finVars, runVars, judgeVars, StatusStep
<1>1. CASE PollSettle
  <2>1. UNCHANGED <<start, fin, req>> /\ status' \in Settled
    BY <1>1 DEF PollSettle, SetRunStatus, TypeOK, PollSlots
  <2> QED
    BY <2>1, DriverUnchanged, AliveStatus
<1>2. CASE PollStalled \/ PollAsk \/ PollNotify \/ PollError
  BY <1>2 DEF PollStalled, PollAsk, PollNotify, PollError
<1> QED
  BY <1>1, <1>2 DEF Poll

LEMMA RejudgeStatus ==
  ASSUME DriverInv, Alive, NEW q \in Rejudges, RejudgeRead(q) \/ Rejudge(q)
  PROVE  StatusStep
<1> USE DEF StatusStep
<1>0. TypeOK
  BY DEF DriverInv
<1>1. UNCHANGED start /\ \A o \in Rejudges \ {q} : req'[o] = req[o]
  BY <1>0, RejudgeShape
<1>2. CASE /\ req[q].pc = "removing" /\ req'[q].pc = "enqueueing"
           /\ status \in Settled /\ status' = "running" /\ fin' = fin
  <2>1. Lost' <=> Lost
    BY <1>1, <1>2 DEF Lost
  <2>2. Driver'
    BY <1>2 DEF Driver, Opening
  <2> QED
    BY <1>2, <2>1, <2>2
<1>3. CASE /\ req[q].pc = "undoing" /\ req'[q].pc = "restored"
           /\ status' = IF status = "running" THEN req[q].old ELSE status
           /\ fin' = fin
  <2>1. Lost' <=> Lost
    BY <1>1, <1>3 DEF Lost
  <2>2. status' = status \/ status' \in Settled
    BY <1>0, <1>3 DEF TypeOK, Requests
  <2> QED
    BY <1>0, <2>1, <2>2, AliveStatus
<1>4. CASE status' = status
  BY <1>4
<1> QED
  BY <1>0, <1>2, <1>3, <1>4, RejudgeShape

LEMMA OtherStatus ==
  ASSUME DriverInv, Alive,
         StartFlow \/ StartLost \/ Reaper \/ DeleteCheck \/ DeleteRun \/ Crash
  PROVE  StatusStep
<1> USE DEF StatusStep, finVars, runVars, judgeVars
<1>1. CASE StartFlow \/ StartLost \/ DeleteCheck \/ Crash
  BY <1>1 DEF StartFlow, StartLost, DeleteCheck, Crash
<1>2. CASE Reaper
  <2>1. UNCHANGED <<start, fin, req>> /\ (status' = status \/ status' = "failed")
    BY <1>2 DEF Reaper, Tick, Reap
  <2> QED
    BY <2>1, DriverUnchanged, AliveStatus DEF DriverInv, Settled
<1>3. CASE DeleteRun
  <2>1. UNCHANGED <<start, fin, req>> /\ status' = "deleted" /\ del = "checked"
    BY <1>3 DEF DeleteRun
  <2> QED
    BY <2>1, DriverUnchanged, AliveStatus DEF DriverInv
<1> QED
  BY <1>1, <1>2, <1>3

LEMMA CreateStatus ==
  ASSUME DriverInv, StartCreate
  PROVE  StatusStep
<1>1. status = "none" /\ status' = "queued" /\ start' = "created"
      /\ UNCHANGED <<fin, req>> /\ start = "idle"
  BY DEF StartCreate, DriverInv, StartedOnce, finVars
<1>2. Driver' /\ (Lost' <=> Lost)
  BY <1>1 DEF Driver, Lost
<1> QED
  BY <1>1, <1>2 DEF StatusStep

LEMMA StatusShape ==
  ASSUME DriverInv, [Next]_engineVars
  PROVE  StatusStep /\ (Alive \/ StartCreate \/ UNCHANGED engineVars)
<1>1. CASE UNCHANGED engineVars
  BY <1>1 DEF engineVars, StatusStep
<1>2. CASE StartCreate
  BY <1>2, CreateStatus
<1>3. CASE Alive /\ RunStep
  <2>1. ASSUME NEW r \in RowIds, Judge(r) PROVE status' = status
    BY <2>1 DEF Judge, JudgeStart, JudgeVerdict, JudgeDone, JudgeFail, JudgeFailed,
                runVars
  <2> QED
    BY <1>3, <2>1, CellStatus, PassStatus, PollStatus, RejudgeStatus, OtherStatus
       DEF RunStep, DriverInv, StatusStep
<1> QED
  BY <1>1, <1>2, <1>3 DEF Next

-----------------------------------------------------------------------------
(***************************************************************************)
(* What was lost stays lost.                                               *)
(***************************************************************************)

LEMMA LostStays ==
  ASSUME DriverInv, Lost, [Next]_engineVars
  PROVE  Lost'
<1> USE DEF DriverInv, finVars, runVars, judgeVars
<1>1. ASSUME UNCHANGED <<start, fin, req>> PROVE Lost'
  BY <1>1, DriverUnchanged
<1>2. CASE UNCHANGED engineVars
  BY <1>1, <1>2 DEF engineVars
<1>3. CASE StartCreate \/ StartFlow \/ StartLost
  <2>1. start \in {"idle", "created"} /\ UNCHANGED req
    BY <1>3 DEF StartCreate, StartFlow, StartLost
  <2>2. \A p \in Passes : fin[p].pc = "dropped" => fin'[p] = fin[p]
    BY <1>3, <2>1 DEF StartCreate, StartFlow, StartLost, StartedOnce, TypeOK
  <2> QED
    BY <2>1, <2>2 DEF Lost
<1>4. ASSUME NEW c \in Cells, Cell(c) PROVE Lost'
  BY <1>1, <1>4 DEF Cell, CellStart, CellAnswer, CellHandOver, CellDone, CellFail,
                    CellFailed
<1>5. ASSUME NEW r \in RowIds, Judge(r) PROVE Lost'
  BY <1>1, <1>5 DEF Judge, JudgeStart, JudgeVerdict, JudgeDone, JudgeFail, JudgeFailed
<1>6. CASE Reaper \/ DeleteCheck \/ DeleteRun
  BY <1>1, <1>6 DEF Reaper, Tick, Reap, DeleteCheck, DeleteRun
<1>7. ASSUME NEW p \in Passes, StallClock(p) \/ PollCount(p) \/ Handler(p) PROVE Lost'
  <2>1. /\ UNCHANGED <<start, req>> /\ fin[p].pc \in {"waiting", "failing", "exhausted"}
        /\ \A o \in Passes \ {p} : fin'[o] = fin[o]
    BY <1>7 DEF StallClock, PollCount, Requeue, UseAttempt, Handler, FinalizeFailed,
                FinalizeFailedNotify, TypeOK
  <2> QED
    BY <2>1 DEF Lost
<1>8. CASE Poll
  <2>1. poll.step # "idle" /\ UNCHANGED <<start, req>>
    BY <1>8 DEF Poll, PollStalled, PollAsk, PollSettle, PollNotify, PollError
  <2>2. fin[poll.pass].pc = "waiting"
    BY <2>1 DEF PolledWaits
  <2>3. \A o \in Passes \ {poll.pass} : fin'[o] = fin[o]
    BY <1>8 DEF Poll, PollStalled, PollAsk, PollSettle, PollNotify, PollError,
                Requeue, UseAttempt, TypeOK
  <2> QED
    BY <2>1, <2>2, <2>3 DEF Lost
<1>9. ASSUME NEW q \in Rejudges, RejudgeRead(q) \/ Rejudge(q) PROVE Lost'
  <2>1. UNCHANGED start /\ \A o \in Rejudges : req[o].pc = "crashed" => req'[o].pc = "crashed"
    BY <1>9, RejudgeShape DEF Opening
  <2>2. \/ fin' = fin
        \/ req[q].pc = "finalizing" /\ fin' = [fin EXCEPT ![q] = QueuedFin]
    BY <1>9, RejudgeShape
  <2>3. \A p \in Passes : fin[p].pc = "dropped" => fin'[p] = fin[p]
    BY <2>2 DEF PassQueuedOnce, TypeOK
  <2> QED
    BY <2>1, <2>3 DEF Lost
<1>10. CASE Crash
  <2>1. UNCHANGED <<start, req>>
    BY <1>10 DEF Crash
  <2>2. \A p \in Passes : fin[p].pc = "dropped" => fin'[p] = fin[p]
    BY <1>10 DEF Crash, FinAfterCrash
  <2> QED
    BY <2>1, <2>2 DEF Lost
<1> QED
  BY <1>2, <1>3, <1>4, <1>5, <1>6, <1>7, <1>8, <1>9, <1>10 DEF Next, RunStep

-----------------------------------------------------------------------------
(***************************************************************************)
(* The refinement.                                                         *)
(***************************************************************************)

LEMMA LifecycleInvInit == Init => LifecycleInv
BY DriverInit DEF Init, LifecycleInv, DeletesBegunRun

LEMMA LifecycleInvStep == LifecycleInv /\ [Next]_engineVars => LifecycleInv'
<1> SUFFICES ASSUME LifecycleInv, [Next]_engineVars PROVE LifecycleInv'
  OBVIOUS
<1> USE DEF LifecycleInv
<1>1. DriverInv' /\ StatusStep
  BY DriverStep, StatusShape
<1>2. del' = del \/ status' \in Settled \/ status' = "deleted"
  BY DEF Next, RunStep, engineVars, StartCreate, StartFlow, StartLost,
         Cell, CellStart, CellAnswer, CellHandOver, CellDone, CellFail, CellFailed,
         Judge, JudgeStart, JudgeVerdict, JudgeDone, JudgeFail, JudgeFailed,
         StallClock, PollCount, Handler, FinalizeFailed, FinalizeFailedNotify,
         Poll, PollStalled, PollAsk, PollSettle, PollNotify, PollError,
         Reaper, Tick, Reap, Rejudge, RejudgeRead, RejudgeList,
         RejudgeCheck, RejudgeRemove, RejudgeReopen, RejudgeEnqueue,
         RejudgeFinalize, RejudgeUndoRemove, RejudgeRestore, RejudgeLost, RejudgeError,
         DeleteCheck, DeleteRun, Crash, runVars
<1>3. status' \in {"none", "queued"} => status \in {"none", "queued"}
  BY <1>1 DEF StatusStep, Settled
<1>4. DeletesBegunRun'
  BY <1>2, <1>3 DEF DeletesBegunRun, Settled
<1> QED
  BY <1>1, <1>4

LEMMA LifecycleInit == Init => Lifecycle!Init
<1> SUFFICES ASSUME Init PROVE Lifecycle!Init
  OBVIOUS
<1>1. ~Driver /\ ~Lost
  BY DEF Init, Driver, Lost, Opening, NoFin, NoReq
<1> QED
  BY <1>1 DEF Init, Lifecycle!Init

LEMMA LifecycleStep ==
  ASSUME LifecycleInv, LifecycleInv', [Next]_engineVars
  PROVE  [Lifecycle!Next]_(Lifecycle!vars)
<1> USE DEF Lifecycle!InFlight, Lifecycle!Settled, InFlight, Settled
<1>0. /\ Driver \in BOOLEAN /\ Driver' \in BOOLEAN
      /\ Lost \in BOOLEAN /\ Lost' \in BOOLEAN
      /\ (Driver' <=> Driver) => Driver' = Driver
      /\ (Lost' <=> Lost) => Lost' = Lost
  BY DriverBoolean
<1>1. StatusStep /\ (Alive \/ StartCreate \/ UNCHANGED engineVars)
  BY StatusShape DEF LifecycleInv
<1>2. Lost => Lost'
  BY LostStays DEF LifecycleInv
<1>3. CASE status' = status
  <2>1. CASE UNCHANGED engineVars
    <3>1. UNCHANGED <<start, fin, req>>
      BY <2>1 DEF engineVars
    <3> QED
      BY <1>0, <1>3, <3>1, DriverUnchanged DEF Lifecycle!vars
  <2>2. CASE StartCreate
    BY <1>3, <2>2 DEF StartCreate, LifecycleInv, DriverInv, StartedOnce
  <2>3. CASE Alive
    <3>1. status \in InFlight \cup Settled
      BY <2>3, AliveStatus DEF LifecycleInv, DriverInv
    <3>2. CASE Lost' /\ ~Lost
      BY <1>0, <1>3, <3>1, <3>2 DEF Lifecycle!Next, Lifecycle!Lose
    <3>3. CASE (Lost' <=> Lost) /\ status \in Settled
      BY <1>0, <1>3, <3>3 DEF Lifecycle!Next, Lifecycle!Resettle
    <3>4. CASE Lost /\ Lost'
      BY <1>0, <1>3, <3>4 DEF Lifecycle!Next, Lifecycle!Adopt
    <3>5. CASE ~Lost /\ ~Lost' /\ status \in InFlight
      <4>1. Driver /\ Driver'
        BY <1>3, <3>5 DEF LifecycleInv, DriverInv, HasDriver
      <4> QED
        BY <1>0, <1>3, <3>5, <4>1 DEF Lifecycle!vars
    <3> QED
      BY <1>2, <3>1, <3>2, <3>3, <3>4, <3>5
  <2> QED
    BY <1>1, <2>1, <2>2, <2>3
<1>4. CASE status = "none" /\ status' = "queued" /\ Driver' /\ (Lost' <=> Lost)
  BY <1>0, <1>4 DEF Lifecycle!Next, Lifecycle!Create
<1>5. CASE status = "queued" /\ status' = "running" /\ (Driver' <=> Driver) /\ (Lost' <=> Lost)
  BY <1>0, <1>5 DEF Lifecycle!Next, Lifecycle!Begin
<1>6. CASE status \in InFlight \cup Settled /\ status' \in Settled /\ (Lost' <=> Lost)
  BY <1>0, <1>6 DEF Lifecycle!Next, Lifecycle!Settle, Lifecycle!Resettle
<1>7. CASE status \in Settled /\ status' = "running" /\ Driver' /\ (Lost' <=> Lost)
  BY <1>0, <1>7 DEF Lifecycle!Next, Lifecycle!Reopen
<1>8. CASE status \in InFlight \cup Settled /\ status' = "deleted" /\ del = "checked"
             /\ (Lost' <=> Lost)
  BY <1>0, <1>8 DEF LifecycleInv, DeletesBegunRun, Lifecycle!Next, Lifecycle!Delete
<1> QED
  BY <1>1, <1>3, <1>4, <1>5, <1>6, <1>7, <1>8 DEF StatusStep

\* The run engine implements the lifecycle of a run: a run in flight keeps a
\* driver unless it is lost, only a re-judge reopens a settled run, and a run
\* that has not begun is not deleted (runs.service.ts, the run workers).
THEOREM EngineImplementsLifecycle == Spec => Lifecycle!Spec
<1>1. Spec => []LifecycleInv
  BY LifecycleInvInit, LifecycleInvStep, PTL DEF Spec
<1>2. LifecycleInv /\ LifecycleInv' /\ [Next]_engineVars => [Lifecycle!Next]_(Lifecycle!vars)
  BY LifecycleStep
<1> QED
  BY <1>1, <1>2, LifecycleInit, PTL DEF Spec, Lifecycle!Spec
=============================================================================
