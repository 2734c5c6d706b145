------------------------------ MODULE RunEngine ------------------------------
(***************************************************************************)
(* One server-side evaluation run: the row that holds its status, the      *)
(* result rows its cells produce, and the jobs that drive it, spread over  *)
(* the API process (start, re-judge, delete) and the worker process (cell, *)
(* judge and finalize jobs and the stale-run reaper).                      *)
(*                                                                         *)
(* Every step is one database statement or transaction, or one queue       *)
(* operation: whatever happens between two awaits of the code may happen   *)
(* between two steps here.  Durations are abstracted to the two windows    *)
(* the code compares against: see StallClock and Tick.                     *)
(***************************************************************************)
EXTENDS Integers, FiniteSets

CONSTANTS
  Cells,           \* the run's grid x example cells
  Rejudges,        \* re-judge requests that may be made for the run
  First,           \* the first judging pass, as opposed to a re-judge's
  CellAttempts,    \* EVAL_CELL_JOB_ATTEMPTS
  JudgeAttempts,   \* EVAL_JUDGE_JOB_ATTEMPTS
  FinalizeAttempts, \* attempts of finalizeJobOpts
  RowsPerCell,     \* bound: result rows one cell can write
  MaxCrashes,      \* bound: worker deaths in one behaviour
  MayDelete,       \* bound: whether somebody asks to delete the run
  TimePasses       \* bound: whether the stall and the stale window may pass

ASSUME EngineAssumption ==
  /\ IsFiniteSet(Cells)
  /\ First \notin Rejudges
  /\ CellAttempts \in Nat \ {0}
  /\ JudgeAttempts \in Nat \ {0}
  /\ FinalizeAttempts \in Nat \ {0}
  /\ MayDelete \in BOOLEAN /\ TimePasses \in BOOLEAN
  /\ MaxCrashes \in Nat
  \* One row per attempt, one per attempt repeated after a crash, and the
  \* error row: the bound is never reached.
  /\ RowsPerCell \in Nat /\ RowsPerCell > CellAttempts + MaxCrashes

VARIABLES
  status,     \* experiment_runs.status, or "none" / "deleted" without a row
  fresh,      \* the run was created, started or given a result since the
              \* reaper's cutoff
  mailed,     \* a finalize job handed the run-finished email to notify(), whose
              \* dedupe key is the run: there is never a second one
  start,      \* where the request that starts the run is
  row,        \* eval_results: what each row says about its verdict
  cell,       \* cell jobs
  judge,      \* judge jobs; at most one per row, its id being judge-<row>
  judgeLate,  \* rows whose judge job failed for good, with the worker's
              \* 'failed' handler still to run
  rewritten,  \* history: rows that a judge job, or the handler of its last
              \* failure, wrote since the run was created or reopened
  fin,        \* finalize jobs, one per pass
  poll,       \* the finalize worker's one slot (concurrency 1)
  req,        \* re-judge requests
  del,        \* where the delete request is
  crashes     \* process deaths so far

engineVars == <<status, fresh, mailed, start, row, cell, judge, judgeLate,
                rewritten, fin, poll, req, del, crashes>>

RowIds   == Cells \X (1..RowsPerCell)
Passes   == Rejudges \cup {First}
InFlight == {"queued", "running"}
Settled  == {"succeeded", "failed"}

\* A row is unjudged while error_message, score and reason are all null;
\* unscored means a reason without a score, from the judge; callFailed, that
\* the reason is "judge call failed".
Verdicts    == {"scored", "unscored", "callFailed"}
RowStates   == {"absent", "unjudged", "error"} \cup Verdicts
CellStates  == {"absent", "waiting", "running", "written", "handed", "done",
                "failing", "failed"}
\* ended: completed or failed, the row says which.
JudgeStates == {"absent", "waiting", "active", "graded", "ended"}
\* failing and exhausted: in the worker's 'failed' handler, before and after
\* it settles the run.  dropped and unmailed: the job is gone before that,
\* or before the email.
FinStates   == {"absent", "waiting", "failing", "exhausted", "done", "dropped",
                "unmailed"}
PollSteps   == {"idle", "stalled", "asking", "settle", "notify"}
ReqStates   == {"idle", "listing", "checking", "removing", "enqueueing",
                "finalizing", "undoing", "done", "refused", "restored",
                "crashed"}

\* tries: attempts that failed, of a job that has some left.
CellJobs     == [pc : CellStates, tries : 0..(CellAttempts - 1), row : 1..RowsPerCell]
JudgeJobs    == [pc : JudgeStates, tries : 0..(JudgeAttempts - 1)]
FinalizeJobs == [pc : FinStates, tries : 0..(FinalizeAttempts - 1), stalls : 0..1,
                 last : Int, idle : 0..2]
PollSlots    == [step : PollSteps, pass : Passes, outcome : Settled,
                 gaveUp : BOOLEAN, count : Int, rows : SUBSET RowIds]
Requests     == [pc : ReqStates, only : BOOLEAN, old : Settled,
                 saved : [RowIds -> RowStates], left : SUBSET RowIds]

NoJob      == [pc |-> "absent", tries |-> 0]
QueuedJob  == [pc |-> "waiting", tries |-> 0]
NoCell     == [pc |-> "absent", tries |-> 0, row |-> 1]
QueuedCell == [pc |-> "waiting", tries |-> 0, row |-> 1]
NoFin      == [pc |-> "absent", tries |-> 0, stalls |-> 0,
               last |-> -1, idle |-> 0]
QueuedFin  == [NoFin EXCEPT !.pc = "waiting"]
IdlePoll   == [step |-> "idle", pass |-> First, outcome |-> "failed",
               gaveUp |-> FALSE, count |-> 0, rows |-> {}]
\* What is kept of a job or a request that ended: only that it did.
EndedCell(pc) == [NoCell EXCEPT !.pc = pc]
EndedJob      == [NoJob EXCEPT !.pc = "ended"]
EndedFin(pc)  == [NoFin EXCEPT !.pc = pc]

NoReq      == [pc |-> "idle", only |-> FALSE, old |-> "failed",
               saved |-> [r \in RowIds |-> "absent"], left |-> {}]

Init ==
  /\ status = "none"
  /\ fresh = TRUE
  /\ mailed = FALSE
  /\ start = "idle"
  /\ row = [r \in RowIds |-> "absent"]
  /\ cell = [c \in Cells |-> NoCell]
  /\ judge = [r \in RowIds |-> NoJob]
  /\ judgeLate = {}
  /\ rewritten = {}
  /\ fin = [p \in Passes |-> NoFin]
  /\ poll = IdlePoll
  /\ req = [q \in Rejudges |-> NoReq]
  /\ del = "idle"
  /\ crashes = 0

-----------------------------------------------------------------------------
(***************************************************************************)
(* What the code asks of the rows and the queues.                          *)
(***************************************************************************)

Produced == {r \in RowIds : row[r] # "absent"}
Judged   == {r \in RowIds : row[r] \in {"error"} \cup Verdicts}
Errored  == {r \in RowIds : row[r] = "error"}
Unjudged == {r \in RowIds : row[r] = "unjudged"}

Unsettled(r) == judge[r].pc \in {"waiting", "active", "graded"}

\* Mutant: a re-judge and a stalled finalize never look at the judge queue.
JudgePending_Never(rows) == FALSE

\* hasUnsettledJudgeJob
JudgePending(rows) == \E r \in rows : Unsettled(r)

\* Mutant: the finalize job does not wait for the cells.
ChildrenSettled_Ignored(p) == TRUE

\* Mutant: without ignoreDependencyOnFailure a failed cell stays a dependency.
ChildrenSettled_OnlyDone(p) == p = First => \A c \in Cells : cell[c].pc = "done"

\* The finalize job of the first pass is the flow parent of the cell jobs.
\* A failed cell is settled too: ignoreDependencyOnFailure.
ChildrenSettled(p) ==
  p = First => \A c \in Cells : cell[c].pc \in {"done", "failing", "failed"}

\* processFinalize's test of the counts.
Ready == Cardinality(Produced) >= Cardinality(Cells) /\ Judged = Produced

FinalStatus ==
  IF Cells # {} /\ Produced # {} /\ Errored = Produced
  THEN "failed" ELSE "succeeded"

\* Requests that put the run in flight and still have jobs to queue or undo.
Opening(q) == req[q].pc \in {"enqueueing", "finalizing", "undoing"}

\* Requests that put the run in flight at some time, finished or not.
Opened == {q \in Rejudges :
             Opening(q) \/ req[q].pc \in {"done", "restored", "crashed"}}

\* Something that was to settle the run is gone: the request that was to
\* queue a finalize job died, or the job itself was given up unnoticed.
Lost ==
  \/ start = "lost"
  \/ \E q \in Rejudges : req[q].pc = "crashed"
  \/ \E p \in Passes : fin[p].pc = "dropped"

Driver ==
  \/ start = "created"
  \/ \E p \in Passes : fin[p].pc \in {"waiting", "failing"}
  \/ \E q \in Rejudges : Opening(q)

runVars   == <<status, fresh, mailed>>
judgeVars == <<judge, judgeLate, rewritten>>
finVars   == <<fin, poll>>

-----------------------------------------------------------------------------
(***************************************************************************)
(* Starting the run: the row is created, and only then the flow of jobs.   *)
(***************************************************************************)

StartCreate ==
  /\ start = "idle"
  /\ start' = "created"
  /\ status' = "queued"
  /\ fresh' = TRUE
  /\ UNCHANGED <<mailed, row, cell, judgeVars, finVars, req, del, crashes>>

StartFlow ==
  /\ start = "created"
  /\ start' = "queued"
  /\ cell' = [c \in Cells |-> QueuedCell]
  /\ fin' = [fin EXCEPT ![First] = QueuedFin]
  /\ UNCHANGED <<runVars, row, judgeVars, poll, req, del, crashes>>

\* Redis refuses the flow, or the API dies: a queued run with no jobs.
StartLost ==
  /\ start = "created"
  /\ start' = "lost"
  /\ UNCHANGED <<runVars, row, cell, judgeVars, finVars, req, del, crashes>>

-----------------------------------------------------------------------------
(***************************************************************************)
(* Cell jobs.                                                              *)
(***************************************************************************)

\* Mutant: the update of markRunning without its status filter.
MarkRunning_Always(s) == "running"

MarkRunning(s) == IF s = "queued" THEN "running" ELSE s

\* Mutant: one attempt too many.
Terminal_OffByOne(tries, attempts, permanent) == permanent \/ tries > attempts

\* isTerminalCellFailure
Terminal(tries, attempts, permanent) == permanent \/ tries >= attempts

CellStart(c) ==
  /\ cell[c].pc = "waiting"
  /\ cell' = [cell EXCEPT ![c].pc = "running"]
  /\ status' = MarkRunning(status)
  /\ fresh' = (fresh \/ status = "queued")
  /\ UNCHANGED <<mailed, start, row, judgeVars, finVars, req, del, crashes>>

\* The next row the cell writes: rows are only ever created, never replaced.
NextRow(c, k) ==
  /\ row[<<c, k>>] = "absent"
  /\ \A j \in 1..(k - 1) : row[<<c, j>>] # "absent"

\* The model answered: the row is written, the judge job not yet queued.
CellAnswer(c) ==
  /\ cell[c].pc = "running"
  /\ \E k \in 1..RowsPerCell :
       /\ NextRow(c, k)
       /\ row' = [row EXCEPT ![<<c, k>>] = "unjudged"]
       /\ cell' = [cell EXCEPT ![c].pc = "written", ![c].row = k]
  /\ fresh' = TRUE
  /\ UNCHANGED <<status, mailed, start, judgeVars, finVars, req, del, crashes>>

\* BullMQ ignores an add whose job id exists.
AddJudgeJobs(rows) ==
  judge' = [r \in RowIds |-> IF r \in rows /\ judge[r].pc = "absent"
                             THEN QueuedJob ELSE judge[r]]

CellHandOver(c) ==
  /\ cell[c].pc = "written"
  /\ AddJudgeJobs({<<c, cell[c].row>>})
  /\ cell' = [cell EXCEPT ![c].pc = "handed"]
  /\ UNCHANGED <<runVars, start, row, judgeLate, rewritten, finVars, req, del, crashes>>

\* The worker reports the job back to the queue.
CellDone(c) ==
  /\ cell[c].pc = "handed"
  /\ cell' = [cell EXCEPT ![c] = EndedCell("done")]
  /\ UNCHANGED <<runVars, start, row, judgeVars, finVars, req, del, crashes>>

\* An attempt fails: before an answer, permanently or not, or with the row
\* already written, when the judge job, or the report of it, cannot be
\* queued.
CellFail(c) ==
  \E permanent \in BOOLEAN :
    /\ \/ cell[c].pc = "running"
       \/ cell[c].pc \in {"written", "handed"} /\ ~permanent
    /\ LET tries == cell[c].tries + 1
       IN  cell' = [cell EXCEPT
             ![c] = IF Terminal(tries, CellAttempts, permanent)
                    THEN EndedCell("failing")
                    ELSE [QueuedCell EXCEPT !.tries = tries]]
    /\ UNCHANGED <<runVars, start, row, judgeVars, finVars, req, del, crashes>>

\* The worker's 'failed' handler records the cell's error row; an error there
\* is logged, and the cell has no row.
CellFailed(c) ==
  /\ cell[c].pc = "failing"
  /\ cell' = [cell EXCEPT ![c] = EndedCell("failed")]
  /\ \/ /\ \E k \in 1..RowsPerCell :
            /\ NextRow(c, k)
            /\ row' = [row EXCEPT ![<<c, k>>] = "error"]
        /\ fresh' = TRUE
     \/ UNCHANGED <<row, fresh>>
  /\ UNCHANGED <<status, mailed, start, judgeVars, finVars, req, del, crashes>>

-----------------------------------------------------------------------------
(***************************************************************************)
(* Judge jobs.                                                             *)
(***************************************************************************)

JudgeStart(r) ==
  /\ judge[r].pc = "waiting"
  /\ judge' = [judge EXCEPT ![r].pc = "active"]
  /\ UNCHANGED <<runVars, start, row, cell, judgeLate, rewritten, finVars, req, del,
                 crashes>>

\* scoreResult: a score, or the reason why there is none.
JudgeVerdict(r) ==
  /\ judge[r].pc = "active"
  /\ \E v \in {"scored", "unscored"} : row' = [row EXCEPT ![r] = v]
  /\ judge' = [judge EXCEPT ![r].pc = "graded"]
  /\ rewritten' = rewritten \cup {r}
  /\ UNCHANGED <<runVars, start, cell, judgeLate, finVars, req, del, crashes>>

\* The worker reports the job back to the queue.
JudgeDone(r) ==
  /\ judge[r].pc = "graded"
  /\ judge' = [judge EXCEPT ![r] = EndedJob]
  /\ UNCHANGED <<runVars, start, row, cell, judgeLate, rewritten, finVars, req, del,
                 crashes>>

JudgeFail(r) ==
  \E permanent \in BOOLEAN :
    /\ judge[r].pc = "active"
    /\ LET tries == judge[r].tries + 1
           over  == Terminal(tries, JudgeAttempts, permanent)
       IN  /\ judge' = [judge EXCEPT ![r] = IF over THEN EndedJob
                                   ELSE [QueuedJob EXCEPT !.tries = tries]]
           /\ judgeLate' = IF over THEN judgeLate \cup {r} ELSE judgeLate
    /\ UNCHANGED <<runVars, start, row, cell, rewritten, finVars, req, del, crashes>>

\* The worker's 'failed' handler: "judge call failed", without looking at
\* what the row says by now; an error there is logged.
JudgeFailed(r) ==
  /\ r \in judgeLate
  /\ judgeLate' = judgeLate \ {r}
  /\ \/ /\ row' = [row EXCEPT ![r] = "callFailed"]
        /\ rewritten' = rewritten \cup {r}
     \/ UNCHANGED <<row, rewritten>>
  /\ UNCHANGED <<runVars, start, cell, judge, finVars, req, del, crashes>>

-----------------------------------------------------------------------------
(***************************************************************************)
(* The finalize job.  Durations are two levels of fin[p].idle: 1 when      *)
(* progress.changedAt is older than the stall window, 2 when it is older   *)
(* than FINALIZE_MAX_JUDGE_WAIT_MS.                                        *)
(***************************************************************************)

\* Time passes over a finalize job that waits for progress.
StallClock(p) ==
  /\ TimePasses
  /\ fin[p].pc = "waiting" /\ fin[p].last # -1 /\ fin[p].idle < 2
  /\ ~(poll.step # "idle" /\ poll.pass = p)
  /\ fin' = [fin EXCEPT ![p].idle = @ + 1]
  /\ UNCHANGED <<runVars, start, row, cell, judgeVars, poll, req, del, crashes>>

\* moveToDelayed: the job waits again and the slot is free.
Requeue(p, last, idle) ==
  /\ fin' = [fin EXCEPT ![p].last = last, ![p].idle = idle]
  /\ poll' = IdlePoll

\* A real error, the database's or the queue's: one attempt is used.
UseAttempt(p) ==
  LET tries == fin[p].tries + 1
  IN  fin' = [fin EXCEPT
        ![p] = IF Terminal(tries, FinalizeAttempts, FALSE)
               THEN EndedFin("failing") ELSE [@ EXCEPT !.tries = tries]]

PollCount(p) ==
  /\ poll.step = "idle"
  /\ fin[p].pc = "waiting" /\ ChildrenSettled(p)
  /\ LET n == Cardinality(Produced) + Cardinality(Judged)
     IN  \/ /\ Ready
            /\ poll' = [IdlePoll EXCEPT !.step = "settle", !.pass = p,
                                        !.outcome = FinalStatus]
            /\ UNCHANGED fin
         \/ /\ ~Ready /\ (n > fin[p].last \/ fin[p].idle = 0)
            /\ Requeue(p, n, 0)
         \/ /\ ~Ready /\ n <= fin[p].last /\ fin[p].idle > 0
            /\ poll' = [IdlePoll EXCEPT !.step = "stalled", !.pass = p, !.count = n]
            /\ UNCHANGED fin
         \/ UseAttempt(p) /\ UNCHANGED poll
  /\ UNCHANGED <<runVars, start, row, cell, judgeVars, req, del, crashes>>

\* listUnjudgedResultIds
PollStalled ==
  /\ poll.step = "stalled"
  /\ poll' = [poll EXCEPT !.step = "asking", !.rows = Unjudged]
  /\ UNCHANGED <<runVars, start, row, cell, judgeVars, fin, req, del, crashes>>

PollAsk ==
  LET p == poll.pass IN
  /\ poll.step = "asking"
  /\ \/ /\ JudgePending(poll.rows) /\ fin[p].idle < 2
        /\ Requeue(p, poll.count, fin[p].idle)
     \/ /\ ~JudgePending(poll.rows) \/ fin[p].idle = 2
        /\ poll' = [IdlePoll EXCEPT !.step = "settle", !.pass = p, !.gaveUp = TRUE]
        /\ UNCHANGED fin
  /\ UNCHANGED <<runVars, start, row, cell, judgeVars, req, del, crashes>>

\* Mutant: a stale finalize leaves a run that is no longer queued alone.
SetRunStatus_IfQueued(old, new) == IF old = "queued" THEN new ELSE old

\* The update of setRunStatus has no filter on the status it finds.
SetRunStatus(old, new) == new

\* Mutant: the job is completed before the email is handed over.
PollSettle_EndsJob ==
  /\ poll.step = "settle"
  /\ status' = SetRunStatus(status, poll.outcome)
  /\ poll' = [IdlePoll EXCEPT !.step = "notify", !.pass = poll.pass]
  /\ fin' = [fin EXCEPT ![poll.pass] = EndedFin("done")]
  /\ UNCHANGED <<fresh, mailed, start, row, cell, judgeVars, req, del, crashes>>

PollSettle ==
  /\ poll.step = "settle"
  /\ status' = SetRunStatus(status, poll.outcome)
  /\ poll' = [IdlePoll EXCEPT !.step = "notify", !.pass = poll.pass]
  /\ UNCHANGED <<fresh, mailed, start, row, cell, judgeVars, fin, req, del, crashes>>

PollNotify ==
  /\ poll.step = "notify"
  /\ mailed' = TRUE
  /\ fin' = [fin EXCEPT ![poll.pass] = EndedFin("done")]
  /\ poll' = IdlePoll
  /\ UNCHANGED <<status, fresh, start, row, cell, judgeVars, req, del, crashes>>

\* Also while mailing: the run's context is read before notify() is called.
PollError ==
  /\ poll.step # "idle"
  /\ UseAttempt(poll.pass)
  /\ poll' = IdlePoll
  /\ UNCHANGED <<runVars, start, row, cell, judgeVars, req, del, crashes>>

\* The worker's 'failed' handler runs markFinalizeExhausted; an error there
\* is logged and leaves the run to the reaper.
FinalizeFailed(p) ==
  /\ fin[p].pc = "failing"
  /\ \/ /\ status' = SetRunStatus(status, "failed")
        /\ fin' = [fin EXCEPT ![p] = EndedFin("exhausted")]
     \/ /\ fin' = [fin EXCEPT ![p] = EndedFin("dropped")]
        /\ UNCHANGED status
  /\ UNCHANGED <<fresh, mailed, start, row, cell, judgeVars, poll, req, del, crashes>>

FinalizeFailedNotify(p) ==
  /\ fin[p].pc = "exhausted"
  /\ \/ mailed' = TRUE /\ fin' = [fin EXCEPT ![p] = EndedFin("done")]
     \/ UNCHANGED mailed /\ fin' = [fin EXCEPT ![p] = EndedFin("unmailed")]
  /\ UNCHANGED <<status, fresh, start, row, cell, judgeVars, poll, req, del, crashes>>

-----------------------------------------------------------------------------
(***************************************************************************)
(* The stale-run reaper, which no process death stops: it is a repeated    *)
(* job.  Its window of two hours cannot pass within a request.             *)
(***************************************************************************)

Tick ==
  /\ TimePasses
  /\ status \in InFlight /\ fresh
  /\ start # "created" /\ \A q \in Rejudges : ~Opening(q)
  /\ fresh' = FALSE
  /\ UNCHANGED <<status, mailed, start, row, cell, judgeVars, finVars, req, del, crashes>>

\* staleRunWhere: verdicts, unlike results, do not count as progress.
Stale == status \in InFlight /\ ~fresh

\* The reaper's own email is left out.
Reap ==
  /\ Stale
  /\ status' = "failed"
  /\ UNCHANGED <<fresh, mailed, start, row, cell, judgeVars, finVars, req, del, crashes>>

-----------------------------------------------------------------------------
(***************************************************************************)
(* Re-judging a finished run (rejudgeRun), one request q.                  *)
(***************************************************************************)

SetReq(q, pc) == req' = [req EXCEPT ![q].pc = pc]
EndReq(q, pc) == req' = [req EXCEPT ![q] = [NoReq EXCEPT !.pc = pc]]

RejudgeRead(q) ==
  /\ req[q].pc = "idle"
  /\ status \in Settled
  /\ \E only \in BOOLEAN :
       req' = [req EXCEPT ![q] = [NoReq EXCEPT !.pc = "listing", !.only = only,
                                               !.old = status]]
  /\ UNCHANGED <<runVars, start, row, cell, judgeVars, finVars, del, crashes>>

\* listRejudgeTargets: answered rows, with `only` those without a score.
Targets(only) ==
  {r \in RowIds : row[r] \in {"unjudged"} \cup Verdicts
                  /\ (only => row[r] # "scored")}

\* countResultProgress and listRejudgeTargets.
RejudgeList(q) ==
  LET targets == Targets(req[q].only) IN
  /\ req[q].pc = "listing"
  /\ \/ /\ Cardinality(Produced) < Cardinality(Cells) \/ targets = {}
        /\ EndReq(q, "refused")
     \/ /\ Cardinality(Produced) >= Cardinality(Cells) /\ targets # {}
        /\ req' = [req EXCEPT ![q].pc = "checking", ![q].only = FALSE,
             ![q].saved = [r \in RowIds |-> IF r \in targets THEN row[r] ELSE "absent"]]
  /\ UNCHANGED <<runVars, start, row, cell, judgeVars, finVars, del, crashes>>

Chosen(q) == {r \in RowIds : req[q].saved[r] # "absent"}

RejudgeCheck(q) ==
  /\ req[q].pc = "checking"
  /\ \/ JudgePending(Chosen(q)) /\ EndReq(q, "refused")
     \/ /\ ~JudgePending(Chosen(q))
        /\ req' = [req EXCEPT ![q].pc = "removing", ![q].left = Chosen(q)]
  /\ UNCHANGED <<runVars, start, row, cell, judgeVars, finVars, del, crashes>>

\* An active job is locked: its removal throws and ends the request.
Locked(r) == judge[r].pc \in {"active", "graded"}

RejudgeRemove(q) ==
  /\ req[q].pc = "removing"
  /\ \E r \in req[q].left :
       /\ ~Locked(r)
       /\ judge' = [judge EXCEPT ![r] = NoJob]
       /\ req' = [req EXCEPT ![q].left = @ \ {r}]
  /\ UNCHANGED <<runVars, start, row, cell, judgeLate, rewritten, finVars, del, crashes>>

\* That, or an error of the database or the queue, before the run is reopened.
RejudgeError(q) ==
  /\ req[q].pc \in {"listing", "checking", "removing"}
  /\ EndReq(q, "refused")
  /\ UNCHANGED <<runVars, start, row, cell, judgeVars, finVars, del, crashes>>

\* reopenForRejudge, one transaction; a second request finds the run open.
RejudgeReopen(q) ==
  /\ req[q].pc = "removing" /\ req[q].left = {}
  /\ \/ /\ status \notin Settled
        /\ EndReq(q, "refused")
        /\ UNCHANGED <<status, fresh, row, rewritten>>
     \/ /\ status \in Settled
        /\ status' = "running"
        /\ fresh' = TRUE
        /\ row' = [r \in RowIds |-> IF r \in Chosen(q) THEN "unjudged" ELSE row[r]]
        /\ rewritten' = {}
        /\ SetReq(q, "enqueueing")
  /\ UNCHANGED <<mailed, start, cell, judge, judgeLate, finVars, del, crashes>>

\* Mutant: the queue's error is reported, and what was done stays.
Undo_Nothing(q) == EndReq(q, "restored")

\* The queue refuses: what was done is undone.
Undo(q) == req' = [req EXCEPT ![q].pc = "undoing", ![q].left = Chosen(q)]

\* addBulk: every judge job, or none.
RejudgeEnqueue(q) ==
  /\ req[q].pc = "enqueueing"
  /\ \/ AddJudgeJobs(Chosen(q)) /\ SetReq(q, "finalizing")
     \/ Undo(q) /\ UNCHANGED judge
  /\ UNCHANGED <<runVars, start, row, cell, judgeLate, rewritten, finVars, del, crashes>>

RejudgeFinalize(q) ==
  /\ req[q].pc = "finalizing"
  /\ \/ fin' = [fin EXCEPT ![q] = QueuedFin] /\ EndReq(q, "done")
     \/ Undo(q) /\ UNCHANGED fin
  /\ UNCHANGED <<runVars, start, row, cell, judgeVars, poll, del, crashes>>

\* Errors are ignored here, a job that is locked or cannot be reached stays.
RejudgeUndoRemove(q) ==
  /\ req[q].pc = "undoing"
  /\ \E r \in req[q].left :
       /\ \/ ~Locked(r) /\ judge' = [judge EXCEPT ![r] = NoJob]
          \/ UNCHANGED judge
       /\ req' = [req EXCEPT ![q].left = @ \ {r}]
  /\ UNCHANGED <<runVars, start, row, cell, judgeLate, rewritten, finVars, del, crashes>>

\* Mutant: the old verdicts are not put back.
Restored_Nothing(now, saved) == now

\* A verdict is put back only onto a row that is still cleared.
Restored(now, saved) ==
  IF now = "unjudged" /\ saved # "absent" THEN saved ELSE now

\* restoreAfterFailedRejudge, one transaction.
RejudgeRestore(q) ==
  /\ req[q].pc = "undoing" /\ req[q].left = {}
  /\ status' = IF status = "running" THEN req[q].old ELSE status
  /\ row' = [r \in RowIds |-> Restored(row[r], req[q].saved[r])]
  /\ req' = [req EXCEPT ![q] = [NoReq EXCEPT !.pc = "restored", !.saved = req[q].saved]]
  /\ UNCHANGED <<fresh, mailed, start, cell, judgeVars, finVars, del, crashes>>

\* The API process dies, or the undoing itself fails.
RejudgeLost(q) ==
  /\ Opening(q)
  /\ EndReq(q, "crashed")
  /\ UNCHANGED <<runVars, start, row, cell, judgeVars, finVars, del, crashes>>

-----------------------------------------------------------------------------
(***************************************************************************)
(* Deleting a run: the check and the delete are two statements.            *)
(***************************************************************************)

DeleteCheck ==
  /\ MayDelete /\ del = "idle"
  /\ status \in Settled
  /\ del' = "checked"
  /\ UNCHANGED <<runVars, start, row, cell, judgeVars, finVars, req, crashes>>

\* The result rows go with the run (onDelete: Cascade).
DeleteRun ==
  /\ del = "checked"
  /\ del' = "done"
  /\ status' = "deleted"
  /\ row' = [r \in RowIds |-> "absent"]
  /\ UNCHANGED <<fresh, mailed, start, cell, judgeVars, finVars, req, crashes>>

-----------------------------------------------------------------------------
(***************************************************************************)
(* A worker process dies: handlers that were running never finish, and the *)
(* jobs it held go back to their queue.  BullMQ does that once: a job that *)
(* stalls again fails with an UnrecoverableError.  For a cell or judge job *)
(* that is the permanent case of CellFail and JudgeFail; for the finalize  *)
(* job the 'failed' handler returns early, attempts being left.            *)
(***************************************************************************)

CellAfterCrash(j) ==
  CASE j.pc \in {"running", "written", "handed"} -> [QueuedCell EXCEPT !.tries = j.tries]
    [] j.pc = "failing" -> EndedCell("failed")
    [] OTHER -> j

JudgeAfterCrash(j) ==
  IF j.pc \in {"active", "graded"} THEN [j EXCEPT !.pc = "waiting"] ELSE j

FinAfterCrash(j, polled) ==
  CASE j.pc = "waiting" /\ polled ->
         IF j.stalls = 0 THEN [j EXCEPT !.stalls = 1] ELSE EndedFin("dropped")
    [] j.pc = "failing" -> EndedFin("dropped")
    [] j.pc = "exhausted" -> EndedFin("unmailed")
    [] OTHER -> j

Crash ==
  /\ crashes < MaxCrashes
  /\ crashes' = crashes + 1
  /\ cell' = [c \in Cells |-> CellAfterCrash(cell[c])]
  /\ judge' = [r \in RowIds |-> JudgeAfterCrash(judge[r])]
  /\ judgeLate' = {}
  /\ UNCHANGED rewritten
  /\ fin' = [p \in Passes |-> FinAfterCrash(fin[p], poll.step # "idle" /\ poll.pass = p)]
  /\ poll' = IdlePoll
  /\ UNCHANGED <<runVars, start, row, req, del>>

-----------------------------------------------------------------------------
(***************************************************************************)
(* The system.  Nothing happens for a run whose row is gone: every job and *)
(* request looks the run or the result up and stops.                       *)
(***************************************************************************)

Alive == status \notin {"none", "deleted"}

Cell(c) ==
  \/ CellStart(c) \/ CellAnswer(c) \/ CellHandOver(c) \/ CellDone(c)
  \/ CellFail(c) \/ CellFailed(c)

Judge(r) ==
  \/ JudgeStart(r) \/ JudgeVerdict(r) \/ JudgeDone(r) \/ JudgeFail(r)
  \/ JudgeFailed(r)

Poll == PollStalled \/ PollAsk \/ PollSettle \/ PollNotify \/ PollError

Handler(p) == FinalizeFailed(p) \/ FinalizeFailedNotify(p)

Rejudge(q) ==
  \/ RejudgeList(q) \/ RejudgeCheck(q) \/ RejudgeRemove(q) \/ RejudgeError(q)
  \/ RejudgeReopen(q)
  \/ RejudgeEnqueue(q) \/ RejudgeFinalize(q) \/ RejudgeUndoRemove(q)
  \/ RejudgeRestore(q) \/ RejudgeLost(q)

Reaper == Tick \/ Reap

RunStep ==
  \/ StartFlow \/ StartLost
  \/ \E c \in Cells : Cell(c)
  \/ \E r \in RowIds : Judge(r)
  \/ \E p \in Passes : StallClock(p) \/ PollCount(p) \/ Handler(p)
  \/ Poll
  \/ Reaper
  \/ \E q \in Rejudges : RejudgeRead(q) \/ Rejudge(q)
  \/ DeleteCheck \/ DeleteRun
  \/ Crash

Next == StartCreate \/ (Alive /\ RunStep)

Spec == Init /\ [][Next]_engineVars

\* Cells end, because the gateway bounds every call; the finalize job is
\* polled again and again and time passes over it; requests and handlers end.
\* Judge jobs need not end: a call may hang, the judge queue may be paused.
\* The reaper is counted on only for a run that lost its driver.
Fairness ==
  /\ WF_engineVars(Alive /\ (StartFlow \/ StartLost))
  /\ \A c \in Cells : WF_engineVars(Alive /\ Cell(c))
  /\ \A p \in Passes : /\ SF_engineVars(Alive /\ StallClock(p))
                       /\ SF_engineVars(Alive /\ PollCount(p))
                       /\ WF_engineVars(Alive /\ Handler(p))
  /\ WF_engineVars(Alive /\ Poll)
  /\ \A q \in Rejudges : WF_engineVars(Alive /\ Rejudge(q))
  /\ WF_engineVars(Alive /\ Lost /\ Reaper)

FairSpec == Spec /\ Fairness

-----------------------------------------------------------------------------
(***************************************************************************)
(* What holds.                                                             *)
(***************************************************************************)

\* Type invariant: every row, job and request is in one of its states, and no
\* job that will run again has used up its attempts.
TypeOK ==
  /\ status \in {"none", "deleted"} \cup InFlight \cup Settled
  /\ fresh \in BOOLEAN /\ mailed \in BOOLEAN
  /\ start \in {"idle", "created", "queued", "lost"}
  /\ row \in [RowIds -> RowStates]
  /\ cell \in [Cells -> CellJobs]
  /\ judge \in [RowIds -> JudgeJobs]
  /\ judgeLate \subseteq RowIds
  /\ rewritten \subseteq RowIds
  /\ fin \in [Passes -> FinalizeJobs]
  /\ poll \in PollSlots
  /\ req \in [Rejudges -> Requests]
  /\ del \in {"idle", "checked", "done"}
  /\ crashes \in 0..MaxCrashes

\* A run in flight always has a request or a finalize job that will still
\* settle it, whatever a stale finalize, the reaper or a second re-judge do
\* meanwhile (runs.service.ts rejudgeRun, finalize.processor.ts), unless its
\* driver was lost; then the reaper is left.
HasDriver == status \in InFlight => Driver \/ Lost

\* Why HasDriver is inductive.  A pass is queued at most once, by the request
\* it belongs to, so queueing it never replaces a job that is being polled.
StartedOnce ==
  /\ start = "idle" => status = "none"
  /\ start \in {"idle", "created"} => fin[First].pc = "absent"

PassQueuedOnce ==
  /\ status \in {"none", "queued"} => \A q \in Rejudges : req[q].pc = "idle"
  /\ \A q \in Rejudges : req[q].pc # "done" => fin[q].pc = "absent"

PolledWaits == poll.step # "idle" => fin[poll.pass].pc = "waiting"

\* A finalize job that has settled the run ends with the email; if the run is
\* in flight again by then, whoever reopened it has a driver of its own.
NotifierHasSuccessor ==
  poll.step = "notify" /\ status \in InFlight =>
    \/ start = "created"
    \/ \E p \in Passes \ {poll.pass} : fin[p].pc \in {"waiting", "failing"}
    \/ \E q \in Rejudges : Opening(q)
    \/ Lost

\* The inductive invariant of RunEngine_proofs: HasDriver and why it holds
\* (rejudgeRun and processFinalize running at once).
DriverInv ==
  /\ TypeOK
  /\ HasDriver
  /\ StartedOnce
  /\ PassQueuedOnce
  /\ PolledWaits
  /\ NotifierHasSuccessor

\* Nothing that happens between the count of the first finalize job and its
\* update, or before its next attempt, makes the outcome untrue.  A row can
\* still appear: the error row of a cell that counts as settled while its
\* 'failed' handler runs; and one row can stand in for another's (a repeated
\* attempt writes a second one), so the counts alone prove nothing.  What is
\* true is that every cell has a row of its own or has failed for good, that
\* every row is judged, and that the outcome fits the rows (processFinalize;
\* cell.processor and the worker's 'failed' handler write rows beside it).
OutcomeStaysTrue ==
  poll.step = "settle" /\ ~poll.gaveUp /\ Opened = {} /\ Alive =>
    /\ \A c \in Cells : \/ \E k \in 1..RowsPerCell : row[<<c, k>>] # "absent"
                        \/ cell[c].pc \in {"failing", "failed"}
    /\ Unjudged = {}
    /\ poll.outcome = FinalStatus

\* pending-judge-jobs.ts:33-35: a run must not be failed, before the longest
\* wait is over, while an unjudged row has a judge job that will still run.
StallStaysTrue ==
  poll.step = "settle" /\ poll.gaveUp /\ Opened = {} /\ fin[poll.pass].idle < 2
    => \A r \in Unjudged : ~Unsettled(r)

Undone(q) == req[q].pc = "restored" /\ Opened = {q} /\ Alive

\* A re-judge that was undone leaves every row as it was, but for those that a
\* judge job wrote itself, or the handler of its last failure did, before or
\* after the undoing (restoreAfterFailedRejudge, the judge worker).
RestoredKeepsVerdicts ==
  \A q \in Rejudges : Undone(q) =>
    \A r \in Chosen(q) : \/ row[r] = req[q].saved[r]
                         \/ r \in rewritten /\ row[r] \in Verdicts

\* runs.service.ts:497: "so a failed re-judge loses no scores".  A judge job
\* that already started keeps the verdict it writes, but a call that failed is
\* not a verdict.
UndoneLosesNoScore ==
  \A q \in Rejudges : Undone(q) =>
    \A r \in RowIds : req[q].saved[r] = "scored" => row[r] # "callFailed"

\* runs.repository.ts:523-526: a late cell never drags a finished run back to
\* running, nor does anything else but a re-judge that was let in.
OnlyRejudgeReopens ==
  [][(status \in Settled /\ status' \in InFlight) => Opened' # Opened]_engineVars

\* A run in flight does not stay so for ever: not after a failed or dead
\* worker, a lost request or a judge that hangs (FINALIZE_MAX_JUDGE_WAIT_MS).
EventuallySettles == status \in InFlight ~> status \notin InFlight

\* Once the finalize job settled the run, the run-finished email follows even
\* if the worker dies in between: the job runs again (processFinalize).  Only
\* a death in the handler of its last failure leaves the run unmailed.
FinalizedIsMailed ==
  poll.step = "notify" ~> \/ mailed \/ ~Alive
                          \/ \E p \in Passes : fin[p].pc \in {"dropped", "unmailed"}

\* The engine keeps the promises of a run's lifecycle.
Lifecycle == INSTANCE RunLifecycle WITH driven <- Driver, lost <- Lost
RefinesLifecycle == Lifecycle!FairSpec
=============================================================================
