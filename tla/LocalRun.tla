------------------------------ MODULE LocalRun ------------------------------
(***************************************************************************)
(* A local run: the caller's own process (the SDK) produces the results,   *)
(* and the API stores them, grades outputs on request and closes the run.  *)
(* Every request is handled by several statements, and the requests of one *)
(* run interleave: an upload whose answer was lost is sent again while the *)
(* first is still being written, judge calls run in parallel.              *)
(***************************************************************************)
EXTENDS Integers, FiniteSets

CONSTANTS
  Examples,   \* the examples of the run's snapshot
  Uploads,    \* upload requests that may be made
  Finishes,   \* finish requests that may be made
  Calls,      \* judge calls that may be made
  Versions,   \* versions of the judge prompt
  None        \* no version, and nobody

ASSUME LocalAssumption ==
  /\ IsFiniteSet(Examples) /\ IsFiniteSet(Uploads)
  /\ None \notin Versions \cup Uploads

VARIABLES
  status,   \* experiment_runs.status, or "none" / "deleted" without a row
  fresh,    \* the run was created or given a result since the reaper's cutoff
  sdk,      \* the caller's process is alive
  rows,     \* committed eval_results: <<example, upload that wrote it>>
  errored,  \* those among them with an error message
  holder,   \* the upload that holds the run's row FOR UPDATE, or None
  up,       \* upload requests
  fin,      \* finish requests
  latest,   \* the version the judge prompt resolves to right now
  frozen,   \* grading_snapshot.judgePromptVersions, for that prompt, or None
  call,     \* judge calls
  del       \* where the delete request is

localVars == <<status, fresh, sdk, rows, errored, holder, up, fin, latest,
               frozen, call, del>>

InFlight == {"running"}
Settled  == {"succeeded", "failed"}
RowIds   == Examples \X Uploads

UploadStates == {"idle", "checked", "locked", "deleted", "done", "refused"}
FinishStates == {"idle", "counting", "done", "refused"}
CallStates   == {"idle", "resolving", "freezing", "reading", "graded", "refused"}

NoUpload == [pc |-> "idle", batch |-> {}, bad |-> {}, gone |-> {}]
NoFinish == [pc |-> "idle", broke |-> FALSE, total |-> -1, bad |-> -1,
             outcome |-> "failed"]
NoCall   == [pc |-> "idle", named |-> None, seen |-> None, want |-> None,
             used |-> None]

Init ==
  /\ status = "none"
  /\ fresh = TRUE
  /\ sdk = TRUE
  /\ rows = {} /\ errored = {}
  /\ holder = None
  /\ up = [u \in Uploads |-> NoUpload]
  /\ fin = [f \in Finishes |-> NoFinish]
  /\ latest \in Versions
  /\ frozen = None
  /\ call = [j \in Calls |-> NoCall]
  /\ del = "idle"

runVars    == <<status, fresh, del>>
resultVars == <<rows, errored, holder>>
judgeVars  == <<latest, frozen, call>>

\* An update of the run's row waits while an upload holds it.
RowFree == holder = None

\* createExperimentWithRun
Create ==
  /\ status = "none"
  /\ status' = "running"
  /\ UNCHANGED <<fresh, sdk, resultVars, up, fin, judgeVars, del>>

-----------------------------------------------------------------------------
(***************************************************************************)
(* submitResults: the status is checked, then one transaction locks the    *)
(* run, deletes the rows of the batch's examples and inserts its own.      *)
(***************************************************************************)

UploadCheck(u) ==
  /\ up[u].pc = "idle" /\ sdk /\ status \notin {"none", "deleted"}
  /\ \/ /\ status # "running"
        /\ up' = [up EXCEPT ![u].pc = "refused"]
     \/ /\ status = "running"
        /\ \E batch \in (SUBSET Examples) \ {{}} : \E bad \in SUBSET batch :
             up' = [up EXCEPT ![u] = [NoUpload EXCEPT !.pc = "checked",
                                        !.batch = batch, !.bad = bad]]
  /\ UNCHANGED <<runVars, sdk, resultVars, fin, judgeVars>>

\* Mutant: the transaction without SELECT ... FOR UPDATE.
MayLock_Always(h) == TRUE

MayLock(h) == h = None

UploadLock(u) ==
  /\ up[u].pc = "checked" /\ MayLock(holder)
  /\ holder' = u
  /\ up' = [up EXCEPT ![u].pc = "locked"]
  /\ UNCHANGED <<runVars, sdk, rows, errored, fin, judgeVars>>

\* READ COMMITTED: the delete sees what is committed by now.
UploadDelete(u) ==
  /\ up[u].pc = "locked"
  /\ up' = [up EXCEPT ![u].pc = "deleted",
                      ![u].gone = {x \in rows : x[1] \in up[u].batch}]
  /\ UNCHANGED <<runVars, sdk, resultVars, fin, judgeVars>>

Unlocked(u) == IF holder = u THEN None ELSE holder

\* Mutant: rows are appended, none replaced.
Replaced_Appended(old, gone, new) == old \cup new

Replaced(old, gone, new) == (old \ gone) \cup new

\* The insert and the commit.
UploadCommit(u) ==
  /\ up[u].pc = "deleted"
  /\ status # "deleted"
  /\ rows' = Replaced(rows, up[u].gone, up[u].batch \X {u})
  /\ errored' = Replaced(errored, up[u].gone, up[u].bad \X {u})
  /\ fresh' = TRUE
  /\ holder' = Unlocked(u)
  /\ up' = [up EXCEPT ![u].pc = "done", ![u].bad = {}, ![u].gone = {}]
  /\ UNCHANGED <<status, sdk, fin, judgeVars, del>>

\* The transaction fails, or the API dies in it: nothing is written.
UploadAbort(u) ==
  /\ up[u].pc \in {"checked", "locked", "deleted"}
  /\ up' = [up EXCEPT ![u] = [NoUpload EXCEPT !.pc = "refused"]]
  /\ holder' = Unlocked(u)
  /\ UNCHANGED <<runVars, sdk, rows, errored, fin, judgeVars>>

-----------------------------------------------------------------------------
(***************************************************************************)
(* finishRun: the status is checked, the results are counted by two        *)
(* queries that run in parallel, then the status is written.               *)
(***************************************************************************)

\* The caller may report that its own loop broke.
FinishCheck(f) ==
  /\ fin[f].pc = "idle" /\ sdk /\ status \notin {"none", "deleted"}
  /\ \/ status # "running" /\ fin' = [fin EXCEPT ![f].pc = "refused"]
     \/ /\ status = "running"
        /\ \E broke \in BOOLEAN :
             fin' = [fin EXCEPT ![f].pc = "counting", ![f].broke = broke]
  /\ UNCHANGED <<runVars, sdk, resultVars, up, judgeVars>>

FinishCount(f) ==
  /\ fin[f].pc = "counting"
  /\ \/ fin[f].total = -1 /\ fin' = [fin EXCEPT ![f].total = Cardinality(rows)]
     \/ fin[f].bad = -1 /\ fin' = [fin EXCEPT ![f].bad = Cardinality(errored)]
  /\ UNCHANGED <<runVars, sdk, resultVars, up, judgeVars>>

Outcome(f) ==
  IF fin[f].broke \/ fin[f].total = 0 \/ fin[f].bad = fin[f].total
  THEN "failed" ELSE "succeeded"

\* Mutant: the update without its status filter.
MayFinish_Always(s) == TRUE

\* finishRun of the repository is conditional on running.
MayFinish(s) == s = "running"

FinishWrite(f) ==
  /\ fin[f].pc = "counting" /\ fin[f].total # -1 /\ fin[f].bad # -1
  /\ RowFree
  /\ \/ /\ MayFinish(status)
        /\ status' = Outcome(f)
        /\ fin' = [fin EXCEPT ![f] = [NoFinish EXCEPT !.pc = "done", !.outcome = Outcome(f)]]
     \/ /\ ~MayFinish(status)
        /\ fin' = [fin EXCEPT ![f] = [NoFinish EXCEPT !.pc = "refused"]]
        /\ UNCHANGED status
  /\ UNCHANGED <<fresh, sdk, resultVars, up, judgeVars, del>>

\* A query fails, or the API dies.
FinishAbort(f) ==
  /\ fin[f].pc = "counting"
  /\ fin' = [fin EXCEPT ![f] = [NoFinish EXCEPT !.pc = "refused"]]
  /\ UNCHANGED <<runVars, sdk, resultVars, up, judgeVars>>

-----------------------------------------------------------------------------
(***************************************************************************)
(* judgeOutput: which version of the judge prompt an output is graded      *)
(* with.  The run may have finished.                                       *)
(***************************************************************************)

\* findJudgeContext, with or without a version named by the caller.
CallRead(j) ==
  /\ call[j].pc = "idle" /\ status \notin {"none", "deleted"}
  /\ \E named \in Versions \cup {None} :
       call' = [call EXCEPT ![j] = [NoCall EXCEPT !.pc = "resolving",
                                      !.named = named, !.seen = frozen]]
  /\ UNCHANGED <<runVars, sdk, resultVars, up, fin, latest, frozen>>

\* The 409 for a named version the run does not grade with.
Graded(j, version) ==
  call' = [call EXCEPT ![j] =
    IF call[j].named \in {None, version}
    THEN [NoCall EXCEPT !.pc = "graded", !.used = version]
    ELSE [NoCall EXCEPT !.pc = "refused"]]

CallResolve(j) ==
  /\ call[j].pc = "resolving"
  /\ \/ call[j].seen # None /\ Graded(j, call[j].seen)
     \/ /\ call[j].seen = None
        /\ call' = [call EXCEPT ![j].pc = "freezing",
             ![j].want = IF call[j].named # None THEN call[j].named ELSE latest]
  /\ UNCHANGED <<runVars, sdk, resultVars, up, fin, latest, frozen>>

\* Mutant: the update without its IS NULL filter.
MayFreeze_Always(f) == TRUE

MayFreeze(f) == f = None

\* freezeJudgePromptVersion: one conditional update ...
CallFreeze(j) ==
  /\ call[j].pc = "freezing" /\ RowFree
  /\ \/ /\ status # "deleted" /\ MayFreeze(frozen)
        /\ frozen' = call[j].want
        /\ Graded(j, call[j].want)
     \/ /\ status = "deleted" \/ ~MayFreeze(frozen)
        /\ call' = [call EXCEPT ![j].pc = "reading"]
        /\ UNCHANGED frozen
  /\ UNCHANGED <<runVars, sdk, resultVars, up, fin, latest>>

\* ... and, when it matched no row, a read of what is frozen.
CallReadBack(j) ==
  /\ call[j].pc = "reading"
  /\ Graded(j, IF status # "deleted" /\ frozen # None THEN frozen ELSE call[j].want)
  /\ UNCHANGED <<runVars, sdk, resultVars, up, fin, latest, frozen>>

\* Somebody promotes another version of the judge prompt.
Promote ==
  /\ latest' \in Versions \ {latest}
  /\ UNCHANGED <<runVars, sdk, resultVars, up, fin, frozen, call>>

-----------------------------------------------------------------------------
(***************************************************************************)
(* The caller's process, the reaper and the delete request.                *)
(***************************************************************************)

\* The SDK's process ends, whether or not it closed the run.
SdkGone ==
  /\ sdk /\ status \notin {"none", "deleted"}
  /\ sdk' = FALSE
  /\ UNCHANGED <<runVars, resultVars, up, fin, judgeVars>>

\* Two hours without a result: longer than any request takes.
Tick ==
  /\ status = "running" /\ fresh
  /\ \A u \in Uploads : up[u].pc \notin {"checked", "locked", "deleted"}
  /\ \A f \in Finishes : fin[f].pc # "counting"
  /\ fresh' = FALSE
  /\ UNCHANGED <<status, sdk, resultVars, up, fin, judgeVars, del>>

\* Mutant: the sweep looks for queued runs only.
Stale_OnlyQueued(s) == s = "queued" /\ ~fresh

Stale(s) == s \in InFlight /\ ~fresh

Reap ==
  /\ Stale(status) /\ status \notin {"none", "deleted"} /\ RowFree
  /\ status' = "failed"
  /\ UNCHANGED <<fresh, sdk, resultVars, up, fin, judgeVars, del>>

DeleteCheck ==
  /\ del = "idle" /\ status \in Settled
  /\ del' = "checked"
  /\ UNCHANGED <<status, fresh, sdk, resultVars, up, fin, judgeVars>>

DeleteRun ==
  /\ del = "checked" /\ RowFree
  /\ del' = "done"
  /\ status' = "deleted"
  /\ rows' = {} /\ errored' = {}
  /\ UNCHANGED <<fresh, sdk, holder, up, fin, judgeVars>>

-----------------------------------------------------------------------------
Upload(u) ==
  \/ UploadLock(u) \/ UploadDelete(u) \/ UploadCommit(u) \/ UploadAbort(u)
Finish(f) == FinishCount(f) \/ FinishWrite(f) \/ FinishAbort(f)
Grading(j) == CallResolve(j) \/ CallFreeze(j) \/ CallReadBack(j)

Next ==
  \/ Create
  \/ \E u \in Uploads : UploadCheck(u) \/ Upload(u)
  \/ \E f \in Finishes : FinishCheck(f) \/ Finish(f)
  \/ \E j \in Calls : CallRead(j) \/ Grading(j)
  \/ Promote
  \/ SdkGone
  \/ Tick \/ Reap
  \/ DeleteCheck \/ DeleteRun

Spec == Init /\ [][Next]_localVars

\* Requests end, a caller's process ends some day, and the reaper runs for
\* ever; time is counted on only once the process is gone.
Fairness ==
  /\ \A u \in Uploads : WF_localVars(Upload(u))
  /\ \A f \in Finishes : WF_localVars(Finish(f))
  /\ WF_localVars(SdkGone)
  /\ WF_localVars(~sdk /\ (Tick \/ Reap))

FairSpec == Spec /\ Fairness

-----------------------------------------------------------------------------
(***************************************************************************)
(* What holds.                                                             *)
(***************************************************************************)

\* Type invariant; a run never counts more results than it has examples.
TypeOK ==
  /\ status \in {"none", "running", "deleted"} \cup Settled
  /\ fresh \in BOOLEAN /\ sdk \in BOOLEAN
  /\ rows \subseteq RowIds /\ errored \subseteq rows
  /\ holder \in Uploads \cup {None}
  /\ up \in [Uploads -> [pc : UploadStates, batch : SUBSET Examples,
                         bad : SUBSET Examples, gone : SUBSET RowIds]]
  /\ fin \in [Finishes -> [pc : FinishStates, broke : BOOLEAN, total : -1..Cardinality(Examples),
                           bad : -1..Cardinality(Examples), outcome : Settled]]
  /\ latest \in Versions /\ frozen \in Versions \cup {None}
  /\ call \in [Calls -> [pc : CallStates, named : Versions \cup {None},
                         seen : Versions \cup {None}, want : Versions \cup {None},
                         used : Versions \cup {None}]]
  /\ del \in {"idle", "checked", "done"}

\* A retried upload never leaves two rows for an example, nor none for one
\* that was acknowledged (replaceResults, local-runs.repository.ts:186-191).
OneRowPerExample ==
  \A e \in Examples :
    LET written == {x \in rows : x[1] = e}
    IN  /\ Cardinality(written) <= 1
        /\ status # "deleted" /\ (\E u \in Uploads : up[u].pc = "done" /\ e \in up[u].batch)
             => written # {}

\* The outcome a finish request was answered with is the run's for good: no
\* other finish and no sweep rewrites it (local-runs.repository.ts:245-248).
FinishedAsAnswered ==
  \A f \in Finishes : fin[f].pc = "done" => status \in {fin[f].outcome, "deleted"}

\* Every output of a run that the judge graded was graded by one version of
\* the judge prompt, whoever promotes another meanwhile
\* (freezeJudgePromptVersion, local-runs.repository.ts:146-151).
OneRubric ==
  status # "deleted" =>
    \A i, j \in Calls : call[i].pc = "graded" /\ call[j].pc = "graded"
                          => call[i].used = call[j].used

\* A local run keeps the promises of a run's lifecycle; its driver is the
\* caller's process, and the reaper settles what that left behind.
Lifecycle == INSTANCE RunLifecycle WITH driven <- sdk /\ status # "none",
                                        lost <- ~sdk
RefinesLifecycle == Lifecycle!FairSpec
=============================================================================
