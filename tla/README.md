# AcruxCore in TLA+

Specifications, model-checking runs and proofs for the parts of AcruxCore where
concurrency, failure and order matter: evaluation runs (BullMQ jobs over two
processes and one Postgres row), local runs, the SDKs' span queues, the ingest
of traces, the money and the fallback chain of gateway calls, the prompt
registry, and the members of a team.

    tlc -workers 2 -config rejudge.cfg MCRunEngine
    tlapm Teams_proofs.tla

## 1. Inventory

AcruxCore is a prompt registry, an LLM gateway, a tracing backend and an
evaluation engine in one repository: an Express API (`apps/api`), a BullMQ
worker (`apps/worker`, which imports the API's services), a dashboard
(`apps/web`), and clients (`packages/sdk`, `sdk-python`, `mcp-server`).
Postgres (Prisma) holds all state but the jobs, which are in Redis; the rate
limiter and a few caches are in memory.

| Component | State | Operations | Interacts with | What is hard | What must be true |
|---|---|---|---|---|---|
| Run engine (`evaluations/runs`, `queue`, `judge`, worker) | run row, result rows, cell / judge / finalize jobs | start, cell, judge, finalize, 'failed' handlers, reaper, delete | gateway, notifications, re-judge | jobs retried and repeated after a crash, handlers that run after the job, counts read before they are used, an unconditional final write | a run in flight is always driven by something; it settles; it is not failed while a judge job will still run; its email follows |
| Re-judge (`rejudgeRun`) | the same rows and jobs | list, check, remove, reopen, queue, undo | run engine, other re-judges | eight statements over two stores, undone by hand when one fails | a failed re-judge leaves what it found; only a re-judge reopens |
| Local runs (`evaluations/local`) | run row, result rows, frozen judge version | create, upload, finish, grade | SDK, reaper | retried uploads, status checks apart from writes | one row per example, one outcome, one rubric |
| Optimizer | candidates, grid, run | draft, create candidates, add the flow, commit, promote | run engine, prompts | a repeated job, a commit sent twice | a candidate becomes one version |
| Online evaluations | rules, scores | match, enqueue, score | ingest, judge | repeated jobs | a span is scored once per rule |
| Datasets, experiments | datasets, examples | CRUD, import from feedback | run engine (snapshots, cascades) | deletes under a run | a run grades what it froze |
| Gateway budgets and limits | budget rows, in-memory windows | reset, reserve, settle, credit back, alert | completions | concurrent calls, period end, transactions that fail | spend is what the calls account for; a crossing is mailed |
| Gateway completions | none (a request) | resolve, call with fallback, stream | budgets, providers, traces | retries against deadlines | the reported error matches what was tried |
| Gateway cache, connections, keys, models, usage | rows | CRUD, lookups | completions | expiry | - |
| Prompts, versions, aliases, import, tool bindings | rows, advisory locks | create, rename, import, commit, promote, delete | run engine, SDKs, optimizer | check-then-write over names and numbers | names are unique, versions numbered in turn |
| Tools, secrets, audit, API keys, auth | rows | CRUD | everything | - | - |
| Teams, invites | rows | invite, accept, revoke, change role, leave | auth | two accepts, last owner | a team keeps an owner; an invite admits one |
| Traces | traces, spans, payloads | report, export, record a call, query, retention | SDK span queue, gateway | three writers of one row, resends, opposite orders | counts, rollups, name and start fit the spans |
| Notifications, email | log rows, jobs | notify, send, digest | run engine, budgets | repeated notification | one email per dedupe key |
| SDK span queue | buffer, one drain loop | enqueue, flush, close | ingest | microtask order, overflow, a loop that is cancelled | nothing enqueued is forgotten, order is kept |
| Dashboard, docs, MCP server | - | - | API | - | - |

`PROJECT.json` lists every component with what is modelled, and every hazard at
its line with the properties that would catch it.

## 2. Modules

| Module | What it is |
|---|---|
| `RunLifecycle` | what a run promises to whoever reads its row: abstract |
| `RunEngine` | server-side runs and re-judges: cell, judge and finalize jobs, requests, reaper, crashes |
| `LocalRun` | runs whose results the SDK produces |
| `SpanQueue` | the buffer and drain loop of the TypeScript and the Python SDK |
| `Traces` | three writers of traces, statement by statement |
| `Fallback` | the chain of attempts of one gateway call, as a set of values |
| `Gateway` | budgets under concurrent calls, each with an ending of `Fallback` |
| `Registry` | names, versions, aliases and the optimizer's candidates |
| `Teams` | members and invites of one team |
| `MC...` | the instances for TLC: programs, requests, workloads, symmetry |
| `RunEngine_proofs` | types, drivers, verdicts, and that the engine implements `RunLifecycle` |
| `LocalRun_proofs` | types, the three invariants of local runs, and that they implement `RunLifecycle` |
| `SpanQueue_proofs` | all six safety properties of the queues |
| `Traces_proofs` | types, count, rollups, starts and names of traces |
| `Gateway_proofs` | types, spend, alerts, and what chains of any length tell the caller |
| `Registry_proofs` | types, names, numbers, candidates |
| `Teams_proofs` | types, the last owner, single admission |
| `Sums_proofs` | sums over finite sets and induction over naturals, for the above |

`RunEngine` and `LocalRun` both implement `RunLifecycle`; `Gateway` extends
`Fallback`, whose endings are its provider calls. The others stand alone: they
meet the rest of the system through requests, which are their inputs.

### RunEngine and the code

Every action is one database statement or transaction or one queue operation,
so whatever can happen between two `await`s can happen between two actions.

* `status` is `experiment_runs.status`; `row` is `eval_results`, each row being
  unjudged, an error, scored, unscored with the judge's reason, or callFailed (the
  reason is "judge call failed", which the failure handler of a judge job writes).
  Rows are numbered per cell, because the code only ever creates them. `rewritten`
  is history: rows a judge job or that handler wrote since the last reopening.
* `cell`, `judge`, `fin` are jobs with their attempts. A cell goes
  running (`processCell`), written (`writeResult`), handed (judge job added),
  done. A failed attempt may come at each point. `judge` has at most one job per
  row, as the job id is `judge-<row>`; an add for an id that exists is ignored.
* `judgeLate` holds the 'failed' handlers of judge jobs still to run; for cells
  it is the state `failing`, for finalize jobs `failing` and `exhausted`.
* `poll` is the finalize worker's single slot. One poll is `PollCount` (the
  counts, and what they decide), `PollStalled` and `PollAsk` (the unjudged rows,
  then their jobs), `PollSettle` (the unconditional `setRunStatus`) and
  `PollNotify`. `PollError` is any real error on the way.
* `req` is one re-judge request from its status check to its answer, including
  the hand-written undo; `start` and `del` are the other two requests.
* Time is two levels: `fin[p].idle` says whether the stall window, or the
  longest wait, has passed since the last progress; `fresh` whether the reaper's
  cutoff has.
* `Lost` names the ways a run loses what was to settle it: the API died after
  `createRun`, or inside a re-judge, or a finalize job was given up with nobody
  to notice (its 'failed' handler returned early, failed or died).
  `Driver` names what will settle a run.

Assumed of the environment, from how the code uses it: a queue or database call that
fails has had no effect; `addBulk` is all or nothing (`runs.service.ts:482` says
so); BullMQ puts the jobs of a dead worker back, but fails a job that stalls twice;
an active job cannot be removed. The reaper's own email is left out, so is the
optimizer's first job: its run joins this engine with its flow. Payloads are left
out. A run whose row is gone is left alone by every job. `TimePasses` is a bound:
without it the stall window and the reaper's cutoff never pass. Two pairs of reads
are one step, because nothing between them matters: the progress and the targets of
a re-judge (`RejudgeList`), and a cell's read of its run and `markRunning`'s
conditional update (`CellStart`).

### LocalRun and the code

An upload is the status check, then one transaction of three steps under
`SELECT ... FOR UPDATE` (`holder`); a delete inside it sees what was committed
(READ COMMITTED). A finish is the check, two counts in either order, and the
conditional update. A judge call reads the frozen version, resolves the prompt's
version of now (`latest`, which `Promote` changes), freezes by one conditional
update and reads back when that matched nothing. The SDK may end at any point.

### SpanQueue and the code

One module for both SDKs, `python` choosing which, because the design is one and
the schedulers differ. A step is what runs without giving up the thread: in
TypeScript `enqueue` and the first batch of the loop it starts (`Wake`), the end
of a request and the next batch (`RequestEnds`), the `finally` microtask
(`Cleared`); in Python the task's first step comes later (`TaskStarts`), an event
loop may end with the task in flight (`LoopShuts`) and another start
(`LoopOpens`), and `ExitDrain` is the hook at interpreter exit. `TakeBatch`,
`MergeByTraceId` (a fold of `Merged`, one turn of its loop), `Remainder` and
`Shed` are the functions of the same names in the code, on sequences of entries
whose spans are numbers. A close that finds the queue closed returns at once
(`"skipped"`). `requests` are the requests at the server, and outlive the client's
interest in them: `ServerStores` stores the next group of any of them, one
transaction each, whether the client still waits, timed out, lost the connection,
was cancelled, or has sent the batch again (`Resend`, which is `fetchWithRetry`).
`RequestEnds` is only what the client learns; a success means that all of it was
stored, a failure means nothing. The server refuses a request above the cap and
spans that a trace has, but not those of a report without a trace id: each attempt
mints a trace, so they may be stored twice (`MayStore`). `stored` and `lost` are
what the properties compare with what was reported. `late` remembers that entries
wait for a report or a flush to start a loop: they came in the gap before `Cleared`,
or were there when a Python event loop began.

### Traces and the code

A request is a list of entries, an entry one transaction: `Open`
(`createTraceIfAbsent`), `Merge` (`mergeTraceContext`), then its spans, and
`Commit`. A report or a call writes a span in two statements (`Append1`: insert
and read the row, `Append2`: the update computed from that read); an export
upserts and recomputes (`Upsert`). `lock` is the row lock or the uncommitted
insert, `work` and `mine` what a transaction sees and others do not; `Visible` is
the committed spans with its own written over them (`Over`), so that a span sent
again is one span. A request may die or fail anywhere (`Dies`), and its client may
send it again. `CallAssumption`: a gateway call writes one trace, under refs that
the gateway drew at random and nobody else uses.

### Fallback, Gateway and the code

`Fallback` has no variables: `Attempt` is one turn of `callWithFallback`'s loops (or
of the selection of a stream), for each outcome and each reading of the clock, and
`Endings` is what any chain can come to: what `mapProviderError` tells the caller,
and whether another attempt could have worked. A 404, 413 or 422 that says why
(outcome `"fault"`) is passed on as `"rejected"`, whatever the chain met before it.
`Gateway` gives every call one of those endings, with all of its budget statements
around it: the read without an order, `resetIfElapsed`'s conditional update, the
transaction that reserves, the one that settles or credits back, the alerts after
it. An update locks its row until its transaction ends; a ring of waiting
transactions loses a victim, as in Postgres. `completeStream` credits back when
settling fails, `complete` does not, and both may die. `Reset` has the re-read of
the row in the step of its update: the reserving update looks at the row again.
Every call has a budget that applies: one that has none touches none of this. The
history fields `in`, `out`, `real` and `cut` are there for the properties.

### Registry and the code

Requests of one team over prompts: `Begin`, `Claim` and `Write` are a create, an
import or a patch (`lockName`, `assertNameFree`, the row), `Delete` a soft
delete; `Prepare`, `LockCandidate`, `Number`, `Insert` and `CreateAliases` a
commit, by itself or of an optimizer's candidate (`commitVersionOnce` with
`insertNext` inside); `Find` and `Upsert` a promotion, `Unalias` the deletion of
an alias. Locks end with their transaction; a patch and a delete wait for the row
lock that a commit holds (`MayUpdate`). An unconditional insert that meets a
unique index is `Conflict`, a 500.

### Teams and the code

`requireTeamRole` reads the actor's role once (`Arrive`), and what follows may
act on a role that is gone, as in the code. `LockOwners` is `lockOwnerUserIds`
with `assertNotSoleOwner`, `WriteMember` the update and the commit. An accept
reads (`FindInvite`), inserts the member (`AddMember`), claims the invite by a
conditional update (`ClaimInvite`) and commits; an insert of the same key and an
update of the same row wait (`UserFree`, `InviteFree`). The reads of an accept are
one step (`FindInvite`), and so are a revoke's read and delete (`Revoke`): the insert
and the claim check again what the reads saw, and the loser of two racing revokes
is refused in the model where it fails in the code.

## 3. Runs

Counts are distinct states. Deadlock checking is off, because finished requests
are an end. Runs with liveness or refinement use the fair specification.

| Run | Instance | States | Shows |
|---|---|---|---|
| `retries` | 2 cells, cell and finalize jobs with 2 attempts; no time passes | 1,721,000 | `TypeOK`, `OutcomeStaysTrue` |
| `settles` | 1 cell, judge jobs with 2 attempts, 1 crash, a delete | 297,000 | `HasDriver`, `StallStaysTrue`, `EventuallySettles`, `FinalizedIsMailed` |
| `rejudge` | 1 cell, 1 re-judge | 206,000 | `DriverInv`, `RestoredKeepsVerdicts`, `OnlyRejudgeReopens`, `RefinesLifecycle` |
| `undo` | as `rejudge` | violated | `UndoneLosesNoScore` |
| `local_uploads` | 2 examples, 2 uploads, 2 finishes | 709,000 | `TypeOK`, `OneRowPerExample`, `FinishedAsAnswered` |
| `local_run` | 1 example, 1 upload, 1 finish, 2 judge calls, 2 versions | 424,000 | `OneRubric`, `RefinesLifecycle` |
| `span_queue` | 4 programs of reports, two of them with a retry; batches and a buffer of 3 spans, two closers | 333,000 | `TypeOK`, `OneRequest`, `InOrder`, `NoneVanishes`, `FlushSettles`, `Served`, `FlushReturns` |
| `traces` | 3 workloads of 4 requests over 2 traces, one sent twice | 39,000 | `TypeOK`, `CountIsExact`, `RollupIsExact`, `StartsFirst`, `NamesImprove`, `RequestsEnd` |
| `gateway` | a call and a stream, 2 budgets, 2 periods; chains of 3 deployments with a retry | 62,000 | `TypeOK`, `SpendIsAccounted`, `AlertSent`, `HonestAnswer`, `CallsEnd` |
| `registry` | 3 workloads of 5 requests over one prompt, 2 names and 1 candidate | 34,000 | `TypeOK`, `NamesClaimed`, `Numbered`, `CandidateOnce` |
| `teams` | 2 owners, 2 strangers, 2 invites, 8 requests | 1,020,000 | `TypeOK`, `AlwaysAnOwner`, `InviteOnce` |
| `names` | as `registry` | violated | `UniqueNames` |

Why the bounds are enough. Every race of the engine is between a finalize job and
one other party (a second pass, the reaper, a handler, a crash) over one row; the
second cell of `retries` is there because a row written twice may stand in for the
other cell's. A second attempt is what makes a row repeat, a first crash what makes
a job repeat; a second crash, which would make a job stall twice, is only in the
proofs. `retries` is a first pass without the passage of time (`TimePasses`), as
`OutcomeStaysTrue` is about runs that do not stall; `settles` and `rejudge` have it.
`RowsPerCell` is never reached (`EngineAssumption` demands it), so it does not cut
behaviours off. In `LocalRun` the lock matters for two uploads and the freeze for
two calls. In `SpanQueue` three reports are enough for a split, a shed and a merge
around a third entry, one retry for two requests of one batch to be at the server
together, and a second name for a loop shows that no second one is started; a closer
passes every point that a flusher passes, and two of them meet a queue that the
other has closed. In `Traces` two requests that meet on two rows make every cycle of
waiting there is between pairs; one request of each kind meets the others. In
`Gateway` two calls over two rows deadlock, and the numbers are chosen so that one
call crosses the key's 80% and two do not fit. In `Registry` and `Teams` each
request kind that claims something has a rival for it. `retries` and `local_uploads`
use symmetry (cells; uploads and finishes), and check no liveness. The proofs cover
what the bounds do not.

Fairness. Cell jobs, requests, handlers and polls end, since the gateway bounds
every call and a queue retries; a waiting finalize job is polled again and again
and its clock moves on (strong fairness, as other jobs take the one slot in
between). Judge jobs are not assumed to end: a call may hang with its lock
renewed, or the queue be paused; `FINALIZE_MAX_JUDGE_WAIT_MS` exists for that and
`EventuallySettles` needs it. The reaper is counted on only when a run has lost
its driver, so it hides no other hang. In `LocalRun` requests end, the caller's
process ends some day, and the reaper is counted on only afterwards. In
`SpanQueue` requests end (httpx has a timeout, and Node's fetch gives up on a
silent server), schedulers run what is ready and a woken caller looks; nobody has
to report, flush or end a loop. In `Traces` a transaction that can go on does;
nobody has to send. In `Gateway` likewise, since a chain has a deadline, and
Postgres aborts somebody in a deadlock. `Registry` and `Teams` have safety
properties only.

Where a property leaves a case out, the code does the thing in that case:

* `Served` has three exceptions: there is no event loop (Python); the entries were
  there when a Python event loop began, and wait for the next report or flush; they
  were accepted in the gap before TypeScript's `finally` microtask, and wait for the
  same. A Python report that starts no task while a loop runs is not excepted.
* `InOrder` excepts an earlier span that was given up: the server may go on with a
  request that the client dropped, and store it after the next one.
* `RestoredKeepsVerdicts` excepts rows that a judge job wrote, or the handler of its
  last failure; `undo` shows what the handler does to a score.
* `OutcomeStaysTrue` does not say that a cell has one row only: it may have two.
* `HonestAnswer` does not judge the answers that find fault with the request and do
  not speak of retrying: a 400, and a passed-on 404, 413 or 422.
* `FinalizedIsMailed` says that the email follows, not that it is handed over once:
  the notification log has a dedupe key for that.
* `RollupIsExact` excepts traces that a gateway call without a trace context
  joins: it reads the row before it locks it, so tokens can be lost and a status
  turned from `error` back to `ok`.
* `AlertSent` excepts calls that failed, were cut off or straddled a period's
  end: the alert of a crossing reservation goes out only with the call's success.
  It excepts a cap of 0, which has no line (`detectBudgetCrossings`), and a budget
  that was past its line before the first call. That several updates see one crossing
  would not be noticed: alerts are a set, as their dedupe keys make them.
* `FlushSettles` is about callers that flushed: a close that finds the queue closed
  returns at once, as the next table says.
* `NamesClaimed` excepts what `names` shows.
* `Numbered` allows the default aliases of a first version to conflict with a
  promotion that came between the version and its aliases.

### What the code does and its text does not say

Two runs check a sentence of the repository each, and find it violated.

`undo`: "so a failed re-judge loses no scores" (`runs.service.ts:497`). A re-judge
that fails half-way removes the judge jobs it had queued and puts the scores back;
a job that already started "keeps the verdict it writes" (499). It may also fail for
good, and its 'failed' handler (`apps/worker/src/index.ts:289-307`) writes "judge
call failed" without looking at the row. After the restore that overwrites the score
that was put back; before it, the restore finds a reason in the row
(`runs.repository.ts:259`) and leaves it. Either way the old score is gone.

`names`: "Names are unique among active prompts now" (`prompts.repository.ts:95`). A
patch compares its name with a row read before its transaction
(`prompts.service.ts:161`, `168`); if they agree it takes no lock and makes no check,
yet writes the name. A rename and a create under the old name in between leave two
active prompts of one name.

Others were found while modelling; the models contain each of them, and no
property states the opposite.

| Sentence | What happens |
|---|---|
| `runs.service.ts:470`, each removed judge job "is finished" | a second re-judge removes the judge jobs of the first, between its check (424) and its removal (472-474) |
| `local-runs.repository.ts:203`, one row per cell | a retry after the row was written (`cell.processor.ts:195`) and before the judge job was added (209) creates another |
| `runs.service.ts:319`, no delete in flight | a re-judge reopens the run between check (331) and delete (341) |
| `finalize.processor.ts:166`, failed only without progress | the last verdict lands between the counts (112) and the unjudged rows (209-211) |
| `finalize.processor.ts:131`, mailing cannot bring back the job | the email's context is read outside `notify()` (37) |
| `local-runs.service.ts:320`, no results after the end | the status (135) is not checked again under the lock (190) |
| `spans.repository.ts:193`, a status never goes back from `error` | the status is computed from a row read before its lock (231-251) |
| `span-queue.ts:234`, a close "resolves once the final flush completes" | a second close that finds the queue closed returns at once (237), while a report accepted between the first one's flush (238) and its `closed` (239) is in flight |
| `span-queue.ts:198`, "the drain is serial, so the first chunk is stored before the second is sent"; `span-queue.ts:42`, the loop is serial so that no child lands before its parent | serial is only the client: a request that timed out or lost its connection goes on at the server while the next is sent (158-166), as one does that Python's cancelled task left behind (`span_queue.py:201-207`) |
| `router.ts:256`, "a backup's permanent failure cannot turn a primary's passing outage into a 'do not retry'" | the chain of a passing failure and a backup's 404, 413 or 422 with a reason is answered with that status (`gateway.service.ts:1811-1819`), and one that ends in a 400 with a 400 (1795-1801), without asking `chainRetriable` |
| `members.service.ts:152`, a member may remove themselves | the route wants an owner or admin (`members.router.ts:34-38`) |

## 4. Proofs

All are for every value of the constants, from the named assumptions alone. Each
module proves an inductive invariant (`IInv` in most), which TLC checked on the
instances above before it was proved, and reads the properties off it. Lemmas that
say what a step does to each variable come first, so that one lemma per action can
say why each part of the invariant survives.

`RunEngine_proofs`, from `EngineAssumption`:

* `TypeCorrect`: `Spec => []TypeOK`, one lemma per component.
* `DriverInvariant`: `Spec => []DriverInv`, and from it `RunHasDriver`.
  `HasDriver` is not inductive. A finalize job that ends (`PollNotify`) stops
  being a driver, and the run it settled may have been reopened between its
  write and its end; so `NotifierHasSuccessor` says somebody else drives a run
  that is in flight by then. A pass queued over a job that is being polled would
  lose that job, so `PassQueuedOnce` and `StartedOnce` say a pass is queued
  once, and `PolledWaits` ties the slot to a waiting job.
* `ReopensOnlyByRejudge`: `Spec => OnlyRejudgeReopens`. From `DriverInv`, which
  rules out every other step from a settled run to one in flight.
* `OutcomeFits`, `StalledForGood` and `UndoneRestores`: the verdicts (`VerdictInv`).
  Whoever will write a row's verdict has seen an answer in the row, and a cell that is
  done has a row (`JobsHaveRows`); once the first pass is polled its cells have
  settled (`CellsSettled`), so a row that appears later is a failed cell's error row,
  which is judged and changes no outcome (`CountsStand`), and the cells without a row
  are those that failed for good. An unjudged row is one that the poll asks about
  (`AskedAll`), so none is passed over when the run is failed. A row that a re-judge
  cleared is still cleared or was written again until it is put back (`UndoKeeps`).
* `EngineImplementsLifecycle`: `Spec => Lifecycle!Spec`, the safety part of
  `RefinesLifecycle`. One lemma says what each kind of step does to `status`
  (`StatusStep`), one that a lost driver stays lost (`LostStays`); the step
  theorem combines them. It needs one more fact, that a delete request has seen
  a run that had begun (`DeletesBegunRun`).

`LocalRun_proofs`, from `LocalAssumption`: `TypeCorrect`, `OneRowEach`,
`AnswerStays`, `GradedByOne` and `LocalImplementsLifecycle`. `FinishedAsAnswered` is
inductive as it stands, since every update of a settled status is conditional; the
others are not. An upload in its transaction holds the run's row, and what it is
about to replace is all there is of its examples (`UploadLocks`), so the lock makes
the earlier read still true at the insert; then no two rows are of one example
(`RowsDiffer`) and an acknowledged example has a row (`DoneHasRows`). `RowsDiffer`
also makes rows to examples an injection, which bounds what a finish request counts
in `TypeOK`. Judge calls take no lock: what one has seen frozen is what is frozen
(`CallsFrozen`) because it is written once, and a call that is about to freeze has a
version to freeze (`CallsWant`). The refinement is of the same `RunLifecycle` as the
engine's, with the SDK process as the driver: it needs that the process is there
until the run is, and that a delete has seen a settled run.

`SpanQueue_proofs`, from the four assumptions of `SpanQueue` (caps are positive,
closers are callers, there is a name for a loop, spans are numbered as they are
reported): `TypeCorrect`, `OneAtATime`, `SentInOrder`, `NothingVanishes`,
`FlushSettled` and `BufferServed`. `Serial` says that one loop runs at most,
and `Accounted` that spans are where `NoneVanishes` says. Two orders are kept. What
waits, the batch in flight and behind it the buffer, is one queue whose entries of a
group are in order and share no span (`Clean`), and the batch has one entry for a
group and fits a request (`Distinct`, `Bounded`); together `Lined`. The lemmas show
that each function of the code keeps queues `Lined`: shedding, cutting whole entries
or within one, putting a batch back, and merging, by induction on the turns of its
loop. The other order is about what was sent, and must stand whatever the server does
with it and however long: a group is `Sound` if every span of its trace and flag that
was reported before one of its own is in it too, stored, or given up. A group is sound
when it is sent, because what is older and unsettled would be in the queue in front of
it; and stays so, because spans that are settled remain so and spans reported later are
newer. So each request ever sent is sound (`Sent`), whatever is stored was stored in
turn (`InTurn`), and the request a loop waits for is of its batch (`Matched`, in
`Delivered`), which makes a success mean that the batch is stored. `LateKnown` names
the entries that wait for a report or a flush.

`Traces_proofs`, from `TraceAssumption` and `CallAssumption`: `TypeCorrect`,
`CountsSpans`, `RollsUp`, `StartsEarliest` and the action property `NamesOnlyImprove`.
What a transaction has made of its row is compared with the spans it sees
(`Counted`, `Summed`, `Started`, `Named`), and nobody else changes either while it
has the lock (`InPlace`, `Mine`). A call without a context inserts before it has the
lock, so of it `Mine` says only that its span's ref is nobody else's: enough for the
count, which is incremented in the database, and not for tokens and status, which
are computed from the row it read. Committed rows are summed (`TracesSummed`) from
spans with different refs (`RefsDiffer`).

`Gateway_proofs`, from `GatewayAssumption` and `ChainAssumption`: `TypeCorrect`,
`SpendAccounted`, `HonestAlways` and `AlertReachesTeam`. `SpendIsAccounted` is a sum
over calls; a step changes one term of it and the row that the call has locked,
which `Ordered`, `Holds` and `Stamps` say it has in the right period. The chains of
`Fallback` are followed by induction on their attempts: `ChainInv` relates what a
chain remembers (`retriable`) to what it met (`seen`), and `Progress` grows with
each attempt, so the set of endings is that of chains of every length. What is proved
of an answer is what `HonestAnswer` says of "try again" and "do not retry"; nothing is
of the answers that find fault with the request. For the
alerts, `AlertsKept` says that a budget whose committed spend is past its line has
its alert sent, or carried by a call that will send it; an open transaction has
noticed the lines it crosses (`Noticed`), and a call has reserved everywhere before
it settles (`StampedIn`).

`Registry_proofs`, from `RegistryAssumption`: `TypeCorrect`, `NamesStayUnique`,
`VersionsInTurn` and `CandidateBecomesOne`. `TypeCorrect` gives the types of prompts,
versions, aliases, links, locks and requests, says that only a request inside its
transaction holds a lock (`LocksHeld`), and that aliases and links point at versions
there are (`AliasPoints`, `LinkPoints`). Whoever writes a name still holds its
lock and found it free (`ClaimHeld`); whoever inserts a version holds the prompt's
row and has the next number (`InsertLocked`), which is next because the numbers are
1 to the count of versions (`InTurn`); whoever links a candidate holds its row and
found no link (`LinkLocked`), and a request that answers for a candidate answers with
its link (`AnswersLinked`, `LinkedOnce`). `ConflictFirst` confines the one conflict.

`Teams_proofs`, from `TeamsAssumption`: `TypeCorrect`, `OwnerRemains` and
`InviteAdmitsOne`. One invariant carries them, `IInv`. A request that is about to
demote or remove holds the rows of all owners, and they are not its target alone
(`OwnersLocked`), so two of them exclude each other although each decides on
what it read earlier. Who is about to commit an acceptance has claimed an invite
that nobody used or revoked since (`InviteClaimed`), adds a member that is still
absent (`MemberAdded`), and an unused invite has admitted nobody
(`AdmittedOnce`).

`Sums_proofs` shows that `SumFunction` over a finite set is the sum one
expects (empty set, one more element, two functions that differ in one place), and
`Induction`, over a set of naturals: the library's principle takes an operator as a
parameter, which the provers cannot instantiate, while a set they can.

What the proofs found. The model of `Traces` saw a span that is sent again twice in
its transaction, as committed and as its own, which no workload of the run reached:
`Visible` now uses `Over`. `AlertSent` was false of a cap of 0 and of a budget that
began past its line. `FlushSettles` was false of two closers, one of which finds the
queue closed: that is what the code does, and is in the table above. `InOrder` did
not look within a stored group, which a merge that puts the later spans first would
get wrong; now it does. And it was proved of a server that stops when its client
does: with requests that outlive their client it holds only of spans that were not
given up.

Only model-checked: liveness (`EventuallySettles`, `FinalizedIsMailed`,
`FlushReturns`, `RequestsEnd`, `CallsEnd`) and the fairness part of both refinements,
which are out of the prover's reach. Every safety property of the passing runs is
proved.

## 5. Plan

In this order, the most important first; what is done is in section 2.

1. `OptimizeRun`: the optimize job that runs again after a stall, against the
   engine's flow; that a run's candidates are those of one attempt is what it
   should say.
2. Online evaluations: the daily limit, the cached rules, a stalled job.
3. The rate limiter and the gateway cache, if the above leaves room.

## 6. Not modelled

Text and data (prompts, judge replies, wire formats, reports, filters), plain
CRUD, authentication, encryption, templates of emails, the dashboard and the
documentation. Of the modelled components: in traces a second team, cost and end
time (rolled up as tokens are), the size cap, payloads and their retention, and
online evaluations; in the gateway the rate limiter, the cache, prompt rendering,
tools, and budgets that are edited under a call; in the registry templates, tool
bindings and reads; in teams mail and its hourly cap, audit rows and the default
team of a user. `PROJECT.json` gives the reason for each.
