------------------------------ MODULE SpanQueue ------------------------------
(***************************************************************************)
(* The span queue of the SDKs: a FIFO buffer of trace reports, drained by  *)
(* a serial loop.  span-queue.ts and span_queue.py are one design on two   *)
(* schedulers, and the differences are what matters:                       *)
(*                                                                         *)
(*  - in TypeScript enqueue starts the loop, and takes its first batch, in *)
(*    the same tick, but `draining` is cleared in a microtask after the    *)
(*    loop has seen an empty buffer;                                       *)
(*  - in Python the loop is a task that starts later and is done at once,  *)
(*    may be cancelled when its event loop closes (the batch goes back to  *)
(*    the buffer), and an interpreter on its way out drains what is left.  *)
(*                                                                         *)
(* A program is the sequence of reports an application makes; its spans    *)
(* are numbered in the order reported.  The server stores the groups of a  *)
(* request in turn, each in a transaction, and stops at the first that     *)
(* fails.  It knows nothing of a client that timed out, lost its           *)
(* connection or was cancelled: such a request goes on while the queue     *)
(* sends the next one.                                                     *)
(***************************************************************************)
EXTENDS Naturals, Sequences, FiniteSets, SequencesExt

CONSTANTS
  None,            \* no trace id
  Traces,          \* trace ids
  Flags,           \* values of the capture flag of a report
  Programs,        \* the sequences of reports an application may make
  MaxRetries,      \* max_retries of the client that makes each of them
  MaxBatchSpans,   \* span cap of a request
  MaxQueuedSpans,  \* span cap of the buffer
  Loops,           \* names for drain loops
  Callers,         \* callers of flush and close
  Closers          \* the callers that close

\* What a report says, and what a request says of a group of reports.
EntryType == [trace : Traces \cup {None}, capture : Flags, spans : Seq(Nat)]

Increasing(spans) == \A i, j \in DOMAIN spans : i < j => spans[i] < spans[j]
Before(earlier, later) ==
  \A s \in ToSet(earlier.spans), t \in ToSet(later.spans) : s < t

ASSUME CapAssumption ==
  MaxBatchSpans \in Nat \ {0} /\ MaxQueuedSpans \in Nat \ {0}
ASSUME CallerAssumption == Closers \subseteq Callers
ASSUME LoopAssumption == Loops # {}
ASSUME RetryAssumption == MaxRetries \in [Programs -> Nat]
\* Spans are numbered in the order reported, and none is reported twice.
ASSUME ProgramAssumption ==
  /\ None \notin Traces
  /\ \A p \in Programs :
       /\ p \in Seq(EntryType)
       /\ \A i \in DOMAIN p : Increasing(p[i].spans)
       /\ \A i, j \in DOMAIN p : i < j => Before(p[i], p[j])

VARIABLES
  python,       \* which of the two SDKs this is
  program,      \* the reports of this application
  next,         \* index of the next one it makes
  phase,        \* "open" | "shut" (no event loop) | "exit" (draining at exit)
  buffer,       \* the entries waiting, each [trace, capture, spans]
  queuedSpans,  \* the count the queue keeps of their spans
  loops,        \* what each drain loop does, the batch it sends, and as which request
  closed,
  callers,      \* where each caller of flush or close is
  awaited,      \* history: the spans reported before the caller called
  late,         \* history: entries wait for the next report or flush to start a loop
  requests,     \* the requests sent: the batch, groups stored, and which attempt
  stored,       \* the groups the server has stored, in that order
  lost          \* the spans given up: shed, discarded, or in a failed request

vars == <<python, program, next, phase, buffer, queuedSpans, loops, closed,
          callers, awaited, late, requests, stored, lost>>

-----------------------------------------------------------------------------
(* The buffer and its batches. *)

Size(entry) == Len(entry.spans)
Spans(entries) == UNION {ToSet(entries[i].spans) : i \in DOMAIN entries}
Total(entries) == Cardinality(Spans(entries))  \* no span is reported twice

\* A request has one group for a trace and a capture flag; reports without a
\* trace id stay alone.
SameGroup(e, f) == e.trace # None /\ e.trace = f.trace /\ e.capture = f.capture

\* Mutant: an entry is put in front of the spans of its group.
Merged_Reversed(groups, entry) ==
  IF \E g \in ToSet(groups) : SameGroup(g, entry)
  THEN [i \in DOMAIN groups |->
          IF SameGroup(groups[i], entry)
          THEN [groups[i] EXCEPT !.spans = entry.spans \o @] ELSE groups[i]]
  ELSE <<entry>> \o groups
\* One turn of the loop of mergeByTraceId.
Merged(groups, entry) ==
  IF \E g \in ToSet(groups) : SameGroup(g, entry)
  THEN [i \in DOMAIN groups |->
          IF SameGroup(groups[i], entry)
          THEN [groups[i] EXCEPT !.spans = @ \o entry.spans] ELSE groups[i]]
  ELSE Append(groups, entry)

MergeByTraceId(entries) ==
  LET merged[n \in 0 .. Len(entries)] ==
        IF n = 0 THEN <<>> ELSE Merged(merged[n - 1], entries[n])
  IN  merged[Len(entries)]

\* n entries fit in one request: the loop of takeBatch gets past all of them.
Fits(entries, n) ==
  /\ Total(SubSeq(entries, 1, n)) <= MaxBatchSpans
  /\ n > 0 => Total(SubSeq(entries, 1, n - 1)) < MaxBatchSpans

\* Mutant: one span too many is cut off.
Remainder_OffByOne(entry) ==
  [entry EXCEPT !.spans = SubSeq(@, MaxBatchSpans + 2, Len(@))]
\* What is left of an entry whose first MaxBatchSpans spans were taken.
Remainder(entry) ==
  [entry EXCEPT !.spans = SubSeq(@, MaxBatchSpans + 1, Len(@))]

TakeBatch(entries) ==
  LET n == CHOOSE m \in 0 .. Len(entries) :
             /\ Fits(entries, m)
             /\ \A k \in (m + 1) .. Len(entries) : ~Fits(entries, k)
      head == entries[1]
      whole == IF n = 0 /\ head.trace = None THEN 1 ELSE n
  IN  IF whole > 0
      THEN [batch |-> MergeByTraceId(SubSeq(entries, 1, whole)),
            taken |-> Total(SubSeq(entries, 1, whole)),
            rest  |-> SubSeq(entries, whole + 1, Len(entries))]
      ELSE [batch |-> <<[head EXCEPT !.spans = SubSeq(@, 1, MaxBatchSpans)]>>,
            taken |-> MaxBatchSpans,
            rest  |-> <<Remainder(head)>> \o Tail(entries)]

\* How many of the oldest entries an overflowing buffer sheds.
Shed(entries) ==
  CHOOSE d \in 0 .. Len(entries) :
    LET Enough(k) == \/ Total(SubSeq(entries, k + 1, Len(entries))) <= MaxQueuedSpans
                     \/ Len(entries) - k <= 1
    IN  Enough(d) /\ \A k \in 0 .. (d - 1) : ~Enough(k)

-----------------------------------------------------------------------------
(* The drain loop. *)

\* A loop that has no request.
Loop(state) == [state |-> state, batch |-> <<>>, at |-> 0]
Idle == Loop("idle")

\* A request on its way to the server.
Request(batch, try) == [batch |-> batch, done |-> 0, try |-> try]

\* `draining` is set, or the Python task is not done.
Draining == \E l \in Loops : loops[l].state # "idle"
Sending(l) == loops[l].state = "sending"

\* A loop that looks at the buffer: it sends the next batch, or ends.
Iterate(l, entries, count) ==
  IF entries # <<>>
  THEN LET t == TakeBatch(entries)
       IN  /\ loops' = [loops EXCEPT ![l] = [state |-> "sending", batch |-> t.batch,
                                             at |-> Len(requests) + 1]]
           /\ requests' = Append(requests, Request(t.batch, 0))
           /\ buffer' = t.rest
           /\ queuedSpans' = count - t.taken
  ELSE /\ loops' = [loops EXCEPT ![l] = IF python THEN Idle ELSE Loop("ended")]
       /\ buffer' = entries
       /\ queuedSpans' = count
       /\ UNCHANGED requests

\* Mutant: a loop that has not started yet does not count as one.
MayStart_Twice == phase # "shut" /\ \E l \in Loops : loops[l].state = "idle"
\* Mutant: a loop is started only by the first report ever.
MayStart_Once == ~Draining /\ phase # "shut" /\ next = 1
\* A loop is to be started: none is running, and there is a scheduler to run it.
MayStart == ~Draining /\ phase # "shut"

Wake(entries, count) ==
  IF MayStart
  THEN LET l == CHOOSE x \in Loops : loops[x].state = "idle"
       IN  IF python
           THEN /\ loops' = [loops EXCEPT ![l] = Loop("ready")]
                /\ buffer' = entries
                /\ queuedSpans' = count
                /\ UNCHANGED requests
           ELSE Iterate(l, entries, count)
  ELSE /\ buffer' = entries
       /\ queuedSpans' = count
       /\ UNCHANGED <<loops, requests>>

-----------------------------------------------------------------------------
(* The application. *)

Init ==
  /\ python \in BOOLEAN
  /\ program \in Programs
  /\ next = 1
  /\ phase = "open"
  /\ buffer = <<>>
  /\ queuedSpans = 0
  /\ loops = [l \in Loops |-> Idle]
  /\ closed = FALSE
  /\ callers = [c \in Callers |-> "new"]
  /\ awaited = [c \in Callers |-> {}]
  /\ late = FALSE
  /\ requests = <<>>
  /\ stored = <<>>
  /\ lost = {}

EnqueueClosed ==
  /\ closed
  /\ lost' = lost \cup ToSet(program[next].spans)
  /\ UNCHANGED <<buffer, queuedSpans, loops, late, requests>>

EnqueueOpen ==
  LET pushed == Append(buffer, program[next])
      shed == Shed(pushed)
      kept == SubSeq(pushed, shed + 1, Len(pushed))
  IN  /\ ~closed
      /\ lost' = lost \cup Spans(SubSeq(pushed, 1, shed))
      /\ Wake(kept, queuedSpans + Size(program[next]) - Total(SubSeq(pushed, 1, shed)))
      /\ late' = (buffer' # <<>> /\ \E l \in Loops : loops[l].state = "ended")

Enqueue ==
  /\ phase # "exit"
  /\ next <= Len(program)
  /\ next' = next + 1
  /\ EnqueueClosed \/ EnqueueOpen
  /\ UNCHANGED <<python, program, phase, closed, callers, awaited, stored>>

-----------------------------------------------------------------------------
(* Requests. *)

\* A trace has a span once; a report without a trace id gets a new trace, so
\* nothing tells the server that it has those spans.  A request above the cap
\* is refused.
MayStore(batch, group) ==
  /\ Total(batch) <= MaxBatchSpans
  /\ group.trace # None => ToSet(group.spans) \cap Spans(stored) = {}

\* The server stores the next group of a request, whoever still waits for it.
\* One that has failed, or never got there, is one that makes no such step.
ServerStores(i) ==
  LET r == requests[i]
  IN  /\ r.done < Len(r.batch)
      /\ MayStore(r.batch, r.batch[r.done + 1])
      /\ stored' = Append(stored, r.batch[r.done + 1])
      /\ requests' = [requests EXCEPT ![i].done = @ + 1]
      /\ UNCHANGED <<python, program, next, phase, buffer, queuedSpans, loops,
                     closed, callers, awaited, late, lost>>

\* The client learns how its request ended: it was stored, or it failed, was
\* refused, lost or timed out.  A batch that failed is dropped.
RequestEnds(l, ok) ==
  LET batch == loops[l].batch
  IN  /\ Sending(l)
      /\ ok => requests[loops[l].at].done = Len(batch)
      /\ lost' = IF ok THEN lost ELSE lost \cup Spans(batch)
      /\ Iterate(l, buffer, queuedSpans)
      /\ late' = FALSE
      /\ UNCHANGED <<python, program, next, phase, closed, callers, awaited, stored>>

\* fetchWithRetry: a 429, a 5xx or a network error, and another attempt.
Resend(l) ==
  /\ Sending(l)
  /\ requests[loops[l].at].try < MaxRetries[program]
  /\ requests' = Append(requests,
                        Request(loops[l].batch, requests[loops[l].at].try + 1))
  /\ loops' = [loops EXCEPT ![l].at = Len(requests) + 1]
  /\ UNCHANGED <<python, program, next, phase, buffer, queuedSpans, closed,
                 callers, awaited, late, stored, lost>>

\* TypeScript: the microtask that clears `draining`.
Cleared(l) ==
  /\ loops[l].state = "ended"
  /\ loops' = [loops EXCEPT ![l] = Idle]
  /\ UNCHANGED <<python, program, next, phase, buffer, queuedSpans, closed,
                 callers, awaited, late, requests, stored, lost>>

\* Python: the task's first step.
TaskStarts(l) ==
  /\ loops[l].state = "ready"
  /\ Iterate(l, buffer, queuedSpans)
  /\ UNCHANGED <<python, program, next, phase, closed, callers, awaited, late,
                 stored, lost>>

-----------------------------------------------------------------------------
(* flush and close. *)

\* Mutant: flush looks at the buffer alone, not at the request in flight.
Drained_Buffer == buffer = <<>>
\* flush returns: nothing is buffered and no loop is running.
Drained == buffer = <<>> /\ ~Draining

\* Python's close goes on in the same step; in TypeScript it is a microtask later.
Returned(c) == IF c \in Closers /\ ~python THEN "flushed" ELSE "done"
Closing(c) == c \in Closers /\ python

Reported == UNION {ToSet(program[i].spans) : i \in 1 .. (next - 1)}

FlushStep(c) ==
  IF Drained
  THEN /\ callers' = [callers EXCEPT ![c] = Returned(c)]
       /\ closed' = (closed \/ Closing(c))
       /\ UNCHANGED <<buffer, queuedSpans, loops, late, requests>>
  ELSE /\ callers' = [callers EXCEPT ![c] = "waiting"]
       /\ Wake(buffer, queuedSpans)
       /\ late' = (late /\ ~MayStart)
       /\ UNCHANGED closed

Call(c) ==
  /\ phase = "open"
  /\ callers[c] = "new"
  /\ awaited' = [awaited EXCEPT ![c] = Reported]
  /\ IF c \in Closers /\ closed
     THEN /\ callers' = [callers EXCEPT ![c] = "skipped"]
          /\ UNCHANGED <<buffer, queuedSpans, loops, late, closed, requests>>
     ELSE FlushStep(c)
  /\ UNCHANGED <<python, program, next, phase, stored, lost>>

\* The loop the caller waited for is gone: look again.
FlushLooks(c) ==
  /\ callers[c] = "waiting"
  /\ ~Draining
  /\ FlushStep(c)
  /\ UNCHANGED <<python, program, next, phase, awaited, stored, lost>>

Close(c) ==
  /\ callers[c] = "flushed"
  /\ callers' = [callers EXCEPT ![c] = "done"]
  /\ closed' = TRUE
  /\ UNCHANGED <<python, program, next, phase, buffer, queuedSpans, loops,
                 awaited, late, requests, stored, lost>>

-----------------------------------------------------------------------------
(* Python: event loops end, start again, and the interpreter exits. *)

\* asyncio.run() returns and cancels what is pending.  A batch in flight goes
\* back to the head of the buffer, though the server may go on with its request.
LoopShuts ==
  /\ python
  /\ phase = "open"
  /\ phase' = "shut"
  /\ LET batches == {loops[l].batch : l \in {x \in Loops : Sending(x)}}
         back == IF batches = {} THEN <<>> ELSE CHOOSE b \in batches : TRUE
     IN  /\ buffer' = back \o buffer
         /\ queuedSpans' = queuedSpans + Total(back)
  /\ loops' = [l \in Loops |-> Idle]
  /\ callers' = [c \in Callers |->
                   IF callers[c] = "waiting" THEN "cancelled" ELSE callers[c]]
  /\ UNCHANGED <<python, program, next, closed, awaited, late, requests, stored, lost>>

\* A new event loop: what is buffered waits for the next report or flush.
LoopOpens ==
  /\ phase = "shut"
  /\ phase' = "open"
  /\ late' = (buffer # <<>>)
  /\ UNCHANGED <<python, program, next, buffer, queuedSpans, loops, closed,
                 callers, awaited, requests, stored, lost>>

\* The exit hook: take_pending, then a fresh queue on a fresh loop.
ExitDrain ==
  LET shed == IF buffer = <<>> THEN 0 ELSE Shed(buffer)
      kept == SubSeq(buffer, shed + 1, Len(buffer))
  IN  /\ phase = "shut"
      /\ phase' = "exit"
      /\ lost' = lost \cup Spans(SubSeq(buffer, 1, shed))
      /\ buffer' = kept
      /\ queuedSpans' = Total(kept)
      /\ loops' = IF kept = <<>> THEN loops
                  ELSE LET l == CHOOSE x \in Loops : TRUE
                       IN  [loops EXCEPT ![l] = Loop("ready")]
      /\ late' = FALSE
      /\ UNCHANGED <<python, program, next, closed, callers, awaited, requests, stored>>

LoopStep ==
  \E l \in Loops :
    \/ \E ok \in BOOLEAN : RequestEnds(l, ok)
    \/ Cleared(l)
    \/ TaskStarts(l)
CallerStep == \E c \in Callers : FlushLooks(c) \/ Close(c)

Next ==
  \/ Enqueue
  \/ LoopStep
  \/ CallerStep
  \/ \E l \in Loops : Resend(l)
  \/ \E i \in DOMAIN requests : ServerStores(i)
  \/ \E c \in Callers : Call(c)
  \/ LoopShuts
  \/ LoopOpens
  \/ ExitDrain

Spec == Init /\ [][Next]_vars

\* A request ends (the server or the network answers), a scheduler runs its
\* microtasks and tasks, and a woken caller looks.  Nothing makes an
\* application report, flush, or end its event loop.
FairSpec == Spec /\ WF_vars(LoopStep) /\ WF_vars(CallerStep)

-----------------------------------------------------------------------------
(* Properties. *)

\* The values of the variables; the spans counted are those in the buffer.
TypeOK ==
  /\ phase \in {"open", "shut", "exit"}
  /\ python \/ phase = "open"
  /\ next \in 1 .. (Len(program) + 1)
  /\ buffer \in Seq(EntryType)
  /\ stored \in Seq(EntryType)
  /\ requests \in Seq([batch : Seq(EntryType), done : Nat, try : Nat])
  /\ queuedSpans = Total(buffer)
  /\ \A l \in Loops : /\ loops[l].batch \in Seq(EntryType)
                      /\ loops[l].state \in
                           IF python THEN {"idle", "ready", "sending"}
                           ELSE {"idle", "sending", "ended"}
  /\ callers \in [Callers -> {"new", "waiting", "flushed", "cancelled", "done", "skipped"}]

\* The client waits for one request at a time, and none is larger than the server
\* takes, but one that holds a single report without a trace id, which cannot
\* be split (the drain loop is serial; takeBatch honours the cap).
OneRequest ==
  \A l \in Loops : Sending(l) =>
    /\ \A m \in Loops \ {l} : ~Sending(m)
    /\ \/ Total(loops[l].batch) <= MaxBatchSpans
       \/ Len(loops[l].batch) = 1 /\ loops[l].batch[1].trace = None

\* Batching, splitting, merging, shedding and failing never get a span stored
\* before an earlier one of the same trace and capture flag, but for an earlier
\* one the queue had given up: its request may still be at the server when the
\* next one has been stored.
InOrder ==
  /\ \A i \in DOMAIN stored : Increasing(stored[i].spans)
  /\ \A i, j \in DOMAIN stored :
       i < j /\ SameGroup(stored[i], stored[j]) =>
         \A s \in ToSet(stored[i].spans), t \in ToSet(stored[j].spans) :
           s < t \/ t \in lost

\* No span vanishes: each one reported is buffered, in flight, stored, or was
\* given up with a warning.
NoneVanishes ==
  Reported \subseteq Spans(buffer) \cup Spans(stored) \cup lost
                     \cup UNION {Spans(loops[l].batch) : l \in Loops}

\* What a caller of flush or close waited for is settled when it returns, and
\* stays so, whatever was reported meanwhile.  Skipped is a close that found the
\* queue closed and so waited for nothing: in TypeScript a report accepted
\* between another caller's flush and its `closed` may still be in flight.
FlushSettles ==
  \A c \in Callers :
    callers[c] \in {"flushed", "done"} => awaited[c] \subseteq Spans(stored) \cup lost

\* A buffer that is not empty has a loop to serve it, but for three cases: no
\* event loop is there to run one, the entries were there when a Python event
\* loop began and nothing was reported or flushed since, or they were accepted
\* between the end of a TypeScript loop and the microtask that clears
\* `draining`.
Served == buffer # <<>> => Draining \/ late \/ phase = "shut"

\* flush and close return, however the requests they wait for end.
FlushReturns ==
  \A c \in Callers : callers[c] \in {"waiting", "flushed"} ~> callers[c] \in {"done", "cancelled"}
=============================================================================
