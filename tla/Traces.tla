------------------------------- MODULE Traces -------------------------------
(***************************************************************************)
(* Traces and their rollups.  Three writers share a trace: the JSON ingest *)
(* of the SDKs ("report"), the OTLP receiver ("export") and the hook that  *)
(* records a gateway completion ("call").  Each entry of a request is one  *)
(* transaction at READ COMMITTED: it creates the trace or finds it,        *)
(* merges its context into the row, writes its spans, and keeps the        *)
(* rollups of the row, some from what it read before it had the row lock.  *)
(*                                                                         *)
(* A trace name counts by where it comes from: "stamp" (the start time),   *)
(* "derived" (the message text, a library's default, a batch's root) or    *)
(* "chosen" (by the caller).  Cost and end time are rolled up as tokens    *)
(* are and are left out, and so is a second team.                          *)
(***************************************************************************)
EXTENDS Naturals, Sequences, FiniteSets, FiniteSetsExt, SequencesExt

CONSTANTS
  Ids,        \* trace ids
  Free,       \* no transaction holds the row
  Requests,
  Kind,       \* of a request: "report" | "export" | "call"
  Entries,    \* of a request: [trace, name, start, spans]
  MaxSends,   \* times a client sends a request; a call is made once
  Workloads   \* the sets of requests that may be sent in one behaviour

EntryNames == {"none", "root", "joins", "default", "chosen"}
SpanType == [ref : Nat, parent : Nat, tokens : Nat, error : BOOLEAN]
EntryType == [trace : Ids, name : EntryNames, start : Nat, spans : Seq(SpanType) \ {<<>>}]

ASSUME TraceAssumption ==
  /\ Kind \in [Requests -> {"report", "export", "call"}]
  /\ Entries \in [Requests -> Seq(EntryType) \ {<<>>}]
  /\ MaxSends \in [Requests -> Nat \ {0}]
  /\ Free \notin Requests
  /\ Workloads \subseteq SUBSET Requests

\* A call is one entry, and the refs of its spans are its own: the gateway draws
\* them at random.
Uses(r, ref) ==
  \E i \in DOMAIN Entries[r] : \E k \in DOMAIN Entries[r][i].spans :
    Entries[r][i].spans[k].ref = ref
ASSUME CallAssumption ==
  \A r \in Requests : Kind[r] = "call" =>
    /\ Len(Entries[r]) = 1
    /\ \A k \in DOMAIN Entries[r][1].spans : \A q \in Requests \ {r} :
         ~Uses(q, Entries[r][1].spans[k].ref)

VARIABLES
  traces,   \* the committed rows: [count, tokens, status, name, start], or NoRow
  stored,   \* the committed spans: [trace, ref, parent, tokens, error, from, start]
  lock,     \* which transaction holds the lock of a row, or of one it inserted
  req       \* where each request is, see Idle

vars == <<traces, stored, lock, req>>

-----------------------------------------------------------------------------
(* Rows and spans. *)

NoRow == [count |-> 0, tokens |-> 0, status |-> "none", name |-> "none", start |-> 0]

\* A request before it is sent.  entry and span index what it is writing, work
\* is the row and mine the spans of its open transaction, seen the row it read.
Idle == [pc |-> "idle", entry |-> 1, span |-> 1, work |-> NoRow, mine |-> {},
         seen |-> NoRow, sends |-> 0]

Entry(r) == Entries[r][req[r].entry]
Trace(r) == Entry(r).trace
TheSpan(r) == Entry(r).spans[req[r].span]
At(r, pc) == req[r].pc = pc

\* The row as a statement of r's transaction sees it, and the spans likewise.
Row(r) == IF lock[Trace(r)] = r THEN req[r].work ELSE traces[Trace(r)]
SpansIn(S, t) == {s \in S : s.trace = t}
Over(S, new) == {s \in S : \A n \in new : s.ref # n.ref} \cup new
Visible(r) == Over(SpansIn(stored, Trace(r)), req[r].mine)

CanLock(r) == lock[Trace(r)] \in {Free, r}

\* A span is written with who sent it and the start of the entry it is in.
SpanRow(r) ==
  [trace |-> Trace(r), ref |-> TheSpan(r).ref, parent |-> TheSpan(r).parent,
   tokens |-> TheSpan(r).tokens, error |-> TheSpan(r).error, from |-> r,
   start |-> Entry(r).start]

Sum(S) == SumFunction([s \in S |-> s.tokens])

-----------------------------------------------------------------------------
(* Names. *)

\* A report's name is the caller's, an export's was read off its root span; a
\* call without one is named by its messages.
FirstName(r) ==
  IF Entry(r).name = "none" THEN IF Kind[r] = "call" THEN "derived" ELSE "stamp"
  ELSE IF Kind[r] = "report" \/ Entry(r).name = "chosen" THEN "chosen"
  ELSE "derived"

\* Mutant: a batch's derived name overwrites whatever is there.
MergedName_Overwrites(r, name) ==
  IF Entry(r).name = "none" THEN name ELSE FirstName(r)
\* A root step names what the server named, a derived name what nothing named.
MergedName(r, name) ==
  CASE Kind[r] = "call" /\ Entry(r).name = "chosen" -> "chosen"
    [] Kind[r] = "report" /\ Entry(r).name = "root" -> "chosen"
    [] Kind[r] # "report" /\ Entry(r).name = "default" /\ name = "stamp" -> "derived"
    [] OTHER -> name

\* A call that brings nothing joins the trace without touching its row.
Merges(r) == Kind[r] # "call" \/ Entry(r).name # "none"

-----------------------------------------------------------------------------
Init ==
  /\ traces = [t \in Ids |-> NoRow]
  /\ stored = {}
  /\ lock = [t \in Ids |-> Free]
  /\ \E W \in Workloads :
       req = [r \in Requests |->
                [Idle EXCEPT !.sends = IF r \in W THEN 0 ELSE MaxSends[r]]]

\* A client sends a request, or sends it again when its answer was an error or
\* never came.
Send(r) ==
  /\ req[r].pc \in {"idle", "stopped"}
  /\ req[r].sends < MaxSends[r]
  /\ req' = [req EXCEPT ![r] = [Idle EXCEPT !.pc = "open", !.sends = req[r].sends + 1]]
  /\ UNCHANGED <<traces, stored, lock>>

\* createTraceIfAbsent: an insert that waits for the transaction inserting the
\* same id, and inserts nothing when that one committed.
Open(r) ==
  LET fresh == [count |-> 0, tokens |-> 0, status |-> "unset",
                name |-> FirstName(r), start |-> Entry(r).start]
      created == traces[Trace(r)] = NoRow
  IN  /\ At(r, "open")
      /\ created => lock[Trace(r)] = Free
      /\ lock' = IF created THEN [lock EXCEPT ![Trace(r)] = r] ELSE lock
      /\ req' = [req EXCEPT ![r].work = IF created THEN fresh ELSE @,
                            ![r].pc = IF created \/ ~Merges(r) THEN "write" ELSE "merge"]
      /\ UNCHANGED <<traces, stored>>

\* Mutant: the start of a trace is the start of its first entry.
MergedStart_Kept(r, start) == start
\* A report or an export moves the start back; a call never does.
MergedStart(r, start) ==
  IF Kind[r] = "call" THEN start ELSE Min({start, Entry(r).start})

\* mergeTraceContext: one UPDATE, so from here on the row is locked.
Merge(r) ==
  /\ At(r, "merge")
  /\ CanLock(r)
  /\ lock' = [lock EXCEPT ![Trace(r)] = r]
  /\ req' = [req EXCEPT
       ![r].work = [Row(r) EXCEPT !.name = MergedName(r, @), !.start = MergedStart(r, @)],
       ![r].pc = "write"]
  /\ UNCHANGED <<traces, stored>>

\* Mutant: a transaction that is rolled back keeps its locks.
Rollback_Locked(r) ==
  /\ req' = [req EXCEPT ![r] = [Idle EXCEPT !.pc = "stopped", !.sends = @ + req[r].sends]]
  /\ UNCHANGED <<traces, stored, lock>>
\* The transaction is rolled back, and with it the request fails.
Rollback(r) ==
  /\ lock' = [t \in Ids |-> IF lock[t] = r THEN Free ELSE lock[t]]
  /\ req' = [req EXCEPT ![r] = [Idle EXCEPT !.pc = "stopped", !.sends = @ + req[r].sends]]
  /\ UNCHANGED <<traces, stored>>

NextSpan(r) == IF req[r].span < Len(Entry(r).spans) THEN "write" ELSE "commit"

KnownParents(r) ==
  LET batch == {Entry(r).spans[i].ref : i \in DOMAIN Entry(r).spans}
      known == batch \cup {s.ref : s \in Visible(r)} \cup {0}
  IN  \A i \in DOMAIN Entry(r).spans : Entry(r).spans[i].parent \in known

\* A report's parents are checked before its first span is written (an export or
\* a call may bring a child first); a second span of a ref is a unique violation.
Refused(r) ==
  \/ Kind[r] = "report" /\ req[r].span = 1 /\ ~KnownParents(r)
  \/ TheSpan(r).ref \in {s.ref : s \in Visible(r)}

\* appendSpan, first half: the span is inserted, and the row is read.
Append1(r) ==
  /\ At(r, "write")
  /\ Kind[r] # "export"
  /\ IF Refused(r)
     THEN Rollback(r)
     ELSE /\ req' = [req EXCEPT ![r].mine = @ \cup {SpanRow(r)},
                                ![r].seen = Row(r), ![r].pc = "update"]
          /\ UNCHANGED <<traces, stored, lock>>

\* Mutant: the count, too, is computed from the row read before.
RolledUp_Seen(row, seen, span) ==
  [row EXCEPT !.count = seen.count + 1, !.tokens = seen.tokens + span.tokens,
              !.status = IF span.error THEN "error"
                         ELSE IF seen.status = "unset" THEN "ok" ELSE seen.status]
\* Mutant: the last span decides the status.
RolledUp_Last(row, seen, span) ==
  [row EXCEPT !.count = @ + 1, !.tokens = seen.tokens + span.tokens,
              !.status = IF span.error THEN "error" ELSE "ok"]
\* The rollups as appendSpan writes them: the count is incremented in the
\* database, the rest comes from the row read before.
RolledUp(row, seen, span) ==
  [row EXCEPT !.count = @ + 1,
              !.tokens = seen.tokens + span.tokens,
              !.status = IF span.error THEN "error"
                         ELSE IF seen.status = "unset" THEN "ok" ELSE seen.status]

\* appendSpan, second half: the UPDATE, which waits for the row.
Append2(r) ==
  /\ At(r, "update")
  /\ CanLock(r)
  /\ lock' = [lock EXCEPT ![Trace(r)] = r]
  /\ req' = [req EXCEPT ![r].work = RolledUp(Row(r), req[r].seen, TheSpan(r)),
                        ![r].pc = NextSpan(r), ![r].span = @ + 1]
  /\ UNCHANGED <<traces, stored>>

\* Spans as an upsert leaves them.
Upserted(S, span) == Over(S, {span})

Recomputed(row, S) ==
  [row EXCEPT !.count = Cardinality(S), !.tokens = Sum(S),
              !.status = IF \E s \in S : s.error THEN "error" ELSE "ok"]

\* upsertSpan: the span is written over, the rollups are recomputed.
Upsert(r) ==
  LET S == Upserted(Visible(r), SpanRow(r))
  IN  /\ At(r, "write")
      /\ Kind[r] = "export"
      /\ CanLock(r)
      /\ lock' = [lock EXCEPT ![Trace(r)] = r]
      /\ req' = [req EXCEPT ![r].mine = Upserted(@, SpanRow(r)),
                            ![r].work = Recomputed(Row(r), S),
                            ![r].pc = NextSpan(r), ![r].span = @ + 1]
      /\ UNCHANGED <<traces, stored>>

\* Where the request goes on: its next entry begins, or it is answered.
NextEntry(r) ==
  LET last == req[r].entry = Len(Entries[r])
  IN  [Idle EXCEPT !.sends = req[r].sends,
                   !.pc = IF last THEN "stopped" ELSE "open",
                   !.entry = IF last THEN 1 ELSE req[r].entry + 1]

\* Mutant: one transaction for the request, so its rows stay locked to the end.
Commit_Together(r) ==
  /\ At(r, "commit")
  /\ traces' = [traces EXCEPT ![Trace(r)] = req[r].work]
  /\ stored' = stored \cup req[r].mine
  /\ lock' = IF req[r].entry < Len(Entries[r]) THEN lock
             ELSE [t \in Ids |-> IF lock[t] = r THEN Free ELSE lock[t]]
  /\ req' = [req EXCEPT ![r] = NextEntry(r)]

\* An entry is done: its row and spans are visible, its row is free.
Commit(r) ==
  /\ At(r, "commit")
  /\ traces' = [traces EXCEPT ![Trace(r)] = req[r].work]
  /\ stored' = {s \in stored : s.trace # Trace(r)} \cup Visible(r)
  /\ lock' = [lock EXCEPT ![Trace(r)] = Free]
  /\ req' = [req EXCEPT ![r] = NextEntry(r)]

\* The server process dies, or the database refuses a statement.
Dies(r) ==
  /\ req[r].pc \notin {"idle", "stopped"}
  /\ Rollback(r)

Step(r) ==
  \/ Open(r) \/ Merge(r) \/ Append1(r) \/ Append2(r)
  \/ Upsert(r) \/ Commit(r)

Next == \E r \in Requests : Send(r) \/ Step(r) \/ Dies(r)

Spec == Init /\ [][Next]_vars

\* The server goes on with what it has begun; a client need not send.
FairSpec == Spec /\ \A r \in Requests : WF_vars(Step(r))

-----------------------------------------------------------------------------
(* Properties. *)

Written == {t \in Ids : traces[t] # NoRow}
BareCalls == {r \in Requests : Kind[r] = "call" /\ Entries[r][1].name = "none"}

\* The shapes; a row is locked by the transaction that changed it.
TypeOK ==
  /\ \A t \in Ids : traces[t].status \in {"none", "unset", "ok", "error"}
  /\ \A t \in Ids : traces[t].name \in {"none", "stamp", "derived", "chosen"}
  /\ lock \in [Ids -> Requests \cup {Free}]
  /\ \A r \in Requests : req[r].sends <= MaxSends[r]
  /\ \A t \in Ids : lock[t] # Free =>
       req[lock[t]].pc \notin {"idle", "stopped", "open"} /\ Trace(lock[t]) = t

\* span_count is the number of spans, whichever writers met on the trace and
\* however often a request was sent (an increment and a recomputation mixed).
CountIsExact == \A t \in Ids : traces[t].count = Cardinality(SpansIn(stored, t))

\* Tokens and status are those of the spans, on a trace that every writer
\* locks before it reads: all but a gateway call without a trace context.
LockedFirst(t) == \A r \in BareCalls : \A i \in DOMAIN Entries[r] : Entries[r][i].trace # t
RollupIsExact ==
  \A t \in Written : LockedFirst(t) =>
    LET S == SpansIn(stored, t)
    IN  /\ traces[t].tokens = Sum(S)
        /\ traces[t].status = IF \E s \in S : s.error THEN "error" ELSE "ok"

\* A trace starts no later than any span the SDKs and the exporter reported
\* for it, whoever opened it, and however often a request names it.
StartsFirst ==
  \A s \in stored : Kind[s.from] # "call" => traces[s.trace].start <= s.start

\* A name is never replaced by a weaker one, in whichever order the writers
\* arrive: a timestamp by a derived name, both by a caller's, never back.
Rank(name) == CASE name = "none" -> 0 [] name = "stamp" -> 1
                [] name = "derived" -> 2 [] name = "chosen" -> 3
NamesImprove == [][\A t \in Ids : Rank(traces'[t].name) >= Rank(traces[t].name)]_vars

\* The requests come to their end (each is sent so many times): writers of the
\* same traces in opposite orders do not wait for each other for ever.
RequestsEnd == <>[](\A r \in Requests : req[r].pc \in {"idle", "stopped"})
=============================================================================
