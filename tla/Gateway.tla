------------------------------ MODULE Gateway ------------------------------
(***************************************************************************)
(* Budgets under concurrent gateway calls.  A call reads its budgets, rolls *)
(* the elapsed ones over, reserves an estimate on each in one transaction,  *)
(* runs its fallback chain, and settles the estimate to the real cost in    *)
(* another; alerts go out after that.  Statements of different calls        *)
(* interleave; an update takes the row's lock to the end of its transaction.*)
(*                                                                          *)
(* complete() and completeStream() differ in what they do when settling     *)
(* fails, and in their chain.  The ledger row is written in the settling    *)
(* transaction.  A `total` budget is one whose period never ends.  A call   *)
(* without a budget reserves and settles nothing, and is none of Calls.     *)
(***************************************************************************)
EXTENDS Integers, FiniteSets, Sequences, FiniteSetsExt, SequencesExt, Fallback

CONSTANTS
  Calls,
  Streams,     \* the calls that stream
  Budgets,
  Applies,     \* of a call: the budgets it is charged to
  Limit,       \* of a budget
  Spent,       \* of a budget: what is spent of it at first
  Estimate,    \* what a call reserves
  Costs,       \* what a call may really cost
  Periods,     \* how many periods are considered
  Free         \* no transaction holds the row

ASSUME GatewayAssumption ==
  /\ IsFiniteSet(Calls) /\ Streams \subseteq Calls /\ Free \notin Calls
  /\ Applies \in [Calls -> (SUBSET Budgets) \ {{}}] /\ IsFiniteSet(Budgets)
  /\ Limit \in [Budgets -> Nat] /\ Spent \in [Budgets -> Nat]
  /\ Estimate \in Nat /\ Costs \subseteq Nat /\ Periods \in Nat \ {0}

VARIABLES
  now,     \* the current period
  period,  \* of a budget: the period its row is in (resets_at)
  spend,   \* of a budget: spend_usd, uncommitted updates included
  lock,    \* of a budget: the call whose transaction holds its row
  call,    \* where each call is, see New
  mails    \* alerts sent: <<budget, period, crossing>>, BullMQ's dedupe key

vars == <<now, period, spend, lock, call, mails>>

-----------------------------------------------------------------------------
NoAnswer == [told |-> "none", couldWork |-> FALSE]

\* A call not made yet.  order is how the database listed its budgets, at the
\* index of the one it is at, label the period it read for each; in and out are
\* the periods it reserved and settled in (0: not), real what it cost.  cut: a
\* transaction of it failed, or its process died.
New == [pc |-> "new", order |-> <<>>, at |-> 1, answer |-> NoAnswer, real |-> 0,
        served |-> FALSE, cut |-> FALSE, alerts |-> {},
        label |-> [b \in Budgets |-> 0], in |-> [b \in Budgets |-> 0],
        out |-> [b \in Budgets |-> 0]]

At(c, pc) == call[c].pc = pc
Budget(c) == call[c].order[call[c].at]
LastBudget(c) == call[c].at = Len(call[c].order)
CanLock(c) == lock[Budget(c)] \in {Free, c}
Unlock(c) == [b \in Budgets |-> IF lock[b] = c THEN Free ELSE lock[b]]

-----------------------------------------------------------------------------
Init ==
  /\ now = 1
  /\ period = [b \in Budgets |-> 1]
  /\ spend = Spent
  /\ lock = [b \in Budgets |-> Free]
  /\ call = [c \in Calls |-> New]
  /\ mails = {}

\* The budgets' period ends.
Tick ==
  /\ now < Periods
  /\ now' = now + 1
  /\ UNCHANGED <<period, spend, lock, call, mails>>

\* applicableBudgets: no ORDER BY, so any order.
Read(c) ==
  /\ At(c, "new")
  /\ \E order \in SetToSeqs(Applies[c]) :
       call' = [call EXCEPT ![c].pc = "reset", ![c].order = order, ![c].label = period]
  /\ UNCHANGED <<now, period, spend, lock, mails>>

\* Mutant: the reset is not conditional on the period that was read.
StillElapsed_Always(c, b) == TRUE
\* The reset is conditional: nobody has rolled the row over since it was read.
StillElapsed(c, b) == period[b] = call[c].label[b]

\* resetIfElapsed, for one budget: a conditional UPDATE, and the row is re-read.
Reset(c) ==
  LET b == Budget(c)
      elapsed == call[c].label[b] < now
      rolls == elapsed /\ StillElapsed(c, b)
  IN  /\ At(c, "reset")
      /\ rolls => CanLock(c)
      /\ period' = IF rolls THEN [period EXCEPT ![b] = now] ELSE period
      /\ spend' = IF rolls THEN [spend EXCEPT ![b] = 0] ELSE spend
      /\ call' = [call EXCEPT
           ![c].label[b] = IF elapsed THEN period'[b] ELSE @,
           ![c].pc = IF LastBudget(c) THEN "reserve" ELSE "reset",
           ![c].at = IF LastBudget(c) THEN 1 ELSE @ + 1]
      /\ UNCHANGED <<now, lock, mails>>

-----------------------------------------------------------------------------
(* Transactions. *)

\* detectBudgetCrossings: the lines that adding delta crosses.
Crossings(b, delta) ==
  LET crossed(num, den) == /\ den * spend[b] < num * Limit[b]
                           /\ den * (spend[b] + delta) >= num * Limit[b]
  IN  IF Limit[b] = 0 THEN {}
      ELSE {x \in {"threshold", "exhausted"} :
              IF x = "threshold" THEN crossed(4, 5) ELSE crossed(1, 1)}

Alerts(c, b, crossings) == {<<b, call[c].label[b], x>> : x \in crossings}

\* What the open transaction of c adds to a budget.
Delta(c) ==
  CASE At(c, "reserve") -> Estimate
    [] At(c, "settle") -> call[c].real - Estimate
    [] At(c, "credit") -> 0 - Estimate
    [] OTHER -> 0

InTransaction(c) == At(c, "reserve") \/ At(c, "settle") \/ At(c, "credit")

\* The budgets it has updated so far.
Touched(c) ==
  IF InTransaction(c) THEN {call[c].order[i] : i \in 1 .. (call[c].at - 1)} ELSE {}

\* The condition of reserveSpend's UPDATE.
Fits(b) == spend[b] + Estimate <= Limit[b]

\* An update of the next budget; with the last one the transaction commits.
Update(c, b) ==
  /\ CanLock(c)
  /\ spend' = [spend EXCEPT ![b] = @ + Delta(c)]
  /\ lock' = IF LastBudget(c) THEN Unlock(c) ELSE [lock EXCEPT ![b] = c]
  /\ UNCHANGED <<now, period, mails>>

Stamped(c, stamps) == [b \in Budgets |-> IF b \in Applies[c] THEN period[b] ELSE stamps[b]]

\* Mutant: alerts come from the settlement alone.
Reserved_Unalerted(c, b) ==
  IF LastBudget(c)
  THEN [call[c] EXCEPT !.in = Stamped(c, @), !.pc = "chain", !.at = 1]
  ELSE [call[c] EXCEPT !.at = @ + 1]
\* Where a reservation leaves the call.
Reserved(c, b) ==
  LET updated == [call[c] EXCEPT !.alerts = @ \cup Alerts(c, b, Crossings(b, Estimate))]
  IN  IF LastBudget(c)
      THEN [updated EXCEPT !.in = Stamped(c, @), !.pc = "chain", !.at = 1]
      ELSE [updated EXCEPT !.at = @ + 1]

\* reserveSpend.
Reserve(c) ==
  /\ At(c, "reserve")
  /\ Fits(Budget(c))
  /\ Update(c, Budget(c))
  /\ call' = [call EXCEPT ![c] = Reserved(c, Budget(c))]

\* Mutant: a transaction that is rolled back keeps its locks.
Rollback_Locked(c, entry) ==
  /\ spend' = [b \in Budgets |-> IF b \in Touched(c) THEN spend[b] - Delta(c) ELSE spend[b]]
  /\ call' = [call EXCEPT ![c] = entry]
  /\ UNCHANGED <<now, period, lock, mails>>
\* The transaction of c, if there is one, ends without effect.
Rollback(c, entry) ==
  /\ spend' = [b \in Budgets |-> IF b \in Touched(c) THEN spend[b] - Delta(c) ELSE spend[b]]
  /\ lock' = Unlock(c)
  /\ call' = [call EXCEPT ![c] = entry]
  /\ UNCHANGED <<now, period, mails>>

\* A reservation does not fit: 402, and an alert.
Exceeded(c) ==
  /\ At(c, "reserve")
  /\ CanLock(c)
  /\ ~Fits(Budget(c))
  /\ Rollback(c, [call[c] EXCEPT !.pc = "notify", !.order = <<>>, !.at = 1,
                                 !.alerts = Alerts(c, Budget(c), {"exhausted"})])

\* The chain answers, or throws what is no provider error; a stream that was
\* selected runs to its end, or breaks off.
Answer(c) ==
  /\ At(c, "chain")
  /\ \/ \E end \in Endings :
          /\ end.stream = (c \in Streams)
          /\ \/ /\ end.told = "ok"
                /\ \E real \in Costs :
                     call' = [call EXCEPT ![c].pc = "settle", ![c].real = real,
                                          ![c].served = TRUE]
             \/ /\ end.told # "ok"
                /\ call' = [call EXCEPT ![c].pc = "credit", ![c].alerts = {},
                     ![c].answer = [told |-> end.told, couldWork |-> end.couldWork]]
     \/ \E served \in {FALSE, (c \in Streams)} :
          call' = [call EXCEPT ![c].pc = "credit", ![c].alerts = {}, ![c].served = served]
  /\ UNCHANGED <<now, period, spend, lock, mails>>

Done(entry) == [entry EXCEPT !.pc = "done", !.order = <<>>, !.at = 1,
                             !.answer = NoAnswer, !.alerts = {}]

\* Where the settlement of a budget leaves the call: on to the next, or, when all
\* is committed, to its alerts.
Settled(c, b) ==
  LET alerts == call[c].alerts \cup Alerts(c, b, Crossings(b, Delta(c)))
      settled == [call[c] EXCEPT !.out = Stamped(c, @), !.answer = NoAnswer, !.order = <<>>,
                                 !.at = 1, !.pc = "notify", !.alerts = alerts]
  IN  IF ~LastBudget(c) THEN [call[c] EXCEPT !.at = @ + 1, !.alerts = alerts]
      ELSE IF alerts = {} THEN Done(settled) ELSE settled

\* reconcileBudgets: with the real cost, or with none for a call that failed.
Settle(c) ==
  /\ At(c, "settle") \/ At(c, "credit")
  /\ Update(c, Budget(c))
  /\ call' = [call EXCEPT ![c] = Settled(c, Budget(c))]

\* notifyBudgetCrossings: BullMQ keeps one job for a key.
Notify(c) ==
  /\ At(c, "notify")
  /\ mails' = mails \cup call[c].alerts
  /\ call' = [call EXCEPT ![c] = Done(@)]
  /\ UNCHANGED <<now, period, spend, lock>>

-----------------------------------------------------------------------------
(* What goes wrong. *)

\* The settling transaction of a stream that was served has failed once: what was
\* reserved is given back, as if the call had failed.
MayCreditBack(c) ==
  /\ c \in Streams /\ call[c].served
  /\ ~At(c, "reserve") /\ ~call[c].cut

\* A transaction fails: the database refuses a statement, or ends a deadlock.
TxFails(c) ==
  /\ InTransaction(c)
  /\ Rollback(c, IF MayCreditBack(c)
                 THEN [call[c] EXCEPT !.pc = "credit", !.at = 1, !.alerts = {},
                                      !.real = 0, !.cut = TRUE]
                 ELSE Done([call[c] EXCEPT !.cut = TRUE]))

\* The server process dies.
Dies(c) ==
  /\ ~At(c, "new") /\ ~At(c, "done")
  /\ Rollback(c, Done([call[c] EXCEPT !.cut = TRUE]))

Waits(c) == InTransaction(c) /\ ~CanLock(c)

\* A ring of transactions, each of which waits for another of them.
Deadlocked(c) ==
  \E ring \in SUBSET Calls :
    c \in ring /\ \A d \in ring : Waits(d) /\ lock[Budget(d)] \in ring
Victim == \E c \in Calls : Deadlocked(c) /\ TxFails(c)

-----------------------------------------------------------------------------
Step(c) ==
  \/ Reset(c) \/ Reserve(c) \/ Exceeded(c) \/ Answer(c) \/ Settle(c) \/ Notify(c)

Next ==
  \/ Tick
  \/ \E c \in Calls : Read(c) \/ Step(c) \/ TxFails(c) \/ Dies(c)

Spec == Init /\ [][Next]_vars

\* A call that has been made goes on (its chain has a deadline, its stream ends),
\* and the database ends a deadlock.  Nobody has to make a call.
FairSpec == Spec /\ WF_vars(Victim) /\ \A c \in Calls : WF_vars(Step(c))

-----------------------------------------------------------------------------
(* Properties. *)

\* The shapes; a locked row belongs to an open transaction that updated it, and no
\* row is ahead of the clock.
TypeOK ==
  /\ now \in 1 .. Periods
  /\ \A b \in Budgets : period[b] \in 1 .. now
  /\ lock \in [Budgets -> Calls \cup {Free}]
  /\ \A b \in Budgets : lock[b] # Free => b \in Touched(lock[b])
  /\ \A c \in Calls : call[c].pc \in
       {"new", "reset", "reserve", "chain", "settle", "credit", "notify", "done"}

\* Of what a budget shows as spent in its period, each call accounts for its part:
\* the estimate from the reservation, the difference to the real cost from the
\* settlement, whichever rollovers and rollbacks came between; and nothing else is
\* in it (resetIfElapsed's comment: no committed reservation is erased).
Part(c, b) ==
  (IF call[c].in[b] = period[b] THEN Estimate ELSE 0)
  + (IF call[c].out[b] = period[b] THEN call[c].real - Estimate ELSE 0)
  + (IF b \in Touched(c) THEN Delta(c) ELSE 0)
SpendIsAccounted ==
  \A b \in Budgets :
    spend[b] = (IF period[b] = 1 THEN Spent[b] ELSE 0) + SumFunction([c \in Calls |-> Part(c, b)])

\* Once all is quiet, a budget past 80% has had its alert in that period, unless it
\* was past it at first, or a call of the period failed, was cut off, or straddled a
\* rollover: its reservation may have been the one that crossed the line.  A cap of
\* 0 has no line (detectBudgetCrossings).
PastLine(b, amount) == 5 * amount >= 4 * Limit[b]
Plain(c, b) ==
  /\ ~call[c].cut
  /\ call[c].in[b] = call[c].label[b] /\ call[c].in[b] = call[c].out[b]
  /\ call[c].real > 0
AlertSent ==
  \A b \in Budgets :
    /\ Limit[b] > 0 /\ (period[b] = 1 => ~PastLine(b, Spent[b]))
    /\ \A c \in Calls : call[c].pc \in {"new", "done"}
    /\ \A c \in Calls : call[c].in[b] # 0 => Plain(c, b)
    /\ PastLine(b, spend[b])
    => <<b, period[b], "threshold">> \in mails

\* A caller is told not to retry only when no retry could help, and to try again
\* only when one could (FallbackExhaustedError.retriable, issue #737).  Two answers
\* are not judged by it, for they say that the request is wrong and not whether to
\* retry: "bad request", a 400, and "rejected", the 404, 413 or 422 of the provider
\* asked last.  Both are given even when another deployment had failed for a passing
\* reason.
HonestAnswer ==
  \A c \in Calls :
    /\ call[c].answer.told = "do not retry" => ~call[c].answer.couldWork
    /\ call[c].answer.told = "try again" => call[c].answer.couldWork

\* Every call that was made ends: two that lock the same budgets in opposite orders
\* do not wait for each other for ever.
CallsEnd == \A c \in Calls : ~At(c, "new") ~> At(c, "done")
=============================================================================
