------------------------------ MODULE Fallback ------------------------------
(***************************************************************************)
(* The fallback chain of a gateway call: its deployments are called in     *)
(* order, with retries on the same one, under one deadline.  The chain is  *)
(* a value and an attempt maps it to the next, so that Chains is the set   *)
(* of all the chains that the providers and the clock can make.            *)
(*                                                                         *)
(* How an attempt ends: "ok", "transient" (429, 5xx, network, timeout),    *)
(* "denied" (a permanent failure, as a bad key), "blocked" (the address is *)
(* refused by the gateway), "refused" (a 400 for reasoning_effort), "bad"  *)
(* (any other 400) or "fault" (a 404, 413 or 422 that says why).  The      *)
(* clock: "early" while a retry still has the time, "slow" after that,     *)
(* "late" past the chain's deadline.                                       *)
(***************************************************************************)
EXTENDS Naturals, FiniteSets

CONSTANTS
  Deployments,   \* how many there are for the model
  MaxRetries     \* retries of one deployment

ASSUME ChainAssumption == Deployments \in Nat \ {0} /\ MaxRetries \in Nat

Outcomes == {"ok", "transient", "denied", "blocked", "refused", "bad", "fault"}
Times == {"early", "slow", "late"}
NotBefore(t) ==
  CASE t = "early" -> Times [] t = "slow" -> {"slow", "late"} [] t = "late" -> {"late"}

\* An attempt that begins past the deadline is cut off at once.
OutcomesFrom(t) == IF t = "late" THEN {"transient"} ELSE Outcomes

\* stream: only the selection of a stream; fallback: the caller allows one.
Modes == [stream : BOOLEAN, fallback : BOOLEAN]

\* The chain before its first attempt.  seen is what the attempts came to.
Start(mode) ==
  [mode |-> mode, dep |-> 1, tryN |-> 0, dropped |-> FALSE, retriable |-> FALSE,
   blocked |-> FALSE, last |-> "none", seen |-> {}, clock |-> "early", ended |-> FALSE]

Ended(ch) == [ch EXCEPT !.ended = TRUE]

\* On to the next deployment, unless there is none, none is wanted or no time.
NextDeployment(ch) ==
  IF ~ch.mode.fallback \/ ch.dep = Deployments THEN Ended(ch)
  ELSE IF ch.clock = "late" THEN [Ended(ch) EXCEPT !.retriable = TRUE]
  ELSE [ch EXCEPT !.dep = @ + 1, !.tryN = 0, !.dropped = FALSE]

\* The same deployment again; a stream opens it without another look at the clock.
SameDeployment(ch) ==
  IF ch.clock = "late" /\ ~ch.mode.stream THEN NextDeployment(ch) ELSE ch

\* Mutant: the last failure decides whether a later call could succeed.
Failed_Last(ch, outcome, t) ==
  [ch EXCEPT !.last = outcome, !.seen = @ \cup {outcome}, !.clock = t,
             !.retriable = (outcome = "transient"),
             !.blocked = @ \/ outcome = "blocked"]
\* What a failed attempt adds to what the chain knows.
Failed(ch, outcome, t) ==
  [ch EXCEPT !.last = outcome, !.seen = @ \cup {outcome}, !.clock = t,
             !.retriable = @ \/ outcome = "transient",
             !.blocked = @ \/ outcome = "blocked"]

MayRetry(ch) ==
  /\ ~ch.mode.stream
  /\ ch.last = "transient" /\ ch.tryN < MaxRetries
  /\ ch.clock = "early"

\* One attempt: it ends with an outcome at time t, and the loop comes round at u
\* (a retry sleeps first).
Attempt(ch, outcome, t, u) ==
  LET failed == Failed(ch, outcome, t)
      At(c) == [c EXCEPT !.clock = u]
  IN  IF outcome = "ok"
      THEN Ended([ch EXCEPT !.last = "ok", !.seen = @ \cup {"ok"}])
      ELSE IF outcome = "refused" /\ ~ch.dropped
      THEN SameDeployment(At([failed EXCEPT !.dropped = TRUE]))
      ELSE IF outcome \in {"refused", "bad"} /\ ~ch.mode.stream
      THEN [Ended(failed) EXCEPT !.retriable = FALSE, !.blocked = FALSE]
      ELSE IF MayRetry(failed)
      THEN SameDeployment(At([failed EXCEPT !.tryN = @ + 1]))
      ELSE NextDeployment(At(failed))

\* The chains after n attempts; those that have ended stay.
After(mode) ==
  LET MaxAttempts == Deployments * (MaxRetries + 2)
      after[n \in 0 .. MaxAttempts] ==
        IF n = 0 THEN {Start(mode)}
        ELSE UNION { IF ch.ended THEN {ch}
                     ELSE UNION { { Attempt(ch, o, t, u) : u \in NotBefore(t) } :
                                  o \in OutcomesFrom(ch.clock), t \in NotBefore(ch.clock) } :
                     ch \in after[n - 1] }
  IN  after[MaxAttempts]

Chains == UNION {After(mode) : mode \in Modes}

\* mapProviderError: what the caller is told.  The error reported is the blocked
\* address if there was one, else the last one; one that finds fault with the
\* request is passed on, whatever a later call of the chain could do.
Told(ch) ==
  LET reported == IF ch.blocked THEN "blocked" ELSE ch.last
  IN  IF ch.last = "ok" THEN "ok"
      ELSE IF reported \in {"refused", "bad"} THEN "bad request"
      ELSE IF reported = "fault" THEN "rejected"
      ELSE IF reported = "transient" \/ ch.retriable THEN "try again"
      ELSE "do not retry"

\* What is the case: an attempt failed for a passing reason, or a deployment that
\* the caller would have taken was not tried.
CouldWork(ch) ==
  \/ "transient" \in ch.seen
  \/ ch.mode.fallback /\ ch.dep < Deployments
\* How a chain may end, as far as its caller is concerned.
Endings ==
  {[stream |-> ch.mode.stream, told |-> Told(ch), couldWork |-> CouldWork(ch)] : ch \in Chains}
=============================================================================
