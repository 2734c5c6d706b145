---------------------------- MODULE RunLifecycle ----------------------------
(***************************************************************************)
(* What an evaluation run promises to whoever reads its row, whatever is   *)
(* producing its results: the server's queue workers (RunEngine) or the    *)
(* caller's own SDK process (LocalRun).                                    *)
(*                                                                         *)
(* A run in flight always has a driver, something that will still settle   *)
(* it, unless that driver was lost: its process died, or it gave up.  A    *)
(* settled run may be settled again by a late driver, but only a re-judge  *)
(* puts it back in flight.                                                 *)
(***************************************************************************)

VARIABLES
  status,   \* the run row's status, "none" before it exists
  driven,   \* something that will settle the run is alive
  lost      \* something that was to settle the run is gone

vars == <<status, driven, lost>>

InFlight == {"queued", "running"}
Settled  == {"succeeded", "failed"}

Init ==
  /\ status = "none"
  /\ driven = FALSE
  /\ lost = FALSE

\* The run row appears, and the request that created it drives it.
Create ==
  /\ status = "none"
  /\ status' \in InFlight
  /\ driven' = TRUE
  /\ UNCHANGED lost

\* The first result is being produced.
Begin ==
  /\ status = "queued"
  /\ status' = "running"
  /\ UNCHANGED <<driven, lost>>

\* A run in flight reaches an end.
Settle ==
  /\ status \in InFlight
  /\ status' \in Settled
  /\ driven' \in BOOLEAN
  /\ UNCHANGED lost

\* A driver that outlived an earlier end writes its own.
Resettle ==
  /\ status \in Settled
  /\ status' \in Settled
  /\ driven' \in BOOLEAN
  /\ UNCHANGED lost

\* A re-judge puts a settled run back in flight and drives it.
Reopen ==
  /\ status \in Settled
  /\ status' = "running"
  /\ driven' = TRUE
  /\ UNCHANGED lost

\* A driver is gone, its process dead or its last attempt failed unnoticed;
\* the run may be left with none.
Lose ==
  /\ status \in InFlight \cup Settled
  /\ driven' \in BOOLEAN
  /\ lost' = TRUE
  /\ UNCHANGED status

\* A lost run may be picked up again by whatever is left.
Adopt ==
  /\ lost
  /\ driven' \in BOOLEAN
  /\ UNCHANGED <<status, lost>>

\* The run's row and results are removed.
Delete ==
  /\ status \in Settled \cup {"running"}
  /\ status' = "deleted"
  /\ driven' \in BOOLEAN
  /\ UNCHANGED lost

Next ==
  \/ Create \/ Begin \/ Settle \/ Resettle \/ Reopen
  \/ Lose \/ Adopt \/ Delete

Spec     == Init /\ [][Next]_vars
FairSpec == Spec /\ WF_vars(Settle)
=============================================================================
