------------------------------ MODULE MCTraces ------------------------------
(***************************************************************************)
(* Traces for TLC.  Two reports touch two traces in opposite orders, one   *)
(* naming its root, the other with a child of the first one's span; an     *)
(* export may be sent twice, and another one upserts the same spans; a     *)
(* report names one trace twice; of the gateway calls c1 brings a default  *)
(* name, c2 nothing and c3 a name of the caller's.                         *)
(***************************************************************************)
EXTENDS Traces

CONSTANTS tA, tB, r1, r2, r3, x1, x2, c1, c2, c3

Span(ref, parent, tokens, error) ==
  [ref |-> ref, parent |-> parent, tokens |-> tokens, error |-> error]
Part(t, name, start, spans) ==
  [trace |-> t, name |-> name, start |-> start, spans |-> spans]

AllKinds == (r1 :> "report") @@ (r2 :> "report") @@ (r3 :> "report")
              @@ (x1 :> "export") @@ (x2 :> "export") @@ (c1 :> "call") @@ (c2 :> "call") @@ (c3 :> "call")
AllEntries ==
  (r1 :> << Part(tA, "root", 2, <<Span(1, 0, 1, FALSE)>>),
            Part(tB, "none", 2, <<Span(2, 0, 2, FALSE)>>) >>)
  @@ (r2 :> << Part(tB, "joins", 1, <<Span(3, 0, 4, TRUE)>>),
               Part(tA, "none", 3, <<Span(4, 1, 8, FALSE)>>) >>)
  @@ (r3 :> << Part(tA, "none", 3, <<Span(10, 0, 512, FALSE)>>),
               Part(tA, "none", 1, <<Span(11, 0, 1024, FALSE)>>) >>)
  @@ (x2 :> << Part(tA, "default", 2, <<Span(6, 0, 32, FALSE), Span(5, 6, 32, TRUE)>>) >>)
  @@ (x1 :> << Part(tA, "default", 1, <<Span(5, 9, 16, TRUE), Span(6, 0, 16, FALSE)>>) >>)
  @@ (c1 :> << Part(tA, "default", 2, <<Span(7, 1, 64, FALSE)>>) >>)
  @@ (c2 :> << Part(tB, "none", 1, <<Span(8, 0, 128, FALSE)>>) >>)
  @@ (c3 :> << Part(tA, "chosen", 3, <<Span(9, 0, 256, FALSE)>>) >>)

MCKinds == [r \in Requests |-> AllKinds[r]]
MCEntries == [r \in Requests |-> AllEntries[r]]
MCWorkloads == {{r1, r2, x1, c1}, {r1, r2, x1, c2}, {r1, x1, c1, c3}, {x1, x2, r3}}
MCSends == [r \in Requests |-> IF r = x1 THEN 2 ELSE 1]
=============================================================================
