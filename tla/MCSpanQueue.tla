---------------------------- MODULE MCSpanQueue ----------------------------
(***************************************************************************)
(* The span queue for TLC.  The programs cover a report that must be split *)
(* and whose rest is shed when the next one overflows the buffer, two that *)
(* merge around a third with another capture flag, one that cannot be      *)
(* split (no trace id), and one without a trace id that is stored.  The    *)
(* last two retry their requests.                                          *)
(***************************************************************************)
EXTENDS SpanQueue

CONSTANTS tA, tB

Rep(t, c, ss) == [trace |-> t, capture |-> c, spans |-> ss]

Splits == << Rep(tA, TRUE, <<1, 2, 3, 4>>), Rep(tA, TRUE, <<5, 6, 7>>) >>
Merges == << Rep(tA, TRUE, <<1>>), Rep(tA, FALSE, <<2>>), Rep(tA, TRUE, <<3>>) >>
TooLarge == << Rep(tB, TRUE, <<1>>), Rep(None, TRUE, <<2, 3, 4, 5>>) >>
Untraced == << Rep(None, TRUE, <<1>>) >>

MCPrograms == {Splits, Merges, TooLarge, Untraced}
MCMaxRetries == [p \in MCPrograms |-> IF p \in {TooLarge, Untraced} THEN 1 ELSE 0]
=============================================================================
