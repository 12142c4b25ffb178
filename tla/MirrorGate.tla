----------------------------- MODULE MirrorGate -----------------------------
(***************************************************************************)
(* What a Redis mirror of a table column promises its readers: they see    *)
(* some version that was committed, never one that was not, and they do    *)
(* not stay behind for ever.  Sessions implements it.                      *)
(***************************************************************************)
EXTENDS Naturals

VARIABLES
  truth,  \* the committed version of the column
  seen    \* the version a reader is answered with

vars == <<truth, seen>>

Init == truth = 0 /\ seen = 0
Change == truth' = truth + 1 /\ seen' \in {seen, truth + 1}
Show == truth' = truth /\ seen' \in 0 .. truth
Next == Change \/ Show
Settles == []<>(seen = truth)
Spec == Init /\ [][Next]_vars /\ Settles
=============================================================================
