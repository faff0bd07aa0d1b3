---------------------------- MODULE SearchSession ----------------------------
(***************************************************************************)
(* What the search session promises the launcher's window, in the words of  *)
(* its comment: only the newest query may touch the screen.  Searches are    *)
(* numbered as they begin; the number of the one the screen answers never     *)
(* goes back, and never runs ahead of what has begun.                        *)
(***************************************************************************)
EXTENDS Naturals

VARIABLES begun,      \* number of the newest search
          published   \* number of the newest search the screen has answered

Init == begun = 0 /\ published = 0

Begin == begun' = begun + 1 /\ UNCHANGED published

Publish == published' \in published + 1 .. begun /\ UNCHANGED begun

Next == Begin \/ Publish

Spec == Init /\ [][Next]_<<begun, published>>
=============================================================================
