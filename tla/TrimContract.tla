---------------------------- MODULE TrimContract -----------------------------
(***************************************************************************)
(* What AFL's trimming loop needs of a custom mutator.  afl_custom_init_   *)
(* trim() announces a bound; every afl_custom_post_trim() returns a larger *)
(* progress than before, never beyond the bound; the loop stops when the   *)
(* bound is reached, or when AFL gives up.                                 *)
(***************************************************************************)
EXTENDS Naturals

VARIABLES running, progress, bound

vars == <<running, progress, bound>>

Init == running = FALSE /\ progress = 0 /\ bound = 0

Start ==
  /\ ~running
  /\ bound' \in Nat
  /\ progress' = 0
  /\ running' = (bound' > 0)

Advance ==
  /\ running
  /\ progress' \in (progress + 1)..bound
  /\ running' = (progress' < bound)
  /\ UNCHANGED bound

GiveUp == running /\ running' = FALSE /\ UNCHANGED <<progress, bound>>

Next == Start \/ Advance \/ GiveUp

Spec == Init /\ [][Next]_vars /\ WF_vars(Advance)
=============================================================================
