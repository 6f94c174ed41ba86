---------------------------- MODULE TreeRegister ----------------------------
(***************************************************************************)
(* What the rest of the mutator relies on when it keeps a tree in a file   *)
(* (write_tree_to_file and read_tree_from_file of                          *)
(* Grammar-Mutator/src/tree.c): a register that holds one tree or none.    *)
(* It may lose its tree, and a read may fail, but it never holds or gives  *)
(* back anything that was not written.                                     *)
(***************************************************************************)
CONSTANTS Trees, NoTree

VARIABLES content, result

vars == <<content, result>>

Init ==
    /\ content = NoTree
    /\ result = NoTree

Put == \E t \in Trees : content' = t /\ UNCHANGED result

Lose == content' = NoTree /\ UNCHANGED result

Get == result' \in {content, NoTree} /\ UNCHANGED content

Next == Put \/ Lose \/ Get

Spec == Init /\ [][Next]_vars
=============================================================================
