---------------------------- MODULE MCLinkedList ----------------------------
(* Lists of up to four nodes that hold two kinds of data, so that data     *)
(* occurs more than once.                                                  *)
EXTENDS LinkedList
=============================================================================
