------------------------------ MODULE SeqList ------------------------------
(***************************************************************************)
(* What the comments of Grammar-Mutator/include/list.h promise: a list is  *)
(* a sequence of data, and every operation is the one on sequences.  An    *)
(* insertion may fail for want of memory.                                  *)
(***************************************************************************)
EXTENDS Naturals, Sequences, SequencesExt

CONSTANTS Data, NULL

VARIABLES contents, result

vars == <<contents, result>>

Init == contents = <<>> /\ result = NULL

Insert(d) == contents' = <<d>> \o contents /\ UNCHANGED result

Add(d) == contents' = Append(contents, d) /\ UNCHANGED result

Delete(d) ==
    /\ result' = (d \in Range(contents))
    /\ contents' = IF d \in Range(contents)
                   THEN RemoveAt(contents, SelectInSeq(contents, LAMBDA x : x = d))
                   ELSE contents

PopFront ==
    /\ result' = IF contents = <<>> THEN NULL ELSE Head(contents)
    /\ contents' = IF contents = <<>> THEN <<>> ELSE Tail(contents)

Get(i) ==
    /\ result' = IF i < Len(contents) THEN contents[i + 1] ELSE NULL
    /\ UNCHANGED contents

Empty == result' = (contents = <<>>) /\ UNCHANGED contents

Destroy == contents' = <<>> /\ UNCHANGED result

Next ==
    \/ \E d \in Data : Insert(d) \/ Add(d) \/ Delete(d)
    \/ \E i \in 0..Len(contents) : Get(i)
    \/ PopFront \/ Empty \/ Destroy

Spec == Init /\ [][Next]_vars
=============================================================================
