------------------------------ MODULE Trimming -------------------------------
(***************************************************************************)
(* The trimming half of the custom mutator (src/grammar_mutator.c):        *)
(* afl_custom_init_trim, afl_custom_trim and afl_custom_post_trim, driven  *)
(* by AFL's trimming loop                                                  *)
(*                                                                         *)
(*     stage_cur = 0;  stage_max = afl_custom_init_trim();                 *)
(*     while (stage_cur < stage_max) {                                     *)
(*       afl_custom_trim();  <run the target>                              *)
(*       stage_cur = afl_custom_post_trim(success); }                      *)
(*                                                                         *)
(* Whether the trimmed test case keeps its behaviour is up to the target,  *)
(* so `success` is a free choice.  AFL may also give up between two calls. *)
(***************************************************************************)
EXTENDS TreeShape

CONSTANTS
  Trees,      \* trees that afl_custom_queue_get() may have loaded
  MinTrees,   \* id -> the trees that gen_funcs[id](0, ..) may return
  SIZE_T,     \* the number of values of a size_t
  NoTree      \* the NULL tree_t pointer

ASSUME TreesAssumption == Trees \subseteq Tree

(* gen_func(0, ..) draws from the cheapest rules only.  The generator can  *)
(* enumerate their trees only if no id is reachable from itself by them,   *)
(* so such a tree has no recursion edge.                                   *)
ASSUME MinTreesAssumption ==
  \A id \in Ids : \A m \in MinTrees[id] :
     m \in Tree /\ m[1].id = id /\ RecursionEdges(m) = {}

ASSUME SizeAssumption == SIZE_T \in Nat

ASSUME NoTreeAssumption == NoTree \notin Tree

VARIABLES
  tree_cur, trimmed_tree,
  non_terminal_node_list, recursion_edge_list,     \* of tree_cur
  cur_trimming_stage, trim_was_effective,
  cur_subtree_trimming_step, finished_subtree_trimming_nodes,
  total_subtree_trimming_steps,
  cur_recursive_trimming_step, finished_recursive_trimming_edges,
  total_recursive_trimming_steps,
  afl,                \* where AFL is: "idle", "got" (an entry), "loop", "run", "done"
  stage_cur, stage_max,
  tree_file,          \* what the file tree_fn_cur holds, NoTree if never written
  trimmed_at,         \* history: where trimmed_tree differs from tree_cur
  tried_nodes,        \* history: positions of tree_cur tried or generated minimal
  tried_edges         \* history: edges of tree_cur tried by recursive trimming

trees == <<tree_cur, trimmed_tree, non_terminal_node_list, recursion_edge_list>>
subtree == <<cur_subtree_trimming_step, finished_subtree_trimming_nodes,
             total_subtree_trimming_steps>>
recursive == <<cur_recursive_trimming_step, finished_recursive_trimming_edges,
               total_recursive_trimming_steps>>
stage == <<cur_trimming_stage, trim_was_effective>>
driver == <<afl, stage_cur, stage_max>>
history == <<trimmed_at, tried_nodes, tried_edges>>
vars == <<trees, subtree, recursive, stage, driver, tree_file, history>>

(* Subtraction of size_t values: it wraps below zero.                      *)
SizeSub(a, b) == IF b <= a THEN a - b ELSE a - b + SIZE_T

(* No position of a tree: the replaced part is not a copy.                 *)
Generated == 0

-----------------------------------------------------------------------------
Init ==
  /\ tree_cur = NoTree
  /\ trimmed_tree = NoTree
  /\ non_terminal_node_list = <<>> /\ recursion_edge_list = <<>>
  /\ cur_trimming_stage = 0 /\ trim_was_effective = FALSE
  /\ cur_subtree_trimming_step = 0 /\ finished_subtree_trimming_nodes = 0
  /\ total_subtree_trimming_steps = 0
  /\ cur_recursive_trimming_step = 0 /\ finished_recursive_trimming_edges = 0
  /\ total_recursive_trimming_steps = 0
  /\ afl = "idle" /\ stage_cur = 0 /\ stage_max = 0
  /\ tree_file = NoTree
  /\ trimmed_at = [pos |-> 1, src |-> Generated]
  /\ tried_nodes = {} /\ tried_edges = {}

(* afl_custom_queue_get(), as far as trimming depends on it: AFL turns to  *)
(* a queue entry.  The tree is the one in the entry's tree file, which is  *)
(* written now if it did not exist; it is NULL if the entry does not parse.*)
QueueGet(t) ==
  /\ afl \in {"idle", "done"}
  /\ tree_cur' = t /\ tree_file' = t
  /\ non_terminal_node_list' = <<>> /\ recursion_edge_list' = <<>>
  /\ afl' = "got"
  /\ trimmed_at' = [pos |-> 1, src |-> Generated]
  /\ tried_nodes' = {} /\ tried_edges' = {}
  /\ UNCHANGED <<trimmed_tree, subtree, recursive, stage, stage_cur, stage_max>>

(* afl_custom_init_trim() with no tree: nothing to trim.                   *)
InitTrimNoTree ==
  /\ afl = "got"
  /\ tree_cur = NoTree
  /\ stage_cur' = 0 /\ stage_max' = 0 /\ afl' = "done"
  /\ UNCHANGED <<trees, subtree, recursive, stage, tree_file, history>>

(* afl_custom_init_trim(): lists of tree_cur, all counters reset.          *)
InitTrim ==
  /\ afl = "got"
  /\ tree_cur # NoTree
  /\ non_terminal_node_list' = NonTerminals(tree_cur)
  /\ recursion_edge_list' = EdgeList(tree_cur)
  /\ cur_trimming_stage' = 0 /\ trim_was_effective' = FALSE
  /\ cur_subtree_trimming_step' = 0 /\ finished_subtree_trimming_nodes' = 0
  /\ total_subtree_trimming_steps' = non_term_size(tree_cur, 1)
  /\ cur_recursive_trimming_step' = 0 /\ finished_recursive_trimming_edges' = 0
  /\ total_recursive_trimming_steps' = recursion_edge_size(tree_cur)
  /\ stage_cur' = 0
  /\ stage_max' = non_term_size(tree_cur, 1) + recursion_edge_size(tree_cur)
  /\ afl' = "loop"
  /\ UNCHANGED <<tree_cur, trimmed_tree, tree_file, history>>

-----------------------------------------------------------------------------
(* afl_custom_trim() in stage 0: subtree_trimming() of the first node left *)
(* in the list.                                                            *)
SubtreeTrim ==
  /\ cur_trimming_stage = 0
  /\ non_terminal_node_list # <<>>      \* otherwise it dereferences NULL
  /\ LET node == Head(non_terminal_node_list) IN
     /\ \E m \in MinTrees[tree_cur[node].id] :
          trimmed_tree' = Replace(tree_cur, node, m)
     /\ trimmed_at' = [pos |-> node, src |-> Generated]
     /\ tried_nodes' = tried_nodes \cup {node}
  /\ non_terminal_node_list' = PopFront(non_terminal_node_list, 1)
  /\ UNCHANGED <<recursion_edge_list, tried_edges>>

(* afl_custom_trim() in stage 1: recursive_trimming() of the first edge    *)
(* left: the subnode takes the place of its parent.                        *)
RecursiveTrim ==
  /\ cur_trimming_stage = 1
  /\ recursion_edge_list # <<>>         \* otherwise it dereferences NULL
  /\ LET tail == Head(recursion_edge_list)
         par  == parent(tree_cur, tail) IN
     /\ trimmed_tree' = Replace(tree_cur, par, SubtreeAt(tree_cur, tail))
     /\ trimmed_at' = [pos |-> par, src |-> tail]
     /\ tried_edges' = tried_edges \cup {tail}
  /\ recursion_edge_list' = PopFront(recursion_edge_list, 1)
  /\ UNCHANGED <<non_terminal_node_list, tried_nodes>>

(* One pass of AFL's loop up to the run of the target.                     *)
Trim ==
  /\ afl = "loop" /\ stage_cur < stage_max
  /\ SubtreeTrim \/ RecursiveTrim
  /\ afl' = "run"
  /\ UNCHANGED <<tree_cur, subtree, recursive, stage, stage_cur, stage_max,
                 tree_file>>

-----------------------------------------------------------------------------
(* Mutants of SkippedNodes: the replaced node is not skipped; the node is  *)
(* skipped, but not its children.                                          *)
SkipNothing(t, list) == 0

SkipNodeOnly(t, list) == IF list = <<>> THEN 0 ELSE 1

(* How many more nodes post_trim pops after the ones it knows as finished: *)
(* "the node we just replaced" and then its non_term_size.                 *)
SkippedNodes(t, list) ==
  IF list = <<>> THEN 0 ELSE 1 + non_term_size(t, Head(list))

(* Mutants of NextStage: `>` for `>=`; the second test in an `else`.       *)
NextStageLate(s, subtree_step, recursive_step) ==
  LET s1 == IF s = 0 /\ subtree_step > total_subtree_trimming_steps
            THEN 1 ELSE s IN
  IF s1 = 1 /\ recursive_step > total_recursive_trimming_steps THEN 2 ELSE s1

NextStageElse(s, subtree_step, recursive_step) ==
  CASE s = 0 /\ subtree_step >= total_subtree_trimming_steps     -> 1
    [] s = 1 /\ recursive_step >= total_recursive_trimming_steps -> 2
    [] OTHER                                                     -> s

(* The stage after a call that leaves these numbers of steps done.         *)
NextStage(s, subtree_step, recursive_step) ==
  LET s1 == IF s = 0 /\ subtree_step >= total_subtree_trimming_steps
            THEN 1 ELSE s IN
  IF s1 = 1 /\ recursive_step >= total_recursive_trimming_steps THEN 2 ELSE s1

(* Mutant of EndPostTrim: the file is written after every success.         *)
EndPostTrimEager ==
  /\ trimmed_tree' = NoTree
  /\ cur_trimming_stage' = NextStage(cur_trimming_stage,
                             cur_subtree_trimming_step',
                             cur_recursive_trimming_step')
  /\ tree_file' = IF trim_was_effective' THEN tree_cur' ELSE tree_file
  /\ stage_cur' = cur_subtree_trimming_step' + cur_recursive_trimming_step'
  /\ afl' = IF stage_cur' < stage_max THEN "loop" ELSE "done"
  /\ UNCHANGED <<total_subtree_trimming_steps, total_recursive_trimming_steps,
                 stage_max, trimmed_at>>

(* The end of afl_custom_post_trim(), with the values its first part has   *)
(* assigned, and AFL's test of the returned progress.                      *)
EndPostTrim ==
  /\ trimmed_tree' = NoTree
  /\ cur_trimming_stage' = NextStage(cur_trimming_stage,
                             cur_subtree_trimming_step',
                             cur_recursive_trimming_step')
  /\ tree_file' = IF trim_was_effective' /\ cur_trimming_stage' > 1
                  THEN tree_cur' ELSE tree_file
  /\ stage_cur' = cur_subtree_trimming_step' + cur_recursive_trimming_step'
  /\ afl' = IF stage_cur' < stage_max THEN "loop" ELSE "done"
  /\ UNCHANGED <<total_subtree_trimming_steps, total_recursive_trimming_steps,
                 stage_max, trimmed_at>>

(* Where position k of the trimmed tree comes from in tree_cur.            *)
Origin(k) ==
  LET pos == trimmed_at.pos
      n   == non_term_size(tree_cur, pos)
      new == Len(trimmed_tree) - (Len(tree_cur) - n) IN
  CASE k < pos        -> k
    [] k >= pos + new -> k - new + n
    [] OTHER          -> IF trimmed_at.src = Generated THEN Generated
                         ELSE trimmed_at.src + (k - pos)

(* History: what was tried, by positions of the trimmed tree.  The edge    *)
(* above the replaced node stays the one it was.                           *)
MoveHistory ==
  /\ tried_nodes' = {k \in 1..Len(trimmed_tree) :
                       Origin(k) \in tried_nodes \cup {Generated}}
  /\ tried_edges' = {k \in RecursionEdges(trimmed_tree) :
                       (IF k = trimmed_at.pos THEN k ELSE Origin(k)) \in tried_edges}

(* afl_custom_post_trim(1): trimmed_tree becomes the current tree and both *)
(* lists are rebuilt, without the nodes and edges taken as finished.       *)
PostTrimSuccess ==
  /\ afl = "run"
  /\ trim_was_effective' = TRUE
  /\ tree_cur' = trimmed_tree
  /\ LET rest == PopFront(NonTerminals(trimmed_tree),
                          finished_subtree_trimming_nodes)
         skip == SkippedNodes(trimmed_tree, rest)
     IN  /\ non_terminal_node_list' = PopFront(rest, skip)
         /\ finished_subtree_trimming_nodes' =
              finished_subtree_trimming_nodes + skip
  /\ cur_subtree_trimming_step' =
       SizeSub(total_subtree_trimming_steps, Len(non_terminal_node_list'))
  /\ recursion_edge_list' = PopFront(EdgeList(trimmed_tree),
                                     finished_recursive_trimming_edges)
  /\ cur_recursive_trimming_step' =
       SizeSub(total_recursive_trimming_steps, Len(recursion_edge_list'))
  /\ finished_recursive_trimming_edges' = finished_recursive_trimming_edges
  /\ EndPostTrim
  /\ MoveHistory

(* Mutant of One: a failed attempt is not counted.                         *)
NotCounted(b) == 0

(* What a failed attempt adds to a counter of the stages that meet b.      *)
One(b) == IF b THEN 1 ELSE 0

(* afl_custom_post_trim(0): the trimmed tree is dropped, the step counts.  *)
PostTrimFailure ==
  /\ afl = "run"
  /\ cur_subtree_trimming_step' =
       cur_subtree_trimming_step + One(cur_trimming_stage = 0)
  /\ finished_subtree_trimming_nodes' =
       finished_subtree_trimming_nodes + One(cur_trimming_stage = 0)
  /\ cur_recursive_trimming_step' =
       cur_recursive_trimming_step + One(cur_trimming_stage = 1)
  /\ finished_recursive_trimming_edges' =
       finished_recursive_trimming_edges + One(cur_trimming_stage = 1)
  /\ UNCHANGED <<tree_cur, non_terminal_node_list, recursion_edge_list,
                 trim_was_effective, tried_nodes, tried_edges>>
  /\ EndPostTrim

(* External: AFL gives up on the entry, e.g. because it was told to stop.  *)
Abort ==
  /\ afl \in {"loop", "run"}
  /\ afl' = "idle"
  /\ UNCHANGED <<trees, subtree, recursive, stage, stage_cur, stage_max,
                 tree_file, history>>

PostTrim == PostTrimSuccess \/ PostTrimFailure

Next == \/ \E t \in Trees \cup {tree_file, NoTree} : QueueGet(t)
        \/ InitTrimNoTree \/ InitTrim \/ Trim \/ PostTrim \/ Abort

(* AFL's loop goes on until the progress reaches stage_max.                *)
Spec == Init /\ [][Next]_vars /\ WF_vars(Trim) /\ WF_vars(PostTrim)

-----------------------------------------------------------------------------
(* Every variable holds a value the code can give it; in particular both   *)
(* kinds of trimming turn a tree of the grammar's ids into such a tree.    *)
TypeOK ==
  /\ tree_cur \in Tree \cup {NoTree}
  /\ trimmed_tree \in Tree \cup {NoTree}
  /\ tree_file \in Tree \cup {NoTree}
  /\ non_terminal_node_list \in Seq(Nat) /\ recursion_edge_list \in Seq(Nat)
  /\ cur_trimming_stage \in 0..2 /\ trim_was_effective \in BOOLEAN
  /\ cur_subtree_trimming_step \in Nat
  /\ finished_subtree_trimming_nodes \in Nat
  /\ total_subtree_trimming_steps \in Nat
  /\ cur_recursive_trimming_step \in Nat
  /\ finished_recursive_trimming_edges \in Nat
  /\ total_recursive_trimming_steps \in Nat
  /\ afl \in {"idle", "got", "loop", "run", "done"}
  /\ stage_cur \in Nat /\ stage_max \in Nat
  /\ trimmed_at \in [pos : Nat, src : Nat]
  /\ tried_nodes \subseteq Nat /\ tried_edges \subseteq Nat

(* As long as AFL goes on calling afl_custom_trim(), the list of the       *)
(* current stage is not empty: list_pop_front() never returns NULL to be   *)
(* dereferenced, and the "wrong trimming stage" branch is dead.            *)
TrimHasWork ==
  afl = "loop" => /\ stage_cur < stage_max
                  /\ \/ cur_trimming_stage = 0 /\ non_terminal_node_list # <<>>
                     \/ cur_trimming_stage = 1 /\ recursion_edge_list # <<>>

(* Between two calls, and when the loop has ended, the progress that       *)
(* post_trim reports is exactly the total minus what is left in the lists. *)
(* So the size_t subtractions of post_trim have not wrapped (which would   *)
(* end the loop at once), although a minimal subtree may hold more nodes   *)
(* than the subtree it replaced.                                           *)
ProgressCountsLists ==
  (afl = "loop" \/ (afl = "done" /\ tree_cur # NoTree)) =>
    /\ cur_subtree_trimming_step + Len(non_terminal_node_list)
         = total_subtree_trimming_steps
    /\ cur_recursive_trimming_step + Len(recursion_edge_list)
         = total_recursive_trimming_steps

(* "To avoid repeating the previous attempts": no node is left in the list *)
(* that was tried, or that belongs to a minimal subtree put in.            *)
NoNodeTriedTwice ==
  afl = "loop" => \A k \in DOMAIN non_terminal_node_list :
                    non_terminal_node_list[k] \notin tried_nodes

(* Nor is an edge left that recursive trimming tried, although a success   *)
(* renumbers the edges and drops some of the tried ones.                   *)
NoEdgeTriedTwice ==
  afl = "loop" => \A k \in DOMAIN recursion_edge_list :
                    recursion_edge_list[k] \notin tried_edges

(* When AFL's loop ends, the tree file holds the trimmed tree: the next    *)
(* afl_custom_queue_get() of the entry reads what the fuzzing works on.    *)
FileIsCurrent == afl = "done" => tree_file = tree_cur

(* Only the trees of trimming end up in the tree file, and only once the   *)
(* whole trimming of the entry is over.                                    *)
FileWrittenAtEnd ==
  [][(tree_file' # tree_file /\ afl = "run") => afl' = "done"]_vars

(* What AFL's loop relies on: see TrimContract.                            *)
Contract == INSTANCE TrimContract WITH
  running <- afl \in {"loop", "run"}, progress <- stage_cur, bound <- stage_max

ImplementsContract == Contract!Spec

-----------------------------------------------------------------------------
(* "We want to skip it and its children" (post_trim, about the replaced    *)
(* node): every other node of the final tree was tried.  It does not hold. *)
EveryNodeTried ==
  afl = "done" /\ tree_cur # NoTree => 1..Len(tree_cur) \subseteq tried_nodes

(* "Avoid repeating work by skipping edges that we have already tried"     *)
(* (post_trim): every other edge of the final tree was tried.  It does not *)
(* hold.                                                                   *)
EveryEdgeTried ==
  afl = "done" /\ tree_cur # NoTree => RecursionEdges(tree_cur) \subseteq tried_edges
=============================================================================
