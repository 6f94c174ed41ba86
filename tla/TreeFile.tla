------------------------------ MODULE TreeFile ------------------------------
(***************************************************************************)
(* The tree file of one test case (Grammar-Mutator/src/tree.c): trees are  *)
(* serialised in preorder and the file is read back on trust, with no      *)
(* length or checksum in front.  A write can fail, be short, or be cut off *)
(* by the end of the process at any point.                                 *)
(*                                                                         *)
(* A tree is the sequence of its nodes in preorder, each with the number   *)
(* of its subnodes; that is the order in which they are written and read.  *)
(* A file is a sequence of cells.  The four fields of a node's header take *)
(* one cell each, a value one cell per byte.  Cells behind the end of the  *)
(* file read as 0: that is the rest of the last mapped page, and values    *)
(* that run over a torn end are taken to stay within it.                   *)
(***************************************************************************)
EXTENDS Integers, Sequences, FiniteSets, SequencesExt

CONSTANTS
    Trees,      \* the trees that are written
    NoTree,     \* NULL
    MaxFds,     \* descriptors the process may have open
    MaxCrashes

TreeNode == [id : Nat, rule : Nat, subs : Nat, val : Seq(Nat)]

(* the subnodes that are still to come after the first k nodes *)
Open(t) ==
    LET open[k \in 0..Len(t)] == IF k = 0 THEN 1 ELSE open[k - 1] - 1 + t[k].subs
    IN  open

(* the preorder of a tree, whose terminals (id 0) have no subnodes *)
ASSUME TreesAssumption ==
    /\ \A t \in Trees :
        /\ t \in Seq(TreeNode)
        /\ \A k \in 1..Len(t) : t[k].id = 0 => t[k].subs = 0
        /\ \A k \in 0..Len(t) : Open(t)[k] >= 0 /\ (Open(t)[k] = 0 <=> k = Len(t))
    /\ NoTree \notin Seq(TreeNode) /\ NoTree \notin Seq(Nat)

VARIABLES
    file,     \* the cells, or NoTree if there is no file
    pc,       \* "idle", or "write" between open() and write()
    tree,     \* the tree being written
    fds,      \* open descriptors
    result,   \* of the last read_tree_from_file()
    written,  \* history: the tree of the last complete write, if none since
    failed,   \* history: error returns of this process
    crashes

vars == <<file, pc, tree, fds, result, written, failed, crashes>>

-----------------------------------------------------------------------------
(* Serialisation *)

HeaderLen == 4

(* what _node_serialize() writes of a node before its subnodes *)
SerializeNode(n) == <<n.id, n.rule, n.subs, Len(n.val)>> \o n.val

(* tree_serialize() *)
Serialize(t) == FlattenSeq([k \in DOMAIN t |-> SerializeNode(t[k])])

(* a read of the mapped file, behind its end too *)
Cell(f, i) == IF i <= Len(f) THEN f[i] ELSE 0

(* data_size - consumed < min_len on size_t: once a value ran over the end *)
(* the difference wraps and no longer refuses anything                     *)
TooShort(f, consumed) ==
    /\ consumed <= Len(f)
    /\ Len(f) - consumed < HeaderLen

(* _node_deserialize() of one more node, if any is missing (open): it is   *)
(* added to nodes and its subnodes are to be read next.  The first refusal *)
(* makes all calls under way return NULL.  Behind the end of the file all  *)
(* fields are 0, so the missing nodes are terminals without value.         *)
DeserializeNode(f, s) ==
    LET at == s.consumed
        val_len == Cell(f, at + 4)
        node == [id |-> Cell(f, at + 1), rule |-> Cell(f, at + 2), subs |-> Cell(f, at + 3),
                 val |-> [i \in 1..val_len |-> Cell(f, at + HeaderLen + i)]]
        empty == [id |-> 0, rule |-> 0, subs |-> 0, val |-> <<>>]
    IN  IF s.open = 0 THEN s
        ELSE IF TooShort(f, at)
        THEN [nodes |-> s.nodes, consumed |-> at, open |-> 0, ok |-> FALSE]
        ELSE IF at > Len(f)
        THEN [nodes |-> s.nodes \o [i \in 1..s.open |-> empty],
              consumed |-> at + s.open * HeaderLen, open |-> 0, ok |-> s.ok]
        ELSE [nodes |-> Append(s.nodes, node), consumed |-> at + HeaderLen + val_len,
              open |-> s.open - 1 + node.subs, ok |-> s.ok]

(* _node_deserialize() of the root: no more nodes than cells are in f, and *)
(* one step is for those behind its end                                    *)
DeserializeNodes(f) ==
    LET s[k \in 0..(Len(f) + 1)] ==
            IF k = 0 THEN [nodes |-> <<>>, consumed |-> 0, open |-> 1, ok |-> TRUE]
            ELSE DeserializeNode(f, s[k - 1])
    IN  s[Len(f) + 1]

(* mutant: bytes behind the tree are refused instead of missing ones *)
DeserializeAtLeast(f) ==
    LET d == DeserializeNodes(f)
    IN  IF d.ok /\ d.consumed >= Len(f) THEN d.nodes ELSE NoTree

(* tree_deserialize(); bytes behind the tree are ignored *)
Deserialize(f) ==
    LET d == DeserializeNodes(f)
    IN  IF d.ok /\ d.consumed <= Len(f) THEN d.nodes ELSE NoTree

-----------------------------------------------------------------------------
(* Files *)

Init ==
    /\ file = NoTree
    /\ pc = "idle"
    /\ tree = NoTree
    /\ fds = 0
    /\ result = NoTree
    /\ written = NoTree
    /\ failed = 0
    /\ crashes = 0

(* mutant: open() without O_TRUNC *)
OpenKept == IF file = NoTree THEN <<>> ELSE file

(* the content after open(O_TRUNC) *)
OpenTrunc == <<>>

(* write_tree_to_file() up to open() *)
WriteOpen ==
    /\ pc = "idle"
    /\ fds < MaxFds
    /\ tree' \in Trees
    /\ file' = OpenTrunc
    /\ fds' = fds + 1
    /\ written' = NoTree
    /\ pc' = "write"
    /\ UNCHANGED <<result, failed, crashes>>

(* open() fails, for want of a descriptor or otherwise: nothing happens *)
WriteOpenFails ==
    /\ pc = "idle"
    /\ UNCHANGED vars

(* write() of cells at the start of the file: what was behind stays *)
Overwrite(f, cells) == cells \o SubSeq(f, Len(cells) + 1, Len(f))

(* mutant: the descriptor is not closed *)
WriteAllUnclosed ==
    /\ pc = "write"
    /\ file' = Overwrite(file, Serialize(tree))
    /\ written' = tree
    /\ tree' = NoTree
    /\ pc' = "idle"
    /\ UNCHANGED <<fds, result, failed, crashes>>

(* write() of the whole buffer, and close() *)
WriteAll ==
    /\ pc = "write"
    /\ file' = Overwrite(file, Serialize(tree))
    /\ written' = tree
    /\ fds' = fds - 1
    /\ tree' = NoTree
    /\ pc' = "idle"
    /\ UNCHANGED <<result, failed, crashes>>

(* write() fails or is short: the function returns without close() *)
WriteShort ==
    /\ pc = "write"
    /\ \E n \in 0..(Len(Serialize(tree)) - 1) :
        file' = Overwrite(file, SubSeq(Serialize(tree), 1, n))
    /\ failed' = failed + 1
    /\ tree' = NoTree
    /\ pc' = "idle"
    /\ UNCHANGED <<fds, result, written, crashes>>

(* read_tree_from_file() of a file that cannot be opened *)
ReadOpenFails ==
    /\ pc = "idle"
    /\ result' = NoTree
    /\ UNCHANGED <<file, pc, tree, fds, written, failed, crashes>>

(* fstat() or mmap() fails, mmap() for every empty file: the error return  *)
(* leaves the file open                                                    *)
ReadMapFails ==
    /\ pc = "idle"
    /\ file # NoTree
    /\ fds < MaxFds
    /\ result' = NoTree
    /\ fds' = fds + 1
    /\ failed' = failed + 1
    /\ UNCHANGED <<file, pc, tree, written, crashes>>

(* read_tree_from_file() *)
Read ==
    /\ pc = "idle"
    /\ file \notin {NoTree, <<>>}
    /\ fds < MaxFds
    /\ result' = Deserialize(file)
    /\ UNCHANGED <<file, pc, tree, fds, written, failed, crashes>>

(* the process ends, possibly within write(); a new one starts *)
Crash ==
    /\ crashes < MaxCrashes
    /\ crashes' = crashes + 1
    /\ IF pc = "write"
       THEN \E n \in 0..(Len(Serialize(tree)) - 1) :
                file' = Overwrite(file, SubSeq(Serialize(tree), 1, n))
       ELSE UNCHANGED file
    /\ pc' = "idle"
    /\ tree' = NoTree
    /\ fds' = 0
    /\ failed' = 0
    /\ UNCHANGED <<result, written>>

Next ==
    \/ WriteOpen \/ WriteOpenFails \/ WriteAll \/ WriteShort
    \/ ReadOpenFails \/ ReadMapFails \/ Read \/ Crash

Spec == Init /\ [][Next]_vars

-----------------------------------------------------------------------------
(* Properties *)

(* What read_tree_from_file() would make of the file is the tree of the    *)
(* last complete write_tree_to_file() or nothing: a file torn at any cell  *)
(* by a short write or a crash is refused, not read as another tree.       *)
TornFileRefused == (IF file = NoTree THEN NoTree ELSE Deserialize(file)) = written

(* Open descriptors are the one being written and those that the error     *)
(* returns of read_tree_from_file() and write_tree_to_file() left behind;  *)
(* no successful call leaves one.                                          *)
DescriptorsLostByErrors ==
    fds = failed + (IF pc = "write" THEN 1 ELSE 0)

(* The register holds the tree of the last complete write, until the next  *)
(* write opens the file.                                                   *)
Register == INSTANCE TreeRegister WITH content <- written

(* write_tree_to_file() and read_tree_from_file() implement the register:  *)
(* whatever failures and crashes cut the writes short, a read gives the    *)
(* tree of the last complete write or nothing.                             *)
ImplementsRegister == Register!Spec
=============================================================================
