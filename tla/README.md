# Verification of the information-leak benchmark suite

The repository is a set of programs with information leaks and an experiment
that lets fuzzers and a bounded model checker look for them. Its own logic with
state, protocols and long call sequences is the grammar-based custom mutator
that AFL++ loads, `experiment/Grammar-Mutator`. This project models that mutator
in TLA+, from the tables that its build generates to the files it leaves behind
when it is killed, and beside it the harness, one benchmark subject and the
script that runs the experiments. It model-checks them with TLC on small
instances and proves the main safety properties with TLAPS for every value of
the constants. Paths below are relative to the repository; `GM/` stands for
`experiment/Grammar-Mutator/`.

## 1. Inventory

| Component | State | Operations | Correct when |
|---|---|---|---|
| Derivation trees (`GM/src/tree.c`, `list.c`) | nodes with id, rule id, parent, subnodes; two lists of pointers into the tree | clone, sizes, lists of non-terminals and recursion edges, replace a subnode | sizes and lists agree with the tree, replacing a subtree gives a tree |
| Trimming (`GM/src/grammar_mutator.c`, `tree_trimming.c`) | current and trimmed tree, stage, three counters per stage, the tree file | `afl_custom_init_trim`, `afl_custom_trim`, `afl_custom_post_trim` | no call without work, exact progress, nothing tried twice, the file ends up current, the loop ends |
| Fuzzing (`GM/src/grammar_mutator.c`, `tree_mutation.c`) | stage and step, four budgets, the cursor (node, rule) of the deterministic stage, the mutated tree | `afl_custom_fuzz_count`, `afl_custom_fuzz`, `afl_custom_queue_new_entry` | the cursor stays on the tree, all rules are tried, budgets and order are kept |
| Life cycle (`GM/src/grammar_mutator.c`, `utils.c`) | current file names, the `trees` directory | `afl_custom_init`, `afl_custom_queue_get`, `afl_custom_deinit` | a tree file belongs to its test case, no tree is freed twice or used after it was freed |
| Chunk store (`GM/src/chunk_store.c`) | hash to subtree, id to list of subtrees | add a tree, draw an alternative, clear | every stored subtree is owned once, equal hash means equal subtree |
| Tree files (`GM/src/tree.c`) | buffer | serialise, deserialise, read, write | reading gives back what was written; a truncated file is refused |
| Linked lists (`GM/src/list.c`) | nodes with next and prev, head, tail, size | insert, append, remove, pop, get, free | every operation does to the sequence what `list.h` says |
| Parser shim (`GM/lib/antlr4_shim`) | none | parse tree to derivation tree | – |
| Generator of grammar tables (`GM/grammars/*.py`) | costs of keys and rules, reordered grammar, pool of shortest trees; in the generated C code a stack of `gen_node_*` calls | fixpoint of costs, sorting, enumeration of the pool; generation within a length limit | costs are the exact minima, the passes end, a generated text keeps its limit, `gen_func(0)` gives a shortest tree |
| Leakage harness (`leakage_test/decode_inputs.c`, `base64.c`, `memory.c`) | two buffers | split a test case in public and secret part; fill memory | both inputs or none; what was encoded comes back |
| Benchmark subjects (`leakage_test/*`) | none or a small heap | one run per input | the output does not depend on the secret (in the secure variants) |
| Experiment runner (`run_experiment.sh`) | the container with the fixed name, ASLR setting, output directory | build, run, copy results | experiments run without ASLR, a run copies its own results |

*How they interact.* AFL calls the mutator's functions from one thread. For a
queue entry it calls `queue_get`, which reads the entry's tree file or parses
the test case and writes the tree file; once per entry the trimming loop; and
then `fuzz_count` and the fuzzing loop, with `queue_new_entry` after every
interesting run. The two loops share `tree_cur` and its node lists; mutation by
splicing draws from the chunk store, which all entries fill. AFL's own stages may
follow the custom one; they report new entries through the same function. The
generator's tables decide what `gen_func` may return to trimming and mutation.

*What is hard.* There is no concurrency. The difficulty is in long sequences of
calls in which the target decides the outcome: counters that refer to positions
in a tree that was replaced meanwhile, unsigned subtractions, stages without
work, lists popped without a test for NULL, cursors that live over hundreds of
calls, files that are rewritten only at the end, and a crash or an abort between
any two calls. `PROJECT.json` lists these hazards with their lines.

## 2. Modules

| Module | Models |
|---|---|
| `TreeShape` | a tree as the preorder sequence of its non-terminal nodes with depths; sizes, recursion edges, lists, replacement |
| `Trimming` | the trimming functions and AFL's trimming loop |
| `TrimContract` | what AFL's loop relies on (abstract specification) |
| `Fuzzing` | the fuzzing functions and AFL's fuzzing loop |
| `ChunkStore` | the store of subtrees: nodes on a heap, shared by hash |
| `TreeFile` | serialisation, reading and writing of one tree file |
| `TreeRegister` | what a tree file is good for (abstract specification) |
| `MutatorSession` | the whole life of the mutator: three trees, all tree files, AFL's calls, aborts, kills and restarts |
| `GrammarDef` | grammars and what a grammar derives, the reference for the next two |
| `GrammarCost` | the generator's fixpoint of costs, the reordered grammar and the pool |
| `NodeGen` | the generated `gen_node_*` functions |
| `LinkedList`, `SeqList` | `list.c`, and the sequence of `list.h` (abstract specification) |
| `Base64`, `DecodeInputs` | the harness's decoding of a test case |
| `PasswordCheck` | two executions of `password_secure.cpp` side by side |
| `ExperimentRunner` | repeated runs of `run_experiment.sh` |
| `MC*` | instances for TLC |
| `TreeShapeProofs`, `TrimmingProofs`, `FuzzingProofs`, `MutatorSessionProofs`, `ChunkStoreProofs` | lemmas and theorems about the module of that name |
| `ListAndFileProofs` | about `LinkedList` and `TreeFile` |
| `GrammarProofs` | about `GrammarDef`, `NodeGen` and `GrammarCost` |
| `HarnessProofs` | about `Base64`, `DecodeInputs`, `PasswordCheck` and `ExperimentRunner` |

**TreeShape.** A `node_t *` is a position in the preorder sequence, the order in
which `_node_get_non_terminal_nodes()` walks. A subtree is a run of positions, so
`non_term_size` is the length of the run. Terminals (id 0) are left out: they
are in no list and count 0. An edge is named by its subnode. The recovery of the
tree after `subtree_trimming()` and `recursive_trimming()` is part of `Replace`,
which yields the clone and leaves the argument alone.

**Trimming.** Variables have the names of the fields of `my_mutator_t`
(`GM/include/custom_mutator.h`). `QueueGet` stands for `queue_get` (its result:
any tree, or none if the entry does not parse; the tree file holds the tree).
`InitTrim` and `InitTrimNoTree` are `init_trim`; `Trim` is `trim` with either
stage; `PostTrimSuccess` and `PostTrimFailure` are the branches of `post_trim`,
each with its common end `EndPostTrim`: next stage, tree file, returned progress
and AFL's test of it. `size_t` subtraction wraps (`SizeSub`, `SIZE_T`). `Abort`
is AFL giving up between two calls. History variables record which nodes and
edges were tried; `MoveHistory` carries them to the trimmed tree.

**Fuzzing.** `FuzzCount` computes the budgets and the first cursor; `Fuzz` is one
call of `afl_custom_fuzz`, with `UpdateStatus` as its end; `RecursiveRetry` is one
more pass of the do-while loop of stage 2. A tree is its list of nodes with rule
ids, and for each recursion edge the number of bytes between its ends, which
decides how far `random_recursive_mutation()` can grow the text. `Seek` is the
code's search for the next node and rule, stated as the first offered mutation
at or after the cursor. `StageAfter` is the effect of the code's cascade of tests
for stages 0 to 3. `UnknownRule` is the rule id `(uint32_t) -1` that a node gets
after a parse error. `NewEntry` includes the fall-back on `queue_get`. Not
modelled here: the content of mutated trees, the cut to `max_size`, and failing
allocations.

**TrimContract.** A bound is announced, progress grows strictly and never beyond
it, and the loop stops at the bound. `Trimming` is shown to implement it
(`ImplementsContract`, with `progress` the returned value and `bound` the value
of `init_trim`).

**ChunkStore.** `heap` maps the addresses of live nodes to label, subnodes and
parent; `chunks` and `seen` are the two maps of `GM/src/chunk_store.c`. Terminals
are part of these trees; a label stands for id, rule id and value. `AddTree`
clones a tree; each call of `chunk_store_take_node` is a step `TakeSeen` (patch
the parent, free the duplicate) or `TakeNew` (register, append, go on with the
subnodes), and `pending` holds the calls to come. Their nodes are read from the
parent when it is taken: nothing else changes a slot before its call.
`Alternatives` is the set of clones that `chunk_store_get_alternative_node` may
return. Addresses are reused after they are freed. A hash is the sequence of
labels it is computed from: collisions of the 64-bit function are left out, and
`map_set` of the vendored map always finds memory.

**TreeFile.** A tree is the sequence of its nodes in preorder, each with its
number of subnodes, the order in which `_node_serialize()` writes them and
`_node_deserialize()` reads them; a sequence is the preorder of one tree when the
number of subnodes still to come (`Open`) reaches 0 at its end and not before
(`TreesAssumption`). A file is a sequence of cells: one for each of the four header
fields of a node and one per byte of a value. `DeserializeNodes` reads node by
node, with the number of nodes that the recursive calls under way still expect. `WriteOpen` truncates the file,
`WriteAll` and `WriteShort` are the outcomes of `write()`, and the process may
end in between or within (`Crash` leaves any prefix). `Read` deserialises in the
code's order with its tests: `data_size - consumed_size` is unsigned, so it
refuses nothing once a value has run over the end; the cells behind the end are
the rest of the last mapped page and read as 0, and a value that runs over a
torn end is taken to stay within that page. Error returns keep their descriptor,
as in the code. `ImplementsRegister`: a read returns the tree of the last
complete write or nothing.

**MutatorSession.** A tree is represented by the text it derives; `Parse` gives
the text of the tree that `tree_from_buf()` makes of a test case. It may not exist,
and it may be any other text: the shim keeps the error nodes of the parser, tokens
that it invented included (`GM/lib/antlr4_shim/antlr4_shim.cpp`). Nothing is
assumed on lengths, neither of parsed nor of trimmed trees. `trees` are the tree files as registers, as `TreeFile`
justifies. `heap` holds the live trees, at addresses that `calloc()` chooses freely; `tree_cur`, `mutated_tree` and
`trimmed_tree` are the pointers of `my_mutator_t`. `QueueGet` is the whole of
`afl_custom_queue_get` including the write of a missing tree file;
`QueueGetNoDirectory` its early return after it freed `tree_cur`. The trimming
and fuzzing loops keep only what touches trees and files; when a loop ends is
left open (`Trimming` and `Fuzzing` say when). `NewEntry` is `queue_new_entry`:
`LoadsNewEntry` is its fall-back on `queue_get`, which exchanges `tree_cur` for
the tree of another entry. `CurrentTreeOfEntry` says that this never happens
while an entry is trimmed or mutated. The environment: AFL's order of
calls, test cases of other fuzzers (`Sync`), AFL's own stages (`Havoc`, not with
`CustomOnly`), the cut to `max_size` (`Cut`), `AbortTrim`, and `Crash` at any
point, which may also tear the file that the call was writing. After a restart
the entries are loaded from `_resume/`, whose names lead to the same tree files.
Two history variables say what a tree file may legitimately hold: `kept`, the
trimmed texts that the target accepted, and `stale`, entries whose file could
not be opened to save a trimmed tree, or that were stored with a mutated tree
which is not theirs (found by `Havoc`, or cut).

**GrammarDef, GrammarCost, NodeGen.** `GrammarDef` defines the shortest texts of
keys by derivation trees of bounded depth, apart from the generator's algorithm.
`GrammarCost` runs `compute_cost()` rule by rule as Python does, with `key_cost`
changed within a pass, then the sort, the cheapest grammar and the recursion
through it; grammars on which the generator raises an error or does not return
end in phases of their own. `NodeGen` runs the generated functions with an
explicit stack; every random number is a choice. Its tables are those that
`CostExact` shows to be computed. `PooledAssumption` asks for grammars that have a
pool (`HasPool`: every key derives some text and no key reaches itself by cheapest
rules, which is when the generator makes one, by `PoolMade`), for rules in the
order of their costs, and for rule costs of at most `max_tree_len`. A left
recursive grammar may have a pool: `<indirection>` of `grammars/sql_grammar.json`
and `<EXPR>` of `grammars/javascript.json` are left recursive, but not by their
cheapest rules. `MinimalTree` justifies the `MinTreesAssumption` of
`Trimming`.

**LinkedList.** Nodes at addresses with `next` and `prev`; every function of
`list.c` is an action, `ImplementsSeqList` maps the list to the sequence of its
data.

**Base64, DecodeInputs.** `Base64` translates the encoder and the decoder group
by group, with the decoder's length computed apart from the bytes it writes, as
in the code. `DecodeInputs` walks the fields of a parsed JSON value one by one.

**PasswordCheck.** Self-composition: both executions read the same public lines
and have any secrets, also zero and negative ones; each goes at its own pace.

**ExperimentRunner.** One action per command of the script. Any command may fail,
`ErrExit` is `set -e` (which spares the left side of `&&`), the script may be
killed, and the container with the fixed name may be left over.

## 3. Runs

| Run | Bounds | Shows |
|---|---|---|
| `trimming` | all trees with at most 5 non-terminals of a grammar with two mutually recursive symbols, in which the cheapest A (two nodes) may be larger than the A it replaces; any outcome of each attempt; 140,497 states | `TypeOK`, `TrimHasWork`, `ProgressCountsLists`, `NoNodeTriedTwice`, `NoEdgeTriedTwice`, `FileIsCurrent`, `FileWrittenAtEnd`, `ImplementsContract` |
| `fuzzing` | node lists of length 1 and 2, known and unknown rules, ids with 3 and 1 rules, three sets of edges, budgets 0..2, a `uint32_t` of 8 values so that sums wrap; 559,424 states | `TypeOK`, `FuzzHasWork`, `RulesCovered`, `StagesInOrder`, `BudgetKept`, `TreeStays`, `FuzzingEnds` |
| `chunk_store` | one non-terminal with two rules and one terminal: derivation trees with at most 5 nodes and damaged trees (any number of subnodes) with at most 4; two trees added between `init` and `clear`, each any number of times; 51,297 states | `NoDangling`, `OwnedOnce`, `OffersSubtrees`, `ChunkKept` |
| `tree_file` | trees of depth 2 with values of up to two bytes that look like header fields, two descriptors, one kill; 36,487 states | `TornFileRefused`, `DescriptorsLostByErrors`, `ImplementsRegister` |
| `session` | two entries, texts that parse, that do not, and that the parser repairs to another text, `max_size` 1, four addresses up to renaming, AFL's own stages, one abort, one kill and restart; 4,574,699 states | `TreesLive`, `LostByAbortOnly`, `TreeFileDescribesEntry`, `CurrentTreeOfEntry` |
| `session_files` | as `session`, with five addresses, two aborts, no cut and no kill | `NewTreeCorresponds` is violated |
| `grammar_cost` | all grammars of two keys with one or two rules of at most two tokens, unproductive and left recursive ones too; 701,586 states | `CostExact`, `PoolMade`, `PoolMinimal`, `PassesEnd` |
| `node_gen` | all such grammars that have a pool, left recursive ones too, every call with a limit of at most 4 and every random choice; 1,202,078 states | `LimitsKept`, `MinimalTree`, `GenerationEnds` |
| `linked_list` | four nodes, two kinds of data; 3,165 states | `ImplementsSeqList` |
| `decode_inputs` | codes of at most 9 characters with foreign ones anywhere, encoded inputs of at most 6 bytes, JSON values with at most 3 fields; 162,589 states | `BufferHolds`, `BothOrNone`, `InputsComeBack` |
| `runner` | four runs of the script; 125 states | `AslrOffWhileRunning`, `ResultsOfThisRun` |
| `password` | at most 4 lines, all pairs of secrets from -1 to 3; 21,550 states | `OutputsAgree` |

Five nodes allow for nested and sibling recursion edges, successes before and
after failures, and replacements that grow and that shrink the tree. Two nodes
and three rules allow the cursor to skip the current rule at the start, in the
middle and at the end of a node, to pass over a node with one rule and to cross
to the next node. Four nodes in two trees allow a subtree to be shared inside
one tree, across trees, and to be a tree added earlier; three nodes suffice for
two shapes with one hash. Two entries allow one to be found while the other is
fuzzed; one abort and one kill are enough for a tree that is left behind to be
overwritten, and for files that are torn, newer than their test case, or missing
on restart. More than four trees are never live at once (with five addresses TLC
finds the same states), and since no function depends on what an address is, the
addresses may be permuted (`MCSymmetry`). Two keys with two rules allow mutual recursion, keys that derive
nothing, keys whose cheapest rule changes in a later pass, and ties. Nine
characters are two whole groups of base64 and every remainder. The instances are
small; the theorems below cover the rest.

*Fairness.* `Trimming` assumes weak fairness of `Trim` and `PostTrim`, `Fuzzing`
of `Fuzz` and `NextCall`: AFL's loops call on until their counter is reached, and
the target's runs end (AFL enforces a timeout). No fairness is assumed of AFL
turning to an entry, of the outcome of a run, or of `Abort` and `Abandon`. Weak
fairness of `Fuzz` in stage 2 says that a random draw that fits comes up
eventually if there is one; `FuzzingEnds` is stated only for trees that have
one. `GrammarCost` and `NodeGen` are sequential code that runs until it ends:
weak fairness of the next step is all there is to assume, and none of a random
choice. `ImplementsContract` includes the fairness of the contract, so that AFL's
trimming loop ends. `TreeFile`, `MutatorSession` and the others state safety only:
when AFL calls is its own affair.

### Where the code disagrees with its documentation

`session_files` shows one disagreement, the one with consequences for the data:
`mutated_tree` stays set after the last custom mutation of an entry, and
`queue_new_entry` stores it for every new entry that has an original. Without
`AFL_CUSTOM_MUTATOR_ONLY` a test case found by AFL's own stages so gets "the
corresponding serialized tree" of another text, which `queue_get` later uses in
its place. `leakage_test/postgres-cve-2021-3393/fuzz.sh` runs the mutator this
way.

The following ones have a property in their module that TLC refutes if it is
added to the `INVARIANT`s of the module's `.cfg`. None makes a call fail; they
cost thoroughness or mislead the user.

1. `Trimming!EveryNodeTried`. After a success `post_trim` says "So we want to skip
   it and its children!" but pops the node and then `non_term_size` more, which
   counts the node again: the next node in preorder is never tried
   (`GM/src/grammar_mutator.c:363`).
2. `Trimming!EveryEdgeTried`. "Avoid repeating work by skipping edges that we have
   already tried": the count of tried edges is kept although a recursive success
   may remove some of them with a sibling; untried edges are skipped in their
   place (`:377`).
3. `Fuzzing!EveryBudgetKept`. With no rules mutation and
   `RANDOM_MUTATION_STEPS=0` `fuzz_count` still enters stage 1: one random
   mutation is made, and one mutation of a later kind is lost (`:498`).
4. `Fuzzing!EveryRuleTried`. `rules_mutation_count()` is "the total number of
   possible rules mutations" but counts one too few for a node with unknown rule
   (`GM/src/tree_mutation.c:130`).
5. `ChunkStore!DuplicateIsEqual`. The hash should use "the same fields that
   `node_equal()` uses" but leaves out the number of subnodes: of two trees that
   differ only in the place where a subnode hangs (one of them damaged by the
   parser's error recovery), the one added later is not stored
   (`GM/src/chunk_store.c:63`).
6. `MutatorSession!NewTreeCorresponds` is also violated with `CustomOnly = TRUE`
   and `MaxSize = 1`: a mutation is run and stored cut to `max_size`, its tree
   file holds the whole tree (`GM/src/grammar_mutator.c:672`).
7. `ExperimentRunner!AslrRestored`. With `set -e` a failing experiment ends the
   script before "# Reenable ASLR" (`run_experiment.sh:40`).
8. `ExperimentRunner!CompletedMeansCopied`. `docker cp` is the left side of `&&`:
   when it fails, the script still reports "COPIED RESULTS" (`:45`).

## 4. Theorems

All theorems hold for every instance that satisfies the named assumptions of its
module: for trimming `TreesAssumption`, `MinTreesAssumption` (a tree of `gen_func(0)` has the asked
root and no recursion edge, since the generator can enumerate the cheapest rules
only if no symbol reaches itself by them), `SizeAssumption`, `NoTreeAssumption`;
for fuzzing `RulesAssumption`, `TreesAssumption`, `ConfigsAssumption`,
`GrowthAssumption`; the others are named below.

**TreeShapeProofs.** Lemmas that several proofs share, on least elements, recursive
functions on an interval (`UpTo`), concatenations (`ConcatAt`) and rows of
sequences put together by `FlattenSeq` (`FlattenRow`). On trees: a subtree is a contiguous run (`SubtreeIsRun`);
replacing a subtree by a tree gives a tree (`ReplaceIsTree`) of the expected
length, in which the replaced part has the size of the replacement
(`ReplacedSize`); the edge list enumerates the edges in order (`EdgeListFacts`);
where each edge of a trimmed tree comes from (`EdgeOrigin`), so that subtree
trimming never adds edges and recursive trimming removes at least one
(`SubtreeTrimEdges`, `RecursiveTrimEdges`).

**TrimmingProofs.** The inductive invariant `IInv` says that each list is exactly
what remains of the tree's list after the finished elements, that progress plus
remaining work is the announced total, and, while the target runs, how the
trimmed tree was obtained from the current one. The last part is needed because
`post_trim(1)` rebuilds the lists from the trimmed tree: the new node list must
be no longer than the old one, and it is not, even where a minimal subtree is
larger than what it replaces, because the code skips at least the whole
replacement and the nodes after it are the old ones. Theorems:
`TypeCorrect`, `TrimAlwaysHasWork`, `ProgressIsExact`, `NodesTriedOnce`,
`EdgesTriedOnce`, `FileUpToDate`, `FileWrittenOnce`, and `ContractSafety` (initial state and steps
of `TrimContract`). `EdgesTriedOnce` adds `EdgeInv`: the tried edges are among
the first `finished_recursive_trimming_edges` ones of the current tree, and while
the target runs the one being tried is the next. Counting is enough to skip
them after a success because the edges of the trimmed tree that come from tried
ones keep their order and are the first ones of its list (`EdgeSource`,
`EdgesKeepOrder`).

**FuzzingProofs.** `IInv` relates the calls made per stage to the budgets
(`CallsInv`), AFL's counter to the calls (`CountInv`) and, in stage 0, the tried
mutations to the cursor: exactly the offered mutations before it (`RulesInv`).
That the cursor never runs off the list follows by counting: there are at least
as many offered mutations as counted (`CountFacts`), and as many were tried as
steps were made. Theorems: `TypeCorrect`, `FuzzAlwaysHasWork`,
`EveryKnownRuleTried`, `StagesRunInOrder`, `BudgetsKept`, `TreeIsKept`.

**MutatorSessionProofs.** For any entries, texts, parser, addresses and any
number of aborts and kills, from `TextAssumption` (the types of the parser and of
the cut) and `NamesAssumption`. Three invariants, each with
one step per action:
- `IInv` is `TreesLive` with the types of the pointers and the fact that a custom
  run always has its mutated tree; without it `queue_new_entry` could fall back on
  `queue_get` in the middle of an entry and leave no current tree.
- `FileInv` adds to `TreeFileDescribesEntry` that the current tree and the current
  file name are those of the entry AFL is at (`EntryInv`), that what the target
  accepted last is the current tree, and that the file holds it before AFL
  rewrites the test case (`TrimInv`). A tree that is written to a wrong file, or
  trimmed from a wrong tree, would show only after the next restart.
- `LostInv` counts the tree that an aborted trimming leaves in `trimmed_tree`
  before the next `trim` overwrites it (`Debt`): lost trees and debt together are
  at most the aborts.

Theorems: `TreesStayLive`, `TreeFilesDescribeEntries`, `CurrentTreesOfEntries`,
`OnlyAbortsLoseTrees`, and `Invariants`, on which they rest.

**ChunkStoreProofs.** For all labels and trees (`LabelsAssumption`,
`ChunkTreesAssumption`) and any number of additions (`MaxAddsAssumption`; any
natural number). The walks of `tree.c` and of the hash are recursive functions on
the heap, and a heap that shares nodes is not a tree: the proofs treat a walk as
the only solution of its preorder equation on an acyclic heap, shown with a least
counterexample. `IInv` has five parts, and none is inductive without the others:
- `Shape`: live nodes are finitely many, with subnodes and parents among them.
- `Acyclic`: some rank falls from every node to its subnodes. Patching a parent
  could close a cycle; it does not, because the stored node has the hash of the
  duplicate, so every hash stays what it was and its length remains a rank.
- `Own`: the nodes that are not stored form trees, whose roots are the pending
  ones; a stored node has pending or stored subnodes. Without it the free of a
  duplicate could take a stored or a pending node along.
- `Lists`: every stored node is in the list of its id, once.
- `Seen`: every entry of the hash map leads to a live node with that hash.

`IInv` speaks of hashes only, so it holds of damaged trees too. For the contents of
the store `OfferInv` is added to it, under `OneArity`:
- `Drawn`: every live node stands for a subtree of an added tree. With `SameTrees`
  (labels in preorder determine a tree in which a label has one number of
  subnodes; otherwise the first node that is higher in one tree would leave its
  parent a subnode less) a duplicate then equals the stored node, and the
  exchange changes no clone.
- `Rooted`: every added tree has a stored or pending node that stands for it. The
  root of a tree that is itself a duplicate is freed, and the stored node
  takes its part.

Between calls all live nodes are stored, and the nodes below the one for a tree
stand for its subtrees (`ClonesBelow`), which gives `OffersSubtrees` both ways.

Theorems: `ChunkInductive`, and from it `NoDanglingPointers`,
`EveryNodeOwnedOnce`, `ChunksKept`; `StoreOffersSubtrees` from both invariants.

**ListAndFileProofs.** On `list.c`, from `AddrAssumption` (finitely many addresses,
and `NULL` is none). `ListInv`: there is one sequence of all live nodes, each once,
along which `next` leads forward from `head`, `prev` back from `tail`, and which
has `size` elements. `prev` is needed because `list_remove` patches the neighbours
by it. Theorems: `ListStaysChained`, and `ListIsSequence`: initial state and every
step of `list.c` are those of `SeqList` (which states no fairness).

On tree files, from `TreesAssumption`, for any trees, number of descriptors and
number of kills. Two lemmas carry the weight. `ReadWhole`: after `k` nodes of a
complete file the reader is at the end of the `k`-th node's cells with exactly
the subnodes open that the tree has left, so that it stops at the end of the
tree. `ReadTorn`: on a proper prefix the reader agrees with that up to the node
that the end cuts; there it is refused for a short header, or it runs over the
end of the file with the node's value, and then, or when nodes are still missing
at the very end, the position it ends at is behind the file, so that the last test
of `tree_deserialize()` refuses the tree although the wrapped subtraction no longer
does. `FileInv`: the file is empty while it is written, and holds a complete tree
or is refused otherwise; `DescriptorInv` counts the error returns. Theorems:
`TornFilesAreRefused`, `OnlyErrorsLoseDescriptors`, `FileIsRegister` (every step
maps to a step of `TreeRegister` or to none).

**GrammarProofs.** For all grammars over any finite list of keys and any terminals
(`KeysAssumption`, `CostAssumption`; for `NodeGen` `PooledAssumption`). Neither the
set of texts of a key nor a recursion over derivations is available to the prover
as data, so the argument is on the sets of lengths of the texts.
- *The reference is right.* `Lengths` stops at trees as deep as there are keys. The
  union over all depths is the least solution of the grammar's equation
  (`AllFacts`, `DepthsInAll`), and bounded depth does not change emptiness or the
  minimum: consider the keys in the order of the depth at which they first have a
  text of their least length; if no key joins at some depth none joins later
  (`NoNewShortest`), so a growing chain of subsets of the keys is complete after as
  many steps as there are keys (`Chain`, `ShortestSoon`).
- *Limits.* `GenInv` says of every frame how its limit is spent: characters made,
  `remaining_len` and the minima of the tokens still to come add up to no more than
  `max_len` (`Runs`, `Waits`), and a subnode's limit is at least its minimum and at
  most `remaining_len`, to which that minimum was given back. So only the outermost
  call can draw from the pool. Theorem `GenerationKeepsLimits`.
- *Minimal trees.* With limit 0 the outermost call draws from the pool, or its key
  derives the empty text: then every level has limit and cost 0, so every level
  took a cheapest rule, and the key of each subnode is in a cheapest rule of the key
  above. A key below itself would reach itself by cheapest rules (`Reaches` is
  transitive: `ReachesFacts`), and the grammar would have no pool. Theorem `TrimmingGetsMinimalTrees`.
- *Costs.* `CostInv` describes a pass in the middle (`Passing`): no cost is below
  the minimum; the cost of every key stands in the list of this pass or of the
  last; no entry is cheaper than its rule is now; and if all costs stand in the
  last pass's lists, then this pass has lowered no key so far and its lists go by
  the present costs (`Steady`). A key may be lowered in the middle of a pass, behind
  rules that use it; then its cost is not in the last pass's list, and that list
  has an entry for every rule seen that this pass makes no dearer (`Covered`). So when the
  lists repeat, no key was lowered (`PassSettled`), and costs that a further pass
  would not lower are exact (`FixedIsExact`: they bound a solution of the
  grammar's equation, which contains the least one). Theorem `CostsAreExact`.
- *Pool.* The enumeration follows the uses of keys in cheapest rules, which
  `HasPool` defines apart from the algorithm (`CheapUsesAre`). If it comes back to
  a key, the keys on the way cost the same, so each is leftmost in a rule of the one before, behind
  tokens that derive nothing (`EndlessIsLeft`). Otherwise every key has a text by
  cheapest rules, since keys without one would lead to each other in a cycle
  (`CycleInside`), and that text has the key's cost as its length
  (`CheapLengths`); the cheapest rules are the first of the sorted ones
  (`CheapestIs`). Theorems `PoolIsMade`, `PoolIsMinimal`.

**HarnessProofs.** From `TestCasesAssumption` (codes are sequences of characters,
a field that was encoded holds the code of its bytes) and `NULLAssumption`.
`RoundTrip`: decoding inverts encoding, for sequences of bytes of any length,
group by group with the three possible ends. `DInv`: each raw pointer is the code
of the last string field of its name among those looked at, and buffers exist
only after the return, both or none (`HarnessInductive`). From it
`BothBuffersOrNone`, `BuffersLargeEnough` and `BytesComeBack`. `SecretNotPrinted`
(from `MaxLinesAssumption`, any natural number of lines): what an execution of `password_secure.cpp` has
printed is a function of the number of lines and of its position (`PasswordInv`),
in which the secret does not occur. `RunnerInv`: from the command before
`docker container run` randomisation is off, and from there to `docker cp` the
container with the name is this run's own. Theorems: `ExperimentsWithoutAslr`,
`ResultsAreOwn`, for any number of runs.

*Only model-checked*:
- `FuzzingEnds`, `PassesEnd`, `GenerationEnds` and the fairness part of
  `ImplementsContract`: liveness is beyond the prover.

## 5. Not modelled

- Third-party code that makes up nearly all lines of the repository: the fuzzed
  sources of PostgreSQL, OpenSSL, NetworkManager and the Linux kernel below
  `leakage_test/`, and in the mutator the JSON reader, xxHash, rxi_map and ANTLR.
  It is the object of the benchmark, not its logic. Of the lines in the
  repository the modules therefore cover a small share; of the mutator's own C
  code they cover most functions that change state.
- The parser shim: a walk over ANTLR's tree. What matters of it elsewhere is
  modelled there (`UnknownRule` in `Fuzzing`, `Parse` in `MutatorSession`, damaged
  trees in `ChunkStore`).
- Text output of the generator (C and ANTLR files), `grammar_generator.c` as a
  loop over `gen_init__()` with two writes, `tree_to_buf()`, dumps.
- `utils.c` but for the failure of `create_directory()`: `remove_directory()` is
  called by a test only (it returns false on success, against `utils.h:25`), and
  `strrstr()` on paths that have the directory in their middle (it does not find
  a match at the very start, against `utils.h:36`).
- `GM/src/decode_inputs.c` is the file of the harness without the test for a test
  case that is not JSON.
- `memory.c`, which fills stack and heap with a value: it acts only on
  uninitialised memory.
- The other IFSpec subjects: `banking_secure.cpp` computes with floating point
  numbers; `reviewers_secure.cpp` may read behind its public input, so its output
  is not defined by the program alone. The insecure variants and the kernel
  subjects leak by design, each in one function without state.
- Scripts for building, plots and statistics; memory exhaustion.
- Lengths of trimmed test cases. AFL wants a trimmed test case to be no longer than
  before. The parser's error nodes may add text, and a minimal subtree may be longer
  than a damaged node that it replaces, so the code does not guarantee it; no
  property here says that it does.
- `run_experiment.sh` names its output directory to the minute and makes it with
  `mkdir -p`; `ExperimentRunner!Start` takes it to be new, so two runs within one
  minute are not covered.
- `LinkedList!Walk` stops after `size` steps where the code stops at NULL; that the
  two agree is `ListStaysChained`. AFL's loop in `Trimming` is that
  of the test driver, as AFL is not part of the repository.

## 6. Plan

1. `TreeShape`, `Trimming`, `TrimContract` with proofs – done.
2. `Fuzzing` with proofs – done.
3. `ChunkStore` with proofs of ownership and contents – done.
4. `TreeFile`, `TreeRegister`, `MutatorSession` with proofs – done.
5. `GrammarDef`, `GrammarCost`, `NodeGen` with proofs – done.
6. `LinkedList`, `Base64`, `DecodeInputs`, `PasswordCheck`, `ExperimentRunner`
   with proofs – done.

Every safety property that a passing run checks is now stated by a theorem; the
liveness properties named at the end of section 4 stay with TLC.
