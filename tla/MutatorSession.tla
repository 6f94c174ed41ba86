--------------------------- MODULE MutatorSession ---------------------------
(***************************************************************************)
(* The life of the mutator inside afl-fuzz: the functions that AFL calls   *)
(* (Grammar-Mutator/src/grammar_mutator.c), the three trees that the       *)
(* mutator owns, the files on disk, and what is left of them when AFL      *)
(* aborts a trimming, or ends at any point and is started again.           *)
(*                                                                         *)
(* A tree stands for the text it derives: a tree file holds a text, and a  *)
(* test case is a text that may or may not be one that a tree derives.     *)
(* Nothing is assumed of lengths: a parsed tree keeps tokens that the      *)
(* parser conjured up, and trimming may put a longer minimal subtree in    *)
(* the place of a node that the parser left incomplete.                    *)
(* Tree files are registers (TreeRegister): a write puts the tree or loses *)
(* it.  The stages of trimming and fuzzing are those of the modules        *)
(* Trimming and Fuzzing; here a loop ends when AFL's counter says so.      *)
(***************************************************************************)
EXTENDS Integers, FiniteSets

CONSTANTS
    Entries,     \* names of test cases in AFL's queue
    Seeds,       \* those that are there at the first start
    Texts,       \* contents of test cases
    Derivable,   \* the texts of trees
    Parse,       \* text -> the text of the tree that tree_from_buf() makes
    Cut,         \* text -> its first max_size bytes
    NoTree,      \* no tree, NULL, no file
    Addr,        \* addresses for trees
    CustomOnly,  \* AFL_CUSTOM_MUTATOR_ONLY
    MaxAborts, MaxCrashes

ASSUME TextAssumption ==
    /\ Derivable \subseteq Texts
    /\ Parse \in [Texts -> Derivable \cup {NoTree}]
    /\ Cut \in [Texts -> Texts]
    /\ NoTree \notin Texts

ASSUME NamesAssumption ==
    /\ Seeds \subseteq Entries
    /\ NoTree \notin Entries
    /\ NoTree \notin Addr

VARIABLES
    \* on disk
    queue,         \* entry -> its text; NoTree: no such entry
    trees,         \* entry -> the tree that its tree file yields
    \* my_mutator_t
    heap,          \* live trees: address -> text
    tree_cur, mutated_tree, trimmed_tree,
    tree_fn_cur,   \* the entry whose tree file is meant, NoTree for ""
    trim_was_effective,
    \* AFL
    phase,
    entry,         \* queue_cur
    out,           \* the text that the target ran last
    best,          \* the trimmed text to be written to the queue
    kept,          \* history: entry -> trimmed texts the target accepted
    stale,         \* history: entries whose tree file is not of their text:
                   \* it could not be opened to save the trimmed tree, or the
                   \* entry was cut or found by havoc and got a mutated tree
    aborts, crashes

disk == <<queue, trees>>
mutator == <<heap, tree_cur, mutated_tree, trimmed_tree, tree_fn_cur,
             trim_was_effective>>
afl == <<phase, entry, out, best, kept, stale, aborts, crashes>>
vars == <<disk, mutator, afl>>

-----------------------------------------------------------------------------
(* Memory *)

Free(p, h) == [q \in DOMAIN h \ {p} |-> h[q]]

Alloc(p, t, h) == [q \in DOMAIN h \cup {p} |-> IF q = p THEN t ELSE h[q]]

(* the address of the next tree: any free one *)
Fresh(h) == Addr \ DOMAIN h

(* Files *)

(* write_tree_to_file() once the file is open: all or, on an error,        *)
(* nothing readable.  If it cannot be opened it stays as it is: for a file *)
(* that yielded no tree this is the second case.                           *)
Written(f, t) == {[trees EXCEPT ![f] = t], [trees EXCEPT ![f] = NoTree]}

-----------------------------------------------------------------------------
(* queue_get *)

(* the tree of entry e: from its tree file if file is set, else by parsing *)
Loaded(e, text, file) ==
    IF file /\ trees[e] # NoTree THEN trees[e] ELSE Parse[text]

(* afl_custom_queue_get() of entry e with the given text.  Files are used  *)
(* if e lies in queue/ or _resume/.                                        *)
QueueGet(e, text, file) ==
    LET h == Free(tree_cur, heap)
        t == Loaded(e, text, file)
    IN  /\ tree_fn_cur' = (IF file THEN e ELSE NoTree)
        /\ IF t = NoTree
           THEN heap' = h /\ tree_cur' = NoTree
           ELSE \E p \in Fresh(h) : heap' = Alloc(p, t, h) /\ tree_cur' = p
        /\ IF file /\ trees[e] = NoTree /\ t # NoTree
           THEN trees' \in Written(e, t)
           ELSE UNCHANGED trees
        /\ UNCHANGED <<mutated_tree, trimmed_tree, trim_was_effective>>

(* the directory of tree files cannot be created *)
QueueGetNoDirectory(e) ==
    /\ heap' = Free(tree_cur, heap)
    /\ tree_cur' = NoTree
    /\ tree_fn_cur' = e
    /\ UNCHANGED <<trees, mutated_tree, trimmed_tree, trim_was_effective>>

-----------------------------------------------------------------------------
(* Start and end of the process *)

NoTrees ==
    /\ heap = [p \in {} |-> NoTree]
    /\ tree_cur = NoTree
    /\ mutated_tree = NoTree
    /\ trimmed_tree = NoTree
    /\ tree_fn_cur = NoTree
    /\ trim_was_effective = FALSE

(* grammar_generator may have put tree files beside the seeds *)
Init ==
    /\ queue \in [Entries -> Texts \cup {NoTree}]
    /\ \A e \in Entries : queue[e] # NoTree <=> e \in Seeds
    /\ trees \in [Entries -> Derivable \cup {NoTree}]
    /\ \A e \in Entries : trees[e] \in {queue[e], NoTree}
    /\ NoTrees
    /\ phase = "down"
    /\ entry = NoTree
    /\ out = NoTree
    /\ best = NoTree
    /\ kept = [e \in Entries |-> {}]
    /\ stale = {}
    /\ aborts = 0
    /\ crashes = 0

(* afl_custom_init() *)
Start ==
    /\ phase = "down"
    /\ phase' = "boot"
    /\ UNCHANGED <<disk, mutator, entry, out, best, kept, stale, aborts, crashes>>

(* afl_custom_queue_new_entry(e, NULL) for a test case found at the start, *)
(* in the input directory or, after a restart, in _resume/                 *)
LoadSeed(e) ==
    /\ phase = "boot"
    /\ queue[e] # NoTree
    /\ QueueGet(e, queue[e], crashes > 0)
    /\ UNCHANGED <<queue, afl>>

Ready ==
    /\ phase = "boot"
    /\ phase' = "idle"
    /\ UNCHANGED <<disk, mutator, entry, out, best, kept, stale, aborts, crashes>>

Deinit ==
    /\ heap' = Free(tree_cur, Free(mutated_tree, Free(trimmed_tree, heap)))
    /\ tree_cur' = NoTree
    /\ mutated_tree' = NoTree
    /\ trimmed_tree' = NoTree
    /\ tree_fn_cur' = NoTree
    /\ trim_was_effective' = FALSE

(* afl_custom_deinit(); AFL does not come back *)
Stop ==
    /\ phase = "idle"
    /\ Deinit
    /\ phase' = "ended"
    /\ UNCHANGED <<disk, entry, out, best, kept, stale, aborts, crashes>>

(* the file that the call in progress may be rewriting, if any *)
Rewritten ==
    {tree_fn_cur, entry} \cup (IF phase \in {"fuzzrun", "havocrun"} THEN Entries ELSE {})

(* the process is killed, possibly within write_tree_to_file() *)
Crash ==
    /\ phase \notin {"down", "ended"}
    /\ crashes < MaxCrashes
    /\ crashes' = crashes + 1
    /\ trees' \in {trees} \cup {[trees EXCEPT ![f] = NoTree] :
                                    f \in Rewritten \cap Entries}
    /\ heap' = [p \in {} |-> NoTree]
    /\ tree_cur' = NoTree
    /\ mutated_tree' = NoTree
    /\ trimmed_tree' = NoTree
    /\ tree_fn_cur' = NoTree
    /\ trim_was_effective' = FALSE
    /\ phase' = "down"
    /\ entry' = NoTree
    /\ best' = NoTree
    /\ out' = NoTree
    /\ UNCHANGED <<queue, kept, stale, aborts>>

-----------------------------------------------------------------------------
(* One entry *)

(* AFL turns to entry e *)
Select(e) ==
    /\ phase = "idle"
    /\ queue[e] # NoTree
    /\ QueueGet(e, queue[e], TRUE) \/ QueueGetNoDirectory(e)
    /\ IF tree_cur' # NoTree
       THEN phase' = "got" /\ entry' = e
       ELSE UNCHANGED <<phase, entry>>
    /\ UNCHANGED <<queue, out, best, kept, stale, aborts, crashes>>

(* a test case of another fuzzer: afl_custom_queue_new_entry(e, NULL) *)
Sync(e) ==
    /\ phase = "idle"
    /\ queue[e] = NoTree
    /\ \E x \in Texts :
        /\ queue' = [queue EXCEPT ![e] = x]
        /\ QueueGet(e, x, TRUE)
    /\ UNCHANGED afl

(* afl_custom_init_trim() *)
InitTrim ==
    /\ phase = "got"
    /\ trim_was_effective' = FALSE
    /\ phase' = "trim"
    /\ best' = NoTree
    /\ UNCHANGED <<disk, heap, tree_cur, mutated_tree, trimmed_tree,
                   tree_fn_cur, entry, out, kept, stale, aborts, crashes>>

(* afl_custom_trim() of some node or edge: a tree that an aborted trimming *)
(* left in trimmed_tree is overwritten                                     *)
Trim ==
    /\ phase = "trim"
    /\ \E t \in Derivable, p \in Fresh(heap) :
        /\ heap' = Alloc(p, t, heap)
        /\ trimmed_tree' = p
        /\ out' = t
    /\ phase' = "trimrun"
    /\ UNCHANGED <<disk, tree_cur, mutated_tree, tree_fn_cur,
                   trim_was_effective, entry, best, kept, stale, aborts, crashes>>

(* mutant: the wrong tree is freed *)
SwapInFreed ==
    /\ heap' = Free(trimmed_tree, heap)
    /\ tree_cur' = trimmed_tree

(* the trimmed tree becomes the current one *)
SwapIn ==
    /\ heap' = Free(tree_cur, heap)
    /\ tree_cur' = trimmed_tree

(* mutant: the file is written although nothing was trimmed off: the tree  *)
(* that the target refused goes with it                                    *)
SavedEager(last) == IF last THEN Written(tree_fn_cur, out) ELSE {trees}

(* at the end of an effective trimming the tree file is rewritten *)
Saved(last) ==
    IF last /\ trim_was_effective' THEN Written(tree_fn_cur, heap'[tree_cur'])
    ELSE {trees}

(* afl_custom_post_trim() and the end of AFL's loop *)
PostTrim(success, last) ==
    /\ phase = "trimrun"
    /\ IF success
       THEN /\ trim_was_effective' = TRUE
            /\ SwapIn
            /\ best' = out
            /\ kept' = [kept EXCEPT ![entry] = @ \cup {out}]
       ELSE /\ heap' = Free(trimmed_tree, heap)
            /\ UNCHANGED <<tree_cur, trim_was_effective, best, kept>>
    /\ trimmed_tree' = NoTree
    /\ \/ trees' \in Saved(last) /\ UNCHANGED stale
       \/ /\ last /\ trim_was_effective'   \* the file cannot be opened
          /\ stale' = stale \cup {entry}
          /\ UNCHANGED trees
    /\ out' = NoTree
    /\ phase' = IF last THEN "trimmed" ELSE "trim"
    /\ UNCHANGED <<queue, mutated_tree, tree_fn_cur, entry, aborts, crashes>>

(* AFL gives up while the target runs *)
AbortTrim ==
    /\ phase = "trimrun"
    /\ aborts < MaxAborts
    /\ aborts' = aborts + 1
    /\ phase' = "idle"
    /\ entry' = NoTree
    /\ out' = NoTree
    /\ best' = NoTree
    /\ UNCHANGED <<disk, mutator, kept, stale, crashes>>

(* AFL writes the trimmed test case after the loop *)
SaveTrimmed ==
    /\ phase = "trimmed"
    /\ queue' = IF best # NoTree THEN [queue EXCEPT ![entry] = best] ELSE queue
    /\ best' = NoTree
    /\ phase' = "got"
    /\ UNCHANGED <<trees, mutator, entry, out, kept, stale, aborts, crashes>>

(* afl_custom_fuzz_count() *)
FuzzCount ==
    /\ phase = "got"
    /\ phase' = "fuzz"
    /\ UNCHANGED <<disk, mutator, entry, out, best, kept, stale, aborts, crashes>>

(* mutant: the last mutated tree is kept *)
DropMutatedNot == heap

(* the last mutation was not interesting: its tree is freed *)
DropMutated == Free(mutated_tree, heap)

(* afl_custom_fuzz() *)
Fuzz ==
    /\ phase = "fuzz"
    /\ \E t \in Derivable, p \in Fresh(DropMutated) :
        /\ heap' = Alloc(p, t, DropMutated)
        /\ mutated_tree' = p
        /\ out' = Cut[t]
    /\ phase' = "fuzzrun"
    /\ UNCHANGED <<disk, tree_cur, trimmed_tree, tree_fn_cur,
                   trim_was_effective, entry, best, kept, stale, aborts, crashes>>

(* a test case of AFL's own stages, which follow the custom one *)
Havoc ==
    /\ ~CustomOnly
    /\ phase \in {"fuzz", "havoc"}
    /\ out' \in Texts
    /\ phase' = "havocrun"
    /\ UNCHANGED <<disk, mutator, entry, best, kept, stale, aborts, crashes>>

(* "queue" is replaced by "trees" in the new name *)
NewTreeFile(e) == e

(* AFL goes on with the stage that it is in *)
NextRun == IF phase = "fuzzrun" THEN "fuzz" ELSE "havoc"

(* the mutated tree is not that of the test case that the target ran *)
Foreign == phase = "havocrun" \/ Cut[heap[mutated_tree]] # heap[mutated_tree]

(* mutant: every new entry is loaded, as those without an original are *)
LoadsAll == TRUE

(* queue_new_entry() has no tree to store and turns to queue_get *)
LoadsNewEntry == mutated_tree = NoTree

(* afl_custom_queue_new_entry(e, queue_cur) after an interesting run *)
NewEntry(e) ==
    /\ phase \in {"fuzzrun", "havocrun"}
    /\ queue[e] = NoTree
    /\ queue' = [queue EXCEPT ![e] = out]
    /\ IF LoadsNewEntry
       THEN QueueGet(e, out, TRUE) /\ UNCHANGED stale
       ELSE /\ stale' = IF Foreign THEN stale \cup {e} ELSE stale
            /\ trees' \in Written(NewTreeFile(e), heap[mutated_tree])
            /\ heap' = Free(mutated_tree, heap)
            /\ mutated_tree' = NoTree
            /\ UNCHANGED <<tree_cur, trimmed_tree, tree_fn_cur, trim_was_effective>>
    /\ out' = NoTree
    /\ phase' = NextRun
    /\ UNCHANGED <<entry, best, kept, aborts, crashes>>

NotInteresting ==
    /\ phase \in {"fuzzrun", "havocrun"}
    /\ out' = NoTree
    /\ phase' = NextRun
    /\ UNCHANGED <<disk, mutator, entry, best, kept, stale, aborts, crashes>>

Leave ==
    /\ phase \in {"fuzz", "havoc"}
    /\ entry' = NoTree
    /\ phase' = "idle"
    /\ UNCHANGED <<disk, mutator, out, best, kept, stale, aborts, crashes>>

Next ==
    \/ Start \/ Ready \/ Stop \/ Crash
    \/ InitTrim \/ Trim \/ AbortTrim \/ SaveTrimmed
    \/ FuzzCount \/ Fuzz \/ Havoc \/ NotInteresting \/ Leave
    \/ \E success, last \in BOOLEAN : PostTrim(success, last)
    \/ \E e \in Entries : LoadSeed(e) \/ Select(e) \/ Sync(e) \/ NewEntry(e)

Spec == Init /\ [][Next]_vars

-----------------------------------------------------------------------------
(* Properties *)

Held == {tree_cur, mutated_tree, trimmed_tree} \ {NoTree}

(* No tree is used or freed after tree_free(): what tree_cur, mutated_tree *)
(* and trimmed_tree point to is live, no two of them share a tree, which   *)
(* afl_custom_deinit() would free twice, and the trees that trim, post_trim *)
(* and the mutations work on are there.                                    *)
TreesLive ==
    /\ Held \subseteq DOMAIN heap
    /\ tree_cur # NoTree => tree_cur \notin {mutated_tree, trimmed_tree}
    /\ mutated_tree # NoTree => mutated_tree # trimmed_tree
    /\ phase \in {"got", "trim", "trimrun", "trimmed", "fuzz", "fuzzrun"} =>
            tree_cur # NoTree
    /\ phase = "trimrun" => trimmed_tree # NoTree

(* No tree is lost, before or after afl_custom_deinit(), but one for each  *)
(* trimming that AFL aborted between trim and post_trim.                   *)
LostByAbortOnly == Cardinality(DOMAIN heap \ Held) <= aborts

(* A tree file yields the tree of its test case, or a trimmed tree that    *)
(* the target accepted for it (AFL rewrites the test case only after the   *)
(* last post_trim), whatever was aborted, cut short or killed between.     *)
(* Only the entries in stale are excepted.                                 *)
TreeFileDescribesEntry ==
    \A e \in Entries \ stale : trees[e] # NoTree =>
        /\ queue[e] # NoTree
        /\ trees[e] \in {queue[e], Parse[queue[e]]} \cup kept[e]

(* What trimming and the mutations work on is a tree of the entry that AFL *)
(* is at, whatever was stored, synced, swapped, aborted or killed before:  *)
(* queue_new_entry() exchanges tree_cur for the tree of a new entry, and   *)
(* must not do so in a custom stage.  The tree is that of the test case,   *)
(* parsed or deserialized, or one that the target accepted for it; the     *)
(* entries in stale are excepted.  And what AFL is going to write as the   *)
(* trimmed test case is the text of the tree that is trimmed further,      *)
(* saved and mutated.                                                      *)
CurrentTreeOfEntry ==
    phase \in {"got", "trim", "trimrun", "trimmed", "fuzz", "fuzzrun"} =>
        /\ tree_cur \in DOMAIN heap
        /\ entry \notin stale =>
            heap[tree_cur] \in {queue[entry], Parse[queue[entry]]} \cup kept[entry]
        /\ best # NoTree => heap[tree_cur] = best

(* The statement of the comments that a tree file holds "the corresponding *)
(* serialized tree" of the test case that queue_new_entry added.  It does  *)
(* not hold.                                                               *)
NewTreeCorresponds ==
    \A e \in Entries \ Seeds : trees[e] # NoTree /\ kept[e] = {} =>
        trees[e] \in {queue[e], Parse[queue[e]]}
=============================================================================
