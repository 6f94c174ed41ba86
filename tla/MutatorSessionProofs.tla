------------------------ MODULE MutatorSessionProofs ------------------------
(***************************************************************************)
(* Ownership of the mutator's trees and agreement of tree files with test  *)
(* cases, for every set of entries, texts and addresses and any number of  *)
(* aborts and crashes.                                                     *)
(***************************************************************************)
EXTENDS MutatorSession, FiniteSetTheorems, TLAPS

(* The address of a tree or none.                                          *)
Pointer == Addr \cup {NoTree}

(* The three tree pointers of my_mutator_t.                                *)
PointersOK ==
    /\ tree_cur \in Pointer
    /\ mutated_tree \in Pointer
    /\ trimmed_tree \in Pointer

(* The inductive invariant: beside TreesLive, the pointers' types, and     *)
(* that a custom run always has its mutated tree, so that queue_new_entry  *)
(* does not fall back on queue_get, which may leave no current tree.       *)
IInv ==
    /\ PointersOK
    /\ TreesLive
    /\ phase = "fuzzrun" => mutated_tree # NoTree

(* tree_free() takes one address off the heap.                             *)
LEMMA FreeFacts ==
    ASSUME NEW p, NEW h
    PROVE  DOMAIN Free(p, h) = DOMAIN h \ {p}
BY DEF Free

(* A new tree takes one address.                                           *)
LEMMA AllocFacts ==
    ASSUME NEW p, NEW t, NEW h
    PROVE  DOMAIN Alloc(p, t, h) = DOMAIN h \cup {p}
BY DEF Alloc

(* malloc() returns an address that is not in use.                         *)
LEMMA FreshFacts ==
    ASSUME NEW h, NEW p \in Fresh(h)
    PROVE  p \in Addr /\ p \notin DOMAIN h /\ p # NoTree
BY NamesAssumption DEF Fresh

(* queue_get exchanges the current tree and leaves the two others alone    *)
LEMMA QueueGetLive ==
    ASSUME PointersOK, TreesLive, NEW e, NEW text, NEW file,
           QueueGet(e, text, file)
    PROVE  /\ PointersOK'
           /\ Held' \subseteq DOMAIN heap'
           /\ tree_cur' # NoTree => tree_cur' \notin {mutated_tree', trimmed_tree'}
           /\ mutated_tree' # NoTree => mutated_tree' # trimmed_tree'
           /\ UNCHANGED <<mutated_tree, trimmed_tree>>
<1> DEFINE h == Free(tree_cur, heap)
<1>1. DOMAIN h = DOMAIN heap \ {tree_cur}
  BY FreeFacts
<1>2. UNCHANGED <<mutated_tree, trimmed_tree>>
  BY DEF QueueGet
<1>3. CASE heap' = h /\ tree_cur' = NoTree
  BY <1>1, <1>2, <1>3, NamesAssumption DEF TreesLive, Held, PointersOK, Pointer
<1>4. CASE \E p \in Fresh(h) : heap' = Alloc(p, Loaded(e, text, file), h) /\ tree_cur' = p
  <2>1. PICK p \in Fresh(h) : heap' = Alloc(p, Loaded(e, text, file), h) /\ tree_cur' = p
    BY <1>4
  <2>2. p \in Addr /\ p \notin DOMAIN h /\ p # NoTree
    BY FreshFacts
  <2>3. DOMAIN heap' = (DOMAIN heap \ {tree_cur}) \cup {p}
    BY <2>1, <1>1, AllocFacts
  <2> HIDE DEF h
  <2> QED
    BY <1>1, <1>2, <2>1, <2>2, <2>3, NamesAssumption DEF TreesLive, Held, PointersOK, Pointer
<1> QED
  BY <1>3, <1>4 DEF QueueGet

(* afl_custom_init() starts without trees *)
LEMMA InitLive == Init => IInv
BY NamesAssumption DEF Init, NoTrees, IInv, TreesLive, Held, PointersOK, Pointer

(* Every step keeps the trees that the pointers name.                      *)
LEMMA NextLive ==
    ASSUME IInv, [Next]_vars
    PROVE  IInv'
<1> USE NamesAssumption DEF IInv, PointersOK, Pointer
<1>1. CASE UNCHANGED vars
  BY <1>1 DEF vars, disk, mutator, afl, TreesLive, Held
<1>2. CASE Start \/ Ready
  BY <1>2 DEF Start, Ready, mutator, TreesLive, Held
<1>3. CASE Stop
  BY <1>3 DEF Stop, Deinit, TreesLive, Held
<1>4. CASE Crash
  BY <1>4 DEF Crash, TreesLive, Held
<1>5. CASE InitTrim
  BY <1>5 DEF InitTrim, TreesLive, Held
<1>6. CASE Trim
  <2>1. PICK t \in Derivable, p \in Fresh(heap) : heap' = Alloc(p, t, heap) /\ trimmed_tree' = p
    BY <1>6 DEF Trim
  <2>2. p \in Addr /\ p \notin DOMAIN heap /\ p # NoTree
    BY FreshFacts
  <2>3. DOMAIN heap' = DOMAIN heap \cup {p}
    BY <2>1, AllocFacts
  <2> QED
    BY <1>6, <2>1, <2>2, <2>3 DEF Trim, TreesLive, Held
<1>7. CASE AbortTrim
  BY <1>7 DEF AbortTrim, mutator, TreesLive, Held
<1>8. CASE SaveTrimmed \/ FuzzCount \/ Havoc \/ NotInteresting \/ Leave
  BY <1>8 DEF SaveTrimmed, FuzzCount, Havoc, NotInteresting, Leave, NextRun,
              disk, mutator, TreesLive, Held
<1>9. CASE Fuzz
  <2> DEFINE h == DropMutated
  <2>1. DOMAIN h = DOMAIN heap \ {mutated_tree}
    BY FreeFacts DEF DropMutated
  <2>2. PICK t \in Derivable, p \in Fresh(h) : heap' = Alloc(p, t, h) /\ mutated_tree' = p
    BY <1>9 DEF Fuzz
  <2>3. p \in Addr /\ p \notin DOMAIN h /\ p # NoTree
    BY FreshFacts
  <2>4. DOMAIN heap' = (DOMAIN heap \ {mutated_tree}) \cup {p}
    BY <2>1, <2>2, AllocFacts
  <2> HIDE DEF h
  <2> QED
    BY <1>9, <2>1, <2>2, <2>3, <2>4 DEF Fuzz, TreesLive, Held
<1>10. ASSUME NEW success \in BOOLEAN, NEW last \in BOOLEAN, PostTrim(success, last)
       PROVE  IInv'
  <2>1. trimmed_tree # NoTree /\ tree_cur # NoTree
    BY <1>10 DEF PostTrim, TreesLive
  <2>2. CASE success
    <3>1. DOMAIN heap' = DOMAIN heap \ {tree_cur} /\ tree_cur' = trimmed_tree
      BY <1>10, <2>2, FreeFacts DEF PostTrim, SwapIn
    <3> QED
      BY <1>10, <2>1, <3>1 DEF PostTrim, TreesLive, Held
  <2>3. CASE ~success
    <3>1. DOMAIN heap' = DOMAIN heap \ {trimmed_tree} /\ tree_cur' = tree_cur
      BY <1>10, <2>3, FreeFacts DEF PostTrim
    <3> QED
      BY <1>10, <2>1, <3>1 DEF PostTrim, TreesLive, Held
  <2> QED
    BY <2>2, <2>3
<1>11. ASSUME NEW e \in Entries, LoadSeed(e) \/ Sync(e)
       PROVE  IInv'
  <2>1. \E text, file : QueueGet(e, text, file)
    BY <1>11 DEF LoadSeed, Sync
  <2>2. phase' = phase /\ phase \in {"boot", "idle"}
    BY <1>11 DEF LoadSeed, Sync, afl
  <2> QED
    BY <2>1, <2>2, QueueGetLive DEF TreesLive, PointersOK
<1>12. ASSUME NEW e \in Entries, Select(e)
       PROVE  IInv'
  <2>1. CASE QueueGet(e, queue[e], TRUE)
    BY <1>12, <2>1, QueueGetLive DEF Select, TreesLive
  <2>2. CASE QueueGetNoDirectory(e)
    <3>1. DOMAIN heap' = DOMAIN heap \ {tree_cur}
      BY <2>2, FreeFacts DEF QueueGetNoDirectory
    <3> QED
      BY <1>12, <2>2, <3>1 DEF Select, QueueGetNoDirectory, TreesLive, Held
  <2> QED
    BY <1>12, <2>1, <2>2 DEF Select
<1>13. ASSUME NEW e \in Entries, NewEntry(e)
       PROVE  IInv'
  <2>1. CASE mutated_tree = NoTree
    <3>1. phase = "havocrun" /\ phase' = "havoc" /\ QueueGet(e, out, TRUE)
      BY <1>13, <2>1 DEF NewEntry, LoadsNewEntry, NextRun
    <3> QED
      BY <3>1, QueueGetLive DEF TreesLive
  <2>2. CASE mutated_tree # NoTree
    <3>1. DOMAIN heap' = DOMAIN heap \ {mutated_tree}
      BY <1>13, <2>2, FreeFacts DEF NewEntry, LoadsNewEntry
    <3> QED
      BY <1>13, <2>2, <3>1 DEF NewEntry, LoadsNewEntry, NextRun, TreesLive, Held
  <2> QED
    BY <2>1, <2>2
<1> QED
  BY <1>1, <1>2, <1>3, <1>4, <1>5, <1>6, <1>7, <1>8, <1>9, <1>10, <1>11, <1>12, <1>13
     DEF Next

(* No function of the mutator uses a tree after tree_free() or frees one   *)
(* twice, whatever AFL calls, aborts or restarts.                          *)
THEOREM TreesStayLive == Spec => []TreesLive
<1>1. IInv /\ [Next]_vars => IInv'
  BY NextLive
<1>2. IInv => TreesLive
  BY DEF IInv
<1> QED
  BY InitLive, <1>1, <1>2, PTL DEF Spec

-----------------------------------------------------------------------------
(* Tree files *)

(* The types of the files and of the trees on the heap.                    *)
DiskOK ==
    /\ queue \in [Entries -> Texts \cup {NoTree}]
    /\ trees \in [Entries -> Derivable \cup {NoTree}]
    /\ kept \in [Entries -> SUBSET Derivable]
    /\ stale \subseteq Entries
    /\ \A p \in DOMAIN heap : heap[p] \in Derivable

(* the texts that a tree of entry e may derive *)
TreesOf(e) == {queue[e], Parse[queue[e]]} \cup kept[e]

(* the entry that is trimmed or mutated, its file and its tree *)
EntryInv ==
    phase \in {"got", "trim", "trimrun", "trimmed", "fuzz", "fuzzrun"} =>
        /\ entry \in Entries
        /\ tree_fn_cur = entry
        /\ queue[entry] \in Texts
        /\ entry \notin stale => heap[tree_cur] \in TreesOf(entry)

(* what the target accepted is the current tree *)
TrimInv ==
    /\ phase \in {"trim", "trimrun", "trimmed"} =>
        /\ trim_was_effective \in BOOLEAN
        /\ trim_was_effective <=> best # NoTree
        /\ best # NoTree => best = heap[tree_cur] /\ best \in kept[entry]
    /\ phase \notin {"trim", "trimrun", "trimmed"} => best = NoTree
    /\ phase = "trimrun" => out = heap[trimmed_tree]
    /\ phase = "trimmed" /\ best # NoTree /\ entry \notin stale =>
        trees[entry] \in {best, NoTree}

(* what the target runs in the two kinds of fuzzing *)
RunInv ==
    /\ phase \in {"fuzzrun", "havocrun"} => out \in Texts
    /\ phase = "fuzzrun" => out = Cut[heap[mutated_tree]]

(* The inductive invariant of the files.                                   *)
FileInv ==
    /\ DiskOK
    /\ TreeFileDescribesEntry
    /\ EntryInv
    /\ TrimInv
    /\ RunInv

(* The other trees stay as they are.                                       *)
LEMMA FreeValues ==
    ASSUME NEW p, NEW h, NEW q \in DOMAIN h \ {p}
    PROVE  Free(p, h)[q] = h[q]
BY DEF Free

(* the trees of a file after write_tree_to_file() *)
LEMMA WrittenFacts ==
    ASSUME DiskOK, NEW f \in Entries, NEW t \in Derivable,
           NEW s \in Written(f, t)
    PROVE  /\ s \in [Entries -> Derivable \cup {NoTree}]
           /\ s[f] \in {t, NoTree}
           /\ \A e \in Entries \ {f} : s[e] = trees[e]
BY DEF DiskOK, Written

(* The texts of trees, their parsing and their cutting.                    *)
LEMMA TextFacts ==
    /\ \A t \in Derivable : t \in Texts /\ t # NoTree
    /\ \A x \in Texts : x # NoTree /\ Cut[x] \in Texts
    /\ \A x \in Texts : Parse[x] \in Derivable \cup {NoTree}
BY TextAssumption

(* The tree that queue_get loads describes the test case as the tree file  *)
(* does.                                                                   *)
LEMMA LoadedFacts ==
    ASSUME DiskOK, TreeFileDescribesEntry,
           NEW e \in Entries, NEW text \in Texts, NEW file,
           queue[e] # NoTree => text = queue[e],
           Loaded(e, text, file) # NoTree
    PROVE  /\ Loaded(e, text, file) \in Derivable
           /\ trees[e] = NoTree => Loaded(e, text, file) = Parse[text]
           /\ e \notin stale => Loaded(e, text, file) \in {text, Parse[text]} \cup kept[e]
BY TextFacts DEF DiskOK, TreeFileDescribesEntry, Loaded

(* queue_get of an entry whose test case is text *)
LEMMA QueueGetFiles ==
    ASSUME IInv, FileInv,
           NEW e \in Entries, NEW text \in Texts, NEW file,
           queue[e] # NoTree => text = queue[e],
           queue' = [queue EXCEPT ![e] = text],
           UNCHANGED <<kept, stale>>,
           QueueGet(e, text, file)
    PROVE  /\ DiskOK'
           /\ TreeFileDescribesEntry'
           /\ tree_fn_cur' = IF file THEN e ELSE NoTree
           /\ tree_cur' # NoTree /\ e \notin stale =>
                  heap'[tree_cur'] \in {text, Parse[text]} \cup kept[e]
<1> DEFINE t == Loaded(e, text, file)
           h == Free(tree_cur, heap)
<1>1. DOMAIN h = DOMAIN heap \ {tree_cur} /\ \A q \in DOMAIN h : h[q] = heap[q]
  BY FreeFacts, FreeValues
<1>2. /\ \A p \in DOMAIN heap' : heap'[p] \in Derivable
      /\ tree_cur' # NoTree => t # NoTree /\ heap'[tree_cur'] = t
  <2>1. CASE t = NoTree
    <3>1. heap' = h /\ tree_cur' = NoTree
      BY <2>1 DEF QueueGet
    <3> QED
      BY <3>1, <1>1 DEF FileInv, DiskOK
  <2>2. CASE t # NoTree
    <3>1. PICK p \in Fresh(h) : heap' = Alloc(p, t, h) /\ tree_cur' = p
      BY <2>2 DEF QueueGet
    <3>2. t \in Derivable
      BY <2>2, LoadedFacts DEF FileInv
    <3> HIDE DEF t, h
    <3>3. /\ DOMAIN heap' = DOMAIN h \cup {p}
          /\ heap'[p] = t
          /\ \A q \in DOMAIN h \ {p} : heap'[q] = h[q]
      BY <3>1 DEF Alloc
    <3> QED
      BY <1>1, <2>2, <3>1, <3>2, <3>3 DEF FileInv, DiskOK
  <2> QED
    BY <2>1, <2>2
<1>3. /\ trees' \in [Entries -> Derivable \cup {NoTree}]
      /\ \A f \in Entries \ {e} : trees'[f] = trees[f]
      /\ \/ trees'[e] = trees[e]
         \/ trees[e] = NoTree /\ t # NoTree /\ trees'[e] \in {t, NoTree}
  <2>1. CASE file /\ trees[e] = NoTree /\ t # NoTree
    <3>1. trees' \in Written(e, t)
      BY <2>1 DEF QueueGet
    <3>2. t \in Derivable
      BY <2>1, LoadedFacts DEF FileInv
    <3> QED
      BY <2>1, <3>1, <3>2, WrittenFacts DEF FileInv
  <2>2. CASE ~(file /\ trees[e] = NoTree /\ t # NoTree)
    BY <2>2 DEF QueueGet, FileInv, DiskOK
  <2> QED
    BY <2>1, <2>2
<1>4. t # NoTree => /\ trees[e] = NoTree => t = Parse[text]
                    /\ e \notin stale => t \in {text, Parse[text]} \cup kept[e]
  BY LoadedFacts DEF FileInv
<1>5. tree_fn_cur' = IF file THEN e ELSE NoTree
  BY DEF QueueGet
<1> HIDE DEF t, h
<1>6. queue' \in [Entries -> Texts \cup {NoTree}] /\ queue'[e] = text
      /\ \A f \in Entries \ {e} : queue'[f] = queue[f]
  BY DEF FileInv, DiskOK
<1>7. DiskOK'
  BY <1>2, <1>3, <1>6 DEF FileInv, DiskOK
<1>8. TreeFileDescribesEntry'
  BY <1>3, <1>4, <1>6, TextFacts DEF FileInv, TreeFileDescribesEntry
<1> QED
  BY <1>2, <1>4, <1>5, <1>7, <1>8

(* No test case has a file before the first start.                         *)
LEMMA InitFiles == Init => FileInv
<1> SUFFICES ASSUME Init PROVE FileInv
  OBVIOUS
<1> USE DEF Init, NoTrees
<1>1. DiskOK
  BY DEF DiskOK
<1>2. TreeFileDescribesEntry
  BY DEF TreeFileDescribesEntry
<1>3. EntryInv /\ TrimInv /\ RunInv
  BY DEF EntryInv, TrimInv, RunInv
<1> QED
  BY <1>1, <1>2, <1>3 DEF FileInv

(* every step keeps the tree files right *)
LEMMA NextFiles ==
    ASSUME IInv, FileInv, [Next]_vars
    PROVE  FileInv'
<1> USE DEF FileInv
<1>1. CASE UNCHANGED vars
  BY <1>1 DEF vars, disk, mutator, afl, DiskOK, TreeFileDescribesEntry,
              EntryInv, TreesOf, TrimInv, RunInv
<1>2. CASE Start \/ Ready \/ Leave \/ AbortTrim
  BY <1>2 DEF Start, Ready, Leave, AbortTrim, disk, mutator, DiskOK,
              TreeFileDescribesEntry, EntryInv, TreesOf, TrimInv, RunInv
<1>3. CASE Stop
  <2>1. DOMAIN heap' \subseteq DOMAIN heap /\ \A p \in DOMAIN heap' : heap'[p] = heap[p]
    BY <1>3 DEF Stop, Deinit, Free
  <2> QED
    BY <1>3, <2>1 DEF Stop, disk, DiskOK, TreeFileDescribesEntry,
                      EntryInv, TreesOf, TrimInv, RunInv
<1>4. CASE Crash
  <2>1. /\ trees' \in [Entries -> Derivable \cup {NoTree}]
        /\ \A e \in Entries : trees'[e] \in {trees[e], NoTree}
    BY <1>4 DEF Crash, DiskOK
  <2> QED
    BY <1>4, <2>1 DEF Crash, DiskOK, TreeFileDescribesEntry,
                      EntryInv, TreesOf, TrimInv, RunInv
<1>5. CASE InitTrim
  BY <1>5 DEF InitTrim, disk, DiskOK, TreeFileDescribesEntry,
              EntryInv, TreesOf, TrimInv, RunInv
<1>6. CASE Trim
  <2>1. PICK t \in Derivable, p \in Fresh(heap) :
            /\ heap' = Alloc(p, t, heap)
            /\ trimmed_tree' = p
            /\ out' = t
    BY <1>6 DEF Trim
  <2>2. p \notin DOMAIN heap
    BY FreshFacts
  <2>3. /\ DOMAIN heap' = DOMAIN heap \cup {p}
        /\ heap'[p] = t
        /\ \A q \in DOMAIN heap : heap'[q] = heap[q]
    BY <2>1, <2>2 DEF Alloc
  <2>4. tree_cur \in DOMAIN heap
    BY <1>6 DEF Trim, IInv, TreesLive, Held
  <2>5. DiskOK' /\ TreeFileDescribesEntry'
    BY <1>6, <2>3 DEF Trim, disk, DiskOK, TreeFileDescribesEntry
  <2>6. EntryInv' /\ TrimInv' /\ RunInv'
    BY <1>6, <2>1, <2>3, <2>4 DEF Trim, disk, EntryInv, TreesOf, TrimInv, RunInv
  <2> QED
    BY <2>5, <2>6
<1>7. CASE SaveTrimmed
  <2>1. entry \in Entries /\ entry = entry' /\ tree_cur \in DOMAIN heap
    BY <1>7 DEF SaveTrimmed, EntryInv, IInv, TreesLive, Held
  <2>2. CASE best = NoTree
    BY <1>7, <2>2 DEF SaveTrimmed, mutator, DiskOK, TreeFileDescribesEntry,
                      EntryInv, TreesOf, TrimInv, RunInv
  <2>3. CASE best # NoTree
    <3>1. best = heap[tree_cur] /\ best \in Derivable /\ best \in Texts /\ best # NoTree
      BY <1>7, <2>1, <2>3, TextFacts DEF SaveTrimmed, TrimInv, DiskOK
    <3>2. /\ queue' \in [Entries -> Texts \cup {NoTree}]
          /\ queue'[entry] = best
          /\ \A e \in Entries \ {entry} : queue'[e] = queue[e]
      BY <1>7, <2>1, <2>3, <3>1 DEF SaveTrimmed, DiskOK
    <3>3. entry \notin stale => trees[entry] \in {best, NoTree}
      BY <1>7, <2>3 DEF SaveTrimmed, TrimInv
    <3>4. UNCHANGED <<trees, heap, tree_cur, kept, stale, tree_fn_cur>> /\ phase' = "got"
      BY <1>7 DEF SaveTrimmed, mutator
    <3>5. DiskOK' /\ TreeFileDescribesEntry'
      BY <3>1, <3>2, <3>3, <3>4 DEF DiskOK, TreeFileDescribesEntry
    <3>6. EntryInv'
      BY <1>7, <2>1, <3>1, <3>2, <3>4, TextFacts DEF SaveTrimmed, EntryInv, TreesOf
    <3>7. TrimInv' /\ RunInv'
      BY <1>7, <3>4 DEF SaveTrimmed, TrimInv, RunInv
    <3> QED
      BY <3>5, <3>6, <3>7
  <2> QED
    BY <2>2, <2>3
<1>8. CASE FuzzCount \/ NotInteresting
  BY <1>8 DEF FuzzCount, NotInteresting, NextRun, disk, mutator, DiskOK,
              TreeFileDescribesEntry, EntryInv, TreesOf, TrimInv, RunInv
<1>9. CASE Havoc
  BY <1>9 DEF Havoc, disk, mutator, DiskOK, TreeFileDescribesEntry,
              EntryInv, TreesOf, TrimInv, RunInv
<1>10. CASE Fuzz
  <2> DEFINE h == DropMutated
  <2>1. PICK t \in Derivable, p \in Fresh(h) :
            heap' = Alloc(p, t, h) /\ mutated_tree' = p /\ out' = Cut[t]
    BY <1>10 DEF Fuzz
  <2>2. DOMAIN h \subseteq DOMAIN heap /\ \A q \in DOMAIN h : h[q] = heap[q]
    BY DEF DropMutated, Free
  <2> HIDE DEF h
  <2>3. /\ DOMAIN heap' = DOMAIN h \cup {p}
        /\ heap'[p] = t
        /\ \A q \in DOMAIN h \ {p} : heap'[q] = h[q]
    BY <2>1 DEF Alloc
  <2>4. DiskOK'
    BY <1>10, <2>2, <2>3 DEF Fuzz, disk, DiskOK
  <2>5. TreeFileDescribesEntry'
    BY <1>10 DEF Fuzz, disk, TreeFileDescribesEntry
  <2>6. heap'[tree_cur'] = heap[tree_cur] /\ tree_cur' = tree_cur
    <3>1. tree_cur \in DOMAIN h
      BY <1>10, FreeFacts DEF Fuzz, h, DropMutated, IInv, TreesLive, Held
    <3>2. tree_cur # p /\ tree_cur' = tree_cur
      BY <1>10, <2>1, <3>1, FreshFacts DEF Fuzz
    <3> QED
      BY <2>2, <2>3, <3>1, <3>2
  <2>7. EntryInv'
    BY <1>10, <2>6 DEF Fuzz, disk, EntryInv, TreesOf
  <2>8. TrimInv' /\ RunInv'
    BY <1>10, <2>1, <2>3, TextFacts DEF Fuzz, TrimInv, RunInv
  <2> QED
    BY <2>4, <2>5, <2>7, <2>8
<1>11. ASSUME NEW success \in BOOLEAN, NEW last \in BOOLEAN, PostTrim(success, last)
       PROVE  FileInv'
  <2>1. /\ tree_cur \in DOMAIN heap
        /\ trimmed_tree \in DOMAIN heap
        /\ tree_cur # trimmed_tree
        /\ entry \in Entries
        /\ tree_fn_cur = entry
        /\ queue[entry] \in Texts
    BY <1>11 DEF PostTrim, IInv, TreesLive, Held, EntryInv
  <2>2. /\ UNCHANGED <<queue, entry, tree_fn_cur>>
        /\ phase' = IF last THEN "trimmed" ELSE "trim"
    BY <1>11 DEF PostTrim
  <2>3. /\ \A p \in DOMAIN heap' : heap'[p] \in Derivable
        /\ tree_cur' \in DOMAIN heap'
        /\ trim_was_effective' \in BOOLEAN
        /\ trim_was_effective' <=> best' # NoTree
        /\ best' # NoTree => best' = heap'[tree_cur'] /\ best' \in kept'[entry]
        /\ heap'[tree_cur'] = heap[tree_cur] \/ heap'[tree_cur'] \in kept'[entry]
        /\ kept' \in [Entries -> SUBSET Derivable]
        /\ \A e \in Entries : kept[e] \subseteq kept'[e]
    <3>1. CASE success
      <4>1. /\ heap' = Free(tree_cur, heap)
            /\ tree_cur' = trimmed_tree
            /\ trim_was_effective' = TRUE
            /\ best' = out
            /\ kept' = [kept EXCEPT ![entry] = @ \cup {out}]
        BY <1>11, <3>1 DEF PostTrim, SwapIn
      <4>2. /\ DOMAIN heap' = DOMAIN heap \ {tree_cur}
            /\ \A q \in DOMAIN heap' : heap'[q] = heap[q]
        BY <4>1, FreeFacts, FreeValues
      <4>3. out = heap[trimmed_tree]
        BY <1>11 DEF PostTrim, TrimInv
      <4>4. out \in Derivable /\ out # NoTree
        BY <2>1, <4>3, TextFacts DEF DiskOK
      <4> QED
        BY <2>1, <4>1, <4>2, <4>3, <4>4 DEF DiskOK
    <3>2. CASE ~success
      <4>1. /\ heap' = Free(trimmed_tree, heap)
            /\ UNCHANGED <<tree_cur, trim_was_effective, best, kept>>
        BY <1>11, <3>2 DEF PostTrim
      <4>2. /\ DOMAIN heap' = DOMAIN heap \ {trimmed_tree}
            /\ \A q \in DOMAIN heap' : heap'[q] = heap[q]
        BY <4>1, FreeFacts, FreeValues
      <4> QED
        BY <1>11, <2>1, <4>1, <4>2 DEF PostTrim, TrimInv, DiskOK
    <3> QED
      BY <3>1, <3>2
  <2>4. heap'[tree_cur'] \in Derivable /\ heap'[tree_cur'] # NoTree
    BY <2>3, TextFacts
  <2>5. /\ trees' \in [Entries -> Derivable \cup {NoTree}]
        /\ stale' \subseteq Entries /\ stale \subseteq stale'
        /\ \A e \in Entries \ {entry} : trees'[e] = trees[e]
        /\ \/ ~(last /\ trim_was_effective') /\ trees' = trees
           \/ entry \in stale' /\ trees' = trees
           \/ trim_was_effective' /\ trees'[entry] \in {heap'[tree_cur'], NoTree}
    <3>1. CASE trees' \in Saved(last) /\ UNCHANGED stale
      <4>1. CASE last /\ trim_was_effective'
        <5>1. trees' \in Written(tree_fn_cur, heap'[tree_cur'])
          BY <3>1, <4>1 DEF Saved
        <5> QED
          BY <2>1, <2>4, <3>1, <4>1, <5>1, WrittenFacts DEF DiskOK
      <4>2. CASE ~(last /\ trim_was_effective')
        BY <3>1, <4>2 DEF Saved, DiskOK
      <4> QED
        BY <4>1, <4>2
    <3>2. CASE stale' = stale \cup {entry} /\ UNCHANGED trees
      BY <2>1, <3>2 DEF DiskOK
    <3> QED
      BY <1>11, <3>1, <3>2 DEF PostTrim
  <2>6. entry \notin stale => heap'[tree_cur'] \in TreesOf(entry)'
    <3>1. entry \notin stale => heap[tree_cur] \in TreesOf(entry)
      BY <1>11 DEF PostTrim, EntryInv
    <3> QED
      BY <2>1, <2>2, <2>3, <3>1 DEF TreesOf
  <2>7. DiskOK'
    BY <2>2, <2>3, <2>5 DEF DiskOK
  <2>8. TreeFileDescribesEntry'
    BY <2>1, <2>2, <2>3, <2>5, TextFacts DEF TreeFileDescribesEntry
  <2>9. EntryInv'
    BY <2>1, <2>2, <2>5, <2>6 DEF EntryInv, TreesOf
  <2>10. TrimInv' /\ RunInv'
    BY <2>2, <2>3, <2>5 DEF TrimInv, RunInv
  <2> QED
    BY <2>7, <2>8, <2>9, <2>10
<1>12. ASSUME NEW e \in Entries, LoadSeed(e)
       PROVE  FileInv'
  <2>1. queue[e] \in Texts /\ queue' = [queue EXCEPT ![e] = queue[e]]
    BY <1>12 DEF LoadSeed, DiskOK
  <2>2. QueueGet(e, queue[e], crashes > 0) /\ UNCHANGED <<kept, stale>>
        /\ phase = "boot" /\ phase' = "boot" /\ best' = best
    BY <1>12 DEF LoadSeed, afl
  <2>3. DiskOK' /\ TreeFileDescribesEntry'
    BY <2>1, <2>2, QueueGetFiles
  <2> QED
    BY <2>2, <2>3 DEF EntryInv, TreesOf, TrimInv, RunInv
<1>13. ASSUME NEW e \in Entries, Sync(e)
       PROVE  FileInv'
  <2>1. PICK x \in Texts : queue' = [queue EXCEPT ![e] = x] /\ QueueGet(e, x, TRUE)
    BY <1>13 DEF Sync
  <2>2. /\ queue[e] = NoTree
        /\ UNCHANGED <<phase, best, kept, stale>>
        /\ phase = "idle"
    BY <1>13 DEF Sync, afl
  <2>3. DiskOK' /\ TreeFileDescribesEntry'
    BY <2>1, <2>2, QueueGetFiles
  <2> QED
    BY <2>2, <2>3 DEF EntryInv, TreesOf, TrimInv, RunInv
<1>14. ASSUME NEW e \in Entries, Select(e)
       PROVE  FileInv'
  <2>1. /\ queue[e] \in Texts
        /\ queue' = [queue EXCEPT ![e] = queue[e]]
        /\ UNCHANGED <<queue, best, kept, stale>>
        /\ phase = "idle"
        /\ IF tree_cur' # NoTree THEN phase' = "got" /\ entry' = e
                                ELSE phase' = "idle"
    BY <1>14 DEF Select, DiskOK
  <2>2. CASE QueueGet(e, queue[e], TRUE)
    <3>1. /\ DiskOK' /\ TreeFileDescribesEntry'
          /\ tree_fn_cur' = e
          /\ tree_cur' # NoTree /\ e \notin stale =>
                 heap'[tree_cur'] \in {queue[e], Parse[queue[e]]} \cup kept[e]
      BY <2>1, <2>2, QueueGetFiles
    <3> QED
      BY <2>1, <3>1 DEF EntryInv, TreesOf, TrimInv, RunInv
  <2>3. CASE QueueGetNoDirectory(e)
    <3>1. /\ DOMAIN heap' = DOMAIN heap \ {tree_cur}
          /\ \A q \in DOMAIN heap' : heap'[q] = heap[q]
          /\ tree_cur' = NoTree /\ trees' = trees
      BY <2>3, FreeFacts, FreeValues DEF QueueGetNoDirectory
    <3> QED
      BY <2>1, <3>1 DEF DiskOK, TreeFileDescribesEntry, EntryInv, TreesOf,
                        TrimInv, RunInv
  <2> QED
    BY <1>14, <2>2, <2>3 DEF Select
<1>15. ASSUME NEW e \in Entries, NewEntry(e)
       PROVE  FileInv'
  <2>1. /\ queue[e] = NoTree
        /\ out \in Texts
        /\ queue' = [queue EXCEPT ![e] = out]
        /\ kept' = kept
        /\ phase' \in {"fuzz", "havoc"}
    BY <1>15 DEF NewEntry, NextRun, RunInv
  <2>2. CASE mutated_tree = NoTree
    <3>1. phase = "havocrun" /\ phase' = "havoc"
      BY <1>15, <2>2 DEF NewEntry, NextRun, IInv
    <3>2. QueueGet(e, out, TRUE) /\ UNCHANGED <<best, kept, stale>>
      BY <1>15, <2>1, <2>2 DEF NewEntry, LoadsNewEntry
    <3>3. DiskOK' /\ TreeFileDescribesEntry'
      BY <2>1, <3>2, QueueGetFiles
    <3> QED
      BY <3>1, <3>3, <3>2 DEF EntryInv, TrimInv, RunInv
  <2>3. CASE mutated_tree # NoTree
    <3> DEFINE t == heap[mutated_tree]
    <3>1. t \in Derivable /\ t \in Texts
      BY <2>3, TextFacts DEF IInv, TreesLive, Held, DiskOK
    <3>2. /\ trees' \in Written(e, t)
          /\ heap' = Free(mutated_tree, heap)
          /\ stale' = IF Foreign THEN stale \cup {e} ELSE stale
      BY <1>15, <2>3 DEF NewEntry, NewTreeFile, LoadsNewEntry
    <3>3. e \notin stale' => out = t
      BY <1>15, <3>2 DEF NewEntry, Foreign, RunInv
    <3>4. /\ DOMAIN heap' = DOMAIN heap \ {mutated_tree}
          /\ \A q \in DOMAIN heap' : heap'[q] = heap[q]
      <4>1. DOMAIN heap' = DOMAIN heap \ {mutated_tree}
        BY <3>2, FreeFacts
      <4> QED
        BY <3>2, <4>1, FreeValues
    <3>5. stale' \subseteq Entries /\ stale \subseteq stale'
      BY <3>2 DEF DiskOK
    <3> HIDE DEF t
    <3>6. /\ trees' \in [Entries -> Derivable \cup {NoTree}]
          /\ trees'[e] \in {t, NoTree}
          /\ \A f \in Entries \ {e} : trees'[f] = trees[f]
      BY <3>1, <3>2, WrittenFacts
    <3>7. /\ queue' \in [Entries -> Texts \cup {NoTree}]
          /\ queue'[e] = out
          /\ \A f \in Entries \ {e} : queue'[f] = queue[f]
      BY <2>1 DEF DiskOK
    <3>8. DiskOK'
      BY <2>1, <3>4, <3>5, <3>6, <3>7 DEF DiskOK
    <3>9. TreeFileDescribesEntry'
      BY <2>1, <3>3, <3>5, <3>6, <3>7, TextFacts DEF TreeFileDescribesEntry
    <3>10. EntryInv' /\ TrimInv'
      <4>1. CASE phase = "fuzzrun"
        <5>1. /\ entry \in Entries /\ tree_fn_cur = entry
              /\ queue[entry] \in Texts
              /\ entry \notin stale => heap[tree_cur] \in TreesOf(entry)
              /\ best = NoTree
          BY <4>1 DEF EntryInv, TreesOf, TrimInv
        <5>2. entry # e
          BY <2>1, <5>1, TextFacts
        <5>3. UNCHANGED <<entry, tree_fn_cur, tree_cur, best>>
          BY <1>15, <2>3 DEF NewEntry, LoadsNewEntry
        <5>4. heap'[tree_cur'] = heap[tree_cur]
          BY <2>3, <3>4, <4>1, <5>3 DEF IInv, TreesLive, Held
        <5> QED
          BY <2>1, <3>5, <3>7, <5>1, <5>2, <5>3, <5>4
             DEF EntryInv, TreesOf, TrimInv
      <4>2. CASE phase = "havocrun"
        BY <1>15, <4>2 DEF NewEntry, NextRun, EntryInv, TreesOf, TrimInv
      <4> QED
        BY <1>15, <4>1, <4>2 DEF NewEntry
    <3> QED
      BY <2>1, <3>8, <3>9, <3>10 DEF RunInv
  <2> QED
    BY <2>2, <2>3
<1> QED
  BY <1>1, <1>2, <1>3, <1>4, <1>5, <1>6, <1>7, <1>8, <1>9, <1>10, <1>11, <1>12,
     <1>13, <1>14, <1>15
     DEF Next

(* Both invariants hold always.                                            *)
THEOREM Invariants == Spec => [](IInv /\ FileInv)
<1>1. IInv /\ FileInv /\ [Next]_vars => (IInv /\ FileInv)'
  BY NextLive, NextFiles
<1> QED
  BY InitLive, InitFiles, <1>1, PTL DEF Spec

(* A tree file describes its test case or an accepted trimmed form of it,  *)
(* after any aborted trimming, failed write, kill and restart, but for the *)
(* entries in stale.                                                       *)
THEOREM TreeFilesDescribeEntries == Spec => []TreeFileDescribesEntry
<1>1. IInv /\ FileInv => TreeFileDescribesEntry
  BY DEF FileInv
<1> QED
  BY Invariants, <1>1, PTL

(* Trimming and the mutations work on a tree of the entry that AFL is at,  *)
(* and AFL writes the text of that tree, but for the entries in stale.     *)
THEOREM CurrentTreesOfEntries == Spec => []CurrentTreeOfEntry
<1>1. IInv /\ FileInv => CurrentTreeOfEntry
  <2> SUFFICES ASSUME IInv, FileInv,
                      phase \in {"got", "trim", "trimrun", "trimmed", "fuzz", "fuzzrun"}
               PROVE  /\ tree_cur \in DOMAIN heap
                      /\ entry \notin stale => heap[tree_cur] \in TreesOf(entry)
                      /\ best # NoTree => heap[tree_cur] = best
    BY DEF CurrentTreeOfEntry, TreesOf
  <2>1. tree_cur \in DOMAIN heap
    BY DEF IInv, TreesLive, Held
  <2> QED
    BY <2>1 DEF FileInv, EntryInv, TrimInv
<1> QED
  BY Invariants, <1>1, PTL

-----------------------------------------------------------------------------
(* Lost trees *)

(* The trees that no pointer names any more.                               *)
Lost == DOMAIN heap \ Held

(* a tree that an aborted trimming left in trimmed_tree and that the next  *)
(* afl_custom_trim() will lose                                             *)
Debt == IF phase # "trimrun" /\ trimmed_tree # NoTree THEN 1 ELSE 0

(* The inductive invariant of the lost trees: at most one for every        *)
(* aborted trimming.                                                       *)
LostInv ==
    /\ IsFiniteSet(Lost)
    /\ aborts \in Nat
    /\ Cardinality(Lost) + Debt <= aborts

(* afl_custom_init() starts without trees to lose.                         *)
LEMMA InitLost == Init => LostInv
<1> SUFFICES ASSUME Init PROVE LostInv
  OBVIOUS
<1>1. Lost = {} /\ Debt = 0 /\ aborts = 0
  BY DEF Init, NoTrees, Lost, Debt
<1> QED
  BY <1>1, FS_EmptySet DEF LostInv

(* a step that loses no tree and leaves none behind *)
LEMMA NothingLost ==
    ASSUME LostInv, Lost' \subseteq Lost, Debt' <= Debt, aborts' = aborts
    PROVE  LostInv'
<1>1. IsFiniteSet(Lost') /\ Cardinality(Lost') <= Cardinality(Lost)
  BY FS_Subset DEF LostInv
<1>2. Cardinality(Lost) \in Nat /\ Cardinality(Lost') \in Nat
  BY <1>1, FS_CardinalityType DEF LostInv
<1>3. Debt \in 0..1 /\ Debt' \in 0..1
  BY DEF Debt
<1> QED
  BY <1>1, <1>2, <1>3 DEF LostInv

(* queue_get frees the tree that it replaces.                              *)
LEMMA QueueGetLost ==
    ASSUME NEW e, NEW text, NEW file, QueueGet(e, text, file)
    PROVE  Lost' \subseteq Lost /\ trimmed_tree' = trimmed_tree
<1> DEFINE h == Free(tree_cur, heap)
<1>1. DOMAIN h = DOMAIN heap \ {tree_cur}
  BY FreeFacts
<1>2. UNCHANGED <<mutated_tree, trimmed_tree>>
  BY DEF QueueGet
<1>3. CASE heap' = h /\ tree_cur' = NoTree
  BY <1>1, <1>2, <1>3 DEF Lost, Held
<1>4. CASE \E p \in Fresh(h) : heap' = Alloc(p, Loaded(e, text, file), h) /\ tree_cur' = p
  <2>1. PICK p \in Fresh(h) : heap' = Alloc(p, Loaded(e, text, file), h) /\ tree_cur' = p
    BY <1>4
  <2>2. p # NoTree
    BY FreshFacts
  <2>3. DOMAIN heap' = (DOMAIN heap \ {tree_cur}) \cup {p}
    BY <2>1, <1>1, AllocFacts
  <2> HIDE DEF h
  <2> QED
    BY <1>2, <2>1, <2>2, <2>3 DEF Lost, Held
<1> QED
  BY <1>3, <1>4 DEF QueueGet

(* Only an aborted trimming loses a tree.                                  *)
LEMMA NextLost ==
    ASSUME IInv, LostInv, [Next]_vars
    PROVE  LostInv'
<1>1. CASE UNCHANGED vars
  <2>1. Lost' = Lost /\ Debt' = Debt /\ aborts' = aborts
    BY <1>1 DEF vars, disk, mutator, afl, Lost, Held, Debt
  <2> QED
    BY <2>1 DEF LostInv
<1>2. CASE Start \/ Ready \/ InitTrim \/ SaveTrimmed \/ FuzzCount \/ Havoc
           \/ NotInteresting \/ Leave
  <2>1. Lost' = Lost /\ aborts' = aborts /\ trimmed_tree' = trimmed_tree
    BY <1>2 DEF Start, Ready, InitTrim, SaveTrimmed, FuzzCount, Havoc,
                NotInteresting, Leave, disk, mutator, Lost, Held
  <2>2. phase # "trimrun" /\ phase' # "trimrun"
    BY <1>2 DEF Start, Ready, InitTrim, SaveTrimmed, FuzzCount, Havoc,
                NotInteresting, Leave, NextRun
  <2>3. Debt' <= Debt
    BY <2>1, <2>2 DEF Debt
  <2> QED
    BY <2>1, <2>3, NothingLost
<1>3. CASE Stop
  <2>1. DOMAIN heap' = DOMAIN heap \ {tree_cur, mutated_tree, trimmed_tree}
    BY <1>3 DEF Stop, Deinit, Free
  <2>2. Lost' \subseteq Lost
    BY <2>1 DEF Lost, Held
  <2>3. Debt' <= Debt /\ aborts' = aborts
    BY <1>3 DEF Stop, Deinit, Debt
  <2> QED
    BY <2>2, <2>3, NothingLost
<1>4. CASE Crash
  <2>1. Lost' \subseteq Lost
    BY <1>4 DEF Crash, Lost
  <2>2. Debt' <= Debt /\ aborts' = aborts
    BY <1>4 DEF Crash, Debt
  <2> QED
    BY <2>1, <2>2, NothingLost
<1>5. CASE Trim
  <2>1. PICK t \in Derivable, p \in Fresh(heap) : heap' = Alloc(p, t, heap) /\ trimmed_tree' = p
    BY <1>5 DEF Trim
  <2>2. p # NoTree
    BY FreshFacts
  <2>3. DOMAIN heap' = DOMAIN heap \cup {p}
    BY <2>1, AllocFacts
  <2>4. /\ UNCHANGED <<tree_cur, mutated_tree, aborts>>
        /\ phase = "trim" /\ phase' = "trimrun"
    BY <1>5 DEF Trim
  <2>5. Debt' = 0
    BY <2>4 DEF Debt
  <2>6. CASE trimmed_tree = NoTree
    <3>1. Lost' \subseteq Lost
      BY <2>1, <2>2, <2>3, <2>4, <2>6 DEF Lost, Held
    <3>2. Debt' <= Debt
      BY <2>5 DEF Debt
    <3> QED
      BY <2>4, <3>1, <3>2, NothingLost
  <2>7. CASE trimmed_tree # NoTree
    <3>1. Lost' \subseteq Lost \cup {trimmed_tree}
      BY <2>1, <2>2, <2>3, <2>4 DEF Lost, Held
    <3>2. trimmed_tree \notin Lost
      BY <2>7 DEF Lost, Held
    <3>3. /\ IsFiniteSet(Lost \cup {trimmed_tree})
          /\ Cardinality(Lost \cup {trimmed_tree}) = Cardinality(Lost) + 1
      BY <3>2, FS_AddElement DEF LostInv
    <3>4. IsFiniteSet(Lost') /\ Cardinality(Lost') <= Cardinality(Lost) + 1
      BY <3>1, <3>3, FS_Subset
    <3>5. Cardinality(Lost) \in Nat /\ Cardinality(Lost') \in Nat
      BY <3>4, FS_CardinalityType DEF LostInv
    <3>6. Debt = 1
      BY <2>4, <2>7 DEF Debt
    <3> QED
      BY <2>4, <2>5, <3>4, <3>5, <3>6 DEF LostInv
  <2> QED
    BY <2>6, <2>7
<1>6. CASE AbortTrim
  <2>1. Lost' = Lost /\ aborts' = aborts + 1
    BY <1>6 DEF AbortTrim, mutator, Lost, Held
  <2>2. Debt = 0 /\ Debt' \in 0..1
    BY <1>6 DEF AbortTrim, Debt
  <2>3. Cardinality(Lost) \in Nat
    BY FS_CardinalityType DEF LostInv
  <2> QED
    BY <2>1, <2>2, <2>3 DEF LostInv
<1>7. CASE Fuzz
  <2> DEFINE h == DropMutated
  <2>1. DOMAIN h = DOMAIN heap \ {mutated_tree}
    BY FreeFacts DEF DropMutated
  <2>2. PICK t \in Derivable, p \in Fresh(h) : heap' = Alloc(p, t, h) /\ mutated_tree' = p
    BY <1>7 DEF Fuzz
  <2>3. p # NoTree
    BY FreshFacts
  <2>4. DOMAIN heap' = (DOMAIN heap \ {mutated_tree}) \cup {p}
    BY <2>1, <2>2, AllocFacts
  <2> HIDE DEF h
  <2>5. /\ UNCHANGED <<tree_cur, trimmed_tree, aborts>>
        /\ phase = "fuzz" /\ phase' = "fuzzrun"
    BY <1>7 DEF Fuzz
  <2>6. Lost' \subseteq Lost
    BY <2>2, <2>3, <2>4, <2>5 DEF Lost, Held
  <2>7. Debt' <= Debt
    BY <2>5 DEF Debt
  <2> QED
    BY <2>5, <2>6, <2>7, NothingLost
<1>8. ASSUME NEW success \in BOOLEAN, NEW last \in BOOLEAN, PostTrim(success, last)
      PROVE  LostInv'
  <2>1. /\ trimmed_tree' = NoTree
        /\ UNCHANGED <<mutated_tree, aborts>>
    BY <1>8 DEF PostTrim
  <2>2. CASE success
    <3>1. DOMAIN heap' = DOMAIN heap \ {tree_cur} /\ tree_cur' = trimmed_tree
      BY <1>8, <2>2, FreeFacts DEF PostTrim, SwapIn
    <3> QED
      <4>1. Lost' \subseteq Lost
        BY <2>1, <3>1 DEF Lost, Held
      <4>2. Debt' <= Debt
        BY <2>1 DEF Debt
      <4> QED
        BY <2>1, <4>1, <4>2, NothingLost
  <2>3. CASE ~success
    <3>1. DOMAIN heap' = DOMAIN heap \ {trimmed_tree} /\ tree_cur' = tree_cur
      BY <1>8, <2>3, FreeFacts DEF PostTrim
    <3>2. Lost' \subseteq Lost
      BY <2>1, <3>1 DEF Lost, Held
    <3>3. Debt' <= Debt
      BY <2>1 DEF Debt
    <3> QED
      BY <2>1, <3>2, <3>3, NothingLost
  <2> QED
    BY <2>2, <2>3
<1>9. ASSUME NEW e \in Entries, LoadSeed(e) \/ Sync(e) \/ Select(e)
      PROVE  LostInv'
  <2>1. /\ phase # "trimrun" /\ phase' # "trimrun"
        /\ aborts' = aborts
    BY <1>9 DEF LoadSeed, Sync, Select, afl
  <2>2. Lost' \subseteq Lost /\ trimmed_tree' = trimmed_tree
    <3>1. CASE \E text, file : QueueGet(e, text, file)
      BY <3>1, QueueGetLost
    <3>2. CASE QueueGetNoDirectory(e)
      <4>1. DOMAIN heap' = DOMAIN heap \ {tree_cur}
        BY <3>2, FreeFacts DEF QueueGetNoDirectory
      <4> QED
        BY <3>2, <4>1 DEF QueueGetNoDirectory, Lost, Held
    <3> QED
      BY <1>9, <3>1, <3>2 DEF LoadSeed, Sync, Select
  <2>3. Debt' <= Debt
    BY <2>1, <2>2 DEF Debt
  <2> QED
    BY <2>1, <2>2, <2>3, NothingLost
<1>10. ASSUME NEW e \in Entries, NewEntry(e)
       PROVE  LostInv'
  <2>1. /\ phase # "trimrun" /\ phase' # "trimrun"
        /\ aborts' = aborts
    BY <1>10 DEF NewEntry, LoadsNewEntry, NextRun
  <2>2. Lost' \subseteq Lost /\ trimmed_tree' = trimmed_tree
    <3>1. CASE mutated_tree = NoTree
      BY <1>10, <3>1, QueueGetLost DEF NewEntry, LoadsNewEntry
    <3>2. CASE mutated_tree # NoTree
      <4>1. DOMAIN heap' = DOMAIN heap \ {mutated_tree}
        BY <1>10, <3>2, FreeFacts DEF NewEntry, LoadsNewEntry
      <4> QED
        BY <1>10, <3>2, <4>1 DEF NewEntry, LoadsNewEntry, Lost, Held
    <3> QED
      BY <3>1, <3>2
  <2>3. Debt' <= Debt
    BY <2>1, <2>2 DEF Debt
  <2> QED
    BY <2>1, <2>2, <2>3, NothingLost
<1> QED
  BY <1>1, <1>2, <1>3, <1>4, <1>5, <1>6, <1>7, <1>8, <1>9, <1>10 DEF Next

(* The mutator loses at most one tree for each trimming that AFL aborted   *)
(* between trim and post_trim, however long it runs.                       *)
THEOREM OnlyAbortsLoseTrees == Spec => []LostByAbortOnly
<1>1. IInv /\ LostInv /\ [Next]_vars => (IInv /\ LostInv)'
  BY NextLive, NextLost
<1>2. IInv /\ LostInv => LostByAbortOnly
  <2> SUFFICES ASSUME LostInv PROVE LostByAbortOnly
    OBVIOUS
  <2>1. Cardinality(Lost) \in Nat /\ Debt \in 0..1
    BY FS_CardinalityType DEF LostInv, Debt
  <2> QED
    BY <2>1 DEF LostInv, LostByAbortOnly, Lost
<1> QED
  BY InitLive, InitLost, <1>1, <1>2, PTL DEF Spec
=============================================================================
