----------------------------- MODULE IkdRebuild -----------------------------
(***************************************************************************)
(* FAST_LIO's ikd-Tree while a subtree is rebuilt: the mapping thread adds   *)
(* and deletes points, its OpenMP team searches, and a second thread copies  *)
(* the subtree, builds a balanced one from the copy, replays the operations  *)
(* logged meanwhile and swaps it in.                                         *)
(*                                                                         *)
(* The tree is reduced to the subtree Rebuild_Ptr points to, and the subtree *)
(* to the set of points in it that are not deleted.  rebuild_logger_mutex    *)
(* is only taken inside the others' critical sections and disappears in the  *)
(* atomicity of the steps; rebuild_ptr_mutex is held by the rebuild thread   *)
(* whenever it is not idle.  A deletion that Push_Down carries into the      *)
(* subtree takes the same path as one that reaches it: it is a DELETE_BOX.   *)
(***************************************************************************)
EXTENDS Integers, Sequences, FiniteSets

CONSTANTS
    Points,     \* the points that may lie in the subtree
    Searchers,  \* the threads of the OpenMP team
    MaxOps      \* bound: operations of the mapping thread

ASSUME IkdAssumption ==
    /\ Points # {} /\ IsFiniteSet(Searchers) /\ MaxOps \in Nat

VARIABLES
    tree,           \* the points of the subtree in its slot
    Rebuild_Ptr,    \* "null", "root" (&Root_Node) or "son" (the slot in its father)
    rebuild_flag,
    Rebuild_Logger,
    search_mutex_counter,
    working_flag_mutex,  \* who has locked it: "main", "rebuild" or "none"
    search_flag_mutex,   \* whether Search_by_range holds it
    main,           \* where the mapping thread is
    operation,      \* the operation it performs
    search,         \* where each thread of its team is
    rebuild,        \* where the rebuild thread is
    Storage,        \* Rebuild_PCL_Storage, then the tree under new_root_node
    replayed,       \* the operation the rebuild thread has popped
    stale,          \* history: the logger was not empty when this rebuild began
    range,          \* history: the nodes Search_by_range walks, "none" outside it
    ops

vars == <<tree, Rebuild_Ptr, rebuild_flag, Rebuild_Logger, search_mutex_counter,
          working_flag_mutex, search_flag_mutex, main, operation, search, rebuild,
          Storage, replayed, stale, range, ops>>
-----------------------------------------------------------------------------
(* Operations: run_operation and the tree's own code agree on their effect.   *)
(* A box that covers the subtree, directly or by a deletion pushed down from  *)
(* above, empties it.                                                         *)
Operations == [op : {"ADD_POINT", "DELETE_POINT"}, point : Points] \cup {[op |-> "DELETE_BOX"]}
Apply(o, t) ==
    CASE o.op = "ADD_POINT" -> t \cup {o.point}
      [] o.op = "DELETE_POINT" -> t \ {o.point}
      [] o.op = "DELETE_BOX" -> {}
-----------------------------------------------------------------------------
(* The mapping thread. *)

mainUnchanged == UNCHANGED <<rebuild_flag, search_mutex_counter, search, rebuild, Storage,
                             replayed, stale>>

\* A comparison of a son with *Rebuild_Ptr is two loads without a lock: when the
\* swap falls between them they differ, and the thread goes on in the old nodes.
Straddles == rebuild = "unlock" /\ Rebuild_Ptr = "son"

\* Add_Points, Delete_Points, Delete_Point_Boxes and the recursions under them
\* reach the subtree and compare it with *Rebuild_Ptr.
Descend(o) ==
    /\ main = "idle" /\ ops < MaxOps
    /\ ops' = ops + 1
    /\ operation' = o
    /\ \/ main' = IF Rebuild_Ptr # "null" THEN "lock" ELSE "direct"
       \/ Straddles /\ main' = "lost"
    /\ UNCHANGED <<tree, Rebuild_Ptr, Rebuild_Logger, working_flag_mutex, search_flag_mutex, range>>
    /\ mainUnchanged

\* No rebuild is wanted: the operation goes on in the subtree, and Rebuild may
\* ask for one on the way back if the criterion says so and the mutex of
\* Rebuild_Ptr is free.
Direct ==
    /\ main = "direct"
    /\ tree' = Apply(operation, tree)
    /\ \/ UNCHANGED Rebuild_Ptr
       \/ rebuild = "idle" /\ Rebuild_Ptr' \in {"root", "son"}
    /\ main' = "idle"
    /\ UNCHANGED <<Rebuild_Logger, working_flag_mutex, search_flag_mutex, operation, range, ops>>
    /\ mainUnchanged

\* The operation changes nodes that are about to be freed.
Lost ==
    /\ main = "lost"
    /\ main' = "idle"
    /\ UNCHANGED <<tree, Rebuild_Ptr, Rebuild_Logger, working_flag_mutex, search_flag_mutex,
                   operation, range, ops>>
    /\ mainUnchanged

\* A rebuild is wanted or under way: lock, apply, log if rebuild_flag, unlock.
Lock ==
    /\ main = "lock" /\ working_flag_mutex = "none"
    /\ working_flag_mutex' = "main"
    /\ main' = "apply"
    /\ UNCHANGED <<tree, Rebuild_Ptr, Rebuild_Logger, search_flag_mutex, operation, range, ops>>
    /\ mainUnchanged

\* Mutant: the operation is not logged.
ApplyUnlogged ==
    /\ main = "apply"
    /\ tree' = Apply(operation, tree)
    /\ working_flag_mutex' = "none"
    /\ main' = "idle"
    /\ UNCHANGED <<Rebuild_Ptr, Rebuild_Logger, search_flag_mutex, operation, range, ops>>
    /\ mainUnchanged

ApplyAndLog ==
    /\ main = "apply"
    /\ tree' = Apply(operation, tree)
    /\ Rebuild_Logger' = IF rebuild_flag THEN Append(Rebuild_Logger, operation) ELSE Rebuild_Logger
    /\ working_flag_mutex' = "none"
    /\ main' = "idle"
    /\ UNCHANGED <<Rebuild_Ptr, search_flag_mutex, operation, range, ops>>
    /\ mainUnchanged

\* Mutant: the mutex is taken at the root, not at a son.
LocksSearchAtRoot == Rebuild_Ptr = "root"

\* Search_by_range takes search_flag_mutex at the son that is *Rebuild_Ptr; the
\* root is nobody's son.
LocksSearch == Rebuild_Ptr = "son"

\* Search_by_range for the downsampling in Add_Points.
RangeBegin ==
    /\ main = "idle" /\ ops < MaxOps
    /\ \/ /\ LocksSearch => ~search_flag_mutex
          /\ search_flag_mutex' = LocksSearch
          /\ range' = IF Rebuild_Ptr = "null" \/ rebuild = "unlock" THEN "new" ELSE Rebuild_Ptr
       \/ Straddles /\ range' = "torn" /\ UNCHANGED search_flag_mutex
    /\ main' = "range"
    /\ ops' = ops + 1
    /\ UNCHANGED <<tree, Rebuild_Ptr, Rebuild_Logger, working_flag_mutex, operation>>
    /\ mainUnchanged

RangeEnd ==
    /\ main = "range"
    /\ search_flag_mutex' = FALSE
    /\ range' = "none"
    /\ main' = "idle"
    /\ UNCHANGED <<tree, Rebuild_Ptr, Rebuild_Logger, working_flag_mutex, operation, ops>>
    /\ mainUnchanged

\* The team searches in parallel; the mapping thread waits for all of it.
TeamBegin ==
    /\ main = "idle" /\ ops < MaxOps
    /\ ops' = ops + 1
    /\ main' = "team"
    /\ search' = [s \in Searchers |-> "above"]
    /\ UNCHANGED <<tree, Rebuild_Ptr, rebuild_flag, Rebuild_Logger, search_mutex_counter,
                   working_flag_mutex, search_flag_mutex, operation, rebuild, Storage, replayed,
                   stale, range>>

TeamEnd ==
    /\ main = "team"
    /\ \A s \in Searchers : search[s] = "done"
    /\ main' = "idle"
    /\ search' = [s \in Searchers |-> "none"]
    /\ UNCHANGED <<tree, Rebuild_Ptr, rebuild_flag, Rebuild_Logger, search_mutex_counter,
                   working_flag_mutex, search_flag_mutex, operation, rebuild, Storage, replayed,
                   stale, range, ops>>
-----------------------------------------------------------------------------
(* The team. *)

searchUnchanged == UNCHANGED <<tree, Rebuild_Ptr, rebuild_flag, Rebuild_Logger,
                               working_flag_mutex, search_flag_mutex, main, operation, rebuild,
                               Storage, replayed, stale, range, ops>>

\* Search compares the son, Nearest_Search the root, with *Rebuild_Ptr.
SearchCompare(s) ==
    /\ search[s] = "above"
    /\ \/ search' = [search EXCEPT ![s] = IF Rebuild_Ptr # "null" THEN "wait" ELSE "free"]
       \/ Straddles /\ search' = [search EXCEPT ![s] = "torn"]
    /\ UNCHANGED search_mutex_counter
    /\ searchUnchanged

\* Mutant: a search does not wait for the rebuild thread.
SearchEnterAnyway(s) ==
    /\ search[s] = "wait" /\ ~search_flag_mutex
    /\ search_mutex_counter' = search_mutex_counter + 1
    /\ search' = [search EXCEPT ![s] = "counted"]
    /\ searchUnchanged

\* It enters a subtree to be rebuilt when the rebuild thread has not shut it.
SearchEnter(s) ==
    /\ search[s] = "wait" /\ ~search_flag_mutex /\ search_mutex_counter # -1
    /\ search_mutex_counter' = search_mutex_counter + 1
    /\ search' = [search EXCEPT ![s] = "counted"]
    /\ searchUnchanged

SearchLeave(s) ==
    /\ \/ search[s] \in {"free", "torn"} /\ UNCHANGED search_mutex_counter
       \/ /\ search[s] = "counted" /\ ~search_flag_mutex
          /\ search_mutex_counter' = search_mutex_counter - 1
    /\ search' = [search EXCEPT ![s] = "done"]
    /\ searchUnchanged
-----------------------------------------------------------------------------
(* The rebuild thread: multi_thread_rebuild. *)

rebuildUnchanged == UNCHANGED <<search_flag_mutex, main, operation, search, range, ops>>

\* A rebuild is wanted; a logger that is not empty only prints an error.
Start ==
    /\ rebuild = "idle" /\ Rebuild_Ptr # "null" /\ working_flag_mutex = "none"
    /\ working_flag_mutex' = "rebuild"
    /\ rebuild_flag' = TRUE
    /\ stale' = (Rebuild_Logger # <<>>)
    /\ rebuild' = "drain1"
    /\ UNCHANGED <<tree, Rebuild_Ptr, Rebuild_Logger, search_mutex_counter, Storage, replayed>>
    /\ rebuildUnchanged

\* It waits for the searches inside to leave and shuts the subtree.
Drain(from, to) ==
    /\ rebuild = from /\ ~search_flag_mutex /\ search_mutex_counter = 0
    /\ search_mutex_counter' = -1
    /\ rebuild' = to
    /\ UNCHANGED <<tree, Rebuild_Ptr, rebuild_flag, Rebuild_Logger, working_flag_mutex, Storage,
                   replayed, stale>>
    /\ rebuildUnchanged

\* Mutant: the mutex is kept for the replay.
FlattenKeepsLock ==
    /\ rebuild = "flatten" /\ ~search_flag_mutex
    /\ Storage' = tree
    /\ search_mutex_counter' = 0
    /\ rebuild' = IF tree = {} THEN "drain2" ELSE "build"
    /\ UNCHANGED <<tree, Rebuild_Ptr, rebuild_flag, Rebuild_Logger, working_flag_mutex, replayed,
                   stale>>
    /\ rebuildUnchanged

\* Nothing is built from nothing: then the mutex is not locked again and the
\* logger not emptied.
Flatten ==
    /\ rebuild = "flatten" /\ ~search_flag_mutex
    /\ Storage' = tree
    /\ search_mutex_counter' = 0
    /\ working_flag_mutex' = "none"
    /\ rebuild' = IF tree = {} THEN "drain2" ELSE "build"
    /\ UNCHANGED <<tree, Rebuild_Ptr, rebuild_flag, Rebuild_Logger, replayed, stale>>
    /\ rebuildUnchanged

\* BuildTree, or run_operation on the operation popped, and the lock after it.
Relock ==
    /\ rebuild \in {"build", "run"} /\ working_flag_mutex = "none"
    /\ Storage' = IF rebuild = "run" THEN Apply(replayed, Storage) ELSE Storage
    /\ working_flag_mutex' = "rebuild"
    /\ rebuild' = "replay"
    /\ UNCHANGED <<tree, Rebuild_Ptr, rebuild_flag, Rebuild_Logger, search_mutex_counter, replayed,
                   stale>>
    /\ rebuildUnchanged

Pop ==
    /\ rebuild = "replay"
    /\ \/ /\ Rebuild_Logger # <<>>
          /\ replayed' = Head(Rebuild_Logger)
          /\ Rebuild_Logger' = Tail(Rebuild_Logger)
          /\ working_flag_mutex' = "none"
          /\ rebuild' = "run"
       \/ /\ Rebuild_Logger = <<>>
          /\ rebuild' = "drain2"
          /\ UNCHANGED <<Rebuild_Logger, working_flag_mutex, replayed>>
    /\ UNCHANGED <<tree, Rebuild_Ptr, rebuild_flag, search_mutex_counter, Storage, stale>>
    /\ rebuildUnchanged

\* The new subtree takes the slot.  When there is none, new_root_node->TreeSize
\* is read through a null pointer: the process dies, or goes on where the
\* compiler drops the unused load.
Swap ==
    /\ rebuild = "swap"
    /\ tree' = Storage
    /\ rebuild' \in {"unlock"} \cup {c \in {"crashed"} : Storage = {} /\ working_flag_mutex # "rebuild"}
    /\ UNCHANGED <<Rebuild_Ptr, rebuild_flag, Rebuild_Logger, search_mutex_counter,
                   working_flag_mutex, Storage, replayed, stale>>
    /\ rebuildUnchanged

\* It opens the subtree, withdraws the request and unlocks the mutex, whoever
\* has locked it.
Unlock ==
    /\ rebuild = "unlock" /\ ~search_flag_mutex
    /\ search_mutex_counter' = 0
    /\ Rebuild_Ptr' = "null"
    /\ working_flag_mutex' = "none"
    /\ rebuild' = "unflag"
    /\ UNCHANGED <<tree, rebuild_flag, Rebuild_Logger, Storage, replayed, stale>>
    /\ rebuildUnchanged

\* rebuild_flag = false, after the mutex is unlocked.
Unflag ==
    /\ rebuild = "unflag"
    /\ rebuild_flag' = FALSE
    /\ rebuild' = "delete"
    /\ UNCHANGED <<tree, Rebuild_Ptr, Rebuild_Logger, search_mutex_counter, working_flag_mutex,
                   Storage, replayed, stale>>
    /\ rebuildUnchanged

\* delete_tree_nodes(&old_root_node)
Delete ==
    /\ rebuild = "delete"
    /\ rebuild' = "idle"
    /\ UNCHANGED <<tree, Rebuild_Ptr, rebuild_flag, Rebuild_Logger, search_mutex_counter,
                   working_flag_mutex, Storage, replayed, stale>>
    /\ rebuildUnchanged
-----------------------------------------------------------------------------
Init ==
    /\ tree = {} /\ Rebuild_Ptr = "null" /\ rebuild_flag = FALSE /\ Rebuild_Logger = <<>>
    /\ search_mutex_counter = 0 /\ working_flag_mutex = "none" /\ search_flag_mutex = FALSE
    /\ main = "idle" /\ operation = [op |-> "DELETE_BOX"]
    /\ search = [s \in Searchers |-> "none"] /\ rebuild = "idle"
    /\ Storage = {} /\ replayed = operation /\ stale = FALSE /\ range = "none" /\ ops = 0

MainStep ==
    \/ \E o \in Operations : Descend(o)
    \/ Direct \/ Lost \/ Lock \/ ApplyAndLog \/ RangeBegin \/ RangeEnd \/ TeamBegin \/ TeamEnd
SearchStep(s) == SearchCompare(s) \/ SearchEnter(s) \/ SearchLeave(s)
RebuildStep ==
    \/ Start \/ Drain("drain1", "flatten") \/ Flatten \/ Relock \/ Pop
    \/ Drain("drain2", "swap") \/ Swap \/ Unlock \/ Unflag \/ Delete

Next ==
    /\ rebuild # "crashed"
    /\ MainStep \/ RebuildStep \/ \E s \in Searchers : SearchStep(s)

\* Threads run; pthread mutexes may be taken out of order, so a waiter is only
\* sure to get one that stays free.
Fairness ==
    /\ WF_vars(rebuild # "crashed" /\ MainStep)
    /\ WF_vars(rebuild # "crashed" /\ RebuildStep)
    /\ \A s \in Searchers : WF_vars(rebuild # "crashed" /\ SearchStep(s))

Spec == Init /\ [][Next]_vars /\ Fairness
-----------------------------------------------------------------------------
TypeOK ==
    /\ tree \subseteq Points /\ Storage \subseteq Points
    /\ Rebuild_Ptr \in {"null", "root", "son"}
    /\ rebuild_flag \in BOOLEAN /\ search_flag_mutex \in BOOLEAN /\ stale \in BOOLEAN
    /\ Rebuild_Logger \in Seq(Operations)
    /\ search_mutex_counter \in -1 .. Cardinality(Searchers)
    /\ working_flag_mutex \in {"none", "main", "rebuild"}
    /\ main \in {"idle", "direct", "lost", "lock", "apply", "range", "team"}
    /\ operation \in Operations /\ replayed \in Operations
    /\ search \in [Searchers -> {"none", "above", "wait", "counted", "free", "torn", "done"}]
    /\ rebuild \in {"idle", "drain1", "flatten", "build", "replay", "run", "drain2", "swap",
                   "unlock", "unflag", "delete", "crashed"}
    /\ range \in {"none", "new", "root", "son", "torn"}
    /\ ops \in 0 .. MaxOps

\* No search of the team is inside the subtree while the rebuild thread flattens
\* it or swaps it, whether it counted itself in or found no rebuild wanted.
NoReaderInside ==
    rebuild \in {"flatten", "swap"} =>
        \A s \in Searchers : search[s] \notin {"counted", "free"}

\* The swap loses no operation and brings none back: the subtree that takes the
\* slot has the points of the one it replaces.  Two cases are excepted, in
\* which it does not: a logger that already held an operation of the last
\* rebuild, and a subtree that was empty when it was flattened (the mutex is
\* then not held).
SwapPreserves ==
    [][rebuild = "swap" /\ working_flag_mutex = "rebuild" /\ ~stale => tree' = tree]_vars

\* Search_by_range never walks nodes that are freed when they are a son's
\* subtree, although it looks at search_flag_mutex and not at the counter.
FreedUnread == rebuild = "delete" => range # "son"

\* Every rebuild ends, and with it the wait of the mapping thread and its team:
\* nobody waits for ever on the two mutexes and the counter.
RebuildEnds ==
    /\ Rebuild_Ptr # "null" ~> Rebuild_Ptr = "null" \/ rebuild = "crashed"
    /\ main # "idle" ~> main = "idle" \/ rebuild = "crashed"
=============================================================================
