-------------------------- MODULE IkdRebuildProofs --------------------------
(***************************************************************************)
(* Proofs about IkdRebuild, for any points, any team and any number of       *)
(* operations.  The inductive invariant IInv has five parts:                 *)
(*   Types     the types of the variables;                                   *)
(*   Control   who may be where: the request, the flag, the mutex and the    *)
(*             places of the threads they go with;                           *)
(*   Counting  the counter is the number of searches counted in, or -1 while *)
(*             the subtree is shut, and then there are none;                 *)
(*   Ranging   Search_by_range in a son's subtree holds search_flag_mutex    *)
(*             and is over before the old nodes are freed;                   *)
(*   Logging   the copy, with the operations still logged replayed on it, is *)
(*             the subtree.                                                  *)
(***************************************************************************)
EXTENDS IkdRebuild, FiniteSetTheorems, TLAPS

(* What a sequence of operations does to a point: the last one that concerns *)
(* it decides.                                                               *)
Touches(o, p) == o.op = "DELETE_BOX" \/ o.point = p
Adds(o) == o.op = "ADD_POINT"
Decides(log, i, p) ==
    /\ Touches(log[i], p)
    /\ \A j \in i + 1 .. Len(log) : ~Touches(log[j], p)
\* Replaying log on from yields to.
Matches(from, log, to) ==
    \A p \in Points :
        \/ \E i \in 1 .. Len(log) : Decides(log, i, p) /\ (p \in to <=> Adds(log[i]))
        \/ /\ \A i \in 1 .. Len(log) : ~Touches(log[i], p)
           /\ p \in to <=> p \in from

\* Apply changes exactly the points its operation concerns.
LEMMA ApplyPoint ==
    ASSUME NEW o \in Operations, NEW t \in SUBSET Points, NEW p \in Points
    PROVE  /\ Apply(o, t) \in SUBSET Points
           /\ p \in Apply(o, t) <=> IF Touches(o, p) THEN Adds(o) ELSE p \in t
<1>1. CASE o = [op |-> "DELETE_BOX"]
  BY <1>1 DEF Apply, Touches, Adds
<1>2. CASE o \in [op : {"ADD_POINT", "DELETE_POINT"}, point : Points]
  <2>1. o.op \in {"ADD_POINT", "DELETE_POINT"} /\ o.point \in Points
    BY <1>2
  <2>2. CASE o.op = "ADD_POINT"
    BY <2>1, <2>2 DEF Apply, Touches, Adds
  <2>3. CASE o.op = "DELETE_POINT"
    BY <2>1, <2>3 DEF Apply, Touches, Adds
  <2>. QED BY <2>1, <2>2, <2>3
<1>. QED BY <1>1, <1>2 DEF Operations

\* Apply keeps a set of points a set of points.
LEMMA ApplyType ==
    ASSUME NEW o \in Operations, NEW t \in SUBSET Points
    PROVE  Apply(o, t) \in SUBSET Points
<1>1. PICK p : p \in Points
  BY IkdAssumption
<1>. QED BY <1>1, ApplyPoint

\* Without operations the copy is the subtree.
LEMMA MatchesNone ==
    ASSUME NEW from \in SUBSET Points, NEW to \in SUBSET Points
    PROVE  Matches(from, <<>>, to) <=> from = to
<1>1. \A i \in 1 .. Len(<<>>) : FALSE
  OBVIOUS
<1>2. Matches(from, <<>>, to) <=> \A p \in Points : p \in to <=> p \in from
  BY <1>1 DEF Matches
<1>. QED BY <1>2

\* An operation applied to the subtree and logged.
LEMMA MatchesAppend ==
    ASSUME NEW from \in SUBSET Points, NEW to \in SUBSET Points, NEW log \in Seq(Operations),
           NEW o \in Operations, Matches(from, log, to)
    PROVE  Matches(from, Append(log, o), Apply(o, to))
<1>. DEFINE new == Append(log, o)
<1>1. /\ new \in Seq(Operations) /\ Len(new) = Len(log) + 1 /\ new[Len(log) + 1] = o
      /\ \A i \in 1 .. Len(log) : new[i] = log[i]
      /\ Len(log) \in Nat
  OBVIOUS
<1>. HIDE DEF new
<1>2. SUFFICES ASSUME NEW p \in Points
               PROVE  \/ \E i \in 1 .. Len(new) : Decides(new, i, p) /\ (p \in Apply(o, to) <=> Adds(new[i]))
                      \/ /\ \A i \in 1 .. Len(new) : ~Touches(new[i], p)
                         /\ p \in Apply(o, to) <=> p \in from
  BY DEF Matches, new
<1>3. p \in Apply(o, to) <=> IF Touches(o, p) THEN Adds(o) ELSE p \in to
  BY ApplyPoint
<1>4. CASE Touches(o, p)
  <2>1. Decides(new, Len(log) + 1, p)
    BY <1>1, <1>4 DEF Decides
  <2>. QED BY <1>1, <1>3, <1>4, <2>1
<1>5. CASE ~Touches(o, p)
  <2>1. CASE \E i \in 1 .. Len(log) : Decides(log, i, p) /\ (p \in to <=> Adds(log[i]))
    <3>1. PICK i \in 1 .. Len(log) : Decides(log, i, p) /\ (p \in to <=> Adds(log[i]))
      BY <2>1
    <3>2. Decides(new, i, p)
      BY <1>1, <1>5, <3>1 DEF Decides
    <3>. QED BY <1>1, <1>3, <1>5, <3>1, <3>2
  <2>2. CASE (\A i \in 1 .. Len(log) : ~Touches(log[i], p)) /\ (p \in to <=> p \in from)
    <3>1. \A i \in 1 .. Len(new) : ~Touches(new[i], p)
      BY <1>1, <1>5, <2>2
    <3>. QED BY <1>3, <1>5, <2>2, <3>1
  <2>. QED BY <2>1, <2>2 DEF Matches
<1>. QED BY <1>4, <1>5

\* The oldest operation replayed on the copy.
LEMMA MatchesTail ==
    ASSUME NEW from \in SUBSET Points, NEW to \in SUBSET Points, NEW log \in Seq(Operations),
           log # <<>>, Matches(from, log, to)
    PROVE  Matches(Apply(Head(log), from), Tail(log), to)
<1>. DEFINE new == Tail(log)
            o == Head(log)
<1>1. /\ new \in Seq(Operations) /\ Len(log) = Len(new) + 1 /\ o = log[1] /\ o \in Operations
      /\ \A i \in 1 .. Len(new) : new[i] = log[i + 1]
      /\ Len(new) \in Nat
  OBVIOUS
<1>. HIDE DEF new, o
<1>2. SUFFICES ASSUME NEW p \in Points
               PROVE  \/ \E i \in 1 .. Len(new) : Decides(new, i, p) /\ (p \in to <=> Adds(new[i]))
                      \/ /\ \A i \in 1 .. Len(new) : ~Touches(new[i], p)
                         /\ p \in to <=> p \in Apply(o, from)
  BY DEF Matches, new, o
<1>3. p \in Apply(o, from) <=> IF Touches(o, p) THEN Adds(o) ELSE p \in from
  BY <1>1, ApplyPoint
<1>4. CASE \E i \in 1 .. Len(log) : Decides(log, i, p) /\ (p \in to <=> Adds(log[i]))
  <2>1. PICK i \in 1 .. Len(log) : Decides(log, i, p) /\ (p \in to <=> Adds(log[i]))
    BY <1>4
  <2>2. CASE i = 1
    <3>1. \A j \in 1 .. Len(new) : ~Touches(new[j], p)
      <4>1. SUFFICES ASSUME NEW j \in 1 .. Len(new) PROVE ~Touches(new[j], p)
        OBVIOUS
      <4>2. j + 1 \in i + 1 .. Len(log) /\ new[j] = log[j + 1]
        BY <1>1, <2>2
      <4>. QED BY <2>1, <4>2 DEF Decides
    <3>2. Touches(o, p) /\ (p \in to <=> Adds(o))
      BY <1>1, <2>1, <2>2 DEF Decides
    <3>. QED BY <1>3, <3>1, <3>2
  <2>3. CASE i # 1
    <3>1. i - 1 \in 1 .. Len(new) /\ new[i - 1] = log[i]
      BY <1>1, <2>3
    <3>2. ASSUME NEW j \in i .. Len(new) PROVE ~Touches(new[j], p)
      <4>1. j + 1 \in i + 1 .. Len(log) /\ new[j] = log[j + 1]
        BY <1>1
      <4>. QED BY <2>1, <4>1 DEF Decides
    <3>3. Decides(new, i - 1, p)
      BY <1>1, <2>1, <3>1, <3>2 DEF Decides
    <3>. QED BY <2>1, <3>1, <3>3
  <2>. QED BY <2>2, <2>3
<1>5. CASE (\A i \in 1 .. Len(log) : ~Touches(log[i], p)) /\ (p \in to <=> p \in from)
  <2>1. ~Touches(o, p)
    BY <1>1, <1>5
  <2>2. ASSUME NEW i \in 1 .. Len(new) PROVE ~Touches(new[i], p)
    <3>1. i + 1 \in 1 .. Len(log) /\ new[i] = log[i + 1]
      BY <1>1
    <3>. QED BY <1>5, <3>1
  <2>. QED BY <1>3, <1>5, <2>1, <2>2
<1>. QED BY <1>4, <1>5 DEF Matches
-----------------------------------------------------------------------------
(* The inductive invariant. *)

Types ==
    /\ tree \in SUBSET Points /\ Storage \in SUBSET Points
    /\ Rebuild_Ptr \in {"null", "root", "son"}
    /\ rebuild_flag \in BOOLEAN /\ search_flag_mutex \in BOOLEAN /\ stale \in BOOLEAN
    /\ Rebuild_Logger \in Seq(Operations)
    /\ search_mutex_counter \in Int
    /\ working_flag_mutex \in {"none", "main", "rebuild"}
    /\ main \in {"idle", "direct", "lost", "lock", "apply", "range", "team"}
    /\ operation \in Operations /\ replayed \in Operations
    /\ search \in [Searchers -> {"none", "above", "wait", "counted", "free", "torn", "done"}]
    /\ rebuild \in {"idle", "drain1", "flatten", "build", "replay", "run", "drain2", "swap",
                   "unlock", "unflag", "delete", "crashed"}
    /\ range \in {"none", "new", "root", "son", "torn"}
    /\ ops \in 0 .. MaxOps

\* The rebuild thread works on the subtree in its slot.
Rebuilding == rebuild \notin {"idle", "unflag", "delete"}

Control ==
    /\ Rebuilding => Rebuild_Ptr # "null" /\ rebuild_flag
    /\ rebuild \in {"unflag", "delete"} => Rebuild_Ptr = "null"
    /\ rebuild \in {"drain1", "flatten", "replay"} => working_flag_mutex = "rebuild"
    /\ rebuild \in {"idle", "build", "run", "unflag", "delete"} => working_flag_mutex # "rebuild"
    /\ working_flag_mutex = "main" => main = "apply"
    /\ main = "apply" =>
         working_flag_mutex = "main" \/ (working_flag_mutex = "none" /\ Rebuild_Ptr = "null")
    /\ main = "direct" => Rebuild_Ptr = "null"
    /\ \A s \in Searchers : search[s] # "none" => main = "team"
    /\ \A s \in Searchers : search[s] = "free" => Rebuild_Ptr = "null"

Counted == {s \in Searchers : search[s] = "counted"}
Counting ==
    IF rebuild \in {"flatten", "swap", "unlock", "crashed"}
    THEN search_mutex_counter = -1 /\ Counted = {}
    ELSE search_mutex_counter = Cardinality(Counted)

Ranging ==
    /\ range = "son" => search_flag_mutex
    /\ rebuild \in {"unflag", "delete"} => range # "son"

Logging ==
    ~stale =>
        /\ rebuild \in {"drain1", "flatten"} => Rebuild_Logger = <<>>
        /\ rebuild \in {"build", "replay"} => Matches(Storage, Rebuild_Logger, tree)
        /\ rebuild = "run" => Matches(Apply(replayed, Storage), Rebuild_Logger, tree)
        /\ rebuild \in {"drain2", "swap"} /\ working_flag_mutex = "rebuild" => Storage = tree

IInv == Types /\ Control /\ Counting /\ Ranging /\ Logging

\* The set a search enters or leaves.
LEMMA CountedFinite ==
    ASSUME NEW f \in [Searchers -> {"none", "above", "wait", "counted", "free", "torn", "done"}]
    PROVE  LET C == {s \in Searchers : f[s] = "counted"}
           IN /\ IsFiniteSet(C) /\ Cardinality(C) \in 0 .. Cardinality(Searchers)
              /\ Cardinality(C) = 0 <=> C = {}
<1>. DEFINE C == {s \in Searchers : f[s] = "counted"}
<1>1. IsFiniteSet(Searchers) /\ C \subseteq Searchers
  BY IkdAssumption
<1>2. IsFiniteSet(C) /\ Cardinality(C) <= Cardinality(Searchers)
  BY <1>1, FS_Subset
<1>3. Cardinality(C) \in Nat /\ Cardinality(Searchers) \in Nat
  BY <1>1, <1>2, FS_CardinalityType
<1>4. Cardinality(C) = 0 <=> C = {}
  BY <1>2, FS_EmptySet
<1>. QED BY <1>2, <1>3, <1>4

\* The initial state.
LEMMA InitIInv == Init => IInv
<1>. SUFFICES ASSUME Init PROVE IInv
  OBVIOUS
<1>0. operation \in Operations /\ replayed \in Operations
  BY DEF Init, Operations
<1>1. Types
  <2>1. search \in [Searchers -> {"none", "above", "wait", "counted", "free", "torn", "done"}]
    BY DEF Init
  <2>2. ops \in 0 .. MaxOps
    BY IkdAssumption DEF Init
  <2>3. Rebuild_Logger \in Seq(Operations)
    BY DEF Init
  <2>4. rebuild_flag \in BOOLEAN /\ search_flag_mutex \in BOOLEAN /\ stale \in BOOLEAN
    BY Zenon DEF Init
  <2>5. tree \in SUBSET Points /\ Storage \in SUBSET Points
    BY DEF Init
  <2>. QED BY <1>0, <2>1, <2>2, <2>3, <2>4, <2>5, SMT DEF Init, Types
<1>2. Control /\ Ranging /\ Logging
  BY DEF Init, Control, Rebuilding, Ranging, Logging
<1>3. Counting
  <2>1. Counted = {}
    BY DEF Init, Counted
  <2>. QED BY <2>1, FS_EmptySet DEF Init, Counting
<1>. QED BY <1>1, <1>2, <1>3 DEF IInv
-----------------------------------------------------------------------------
(* The steps. *)

\* The actions of Next, for proofs by cases.
LEMMA NextCases ==
    ASSUME Next
    PROVE  \/ \E o \in Operations : Descend(o)
           \/ Direct \/ Lost \/ Lock \/ ApplyAndLog \/ RangeBegin \/ RangeEnd \/ TeamBegin \/ TeamEnd
           \/ Start \/ Drain("drain1", "flatten") \/ Flatten \/ Relock \/ Pop
           \/ Drain("drain2", "swap") \/ Swap \/ Unlock \/ Unflag \/ Delete
           \/ \E s \in Searchers : SearchCompare(s) \/ SearchEnter(s) \/ SearchLeave(s)
BY DEF Next, MainStep, RebuildStep, SearchStep

\* Types and who may be where.
LEMMA ControlStep ==
    ASSUME IInv, Next
    PROVE  Types' /\ Control' /\ Ranging'
<1>. USE DEF IInv, Types, Control, Rebuilding, Ranging
<1>0. MaxOps \in Nat
  BY IkdAssumption
<1>1. ASSUME NEW o \in Operations, Descend(o)
      PROVE  Types' /\ Control' /\ Ranging'
  BY <1>0, <1>1 DEF Descend, mainUnchanged, Straddles
<1>2. ASSUME Direct
      PROVE  Types' /\ Control' /\ Ranging'
  BY <1>0, ApplyType, <1>2 DEF Direct, mainUnchanged
<1>3. ASSUME Lost
      PROVE  Types' /\ Control' /\ Ranging'
  BY <1>0, <1>3 DEF Lost, mainUnchanged
<1>4. ASSUME Lock
      PROVE  Types' /\ Control' /\ Ranging'
  BY <1>0, <1>4 DEF Lock, mainUnchanged
<1>5. ASSUME ApplyAndLog
      PROVE  Types' /\ Control' /\ Ranging'
  BY <1>0, ApplyType, <1>5 DEF ApplyAndLog, mainUnchanged
<1>6. ASSUME RangeBegin
      PROVE  Types' /\ Control' /\ Ranging'
  <2>1. search_flag_mutex' \in BOOLEAN
    BY <1>6, Zenon DEF RangeBegin, LocksSearch
  <2>2. range' \in {"none", "new", "root", "son", "torn"}
    BY <1>6 DEF RangeBegin
  <2>3. Types'
    BY <1>0, <1>6, <2>1, <2>2 DEF RangeBegin, mainUnchanged
  <2>4. Control'
    BY <1>6 DEF RangeBegin, mainUnchanged
  <2>5. Ranging'
    BY <1>6, <2>1 DEF RangeBegin, LocksSearch, Straddles, mainUnchanged
  <2>. QED BY <2>3, <2>4, <2>5
<1>7. ASSUME RangeEnd
      PROVE  Types' /\ Control' /\ Ranging'
  BY <1>0, <1>7 DEF RangeEnd, mainUnchanged
<1>8. ASSUME TeamBegin
      PROVE  Types' /\ Control' /\ Ranging'
  BY <1>0, <1>8 DEF TeamBegin
<1>9. ASSUME TeamEnd
      PROVE  Types' /\ Control' /\ Ranging'
  BY <1>0, <1>9 DEF TeamEnd
<1>10. ASSUME Start
      PROVE  Types' /\ Control' /\ Ranging'
  BY <1>0, <1>10 DEF Start, rebuildUnchanged
<1>11. ASSUME Drain("drain1", "flatten")
      PROVE  Types' /\ Control' /\ Ranging'
  BY <1>0, <1>11 DEF Drain, rebuildUnchanged
<1>12. ASSUME Flatten
      PROVE  Types' /\ Control' /\ Ranging'
  BY <1>0, <1>12 DEF Flatten, rebuildUnchanged
<1>13. ASSUME Relock
      PROVE  Types' /\ Control' /\ Ranging'
  BY <1>0, ApplyType, <1>13 DEF Relock, rebuildUnchanged
<1>14. ASSUME Pop
      PROVE  Types' /\ Control' /\ Ranging'
  BY <1>0, <1>14 DEF Pop, rebuildUnchanged
<1>15. ASSUME Drain("drain2", "swap")
      PROVE  Types' /\ Control' /\ Ranging'
  BY <1>0, <1>15 DEF Drain, rebuildUnchanged
<1>16. ASSUME Swap
      PROVE  Types' /\ Control' /\ Ranging'
  BY <1>0, <1>16 DEF Swap, rebuildUnchanged
<1>17. ASSUME Unlock
      PROVE  Types' /\ Control' /\ Ranging'
  BY <1>0, <1>17 DEF Unlock, rebuildUnchanged
<1>18. ASSUME Unflag
      PROVE  Types' /\ Control' /\ Ranging'
  BY <1>0, <1>18 DEF Unflag, rebuildUnchanged
<1>19. ASSUME Delete
      PROVE  Types' /\ Control' /\ Ranging'
  BY <1>0, <1>19 DEF Delete, rebuildUnchanged
<1>20. ASSUME NEW s \in Searchers, SearchCompare(s)
      PROVE  Types' /\ Control' /\ Ranging'
  BY <1>0, <1>20 DEF SearchCompare, searchUnchanged, Straddles
<1>21. ASSUME NEW s \in Searchers, SearchEnter(s)
      PROVE  Types' /\ Control' /\ Ranging'
  BY <1>0, <1>21 DEF SearchEnter, searchUnchanged
<1>22. ASSUME NEW s \in Searchers, SearchLeave(s)
      PROVE  Types' /\ Control' /\ Ranging'
  BY <1>0, <1>22 DEF SearchLeave, searchUnchanged
<1>. QED BY NextCases, <1>1, <1>2, <1>3, <1>4, <1>5, <1>6, <1>7, <1>8, <1>9, <1>10, <1>11, <1>12, <1>13, <1>14, <1>15, <1>16, <1>17, <1>18, <1>19, <1>20, <1>21, <1>22

\* The counter and the searches counted in.
LEMMA CountingStep ==
    ASSUME IInv, Next
    PROVE  Counting'
<1>. DEFINE shut == {"flatten", "swap", "unlock", "crashed"}
<1>a. /\ IsFiniteSet(Counted) /\ Cardinality(Counted) \in Nat
      /\ Cardinality(Counted) = 0 <=> Counted = {}
  <2>1. Types /\ IsFiniteSet(Searchers)
    BY IkdAssumption DEF IInv
  <2>. QED BY <2>1, CountedFinite, FS_CardinalityType DEF Types, Counted
<1>b. ASSUME UNCHANGED <<search, search_mutex_counter>>, rebuild \in shut <=> rebuild' \in shut
      PROVE  Counting'
  BY <1>b DEF IInv, Counting, Counted
<1>1. CASE (\E o \in Operations : Descend(o)) \/ Direct \/ Lost \/ Lock \/ ApplyAndLog
           \/ RangeBegin \/ RangeEnd
  BY <1>1, <1>b DEF Descend, Direct, Lost, Lock, ApplyAndLog, RangeBegin, RangeEnd, mainUnchanged
<1>2. CASE Start \/ Relock \/ Pop \/ Swap \/ Unflag \/ Delete
  BY <1>2, <1>b DEF Start, Relock, Pop, Swap, Unflag, Delete, rebuildUnchanged
<1>3. CASE TeamBegin \/ TeamEnd
  <2>1. Counted = {} /\ Counted' = {}
    BY <1>3 DEF TeamBegin, TeamEnd, Counted, IInv, Control
  <2>. QED BY <1>3, <2>1 DEF TeamBegin, TeamEnd, IInv, Counting
<1>4. CASE Drain("drain1", "flatten") \/ Drain("drain2", "swap")
  <2>1. Counted = {}
    BY <1>4, <1>a DEF Drain, IInv, Counting
  <2>2. Counted' = Counted
    BY <1>4 DEF Drain, Counted, rebuildUnchanged
  <2>. QED BY <1>4, <2>1, <2>2 DEF Drain, Counting
<1>5. CASE Flatten \/ Unlock
  <2>1. Counted = {}
    BY <1>5 DEF Flatten, Unlock, IInv, Counting
  <2>2. Counted' = Counted
    BY <1>5 DEF Flatten, Unlock, Counted, rebuildUnchanged
  <2>3. search_mutex_counter' = 0 /\ rebuild' \notin shut
    BY <1>5 DEF Flatten, Unlock
  <2>. QED BY <1>a, <2>1, <2>2, <2>3 DEF Counting
<1>6. ASSUME NEW s \in Searchers, SearchCompare(s)
      PROVE  Counting'
  <2>1. Counted' = Counted
    BY <1>6 DEF SearchCompare, Counted, IInv, Types
  <2>. QED BY <1>6, <2>1 DEF SearchCompare, searchUnchanged, IInv, Counting
<1>7. ASSUME NEW s \in Searchers, SearchEnter(s)
      PROVE  Counting'
  <2>1. rebuild \notin shut /\ rebuild' \notin shut
    BY <1>7 DEF SearchEnter, searchUnchanged, IInv, Counting
  <2>2. s \notin Counted /\ Counted' = Counted \cup {s}
    BY <1>7 DEF SearchEnter, Counted, IInv, Types
  <2>3. Cardinality(Counted') = Cardinality(Counted) + 1
    BY <1>a, <2>2, FS_AddElement
  <2>. QED BY <1>7, <2>1, <2>3 DEF SearchEnter, IInv, Counting
<1>8. ASSUME NEW s \in Searchers, SearchLeave(s)
      PROVE  Counting'
  <2>1. rebuild' = rebuild
    BY <1>8 DEF SearchLeave, searchUnchanged
  <2>2. CASE search[s] = "counted"
    <3>1. s \in Counted /\ Counted' = Counted \ {s}
      BY <1>8, <2>2 DEF SearchLeave, Counted, IInv, Types
    <3>2. Cardinality(Counted') = Cardinality(Counted) - 1
      BY <1>a, <3>1, FS_RemoveElement
    <3>. QED BY <1>8, <2>1, <2>2, <3>1, <3>2 DEF SearchLeave, IInv, Counting
  <2>3. CASE search[s] # "counted"
    <3>1. Counted' = Counted
      BY <1>8, <2>3 DEF SearchLeave, Counted, IInv, Types
    <3>. QED BY <1>8, <2>1, <2>3, <3>1 DEF SearchLeave, IInv, Counting
  <2>. QED BY <2>2, <2>3
<1>. QED BY NextCases, <1>1, <1>2, <1>3, <1>4, <1>5, <1>6, <1>7, <1>8

\* The copy, the log and the subtree.
LEMMA LoggingStep ==
    ASSUME IInv, Next
    PROVE  Logging'
<1>. USE DEF Logging
<1>a. ASSUME UNCHANGED <<tree, Storage, Rebuild_Logger, replayed, stale>>,
             \/ rebuild' = rebuild
             \/ rebuild = "drain1" /\ rebuild' = "flatten"
             \/ rebuild = "drain2" /\ rebuild' = "swap"
             \/ rebuild' \in {"unlock", "crashed", "unflag", "delete", "idle"},
             working_flag_mutex' = "rebuild" => working_flag_mutex = "rebuild"
      PROVE  Logging'
  BY <1>a DEF IInv
<1>1. CASE (\E o \in Operations : Descend(o)) \/ Lost \/ Lock \/ RangeBegin \/ RangeEnd
           \/ TeamBegin \/ TeamEnd
  BY <1>1, <1>a DEF Descend, Lost, Lock, RangeBegin, RangeEnd, TeamBegin, TeamEnd, mainUnchanged
<1>2. CASE \E s \in Searchers : SearchCompare(s) \/ SearchEnter(s) \/ SearchLeave(s)
  BY <1>2, <1>a DEF SearchCompare, SearchEnter, SearchLeave, searchUnchanged
<1>3. CASE \/ Drain("drain1", "flatten") \/ Drain("drain2", "swap") \/ Unlock \/ Unflag \/ Delete
  BY <1>3, <1>a DEF Drain, Unlock, Unflag, Delete
<1>4. CASE Direct
  \* Nothing is being rebuilt.
  BY <1>4 DEF Direct, mainUnchanged, IInv, Control, Rebuilding
<1>5. CASE ApplyAndLog
  <2>1. CASE Rebuild_Ptr = "null"
    BY <1>5, <2>1 DEF ApplyAndLog, mainUnchanged, IInv, Control, Rebuilding
  <2>2. CASE Rebuild_Ptr # "null"
    <3>1. working_flag_mutex = "main" /\ working_flag_mutex' = "none"
      BY <1>5, <2>2 DEF ApplyAndLog, IInv, Control
    <3>2. rebuild' = rebuild /\ stale' = stale /\ Storage' = Storage /\ replayed' = replayed
      BY <1>5 DEF ApplyAndLog, mainUnchanged
    <3>3. rebuild \notin {"drain1", "flatten", "replay"}
      BY <3>1 DEF IInv, Control
    <3>4. rebuild \in {"build", "run"} =>
            tree' = Apply(operation, tree) /\ Rebuild_Logger' = Append(Rebuild_Logger, operation)
      BY <1>5 DEF ApplyAndLog, IInv, Control, Rebuilding
    <3>5. /\ Rebuild_Logger \in Seq(Operations) /\ operation \in Operations /\ tree \in SUBSET Points
          /\ Storage \in SUBSET Points /\ Apply(replayed, Storage) \in SUBSET Points
      BY ApplyType DEF IInv, Types
    <3>6. CASE ~stale /\ rebuild = "build"
      <4>1. Matches(Storage, Append(Rebuild_Logger, operation), Apply(operation, tree))
        BY <3>5, <3>6, MatchesAppend DEF IInv
      <4>. QED BY <3>2, <3>4, <3>6, <4>1
    <3>7. CASE ~stale /\ rebuild = "run"
      <4>1. Matches(Apply(replayed, Storage), Append(Rebuild_Logger, operation), Apply(operation, tree))
        BY <3>5, <3>7, MatchesAppend DEF IInv
      <4>. QED BY <3>2, <3>4, <3>7, <4>1
    <3>. QED BY <3>1, <3>2, <3>3, <3>6, <3>7
  <2>. QED BY <2>1, <2>2
<1>6. CASE Start
  BY <1>6 DEF Start
<1>7. CASE Flatten
  <2>1. tree \in SUBSET Points /\ Matches(tree, <<>>, tree)
    BY MatchesNone DEF IInv, Types
  <2>. QED BY <1>7, <2>1 DEF Flatten, IInv
<1>8. CASE Relock
  BY <1>8 DEF Relock, IInv
<1>9. CASE Pop
  <2>1. /\ Rebuild_Logger \in Seq(Operations) /\ tree \in SUBSET Points /\ Storage \in SUBSET Points
        /\ rebuild = "replay"
    BY <1>9 DEF Pop, IInv, Types
  <2>2. CASE Rebuild_Logger # <<>>
    <3>1. ~stale => Matches(Apply(Head(Rebuild_Logger), Storage), Tail(Rebuild_Logger), tree)
      BY <2>1, <2>2, MatchesTail DEF IInv
    <3>. QED BY <1>9, <2>2, <3>1 DEF Pop
  <2>3. CASE Rebuild_Logger = <<>>
    <3>1. ~stale => Storage = tree
      BY <2>1, <2>3, MatchesNone DEF IInv
    <3>. QED BY <1>9, <2>3, <3>1 DEF Pop
  <2>. QED BY <2>2, <2>3
<1>10. CASE Swap
  BY <1>10 DEF Swap
<1>. QED BY NextCases, <1>1, <1>2, <1>3, <1>4, <1>5, <1>6, <1>7, <1>8, <1>9, <1>10
-----------------------------------------------------------------------------
(* The theorems. *)

\* IInv is an invariant.
THEOREM Invariant == Spec => []IInv
<1>1. IInv /\ [Next]_vars => IInv'
  <2>. SUFFICES ASSUME IInv, [Next]_vars PROVE IInv'
    OBVIOUS
  <2>1. CASE Next
    BY <2>1, ControlStep, CountingStep, LoggingStep DEF IInv
  <2>2. CASE UNCHANGED vars
    BY <2>2 DEF vars, IInv, Types, Control, Rebuilding, Counting, Counted, Ranging, Logging
  <2>. QED BY <2>1, <2>2
<1>. QED BY InitIInv, <1>1, PTL DEF Spec

\* The types: the counter never exceeds the size of the team and never falls
\* below the -1 that shuts the subtree.
THEOREM TypeCorrect == Spec => []TypeOK
<1>1. IInv => TypeOK
  <2>. SUFFICES ASSUME IInv PROVE TypeOK
    OBVIOUS
  <2>1. Types /\ Cardinality(Counted) \in 0 .. Cardinality(Searchers)
    BY CountedFinite DEF IInv, Types, Counted
  <2>2. Cardinality(Searchers) \in Nat
    BY IkdAssumption, FS_CardinalityType
  <2>3. search_mutex_counter \in -1 .. Cardinality(Searchers)
    BY <2>1, <2>2 DEF IInv, Counting
  <2>. QED BY <2>1, <2>3 DEF Types, TypeOK
<1>. QED BY <1>1, Invariant, PTL

\* multi_thread_rebuild flattens and swaps a subtree only when no search of
\* Nearest_Search's team is in it: one that was counted is drained, and none
\* that found no rebuild wanted overlaps the request.
THEOREM ReadersDrained == Spec => []NoReaderInside
<1>1. IInv => NoReaderInside
  BY DEF IInv, Control, Rebuilding, Counting, Counted, NoReaderInside
<1>. QED BY <1>1, Invariant, PTL

\* Search_by_range is never in a son's subtree when delete_tree_nodes frees it.
THEOREM RangeBeforeDelete == Spec => []FreedUnread
<1>1. IInv => FreedUnread
  BY DEF IInv, Ranging, FreedUnread
<1>. QED BY <1>1, Invariant, PTL

\* Replaying the logger makes the copy equal to the subtree: the swap changes no
\* point, for any interleaving of operations with the rebuild.
THEOREM SwapCorrect == Spec => SwapPreserves
<1>1. IInv /\ [Next]_vars =>
        [rebuild = "swap" /\ working_flag_mutex = "rebuild" /\ ~stale => tree' = tree]_vars
  <2>. SUFFICES ASSUME IInv, Next, rebuild = "swap", working_flag_mutex = "rebuild", ~stale
                PROVE  tree' = tree
    BY DEF vars
  <2>1. Storage = tree
    BY DEF IInv, Logging
  <2>2. ~Direct /\ ~ApplyAndLog
    BY DEF IInv, Control, Rebuilding, Direct, ApplyAndLog
  <2>3. CASE Swap
    BY <2>1, <2>3 DEF Swap
  <2>4. CASE ~Swap
    BY <2>2, <2>4, NextCases DEF Descend, Lost, Lock, RangeBegin, RangeEnd, TeamBegin, TeamEnd,
       Start, Drain, Flatten, Relock, Pop, Unlock, Unflag, Delete, SearchCompare, SearchEnter,
       SearchLeave, searchUnchanged
  <2>. QED BY <2>3, <2>4
<1>. QED BY <1>1, Invariant, PTL DEF Spec, SwapPreserves
=============================================================================
