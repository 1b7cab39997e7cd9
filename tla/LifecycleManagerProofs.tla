----------------------- MODULE LifecycleManagerProofs -----------------------
(***************************************************************************)
(* Proofs about LifecycleManager: what is_active promises, the null bond   *)
(* that is never met, and the order of bring-up, for any list of servers,  *)
(* any number of commands and any number of faults.                        *)
(***************************************************************************)
EXTENDS LifecycleManager, TLAPS

\* A bond in bond_map_ is to a server that is active or is known to be broken.
Watched == \A n \in bond_map : state[n] = "active" \/ n \in broken

\* What makes ActiveMeansWatched inductive: only an operation that brings the
\* system up runs while the system is declared active, and by the time such an
\* operation activates server i it has a bond to all servers before i.  Without
\* a bond timeout there are no bonds.
WatchInv ==
  /\ Watched
  /\ Bonding \/ bond_map = {}
  /\ system_active /\ Bonding /\ op # Exited => (bond_timer \/ closing) /\ bond_map = Nodes
  /\ Running /\ op.name \notin {"startup", "resume"} => ~system_active
  /\ Running /\ Bonding /\ Transition = "activate" =>
       \A j \in 1 .. op.i - 1 : NodeNames[j] \in bond_map

\* What makes BringUpOrder inductive: a bring-up has activated what it passed,
\* a take-down leaves nothing active behind.
OrderInv ==
  faults = 0 =>
    /\ BringUpOrder
    /\ Running /\ Transition = "activate" =>
         \A j \in 1 .. op.i - 1 : state[NodeNames[j]] = "active"
    /\ Running /\ op.step = "bond" => state[Target] = "active"
    /\ Running /\ Transition = "deactivate" =>
         \A j \in 1 .. op.i - 1 : state[NodeNames[N + 1 - j]] # "active"
-----------------------------------------------------------------------------
(* The operators of the model. *)

\* The list of servers as a function on 1 .. N, without repetitions.
LEMMA NodeList ==
  /\ N \in Nat /\ N > 0
  /\ \A i \in 1 .. N : NodeNames[i] \in Nodes
  /\ \A n \in Nodes : \E i \in 1 .. N : NodeNames[i] = n
  /\ \A i, j \in 1 .. N : NodeNames[i] = NodeNames[j] => i = j
<1>1. N \in Nat /\ N > 0 /\ DOMAIN NodeNames = 1 .. N
  BY NodeNamesAssumption DEF N
<1>2. Nodes = {NodeNames[i] : i \in 1 .. N}
  BY <1>1 DEF Nodes, Range
<1>3. QED
  BY <1>1, <1>2, NodeNamesAssumption DEF N

\* The transitions of each operation: activation comes last and only on the way
\* up, deactivation first and only on the way down.
LEMMA PhaseFacts ==
  ASSUME NEW o \in Operations
  PROVE  /\ Len(Phases(o)) \in 1 .. 3
         /\ \A p \in 1 .. Len(Phases(o)) :
              /\ Phases(o)[p] \in Transitions
              /\ Phases(o)[p] = "activate" =>
                   o \in {"startup", "resume"} /\ p = Len(Phases(o))
              /\ Phases(o)[p] = "deactivate" => p = 1 /\ o \notin {"startup", "resume"}
         /\ o \in {"startup", "resume"} => Phases(o)[Len(Phases(o))] = "activate"
<1>1. CASE o = "startup"
  <2>1. Phases(o) = <<"configure", "activate">>
    BY <1>1 DEF Phases
  <2>2. Len(Phases(o)) = 2 /\ Phases(o)[1] = "configure" /\ Phases(o)[2] = "activate"
    BY <2>1
  <2>3. QED
    BY <1>1, <2>2 DEF Transitions
<1>2. CASE o \in {"reset", "hardReset"}
  <2>1. Phases(o) = <<"deactivate", "cleanup">>
    BY <1>2 DEF Phases
  <2>2. Len(Phases(o)) = 2 /\ Phases(o)[1] = "deactivate" /\ Phases(o)[2] = "cleanup"
    BY <2>1
  <2>3. QED
    BY <1>2, <2>2 DEF Transitions
<1>3. CASE o = "pause"
  <2>1. Phases(o) = <<"deactivate">>
    BY <1>3 DEF Phases
  <2>2. Len(Phases(o)) = 1 /\ Phases(o)[1] = "deactivate"
    BY <2>1
  <2>3. QED
    BY <1>3, <2>2 DEF Transitions
<1>4. CASE o = "resume"
  <2>1. Phases(o) = <<"activate">>
    BY <1>4 DEF Phases
  <2>2. Len(Phases(o)) = 1 /\ Phases(o)[1] = "activate"
    BY <2>1
  <2>3. QED
    BY <1>4, <2>2 DEF Transitions
<1>5. CASE o = "shutdown"
  <2>1. Phases(o) = <<"deactivate", "cleanup", "shutdown">>
    BY <1>5 DEF Phases
  <2>2. Len(Phases(o)) = 3 /\ Phases(o)[1] = "deactivate" /\ Phases(o)[2] = "cleanup" /\ Phases(o)[3] = "shutdown"
    BY <2>1
  <2>3. QED
    BY <1>5, <2>2 DEF Transitions
<1>6. QED
  BY <1>1, <1>2, <1>3, <1>4, <1>5 DEF Operations, Commands

\* The fields of a running operation.
LEMMA RunningFacts ==
  ASSUME TypeOK, Running
  PROVE  /\ op.name \in Operations /\ op.i \in 1 .. N /\ op.step \in {"call", "bond"}
         /\ op.phase \in 1 .. Len(Phases(op.name))
         /\ op.step = "bond" => Transition = "activate"
         /\ op = At(op.name, op.phase, op.i, op.step)
         /\ Transition \in Transitions
         /\ Target \in Nodes
         /\ Transition \in {"configure", "activate"} => Target = NodeNames[op.i]
         /\ Transition \notin {"configure", "activate"} => Target = NodeNames[N + 1 - op.i]
<1>1. op \notin {Idle, Hung, Crashed, Exited}
  BY DEF Running, Operations, Commands, Idle, Hung, Crashed, Exited
<1>2. /\ op \in [name : Operations, phase : 1 .. 3, i : 1 .. N, step : {"call", "bond"}]
      /\ op.phase \in 1 .. Len(Phases(op.name))
      /\ op.step = "bond" => Transition = "activate"
  BY <1>1 DEF TypeOK
<1>3. Transition \in Transitions
  BY <1>2, PhaseFacts DEF Transition
<1>4. /\ Transition \in {"configure", "activate"} => Target = NodeNames[op.i]
      /\ Transition \notin {"configure", "activate"} => Target = NodeNames[N + 1 - op.i]
  BY DEF Target, Visited
<1>5. N + 1 - op.i \in 1 .. N
  BY <1>2, NodeList
<1>6. QED
  BY <1>2, <1>3, <1>4, <1>5, NodeList DEF At

\* The record of a position inside an operation.
LEMMA AtFacts ==
  ASSUME NEW o \in Operations, NEW p, NEW i, NEW s
  PROVE  /\ At(o, p, i, s).name = o /\ At(o, p, i, s).phase = p
         /\ At(o, p, i, s).i = i /\ At(o, p, i, s).step = s
         /\ At(o, p, i, s) \notin {Idle, Hung, Crashed, Exited}
<1>1. /\ At(o, p, i, s).name = o /\ At(o, p, i, s).phase = p
      /\ At(o, p, i, s).i = i /\ At(o, p, i, s).step = s
  BY DEF At
<1>2. /\ Idle.name \notin Operations /\ Hung.name \notin Operations
      /\ Crashed.name \notin Operations /\ Exited.name \notin Operations
  BY DEF Idle, Hung, Crashed, Exited, Operations, Commands
<1>3. QED
  BY <1>1, <1>2

\* Outside an operation nothing runs.
LEMMA NotRunning ==
  /\ op \in {Idle, Hung, Crashed, Exited} => ~Running
  /\ Idle # Exited /\ Idle # Hung /\ Idle # Crashed /\ Crashed # Exited /\ Hung # Exited
  /\ Hung # Crashed
<1>1. /\ Idle.name = "idle" /\ Hung.name = "hung"
      /\ Crashed.name = "crashed" /\ Exited.name = "exited"
  BY DEF Idle, Hung, Crashed, Exited
<1>2. QED
  BY <1>1 DEF Running, Operations, Commands
-----------------------------------------------------------------------------
(* How a running operation goes on: the next server, the next transition, or *)
(* the end.                                                                  *)

Control == <<system_active, bond_timer, respawn_timer, clients>>

NextServer ==
  /\ op.i < N
  /\ op' = At(op.name, op.phase, op.i + 1, "call")
  /\ UNCHANGED Control

NextTransition ==
  /\ op.phase < Len(Phases(op.name))
  /\ op' = At(op.name, op.phase + 1, 1, "call")
  /\ UNCHANGED Control

\* After a server has made its transition.
LEMMA AdvanceMoves ==
  ASSUME TypeOK, Running, Advance
  PROVE  \/ NextServer
         \/ op.i = N /\ NextTransition
         \/ op.i = N /\ op.phase = Len(Phases(op.name)) /\ Finish(TRUE)
<1> USE RunningFacts, PhaseFacts, NodeList
<1>1. CASE op.i < N
  <2>1. op' = [op EXCEPT !.i = @ + 1, !.step = "call"] /\ UNCHANGED Control
    BY <1>1 DEF Advance, Control
  <2>2. op' = At(op.name, op.phase, op.i + 1, "call")
    BY <2>1 DEF At
  <2>3. QED
    BY <1>1, <2>1, <2>2 DEF NextServer
<1>2. CASE ~(op.i < N)
  <2>1. op.i = N /\ NextPhase
    BY <1>2 DEF Advance
  <2>2. op.phase < Len(Phases(op.name)) \/ op.phase = Len(Phases(op.name))
    OBVIOUS
  <2>3. QED
    BY <2>1, <2>2 DEF NextPhase, NextTransition, Control
<1>3. QED
  BY <1>1, <1>2

\* After a server has not made its transition: what startup() and resume() do
\* is give up.
LEMMA FailMoves ==
  ASSUME TypeOK, Running, NodeFails \/ PhaseFails
  PROVE  \/ op.name \notin {"startup", "resume"} /\ (NextServer \/ NextTransition)
         \/ op.name \notin {"startup", "resume"} /\ Finish(TRUE)
         \/ Finish(FALSE)
<1>1. CASE op.name = "hardReset" /\ NodeFails
  BY <1>1, AdvanceMoves DEF NodeFails
<1>2. CASE PhaseFails
  BY <1>2 DEF PhaseFails, NextPhase, NextTransition, Control
<1>3. QED
  BY <1>1, <1>2 DEF NodeFails

\* The operator of the three outcomes that the invariants need.
Moves ==
  \/ NextServer
  \/ NextTransition
  \/ /\ op' = Idle
     /\ \/ UNCHANGED <<system_active, bond_timer>>
        \/ /\ op.name \in {"startup", "resume"}
           /\ op.i = N /\ op.phase = Len(Phases(op.name))
           /\ system_active' = TRUE /\ bond_timer' = createBondTimer
     /\ respawn_timer' \in BOOLEAN /\ clients' \in BOOLEAN

LEMMA AllMove ==
  ASSUME TypeOK, Running, Advance \/ NodeFails \/ PhaseFails
  PROVE  Moves
<1> USE BoundsAssumption
<1>1. ASSUME NEW success \in BOOLEAN, Finish(success)
      PROVE  /\ op' = Idle
             /\ \/ UNCHANGED <<system_active, bond_timer>>
                \/ /\ success /\ op.name \in {"startup", "resume"}
                   /\ system_active' = TRUE /\ bond_timer' = createBondTimer
             /\ respawn_timer' \in BOOLEAN /\ clients' \in BOOLEAN
  BY <1>1 DEF Finish, TypeOK
<1>2. CASE Advance
  BY <1>1, <1>2, AdvanceMoves DEF Moves
<1>3. CASE NodeFails \/ PhaseFails
  BY <1>1, <1>3, FailMoves DEF Moves
<1>4. QED
  BY <1>2, <1>3
-----------------------------------------------------------------------------
(* Type correctness. *)

\* The conjunct of TypeOK about the operation.
OpOK ==
  \/ op \in {Idle, Hung, Crashed, Exited}
  \/ /\ op \in [name : Operations, phase : 1 .. 3, i : 1 .. N, step : {"call", "bond"}]
     /\ op.phase \in 1 .. Len(Phases(op.name))
     /\ op.step = "bond" => Transition = "activate"

\* A position before a call to a server is a well-formed operation.
LEMMA AtOK ==
  ASSUME NEW o \in Operations, NEW p \in 1 .. Len(Phases(o)), NEW i \in 1 .. N,
         op' = At(o, p, i, "call")
  PROVE  OpOK'
<1>1. p \in 1 .. 3
  BY PhaseFacts
<1>2. QED
  BY <1>1 DEF OpOK, At

\* An operation that goes on, or ends, is well-formed.
LEMMA MovesOK ==
  ASSUME TypeOK, Running, Moves
  PROVE  /\ OpOK'
         /\ system_active' \in BOOLEAN /\ bond_timer' \in BOOLEAN
         /\ respawn_timer' \in BOOLEAN /\ clients' \in BOOLEAN
<1> USE RunningFacts, NodeList
<1>0. Len(Phases(op.name)) \in 1 .. 3
  BY PhaseFacts
<1>1. CASE NextServer
  <2>1. op.i + 1 \in 1 .. N
    BY <1>1 DEF NextServer
  <2>2. QED
    BY <1>1, <2>1, AtOK DEF NextServer, Control, TypeOK
<1>2. CASE NextTransition
  <2>1. op.phase + 1 \in 1 .. Len(Phases(op.name)) /\ 1 \in 1 .. N
    BY <1>0, <1>2 DEF NextTransition
  <2>2. QED
    BY <1>2, <2>1, AtOK DEF NextTransition, Control, TypeOK
<1>3. CASE /\ op' = Idle
           /\ system_active' \in {system_active, TRUE} /\ bond_timer' \in {bond_timer, TRUE}
           /\ respawn_timer' \in BOOLEAN /\ clients' \in BOOLEAN
  BY <1>3 DEF OpOK, TypeOK
<1>4. createBondTimer \in {bond_timer, TRUE}
  BY DEF createBondTimer
<1>5. QED
  BY <1>1, <1>2, <1>3, <1>4 DEF Moves

\* Beginning an operation.
LEMMA BeginOK ==
  ASSUME TypeOK, NEW o \in Operations, Begin(o)
  PROVE  OpOK' /\ system_active' \in BOOLEAN /\ bond_timer' \in BOOLEAN
<1>1. 1 \in 1 .. Len(Phases(o)) /\ 1 \in 1 .. N
  BY PhaseFacts, NodeList
<1>2. QED
  BY <1>1, AtOK DEF Begin, TypeOK

LEMMA InitType == Init => TypeOK
<1> SUFFICES ASSUME Init PROVE TypeOK
  OBVIOUS
<1>1. "startup" \in Operations /\ 1 \in 1 .. N
  BY NodeList DEF Operations, Commands
<1>2. 1 \in 1 .. Len(Phases("startup"))
  BY <1>1, PhaseFacts
<1>3. /\ op \in [name : Operations, phase : 1 .. 3, i : 1 .. N, step : {"call", "bond"}]
      /\ op.phase \in 1 .. Len(Phases(op.name))
      /\ op.step # "bond"
  BY <1>1, <1>2 DEF Init, At
<1>4. state \in [Nodes -> States]
  BY DEF Init, States
<1>5. 0 \in 0 .. MaxRespawnChecks /\ 0 \in 0 .. MaxCommands /\ 0 \in 0 .. MaxFaults
  BY BoundsAssumption
<1>6. QED
  BY <1>3, <1>4, <1>5 DEF Init, TypeOK

\* What changeStateForNode does when the server's answer is ok.
Answered(ok) ==
  /\ ok => state[Target] = From[Transition]
  /\ (state[Target] = From[Transition] /\ ~ok) => faults < MaxFaults
  /\ faults' = IF state[Target] = From[Transition] /\ ~ok THEN faults + 1 ELSE faults
  /\ state' = IF ok THEN [state EXCEPT ![Target] = To[Transition]] ELSE state
  /\ \/ /\ state'[Target] # To[Transition] /\ NodeFails
        /\ bond_map' = Bonds(bond_map) /\ broken' = Bonds(broken)
     \/ /\ state'[Target] = To[Transition] /\ Transition = "activate"
        /\ op' = [op EXCEPT !.step = "bond"]
        /\ UNCHANGED <<bond_map, broken, system_active, bond_timer, respawn_timer, clients>>
     \/ /\ state'[Target] = To[Transition] /\ Transition # "activate" /\ Advance
        /\ LET gone == IF Transition = "deactivate" THEN {Target} ELSE {} IN
             bond_map' = Bonds(bond_map \ gone) /\ broken' = Bonds(broken \ gone)

LEMMA CallFacts ==
  ASSUME TypeOK, changeStateForNode
  PROVE  /\ Running /\ op.step = "call" /\ Target \in Nodes /\ Transition \in Transitions
         /\ \E ok \in BOOLEAN : Answered(ok)
         /\ UNCHANGED <<checks, context, commands>>
<1>1. Running /\ op.step = "call" /\ UNCHANGED <<checks, context, commands>>
  BY DEF changeStateForNode
<1>2. Target \in Nodes /\ Transition \in Transitions
  BY <1>1, RunningFacts
<1>3. PICK ok \in BOOLEAN :
        /\ ok => state[Target] = From[Transition]
        /\ (state[Target] = From[Transition] /\ ~ok) => faults < MaxFaults
        /\ faults' = IF state[Target] = From[Transition] /\ ~ok THEN faults + 1 ELSE faults
        /\ state' = IF ok THEN [state EXCEPT ![Target] = To[Transition]] ELSE state
        /\ IF state'[Target] # To[Transition]
           THEN NodeFails /\ bond_map' = Bonds(bond_map) /\ broken' = Bonds(broken)
           ELSE IF Transition = "activate"
           THEN /\ op' = [op EXCEPT !.step = "bond"]
                /\ UNCHANGED <<bond_map, broken, system_active, bond_timer, respawn_timer, clients>>
           ELSE LET gone == IF Transition = "deactivate" THEN {Target} ELSE {} IN
                /\ Advance
                /\ bond_map' = Bonds(bond_map \ gone)
                /\ broken' = Bonds(broken \ gone)
  BY Zenon DEF changeStateForNode
<1>4. Answered(ok)
  BY <1>3, Zenon DEF Answered
<1>5. QED
  BY <1>1, <1>2, <1>4

\* The service call keeps the types.
LEMMA CallType ==
  ASSUME TypeOK, changeStateForNode
  PROVE  TypeOK'
<1> USE RunningFacts
<1>1. /\ Running /\ op.step = "call" /\ Target \in Nodes /\ Transition \in Transitions
      /\ UNCHANGED <<checks, bond_timeout, closing, commands>>
  BY CallFacts DEF context
<1>2. PICK ok \in BOOLEAN : Answered(ok)
  BY CallFacts
<1>3. To[Transition] \in States
  BY <1>1 DEF To, States, Transitions
<1>4. state' \in [Nodes -> States]
  BY <1>1, <1>2, <1>3 DEF TypeOK, Answered
<1>5. faults' \in 0 .. MaxFaults
  BY <1>2, BoundsAssumption DEF TypeOK, Answered
<1>6. bond_map' \in SUBSET Nodes /\ broken' \in SUBSET bond_map'
  BY <1>2 DEF TypeOK, Bonds, Answered
<1>7. /\ OpOK'
      /\ system_active' \in BOOLEAN /\ bond_timer' \in BOOLEAN
      /\ respawn_timer' \in BOOLEAN /\ clients' \in BOOLEAN
  <2>1. CASE NodeFails \/ Advance
    BY <1>1, <2>1, AllMove, MovesOK
  <2>2. CASE /\ Transition = "activate" /\ op' = [op EXCEPT !.step = "bond"]
             /\ UNCHANGED <<bond_map, broken, system_active, bond_timer, respawn_timer, clients>>
    <3>1. Transition' = Transition
      BY <1>1, <2>2 DEF Transition, At
    <3>2. op \in [name : Operations, phase : 1 .. 3, i : 1 .. N, step : {"call", "bond"}]
      BY <1>1, NotRunning DEF TypeOK
    <3>3. op' \in [name : Operations, phase : 1 .. 3, i : 1 .. N, step : {"call", "bond"}]
          /\ op'.phase = op.phase /\ op'.name = op.name
      BY <3>2, <2>2
    <3>4. QED
      BY <1>1, <2>2, <3>1, <3>3 DEF OpOK, TypeOK
  <2>3. QED
    BY <1>2, <2>1, <2>2 DEF Answered
<1>8. QED
  BY <1>1, <1>4, <1>5, <1>6, <1>7 DEF TypeOK, OpOK

\* What createBondConnection does.
LEMMA BondFacts ==
  ASSUME TypeOK, createBondConnection
  PROVE  /\ Running /\ op.step = "bond" /\ (Advance \/ NodeFails)
         /\ bond_map' = IF Bonding THEN bond_map \cup {Target} ELSE bond_map
         /\ broken' = IF Bonding /\ Target \notin bond_map /\ state[Target] # "active"
                      THEN broken \cup {Target} ELSE broken
         /\ broken' \subseteq bond_map'
         /\ UNCHANGED <<state, checks, context, commands, faults>>
<1>1. /\ Running /\ op.step = "bond" /\ (Advance \/ NodeFails)
      /\ UNCHANGED <<state, checks, context, commands, faults>>
  BY DEF createBondConnection
<1> DEFINE new == {n \in {Target} \ bond_map : Bonding}
           unformed == {n \in new : state[n] # "active"}
<1>2. bond_map' = bond_map \cup new /\ broken' = broken \cup unformed
  BY DEF createBondConnection
<1>3. bond_map' = IF Bonding THEN bond_map \cup {Target} ELSE bond_map
  BY <1>2
<1>4. broken' = IF Bonding /\ Target \notin bond_map /\ state[Target] # "active"
                THEN broken \cup {Target} ELSE broken
  BY <1>2
<1>5. QED
  BY <1>1, <1>2, <1>3, <1>4 DEF TypeOK

\* The other steps keep the types.
LEMMA NextType ==
  ASSUME TypeOK, [Next]_vars
  PROVE  TypeOK'
<1> USE BoundsAssumption DEF context
<1>1. CASE changeStateForNode
  BY <1>1, CallType
<1>2. CASE changeStateThrows
  <2>1. Running /\ PhaseFails /\ bond_map' = Bonds(bond_map) /\ broken' = Bonds(broken)
        /\ UNCHANGED <<state, checks, context, commands, faults>>
    BY <1>2 DEF changeStateThrows
  <2>2. /\ OpOK'
        /\ system_active' \in BOOLEAN /\ bond_timer' \in BOOLEAN
        /\ respawn_timer' \in BOOLEAN /\ clients' \in BOOLEAN
    BY <2>1, AllMove, MovesOK
  <2>3. QED
    BY <2>1, <2>2 DEF TypeOK, OpOK, Bonds
<1>3. CASE useResetClient
  BY <1>3 DEF useResetClient, TypeOK
<1>4. CASE createBondConnection
  <2>1. /\ Running /\ (Advance \/ NodeFails)
        /\ bond_map' \in {bond_map, bond_map \cup {Target}}
        /\ broken' \in {broken, broken \cup {Target}} /\ broken' \subseteq bond_map'
        /\ UNCHANGED <<state, checks, context, commands, faults>>
    BY <1>4, BondFacts
  <2>2. /\ OpOK'
        /\ system_active' \in BOOLEAN /\ bond_timer' \in BOOLEAN
        /\ respawn_timer' \in BOOLEAN /\ clients' \in BOOLEAN
    BY <2>1, AllMove, MovesOK
  <2>3. Target \in Nodes
    BY <2>1, RunningFacts
  <2>4. QED
    BY <2>1, <2>2, <2>3 DEF TypeOK, OpOK
<1>5. ASSUME NEW c \in Commands, managerCallback(c)
      PROVE  TypeOK'
  <2>1. OpOK' /\ system_active' \in BOOLEAN /\ bond_timer' \in BOOLEAN
    BY <1>5, BeginOK DEF managerCallback, Operations
  <2>2. QED
    BY <1>5, <2>1 DEF managerCallback, TypeOK, OpOK
<1>6. CASE checkBondConnections
  <2>1. "hardReset" \in Operations
    BY DEF Operations
  <2>2. \/ Begin("hardReset")
        \/ op' = Crashed /\ UNCHANGED <<system_active, bond_timer>>
    BY <1>6 DEF checkBondConnections
  <2>3. OpOK' /\ system_active' \in BOOLEAN /\ bond_timer' \in BOOLEAN
    BY <2>1, <2>2, BeginOK DEF OpOK, TypeOK
  <2>4. QED
    BY <1>6, <2>3 DEF checkBondConnections, TypeOK, OpOK
<1>7. CASE checkBondRespawnConnection
  <2>0. /\ UNCHANGED <<state, bond_map, broken, clients, context, commands, faults>>
        /\ respawn_timer' \in BOOLEAN /\ checks' \in 0 .. MaxRespawnChecks
    <3>1. UNCHANGED <<state, bond_map, broken, clients, context, commands, faults>>
      BY <1>7 DEF checkBondRespawnConnection
    <3>2. \/ respawn_timer' = FALSE /\ checks' = 0
          \/ respawn_timer' = respawn_timer /\ checks' = checks
          \/ /\ respawn_timer' = (checks < MaxRespawnChecks)
             /\ checks' = IF checks < MaxRespawnChecks THEN checks + 1 ELSE 0
      <4>1. CASE system_active
        BY <1>7, <4>1 DEF checkBondRespawnConnection
      <4>2. CASE ~system_active /\ ~clients
        BY <1>7, <4>2 DEF checkBondRespawnConnection
      <4>3. CASE ~system_active /\ clients /\ \A n \in Nodes : state[n] # "dead"
        BY <1>7, <4>3 DEF checkBondRespawnConnection
      <4>4. CASE ~system_active /\ clients /\ ~\A n \in Nodes : state[n] # "dead"
        BY <1>7, <4>4, Zenon DEF checkBondRespawnConnection
      <4>5. QED
        BY <4>1, <4>2, <4>3, <4>4
    <3>3. respawn_timer' \in BOOLEAN
      <4>1. (checks < MaxRespawnChecks) \in BOOLEAN
        OBVIOUS
      <4>2. QED
        BY <3>2, <4>1, Zenon DEF TypeOK
    <3>4. checks' \in 0 .. MaxRespawnChecks
      BY <3>2 DEF TypeOK
    <3>5. QED
      BY <3>1, <3>3, <3>4
  <2>1. "startup" \in Operations
    BY DEF Operations, Commands
  <2>2. \/ Begin("startup")
        \/ op' \in {op, Crashed} /\ UNCHANGED <<system_active, bond_timer>>
    BY <1>7 DEF checkBondRespawnConnection
  <2>3. CASE Begin("startup") \/ (op' = Crashed /\ UNCHANGED <<system_active, bond_timer>>)
    <3>1. OpOK' /\ system_active' \in BOOLEAN /\ bond_timer' \in BOOLEAN
      BY <2>1, <2>3, BeginOK DEF OpOK, TypeOK
    <3>2. QED
      BY <2>0, <3>1 DEF TypeOK, OpOK
  <2>4. CASE op' = op /\ UNCHANGED <<system_active, bond_timer>>
    <3>1. OpOK'
      BY <2>4 DEF OpOK, TypeOK, Transition
    <3>2. QED
      BY <2>0, <2>4, <3>1 DEF TypeOK, OpOK
  <2>5. QED
    BY <2>2, <2>3, <2>4
<1>8. CASE onRclPreshutdown
  <2>1. OpOK'
    BY <1>8 DEF onRclPreshutdown, OpOK, TypeOK, Transition
  <2>2. QED
    BY <1>8, <2>1 DEF onRclPreshutdown, TypeOK, OpOK
<1>8a. CASE joinServiceThread
  BY <1>8a DEF joinServiceThread, TypeOK
<1>9. ASSUME NEW n \in Nodes, Die(n) \/ Respawn(n) \/ Intervene(n)
      PROVE  TypeOK'
  <2>1. op' \in {op, Hung}
    BY <1>9 DEF Die, Respawn, Intervene
  <2>2. OpOK'
    BY <2>1 DEF OpOK, TypeOK, Transition
  <2>3. state' \in [Nodes -> States]
    BY <1>9 DEF Die, Respawn, Intervene, TypeOK, States
  <2>4. faults' \in 0 .. MaxFaults
    BY <1>9 DEF Die, Respawn, Intervene, TypeOK, Fault
  <2>5. QED
    BY <1>9, <2>2, <2>3, <2>4 DEF Die, Respawn, Intervene, TypeOK, OpOK
<1>10. CASE UNCHANGED vars
  BY <1>10 DEF vars, TypeOK, Transition
<1>11. QED
  BY <1>1, <1>2, <1>3, <1>4, <1>5, <1>6, <1>7, <1>8, <1>8a, <1>9, <1>10 DEF Next, Step

\* The variables keep their types: in particular an operation is always at a
\* transition it makes and a server of the list.
THEOREM TypeCorrect == Spec => []TypeOK
<1>1. Init => TypeOK
  BY InitType
<1>2. TypeOK /\ [Next]_vars => TypeOK'
  BY NextType
<1>3. QED
  BY <1>1, <1>2, PTL DEF Spec
-----------------------------------------------------------------------------
(* What is_active promises. *)

\* An operation that goes on, or ends, keeps the invariant if it keeps the bonds
\* on its way up and has bonded to the server it leaves, unless it gives up.
LEMMA MovesWatch ==
  ASSUME TypeOK, WatchInv, Running, Moves, Watched', bond_map' \subseteq Nodes,
         UNCHANGED context, Bonding \/ bond_map' = {},
         op.name \in {"startup", "resume"} => bond_map \subseteq bond_map',
         \/ Bonding /\ Transition = "activate" => Target \in bond_map'
         \/ op' = Idle /\ UNCHANGED <<system_active, bond_timer>>
  PROVE  WatchInv'
<1> USE RunningFacts, NodeList
<1>0. /\ Len(Phases(op.name)) \in 1 .. 3
      /\ Transition = "activate" => op.name \in {"startup", "resume"}
      /\ op.name \in {"startup", "resume"} =>
           Phases(op.name)[Len(Phases(op.name))] = "activate"
      /\ op # Exited
  BY PhaseFacts, NotRunning DEF Transition
<1>c. (Bonding' <=> Bonding) /\ closing' = closing
  BY DEF Bonding, context
<1>1. UNCHANGED <<system_active, bond_timer>> /\ Bonding /\ system_active =>
        (bond_timer' \/ closing') /\ bond_map' = Nodes
  BY <1>0, <1>c DEF WatchInv
<1>2. CASE NextServer
  <2>1. op' = At(op.name, op.phase, op.i + 1, "call")
        /\ UNCHANGED <<system_active, bond_timer>>
    BY <1>2 DEF NextServer, Control
  <2>2. op'.name = op.name /\ op'.i = op.i + 1 /\ op'.phase = op.phase /\ op' # Idle
    BY <2>1, AtFacts
  <2>3. Transition' = Transition
    BY <2>2 DEF Transition
  <2>4. Bonding /\ Transition = "activate" => \A j \in 1 .. op.i : NodeNames[j] \in bond_map'
    BY <1>0, <2>2 DEF WatchInv
  <2>5. QED
    BY <1>1, <1>c, <2>1, <2>2, <2>3, <2>4 DEF WatchInv, Running
<1>3. CASE NextTransition
  <2>1. op' = At(op.name, op.phase + 1, 1, "call")
        /\ UNCHANGED <<system_active, bond_timer>>
    BY <1>3 DEF NextTransition, Control
  <2>2. op'.name = op.name /\ op'.i = 1
    BY <2>1, AtFacts
  <2>3. QED
    BY <1>1, <1>c, <2>1, <2>2 DEF WatchInv, Running
<1>4. CASE op' = Idle /\ UNCHANGED <<system_active, bond_timer>>
  <2>1. ~Running'
    BY <1>4 DEF Running, Idle, Operations, Commands
  <2>2. QED
    BY <1>1, <1>4, <1>c, <2>1 DEF WatchInv
<1>5. CASE /\ op' = Idle /\ ~UNCHANGED <<system_active, bond_timer>>
           /\ op.name \in {"startup", "resume"}
           /\ op.i = N /\ op.phase = Len(Phases(op.name))
           /\ system_active' = TRUE /\ bond_timer' = createBondTimer
  <2>1. ~Running'
    BY <1>5 DEF Running, Idle, Operations, Commands
  <2>2. Transition = "activate"
    BY <1>0, <1>5 DEF Transition
  <2>3. ASSUME Bonding PROVE \A j \in 1 .. N : NodeNames[j] \in bond_map'
    <3>1. \A j \in 1 .. op.i - 1 : NodeNames[j] \in bond_map'
      BY <1>0, <2>2, <2>3 DEF WatchInv
    <3>2. NodeNames[op.i] \in bond_map'
      BY <1>5, <2>2, <2>3
    <3>3. QED
      BY <1>5, <3>1, <3>2
  <2>4. ASSUME Bonding PROVE bond_map' = Nodes
    <3>1. ASSUME NEW n \in Nodes PROVE n \in bond_map'
      <4>1. PICK j \in 1 .. N : NodeNames[j] = n
        BY NodeList
      <4>2. QED
        BY <2>3, <2>4, <4>1
    <3>2. QED
      BY <3>1
  <2>5. Bonding => bond_timer'
    BY <1>5 DEF createBondTimer
  <2>6. QED
    BY <1>5, <1>c, <2>1, <2>4, <2>5 DEF WatchInv
<1>6. QED
  BY <1>2, <1>3, <1>4, <1>5 DEF Moves

\* A step outside an operation, or one that begins an operation, keeps it.
LEMMA BeginWatch ==
  ASSUME TypeOK, WatchInv, NEW o \in Operations, Begin(o), op = Idle,
         UNCHANGED <<state, bond_map, broken, context>>
  PROVE  WatchInv'
<1>1. op'.name = o /\ op'.i = 1 /\ op' # Exited
  BY AtFacts DEF Begin
<1>2. Watched' /\ (Bonding' <=> Bonding) /\ closing' = closing
  BY DEF WatchInv, Watched, Bonding, context
<1>3. QED
  BY <1>1, <1>2, NotRunning DEF Begin, WatchInv

\* The first startup begins with nothing bonded.
LEMMA InitWatch == Init => WatchInv
<1> SUFFICES ASSUME Init PROVE WatchInv
  OBVIOUS
<1>1. op.i = 1
  BY AtFacts DEF Init, Operations, Commands
<1>2. QED
  BY <1>1 DEF Init, WatchInv, Watched

\* The service call: a bond goes only when its server has been deactivated,
\* which no operation does while the system is declared active.
LEMMA CallWatch ==
  ASSUME TypeOK, WatchInv, changeStateForNode
  PROVE  WatchInv'
<1>1. Running /\ op.step = "call" /\ Target \in Nodes /\ Transition \in Transitions
      /\ UNCHANGED context
  BY CallFacts
<1>c. (Bonding' <=> Bonding) /\ closing' = closing
  BY <1>1 DEF Bonding, context
<1>2. PICK ok \in BOOLEAN : Answered(ok)
  BY CallFacts
<1>3. /\ op.name \in Operations /\ op.i \in 1 .. N
      /\ op.phase \in 1 .. Len(Phases(op.name))
      /\ op = At(op.name, op.phase, op.i, op.step)
      /\ Transition = "deactivate" => op.name \notin {"startup", "resume"}
      /\ Transition = "activate" => op.name \in {"startup", "resume"}
  BY <1>1, RunningFacts, PhaseFacts DEF Transition
<1>4. \A n \in Nodes : state'[n] = state[n] \/ n = Target
  BY <1>2 DEF Answered, TypeOK
<1>5. To[Transition] = "active" <=> Transition = "activate"
  BY <1>1 DEF To, Transitions
<1>6. From[Transition] = "active" <=> Transition = "deactivate"
  BY <1>1 DEF From, Transitions
<1>7. CASE /\ state'[Target] # To[Transition] /\ NodeFails
           /\ bond_map' = Bonds(bond_map) /\ broken' = Bonds(broken)
  <2>1. state' = state
    BY <1>1, <1>2, <1>7 DEF Answered, TypeOK
  <2>2. Moves
    BY <1>1, <1>7, AllMove
  <2>3. op.name \in {"startup", "resume"} =>
          op' = Idle /\ UNCHANGED <<system_active, bond_timer>>
    BY <1>1, <1>7, FailMoves DEF Finish
  <2>4. op.name \in {"startup", "resume"} => bond_map' = bond_map
    BY <1>7 DEF Bonds
  <2>5. Watched' /\ bond_map' \subseteq Nodes /\ (Bonding \/ bond_map' = {})
    BY <1>7, <2>1 DEF Bonds, WatchInv, Watched, TypeOK
  <2>6. QED
    BY <1>1, <1>3, <2>2, <2>3, <2>4, <2>5, MovesWatch
<1>8. CASE /\ state'[Target] = To[Transition] /\ Transition = "activate"
           /\ op' = [op EXCEPT !.step = "bond"]
           /\ UNCHANGED <<bond_map, broken, system_active, bond_timer, respawn_timer, clients>>
  <2>1. op' = At(op.name, op.phase, op.i, "bond")
    BY <1>3, <1>8 DEF At
  <2>2. op'.name = op.name /\ op'.i = op.i /\ op'.phase = op.phase
    BY <1>3, <2>1, AtFacts
  <2>3. Watched'
    BY <1>4, <1>5, <1>8 DEF WatchInv, Watched, TypeOK
  <2>4. op # Exited
    BY <1>1, NotRunning
  <2>5. Transition' = Transition
    BY <2>2 DEF Transition
  <2>6. QED
    BY <1>1, <1>8, <1>c, <2>2, <2>3, <2>4, <2>5 DEF WatchInv, Running
<1>9. CASE /\ state'[Target] = To[Transition] /\ Transition # "activate" /\ Advance
           /\ LET gone == IF Transition = "deactivate" THEN {Target} ELSE {} IN
                bond_map' = Bonds(bond_map \ gone) /\ broken' = Bonds(broken \ gone)
  <2>1. Moves
    BY <1>1, <1>9, AllMove
  <2>2. op.name \in {"startup", "resume"} => bond_map' = bond_map
    BY <1>3, <1>9 DEF Bonds
  <2>3. bond_map' \subseteq Nodes /\ (Bonding \/ bond_map' = {})
    BY <1>9 DEF Bonds, TypeOK, WatchInv
  <2>4. ASSUME NEW n \in bond_map' PROVE state'[n] = "active" \/ n \in broken'
    <3>1. /\ n \in bond_map /\ (Transition = "deactivate" => n # Target)
          /\ n \in broken => n \in broken'
      BY <1>9, <2>4 DEF Bonds
    <3>2. n \in Nodes /\ (state[n] = "active" \/ n \in broken)
      BY <3>1 DEF WatchInv, Watched, TypeOK
    <3>3. state[n] = "active" => state'[n] = "active"
      BY <1>2, <1>6, <3>1, <3>2 DEF Answered, TypeOK
    <3>4. QED
      BY <3>1, <3>2, <3>3
  <2>5. Watched'
    BY <2>4 DEF Watched
  <2>6. QED
    BY <1>1, <1>9, <2>1, <2>2, <2>3, <2>5, MovesWatch
<1>10. QED
  BY <1>2, <1>7, <1>8, <1>9 DEF Answered

\* Bonding: the server becomes one of those that have a bond, and if the bond
\* does not form, bring-up gives up.
LEMMA BondWatch ==
  ASSUME TypeOK, WatchInv, createBondConnection
  PROVE  WatchInv'
<1>1. /\ Running /\ op.step = "bond" /\ (Advance \/ NodeFails)
      /\ bond_map' = IF Bonding THEN bond_map \cup {Target} ELSE bond_map
      /\ broken' = IF Bonding /\ Target \notin bond_map /\ state[Target] # "active"
                   THEN broken \cup {Target} ELSE broken
      /\ state' = state /\ UNCHANGED context
  BY BondFacts
<1>2. Target \in Nodes
  BY <1>1, RunningFacts
<1>3. Watched'
  BY <1>1 DEF WatchInv, Watched
<1>4. Moves
  BY <1>1, AllMove
<1>5. /\ bond_map' \subseteq Nodes /\ (Bonding \/ bond_map' = {}) /\ bond_map \subseteq bond_map'
      /\ Bonding => Target \in bond_map'
  BY <1>1, <1>2 DEF TypeOK, WatchInv
<1>6. QED
  BY <1>1, <1>3, <1>4, <1>5, MovesWatch

LEMMA NextWatch ==
  ASSUME TypeOK, WatchInv, [Next]_vars
  PROVE  WatchInv'
<1> USE NotRunning
<1>1. CASE changeStateForNode
  BY <1>1, CallWatch
<1>2. CASE changeStateThrows
  <2>1. /\ Running /\ PhaseFails /\ bond_map' = Bonds(bond_map) /\ broken' = Bonds(broken)
        /\ state' = state /\ UNCHANGED context
    BY <1>2 DEF changeStateThrows
  <2>2. Moves
    BY <2>1, AllMove
  <2>3. op.name \in {"startup", "resume"} =>
          op' = Idle /\ UNCHANGED <<system_active, bond_timer>> /\ bond_map' = bond_map
    BY <2>1, FailMoves DEF Finish, Bonds
  <2>4. Watched' /\ bond_map' \subseteq Nodes /\ (Bonding \/ bond_map' = {})
    BY <2>1 DEF Bonds, WatchInv, Watched, TypeOK
  <2>5. Transition = "activate" => op.name \in {"startup", "resume"}
    BY <2>1, RunningFacts, PhaseFacts DEF Transition
  <2>6. QED
    BY <2>1, <2>2, <2>3, <2>4, <2>5, MovesWatch
<1>3. CASE useResetClient
  <2>1. ~Running'
    BY <1>3 DEF useResetClient, Running, Crashed, Operations, Commands
  <2>2. QED
    BY <1>3, <2>1 DEF useResetClient, WatchInv, Watched, Bonding, context
<1>4. CASE createBondConnection
  BY <1>4, BondWatch
<1>5. ASSUME NEW c \in Commands, managerCallback(c)
      PROVE  WatchInv'
  BY <1>5, BeginWatch DEF managerCallback, Operations, Free
<1>6. CASE checkBondConnections
  <2>1. /\ op = Idle /\ system_active
        /\ Begin("hardReset") \/ \E i \in 1 .. N : NodeNames[i] \notin bond_map
        /\ UNCHANGED <<state, bond_map, broken, context>> /\ bond_map # {}
    BY <1>6 DEF checkBondConnections, Free
  <2>2. Begin("hardReset")
    BY <2>1, NodeList DEF WatchInv
  <2>3. "hardReset" \in Operations
    BY DEF Operations
  <2>4. QED
    BY <2>1, <2>2, <2>3, BeginWatch
<1>7. CASE checkBondRespawnConnection
  <2>1. /\ op = Idle /\ UNCHANGED <<state, bond_map, broken, context>>
        /\ \/ op' \in {Idle, Crashed} /\ UNCHANGED <<system_active, bond_timer>>
           \/ Begin("startup")
    BY <1>7 DEF checkBondRespawnConnection, Free
  <2>2. CASE Begin("startup")
    BY <2>1, <2>2, BeginWatch DEF Operations, Commands
  <2>3. CASE op' \in {Idle, Crashed} /\ UNCHANGED <<system_active, bond_timer>>
    <3>1. ~Running'
      BY <2>3 DEF Running, Crashed, Idle, Operations, Commands
    <3>2. QED
      BY <2>1, <2>3, <3>1 DEF WatchInv, Watched, Bonding, context
  <2>4. QED
    BY <2>1, <2>2, <2>3
<1>8. CASE onRclPreshutdown
  BY <1>8 DEF onRclPreshutdown, WatchInv, Watched, Bonding, Running, Transition
<1>8a. CASE joinServiceThread
  <2>1. ~Running' /\ op' = Exited /\ bond_map' = {}
    BY <1>8a DEF joinServiceThread, Running, Exited, Operations, Commands
  <2>2. QED
    BY <2>1 DEF WatchInv, Watched
<1>9. ASSUME NEW n \in Nodes, Die(n) \/ Respawn(n) \/ Intervene(n)
      PROVE  WatchInv'
  <2>1. /\ UNCHANGED <<bond_map, system_active, bond_timer, context>>
        /\ op' = op \/ (op' = Hung /\ Running)
    BY <1>9 DEF Die, Respawn, Intervene
  <2>c. (Bonding' <=> Bonding) /\ closing' = closing
    BY <2>1 DEF Bonding, context
  <2>2. Watched'
    <3>1. CASE Die(n) \/ Intervene(n)
      BY <3>1 DEF Die, Intervene, WatchInv, Watched, TypeOK
    <3>2. CASE Respawn(n)
      BY <3>2 DEF Respawn, WatchInv, Watched, TypeOK
    <3>3. QED
      BY <1>9, <3>1, <3>2
  <2>3. CASE op' = op
    BY <2>1, <2>2, <2>3, <2>c DEF WatchInv, Running, Transition
  <2>4. CASE op' = Hung /\ Running
    <3>1. ~Running'
      BY <2>4 DEF Running, Hung, Operations, Commands
    <3>2. QED
      BY <2>1, <2>2, <2>4, <2>c, <3>1 DEF WatchInv
  <2>5. QED
    BY <2>1, <2>3, <2>4
<1>10. CASE UNCHANGED vars
  BY <1>10 DEF vars, WatchInv, Watched, Running, Transition, Bonding, context
<1>11. QED
  BY <1>1, <1>2, <1>3, <1>4, <1>5, <1>6, <1>7, <1>8, <1>8a, <1>9, <1>10 DEF Next, Step

\* With a bond timeout, while is_active answers true, the bond timer is set,
\* until the context shuts down, over a bond to every server, and a server that is not active is one whose bond is broken:
\* startup(), resume() and what brings the system down keep it, whatever
\* servers die, come back or are interfered with, and whenever they do.
THEOREM WatchedWhileActive == Spec => []ActiveMeansWatched
<1>1. Init => TypeOK /\ WatchInv
  BY InitType, InitWatch
<1>2. TypeOK /\ WatchInv /\ [Next]_vars => (TypeOK /\ WatchInv)'
  BY NextType, NextWatch
<1>3. WatchInv => ActiveMeansWatched
  BY DEF WatchInv, Watched, ActiveMeansWatched
<1>4. QED
  BY <1>1, <1>2, <1>3, PTL DEF Spec

\* A null client is used only after shutdown() has reset the clients, and the
\* null bond checkBondConnections would insert for an unknown server is never
\* met: the timer looks at the bonds only while the system is active, when there
\* is one to every server.
THEOREM NullBondNeverMet == Spec => []NullOnlyAfterShutdown
<1> USE NotRunning DEF NullOnlyAfterShutdown
<1>1. Init => TypeOK /\ WatchInv /\ NullOnlyAfterShutdown
  <2>1. Init => op # Crashed
    BY AtFacts DEF Init, Operations, Commands
  <2>2. QED
    BY <2>1, InitType, InitWatch
<1>2. TypeOK /\ WatchInv /\ NullOnlyAfterShutdown /\ [Next]_vars => NullOnlyAfterShutdown'
  <2> SUFFICES ASSUME TypeOK, WatchInv, NullOnlyAfterShutdown, [Next]_vars, op' = Crashed
               PROVE  ~clients'
    OBVIOUS
  <2>0. ASSUME Running, Moves PROVE FALSE
    BY <2>0, RunningFacts, AtFacts DEF Moves, NextServer, NextTransition
  <2>1. CASE changeStateForNode
    <3>1. PICK ok \in BOOLEAN : Answered(ok)
      BY <2>1, CallFacts
    <3>2. Running
      BY <2>1, CallFacts
    <3>3. op' = [op EXCEPT !.step = "bond"] => op'.name \in Operations
      BY <3>2, RunningFacts DEF At
    <3>4. op' # [op EXCEPT !.step = "bond"]
      BY <3>3 DEF Crashed, Operations, Commands
    <3>5. Moves
      BY <3>1, <3>2, <3>4, AllMove DEF Answered
    <3>6. QED
      BY <2>0, <3>2, <3>5
  <2>2. CASE changeStateThrows
    <3>1. Running /\ PhaseFails
      BY <2>2 DEF changeStateThrows
    <3>2. QED
      BY <2>0, <3>1, AllMove
  <2>3. CASE useResetClient
    BY <2>3 DEF useResetClient
  <2>4. CASE createBondConnection
    <3>1. Running /\ (Advance \/ NodeFails)
      BY <2>4 DEF createBondConnection
    <3>2. QED
      BY <2>0, <3>1, AllMove
  <2>5. ASSUME NEW c \in Commands, managerCallback(c) PROVE FALSE
    BY <2>5, AtFacts DEF managerCallback, Begin, Operations
  <2>6. CASE checkBondConnections
    <3>1. /\ op = Idle /\ system_active
          /\ Begin("hardReset") \/ \E i \in 1 .. N : NodeNames[i] \notin bond_map
          /\ bond_map # {}
      BY <2>6 DEF checkBondConnections, Free
    <3>2. Begin("hardReset")
      BY <3>1, NodeList DEF WatchInv
    <3>3. "hardReset" \in Operations
      BY DEF Operations
    <3>4. QED
      BY <3>2, <3>3, AtFacts DEF Begin
  <2>7. CASE checkBondRespawnConnection
    <3>1. ~clients \/ Begin("startup")
      BY <2>7 DEF checkBondRespawnConnection, Free
    <3>2. clients' = clients
      BY <2>7 DEF checkBondRespawnConnection
    <3>3. ~Begin("startup")
      BY AtFacts DEF Begin, Operations, Commands
    <3>4. QED
      BY <3>1, <3>2, <3>3
  <2>8. CASE onRclPreshutdown
    BY <2>8 DEF onRclPreshutdown
  <2>8a. CASE joinServiceThread
    BY <2>8a DEF joinServiceThread
  <2>9. ASSUME NEW n \in Nodes, Die(n) \/ Respawn(n) \/ Intervene(n) PROVE ~clients'
    BY <2>9 DEF Die, Respawn, Intervene
  <2>10. CASE UNCHANGED vars
    BY <2>10 DEF vars
  <2>11. QED
    BY <2>1, <2>2, <2>3, <2>4, <2>5, <2>6, <2>7, <2>8, <2>8a, <2>9, <2>10 DEF Next, Step
<1>3. TypeOK /\ WatchInv /\ [Next]_vars => (TypeOK /\ WatchInv)'
  BY NextType, NextWatch
<1>4. QED
  BY <1>1, <1>2, <1>3, PTL DEF Spec
-----------------------------------------------------------------------------
(* The order of bring-up and take-down. *)

\* An operation that goes on, or ends, keeps the invariant if it leaves behind
\* an active server on its way up and none on its way down.
LEMMA MovesOrder ==
  ASSUME TypeOK, Running, Moves, BringUpOrder',
         Transition = "activate" =>
           \/ \A j \in 1 .. op.i : state'[NodeNames[j]] = "active"
           \/ op' = Idle,
         Transition = "deactivate" =>
           \A j \in 1 .. op.i : state'[NodeNames[N + 1 - j]] # "active"
  PROVE  OrderInv'
<1> USE RunningFacts, NodeList
<1>1. CASE NextServer
  <2>1. op' = At(op.name, op.phase, op.i + 1, "call")
    BY <1>1 DEF NextServer
  <2>2. op'.name = op.name /\ op'.i = op.i + 1 /\ op'.phase = op.phase
        /\ op'.step = "call" /\ op' # Idle
    BY <2>1, AtFacts
  <2>3. Transition' = Transition
    BY <2>2 DEF Transition
  <2>4. 1 .. op'.i - 1 = 1 .. op.i
    BY <2>2
  <2>5. QED
    BY <2>2, <2>3, <2>4 DEF OrderInv
<1>2. CASE NextTransition
  <2>1. op'.i = 1 /\ op'.step = "call"
    BY <1>2, AtFacts DEF NextTransition
  <2>2. QED
    BY <2>1 DEF OrderInv
<1>3. CASE op' = Idle
  <2>1. ~Running'
    BY <1>3 DEF Running, Idle, Operations, Commands
  <2>2. QED
    BY <2>1 DEF OrderInv
<1>4. QED
  BY <1>1, <1>2, <1>3 DEF Moves

\* What one transition does to the order, when no server fails: activating the
\* first server that is not, deactivating the last one that is, or neither.
LEMMA AnswerOrder ==
  ASSUME TypeOK, OrderInv, faults = 0, faults' = 0, Running, op.step = "call",
         NEW ok \in BOOLEAN, Answered(ok)
  PROVE  /\ BringUpOrder'
         /\ Transition = "activate" =>
              \A j \in 1 .. op.i - 1 : state'[NodeNames[j]] = "active"
         /\ Transition = "deactivate" =>
              \A j \in 1 .. op.i : state'[NodeNames[N + 1 - j]] # "active"
<1> USE RunningFacts, NodeList
<1>1. ok <=> state[Target] = From[Transition]
  BY DEF Answered, TypeOK
<1>2. state' = IF ok THEN [state EXCEPT ![Target] = To[Transition]] ELSE state
  BY DEF Answered
<1>3. state \in [Nodes -> States] /\ Target \in Nodes
  BY DEF TypeOK
<1>4. \A i, j \in 1 .. N :
        i < j /\ state[NodeNames[j]] = "active" => state[NodeNames[i]] = "active"
  BY DEF OrderInv, BringUpOrder
<1>5. CASE Transition = "activate"
  <2>1. To[Transition] = "active" /\ Target = NodeNames[op.i]
    BY <1>5 DEF To
  <2>2. \A j \in 1 .. op.i - 1 : state[NodeNames[j]] = "active"
    BY <1>5 DEF OrderInv
  <2>3. \A n \in Nodes : state'[n] = "active" <=> state[n] = "active" \/ (ok /\ n = Target)
    BY <1>2, <1>3, <2>1
  <2>4. ASSUME NEW i \in 1 .. N, NEW j \in 1 .. N, i < j, state'[NodeNames[j]] = "active"
        PROVE  state'[NodeNames[i]] = "active"
    <3>1. NodeNames[i] \in Nodes /\ NodeNames[j] \in Nodes
      OBVIOUS
    <3>2. CASE NodeNames[j] = Target
      <4>1. j = op.i
        BY <2>1, <3>2
      <4>2. QED
        BY <2>2, <2>3, <2>4, <3>1, <4>1
    <3>3. CASE NodeNames[j] # Target
      BY <1>4, <2>3, <2>4, <3>1, <3>3
    <3>4. QED
      BY <3>2, <3>3
  <2>5. BringUpOrder'
    BY <2>4 DEF BringUpOrder
  <2>6. \A j \in 1 .. op.i - 1 : state'[NodeNames[j]] = "active"
    BY <2>2, <2>3
  <2>7. QED
    BY <1>5, <2>5, <2>6
<1>6. CASE Transition = "deactivate"
  <2>1. /\ To[Transition] # "active" /\ From[Transition] = "active"
        /\ Target = NodeNames[N + 1 - op.i] /\ N + 1 - op.i \in 1 .. N
    BY <1>6 DEF To, From
  <2>2. \A j \in 1 .. op.i - 1 : state[NodeNames[N + 1 - j]] # "active"
    BY <1>6 DEF OrderInv
  <2>3. \A n \in Nodes : state'[n] = "active" <=> state[n] = "active" /\ n # Target
    BY <1>1, <1>2, <1>3, <2>1
  <2>4. ASSUME NEW j \in 1 .. op.i PROVE state'[NodeNames[N + 1 - j]] # "active"
    <3>1. N + 1 - j \in 1 .. N /\ NodeNames[N + 1 - j] \in Nodes
      OBVIOUS
    <3>2. CASE j = op.i
      BY <2>1, <2>3, <3>1, <3>2
    <3>3. CASE j # op.i
      BY <2>2, <2>3, <3>1, <3>3
    <3>4. QED
      BY <3>2, <3>3
  <2>5. ASSUME NEW i \in 1 .. N, NEW j \in 1 .. N, i < j, state'[NodeNames[j]] = "active"
        PROVE  state'[NodeNames[i]] = "active"
    <3>1. NodeNames[i] \in Nodes /\ NodeNames[j] \in Nodes
      OBVIOUS
    <3>2. ~(N + 1 - j \in 1 .. op.i)
      <4>1. SUFFICES ASSUME N + 1 - j \in 1 .. op.i PROVE FALSE
        OBVIOUS
      <4>2. N + 1 - (N + 1 - j) = j
        OBVIOUS
      <4>3. QED
        BY <2>4, <2>5, <4>1, <4>2
    <3>3. i # N + 1 - op.i
      BY <2>5, <3>2
    <3>4. NodeNames[i] # Target
      BY <2>1, <3>3
    <3>5. QED
      BY <1>4, <2>3, <2>5, <3>1, <3>4
  <2>6. BringUpOrder'
    BY <2>5 DEF BringUpOrder
  <2>7. QED
    BY <1>6, <2>4, <2>6
<1>7. CASE Transition \notin {"activate", "deactivate"}
  <2>1. To[Transition] # "active" /\ From[Transition] # "active"
    BY <1>7 DEF To, From, Transitions
  <2>2. \A n \in Nodes : state'[n] = "active" <=> state[n] = "active"
    BY <1>1, <1>2, <1>3, <2>1
  <2>3. BringUpOrder'
    BY <1>4, <2>2 DEF BringUpOrder
  <2>4. QED
    BY <1>7, <2>3
<1>8. QED
  BY <1>5, <1>6, <1>7

\* A step that leaves the servers alone and is not inside an operation.
LEMMA AsideOrder ==
  ASSUME OrderInv, UNCHANGED <<state, faults>>, ~Running' \/ op' = op
         \/ \E o \in Operations : op' = At(o, 1, 1, "call")
  PROVE  OrderInv'
<1>1. faults = 0 => BringUpOrder'
  BY DEF OrderInv, BringUpOrder
<1>2. CASE op' = op
  BY <1>1, <1>2 DEF OrderInv, Running, Transition, Target
<1>3. ASSUME NEW o \in Operations, op' = At(o, 1, 1, "call")
      PROVE  OrderInv'
  <2>1. op'.i = 1 /\ op'.step = "call"
    BY <1>3, AtFacts
  <2>2. QED
    BY <1>1, <2>1 DEF OrderInv
<1>4. CASE ~Running'
  BY <1>1, <1>4 DEF OrderInv
<1>5. QED
  BY <1>2, <1>3, <1>4

LEMMA InitOrder == Init => OrderInv
<1> SUFFICES ASSUME Init PROVE OrderInv
  OBVIOUS
<1>1. op.i = 1 /\ op.step = "call"
  BY AtFacts DEF Init, Operations, Commands
<1>2. BringUpOrder
  BY NodeList DEF Init, BringUpOrder
<1>3. QED
  BY <1>1, <1>2 DEF OrderInv

LEMMA CallOrder ==
  ASSUME TypeOK, OrderInv, changeStateForNode
  PROVE  OrderInv'
<1> SUFFICES ASSUME faults' = 0 PROVE OrderInv'
  BY DEF OrderInv
<1>1. Running /\ op.step = "call" /\ Target \in Nodes
  BY CallFacts
<1>2. PICK ok \in BOOLEAN : Answered(ok)
  BY CallFacts
<1>3. faults = 0
  BY <1>2 DEF Answered, TypeOK
<1>4. /\ BringUpOrder'
      /\ Transition = "activate" =>
           \A j \in 1 .. op.i - 1 : state'[NodeNames[j]] = "active"
      /\ Transition = "deactivate" =>
           \A j \in 1 .. op.i : state'[NodeNames[N + 1 - j]] # "active"
  BY <1>1, <1>2, <1>3, AnswerOrder
<1>5. /\ op.name \in Operations /\ op.i \in 1 .. N
      /\ op = At(op.name, op.phase, op.i, op.step)
      /\ Transition = "activate" => op.name \in {"startup", "resume"} /\ Target = NodeNames[op.i]
  BY <1>1, RunningFacts, PhaseFacts DEF Transition
<1>6. CASE NodeFails
  <2>1. Moves
    BY <1>1, <1>6, AllMove
  <2>2. Transition = "activate" => op' = Idle
    BY <1>1, <1>5, <1>6, FailMoves DEF Finish
  <2>3. QED
    BY <1>1, <1>4, <2>1, <2>2, MovesOrder
<1>7. CASE /\ state'[Target] = To[Transition] /\ Transition = "activate"
           /\ op' = [op EXCEPT !.step = "bond"]
  <2>1. op' = At(op.name, op.phase, op.i, "bond")
    BY <1>5, <1>7 DEF At
  <2>2. op'.name = op.name /\ op'.i = op.i /\ op'.phase = op.phase /\ op'.step = "bond"
    BY <1>5, <2>1, AtFacts
  <2>3. Transition' = Transition /\ Target' = Target
    BY <2>2 DEF Transition, Target
  <2>4. state'[Target] = "active"
    BY <1>7 DEF To
  <2>5. QED
    BY <1>4, <1>7, <2>2, <2>3, <2>4 DEF OrderInv
<1>8. CASE Transition # "activate" /\ Advance
  <2>1. Moves
    BY <1>1, <1>8, AllMove
  <2>2. QED
    BY <1>1, <1>4, <1>8, <2>1, MovesOrder
<1>9. QED
  BY <1>2, <1>6, <1>7, <1>8 DEF Answered

LEMMA NextOrder ==
  ASSUME TypeOK, OrderInv, [Next]_vars
  PROVE  OrderInv'
<1>1. CASE changeStateForNode
  BY <1>1, CallOrder
<1>2. CASE changeStateThrows
  <2>1. Running /\ PhaseFails /\ UNCHANGED <<state, faults>>
    BY <1>2 DEF changeStateThrows
  <2> SUFFICES ASSUME faults = 0 PROVE OrderInv'
    BY <2>1 DEF OrderInv
  <2>2. Transition = "activate" => op' = Idle
    BY <2>1, FailMoves, RunningFacts, PhaseFacts DEF Finish, Transition
  <2>3. Transition = "deactivate" =>
          \A j \in 1 .. op.i : state[NodeNames[N + 1 - j]] # "active"
    <3>1. Transition = "deactivate" => state[NodeNames[N + 1 - op.i]] = "dead"
      BY <1>2, <2>1, RunningFacts DEF changeStateThrows
    <3>2. Transition = "deactivate" =>
            \A j \in 1 .. op.i - 1 : state[NodeNames[N + 1 - j]] # "active"
      BY <2>1 DEF OrderInv
    <3>3. op.i \in Nat
      BY <2>1, RunningFacts
    <3>4. QED
      BY <3>1, <3>2, <3>3
  <2>4. BringUpOrder'
    BY <2>1 DEF OrderInv, BringUpOrder
  <2>5. QED
    BY <2>1, <2>2, <2>3, <2>4, AllMove, MovesOrder
<1>3. CASE createBondConnection
  <2>1. /\ Running /\ op.step = "bond" /\ (Advance \/ NodeFails)
        /\ UNCHANGED <<state, faults>>
    BY <1>3 DEF createBondConnection
  <2> SUFFICES ASSUME faults = 0 PROVE OrderInv'
    BY <2>1 DEF OrderInv
  <2>2. Transition = "activate" /\ Target = NodeNames[op.i] /\ op.i \in 1 .. N
    BY <2>1, RunningFacts
  <2>3. \A j \in 1 .. op.i : state[NodeNames[j]] = "active"
    BY <2>1, <2>2 DEF OrderInv
  <2>4. BringUpOrder'
    BY <2>1 DEF OrderInv, BringUpOrder
  <2>5. QED
    BY <2>1, <2>2, <2>3, <2>4, AllMove, MovesOrder
<1>4. CASE useResetClient
  <2>1. ~Running' /\ UNCHANGED <<state, faults>>
    BY <1>4 DEF useResetClient, Running, Crashed, Operations, Commands
  <2>2. QED
    BY <2>1, AsideOrder
<1>5. ASSUME NEW c \in Commands, managerCallback(c)
      PROVE  OrderInv'
  BY <1>5, AsideOrder DEF managerCallback, Begin, Operations
<1>6. CASE checkBondConnections \/ checkBondRespawnConnection
  <2>1. /\ UNCHANGED <<state, faults>>
        /\ Begin("hardReset") \/ Begin("startup") \/ op' \in {op, Crashed}
    BY <1>6 DEF checkBondConnections, checkBondRespawnConnection
  <2>2. op' = Crashed => ~Running'
    BY DEF Running, Crashed, Operations, Commands
  <2>3. "hardReset" \in Operations /\ "startup" \in Operations
    BY DEF Operations, Commands
  <2>4. QED
    BY <2>1, <2>2, <2>3, AsideOrder DEF Begin
<1>7. CASE onRclPreshutdown
  BY <1>7, AsideOrder DEF onRclPreshutdown
<1>7a. CASE joinServiceThread
  <2>1. ~Running' /\ UNCHANGED <<state, faults>>
    BY <1>7a DEF joinServiceThread, Running, Exited, Operations, Commands
  <2>2. QED
    BY <2>1, AsideOrder
<1>8. ASSUME NEW n \in Nodes, Die(n) \/ Intervene(n)
      PROVE  OrderInv'
  <2>1. faults' # 0
    BY <1>8, BoundsAssumption DEF Die, Intervene, Fault, TypeOK
  <2>2. QED
    BY <2>1 DEF OrderInv
<1>9. ASSUME NEW n \in Nodes, Respawn(n)
      PROVE  OrderInv'
  <2>1. /\ UNCHANGED <<op, faults>>
        /\ state[n] = "dead" /\ state' = [state EXCEPT ![n] = "unconfigured"]
    BY <1>9 DEF Respawn
  <2>2. \A m \in Nodes : state'[m] = "active" <=> state[m] = "active"
    BY <2>1 DEF TypeOK
  <2> SUFFICES ASSUME faults = 0 PROVE OrderInv'
    BY <2>1 DEF OrderInv
  <2>3. BringUpOrder'
    BY <2>2, NodeList DEF OrderInv, BringUpOrder
  <2>4. UNCHANGED Running /\ UNCHANGED Transition /\ UNCHANGED Target
    BY <2>1 DEF Running, Transition, Target
  <2>5. Running => op.i \in 1 .. N /\ Target \in Nodes
    BY RunningFacts
  <2>6. Running /\ Transition = "deactivate" =>
          \A j \in 1 .. op.i - 1 : state'[NodeNames[N + 1 - j]] # "active"
    BY <2>2, <2>5, NodeList DEF OrderInv
  <2>7. Running /\ Transition = "activate" =>
          \A j \in 1 .. op.i - 1 : state'[NodeNames[j]] = "active"
    BY <2>2, <2>5, NodeList DEF OrderInv
  <2>8. Running /\ op.step = "bond" => state'[Target] = "active"
    BY <2>2, <2>5 DEF OrderInv
  <2>9. QED
    BY <2>1, <2>3, <2>4, <2>6, <2>7, <2>8 DEF OrderInv
<1>10. CASE UNCHANGED vars
  BY <1>10, AsideOrder DEF vars
<1>11. QED
  BY <1>1, <1>2, <1>3, <1>4, <1>5, <1>6, <1>7, <1>7a, <1>8, <1>9, <1>10 DEF Next, Step

\* Whatever sequence of commands manage_nodes is given, as long as no server
\* fails a server is active only while all servers before it in the list are:
\* changeStateForAllNodes goes up in order, down in reverse order, and gives up
\* at the first server it cannot activate.
THEOREM OrderKept == Spec => []BringUpOrder
<1>1. Init => TypeOK /\ OrderInv
  BY InitType, InitOrder
<1>2. TypeOK /\ OrderInv /\ [Next]_vars => (TypeOK /\ OrderInv)'
  BY NextType, NextOrder
<1>3. OrderInv => BringUpOrder
  BY DEF OrderInv, BringUpOrder
<1>4. QED
  BY <1>1, <1>2, <1>3, PTL DEF Spec
=============================================================================
