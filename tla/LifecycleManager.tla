-------------------------- MODULE LifecycleManager --------------------------
(***************************************************************************)
(* nav2_lifecycle_manager: one service thread that brings a list of         *)
(* lifecycle servers up and down, watches a bond to each of them and tries  *)
(* to bring the system back after a server has died.                        *)
(*                                                                         *)
(* The manager's callbacks (the manage_nodes service, the bond timer and    *)
(* the respawn timer) share one callback group, so one operation runs at a  *)
(* time.  It is a sequence of service calls to the servers; a server may    *)
(* die, come back, refuse a transition or be taken down by somebody else    *)
(* between any two of them, or die in the middle of one.                    *)
(***************************************************************************)
EXTENDS Naturals, Sequences, SequencesExt, FiniteSets

CONSTANTS
    NodeNames,         \* node_names_: the servers in the order of bring-up
    BondTimeouts,      \* the settings of bond_timeout_; 0: no bonds
    AttemptRespawn,    \* attempt_respawn_reconnection_
    MaxRespawnChecks,  \* bond_respawn_max_duration_ in periods of the respawn timer
    MaxCommands,       \* bound: requests to manage_nodes
    MaxFaults          \* bound: deaths, refusals and interventions

ASSUME NodeNamesAssumption ==
    /\ NodeNames \in Seq(Range(NodeNames))
    /\ Len(NodeNames) > 0
    /\ \A i, j \in 1 .. Len(NodeNames) : NodeNames[i] = NodeNames[j] => i = j
ASSUME BoundsAssumption ==
    /\ BondTimeouts \subseteq Nat
    /\ AttemptRespawn \in BOOLEAN
    /\ MaxRespawnChecks \in Nat /\ MaxCommands \in Nat /\ MaxFaults \in Nat

Nodes == Range(NodeNames)
N == Len(NodeNames)

VARIABLES
    state,         \* what get_state would answer for each server; "dead": no process
    bond_map,      \* the servers bond_map_ holds a bond to
    broken,        \* those of them whose bond isBroken()
    system_active, \* system_active_
    bond_timer,    \* bond_timer_ is set
    respawn_timer, \* bond_respawn_timer_ is set
    checks,        \* periods since bond_respawn_start_time_; 0: not started
    clients,       \* node_map_ holds clients; FALSE after shutdown() reset them
    op,            \* the operation the service thread executes
    bond_timeout,  \* bond_timeout_
    closing,       \* onRclPreshutdown has begun
    commands, faults

\* What the service thread does not change.
context == <<bond_timeout, closing>>

vars == <<state, bond_map, broken, system_active, bond_timer, respawn_timer,
          checks, clients, op, context, commands, faults>>
-----------------------------------------------------------------------------
(* The servers: nav2_util::LifecycleNode over rclcpp_lifecycle. *)

States == {"unconfigured", "inactive", "active", "finalized", "dead"}
Transitions == {"configure", "activate", "deactivate", "cleanup", "shutdown"}

\* The primary state each transition starts from, and transition_state_map_,
\* the one the manager expects after it.
From == [configure |-> "unconfigured", activate |-> "inactive", deactivate |-> "active",
         cleanup |-> "inactive", shutdown |-> "unconfigured"]
To == [configure |-> "inactive", activate |-> "active", deactivate |-> "inactive",
       cleanup |-> "unconfigured", shutdown |-> "finalized"]

(* The operations: the transitions each one makes, and over the whole list. *)
Commands == {"startup", "reset", "pause", "resume", "shutdown"}
Operations == Commands \cup {"hardReset"}

Phases(o) ==
    CASE o = "startup" -> <<"configure", "activate">>
      [] o \in {"reset", "hardReset"} -> <<"deactivate", "cleanup">>
      [] o = "pause" -> <<"deactivate">>
      [] o = "resume" -> <<"activate">>
      [] o = "shutdown" -> <<"deactivate", "cleanup", "shutdown">>

\* Mutant: every transition visits the list from its front.
VisitedForwards(t, i) == NodeNames[i]

\* The i-th server changeStateForAllNodes visits: in order going up, in
\* reverse order going down.
Visited(t, i) == IF t \in {"configure", "activate"} THEN NodeNames[i] ELSE NodeNames[N + 1 - i]

\* Between operations, inside one (before the call to server i, or between the
\* call and the bond), waiting for an answer that cannot come, after a null
\* client or bond was dereferenced, and after the context's shutdown.
Idle == [name |-> "idle"]
Hung == [name |-> "hung"]
Crashed == [name |-> "crashed"]
Exited == [name |-> "exited"]
At(o, p, i, step) == [name |-> o, phase |-> p, i |-> i, step |-> step]

Running == op.name \in Operations
Transition == Phases(op.name)[op.phase]
Target == Visited(Transition, op.i)

\* Nobody uses the service thread.
Free == op = Idle
-----------------------------------------------------------------------------
(* Operations. *)

\* The manager bonds to the servers it activates.
Bonding == bond_timeout > 0

\* Mutant: going down does not declare the system inactive first.
BeginStillActive(o) ==
    /\ op' = At(o, 1, 1, "call")
    /\ UNCHANGED <<system_active, bond_timer>>

\* shutdown(), reset() and pause() first declare the system inactive and stop
\* the bond timer; startup() and resume() begin with their first call.
Begin(o) ==
    /\ op' = At(o, 1, 1, "call")
    /\ IF o \in {"startup", "resume"}
       THEN UNCHANGED <<system_active, bond_timer>>
       ELSE system_active' = FALSE /\ bond_timer' = FALSE

\* bond_timer_ after createBondTimer(), which does nothing without a timeout.
createBondTimer == IF Bonding THEN TRUE ELSE bond_timer

\* Mutant: startup() and resume() do not look at the result of the transitions.
FinishUnchecked(success) ==
    /\ op' = Idle
    /\ LET up == op.name \in {"startup", "resume"} IN
         /\ system_active' = IF up THEN TRUE ELSE system_active
         /\ bond_timer' = IF up THEN createBondTimer ELSE bond_timer
    /\ respawn_timer' = IF op.name = "hardReset" THEN AttemptRespawn ELSE respawn_timer
    /\ clients' = (clients /\ op.name # "shutdown")

\* The operation returns.  A hard reset is always the bond timer's: it clears
\* the bonds and starts the respawn timer.
Finish(success) ==
    /\ op' = Idle
    /\ LET up == success /\ op.name \in {"startup", "resume"} IN
         /\ system_active' = IF up THEN TRUE ELSE system_active
         /\ bond_timer' = IF up THEN createBondTimer ELSE bond_timer
    /\ respawn_timer' = IF op.name = "hardReset" THEN AttemptRespawn ELSE respawn_timer
    /\ clients' = (clients /\ op.name # "shutdown")

NextPhase ==
    IF op.phase < Len(Phases(op.name))
    THEN op' = At(op.name, op.phase + 1, 1, "call")
         /\ UNCHANGED <<system_active, bond_timer, respawn_timer, clients>>
    ELSE Finish(TRUE)

\* changeStateForAllNodes returns false.  startup(), reset(), pause() and
\* resume() give up, a hard reset included: its second transition is the right
\* operand of ||.  shutdownAllNodes() goes on with the next transition.
PhaseFails == IF op.name = "shutdown" THEN NextPhase ELSE Finish(FALSE)

\* The next server of the list, or the next transition.
Advance ==
    IF op.i < N
    THEN op' = [op EXCEPT !.i = @ + 1, !.step = "call"]
         /\ UNCHANGED <<system_active, bond_timer, respawn_timer, clients>>
    ELSE NextPhase

\* Mutant: reset(true) forgets to pass on that the change is hard.
NodeFailsSoft == PhaseFails

\* changeStateForNode returned false without throwing: only a hard change goes on.
NodeFails == IF op.name = "hardReset" THEN Advance ELSE PhaseFails

\* bond_map_ after a hard reset, which clears it when it returns.
Bonds(map) == IF op'.name = "idle" /\ op.name = "hardReset" THEN {} ELSE map

\* An activated server is bonded to, if there is a timeout; a bond left over
\* from an earlier attempt is kept as it is.  waitUntilFormed fails when the
\* server is gone.
createBondConnection ==
    /\ Running /\ op.step = "bond"
    /\ LET new == {n \in {Target} \ bond_map : Bonding}
           unformed == {n \in new : state[n] # "active"} IN
         /\ bond_map' = bond_map \cup new
         /\ broken' = broken \cup unformed
         /\ IF unformed = {} THEN Advance ELSE NodeFails
    /\ UNCHANGED <<state, checks, context, commands, faults>>

\* changeStateForNode for a server that is there: the request is answered
\* whatever its outcome, and the state read back decides.  A server refuses a
\* transition that does not start from its state, and may fail any other.
changeStateForNode ==
    /\ Running /\ op.step = "call" /\ clients
    /\ state[Target] # "dead"
    /\ LET t == Transition
           n == Target
           valid == state[n] = From[t] IN
         \E ok \in BOOLEAN :
            /\ ok => valid
            /\ (valid /\ ~ok) => faults < MaxFaults
            /\ faults' = IF valid /\ ~ok THEN faults + 1 ELSE faults
            /\ state' = IF ok THEN [state EXCEPT ![n] = To[t]] ELSE state
            /\ IF state'[n] # To[t]
               THEN NodeFails /\ bond_map' = Bonds(bond_map) /\ broken' = Bonds(broken)
               ELSE IF t = "activate"
               THEN /\ op' = [op EXCEPT !.step = "bond"]
                    /\ UNCHANGED <<bond_map, broken, system_active, bond_timer, respawn_timer, clients>>
               ELSE LET gone == IF t = "deactivate" THEN {n} ELSE {} IN
                    /\ Advance
                    /\ bond_map' = Bonds(bond_map \ gone)
                    /\ broken' = Bonds(broken \ gone)
    /\ UNCHANGED <<checks, context, commands>>

\* The server's service is not available: change_state throws and
\* changeStateForAllNodes catches, for a hard change too.
changeStateThrows ==
    /\ Running /\ op.step = "call" /\ clients
    /\ state[Target] = "dead"
    /\ PhaseFails
    /\ bond_map' = Bonds(bond_map)
    /\ broken' = Bonds(broken)
    /\ UNCHANGED <<state, checks, context, commands, faults>>

\* An operation after shutdown() calls through a reset client.
useResetClient ==
    /\ Running /\ op.step = "call" /\ ~clients
    /\ op' = Crashed
    /\ UNCHANGED <<state, bond_map, broken, system_active, bond_timer, respawn_timer,
                   checks, clients, context, commands, faults>>

managerCallback(c) ==
    /\ Free
    /\ commands < MaxCommands
    /\ commands' = commands + 1
    /\ Begin(c)
    /\ UNCHANGED <<state, bond_map, broken, respawn_timer, checks, clients, context, faults>>

\* checkBondConnections stops at the first server whose bond is broken; a
\* server without a bond on the way there would be a null pointer.
checkBondConnections ==
    /\ Free /\ bond_timer
    /\ system_active /\ bond_map # {}
    /\ \E i \in 1 .. N :
         /\ NodeNames[i] \notin bond_map \/ NodeNames[i] \in broken
         /\ \A j \in 1 .. i - 1 : NodeNames[j] \in bond_map \ broken
         /\ IF NodeNames[i] \in bond_map
            THEN Begin("hardReset")
            ELSE op' = Crashed /\ UNCHANGED <<system_active, bond_timer>>
    /\ UNCHANGED <<state, bond_map, broken, respawn_timer, checks, clients, context, commands,
                   faults>>

\* checkBondRespawnConnection: give up watching when the system is active
\* again, start up when every server answers, stop after the maximum duration.
checkBondRespawnConnection ==
    /\ Free /\ respawn_timer
    /\ IF system_active
       THEN /\ respawn_timer' = FALSE /\ checks' = 0
            /\ UNCHANGED <<op, system_active, bond_timer>>
       ELSE IF ~clients
       THEN /\ op' = Crashed
            /\ UNCHANGED <<respawn_timer, checks, system_active, bond_timer>>
       ELSE IF \A n \in Nodes : state[n] # "dead"
       THEN /\ respawn_timer' = FALSE /\ checks' = 0
            /\ Begin("startup")
       ELSE /\ respawn_timer' = (checks < MaxRespawnChecks)
            /\ checks' = IF checks < MaxRespawnChecks THEN checks + 1 ELSE 0
            /\ UNCHANGED <<op, system_active, bond_timer>>
    /\ UNCHANGED <<state, bond_map, broken, clients, context, commands, faults>>

\* The context is shut down by another thread: the timer goes at once, whatever
\* the service thread does.
onRclPreshutdown ==
    /\ ~closing /\ op # Crashed
    /\ closing' = TRUE
    /\ bond_timer' = FALSE
    /\ UNCHANGED <<state, bond_map, broken, system_active, respawn_timer, checks, clients, op,
                   bond_timeout, commands, faults>>

\* The rest of onRclPreshutdown: the service thread is joined when it has
\* finished what it does, and the maps are emptied.
joinServiceThread ==
    /\ closing /\ Free
    /\ op' = Exited
    /\ clients' = FALSE
    /\ bond_map' = {} /\ broken' = {}
    /\ UNCHANGED <<state, system_active, bond_timer, respawn_timer, checks, context, commands,
                   faults>>
-----------------------------------------------------------------------------
(* What happens to the servers behind the manager's back. *)

Fault == faults < MaxFaults /\ faults' = faults + 1

\* A server dies.  If the manager waits for its answer to change_state it waits
\* for ever: the call has no timeout.
Die(n) ==
    /\ Fault
    /\ state[n] # "dead"
    /\ state' = [state EXCEPT ![n] = "dead"]
    /\ broken' = broken \cup ({n} \cap bond_map)
    /\ op' \in {op} \cup (IF Running /\ op.step = "call" /\ clients /\ Target = n
                          THEN {Hung} ELSE {})
    /\ UNCHANGED <<bond_map, system_active, bond_timer, respawn_timer, checks, clients, context,
                   commands>>

\* The launch system starts it again.
Respawn(n) ==
    /\ state[n] = "dead"
    /\ state' = [state EXCEPT ![n] = "unconfigured"]
    /\ UNCHANGED <<bond_map, broken, system_active, bond_timer, respawn_timer, checks,
                   clients, op, context, commands, faults>>

\* Somebody else deactivates an active server, which destroys its end of the bond.
Intervene(n) ==
    /\ Fault
    /\ state[n] = "active"
    /\ state' = [state EXCEPT ![n] = "inactive"]
    /\ broken' = broken \cup ({n} \cap bond_map)
    /\ UNCHANGED <<bond_map, system_active, bond_timer, respawn_timer, checks, clients, op,
                   context, commands>>
-----------------------------------------------------------------------------
\* The constructor's timers: the clients are created once every server is
\* there, and autostart begins the first startup.
Init ==
    /\ state = [n \in Nodes |-> "unconfigured"]
    /\ bond_map = {} /\ broken = {}
    /\ system_active = FALSE
    /\ bond_timer = FALSE /\ respawn_timer = FALSE /\ checks = 0
    /\ clients = TRUE
    /\ op = At("startup", 1, 1, "call")
    /\ bond_timeout \in BondTimeouts /\ closing = FALSE
    /\ commands = 0 /\ faults = 0

Step == changeStateForNode \/ changeStateThrows \/ useResetClient \/ createBondConnection

Next ==
    \/ Step
    \/ \E c \in Commands : managerCallback(c)
    \/ checkBondConnections
    \/ checkBondRespawnConnection
    \/ onRclPreshutdown
    \/ joinServiceThread
    \/ \E n \in Nodes : Die(n) \/ Respawn(n) \/ Intervene(n)

\* The service thread goes on with its operation, its timers fire, and a
\* shutdown that has begun goes on; nobody need restart what has died.
Spec == /\ Init /\ [][Next]_vars
        /\ WF_vars(Step)
        /\ WF_vars(checkBondConnections)
        /\ WF_vars(checkBondRespawnConnection)
        /\ WF_vars(joinServiceThread)
-----------------------------------------------------------------------------
(* Properties. *)

TypeOK ==
    /\ state \in [Nodes -> States]
    /\ bond_map \in SUBSET Nodes /\ broken \in SUBSET bond_map
    /\ system_active \in BOOLEAN /\ bond_timer \in BOOLEAN
    /\ respawn_timer \in BOOLEAN /\ clients \in BOOLEAN
    /\ bond_timeout \in BondTimeouts /\ closing \in BOOLEAN
    /\ checks \in 0 .. MaxRespawnChecks
    /\ commands \in 0 .. MaxCommands /\ faults \in 0 .. MaxFaults
    /\ \/ op \in {Idle, Hung, Crashed, Exited}
       \/ /\ op \in [name : Operations, phase : 1 .. 3, i : 1 .. N, step : {"call", "bond"}]
          /\ op.phase \in 1 .. Len(Phases(op.name))
          /\ op.step = "bond" => Transition = "activate"

\* With a bond timeout, while is_active answers true, the bond timer is set
\* (until the context shuts down) over a bond to every server, and a server
\* that is not active is one whose bond is broken: what the manager reports and
\* does not hold is there for its timer to find.  With the timeout of 0 of
\* rtk_global_localization.launch.py no bond is made and nothing is watched
\* (createBondConnection, createBondTimer).
ActiveMeansWatched ==
    system_active /\ Bonding /\ op # Exited =>
        /\ bond_timer \/ closing
        /\ bond_map = Nodes
        /\ \A n \in Nodes : state[n] = "active" \/ n \in broken

\* The manager dereferences a null client or bond only when it is used after
\* shutdown() has reset the clients: checkBondConnections, whose bond_map_[]
\* would insert a null bond for a server it does not know, always finds one.
NullOnlyAfterShutdown == op = Crashed => ~clients

\* Whatever sequence of commands is given, as long as no server fails, a
\* server is active only while all servers before it in the list are.
BringUpOrder ==
    faults = 0 =>
        \A i, j \in 1 .. N :
            i < j /\ state[NodeNames[j]] = "active" => state[NodeNames[i]] = "active"

\* Nothing fails any more and nobody asks for anything.
Quiet == faults = MaxFaults /\ commands = MaxCommands

\* A broken bond found while every server answers brings the whole system
\* down and, by the respawn timer, up again.
RecoversWhenAllAlive ==
    (Quiet /\ Free /\ system_active /\ broken # {} /\ \A n \in Nodes : state[n] # "dead")
    ~> (op = Exited \/ (system_active /\ broken = {} /\ \A n \in Nodes : state[n] = "active"))
=============================================================================
