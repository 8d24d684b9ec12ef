------------------------------- MODULE Peers -------------------------------
(***************************************************************************)
(* The addresses an agent knows of its peers (internal/peers).  A loop     *)
(* re-reads the worker and then the control plane peers, at long intervals *)
(* while that succeeds and at short ones while it does not.  Beside it the *)
(* isolation check of a control plane node asks for the control plane      *)
(* peers out of turn; a semaphore keeps the two in order.  One update is   *)
(* two list calls, of nodes and of agent pods, between which the cluster   *)
(* moves on.                                                               *)
(***************************************************************************)
EXTENDS Integers, FiniteSets

CONSTANTS
    WorkerNodes, ControlPlaneNodes, \* the other nodes of the cluster
    PeerUpdateInterval,             \* between updates that succeed
    QuickPeerUpdateInterval,        \* between updates that fail
    ApiServerTimeout,               \* the most an update waits for the API server
    MaxChanges,                     \* bound: changes of the cluster
    MaxFaults                       \* bound: calls that fail or time out, and restarts

\* Nodes may have both roles, and either interval may be the longer one.
ASSUME IntervalsAssumption ==
    /\ {PeerUpdateInterval, QuickPeerUpdateInterval, ApiServerTimeout} \subseteq Nat \ {0}
    /\ {MaxChanges, MaxFaults} \subseteq Nat

VARIABLES
    cluster,      \* node |-> "absent", or what its agent pod is like
    addresses,    \* role |-> the cached addresses, each named by its node
    asOf,         \* history: the age of the cluster that the control plane addresses show
    task,         \* the loop's and the isolation check's update
    round,        \* the loop: is it the quick one, did an update of this round fail
    sem,          \* who holds controlPlaneRefreshSem
    changes, faults,
    sinceFailure  \* history: the time since the last round failed, 0 in a round

vars == <<cluster, addresses, asOf, task, round, sem, changes, faults, sinceFailure>>

Roles == {"Worker", "ControlPlane"}
Selected(role) == IF role = "Worker" THEN WorkerNodes ELSE ControlPlaneNodes
Nodes == WorkerNodes \cup ControlPlaneNodes
Tasks == {"loop", "refresh"}

\* What one update remembers.  listed: the nodes it read, when the cluster was
\* listedAt old; steady (history): those of them reachable ever since; left: the
\* time until its context expires or, in "wait", until the next round.
Task(pc, role, left) ==
    [pc |-> pc, role |-> role, left |-> left, listed |-> {}, listedAt |-> 0, steady |-> {}]

TaskType ==
    [pc : {"start", "idle", "wait", "acquire", "nodes", "pods"}, role : Roles,
     left : 0 .. PeerUpdateInterval + QuickPeerUpdateInterval + ApiServerTimeout, listed : SUBSET Nodes,
     listedAt : 0 .. MaxChanges, steady : SUBSET Nodes]

\* The peers of a role whose pods have an address.
Reachable(role) == {n \in Selected(role) : cluster[n] = "ready"}

\* What a new process starts from.
NoAddresses == [role \in Roles |-> {}]
NewTasks == [loop |-> Task("start", "Worker", 0), refresh |-> Task("idle", "ControlPlane", 0)]
NewRound == [quick |-> FALSE, failed |-> FALSE]

Init ==
    /\ cluster \in [Nodes -> {"absent", "ready"}]
    /\ addresses = NoAddresses /\ asOf = 0
    /\ task = NewTasks /\ round = NewRound
    /\ sem = "free"
    /\ sinceFailure = 0
    /\ changes = 0
    /\ faults = 0

Fault == faults < MaxFaults /\ faults' = faults + 1

----------------------------------------------------------------------------
(* One update.                                                             *)

\* A round of the loop begins: the worker peers come first.
Begin == Task("nodes", "Worker", ApiServerTimeout)

\* Start: the own node is read and the selectors are set.
Start ==
    /\ task["loop"].pc = "start"
    /\ task' = [task EXCEPT !["loop"] = Begin]
    /\ UNCHANGED <<cluster, addresses, asOf, round, sem, changes, faults, sinceFailure>>

NextRound ==
    /\ task["loop"].pc = "wait" /\ task["loop"].left = 0
    /\ task' = [task EXCEPT !["loop"] = Begin]
    /\ round' = [round EXCEPT !.failed = FALSE]
    /\ sinceFailure' = 0
    /\ UNCHANGED <<cluster, addresses, asOf, sem, changes, faults>>

\* The isolation check calls for a refresh; without selectors that is an error.
RefreshControlPlanePeersForIsolationCheck ==
    /\ task["refresh"].pc = "idle" /\ task["loop"].pc # "start"
    /\ task' = [task EXCEPT !["refresh"] = Task("acquire", "ControlPlane", ApiServerTimeout)]
    /\ UNCHANGED <<cluster, addresses, asOf, round, sem, changes, faults, sinceFailure>>

\* Mutant of EndOfRound: one update that succeeds ends the quick loop.
EndOfRoundAfterAny(failed) ==
    /\ round' = [round EXCEPT !.quick = round.failed /\ failed]
    /\ task' = [task EXCEPT !["loop"] =
          IF (round.failed \/ failed) /\ ~round.quick THEN Begin
          ELSE Task("wait", "Worker",
                    IF round.failed /\ failed THEN QuickPeerUpdateInterval ELSE PeerUpdateInterval)]

\* Both updates of a round are done.  The quick loop starts with a round of its
\* own at once and ends with the first round in which both succeed.
EndOfRound(failed) ==
    LET bad == round.failed \/ failed IN
    IF bad /\ ~round.quick
    THEN /\ round' = [quick |-> TRUE, failed |-> FALSE]
         /\ task' = [task EXCEPT !["loop"] = Begin]
    ELSE /\ round' = [quick |-> bad, failed |-> bad]
         /\ task' = [task EXCEPT !["loop"] =
               Task("wait", "Worker",
                    IF bad THEN QuickPeerUpdateInterval ELSE PeerUpdateInterval)]

\* An update returns, with an error or not; the loop goes on to the next role.
Return(t, failed) ==
    /\ sem' = IF sem = t THEN "free" ELSE sem
    /\ IF t = "refresh"
       THEN task' = [task EXCEPT ![t] = Task("idle", "ControlPlane", 0)] /\ UNCHANGED round
       ELSE IF task[t].role = "Worker"
       THEN /\ task' = [task EXCEPT ![t] = Task("acquire", "ControlPlane", 0)]
            /\ round' = [round EXCEPT !.failed = failed]
       ELSE EndOfRound(failed)
    /\ UNCHANGED <<cluster, changes, sinceFailure>>

\* Mutant of acquireSem: the semaphore stays taken when the context has expired.
acquireSemLeaks(t) ==
    /\ task[t].pc = "acquire" /\ sem = "free"
    /\ sem' = t
    /\ IF t = "refresh" /\ task[t].left = 0
       THEN task' = [task EXCEPT ![t] = Task("idle", "ControlPlane", 0)]
       ELSE task' = [task EXCEPT ![t].pc = "nodes",
                                 ![t].left = IF t = "loop" THEN ApiServerTimeout ELSE @]
    /\ UNCHANGED <<cluster, addresses, asOf, round, changes, faults, sinceFailure>>

\* Mutant of acquireSem: the updates do not wait for each other.
acquireSemAnyway(t) ==
    /\ task[t].pc = "acquire"
    /\ task' = [task EXCEPT ![t].pc = "nodes",
                            ![t].left = IF t = "loop" THEN ApiServerTimeout ELSE @]
    /\ UNCHANGED <<cluster, addresses, asOf, round, sem, changes, faults, sinceFailure>>

\* The semaphore is taken; a context that expired meanwhile gives it back.  The
\* loop's own context has no deadline, so its update gets the full timeout.
acquireSem(t) ==
    /\ task[t].pc = "acquire" /\ sem = "free"
    /\ IF t = "refresh" /\ task[t].left = 0
       THEN task' = [task EXCEPT ![t] = Task("idle", "ControlPlane", 0)] /\ UNCHANGED sem
       ELSE /\ task' = [task EXCEPT ![t].pc = "nodes",
                                    ![t].left = IF t = "loop" THEN ApiServerTimeout ELSE @]
            /\ sem' = t
    /\ UNCHANGED <<cluster, addresses, asOf, round, changes, faults, sinceFailure>>

\* The isolation check's context expires before it gets the semaphore.
acquireExpires ==
    /\ task["refresh"].pc = "acquire" /\ task["refresh"].left = 0
    /\ task' = [task EXCEPT !["refresh"] = Task("idle", "ControlPlane", 0)]
    /\ UNCHANGED <<cluster, addresses, asOf, round, sem, changes, faults, sinceFailure>>

\* Mutant of setAddresses: nothing found is stored, whoever found it.
setAddressesAlways(t, found, at) ==
    LET role == task[t].role IN
    /\ addresses' = [addresses EXCEPT ![role] = found]
    /\ asOf' = IF role = "ControlPlane" THEN at ELSE asOf

\* The isolation check never replaces addresses by none.
setAddresses(t, found, at) ==
    LET role == task[t].role IN
    IF t = "refresh" /\ found = {} /\ addresses[role] # {}
    THEN UNCHANGED <<addresses, asOf>>
    ELSE /\ addresses' = [addresses EXCEPT ![role] = found]
         /\ asOf' = IF role = "ControlPlane" THEN at ELSE asOf

\* A list call fails, or its time is up.
ListFails(t) ==
    /\ task[t].pc \in {"nodes", "pods"}
    /\ Fault
    /\ Return(t, TRUE)
    /\ UNCHANGED <<addresses, asOf>>

\* Not found: there are no other nodes, and this is an error all the same.
ListNotFound(t) ==
    /\ task[t].pc = "nodes"
    /\ Fault
    /\ setAddresses(t, {}, changes)
    /\ Return(t, TRUE)

ListNodes(t) ==
    LET listed == {n \in Selected(task[t].role) : cluster[n] # "absent"} IN
    /\ task[t].pc = "nodes"
    /\ UNCHANGED faults
    /\ IF listed = {}
       THEN setAddresses(t, {}, changes) /\ Return(t, FALSE)
       ELSE /\ task' = [task EXCEPT ![t].pc = "pods", ![t].listed = listed,
                                    ![t].listedAt = changes,
                                    ![t].steady = Reachable(task[t].role)]
            /\ UNCHANGED <<cluster, addresses, asOf, round, sem, changes, sinceFailure>>

\* Mutant of mapNodesToPrimaryPodIPs: the first node without a pod ends the search.
mapNodesToPrimaryPodIPsStops(nodes) ==
    IF \A n \in nodes : cluster[n] = "ready" THEN nodes ELSE {}

\* The nodes whose agent pod has an address.
mapNodesToPrimaryPodIPs(nodes) == {n \in nodes : cluster[n] = "ready"}

\* A node without a usable pod is an error, but the others are stored.
ListPods(t) ==
    LET found == mapNodesToPrimaryPodIPs(task[t].listed) IN
    /\ task[t].pc = "pods"
    /\ UNCHANGED faults
    /\ setAddresses(t, found, task[t].listedAt)
    /\ Return(t, found # task[t].listed)

Update(t) ==
    \/ acquireSem(t)
    \/ ListNodes(t)
    \/ ListPods(t)
    \/ ListNotFound(t)
    \/ ListFails(t)

----------------------------------------------------------------------------
(* The cluster, the agent's process and time.                              *)

ClusterChanges ==
    /\ changes < MaxChanges /\ changes' = changes + 1
    /\ \E n \in Nodes, s \in {"absent", "noPod", "noIP", "ready"} :
          /\ s # cluster[n]
          /\ cluster' = [cluster EXCEPT ![n] = s]
          /\ task' = [t \in Tasks |-> [task[t] EXCEPT !.steady = @ \ {n}]]
    /\ UNCHANGED <<addresses, asOf, round, sem, faults, sinceFailure>>

\* The agent's process ends (also when Start fails) and a new one takes over.
Restart ==
    /\ task["loop"].pc # "start"
    /\ Fault
    /\ addresses' = NoAddresses /\ asOf' = 0
    /\ task' = NewTasks /\ round' = NewRound
    /\ sem' = "free"
    /\ sinceFailure' = 0
    /\ UNCHANGED <<cluster, changes>>

Waiting(t) == task[t].pc \in {"wait", "acquire", "nodes", "pods"}

\* Nothing whose time is up may be kept waiting.
Tick ==
    /\ task["loop"].pc # "start"
    /\ \A t \in Tasks : Waiting(t) /\ task[t].left = 0 => t = "loop" /\ task[t].pc = "acquire"
    /\ task' = [t \in Tasks |->
          IF task[t].left > 0 THEN [task[t] EXCEPT !.left = @ - 1] ELSE task[t]]
    /\ sinceFailure' = IF task["loop"].pc = "wait" /\ round.failed THEN sinceFailure + 1 ELSE 0
    /\ UNCHANGED <<cluster, addresses, asOf, round, sem, changes, faults>>

Next ==
    \/ Start \/ NextRound
    \/ RefreshControlPlanePeersForIsolationCheck \/ acquireExpires
    \/ \E t \in Tasks : Update(t)
    \/ ClusterChanges
    \/ Restart
    \/ Tick

Spec == Init /\ [][Next]_vars

\* Goroutines run on, list calls return within their timeout, and a Go channel
\* serves those who wait for it in order.
Fairness ==
    /\ WF_vars(Start \/ NextRound \/ acquireExpires)
    /\ WF_vars(Tick)
    /\ SF_vars(acquireSem("loop"))
    /\ \A t \in Tasks : WF_vars(ListNodes(t) \/ ListPods(t))

FairSpec == Spec /\ Fairness

----------------------------------------------------------------------------

\* Types; the semaphore is held by an update of control plane peers that is
\* listing, and by nobody else (updateControlPlanePeersWithSetter).
TypeOK ==
    /\ cluster \in [Nodes -> {"absent", "noPod", "noIP", "ready"}]
    /\ addresses \in [Roles -> SUBSET Nodes]
    /\ \A role \in Roles : addresses[role] \subseteq Selected(role)
    /\ asOf \in 0 .. changes
    /\ task \in [Tasks -> TaskType]
    /\ round \in [quick : BOOLEAN, failed : BOOLEAN]
    /\ sem \in Tasks \cup {"free"}
    /\ changes \in 0 .. MaxChanges
    /\ faults \in 0 .. MaxFaults
    /\ sinceFailure \in Nat
    /\ \A t \in Tasks : sem = t <=> task[t].role = "ControlPlane" /\ task[t].pc \in {"nodes", "pods"}

\* Of two overlapping updates the later one stays: the cached control plane
\* addresses never go back to an older state of the cluster, although the loop
\* and the isolation check both read and store them (controlPlaneRefreshSem).
CacheNeverGoesBack ==
    [][asOf' >= asOf \/ task'["loop"].pc = "start"]_vars

\* The isolation check never makes a node forget its last peers: only the loop,
\* whose read is authoritative, or a new process does
\* (RefreshControlPlanePeersForIsolationCheck).
RefreshKeepsPeers ==
    [][addresses["ControlPlane"] # {} /\ addresses'["ControlPlane"] = {}
         => task'["loop"] # task["loop"]]_vars

\* An update that changes the cache leaves in it every peer that was up throughout,
\* whatever happened to the other nodes between its two list calls
\* (mapNodesToPrimaryPodIPs). Of one that fails or changes nothing this says nothing.
SteadyPeersAreCached ==
    [][\A t \in Tasks :
          task[t].pc = "pods" /\ task'[t].pc # "pods" /\ addresses' # addresses
             /\ task'["loop"].pc # "start"
          => task[t].steady \subseteq addresses'[task[t].role]]_vars

\* Once a round has failed, in any of its updates, the next one follows after the
\* quick interval at the latest (the nested loops of Start).
FailureIsRetriedQuickly == sinceFailure <= QuickPeerUpdateInterval

\* The addresses of both roles are up to date.
UpToDate == \A role \in Roles : addresses[role] = Reachable(role)

\* When the cluster stays as it is and calls no longer fail, the agent gets to
\* know exactly the reachable peers and keeps knowing them, however often the
\* isolation check interferes (Start, updatePeers).
CachesConverge == <>[]UpToDate
=============================================================================
