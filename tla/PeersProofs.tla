---------------------------- MODULE PeersProofs ----------------------------
(***************************************************************************)
(* Theorems about Peers, for any nodes, intervals and number of changes,   *)
(* failures and restarts: the semaphore keeps the updates of the control   *)
(* plane peers in order, the isolation check never forgets the last peers, *)
(* a peer that stays up is known, and a failed round is retried quickly.   *)
(***************************************************************************)
EXTENDS Peers, TLAPS

\* The isolation check updates control plane peers only, the loop waits for the
\* semaphore only when it does.
Role(t, k) ==
    /\ t = "refresh" => k.role = "ControlPlane" /\ k.pc \in {"idle", "acquire", "nodes", "pods"}
    /\ t = "loop" => /\ k.pc \in {"start", "wait", "acquire", "nodes", "pods"}
                     /\ k.pc = "acquire" => k.role = "ControlPlane"

RoleInv == \A t \in Tasks : Role(t, task[t])

\* An update that is listing control plane peers has the semaphore.
Holds(k) == k.role = "ControlPlane" /\ k.pc \in {"nodes", "pods"}

\* Between the two list calls of an update: what it has listed are peers of its role,
\* read no later than now, the steady ones among them still have their address, and
\* control plane addresses in the cache are no newer than the nodes it has read.
Listed(k) ==
    k.pc = "pods" =>
        /\ k.listed \subseteq Selected(k.role)
        /\ k.listedAt <= changes
        /\ k.steady \subseteq mapNodesToPrimaryPodIPs(k.listed)
        /\ k.role = "ControlPlane" => asOf <= k.listedAt

ListedInv == \A t \in Tasks : Listed(task[t])

\* After a failed round, the time that has passed and the time to wait make up at most
\* the quick interval; nothing is counted otherwise.
AfterFailure == task["loop"].pc = "wait" /\ round.failed

RetryInv ==
    /\ AfterFailure => sinceFailure + task["loop"].left <= QuickPeerUpdateInterval
    /\ ~AfterFailure => sinceFailure = 0

PInv == TypeOK /\ RoleInv /\ ListedInv /\ RetryInv

\* What the action properties say of a step.
Forward == asOf' >= asOf \/ task'["loop"].pc = "start"

KeepsPeers ==
    addresses["ControlPlane"] # {} /\ addresses'["ControlPlane"] = {} => task'["loop"] # task["loop"]

CachesSteady ==
    \A t \in Tasks :
        task[t].pc = "pods" /\ task'[t].pc # "pods" /\ addresses' # addresses
           /\ task'["loop"].pc # "start"
        => task[t].steady \subseteq addresses'[task[t].role]

StepProps == Forward /\ KeepsPeers /\ CachesSteady

----------------------------------------------------------------------------
\* A new task, and where its fields come from.
LEMMA TaskFacts ==
    ASSUME NEW pc \in {"start", "idle", "wait", "acquire", "nodes", "pods"}, NEW role \in Roles,
           NEW left \in 0 .. PeerUpdateInterval + QuickPeerUpdateInterval + ApiServerTimeout
    PROVE  LET k == Task(pc, role, left)
           IN  k \in TaskType /\ k.pc = pc /\ k.role = role /\ k.left = left
BY IntervalsAssumption DEF Task, TaskType

\* The times that tasks are given are in range.
LEMMA Intervals ==
    /\ {0, PeerUpdateInterval, QuickPeerUpdateInterval, ApiServerTimeout}
         \subseteq 0 .. PeerUpdateInterval + QuickPeerUpdateInterval + ApiServerTimeout
    /\ QuickPeerUpdateInterval \in Nat /\ MaxChanges \in Nat /\ MaxFaults \in Nat
BY IntervalsAssumption

\* The invariant, at the start and in every step.
LEMMA InitHolds == ASSUME Init PROVE PInv
<1> USE DEF Init
<1>1. /\ Task("start", "Worker", 0) \in TaskType /\ Task("start", "Worker", 0).pc = "start"
      /\ Task("start", "Worker", 0).role = "Worker"
  BY TaskFacts, Intervals DEF Roles
<1>2. /\ Task("idle", "ControlPlane", 0) \in TaskType /\ Task("idle", "ControlPlane", 0).pc = "idle"
      /\ Task("idle", "ControlPlane", 0).role = "ControlPlane"
  BY TaskFacts, Intervals DEF Roles
<1>3. /\ task \in [Tasks -> TaskType]
      /\ task["loop"] = Task("start", "Worker", 0) /\ task["refresh"] = Task("idle", "ControlPlane", 0)
  BY <1>1, <1>2 DEF NewTasks, Tasks
<1>4. TypeOK
  <2>1. /\ addresses \in [Roles -> SUBSET Nodes]
        /\ \A role \in Roles : addresses[role] \subseteq Selected(role)
    BY DEF NoAddresses
  <2>2. \A t \in Tasks : sem = t <=> task[t].role = "ControlPlane" /\ task[t].pc \in {"nodes", "pods"}
    BY <1>1, <1>2, <1>3 DEF Tasks
  <2>3. /\ cluster \in [Nodes -> {"absent", "noPod", "noIP", "ready"}]
        /\ round \in [quick : BOOLEAN, failed : BOOLEAN] /\ sem = "free"
    BY DEF NewRound
  <2>4. asOf \in 0 .. changes /\ changes \in 0 .. MaxChanges /\ faults \in 0 .. MaxFaults /\ sinceFailure = 0
    BY Intervals
  <2> QED BY <1>3, <2>1, <2>2, <2>3, <2>4 DEF TypeOK
<1>5. RoleInv /\ ListedInv
  BY <1>1, <1>2, <1>3 DEF RoleInv, Role, ListedInv, Listed, Tasks
<1>6. RetryInv
  BY <1>1, <1>3 DEF RetryInv, AfterFailure
<1> QED BY <1>4, <1>5, <1>6 DEF PInv

\* A step of one task keeps the invariant when the task's new state is as it should be,
\* the semaphore goes with it, and control plane addresses change only under it.
LEMMA TaskStep ==
    ASSUME PInv, NEW t \in Tasks, NEW k \in TaskType,
           task' = [task EXCEPT ![t] = k],
           Role(t, k), Listed(k)',
           sem' \in Tasks \cup {"free"}, sem' = t <=> Holds(k),
           \A u \in Tasks \ {t} : sem' = u <=> sem = u,
           addresses' \in [Roles -> SUBSET Nodes],
           \A role \in Roles : addresses'[role] \subseteq Selected(role),
           asOf' \in 0 .. changes, asOf' = asOf \/ sem = t,
           round' \in [quick : BOOLEAN, failed : BOOLEAN], faults' \in 0 .. MaxFaults,
           sinceFailure' \in Nat,
           t = "refresh" => UNCHANGED <<round, sinceFailure>>, t = "loop" => RetryInv',
           UNCHANGED <<cluster, changes>>
    PROVE  PInv'
<1>1. /\ task \in [Tasks -> TaskType] /\ task' \in [Tasks -> TaskType] /\ task'[t] = k
      /\ \A u \in Tasks \ {t} : task'[u] = task[u]
  BY DEF PInv, TypeOK
<1>2. \A u \in Tasks : sem' = u <=> Holds(task'[u])
  BY <1>1 DEF PInv, TypeOK, Holds
<1>3. TypeOK'
  <2>1. (\A u \in Tasks : sem = u <=> task[u].role = "ControlPlane" /\ task[u].pc \in {"nodes", "pods"})'
    BY <1>2 DEF Holds
  <2>2. (asOf \in 0 .. changes)' /\ (changes \in 0 .. MaxChanges)'
    BY DEF PInv, TypeOK
  <2>3. (cluster \in [Nodes -> {"absent", "noPod", "noIP", "ready"}])'
    BY DEF PInv, TypeOK
  <2> QED BY <1>1, <2>1, <2>2, <2>3 DEF TypeOK
<1>4. RoleInv'
  BY <1>1 DEF PInv, RoleInv
<1>5. ListedInv'
  <2> SUFFICES ASSUME NEW u \in Tasks \ {t} PROVE Listed(task[u])'
    BY <1>1 DEF ListedInv
  <2>1. Listed(task[u]) /\ task'[u] = task[u]
    BY <1>1 DEF PInv, ListedInv
  <2>2. CASE asOf' = asOf
    BY <2>1, <2>2 DEF Listed, mapNodesToPrimaryPodIPs
  <2>3. CASE sem = t
    <3>1. ~Holds(task[u])
      BY <2>3 DEF PInv, TypeOK, Holds
    <3> QED BY <2>1, <3>1 DEF Listed, mapNodesToPrimaryPodIPs, Holds
  <2> QED BY <2>2, <2>3
<1>6. RetryInv'
  <2>1. CASE t = "refresh"
    <3>1. task'["loop"] = task["loop"]
      BY <2>1, <1>1 DEF Tasks
    <3> QED BY <2>1, <3>1 DEF PInv, RetryInv, AfterFailure
  <2> QED BY <2>1 DEF Tasks
<1> QED BY <1>3, <1>4, <1>5, <1>6 DEF PInv

\* Storing addresses: those of the update's role, no older ones, under the semaphore.
LEMMA StoreFacts ==
    ASSUME PInv, NEW t \in Tasks, task[t].pc \in {"nodes", "pods"},
           NEW found, found \subseteq Selected(task[t].role),
           NEW at \in 0 .. changes, task[t].role = "ControlPlane" => asOf <= at,
           setAddresses(t, found, at)
    PROVE  /\ addresses' \in [Roles -> SUBSET Nodes]
           /\ \A role \in Roles : addresses'[role] \subseteq Selected(role)
           /\ asOf' \in 0 .. changes /\ asOf <= asOf'
           /\ asOf' = asOf \/ sem = t
           /\ addresses' # addresses => addresses'[task[t].role] = found
           /\ addresses["ControlPlane"] # {} /\ addresses'["ControlPlane"] = {} => t = "loop"
<1>1. /\ addresses \in [Roles -> SUBSET Nodes] /\ task[t].role \in Roles
      /\ \A role \in Roles : addresses[role] \subseteq Selected(role)
      /\ asOf \in 0 .. changes /\ changes \in 0 .. MaxChanges
      /\ sem = t <=> task[t].role = "ControlPlane"
  BY DEF PInv, TypeOK, TaskType
<1>2. Selected(task[t].role) \in SUBSET Nodes
  BY DEF Selected, Nodes
<1>3. CASE UNCHANGED <<addresses, asOf>> /\ found = {} /\ addresses[task[t].role] # {}
  BY <1>1, <1>3, Intervals
<1>4. CASE /\ addresses' = [addresses EXCEPT ![task[t].role] = found]
           /\ asOf' = IF task[t].role = "ControlPlane" THEN at ELSE asOf
           /\ ~(t = "refresh" /\ found = {} /\ addresses[task[t].role] # {})
  <2>1. /\ addresses' \in [Roles -> SUBSET Nodes] /\ addresses'[task[t].role] = found
        /\ \A role \in Roles \ {task[t].role} : addresses'[role] = addresses[role]
    BY <1>1, <1>2, <1>4
  <2>2. asOf' \in 0 .. changes /\ asOf <= asOf' /\ (asOf' = asOf \/ sem = t)
    BY <1>1, <1>4, Intervals
  <2>3. addresses["ControlPlane"] # {} /\ addresses'["ControlPlane"] = {} => t = "loop"
    BY <1>1, <1>4, <2>1 DEF Roles, Tasks
  <2> QED BY <1>1, <2>1, <2>2, <2>3
<1> QED BY <1>3, <1>4 DEF setAddresses

\* A returning update gives the semaphore back and is not listing control plane peers
\* any more; the loop goes on to the other role or the next round, or waits, and after
\* a failed round no longer than the quick interval.
LEMMA ReturnFacts ==
    ASSUME PInv, NEW t \in Tasks, task[t].pc \in {"nodes", "pods"},
           NEW failed \in BOOLEAN, Return(t, failed)
    PROVE  /\ \E k \in TaskType : /\ task' = [task EXCEPT ![t] = k] /\ k # task[t]
                                  /\ Role(t, k) /\ k.pc # "pods" /\ k.pc # "start" /\ ~Holds(k)
                                  /\ t = "loop" /\ k.pc = "wait" /\ round'.failed
                                        => k.left = QuickPeerUpdateInterval
           /\ sem' = IF sem = t THEN "free" ELSE sem
           /\ round' \in [quick : BOOLEAN, failed : BOOLEAN]
           /\ t = "refresh" => UNCHANGED round
           /\ UNCHANGED <<cluster, changes, sinceFailure>>
<1>1. /\ task[t].role \in Roles /\ round \in [quick : BOOLEAN, failed : BOOLEAN]
      /\ t = "refresh" => task[t].role = "ControlPlane"
  BY DEF PInv, TypeOK, TaskType, RoleInv, Role
<1>2. sem' = (IF sem = t THEN "free" ELSE sem) /\ UNCHANGED <<cluster, changes, sinceFailure>>
  BY DEF Return
<1>3. CASE t = "refresh"
  <2>1. PICK k \in TaskType : k = Task("idle", "ControlPlane", 0)
    BY TaskFacts, Intervals DEF Roles
  <2>2. k.pc = "idle" /\ k.role = "ControlPlane"
    BY <2>1, TaskFacts, Intervals DEF Roles
  <2>3. task' = [task EXCEPT ![t] = k] /\ UNCHANGED round
    BY <1>3, <2>1 DEF Return
  <2> QED BY <1>1, <1>2, <1>3, <2>2, <2>3 DEF Role, Holds
<1>4. CASE t = "loop" /\ task[t].role = "Worker"
  <2>1. PICK k \in TaskType : k = Task("acquire", "ControlPlane", 0)
    BY TaskFacts, Intervals DEF Roles
  <2>2. k.pc = "acquire" /\ k.role = "ControlPlane"
    BY <2>1, TaskFacts, Intervals DEF Roles
  <2>3. task' = [task EXCEPT ![t] = k] /\ round' = [round EXCEPT !.failed = failed]
    BY <1>4, <2>1 DEF Return
  <2>4. round' \in [quick : BOOLEAN, failed : BOOLEAN]
    BY <1>1, <2>3
  <2> QED BY <1>2, <1>4, <2>2, <2>3, <2>4 DEF Role, Holds
<1>5. CASE t = "loop" /\ task[t].role = "ControlPlane"
  <2>1. EndOfRound(failed)
    BY <1>5 DEF Return
  <2> DEFINE bad == round.failed \/ failed
  <2>2. bad \in BOOLEAN
    OBVIOUS
  <2>3. CASE bad /\ ~round.quick
    <3>1. PICK k \in TaskType : k = Begin
      BY TaskFacts, Intervals DEF Roles, Begin
    <3>2. k.pc = "nodes" /\ k.role = "Worker"
      BY <3>1, TaskFacts, Intervals DEF Roles, Begin
    <3>3. task' = [task EXCEPT ![t] = k] /\ round' = [quick |-> TRUE, failed |-> FALSE]
      BY <1>5, <2>1, <2>3, <3>1 DEF EndOfRound
    <3> QED BY <1>2, <1>5, <3>2, <3>3 DEF Role, Holds
  <2>4. CASE ~(bad /\ ~round.quick)
    <3> DEFINE left == IF bad THEN QuickPeerUpdateInterval ELSE PeerUpdateInterval
    <3>1. left \in 0 .. PeerUpdateInterval + QuickPeerUpdateInterval + ApiServerTimeout
      BY Intervals
    <3>2. /\ task' = [task EXCEPT !["loop"] = Task("wait", "Worker", left)]
          /\ round' = [quick |-> bad, failed |-> bad]
      BY <2>1, <2>4 DEF EndOfRound
    <3>3. round'.failed => left = QuickPeerUpdateInterval
      BY <3>2
    <3>4. round' \in [quick : BOOLEAN, failed : BOOLEAN]
      BY <3>2, <2>2
    <3> HIDE DEF left, bad
    <3>5. PICK k \in TaskType : k = Task("wait", "Worker", left)
      BY <3>1, TaskFacts DEF Roles
    <3>6. k.pc = "wait" /\ k.role = "Worker" /\ k.left = left
      BY <3>1, <3>5, TaskFacts DEF Roles
    <3> QED BY <1>2, <1>5, <3>2, <3>3, <3>4, <3>5, <3>6 DEF Role, Holds
  <2> QED BY <2>3, <2>4
<1> QED BY <1>1, <1>3, <1>4, <1>5 DEF Tasks, Roles

\* An update that returns, whatever it has stored, keeps the invariant.
LEMMA ReturnStep ==
    ASSUME PInv, NEW t \in Tasks, task[t].pc \in {"nodes", "pods"},
           NEW failed \in BOOLEAN, Return(t, failed),
           addresses' \in [Roles -> SUBSET Nodes],
           \A role \in Roles : addresses'[role] \subseteq Selected(role),
           asOf' \in 0 .. changes, asOf' = asOf \/ sem = t, faults' \in 0 .. MaxFaults
    PROVE  PInv'
<1>1. PICK k \in TaskType : /\ task' = [task EXCEPT ![t] = k] /\ k # task[t]
                            /\ Role(t, k) /\ k.pc # "pods" /\ k.pc # "start" /\ ~Holds(k)
                            /\ t = "loop" /\ k.pc = "wait" /\ round'.failed
                                  => k.left = QuickPeerUpdateInterval
  BY ReturnFacts
<1>2. /\ sem' = IF sem = t THEN "free" ELSE sem
      /\ round' \in [quick : BOOLEAN, failed : BOOLEAN]
      /\ t = "refresh" => UNCHANGED round
      /\ UNCHANGED <<cluster, changes, sinceFailure>>
  BY ReturnFacts
<1>3. Listed(k)'
  BY <1>1 DEF Listed
<1>4. /\ sem' \in Tasks \cup {"free"} /\ (sem' = t <=> Holds(k))
      /\ \A u \in Tasks \ {t} : sem' = u <=> sem = u
  BY <1>1, <1>2 DEF PInv, TypeOK, Tasks
<1>5. sinceFailure' \in Nat
  BY <1>2 DEF PInv, TypeOK
<1>6. ASSUME t = "loop" PROVE RetryInv'
  <2>1. sinceFailure = 0
    BY <1>6 DEF PInv, RetryInv, AfterFailure
  <2>2. task'["loop"] = k
    BY <1>1, <1>6 DEF PInv, TypeOK
  <2> QED BY <1>1, <1>2, <1>6, <2>1, <2>2, Intervals DEF RetryInv, AfterFailure
<1> QED BY <1>1, <1>2, <1>3, <1>4, <1>5, <1>6, TaskStep

\* The same for what it has stored, with the action properties.
LEMMA StoreStep ==
    ASSUME PInv, NEW t \in Tasks, task[t].pc \in {"nodes", "pods"},
           NEW found, found \subseteq Selected(task[t].role),
           NEW at \in 0 .. changes, task[t].role = "ControlPlane" => asOf <= at,
           task[t].pc = "pods" => task[t].steady \subseteq found,
           NEW failed \in BOOLEAN, setAddresses(t, found, at), Return(t, failed),
           faults' \in 0 .. MaxFaults
    PROVE  PInv' /\ StepProps
<1>1. /\ addresses' \in [Roles -> SUBSET Nodes]
      /\ \A role \in Roles : addresses'[role] \subseteq Selected(role)
      /\ asOf' \in 0 .. changes /\ asOf <= asOf'
      /\ asOf' = asOf \/ sem = t
      /\ addresses' # addresses => addresses'[task[t].role] = found
      /\ addresses["ControlPlane"] # {} /\ addresses'["ControlPlane"] = {} => t = "loop"
  BY StoreFacts
<1>2. PInv'
  BY <1>1, ReturnStep
<1>3. PICK k \in TaskType : task' = [task EXCEPT ![t] = k] /\ k # task[t]
  BY ReturnFacts
<1>4. task'[t] = k /\ \A u \in Tasks \ {t} : task'[u] = task[u]
  BY <1>3 DEF PInv, TypeOK
<1>5. Forward
  BY <1>1 DEF Forward, PInv, TypeOK
<1>6. KeepsPeers
  BY <1>1, <1>3, <1>4 DEF KeepsPeers
<1>7. CachesSteady
  BY <1>1, <1>4 DEF CachesSteady
<1> QED BY <1>2, <1>5, <1>6, <1>7 DEF StepProps

\* A step that stores nothing has the action properties.
LEMMA NothingStored ==
    ASSUME PInv, UNCHANGED <<addresses, asOf>>
    PROVE  StepProps
<1>1. asOf \in Int
  BY Intervals DEF PInv, TypeOK
<1> QED BY <1>1 DEF StepProps, Forward, KeepsPeers, CachesSteady

\* The bound on faults is kept.
LEMMA FaultCounted == ASSUME PInv, Fault PROVE faults' \in 0 .. MaxFaults
BY Intervals DEF PInv, TypeOK, Fault

\* The nodes with a pod are stored as of the time the nodes were read: the semaphore has
\* kept newer addresses out since.
LEMMA ListPodsStep == ASSUME PInv, NEW t \in Tasks, ListPods(t) PROVE PInv' /\ StepProps
<1> DEFINE found == mapNodesToPrimaryPodIPs(task[t].listed)
<1>1. /\ task[t].pc = "pods" /\ UNCHANGED faults
      /\ setAddresses(t, found, task[t].listedAt) /\ Return(t, found # task[t].listed)
  BY DEF ListPods
<1>2. /\ task[t].listed \subseteq Selected(task[t].role)
      /\ task[t].listedAt <= changes
      /\ task[t].steady \subseteq found
      /\ task[t].role = "ControlPlane" => asOf <= task[t].listedAt
  BY <1>1 DEF PInv, ListedInv, Listed
<1>3. found \subseteq Selected(task[t].role)
  BY <1>2 DEF mapNodesToPrimaryPodIPs
<1>4. task[t].listedAt \in 0 .. changes /\ faults' \in 0 .. MaxFaults
  BY <1>1, <1>2, Intervals DEF PInv, TypeOK, TaskType
<1>5. (found # task[t].listed) \in BOOLEAN
  OBVIOUS
<1> HIDE DEF found
<1> QED BY <1>1, <1>2, <1>3, <1>4, <1>5, StoreStep

LEMMA ListNotFoundStep == ASSUME PInv, NEW t \in Tasks, ListNotFound(t) PROVE PInv' /\ StepProps
<1>1. /\ task[t].pc = "nodes" /\ setAddresses(t, {}, changes) /\ Return(t, TRUE)
      /\ {} \subseteq Selected(task[t].role)
  BY DEF ListNotFound
<1>2. changes \in 0 .. changes /\ asOf <= changes /\ faults' \in 0 .. MaxFaults
  BY FaultCounted, Intervals DEF PInv, TypeOK, ListNotFound
<1> QED BY <1>1, <1>2, StoreStep

LEMMA ListNodesStep == ASSUME PInv, NEW t \in Tasks, ListNodes(t) PROVE PInv' /\ StepProps
<1> DEFINE listed == {n \in Selected(task[t].role) : cluster[n] # "absent"}
<1>1. task[t].pc = "nodes" /\ UNCHANGED faults /\ faults \in 0 .. MaxFaults
  BY DEF ListNodes, PInv, TypeOK
<1>2. changes \in 0 .. changes /\ changes \in 0 .. MaxChanges /\ asOf <= changes
  BY Intervals DEF PInv, TypeOK
<1>3. CASE setAddresses(t, {}, changes) /\ Return(t, FALSE)
  BY <1>1, <1>2, <1>3, StoreStep
<1>4. CASE /\ task' = [task EXCEPT ![t].pc = "pods", ![t].listed = listed, ![t].listedAt = changes,
                                   ![t].steady = Reachable(task[t].role)]
           /\ UNCHANGED <<cluster, addresses, asOf, round, sem, changes, sinceFailure>>
  <2>1. /\ listed \in SUBSET Nodes /\ listed \subseteq Selected(task[t].role)
        /\ Reachable(task[t].role) \subseteq mapNodesToPrimaryPodIPs(listed)
        /\ Reachable(task[t].role) \in SUBSET Nodes
    BY DEF Reachable, mapNodesToPrimaryPodIPs, Selected, Nodes
  <2> HIDE DEF listed
  <2>2. PICK k : k = [task[t] EXCEPT !.pc = "pods", !.listed = listed, !.listedAt = changes,
                                     !.steady = Reachable(task[t].role)]
    OBVIOUS
  <2>3. /\ k \in TaskType /\ k.pc = "pods" /\ k.listed = listed /\ k.listedAt = changes
        /\ k.steady = Reachable(task[t].role) /\ k.role = task[t].role
    <3>1. task[t] \in TaskType
      BY DEF PInv, TypeOK
    <3> QED BY <1>2, <2>1, <2>2, <3>1 DEF TaskType
  <2>4. task' = [task EXCEPT ![t] = k]
    BY <1>4, <2>2 DEF PInv, TypeOK
  <2>5. Role(t, k)
    BY <2>3 DEF Role, PInv, RoleInv
  <2>6. Listed(k)'
    BY <1>2, <1>4, <2>1, <2>3 DEF Listed, mapNodesToPrimaryPodIPs
  <2>7. sem' = t <=> Holds(k)
    BY <1>1, <1>4, <2>3 DEF Holds, PInv, TypeOK
  <2>8. ASSUME t = "loop" PROVE RetryInv'
    <3>1. task'["loop"].pc = "pods" /\ sinceFailure = 0
      BY <1>1, <2>3, <2>4, <2>8 DEF PInv, TypeOK, RetryInv, AfterFailure
    <3> QED BY <1>4, <3>1 DEF RetryInv, AfterFailure
  <2>9. PInv'
    BY <1>1, <1>4, <2>3, <2>4, <2>5, <2>6, <2>7, <2>8, TaskStep DEF PInv, TypeOK
  <2> QED BY <1>4, <2>9, NothingStored
<1> QED BY <1>3, <1>4 DEF ListNodes

LEMMA ListFailsStep == ASSUME PInv, NEW t \in Tasks, ListFails(t) PROVE PInv' /\ StepProps
<1>1. task[t].pc \in {"nodes", "pods"} /\ Return(t, TRUE) /\ UNCHANGED <<addresses, asOf>>
  BY DEF ListFails
<1>2. PInv'
  BY <1>1, ReturnStep, FaultCounted DEF PInv, TypeOK, ListFails
<1> QED BY <1>1, <1>2, NothingStored

LEMMA AcquireStep == ASSUME PInv, NEW t \in Tasks, acquireSem(t) PROVE PInv' /\ StepProps
<1>1. /\ task[t].pc = "acquire" /\ sem = "free"
      /\ UNCHANGED <<cluster, addresses, asOf, round, changes, faults, sinceFailure>>
  BY DEF acquireSem
<1>2. task[t] \in TaskType /\ Role(t, task[t])
  BY DEF PInv, TypeOK, RoleInv
<1>3. CASE /\ t = "refresh" /\ UNCHANGED sem
           /\ task' = [task EXCEPT ![t] = Task("idle", "ControlPlane", 0)]
  <2>1. PICK k \in TaskType : k = Task("idle", "ControlPlane", 0)
    BY TaskFacts, Intervals DEF Roles
  <2>2. k.pc = "idle" /\ k.role = "ControlPlane"
    BY <2>1, TaskFacts, Intervals DEF Roles
  <2>3. Role(t, k) /\ Listed(k)' /\ ~Holds(k)
    BY <1>3, <2>2 DEF Role, Listed, Holds
  <2>4. PInv'
    BY <1>1, <1>3, <2>1, <2>3, TaskStep DEF PInv, TypeOK, Tasks
  <2> QED BY <1>1, <2>4, NothingStored
<1>4. CASE /\ sem' = t
           /\ task' = [task EXCEPT ![t].pc = "nodes",
                                   ![t].left = IF t = "loop" THEN ApiServerTimeout ELSE @]
  <2>1. PICK k : k = [task[t] EXCEPT !.pc = "nodes",
                                     !.left = IF t = "loop" THEN ApiServerTimeout ELSE @]
    OBVIOUS
  <2>2. k \in TaskType /\ k.pc = "nodes" /\ k.role = task[t].role
    BY <1>2, <2>1, Intervals DEF TaskType
  <2>3. task[t].role = "ControlPlane"
    BY <1>1, <1>2 DEF Role, Tasks
  <2>4. Role(t, k) /\ Listed(k)' /\ Holds(k)
    BY <1>2, <2>2, <2>3 DEF Role, Listed, Holds
  <2>5. task' = [task EXCEPT ![t] = k]
    BY <1>4, <2>1 DEF PInv, TypeOK
  <2>6. ASSUME t = "loop" PROVE RetryInv'
    <3>1. task'["loop"].pc = "nodes" /\ sinceFailure = 0
      BY <1>1, <2>2, <2>5, <2>6 DEF PInv, TypeOK, RetryInv, AfterFailure
    <3> QED BY <1>1, <3>1 DEF RetryInv, AfterFailure
  <2>7. \A u \in Tasks \ {t} : sem' = u <=> sem = u
    BY <1>1, <1>4 DEF Tasks
  <2>8. PInv'
    BY <1>1, <1>4, <2>2, <2>4, <2>5, <2>6, <2>7, TaskStep DEF PInv, TypeOK
  <2> QED BY <1>1, <2>8, NothingStored
<1> QED BY <1>3, <1>4 DEF acquireSem

\* A task that has no semaphore and starts anew, waits for it, or gives up.
LEMMA StartsOver ==
    ASSUME PInv, NEW t \in Tasks, ~Holds(task[t]),
           NEW k \in TaskType, task' = [task EXCEPT ![t] = k],
           Role(t, k), k.pc # "pods", ~Holds(k), t = "loop" => k.pc # "wait" /\ sinceFailure' = 0,
           round' \in [quick : BOOLEAN, failed : BOOLEAN],
           t = "refresh" => UNCHANGED <<round, sinceFailure>>,
           UNCHANGED <<cluster, addresses, asOf, sem, changes, faults>>
    PROVE  PInv' /\ StepProps
<1>1. Listed(k)'
  BY DEF Listed
<1>2. ASSUME t = "loop" PROVE RetryInv'
  <2>1. task'["loop"] = k
    BY <1>2 DEF PInv, TypeOK
  <2> QED BY <1>2, <2>1 DEF RetryInv, AfterFailure
<1>3. sem' = t <=> Holds(k)
  BY DEF PInv, TypeOK, Holds
<1>4. sinceFailure' \in Nat
  BY DEF PInv, TypeOK, Tasks
<1>5. PInv'
  BY <1>1, <1>2, <1>3, <1>4, TaskStep DEF PInv, TypeOK
<1> QED BY <1>5, NothingStored

LEMMA ClusterChangesStep == ASSUME PInv, ClusterChanges PROVE PInv' /\ StepProps
<1>1. PICK n \in Nodes, s \in {"absent", "noPod", "noIP", "ready"} :
          /\ cluster' = [cluster EXCEPT ![n] = s]
          /\ task' = [t \in Tasks |-> [task[t] EXCEPT !.steady = @ \ {n}]]
  BY DEF ClusterChanges
<1>2. /\ changes' = changes + 1 /\ changes' \in 0 .. MaxChanges
      /\ UNCHANGED <<addresses, asOf, round, sem, faults, sinceFailure>>
  BY Intervals DEF ClusterChanges, PInv, TypeOK
<1>3. ASSUME NEW t \in Tasks
      PROVE  /\ task'[t] \in TaskType /\ task'[t].steady = task[t].steady \ {n}
             /\ task'[t].pc = task[t].pc /\ task'[t].role = task[t].role
             /\ task'[t].left = task[t].left
             /\ task'[t].listed = task[t].listed /\ task'[t].listedAt = task[t].listedAt
             /\ task[t].listedAt \in Nat
  <2>1. task[t] \in TaskType /\ task'[t] = [task[t] EXCEPT !.steady = @ \ {n}]
    BY <1>1 DEF PInv, TypeOK
  <2> QED BY <2>1 DEF TaskType
<1>4. TypeOK'
  <2>1. task' \in [Tasks -> TaskType]
    BY <1>1, <1>3
  <2>2. cluster' \in [Nodes -> {"absent", "noPod", "noIP", "ready"}]
    BY <1>1 DEF PInv, TypeOK
  <2>3. asOf' \in 0 .. changes'
    BY <1>2, Intervals DEF PInv, TypeOK
  <2>4. (\A t \in Tasks : sem = t <=> task[t].role = "ControlPlane" /\ task[t].pc \in {"nodes", "pods"})'
    BY <1>2, <1>3 DEF PInv, TypeOK
  <2> QED BY <1>2, <2>1, <2>2, <2>3, <2>4 DEF PInv, TypeOK
<1>5. RoleInv'
  BY <1>3 DEF PInv, RoleInv, Role
<1>6. ListedInv'
  <2> SUFFICES ASSUME NEW t \in Tasks, task[t].pc = "pods" PROVE Listed(task[t])'
    BY <1>3 DEF ListedInv, Listed
  <2>1. Listed(task[t])
    BY DEF PInv, ListedInv
  <2>2. task[t].listedAt <= changes'
    BY <1>2, <1>3, <2>1, Intervals DEF Listed, PInv, TypeOK
  <2>3. task'[t].steady \subseteq {m \in task'[t].listed : cluster'[m] = "ready"}
    <3>1. task[t].steady \subseteq {m \in task[t].listed : cluster[m] = "ready"}
      BY <2>1 DEF Listed, mapNodesToPrimaryPodIPs
    <3>2. \A m \in task[t].steady \ {n} : cluster'[m] = cluster[m]
      <4>1. task[t].steady \subseteq Nodes
        BY DEF PInv, TypeOK, TaskType
      <4> QED BY <1>1, <4>1 DEF PInv, TypeOK
    <3> QED BY <1>3, <3>1, <3>2
  <2> QED BY <1>2, <1>3, <2>1, <2>2, <2>3 DEF Listed, mapNodesToPrimaryPodIPs
<1>7. RetryInv'
  BY <1>2, <1>3 DEF PInv, RetryInv, AfterFailure, Tasks
<1> QED BY <1>2, <1>4, <1>5, <1>6, <1>7, NothingStored DEF PInv

LEMMA RestartStep == ASSUME PInv, Restart PROVE PInv' /\ StepProps
<1>1. /\ addresses' = NoAddresses /\ asOf' = 0 /\ task' = NewTasks /\ round' = NewRound
      /\ sem' = "free" /\ sinceFailure' = 0 /\ UNCHANGED <<cluster, changes>>
      /\ task["loop"].pc # "start" /\ faults' \in 0 .. MaxFaults
  BY FaultCounted DEF Restart
<1>2. /\ Task("start", "Worker", 0) \in TaskType /\ Task("start", "Worker", 0).pc = "start"
      /\ Task("start", "Worker", 0).role = "Worker"
  BY TaskFacts, Intervals DEF Roles
<1>3. /\ Task("idle", "ControlPlane", 0) \in TaskType /\ Task("idle", "ControlPlane", 0).pc = "idle"
      /\ Task("idle", "ControlPlane", 0).role = "ControlPlane"
  BY TaskFacts, Intervals DEF Roles
<1>4. /\ task' \in [Tasks -> TaskType]
      /\ task'["loop"] = Task("start", "Worker", 0) /\ task'["refresh"] = Task("idle", "ControlPlane", 0)
  BY <1>1, <1>2, <1>3 DEF NewTasks, Tasks
<1>5. TypeOK'
  <2>1. /\ addresses' \in [Roles -> SUBSET Nodes]
        /\ \A role \in Roles : addresses'[role] \subseteq Selected(role)
    BY <1>1 DEF NoAddresses
  <2>2. (\A t \in Tasks : sem = t <=> task[t].role = "ControlPlane" /\ task[t].pc \in {"nodes", "pods"})'
    BY <1>1, <1>2, <1>3, <1>4 DEF Tasks
  <2>3. round' \in [quick : BOOLEAN, failed : BOOLEAN]
    BY <1>1 DEF NewRound
  <2>4. asOf' \in 0 .. changes'
    BY <1>1, Intervals DEF PInv, TypeOK
  <2> QED BY <1>1, <1>4, <2>1, <2>2, <2>3, <2>4 DEF PInv, TypeOK
<1>6. RoleInv' /\ ListedInv'
  BY <1>2, <1>3, <1>4 DEF RoleInv, Role, ListedInv, Listed, Tasks
<1>7. RetryInv'
  BY <1>1, <1>2, <1>4 DEF RetryInv, AfterFailure
<1>8. StepProps
  BY <1>1, <1>2, <1>4 DEF StepProps, Forward, KeepsPeers, CachesSteady
<1> QED BY <1>5, <1>6, <1>7, <1>8 DEF PInv

LEMMA TickStep == ASSUME PInv, Tick PROVE PInv' /\ StepProps
<1>1. /\ UNCHANGED <<cluster, addresses, asOf, round, sem, changes, faults>>
      /\ task' = [t \in Tasks |-> IF task[t].left > 0 THEN [task[t] EXCEPT !.left = @ - 1] ELSE task[t]]
      /\ sinceFailure' = IF AfterFailure THEN sinceFailure + 1 ELSE 0
      /\ task["loop"].pc = "wait" => task["loop"].left # 0
  BY DEF Tick, AfterFailure, Waiting, Tasks
<1>2. ASSUME NEW t \in Tasks
      PROVE  /\ task'[t] \in TaskType /\ task'[t].steady = task[t].steady
             /\ task'[t].pc = task[t].pc /\ task'[t].role = task[t].role
             /\ task[t].left \in Nat
             /\ task'[t].left = IF task[t].left > 0 THEN task[t].left - 1 ELSE 0
             /\ task'[t].listed = task[t].listed /\ task'[t].listedAt = task[t].listedAt
  <2>1. task[t] \in TaskType
    BY DEF PInv, TypeOK
  <2>2. task[t].left \in Nat
    BY <2>1, Intervals DEF TaskType
  <2>3. CASE task[t].left > 0
    <3>1. task'[t] = [task[t] EXCEPT !.left = @ - 1]
      BY <1>1, <2>3
    <3> QED BY <2>1, <2>2, <2>3, <3>1, Intervals DEF TaskType
  <2>4. CASE ~(task[t].left > 0)
    <3>1. task'[t] = task[t]
      BY <1>1, <2>4
    <3> QED BY <2>1, <2>2, <2>4, <3>1
  <2> QED BY <2>3, <2>4
<1>3. TypeOK'
  <2>1. task' \in [Tasks -> TaskType]
    BY <1>1, <1>2
  <2>2. (\A t \in Tasks : sem = t <=> task[t].role = "ControlPlane" /\ task[t].pc \in {"nodes", "pods"})'
    BY <1>1, <1>2 DEF PInv, TypeOK
  <2>3. sinceFailure' \in Nat
    BY <1>1 DEF PInv, TypeOK
  <2> QED BY <1>1, <2>1, <2>2, <2>3 DEF PInv, TypeOK
<1>4. RoleInv' /\ ListedInv'
  BY <1>1, <1>2 DEF PInv, RoleInv, Role, ListedInv, Listed, mapNodesToPrimaryPodIPs
<1>5. RetryInv'
  <2>1. AfterFailure' <=> AfterFailure
    BY <1>1, <1>2 DEF AfterFailure, Tasks
  <2>2. CASE AfterFailure
    <3>1. task["loop"].left \in Nat /\ task["loop"].left > 0 /\ task'["loop"].left = task["loop"].left - 1
      BY <1>1, <1>2, <2>2 DEF AfterFailure, Tasks
    <3> QED BY <1>1, <2>1, <2>2, <3>1, Intervals DEF PInv, TypeOK, RetryInv
  <2>3. CASE ~AfterFailure
    BY <1>1, <2>1, <2>3 DEF RetryInv
  <2> QED BY <2>2, <2>3
<1> QED BY <1>1, <1>3, <1>4, <1>5, NothingStored DEF PInv

----------------------------------------------------------------------------
\* Every step keeps the invariant and has the action properties.
LEMMA NextStep == ASSUME PInv, Next PROVE PInv' /\ StepProps
<1>a. /\ task \in [Tasks -> TaskType] /\ "loop" \in Tasks /\ "refresh" \in Tasks
      /\ round \in [quick : BOOLEAN, failed : BOOLEAN]
  BY DEF PInv, TypeOK, Tasks
<1>b. PICK begin \in TaskType : begin = Begin /\ begin.pc = "nodes" /\ begin.role = "Worker"
  BY TaskFacts, Intervals DEF Roles, Begin
<1>c. Role("loop", begin) /\ ~Holds(begin)
  BY <1>b DEF Role, Holds
<1>1. CASE Start
  <2>1. sinceFailure = 0 /\ ~Holds(task["loop"])
    BY <1>1 DEF PInv, RetryInv, AfterFailure, Start, Holds
  <2> QED BY <1>1, <1>a, <1>b, <1>c, <2>1, StartsOver DEF Start
<1>2. CASE NextRound
  <2>1. ~Holds(task["loop"]) /\ round' \in [quick : BOOLEAN, failed : BOOLEAN]
    BY <1>2, <1>a DEF NextRound, Holds
  <2> QED BY <1>2, <1>a, <1>b, <1>c, <2>1, StartsOver DEF NextRound
<1>3. CASE RefreshControlPlanePeersForIsolationCheck
  <2>1. PICK k \in TaskType : /\ k = Task("acquire", "ControlPlane", ApiServerTimeout)
                              /\ k.pc = "acquire" /\ k.role = "ControlPlane"
    BY TaskFacts, Intervals DEF Roles
  <2>2. ~Holds(task["refresh"]) /\ Role("refresh", k) /\ ~Holds(k)
    BY <1>3, <2>1 DEF RefreshControlPlanePeersForIsolationCheck, Holds, Role
  <2> QED BY <1>3, <1>a, <2>1, <2>2, StartsOver DEF RefreshControlPlanePeersForIsolationCheck
<1>4. CASE acquireExpires
  <2>1. PICK k \in TaskType : /\ k = Task("idle", "ControlPlane", 0)
                              /\ k.pc = "idle" /\ k.role = "ControlPlane"
    BY TaskFacts, Intervals DEF Roles
  <2>2. ~Holds(task["refresh"]) /\ Role("refresh", k) /\ ~Holds(k)
    BY <1>4, <2>1 DEF acquireExpires, Holds, Role
  <2> QED BY <1>4, <1>a, <2>1, <2>2, StartsOver DEF acquireExpires
<1>5. ASSUME NEW t \in Tasks, Update(t) PROVE PInv' /\ StepProps
  BY <1>5, AcquireStep, ListNodesStep, ListPodsStep, ListNotFoundStep, ListFailsStep DEF Update
<1> QED BY <1>1, <1>2, <1>3, <1>4, <1>5, ClusterChangesStep, RestartStep, TickStep DEF Next

LEMMA StutterHolds == ASSUME PInv, UNCHANGED vars PROVE PInv'
<1> USE DEF vars
<1>1. TypeOK'
  BY DEF PInv, TypeOK
<1>2. RoleInv' /\ ListedInv'
  BY DEF PInv, RoleInv, Role, ListedInv, Listed, mapNodesToPrimaryPodIPs
<1>3. RetryInv'
  BY DEF PInv, RetryInv, AfterFailure
<1> QED BY <1>1, <1>2, <1>3 DEF PInv

LEMMA Inductive == Spec => []PInv
<1>1. PInv /\ [Next]_vars => PInv'
  BY NextStep, StutterHolds
<1> QED BY <1>1, InitHolds, PTL DEF Spec

\* The semaphore is held by an update of control plane peers that is listing and by
\* nobody else, and the caches hold peers of their role.
THEOREM PeersTyped == Spec => []TypeOK
<1>1. PInv => TypeOK
  BY DEF PInv
<1> QED BY <1>1, Inductive, PTL

\* After a failed round the next one follows within the quick interval.
THEOREM RetriedQuickly == Spec => []FailureIsRetriedQuickly
<1>1. PInv => FailureIsRetriedQuickly
  <2> SUFFICES ASSUME PInv PROVE FailureIsRetriedQuickly
    OBVIOUS
  <2>1. task["loop"].left \in Nat /\ sinceFailure \in Nat
    BY Intervals DEF PInv, TypeOK, Tasks, TaskType
  <2> QED BY <2>1, Intervals DEF PInv, RetryInv, FailureIsRetriedQuickly
<1> QED BY <1>1, Inductive, PTL

\* The cached control plane addresses never go back to an older state of the cluster.
THEOREM NeverGoesBack == Spec => CacheNeverGoesBack
<1>1. PInv /\ [Next]_vars => [Forward]_vars
  BY NextStep DEF StepProps
<1> QED BY <1>1, Inductive, PTL DEF Spec, CacheNeverGoesBack, Forward

\* The isolation check never makes a node forget its last peers.
THEOREM PeersKept == Spec => RefreshKeepsPeers
<1>1. PInv /\ [Next]_vars => [KeepsPeers]_vars
  BY NextStep DEF StepProps
<1> QED BY <1>1, Inductive, PTL DEF Spec, RefreshKeepsPeers, KeepsPeers

\* A peer that is up throughout an update is known after it.
THEOREM SteadyCached == Spec => SteadyPeersAreCached
<1>1. PInv /\ [Next]_vars => [CachesSteady]_vars
  BY NextStep DEF StepProps
<1> QED BY <1>1, Inductive, PTL DEF Spec, SteadyPeersAreCached, CachesSteady
=============================================================================
