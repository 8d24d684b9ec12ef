# A TLA+ model of self-node-remediation

Self Node Remediation recovers Kubernetes nodes that became unhealthy. A
`SelfNodeRemediation` resource (SNR) names a node. An agent on that node reboots
it; the manager, which cannot see whether the reboot happened, waits until it must
have happened and then takes the workload off the node. Safety rests on timing, on
the order of a few API calls, and on what an isolated node concludes from silence.
That is what these modules are about.

## The system

| Part | State | Operations | Interacts with |
|---|---|---|---|
| Manager, SNR reconciler (`internal/controller`) | SNR phase, deadline, conditions, finalizer; taints of the node | one reconcile: a chain of API calls ending in a deferred status update | NodeHealthCheck, API server and informers, configuration, workload |
| Agent, SNR reconciler | a cached SNR, the uptime of the host | reboot if the phase is Pre-Reboot-Completed and the node did not reboot since the SNR's creation | API server and informer, rebooter |
| Configuration reconciler | DaemonSet, NetworkPolicy, certificates, calculator's configuration | sync certificates, render, remove the old DaemonSet, apply, enable SNRs; create the default configuration at the start | webhook, API server, garbage collector, agents, SNR reconciler |
| API check (`internal/apicheck`) | error count, time of the last answer | poll readyz, ask batches of worker peers, contact control plane peers, reboot | peers, control plane manager, rebooter |
| Control plane manager | what was reachable at start | verdict, diagnostics, correction of the NetworkPolicy | API check, kubelet, endpoint |
| Peers (`internal/peers`) | two caches of addresses, a semaphore | periodic update, quick retry, refresh for the isolation check | API server, API check |
| Peer health server | none | answer whether an SNR exists for a node, by name, annotation or Machine | API server |
| Watchdog and rebooter | status, last feeding, the device | start, feed, stop, disarm; reboot with fallbacks | both callers of `Reboot`, shutdown of the pod |
| Calculator | configuration | the time after which a node counts as rebooted | everything the agent does with a timeout |

What is hard to get right: informer caches that lag behind the writes of the same
process; status written from old copies; a crash between two calls; deletions and
re-creations in the middle of a reconcile; goroutines that race for the watchdog;
answers collected while the cluster changes; and an upper bound computed by one
process for what another one does. `PROJECT.json` lists these hazards at their lines.

## Modules

| Module | Models |
|---|---|
| `Lifecycle` | what the manager promises of the SNRs of a node, seen from the API server |
| `Remediation` | the manager's reconcile of one SNR and its environment |
| `RemediationProofs`, `CleanupProofs` | the proofs about it |
| `Fencing` | the node of an SNR and its agent, against the deadline of the manager |
| `FencingProofs` | the proofs about it |
| `Matching` | which node an SNR is for |
| `Watchdog` | one agent's watchdog, device, rebooter and annotation updater |
| `ApiCheck` | the check of one agent, on a worker or a control plane node |
| `Peers` | the address caches of one agent |
| `ConfigReconciler` | the configuration reconciler and initializer, DaemonSet, NetworkPolicy, certificates |
| `Placement` | tolerations and node selectors: what the webhook admits, what is rendered, where agents run |
| `Batches`, `Calculator` | the computations, as operators |
| `Detection` | a timed model of an agent that is cut off, against `Calculator` |
| `WatchdogProofs`, `ApiCheckProofs`, `PeersProofs`, `ConfigProofs`, `DetectionProofs` | the proofs about these |
| `MC*` | instances for TLC |

Definitions carry the names of the Go functions they model where there is one;
`PROJECT.json` maps each definition to its lines. Definitions whose comment says
"Mutant of" are wrong on purpose: each is a plausible bug that the property named in
`PROJECT.json` must detect.

### How the parts are put together

`Lifecycle` is the interface between manager and agent. `Remediation` implements it:
`KeepsPromise` is its specification under the mapping `Abstracted`, checked by
`RemediationSafety` and proved in `RemediationProofs`. `Fencing` extends it with the node,
so that what it shows of agents holds for every manager that keeps the promise, and
`Detection` shows where the calculated duration covers the time that `Fencing` assumes
for an agent that is cut off. `ApiCheck` uses `Batches` and `Matching`,
`ConfigReconciler` uses `Placement`, and `Detection` uses `Calculator`.

### Lifecycle and Remediation

The SNR is one record at the server (`snr`), a cached copy (`snrCache`) and the
events in between (`snrWatch`); likewise for the node. A lag of 0 means that the
cache is always current. A reconcile takes its copies in one step and then makes one
API call per step; `mgr.pc` is the next call. Every path ends in
`updateSnrStatus`, the deferred update, which the server refuses if the copy is not
current. Merge patches (the taints) are not refused. The taint list is replaced as a
whole, as the code's merge patch does.

`Restart` ends a reconcile anywhere. The workload is reduced to whether the pods run,
terminate or are gone and whether a volume is attached.

`Automatic` is resolved in every reconcile from the flag `taintGA`, which a process
sets when it starts; a start that cannot read the version of Kubernetes leaves it
false. `Disruptions` containing `"version"` allows for that.

Abstractions: cached reads do not fail; the existence of the configuration is read
without lag; texts of errors from the API are not told apart; unknown phases and
strategies, which validation excludes, do not occur.

### Fencing

The clock is common to all; `Second` ticks make a second, to which the deadline, the
creation time and the uptime are rounded down (`Stored`). The manager's steps are those
of `Lifecycle`; the deadline is computed up to `StoreDelay` before it is stored. The
agent's informer may be late, its process may restart, which empties its cache and
feeds a triggered watchdog again, and the connection to the API server may come and go;
each of these is an interruption. `Verdict` sums up the API check of a node that is cut
off: a peer that knows of the SNR, or silence, makes it reboot, whatever the phase.
Undisturbed, the agent learns of an SNR within `DetectTime` and the node is down within
`WatchdogTimeout` after the trigger; time does not pass beyond that (`Overdue`).
`RebootDurationCovers` is what the calculator is there for. `Verdict` assumes that the
peers that answer reach the API server: if most of them do not, the node stays up, and
so it does in the code. A Node object that is deleted and registered again is a case
of its own (`registered`). `deletion` and `linked`, the moment since which the node is
connected, are history variables.

### Watchdog

Each critical section of the mutex is one step, and so is each read of the status
outside it: `Reboot` reads it twice and calls `Stop` later. `startFeeding` is a step
after `init`, so that `Stop` can find no cancel function (`StopPanics`). The device
counts on across the processes. Time is in ticks: in `WatchdogSafety` a tick is 10
seconds and the constants are the code's defaults. The feeding period is shorter than
the timeout, as the code makes it a third of it. The annotation updater reads the status
and the timeout in one step (`toPublish`) and publishes them in a later one, as the calls
of the API server lie between the two.

### ApiCheck

A check is one step per batch and one per contact with the control plane peers, and one
(`PeersExist`) for the look at their cache after a contact that failed, which the refresh
loop may have changed meanwhile. Whether the refresh for the isolation check succeeds does
not depend on what readyz said. A link may change on its own, or all of them at once, as
when the node is cut off or comes back. What
a peer answers depends on its link and on the SNRs that exist at that moment: the
peer goes through all of them with `IsSNRMatching`, and may be unable to read Machines
(`noMachines`). The three setups differ in role and in who created the SNR. The
order of the worker peers is fixed, which loses nothing as every link is free. A node
that has both roles counts as two peers, one in each cache of addresses. The
error count stops at the threshold, from which on nothing depends on it.

### Peers

Each update is a task with one step per list call; the loop and the isolation check
each have one. `asOf` and `sinceFailure` are history variables. Nodes may have both
roles, and the webhook admits update intervals that are shorter than the quick one, so
that nothing is assumed of either.

### ConfigReconciler

One step per call. A specification is a number; `Requested` says which tolerations and
requirements it asks for and how long its agents take to detect a failure. Users apply
what the webhook admits (`Admitted`); the API server may still refuse the DaemonSet
made of it (`Accepted`). At every start the manager creates the default configuration
if there is none. Agents run on the nodes that are `Eligible`. The endpoint's URL stays the same, its address
does not. Events of the DaemonSet reach the cache in one step however many there are.
Enabling the SNRs is the last call of a reconcile, which may fail like the others; what
it does to an SNR, and its race with the reconcile that disables it, is in `Remediation`.

### Detection

The clock counts seconds from the moment from which on the agent gets no answer. A call
of the API server takes nothing or its whole timeout, since only extremes matter for an
upper bound. A peer that cannot be dialled costs the dial timeout at most, one that accepts
the connection and says nothing that of the request as well (`Unanswered`); a control plane
node may succeed in refreshing the addresses of its peers and contact them once more. The
agent may be anywhere in its cycle at the beginning, in the middle of asking included.
The scenarios are configurations that the webhook admits, on a node with at least one
known worker peer. How many of the workers are known (`peers`) is independent of how many
there are (`workers`): those without a running agent are not. The manager calculates with
the workers, the agent asks the peers. `SlowestTime` adds up what the agent may take in the
worst case.

## Runs

Deadlock is checked for `Peers`, whose loop must never stop. The other models may
stop: a node has rebooted, a remediation is over, or a bound is used up.

| Run | Question | Result |
|---|---|---|
| RemediationSafety | does the manager implement `Lifecycle` for two SNRs (ResourceDeletion) in succession, with lagging caches of the SNR and of the node; are deadlines there and cleanups after them | yes |
| RemediationTaints | does a taint outlive its SNR, do the conditions tell the truth, with current caches, a fault and a disruption | no; yes |
| RemediationLiveness | does every remediation and every deletion end, with a failed call or a restart; is an SNR that timed out released without its node | yes |
| WatchdogSafety | spurious reboots, feeding after the trigger, annotations; does a requested reboot happen | holds |
| ApiCheck | is every reboot of a worker or control plane node justified by what its peers said; is each asked once, do they speak of this node; do nodes that must reboot do so | yes |
| PeersSafety | overlapping updates, retries, convergence | holds |
| ConfigRollOut | roll-out to the right nodes and clean-up in the end; are excluded nodes left alone; is everything owned that may be left over | holds |
| DetectionCovered | how long does detection take; does the deadline cover it, in the situations of `Covered` and where enough is configured; are there as many batches as `GetNrOfBatches` says | as long as `SlowestTime`; yes; yes |
| Fencing | is a node that counts as rebooted really down or rebooted; is it rebooted once, and only while it should be | yes |
| RemediationVersion | does a taint outlive its SNR when a restart cannot read the version of Kubernetes | **it does** |
| FencingEvent | does an agent without a Node object in its cache reboot | **it does not** |
| DetectionManyWorkers | does the deadline cover detection with 43 workers | **it does not** |

The last three are disagreements between the code and its own comments, tests or docs;
`PROJECT.json` quotes them and says what happens.

### Observations

More statements of the repository that the models refute. Those with a name are
definitions in their module, or properties of a run above, that TLC shows to be violated
with the constants given here.

* `CompletedMeansDetached` (`Remediation`, `Strategies = {"ResourceDeletion"}`).
  "`isResourceDeletionCompleted` instead polls and waits for both pods and
  VolumeAttachments to clear before advancing" (`ARCHITECTURE.md:54`). It is called for
  the out-of-service strategy only; with ResourceDeletion fencing is complete as soon as
  the pods are deleted.
* A short outage is not always tolerated. "MaxTimeForNoPeersResponse check prevents the
  node from being considered unhealthy in case of short network outages"
  (`apicheck/check.go:265`). Peers are asked only once the API server fails often enough,
  so the time since their last answer also covers the time in which nobody was asked.
  `silence` in `ApiCheck` grows in the same way, and `WorkerRebootIsJustified` counts it
  as the code does.
* `EventuallyEnabled` (`Remediation`, `FairSpec`, `Disruptions = {"config"}`,
  `MaxDisruptions = 2`). "since config was created snr is now enabled, so we can
  remove the disabled status condition" (`selfnoderemediationconfig_controller.go:489`).
  A reconcile that found no configuration may write the Disabled condition
  (`selfnoderemediation_controller.go:209`) after the
  configuration's reconcile has visited the SNR; nothing removes it then.
* `TaintsAreOwned` with `NodeLag = 1`, and with `SnrLag = 1`. "`recoverNode` removes
  NoSchedule taint and finalizer when deleting" (`docs/failure_modes.md:77`). With a
  cached node that does not show the taint yet the removal is skipped, the finalizer
  goes and the taint stays.
* `RemediationCompletes` with `NodeLag = 1` and the OutOfServiceTaint strategy. The
  taints are patched as a whole list: set from a cached node that does not show the
  NoSchedule taint yet, the out-of-service taint replaces it. Pods are then scheduled
  on the node as soon as the taint is gone, and completion is written only after a
  second reconcile, because the response to the patch of lastError overwrites the
  phase set before: that one sets the taint and evicts them again, and so on.
  This is why `RemediationLiveness` has no lag. In the same way a patch from an
  outdated node brings back an out-of-service taint that was removed; hence the
  exception in `CleanupAfterDeadline`.
* `NoTaintOnceCompleted` with `SnrLag = 1`. A reconcile from an outdated SNR sets the
  out-of-service taint again after completion; its status update conflicts, and the
  next reconcile removes only the other taint. This and `TaintsAreOwned` are why
  `RemediationTaints` has no lag.
* `StopTriggers` (`Watchdog`). "Stop stops feeding the watchdog, which results in a
  reboot of the node" (`internal/watchdog/interface.go:18`). The shutdown of the agent
  may disarm the watchdog between the rebooter's look at the status and `Stop`.
* `SoftwareRebootIsAllowed` (`Watchdog`). "... will use watchdog only, without a
  fallback to software reboot" (`selfnoderemediationconfig_types.go:121-123`). With a
  watchdog that malfunctions, is disarmed or stuck the rebooter falls back regardless.
* `RebootDurationCoversAgents` (`ConfigReconciler`). The time "must include the time
  for an unhealthy node without api-server access to reach the conclusion that it's
  unhealthy" (`calculator.go:31`). A new configuration counts at once for the manager
  and only after the roll-out for the agents.
* `UpToDateDaemonSetIsKept` (`ConfigReconciler`). A DaemonSet of the running version
  is deleted as an old one when the cache still shows its predecessor
  (`selfnoderemediationconfig_controller.go:455-470`).
* `EgressExceptionSurvives` (`ConfigReconciler`). "caching the last successful
  resolution so a transient resolve failure doesn't wipe out a working NetworkPolicy
  egress exception" (`selfnoderemediationconfig_controller.go:68-69`). The cache does
  not survive a restart of the manager.
* `DetectedInTime` with the scenarios `ShortRequests` (the agents extend a request
  timeout that is too short, the manager does not), `PatientAgents` (silence is judged
  at the end of a check, so another whole check may follow) and `ControlPlaneNode`
  (contacts with control plane peers are not counted) and `MissingAgents` (55 workers make
  12 batches for the manager, but an agent that knows 42 of them asks in 14). `Covered` in
  `Detection` states what these and `DetectionManyWorkers` leave.

What the models show of the design, without a statement to the contrary:

* An agent does not look at the annotation `remediation.medik8s.io/nhc-timed-out`, which
  "stops remediation when NHC gives up" (`docs/overview.md:34`): in phase
  Pre-Reboot-Completed it reboots the node nevertheless. `Fencing` has it so.
* An SNR that is deleted in phase Pre-Reboot-Completed is left alone by the agent, while
  the manager waits for the deadline and cleans up. `AssumedMeansRebooted` excludes
  deleted SNRs for this reason; and it excludes nodes whose Node object was deleted in
  the meantime, since their agent may be unable to reboot them (`FencingEvent`).
* The real calculator allows for one undisturbed detection and 30 seconds. An agent that
  restarts, or whose connection changes, in the meantime may need more; `Fencing` states
  the budget it takes (`RebootDurationCovers`).
* A default configuration that is deleted ("Self Node Remediation is now disabled", says
  the webhook) is created again by the next start of the manager.
* Tolerations without a key and with operator Equal pass the webhook and are refused in
  the DaemonSet. The manager then calculates with a configuration that no agent gets, and
  after an upgrade the old DaemonSet is gone. `ConfigIsRolledOut` is stated for
  configurations that are `Accepted`.

### Bounds

* `RebootDuration` and `OutOfServiceTimeout` of one tick: only the order of the
  clock and the deadlines matters. `MaxFaults` of 1 puts a
  failure or a restart at every call, `MaxDisruptions` of 1 a change between any two
  steps; `MaxCRs` of 2, in `RemediationSafety`, is what it
  takes to confuse two resources of the same name; `SnrLag` of 2 lets a cache show
  the previous resource while the current one has been written, `NodeLag` of 1 a
  node without a taint just set or with one just removed. To leave room for both lags
  that run has one strategy; what it checks is proved for all of them, and for any lag.
* `RemediationLiveness` has no outage of the configuration. Its properties also hold
  with `Disruptions = {"config", "node"}`, `MaxDisruptions = 2` and `MaxFaults = 0`,
  where a configuration that was deleted comes back.
* `Fencing`: a second of two ticks, so that an event falls on or between two seconds;
  delays of one tick and one interruption, with the shortest reboot duration that covers
  them. `MaxTime` lies beyond the last moment at which a deadline set after the first
  tick passes. One SNR: the theorems cover any number of them, and of interruptions.
* Two callers of `Reboot`, as in the code, and two stops of the pod, so that the
  device crosses two processes.
* `MinPeersForRemediation` is 0 for one worker and 1 for the other setups, so that an
  empty cache of peers leads to either verdict. One SNR in the cluster is for another
  node, and is named after a Machine that has the name of the node that asks.
* Four worker peers make two batches, so that answers of different moments add up. A
  change of all links at once takes one of the `MaxChanges`, so that control plane nodes
  are isolated, and reached again, within the bound.
  `MaxChanges` is large enough for the premise of each liveness property to be reached
  from the initial state; the mutants, which violate them, confirm it.
* Two control plane nodes and two changes let one node appear while another
  disappears between the two list calls of an update.
* Five specifications, of which one is the default, one selects other nodes and is
  quicker, one is refused by the API server and two by the webhook; three nodes, one of
  them excluded; two versions of the operator, one failed call, two outside events, which
  suffice for a deletion and a re-creation, an upgrade or a restart around either.
* `DetectionCovered` takes the default configuration and slow, quick and lenient
  ones, with up to 84 workers, of which all others, half or one are known as peers: one
  batch, batches of three, and larger ones; and control plane nodes with a configured time
  that suffices.

### Fairness

Weak fairness of the program's own goroutines, of its informers, and of time. Beyond
that:

* `Remediation`: Kubernetes evicts tainted pods and detaches volumes eventually. The
  manager's requeues become due. Nobody has to create, delete or time out an SNR.
* `Watchdog`: a caller with a reason to reboot calls again, as the reconciler is
  requeued after `TimeToAssumeRebootHasStarted` and the check loops. A stopped
  pod is started again, as it belongs to a DaemonSet.
* `Peers`: strong fairness for the loop's turn at the semaphore, since a Go channel
  serves those that wait in order.
* `ConfigReconciler`: the garbage collector and the DaemonSet controller, and the
  initializer of a manager that keeps running. Nothing is assumed of agents and users.

`RemediationCompletes` and `DeletionCompletes` assume `NodeStays`: a node that is
registered anew has lost the NoSchedule taint, so that pods are scheduled on it and
evicted again and again; and the manager, which does not watch nodes, is not told when
the exclusion of a node ends. `StoppedRemediationIsReleased` does without.

## Proofs

All safety properties of the passing runs are proved, for every value of the constants
(and the types of `Fencing`, which no run checks, as a lemma).
The assumptions are named in the modules that declare the constants: `BoundsAssumption`
of `Remediation` (durations and bounds are natural numbers, the reboot takes some time,
`NoSNR` is neither an SNR nor the image of one), `FencingAssumption` and
`RebootDurationCovers` of `Fencing`, `TimesAssumption` of `Watchdog`, `CheckAssumption`
of `ApiCheck` (the threshold is not 0; every peer has an address of its own; the SNRs called `otherSNRs` are meant for other
nodes, and what the node takes for its Machine is its own), `ScenariosAdmitted` of
`Detection`, `IntervalsAssumption` of `Peers` and `ConfigAssumption` of
`ConfigReconciler`. Three theorems have a hypothesis beyond that, which is stated in
them and explained below.

| Module | Theorems |
|---|---|
| `RemediationProofs` | `TypeCorrect`, `DeadlineNeverMissing`, `SuccessIsTrue`, `PromiseKept` |
| `CleanupProofs` | `CleanupIsEntitled`; `TaintsHaveOwners`, `CompletedUntainted` if nothing is stale |
| `FencingProofs` | `AssumedRebooted`, `RebootedOnce`, `CalledFor` |
| `WatchdogProofs` | `WatchdogTyped`, `NeverUnasked`, `AnnotationsTrue`, `TriggeredForGood` |
| `PeersProofs` | `PeersTyped`, `RetriedQuickly`, `NeverGoesBack`, `PeersKept`, `SteadyCached` |
| `ApiCheckProofs` | `ApiCheckTyped`, `WorkerReboots`, `ControlPlaneReboots`, `OwnSNROnly`, `NobodyTwice` |
| `ConfigProofs` | `ConfigTyped`, `ExcludedStaysFree`, `NothingUnowned` |
| `DetectionProofs` | `DetectionTyped`, `BatchesCounted`, `RebootsBy`; `DetectedEarly` where it holds |

### The manager

`DeadlineNeverMissing` says that the SNR at the server, in the cache and in the hands of
a reconcile has a deadline and the finalizer unless it is in its first phase:
`wasNodeRebooted` and `isResourceDeletionExpired` dereference the deadline without a
check. Neither this nor `TypeOK` is inductive. `IInv` adds:

* `InformerInv`: all versions on their way to the cache are safe as well, and the
  last of them is the one at the server. The cache may be arbitrarily late.
* `ManagerInv`: a copy that the server would accept has the server's finalizer. This
  is what makes the status update safe: a finalizer that was removed meanwhile makes
  the copy outdated.
* `Prepared`: only a copy with the finalizer comes to the step that sets a deadline,
  and only one beyond its first phase to the steps that clean up.

There is one lemma for the steps that read, for the calls on the node, for the calls
on the SNR and for everybody else; each has a case per action.

`PromiseKept` says that `Remediation` implements `Lifecycle`. `PInv` relates the copy of
a reconcile to the server: a copy that would be accepted is of the same object
(`SameObject`) and either in the same phase or, once only the status is left to be
stored, one phase ahead in a way that is allowed at this time (`Ahead`); each call is
made on behalf of a copy that calls for it (`CalledFor`); and there is no deadline in
the first phase. From this every write is a step of `Lifecycle` (`StatusStep`,
`CallStep`, `OtherStep`), and everything else a stutter.

`SuccessIsTrue` holds for any lag too: the conditions are written from copies, but a
copy that is accepted shows the phase of the server, or the next one with the conditions
that belong to it.

`CleanupIsEntitled` says that the workload is touched only past the deadline of an SNR
that still exists, although the copy may be outdated and node patches are not checked.
`CInv` says that every version in phase Reboot-Completed that is cached or on its way,
and the copy of a reconcile that cleans up, is `Backed`: the server has the same SNR
with the same deadline, and it is not released. The release is the delicate step: it is
accepted only from a current copy, while no event is on its way, so that the cache holds
the released version itself and no older one that still asks for a cleanup.

`TaintsHaveOwners` and `CompletedUntainted` assume `NeverStale`: caches without lag, and
no start of the manager that cannot read the version of Kubernetes. Both are false
without (see the observations and `RemediationVersion`). Faults, restarts, stops and
deletions at any point, nodes that vanish and any number of SNRs remain. `TInv` says which
taints fit the state of the SNR (`Owned`), and that the reconcile's copy of the node
shows all the taints there are, with those that fit the next call (`Carries`): as taints
are patched as a whole list, the copy is what the node will have.

### The node

`AssumedRebooted` says that a node which counts as rebooted is down or was booted since
the SNR's creation, up to the rounding of two timestamps. The inductive invariant `FInv`
counts time: an awaited node has been triggered, or its agent will learn of the SNR, or
knows it, early enough (`TriggeredInv`, `AwaitedInv`) for the attempts that the remaining
interruptions may still cost (`Budget`), each a detection and a watchdog timeout.
`RoundedUptime` bounds the error of `didIRebootMyself`, and with it shows that an agent
never takes an awaited node for rebooted, nor a rebooted one for awaited
(`RebootedOnce`).

`CalledFor` is about the agent that still takes a deleted SNR for an active one. `StaleInv`
says that it has been behind since the deletion or since its node was last cut off,
whichever is later: no failed attempt and no later write of the SNR gives it more time.

`NeverUnasked` rests on `TendedInv`: while nobody asked for a reboot and nothing failed, a
device that runs has a goroutine that feeds it, and its age and the time to the next
feeding make up at most a feeding period. `StartInv` says how the watchdog's fields
depend on how far `Start` has come, and `ReadingIsTrue` that what the updater has read is
still so when it is published, which is what the annotations are about.

`ApiCheckProofs` follows the votes of a check (`VotesInv`): a worker that goes on asking
has heard no `Healthy`, a control plane node that goes on checking has had no answer from
another one, and a verdict that blames the peers is backed by a vote. The batches are any
slices of any sequence of peers. `OwnSNROnly` needs `IsSNRMatching` to be false for the
SNRs of all other nodes, in whatever order a peer goes through them. `NobodyTwice` says
that the answers of different batches are of different peers, which is why they may be
added up and compared with half of the peers; `AskInv` adds that nobody is twice on the
list, that the list is empty unless batches are asked, and that before the first of them
only control plane peers have answered.

`PeersProofs`: `ListedInv` describes an update between its two list calls, in which the
addresses stored are no newer than the nodes listed, as only the holder of the semaphore
stores control plane addresses. `RetryInv` adds the time since a failed round to the time
that is left to wait.

### The configuration

`ExcludedStaysFree` holds for any cluster and any set of specifications: the requirement
that excludes nodes is appended to what the user asks for, never replaced by it
(`PlacedInv` carries that over to agents that were started earlier). `NothingUnowned`
says that what exists without a configuration has an owner, which is gone, so that the
garbage collector is entitled to it; `OwnedInv` is what makes it inductive, because a
reconcile may apply the objects of a configuration that is deleted already.

### The time to detect

`DetectionProofs` has three invariants. `StateInv` says where the check is and what is
left to ask, `CountInv` that the batches made and those to come are always as many as a
check needs, and `TimeInv` the same of the seconds: how late it is, with what the rest of
the check may take.

The number of batches is a recursive function. `Left` is its closed form, one batch of
three and equal shares of the others, and `CountedBatches` shows that `GetNrOfBatches`
returns it for every number of peers; `LaterBatches` that it is never more than 14. The
induction is replaced by an argument about the
smallest number of remaining peers for which they would differ: the order of the natural
numbers is well founded, and one step of the recursion, with the lemmas about division,
takes any such number to a smaller one.

`RebootsBy` bounds the detection by `SlowestTime` for every configuration that the webhook
admits, role and number of known peers. TLC reaches the bound for both roles, so that it
cannot be improved. `DetectedEarly` compares it with the calculator. It holds for scenarios
that are `Covered`, in which the calculation suffices for a worker (the peers it knows
take no more batches than the workers would), or `Configured`, in
which `safeTimeToAssumeNodeRebootedSeconds` is at least `SlowestTime`, the watchdog's
timeout and the buffer; it fails for others, as `DetectionManyWorkers` shows.

### What the proofs changed

Two properties held in their runs and turned out not to hold in general. They are now
stated as the code has it:

* `RebootIsCalledFor` did not account for an agent that is cut off and connected again
  after the deletion of the SNR: with two interruptions it reboots within `DetectTime` of
  the reconnection, not of the deletion.
* `WorkerRebootIsJustified` left out a worker without any peers. With
  `MinPeersForRemediation` of 0 it reboots, as a comment in the code says it should
  (`apicheck/check.go:204`).

### Only model-checked

* Liveness (`RemediationCompletes`, `DeletionCompletes`, `StoppedRemediationIsReleased`,
  `RequestedRebootHappens`, `CutOffNodeReboots`, `CachesConverge`, `ConfigIsRolledOut`,
  `NoLeftovers`): beyond the prover. `RebootsBy` bounds the time in which the agent of
  a node that is cut off decides, but not that it does.
* The definitions that are refuted, which are counterexamples and need no proof.

## Not modelled

* Templates of remediations, which are created at the start unless they exist and are
  read by NodeHealthCheck only.
* The webhooks of SNRs and templates, and the one name that the configuration's webhook
  admits (`validateSingleton`): validation of single requests whose outcome the models
  presuppose. That the webhook, when it denies an update of an SNR, would also deny the
  removal of the finalizer needs an SNR that was admitted under other rules.
* Filling the manifests with values, and merging of metadata with the existing object
  (`apply/merge.go`; its cases for Deployments, Services and ServiceAccounts never occur).
* Contents of certificates, gRPC and TLS, and the TLS profile of OpenShift, a change of
  which restarts the process like any other reason.
* Flags and wiring of `main`, lookups of pods and namespaces.
* Generated code.
