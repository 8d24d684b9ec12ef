---------------------------- MODULE Remediation ----------------------------
(***************************************************************************)
(* The manager's side of one remediation: the SelfNodeRemediation resource *)
(* (SNR) of one node, the node object with its taints, the workload on the *)
(* node, and the manager process that reconciles the SNR from informer     *)
(* caches which lag behind the API server.                                 *)
(*                                                                         *)
(* A reconcile is one pass through ReconcileManager: it starts by reading  *)
(* the caches, it makes one API call per step (mgr.pc names the call it is *)
(* about to make) and it always ends with the deferred status update.      *)
(* Other actors move between two calls, any call may fail, and the manager *)
(* may crash between two calls and start again with caches it lists anew.  *)
(***************************************************************************)
EXTENDS Integers, Sequences, FiniteSets

CONSTANTS
    RebootDuration,       \* what RebootDurationCalculator returns, in ticks
    OutOfServiceTimeout,  \* OutOfServiceTimeoutDuration, in ticks
    Strategies,           \* the strategies a new SNR may have
    Disruptions,          \* kinds of disturbance the cluster may suffer
    SnrLag, NodeLag,      \* events an informer may be behind (0: never stale)
    MaxCRs,               \* bound: SNRs created, one after the other
    MaxFaults,            \* bound: failed API calls and manager crashes
    MaxDisruptions,       \* bound: disturbances of the cluster
    NoSNR                 \* there is no SNR (Get returns NotFound)

Phases == {"Fencing-Started", "Pre-Reboot-Completed", "Reboot-Completed", "Fencing-Completed"}

\* The pair of statuses of the Processing and Succeeded conditions: absent,
\* True/Unknown, False/True, False/False.
Conditions == {"Unset", "Started", "Finished", "Stopped"}

\* status.lastError; the texts of failed API calls are not told apart.
Errors == {"", "NotRebootCapable", "NodeNotFound", "NotReadyToDelete", "ApiCall"}

Taints == {"NoSchedule", "OutOfService"}

\* A nil *metav1.Time.
NoTime == -1

\* The resource as the API server stores it. The resource version is left out:
\* a copy is up to date iff the object was not written since it was copied.
SNR == [uid : Nat, strategy : {"Automatic", "ResourceDeletion", "OutOfServiceTaint"},
        deleting : BOOLEAN, finalizer : BOOLEAN, timedOut : BOOLEAN,
        phase : Phases, timeAssumedRebooted : Nat \cup {NoTime},
        conds : Conditions, disabled : BOOLEAN, lastError : Errors]

\* What Lifecycle tells of it.
AbstractSNR == [uid : Nat, phase : Phases, timeAssumedRebooted : Nat \cup {NoTime},
                deleting : BOOLEAN, timedOut : BOOLEAN]

Node == [exists : BOOLEAN, taints : SUBSET Taints, excluded : BOOLEAN, capable : BOOLEAN]

Pods == {"running", "terminating", "deleted"}

\* The call a reconcile makes next.
Calls == {"addFinalizer", "addNoScheduleTaint", "setTimeAssumedRebooted", "DeletePods",
          "addOutOfServiceTaint", "isResourceDeletionCompleted", "removeOutOfServiceTaint",
          "removeNoScheduleTaint", "removeFinalizer", "updateSnrStatusLastError",
          "updateSnrStatus"}

\* A reconcile in progress: its copies of the SNR and the node, whether the
\* copy of the SNR is current, the error and the requeue it will return.
Manager == [pc : {"idle"} \cup Calls, snr : SNR \cup {NoSNR}, current : BOOLEAN,
            node : Node, err : Errors, requeue : BOOLEAN]

ASSUME BoundsAssumption ==
    /\ RebootDuration \in Nat \ {0}
    /\ OutOfServiceTimeout \in Nat
    /\ Strategies \subseteq {"Automatic", "ResourceDeletion", "OutOfServiceTaint"}
    /\ Disruptions \subseteq {"config", "node", "exclusion", "capability", "version"}
    /\ SnrLag \in Nat /\ NodeLag \in Nat
    /\ MaxCRs \in Nat /\ MaxFaults \in Nat /\ MaxDisruptions \in Nat
    /\ NoSNR \notin SNR \cup AbstractSNR

VARIABLES
    snr,          \* the SNR at the API server, or NoSNR
    snrCache,     \* the manager's informer cache of it
    snrWatch,     \* versions of it under way to the cache, oldest first
    queued,       \* the SNR's key is in the controller's work queue
    delayed,      \* it will be added to it later (RequeueAfter, backoff)
    node,         \* the node object at the API server
    nodeCache,    \* the manager's informer cache of it
    nodeWatch,    \* versions of it under way to the cache, oldest first
    mgr,          \* the reconcile in progress
    config,       \* a SelfNodeRemediationConfig exists
    enabling,     \* the config's reconcile has not yet enabled the SNRs
    taintGA,      \* IsOutOfServiceTaintGA in the leading manager process
    pods,         \* the workload pods bound to the node
    attached,     \* a VolumeAttachment of the node exists
    clock, faults, disruptions, created

snrVars == <<snr, snrCache, snrWatch, queued>>
nodeVars == <<node, nodeCache, nodeWatch>>
configVars == <<config, enabling, taintGA>>
workload == <<pods, attached>>
counters == <<faults, disruptions, created>>
vars == <<snrVars, delayed, nodeVars, mgr, configVars, workload, clock, counters>>

AbsentNode == [exists |-> FALSE, taints |-> {}, excluded |-> FALSE, capable |-> FALSE]

FreshNode == [exists |-> TRUE, taints |-> {}, excluded |-> FALSE, capable |-> TRUE]

Idle == [pc |-> "idle", snr |-> NoSNR, current |-> FALSE, node |-> AbsentNode,
         err |-> "", requeue |-> FALSE]

NewSNR(uid, strategy) ==
    [uid |-> uid, strategy |-> strategy, deleting |-> FALSE, finalizer |-> FALSE,
     timedOut |-> FALSE, phase |-> "Fencing-Started", timeAssumedRebooted |-> NoTime,
     conds |-> "Unset", disabled |-> FALSE, lastError |-> ""]

Init ==
    /\ snr = NoSNR /\ snrCache = NoSNR /\ snrWatch = <<>>
    /\ queued = FALSE /\ delayed = FALSE
    /\ node = FreshNode /\ nodeCache = FreshNode /\ nodeWatch = <<>>
    /\ mgr = Idle
    /\ config = TRUE /\ enabling = FALSE /\ taintGA \in BOOLEAN
    /\ pods = "running" /\ attached \in BOOLEAN
    /\ clock = 0 /\ faults = 0 /\ disruptions = 0 /\ created = 0

-----------------------------------------------------------------------------
(* The API server and the informers. *)

\* The SNR is written as s, or removed. Its watch event queues a reconcile when
\* it reaches the cache; an informer never lags more than SnrLag events.
WriteSNR(s) ==
    LET events == Append(snrWatch, s) IN
    /\ snr' = s
    /\ IF Len(snrWatch) < SnrLag
         THEN snrCache' = snrCache /\ snrWatch' = events /\ queued' = queued
         ELSE snrCache' = Head(events) /\ snrWatch' = Tail(events) /\ queued' = TRUE

WriteNode(n) ==
    LET events == Append(nodeWatch, n) IN
    /\ node' = n
    /\ IF Len(nodeWatch) < NodeLag
         THEN nodeCache' = nodeCache /\ nodeWatch' = events
         ELSE nodeCache' = Head(events) /\ nodeWatch' = Tail(events)

SyncSNR ==
    /\ snrWatch # <<>>
    /\ snrCache' = Head(snrWatch) /\ snrWatch' = Tail(snrWatch) /\ queued' = TRUE
    /\ UNCHANGED <<snr, nodeVars, mgr, configVars, workload, delayed, clock, counters>>

SyncNode ==
    /\ nodeWatch # <<>>
    /\ nodeCache' = Head(nodeWatch) /\ nodeWatch' = Tail(nodeWatch)
    /\ UNCHANGED <<snrVars, node, mgr, configVars, workload, delayed, clock, counters>>

\* A write by somebody else makes the manager's copy of the SNR outdated.
Outdate == mgr' = [mgr EXCEPT !.current = FALSE]

\* Mutant of Accepted: the update ignores the resource version.
AcceptedUnversioned == snr # NoSNR

\* Update and Status().Update are refused with a conflict unless the copy is current.
Accepted == mgr.current

Fault == faults < MaxFaults /\ faults' = faults + 1 /\ UNCHANGED <<disruptions, created>>

-----------------------------------------------------------------------------
(* ReconcileManager up to its first API call. *)

StartReconcile ==
    /\ mgr.pc = "idle" /\ queued
    /\ queued' = FALSE
    /\ UNCHANGED <<snr, snrCache, snrWatch, nodeVars, configVars, workload, delayed, clock, counters>>

\* The manager's copies after its cached reads.
Read == [pc |-> "idle", snr |-> snrCache, current |-> (snrWatch = <<>>), node |-> nodeCache,
         err |-> "", requeue |-> FALSE]

\* Mutant of SNRNotFound: the NotFound error is not told apart.
SNRNotFoundIgnored ==
    /\ StartReconcile
    /\ snrCache = NoSNR
    /\ mgr' = [Read EXCEPT !.pc = "updateSnrStatus"]

SNRNotFound ==
    /\ StartReconcile
    /\ snrCache = NoSNR
    /\ mgr' = Idle

\* No configuration: the SNR is only marked as disabled.
ConfigurationNotFound ==
    /\ StartReconcile
    /\ snrCache # NoSNR /\ ~config
    /\ mgr' = [Read EXCEPT !.snr.disabled = TRUE, !.pc = "updateSnrStatus"]

\* Mutant of StoppedByNHC: the cleanup forgets the out-of-service taint.
StoppedByNHCKeepsTaint ==
    /\ StartReconcile
    /\ snrCache # NoSNR /\ config /\ snrCache.timedOut
    /\ mgr' = IF ~snrCache.deleting
                THEN [Read EXCEPT !.snr.conds = "Stopped", !.pc = "updateSnrStatus"]
                ELSE [Read EXCEPT !.pc = IF nodeCache.exists THEN "removeNoScheduleTaint"
                                                             ELSE "removeFinalizer"]

\* Mutant of StoppedByNHC: a missing node is an error like any other.
StoppedByNHCNeedsNode ==
    /\ StartReconcile
    /\ snrCache # NoSNR /\ config /\ snrCache.timedOut
    /\ mgr' = CASE ~snrCache.deleting ->
                     [Read EXCEPT !.snr.conds = "Stopped", !.pc = "updateSnrStatus"]
                [] snrCache.deleting /\ nodeCache.exists ->
                     [Read EXCEPT !.pc = "removeOutOfServiceTaint"]
                [] OTHER -> [Read EXCEPT !.err = "NodeNotFound", !.pc = "updateSnrStatus"]

\* NHC gave up on this SNR: nothing but conditions, or cleanup once it is deleted.
StoppedByNHC ==
    /\ StartReconcile
    /\ snrCache # NoSNR /\ config /\ snrCache.timedOut
    /\ mgr' = IF ~snrCache.deleting
                THEN [Read EXCEPT !.snr.conds = "Stopped", !.pc = "updateSnrStatus"]
                ELSE [Read EXCEPT !.pc = IF nodeCache.exists THEN "removeOutOfServiceTaint"
                                                             ELSE "removeFinalizer"]

\* Mutant of Started: the conditions are reset in every phase.
StartedAlways == [Read EXCEPT !.snr.conds = "Started"]

\* The copies of a reconcile that remediates, with updateConditions(remediationStarted).
Started ==
    IF snrCache.phase = "Fencing-Completed" THEN Read
                                            ELSE [Read EXCEPT !.snr.conds = "Started"]

Remediating == StartReconcile /\ snrCache # NoSNR /\ config /\ ~snrCache.timedOut

\* A reconcile of an existing, not excluded node whose SNR is in the given phase.
InPhase(phase) ==
    Remediating /\ nodeCache.exists /\ ~nodeCache.excluded /\ snrCache.phase = phase

NodeNotFound ==
    /\ Remediating
    /\ ~nodeCache.exists
    /\ mgr' = [Started EXCEPT !.snr.conds = "Stopped", !.err = "NodeNotFound",
                              !.pc = "updateSnrStatusLastError"]

NodeExcluded ==
    /\ Remediating
    /\ nodeCache.exists /\ nodeCache.excluded
    /\ mgr' = [Started EXCEPT !.pc = "updateSnrStatus"]

prepareReboot ==
    /\ InPhase("Fencing-Started")
    /\ mgr' =
         CASE ~nodeCache.capable ->
                [Started EXCEPT !.err = "NotRebootCapable", !.pc = "updateSnrStatusLastError"]
           [] nodeCache.capable /\ snrCache.finalizer ->
                [Started EXCEPT !.pc = "addNoScheduleTaint"]
           [] nodeCache.capable /\ ~snrCache.finalizer /\ ~snrCache.deleting ->
                [Started EXCEPT !.pc = "addFinalizer"]
           [] nodeCache.capable /\ ~snrCache.finalizer /\ snrCache.deleting ->
                [Started EXCEPT !.pc = "updateSnrStatusLastError"]

\* Mutant of wasNodeRebooted: off by one.
wasNodeRebootedEarly(s) == s.timeAssumedRebooted <= clock + 1

\* The node counts as rebooted from timeAssumedRebooted on.
wasNodeRebooted(s) == s.timeAssumedRebooted <= clock

\* Mutant of waitForNodeRebooted: it does not come back for the deadline.
waitForNodeRebootedOnce ==
    /\ InPhase("Pre-Reboot-Completed")
    /\ mgr' = [Started EXCEPT !.snr.phase = IF wasNodeRebooted(snrCache) THEN "Reboot-Completed"
                                                                        ELSE @,
                              !.pc = "updateSnrStatusLastError"]

waitForNodeRebooted ==
    /\ InPhase("Pre-Reboot-Completed")
    /\ mgr' = IF wasNodeRebooted(snrCache)
                THEN [Started EXCEPT !.snr.phase = "Reboot-Completed",
                                     !.pc = "updateSnrStatusLastError"]
                ELSE [Started EXCEPT !.requeue = TRUE, !.pc = "updateSnrStatusLastError"]

\* The strategy "Automatic" is resolved anew by every reconcile.
getRuntimeStrategy(s) ==
    CASE s.strategy # "Automatic" -> s.strategy
      [] s.strategy = "Automatic" /\ taintGA -> "OutOfServiceTaint"
      [] s.strategy = "Automatic" /\ ~taintGA -> "ResourceDeletion"

handleRebootCompletedPhase ==
    /\ InPhase("Reboot-Completed")
    /\ mgr' = [Started EXCEPT !.pc = IF getRuntimeStrategy(snrCache) = "ResourceDeletion"
                                       THEN "DeletePods" ELSE "addOutOfServiceTaint"]

handleFencingCompletedPhase ==
    /\ InPhase("Fencing-Completed")
    /\ mgr' = [Started EXCEPT !.pc = IF snrCache.deleting THEN "removeNoScheduleTaint"
                                                          ELSE "updateSnrStatusLastError"]

-----------------------------------------------------------------------------
(* The API calls of a reconcile. *)

\* Where an error leads: it is recorded in lastError, except on the NHC cleanup path.
Failed(m) ==
    [m EXCEPT !.err = "ApiCall",
              !.pc = IF m.snr.timedOut THEN "updateSnrStatus" ELSE "updateSnrStatusLastError"]

Calling(call) == mgr.pc = call /\ UNCHANGED <<configVars, delayed, clock>>

CallFails ==
    /\ Fault
    /\ mgr' = Failed(mgr)
    /\ UNCHANGED <<snrVars, nodeVars, workload>>

\* client.Update: refused with a conflict unless the copy is current. The response
\* overwrites the copy, so that the conditions set in it so far are lost.
addFinalizer ==
    /\ Calling("addFinalizer")
    /\ \/ /\ Accepted
          /\ LET s == [snr EXCEPT !.finalizer = TRUE] IN
             /\ WriteSNR(s)
             /\ mgr' = [mgr EXCEPT !.snr = s, !.requeue = TRUE, !.pc = "updateSnrStatusLastError"]
          /\ UNCHANGED <<nodeVars, workload, counters>>
       \/ /\ ~Accepted
          /\ mgr' = [mgr EXCEPT !.requeue = TRUE, !.pc = "updateSnrStatusLastError",
                                !.err = IF snr = NoSNR THEN "ApiCall" ELSE ""]
          /\ UNCHANGED <<snrVars, nodeVars, workload, counters>>
       \/ CallFails

\* A merge patch of the node: it replaces the list of taints whatever the node has
\* now, and the response overwrites the manager's copy.
PatchTaints(taints, m) ==
    /\ \/ /\ node.exists
          /\ WriteNode([node EXCEPT !.taints = taints])
          /\ mgr' = [m EXCEPT !.node = [node EXCEPT !.taints = taints]]
       \/ /\ ~node.exists
          /\ mgr' = Failed(mgr)
          /\ UNCHANGED nodeVars
    /\ UNCHANGED <<snrVars, workload, counters>>

AddTaint(taint, m) ==
    \/ /\ taint \in mgr.node.taints
       /\ mgr' = m
       /\ UNCHANGED <<snrVars, nodeVars, workload, counters>>
    \/ /\ taint \notin mgr.node.taints
       /\ PatchTaints(mgr.node.taints \cup {taint}, m)
    \/ CallFails

\* Mutant of RemoveTaint: a failed patch is only logged.
RemoveTaintUnchecked(taint, m) ==
    \/ /\ taint \notin mgr.node.taints
       /\ mgr' = m
       /\ UNCHANGED <<snrVars, nodeVars, workload, counters>>
    \/ /\ taint \in mgr.node.taints
       /\ PatchTaints(mgr.node.taints \ {taint}, m)
    \/ Fault /\ mgr' = m /\ UNCHANGED <<snrVars, nodeVars, workload>>

RemoveTaint(taint, m) ==
    \/ /\ taint \notin mgr.node.taints
       /\ mgr' = m
       /\ UNCHANGED <<snrVars, nodeVars, workload, counters>>
    \/ /\ taint \in mgr.node.taints
       /\ PatchTaints(mgr.node.taints \ {taint}, m)
    \/ CallFails

addNoScheduleTaint ==
    /\ Calling("addNoScheduleTaint")
    /\ AddTaint("NoSchedule", [mgr EXCEPT !.pc = "setTimeAssumedRebooted"])

\* Mutant of PreRebootCompleted: the phase advances without a deadline.
PreRebootCompletedNoDeadline(m) ==
    [m EXCEPT !.snr.phase = "Pre-Reboot-Completed", !.pc = "updateSnrStatusLastError"]

PreRebootCompleted(m) ==
    [m EXCEPT !.snr.timeAssumedRebooted = IF @ = NoTime THEN clock + RebootDuration ELSE @,
              !.snr.phase = "Pre-Reboot-Completed", !.pc = "updateSnrStatusLastError"]

\* The deadline is computed once; with it the pre-reboot phase is complete.
setTimeAssumedRebooted ==
    /\ Calling("setTimeAssumedRebooted")
    /\ \/ /\ mgr' = PreRebootCompleted(mgr)
          /\ UNCHANGED <<snrVars, nodeVars, workload, counters>>
       \/ CallFails

FencingCompleted(m) ==
    [m EXCEPT !.snr.phase = "Fencing-Completed", !.snr.conds = "Finished",
              !.pc = "updateSnrStatusLastError"]

\* Pods are deleted namespace by namespace: a failure leaves them or not.
DeletePods ==
    /\ Calling("DeletePods")
    /\ \/ /\ mgr' = FencingCompleted(mgr)
          /\ pods' = "deleted"
          /\ UNCHANGED counters
       \/ /\ Fault
          /\ mgr' = Failed(mgr)
          /\ pods' \in {pods, "deleted"}
    /\ UNCHANGED <<snrVars, nodeVars, attached>>

addOutOfServiceTaint ==
    /\ Calling("addOutOfServiceTaint")
    /\ AddTaint("OutOfService", [mgr EXCEPT !.pc = "isResourceDeletionCompleted"])

ResourceDeletionExpired == clock >= mgr.snr.timeAssumedRebooted + OutOfServiceTimeout

\* No terminating pod and no volume attachment is left. A running pod is not waited for.
ResourceDeletionCompleted == pods # "terminating" /\ ~attached

\* The rest of useOutOfServiceTaint: resource deletion is complete, or how to wait for
\* that. A list that fails counts as not completed.
isResourceDeletionCompleted ==
    /\ Calling("isResourceDeletionCompleted")
    /\ \/ /\ ResourceDeletionCompleted
          /\ mgr' = [mgr EXCEPT !.pc = "removeOutOfServiceTaint"]
          /\ UNCHANGED counters
       \/ /\ \/ ~ResourceDeletionCompleted /\ UNCHANGED counters
             \/ Fault
          /\ mgr' =
               CASE ~ResourceDeletionExpired ->
                      [mgr EXCEPT !.requeue = TRUE, !.pc = "updateSnrStatusLastError"]
                 [] ResourceDeletionExpired /\ mgr.snr.deleting ->
                      [mgr EXCEPT !.pc = "removeOutOfServiceTaint"]
                 [] ResourceDeletionExpired /\ ~mgr.snr.deleting ->
                      [mgr EXCEPT !.err = "NotReadyToDelete", !.pc = "updateSnrStatusLastError"]
    /\ UNCHANGED <<snrVars, nodeVars, workload>>

removeOutOfServiceTaint ==
    /\ Calling("removeOutOfServiceTaint")
    /\ RemoveTaint("OutOfService", IF mgr.snr.timedOut
                                     THEN [mgr EXCEPT !.pc = "removeNoScheduleTaint"]
                                     ELSE FencingCompleted(mgr))

\* Mutant of AfterRecovery: the test for the finalizer is inverted.
AfterRecoveryInverted(m) ==
    [m EXCEPT !.pc = IF ~m.snr.finalizer THEN "removeFinalizer"
                     ELSE IF m.snr.timedOut THEN "updateSnrStatus"
                     ELSE "updateSnrStatusLastError"]

\* What recoverNode does once the NoSchedule taint is gone.
AfterRecovery(m) ==
    [m EXCEPT !.pc = IF m.snr.finalizer THEN "removeFinalizer"
                     ELSE IF m.snr.timedOut THEN "updateSnrStatus"
                     ELSE "updateSnrStatusLastError"]

removeNoScheduleTaint ==
    /\ Calling("removeNoScheduleTaint")
    /\ RemoveTaint("NoSchedule", AfterRecovery(mgr))

\* client.Update without the finalizer: the API server then removes a deleted SNR.
removeFinalizer ==
    /\ Calling("removeFinalizer")
    /\ \/ /\ Accepted
          /\ WriteSNR(NoSNR)
          /\ mgr' = [mgr EXCEPT !.current = FALSE,
                                !.pc = IF mgr.snr.timedOut THEN "updateSnrStatus"
                                                           ELSE "updateSnrStatusLastError"]
          /\ UNCHANGED <<nodeVars, workload, counters>>
       \/ /\ ~Accepted
          /\ mgr' = Failed(mgr)
          /\ UNCHANGED <<snrVars, nodeVars, workload, counters>>
       \/ CallFails

\* A status merge patch of nothing but lastError, by name and without a version
\* check. Its response overwrites the manager's copy of the SNR, status included.
updateSnrStatusLastError ==
    /\ Calling("updateSnrStatusLastError")
    /\ LET m == [mgr EXCEPT !.pc = "updateSnrStatus"] IN
       \/ /\ mgr.snr.lastError = mgr.err
          /\ mgr' = m
          /\ UNCHANGED <<snrVars, counters>>
       \/ /\ mgr.snr.lastError # mgr.err /\ snr # NoSNR
          /\ LET s == [snr EXCEPT !.lastError = mgr.err] IN
             /\ IF s = snr THEN UNCHANGED snrVars ELSE WriteSNR(s)
             /\ mgr' = [m EXCEPT !.snr = s, !.current = TRUE]
          /\ UNCHANGED counters
       \/ /\ mgr.snr.lastError # mgr.err
          /\ \/ snr = NoSNR /\ UNCHANGED counters
             \/ Fault
          /\ mgr' = [m EXCEPT !.snr.lastError = mgr.err, !.err = "ApiCall"]
          /\ UNCHANGED snrVars
    /\ UNCHANGED <<nodeVars, workload>>

\* The status that Status().Update would store.
WithStatus(s, m) ==
    [s EXCEPT !.phase = m.phase, !.timeAssumedRebooted = m.timeAssumedRebooted,
              !.conds = m.conds, !.disabled = m.disabled, !.lastError = m.lastError]

\* The deferred update that ends every reconcile. A conflict or an error requeues.
updateSnrStatus ==
    /\ mgr.pc = "updateSnrStatus"
    /\ mgr' = Idle
    /\ \/ /\ Accepted
          /\ LET s == WithStatus(snr, mgr.snr) IN IF s = snr THEN UNCHANGED snrVars ELSE WriteSNR(s)
          /\ delayed' = (delayed \/ mgr.requeue \/ mgr.err # "")
          /\ UNCHANGED counters
       \/ /\ (~Accepted /\ UNCHANGED counters) \/ Fault
          /\ delayed' = TRUE
          /\ UNCHANGED snrVars
    /\ UNCHANGED <<nodeVars, configVars, workload, clock>>

\* A delayed addition to the work queue falls due.
RequeueDue ==
    /\ delayed
    /\ delayed' = FALSE /\ queued' = TRUE
    /\ UNCHANGED <<snr, snrCache, snrWatch, nodeVars, mgr, configVars, workload, clock, counters>>

\* InitOutOfServiceTaintFlagsWithRetry at the start of a process: the flags are those
\* of the cluster's version, unless the version cannot be read for ten seconds. They
\* change when that happens, or did before, and when the cluster was upgraded.
InitOutOfServiceTaintFlags ==
    taintGA' \in IF "version" \in Disruptions THEN BOOLEAN ELSE {taintGA}

\* The manager process ends and starts again, or another replica takes the lead; the
\* informers of the new leader list everything anew.
Restart ==
    /\ Fault
    /\ mgr' = Idle
    /\ snrCache' = snr /\ snrWatch' = <<>> /\ queued' = (snr # NoSNR) /\ delayed' = FALSE
    /\ nodeCache' = node /\ nodeWatch' = <<>>
    /\ enabling' = config
    /\ InitOutOfServiceTaintFlags
    /\ UNCHANGED <<snr, node, config, workload, clock>>

\* The config controller, in the same process: it removes the Disabled condition of
\* the SNR it has in the cache, and tries again after a conflict.
setCRsEnabledStatus ==
    /\ enabling /\ config
    /\ IF snrCache = NoSNR \/ ~snrCache.disabled
         THEN enabling' = FALSE /\ UNCHANGED <<snrVars, mgr>>
         ELSE /\ snrWatch = <<>>
              /\ WriteSNR([snr EXCEPT !.disabled = FALSE])
              /\ Outdate
              /\ enabling' = FALSE
    /\ UNCHANGED <<nodeVars, config, taintGA, workload, delayed, clock, counters>>

-----------------------------------------------------------------------------
(* The rest of the cluster. *)

CreateSNR ==
    /\ snr = NoSNR /\ created < MaxCRs
    /\ \E strategy \in Strategies : WriteSNR(NewSNR(created + 1, strategy))
    /\ created' = created + 1
    /\ Outdate
    /\ UNCHANGED <<nodeVars, configVars, workload, delayed, clock, faults, disruptions>>

\* NHC deletes the SNR: the node is healthy again, or NHC gave up.
DeleteSNR ==
    /\ snr # NoSNR /\ ~snr.deleting
    /\ WriteSNR(IF snr.finalizer THEN [snr EXCEPT !.deleting = TRUE] ELSE NoSNR)
    /\ Outdate
    /\ UNCHANGED <<nodeVars, configVars, workload, delayed, clock, counters>>

\* NHC annotates the SNR with nhc-timed-out.
TimeOutSNR ==
    /\ snr # NoSNR /\ ~snr.timedOut /\ ~snr.deleting
    /\ WriteSNR([snr EXCEPT !.timedOut = TRUE])
    /\ Outdate
    /\ UNCHANGED <<nodeVars, configVars, workload, delayed, clock, counters>>

Disrupt(kind) ==
    /\ kind \in Disruptions /\ disruptions < MaxDisruptions
    /\ disruptions' = disruptions + 1
    /\ UNCHANGED <<snrVars, mgr, workload, delayed, clock, faults, created>>

\* The configuration is created, or deleted, or an object it owns (DaemonSet,
\* NetworkPolicy) is created, changed or deleted. All but a deletion of the
\* configuration itself start the config's reconcile.
ConfigChanges ==
    /\ Disrupt("config")
    /\ \/ config' = ~config /\ enabling' = ~config
       \/ config /\ config' = config /\ enabling' = TRUE
    /\ UNCHANGED <<nodeVars, taintGA>>

NodeChanges ==
    /\ \/ Disrupt("node") /\ WriteNode(IF node.exists THEN AbsentNode ELSE FreshNode)
       \/ Disrupt("exclusion") /\ node.exists /\ WriteNode([node EXCEPT !.excluded = ~@])
       \/ Disrupt("capability") /\ node.exists /\ WriteNode([node EXCEPT !.capable = ~@])
    /\ UNCHANGED configVars

WorkloadStep ==
    /\ UNCHANGED <<snrVars, nodeVars, mgr, configVars, delayed, clock, counters>>

\* The out-of-service taint makes Kubernetes evict the pods ...
EvictPods ==
    /\ "OutOfService" \in node.taints /\ pods = "running"
    /\ pods' = "terminating" /\ UNCHANGED attached
    /\ WorkloadStep

\* ... and force their deletion,
ForceDeletePods ==
    /\ "OutOfService" \in node.taints /\ pods = "terminating"
    /\ pods' = "deleted" /\ UNCHANGED attached
    /\ WorkloadStep

\* and volumes are detached when no pod uses them.
DetachVolumes ==
    /\ pods = "deleted" /\ attached
    /\ attached' = FALSE /\ UNCHANGED pods
    /\ WorkloadStep

\* A node without taints takes new pods.
SchedulePods ==
    /\ node.exists /\ node.taints = {} /\ pods = "deleted"
    /\ pods' = "running" /\ attached' \in BOOLEAN
    /\ WorkloadStep

\* The instants a reconcile compares the time with. A deadline in an outdated copy
\* is never stored.
Deadlines ==
    LET copies == {snr} \cup (IF mgr.current THEN {mgr.snr} ELSE {}) IN
    {s.timeAssumedRebooted + d : s \in copies \ {NoSNR}, d \in {0, OutOfServiceTimeout}}

\* Time passes. Only the distance to a deadline matters, so that a tick nobody
\* waits for is left out.
Tick ==
    /\ \E d \in Deadlines : clock < d
    /\ clock' = clock + 1
    /\ UNCHANGED <<snrVars, delayed, nodeVars, mgr, configVars, workload, counters>>

-----------------------------------------------------------------------------
Reconcile ==
    \/ SNRNotFound \/ ConfigurationNotFound \/ StoppedByNHC
    \/ NodeNotFound \/ NodeExcluded
    \/ prepareReboot \/ waitForNodeRebooted
    \/ handleRebootCompletedPhase \/ handleFencingCompletedPhase

Call ==
    \/ addFinalizer \/ addNoScheduleTaint \/ setTimeAssumedRebooted
    \/ DeletePods \/ addOutOfServiceTaint \/ isResourceDeletionCompleted
    \/ removeOutOfServiceTaint \/ removeNoScheduleTaint \/ removeFinalizer
    \/ updateSnrStatusLastError \/ updateSnrStatus

Cluster ==
    \/ CreateSNR \/ DeleteSNR \/ TimeOutSNR
    \/ ConfigChanges \/ NodeChanges
    \/ EvictPods \/ ForceDeletePods \/ DetachVolumes \/ SchedulePods

Next ==
    \/ Reconcile \/ Call \/ Restart \/ setCRsEnabledStatus
    \/ SyncSNR \/ SyncNode \/ RequeueDue \/ Tick
    \/ Cluster

Spec == Init /\ [][Next]_vars

\* The manager and its informers keep running, time passes, and Kubernetes evicts
\* and detaches. Nobody has to create, delete or time out an SNR.
Fairness ==
    /\ WF_vars(Reconcile) /\ WF_vars(Call) /\ WF_vars(setCRsEnabledStatus)
    /\ WF_vars(SyncSNR) /\ WF_vars(SyncNode) /\ WF_vars(RequeueDue) /\ WF_vars(Tick)
    /\ WF_vars(EvictPods) /\ WF_vars(ForceDeletePods) /\ WF_vars(DetachVolumes)

FairSpec == Spec /\ Fairness

-----------------------------------------------------------------------------
(* Properties. *)

\* Every variable has its type, and a reconcile that goes on after its Get holds a
\* copy of an SNR (ReconcileManager returns on NotFound before the deferred update).
TypeOK ==
    /\ snr \in SNR \cup {NoSNR}
    /\ snrCache \in SNR \cup {NoSNR}
    /\ snrWatch \in Seq(SNR \cup {NoSNR})
    /\ queued \in BOOLEAN /\ delayed \in BOOLEAN
    /\ node \in Node /\ nodeCache \in Node /\ nodeWatch \in Seq(Node)
    /\ mgr \in Manager
    /\ mgr.pc # "idle" => mgr.snr # NoSNR
    /\ config \in BOOLEAN /\ enabling \in BOOLEAN /\ taintGA \in BOOLEAN
    /\ pods \in Pods /\ attached \in BOOLEAN
    /\ clock \in Nat /\ faults \in Nat /\ disruptions \in Nat /\ created \in Nat

\* An SNR beyond its first phase has its reboot deadline and the finalizer that
\* keeps it until the node is recovered, at the server and in every copy a handler
\* may read: wasNodeRebooted and isResourceDeletionExpired dereference the deadline
\* without a nil check.
FencedWithDeadline ==
    \A s \in {snr, snrCache, mgr.snr} \ {NoSNR} :
        s.phase # "Fencing-Started" => s.timeAssumedRebooted # NoTime /\ s.finalizer

\* An SNR as Lifecycle sees it.
Abstracted(s) ==
    IF s = NoSNR THEN NoSNR
    ELSE [uid |-> s.uid, phase |-> s.phase, timeAssumedRebooted |-> s.timeAssumedRebooted,
          deleting |-> s.deleting, timedOut |-> s.timedOut]

Abstract == INSTANCE Lifecycle WITH snr <- Abstracted(snr)

\* The manager keeps the promise of Lifecycle: although status is written from copies
\* that may be outdated and patched without a version check, an SNR goes through its
\* phases one by one and never back, its deadline is set once and in time, it counts
\* as rebooted only from its deadline on, nothing moves it after NHC has given up on
\* it, and it disappears only when it is fenced, given up or was never taken up.
KeepsPromise == Abstract!Promise

\* The manager deletes pods, or sets the taint that evicts them, only while an SNR
\* exists whose deadline has passed: never before the node counts as rebooted and
\* never on behalf of an SNR that is gone. A taint that the manager's copy of the node
\* already has is not set: if the copy is outdated, any patch of the taints brings it
\* back.
CleanupAfterDeadline ==
    [][\/ pods = "running" /\ pods' = "deleted"
       \/ "OutOfService" \in node'.taints \ (node.taints \cup mgr.node.taints)
       => /\ snr # NoSNR /\ snr.uid = mgr.snr.uid
          /\ snr.timeAssumedRebooted # NoTime /\ snr.timeAssumedRebooted <= clock]_vars

\* The Succeeded condition is True exactly for an SNR whose fencing is complete,
\* unless NHC stopped it or its node vanished afterwards.
SucceededMeansCompleted ==
    snr # NoSNR =>
        /\ snr.conds = "Finished" => snr.phase = "Fencing-Completed"
        /\ snr.phase = "Fencing-Completed" => snr.conds \in {"Finished", "Stopped"}

\* A taint of this operator is on the node only while an SNR with the finalizer
\* exists that will remove it (handleFencingCompletedPhase, recoverNode).
TaintsAreOwned == node.taints # {} => snr # NoSNR /\ snr.finalizer

\* While the SNR is complete and no reconcile is under way or queued, the node does
\* not carry the out-of-service taint.
NoTaintOnceCompleted ==
    /\ snr # NoSNR /\ snr.phase = "Fencing-Completed" /\ ~snr.timedOut
    /\ mgr.pc = "idle" /\ ~queued /\ ~delayed /\ snrWatch = <<>>
    => "OutOfService" \notin node.taints

\* When fencing is complete no volume of the node is attached any more.
CompletedMeansDetached == snr # NoSNR /\ snr.phase = "Fencing-Completed" => ~attached

\* What the manager is told of, or asks for, again and again.
Calm == config /\ node.capable

\* What it is not told of: a node that was excluded for a while, or one that was
\* registered anew and lacks the NoSchedule taint.
NodeStays == node.exists /\ ~node.excluded

\* While the node stays, every SNR that NHC does not stop completes once there is a
\* configuration and the node is reboot capable for good.
RemediationCompletes ==
    []NodeStays /\ <>[]Calm
    => (snr # NoSNR ~> snr = NoSNR \/ snr.timedOut \/ snr.phase = "Fencing-Completed")

\* Likewise every deleted SNR disappears, timed out or not.
DeletionCompletes ==
    []NodeStays /\ <>[]Calm => (snr # NoSNR /\ snr.deleting ~> snr = NoSNR)

\* While there is a configuration, an SNR that NHC timed out and deleted disappears
\* whatever happens to the node: it may be gone, excluded or not reboot capable.
StoppedRemediationIsReleased ==
    <>[]config => (snr # NoSNR /\ snr.deleting /\ snr.timedOut ~> snr = NoSNR)

\* In a cluster that calms down the Disabled condition disappears.
EventuallyEnabled == []NodeStays /\ <>[]Calm => []<>(snr # NoSNR => ~snr.disabled)
=============================================================================
