------------------------------- MODULE Fencing -------------------------------
(***************************************************************************)
(* The node of an SNR: its self node remediation agent, which reboots it,  *)
(* against the clock of the manager, which at the deadline it wrote into   *)
(* the SNR takes the node for rebooted and releases its workload.  The SNR *)
(* lives as in Lifecycle.  The agent learns of it from its own informer    *)
(* (ReconcileAgent), or, cut off from the API server, from its peers (the  *)
(* API check, summed up in Verdict); the watchdog then ends the node.      *)
(***************************************************************************)
EXTENDS Lifecycle

CONSTANTS
    Second,           \* ticks in a second, to which timestamps are rounded
    StoreDelay,       \* longest time from computing the deadline to its storage
    DetectTime,       \* longest undisturbed time for the agent to learn of the SNR
    WatchdogTimeout,  \* longest time from a triggered reboot to the node's end
    MaxInterruptions, \* changes of connection, agent restarts and errors in one SNR's life
    MaxCRs,           \* SNRs created
    MaxTime           \* last instant

ASSUME FencingAssumption ==
    /\ Second \in Nat \ {0} /\ StoreDelay \in Nat /\ DetectTime \in Nat
    /\ WatchdogTimeout \in Nat /\ MaxInterruptions \in Nat /\ MaxCRs \in Nat /\ MaxTime \in Nat
    /\ RebootDuration \in Nat

\* The calculated reboot duration covers what may happen until the node is down (an
\* interruption may undo a reboot that is about to happen), and the second that the
\* deadline loses when it is stored.
ASSUME RebootDurationCovers ==
    StoreDelay + (MaxInterruptions + 1) * (DetectTime + WatchdogTimeout) + Second <= RebootDuration

VARIABLES
    creation,      \* SNR uid -> when it was created
    deletion,      \* SNR uid -> when it was deleted, or NoTime
    linked,        \* when the node came to reach the API server; 0 while it does not
    registered,    \* the Node object: "kept", "deleted" or "back" since the SNR's creation
    up,            \* the node is running
    boot,          \* when it was booted
    link,          \* the node reaches the API server
    triggered,     \* when its reboot was triggered, or NoTime
    seen,          \* the SNR in the agent's cache, or NoSNR
    queued,        \* the reconcile request: "no", "now" or "later"
    since,         \* since when the agent could have learned what it does not know
    interruptions  \* of the present SNR

agentVars == <<seen, queued>>
nodeVars == <<up, boot, link, triggered>>
historyVars == <<creation, deletion, linked>>
vars == <<lifecycleVars, historyVars, registered, nodeVars, agentVars, since, interruptions>>

Phases == {"Fencing-Started", "Pre-Reboot-Completed", "Reboot-Completed", "Fencing-Completed"}
Uid == 1 .. MaxCRs
Time == 0 .. MaxTime
SNR == [uid : Uid, phase : Phases, timeAssumedRebooted : Int,
        deleting : BOOLEAN, timedOut : BOOLEAN]

\* The types, which the proofs rest on.
TypeOK ==
    /\ snr \in SNR \cup {NoSNR} /\ created \in 0 .. MaxCRs /\ clock \in Time
    /\ creation \in [Uid -> Time] /\ deletion \in [Uid -> Time \cup {NoTime}]
    /\ linked \in Time /\ registered \in {"kept", "deleted", "back"}
    /\ up \in BOOLEAN /\ boot \in Int /\ link \in BOOLEAN
    /\ triggered \in Time \cup {NoTime}
    /\ seen \in SNR \cup {NoSNR} /\ queued \in {"no", "now", "later"}
    /\ since \in Time /\ interruptions \in 0 .. MaxInterruptions

\* A time as the API server stores it, and an uptime as the kernel tells it.
Stored(t) == t - (t % Second)

\* The node has been running for a while.
Init ==
    /\ Start
    /\ creation = [u \in Uid |-> 0] /\ deletion = [u \in Uid |-> NoTime]
    /\ linked = 0 /\ registered = "kept"
    /\ up = TRUE /\ boot = -2 * Second /\ link \in BOOLEAN /\ triggered = NoTime
    /\ seen = NoSNR /\ queued = "no" /\ since = 0 /\ interruptions = 0

\* The agent is behind the SNR, or has not heard from its peers.
Learning ==
    /\ up /\ triggered = NoTime
    /\ ~link \/ seen # snr \/ (queued = "later" /\ registered = "kept")

\* The SNR is written: the agent can learn it from now on, unless it is behind already.
Written == since' = IF Learning THEN since ELSE clock

\* What NHC and the manager do to the SNR.
CreateSNR ==
    /\ created < MaxCRs /\ registered # "deleted"
    /\ Create /\ Written
    /\ creation' = [creation EXCEPT ![created + 1] = clock]
    /\ registered' = "kept" /\ interruptions' = 0
    /\ UNCHANGED <<deletion, linked, nodeVars, agentVars>>

DeleteSNR ==
    /\ Delete /\ Written
    /\ deletion' = [deletion EXCEPT ![snr.uid] = clock]
    /\ UNCHANGED <<creation, linked, registered, nodeVars, agentVars, interruptions>>

StopSNR ==
    /\ TimeOut /\ Written
    /\ UNCHANGED <<historyVars, registered, nodeVars, agentVars, interruptions>>

\* setTimeAssumedRebooted: the deadline counts from a moment before it is stored.
PrepareReboot ==
    /\ registered # "deleted"
    /\ \E delay \in 0 .. StoreDelay :
          PreRebootCompleted(Stored(clock + RebootDuration - delay))
    /\ Written
    /\ UNCHANGED <<historyVars, registered, nodeVars, agentVars, interruptions>>

\* The manager goes on only for a Node object that it finds.
Proceed ==
    /\ registered # "deleted"
    /\ RebootCompleted \/ FencingCompleted
    /\ Written
    /\ UNCHANGED <<historyVars, registered, nodeVars, agentVars, interruptions>>

ReleaseSNR ==
    /\ Release /\ Written
    /\ UNCHANGED <<historyVars, registered, nodeVars, agentVars, interruptions>>

\* A disturbance: there is a limited number of them for an SNR and before the next.
Interrupt == interruptions < MaxInterruptions /\ interruptions' = interruptions + 1

\* The agent's informer catches up.
Sync ==
    /\ up /\ link /\ seen # snr
    /\ seen' = snr /\ queued' = "now"
    /\ UNCHANGED <<lifecycleVars, historyVars, registered, nodeVars, since, interruptions>>

\* Mutations of the two definitions that follow: the uptime is compared with the wrong
\* interval, or with a rounded age, and a deleted SNR is not recognised.
UptimeBelowDuration(s) == clock - boot < RebootDuration
RoundedAge(s) == Stored(clock - boot) < Stored(clock - creation[s.uid])

\* The host was booted after the creation of the SNR, as far as whole seconds tell.
didIRebootMyself(s) == Stored(clock - boot) < clock - Stored(creation[s.uid])

RebootsForDeleted ==
    seen # NoSNR /\ seen.phase = "Pre-Reboot-Completed" /\ ~didIRebootMyself(seen)

\* The agent's reconciler finds something to do in the cached SNR.
rebootIfNeeded ==
    /\ seen # NoSNR /\ ~seen.deleting /\ seen.phase = "Pre-Reboot-Completed"
    /\ ~didIRebootMyself(seen)

\* Rebooter.Reboot, of which only the first call counts.
Trigger == triggered' = IF triggered = NoTime THEN clock ELSE triggered

\* A request of the agent's reconciler, which is repeated after a call of Reboot. When
\* the cache has no Node object, the recording of the event about it panics, and when
\* the owner of the SNR or the uptime cannot be read, there is an error: both times
\* the request is tried again later.
ReconcileAgent ==
    /\ up /\ queued = "now"
    /\ \/ /\ ~rebootIfNeeded
          /\ queued' = "no"
          /\ UNCHANGED <<triggered, since, interruptions>>
       \/ /\ rebootIfNeeded
          /\ Trigger
          /\ queued' = "later"
          /\ UNCHANGED <<since, interruptions>>
       \/ /\ rebootIfNeeded /\ registered # "kept"
          /\ queued' = "later"
          /\ UNCHANGED <<triggered, since, interruptions>>
       \/ /\ seen # NoSNR /\ ~seen.deleting
          /\ Interrupt
          /\ queued' = "later" /\ since' = IF seen = snr THEN clock ELSE since
          /\ UNCHANGED triggered
    /\ UNCHANGED <<lifecycleVars, historyVars, registered, up, boot, link, seen>>

RetryDue ==
    /\ up /\ queued = "later" /\ queued' = "now"
    /\ UNCHANGED <<lifecycleVars, historyVars, registered, nodeVars, seen, since, interruptions>>

\* Cut off from the API server, the agent hears from its peers that there is an SNR
\* for it, whatever its phase, or hears nothing at all, and reboots the node; else
\* it asks again. The peers that answer reach the API server.
Verdict ==
    /\ up /\ ~link
    /\ \/ Trigger /\ UNCHANGED since
       \/ snr = NoSNR /\ since' = clock /\ UNCHANGED triggered
    /\ UNCHANGED <<lifecycleVars, historyVars, registered, up, boot, link, agentVars,
                   interruptions>>

\* The agent's process ends and starts anew with an empty cache. It feeds the watchdog
\* again, which the process before it may have left to fire.
AgentRestart ==
    /\ up /\ Interrupt
    /\ seen' = NoSNR /\ queued' = "no" /\ triggered' = NoTime /\ since' = clock
    /\ UNCHANGED <<lifecycleVars, historyVars, registered, up, boot, link>>

\* The node is cut off, or reaches the API server again.
LinkChange ==
    /\ up /\ Interrupt
    /\ link' = ~link /\ linked' = (IF link THEN 0 ELSE clock) /\ since' = clock
    /\ UNCHANGED <<lifecycleVars, creation, deletion, registered, up, boot, triggered, agentVars>>

\* The Node object is deleted, by another remediator or by hand, and registered again.
NodeObjectChange ==
    /\ snr # NoSNR
    /\ registered' = IF registered = "deleted" THEN "back" ELSE "deleted"
    /\ UNCHANGED <<lifecycleVars, historyVars, nodeVars, agentVars, since, interruptions>>

\* The watchdog ends the node, or a failure does, and it boots.
NodeDown ==
    /\ up /\ up' = FALSE
    /\ triggered' = NoTime /\ seen' = NoSNR /\ queued' = "no"
    /\ UNCHANGED <<lifecycleVars, historyVars, registered, boot, link, since, interruptions>>

Boot ==
    /\ ~up /\ up' = TRUE
    /\ boot' = clock /\ since' = clock
    /\ UNCHANGED <<lifecycleVars, historyVars, registered, link, triggered, agentVars,
                   interruptions>>

\* What must happen before time passes.
Overdue ==
    \/ up /\ queued = "now"
    \/ up /\ triggered # NoTime /\ clock >= triggered + WatchdogTimeout
    \/ Learning /\ clock >= since + DetectTime

Tick ==
    /\ clock < MaxTime /\ ~Overdue
    /\ Pass
    /\ UNCHANGED <<historyVars, registered, nodeVars, agentVars, since, interruptions>>

Next ==
    \/ CreateSNR \/ DeleteSNR \/ StopSNR \/ PrepareReboot \/ Proceed \/ ReleaseSNR
    \/ Sync \/ ReconcileAgent \/ RetryDue \/ Verdict
    \/ AgentRestart \/ LinkChange \/ NodeObjectChange \/ NodeDown \/ Boot
    \/ Tick

Spec == Init /\ [][Next]_vars

----------------------------------------------------------------------------
\* The node was booted after the SNR's creation, as far as timestamps tell.
Rebooted == boot > creation[snr.uid] - 2 * Second

\* When the manager takes the node for rebooted (waitForNodeRebooted) and releases its
\* workload, the node is down or was booted since the SNR's creation. NHC has not
\* deleted the SNR, and the Node object was there all the time.
AssumedMeansRebooted ==
    /\ snr # NoSNR /\ snr.phase \in {"Reboot-Completed", "Fencing-Completed"}
    /\ ~snr.deleting /\ registered = "kept"
    => ~up \/ Rebooted

Reconciled == ReconcileAgent /\ triggered' # triggered

\* The agent's reconciler reboots a node once for an SNR (didIRebootMyself): a node
\* that was booted after the SNR's creation is not rebooted again, in spite of rounded
\* times, of stale caches and of agents that start anew.
RebootsOnce == [][Reconciled => boot <= creation[seen.uid]]_vars

\* The agent's reconciler does not reboot the node for an SNR that was deleted longer
\* ago than the agent takes to learn of it, while the manager still works on it: as
\* long as the node is connected, and whatever errors delay the agent.
RebootIsCalledFor ==
    [][Reconciled /\ link /\ deletion[seen.uid] # NoTime
       => clock <= DetectTime + IF linked > deletion[seen.uid] THEN linked ELSE deletion[seen.uid]]_vars

\* An agent that finds its SNR ready for the reboot, on a node that has not rebooted
\* for it, triggers the reboot, with or without a Node object to attach the event to.
RebootsWithoutEvent ==
    [][ReconcileAgent /\ rebootIfNeeded /\ seen = snr /\ interruptions' = interruptions
       => triggered' # NoTime]_vars
=============================================================================
