------------------------------ MODULE Watchdog ------------------------------
(***************************************************************************)
(* One agent process on one node, from boot to the next reboot: the        *)
(* watchdog device, synchronizedWatchdog which starts, feeds, stops and    *)
(* disarms it, the rebooter, which the reconciler and the API check call   *)
(* concurrently, and the runnable that publishes in the node's annotations *)
(* whether the node can reboot itself. The process may be stopped, crash   *)
(* and be started again; a device that was not disarmed keeps counting.    *)
(*                                                                         *)
(* Every critical section of swd.mutex is one step. Times are kept as ages *)
(* in ticks: since the device was fed, and since LastFoodTime.             *)
(***************************************************************************)
EXTENDS Integers

CONSTANTS
    Timeout,     \* the device's timeout, in ticks
    FeedPeriod,  \* swd.timeout / 3, in ticks
    StuckAfter,  \* TimeToAssumeRebootHasStarted, in ticks
    Callers,     \* goroutines that call Reboot
    MaxFaults,   \* bound: failures of the device, of commands and API calls, crashes
    MaxStops     \* bound: times the agent pod is stopped

\* A device that works reports a positive timeout, and a third of it is less than it.
ASSUME TimesAssumption ==
    /\ Timeout \in Nat /\ FeedPeriod \in Nat /\ StuckAfter \in Nat
    /\ FeedPeriod < Timeout
    /\ MaxFaults \in Nat /\ MaxStops \in Nat

Statuses == {"Disarmed", "Armed", "Triggered", "Malfunction"}

VARIABLES
    softwareReboot,  \* IS_SOFTWARE_REBOOT_ENABLED
    wd,              \* NewLinux returned a watchdog
    swd,             \* the synchronizedWatchdog
    starter,         \* where its Start is
    feeder,          \* where the feeding goroutine is
    feedIn,          \* ticks until its next round
    ctxDone,         \* the manager's context is cancelled
    device,          \* the watchdog device
    caller,          \* where each caller of Reboot is
    requested,       \* somebody asked for a reboot
    updater,         \* where the annotation updater is
    toPublish,       \* what it has read of the watchdog and is about to publish
    annotations,     \* of the node, as the API server stores them
    host,            \* "up", or what rebooted it
    faults, stops

process == <<wd, swd, starter, feeder, feedIn, ctxDone, updater, toPublish>>
vars == <<softwareReboot, process, device, caller, requested, annotations, host, faults, stops>>

SynchronizedWatchdog ==
    [status : Statuses, stop : BOOLEAN, cancelled : BOOLEAN, started : BOOLEAN,
     timeout : {0, Timeout}, foodAge : 0 .. StuckAfter + 1]
Device == [running : BOOLEAN, age : 0 .. Timeout]
Reading == [initiated : BOOLEAN, timeout : {0, Timeout}]
Annotations == [capable : {"", "true", "false"}, timeout : {0, Timeout}]

\* newSynced. timeout is 0 until the device has told it, foodAge is capped and
\* the zero time of LastFoodTime is as old as can be.
NewSynced == [status |-> "Disarmed", stop |-> FALSE, cancelled |-> FALSE, started |-> FALSE,
              timeout |-> 0, foodAge |-> StuckAfter + 1]

NothingRead == [initiated |-> FALSE, timeout |-> 0]

Off == [running |-> FALSE, age |-> 0]
Fed == [running |-> TRUE, age |-> 0]

\* initSelfNodeRemediationAgent in a new process.
NewProcess ==
    /\ swd' = NewSynced /\ starter' = IF wd' THEN "init" ELSE "done"
    /\ feeder' = "off" /\ feedIn' = 0 /\ ctxDone' = FALSE
    /\ updater' = "waiting" /\ toPublish' = NothingRead
    /\ caller' = [c \in Callers |-> "idle"]

Init ==
    /\ softwareReboot \in BOOLEAN /\ wd \in BOOLEAN
    /\ swd = NewSynced /\ starter = IF wd THEN "init" ELSE "done"
    /\ feeder = "off" /\ feedIn = 0 /\ ctxDone = FALSE
    /\ device = Off
    /\ caller = [c \in Callers |-> "idle"] /\ requested = FALSE
    /\ updater = "waiting" /\ toPublish = NothingRead
    /\ annotations = [capable |-> "", timeout |-> 0]
    /\ host = "up" /\ faults = 0 /\ stops = 0

Fault == faults < MaxFaults /\ faults' = faults + 1

-----------------------------------------------------------------------------
(* synchronizedWatchdog.Start. *)

\* The device opens and its timer runs; or it does not open, or opens but does not
\* tell its timeout and is then disarmed, or not even that.
init ==
    /\ host = "up" /\ starter = "init"
    /\ \/ /\ device' = Fed
          /\ swd' = [swd EXCEPT !.status = "Armed", !.timeout = Timeout, !.started = TRUE]
          /\ starter' = "startFeeding"
          /\ UNCHANGED <<ctxDone, faults>>
       \/ /\ Fault
          /\ device' \in {device, Off, Fed}
          /\ swd' = [swd EXCEPT !.status = IF softwareReboot THEN "Malfunction" ELSE @,
                                !.started = TRUE]
          /\ starter' = "done"
          /\ ctxDone' = (ctxDone \/ ~softwareReboot)
    /\ UNCHANGED <<softwareReboot, wd, feeder, feedIn, caller, requested, updater, toPublish,
                   annotations, host, stops>>

\* swd.stop is set outside the mutex, after init has released it.
startFeeding ==
    /\ host = "up" /\ starter = "startFeeding"
    /\ swd' = [swd EXCEPT !.stop = TRUE]
    /\ starter' = "running" /\ feeder' = "waiting" /\ feedIn' = 0
    /\ UNCHANGED <<softwareReboot, wd, ctxDone, device, caller, requested, updater, toPublish,
                   annotations, host, faults, stops>>

\* Mutant of disarm: the status changes but the device is only closed.
disarmCloseOnly ==
    /\ host = "up" /\ starter = "running" /\ ctxDone
    /\ starter' = "done"
    /\ IF swd.status # "Armed"
         THEN UNCHANGED <<swd, device, faults>>
         ELSE \/ /\ UNCHANGED <<device, faults>>
                 /\ swd' = [swd EXCEPT !.status = "Disarmed", !.cancelled = TRUE]
              \/ Fault /\ UNCHANGED <<swd, device>>
    /\ UNCHANGED <<softwareReboot, wd, feeder, feedIn, ctxDone, caller, requested, updater,
                   toPublish, annotations, host, stops>>

\* The end of Start: an armed watchdog is disarmed when the pod is stopped.
disarm ==
    /\ host = "up" /\ starter = "running" /\ ctxDone
    /\ starter' = "done"
    /\ IF swd.status # "Armed"
         THEN UNCHANGED <<swd, device, faults>>
         ELSE \/ /\ device' = Off /\ UNCHANGED faults
                 /\ swd' = [swd EXCEPT !.status = "Disarmed", !.cancelled = TRUE]
              \/ Fault /\ UNCHANGED <<swd, device>>
    /\ UNCHANGED <<softwareReboot, wd, feeder, feedIn, ctxDone, caller, requested, updater,
                   toPublish, annotations, host, stops>>

\* A round of the feeding goroutine begins; it then waits for the mutex.
feedRound ==
    /\ host = "up" /\ feeder = "waiting" /\ feedIn = 0
    /\ feeder' = IF swd.cancelled THEN "off" ELSE "entered"
    /\ UNCHANGED <<softwareReboot, wd, swd, starter, feedIn, ctxDone, device, caller, requested,
                   updater, toPublish, annotations, host, faults, stops>>

\* Mutant of feed: the period is a tick too long.
feedLate ==
    /\ host = "up" /\ feeder = "entered"
    /\ feeder' = "waiting" /\ feedIn' = FeedPeriod + 1
    /\ IF swd.status # "Armed"
         THEN UNCHANGED <<swd, device, faults>>
         ELSE \/ device' = Fed /\ swd' = [swd EXCEPT !.foodAge = 0] /\ UNCHANGED faults
              \/ Fault /\ UNCHANGED <<swd, device>>
    /\ UNCHANGED <<softwareReboot, wd, starter, ctxDone, caller, requested, updater, toPublish,
                   annotations, host, stops>>

\* Mutant of feed: the status is not looked at.
feedAlways ==
    /\ host = "up" /\ feeder = "entered"
    /\ feeder' = "waiting" /\ feedIn' = FeedPeriod
    /\ device' = Fed /\ swd' = [swd EXCEPT !.foodAge = 0]
    /\ UNCHANGED <<softwareReboot, wd, starter, ctxDone, caller, requested, updater, toPublish,
                   annotations, host, faults, stops>>

feed ==
    /\ host = "up" /\ feeder = "entered"
    /\ feeder' = "waiting" /\ feedIn' = FeedPeriod
    /\ IF swd.status # "Armed"
         THEN UNCHANGED <<swd, device, faults>>
         ELSE \/ device' = Fed /\ swd' = [swd EXCEPT !.foodAge = 0] /\ UNCHANGED faults
              \/ Fault /\ UNCHANGED <<swd, device>>
    /\ UNCHANGED <<softwareReboot, wd, starter, ctxDone, caller, requested, updater, toPublish,
                   annotations, host, stops>>

-----------------------------------------------------------------------------
(* Reboot. *)

\* What the steps of Reboot leave alone.
RebootStep == UNCHANGED <<softwareReboot, wd, starter, feeder, feedIn, ctxDone, updater,
                          toPublish, annotations, stops>>

Returns(c) == caller' = [caller EXCEPT ![c] = "idle"]

\* One of the commands works, or all fail, which is only logged.
softwareRebootHook(c) ==
    /\ Returns(c)
    /\ \/ host' = "software" /\ UNCHANGED faults
       \/ Fault /\ UNCHANGED host
    /\ UNCHANGED <<swd, device>>

\* Mutant of Reboot: a malfunctioning watchdog is not told apart.
RebootNoMalfunction(c) ==
    /\ host = "up" /\ caller[c] = "idle"
    /\ requested' = TRUE
    /\ CASE ~wd /\ ~softwareReboot -> UNCHANGED <<caller, host, faults, swd, device>>
         [] ~wd /\ softwareReboot -> softwareRebootHook(c)
         [] wd -> caller' = [caller EXCEPT ![c] = "switch"] /\ UNCHANGED <<host, faults, swd,
                                                                           device>>
    /\ RebootStep

\* The disabled rebooter only returns an error; without a watchdog, or with one that
\* does not work, there is the software reboot.
Reboot(c) ==
    /\ host = "up" /\ caller[c] = "idle"
    /\ requested' = TRUE
    /\ CASE ~wd /\ ~softwareReboot -> UNCHANGED <<caller, host, faults, swd, device>>
         [] ~wd /\ softwareReboot -> softwareRebootHook(c)
         [] wd /\ swd.status = "Malfunction" -> softwareRebootHook(c)
         [] wd /\ swd.status # "Malfunction" ->
              caller' = [caller EXCEPT ![c] = "switch"] /\ UNCHANGED <<host, faults, swd, device>>
    /\ RebootStep

isWatchdogRebootStuck == swd.foodAge > StuckAfter

\* The switch reads the status again.
RebootSwitch(c) ==
    /\ host = "up" /\ caller[c] = "switch"
    /\ CASE swd.status = "Triggered" /\ isWatchdogRebootStuck -> softwareRebootHook(c)
         [] swd.status = "Disarmed" -> softwareRebootHook(c)
         [] swd.status = "Armed" ->
              caller' = [caller EXCEPT ![c] = "stop"] /\ UNCHANGED <<host, faults, swd, device>>
         [] OTHER -> Returns(c) /\ UNCHANGED <<host, faults, swd, device>>
    /\ UNCHANGED requested /\ RebootStep

\* Stop has a third look at the status.
Stop(c) ==
    /\ host = "up" /\ caller[c] = "stop"
    /\ swd.status = "Armed" => swd.stop
    /\ swd' = IF swd.status = "Armed" THEN [swd EXCEPT !.status = "Triggered", !.cancelled = TRUE]
                                      ELSE swd
    /\ Returns(c)
    /\ UNCHANGED <<host, faults, device, requested>> /\ RebootStep

\* Calling a nil swd.stop panics: in the reconciler controller-runtime recovers,
\* in the API check the process ends.
StopPanics(c) ==
    /\ host = "up" /\ caller[c] = "stop" /\ swd.status = "Armed" /\ ~swd.stop
    /\ \/ Returns(c) /\ UNCHANGED <<process, faults>>
       \/ Fault /\ wd' = wd /\ NewProcess
    /\ UNCHANGED <<softwareReboot, device, requested, annotations, host, stops>>

-----------------------------------------------------------------------------
(* NewAnnotationUpdater. *)

\* The arguments of UpdateNodeAnnotations, read before its calls of the API server.
ReadWatchdog == toPublish' = [initiated |-> wd /\ swd.status = "Armed", timeout |-> swd.timeout]

\* Mutant of NewAnnotationUpdater: it does not wait for the watchdog to start.
UpdaterImpatient ==
    /\ host = "up" /\ updater = "waiting"
    /\ updater' = "update" /\ ReadWatchdog
    /\ UNCHANGED <<softwareReboot, wd, swd, starter, feeder, feedIn, ctxDone, device, caller,
                   requested, annotations, host, faults, stops>>

\* It waits until the watchdog has started, or the manager stops: then it still
\* publishes the outcome of a start.
NewAnnotationUpdater ==
    /\ host = "up" /\ updater = "waiting"
    /\ \/ (~wd \/ swd.started) /\ updater' = "update" /\ ReadWatchdog
       \/ wd /\ ~swd.started /\ ctxDone /\ updater' = "skipped" /\ UNCHANGED toPublish
    /\ UNCHANGED <<softwareReboot, wd, swd, starter, feeder, feedIn, ctxDone, device, caller,
                   requested, annotations, host, faults, stops>>

\* Get and Patch of the node publish what was read, whatever has happened since. A
\* failure ends the manager.
UpdateNodeAnnotations ==
    /\ host = "up" /\ updater = "update"
    /\ \/ /\ annotations' =
               [capable |-> IF toPublish.initiated \/ softwareReboot THEN "true" ELSE "false",
                timeout |-> toPublish.timeout]
          /\ updater' = "done" /\ UNCHANGED <<ctxDone, faults>>
       \/ Fault /\ updater' = "failed" /\ ctxDone' = TRUE /\ UNCHANGED annotations
    /\ toPublish' = NothingRead
    /\ UNCHANGED <<softwareReboot, wd, swd, starter, feeder, feedIn, device, caller, requested,
                   host, stops>>

-----------------------------------------------------------------------------
(* The process, the device and time. *)

StopPod ==
    /\ host = "up" /\ ~ctxDone /\ stops < MaxStops
    /\ ctxDone' = TRUE /\ stops' = stops + 1
    /\ UNCHANGED <<softwareReboot, wd, swd, starter, feeder, feedIn, device, caller, requested,
                   updater, toPublish, annotations, host, faults>>

\* All runnables have returned, the process ends and the DaemonSet starts another;
\* NewLinux may fail in it.
Restart ==
    /\ host = "up" /\ ctxDone /\ starter = "done" /\ updater \in {"done", "skipped", "failed"}
    /\ \/ wd' = TRUE /\ UNCHANGED faults
       \/ wd' = FALSE /\ Fault
    /\ NewProcess
    /\ UNCHANGED <<softwareReboot, device, requested, annotations, host, stops>>

\* The same without waiting for anybody.
Crash ==
    /\ host = "up" /\ Fault
    /\ wd' = wd /\ NewProcess
    /\ UNCHANGED <<softwareReboot, device, requested, annotations, host, stops>>

Expired == device.running /\ device.age >= Timeout

deviceFires ==
    /\ host = "up" /\ Expired
    /\ host' = "watchdog"
    /\ UNCHANGED <<softwareReboot, process, device, caller, requested, annotations, faults,
                   stops>>

\* Start and the feeding goroutine get their turn within a tick.
Tick ==
    /\ host = "up" /\ ~Expired /\ starter # "startFeeding" /\ feeder # "entered" /\ (feeder = "waiting" => feedIn > 0)
    /\ device.running \/ swd.foodAge <= StuckAfter
    /\ device' = IF device.running THEN [device EXCEPT !.age = @ + 1] ELSE device
    /\ swd' = [swd EXCEPT !.foodAge = IF @ <= StuckAfter THEN @ + 1 ELSE @]
    /\ feedIn' = IF feedIn > 0 THEN feedIn - 1 ELSE 0
    /\ UNCHANGED <<softwareReboot, wd, starter, feeder, ctxDone, caller, requested, updater,
                   toPublish, annotations, host, faults, stops>>

Next ==
    \/ init \/ startFeeding \/ disarm \/ feedRound \/ feed
    \/ \E c \in Callers : Reboot(c) \/ RebootSwitch(c) \/ Stop(c) \/ StopPanics(c)
    \/ NewAnnotationUpdater \/ UpdateNodeAnnotations
    \/ StopPod \/ Restart \/ Crash \/ deviceFires \/ Tick

Spec == Init /\ [][Next]_vars

\* Goroutines run and the device counts. A caller whose reason to reboot persists
\* calls again: the reconciler is requeued, the API check loops.
Fairness ==
    /\ WF_vars(init) /\ WF_vars(startFeeding) /\ WF_vars(disarm)
    /\ WF_vars(feedRound) /\ WF_vars(feed)
    /\ \A c \in Callers : /\ WF_vars(requested /\ Reboot(c))
                         /\ WF_vars(RebootSwitch(c) \/ Stop(c) \/ StopPanics(c))
    /\ WF_vars(NewAnnotationUpdater) /\ WF_vars(UpdateNodeAnnotations)
    /\ WF_vars(Restart) /\ WF_vars(deviceFires) /\ WF_vars(Tick)

FairSpec == Spec /\ Fairness

-----------------------------------------------------------------------------
(* Properties. *)

\* Every variable has its type, and the device never counts beyond its timeout.
TypeOK ==
    /\ softwareReboot \in BOOLEAN /\ wd \in BOOLEAN /\ ctxDone \in BOOLEAN /\ requested \in BOOLEAN
    /\ swd \in SynchronizedWatchdog /\ device \in Device /\ annotations \in Annotations
    /\ starter \in {"init", "startFeeding", "running", "done"}
    /\ feeder \in {"off", "waiting", "entered"} /\ feedIn \in 0 .. FeedPeriod
    /\ caller \in [Callers -> {"idle", "switch", "stop"}]
    /\ updater \in {"waiting", "update", "done", "skipped", "failed"} /\ toPublish \in Reading
    /\ host \in {"up", "watchdog", "software"}
    /\ faults \in 0 .. MaxFaults /\ stops \in 0 .. MaxStops

\* Nobody reboots a node without being asked: as long as nothing fails or crashes, the
\* device is fed in time and disarmed before the process ends, however often the pod
\* is stopped and started.
NoSpuriousReboot == host # "up" /\ ~requested => faults > 0

\* Within one process a triggered watchdog stays so: a feeding round that was already
\* waiting for the mutex, or the end of Start, neither feeds nor disarms the device.
TriggeredIsFinal ==
    [][swd.status = "Triggered" /\ swd'.started
         => swd'.status = "Triggered" /\ device'.running = device.running /\ device'.age >= device.age
      ]_vars

\* Once the updater is through, the annotations say what the agent can do: the node is
\* reboot capable iff the watchdog is armed or software reboot is allowed (a watchdog
\* triggered meanwhile may have been recorded as either), and the timeout the manager
\* computes with is the device's. What was read before the calls of the API server is
\* still true after them, and in the updater's second chance, during the shutdown that
\* a failed start causes.
AnnotationsAreTrue ==
    updater = "done" /\ (~ctxDone \/ swd.timeout = 0) =>
        /\ swd.status # "Triggered" =>
             (annotations.capable = "true" <=> softwareReboot \/ swd.status = "Armed")
        /\ annotations.timeout = swd.timeout

\* A requested reboot happens, except in an agent that has neither a watchdog nor the
\* permission for a software reboot.
RequestedRebootHappens == requested ~> host # "up" \/ (~wd /\ ~softwareReboot)

\* Stop stops feeding the watchdog, which results in a reboot: a caller that returns
\* from Stop leaves the watchdog triggered.
StopTriggers ==
    [][\A c \in Callers : caller[c] = "stop" /\ caller'[c] = "idle" /\ swd.stop /\ swd'.started
          => swd'.status = "Triggered"]_vars

\* Without permission there is no software reboot.
SoftwareRebootIsAllowed == host = "software" => softwareReboot
=============================================================================
