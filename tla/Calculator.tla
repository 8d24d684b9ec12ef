----------------------------- MODULE Calculator -----------------------------
(***************************************************************************)
(* The time after which the manager takes an unhealthy node to have        *)
(* rebooted (internal/reboot/calculator.go), in seconds, and the timeouts  *)
(* the agents really use.  A scenario s is a configuration, the number of  *)
(* worker nodes and what is so of the unhealthy node:                      *)
(*   interval, apiTimeout, threshold, dial, request   as configured;       *)
(*   noPeers, safeTime    MaxTimeForNoPeersResponse and SafeTimeToAssume-  *)
(*                        NodeRebootedSeconds, Unset if not configured;    *)
(*   watchdog             the timeout annotated on the node, or Unset;     *)
(*   workers              the worker nodes of the cluster, itself included;*)
(*   peers                the worker peers that its agent knows            *)
(***************************************************************************)
EXTENDS Batches

Unset == -1

\* MaxTimeForNoPeersResponse and the other defaults of the code.
DefaultNoPeers == 30
DefaultWatchdogTimeout == 60
RebootBuffer == 30
MinimumBuffer == 2

OrDefault(value, default) == IF value = Unset THEN default ELSE value
Larger(a, b) == IF a < b THEN b ELSE a

WatchdogTimeout(s) == OrDefault(s.watchdog, DefaultWatchdogTimeout)

MaxTimeForNoPeersResponse(s) == OrDefault(s.noPeers, DefaultNoPeers)

\* The worker nodes are counted, the unhealthy one included.
calcNumOfBatches(s) == GetNrOfBatches(s.workers)

\* Mutant of calculateMinimumRebootDuration: silence of the peers takes no time.
calculateMinimumRebootDurationNoSilence(s) ==
    (s.interval + s.apiTimeout) * s.threshold
    + calcNumOfBatches(s) * (s.dial + s.request)
    + WatchdogTimeout(s) + RebootBuffer

\* To detect the failure, to confirm it with the peers, to reboot.
calculateMinimumRebootDuration(s) ==
    (s.interval + s.apiTimeout) * s.threshold
    + Larger(calcNumOfBatches(s) * (s.dial + s.request), MaxTimeForNoPeersResponse(s))
    + WatchdogTimeout(s) + RebootBuffer

\* A configured time that is too short is ignored.
GetRebootDuration(s) == Larger(s.safeTime, calculateMinimumRebootDuration(s))

\* Of the durations here the webhook admits none below its minimum, a second for the
\* interval and for the silence and 10 ms otherwise.
validateTimes(s) ==
    /\ \A timeout \in {s.apiTimeout, s.dial, s.request} : timeout > 0
    /\ s.interval >= 1
    /\ s.noPeers # Unset => s.noPeers >= 1

\* It warns of a timeout of requests that is too short, which the agents replace.
validatePeerTimeoutSafety(s) == s.request >= s.apiTimeout + MinimumBuffer

\* The timeout the agents apply to a request.
getEffectivePeerRequestTimeout(s) == Larger(s.request, s.apiTimeout + MinimumBuffer)
=============================================================================
