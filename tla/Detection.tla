----------------------------- MODULE Detection ------------------------------
(***************************************************************************)
(* How long an agent takes to find out that its node is cut off, set       *)
(* against the time the manager allows for it.  From time 0 on the agent   *)
(* gets no answer, from the API server or from any peer, whether they      *)
(* cannot be dialled or accept the connection and then say nothing; the    *)
(* agent's check may be anywhere in its cycle then.  Steps advance the     *)
(* clock by what a call takes: nothing, or one of its timeouts.            *)
(***************************************************************************)
EXTENDS Calculator

CONSTANT Scenarios   \* the situations considered, see Calculator; controlPlane: the node's role

\* Times in seconds; the threshold is at least one by the schema of the configuration.
Situations ==
    [interval : Nat, apiTimeout : Nat, threshold : Nat \ {0}, dial : Nat, request : Nat,
     noPeers : Nat \cup {Unset}, safeTime : Nat \cup {Unset}, watchdog : Nat \cup {Unset},
     workers : Nat, peers : Nat \ {0}, controlPlane : BOOLEAN]

\* The configurations are ones that the webhook admits. There is a peer: an agent that
\* knows of none asks nobody. Nothing is assumed about how many of the workers are
\* known as peers: a worker without an agent that runs is not, and one that has left
\* the cluster may still be.
ASSUME ScenariosAdmitted == \A t \in Scenarios : t \in Situations /\ validateTimes(t)

VARIABLES
    s,             \* the scenario
    now,           \* seconds since the node is cut off
    pc,            \* "wait": for the next check; "confirm": of a control plane node
    first,         \* the next check is the first, its wait has begun before
    errorCount,
    remaining,     \* peers still to be asked
    batches,       \* history: the batches asked in this check
    lastResponse   \* when a peer last answered

vars == <<s, now, pc, first, errorCount, remaining, batches, lastResponse>>

\* The worker peers in the agent's cache.
NrOfPeers == s.peers

\* How many peers may be left after some batches of a check.
LeftAfterBatches ==
    {n \in 1 .. NrOfPeers - MinNrOfNodesInBatch :
        (NrOfPeers - MinNrOfNodesInBatch - n) % LaterBatch(NrOfPeers) = 0}

Init ==
    /\ s \in Scenarios
    /\ now = 0
    /\ first = TRUE
    /\ errorCount \in 0 .. s.threshold
    /\ lastResponse \in {-MaxTimeForNoPeersResponse(s) - 1, 0}
    /\ batches = 0
    /\ \/ pc = "wait" /\ remaining = 0
       \/ /\ pc = "ask" /\ errorCount = s.threshold
          /\ remaining \in LeftAfterBatches

Takes(timeout) == {0, timeout}

\* Peers that are asked at the same time and do not answer: the connections fail at
\* once, or after the timeout for dialling, or one is accepted and the request times out.
Unanswered == {0, s.dial, s.dial + getEffectivePeerRequestTimeout(s)}

\* getControlPlanePeersStatus: nobody answers, then the refresh of the addresses fails, or
\* this node's own API server serves it and nobody answers again.
ControlPlaneStatus ==
    {call + refresh + again :
        call \in Unanswered, refresh \in Takes(s.apiTimeout), again \in Unanswered}

\* On a control plane node readyz, which needs no etcd, may still succeed; then the
\* control plane peers are contacted once before the error is counted.  They are contacted
\* (again) after the worker peers, also when those were not asked.
Check ==
    /\ pc = "wait"
    /\ \E wait \in IF first THEN 0 .. s.interval ELSE {s.interval},
          call \in Takes(s.apiTimeout),
          status \in IF s.controlPlane THEN ControlPlaneStatus ELSE {0} :
          now' = now + wait + call + status
    /\ first' = FALSE
    /\ errorCount' = IF errorCount < s.threshold THEN errorCount + 1 ELSE errorCount
    /\ batches' = 0
    /\ IF errorCount' < s.threshold
       THEN pc' = (IF s.controlPlane THEN "confirm" ELSE "wait") /\ remaining' = 0
       ELSE pc' = "ask" /\ remaining' = NrOfPeers
    /\ UNCHANGED <<s, lastResponse>>

\* Mutant of popPeerIPs: the peers stay on the list.
popPeerIPsKeeps == remaining

\* The peers left when the next batch is taken off the list.
popPeerIPs == remaining - GetNextBatchSize(NrOfPeers, remaining)

\* One batch, none of which answers; after the last one the silence is measured.
AskBatch ==
    /\ pc = "ask"
    /\ \E call \in Unanswered : now' = now + call
    /\ remaining' = popPeerIPs
    /\ batches' = batches + 1
    /\ pc' = CASE remaining' > 0 -> "ask"
               [] remaining' <= 0 /\ now' <= lastResponse + MaxTimeForNoPeersResponse(s) ->
                    IF s.controlPlane THEN "confirm" ELSE "wait"
               [] remaining' <= 0 /\ now' > lastResponse + MaxTimeForNoPeersResponse(s) ->
                    IF s.controlPlane THEN "isolated" ELSE "reboot"
    /\ UNCHANGED <<s, first, errorCount, lastResponse>>

\* A control plane node contacts its control plane peers in every check that
\* failed, and reboots when it gets no answer after the workers gave none.
Confirm ==
    /\ pc \in {"confirm", "isolated"}
    /\ \E status \in ControlPlaneStatus : now' = now + status
    /\ pc' = IF pc = "isolated" THEN "reboot" ELSE "wait"
    /\ UNCHANGED <<s, first, errorCount, remaining, batches, lastResponse>>

Next == Check \/ AskBatch \/ Confirm

Spec == Init /\ [][Next]_vars

----------------------------------------------------------------------------

\* Types; no more peers are asked than there are (GetNextBatchSize).
TypeOK ==
    /\ s \in Situations
    /\ now \in Nat
    /\ pc \in {"wait", "ask", "confirm", "isolated", "reboot"}
    /\ first \in BOOLEAN
    /\ errorCount \in 0 .. s.threshold
    /\ remaining \in 0 .. NrOfPeers
    /\ batches \in 0 .. NrOfPeers
    /\ lastResponse \in Int

\* The time after which a node is taken to have rebooted includes what the node
\* needs to reach the conclusion that it is unhealthy, its watchdog's timeout and
\* the time to reboot (GetRebootDuration).
DetectedInTime == now + WatchdogTimeout(s) + RebootBuffer <= GetRebootDuration(s)

\* How long a batch, contacting the control plane peers, and a failed call of the API
\* server with the wait before it take at most.
BatchTime(t) == t.dial + getEffectivePeerRequestTimeout(t)
StatusTime(t) == IF t.controlPlane THEN 2 * BatchTime(t) + t.apiTimeout ELSE 0
CheckTime(t) == t.interval + t.apiTimeout + StatusTime(t)

\* When an agent begins to ask the peers for the last time: it counts errors up to the
\* threshold, or it has asked before, too early to be sure, and makes one more check.
AskedBy(t) ==
    Larger((t.threshold - 1) * (CheckTime(t) + StatusTime(t)),
           MaxTimeForNoPeersResponse(t) + StatusTime(t)) + CheckTime(t)

\* When it has asked them all and, on a control plane node, those there as well.
SlowestTime(t) == AskedBy(t) + GetNrOfBatches(t.peers) * BatchTime(t) + StatusTime(t)

\* A node that is cut off reboots by SlowestTime, wherever its check was at that time.
SlowestDetection == now <= SlowestTime(s)

\* A check that asks all the peers it knows (popPeerIPs) asks three first and then equal
\* shares of the others, in as many batches as GetNrOfBatches returns for that number of
\* peers. (The manager calls it with the number of workers instead.) There are never
\* more than 14, though MaxNrOfBatchesAfterFirst is 10.
BatchesAsCounted ==
    LET others == NrOfPeers - MinNrOfNodesInBatch
        share == LaterBatch(NrOfPeers)
    IN  pc = "reboot" /\ ~first =>
           /\ batches = IF others <= 0 THEN 1 ELSE 1 + (others + share - 1) \div share
           /\ batches = GetNrOfBatches(NrOfPeers)
           /\ batches <= 14

\* The situations in which the calculation is sufficient for a worker node: among others,
\* those in which the peers it knows take no more batches than the workers would.
Covered(t) ==
    /\ ~t.controlPlane
    /\ validatePeerTimeoutSafety(t)
    /\ GetNrOfBatches(t.peers) <= GetNrOfBatches(t.workers)
    /\ LET asking == GetNrOfBatches(t.workers) * (t.dial + t.request)
           silence == MaxTimeForNoPeersResponse(t)
       IN  (IF asking < silence THEN asking ELSE silence)
             <= (t.threshold - 1) * (t.interval + t.apiTimeout)

\* And those in which the time that is configured is.
Configured(t) == t.safeTime >= SlowestTime(t) + WatchdogTimeout(t) + RebootBuffer
=============================================================================
