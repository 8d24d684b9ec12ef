------------------------------ MODULE ApiCheck ------------------------------
(***************************************************************************)
(* The API connectivity check of one agent: it polls the API server's      *)
(* readyz endpoint and, when that fails often enough, asks its worker      *)
(* peers, batch by batch, whether an SNR exists for this node. An agent on *)
(* a control plane node also asks its control plane peers, at first even   *)
(* when readyz succeeds, and runs diagnostics on itself.                   *)
(*                                                                         *)
(* Peers answer according to the state of the link to them and of the      *)
(* cluster at the step in which their batch is asked. The cluster changes  *)
(* between steps.                                                          *)
(***************************************************************************)
EXTENDS Batches, Matching, FiniteSets, Sequences, SequencesExt

CONSTANTS
    Setups,                     \* name -> a node and its cluster, see below
    NodeRef,                    \* Machine -> its node
    MaxErrorsThreshold,
    MaxTimeForNoPeersResponse   \* in ticks

VARIABLES
    setup,         \* which of Setups
    link,          \* of each peer
    readyz,        \* the API server answers this node
    snr,           \* the SNR for this node exists
    self,          \* what the diagnostics find on this node
    workersKnown,  \* the cache of Peers holds the worker peers, or is empty
    cpAddresses,   \* what Peers has cached of the control plane peers
    errorCount,    \* kept up to the threshold, see Counted
    silence,       \* ticks since timeOfLastPeerResponse, up to the limit plus one
    check,         \* where the check is
    votes,         \* who gave which answer in this check
    rebooted,      \* Rebooter.Reboot was called
    changes

cluster == <<setup, link, readyz, snr, self, workersKnown, cpAddresses, changes>>
vars == <<cluster, errorCount, silence, check, votes, rebooted>>

\* What a setup fixes: the cached worker peers, in the order they are asked, and the
\* other control plane nodes; whether this is a control plane node; the SNR that may be
\* created for it, and the ones for other nodes that exist; and MyMachineName.
WorkerPeers == Setups[setup].workerPeers
ControlPlanePeers == Setups[setup].controlPlanePeers
IsControlPlane == Setups[setup].isControlPlane
MinPeersForRemediation == Setups[setup].minPeers
MaxChanges == Setups[setup].maxChanges  \* bound: changes of the cluster
MyNodeName == "n1"
MySNR == Setups[setup].ownSNR
SNRs == Setups[setup].otherSNRs \cup IF snr THEN {MySNR} ELSE {}

\* An SNR is meant for another node: its Machine, if it has one, is that of another node,
\* and one that was not created for a Machine names another node.
ForAnotherNode(o) ==
    /\ "Machine" \in o.owners => o.machine \in DOMAIN NodeRef /\ NodeRef[o.machine] # MyNodeName
    /\ ("Machine" \notin o.owners \/ "NodeHealthCheck" \in o.owners) =>
          MyNodeName # IF o.annotation = NoName THEN o.name ELSE o.annotation

\* What a node takes for its Machine is its Machine, or is not known.
OfThisNode(machineName) ==
    machineName # NoName => machineName \in DOMAIN NodeRef /\ NodeRef[machineName] = MyNodeName

\* A peer is an entry of one of the two caches of addresses: a node that has both roles
\* counts as two peers, which may be reached and asked at different times.
ASSUME CheckAssumption ==
    /\ \A n \in DOMAIN Setups : LET s == Setups[n] IN
          /\ s.workerPeers \in Seq(ToSet(s.workerPeers)) /\ IsInjective(s.workerPeers)
          /\ ToSet(s.workerPeers) \cap s.controlPlanePeers = {}
          /\ s.isControlPlane \in BOOLEAN
          /\ s.minPeers \in Nat /\ s.maxChanges \in Nat
          /\ \A o \in s.otherSNRs : ForAnotherNode(o)
          /\ OfThisNode(s.machineName)
    /\ NoName \notin DOMAIN NodeRef
    /\ MaxErrorsThreshold \in Nat \ {0} /\ MaxTimeForNoPeersResponse \in Nat

Peers == ToSet(WorkerPeers) \cup ControlPlanePeers

\* The link to a peer works; the peer has no access to the API server; it cannot read
\* the Machines; it cannot be reached.
Links == {"ok", "noApi", "noMachines", "down"}

Answers == {"Healthy", "Unhealthy", "ApiError", "RequestFailed"}

Reasons == {"none", "UnHealthyBecausePeersResponse", "UnHealthyBecauseNodeIsIsolated",
            "HealthyBecauseErrorsThresholdNotReached", "HealthyBecauseCRNotFound",
            "HealthyBecauseNoPeersResponseNotReachedTimeout",
            "HealthyBecauseMostPeersCantAccessAPIServer", "HealthyBecauseNoPeersWereFound"}

\* pc: "idle"; "batch", asking toAsk; "dial", asking the control plane peers, first
\* (because readyz is not to be trusted) or second (to decide); "refresh"; "redial";
\* "peersExist", looking up how many there are, after none of them was reached.
CheckState ==
    [pc : {"idle", "batch", "dial", "refresh", "redial", "peersExist"}, first : BOOLEAN,
     toAsk : Seq(ToSet(WorkerPeers)), reason : Reasons]

Waiting == [pc |-> "idle", first |-> FALSE, toAsk |-> <<>>, reason |-> "none"]

NoVotes == [a \in Answers |-> {}]

Init ==
    /\ setup \in DOMAIN Setups
    /\ link = [p \in Peers |-> "ok"] /\ readyz = TRUE /\ snr = FALSE
    /\ self \in [wasEndpointAccessibleAtStart : BOOLEAN, endpoint : {TRUE}, kubelet : {TRUE}]
    /\ workersKnown = TRUE /\ cpAddresses = "current" /\ changes = 0
    /\ errorCount = 0 /\ silence = 0
    /\ check = Waiting /\ votes = NoVotes /\ rebooted = FALSE

-----------------------------------------------------------------------------
(* The answer of a peer: its IsHealthy handler, or a failure to get one. *)

\* The Machines as a peer reads them.
Unreadable == [m \in DOMAIN NodeRef |-> NoName]
NodeRefAt(p) == IF link[p] = "noMachines" THEN Unreadable ELSE NodeRef

IsHealthy(p) ==
    CASE link[p] = "down" -> "RequestFailed"
      [] link[p] = "noApi" -> "ApiError"
      [] OTHER -> IF \E s \in SNRs : IsSNRMatching(s, MyNodeName, Setups[setup].machineName, NodeRefAt(p))
                  THEN "Unhealthy" ELSE "Healthy"

getHealthStatusFromPeers(peers) == [a \in Answers |-> {p \in peers : IsHealthy(p) = a}]

\* The answers of this check so far and these.
With(answers) == [a \in Answers |-> votes[a] \cup answers[a]]

Responses(answers) == answers["Healthy"] \cup answers["Unhealthy"] \cup answers["ApiError"]

-----------------------------------------------------------------------------
(* isConsideredHealthy. *)

Decide(healthy) == check' = Waiting /\ rebooted' = ~healthy

\* What getWorkerPeersResponse returns: a worker decides by it, a control plane node
\* goes on to ask its own peers.
WorkerResponse(reason) ==
    IF IsControlPlane
      THEN /\ check' = [Waiting EXCEPT !.pc = "dial", !.reason = reason]
           /\ UNCHANGED rebooted
      ELSE /\ check' = Waiting
           /\ rebooted' = (reason \in {"UnHealthyBecausePeersResponse",
                                       "UnHealthyBecauseNodeIsIsolated"})

\* The code counts on, and compares the count with the threshold only: beyond that, all
\* counts are one to the model.
Counted(count) == IF count < MaxErrorsThreshold THEN count ELSE MaxErrorsThreshold

\* Mutant of KnownWorkers: the addresses of the other role.
KnownOfOtherRole == SetToSeq(ControlPlanePeers)

\* GetPeersAddresses(Worker).
KnownWorkers == IF workersKnown THEN WorkerPeers ELSE <<>>

\* getWorkerPeersResponse up to the first batch.
getWorkerPeersResponse ==
    LET count == errorCount + 1 IN
    /\ errorCount' = Counted(count)
    /\ CASE count < MaxErrorsThreshold ->
              WorkerResponse("HealthyBecauseErrorsThresholdNotReached")
         [] count >= MaxErrorsThreshold /\ Len(KnownWorkers) < MinPeersForRemediation ->
              WorkerResponse("HealthyBecauseNoPeersWereFound")
         [] count >= MaxErrorsThreshold /\ Len(KnownWorkers) >= MinPeersForRemediation ->
              IF KnownWorkers = <<>>
                THEN WorkerResponse("UnHealthyBecauseNodeIsIsolated")
                ELSE /\ check' = [Waiting EXCEPT !.pc = "batch", !.toAsk = KnownWorkers]
                     /\ UNCHANGED rebooted

\* Mutant of BatchVerdict: one unhealthy answer outweighs a healthy one.
BatchVerdictUnhealthyFirst(answers, sum) ==
    CASE answers["Unhealthy"] # {} -> "UnHealthyBecausePeersResponse"
      [] answers["Healthy"] # {} -> "HealthyBecauseCRNotFound"
      [] answers["ApiError"] # {} /\ Cardinality(sum) > Len(WorkerPeers) \div 2 ->
           "HealthyBecauseMostPeersCantAccessAPIServer"
      [] OTHER -> "none"

\* What a batch's answers decide, given all API errors so far.
BatchVerdict(answers, sum) ==
    CASE answers["Healthy"] # {} -> "HealthyBecauseCRNotFound"
      [] answers["Healthy"] = {} /\ answers["Unhealthy"] # {} -> "UnHealthyBecausePeersResponse"
      [] answers["Healthy"] = {} /\ answers["Unhealthy"] = {} /\ answers["ApiError"] # {}
         /\ Cardinality(sum) > Len(WorkerPeers) \div 2 ->
           "HealthyBecauseMostPeersCantAccessAPIServer"
      [] OTHER -> "none"

\* Mutant of popPeerIPs: the last one of the batch stays on the list.
popPeerIPsShort(toAsk, size) == SubSeq(toAsk, size, Len(toAsk))

\* Those who are left on the list of peers once a batch is taken from it.
popPeerIPs(toAsk, size) == SubSeq(toAsk, size + 1, Len(toAsk))

\* now.After(timeOfLastPeerResponse + MaxTimeForNoPeersResponse)
WasSilent(age) == age > MaxTimeForNoPeersResponse

\* One iteration of the loop over batches, and what follows the last one.
AskBatch ==
    /\ ~rebooted /\ check.pc = "batch"
    /\ LET size == GetNextBatchSize(Len(WorkerPeers), Len(check.toAsk))
           answers == getHealthStatusFromPeers(ToSet(SubSeq(check.toAsk, 1, size)))
           rest == popPeerIPs(check.toAsk, size)
           sum == (votes["ApiError"] \cup answers["ApiError"]) \ ControlPlanePeers
           verdict == BatchVerdict(answers, sum)
           age == IF Responses(answers) # {} THEN 0 ELSE silence
       IN  /\ votes' = With(answers)
           /\ silence' = age
           /\ errorCount' = IF verdict = "HealthyBecauseCRNotFound" THEN 0 ELSE errorCount
           /\ CASE verdict # "none" -> WorkerResponse(verdict)
                [] verdict = "none" /\ rest # <<>> ->
                     check' = [check EXCEPT !.toAsk = rest] /\ UNCHANGED rebooted
                [] verdict = "none" /\ rest = <<>> ->
                     WorkerResponse(IF WasSilent(age)
                                      THEN "UnHealthyBecauseNodeIsIsolated"
                                      ELSE "HealthyBecauseNoPeersResponseNotReachedTimeout")
    /\ UNCHANGED cluster

isEndpointAccessLost == self.wasEndpointAccessibleAtStart /\ ~self.endpoint

isDiagnosticsPassed == ~isEndpointAccessLost /\ self.kubelet

\* Mutant of IsControlPlaneHealthy: an isolated control plane node is always unhealthy.
IsControlPlaneHealthyAlone(reason, canBeReached) ==
    CASE reason \in {"UnHealthyBecausePeersResponse", "UnHealthyBecauseNodeIsIsolated"} -> FALSE
      [] reason = "HealthyBecauseMostPeersCantAccessAPIServer" -> isDiagnosticsPassed
      [] reason = "HealthyBecauseNoPeersWereFound" -> isDiagnosticsPassed /\ canBeReached
      [] OTHER -> TRUE

IsControlPlaneHealthy(reason, canBeReached) ==
    CASE reason = "UnHealthyBecausePeersResponse" -> FALSE
      [] reason = "UnHealthyBecauseNodeIsIsolated" -> canBeReached
      [] reason = "HealthyBecauseMostPeersCantAccessAPIServer" -> isDiagnosticsPassed
      [] reason = "HealthyBecauseNoPeersWereFound" -> isDiagnosticsPassed /\ canBeReached
      [] OTHER -> TRUE

\* Mutant of ControlPlaneStatus: a successful readyz is trusted.
ControlPlaneStatusTrusting(canBeReached, unhealthy) ==
    IF ~check.first
      THEN /\ Decide(~unhealthy /\ IsControlPlaneHealthy(check.reason, canBeReached))
           /\ UNCHANGED errorCount
      ELSE Decide(~unhealthy) /\ errorCount' = IF unhealthy THEN errorCount ELSE 0

\* What follows getControlPlanePeersStatus: the end of isConsideredHealthy, or the
\* part of Start that verifies a successful readyz.
ControlPlaneStatus(canBeReached, unhealthy) ==
    IF ~check.first
      THEN /\ Decide(~unhealthy /\ IsControlPlaneHealthy(check.reason, canBeReached))
           /\ UNCHANGED errorCount
      ELSE CASE unhealthy -> Decide(FALSE) /\ UNCHANGED errorCount
             [] ~unhealthy /\ ~canBeReached ->
                  check' = [check EXCEPT !.pc = "peersExist"] /\ UNCHANGED <<errorCount, rebooted>>
             [] ~unhealthy /\ canBeReached -> Decide(TRUE) /\ errorCount' = 0

\* dialControlPlanePeers: only current addresses lead to anybody.
Dial ==
    /\ ~rebooted /\ check.pc \in {"dial", "redial"}
    /\ LET answers == getHealthStatusFromPeers(IF cpAddresses = "current" THEN ControlPlanePeers
                                                                          ELSE {})
           canBeReached == Responses(answers) # {}
       IN  /\ votes' = With(answers)
           /\ IF ~canBeReached /\ check.pc = "dial"
                THEN check' = [check EXCEPT !.pc = "refresh"] /\ UNCHANGED <<errorCount, rebooted>>
                ELSE ControlPlaneStatus(canBeReached, answers["Unhealthy"] # {})
    /\ UNCHANGED <<cluster, silence>>

\* RefreshControlPlanePeersForIsolationCheck: it fails, or it reads the addresses, or
\* reads none and keeps what there is. Its requests may fare otherwise than the one to
\* readyz did.
Refresh ==
    /\ ~rebooted /\ check.pc = "refresh"
    /\ \/ ControlPlaneStatus(FALSE, FALSE) /\ UNCHANGED cpAddresses
       \/ /\ cpAddresses' \in {cpAddresses, "current"}
          /\ check' = [check EXCEPT !.pc = "redial"]
          /\ UNCHANGED <<errorCount, rebooted>>
    /\ UNCHANGED <<votes, setup, link, readyz, snr, self, workersKnown, changes, silence>>

\* After a successful readyz, no control plane peer was reached: that is a failure if
\* there are any in the cache by now.
PeersExist ==
    /\ ~rebooted /\ check.pc = "peersExist"
    /\ IF cpAddresses # "none" THEN getWorkerPeersResponse ELSE Decide(TRUE) /\ errorCount' = 0
    /\ UNCHANGED <<cluster, silence, votes>>

isControlPlane == IsControlPlane

\* An iteration of Start up to its first request to a peer.
StartCheck ==
    /\ ~rebooted /\ check.pc = "idle"
    /\ votes' = NoVotes
    /\ CASE ~readyz -> getWorkerPeersResponse
         [] readyz /\ isControlPlane ->
              /\ check' = [Waiting EXCEPT !.pc = "dial", !.first = TRUE]
              /\ UNCHANGED <<errorCount, rebooted>>
         [] readyz /\ ~isControlPlane ->
              /\ errorCount' = 0
              /\ UNCHANGED <<check, rebooted>>
    /\ UNCHANGED <<cluster, silence>>
-----------------------------------------------------------------------------
(* The cluster and time. *)

Change ==
    /\ ~rebooted /\ changes < MaxChanges /\ changes' = changes + 1
    /\ UNCHANGED <<setup, errorCount, silence, check, votes, rebooted>>

\* A link, all links or the API server as seen from here change; NHC creates or deletes
\* an SNR.
ClusterChanges ==
    /\ \/ /\ \E p \in Peers, l \in Links : link' = [link EXCEPT ![p] = l]
          /\ UNCHANGED <<readyz, snr>>
       \/ /\ \E l \in {"ok", "down"} : link' = [p \in Peers |-> l]
          /\ UNCHANGED <<readyz, snr>>
       \/ readyz' = ~readyz /\ UNCHANGED <<link, snr>>
       \/ snr' = ~snr /\ UNCHANGED <<link, readyz>>
    /\ UNCHANGED <<self, workersKnown, cpAddresses>>
    /\ Change

SelfChanges ==
    /\ IsControlPlane
    /\ \/ self' = [self EXCEPT !.endpoint = ~@]
       \/ self' = [self EXCEPT !.kubelet = ~@]
    /\ UNCHANGED <<link, readyz, snr, workersKnown, cpAddresses>>
    /\ Change

\* The caches of Peers: an update may find no peer, a rollout of the DaemonSet moves
\* them to new addresses.
PeersChange ==
    /\ \/ workersKnown' = ~workersKnown /\ UNCHANGED cpAddresses
       \/ IsControlPlane /\ cpAddresses' \in {"none", "stale", "current"} /\ UNCHANGED workersKnown
    /\ UNCHANGED <<link, readyz, snr, self>>
    /\ Change

Later(age) == IF age > MaxTimeForNoPeersResponse THEN age ELSE age + 1

Tick ==
    /\ ~rebooted
    /\ silence' = Later(silence)
    /\ UNCHANGED <<cluster, errorCount, check, votes, rebooted>>

Next ==
    \/ StartCheck \/ AskBatch \/ Dial \/ Refresh \/ PeersExist
    \/ ClusterChanges \/ SelfChanges \/ PeersChange \/ Tick

Spec == Init /\ [][Next]_vars

\* The check goroutine runs and time passes.
FairSpec ==
    Spec /\ WF_vars(StartCheck \/ AskBatch \/ Dial \/ Refresh \/ PeersExist) /\ WF_vars(Tick)

-----------------------------------------------------------------------------
(* Properties. *)

\* Every variable has its type: among others, the peers that the check is to ask as
\* workers are workers.
TypeOK ==
    /\ setup \in DOMAIN Setups /\ link \in [Peers -> Links] /\ readyz \in BOOLEAN /\ snr \in BOOLEAN
    /\ self \in [wasEndpointAccessibleAtStart : BOOLEAN, endpoint : BOOLEAN, kubelet : BOOLEAN]
    /\ workersKnown \in BOOLEAN /\ cpAddresses \in {"none", "stale", "current"}
    /\ errorCount \in Nat /\ silence \in 0 .. MaxTimeForNoPeersResponse + 1
    /\ check \in CheckState
    /\ votes \in [Answers -> SUBSET Peers] /\ rebooted \in BOOLEAN /\ changes \in Nat

\* Nobody is asked twice in a check (popPeerIPs), a control plane peer excepted: those
\* left to ask have not answered, and a worker peer has given one answer. So more than
\* half of the peers stand behind a count of answers that is more than half of them,
\* whatever happens between the batches.
AskedOnce ==
    /\ \A a \in Answers : votes[a] \cap ToSet(check.toAsk) = {}
    /\ \A a, b \in Answers : a # b => votes[a] \cap votes[b] \subseteq ControlPlanePeers

Reboots == ~rebooted /\ rebooted'

\* A worker node reboots itself only after a check in which no peer called it healthy
\* and either a peer knows an SNR for it or no peer has answered for too long, or there
\* was no peer to ask.
WorkerRebootIsJustified ==
    [][Reboots /\ ~IsControlPlane =>
         /\ votes'["Healthy"] = {}
         /\ votes'["Unhealthy"] # {} \/ silence' > MaxTimeForNoPeersResponse \/ KnownWorkers = <<>>]_vars

\* A control plane node that some other control plane node answered reboots only when
\* a peer knows an SNR for it or its own diagnostics fail.
ControlPlaneRebootIsJustified ==
    [][Reboots /\ IsControlPlane /\ Responses(votes') \cap ControlPlanePeers # {} =>
         votes'["Unhealthy"] # {} \/ ~isDiagnosticsPassed]_vars

EnoughPeers == workersKnown /\ Len(WorkerPeers) >= MinPeersForRemediation

\* A worker peer can tell the node of its SNR, no peer misjudges it and at most half of
\* the workers lack API access themselves.
ToldUnhealthy ==
    /\ ~readyz /\ EnoughPeers
    /\ \E p \in ToSet(WorkerPeers) : IsHealthy(p) = "Unhealthy"
    /\ \A p \in Peers : IsHealthy(p) # "Healthy"
    /\ 2 * Cardinality({p \in ToSet(WorkerPeers) : link[p] = "noApi"}) <= Len(WorkerPeers)

Alone == \A p \in Peers : link[p] = "down"

\* No peer can be reached, and the node knows that there should be some. The API server
\* of a control plane node may answer all the same.
Isolated ==
    /\ Alone
    /\ \/ ~readyz /\ EnoughPeers
       \/ IsControlPlane /\ cpAddresses # "none"

\* A node reboots itself if, from some time on, its peers know of its SNR and it has no
\* API access, or it is isolated.
CutOffNodeReboots == <>[](ToldUnhealthy \/ Isolated) => <>rebooted

\* Peers call the node unhealthy only while there is an SNR for it, never because of the
\* SNR of another node, whatever Machines they can read (IsHealthy, IsSNRMatching).
UnhealthyMeansOwnSNR ==
    [][votes'["Unhealthy"] \subseteq votes["Unhealthy"] \/ snr]_vars
=============================================================================
