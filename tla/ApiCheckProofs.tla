--------------------------- MODULE ApiCheckProofs ---------------------------
(***************************************************************************)
(* Theorems about ApiCheck, for any clusters, any number of peers, any     *)
(* thresholds and any changes of the links, of the API server and of the   *)
(* caches during a check: a node that reboots itself has its reasons, and  *)
(* no peer takes the SNR of another node for its own.                      *)
(***************************************************************************)
EXTENDS ApiCheck, SequenceTheorems, TLAPS

\* What the answers so far and the place of the check have to do with each other.
\* A worker node never asks control plane peers, and a healthy answer ends its check;
\* a control plane peer that answers ends the check, so that nobody who is still
\* checking has heard from one; the verdict of the worker peers is backed by a vote.
VotesInv ==
    /\ ~IsControlPlane => check.pc \in {"idle", "batch"}
    /\ ~IsControlPlane /\ check.pc = "batch" => votes["Healthy"] = {}
    /\ check.pc # "idle" => Responses(votes) \cap ControlPlanePeers = {}
    /\ check.pc = "idle" => check.reason = "none"
    /\ check.reason = "UnHealthyBecausePeersResponse" => votes["Unhealthy"] # {}

AInv == TypeOK /\ VotesInv

-----------------------------------------------------------------------------
\* What a setup is like,
LEMMA SetupFacts ==
    ASSUME setup \in DOMAIN Setups
    PROVE  /\ WorkerPeers \in Seq(ToSet(WorkerPeers)) /\ Len(WorkerPeers) \in Nat
           /\ ToSet(WorkerPeers) \cap ControlPlanePeers = {}
           /\ ToSet(WorkerPeers) \subseteq Peers /\ ControlPlanePeers \subseteq Peers
           /\ IsControlPlane \in BOOLEAN
           /\ MinPeersForRemediation \in Nat
           /\ \A o \in Setups[setup].otherSNRs : ForAnotherNode(o)
           /\ OfThisNode(Setups[setup].machineName)
<1>1. /\ WorkerPeers \in Seq(ToSet(WorkerPeers)) /\ ToSet(WorkerPeers) \cap ControlPlanePeers = {}
      /\ IsControlPlane \in BOOLEAN /\ MinPeersForRemediation \in Nat
      /\ \A o \in Setups[setup].otherSNRs : ForAnotherNode(o)
      /\ OfThisNode(Setups[setup].machineName)
  BY CheckAssumption DEF WorkerPeers, ControlPlanePeers, IsControlPlane, MinPeersForRemediation
<1>2. Len(WorkerPeers) \in Nat
  BY <1>1, LenProperties
<1> QED BY <1>1, <1>2 DEF Peers

\* and that it never changes.
LEMMA SetupFixed ==
    ASSUME UNCHANGED setup
    PROVE  /\ UNCHANGED <<WorkerPeers, ControlPlanePeers, IsControlPlane, Peers, CheckState>>
BY DEF WorkerPeers, ControlPlanePeers, IsControlPlane, Peers, CheckState

\* The forms that a check takes are of its type.
LEMMA CheckStates ==
    ASSUME setup \in DOMAIN Setups
    PROVE  /\ Waiting \in CheckState /\ Waiting.pc = "idle" /\ Waiting.reason = "none"
           /\ \A r \in Reasons, first \in BOOLEAN :
                LET c == [Waiting EXCEPT !.pc = "dial", !.first = first, !.reason = r]
                IN  c \in CheckState /\ c.pc = "dial" /\ c.reason = r
           /\ \A r \in Reasons :
                LET c == [Waiting EXCEPT !.pc = "dial", !.reason = r]
                IN  c \in CheckState /\ c.pc = "dial" /\ c.reason = r
           /\ \A q \in Seq(ToSet(WorkerPeers)) :
                LET c == [Waiting EXCEPT !.pc = "batch", !.toAsk = q]
                IN  c \in CheckState /\ c.pc = "batch" /\ c.reason = "none"
<1>1. <<>> \in Seq(ToSet(WorkerPeers))
  BY EmptySeq
<1>2. Waiting \in CheckState /\ Waiting.pc = "idle" /\ Waiting.reason = "none"
  BY <1>1 DEF Waiting, CheckState, Reasons
<1>3. ASSUME NEW r \in Reasons, NEW first \in BOOLEAN
      PROVE  LET c == [Waiting EXCEPT !.pc = "dial", !.first = first, !.reason = r]
             IN  c \in CheckState /\ c.pc = "dial" /\ c.reason = r
  BY Zenon, <1>1 DEF Waiting, CheckState
<1>4. ASSUME NEW r \in Reasons
      PROVE  LET c == [Waiting EXCEPT !.pc = "dial", !.reason = r]
             IN  c \in CheckState /\ c.pc = "dial" /\ c.reason = r
  BY Zenon, <1>1 DEF Waiting, CheckState
<1>5. ASSUME NEW q \in Seq(ToSet(WorkerPeers))
      PROVE  LET c == [Waiting EXCEPT !.pc = "batch", !.toAsk = q]
             IN  c \in CheckState /\ c.pc = "batch" /\ c.reason = "none"
  BY Zenon DEF Waiting, CheckState, Reasons
<1> QED BY <1>2, <1>3, <1>4, <1>5, Zenon

\* The verdict of the worker peers reboots a worker node only.
LEMMA WorkerResponseFacts ==
    ASSUME TypeOK, NEW r \in Reasons, WorkerResponse(r)
    PROVE  /\ check' \in CheckState /\ rebooted' \in BOOLEAN
           /\ IsControlPlane => check'.pc = "dial" /\ check'.reason = r /\ UNCHANGED rebooted
           /\ ~IsControlPlane =>
                /\ check'.pc = "idle" /\ check'.reason = "none"
                /\ rebooted' => r \in {"UnHealthyBecausePeersResponse", "UnHealthyBecauseNodeIsIsolated"}
<1>1. setup \in DOMAIN Setups /\ rebooted \in BOOLEAN
  BY DEF TypeOK
<1>2. CASE IsControlPlane
  <2>1. check' = [Waiting EXCEPT !.pc = "dial", !.reason = r] /\ UNCHANGED rebooted
    BY <1>2 DEF WorkerResponse
  <2>2. check' \in CheckState /\ check'.pc = "dial" /\ check'.reason = r
    BY <1>1, <2>1, CheckStates, Zenon
  <2> QED BY <1>1, <1>2, <2>1, <2>2
<1>3. CASE ~IsControlPlane
  <2> DEFINE Unhealthy == r \in {"UnHealthyBecausePeersResponse", "UnHealthyBecauseNodeIsIsolated"}
  <2>1. check' = Waiting /\ rebooted' = Unhealthy /\ Unhealthy \in BOOLEAN
    BY <1>3 DEF WorkerResponse
  <2> HIDE DEF Unhealthy
  <2>2. check' \in CheckState /\ check'.pc = "idle" /\ check'.reason = "none"
    BY <1>1, <2>1, CheckStates, Zenon
  <2>3. rebooted' \in BOOLEAN /\ (rebooted' => Unhealthy)
    BY <2>1
  <2> QED BY <1>3, <2>2, <2>3, Zenon DEF Unhealthy
<1> QED BY <1>2, <1>3

\* Before the first batch, a worker node reboots only if it has no peer to ask.
LEMMA WorkerPeersFacts ==
    ASSUME TypeOK, getWorkerPeersResponse
    PROVE  /\ errorCount' \in Nat
           /\ check' \in CheckState /\ rebooted' \in BOOLEAN
           /\ check'.reason # "UnHealthyBecausePeersResponse"
           /\ check'.pc = "idle" => check'.reason = "none"
           /\ IsControlPlane => UNCHANGED rebooted
           /\ ~IsControlPlane => check'.pc \in {"idle", "batch"}
           /\ Reboots => KnownWorkers = <<>>
<1>1. setup \in DOMAIN Setups /\ rebooted \in BOOLEAN /\ errorCount \in Nat
  BY DEF TypeOK
<1>2. errorCount' \in Nat
  BY <1>1, CheckAssumption DEF getWorkerPeersResponse, Counted
<1>3. ASSUME NEW r \in Reasons, WorkerResponse(r), r # "UnHealthyBecausePeersResponse",
             r = "UnHealthyBecauseNodeIsIsolated" => KnownWorkers = <<>>
      PROVE  /\ check' \in CheckState /\ rebooted' \in BOOLEAN
             /\ check'.reason # "UnHealthyBecausePeersResponse"
             /\ check'.pc = "idle" => check'.reason = "none"
             /\ IsControlPlane => UNCHANGED rebooted
             /\ ~IsControlPlane => check'.pc \in {"idle", "batch"}
             /\ Reboots => KnownWorkers = <<>>
  BY <1>3, WorkerResponseFacts DEF Reboots
<1>4. CASE WorkerResponse("HealthyBecauseErrorsThresholdNotReached")
  BY <1>2, <1>3, <1>4 DEF Reasons
<1>5. CASE WorkerResponse("HealthyBecauseNoPeersWereFound")
  BY <1>2, <1>3, <1>5 DEF Reasons
<1>6. CASE WorkerResponse("UnHealthyBecauseNodeIsIsolated") /\ KnownWorkers = <<>>
  BY <1>2, <1>3, <1>6 DEF Reasons
<1>7. CASE check' = [Waiting EXCEPT !.pc = "batch", !.toAsk = KnownWorkers] /\ UNCHANGED rebooted
  <2>1. KnownWorkers \in Seq(ToSet(WorkerPeers))
    BY <1>1, SetupFacts, EmptySeq DEF KnownWorkers
  <2>2. check' \in CheckState /\ check'.pc = "batch" /\ check'.reason = "none"
    BY Zenon, <1>1, <1>7, <2>1, CheckStates
  <2> QED BY <1>1, <1>2, <1>7, <2>2 DEF Reboots
<1>8. errorCount + 1 < MaxErrorsThreshold \/ errorCount + 1 >= MaxErrorsThreshold
  BY <1>1, CheckAssumption
<1>9. \/ Len(KnownWorkers) < MinPeersForRemediation
      \/ Len(KnownWorkers) >= MinPeersForRemediation
  <2>1. Len(KnownWorkers) \in Nat
    BY <1>1, SetupFacts, EmptySeq DEF KnownWorkers
  <2> QED BY <1>1, <2>1, SetupFacts
<1> QED BY Zenon, <1>4, <1>5, <1>6, <1>7, <1>8, <1>9 DEF getWorkerPeersResponse

\* The answers to a request are those of the peers that were asked, each of which gives
\* one answer.
LEMMA AnswersFacts ==
    ASSUME NEW peers \in SUBSET Peers
    PROVE  /\ getHealthStatusFromPeers(peers) \in [Answers -> SUBSET Peers]
           /\ \A a \in Answers : getHealthStatusFromPeers(peers)[a] \subseteq peers
           /\ Responses(getHealthStatusFromPeers(peers)) \subseteq peers
BY DEF getHealthStatusFromPeers, Answers, Responses

\* Answers are added to those a check has.
LEMMA WithFacts ==
    ASSUME votes \in [Answers -> SUBSET Peers], NEW answers \in [Answers -> SUBSET Peers],
           votes' = With(answers)
    PROVE  /\ votes' \in [Answers -> SUBSET Peers]
           /\ \A a \in Answers : votes'[a] = votes[a] \cup answers[a]
           /\ Responses(votes') = Responses(votes) \cup Responses(answers)
<1>1. votes' \in [Answers -> SUBSET Peers] /\ \A a \in Answers : votes'[a] = votes[a] \cup answers[a]
  BY DEF With
<1>2. {"Healthy", "Unhealthy", "ApiError"} \subseteq Answers
  BY DEF Answers
<1> QED BY <1>1, <1>2 DEF Responses

\* What a verdict says of the answers.
LEMMA VerdictFacts ==
    ASSUME NEW answers, NEW sum
    PROVE  LET verdict == BatchVerdict(answers, sum) IN
           /\ verdict \in Reasons /\ verdict # "UnHealthyBecauseNodeIsIsolated"
           /\ verdict = "UnHealthyBecausePeersResponse" =>
                answers["Healthy"] = {} /\ answers["Unhealthy"] # {}
           /\ verdict = "none" => answers["Healthy"] = {}
<1>1. CASE answers["Healthy"] # {}
  BY <1>1 DEF BatchVerdict, Reasons
<1>2. CASE answers["Healthy"] = {} /\ answers["Unhealthy"] # {}
  BY <1>2 DEF BatchVerdict, Reasons
<1>3. CASE /\ answers["Healthy"] = {} /\ answers["Unhealthy"] = {} /\ answers["ApiError"] # {}
           /\ Cardinality(sum) > Len(WorkerPeers) \div 2
  BY <1>3 DEF BatchVerdict, Reasons
<1>4. CASE /\ answers["Healthy"] = {} /\ answers["Unhealthy"] = {}
           /\ ~(answers["ApiError"] # {} /\ Cardinality(sum) > Len(WorkerPeers) \div 2)
  BY <1>4 DEF BatchVerdict, Reasons
<1> QED BY <1>1, <1>2, <1>3, <1>4

\* The next batch is a part of the worker peers, and so are those left after it.
LEMMA BatchFacts ==
    ASSUME setup \in DOMAIN Setups, NEW toAsk \in Seq(ToSet(WorkerPeers))
    PROVE  LET size == GetNextBatchSize(Len(WorkerPeers), Len(toAsk)) IN
           /\ ToSet(SubSeq(toAsk, 1, size)) \subseteq ToSet(WorkerPeers)
           /\ popPeerIPs(toAsk, size) \in Seq(ToSet(WorkerPeers))
<1> DEFINE size == GetNextBatchSize(Len(WorkerPeers), Len(toAsk))
<1>1. Len(WorkerPeers) \in Nat /\ Len(toAsk) \in Nat
  BY SetupFacts, LenProperties
<1>2. size \in 0 .. Len(toAsk)
  BY <1>1 DEF GetNextBatchSize, LaterBatch, MinNrOfNodesInBatch, MaxNrOfBatchesAfterFirst
<1> HIDE DEF size
<1> DEFINE batch == SubSeq(toAsk, 1, size)
<1>3. batch \in Seq(ToSet(WorkerPeers))
  BY <1>1, <1>2, SubSeqProperties
<1>4. popPeerIPs(toAsk, size) \in Seq(ToSet(WorkerPeers))
  BY <1>1, <1>2, SubSeqProperties DEF popPeerIPs
<1>5. ToSet(batch) \subseteq ToSet(WorkerPeers)
  <2> HIDE DEF batch
  <2>1. \A i \in DOMAIN batch : batch[i] \in ToSet(WorkerPeers)
    BY <1>3, ElementOfSeq, LenProperties
  <2>2. \A p \in ToSet(batch) : \E i \in DOMAIN batch : p = batch[i]
    BY DEF ToSet
  <2> QED BY <2>1, <2>2
<1> QED BY <1>4, <1>5 DEF size

\* What a decision on the control plane peers' answers rests on.
LEMMA StatusFacts ==
    ASSUME TypeOK, NEW canBeReached \in BOOLEAN, NEW unhealthy \in BOOLEAN,
           IsControlPlane, ControlPlaneStatus(canBeReached, unhealthy)
    PROVE  /\ errorCount' \in Nat
           /\ check' \in CheckState /\ rebooted' \in BOOLEAN
           /\ check'.reason \in {"none", check.reason}
           /\ check'.pc = "idle" => check'.reason = "none"
           /\ check'.pc # "idle" => ~canBeReached
           /\ Reboots => \/ unhealthy \/ ~canBeReached \/ ~isDiagnosticsPassed
                         \/ check.reason = "UnHealthyBecausePeersResponse"
<1> DEFINE Goal == /\ errorCount' \in Nat
                   /\ check' \in CheckState /\ rebooted' \in BOOLEAN
                   /\ check'.reason \in {"none", check.reason}
                   /\ check'.pc = "idle" => check'.reason = "none"
                   /\ check'.pc # "idle" => ~canBeReached
                   /\ Reboots => \/ unhealthy \/ ~canBeReached \/ ~isDiagnosticsPassed
                                 \/ check.reason = "UnHealthyBecausePeersResponse"
<1>1. setup \in DOMAIN Setups /\ errorCount \in Nat
  BY CheckAssumption DEF TypeOK
<1>2. ASSUME check' = Waiting, errorCount' \in Nat, rebooted' \in BOOLEAN,
             rebooted' => \/ unhealthy \/ ~canBeReached \/ ~isDiagnosticsPassed
                          \/ check.reason = "UnHealthyBecausePeersResponse"
      PROVE  Goal
  <2>1. check' \in CheckState /\ check'.pc = "idle" /\ check'.reason = "none"
    BY <1>1, <1>2, CheckStates, Zenon
  <2> QED BY <1>2, <2>1 DEF Reboots
<1>3. CASE ~check.first
  <2> DEFINE Healthy == IsControlPlaneHealthy(check.reason, canBeReached)
  <2>1. check' = Waiting /\ rebooted' = ~(~unhealthy /\ Healthy) /\ UNCHANGED errorCount
    BY <1>3 DEF ControlPlaneStatus, Decide
  <2>2. \/ Healthy \/ ~canBeReached \/ ~isDiagnosticsPassed
        \/ check.reason = "UnHealthyBecausePeersResponse"
    BY DEF IsControlPlaneHealthy
  <2> HIDE DEF Healthy
  <2>3. rebooted' \in BOOLEAN /\ (rebooted' => unhealthy \/ ~Healthy)
    BY <2>1
  <2>4. errorCount' \in Nat
    BY <1>1, <2>1
  <2> QED BY <1>2, <2>1, <2>2, <2>3, <2>4
<1>4. CASE check.first /\ unhealthy
  <2>1. check' = Waiting /\ rebooted' = TRUE /\ UNCHANGED errorCount
    BY Zenon, <1>4 DEF ControlPlaneStatus, Decide
  <2> QED BY <1>1, <1>2, <1>4, <2>1
<1>5. CASE check.first /\ ~unhealthy /\ ~canBeReached
  <2>1. check' = [check EXCEPT !.pc = "peersExist"] /\ UNCHANGED <<errorCount, rebooted>>
    BY Zenon, <1>5 DEF ControlPlaneStatus
  <2>2. check' \in CheckState /\ check'.pc = "peersExist" /\ check'.reason = check.reason
    BY <2>1 DEF TypeOK, CheckState
  <2> QED BY <1>1, <1>5, <2>1, <2>2 DEF Reboots, TypeOK
<1>6. CASE check.first /\ ~unhealthy /\ canBeReached
  <2>1. check' = Waiting /\ rebooted' = FALSE /\ errorCount' = 0
    BY <1>6 DEF ControlPlaneStatus, Decide
  <2> QED BY Zenon, <1>1, <1>2, <2>1
<1> QED BY <1>3, <1>4, <1>5, <1>6

-----------------------------------------------------------------------------
(* The steps of a check. *)

\* What WorkerRebootIsJustified and ControlPlaneRebootIsJustified say of a step.
WorkerStep ==
    Reboots /\ ~IsControlPlane =>
         /\ votes'["Healthy"] = {}
         /\ votes'["Unhealthy"] # {} \/ silence' > MaxTimeForNoPeersResponse \/ KnownWorkers = <<>>

ControlPlaneStep ==
    Reboots /\ IsControlPlane /\ Responses(votes') \cap ControlPlanePeers # {} =>
         votes'["Unhealthy"] # {} \/ ~isDiagnosticsPassed

Justified == WorkerStep /\ ControlPlaneStep

\* A step of the check leaves the cluster alone but for the cached addresses, and the
\* new place of the check and the new votes are such that VotesInv holds.
LEMMA CheckStep ==
    ASSUME TypeOK,
           UNCHANGED <<setup, link, readyz, snr, self, workersKnown, changes>>,
           cpAddresses' \in {"none", "stale", "current"},
           errorCount' \in Nat,
           silence' \in 0 .. MaxTimeForNoPeersResponse + 1,
           check' \in CheckState, votes' \in [Answers -> SUBSET Peers], rebooted' \in BOOLEAN,
           ~IsControlPlane => check'.pc \in {"idle", "batch"},
           ~IsControlPlane /\ check'.pc = "batch" => votes'["Healthy"] = {},
           check'.pc # "idle" => Responses(votes') \cap ControlPlanePeers = {},
           check'.pc = "idle" => check'.reason = "none",
           check'.reason = "UnHealthyBecausePeersResponse" => votes'["Unhealthy"] # {}
    PROVE  AInv'
<1>1. UNCHANGED <<WorkerPeers, ControlPlanePeers, IsControlPlane, Peers, CheckState>>
  BY SetupFixed
<1>2. TypeOK'
  BY <1>1 DEF TypeOK
<1>3. VotesInv'
  BY <1>1 DEF VotesInv, Responses
<1> QED BY <1>2, <1>3 DEF AInv

\* Nobody has answered yet.
LEMMA NoVotesFacts ==
    /\ NoVotes \in [Answers -> SUBSET Peers] /\ NoVotes["Healthy"] = {} /\ Responses(NoVotes) = {}
BY DEF NoVotes, Answers, Responses

\* What the invariant says of the check that goes on.
LEMMA TypeFacts ==
    ASSUME AInv
    PROVE  /\ TypeOK /\ setup \in DOMAIN Setups
           /\ errorCount \in Nat
           /\ silence \in 0 .. MaxTimeForNoPeersResponse + 1
           /\ 0 \in 0 .. MaxTimeForNoPeersResponse + 1
           /\ cpAddresses \in {"none", "stale", "current"}
           /\ check \in CheckState /\ votes \in [Answers -> SUBSET Peers] /\ rebooted \in BOOLEAN
BY CheckAssumption DEF AInv, TypeOK

LEMMA StartCheckStep ==
    ASSUME AInv, StartCheck
    PROVE  AInv' /\ Justified
<1>1. /\ UNCHANGED <<setup, link, readyz, snr, self, workersKnown, changes, cpAddresses, silence>>
      /\ votes' = NoVotes /\ check.pc = "idle"
  BY DEF StartCheck, cluster
<1>2. CASE ~readyz
  <2>1. getWorkerPeersResponse
    BY Zenon, <1>2 DEF StartCheck
  <2>2. AInv'
    BY <1>1, <2>1, TypeFacts, WorkerPeersFacts, NoVotesFacts, CheckStep
  <2>3. Justified
    BY <1>1, <2>1, TypeFacts, WorkerPeersFacts, NoVotesFacts
       DEF Justified, WorkerStep, ControlPlaneStep, Reboots
  <2> QED BY <2>2, <2>3
<1>3. CASE readyz /\ isControlPlane
  <2>1. /\ check' = [Waiting EXCEPT !.pc = "dial", !.first = TRUE]
        /\ UNCHANGED <<errorCount, rebooted>>
    BY <1>3 DEF StartCheck
  <2>2. check' \in CheckState /\ check'.pc = "dial" /\ check'.reason = "none"
    BY Zenon, <2>1, TypeFacts, EmptySeq DEF Waiting, CheckState, Reasons
  <2>3. AInv'
    BY <1>1, <1>3, <2>1, <2>2, TypeFacts, NoVotesFacts, CheckStep DEF isControlPlane
  <2> QED BY <2>1, <2>3 DEF Justified, WorkerStep, ControlPlaneStep, Reboots
<1>4. CASE readyz /\ ~isControlPlane
  <2>1. errorCount' = 0 /\ UNCHANGED <<check, rebooted>>
    BY <1>4 DEF StartCheck
  <2>2. check.reason = "none"
    BY <1>1 DEF AInv, VotesInv
  <2>3. AInv'
    BY <1>1, <2>1, <2>2, TypeFacts, NoVotesFacts, CheckStep
  <2> QED BY <2>1, <2>3 DEF Justified, WorkerStep, ControlPlaneStep, Reboots
<1> QED BY <1>2, <1>3, <1>4

\* A worker node that reboots in AskBatch was told so in this batch, or has waited for
\* too long; a healthy answer in an earlier batch would have ended the check.
LEMMA AskBatchStep ==
    ASSUME AInv, AskBatch
    PROVE  AInv' /\ Justified
<1> DEFINE size == GetNextBatchSize(Len(WorkerPeers), Len(check.toAsk))
           batch == ToSet(SubSeq(check.toAsk, 1, size))
           answers == getHealthStatusFromPeers(batch)
           rest == popPeerIPs(check.toAsk, size)
           sum == (votes["ApiError"] \cup answers["ApiError"]) \ ControlPlanePeers
           verdict == BatchVerdict(answers, sum)
           age == IF Responses(answers) # {} THEN 0 ELSE silence
           late == IF WasSilent(age) THEN "UnHealthyBecauseNodeIsIsolated"
                                     ELSE "HealthyBecauseNoPeersResponseNotReachedTimeout"
<1>1. /\ ~rebooted /\ check.pc = "batch" /\ votes' = With(answers) /\ silence' = age
      /\ errorCount' = IF verdict = "HealthyBecauseCRNotFound" THEN 0 ELSE errorCount
      /\ \/ verdict # "none" /\ WorkerResponse(verdict)
         \/ verdict = "none" /\ check' = [check EXCEPT !.toAsk = rest] /\ UNCHANGED rebooted
         \/ verdict = "none" /\ WorkerResponse(late)
      /\ UNCHANGED <<setup, link, readyz, snr, self, workersKnown, changes, cpAddresses>>
  BY Zenon DEF AskBatch, cluster
<1>2. check.toAsk \in Seq(ToSet(WorkerPeers))
  BY TypeFacts DEF CheckState
<1>3. batch \subseteq ToSet(WorkerPeers) /\ rest \in Seq(ToSet(WorkerPeers))
  BY <1>2, TypeFacts, BatchFacts, Zenon
<1>4. batch \subseteq Peers /\ batch \cap ControlPlanePeers = {}
  BY <1>3, TypeFacts, SetupFacts
<1> HIDE DEF size, batch, rest
<1>5. answers \in [Answers -> SUBSET Peers] /\ Responses(answers) \subseteq batch
  BY <1>4, AnswersFacts
<1> HIDE DEF answers
<1>6. /\ verdict \in Reasons /\ verdict # "UnHealthyBecauseNodeIsIsolated"
      /\ verdict = "UnHealthyBecausePeersResponse" =>
           answers["Healthy"] = {} /\ answers["Unhealthy"] # {}
      /\ verdict = "none" => answers["Healthy"] = {}
  BY VerdictFacts, Zenon
<1> HIDE DEF sum, verdict
<1>7. /\ votes' \in [Answers -> SUBSET Peers] /\ Responses(votes') \cap ControlPlanePeers = {}
      /\ votes'["Healthy"] = votes["Healthy"] \cup answers["Healthy"]
      /\ votes'["Unhealthy"] = votes["Unhealthy"] \cup answers["Unhealthy"]
  <2>1. Responses(votes) \cap ControlPlanePeers = {}
    BY <1>1 DEF AInv, VotesInv
  <2>2. "Healthy" \in Answers /\ "Unhealthy" \in Answers
    BY DEF Answers
  <2>3. /\ votes' \in [Answers -> SUBSET Peers]
        /\ \A a \in Answers : votes'[a] = votes[a] \cup answers[a]
        /\ Responses(votes') = Responses(votes) \cup Responses(answers)
    BY <1>1, <1>5, TypeFacts, WithFacts
  <2> QED BY <1>4, <1>5, <2>1, <2>2, <2>3
<1>8. ~IsControlPlane => votes["Healthy"] = {}
  BY <1>1 DEF AInv, VotesInv
<1>9. errorCount' \in Nat /\ silence' \in 0 .. MaxTimeForNoPeersResponse + 1
  BY <1>1, TypeFacts
<1>10. CASE verdict # "none" /\ WorkerResponse(verdict)
  <2>1. AInv'
    BY <1>1, <1>6, <1>7, <1>8, <1>9, <1>10, TypeFacts, WorkerResponseFacts, CheckStep
  <2>2. Justified
    BY <1>1, <1>6, <1>7, <1>8, <1>10, TypeFacts, WorkerResponseFacts
       DEF Justified, WorkerStep, ControlPlaneStep, Reboots
  <2> QED BY <2>1, <2>2
<1>11. CASE verdict = "none" /\ check' = [check EXCEPT !.toAsk = rest] /\ UNCHANGED rebooted
  <2>1. check' \in CheckState /\ check'.pc = "batch" /\ check'.reason = check.reason
    BY <1>1, <1>3, <1>11, TypeFacts DEF CheckState
  <2>2. check.reason = "UnHealthyBecausePeersResponse" => votes'["Unhealthy"] # {}
    BY <1>7 DEF AInv, VotesInv
  <2>3. AInv'
    BY <1>1, <1>6, <1>7, <1>8, <1>9, <1>11, <2>1, <2>2, TypeFacts, CheckStep
  <2> QED BY <1>11, <2>3 DEF Justified, WorkerStep, ControlPlaneStep, Reboots
<1>12. CASE verdict = "none" /\ WorkerResponse(late)
  <2>1. late \in Reasons /\ late # "UnHealthyBecausePeersResponse"
    BY DEF Reasons
  <2>2. late = "UnHealthyBecauseNodeIsIsolated" => silence' > MaxTimeForNoPeersResponse
    BY <1>1 DEF WasSilent
  <2> HIDE DEF late
  <2>3. AInv'
    BY <1>1, <1>6, <1>7, <1>8, <1>9, <1>12, <2>1, TypeFacts, WorkerResponseFacts, CheckStep
  <2>4. Justified
    BY <1>1, <1>6, <1>7, <1>8, <1>12, <2>1, <2>2, TypeFacts, WorkerResponseFacts
       DEF Justified, WorkerStep, ControlPlaneStep, Reboots
  <2> QED BY <2>3, <2>4
<1> QED BY <1>1, <1>10, <1>11, <1>12

\* Nobody asks control plane peers but a control plane node, and once one of them has
\* answered the check is over.
LEMMA DialStep ==
    ASSUME AInv, Dial
    PROVE  AInv' /\ Justified
<1> DEFINE asked == IF cpAddresses = "current" THEN ControlPlanePeers ELSE {}
           answers == getHealthStatusFromPeers(asked)
           canBeReached == Responses(answers) # {}
           unhealthy == answers["Unhealthy"] # {}
<1>1. /\ ~rebooted /\ check.pc \in {"dial", "redial"} /\ votes' = With(answers)
      /\ \/ /\ ~canBeReached /\ check' = [check EXCEPT !.pc = "refresh"]
            /\ UNCHANGED <<errorCount, rebooted>>
         \/ ControlPlaneStatus(canBeReached, unhealthy)
      /\ UNCHANGED <<setup, link, readyz, snr, self, workersKnown, changes, cpAddresses, silence>>
  BY DEF Dial, cluster
<1>2. IsControlPlane /\ Responses(votes) \cap ControlPlanePeers = {}
  BY <1>1, TypeFacts, SetupFacts DEF AInv, VotesInv
<1>3. answers \in [Answers -> SUBSET Peers]
  <2>1. asked \subseteq Peers
    BY TypeFacts, SetupFacts
  <2> HIDE DEF asked
  <2> QED BY <2>1, AnswersFacts
<1> HIDE DEF answers
<1>4. /\ votes' \in [Answers -> SUBSET Peers]
      /\ votes'["Unhealthy"] = votes["Unhealthy"] \cup answers["Unhealthy"]
      /\ Responses(votes') = Responses(votes) \cup Responses(answers)
  BY <1>1, <1>3, TypeFacts, WithFacts DEF Answers
<1>5. check.reason = "UnHealthyBecausePeersResponse" => votes'["Unhealthy"] # {}
  BY <1>4 DEF AInv, VotesInv
<1>6. ~canBeReached => Responses(votes') \cap ControlPlanePeers = {}
  BY <1>2, <1>4
<1>7. unhealthy => votes'["Unhealthy"] # {}
  BY <1>4
<1>8. canBeReached \in BOOLEAN /\ unhealthy \in BOOLEAN
  OBVIOUS
<1> HIDE DEF canBeReached, unhealthy
<1>9. CASE /\ ~canBeReached /\ check' = [check EXCEPT !.pc = "refresh"]
           /\ UNCHANGED <<errorCount, rebooted>>
  <2>1. check' \in CheckState /\ check'.pc = "refresh" /\ check'.reason = check.reason
    BY <1>9, TypeFacts DEF CheckState
  <2>2. AInv'
    BY <1>1, <1>2, <1>4, <1>5, <1>6, <1>9, <2>1, TypeFacts, CheckStep
  <2> QED BY <1>9, <2>2 DEF Justified, WorkerStep, ControlPlaneStep, Reboots
<1>10. CASE ControlPlaneStatus(canBeReached, unhealthy)
  <2>1. /\ errorCount' \in Nat
        /\ check' \in CheckState /\ rebooted' \in BOOLEAN
        /\ check'.reason \in {"none", check.reason}
        /\ check'.pc = "idle" => check'.reason = "none"
        /\ check'.pc # "idle" => ~canBeReached
        /\ Reboots => \/ unhealthy \/ ~canBeReached \/ ~isDiagnosticsPassed
                      \/ check.reason = "UnHealthyBecausePeersResponse"
    BY <1>2, <1>8, <1>10, TypeFacts, StatusFacts
  <2>2. AInv'
    BY <1>1, <1>2, <1>4, <1>5, <1>6, <2>1, TypeFacts, CheckStep
  <2>3. Justified
    BY <1>2, <1>5, <1>6, <1>7, <2>1 DEF Justified, WorkerStep, ControlPlaneStep
  <2> QED BY <2>2, <2>3
<1> QED BY <1>1, <1>9, <1>10

\* The refresh of the addresses comes after a dial that reached nobody.
LEMMA RefreshStep ==
    ASSUME AInv, Refresh
    PROVE  AInv' /\ Justified
<1>1. /\ ~rebooted /\ check.pc = "refresh"
      /\ UNCHANGED <<votes, setup, link, readyz, snr, self, workersKnown, changes, silence>>
  BY DEF Refresh
<1>2. /\ IsControlPlane /\ Responses(votes) \cap ControlPlanePeers = {}
      /\ check.reason = "UnHealthyBecausePeersResponse" => votes["Unhealthy"] # {}
  BY <1>1, TypeFacts, SetupFacts DEF AInv, VotesInv
<1>3. Responses(votes') \cap ControlPlanePeers = {}
  BY <1>1, <1>2
<1>4. Justified
  BY <1>2, <1>3 DEF Justified, WorkerStep, ControlPlaneStep
<1>5. CASE ControlPlaneStatus(FALSE, FALSE) /\ UNCHANGED cpAddresses
  <2>1. /\ errorCount' \in Nat
        /\ check' \in CheckState /\ rebooted' \in BOOLEAN
        /\ check'.reason \in {"none", check.reason}
        /\ check'.pc = "idle" => check'.reason = "none"
    BY Zenon, <1>2, <1>5, TypeFacts, StatusFacts
  <2>2. AInv'
    BY <1>1, <1>2, <1>3, <1>5, <2>1, TypeFacts, CheckStep
  <2> QED BY <1>4, <2>2
<1>6. CASE /\ cpAddresses' \in {cpAddresses, "current"}
           /\ check' = [check EXCEPT !.pc = "redial"]
           /\ UNCHANGED <<errorCount, rebooted>>
  <2>1. check' \in CheckState /\ check'.pc = "redial" /\ check'.reason = check.reason
    BY <1>6, TypeFacts DEF CheckState
  <2>2. cpAddresses' \in {"none", "stale", "current"}
    BY <1>6, TypeFacts
  <2>3. AInv'
    BY <1>1, <1>2, <1>3, <1>6, <2>1, <2>2, TypeFacts, CheckStep
  <2> QED BY <1>4, <2>3
<1> QED BY Zenon, <1>5, <1>6 DEF Refresh

\* No control plane peer was reached, and whether any are known decides on going on.
LEMMA PeersExistStep ==
    ASSUME AInv, PeersExist
    PROVE  AInv' /\ Justified
<1>1. /\ check.pc = "peersExist"
      /\ UNCHANGED <<setup, link, readyz, snr, self, workersKnown, changes, cpAddresses, silence, votes>>
  BY DEF PeersExist, cluster
<1>2. IsControlPlane /\ Responses(votes') \cap ControlPlanePeers = {}
  BY <1>1, TypeFacts, SetupFacts DEF AInv, VotesInv
<1>3. Justified
  BY <1>2 DEF Justified, WorkerStep, ControlPlaneStep
<1>4. CASE getWorkerPeersResponse
  <2>1. AInv'
    BY <1>1, <1>2, <1>4, TypeFacts, WorkerPeersFacts, CheckStep
  <2> QED BY <1>3, <2>1
<1>5. CASE Decide(TRUE) /\ errorCount' = 0
  <2>1. check' = Waiting /\ rebooted' = FALSE
    BY Zenon, <1>5 DEF Decide
  <2>2. check' \in CheckState /\ check'.pc = "idle" /\ check'.reason = "none"
    BY <2>1, TypeFacts, CheckStates, Zenon
  <2>3. AInv'
    BY Zenon, <1>1, <1>2, <1>5, <2>1, <2>2, TypeFacts, CheckStep
  <2> QED BY <1>3, <2>3
<1> QED BY Zenon, <1>4, <1>5 DEF PeersExist

\* What happens around the check leaves its place and its votes alone.
LEMMA ClusterStep ==
    ASSUME AInv, ClusterChanges \/ SelfChanges \/ PeersChange \/ Tick
    PROVE  AInv' /\ Justified
<1>1. UNCHANGED <<setup, check, votes, rebooted, errorCount>>
  BY DEF ClusterChanges, SelfChanges, PeersChange, Change, Tick, cluster
<1>2. UNCHANGED <<WorkerPeers, ControlPlanePeers, IsControlPlane, Peers, CheckState>>
  BY <1>1, SetupFixed
<1>3. VotesInv'
  BY <1>1, <1>2 DEF AInv, VotesInv, Responses
<1>4. Justified
  BY <1>1 DEF Justified, WorkerStep, ControlPlaneStep, Reboots
<1>5. silence' \in 0 .. MaxTimeForNoPeersResponse + 1 /\ changes' \in Nat
  <2>1. silence \in 0 .. MaxTimeForNoPeersResponse + 1 /\ changes \in Nat
    BY DEF AInv, TypeOK
  <2>2. CASE Tick
    BY <2>1, <2>2, CheckAssumption DEF Tick, Later, cluster
  <2>3. CASE ClusterChanges \/ SelfChanges \/ PeersChange
    BY <2>1, <2>3 DEF ClusterChanges, SelfChanges, PeersChange, Change
  <2> QED BY <2>2, <2>3
<1>6. link' \in [Peers -> Links]
  <2>1. link \in [Peers -> Links]
    BY DEF AInv, TypeOK
  <2>2. {"ok", "down"} \subseteq Links
    BY DEF Links
  <2>3. \/ UNCHANGED link
        \/ \E p \in Peers, l \in Links : link' = [link EXCEPT ![p] = l]
        \/ \E l \in Links : link' = [p \in Peers |-> l]
    BY <2>2, Zenon DEF ClusterChanges, SelfChanges, PeersChange, Tick, cluster
  <2>4. ASSUME NEW p \in Peers, NEW l \in Links, link' = [link EXCEPT ![p] = l]
        PROVE  link' \in [Peers -> Links]
    BY <2>1, <2>4
  <2>5. ASSUME NEW l \in Links, link' = [p \in Peers |-> l]
        PROVE  link' \in [Peers -> Links]
    BY <2>5
  <2>6. UNCHANGED Peers
    BY <1>2
  <2> QED BY <2>1, <2>3, <2>4, <2>5, <2>6
<1>7. readyz' \in BOOLEAN /\ snr' \in BOOLEAN /\ workersKnown' \in BOOLEAN
  BY Zenon DEF AInv, TypeOK, ClusterChanges, SelfChanges, PeersChange, Tick, cluster
<1>8. self' \in [wasEndpointAccessibleAtStart : BOOLEAN, endpoint : BOOLEAN, kubelet : BOOLEAN]
  <2>1. self \in [wasEndpointAccessibleAtStart : BOOLEAN, endpoint : BOOLEAN, kubelet : BOOLEAN]
    BY DEF AInv, TypeOK
  <2> QED BY Zenon, <2>1 DEF ClusterChanges, SelfChanges, PeersChange, Tick, cluster
<1>9. cpAddresses' \in {"none", "stale", "current"}
  BY TypeFacts DEF ClusterChanges, SelfChanges, PeersChange, Tick, cluster
<1>10. TypeOK'
  BY <1>1, <1>2, <1>5, <1>6, <1>7, <1>8, <1>9 DEF AInv, TypeOK
<1> QED BY <1>3, <1>4, <1>10 DEF AInv

LEMMA StutterHolds ==
    ASSUME AInv, UNCHANGED vars
    PROVE  AInv' /\ Justified
<1>1. /\ UNCHANGED <<setup, link, readyz, snr, self, workersKnown, cpAddresses, changes>>
      /\ UNCHANGED <<errorCount, silence, check, votes, rebooted>>
  BY DEF vars, cluster
<1>2. UNCHANGED <<WorkerPeers, ControlPlanePeers, IsControlPlane, Peers, CheckState>>
  BY <1>1, SetupFixed
<1>3. TypeOK' /\ VotesInv'
  BY <1>1, <1>2 DEF AInv, TypeOK, VotesInv, Responses
<1> QED BY <1>1, <1>3 DEF AInv, Justified, WorkerStep, ControlPlaneStep, Reboots

\* The invariant, at the start and in every step.
LEMMA InitHolds == Init => AInv
<1> SUFFICES ASSUME Init PROVE AInv
  OBVIOUS
<1>1. setup \in DOMAIN Setups /\ check = Waiting /\ votes = NoVotes
  BY DEF Init
<1>2. VotesInv
  BY Zenon, <1>1, CheckStates, NoVotesFacts DEF VotesInv
<1>3. link \in [Peers -> Links]
  BY DEF Init, Links
<1>4. /\ self \in [wasEndpointAccessibleAtStart : BOOLEAN, endpoint : BOOLEAN, kubelet : BOOLEAN]
      /\ cpAddresses \in {"none", "stale", "current"} /\ changes \in Nat
      /\ readyz \in BOOLEAN /\ snr \in BOOLEAN /\ workersKnown \in BOOLEAN /\ rebooted \in BOOLEAN
  BY Zenon DEF Init
<1>5. errorCount \in Nat /\ silence \in 0 .. MaxTimeForNoPeersResponse + 1
  BY CheckAssumption DEF Init
<1>6. TypeOK
  BY Zenon, <1>1, <1>3, <1>4, <1>5, CheckStates, NoVotesFacts DEF TypeOK
<1> QED BY <1>2, <1>6 DEF AInv

LEMMA Inductive == AInv /\ [Next]_vars => AInv' /\ Justified
BY StartCheckStep, AskBatchStep, DialStep, RefreshStep, PeersExistStep, ClusterStep, StutterHolds
   DEF Next

-----------------------------------------------------------------------------
(* Theorems. *)

\* TypeOK: whatever happens to the cluster and to the cached addresses during a check,
\* its place is one of the code's, those left to ask as workers are workers, and only
\* peers have answered.
THEOREM ApiCheckTyped == Spec => []TypeOK
<1>1. AInv => TypeOK
  BY DEF AInv
<1> QED BY <1>1, InitHolds, Inductive, PTL DEF Spec

\* WorkerRebootIsJustified: a worker node that reboots itself heard nobody call it
\* healthy in this check, and it was told to, or heard from nobody for too long, or has
\* no peer at all.
THEOREM WorkerReboots == Spec => WorkerRebootIsJustified
<1>1. AInv /\ [Next]_vars => AInv' /\ WorkerStep
  BY Inductive DEF Justified
<1> QED BY <1>1, InitHolds, PTL DEF Spec, WorkerRebootIsJustified, WorkerStep

\* ControlPlaneRebootIsJustified: a control plane node that another one answered reboots
\* only when told to or when its own diagnostics fail.
THEOREM ControlPlaneReboots == Spec => ControlPlaneRebootIsJustified
<1>1. AInv /\ [Next]_vars => AInv' /\ ControlPlaneStep
  BY Inductive DEF Justified
<1> QED BY <1>1, InitHolds, PTL DEF Spec, ControlPlaneRebootIsJustified, ControlPlaneStep

-----------------------------------------------------------------------------
(* Who is asked. *)

\* The list of peers to ask has nobody twice, it is there only while batches are asked,
\* and in the part of a check before them only control plane peers have answered.
AskInv ==
    /\ IsInjective(check.toAsk)
    /\ check.pc # "batch" => check.toAsk = <<>>
    /\ check.pc = "peersExist" => check.first
    /\ check.first => check.pc # "batch" /\ \A a \in Answers : votes[a] \subseteq ControlPlanePeers
    /\ AskedOnce

\* Nobody is in the empty list.
LEMMA NobodyToAsk == ToSet(<<>>) = {} /\ IsInjective(<<>>)
<1>1. DOMAIN <<>> = {}
  BY EmptySeq, LenProperties
<1> QED BY <1>1 DEF ToSet, IsInjective

\* Whatever the worker peers say, nobody is left to ask after it.
LEMMA WorkerResponseForm ==
    ASSUME NEW r, WorkerResponse(r)
    PROVE  ~check'.first /\ check'.pc \in {"idle", "dial"} /\ check'.toAsk = <<>>
<1>1. check' = Waiting \/ check' = [Waiting EXCEPT !.pc = "dial", !.reason = r]
  BY Zenon DEF WorkerResponse
<1>2. CASE check' = Waiting
  BY <1>2 DEF Waiting
<1>3. CASE check' = [Waiting EXCEPT !.pc = "dial", !.reason = r]
  BY <1>3 DEF Waiting
<1> QED BY <1>1, <1>2, <1>3

\* What getWorkerPeersResponse leaves to be done.
LEMMA ResponseForms ==
    ASSUME TypeOK, getWorkerPeersResponse
    PROVE  /\ ~check'.first /\ check'.pc # "peersExist"
           /\ \/ check'.pc # "batch" /\ check'.toAsk = <<>>
              \/ check'.pc = "batch" /\ check'.toAsk = KnownWorkers
<1>1. ASSUME NEW r, WorkerResponse(r)
      PROVE  ~check'.first /\ check'.pc \in {"idle", "dial"} /\ check'.toAsk = <<>>
  BY <1>1, WorkerResponseForm, Zenon
<1>2. CASE check' = [Waiting EXCEPT !.pc = "batch", !.toAsk = KnownWorkers]
  BY <1>2 DEF Waiting
<1>3. errorCount + 1 < MaxErrorsThreshold \/ errorCount + 1 >= MaxErrorsThreshold
  BY CheckAssumption DEF TypeOK
<1>4. Len(KnownWorkers) < MinPeersForRemediation \/ Len(KnownWorkers) >= MinPeersForRemediation
  <2>1. setup \in DOMAIN Setups
    BY DEF TypeOK
  <2>2. Len(KnownWorkers) \in Nat /\ MinPeersForRemediation \in Nat
    BY <2>1, SetupFacts, EmptySeq DEF KnownWorkers
  <2> QED BY <2>2
<1>5. \/ \E r : WorkerResponse(r)
      \/ check' = [Waiting EXCEPT !.pc = "batch", !.toAsk = KnownWorkers]
  BY <1>3, <1>4, Zenon DEF getWorkerPeersResponse
<1> QED BY <1>1, <1>2, <1>5

\* The known workers are a list without repetitions of peers that are not control plane
\* peers.
LEMMA KnownWorkersFacts ==
    ASSUME setup \in DOMAIN Setups
    PROVE  IsInjective(KnownWorkers) /\ ToSet(KnownWorkers) \cap ControlPlanePeers = {}
<1>1. IsInjective(WorkerPeers)
  BY CheckAssumption DEF WorkerPeers
<1> QED BY <1>1, SetupFacts, NobodyToAsk DEF KnownWorkers

\* After getWorkerPeersResponse nobody on the list has answered if so far only control
\* plane peers have.
LEMMA ResponseAsks ==
    ASSUME TypeOK, getWorkerPeersResponse, UNCHANGED setup,
           \A a \in Answers : votes'[a] \subseteq ControlPlanePeers
    PROVE  AskInv'
<1>1. setup \in DOMAIN Setups /\ UNCHANGED ControlPlanePeers
  BY SetupFixed DEF TypeOK
<1>2. /\ IsInjective(check'.toAsk) /\ ToSet(check'.toAsk) \cap ControlPlanePeers = {}
      /\ ~check'.first /\ check'.pc # "peersExist"
      /\ check'.pc # "batch" => check'.toAsk = <<>>
  BY <1>1, ResponseForms, KnownWorkersFacts, NobodyToAsk
<1>3. AskedOnce'
  BY <1>1, <1>2 DEF AskedOnce
<1> QED BY <1>2, <1>3 DEF AskInv

\* A batch is taken off the list: who is left is not in it.
LEMMA PopFacts ==
    ASSUME NEW S, NEW q \in Seq(S), IsInjective(q), NEW size \in 0 .. Len(q)
    PROVE  LET batch == SubSeq(q, 1, size)
               rest == popPeerIPs(q, size)
           IN  /\ IsInjective(rest)
               /\ ToSet(batch) \subseteq ToSet(q) /\ ToSet(rest) \subseteq ToSet(q)
               /\ ToSet(batch) \cap ToSet(rest) = {}
<1> DEFINE batch == SubSeq(q, 1, size)
           rest == popPeerIPs(q, size)
<1>1. Len(q) \in Nat /\ DOMAIN q = 1 .. Len(q)
  BY LenProperties
<1>2. /\ DOMAIN batch = 1 .. size
      /\ \A i \in 1 .. size : batch[i] = q[i]
  BY <1>1, SubSeqProperties
<1>3. /\ DOMAIN rest = 1 .. Len(q) - size
      /\ \A i \in 1 .. Len(q) - size : rest[i] = q[size + i]
  BY <1>1, SubSeqProperties DEF popPeerIPs
<1> HIDE DEF batch, rest
<1>4. \A i \in DOMAIN batch : i \in DOMAIN q /\ batch[i] = q[i] /\ i <= size
  BY <1>1, <1>2
<1>5. \A i \in DOMAIN rest : size + i \in DOMAIN q /\ rest[i] = q[size + i] /\ size + i > size
  BY <1>1, <1>3
<1>6. \A i, j \in DOMAIN q : q[i] = q[j] => i = j
  BY DEF IsInjective
<1>7. IsInjective(rest)
  <2> SUFFICES ASSUME NEW i \in DOMAIN rest, NEW j \in DOMAIN rest, rest[i] = rest[j]
               PROVE  i = j
    BY DEF IsInjective
  <2>1. size + i = size + j
    BY <1>5, <1>6
  <2> QED BY <2>1, <1>1, <1>3
<1>8. ToSet(batch) \subseteq ToSet(q) /\ ToSet(rest) \subseteq ToSet(q)
  BY <1>4, <1>5 DEF ToSet
<1>9. ToSet(batch) \cap ToSet(rest) = {}
  <2> SUFFICES ASSUME NEW i \in DOMAIN batch, NEW j \in DOMAIN rest, batch[i] = rest[j]
               PROVE  FALSE
    BY DEF ToSet
  <2>1. i = size + j
    BY <1>4, <1>5, <1>6
  <2> QED BY <2>1, <1>1, <1>2, <1>3
<1> QED BY <1>7, <1>8, <1>9 DEF batch, rest

\* Each peer gives one answer.
LEMMA OneAnswer ==
    ASSUME NEW peers
    PROVE  LET answers == getHealthStatusFromPeers(peers) IN
           /\ \A a \in Answers : answers[a] \subseteq peers
           /\ \A a, b \in Answers : a # b => answers[a] \cap answers[b] = {}
BY DEF getHealthStatusFromPeers

\* A step that adds the answers of a batch to the votes.
LEMMA AskBatchAsks ==
    ASSUME AInv, AskInv, AskBatch
    PROVE  AskInv'
<1> DEFINE size == GetNextBatchSize(Len(WorkerPeers), Len(check.toAsk))
           batch == ToSet(SubSeq(check.toAsk, 1, size))
           answers == getHealthStatusFromPeers(batch)
           rest == popPeerIPs(check.toAsk, size)
<1>1. /\ check.pc = "batch" /\ votes' = With(answers) /\ UNCHANGED setup
      /\ \/ \E r : WorkerResponse(r)
         \/ check' = [check EXCEPT !.toAsk = rest]
  BY Zenon DEF AskBatch, cluster
<1>2. check.toAsk \in Seq(ToSet(WorkerPeers)) /\ setup \in DOMAIN Setups
  BY TypeFacts DEF CheckState
<1>3. size \in 0 .. Len(check.toAsk)
  <2>1. Len(WorkerPeers) \in Nat /\ Len(check.toAsk) \in Nat
    BY <1>2, SetupFacts, LenProperties
  <2> QED BY <2>1 DEF GetNextBatchSize, LaterBatch, MinNrOfNodesInBatch, MaxNrOfBatchesAfterFirst
<1> HIDE DEF size
<1>4. /\ IsInjective(rest) /\ batch \cap ToSet(rest) = {}
      /\ batch \subseteq ToSet(check.toAsk) /\ ToSet(rest) \subseteq ToSet(check.toAsk)
  BY <1>2, <1>3, PopFacts DEF AskInv
<1> HIDE DEF batch, rest
<1>5. /\ \A a \in Answers : answers[a] \subseteq batch
      /\ \A a, b \in Answers : a # b => answers[a] \cap answers[b] = {}
  BY OneAnswer, Zenon
<1> HIDE DEF answers
<1>6. \A a \in Answers : votes'[a] = votes[a] \cup answers[a]
  BY <1>1 DEF With
<1>7. UNCHANGED ControlPlanePeers
  BY <1>1, SetupFixed
<1>8. /\ \A a \in Answers : votes[a] \cap ToSet(check.toAsk) = {}
      /\ \A a, b \in Answers : a # b => votes[a] \cap votes[b] \subseteq ControlPlanePeers
  BY DEF AskInv, AskedOnce
<1>9. \A a, b \in Answers : a # b => votes'[a] \cap votes'[b] \subseteq ControlPlanePeers
  <2> SUFFICES ASSUME NEW a \in Answers, NEW b \in Answers, a # b,
                      NEW p \in votes'[a] \cap votes'[b]
               PROVE  p \in ControlPlanePeers
    OBVIOUS
  <2>1. p \in votes[a] \cup answers[a] /\ p \in votes[b] \cup answers[b]
    BY <1>6
  <2>2. answers[a] \subseteq ToSet(check.toAsk) /\ answers[b] \subseteq ToSet(check.toAsk)
    BY <1>4, <1>5
  <2>3. answers[a] \cap answers[b] = {}
    BY <1>5
  <2>4. votes[a] \cap ToSet(check.toAsk) = {} /\ votes[b] \cap ToSet(check.toAsk) = {}
    BY <1>8
  <2>5. votes[a] \cap votes[b] \subseteq ControlPlanePeers
    BY <1>8
  <2> QED BY <2>1, <2>2, <2>3, <2>4, <2>5
<1>10. CASE check' = [check EXCEPT !.toAsk = rest]
  <2>1. check'.toAsk = rest /\ check'.pc = "batch" /\ check'.first = check.first
    BY <1>1, <1>10, TypeFacts DEF CheckState
  <2>2. \A a \in Answers : votes'[a] \cap ToSet(rest) = {}
    BY <1>4, <1>5, <1>6, <1>8
  <2>3. AskedOnce'
    BY <1>7, <1>9, <2>1, <2>2 DEF AskedOnce
  <2> QED BY <1>1, <1>4, <2>1, <2>3 DEF AskInv
<1>11. ASSUME NEW r, WorkerResponse(r) PROVE AskInv'
  <2>1. ~check'.first /\ check'.pc \in {"idle", "dial"} /\ check'.toAsk = <<>>
    BY <1>11, WorkerResponseForm, Zenon
  <2>2. AskedOnce'
    BY <1>7, <1>9, <2>1, NobodyToAsk DEF AskedOnce
  <2> QED BY <2>1, <2>2, NobodyToAsk DEF AskInv
<1> QED BY <1>1, <1>10, <1>11

\* What follows the control plane peers' answers asks no worker yet.
LEMMA StatusAsks ==
    ASSUME TypeOK, check.pc # "batch", AskInv, NEW b1, NEW b2,
           \/ ControlPlaneStatus(b1, b2)
           \/ check' = [check EXCEPT !.pc = "refresh"]
           \/ check' = [check EXCEPT !.pc = "redial"]
    PROVE  /\ check'.toAsk = <<>> /\ check'.pc # "batch"
           /\ check'.pc = "peersExist" => check'.first
           /\ check'.first => check.first
<1>1. check \in CheckState /\ check.toAsk = <<>>
  BY DEF TypeOK, AskInv
<1>2. CASE check' = Waiting
  BY <1>2 DEF Waiting
<1>3. CASE check' = [check EXCEPT !.pc = "peersExist"] /\ check.first
  BY <1>1, <1>3 DEF CheckState
<1>4. CASE check' = [check EXCEPT !.pc = "refresh"]
  BY <1>1, <1>4 DEF CheckState
<1>5. CASE check' = [check EXCEPT !.pc = "redial"]
  BY <1>1, <1>5 DEF CheckState
<1>6. ControlPlaneStatus(b1, b2) =>
        check' = Waiting \/ (check' = [check EXCEPT !.pc = "peersExist"] /\ check.first)
  BY Zenon DEF ControlPlaneStatus, Decide
<1> QED BY <1>2, <1>3, <1>4, <1>5, <1>6

LEMMA DialAsks ==
    ASSUME AInv, AskInv, Dial
    PROVE  AskInv'
<1> DEFINE asked == IF cpAddresses = "current" THEN ControlPlanePeers ELSE {}
           answers == getHealthStatusFromPeers(asked)
<1>1. /\ check.pc # "batch" /\ votes' = With(answers) /\ UNCHANGED setup
      /\ \/ check' = [check EXCEPT !.pc = "refresh"]
         \/ \E b1, b2 : ControlPlaneStatus(b1, b2)
  BY DEF Dial, cluster
<1>2. \A a \in Answers : answers[a] \subseteq asked
  BY OneAnswer, Zenon
<1>3. asked \subseteq ControlPlanePeers
  OBVIOUS
<1> HIDE DEF answers, asked
<1>4. \A a \in Answers : votes'[a] = votes[a] \cup answers[a] /\ answers[a] \subseteq ControlPlanePeers
  BY <1>1, <1>2, <1>3 DEF With
<1>5. UNCHANGED ControlPlanePeers
  BY <1>1, SetupFixed
<1>6. /\ check'.toAsk = <<>> /\ check'.pc # "batch"
      /\ check'.pc = "peersExist" => check'.first
      /\ check'.first => check.first
  BY <1>1, TypeFacts, StatusAsks
<1>7. AskedOnce'
  <2>1. \A a, b \in Answers : a # b => votes'[a] \cap votes'[b] \subseteq ControlPlanePeers
    BY <1>4 DEF AskInv, AskedOnce
  <2> QED BY <1>5, <1>6, <2>1, NobodyToAsk DEF AskedOnce
<1>8. check'.first => \A a \in Answers : votes'[a] \subseteq ControlPlanePeers
  BY <1>4, <1>6 DEF AskInv
<1> QED BY <1>5, <1>6, <1>7, <1>8, NobodyToAsk DEF AskInv

LEMMA RefreshAsks ==
    ASSUME AInv, AskInv, Refresh
    PROVE  AskInv'
<1>1. /\ check.pc # "batch" /\ UNCHANGED <<votes, setup>>
      /\ \/ check' = [check EXCEPT !.pc = "redial"]
         \/ ControlPlaneStatus(FALSE, FALSE)
  BY Zenon DEF Refresh
<1>2. UNCHANGED ControlPlanePeers
  BY <1>1, SetupFixed
<1>3. /\ check'.toAsk = <<>> /\ check'.pc # "batch"
      /\ check'.pc = "peersExist" => check'.first
      /\ check'.first => check.first
  BY Zenon, <1>1, TypeFacts, StatusAsks
<1>4. AskedOnce'
  BY <1>1, <1>2, <1>3, NobodyToAsk DEF AskInv, AskedOnce
<1> QED BY <1>1, <1>2, <1>3, <1>4, NobodyToAsk DEF AskInv

LEMMA PeersExistAsks ==
    ASSUME AInv, AskInv, PeersExist
    PROVE  AskInv'
<1>1. /\ check.pc = "peersExist" /\ UNCHANGED <<votes, setup>>
      /\ getWorkerPeersResponse \/ check' = Waiting
  BY DEF PeersExist, Decide, cluster
<1>2. \A a \in Answers : votes'[a] \subseteq ControlPlanePeers
  BY <1>1 DEF AskInv
<1>3. CASE getWorkerPeersResponse
  BY <1>1, <1>2, <1>3, TypeFacts, ResponseAsks
<1>4. CASE check' = Waiting
  <2>1. check'.toAsk = <<>> /\ check'.pc = "idle" /\ ~check'.first
    BY <1>4 DEF Waiting
  <2>2. UNCHANGED ControlPlanePeers
    BY <1>1, SetupFixed
  <2>3. AskedOnce'
    BY <1>2, <2>1, <2>2, NobodyToAsk DEF AskedOnce
  <2> QED BY <2>1, <2>3, NobodyToAsk DEF AskInv
<1> QED BY <1>1, <1>3, <1>4

LEMMA StartCheckAsks ==
    ASSUME AInv, AskInv, StartCheck
    PROVE  AskInv'
<1>1. /\ check.pc = "idle" /\ votes' = NoVotes /\ UNCHANGED setup
      /\ \/ getWorkerPeersResponse
         \/ check' = [Waiting EXCEPT !.pc = "dial", !.first = TRUE]
         \/ UNCHANGED check
  BY Zenon DEF StartCheck, cluster
<1>2. \A a \in Answers : votes'[a] = {}
  BY <1>1 DEF NoVotes
<1>3. CASE getWorkerPeersResponse
  BY <1>1, <1>2, <1>3, TypeFacts, ResponseAsks
<1>4. CASE check' = [Waiting EXCEPT !.pc = "dial", !.first = TRUE] \/ UNCHANGED check
  <2>1. check'.toAsk = <<>> /\ check'.pc \in {"idle", "dial"}
    BY Zenon, <1>1, <1>4 DEF Waiting, AskInv
  <2>2. AskedOnce'
    BY <1>2, <2>1 DEF AskedOnce
  <2> QED BY <1>2, <2>1, <2>2, NobodyToAsk DEF AskInv
<1> QED BY <1>1, <1>3, <1>4

LEMMA AskInductive == AInv /\ AskInv /\ [Next]_vars => AskInv'
<1> SUFFICES ASSUME AInv, AskInv, [Next]_vars PROVE AskInv'
  OBVIOUS
<1>1. CASE ClusterChanges \/ SelfChanges \/ PeersChange \/ Tick \/ UNCHANGED vars
  <2>1. UNCHANGED <<setup, check, votes>>
    BY <1>1 DEF ClusterChanges, SelfChanges, PeersChange, Change, Tick, cluster, vars
  <2>2. UNCHANGED ControlPlanePeers
    BY <2>1, SetupFixed
  <2> QED BY <2>1, <2>2 DEF AskInv, AskedOnce
<1> QED BY <1>1, StartCheckAsks, AskBatchAsks, DialAsks, RefreshAsks, PeersExistAsks DEF Next

LEMMA AskInit == Init => AskInv
<1> SUFFICES ASSUME Init PROVE AskInv
  OBVIOUS
<1>1. check.toAsk = <<>> /\ check.pc = "idle" /\ ~check.first
  BY DEF Init, Waiting
<1>2. \A a \in Answers : votes[a] = {}
  BY DEF Init, NoVotes
<1>3. AskedOnce
  BY <1>2 DEF AskedOnce
<1> QED BY <1>1, <1>3, NobodyToAsk DEF AskInv

\* AskedOnce: in a check no worker peer is asked twice, for any number of them and
\* however the sizes of the batches come out.
THEOREM NobodyTwice == Spec => []AskedOnce
<1>1. AInv /\ AskInv /\ [Next]_vars => (AInv /\ AskInv)'
  BY Inductive, AskInductive
<1>2. Init => AInv /\ AskInv
  BY InitHolds, AskInit
<1>3. AskInv => AskedOnce
  BY DEF AskInv
<1> QED BY <1>1, <1>2, <1>3, PTL DEF Spec

-----------------------------------------------------------------------------
(* The answers of the peers. *)

\* The SNR of another node does not match this one, whether or not the Machines can be
\* read.
LEMMA OtherNeverMatches ==
    ASSUME NEW o, NEW machineName, ForAnotherNode(o), OfThisNode(machineName),
           NEW nodeRef \in {NodeRef, Unreadable}
    PROVE  ~IsSNRMatching(o, MyNodeName, machineName, nodeRef)
<1>1. ~(isOwnedByMachine(o) /\ o.machine = machineName)
  <2>1. CASE machineName = NoName
    BY <2>1, CheckAssumption DEF ForAnotherNode, isOwnedByMachine
  <2>2. CASE machineName # NoName
    BY <2>2 DEF ForAnotherNode, OfThisNode, isOwnedByMachine
  <2> QED BY <2>1, <2>2
<1>2. getNodeName(o, nodeRef) # MyNodeName
  <2>1. CASE isOwnedByMachine(o) /\ ~isOwnedByNHC(o)
    <3>1. getNodeName(o, nodeRef) = nodeRef[o.machine]
      BY <2>1 DEF getNodeName, getNodeNameFromMachine
    <3>2. o.machine \in DOMAIN NodeRef /\ NodeRef[o.machine] # MyNodeName
      BY <2>1 DEF ForAnotherNode, isOwnedByMachine
    <3>3. Unreadable[o.machine] # MyNodeName
      BY Zenon, <3>2 DEF Unreadable, NoName, MyNodeName
    <3> QED BY <3>1, <3>2, <3>3
  <2>2. CASE ~(isOwnedByMachine(o) /\ ~isOwnedByNHC(o))
    BY <2>2 DEF ForAnotherNode, getNodeName, getNodeNameDirect, isOwnedByMachine, isOwnedByNHC
  <2> QED BY <2>1, <2>2
<1> QED BY <1>1, <1>2 DEF IsSNRMatching

\* Without an SNR for this node no peer calls it unhealthy.
LEMMA NobodyUnhealthy ==
    ASSUME setup \in DOMAIN Setups, ~snr, NEW p
    PROVE  IsHealthy(p) # "Unhealthy"
<1> DEFINE machineName == Setups[setup].machineName
<1>1. (\A o \in SNRs : ForAnotherNode(o)) /\ OfThisNode(machineName)
  BY SetupFacts DEF SNRs
<1>2. NodeRefAt(p) \in {NodeRef, Unreadable}
  BY DEF NodeRefAt
<1> HIDE DEF machineName
<1>3. ~ \E o \in SNRs : IsSNRMatching(o, MyNodeName, machineName, NodeRefAt(p))
  BY <1>1, <1>2, OtherNeverMatches
<1>4. CASE link[p] = "down"
  BY <1>4 DEF IsHealthy
<1>5. CASE link[p] = "noApi"
  BY <1>5 DEF IsHealthy
<1>6. CASE link[p] # "down" /\ link[p] # "noApi"
  BY <1>3, <1>6 DEF IsHealthy, machineName
<1> QED BY <1>4, <1>5, <1>6

\* What UnhealthyMeansOwnSNR says of a step.
OwnSNRStep == votes'["Unhealthy"] \subseteq votes["Unhealthy"] \/ snr

\* Without an SNR for this node no peer answers that it is unhealthy.
LEMMA NoNewUnhealthy ==
    ASSUME AInv, ~snr, NEW peers, votes' = With(getHealthStatusFromPeers(peers))
    PROVE  votes'["Unhealthy"] \subseteq votes["Unhealthy"]
<1>1. \A p \in peers : IsHealthy(p) # "Unhealthy"
  BY TypeFacts, NobodyUnhealthy
<1>2. getHealthStatusFromPeers(peers)["Unhealthy"] = {}
  BY <1>1 DEF getHealthStatusFromPeers, Answers
<1>3. votes'["Unhealthy"] = votes["Unhealthy"] \cup getHealthStatusFromPeers(peers)["Unhealthy"]
  BY DEF With, Answers
<1> QED BY <1>2, <1>3

\* Votes are added by AskBatch and by Dial.
LEMMA OnlyOwnSNR == AInv /\ [Next]_vars => OwnSNRStep
<1> SUFFICES ASSUME AInv, [Next]_vars, ~snr PROVE votes'["Unhealthy"] \subseteq votes["Unhealthy"]
  BY DEF OwnSNRStep
<1>1. CASE StartCheck
  BY <1>1 DEF StartCheck, NoVotes, Answers
<1>2. CASE AskBatch
  BY <1>2, NoNewUnhealthy DEF AskBatch
<1>3. CASE Dial
  BY <1>3, NoNewUnhealthy DEF Dial
<1>4. CASE Refresh \/ PeersExist \/ ClusterChanges \/ SelfChanges \/ PeersChange \/ Tick \/ UNCHANGED vars
  <2>1. UNCHANGED votes
    BY Zenon, <1>4 DEF Refresh, PeersExist, ClusterChanges, SelfChanges, PeersChange, Change,
                       Tick, vars
  <2> QED BY <2>1
<1> QED BY <1>1, <1>2, <1>3, <1>4 DEF Next

\* UnhealthyMeansOwnSNR: a peer calls this node unhealthy only while there is an SNR for
\* it, in whatever way the other SNRs name their nodes and whatever Machines the peer
\* can read.
THEOREM OwnSNROnly == Spec => UnhealthyMeansOwnSNR
<1>1. AInv /\ [Next]_vars => AInv' /\ OwnSNRStep
  BY Inductive, OnlyOwnSNR
<1> QED BY <1>1, InitHolds, PTL DEF Spec, UnhealthyMeansOwnSNR, OwnSNRStep
=============================================================================
