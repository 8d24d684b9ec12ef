------------------------- MODULE RemediationProofs -------------------------
(***************************************************************************)
(* Type correctness of Remediation, that no handler ever reads an SNR      *)
(* beyond its first phase that lacks a deadline or the finalizer, and that *)
(* the conditions of an SNR say what its phase says, for any lag of the    *)
(* informers, any number of SNRs, faults and disturbances.  On these       *)
(* rests the second part, that Remediation implements Lifecycle.           *)
(***************************************************************************)
EXTENDS Remediation, SequenceTheorems, TLAPS

\* The conditions of s tell its phase.
Reported(s) ==
    /\ s.conds = "Finished" => s.phase = "Fencing-Completed"
    /\ s.phase = "Fencing-Completed" => s.conds \in {"Finished", "Stopped"}

\* The SNRs, and the versions of an SNR, that may be stored, cached or under way.
SafeSNR ==
    {s \in SNR : /\ s.phase # "Fencing-Started" => s.timeAssumedRebooted # NoTime /\ s.finalizer
                 /\ Reported(s)}

MaybeSNR == SafeSNR \cup {NoSNR}

\* The informer: the cache followed by the events under way ends with the server's SNR.
InformerInv ==
    /\ snr \in MaybeSNR /\ snrCache \in MaybeSNR /\ snrWatch \in Seq(MaybeSNR)
    /\ queued \in BOOLEAN
    /\ snrWatch = <<>> => snrCache = snr
    /\ snrWatch # <<>> => snrWatch[Len(snrWatch)] = snr

NodeInv == node \in Node /\ nodeCache \in Node /\ nodeWatch \in Seq(Node)

\* Only an SNR in its first phase and with the finalizer gets a deadline, and only one
\* beyond its first phase has the workload cleaned up.
Prepared(m) ==
    /\ m.pc \in {"addNoScheduleTaint", "setTimeAssumedRebooted"} =>
          m.snr.finalizer /\ m.snr.phase = "Fencing-Started"
    /\ \/ m.pc \in {"DeletePods", "addOutOfServiceTaint", "isResourceDeletionCompleted"}
       \/ m.pc = "removeOutOfServiceTaint" /\ ~m.snr.timedOut
       => m.snr.phase # "Fencing-Started"

\* The reconcile: a copy that the server would accept has the server's finalizer.
ManagerInv ==
    /\ mgr \in Manager /\ mgr.snr \in MaybeSNR
    /\ mgr.pc # "idle" => mgr.snr # NoSNR
    /\ mgr.current => snr # NoSNR /\ mgr.snr # NoSNR /\ mgr.snr.finalizer = snr.finalizer
    /\ Prepared(mgr)

RestInv ==
    /\ delayed \in BOOLEAN /\ config \in BOOLEAN /\ enabling \in BOOLEAN /\ taintGA \in BOOLEAN
    /\ pods \in Pods /\ attached \in BOOLEAN
    /\ clock \in Nat /\ faults \in Nat /\ disruptions \in Nat /\ created \in Nat

IInv == InformerInv /\ NodeInv /\ ManagerInv /\ RestInv

-----------------------------------------------------------------------------
LEMMA NoSNRNotSafe == NoSNR \notin SafeSNR
BY BoundsAssumption DEF SafeSNR

\* Queueing e behind q and taking the first element: what remains ends with e.
LEMMA QueueStep ==
    ASSUME NEW S, NEW q \in Seq(S), NEW e \in S
    PROVE  LET events == Append(q, e) IN
           /\ events \in Seq(S) /\ events # <<>> /\ events[Len(events)] = e
           /\ Head(events) \in S /\ Tail(events) \in Seq(S)
           /\ Tail(events) = <<>> => Head(events) = e
           /\ Tail(events) # <<>> => Tail(events)[Len(Tail(events))] = e
<1> DEFINE events == Append(q, e)
<1>1. /\ events \in Seq(S) /\ events # <<>> /\ Len(events) = Len(q) + 1
      /\ events[Len(q) + 1] = e
  BY AppendProperties
<1>2. Len(q) \in Nat
  BY LenProperties
<1>3. /\ Head(events) \in S /\ Tail(events) \in Seq(S) /\ Len(Tail(events)) = Len(q)
      /\ \A i \in 1..Len(Tail(events)) : Tail(events)[i] = events[i + 1]
  <2> HIDE DEF events
  <2> QED BY <1>1, <1>2, HeadTailProperties
<1>4. Tail(events) = <<>> => Head(events) = e
  <2>1. ASSUME Tail(events) = <<>> PROVE Len(q) = 0
    BY <1>3, <2>1, EmptySeq
  <2>2. Head(events) = events[1]
    OBVIOUS
  <2> QED BY <2>1, <2>2, <1>1
<1>5. Tail(events) # <<>> => Tail(events)[Len(Tail(events))] = e
  <2>1. ASSUME Tail(events) # <<>> PROVE Len(q) \in 1..Len(q)
    BY <1>2, <1>3, <2>1, EmptySeq
  <2> QED BY <2>1, <1>1, <1>3
<1> QED BY <1>1, <1>3, <1>4, <1>5

\* Taking the first element of a queue leaves its last one.
LEMMA DequeueStep ==
    ASSUME NEW S, NEW q \in Seq(S), q # <<>>
    PROVE  /\ Head(q) \in S /\ Tail(q) \in Seq(S)
           /\ Tail(q) = <<>> => Head(q) = q[Len(q)]
           /\ Tail(q) # <<>> => Tail(q)[Len(Tail(q))] = q[Len(q)]
<1>1. Len(q) \in Nat \ {0}
  BY EmptySeq
<1>2. /\ Head(q) \in S /\ Tail(q) \in Seq(S) /\ Len(Tail(q)) = Len(q) - 1
      /\ \A i \in 1..Len(Tail(q)) : Tail(q)[i] = q[i + 1]
  BY HeadTailProperties
<1>3. Tail(q) = <<>> => Head(q) = q[Len(q)]
  <2>1. ASSUME Tail(q) = <<>> PROVE Len(q) = 1
    <3>1. Len(Tail(q)) = 0
      BY <2>1, EmptySeq
    <3>2. Len(Tail(q)) = Len(q) - 1
      BY <1>2
    <3> QED BY <1>1, <3>1, <3>2
  <2>2. Head(q) = q[1]
    OBVIOUS
  <2> QED BY <2>1, <2>2
<1>4. Tail(q) # <<>> => Tail(q)[Len(Tail(q))] = q[Len(q)]
  <2>1. ASSUME Tail(q) # <<>> PROVE Len(Tail(q)) \in 1..Len(Tail(q))
    BY <1>1, <1>2, <2>1, EmptySeq
  <2> QED BY <2>1, <1>1, <1>2
<1> QED BY <1>2, <1>3, <1>4

\* A write of a safe SNR, or its removal, keeps the informer's invariant.
LEMMA WriteSNRSafe ==
    ASSUME InformerInv, NEW s \in MaybeSNR, WriteSNR(s)
    PROVE  InformerInv' /\ snr' = s
<1> DEFINE events == Append(snrWatch, s)
<1>1. /\ events \in Seq(MaybeSNR) /\ events # <<>> /\ events[Len(events)] = s
      /\ Head(events) \in MaybeSNR /\ Tail(events) \in Seq(MaybeSNR)
      /\ Tail(events) = <<>> => Head(events) = s
      /\ Tail(events) # <<>> => Tail(events)[Len(Tail(events))] = s
  BY QueueStep DEF InformerInv
<1>2. /\ snr' = s
      /\ \/ snrCache' = snrCache /\ snrWatch' = events /\ queued' = queued
         \/ snrCache' = Head(events) /\ snrWatch' = Tail(events) /\ queued' = TRUE
  BY DEF WriteSNR
<1> HIDE DEF events
<1> QED BY <1>1, <1>2 DEF InformerInv

LEMMA WriteNodeSafe ==
    ASSUME NodeInv, NEW n \in Node, WriteNode(n)
    PROVE  NodeInv'
<1> DEFINE events == Append(nodeWatch, n)
<1>1. events \in Seq(Node) /\ Head(events) \in Node /\ Tail(events) \in Seq(Node)
  BY QueueStep DEF NodeInv
<1>2. /\ node' = n
      /\ \/ nodeCache' = nodeCache /\ nodeWatch' = events
         \/ nodeCache' = Head(events) /\ nodeWatch' = Tail(events)
  BY DEF WriteNode
<1> HIDE DEF events
<1> QED BY <1>1, <1>2 DEF NodeInv

-----------------------------------------------------------------------------
\* A reconcile that leaves the SNR alone: what its new state must satisfy.
LEMMA ReconcileSafe ==
    ASSUME IInv, StartReconcile, snrCache # NoSNR,
           mgr' \in Manager, mgr'.snr \in SafeSNR,
           mgr'.snr.finalizer = snrCache.finalizer, mgr'.current = (snrWatch = <<>>),
           Prepared(mgr')
    PROVE  IInv'
<1>1. InformerInv'
  BY DEF IInv, InformerInv, StartReconcile
<1>2. NodeInv' /\ RestInv'
  BY DEF IInv, NodeInv, RestInv, StartReconcile, nodeVars, configVars, workload, counters
<1>3. ManagerInv'
  BY NoSNRNotSafe DEF IInv, InformerInv, ManagerInv, MaybeSNR, StartReconcile
<1> QED BY <1>1, <1>2, <1>3 DEF IInv

\* What a reconcile has read.
LEMMA ReadSafe ==
    ASSUME IInv, snrCache # NoSNR
    PROVE  /\ snrCache \in SafeSNR /\ snrCache \in SNR /\ nodeCache \in Node
           /\ Read \in Manager /\ Read.snr = snrCache /\ Read.current = (snrWatch = <<>>)
<1>1. snrCache \in SafeSNR /\ snrCache \in SNR /\ nodeCache \in Node
  BY DEF IInv, InformerInv, NodeInv, MaybeSNR, SafeSNR
<1>2. (snrWatch = <<>>) \in BOOLEAN
  OBVIOUS
<1> QED BY <1>1, <1>2 DEF Read, Manager, Errors

LEMMA StartedSafe ==
    ASSUME IInv, snrCache # NoSNR
    PROVE  /\ Started \in Manager /\ Started.snr \in SafeSNR
           /\ Started.snr.finalizer = snrCache.finalizer
           /\ Started.snr.timeAssumedRebooted = snrCache.timeAssumedRebooted
           /\ Started.snr.phase = snrCache.phase
           /\ snrCache.phase # "Fencing-Completed" => Started.snr.conds = "Started"
           /\ Started.current = (snrWatch = <<>>)
<1>1. /\ snrCache \in SafeSNR /\ snrCache \in SNR
      /\ Read \in Manager /\ Read.snr = snrCache /\ Read.current = (snrWatch = <<>>)
  BY ReadSafe
<1>2. CASE snrCache.phase = "Fencing-Completed"
  BY <1>1, <1>2 DEF Started
<1>3. CASE snrCache.phase # "Fencing-Completed"
  <2>1. Started = [Read EXCEPT !.snr = [snrCache EXCEPT !.conds = "Started"]]
    BY <1>1, <1>3 DEF Started, Manager
  <2>2. [snrCache EXCEPT !.conds = "Started"] \in SNR
    BY <1>1 DEF SNR, Conditions
  <2>3. [snrCache EXCEPT !.conds = "Started"] \in SafeSNR
    BY <1>1, <1>3, <2>2 DEF SafeSNR, SNR, Reported
  <2> QED BY <1>1, <2>1, <2>2, <2>3 DEF Manager, SNR
<1> QED BY <1>2, <1>3

\* Every reconcile keeps the invariant up to its first call.
LEMMA ReconcileKeepsInv == ASSUME IInv, Reconcile PROVE IInv'
<1> USE DEF Errors, Calls, Conditions
<1>0. ASSUME snrCache # NoSNR
      PROVE  /\ snrCache \in SafeSNR /\ snrCache \in SNR
             /\ Read \in Manager /\ Read.snr = snrCache /\ Read.current = (snrWatch = <<>>)
             /\ Started \in Manager /\ Started.snr \in SafeSNR /\ Started.snr \in SNR
             /\ Started.snr.finalizer = snrCache.finalizer
             /\ Started.snr.timeAssumedRebooted = snrCache.timeAssumedRebooted
             /\ Started.snr.phase = snrCache.phase
             /\ snrCache.phase # "Fencing-Completed" => Started.snr.conds = "Started"
             /\ Started.current = (snrWatch = <<>>)
  BY <1>0, ReadSafe, StartedSafe DEF SafeSNR
<1>1. CASE SNRNotFound
  <2>1. StartReconcile /\ mgr' = Idle
    BY <1>1 DEF SNRNotFound
  <2>2. Idle \in Manager /\ Idle.snr = NoSNR /\ Idle.pc = "idle" /\ Idle.current = FALSE
    BY DEF Idle, Manager, Node, AbsentNode
  <2>3. InformerInv' /\ NodeInv' /\ RestInv'
    BY <2>1 DEF IInv, InformerInv, NodeInv, RestInv, StartReconcile, nodeVars, configVars,
                workload, counters
  <2> QED BY <2>1, <2>2, <2>3 DEF IInv, ManagerInv, MaybeSNR, Prepared
<1>2. CASE ConfigurationNotFound
  <2>1. /\ StartReconcile /\ snrCache # NoSNR
        /\ mgr' = [Read EXCEPT !.snr.disabled = TRUE, !.pc = "updateSnrStatus"]
    BY <1>2 DEF ConfigurationNotFound
  <2>2. /\ mgr' \in Manager /\ mgr'.snr \in SafeSNR /\ mgr'.snr.finalizer = snrCache.finalizer
        /\ mgr'.current = Read.current /\ mgr'.pc = "updateSnrStatus"
    <3>1. [snrCache EXCEPT !.disabled = TRUE] \in SNR
      BY <1>0, <2>1 DEF SNR
    <3>2. /\ [snrCache EXCEPT !.disabled = TRUE] \in SafeSNR
          /\ [snrCache EXCEPT !.disabled = TRUE].finalizer = snrCache.finalizer
      BY <1>0, <2>1, <3>1 DEF SafeSNR, SNR, Reported
    <3>3. mgr' = [Read EXCEPT !.snr = [snrCache EXCEPT !.disabled = TRUE],
                              !.pc = "updateSnrStatus"]
      BY <1>0, <2>1 DEF Manager
    <3> HIDE DEF Errors, Conditions
    <3> QED BY <1>0, <2>1, <3>1, <3>2, <3>3 DEF Manager
  <2> QED BY <1>0, <2>1, <2>2, ReconcileSafe DEF Prepared
<1>3. CASE StoppedByNHC
  <2>1. /\ StartReconcile /\ snrCache # NoSNR /\ snrCache.timedOut
        /\ \/ mgr' = [Read EXCEPT !.snr.conds = "Stopped", !.pc = "updateSnrStatus"]
           \/ mgr' = [Read EXCEPT !.pc = "removeOutOfServiceTaint"]
           \/ mgr' = [Read EXCEPT !.pc = "removeFinalizer"]
    BY <1>3 DEF StoppedByNHC
  <2>2. /\ mgr' \in Manager /\ mgr'.snr \in SafeSNR /\ mgr'.snr.finalizer = snrCache.finalizer
        /\ mgr'.current = Read.current
        /\ mgr'.pc \in {"updateSnrStatus", "removeOutOfServiceTaint", "removeFinalizer"}
        /\ mgr'.pc = "removeOutOfServiceTaint" => mgr'.snr.timedOut
    <3>1. CASE mgr' = [Read EXCEPT !.snr.conds = "Stopped", !.pc = "updateSnrStatus"]
      <4>1. [snrCache EXCEPT !.conds = "Stopped"] \in SNR
        BY <1>0, <2>1 DEF SNR
      <4>2. /\ [snrCache EXCEPT !.conds = "Stopped"] \in SafeSNR
            /\ [snrCache EXCEPT !.conds = "Stopped"].finalizer = snrCache.finalizer
        BY <1>0, <2>1, <4>1 DEF SafeSNR, SNR, Reported
      <4>3. mgr' = [Read EXCEPT !.snr = [snrCache EXCEPT !.conds = "Stopped"],
                                !.pc = "updateSnrStatus"]
        BY <1>0, <2>1, <3>1 DEF Manager
      <4> QED BY <1>0, <2>1, <4>1, <4>2, <4>3 DEF Manager
    <3>2. CASE mgr' = [Read EXCEPT !.pc = "removeOutOfServiceTaint"]
      BY <1>0, <2>1, <3>2 DEF Manager
    <3>3. CASE mgr' = [Read EXCEPT !.pc = "removeFinalizer"]
      BY <1>0, <2>1, <3>3 DEF Manager
    <3> QED BY <2>1, <3>1, <3>2, <3>3
  <2> QED BY <1>0, <2>1, <2>2, ReconcileSafe DEF Prepared
<1>4. CASE NodeNotFound
  <2>1. /\ StartReconcile /\ snrCache # NoSNR
        /\ mgr' = [Started EXCEPT !.snr.conds = "Stopped", !.err = "NodeNotFound",
                                  !.pc = "updateSnrStatusLastError"]
    BY <1>4 DEF NodeNotFound, Remediating
  <2>2. /\ mgr' \in Manager /\ mgr'.snr \in SafeSNR /\ mgr'.snr.finalizer = snrCache.finalizer
        /\ mgr'.current = Started.current /\ mgr'.pc = "updateSnrStatusLastError"
    <3> DEFINE stopped == [Started.snr EXCEPT !.conds = "Stopped"]
    <3>1. stopped \in SNR /\ stopped.phase = Started.snr.phase /\ stopped.conds = "Stopped"
          /\ stopped.timeAssumedRebooted = Started.snr.timeAssumedRebooted
          /\ stopped.finalizer = Started.snr.finalizer
      BY <1>0, <2>1 DEF SafeSNR, SNR
    <3>2. stopped \in SafeSNR
      BY <1>0, <2>1, <3>1 DEF SafeSNR, Reported
    <3>3. mgr' = [Started EXCEPT !.snr = stopped, !.err = "NodeNotFound",
                                 !.pc = "updateSnrStatusLastError"]
      BY <1>0, <2>1 DEF Manager
    <3> HIDE DEF stopped
    <3> QED BY <1>0, <2>1, <3>1, <3>2, <3>3 DEF Manager
  <2> QED BY <1>0, <2>1, <2>2, ReconcileSafe DEF Prepared
<1>5. CASE NodeExcluded
  <2>1. /\ StartReconcile /\ snrCache # NoSNR
        /\ mgr' = [Started EXCEPT !.pc = "updateSnrStatus"]
    BY <1>5 DEF NodeExcluded, Remediating
  <2>2. /\ mgr' \in Manager /\ mgr'.snr = Started.snr
        /\ mgr'.current = Started.current /\ mgr'.pc = "updateSnrStatus"
    BY <1>0, <2>1 DEF Manager
  <2> QED BY <1>0, <2>1, <2>2, ReconcileSafe DEF Prepared
<1>6. CASE prepareReboot
  <2>1. /\ StartReconcile /\ snrCache # NoSNR
        /\ snrCache.phase = "Fencing-Started"
        /\ \/ mgr' = [Started EXCEPT !.err = "NotRebootCapable", !.pc = "updateSnrStatusLastError"]
           \/ mgr' = [Started EXCEPT !.pc = "addNoScheduleTaint"] /\ snrCache.finalizer
           \/ mgr' = [Started EXCEPT !.pc = "addFinalizer"]
           \/ mgr' = [Started EXCEPT !.pc = "updateSnrStatusLastError"]
    <3>1. StartReconcile /\ snrCache # NoSNR /\ snrCache.phase = "Fencing-Started"
      BY <1>6 DEF prepareReboot, InPhase, Remediating
    <3>2. snrCache.finalizer \in BOOLEAN /\ snrCache.deleting \in BOOLEAN
          /\ nodeCache.capable \in BOOLEAN
      BY <1>0, <3>1 DEF SNR, IInv, NodeInv, Node
    <3> QED BY <1>6, <3>1, <3>2 DEF prepareReboot
  <2>2. /\ mgr' \in Manager /\ mgr'.snr = Started.snr /\ mgr'.current = Started.current
        /\ mgr'.pc = "addNoScheduleTaint" => snrCache.finalizer
        /\ mgr'.pc \in {"addNoScheduleTaint", "addFinalizer", "updateSnrStatusLastError"}
    BY <1>0, <2>1 DEF Manager
  <2> QED BY <1>0, <2>1, <2>2, ReconcileSafe DEF Prepared
<1>7. CASE waitForNodeRebooted
  <2>1. /\ StartReconcile /\ snrCache # NoSNR /\ snrCache.phase = "Pre-Reboot-Completed"
        /\ \/ mgr' = [Started EXCEPT !.snr.phase = "Reboot-Completed",
                                      !.pc = "updateSnrStatusLastError"]
           \/ mgr' = [Started EXCEPT !.requeue = TRUE, !.pc = "updateSnrStatusLastError"]
    BY <1>7 DEF waitForNodeRebooted, InPhase, Remediating
  <2>2. /\ mgr' \in Manager /\ mgr'.snr \in SafeSNR /\ mgr'.snr.finalizer = snrCache.finalizer
        /\ mgr'.current = Started.current /\ mgr'.pc = "updateSnrStatusLastError"
    <3>1. CASE mgr' = [Started EXCEPT !.snr.phase = "Reboot-Completed",
                                      !.pc = "updateSnrStatusLastError"]
      <4> DEFINE s == [Started.snr EXCEPT !.phase = "Reboot-Completed"]
      <4>1. /\ s \in SNR /\ s.phase = "Reboot-Completed" /\ s.conds = "Started"
            /\ s.finalizer = Started.snr.finalizer
            /\ s.timeAssumedRebooted = Started.snr.timeAssumedRebooted
        BY <1>0, <2>1 DEF SNR, Phases
      <4>2. mgr' = [Started EXCEPT !.snr = s, !.pc = "updateSnrStatusLastError"]
        BY <1>0, <2>1, <3>1 DEF Manager
      <4> HIDE DEF s
      <4>3. s \in SafeSNR
        BY <1>0, <2>1, <4>1 DEF SafeSNR, Reported
      <4> QED BY <1>0, <2>1, <4>1, <4>2, <4>3 DEF Manager
    <3>2. CASE mgr' = [Started EXCEPT !.requeue = TRUE, !.pc = "updateSnrStatusLastError"]
      BY <1>0, <2>1, <3>2 DEF Manager
    <3> QED BY <2>1, <3>1, <3>2
  <2> QED BY <1>0, <2>1, <2>2, ReconcileSafe DEF Prepared
<1>8. CASE handleRebootCompletedPhase \/ handleFencingCompletedPhase
  <2>1. /\ StartReconcile /\ snrCache # NoSNR /\ snrCache.phase # "Fencing-Started"
        /\ \E call \in {"DeletePods", "addOutOfServiceTaint", "removeNoScheduleTaint",
                         "updateSnrStatusLastError"} : mgr' = [Started EXCEPT !.pc = call]
    BY <1>8 DEF handleRebootCompletedPhase, handleFencingCompletedPhase, InPhase, Remediating
  <2>2. /\ mgr' \in Manager /\ mgr'.snr = Started.snr /\ mgr'.current = Started.current
        /\ mgr'.pc \notin {"addNoScheduleTaint", "setTimeAssumedRebooted"}
        /\ mgr'.snr.phase # "Fencing-Started"
    BY <1>0, <2>1 DEF Manager
  <2> QED BY <1>0, <2>1, <2>2, ReconcileSafe DEF Prepared
<1> QED BY <1>1, <1>2, <1>3, <1>4, <1>5, <1>6, <1>7, <1>8 DEF Reconcile
-----------------------------------------------------------------------------
\* A state m of the reconcile under way that keeps the copy's finalizer.
Follows(m) ==
    /\ m \in Manager /\ m.snr \in SafeSNR
    /\ m.snr.finalizer = mgr.snr.finalizer /\ m.current = mgr.current
    /\ Prepared(m)

\* A call that leaves the SNR alone and continues with such a state.
LEMMA QuietCall ==
    ASSUME IInv, mgr.pc # "idle", Follows(mgr'), UNCHANGED snrVars, NodeInv', RestInv'
    PROVE  IInv'
<1>1. InformerInv'
  BY DEF IInv, InformerInv, snrVars
<1>2. ManagerInv'
  BY NoSNRNotSafe DEF IInv, ManagerInv, InformerInv, MaybeSNR, Follows, snrVars
<1> QED BY <1>1, <1>2 DEF IInv

LEMMA FailedFollows ==
    ASSUME IInv, mgr.pc # "idle"
    PROVE  Follows(mgr) /\ Follows(Failed(mgr))
<1>1. mgr \in Manager /\ mgr.snr \in SafeSNR /\ mgr.snr.finalizer = mgr.snr.finalizer
  BY DEF IInv, ManagerInv, MaybeSNR
<1>2. Follows(mgr)
  BY <1>1 DEF Follows, IInv, ManagerInv
<1>3. \E call \in {"updateSnrStatus", "updateSnrStatusLastError"} :
        Failed(mgr) = [mgr EXCEPT !.err = "ApiCall", !.pc = call]
  BY DEF Failed
<1>4. Failed(mgr) \in Manager /\ Failed(mgr).snr = mgr.snr /\ Failed(mgr).current = mgr.current
      /\ Failed(mgr).pc \in {"updateSnrStatus", "updateSnrStatusLastError"}
  BY <1>1, <1>3 DEF Manager, Errors, Calls
<1> QED BY <1>1, <1>2, <1>4 DEF Follows, Prepared

LEMMA FaultTyped ==
    ASSUME RestInv, Fault, pods' \in Pods, attached' \in BOOLEAN,
           UNCHANGED <<configVars, delayed, clock>>
    PROVE  RestInv'
BY DEF RestInv, Fault, configVars

LEMMA CallFailsSafe ==
    ASSUME IInv, mgr.pc # "idle", CallFails, UNCHANGED <<configVars, delayed, clock>>
    PROVE  IInv'
<1>1. NodeInv'
  BY DEF IInv, NodeInv, CallFails, nodeVars
<1>2. RestInv'
  BY FaultTyped DEF IInv, RestInv, CallFails, workload
<1> QED BY <1>1, <1>2, FailedFollows, QuietCall DEF CallFails

\* The calls that add or remove a taint, continuing with m.
LEMMA TaintCallSafe ==
    ASSUME IInv, mgr.pc # "idle", NEW taint \in Taints, NEW m, Follows(m),
           AddTaint(taint, m) \/ RemoveTaint(taint, m), UNCHANGED <<configVars, delayed, clock>>
    PROVE  IInv'
<1>1. CASE CallFails
  BY <1>1, CallFailsSafe
<1>2. CASE mgr' = m /\ UNCHANGED <<snrVars, nodeVars, workload, counters>>
  <2>1. NodeInv' /\ RestInv'
    BY <1>2 DEF IInv, NodeInv, RestInv, nodeVars, workload, counters, configVars
  <2> QED BY <1>2, <2>1, QuietCall
<1>3. CASE \E taints \in SUBSET Taints : PatchTaints(taints, m)
  <2> PICK taints \in SUBSET Taints : PatchTaints(taints, m)
    BY <1>3
  <2>1. RestInv'
    BY DEF IInv, RestInv, PatchTaints, workload, counters, configVars
  <2>2. CASE /\ WriteNode([node EXCEPT !.taints = taints])
             /\ mgr' = [m EXCEPT !.node = [node EXCEPT !.taints = taints]]
    <3>1. [node EXCEPT !.taints = taints] \in Node
      BY DEF IInv, NodeInv, Node
    <3>2. NodeInv'
      BY <2>2, <3>1, WriteNodeSafe DEF IInv
    <3>3. mgr' \in Manager /\ mgr'.snr = m.snr /\ mgr'.current = m.current /\ mgr'.pc = m.pc
      BY <2>2, <3>1 DEF Follows, Manager
    <3>4. Follows(mgr')
      BY <3>3 DEF Follows, Prepared
    <3> QED BY <2>1, <3>2, <3>4, QuietCall DEF PatchTaints
  <2>3. CASE mgr' = Failed(mgr) /\ UNCHANGED nodeVars
    <3>1. NodeInv'
      BY <2>3 DEF IInv, NodeInv, nodeVars
    <3> QED BY <2>1, <2>3, <3>1, FailedFollows, QuietCall DEF PatchTaints
  <2> QED BY <2>2, <2>3 DEF PatchTaints
<1>4. mgr.node.taints \in SUBSET Taints
  BY DEF IInv, ManagerInv, Manager, Node
<1> QED BY <1>1, <1>2, <1>3, <1>4 DEF AddTaint, RemoveTaint

\* The calls of a reconcile that touch the node or the workload.
LEMMA NodeCallsKeepInv ==
    ASSUME IInv,
           \/ addNoScheduleTaint \/ setTimeAssumedRebooted
           \/ DeletePods \/ addOutOfServiceTaint \/ isResourceDeletionCompleted
           \/ removeOutOfServiceTaint \/ removeNoScheduleTaint
    PROVE  IInv'
<1> USE DEF Calls, Errors
<1>0. mgr.pc # "idle" => mgr \in Manager /\ mgr.snr \in SafeSNR /\ mgr.snr \in SNR
  BY DEF IInv, ManagerInv, MaybeSNR, SafeSNR
<1>f. ASSUME mgr.pc \in {"DeletePods", "removeOutOfServiceTaint"},
             mgr.pc = "removeOutOfServiceTaint" => ~mgr.snr.timedOut
      PROVE  Follows(FencingCompleted(mgr))
  <2> DEFINE s == [mgr.snr EXCEPT !.phase = "Fencing-Completed", !.conds = "Finished"]
  <2>1. s \in SNR /\ s.finalizer = mgr.snr.finalizer
                  /\ s.timeAssumedRebooted = mgr.snr.timeAssumedRebooted
                  /\ s.phase = "Fencing-Completed" /\ s.conds = "Finished"
    BY <1>0, <1>f DEF SNR, Phases, Conditions
  <2>2. FencingCompleted(mgr) = [mgr EXCEPT !.snr = s, !.pc = "updateSnrStatusLastError"]
    BY <1>0, <1>f DEF FencingCompleted, Manager
  <2>3. mgr.snr.phase # "Fencing-Started"
    BY <1>f DEF IInv, ManagerInv, Prepared
  <2> HIDE DEF s
  <2>4. s \in SafeSNR
    BY <1>0, <1>f, <2>1, <2>3 DEF SafeSNR, Reported
  <2> QED BY <1>0, <1>f, <2>1, <2>2, <2>4 DEF Follows, Prepared, Manager, IInv, ManagerInv
<1>1. CASE addNoScheduleTaint
  <2> DEFINE m == [mgr EXCEPT !.pc = "setTimeAssumedRebooted"]
  <2>1. mgr.pc = "addNoScheduleTaint" /\ UNCHANGED <<configVars, delayed, clock>>
    BY <1>1 DEF addNoScheduleTaint, Calling
  <2>2. Follows(m)
    BY <1>0, <2>1 DEF Follows, Prepared, Manager, IInv, ManagerInv
  <2>3. AddTaint("NoSchedule", m)
    BY <1>1 DEF addNoScheduleTaint
  <2> HIDE DEF m
  <2> QED BY <2>1, <2>2, <2>3, TaintCallSafe DEF Taints
<1>2. CASE setTimeAssumedRebooted
  <2>1. mgr.pc = "setTimeAssumedRebooted" /\ UNCHANGED <<configVars, delayed, clock>>
    BY <1>2 DEF setTimeAssumedRebooted, Calling
  <2>2. CASE CallFails
    BY <2>1, <2>2, CallFailsSafe
  <2>3. CASE mgr' = PreRebootCompleted(mgr) /\ UNCHANGED <<snrVars, nodeVars, workload, counters>>
    <3> DEFINE t == IF mgr.snr.timeAssumedRebooted = NoTime THEN clock + RebootDuration
                                                            ELSE mgr.snr.timeAssumedRebooted
               s == [mgr.snr EXCEPT !.timeAssumedRebooted = t, !.phase = "Pre-Reboot-Completed"]
    <3>1. NodeInv' /\ RestInv'
      BY <2>1, <2>3 DEF IInv, NodeInv, RestInv, nodeVars, workload, counters, configVars
    <3>2. t \in Nat
      <4>1. mgr.snr.timeAssumedRebooted \in Nat \cup {NoTime}
        BY <1>0, <2>1 DEF SNR
      <4>2. clock \in Nat /\ RebootDuration \in Nat
        BY BoundsAssumption DEF IInv, RestInv
      <4> QED BY <4>1, <4>2
    <3>3. mgr' = [mgr EXCEPT !.snr = s, !.pc = "updateSnrStatusLastError"]
      BY <1>0, <2>1, <2>3 DEF PreRebootCompleted, Manager
    <3>4. mgr.snr.finalizer /\ mgr.snr.phase = "Fencing-Started"
      BY <2>1 DEF IInv, ManagerInv, Prepared
    <3> HIDE DEF t
    <3>5. /\ s \in SNR /\ s.finalizer = mgr.snr.finalizer /\ s.timeAssumedRebooted = t
          /\ s.phase = "Pre-Reboot-Completed" /\ s.conds = mgr.snr.conds
      BY <1>0, <2>1, <3>2 DEF SNR, Phases
    <3>6. s \in SafeSNR
      <4>1. t # NoTime
        BY <3>2 DEF NoTime
      <4> HIDE DEF s
      <4> QED BY <1>0, <2>1, <3>4, <3>5, <4>1 DEF SafeSNR, Reported
    <3> HIDE DEF s
    <3>7. Follows(mgr')
      BY <1>0, <2>1, <3>3, <3>5, <3>6 DEF Follows, Prepared, Manager, IInv, ManagerInv
    <3> QED BY <2>1, <2>3, <3>1, <3>7, QuietCall
  <2> QED BY <1>2, <2>2, <2>3 DEF setTimeAssumedRebooted
<1>3. CASE DeletePods
  <2>1. /\ mgr.pc = "DeletePods" /\ UNCHANGED <<configVars, delayed, clock>>
        /\ UNCHANGED <<snrVars, nodeVars, attached>>
    BY <1>3 DEF DeletePods, Calling
  <2>2. NodeInv'
    BY <2>1 DEF IInv, NodeInv, nodeVars
  <2>3. CASE mgr' = FencingCompleted(mgr) /\ pods' = "deleted" /\ UNCHANGED counters
    <3>1. RestInv'
      BY <2>1, <2>3 DEF IInv, RestInv, Pods, counters, configVars
    <3>2. Follows(FencingCompleted(mgr))
      BY <1>f, <2>1
    <3> QED BY <2>1, <2>2, <2>3, <3>1, <3>2, QuietCall
  <2>4. CASE Fault /\ mgr' = Failed(mgr) /\ pods' \in {pods, "deleted"}
    <3>1. RestInv'
      BY <2>1, <2>4, FaultTyped DEF IInv, RestInv, Pods
    <3> QED BY <2>1, <2>2, <2>4, <3>1, FailedFollows, QuietCall
  <2> QED BY <1>3, <2>3, <2>4 DEF DeletePods
<1>4. CASE addOutOfServiceTaint
  <2> DEFINE m == [mgr EXCEPT !.pc = "isResourceDeletionCompleted"]
  <2>1. mgr.pc = "addOutOfServiceTaint" /\ UNCHANGED <<configVars, delayed, clock>>
    BY <1>4 DEF addOutOfServiceTaint, Calling
  <2>2. Follows(m)
    BY <1>0, <2>1 DEF Follows, Prepared, Manager, IInv, ManagerInv
  <2>3. AddTaint("OutOfService", m)
    BY <1>4 DEF addOutOfServiceTaint
  <2> HIDE DEF m
  <2> QED BY <2>1, <2>2, <2>3, TaintCallSafe DEF Taints
<1>5. CASE isResourceDeletionCompleted
  <2>1. /\ mgr.pc = "isResourceDeletionCompleted" /\ UNCHANGED <<configVars, delayed, clock>>
        /\ UNCHANGED <<snrVars, nodeVars, workload>>
        /\ UNCHANGED counters \/ Fault
    BY <1>5 DEF isResourceDeletionCompleted, Calling
  <2>2. \/ mgr' = [mgr EXCEPT !.pc = "removeOutOfServiceTaint"]
        \/ mgr' = [mgr EXCEPT !.requeue = TRUE, !.pc = "updateSnrStatusLastError"]
        \/ mgr' = [mgr EXCEPT !.err = "NotReadyToDelete", !.pc = "updateSnrStatusLastError"]
    <3>1. mgr.snr.deleting \in BOOLEAN
      BY <1>0, <2>1 DEF SNR
    <3>2. CASE mgr' = [mgr EXCEPT !.pc = "removeOutOfServiceTaint"]
      BY <3>2
    <3>3. CASE mgr' =
               CASE ~ResourceDeletionExpired ->
                      [mgr EXCEPT !.requeue = TRUE, !.pc = "updateSnrStatusLastError"]
                 [] ResourceDeletionExpired /\ mgr.snr.deleting ->
                      [mgr EXCEPT !.pc = "removeOutOfServiceTaint"]
                 [] ResourceDeletionExpired /\ ~mgr.snr.deleting ->
                      [mgr EXCEPT !.err = "NotReadyToDelete", !.pc = "updateSnrStatusLastError"]
      BY <3>1, <3>3
    <3> QED BY <1>5, <3>2, <3>3 DEF isResourceDeletionCompleted
  <2>3. Follows(mgr')
    BY <1>0, <2>1, <2>2 DEF Follows, Prepared, Manager, IInv, ManagerInv
  <2>4. NodeInv' /\ RestInv'
    BY <2>1, FaultTyped DEF IInv, NodeInv, RestInv, nodeVars, workload, counters, configVars
  <2> QED BY <2>1, <2>3, <2>4, QuietCall
<1>6. CASE removeOutOfServiceTaint
  <2> DEFINE m == IF mgr.snr.timedOut THEN [mgr EXCEPT !.pc = "removeNoScheduleTaint"]
                                      ELSE FencingCompleted(mgr)
  <2>1. mgr.pc = "removeOutOfServiceTaint" /\ UNCHANGED <<configVars, delayed, clock>>
    BY <1>6 DEF removeOutOfServiceTaint, Calling
  <2>2. Follows([mgr EXCEPT !.pc = "removeNoScheduleTaint"])
    BY <1>0, <2>1 DEF Follows, Prepared, Manager, IInv, ManagerInv
  <2>3. Follows(m)
    BY <1>f, <2>1, <2>2
  <2>4. RemoveTaint("OutOfService", m)
    BY <1>6 DEF removeOutOfServiceTaint
  <2> HIDE DEF m
  <2> QED BY <2>1, <2>3, <2>4, TaintCallSafe DEF Taints
<1>7. CASE removeNoScheduleTaint
  <2>1. mgr.pc = "removeNoScheduleTaint" /\ UNCHANGED <<configVars, delayed, clock>>
    BY <1>7 DEF removeNoScheduleTaint, Calling
  <2>2. \E call \in {"removeFinalizer", "updateSnrStatus", "updateSnrStatusLastError"} :
          AfterRecovery(mgr) = [mgr EXCEPT !.pc = call]
    BY DEF AfterRecovery
  <2>3. Follows(AfterRecovery(mgr))
    BY <1>0, <2>1, <2>2 DEF Follows, Prepared, Manager, IInv, ManagerInv
  <2>4. RemoveTaint("NoSchedule", AfterRecovery(mgr))
    BY <1>7 DEF removeNoScheduleTaint
  <2> QED BY <2>1, <2>3, <2>4, TaintCallSafe DEF Taints
<1> QED BY <1>1, <1>2, <1>3, <1>4, <1>5, <1>6, <1>7

\* The calls of a reconcile that write the SNR.
LEMMA SNRCallsKeepInv ==
    ASSUME IInv, addFinalizer \/ removeFinalizer \/ updateSnrStatusLastError \/ updateSnrStatus
    PROVE  IInv'
<1> USE DEF Calls, Errors
<1>0. mgr.pc # "idle" => mgr \in Manager /\ mgr.snr \in SafeSNR /\ mgr.snr \in SNR
  BY DEF IInv, ManagerInv, MaybeSNR, SafeSNR
<1>s. snr # NoSNR => snr \in SafeSNR /\ snr \in SNR
  BY DEF IInv, InformerInv, MaybeSNR, SafeSNR
<1>c. mgr.current => snr # NoSNR /\ mgr.snr # NoSNR /\ mgr.snr.finalizer = snr.finalizer
  BY DEF IInv, ManagerInv
<1>i. Idle \in Manager /\ Idle.snr = NoSNR /\ Idle.pc = "idle" /\ Idle.current = FALSE
  BY DEF Idle, Manager, Node, AbsentNode
<1>1. CASE addFinalizer
  <2>1. mgr.pc = "addFinalizer" /\ UNCHANGED <<configVars, delayed, clock>>
    BY <1>1 DEF addFinalizer, Calling
  <2>2. CASE CallFails
    BY <2>1, <2>2, CallFailsSafe
  <2>3. CASE /\ mgr' = [mgr EXCEPT !.requeue = TRUE, !.pc = "updateSnrStatusLastError",
                                   !.err = IF snr = NoSNR THEN "ApiCall" ELSE ""]
             /\ UNCHANGED <<snrVars, nodeVars, workload, counters>>
    <3>1. Follows(mgr')
      BY <1>0, <2>1, <2>3 DEF Follows, Prepared, Manager
    <3>2. NodeInv' /\ RestInv'
      BY <2>1, <2>3 DEF IInv, NodeInv, RestInv, nodeVars, workload, counters, configVars
    <3> QED BY <2>1, <2>3, <3>1, <3>2, QuietCall
  <2>4. CASE /\ mgr.current
             /\ WriteSNR([snr EXCEPT !.finalizer = TRUE])
             /\ mgr' = [mgr EXCEPT !.snr = [snr EXCEPT !.finalizer = TRUE], !.requeue = TRUE,
                                   !.pc = "updateSnrStatusLastError"]
             /\ UNCHANGED <<nodeVars, workload, counters>>
    <3> DEFINE s == [snr EXCEPT !.finalizer = TRUE]
    <3>1. s \in SNR /\ s.finalizer /\ s.phase = snr.phase
                    /\ s.timeAssumedRebooted = snr.timeAssumedRebooted /\ s.conds = snr.conds
      BY <1>s, <1>c, <2>4 DEF SNR
    <3> HIDE DEF s
    <3>2. s \in SafeSNR
      BY <1>s, <1>c, <2>4, <3>1 DEF SafeSNR, Reported
    <3>3. InformerInv' /\ snr' = s
      BY <2>4, <3>2, WriteSNRSafe DEF IInv, MaybeSNR, s
    <3>4. NodeInv' /\ RestInv'
      BY <2>1, <2>4 DEF IInv, NodeInv, RestInv, nodeVars, workload, counters, configVars
    <3>5. mgr' = [mgr EXCEPT !.snr = s, !.requeue = TRUE, !.pc = "updateSnrStatusLastError"]
      BY <2>4 DEF s
    <3>6. mgr' \in Manager /\ mgr'.snr = s /\ mgr'.pc = "updateSnrStatusLastError"
      BY <1>0, <2>1, <3>1, <3>5 DEF Manager
    <3> QED BY <3>2, <3>3, <3>4, <3>6, NoSNRNotSafe DEF IInv, ManagerInv, MaybeSNR, Prepared
  <2> QED BY <1>1, <2>2, <2>3, <2>4 DEF addFinalizer, Accepted
<1>2. CASE removeFinalizer
  <2>1. mgr.pc = "removeFinalizer" /\ UNCHANGED <<configVars, delayed, clock>>
    BY <1>2 DEF removeFinalizer, Calling
  <2>2. CASE CallFails
    BY <2>1, <2>2, CallFailsSafe
  <2>3. CASE mgr' = Failed(mgr) /\ UNCHANGED <<snrVars, nodeVars, workload, counters>>
    <3>1. NodeInv' /\ RestInv'
      BY <2>1, <2>3 DEF IInv, NodeInv, RestInv, nodeVars, workload, counters, configVars
    <3> QED BY <2>1, <2>3, <3>1, FailedFollows, QuietCall
  <2>4. CASE /\ WriteSNR(NoSNR)
             /\ mgr' = [mgr EXCEPT !.current = FALSE,
                                   !.pc = IF mgr.snr.timedOut THEN "updateSnrStatus"
                                                              ELSE "updateSnrStatusLastError"]
             /\ UNCHANGED <<nodeVars, workload, counters>>
    <3>1. InformerInv'
      BY <2>4, WriteSNRSafe DEF IInv, MaybeSNR
    <3>2. NodeInv' /\ RestInv'
      BY <2>1, <2>4 DEF IInv, NodeInv, RestInv, nodeVars, workload, counters, configVars
    <3>3. /\ mgr' \in Manager /\ mgr'.snr = mgr.snr /\ mgr'.current = FALSE
          /\ mgr'.pc \in {"updateSnrStatus", "updateSnrStatusLastError"}
      BY <1>0, <2>1, <2>4 DEF Manager
    <3> QED BY <1>0, <2>1, <3>1, <3>2, <3>3, NoSNRNotSafe DEF IInv, ManagerInv, MaybeSNR, Prepared
  <2> QED BY <1>2, <2>2, <2>3, <2>4 DEF removeFinalizer, Accepted
<1>3. CASE updateSnrStatusLastError
  <2> DEFINE m == [mgr EXCEPT !.pc = "updateSnrStatus"]
  <2>1. /\ mgr.pc = "updateSnrStatusLastError" /\ UNCHANGED <<configVars, delayed, clock>>
        /\ UNCHANGED <<nodeVars, workload>>
    BY <1>3 DEF updateSnrStatusLastError, Calling
  <2>2. NodeInv'
    BY <2>1 DEF IInv, NodeInv, nodeVars
  <2>3. UNCHANGED counters \/ Fault
    BY <1>3 DEF updateSnrStatusLastError
  <2>4. RestInv'
    BY <2>1, <2>3, FaultTyped DEF IInv, RestInv, workload, counters, configVars
  <2>5. Follows(m) /\ m \in Manager /\ m.pc = "updateSnrStatus"
    BY <1>0, <2>1 DEF Follows, Prepared, Manager
  <2>6. CASE mgr' = m /\ UNCHANGED snrVars
    BY <2>1, <2>2, <2>4, <2>5, <2>6, QuietCall
  <2>7. CASE mgr' = [m EXCEPT !.snr.lastError = mgr.err, !.err = "ApiCall"] /\ UNCHANGED snrVars
    <3> DEFINE s == [mgr.snr EXCEPT !.lastError = mgr.err]
    <3>1. /\ s \in SNR /\ s.finalizer = mgr.snr.finalizer /\ s.phase = mgr.snr.phase
          /\ s.timeAssumedRebooted = mgr.snr.timeAssumedRebooted /\ s.conds = mgr.snr.conds
      BY <1>0, <2>1 DEF SNR, Manager
    <3>2. mgr' = [mgr EXCEPT !.snr = s, !.err = "ApiCall", !.pc = "updateSnrStatus"]
      BY <1>0, <2>1, <2>7 DEF Manager
    <3> HIDE DEF s
    <3>3. s \in SafeSNR
      BY <1>0, <2>1, <3>1 DEF SafeSNR, Reported
    <3>4. Follows(mgr')
      BY <1>0, <2>1, <3>1, <3>2, <3>3 DEF Follows, Prepared, Manager
    <3> QED BY <2>1, <2>2, <2>4, <2>7, <3>4, QuietCall
  <2>8. CASE /\ snr # NoSNR
             /\ LET s == [snr EXCEPT !.lastError = mgr.err] IN
                /\ IF s = snr THEN UNCHANGED snrVars ELSE WriteSNR(s)
                /\ mgr' = [m EXCEPT !.snr = s, !.current = TRUE]
    <3> DEFINE s == [snr EXCEPT !.lastError = mgr.err]
    <3>1. /\ s \in SNR /\ s.finalizer = snr.finalizer /\ s.phase = snr.phase
          /\ s.timeAssumedRebooted = snr.timeAssumedRebooted /\ s.conds = snr.conds
      BY <1>0, <1>s, <2>1, <2>8 DEF SNR, Manager
    <3>2. /\ (s = snr /\ UNCHANGED snrVars) \/ WriteSNR(s)
          /\ mgr' = [m EXCEPT !.snr = s, !.current = TRUE]
      BY <2>8
    <3> HIDE DEF s
    <3>3. s \in SafeSNR
      BY <1>s, <2>8, <3>1 DEF SafeSNR, Reported
    <3>4. InformerInv' /\ snr' = s
      BY <3>2, <3>3, WriteSNRSafe DEF IInv, InformerInv, MaybeSNR, snrVars
    <3> HIDE DEF m
    <3>5. mgr' \in Manager /\ mgr'.snr = s /\ mgr'.pc = "updateSnrStatus"
      BY <2>5, <3>1, <3>2 DEF Manager
    <3> QED BY <2>2, <2>4, <3>3, <3>4, <3>5, NoSNRNotSafe DEF IInv, ManagerInv, MaybeSNR, Prepared
  <2> QED BY <1>3, <2>6, <2>7, <2>8 DEF updateSnrStatusLastError
<1>4. CASE updateSnrStatus
  <2>1. /\ mgr.pc = "updateSnrStatus" /\ mgr' = Idle
        /\ UNCHANGED <<nodeVars, configVars, workload, clock>>
    BY <1>4 DEF updateSnrStatus
  <2>2. (UNCHANGED counters \/ Fault) /\ delayed' \in BOOLEAN
    BY <1>4 DEF updateSnrStatus, IInv, RestInv
  <2>3. NodeInv' /\ RestInv'
    BY <2>1, <2>2 DEF IInv, NodeInv, RestInv, Fault, nodeVars, configVars, workload, counters
  <2>4. ManagerInv'
    BY <1>i, <2>1 DEF ManagerInv, MaybeSNR, Prepared
  <2>5. CASE UNCHANGED snrVars
    BY <2>3, <2>4, <2>5 DEF IInv, InformerInv, snrVars
  <2>6. CASE mgr.current /\ WriteSNR(WithStatus(snr, mgr.snr))
    <3> DEFINE s == WithStatus(snr, mgr.snr)
    <3>1. /\ s \in SNR /\ s.finalizer = snr.finalizer /\ s.phase = mgr.snr.phase
          /\ s.timeAssumedRebooted = mgr.snr.timeAssumedRebooted /\ s.conds = mgr.snr.conds
      BY <1>0, <1>s, <1>c, <2>1, <2>6 DEF SNR, WithStatus
    <3> HIDE DEF s
    <3>2. s \in SafeSNR
      BY <1>0, <1>c, <2>1, <2>6, <3>1 DEF SafeSNR, Reported
    <3>3. InformerInv'
      BY <2>6, <3>2, WriteSNRSafe DEF IInv, MaybeSNR, s
    <3> QED BY <2>3, <2>4, <3>3 DEF IInv
  <2> QED BY <1>4, <2>5, <2>6 DEF updateSnrStatus, Accepted
<1> QED BY <1>1, <1>2, <1>3, <1>4

\* A write of the SNR by somebody else, which leaves the manager's copy outdated.
LEMMA ForeignWrite ==
    ASSUME IInv, NEW s \in MaybeSNR, WriteSNR(s), Outdate, NodeInv', RestInv'
    PROVE  IInv'
<1>1. InformerInv'
  BY WriteSNRSafe DEF IInv
<1>2. /\ mgr' \in Manager /\ mgr'.snr = mgr.snr /\ mgr'.pc = mgr.pc /\ mgr'.current = FALSE
  BY DEF Outdate, IInv, ManagerInv, Manager
<1>3. ManagerInv'
  BY <1>2 DEF IInv, ManagerInv, Prepared
<1> QED BY <1>1, <1>3 DEF IInv

\* A step that changes neither the SNR nor a copy of it.
LEMMA BystanderStep ==
    ASSUME IInv, UNCHANGED <<snr, snrCache, snrWatch, mgr>>, queued' \in BOOLEAN, NodeInv', RestInv'
    PROVE  IInv'
<1>1. InformerInv'
  BY DEF IInv, InformerInv
<1>2. ManagerInv'
  BY DEF IInv, ManagerInv, Prepared
<1> QED BY <1>1, <1>2 DEF IInv

\* The informers, the config controller, restarts and the rest of the cluster.
LEMMA OthersKeepInv ==
    ASSUME IInv,
           Restart \/ setCRsEnabledStatus \/ SyncSNR \/ SyncNode \/ RequeueDue \/ Tick \/ Cluster
    PROVE  IInv'
<1> USE DEF nodeVars, configVars, workload, counters
<1>s. snr # NoSNR => snr \in SafeSNR /\ snr \in SNR
  BY DEF IInv, InformerInv, MaybeSNR, SafeSNR
<1>1. CASE Restart
  <2>1. InformerInv'
    <3>1. <<>> \in Seq(MaybeSNR)
      BY EmptySeq
    <3> QED BY <1>1, <3>1 DEF Restart, IInv, InformerInv
  <2>2. NodeInv'
    <3>1. <<>> \in Seq(Node)
      BY EmptySeq
    <3> QED BY <1>1, <3>1 DEF Restart, IInv, NodeInv
  <2>3. RestInv'
    <3>1. faults' \in Nat
      BY <1>1 DEF Restart, Fault, IInv, RestInv
    <3>2. taintGA' \in BOOLEAN
      BY <1>1, Zenon DEF Restart, InitOutOfServiceTaintFlags, IInv, RestInv
    <3>3. /\ delayed' \in BOOLEAN /\ enabling' \in BOOLEAN
          /\ UNCHANGED <<config, pods, attached, clock, disruptions, created>>
      BY <1>1, Zenon DEF Restart, Fault, IInv, RestInv
    <3> QED BY <3>1, <3>2, <3>3 DEF IInv, RestInv
  <2>4. mgr' = Idle
    BY <1>1 DEF Restart
  <2>5. Idle \in Manager /\ Idle.snr = NoSNR /\ Idle.pc = "idle" /\ Idle.current = FALSE
    BY DEF Idle, Manager, Node, AbsentNode, Errors
  <2>6. ManagerInv'
    BY <2>4, <2>5 DEF ManagerInv, MaybeSNR, Prepared
  <2> QED BY <2>1, <2>2, <2>3, <2>6 DEF IInv
<1>2. CASE setCRsEnabledStatus
  <2>1. NodeInv' /\ RestInv'
    BY <1>2 DEF setCRsEnabledStatus, IInv, NodeInv, RestInv
  <2>2. CASE UNCHANGED <<snrVars, mgr>>
    BY <2>1, <2>2, BystanderStep DEF snrVars, IInv, InformerInv
  <2>3. CASE /\ snrCache # NoSNR /\ snrWatch = <<>>
             /\ WriteSNR([snr EXCEPT !.disabled = FALSE]) /\ Outdate
    <3> DEFINE s == [snr EXCEPT !.disabled = FALSE]
    <3>1. snr # NoSNR
      BY <2>3 DEF IInv, InformerInv
    <3>2. /\ s \in SNR /\ s.finalizer = snr.finalizer /\ s.phase = snr.phase
          /\ s.timeAssumedRebooted = snr.timeAssumedRebooted /\ s.conds = snr.conds
      BY <1>s, <3>1 DEF SNR
    <3> HIDE DEF s
    <3>3. s \in MaybeSNR
      BY <1>s, <3>1, <3>2 DEF SafeSNR, MaybeSNR, Reported
    <3> QED BY <2>1, <2>3, <3>3, ForeignWrite DEF s
  <2> QED BY <1>2, <2>2, <2>3 DEF setCRsEnabledStatus
<1>3. CASE SyncSNR
  <2>1. NodeInv' /\ RestInv'
    BY <1>3 DEF SyncSNR, IInv, NodeInv, RestInv
  <2>2. /\ Head(snrWatch) \in MaybeSNR /\ Tail(snrWatch) \in Seq(MaybeSNR)
        /\ Tail(snrWatch) = <<>> => Head(snrWatch) = snr
        /\ Tail(snrWatch) # <<>> => Tail(snrWatch)[Len(Tail(snrWatch))] = snr
    BY <1>3, DequeueStep DEF SyncSNR, IInv, InformerInv
  <2>3. /\ snrCache' = Head(snrWatch) /\ snrWatch' = Tail(snrWatch) /\ queued' = TRUE
        /\ snr' = snr /\ mgr' = mgr
    BY <1>3 DEF SyncSNR
  <2>4. InformerInv'
    BY <2>2, <2>3 DEF IInv, InformerInv
  <2>5. ManagerInv'
    BY <2>3 DEF IInv, ManagerInv, Prepared
  <2> QED BY <2>1, <2>4, <2>5 DEF IInv
<1>4. CASE SyncNode
  <2>1. RestInv'
    BY <1>4 DEF SyncNode, IInv, RestInv
  <2>2. NodeInv'
    BY <1>4, DequeueStep DEF SyncNode, IInv, NodeInv
  <2> QED BY <1>4, <2>1, <2>2, BystanderStep DEF SyncNode, snrVars, IInv, InformerInv
<1>5. CASE RequeueDue
  <2>1. NodeInv' /\ RestInv'
    BY <1>5 DEF RequeueDue, IInv, NodeInv, RestInv
  <2> QED BY <1>5, <2>1, BystanderStep DEF RequeueDue
<1>6. CASE Tick
  <2>1. NodeInv' /\ RestInv'
    BY <1>6 DEF Tick, IInv, NodeInv, RestInv
  <2> QED BY <1>6, <2>1, BystanderStep DEF Tick, snrVars, IInv, InformerInv
<1>7. CASE CreateSNR
  <2>1. NodeInv' /\ RestInv'
    BY <1>7 DEF CreateSNR, IInv, NodeInv, RestInv
  <2>2. PICK strategy \in Strategies : WriteSNR(NewSNR(created + 1, strategy))
    BY <1>7 DEF CreateSNR
  <2>3. NewSNR(created + 1, strategy) \in MaybeSNR
    <3>1. created + 1 \in Nat /\ strategy \in {"Automatic", "ResourceDeletion", "OutOfServiceTaint"}
      BY BoundsAssumption DEF IInv, RestInv
    <3> QED BY <3>1 DEF NewSNR, SNR, SafeSNR, MaybeSNR, Phases, Conditions, Errors, Reported
  <2> QED BY <1>7, <2>1, <2>2, <2>3, ForeignWrite DEF CreateSNR
<1>8. CASE DeleteSNR
  <2>1. NodeInv' /\ RestInv'
    BY <1>8 DEF DeleteSNR, IInv, NodeInv, RestInv
  <2> DEFINE s == [snr EXCEPT !.deleting = TRUE]
  <2>2. /\ s \in SNR /\ s.finalizer = snr.finalizer /\ s.phase = snr.phase
        /\ s.timeAssumedRebooted = snr.timeAssumedRebooted /\ s.conds = snr.conds
    BY <1>8, <1>s DEF DeleteSNR, SNR
  <2>3. Outdate /\ (WriteSNR(s) \/ WriteSNR(NoSNR))
    BY <1>8 DEF DeleteSNR
  <2> HIDE DEF s
  <2>4. s \in MaybeSNR /\ NoSNR \in MaybeSNR
    BY <1>8, <1>s, <2>2 DEF DeleteSNR, SafeSNR, MaybeSNR, Reported
  <2> QED BY <2>1, <2>3, <2>4, ForeignWrite
<1>9. CASE TimeOutSNR
  <2>1. NodeInv' /\ RestInv'
    BY <1>9 DEF TimeOutSNR, IInv, NodeInv, RestInv
  <2> DEFINE s == [snr EXCEPT !.timedOut = TRUE]
  <2>2. /\ s \in SNR /\ s.finalizer = snr.finalizer /\ s.phase = snr.phase
        /\ s.timeAssumedRebooted = snr.timeAssumedRebooted /\ s.conds = snr.conds
    BY <1>9, <1>s DEF TimeOutSNR, SNR
  <2>3. Outdate /\ WriteSNR(s)
    BY <1>9 DEF TimeOutSNR
  <2> HIDE DEF s
  <2>4. s \in MaybeSNR
    BY <1>9, <1>s, <2>2 DEF TimeOutSNR, SafeSNR, MaybeSNR, Reported
  <2> QED BY <2>1, <2>3, <2>4, ForeignWrite
<1>10. CASE ConfigChanges
  <2>1. NodeInv'
    BY <1>10 DEF ConfigChanges, IInv, NodeInv
  <2>2. RestInv'
    <3>1. disruptions' \in Nat
      BY <1>10 DEF ConfigChanges, Disrupt, IInv, RestInv
    <3>2. /\ config' \in BOOLEAN /\ enabling' \in BOOLEAN
          /\ UNCHANGED <<taintGA, delayed, pods, attached, clock, faults, created>>
      BY <1>10, Zenon DEF ConfigChanges, Disrupt, IInv, RestInv
    <3> QED BY <3>1, <3>2 DEF IInv, RestInv
  <2> QED BY <1>10, <2>1, <2>2, BystanderStep DEF ConfigChanges, Disrupt, snrVars, IInv, InformerInv
<1>11. CASE NodeChanges
  <2>1. RestInv'
    BY <1>11 DEF NodeChanges, Disrupt, IInv, RestInv
  <2>2. \A n \in Node : [n EXCEPT !.excluded = ~n.excluded] \in Node
                       /\ [n EXCEPT !.capable = ~n.capable] \in Node
    BY DEF Node
  <2>3. AbsentNode \in Node /\ FreshNode \in Node
    BY DEF Node, AbsentNode, FreshNode
  <2>4. NodeInv'
    BY <1>11, <2>2, <2>3, WriteNodeSafe DEF NodeChanges, IInv, NodeInv
  <2> QED BY <1>11, <2>1, <2>4, BystanderStep DEF NodeChanges, Disrupt, snrVars, IInv, InformerInv
<1>12. CASE EvictPods \/ ForceDeletePods \/ DetachVolumes \/ SchedulePods
  <2>1. NodeInv' /\ RestInv'
    BY <1>12 DEF EvictPods, ForceDeletePods, DetachVolumes, SchedulePods, WorkloadStep,
                 IInv, NodeInv, RestInv, Pods
  <2>2. UNCHANGED <<snrVars, mgr>>
    BY <1>12 DEF EvictPods, ForceDeletePods, DetachVolumes, SchedulePods, WorkloadStep
  <2> QED BY <2>1, <2>2, BystanderStep DEF snrVars, IInv, InformerInv
<1> QED BY <1>1, <1>2, <1>3, <1>4, <1>5, <1>6, <1>7, <1>8, <1>9, <1>10, <1>11, <1>12 DEF Cluster

-----------------------------------------------------------------------------
LEMMA InitInv == Init => IInv
<1> SUFFICES ASSUME Init PROVE IInv
  OBVIOUS
<1>1. InformerInv
  BY EmptySeq DEF Init, InformerInv, MaybeSNR
<1>2. NodeInv
  BY EmptySeq DEF Init, NodeInv, Node, FreshNode
<1>3. ManagerInv
  BY DEF Init, ManagerInv, MaybeSNR, Manager, Idle, Node, AbsentNode, Errors, Prepared
<1>4. RestInv
  BY DEF Init, RestInv, Pods
<1> QED BY <1>1, <1>2, <1>3, <1>4 DEF IInv

LEMMA NextInv == IInv /\ [Next]_vars => IInv'
<1> SUFFICES ASSUME IInv, [Next]_vars PROVE IInv'
  OBVIOUS
<1>1. CASE Next
  BY <1>1, ReconcileKeepsInv, NodeCallsKeepInv, SNRCallsKeepInv, OthersKeepInv DEF Next, Call
<1>2. CASE UNCHANGED vars
  <2>1. NodeInv' /\ RestInv'
    BY <1>2 DEF IInv, NodeInv, RestInv, vars, nodeVars, configVars, workload, counters
  <2> QED BY <1>2, <2>1, BystanderStep DEF vars, snrVars, IInv, InformerInv
<1> QED BY <1>1, <1>2

LEMMA InvImplies == IInv => TypeOK /\ FencedWithDeadline /\ SucceededMeansCompleted
<1> SUFFICES ASSUME IInv PROVE TypeOK /\ FencedWithDeadline /\ SucceededMeansCompleted
  OBVIOUS
<1>1. MaybeSNR \subseteq SNR \cup {NoSNR}
  BY DEF MaybeSNR, SafeSNR
<1>2. Seq(MaybeSNR) \subseteq Seq(SNR \cup {NoSNR})
  BY <1>1, SeqMonotonic
<1>3. TypeOK
  BY <1>1, <1>2 DEF TypeOK, IInv, InformerInv, NodeInv, ManagerInv, RestInv
<1>4. FencedWithDeadline
  BY DEF FencedWithDeadline, IInv, InformerInv, ManagerInv, MaybeSNR, SafeSNR
<1>5. SucceededMeansCompleted
  BY DEF SucceededMeansCompleted, IInv, InformerInv, MaybeSNR, SafeSNR, Reported
<1> QED BY <1>3, <1>4, <1>5

\* Every variable of the remediation keeps its type, and a reconcile that makes
\* calls holds a copy of an SNR (ReconcileManager returns on NotFound).
THEOREM TypeCorrect == Spec => []TypeOK
<1>1. Spec => []IInv
  BY InitInv, NextInv, PTL DEF Spec
<1> QED BY <1>1, InvImplies, PTL

\* An SNR beyond its first phase has a deadline and the finalizer, at the server, in
\* the cache and in the copy of a reconcile: the dereferences of timeAssumedRebooted
\* in wasNodeRebooted and isResourceDeletionExpired never meet a nil pointer.
THEOREM DeadlineNeverMissing == Spec => []FencedWithDeadline
<1>1. Spec => []IInv
  BY InitInv, NextInv, PTL DEF Spec
<1> QED BY <1>1, InvImplies, PTL

\* The Succeeded condition is True only for an SNR whose fencing is complete, and that
\* of a complete one is never unknown, although every reconcile starts by setting its
\* conditions, handlers and foreign writes overwrite them, and they are stored from
\* copies of the SNR (updateConditions, updateSnrStatus).
THEOREM SuccessIsTrue == Spec => []SucceededMeansCompleted
<1>1. Spec => []IInv
  BY InitInv, NextInv, PTL DEF Spec
<1> QED BY <1>1, InvImplies, PTL

-----------------------------------------------------------------------------
(***************************************************************************)
(* Remediation implements Lifecycle: for any lag of the informers and any  *)
(* number of SNRs, faults and disturbances, what the manager and the       *)
(* others do to the SNR at the API server is a step of Lifecycle or leaves *)
(* everything that Lifecycle speaks of as it is.                           *)
(***************************************************************************)


\* What an update never changes, or only a foreign one that outdates the copy.
SameObject(s, m) == m.uid = s.uid /\ m.deleting = s.deleting /\ m.timedOut = s.timedOut

SamePhase(s, m) == m.phase = s.phase /\ m.timeAssumedRebooted = s.timeAssumedRebooted

\* Copy m is one phase ahead of s, and at this time it may be.
Ahead(s, m, now) ==
    /\ ~s.timedOut
    /\ \/ /\ s.phase = "Fencing-Started" /\ m.phase = "Pre-Reboot-Completed"
          /\ m.timeAssumedRebooted \in 0 .. now + RebootDuration
       \/ /\ s.phase = "Pre-Reboot-Completed" /\ m.phase = "Reboot-Completed"
          /\ m.timeAssumedRebooted = s.timeAssumedRebooted
          /\ s.timeAssumedRebooted <= now
       \/ /\ s.phase = "Reboot-Completed" /\ m.phase = "Fencing-Completed"
          /\ m.timeAssumedRebooted = s.timeAssumedRebooted

\* The calls after which a reconcile has nothing left to do but to store its status.
LastCalls == {"updateSnrStatusLastError", "updateSnrStatus"}

\* The calls of a cleanup, and those that lead to the release of the SNR.
Cleans(m) ==
    \/ m.pc \in {"DeletePods", "addOutOfServiceTaint", "isResourceDeletionCompleted"}
    \/ m.pc = "removeOutOfServiceTaint" /\ ~m.snr.timedOut

Releases(m) ==
    \/ m.pc = "removeOutOfServiceTaint" /\ m.snr.timedOut
    \/ m.pc \in {"removeNoScheduleTaint", "removeFinalizer"}

\* The SNR a call is made for.
CalledFor(m) ==
    /\ m.pc \in {"addNoScheduleTaint", "setTimeAssumedRebooted"} =>
          m.snr.phase = "Fencing-Started" /\ ~m.snr.timedOut
    /\ Cleans(m) => m.snr.phase = "Reboot-Completed" /\ ~m.snr.timedOut
    /\ Releases(m) => m.snr.deleting /\ (m.snr.timedOut \/ m.snr.phase = "Fencing-Completed")

\* A copy that the server would accept, at a call.
InStep(m) ==
    m.current /\ m.pc # "idle" =>
        /\ SameObject(snr, m.snr)
        /\ SamePhase(snr, m.snr) \/ (m.pc \in LastCalls /\ Ahead(snr, m.snr, clock))

\* No SNR is stored with a deadline in its first phase.
FirstPhase ==
    snr # NoSNR /\ snr.phase = "Fencing-Started" => snr.timeAssumedRebooted = NoTime

PInv == CalledFor(mgr) /\ InStep(mgr) /\ FirstPhase

-----------------------------------------------------------------------------
\* What a copy was ahead by stays allowed.
LEMMA AheadLater ==
    ASSUME NEW s, NEW m, NEW now \in Nat, Ahead(s, m, now), s \in SNR, m \in SNR
    PROVE  Ahead(s, m, now + 1)
BY BoundsAssumption DEF Ahead, SNR, NoTime

\* A copy like one that is ahead is ahead, and so is one that is ahead of a like one.
LEMMA AheadAlike ==
    ASSUME NEW s, NEW m, NEW t, NEW now, SameObject(s, m), SameObject(m, t)
    PROVE  /\ Ahead(s, m, now) /\ SamePhase(m, t) => Ahead(s, t, now)
           /\ SamePhase(s, m) /\ Ahead(m, t, now) => Ahead(s, t, now)
BY DEF Ahead, SameObject, SamePhase

\* Steps that leave the SNR and the reconcile alone.
LEMMA BystanderKeeps ==
    ASSUME IInv, PInv, UNCHANGED <<snr, mgr>>, clock' \in {clock, clock + 1}
    PROVE  PInv'
<1>1. CalledFor(mgr)' /\ FirstPhase'
  BY DEF PInv, CalledFor, Cleans, Releases, FirstPhase
<1>2. ASSUME mgr.current, mgr.pc # "idle"
      PROVE  /\ SameObject(snr, mgr.snr)
             /\ SamePhase(snr, mgr.snr) \/ (mgr.pc \in LastCalls /\ Ahead(snr, mgr.snr, clock'))
  <2>1. snr \in SNR /\ mgr.snr \in SNR /\ clock \in Nat
    BY <1>2 DEF IInv, ManagerInv, InformerInv, RestInv, MaybeSNR, SafeSNR
  <2>2. Ahead(snr, mgr.snr, clock) => Ahead(snr, mgr.snr, clock')
    BY <2>1, AheadLater
  <2> QED BY <1>2, <2>2 DEF PInv, InStep
<1>3. InStep(mgr)'
  BY <1>2 DEF InStep, SameObject, SamePhase
<1> QED BY <1>1, <1>3 DEF PInv

\* Writes of the SNR by others.
LEMMA ForeignKeeps ==
    ASSUME IInv, PInv, Outdate, FirstPhase'
    PROVE  PInv'
<1>1. mgr'.current = FALSE /\ mgr'.pc = mgr.pc /\ mgr'.snr = mgr.snr
  BY DEF Outdate, IInv, ManagerInv, Manager
<1>2. CalledFor(mgr)' /\ InStep(mgr)'
  BY <1>1 DEF PInv, CalledFor, Cleans, Releases, InStep
<1> QED BY <1>2 DEF PInv

\* A reconcile up to its first call.
Begins(m) ==
    /\ m.current = (snrWatch = <<>>)
    /\ SameObject(snrCache, m.snr)
    /\ \/ SamePhase(snrCache, m.snr)
       \/ m.pc \in LastCalls /\ Ahead(snrCache, m.snr, clock)
    /\ CalledFor(m)

LEMMA BeginKeeps ==
    ASSUME IInv, PInv, StartReconcile, Begins(mgr')
    PROVE  PInv'
<1>1. snrWatch = <<>> => snrCache = snr
  BY DEF IInv, InformerInv
<1>2. UNCHANGED <<snr, clock>>
  BY DEF StartReconcile
<1>3. InStep(mgr)'
  BY <1>1, <1>2 DEF Begins, InStep
<1> QED BY <1>2, <1>3 DEF PInv, FirstPhase, Begins

\* A call that leaves the SNR alone and continues with m.
Proceeds(m) ==
    /\ m.current = mgr.current
    /\ SameObject(mgr.snr, m.snr)
    /\ \/ SamePhase(mgr.snr, m.snr) /\ (mgr.pc \in LastCalls => m.pc \in LastCalls)
       \/ mgr.pc \notin LastCalls /\ m.pc \in LastCalls
          /\ (mgr.current => Ahead(mgr.snr, m.snr, clock))
    /\ CalledFor(m)
    /\ (Cleans(m) => Cleans(mgr)) /\ (Releases(m) => Releases(mgr))

LEMMA ProceedKeeps ==
    ASSUME IInv, PInv, mgr.pc # "idle", Proceeds(mgr'), UNCHANGED <<snr, clock>>
    PROVE  PInv'
<1>1. ASSUME mgr'.current
      PROVE  /\ SameObject(snr, mgr'.snr)
             /\ SamePhase(snr, mgr'.snr) \/ (mgr'.pc \in LastCalls /\ Ahead(snr, mgr'.snr, clock))
  <2>1. /\ SameObject(snr, mgr.snr)
        /\ SamePhase(snr, mgr.snr) \/ (mgr.pc \in LastCalls /\ Ahead(snr, mgr.snr, clock))
    BY <1>1 DEF PInv, InStep, Proceeds
  <2>2. SameObject(snr, mgr'.snr)
    BY <2>1 DEF Proceeds, SameObject
  <2>3. CASE SamePhase(mgr.snr, mgr'.snr) /\ (mgr.pc \in LastCalls => mgr'.pc \in LastCalls)
    <3>1. SamePhase(snr, mgr.snr) => SamePhase(snr, mgr'.snr)
      BY <2>3 DEF SamePhase
    <3>2. Ahead(snr, mgr.snr, clock) => Ahead(snr, mgr'.snr, clock)
      BY <2>1, <2>3, AheadAlike DEF Proceeds
    <3> QED BY <2>1, <2>2, <2>3, <3>1, <3>2
  <2>4. CASE mgr.pc \notin LastCalls /\ mgr'.pc \in LastCalls /\ Ahead(mgr.snr, mgr'.snr, clock)
    <3>1. SamePhase(snr, mgr.snr)
      BY <2>1, <2>4
    <3> QED BY <2>1, <2>2, <2>4, <3>1, AheadAlike DEF Proceeds
  <2> QED BY <1>1, <2>3, <2>4 DEF Proceeds
<1>2. InStep(mgr)'
  BY <1>1 DEF InStep
<1> QED BY <1>2 DEF PInv, FirstPhase, Proceeds

-----------------------------------------------------------------------------
\* The copies of a reconcile before its handler changes them.
LEMMA CopiesAlike ==
    ASSUME IInv, snrCache # NoSNR
    PROVE  /\ snrCache \in SNR
           /\ Read \in Manager /\ Read.snr = snrCache /\ Read.current = (snrWatch = <<>>)
           /\ Started \in Manager /\ Started.current = (snrWatch = <<>>)
           /\ SameObject(snrCache, Started.snr) /\ SamePhase(snrCache, Started.snr)
<1>1. /\ snrCache \in SNR /\ Read \in Manager /\ Read.snr = snrCache
      /\ Read.current = (snrWatch = <<>>)
  BY ReadSafe
<1>2. Started \in Manager /\ Started.current = (snrWatch = <<>>)
  BY StartedSafe
<1>3. Started.snr = snrCache \/ Started.snr = [snrCache EXCEPT !.conds = "Started"]
  BY <1>1 DEF Started, Manager
<1>4. SameObject(snrCache, Started.snr) /\ SamePhase(snrCache, Started.snr)
  BY <1>1, <1>3 DEF SameObject, SamePhase, SNR
<1> QED BY <1>1, <1>2, <1>4

\* Every handler takes a reconcile to a call it may make.
LEMMA ReconcileBegins ==
    ASSUME IInv, Reconcile
    PROVE  StartReconcile /\ (mgr' = Idle \/ (snrCache # NoSNR /\ Begins(mgr')))
<1>0. ASSUME snrCache # NoSNR
      PROVE  /\ snrCache \in SNR
             /\ Read \in Manager /\ Read.snr = snrCache /\ Read.current = (snrWatch = <<>>)
             /\ Started \in Manager /\ Started.snr \in SNR
             /\ Started.current = (snrWatch = <<>>)
             /\ SameObject(snrCache, Started.snr) /\ SamePhase(snrCache, Started.snr)
  BY <1>0, CopiesAlike, StartedSafe DEF SafeSNR
<1>1. CASE SNRNotFound
  BY <1>1 DEF SNRNotFound
<1>2. CASE ConfigurationNotFound
  <2>1. /\ StartReconcile /\ snrCache # NoSNR
        /\ mgr' = [Read EXCEPT !.snr.disabled = TRUE, !.pc = "updateSnrStatus"]
    BY <1>2 DEF ConfigurationNotFound
  <2>2. /\ mgr'.snr = [snrCache EXCEPT !.disabled = TRUE] /\ mgr'.current = Read.current
        /\ mgr'.pc = "updateSnrStatus"
    BY <1>0, <2>1 DEF Manager
  <2>3. SameObject(snrCache, mgr'.snr) /\ SamePhase(snrCache, mgr'.snr)
    BY <1>0, <2>1, <2>2 DEF SameObject, SamePhase, SNR
  <2> QED BY <1>0, <2>1, <2>2, <2>3 DEF Begins, CalledFor, Cleans, Releases
<1>3. CASE StoppedByNHC
  <2>1. /\ StartReconcile /\ snrCache # NoSNR /\ snrCache.timedOut
        /\ \/ mgr' = [Read EXCEPT !.snr.conds = "Stopped", !.pc = "updateSnrStatus"]
           \/ mgr' = [Read EXCEPT !.pc = "removeOutOfServiceTaint"] /\ snrCache.deleting
           \/ mgr' = [Read EXCEPT !.pc = "removeFinalizer"] /\ snrCache.deleting
    BY <1>3 DEF StoppedByNHC
  <2>2. CASE mgr' = [Read EXCEPT !.snr.conds = "Stopped", !.pc = "updateSnrStatus"]
    <3>1. /\ mgr'.snr = [snrCache EXCEPT !.conds = "Stopped"] /\ mgr'.current = Read.current
          /\ mgr'.pc = "updateSnrStatus"
      BY <1>0, <2>1, <2>2 DEF Manager
    <3>2. SameObject(snrCache, mgr'.snr) /\ SamePhase(snrCache, mgr'.snr)
      BY <1>0, <2>1, <3>1 DEF SameObject, SamePhase, SNR
    <3> QED BY <1>0, <2>1, <3>1, <3>2 DEF Begins, CalledFor, Cleans, Releases
  <2>3. CASE /\ \E call \in {"removeOutOfServiceTaint", "removeFinalizer"} :
                    mgr' = [Read EXCEPT !.pc = call]
             /\ snrCache.deleting
    <3>1. /\ mgr'.snr = snrCache /\ mgr'.current = Read.current
          /\ mgr'.pc \in {"removeOutOfServiceTaint", "removeFinalizer"}
      BY <1>0, <2>1, <2>3 DEF Manager
    <3> QED BY <1>0, <2>1, <2>3, <3>1 DEF Begins, CalledFor, Cleans, Releases, SameObject, SamePhase
  <2> QED BY <2>1, <2>2, <2>3
<1>4. CASE NodeNotFound
  <2>1. /\ StartReconcile /\ snrCache # NoSNR
        /\ mgr' = [Started EXCEPT !.snr.conds = "Stopped", !.err = "NodeNotFound",
                                  !.pc = "updateSnrStatusLastError"]
    BY <1>4 DEF NodeNotFound, Remediating
  <2>2. /\ mgr'.snr = [Started.snr EXCEPT !.conds = "Stopped"] /\ mgr'.current = Started.current
        /\ mgr'.pc = "updateSnrStatusLastError"
    BY <1>0, <2>1 DEF Manager
  <2>3. SameObject(snrCache, mgr'.snr) /\ SamePhase(snrCache, mgr'.snr)
    BY <1>0, <2>1, <2>2 DEF SameObject, SamePhase, SNR
  <2> QED BY <1>0, <2>1, <2>2, <2>3 DEF Begins, CalledFor, Cleans, Releases
<1>5. ASSUME NEW call \in LastCalls \cup {"addFinalizer"}, NEW e,
             StartReconcile, snrCache # NoSNR, mgr' = [Started EXCEPT !.err = e, !.pc = call]
      PROVE  StartReconcile /\ snrCache # NoSNR /\ Begins(mgr')
  <2>1. mgr'.snr = Started.snr /\ mgr'.current = Started.current /\ mgr'.pc = call
    BY <1>0, <1>5 DEF Manager
  <2> QED BY <1>0, <1>5, <2>1 DEF Begins, CalledFor, Cleans, Releases, LastCalls
<1>6. ASSUME NEW call \in Calls,
             Remediating, mgr' = [Started EXCEPT !.pc = call],
             call = "addNoScheduleTaint" => snrCache.phase = "Fencing-Started",
             call \in {"DeletePods", "addOutOfServiceTaint"} => snrCache.phase = "Reboot-Completed",
             call = "removeNoScheduleTaint" => snrCache.deleting /\ snrCache.phase = "Fencing-Completed",
             call \in LastCalls \cup {"addFinalizer", "addNoScheduleTaint", "DeletePods",
                                     "addOutOfServiceTaint", "removeNoScheduleTaint"}
      PROVE  StartReconcile /\ snrCache # NoSNR /\ Begins(mgr')
  <2>1. StartReconcile /\ snrCache # NoSNR /\ ~snrCache.timedOut
    BY <1>6 DEF Remediating
  <2>2. mgr'.snr = Started.snr /\ mgr'.current = Started.current /\ mgr'.pc = call
    BY <1>0, <1>6, <2>1 DEF Manager
  <2>3. CalledFor(mgr')
    BY <1>0, <1>6, <2>1, <2>2 DEF CalledFor, Cleans, Releases, SameObject, SamePhase, LastCalls
  <2> QED BY <1>0, <2>1, <2>2, <2>3 DEF Begins
<1>7. CASE NodeExcluded
  BY <1>6, <1>7 DEF NodeExcluded, LastCalls, Calls
<1>8. CASE prepareReboot
  <2>1. StartReconcile /\ snrCache # NoSNR /\ Remediating /\ snrCache.phase = "Fencing-Started"
    BY <1>8 DEF prepareReboot, InPhase, Remediating
  <2>2. snrCache.finalizer \in BOOLEAN /\ snrCache.deleting \in BOOLEAN
        /\ nodeCache.capable \in BOOLEAN
    BY <1>0, <2>1 DEF SNR, IInv, NodeInv, Node
  <2>3. \/ mgr' = [Started EXCEPT !.err = "NotRebootCapable", !.pc = "updateSnrStatusLastError"]
        \/ \E call \in {"addNoScheduleTaint", "addFinalizer", "updateSnrStatusLastError"} :
              mgr' = [Started EXCEPT !.pc = call]
    BY <1>8, <2>2 DEF prepareReboot
  <2>4. CASE mgr' = [Started EXCEPT !.err = "NotRebootCapable", !.pc = "updateSnrStatusLastError"]
    BY <1>5, <2>1, <2>4 DEF LastCalls
  <2>5. CASE \E call \in {"addNoScheduleTaint", "addFinalizer", "updateSnrStatusLastError"} :
                mgr' = [Started EXCEPT !.pc = call]
    BY <1>6, <2>1, <2>5 DEF LastCalls, Calls
  <2> QED BY <2>3, <2>4, <2>5
<1>9. CASE waitForNodeRebooted
  <2>1. /\ StartReconcile /\ snrCache # NoSNR /\ ~snrCache.timedOut
        /\ snrCache.phase = "Pre-Reboot-Completed"
    BY <1>9 DEF waitForNodeRebooted, InPhase, Remediating
  <2>2. CASE /\ wasNodeRebooted(snrCache)
             /\ mgr' = [Started EXCEPT !.snr.phase = "Reboot-Completed",
                                       !.pc = "updateSnrStatusLastError"]
    <3>1. /\ mgr'.snr = [Started.snr EXCEPT !.phase = "Reboot-Completed"]
          /\ mgr'.current = Started.current /\ mgr'.pc = "updateSnrStatusLastError"
      BY <1>0, <2>1, <2>2 DEF Manager
    <3>2. SameObject(snrCache, mgr'.snr) /\ Ahead(snrCache, mgr'.snr, clock)
      BY <1>0, <2>1, <2>2, <3>1 DEF SameObject, SamePhase, Ahead, SNR, wasNodeRebooted
    <3> QED BY <1>0, <2>1, <3>1, <3>2 DEF Begins, CalledFor, Cleans, Releases, LastCalls
  <2>3. CASE mgr' = [Started EXCEPT !.requeue = TRUE, !.pc = "updateSnrStatusLastError"]
    <3>1. /\ mgr'.snr = Started.snr /\ mgr'.current = Started.current
          /\ mgr'.pc = "updateSnrStatusLastError"
      BY <1>0, <2>1, <2>3 DEF Manager
    <3> QED BY <1>0, <2>1, <3>1 DEF Begins, CalledFor, Cleans, Releases
  <2> QED BY <1>9, <2>2, <2>3 DEF waitForNodeRebooted
<1>10. CASE handleRebootCompletedPhase
  <2>1. /\ Remediating /\ snrCache.phase = "Reboot-Completed"
        /\ \E call \in {"DeletePods", "addOutOfServiceTaint"} : mgr' = [Started EXCEPT !.pc = call]
    BY <1>10 DEF handleRebootCompletedPhase, InPhase
  <2> QED BY <1>6, <2>1 DEF LastCalls, Calls
<1>11. CASE handleFencingCompletedPhase
  <2>1. /\ Remediating /\ snrCache.phase = "Fencing-Completed"
        /\ \/ mgr' = [Started EXCEPT !.pc = "removeNoScheduleTaint"] /\ snrCache.deleting
           \/ mgr' = [Started EXCEPT !.pc = "updateSnrStatusLastError"]
    BY <1>11 DEF handleFencingCompletedPhase, InPhase
  <2> QED BY <1>6, <2>1 DEF LastCalls, Calls
<1> QED BY <1>1, <1>2, <1>3, <1>4, <1>7, <1>8, <1>9, <1>10, <1>11 DEF Reconcile

LEMMA ReconcileKeeps == ASSUME IInv, PInv, Reconcile PROVE PInv'
<1>1. StartReconcile /\ (mgr' = Idle \/ (snrCache # NoSNR /\ Begins(mgr')))
  BY ReconcileBegins
<1>2. CASE mgr' = Idle
  BY <1>1, <1>2 DEF StartReconcile, PInv, FirstPhase, CalledFor, Cleans, Releases, InStep, Idle
<1> QED BY <1>1, <1>2, BeginKeeps

-----------------------------------------------------------------------------
\* A call that fails.
LEMMA FailedProceeds ==
    ASSUME IInv, PInv, mgr.pc # "idle"
    PROVE  Proceeds(Failed(mgr))
<1>1. mgr \in Manager
  BY DEF IInv, ManagerInv
<1>2. \E call \in LastCalls : Failed(mgr) = [mgr EXCEPT !.err = "ApiCall", !.pc = call]
  BY DEF Failed, LastCalls
<1>3. /\ Failed(mgr).snr = mgr.snr /\ Failed(mgr).current = mgr.current
      /\ Failed(mgr).pc \in LastCalls
  BY <1>1, <1>2 DEF Manager
<1> QED BY <1>3 DEF Proceeds, SameObject, SamePhase, CalledFor, Cleans, Releases, LastCalls

LEMMA CallFailsProceeds ==
    ASSUME IInv, PInv, mgr.pc # "idle", CallFails
    PROVE  Proceeds(mgr') /\ UNCHANGED snrVars
BY FailedProceeds DEF CallFails

\* The calls that add or remove a taint, continuing with m.
LEMMA TaintCallProceeds ==
    ASSUME IInv, PInv, mgr.pc # "idle", NEW taint, NEW m, m \in Manager, Proceeds(m),
           AddTaint(taint, m) \/ RemoveTaint(taint, m)
    PROVE  Proceeds(mgr') /\ UNCHANGED snrVars
<1>1. CASE CallFails
  BY <1>1, CallFailsProceeds
<1>2. CASE mgr' = m /\ UNCHANGED snrVars
  BY <1>2
<1>3. ASSUME NEW taints, PatchTaints(taints, m) PROVE Proceeds(mgr') /\ UNCHANGED snrVars
  <2>1. UNCHANGED snrVars
    BY <1>3 DEF PatchTaints
  <2>2. CASE mgr' = Failed(mgr)
    BY <2>1, <2>2, FailedProceeds
  <2>3. CASE mgr' = [m EXCEPT !.node = [node EXCEPT !.taints = taints]]
    <3>1. mgr'.snr = m.snr /\ mgr'.current = m.current /\ mgr'.pc = m.pc
      BY <2>3 DEF Manager
    <3> QED BY <2>1, <3>1 DEF Proceeds, CalledFor, Cleans, Releases
  <2> QED BY <1>3, <2>2, <2>3 DEF PatchTaints
<1> QED BY <1>1, <1>2, <1>3 DEF AddTaint, RemoveTaint

\* The last handler's copy is one phase ahead.
LEMMA CompletedProceeds ==
    ASSUME IInv, PInv, mgr.pc \in {"DeletePods", "removeOutOfServiceTaint"}, ~mgr.snr.timedOut
    PROVE  FencingCompleted(mgr) \in Manager /\ Proceeds(FencingCompleted(mgr))
<1>1. mgr \in Manager /\ mgr.snr \in SNR
  BY DEF IInv, ManagerInv, MaybeSNR, SafeSNR
<1> DEFINE s == [mgr.snr EXCEPT !.phase = "Fencing-Completed", !.conds = "Finished"]
<1>2. s \in SNR /\ SameObject(mgr.snr, s) /\ s.phase = "Fencing-Completed"
      /\ s.timeAssumedRebooted = mgr.snr.timeAssumedRebooted
  BY <1>1 DEF SNR, Phases, Conditions, SameObject
<1>3. FencingCompleted(mgr) = [mgr EXCEPT !.snr = s, !.pc = "updateSnrStatusLastError"]
  BY <1>1 DEF FencingCompleted, Manager
<1>4. mgr.snr.phase = "Reboot-Completed"
  BY DEF PInv, CalledFor, Cleans, Releases
<1> HIDE DEF s
<1>5. Ahead(mgr.snr, s, clock)
  BY <1>2, <1>4 DEF Ahead
<1>6. /\ FencingCompleted(mgr) \in Manager /\ FencingCompleted(mgr).snr = s
      /\ FencingCompleted(mgr).pc = "updateSnrStatusLastError"
      /\ FencingCompleted(mgr).current = mgr.current
  BY <1>1, <1>2, <1>3 DEF Manager, Calls
<1> QED BY <1>2, <1>5, <1>6 DEF Proceeds, CalledFor, Cleans, Releases, LastCalls

\* A reconcile that goes on to its next call with the copies it has.
LEMMA NextCall ==
    ASSUME IInv, mgr.pc # "idle", mgr.pc \notin LastCalls,
           NEW call \in Calls, NEW r \in BOOLEAN, NEW e \in Errors,
           NEW m, m = [mgr EXCEPT !.requeue = r, !.err = e, !.pc = call], CalledFor(m),
           Cleans(m) => Cleans(mgr), Releases(m) => Releases(mgr)
    PROVE  m \in Manager /\ Proceeds(m)
<1>1. mgr \in Manager
  BY DEF IInv, ManagerInv
<1>2. m \in Manager /\ m.snr = mgr.snr /\ m.current = mgr.current /\ m.pc = call
  BY <1>1 DEF Manager
<1> QED BY <1>2 DEF Proceeds, SameObject, SamePhase

\* The calls of a reconcile that touch the node or the workload.
LEMMA NodeCallsProceed ==
    ASSUME IInv, PInv,
           \/ addNoScheduleTaint \/ setTimeAssumedRebooted
           \/ DeletePods \/ addOutOfServiceTaint \/ isResourceDeletionCompleted
           \/ removeOutOfServiceTaint \/ removeNoScheduleTaint
    PROVE  mgr.pc # "idle" /\ Proceeds(mgr') /\ UNCHANGED <<snrVars, clock>>
<1>0. mgr \in Manager /\ (mgr.pc # "idle" => mgr.snr \in SNR)
  BY DEF IInv, ManagerInv, MaybeSNR, SafeSNR
<1>n. ASSUME NEW call \in Calls, NEW m, m = [mgr EXCEPT !.pc = call], CalledFor(m),
             Cleans(m) => Cleans(mgr), Releases(m) => Releases(mgr), mgr.pc \notin LastCalls \cup {"idle"}
      PROVE  m \in Manager /\ Proceeds(m)
  <2>1. m = [mgr EXCEPT !.requeue = mgr.requeue, !.err = mgr.err, !.pc = call]
    BY <1>0, <1>n DEF Manager
  <2> QED BY <1>0, <1>n, <2>1, NextCall DEF Manager
<1>1. CASE addNoScheduleTaint
  <2> DEFINE m == [mgr EXCEPT !.pc = "setTimeAssumedRebooted"]
  <2>1. mgr.pc = "addNoScheduleTaint" /\ UNCHANGED clock /\ AddTaint("NoSchedule", m)
    BY <1>1 DEF addNoScheduleTaint, Calling
  <2>2. CalledFor(m) /\ (Cleans(m) => Cleans(mgr)) /\ (Releases(m) => Releases(mgr))
    BY <1>0, <2>1 DEF PInv, CalledFor, Cleans, Releases, Manager
  <2> HIDE DEF m
  <2>3. m \in Manager /\ Proceeds(m)
    BY <1>n, <2>1, <2>2 DEF Calls, LastCalls, m
  <2> QED BY <2>1, <2>3, TaintCallProceeds
<1>2. CASE setTimeAssumedRebooted
  <2>1. mgr.pc = "setTimeAssumedRebooted" /\ UNCHANGED clock
    BY <1>2 DEF setTimeAssumedRebooted, Calling
  <2>2. CASE CallFails
    BY <2>1, <2>2, CallFailsProceeds
  <2>3. CASE mgr' = PreRebootCompleted(mgr) /\ UNCHANGED snrVars
    <3> DEFINE t == IF mgr.snr.timeAssumedRebooted = NoTime THEN clock + RebootDuration
                                                            ELSE mgr.snr.timeAssumedRebooted
               s == [mgr.snr EXCEPT !.timeAssumedRebooted = t, !.phase = "Pre-Reboot-Completed"]
    <3>1. mgr' = [mgr EXCEPT !.snr = s, !.pc = "updateSnrStatusLastError"]
      BY <1>0, <2>1, <2>3 DEF PreRebootCompleted, Manager
    <3>2. mgr.snr.phase = "Fencing-Started" /\ ~mgr.snr.timedOut
      BY <2>1 DEF PInv, CalledFor, Cleans, Releases
    <3>3. ASSUME mgr.current PROVE t \in 0 .. clock + RebootDuration
      <4>1. snr # NoSNR /\ SamePhase(snr, mgr.snr)
        BY <2>1, <3>3 DEF IInv, ManagerInv, PInv, InStep, LastCalls
      <4>2. mgr.snr.timeAssumedRebooted = NoTime
        BY <3>2, <4>1 DEF PInv, FirstPhase, SamePhase
      <4>3. clock \in Nat /\ RebootDuration \in Nat
        BY BoundsAssumption DEF IInv, RestInv
      <4> QED BY <4>2, <4>3
    <3> HIDE DEF t
    <3>4. SameObject(mgr.snr, s) /\ s.phase = "Pre-Reboot-Completed" /\ s.timeAssumedRebooted = t
      BY <1>0, <2>1 DEF SNR, SameObject
    <3> HIDE DEF s
    <3>5. mgr.current => Ahead(mgr.snr, s, clock)
      BY <3>2, <3>3, <3>4 DEF Ahead
    <3>6. /\ mgr'.snr = s /\ mgr'.pc = "updateSnrStatusLastError"
          /\ mgr'.current = mgr.current
      BY <1>0, <3>1 DEF Manager
    <3>7. Proceeds(mgr')
      BY <2>1, <3>4, <3>5, <3>6 DEF Proceeds, CalledFor, Cleans, Releases, LastCalls
    <3> QED BY <2>1, <2>3, <3>7
  <2> QED BY <1>2, <2>2, <2>3 DEF setTimeAssumedRebooted
<1>3. CASE DeletePods
  <2>1. mgr.pc = "DeletePods" /\ UNCHANGED <<snrVars, clock>>
    BY <1>3 DEF DeletePods, Calling
  <2>2. ~mgr.snr.timedOut
    BY <2>1 DEF PInv, CalledFor, Cleans, Releases
  <2>3. mgr' = FencingCompleted(mgr) \/ mgr' = Failed(mgr)
    BY <1>3 DEF DeletePods
  <2> QED BY <2>1, <2>2, <2>3, CompletedProceeds, FailedProceeds
<1>4. CASE addOutOfServiceTaint
  <2> DEFINE m == [mgr EXCEPT !.pc = "isResourceDeletionCompleted"]
  <2>1. mgr.pc = "addOutOfServiceTaint" /\ UNCHANGED clock /\ AddTaint("OutOfService", m)
    BY <1>4 DEF addOutOfServiceTaint, Calling
  <2>2. CalledFor(m) /\ (Cleans(m) => Cleans(mgr)) /\ (Releases(m) => Releases(mgr))
    BY <1>0, <2>1 DEF PInv, CalledFor, Cleans, Releases, Manager
  <2> HIDE DEF m
  <2>3. m \in Manager /\ Proceeds(m)
    BY <1>n, <2>1, <2>2 DEF Calls, LastCalls, m
  <2> QED BY <2>1, <2>3, TaintCallProceeds
<1>5. CASE isResourceDeletionCompleted
  <2>1. mgr.pc = "isResourceDeletionCompleted" /\ UNCHANGED <<snrVars, clock>>
    BY <1>5 DEF isResourceDeletionCompleted, Calling
  <2>2. \/ mgr' = [mgr EXCEPT !.pc = "removeOutOfServiceTaint"]
        \/ mgr' = [mgr EXCEPT !.requeue = TRUE, !.pc = "updateSnrStatusLastError"]
        \/ mgr' = [mgr EXCEPT !.err = "NotReadyToDelete", !.pc = "updateSnrStatusLastError"]
    <3>1. mgr.snr.deleting \in BOOLEAN
      BY <1>0, <2>1 DEF SNR
    <3>2. CASE mgr' = [mgr EXCEPT !.pc = "removeOutOfServiceTaint"]
      BY <3>2
    <3>3. CASE mgr' =
               CASE ~ResourceDeletionExpired ->
                      [mgr EXCEPT !.requeue = TRUE, !.pc = "updateSnrStatusLastError"]
                 [] ResourceDeletionExpired /\ mgr.snr.deleting ->
                      [mgr EXCEPT !.pc = "removeOutOfServiceTaint"]
                 [] ResourceDeletionExpired /\ ~mgr.snr.deleting ->
                      [mgr EXCEPT !.err = "NotReadyToDelete", !.pc = "updateSnrStatusLastError"]
      BY <3>1, <3>3
    <3> QED BY <1>5, <3>2, <3>3 DEF isResourceDeletionCompleted
  <2>3. /\ mgr'.snr = mgr.snr /\ mgr'.current = mgr.current
        /\ mgr'.pc \in {"removeOutOfServiceTaint", "updateSnrStatusLastError"}
    BY <1>0, <2>2 DEF Manager
  <2>4. CalledFor(mgr') /\ Cleans(mgr) /\ ~Releases(mgr')
    BY <2>1, <2>3 DEF PInv, CalledFor, Cleans, Releases
  <2> QED BY <2>1, <2>3, <2>4 DEF Proceeds, SameObject, SamePhase, LastCalls
<1>6. CASE removeOutOfServiceTaint
  <2> DEFINE m == [mgr EXCEPT !.pc = "removeNoScheduleTaint"]
  <2>1. mgr.pc = "removeOutOfServiceTaint" /\ UNCHANGED clock
    BY <1>6 DEF removeOutOfServiceTaint, Calling
  <2>2. CASE mgr.snr.timedOut /\ RemoveTaint("OutOfService", m)
    <3>1. CalledFor(m) /\ (Cleans(m) => Cleans(mgr)) /\ (Releases(m) => Releases(mgr))
      BY <1>0, <2>1, <2>2 DEF PInv, CalledFor, Cleans, Releases, Manager
    <3> HIDE DEF m
    <3>2. m \in Manager /\ Proceeds(m)
      BY <1>n, <2>1, <3>1 DEF Calls, LastCalls, m
    <3> QED BY <2>1, <2>2, <3>2, TaintCallProceeds
  <2>3. CASE ~mgr.snr.timedOut /\ RemoveTaint("OutOfService", FencingCompleted(mgr))
    BY <2>1, <2>3, CompletedProceeds, TaintCallProceeds
  <2> QED BY <1>6, <2>2, <2>3 DEF removeOutOfServiceTaint
<1>7. CASE removeNoScheduleTaint
  <2>1. mgr.pc = "removeNoScheduleTaint" /\ UNCHANGED clock
        /\ RemoveTaint("NoSchedule", AfterRecovery(mgr))
    BY <1>7 DEF removeNoScheduleTaint, Calling
  <2>2. PICK call \in LastCalls \cup {"removeFinalizer"} : AfterRecovery(mgr) = [mgr EXCEPT !.pc = call]
    BY DEF AfterRecovery, LastCalls
  <2>3. /\ CalledFor([mgr EXCEPT !.pc = call]) /\ ~Cleans([mgr EXCEPT !.pc = call])
        /\ Releases(mgr)
    BY <1>0, <2>1 DEF PInv, CalledFor, Cleans, Releases, Manager, LastCalls
  <2>4. AfterRecovery(mgr) \in Manager /\ Proceeds(AfterRecovery(mgr))
    BY <1>n, <2>1, <2>2, <2>3 DEF Calls, LastCalls
  <2> QED BY <2>1, <2>4, TaintCallProceeds
<1> QED BY <1>1, <1>2, <1>3, <1>4, <1>5, <1>6, <1>7

LEMMA NodeCallsKeep ==
    ASSUME IInv, PInv,
           \/ addNoScheduleTaint \/ setTimeAssumedRebooted
           \/ DeletePods \/ addOutOfServiceTaint \/ isResourceDeletionCompleted
           \/ removeOutOfServiceTaint \/ removeNoScheduleTaint
    PROVE  PInv'
BY NodeCallsProceed, ProceedKeeps DEF snrVars

\* The calls of a reconcile that write the SNR.
LEMMA SNRCallsKeep ==
    ASSUME IInv, PInv, addFinalizer \/ removeFinalizer \/ updateSnrStatusLastError \/ updateSnrStatus
    PROVE  PInv'
<1>0. mgr \in Manager /\ (mgr.pc # "idle" => mgr.snr \in SNR)
  BY DEF IInv, ManagerInv, MaybeSNR, SafeSNR
<1>s. snr # NoSNR => snr \in SNR
  BY DEF IInv, InformerInv, MaybeSNR, SafeSNR
<1>c. mgr.current => snr # NoSNR
  BY DEF IInv, ManagerInv
<1>1. CASE addFinalizer
  <2>1. mgr.pc = "addFinalizer" /\ UNCHANGED clock
    BY <1>1 DEF addFinalizer, Calling
  <2>2. CASE CallFails
    BY <2>1, <2>2, CallFailsProceeds, ProceedKeeps DEF snrVars
  <2>3. CASE /\ mgr' = [mgr EXCEPT !.requeue = TRUE, !.pc = "updateSnrStatusLastError",
                                   !.err = IF snr = NoSNR THEN "ApiCall" ELSE ""]
             /\ UNCHANGED snrVars
    <3>1. /\ mgr'.snr = mgr.snr /\ mgr'.current = mgr.current
          /\ mgr'.pc = "updateSnrStatusLastError"
      BY <1>0, <2>3 DEF Manager
    <3>2. Proceeds(mgr')
      BY <3>1 DEF Proceeds, SameObject, SamePhase, CalledFor, Cleans, Releases, LastCalls
    <3> QED BY <2>1, <2>3, <3>2, ProceedKeeps DEF snrVars
  <2>4. CASE /\ mgr.current
             /\ WriteSNR([snr EXCEPT !.finalizer = TRUE])
             /\ mgr' = [mgr EXCEPT !.snr = [snr EXCEPT !.finalizer = TRUE], !.requeue = TRUE,
                                   !.pc = "updateSnrStatusLastError"]
    <3> DEFINE s == [snr EXCEPT !.finalizer = TRUE]
    <3>1. snr' = s /\ mgr'.snr = s /\ mgr'.pc = "updateSnrStatusLastError"
      BY <1>0, <2>4 DEF WriteSNR, Manager
    <3>2. SamePhase(snr, s)
      BY <1>s, <1>c, <2>4 DEF SamePhase, SNR
    <3> HIDE DEF s
    <3>3. CalledFor(mgr') /\ InStep(mgr)'
      BY <3>1 DEF CalledFor, Cleans, Releases, InStep, SameObject, SamePhase
    <3>4. FirstPhase'
      BY <1>c, <2>4, <3>1, <3>2 DEF PInv, FirstPhase, SamePhase
    <3> QED BY <3>3, <3>4 DEF PInv
  <2> QED BY <1>1, <2>2, <2>3, <2>4 DEF addFinalizer, Accepted
<1>2. CASE removeFinalizer
  <2>1. mgr.pc = "removeFinalizer" /\ UNCHANGED clock
    BY <1>2 DEF removeFinalizer, Calling
  <2>2. CASE CallFails
    BY <2>1, <2>2, CallFailsProceeds, ProceedKeeps DEF snrVars
  <2>3. CASE mgr' = Failed(mgr) /\ UNCHANGED snrVars
    BY <2>1, <2>3, FailedProceeds, ProceedKeeps DEF snrVars
  <2>4. CASE /\ WriteSNR(NoSNR)
             /\ \E call \in LastCalls : mgr' = [mgr EXCEPT !.current = FALSE, !.pc = call]
    <3>1. snr' = NoSNR /\ mgr'.current = FALSE /\ mgr'.pc \in LastCalls
      BY <1>0, <2>4 DEF WriteSNR, Manager
    <3> QED BY <3>1 DEF PInv, CalledFor, Cleans, Releases, InStep, FirstPhase, LastCalls
  <2> QED BY <1>2, <2>2, <2>3, <2>4 DEF removeFinalizer, LastCalls
<1>3. CASE updateSnrStatusLastError
  <2> DEFINE m == [mgr EXCEPT !.pc = "updateSnrStatus"]
  <2>1. mgr.pc = "updateSnrStatusLastError" /\ UNCHANGED clock
    BY <1>3 DEF updateSnrStatusLastError, Calling
  <2>2. m \in Manager /\ m.snr = mgr.snr /\ m.current = mgr.current /\ m.pc = "updateSnrStatus"
    BY <1>0 DEF Manager, Calls
  <2>3. CASE mgr' = m /\ UNCHANGED snrVars
    <3>1. Proceeds(mgr')
      BY <2>2, <2>3 DEF Proceeds, SameObject, SamePhase, CalledFor, Cleans, Releases, LastCalls
    <3> QED BY <2>1, <2>3, <3>1, ProceedKeeps DEF snrVars
  <2>4. CASE mgr' = [m EXCEPT !.snr.lastError = mgr.err, !.err = "ApiCall"] /\ UNCHANGED snrVars
    <3>1. /\ mgr'.snr = [mgr.snr EXCEPT !.lastError = mgr.err] /\ mgr'.current = mgr.current
          /\ mgr'.pc = "updateSnrStatus"
      BY <1>0, <2>4 DEF Manager
    <3>2. SameObject(mgr.snr, mgr'.snr) /\ SamePhase(mgr.snr, mgr'.snr)
      BY <1>0, <2>1, <3>1 DEF SameObject, SamePhase, SNR
    <3>3. Proceeds(mgr')
      BY <3>1, <3>2 DEF Proceeds, CalledFor, Cleans, Releases, LastCalls
    <3> QED BY <2>1, <2>4, <3>3, ProceedKeeps DEF snrVars
  <2>5. CASE /\ snr # NoSNR
             /\ LET s == [snr EXCEPT !.lastError = mgr.err] IN
                /\ IF s = snr THEN UNCHANGED snrVars ELSE WriteSNR(s)
                /\ mgr' = [m EXCEPT !.snr = s, !.current = TRUE]
    <3> DEFINE s == [snr EXCEPT !.lastError = mgr.err]
    <3>1. snr' = s
      BY <2>5 DEF WriteSNR, snrVars
    <3>2. mgr' = [m EXCEPT !.snr = s, !.current = TRUE]
      BY <2>5
    <3>3. SamePhase(snr, s)
      BY <1>s, <2>5 DEF SamePhase, SNR
    <3> HIDE DEF s, m
    <3>4. mgr'.snr = s /\ mgr'.pc = "updateSnrStatus"
      BY <2>2, <3>2 DEF Manager
    <3>5. CalledFor(mgr') /\ InStep(mgr)'
      BY <3>1, <3>4 DEF CalledFor, Cleans, Releases, InStep, SameObject, SamePhase
    <3>6. FirstPhase'
      BY <2>5, <3>1, <3>3 DEF PInv, FirstPhase, SamePhase
    <3> QED BY <3>5, <3>6 DEF PInv
  <2> QED BY <1>3, <2>3, <2>4, <2>5 DEF updateSnrStatusLastError
<1>4. CASE updateSnrStatus
  <2>1. mgr.pc = "updateSnrStatus" /\ mgr' = Idle
    BY <1>4 DEF updateSnrStatus
  <2>2. CalledFor(mgr') /\ InStep(mgr)'
    BY <2>1 DEF CalledFor, Cleans, Releases, InStep, Idle
  <2>3. CASE UNCHANGED snrVars
    BY <2>2, <2>3 DEF PInv, FirstPhase, snrVars
  <2>4. CASE mgr.current /\ WriteSNR(WithStatus(snr, mgr.snr))
    <3>1. /\ snr' = WithStatus(snr, mgr.snr) /\ snr'.phase = mgr.snr.phase
          /\ snr'.timeAssumedRebooted = mgr.snr.timeAssumedRebooted
      BY <1>0, <1>s, <1>c, <2>1, <2>4 DEF WriteSNR, WithStatus, SNR
    <3>2. SamePhase(snr, mgr.snr) \/ Ahead(snr, mgr.snr, clock)
      BY <2>1, <2>4 DEF PInv, InStep
    <3>3. FirstPhase'
      BY <1>c, <2>4, <3>1, <3>2 DEF PInv, FirstPhase, SamePhase, Ahead
    <3> QED BY <2>2, <3>3 DEF PInv
  <2> QED BY <1>4, <2>3, <2>4 DEF updateSnrStatus, Accepted
<1> QED BY <1>1, <1>2, <1>3, <1>4

\* The informers, the config controller, restarts and the rest of the cluster.
LEMMA OthersKeep ==
    ASSUME IInv, PInv,
           Restart \/ setCRsEnabledStatus \/ SyncSNR \/ SyncNode \/ RequeueDue \/ Tick \/ Cluster
    PROVE  PInv'
<1>s. snr # NoSNR => snr \in SNR
  BY DEF IInv, InformerInv, MaybeSNR, SafeSNR
<1>w. ASSUME NEW s, WriteSNR(s), Outdate,
             s = NoSNR \/ (snr # NoSNR /\ SamePhase(snr, s)) \/ s.timeAssumedRebooted = NoTime
      PROVE  PInv'
  <2>1. snr' = s
    BY <1>w DEF WriteSNR
  <2>2. FirstPhase'
    BY <1>w, <2>1 DEF PInv, FirstPhase, SamePhase
  <2> QED BY <1>w, <2>2, ForeignKeeps
<1>1. CASE Restart
  <2>1. mgr' = Idle /\ UNCHANGED snr
    BY <1>1 DEF Restart
  <2> QED BY <2>1 DEF PInv, FirstPhase, CalledFor, Cleans, Releases, InStep, Idle
<1>2. CASE setCRsEnabledStatus
  <2>1. CASE UNCHANGED <<snrVars, mgr>>
    BY <1>2, <2>1, BystanderKeeps DEF setCRsEnabledStatus, snrVars
  <2>2. CASE /\ snrCache # NoSNR /\ snrWatch = <<>>
             /\ WriteSNR([snr EXCEPT !.disabled = FALSE]) /\ Outdate
    <3>1. snr # NoSNR
      BY <2>2 DEF IInv, InformerInv
    <3>2. SamePhase(snr, [snr EXCEPT !.disabled = FALSE])
      BY <1>s, <3>1 DEF SNR, SamePhase
    <3> QED BY <1>w, <2>2, <3>1, <3>2
  <2> QED BY <1>2, <2>1, <2>2 DEF setCRsEnabledStatus
<1>3. CASE SyncSNR \/ SyncNode \/ RequeueDue \/ Tick
  <2>1. UNCHANGED <<snr, mgr>> /\ clock' \in {clock, clock + 1}
    BY <1>3 DEF SyncSNR, SyncNode, RequeueDue, Tick, snrVars
  <2> QED BY <2>1, BystanderKeeps
<1>4. CASE CreateSNR
  <2>1. PICK strategy \in Strategies : WriteSNR(NewSNR(created + 1, strategy))
    BY <1>4 DEF CreateSNR
  <2>2. NewSNR(created + 1, strategy).timeAssumedRebooted = NoTime
    BY DEF NewSNR
  <2> QED BY <1>4, <1>w, <2>1, <2>2 DEF CreateSNR
<1>5. CASE DeleteSNR
  <2>1. snr # NoSNR /\ Outdate /\ (WriteSNR([snr EXCEPT !.deleting = TRUE]) \/ WriteSNR(NoSNR))
    BY <1>5 DEF DeleteSNR
  <2>2. SamePhase(snr, [snr EXCEPT !.deleting = TRUE])
    BY <1>s, <2>1 DEF SNR, SamePhase
  <2> QED BY <1>w, <2>1, <2>2
<1>6. CASE TimeOutSNR
  <2>1. snr # NoSNR /\ Outdate /\ WriteSNR([snr EXCEPT !.timedOut = TRUE])
    BY <1>6 DEF TimeOutSNR
  <2>2. SamePhase(snr, [snr EXCEPT !.timedOut = TRUE])
    BY <1>s, <2>1 DEF SNR, SamePhase
  <2> QED BY <1>w, <2>1, <2>2
<1>7. CASE ConfigChanges \/ NodeChanges
  <2>1. UNCHANGED <<snr, mgr, clock>>
    BY <1>7 DEF ConfigChanges, NodeChanges, Disrupt, snrVars
  <2> QED BY <2>1, BystanderKeeps
<1>8. CASE EvictPods \/ ForceDeletePods \/ DetachVolumes \/ SchedulePods
  <2>1. UNCHANGED <<snr, mgr, clock>>
    BY <1>8 DEF EvictPods, ForceDeletePods, DetachVolumes, SchedulePods, WorkloadStep, snrVars
  <2> QED BY <2>1, BystanderKeeps
<1> QED BY <1>1, <1>2, <1>3, <1>4, <1>5, <1>6, <1>7, <1>8 DEF Cluster

LEMMA InitPromise == Init => PInv
<1> SUFFICES ASSUME Init PROVE PInv
  OBVIOUS
<1>1. mgr.pc = "idle" /\ snr = NoSNR
  BY DEF Init, Idle
<1> QED BY <1>1 DEF PInv, CalledFor, Cleans, Releases, InStep, FirstPhase

LEMMA NextPromise == IInv /\ PInv /\ [Next]_vars => PInv'
<1> SUFFICES ASSUME IInv, PInv, [Next]_vars PROVE PInv'
  OBVIOUS
<1>1. CASE Next
  BY <1>1, ReconcileKeeps, NodeCallsKeep, SNRCallsKeep, OthersKeep DEF Next, Call
<1>2. CASE UNCHANGED vars
  BY <1>2, BystanderKeeps DEF vars, snrVars
<1> QED BY <1>1, <1>2

-----------------------------------------------------------------------------
\* A step as Lifecycle sees it.
AbstractStep == Abstract!Live \/ UNCHANGED Abstract!lifecycleVars

\* The fields that Lifecycle knows of an SNR, and that there is one.
LEMMA AbstractedSNR ==
    ASSUME NEW s \in SNR
    PROVE  /\ Abstracted(s) \in AbstractSNR /\ Abstracted(s) # NoSNR
           /\ Abstracted(s) = [uid |-> s.uid, phase |-> s.phase,
                               timeAssumedRebooted |-> s.timeAssumedRebooted,
                               deleting |-> s.deleting, timedOut |-> s.timedOut]
<1>1. s # NoSNR
  BY BoundsAssumption
<1>2. Abstracted(s) = [uid |-> s.uid, phase |-> s.phase,
                       timeAssumedRebooted |-> s.timeAssumedRebooted,
                       deleting |-> s.deleting, timedOut |-> s.timedOut]
  BY <1>1 DEF Abstracted
<1>3. Abstracted(s) \in AbstractSNR
  BY <1>2 DEF AbstractSNR, SNR
<1> QED BY <1>2, <1>3, BoundsAssumption

\* What Lifecycle sees is told apart by these fields.
LEMMA SameFields ==
    ASSUME NEW a \in AbstractSNR, NEW b \in AbstractSNR, SameObject(a, b), SamePhase(a, b)
    PROVE  a = b
BY DEF AbstractSNR, SameObject, SamePhase

\* Two SNRs that agree in these fields look the same.
LEMMA AbstractedAlike ==
    ASSUME NEW s \in SNR, NEW t \in SNR, SameObject(s, t), SamePhase(s, t)
    PROVE  Abstracted(s) = Abstracted(t)
BY AbstractedSNR DEF SameObject, SamePhase

\* A write that Lifecycle does not see.
LEMMA UnseenWrite ==
    ASSUME snr \in SNR, snr' \in SNR, SameObject(snr, snr'), SamePhase(snr, snr'),
           UNCHANGED <<created, clock>>
    PROVE  AbstractStep
<1>1. Abstracted(snr)' = Abstracted(snr)
  BY AbstractedAlike DEF Abstracted
<1> QED BY <1>1 DEF AbstractStep, Abstract!lifecycleVars

LEMMA UnseenStep ==
    ASSUME UNCHANGED <<snr, created, clock>>
    PROVE  AbstractStep
BY DEF AbstractStep, Abstract!lifecycleVars, Abstracted

\* The deferred status update stores the phase the SNR has, or the next one.
LEMMA StatusStep == ASSUME IInv, PInv, updateSnrStatus PROVE AbstractStep
<1>1. mgr.pc = "updateSnrStatus" /\ UNCHANGED <<created, clock>>
  BY DEF updateSnrStatus, Fault, counters
<1>2. CASE UNCHANGED snrVars
  BY <1>1, <1>2, UnseenStep DEF snrVars
<1>3. CASE mgr.current /\ WriteSNR(WithStatus(snr, mgr.snr))
  <2> DEFINE a == Abstracted(snr)
  <2>1. snr \in SNR /\ mgr.snr \in SNR
    BY <1>1, <1>3 DEF IInv, InformerInv, ManagerInv, MaybeSNR, SafeSNR
  <2>2. /\ snr' \in SNR /\ SameObject(snr, snr') /\ snr'.phase = mgr.snr.phase
        /\ snr'.timeAssumedRebooted = mgr.snr.timeAssumedRebooted
    BY <1>3, <2>1 DEF WriteSNR, WithStatus, SNR, SameObject
  <2>3. CASE SamePhase(snr, mgr.snr)
    BY <1>1, <2>1, <2>2, <2>3, UnseenWrite DEF SamePhase
  <2>4. CASE Ahead(snr, mgr.snr, clock)
    <3>1. /\ a # NoSNR /\ a.phase = snr.phase /\ a.timedOut = snr.timedOut
          /\ a.timeAssumedRebooted = snr.timeAssumedRebooted
      BY <2>1, AbstractedSNR
    <3>2. Abstracted(snr)' = [a EXCEPT !.phase = mgr.snr.phase,
                                       !.timeAssumedRebooted = mgr.snr.timeAssumedRebooted]
      <4> DEFINE b == [a EXCEPT !.phase = mgr.snr.phase,
                                !.timeAssumedRebooted = mgr.snr.timeAssumedRebooted]
      <4>1. Abstracted(snr)' = Abstracted(snr')
        BY DEF Abstracted
      <4>2. /\ Abstracted(snr') \in AbstractSNR
            /\ SameObject(snr', Abstracted(snr')) /\ SamePhase(snr', Abstracted(snr'))
        BY <2>2, AbstractedSNR DEF SameObject, SamePhase
      <4>3. a \in AbstractSNR /\ SameObject(snr, a)
        BY <2>1, AbstractedSNR DEF SameObject
      <4> HIDE DEF a
      <4>4. b \in AbstractSNR /\ SameObject(a, b) /\ SamePhase(mgr.snr, b)
        BY <2>1, <4>3 DEF AbstractSNR, SNR, SameObject, SamePhase
      <4> HIDE DEF b
      <4>5. SameObject(b, Abstracted(snr')) /\ SamePhase(b, Abstracted(snr'))
        BY <2>2, <4>2, <4>3, <4>4 DEF SameObject, SamePhase
      <4>6. Abstracted(snr') = b
        BY <4>2, <4>4, <4>5, SameFields
      <4> QED BY <4>1, <4>6 DEF b
    <3> DEFINE t == mgr.snr.timeAssumedRebooted
    <3>3. CASE /\ snr.phase = "Fencing-Started" /\ mgr.snr.phase = "Pre-Reboot-Completed"
               /\ t \in 0 .. clock + RebootDuration
      <4>1. clock \in Nat /\ RebootDuration \in Nat
        BY BoundsAssumption DEF IInv, RestInv
      <4>2. t <= clock + RebootDuration
        BY <3>3, <4>1
      <4>3. Abstract!PreRebootCompleted(t)
        BY <1>1, <2>4, <3>1, <3>2, <3>3, <4>2
           DEF Ahead, Abstract!PreRebootCompleted, Abstract!Advance
      <4> QED BY <3>3, <4>3 DEF AbstractStep, Abstract!Live
    <3>4. CASE /\ snr.phase = "Pre-Reboot-Completed" /\ mgr.snr.phase = "Reboot-Completed"
               /\ t = snr.timeAssumedRebooted /\ snr.timeAssumedRebooted <= clock
      <4>1. Abstract!RebootCompleted
        BY <1>1, <2>4, <3>1, <3>2, <3>4 DEF Ahead, Abstract!RebootCompleted, Abstract!Advance
      <4> QED BY <4>1 DEF AbstractStep, Abstract!Live
    <3>5. CASE /\ snr.phase = "Reboot-Completed" /\ mgr.snr.phase = "Fencing-Completed"
               /\ t = snr.timeAssumedRebooted
      <4>1. Abstract!FencingCompleted
        BY <1>1, <2>4, <3>1, <3>2, <3>5 DEF Ahead, Abstract!FencingCompleted, Abstract!Advance
      <4> QED BY <4>1 DEF AbstractStep, Abstract!Live
    <3> QED BY <2>4, <3>3, <3>4, <3>5 DEF Ahead
  <2> QED BY <1>1, <1>3, <2>3, <2>4 DEF PInv, InStep
<1> QED BY <1>2, <1>3 DEF updateSnrStatus, Accepted

\* The other calls of a reconcile leave the SNR as Lifecycle sees it, or release it.
LEMMA CallStep == ASSUME IInv, PInv, Call PROVE AbstractStep
<1>0. mgr \in Manager /\ (mgr.current => snr \in SNR) /\ (snr # NoSNR => snr \in SNR)
  BY DEF IInv, InformerInv, ManagerInv, MaybeSNR, SafeSNR
<1>1. CASE addFinalizer
  <2>1. UNCHANGED <<created, clock>>
    BY <1>1 DEF addFinalizer, Calling, CallFails, Fault, counters
  <2>2. CASE UNCHANGED snrVars
    BY <2>1, <2>2, UnseenStep DEF snrVars
  <2>3. CASE mgr.current /\ WriteSNR([snr EXCEPT !.finalizer = TRUE])
    <3>1. snr \in SNR /\ snr' \in SNR /\ SameObject(snr, snr') /\ SamePhase(snr, snr')
      BY <1>0, <2>3 DEF WriteSNR, SNR, SameObject, SamePhase
    <3> QED BY <2>1, <3>1, UnseenWrite
  <2> QED BY <1>1, <2>2, <2>3 DEF addFinalizer, CallFails, Accepted
<1>2. CASE removeFinalizer
  <2>1. mgr.pc = "removeFinalizer" /\ UNCHANGED <<created, clock>>
    BY <1>2 DEF removeFinalizer, Calling, CallFails, Fault, counters
  <2>2. CASE UNCHANGED snrVars
    BY <2>1, <2>2, UnseenStep DEF snrVars
  <2>3. CASE mgr.current /\ WriteSNR(NoSNR)
    <3>1. SameObject(snr, mgr.snr) /\ SamePhase(snr, mgr.snr)
      BY <2>1, <2>3 DEF PInv, InStep, LastCalls
    <3>2. snr.deleting /\ (snr.timedOut \/ snr.phase = "Fencing-Completed")
      BY <2>1, <3>1 DEF PInv, CalledFor, Cleans, Releases, SameObject, SamePhase
    <3>3. /\ Abstracted(snr) # NoSNR /\ Abstracted(snr).deleting = snr.deleting
          /\ Abstracted(snr).timedOut = snr.timedOut /\ Abstracted(snr).phase = snr.phase
      BY <1>0, <2>3, AbstractedSNR
    <3>4. Abstracted(snr)' = NoSNR
      BY <2>3 DEF WriteSNR, Abstracted
    <3> QED BY <2>1, <3>2, <3>3, <3>4 DEF AbstractStep, Abstract!Live, Abstract!Release
  <2> QED BY <1>2, <2>2, <2>3 DEF removeFinalizer, CallFails, Accepted
<1>3. CASE updateSnrStatusLastError
  <2>1. UNCHANGED <<created, clock>>
    BY <1>3 DEF updateSnrStatusLastError, Calling, Fault, counters
  <2>2. CASE UNCHANGED snrVars
    BY <2>1, <2>2, UnseenStep DEF snrVars
  <2>3. CASE snr # NoSNR /\ WriteSNR([snr EXCEPT !.lastError = mgr.err])
    <3>1. snr \in SNR /\ snr' \in SNR /\ SameObject(snr, snr') /\ SamePhase(snr, snr')
      BY <1>0, <2>3 DEF WriteSNR, SNR, SameObject, SamePhase, Manager
    <3> QED BY <2>1, <3>1, UnseenWrite
  <2> QED BY <1>3, <2>2, <2>3 DEF updateSnrStatusLastError
<1>4. CASE \/ addNoScheduleTaint \/ setTimeAssumedRebooted
           \/ DeletePods \/ addOutOfServiceTaint \/ isResourceDeletionCompleted
           \/ removeOutOfServiceTaint \/ removeNoScheduleTaint
  <2>1. UNCHANGED <<snr, created, clock>>
    BY <1>4 DEF addNoScheduleTaint, setTimeAssumedRebooted, DeletePods, addOutOfServiceTaint,
                isResourceDeletionCompleted, removeOutOfServiceTaint, removeNoScheduleTaint,
                AddTaint, RemoveTaint, PatchTaints, Calling, CallFails, Fault, counters, snrVars
  <2> QED BY <2>1, UnseenStep
<1> QED BY <1>1, <1>2, <1>3, <1>4, StatusStep DEF Call

\* What NHC does, and time, are steps of Lifecycle; the others leave the SNR as it is.
LEMMA OtherStep ==
    ASSUME IInv, PInv,
           \/ Reconcile \/ Restart \/ setCRsEnabledStatus
           \/ SyncSNR \/ SyncNode \/ RequeueDue \/ Tick \/ Cluster
    PROVE  AbstractStep
<1>0. /\ snr # NoSNR => snr \in SafeSNR /\ snr \in SNR
      /\ snrWatch = <<>> => snrCache = snr
  BY DEF IInv, InformerInv, MaybeSNR, SafeSNR
<1>1. CASE Reconcile
  <2>1. UNCHANGED <<snr, created, clock>>
    BY <1>1 DEF Reconcile, SNRNotFound, ConfigurationNotFound, StoppedByNHC, NodeNotFound,
                NodeExcluded, prepareReboot, waitForNodeRebooted, handleRebootCompletedPhase,
                handleFencingCompletedPhase, InPhase, Remediating, StartReconcile, counters
  <2> QED BY <2>1, UnseenStep
<1>2. CASE Restart \/ SyncSNR \/ SyncNode \/ RequeueDue
  <2>1. UNCHANGED <<snr, created, clock>>
    BY <1>2 DEF Restart, Fault, SyncSNR, SyncNode, RequeueDue, counters, snrVars
  <2> QED BY <2>1, UnseenStep
<1>3. CASE setCRsEnabledStatus
  <2>1. UNCHANGED <<created, clock>>
    BY <1>3 DEF setCRsEnabledStatus, counters
  <2>2. CASE UNCHANGED snrVars
    BY <2>1, <2>2, UnseenStep DEF snrVars
  <2>3. CASE snrCache # NoSNR /\ snrWatch = <<>> /\ WriteSNR([snr EXCEPT !.disabled = FALSE])
    <3>1. snr \in SNR /\ snr' \in SNR /\ SameObject(snr, snr') /\ SamePhase(snr, snr')
      BY <1>0, <2>3 DEF WriteSNR, SNR, SameObject, SamePhase
    <3> QED BY <2>1, <3>1, UnseenWrite
  <2> QED BY <1>3, <2>2, <2>3 DEF setCRsEnabledStatus
<1>4. CASE Tick
  <2>1. UNCHANGED <<snr, created>> /\ clock' = clock + 1
    BY <1>4 DEF Tick, snrVars, counters
  <2>2. Abstract!Pass
    BY <2>1 DEF Abstract!Pass, Abstracted
  <2> QED BY <2>2 DEF AbstractStep, Abstract!Live
<1>5. CASE CreateSNR
  <2>1. snr = NoSNR /\ created' = created + 1 /\ UNCHANGED clock
    BY <1>5 DEF CreateSNR
  <2>2. PICK strategy \in Strategies : WriteSNR(NewSNR(created + 1, strategy))
    BY <1>5 DEF CreateSNR
  <2> DEFINE s == NewSNR(created + 1, strategy)
  <2>3. s \in SNR
    <3>1. created + 1 \in Nat /\ strategy \in {"Automatic", "ResourceDeletion", "OutOfServiceTaint"}
      BY BoundsAssumption DEF IInv, RestInv
    <3> QED BY <3>1 DEF NewSNR, SNR, Phases, Conditions, Errors
  <2>4. Abstracted(s) = Abstract!New(created + 1)
    BY <2>3, AbstractedSNR DEF NewSNR, Abstract!New, NoTime, Abstract!NoTime
  <2>5. Abstracted(snr)' = Abstract!New(created + 1)
    BY <2>2, <2>4 DEF WriteSNR, Abstracted
  <2>6. Abstracted(snr) = NoSNR
    BY <2>1 DEF Abstracted
  <2>7. Abstract!Create
    BY <2>1, <2>5, <2>6 DEF Abstract!Create
  <2> QED BY <2>7 DEF AbstractStep, Abstract!Live
<1>6. CASE DeleteSNR
  <2>1. snr \in SNR /\ snr \in SafeSNR /\ ~snr.deleting /\ UNCHANGED <<created, clock>>
    BY <1>0, <1>6 DEF DeleteSNR, counters
  <2>2. Abstracted(snr) = [uid |-> snr.uid, phase |-> snr.phase,
                           timeAssumedRebooted |-> snr.timeAssumedRebooted,
                           deleting |-> snr.deleting, timedOut |-> snr.timedOut]
        /\ Abstracted(snr) # NoSNR
    BY <2>1, AbstractedSNR
  <2>3. CASE WriteSNR([snr EXCEPT !.deleting = TRUE])
    <3>1. [snr EXCEPT !.deleting = TRUE] \in SNR
      BY <2>1 DEF SNR
    <3>2. Abstracted([snr EXCEPT !.deleting = TRUE]) = [Abstracted(snr) EXCEPT !.deleting = TRUE]
      <4> DEFINE a == Abstracted([snr EXCEPT !.deleting = TRUE])
             b == [Abstracted(snr) EXCEPT !.deleting = TRUE]
      <4>1. a \in AbstractSNR /\ b \in AbstractSNR
        BY <2>1, <3>1, AbstractedSNR DEF AbstractSNR
      <4>2. /\ a.uid = snr.uid /\ a.timedOut = snr.timedOut /\ a.deleting = TRUE
            /\ SamePhase(snr, a)
        BY <2>1, <3>1, AbstractedSNR DEF SNR, SamePhase
      <4>3. /\ b.uid = snr.uid /\ b.timedOut = snr.timedOut /\ b.deleting = TRUE
            /\ SamePhase(snr, b)
        <5>1. Abstracted(snr) \in AbstractSNR
          BY <2>1, AbstractedSNR
        <5> QED BY <2>2, <5>1 DEF AbstractSNR, SamePhase
      <4> HIDE DEF a, b
      <4>4. a = b
        BY <4>1, <4>2, <4>3, SameFields DEF SameObject, SamePhase
      <4> QED BY <4>4 DEF a, b
    <3>3. Abstracted(snr)' = [Abstracted(snr) EXCEPT !.deleting = TRUE]
      BY <2>3, <3>2 DEF WriteSNR, Abstracted
    <3>4. Abstract!Delete
      BY <2>1, <2>2, <3>3 DEF Abstract!Delete
    <3> QED BY <3>4 DEF AbstractStep, Abstract!Live
  <2>4. CASE ~snr.finalizer /\ WriteSNR(NoSNR)
    <3>1. snr.phase = "Fencing-Started"
      BY <2>1, <2>4 DEF SafeSNR
    <3>2. Abstracted(snr)' = NoSNR
      BY <2>4 DEF WriteSNR, Abstracted
    <3>3. Abstract!Delete
      BY <2>1, <2>2, <3>1, <3>2 DEF Abstract!Delete
    <3> QED BY <3>3 DEF AbstractStep, Abstract!Live
  <2> QED BY <1>6, <2>3, <2>4 DEF DeleteSNR
<1>7. CASE TimeOutSNR
  <2>1. /\ snr \in SNR /\ ~snr.deleting /\ ~snr.timedOut /\ UNCHANGED <<created, clock>>
        /\ WriteSNR([snr EXCEPT !.timedOut = TRUE])
    BY <1>0, <1>7 DEF TimeOutSNR, counters
  <2>2. Abstracted(snr) = [uid |-> snr.uid, phase |-> snr.phase,
                           timeAssumedRebooted |-> snr.timeAssumedRebooted,
                           deleting |-> snr.deleting, timedOut |-> snr.timedOut]
        /\ Abstracted(snr) # NoSNR
    BY <2>1, AbstractedSNR
  <2>3. [snr EXCEPT !.timedOut = TRUE] \in SNR
    BY <2>1 DEF SNR
  <2>4. Abstracted([snr EXCEPT !.timedOut = TRUE]) = [Abstracted(snr) EXCEPT !.timedOut = TRUE]
    <3> DEFINE a == Abstracted([snr EXCEPT !.timedOut = TRUE])
           b == [Abstracted(snr) EXCEPT !.timedOut = TRUE]
    <3>1. a \in AbstractSNR /\ b \in AbstractSNR
      BY <2>1, <2>3, AbstractedSNR DEF AbstractSNR
    <3>2. /\ a.uid = snr.uid /\ a.deleting = snr.deleting /\ a.timedOut = TRUE
          /\ SamePhase(snr, a)
      BY <2>1, <2>3, AbstractedSNR DEF SNR, SamePhase
    <3>3. /\ b.uid = snr.uid /\ b.deleting = snr.deleting /\ b.timedOut = TRUE
          /\ SamePhase(snr, b)
      <4>1. Abstracted(snr) \in AbstractSNR
        BY <2>1, AbstractedSNR
      <4> QED BY <2>2, <4>1 DEF AbstractSNR, SamePhase
    <3> HIDE DEF a, b
    <3>4. a = b
      BY <3>1, <3>2, <3>3, SameFields DEF SameObject, SamePhase
    <3> QED BY <3>4 DEF a, b
  <2>5. Abstracted(snr)' = [Abstracted(snr) EXCEPT !.timedOut = TRUE]
    BY <2>1, <2>4 DEF WriteSNR, Abstracted
  <2>6. Abstract!TimeOut
    BY <2>1, <2>2, <2>5 DEF Abstract!TimeOut
  <2> QED BY <2>6 DEF AbstractStep, Abstract!Live
<1>8. CASE \/ ConfigChanges \/ NodeChanges
           \/ EvictPods \/ ForceDeletePods \/ DetachVolumes \/ SchedulePods
  <2>1. UNCHANGED <<snr, created, clock>>
    BY <1>8 DEF ConfigChanges, NodeChanges, Disrupt, EvictPods, ForceDeletePods, DetachVolumes,
                SchedulePods, WorkloadStep, snrVars, counters
  <2> QED BY <2>1, UnseenStep
<1> QED BY <1>1, <1>2, <1>3, <1>4, <1>5, <1>6, <1>7, <1>8 DEF Cluster

LEMMA EveryStep == IInv /\ PInv /\ [Next]_vars => [Abstract!Live]_(Abstract!lifecycleVars)
<1> SUFFICES ASSUME IInv, PInv, [Next]_vars PROVE AbstractStep
  BY DEF AbstractStep
<1>1. CASE Next
  BY <1>1, CallStep, OtherStep DEF Next
<1>2. CASE UNCHANGED vars
  BY <1>2, UnseenStep DEF vars, snrVars, counters
<1> QED BY <1>1, <1>2

\* The manager implements Lifecycle: whatever the lag of its caches, whichever calls
\* fail and whenever it restarts, it moves an SNR from phase to phase in order, sets
\* its deadline once and in time, waits for it, leaves alone what NHC has given up and
\* releases an SNR only when it is fenced, given up or was never taken up.
THEOREM PromiseKept == Spec => KeepsPromise
<1>1. Init => Abstract!Start
  BY DEF Init, Abstract!Start, Abstracted
<1>2. Spec => [](IInv /\ PInv)
  BY InitInv, NextInv, InitPromise, NextPromise, PTL DEF Spec
<1> QED BY <1>1, <1>2, EveryStep, PTL DEF Spec, KeepsPromise, Abstract!Promise
=============================================================================
