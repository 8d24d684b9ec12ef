--------------------------- MODULE CleanupProofs ---------------------------
(***************************************************************************)
(* The manager of Remediation touches the workload of a node only on       *)
(* behalf of an SNR that exists and whose deadline has passed, although    *)
(* the copy it acts on may be outdated, for any lag of the informers and   *)
(* any number of SNRs, faults and disturbances.  And the taints it leaves  *)
(* on a node: as long as the caches do not lag there is an SNR that will   *)
(* have them removed.                                                      *)
(***************************************************************************)
EXTENDS RemediationProofs

\* A version of an SNR on behalf of which a reconcile cleans up.
Cleaning(v) == v # NoSNR /\ v.phase = "Reboot-Completed" /\ ~v.timedOut

\* The SNR s is a later version of v that is not yet released.
Backed(v, s) ==
    /\ s # NoSNR /\ s.uid = v.uid /\ s.timeAssumedRebooted = v.timeAssumedRebooted
    /\ s.phase \in {"Reboot-Completed", "Fencing-Completed"}

\* The versions that may be cached or under way while the server has s.
Steady(s) == {v \in MaybeSNR : Cleaning(v) => Backed(v, s)}

\* An SNR that counts as rebooted is past its deadline.
PastDeadline ==
    snr # NoSNR /\ snr.phase \in {"Reboot-Completed", "Fencing-Completed"}
    => snr.timeAssumedRebooted <= clock

VersionInv == snrCache \in Steady(snr) /\ snrWatch \in Seq(Steady(snr))

CopyInv ==
    /\ Cleans(mgr) => Backed(mgr.snr, snr)
    /\ Releases(mgr) /\ mgr.current => snrWatch = <<>>

CInv == VersionInv /\ CopyInv /\ PastDeadline

-----------------------------------------------------------------------------
\* A write keeps the versions steady when it keeps what backs them.
LEMMA SteadyGrows ==
    ASSUME NEW s, NEW t, \A v \in MaybeSNR : Cleaning(v) /\ Backed(v, s) => Backed(v, t)
    PROVE  Steady(s) \subseteq Steady(t) /\ Seq(Steady(s)) \subseteq Seq(Steady(t))
<1>1. Steady(s) \subseteq Steady(t)
  BY DEF Steady
<1> QED BY <1>1, SeqMonotonic

\* A write keeps what the informers know steady.
LEMMA WriteSteady ==
    ASSUME NEW s, s \in Steady(s), snrCache \in Steady(s), snrWatch \in Seq(Steady(s)), WriteSNR(s)
    PROVE  VersionInv'
<1> DEFINE events == Append(snrWatch, s)
<1>1. events \in Seq(Steady(s)) /\ Head(events) \in Steady(s) /\ Tail(events) \in Seq(Steady(s))
  BY QueueStep
<1>2. /\ snr' = s
      /\ \/ snrCache' = snrCache /\ snrWatch' = events
         \/ snrCache' = Head(events) /\ snrWatch' = Tail(events)
  BY DEF WriteSNR
<1> HIDE DEF events
<1> QED BY <1>1, <1>2 DEF VersionInv

\* A step that leaves the SNR and its versions alone.
LEMMA QuietStep ==
    ASSUME IInv, CInv, UNCHANGED <<snr, snrCache, snrWatch>>, clock' \in {clock, clock + 1},
           Cleans(mgr') => Backed(mgr'.snr, snr),
           Releases(mgr') /\ mgr'.current => snrWatch = <<>>
    PROVE  CInv'
<1>1. VersionInv'
  BY DEF CInv, VersionInv
<1>2. CopyInv'
  BY DEF CInv, CopyInv
<1>3. PastDeadline'
  <2>1. clock \in Nat /\ (snr # NoSNR => snr.timeAssumedRebooted \in Int)
    BY DEF IInv, InformerInv, MaybeSNR, SafeSNR, SNR, RestInv, NoTime
  <2> QED BY <2>1 DEF CInv, PastDeadline
<1> QED BY <1>1, <1>2, <1>3 DEF CInv

\* A write that leaves the reconcile without a call of a cleanup or a release, or
\* outdates its copy: what the new SNR must satisfy.
LEMMA WriteStep ==
    ASSUME IInv, CInv, NEW s \in MaybeSNR, WriteSNR(s), UNCHANGED clock,
           Cleans(mgr') => Backed(mgr'.snr, s),
           ~Releases(mgr') \/ ~mgr'.current,
           snrCache \in Steady(s), snrWatch \in Seq(Steady(s)),
           s # NoSNR /\ s.phase \in {"Reboot-Completed", "Fencing-Completed"}
             => s.timeAssumedRebooted <= clock
    PROVE  CInv'
<1>1. snr' = s
  BY DEF WriteSNR
<1>2. s \in Steady(s)
  BY DEF Steady, Backed, Cleaning
<1>3. VersionInv'
  BY <1>2, WriteSteady DEF CInv
<1>4. CopyInv' /\ PastDeadline'
  BY <1>1 DEF CopyInv, PastDeadline
<1> QED BY <1>3, <1>4 DEF CInv

\* A write that keeps the SNR's identity, phase and deadline, or one of an SNR that
\* backs nothing.
LEMMA AgreeingWrite ==
    ASSUME IInv, CInv, NEW s \in MaybeSNR, WriteSNR(s), UNCHANGED clock,
           \/ snr # NoSNR /\ s # NoSNR /\ s.uid = snr.uid /\ SamePhase(snr, s)
           \/ /\ snr = NoSNR \/ snr.phase \notin {"Reboot-Completed", "Fencing-Completed"}
              /\ s = NoSNR \/ s.phase \notin {"Reboot-Completed", "Fencing-Completed"},
           (mgr'.snr = mgr.snr /\ mgr'.pc = mgr.pc) \/ mgr'.pc \in LastCalls \cup {"idle"},
           mgr'.current => mgr'.pc \in LastCalls \cup {"idle"}
    PROVE  CInv'
<1>1. \A v \in MaybeSNR : Backed(v, snr) => Backed(v, s)
  BY DEF Backed, SamePhase
<1>2. snrCache \in Steady(s) /\ snrWatch \in Seq(Steady(s))
  BY <1>1, SteadyGrows DEF CInv, VersionInv
<1>3. ASSUME Cleans(mgr') PROVE Backed(mgr'.snr, s)
  <2>1. mgr'.snr = mgr.snr /\ mgr'.pc = mgr.pc
    BY <1>3 DEF Cleans, LastCalls
  <2>2. Backed(mgr.snr, snr) /\ mgr.snr \in MaybeSNR
    BY <1>3, <2>1 DEF Cleans, CInv, CopyInv, IInv, ManagerInv
  <2> QED BY <1>1, <2>1, <2>2
<1>4. ~Releases(mgr') \/ ~mgr'.current
  BY DEF Releases, LastCalls
<1>5. s # NoSNR /\ s.phase \in {"Reboot-Completed", "Fencing-Completed"}
      => s.timeAssumedRebooted <= clock
  BY DEF CInv, PastDeadline, SamePhase
<1> QED BY <1>2, <1>3, <1>4, <1>5, WriteStep

\* A reconcile cleans up on behalf of what it has read.
LEMMA ReconcileCleanup == ASSUME IInv, CInv, Reconcile PROVE CInv'
<1>1. StartReconcile /\ (mgr' = Idle \/ (snrCache # NoSNR /\ Begins(mgr')))
  BY ReconcileBegins
<1>2. UNCHANGED <<snr, snrCache, snrWatch, clock>>
  BY <1>1 DEF StartReconcile
<1>3. CASE mgr' = Idle
  <2>1. ~Cleans(mgr') /\ ~Releases(mgr')
    BY <1>3 DEF Idle, Cleans, Releases
  <2> QED BY <1>2, <2>1, QuietStep
<1>4. CASE snrCache # NoSNR /\ Begins(mgr')
  <2>1. ASSUME Cleans(mgr') PROVE Backed(mgr'.snr, snr)
    <3>1. SameObject(snrCache, mgr'.snr) /\ SamePhase(snrCache, mgr'.snr)
      BY <1>4, <2>1 DEF Begins, Cleans, LastCalls
    <3>2. Cleaning(snrCache)
      BY <1>4, <2>1, <3>1 DEF Begins, CalledFor, Cleaning, SameObject, SamePhase
    <3>3. Backed(snrCache, snr)
      BY <3>2 DEF CInv, VersionInv, Steady
    <3> QED BY <3>1, <3>3 DEF Backed, SameObject, SamePhase
  <2>2. mgr'.current => snrWatch = <<>>
    BY <1>4 DEF Begins
  <2> QED BY <1>2, <2>1, <2>2, QuietStep
<1> QED BY <1>1, <1>3, <1>4

\* The calls go on with the copy they have.
LEMMA NodeCallsCleanup ==
    ASSUME IInv, PInv, CInv,
           \/ addNoScheduleTaint \/ setTimeAssumedRebooted
           \/ DeletePods \/ addOutOfServiceTaint \/ isResourceDeletionCompleted
           \/ removeOutOfServiceTaint \/ removeNoScheduleTaint
    PROVE  CInv'
<1>1. Proceeds(mgr') /\ UNCHANGED <<snr, snrCache, snrWatch, clock>>
  BY NodeCallsProceed DEF snrVars
<1>2. ASSUME Cleans(mgr') PROVE Backed(mgr'.snr, snr)
  <2>1. Cleans(mgr) /\ SameObject(mgr.snr, mgr'.snr) /\ SamePhase(mgr.snr, mgr'.snr)
    BY <1>1, <1>2 DEF Proceeds, Cleans, LastCalls
  <2> QED BY <2>1 DEF CInv, CopyInv, Backed, SameObject, SamePhase
<1>3. Releases(mgr') /\ mgr'.current => snrWatch = <<>>
  BY <1>1 DEF Proceeds, CInv, CopyInv
<1> QED BY <1>1, <1>2, <1>3, QuietStep

\* An SNR is released only when no version that asks for a cleanup is left.
LEMMA SNRCallsCleanup ==
    ASSUME IInv, PInv, CInv, IInv',
           addFinalizer \/ removeFinalizer \/ updateSnrStatusLastError \/ updateSnrStatus
    PROVE  CInv'
<1>0. /\ mgr \in Manager /\ (mgr.pc # "idle" => mgr.snr \in SNR)
      /\ snr' \in MaybeSNR /\ (snr # NoSNR => snr \in SNR) /\ (mgr.current => snr # NoSNR)
  BY DEF IInv, InformerInv, ManagerInv, MaybeSNR, SafeSNR
<1>q. ASSUME UNCHANGED <<snrVars, clock>>, mgr'.pc \in LastCalls \cup {"idle"} PROVE CInv'
  <2>1. ~Cleans(mgr') /\ ~Releases(mgr')
    BY <1>q DEF Cleans, Releases, LastCalls
  <2> QED BY <1>q, <2>1, QuietStep DEF snrVars
<1>f. ASSUME CallFails, UNCHANGED clock PROVE CInv'
  <2>1. Failed(mgr).pc \in LastCalls
    BY <1>0 DEF Failed, LastCalls, Manager
  <2> QED BY <1>f, <1>q, <2>1 DEF CallFails
<1>w. ASSUME NEW s, snr # NoSNR, s # NoSNR, WriteSNR(s), s.uid = snr.uid, SamePhase(snr, s),
             mgr'.pc \in LastCalls \cup {"idle"}, UNCHANGED clock
      PROVE  CInv'
  BY <1>0, <1>w, AgreeingWrite DEF WriteSNR
<1>1. CASE addFinalizer
  <2>1. UNCHANGED clock
    BY <1>1 DEF addFinalizer, Calling
  <2>2. CASE CallFails
    BY <1>f, <2>1, <2>2
  <2>3. CASE /\ mgr' = [mgr EXCEPT !.requeue = TRUE, !.pc = "updateSnrStatusLastError",
                                   !.err = IF snr = NoSNR THEN "ApiCall" ELSE ""]
             /\ UNCHANGED snrVars
    <3>1. mgr'.pc = "updateSnrStatusLastError"
      BY <1>0, <2>3 DEF Manager
    <3> QED BY <1>q, <2>1, <2>3, <3>1 DEF LastCalls
  <2>4. CASE /\ mgr.current
             /\ WriteSNR([snr EXCEPT !.finalizer = TRUE])
             /\ mgr' = [mgr EXCEPT !.snr = [snr EXCEPT !.finalizer = TRUE], !.requeue = TRUE,
                                   !.pc = "updateSnrStatusLastError"]
    <3> DEFINE s == [snr EXCEPT !.finalizer = TRUE]
    <3>1. snr # NoSNR /\ s \in SNR /\ s.uid = snr.uid /\ SamePhase(snr, s)
      BY <1>0, <2>4 DEF SNR, SamePhase
    <3>2. mgr'.pc = "updateSnrStatusLastError"
      BY <1>0, <2>4 DEF Manager
    <3> HIDE DEF s
    <3>3. s # NoSNR /\ WriteSNR(s)
      BY <2>4, <3>1, BoundsAssumption DEF s
    <3> QED BY <1>w, <2>1, <3>1, <3>2, <3>3 DEF LastCalls
  <2> QED BY <1>1, <2>2, <2>3, <2>4 DEF addFinalizer, Accepted
<1>2. CASE removeFinalizer
  <2>1. mgr.pc = "removeFinalizer" /\ UNCHANGED clock
    BY <1>2 DEF removeFinalizer, Calling
  <2>2. CASE CallFails
    BY <1>f, <2>1, <2>2
  <2>3. CASE mgr' = Failed(mgr) /\ UNCHANGED snrVars
    <3>1. Failed(mgr).pc \in LastCalls
      BY <1>0 DEF Failed, LastCalls, Manager
    <3> QED BY <1>q, <2>1, <2>3, <3>1
  <2>4. CASE /\ mgr.current /\ WriteSNR(NoSNR)
             /\ \E call \in LastCalls : mgr' = [mgr EXCEPT !.current = FALSE, !.pc = call]
    <3>1. mgr'.pc \in LastCalls /\ mgr'.current = FALSE
      BY <1>0, <2>4 DEF Manager
    <3>2. snrWatch = <<>> /\ snrCache = snr
      BY <2>1, <2>4 DEF CInv, CopyInv, Releases, IInv, InformerInv
    <3>3. SameObject(snr, mgr.snr) /\ SamePhase(snr, mgr.snr)
      BY <2>1, <2>4 DEF PInv, InStep, LastCalls
    <3>4. ~Cleaning(snr)
      BY <2>1, <3>3 DEF PInv, CalledFor, Releases, Cleaning, SameObject, SamePhase
    <3>5. snrCache \in Steady(NoSNR) /\ snrWatch \in Seq(Steady(NoSNR))
      BY <3>2, <3>4, EmptySeq DEF Steady, IInv, InformerInv
    <3>6. ~Cleans(mgr') /\ ~Releases(mgr')
      BY <3>1 DEF Cleans, Releases, LastCalls
    <3> QED BY <2>1, <2>4, <3>5, <3>6, WriteStep DEF MaybeSNR
  <2> QED BY <1>2, <2>2, <2>3, <2>4 DEF removeFinalizer, LastCalls, Accepted
<1>3. CASE updateSnrStatusLastError
  <2> DEFINE m == [mgr EXCEPT !.pc = "updateSnrStatus"]
  <2>1. UNCHANGED clock
    BY <1>3 DEF updateSnrStatusLastError, Calling
  <2>2. m \in Manager /\ m.pc = "updateSnrStatus"
    BY <1>0 DEF Manager, Calls
  <2>3. mgr'.pc = "updateSnrStatus"
    <3>1. \/ mgr' = m \/ \E e : mgr' = [m EXCEPT !.snr.lastError = e, !.err = "ApiCall"]
          \/ \E s : mgr' = [m EXCEPT !.snr = s, !.current = TRUE]
      BY <1>3 DEF updateSnrStatusLastError
    <3> HIDE DEF m
    <3> QED BY <2>2, <3>1 DEF Manager
  <2>4. CASE UNCHANGED snrVars
    BY <1>q, <2>1, <2>3, <2>4 DEF LastCalls
  <2>5. CASE snr # NoSNR /\ WriteSNR([snr EXCEPT !.lastError = mgr.err])
    <3> DEFINE s == [snr EXCEPT !.lastError = mgr.err]
    <3>1. s \in SNR /\ s.uid = snr.uid /\ SamePhase(snr, s)
      BY <1>0, <2>5 DEF SNR, SamePhase, Manager
    <3> HIDE DEF s
    <3>2. s # NoSNR /\ WriteSNR(s)
      BY <2>5, <3>1, BoundsAssumption DEF s
    <3> QED BY <1>w, <2>1, <2>3, <2>5, <3>1, <3>2 DEF LastCalls
  <2> QED BY <1>3, <2>4, <2>5 DEF updateSnrStatusLastError
<1>4. CASE updateSnrStatus
  <2>1. mgr.pc = "updateSnrStatus" /\ mgr'.pc = "idle" /\ UNCHANGED clock
    BY <1>4 DEF updateSnrStatus, Idle
  <2>2. CASE UNCHANGED snrVars
    BY <1>q, <2>1, <2>2
  <2>3. CASE mgr.current /\ WriteSNR(WithStatus(snr, mgr.snr))
    <3> DEFINE s == WithStatus(snr, mgr.snr)
    <3>1. /\ snr # NoSNR /\ s \in SNR /\ s.uid = snr.uid /\ s.phase = mgr.snr.phase
          /\ s.timeAssumedRebooted = mgr.snr.timeAssumedRebooted
      BY <1>0, <2>1, <2>3 DEF SNR, WithStatus
    <3> HIDE DEF s
    <3>2. s # NoSNR /\ WriteSNR(s) /\ s \in MaybeSNR
      BY <1>0, <2>3, <3>1, BoundsAssumption DEF s, WriteSNR
    <3>3. CASE SamePhase(snr, mgr.snr)
      BY <1>w, <2>1, <3>1, <3>2, <3>3 DEF SamePhase
    <3>4. CASE Ahead(snr, mgr.snr, clock)
      <4>1. \A v \in MaybeSNR : Backed(v, snr) => Backed(v, s)
        BY <3>1, <3>2, <3>4 DEF Backed, Ahead
      <4>2. snrCache \in Steady(s) /\ snrWatch \in Seq(Steady(s))
        BY <4>1, SteadyGrows DEF CInv, VersionInv
      <4>3. s.phase \in {"Reboot-Completed", "Fencing-Completed"} => s.timeAssumedRebooted <= clock
        BY <3>1, <3>4 DEF Ahead, CInv, PastDeadline
      <4>4. ~Cleans(mgr') /\ ~Releases(mgr')
        BY <2>1 DEF Cleans, Releases
      <4> QED BY <2>1, <3>2, <4>2, <4>3, <4>4, WriteStep
    <3> QED BY <2>1, <2>3, <3>3, <3>4 DEF PInv, InStep
  <2> QED BY <1>4, <2>2, <2>3 DEF updateSnrStatus, Accepted
<1> QED BY <1>1, <1>2, <1>3, <1>4

\* The informers, the config controller, restarts and the rest of the cluster.
LEMMA OthersCleanup ==
    ASSUME IInv, CInv, IInv',
           Restart \/ setCRsEnabledStatus \/ SyncSNR \/ SyncNode \/ RequeueDue \/ Tick \/ Cluster
    PROVE  CInv'
<1>0. /\ mgr \in Manager /\ snr' \in MaybeSNR /\ (snr # NoSNR => snr \in SNR /\ snr \in SafeSNR)
      /\ snrWatch = <<>> => snrCache = snr
  BY DEF IInv, InformerInv, ManagerInv, MaybeSNR, SafeSNR
<1>b. ASSUME UNCHANGED <<snr, snrCache, snrWatch, mgr>>, clock' \in {clock, clock + 1} PROVE CInv'
  BY <1>b, QuietStep DEF CInv, CopyInv
<1>w. ASSUME NEW s, WriteSNR(s), Outdate, UNCHANGED clock,
             \/ snr # NoSNR /\ s \in SNR /\ s.uid = snr.uid /\ SamePhase(snr, s)
             \/ /\ snr = NoSNR \/ snr.phase = "Fencing-Started"
                /\ s = NoSNR \/ s.phase = "Fencing-Started"
      PROVE  CInv'
  <2>1. mgr'.snr = mgr.snr /\ mgr'.pc = mgr.pc /\ mgr'.current = FALSE
    BY <1>0, <1>w DEF Outdate, Manager
  <2>2. s \in MaybeSNR /\ (s \in SNR => s # NoSNR)
    BY <1>0, <1>w, BoundsAssumption DEF WriteSNR
  <2> QED BY <1>w, <2>1, <2>2, AgreeingWrite
<1>1. CASE Restart
  <2>1. snr' = snr /\ snrCache' = snr /\ snrWatch' = <<>> /\ mgr' = Idle /\ UNCHANGED clock
    BY <1>1 DEF Restart
  <2>2. snr \in Steady(snr) /\ <<>> \in Seq(Steady(snr))
    BY EmptySeq DEF Steady, Backed, Cleaning, IInv, InformerInv
  <2>3. VersionInv'
    BY <2>1, <2>2 DEF VersionInv
  <2>4. CopyInv' /\ PastDeadline'
    BY <2>1 DEF CopyInv, Cleans, Releases, Idle, CInv, PastDeadline
  <2> QED BY <2>3, <2>4 DEF CInv
<1>2. CASE setCRsEnabledStatus
  <2>1. UNCHANGED clock
    BY <1>2 DEF setCRsEnabledStatus
  <2>2. CASE UNCHANGED <<snrVars, mgr>>
    BY <1>b, <2>1, <2>2 DEF snrVars
  <2>3. CASE /\ snrCache # NoSNR /\ snrWatch = <<>>
             /\ WriteSNR([snr EXCEPT !.disabled = FALSE]) /\ Outdate
    <3> DEFINE s == [snr EXCEPT !.disabled = FALSE]
    <3>1. snr # NoSNR /\ s \in SNR /\ s.uid = snr.uid /\ SamePhase(snr, s)
      BY <1>0, <2>3 DEF SNR, SamePhase
    <3> HIDE DEF s
    <3> QED BY <1>w, <2>1, <2>3, <3>1 DEF s
  <2> QED BY <1>2, <2>2, <2>3 DEF setCRsEnabledStatus
<1>3. CASE SyncSNR
  <2>1. /\ snrWatch # <<>> /\ snrCache' = Head(snrWatch) /\ snrWatch' = Tail(snrWatch)
        /\ UNCHANGED <<snr, mgr, clock>>
    BY <1>3 DEF SyncSNR
  <2>2. Head(snrWatch) \in Steady(snr) /\ Tail(snrWatch) \in Seq(Steady(snr))
    BY <2>1, DequeueStep DEF CInv, VersionInv
  <2>3. VersionInv'
    BY <2>1, <2>2 DEF VersionInv
  <2>4. CopyInv' /\ PastDeadline'
    BY <2>1 DEF CInv, CopyInv, PastDeadline, Cleans, Releases
  <2> QED BY <2>3, <2>4 DEF CInv
<1>4. CASE SyncNode \/ RequeueDue \/ Tick
  <2>1. UNCHANGED <<snr, snrCache, snrWatch, mgr>> /\ clock' \in {clock, clock + 1}
    BY <1>4 DEF SyncNode, RequeueDue, Tick, snrVars
  <2> QED BY <1>b, <2>1
<1>5. CASE CreateSNR
  <2>1. PICK strategy \in Strategies : WriteSNR(NewSNR(created + 1, strategy))
    BY <1>5 DEF CreateSNR
  <2>2. NewSNR(created + 1, strategy).phase = "Fencing-Started"
    BY DEF NewSNR
  <2> QED BY <1>5, <1>w, <2>1, <2>2 DEF CreateSNR
<1>6. CASE DeleteSNR
  <2>1. snr \in SNR /\ snr \in SafeSNR /\ snr # NoSNR /\ Outdate /\ UNCHANGED clock
    BY <1>0, <1>6 DEF DeleteSNR
  <2>2. CASE WriteSNR([snr EXCEPT !.deleting = TRUE])
    <3> DEFINE s == [snr EXCEPT !.deleting = TRUE]
    <3>1. s \in SNR /\ s.uid = snr.uid /\ SamePhase(snr, s)
      BY <2>1 DEF SNR, SamePhase
    <3> HIDE DEF s
    <3> QED BY <1>w, <2>1, <2>2, <3>1 DEF s
  <2>3. CASE ~snr.finalizer /\ WriteSNR(NoSNR)
    BY <1>w, <2>1, <2>3 DEF SafeSNR
  <2> QED BY <1>6, <2>2, <2>3 DEF DeleteSNR
<1>7. CASE TimeOutSNR
  <2> DEFINE s == [snr EXCEPT !.timedOut = TRUE]
  <2>1. snr \in SNR /\ snr # NoSNR /\ Outdate /\ UNCHANGED clock /\ WriteSNR(s)
    BY <1>0, <1>7 DEF TimeOutSNR
  <2>2. s \in SNR /\ s.uid = snr.uid /\ SamePhase(snr, s)
    BY <2>1 DEF SNR, SamePhase
  <2> HIDE DEF s
  <2> QED BY <1>w, <2>1, <2>2
<1>8. CASE \/ ConfigChanges \/ NodeChanges
           \/ EvictPods \/ ForceDeletePods \/ DetachVolumes \/ SchedulePods
  <2>1. UNCHANGED <<snr, snrCache, snrWatch, mgr, clock>>
    BY <1>8 DEF ConfigChanges, NodeChanges, Disrupt, EvictPods, ForceDeletePods, DetachVolumes,
                SchedulePods, WorkloadStep, snrVars
  <2> QED BY <1>b, <2>1
<1> QED BY <1>1, <1>2, <1>3, <1>4, <1>5, <1>6, <1>7, <1>8 DEF Cluster

-----------------------------------------------------------------------------
LEMMA InitCleanup == Init => CInv
<1> SUFFICES ASSUME Init PROVE CInv
  OBVIOUS
<1>1. snr = NoSNR /\ snrCache = NoSNR /\ snrWatch = <<>> /\ mgr.pc = "idle"
  BY DEF Init, Idle
<1>2. VersionInv
  BY <1>1, EmptySeq DEF VersionInv, Steady, MaybeSNR, Cleaning
<1>3. CopyInv /\ PastDeadline
  BY <1>1 DEF CopyInv, Cleans, Releases, PastDeadline
<1> QED BY <1>2, <1>3 DEF CInv

LEMMA NextCleanup == IInv /\ IInv' /\ PInv /\ CInv /\ [Next]_vars => CInv'
<1> SUFFICES ASSUME IInv, IInv', PInv, CInv, [Next]_vars PROVE CInv'
  OBVIOUS
<1>1. CASE Next
  BY <1>1, ReconcileCleanup, NodeCallsCleanup, SNRCallsCleanup, OthersCleanup DEF Next, Call
<1>2. CASE UNCHANGED vars
  BY <1>2, QuietStep DEF vars, snrVars, CInv, CopyInv
<1> QED BY <1>1, <1>2

-----------------------------------------------------------------------------
\* The workload is touched ...
CleansUp ==
    \/ pods = "running" /\ pods' = "deleted"
    \/ "OutOfService" \in node'.taints \ (node.taints \cup mgr.node.taints)

\* ... on behalf of an SNR that asks for it.
Entitled ==
    /\ snr # NoSNR /\ snr.uid = mgr.snr.uid
    /\ snr.timeAssumedRebooted # NoTime /\ snr.timeAssumedRebooted <= clock

\* A copy that is cleaned up for stands for an SNR whose deadline has passed.
LEMMA CleaningIsEntitled ==
    ASSUME IInv, CInv, Cleans(mgr)
    PROVE  Entitled
<1>1. Backed(mgr.snr, snr)
  BY DEF CInv, CopyInv
<1>2. snr.timeAssumedRebooted <= clock
  BY <1>1 DEF Backed, CInv, PastDeadline
<1>3. snr.timeAssumedRebooted # NoTime
  BY <1>1 DEF Backed, IInv, InformerInv, MaybeSNR, SafeSNR
<1> QED BY <1>1, <1>2, <1>3 DEF Backed, Entitled

\* A patch of the taints brings nothing the manager's copy of the node lacks, but
\* what it adds.
LEMMA PatchedTaints ==
    ASSUME IInv, NEW taint, NEW m,
           AddTaint(taint, m) \/ RemoveTaint(taint, m)
    PROVE  /\ UNCHANGED pods
           /\ AddTaint(taint, m) => node'.taints \subseteq node.taints \cup mgr.node.taints \cup {taint}
           /\ RemoveTaint(taint, m) => node'.taints \subseteq node.taints \cup mgr.node.taints
<1>1. ASSUME NEW taints, PatchTaints(taints, m)
      PROVE  UNCHANGED pods /\ node'.taints \subseteq node.taints \cup taints
  <2>1. UNCHANGED pods /\ (node' = [node EXCEPT !.taints = taints] \/ node' = node)
    BY <1>1 DEF PatchTaints, WriteNode, workload, nodeVars
  <2> QED BY <2>1 DEF IInv, NodeInv, Node
<1>2. ASSUME UNCHANGED <<nodeVars, workload>>
      PROVE  UNCHANGED pods /\ node'.taints \subseteq node.taints
  BY <1>2 DEF nodeVars, workload
<1>3. ASSUME AddTaint(taint, m)
      PROVE  UNCHANGED pods /\ node'.taints \subseteq node.taints \cup mgr.node.taints \cup {taint}
  BY <1>1, <1>2, <1>3 DEF AddTaint, CallFails
<1>4. ASSUME RemoveTaint(taint, m)
      PROVE  UNCHANGED pods /\ node'.taints \subseteq node.taints \cup mgr.node.taints
  BY <1>1, <1>2, <1>4 DEF RemoveTaint, CallFails
<1> QED BY <1>3, <1>4

\* The property, for every step.
LEMMA EveryCleanup == IInv /\ CInv /\ [Next]_vars => (CleansUp => Entitled)
<1> SUFFICES ASSUME IInv, CInv, [Next]_vars, CleansUp PROVE Entitled
  OBVIOUS
<1>1. ASSUME UNCHANGED <<pods, node>> PROVE FALSE
  BY <1>1 DEF CleansUp
<1>2. CASE \/ Reconcile \/ Restart \/ setCRsEnabledStatus \/ SyncSNR \/ SyncNode \/ RequeueDue
           \/ Tick \/ UNCHANGED vars
  <2>1. UNCHANGED <<pods, node>>
    BY <1>2 DEF Reconcile, SNRNotFound, ConfigurationNotFound, StoppedByNHC, NodeNotFound,
                NodeExcluded, prepareReboot, waitForNodeRebooted, handleRebootCompletedPhase,
                handleFencingCompletedPhase, InPhase, Remediating, StartReconcile, Restart,
                setCRsEnabledStatus, SyncSNR, SyncNode, RequeueDue, Tick, vars, workload, nodeVars
  <2> QED BY <1>1, <2>1
<1>3. CASE \/ addFinalizer \/ setTimeAssumedRebooted \/ isResourceDeletionCompleted
           \/ removeFinalizer \/ updateSnrStatusLastError \/ updateSnrStatus
  <2>1. UNCHANGED <<pods, node>>
    BY <1>3 DEF addFinalizer, setTimeAssumedRebooted, isResourceDeletionCompleted, removeFinalizer,
                updateSnrStatusLastError, updateSnrStatus, CallFails, workload, nodeVars
  <2> QED BY <1>1, <2>1
<1>4. CASE addNoScheduleTaint
  BY <1>4, PatchedTaints DEF addNoScheduleTaint, CleansUp
<1>5. CASE removeOutOfServiceTaint \/ removeNoScheduleTaint
  <2>1. UNCHANGED pods /\ node'.taints \subseteq node.taints \cup mgr.node.taints
    BY <1>5, PatchedTaints DEF removeOutOfServiceTaint, removeNoScheduleTaint
  <2> QED BY <2>1 DEF CleansUp
<1>6. CASE DeletePods \/ addOutOfServiceTaint
  BY <1>6, CleaningIsEntitled DEF DeletePods, addOutOfServiceTaint, Calling, Cleans
<1>7. CASE CreateSNR \/ DeleteSNR \/ TimeOutSNR \/ ConfigChanges
  <2>1. UNCHANGED <<pods, node>>
    BY <1>7 DEF CreateSNR, DeleteSNR, TimeOutSNR, ConfigChanges, Disrupt, workload, nodeVars
  <2> QED BY <1>1, <2>1
<1>8. CASE NodeChanges
  <2>1. UNCHANGED pods
    BY <1>8 DEF NodeChanges, Disrupt, workload
  <2>2. node'.taints \in {{}, node.taints}
    BY <1>8 DEF NodeChanges, WriteNode, AbsentNode, FreshNode, IInv, NodeInv, Node
  <2> QED BY <2>1, <2>2 DEF CleansUp
<1>9. CASE EvictPods \/ ForceDeletePods \/ DetachVolumes \/ SchedulePods
  BY <1>9 DEF EvictPods, ForceDeletePods, DetachVolumes, SchedulePods, WorkloadStep, nodeVars, CleansUp
<1> QED BY <1>2, <1>3, <1>4, <1>5, <1>6, <1>7, <1>8, <1>9 DEF Next, Call, Cluster

\* The manager deletes pods, or sets the out-of-service taint, only on behalf of an SNR
\* that still exists and whose deadline has passed: neither a lagging cache nor a late
\* or repeated reconcile evicts the workload of a node that does not count as rebooted.
THEOREM CleanupIsEntitled == Spec => CleanupAfterDeadline
<1>1. Spec => [](IInv /\ PInv /\ CInv)
  BY InitInv, NextInv, InitPromise, NextPromise, InitCleanup, NextCleanup, PTL DEF Spec
<1>2. CleanupAfterDeadline <=> [][CleansUp => Entitled]_vars
  BY DEF CleanupAfterDeadline, CleansUp, Entitled
<1> QED BY <1>1, <1>2, EveryCleanup, PTL DEF Spec

-----------------------------------------------------------------------------
(* The taints. The three conditions of NeverStale are needed: a reconcile that sees
   an old node, or an old SNR, removes the finalizer or sets a taint too late, and one
   that takes the cluster for another version does not remove the taint that an earlier
   one has set (run RemediationVersion). *)

\* The caches never lag, and no restart changes what the manager knows of the version.
NeverStale == SnrLag = 0 /\ NodeLag = 0 /\ "version" \notin Disruptions

\* SNR s asks for the out-of-service taint, in a manager with this flag.
Evicts(s, ga) == s.strategy = "OutOfServiceTaint" \/ (s.strategy = "Automatic" /\ ga)

\* SNR s answers for these taints.
Owned(taints, s, ga) ==
    /\ taints # {} => s # NoSNR /\ s.finalizer
    /\ "OutOfService" \in taints => s.phase = "Reboot-Completed" /\ Evicts(s, ga)

\* The SNR of which v is a copy with the finalizer is still there, and as far.
Kept(v, s) == s # NoSNR /\ s.finalizer /\ s.strategy = v.strategy /\ s.phase = v.phase

\* The taints that reconcile m may find, or leave, while the server has s.
Fits(m, taints, s, ga) ==
    /\ Owned(taints, s, ga)
    /\ m.snr.phase = "Fencing-Completed" => "OutOfService" \notin taints
    /\ m.pc \notin LastCalls /\ m.snr.finalizer => Kept(m.snr, s)
    /\ m.pc = "DeletePods" => ~Evicts(m.snr, ga)
    /\ m.pc = "addOutOfServiceTaint" => Evicts(m.snr, ga)
    /\ m.pc = "removeNoScheduleTaint" => "OutOfService" \notin taints
    /\ m.pc = "removeFinalizer" => taints = {}

\* The reconcile's copy of the node has the taints of the node.
Carries(m, n, s, ga) == n.taints \subseteq m.node.taints /\ Fits(m, m.node.taints, s, ga)

TInv ==
    /\ snrWatch = <<>> /\ nodeWatch = <<>> /\ nodeCache = node
    /\ Owned(node.taints, snr, taintGA) /\ (~node.exists => node.taints = {})
    /\ mgr.pc # "idle" => Carries(mgr, node, snr, taintGA)

-----------------------------------------------------------------------------
\* An SNR's pods are either deleted or evicted by the taint.
LEMMA EvictsIsStrategy ==
    ASSUME NEW s \in SNR, taintGA \in BOOLEAN
    PROVE  getRuntimeStrategy(s) = "ResourceDeletion" <=> ~Evicts(s, taintGA)
<1>1. s.strategy \in {"Automatic", "ResourceDeletion", "OutOfServiceTaint"}
  BY DEF SNR
<1>2. CASE s.strategy # "Automatic"
  BY <1>1, <1>2 DEF getRuntimeStrategy, Evicts
<1>3. CASE s.strategy = "Automatic" /\ taintGA
  BY <1>3 DEF getRuntimeStrategy, Evicts
<1>4. CASE s.strategy = "Automatic" /\ ~taintGA
  BY <1>4 DEF getRuntimeStrategy, Evicts
<1> QED BY <1>2, <1>3, <1>4

\* Informers that never lag: a write is in the cache at once.
LEMMA WriteSeen ==
    ASSUME NeverStale, TInv
    PROVE  /\ \A s : WriteSNR(s) => snr' = s /\ snrWatch' = <<>>
           /\ \A n : WriteNode(n) => node' = n /\ nodeCache' = n /\ nodeWatch' = <<>>
<1>1. snrWatch = <<>> /\ nodeWatch = <<>> /\ ~(Len(snrWatch) < SnrLag) /\ ~(Len(nodeWatch) < NodeLag)
  BY DEF NeverStale, TInv
<1>2. \A e : Append(<<>>, e) = <<e>> /\ Head(<<e>>) = e /\ Tail(<<e>>) = <<>>
  OBVIOUS
<1>3. ASSUME NEW s, WriteSNR(s) PROVE snr' = s /\ snrWatch' = <<>>
  BY <1>1, <1>2, <1>3 DEF WriteSNR
<1>4. ASSUME NEW n, WriteNode(n) PROVE node' = n /\ nodeCache' = n /\ nodeWatch' = <<>>
  BY <1>1, <1>2, <1>4 DEF WriteNode
<1> QED BY <1>3, <1>4

\* A version t of the SNR s that answers for all that s answers for.
Succeeds(s, t) ==
    s # NoSNR => /\ t # NoSNR /\ t.strategy = s.strategy /\ t.phase = s.phase
                 /\ s.finalizer => t.finalizer

\* A later version of an SNR owns the taints that the earlier one owned.
LEMMA SucceedsOwns ==
    ASSUME NEW s, NEW t, Succeeds(s, t)
    PROVE  /\ \A taints, ga : Owned(taints, s, ga) => Owned(taints, t, ga)
           /\ \A m, taints, ga : Fits(m, taints, s, ga) => Fits(m, taints, t, ga)
           /\ \A m, n, ga : Carries(m, n, s, ga) => Carries(m, n, t, ga)
<1>1. \A taints, ga : Owned(taints, s, ga) => Owned(taints, t, ga)
  BY DEF Succeeds, Owned, Evicts
<1>2. \A v : Kept(v, s) => Kept(v, t)
  BY DEF Succeeds, Kept
<1>3. \A m, taints, ga : Fits(m, taints, s, ga) => Fits(m, taints, t, ga)
  BY <1>1, <1>2 DEF Fits
<1> QED BY <1>1, <1>3 DEF Carries

\* What reconcile m carries, m1 does too if it differs only in what does not matter.
LEMMA LikeCarries ==
    ASSUME NEW m, NEW m1, NEW n, NEW s, NEW ga, Carries(m, n, s, ga),
           m1.node = m.node, m1.snr = m.snr, m1.pc = m.pc \/ m1.pc \in LastCalls
    PROVE  Carries(m1, n, s, ga)
<1>1. CASE m1.pc = m.pc
  BY <1>1 DEF Carries, Fits
<1>2. CASE m1.pc \in LastCalls
  BY <1>2 DEF Carries, Fits, LastCalls
<1> QED BY <1>1, <1>2

\* A step that writes the SNR, or leaves it alone, and leaves the node alone.
LEMMA SNRStep ==
    ASSUME TInv, UNCHANGED <<nodeVars, taintGA>>, snrWatch' = <<>>, Succeeds(snr, snr'),
           mgr'.pc # "idle" => /\ mgr.pc # "idle" /\ mgr'.node = mgr.node /\ mgr'.snr = mgr.snr
                               /\ mgr'.pc = mgr.pc \/ mgr'.pc \in LastCalls
    PROVE  TInv'
<1>1. Owned(node.taints, snr', taintGA)
  BY SucceedsOwns DEF TInv
<1>2. ASSUME mgr'.pc # "idle" PROVE Carries(mgr', node, snr', taintGA)
  <2>1. Carries(mgr, node, snr', taintGA)
    BY <1>2, SucceedsOwns DEF TInv
  <2> QED BY <1>2, <2>1, LikeCarries
<1> QED BY <1>1, <1>2 DEF TInv, nodeVars
-----------------------------------------------------------------------------
\* Every handler starts with the node in the cache and the SNR in the cache.
Takes(m) ==
    /\ m.node = nodeCache
    /\ m.snr.finalizer = snrCache.finalizer /\ m.snr.strategy = snrCache.strategy
    /\ m.pc \in LastCalls \/ m.snr.phase = snrCache.phase
    /\ m.snr.phase = "Fencing-Completed" => snrCache.phase = "Fencing-Completed"
    /\ m.pc = "DeletePods" => ~Evicts(m.snr, taintGA)
    /\ m.pc = "addOutOfServiceTaint" => Evicts(m.snr, taintGA)
    /\ m.pc = "removeNoScheduleTaint" => snrCache.phase = "Fencing-Completed"
    /\ m.pc = "removeFinalizer" => ~nodeCache.exists

\* A copy taken from caches that do not lag carries what the cluster has.
LEMMA TakesCarries ==
    ASSUME IInv, TInv, StartReconcile, snrCache # NoSNR, Takes(mgr')
    PROVE  TInv'
<1>1. snrCache = snr /\ UNCHANGED <<snr, snrWatch, nodeVars, taintGA>>
  BY DEF IInv, InformerInv, TInv, StartReconcile, configVars
<1>2. Owned(node.taints, snr, taintGA) /\ nodeCache = node
  BY DEF TInv
<1>3. snr.phase = "Fencing-Completed" => "OutOfService" \notin node.taints
  BY <1>2 DEF Owned
<1>4. mgr'.snr.finalizer /\ mgr'.pc \notin LastCalls => Kept(mgr'.snr, snr)
  BY <1>1 DEF Takes, Kept
<1>5. mgr'.pc = "removeFinalizer" => node.taints = {}
  BY <1>2 DEF Takes, TInv
<1>6. Fits(mgr', node.taints, snr, taintGA)
  BY <1>1, <1>2, <1>3, <1>4, <1>5 DEF Takes, Fits
<1>7. Carries(mgr', node, snr, taintGA)
  BY <1>2, <1>6 DEF Takes, Carries
<1> QED BY <1>1, <1>7 DEF TInv, nodeVars

\* The copies before a handler changes them.
LEMMA CopiesTaken ==
    ASSUME IInv, snrCache # NoSNR
    PROVE  /\ snrCache \in SNR
           /\ Read \in Manager /\ Read.snr = snrCache /\ Read.node = nodeCache
           /\ Started \in Manager /\ Started.node = nodeCache /\ Started.snr \in SNR
           /\ Started.snr.finalizer = snrCache.finalizer
           /\ Started.snr.strategy = snrCache.strategy /\ Started.snr.phase = snrCache.phase
<1>1. /\ snrCache \in SNR /\ Read \in Manager /\ Read.snr = snrCache /\ Read.node = nodeCache
  BY ReadSafe DEF Read
<1>2. Started \in Manager /\ Started.snr \in SNR
  BY StartedSafe DEF SafeSNR
<1>3. \/ Started = Read
      \/ Started = [Read EXCEPT !.snr = [snrCache EXCEPT !.conds = "Started"]]
  BY <1>1 DEF Started, Manager
<1>4. /\ Started.node = nodeCache
      /\ Started.snr = snrCache \/ Started.snr = [snrCache EXCEPT !.conds = "Started"]
  BY <1>1, <1>3 DEF Manager
<1>5. /\ Started.snr.finalizer = snrCache.finalizer
      /\ Started.snr.strategy = snrCache.strategy /\ Started.snr.phase = snrCache.phase
  BY <1>1, <1>4 DEF SNR
<1> QED BY <1>1, <1>2, <1>4, <1>5

\* A reconcile takes such a copy.
LEMMA ReconcileTakes ==
    ASSUME IInv, Reconcile
    PROVE  StartReconcile /\ (mgr' = Idle \/ (snrCache # NoSNR /\ Takes(mgr')))
<1>0. ASSUME snrCache # NoSNR
      PROVE  /\ snrCache \in SNR
             /\ Read \in Manager /\ Read.snr = snrCache /\ Read.node = nodeCache
             /\ Started \in Manager /\ Started.node = nodeCache /\ Started.snr \in SNR
             /\ Started.snr.finalizer = snrCache.finalizer
             /\ Started.snr.strategy = snrCache.strategy /\ Started.snr.phase = snrCache.phase
  BY <1>0, CopiesTaken
<1>s. ASSUME NEW call \in Calls, NEW e, NEW r, Remediating,
             mgr' = [Started EXCEPT !.err = e, !.requeue = r, !.pc = call],
             call = "DeletePods" => ~Evicts(snrCache, taintGA),
             call = "addOutOfServiceTaint" => Evicts(snrCache, taintGA),
             call = "removeNoScheduleTaint" => snrCache.phase = "Fencing-Completed",
             call # "removeFinalizer"
      PROVE  StartReconcile /\ snrCache # NoSNR /\ Takes(mgr')
  <2>1. StartReconcile /\ snrCache # NoSNR
    BY <1>s DEF Remediating
  <2>2. mgr'.snr = Started.snr /\ mgr'.node = nodeCache /\ mgr'.pc = call
    BY <1>0, <1>s, <2>1 DEF Manager
  <2> QED BY <1>0, <1>s, <2>1, <2>2 DEF Takes, Evicts
<1>1. CASE SNRNotFound
  BY <1>1 DEF SNRNotFound
<1>2. CASE ConfigurationNotFound
  <2>1. /\ StartReconcile /\ snrCache # NoSNR
        /\ mgr' = [Read EXCEPT !.snr.disabled = TRUE, !.pc = "updateSnrStatus"]
    BY <1>2 DEF ConfigurationNotFound
  <2>2. /\ mgr'.snr = [snrCache EXCEPT !.disabled = TRUE] /\ mgr'.node = nodeCache
        /\ mgr'.pc = "updateSnrStatus"
    BY <1>0, <2>1 DEF Manager
  <2>3. /\ mgr'.snr.finalizer = snrCache.finalizer /\ mgr'.snr.strategy = snrCache.strategy
        /\ mgr'.snr.phase = snrCache.phase
    BY <1>0, <2>1, <2>2 DEF SNR
  <2> QED BY <2>1, <2>2, <2>3 DEF Takes
<1>3. CASE StoppedByNHC
  <2>1. /\ StartReconcile /\ snrCache # NoSNR
        /\ \/ mgr' = [Read EXCEPT !.snr.conds = "Stopped", !.pc = "updateSnrStatus"]
           \/ mgr' = [Read EXCEPT !.pc = "removeOutOfServiceTaint"]
           \/ mgr' = [Read EXCEPT !.pc = "removeFinalizer"] /\ ~nodeCache.exists
    BY <1>3 DEF StoppedByNHC
  <2>2. CASE mgr' = [Read EXCEPT !.snr.conds = "Stopped", !.pc = "updateSnrStatus"]
    <3>1. /\ mgr'.snr = [snrCache EXCEPT !.conds = "Stopped"] /\ mgr'.node = nodeCache
          /\ mgr'.pc = "updateSnrStatus"
      BY <1>0, <2>1, <2>2 DEF Manager
    <3>2. /\ mgr'.snr.finalizer = snrCache.finalizer /\ mgr'.snr.strategy = snrCache.strategy
          /\ mgr'.snr.phase = snrCache.phase
      BY <1>0, <2>1, <3>1 DEF SNR
    <3> QED BY <2>1, <3>1, <3>2 DEF Takes
  <2>3. CASE \/ mgr' = [Read EXCEPT !.pc = "removeOutOfServiceTaint"]
             \/ mgr' = [Read EXCEPT !.pc = "removeFinalizer"] /\ ~nodeCache.exists
    <3>1. /\ mgr'.snr = snrCache /\ mgr'.node = nodeCache
          /\ \/ mgr'.pc = "removeOutOfServiceTaint"
             \/ mgr'.pc = "removeFinalizer" /\ ~nodeCache.exists
      BY <1>0, <2>1, <2>3 DEF Manager
    <3> QED BY <2>1, <3>1 DEF Takes
  <2> QED BY <2>1, <2>2, <2>3
<1>4. CASE NodeNotFound
  <2>1. /\ StartReconcile /\ snrCache # NoSNR
        /\ mgr' = [Started EXCEPT !.snr.conds = "Stopped", !.err = "NodeNotFound",
                                  !.pc = "updateSnrStatusLastError"]
    BY <1>4 DEF NodeNotFound, Remediating
  <2>2. /\ mgr'.snr = [Started.snr EXCEPT !.conds = "Stopped"] /\ mgr'.node = nodeCache
        /\ mgr'.pc = "updateSnrStatusLastError"
    BY <1>0, <2>1 DEF Manager
  <2>3. /\ mgr'.snr.finalizer = snrCache.finalizer /\ mgr'.snr.strategy = snrCache.strategy
        /\ mgr'.snr.phase = snrCache.phase
    BY <1>0, <2>1, <2>2 DEF SNR
  <2> QED BY <2>1, <2>2, <2>3 DEF Takes
<1>5. ASSUME NEW call \in Calls, Remediating, mgr' = [Started EXCEPT !.pc = call],
             call = "DeletePods" => ~Evicts(snrCache, taintGA),
             call = "addOutOfServiceTaint" => Evicts(snrCache, taintGA),
             call = "removeNoScheduleTaint" => snrCache.phase = "Fencing-Completed",
             call # "removeFinalizer"
      PROVE  StartReconcile /\ snrCache # NoSNR /\ Takes(mgr')
  <2>1. mgr' = [Started EXCEPT !.err = Started.err, !.requeue = Started.requeue, !.pc = call]
    BY <1>0, <1>5 DEF Remediating, Manager
  <2> HIDE DEF Started
  <2> QED BY <1>5, <1>s, <2>1
<1>6. CASE NodeExcluded
  BY <1>5, <1>6 DEF NodeExcluded, Calls
<1>7. CASE prepareReboot
  <2>1. Remediating /\ snrCache # NoSNR
    BY <1>7 DEF prepareReboot, InPhase, Remediating
  <2>2. snrCache.finalizer \in BOOLEAN /\ snrCache.deleting \in BOOLEAN
        /\ nodeCache.capable \in BOOLEAN
    BY <1>0, <2>1 DEF SNR, IInv, NodeInv, Node
  <2>3. \/ mgr' = [Started EXCEPT !.err = "NotRebootCapable", !.pc = "updateSnrStatusLastError"]
        \/ \E call \in {"addNoScheduleTaint", "addFinalizer", "updateSnrStatusLastError"} :
              mgr' = [Started EXCEPT !.pc = call]
    BY <1>7, <2>2 DEF prepareReboot
  <2>4. CASE mgr' = [Started EXCEPT !.err = "NotRebootCapable", !.pc = "updateSnrStatusLastError"]
    <3>1. mgr' = [Started EXCEPT !.err = "NotRebootCapable", !.requeue = Started.requeue,
                                 !.pc = "updateSnrStatusLastError"]
      BY <1>0, <2>1, <2>4 DEF Manager
    <3> QED BY <1>s, <2>1, <3>1 DEF Calls
  <2>5. CASE \E call \in {"addNoScheduleTaint", "addFinalizer", "updateSnrStatusLastError"} :
                mgr' = [Started EXCEPT !.pc = call]
    BY <1>5, <2>1, <2>5 DEF Calls
  <2> QED BY <2>3, <2>4, <2>5
<1>8. CASE waitForNodeRebooted
  <2>1. Remediating /\ StartReconcile /\ snrCache # NoSNR
    BY <1>8 DEF waitForNodeRebooted, InPhase, Remediating
  <2>2. CASE mgr' = [Started EXCEPT !.snr.phase = "Reboot-Completed",
                                    !.pc = "updateSnrStatusLastError"]
    <3>1. /\ mgr'.snr = [Started.snr EXCEPT !.phase = "Reboot-Completed"]
          /\ mgr'.node = nodeCache /\ mgr'.pc = "updateSnrStatusLastError"
      BY <1>0, <2>1, <2>2 DEF Manager
    <3>2. /\ mgr'.snr.finalizer = snrCache.finalizer /\ mgr'.snr.strategy = snrCache.strategy
          /\ mgr'.snr.phase = "Reboot-Completed"
      BY <1>0, <2>1, <3>1 DEF SNR
    <3> QED BY <2>1, <3>1, <3>2 DEF Takes, LastCalls
  <2>3. CASE mgr' = [Started EXCEPT !.requeue = TRUE, !.pc = "updateSnrStatusLastError"]
    <3>1. mgr' = [Started EXCEPT !.err = Started.err, !.requeue = TRUE,
                                 !.pc = "updateSnrStatusLastError"]
      BY <1>0, <2>1, <2>3 DEF Manager
    <3> QED BY <1>s, <2>1, <3>1 DEF Calls
  <2> QED BY <1>8, <2>2, <2>3 DEF waitForNodeRebooted
<1>9. CASE handleRebootCompletedPhase
  <2>1. Remediating /\ snrCache # NoSNR
    BY <1>9 DEF handleRebootCompletedPhase, InPhase, Remediating
  <2>2. getRuntimeStrategy(snrCache) = "ResourceDeletion" <=> ~Evicts(snrCache, taintGA)
    BY <1>0, <2>1, EvictsIsStrategy DEF IInv, RestInv
  <2>3. \/ mgr' = [Started EXCEPT !.pc = "DeletePods"] /\ ~Evicts(snrCache, taintGA)
        \/ mgr' = [Started EXCEPT !.pc = "addOutOfServiceTaint"] /\ Evicts(snrCache, taintGA)
    BY <1>9, <2>2 DEF handleRebootCompletedPhase
  <2> QED BY <1>5, <2>1, <2>3 DEF Calls
<1>10. CASE handleFencingCompletedPhase
  <2>1. /\ Remediating /\ snrCache.phase = "Fencing-Completed"
        /\ \E call \in {"removeNoScheduleTaint", "updateSnrStatusLastError"} :
              mgr' = [Started EXCEPT !.pc = call]
    BY <1>10 DEF handleFencingCompletedPhase, InPhase
  <2> QED BY <1>5, <2>1 DEF Calls
<1> QED BY <1>1, <1>2, <1>3, <1>4, <1>6, <1>7, <1>8, <1>9, <1>10 DEF Reconcile

LEMMA ReconcileTaints == ASSUME IInv, TInv, Reconcile PROVE TInv'
<1>1. StartReconcile /\ (mgr' = Idle \/ (snrCache # NoSNR /\ Takes(mgr')))
  BY ReconcileTakes
<1>2. CASE mgr' = Idle
  <2>1. UNCHANGED <<snr, snrWatch, nodeVars, taintGA>> /\ mgr'.pc = "idle"
    BY <1>1, <1>2 DEF StartReconcile, configVars, Idle
  <2> QED BY <2>1 DEF TInv, nodeVars
<1> QED BY <1>1, <1>2, TakesCarries

-----------------------------------------------------------------------------
\* A reconcile that has only its status left to store carries what it carried.
LEMMA LastCarries ==
    ASSUME NEW m, NEW m1, NEW n, NEW s, NEW ga, Carries(m, n, s, ga),
           m1.node = m.node, m1.pc \in LastCalls,
           m1.snr.phase = "Fencing-Completed" => "OutOfService" \notin m.node.taints
    PROVE  Carries(m1, n, s, ga)
BY DEF Carries, Fits, LastCalls

\* A call that leaves the SNR and the node alone and continues with m.
LEMMA QuietTaints ==
    ASSUME TInv, UNCHANGED <<snr, snrWatch, nodeVars, taintGA>>, mgr.pc # "idle",
           Carries(mgr', node, snr, taintGA)
    PROVE  TInv'
BY DEF TInv, nodeVars

\* A call that fails leaves the taints with their owner.
LEMMA FailedTaints ==
    ASSUME IInv, TInv, mgr.pc # "idle", mgr' = Failed(mgr),
           UNCHANGED <<snrVars, nodeVars, taintGA>>
    PROVE  TInv'
<1>1. mgr \in Manager
  BY DEF IInv, ManagerInv
<1>2. \E call \in LastCalls : Failed(mgr) = [mgr EXCEPT !.err = "ApiCall", !.pc = call]
  BY DEF Failed, LastCalls
<1>3. mgr'.node = mgr.node /\ mgr'.snr = mgr.snr /\ mgr'.pc \in LastCalls
  BY <1>1, <1>2 DEF Manager
<1>4. Carries(mgr', node, snr, taintGA)
  BY <1>3, LikeCarries DEF TInv
<1> QED BY <1>4, QuietTaints DEF snrVars

\* The calls that add or remove a taint: T is what they mean to leave on the node.
LEMMA TaintCallTaints ==
    ASSUME NeverStale, IInv, TInv, mgr.pc # "idle", UNCHANGED taintGA,
           NEW taint \in Taints, NEW m \in Manager, m.node = mgr.node, NEW T,
           \/ AddTaint(taint, m) /\ T = mgr.node.taints \cup {taint}
           \/ RemoveTaint(taint, m) /\ T = mgr.node.taints \ {taint},
           Fits(m, T, snr, taintGA)
    PROVE  TInv'
<1>0. Carries(mgr, node, snr, taintGA)
  BY DEF TInv
<1>1. CASE CallFails
  BY <1>1, FailedTaints DEF CallFails
<1>2. CASE mgr' = m /\ UNCHANGED <<snrVars, nodeVars>> /\ T = mgr.node.taints
  <2>1. Carries(m, node, snr, taintGA)
    BY <1>0, <1>2 DEF Carries
  <2> QED BY <1>2, <2>1, QuietTaints DEF snrVars
<1>3. CASE PatchTaints(T, m)
  <2>1. CASE ~node.exists /\ mgr' = Failed(mgr) /\ UNCHANGED <<snrVars, nodeVars>>
    BY <2>1, FailedTaints
  <2>2. CASE /\ node.exists
             /\ WriteNode([node EXCEPT !.taints = T])
             /\ mgr' = [m EXCEPT !.node = [node EXCEPT !.taints = T]]
             /\ UNCHANGED snrVars
    <3> DEFINE n == [node EXCEPT !.taints = T]
    <3>1. n.taints = T /\ n.exists
      BY <2>2 DEF IInv, NodeInv, Node
    <3>2. node' = n /\ nodeCache' = n /\ nodeWatch' = <<>>
      BY <2>2, WriteSeen
    <3> HIDE DEF n
    <3>3. mgr'.node = n /\ mgr'.snr = m.snr /\ mgr'.pc = m.pc
      BY <2>2 DEF Manager, n
    <3>4. Carries(mgr', n, snr, taintGA)
      BY <3>1, <3>3 DEF Carries, Fits
    <3>5. Owned(n.taints, snr, taintGA)
      BY <3>1 DEF Fits
    <3> QED BY <2>2, <3>1, <3>2, <3>4, <3>5 DEF TInv, snrVars
  <2> QED BY <1>3, <2>1, <2>2 DEF PatchTaints
<1>4. \/ CallFails
      \/ mgr' = m /\ UNCHANGED <<snrVars, nodeVars>> /\ T = mgr.node.taints
      \/ PatchTaints(T, m)
  <2>1. CASE AddTaint(taint, m) /\ T = mgr.node.taints \cup {taint}
    <3>1. taint \in mgr.node.taints => T = mgr.node.taints
      BY <2>1
    <3> QED BY <2>1, <3>1 DEF AddTaint
  <2>2. CASE RemoveTaint(taint, m) /\ T = mgr.node.taints \ {taint}
    <3>1. taint \notin mgr.node.taints => T = mgr.node.taints
      BY <2>2
    <3> QED BY <2>2, <3>1 DEF RemoveTaint
  <2> QED BY <2>1, <2>2
<1> QED BY <1>1, <1>2, <1>3, <1>4

LEMMA NodeCallsTaints ==
    ASSUME NeverStale, IInv, PInv, TInv,
           \/ addNoScheduleTaint \/ setTimeAssumedRebooted
           \/ DeletePods \/ addOutOfServiceTaint \/ isResourceDeletionCompleted
           \/ removeOutOfServiceTaint \/ removeNoScheduleTaint
    PROVE  TInv'
<1>0. /\ mgr \in Manager /\ mgr.node.taints \in SUBSET Taints
      /\ mgr.pc # "idle" => /\ mgr.snr \in SNR /\ mgr.snr \in SafeSNR
                            /\ Carries(mgr, node, snr, taintGA)
                            /\ Fits(mgr, mgr.node.taints, snr, taintGA)
                            /\ Owned(mgr.node.taints, snr, taintGA)
  BY DEF IInv, ManagerInv, MaybeSNR, SafeSNR, Manager, Node, TInv, Carries, Fits
<1>k. ASSUME mgr.pc \notin LastCalls \cup {"idle"}, mgr.snr.finalizer PROVE Kept(mgr.snr, snr)
  BY <1>0, <1>k DEF Fits
<1>c. ASSUME mgr.pc \in {"DeletePods", "addOutOfServiceTaint"}
      PROVE  mgr.snr.phase = "Reboot-Completed" /\ mgr.snr.finalizer /\ Kept(mgr.snr, snr)
  <2>1. mgr.snr.phase = "Reboot-Completed"
    BY <1>c DEF PInv, CalledFor, Cleans, Releases
  <2>2. mgr.snr.finalizer
    BY <1>0, <1>c, <2>1 DEF SafeSNR
  <2> QED BY <1>k, <1>c, <2>1, <2>2 DEF LastCalls
<1>f. /\ FencingCompleted(mgr).node = mgr.node /\ FencingCompleted(mgr).pc \in LastCalls
      /\ mgr.pc # "idle" => FencingCompleted(mgr) \in Manager
  BY <1>0 DEF FencingCompleted, Manager, LastCalls, SNR, Calls, Phases, Conditions
<1>1. CASE addNoScheduleTaint
  <2> DEFINE m == [mgr EXCEPT !.pc = "setTimeAssumedRebooted"]
             T == mgr.node.taints \cup {"NoSchedule"}
  <2>1. mgr.pc = "addNoScheduleTaint" /\ UNCHANGED taintGA /\ AddTaint("NoSchedule", m)
    BY <1>1 DEF addNoScheduleTaint, Calling, configVars
  <2>2. mgr.snr.finalizer /\ mgr.snr.phase = "Fencing-Started" /\ Kept(mgr.snr, snr)
    BY <1>k, <2>1 DEF IInv, ManagerInv, Prepared, LastCalls
  <2>3. m \in Manager /\ m.node = mgr.node /\ m.snr = mgr.snr /\ m.pc = "setTimeAssumedRebooted"
    BY <1>0 DEF Manager, Calls
  <2>4. Owned(T, snr, taintGA)
    BY <1>0, <2>1, <2>2 DEF Owned, Kept
  <2> HIDE DEF m, T
  <2>5. Fits(m, T, snr, taintGA)
    BY <2>2, <2>3, <2>4 DEF Fits
  <2> QED BY <2>1, <2>3, <2>5, TaintCallTaints DEF Taints, T
<1>2. CASE setTimeAssumedRebooted
  <2>1. mgr.pc = "setTimeAssumedRebooted" /\ UNCHANGED taintGA
    BY <1>2 DEF setTimeAssumedRebooted, Calling, configVars
  <2>2. CASE CallFails
    BY <2>1, <2>2, FailedTaints DEF CallFails
  <2>3. CASE mgr' = PreRebootCompleted(mgr) /\ UNCHANGED <<snrVars, nodeVars>>
    <3>1. /\ mgr'.node = mgr.node /\ mgr'.pc \in LastCalls
          /\ mgr'.snr.phase = "Pre-Reboot-Completed"
      BY <1>0, <2>1, <2>3 DEF PreRebootCompleted, Manager, SNR, LastCalls
    <3>2. Carries(mgr', node, snr, taintGA)
      BY <1>0, <2>1, <3>1, LastCarries
    <3> QED BY <2>1, <2>3, <3>2, QuietTaints DEF snrVars
  <2> QED BY <1>2, <2>2, <2>3 DEF setTimeAssumedRebooted
<1>3. CASE DeletePods
  <2>1. mgr.pc = "DeletePods" /\ UNCHANGED <<snrVars, nodeVars, taintGA>>
    BY <1>3 DEF DeletePods, Calling, configVars
  <2>2. CASE mgr' = Failed(mgr)
    BY <2>1, <2>2, FailedTaints
  <2>3. CASE mgr' = FencingCompleted(mgr)
    <3>1. ~Evicts(snr, taintGA)
      BY <1>0, <1>c, <2>1 DEF Fits, Kept, Evicts
    <3>2. "OutOfService" \notin mgr.node.taints
      BY <1>0, <2>1, <3>1 DEF Owned
    <3>3. Carries(mgr', node, snr, taintGA)
      BY <1>0, <1>f, <2>1, <2>3, <3>2, LastCarries
    <3> QED BY <2>1, <3>3, QuietTaints DEF snrVars
  <2> QED BY <1>3, <2>2, <2>3 DEF DeletePods
<1>4. CASE addOutOfServiceTaint
  <2> DEFINE m == [mgr EXCEPT !.pc = "isResourceDeletionCompleted"]
             T == mgr.node.taints \cup {"OutOfService"}
  <2>1. mgr.pc = "addOutOfServiceTaint" /\ UNCHANGED taintGA /\ AddTaint("OutOfService", m)
    BY <1>4 DEF addOutOfServiceTaint, Calling, configVars
  <2>2. mgr.snr.finalizer /\ mgr.snr.phase = "Reboot-Completed" /\ Kept(mgr.snr, snr)
    BY <1>c, <2>1
  <2>3. m \in Manager /\ m.node = mgr.node /\ m.snr = mgr.snr
        /\ m.pc = "isResourceDeletionCompleted"
    BY <1>0 DEF Manager, Calls
  <2>4. Owned(T, snr, taintGA)
    BY <1>0, <2>1, <2>2 DEF Owned, Kept, Fits, Evicts
  <2> HIDE DEF m, T
  <2>5. Fits(m, T, snr, taintGA)
    BY <2>2, <2>3, <2>4 DEF Fits
  <2> QED BY <2>1, <2>3, <2>5, TaintCallTaints DEF Taints, T
<1>5. CASE isResourceDeletionCompleted
  <2>1. mgr.pc = "isResourceDeletionCompleted" /\ UNCHANGED <<snrVars, nodeVars, taintGA>>
    BY <1>5 DEF isResourceDeletionCompleted, Calling, configVars
  <2>2. \/ mgr' = [mgr EXCEPT !.pc = "removeOutOfServiceTaint"]
        \/ mgr' = [mgr EXCEPT !.requeue = TRUE, !.pc = "updateSnrStatusLastError"]
        \/ mgr' = [mgr EXCEPT !.err = "NotReadyToDelete", !.pc = "updateSnrStatusLastError"]
    <3>1. mgr.snr.deleting \in BOOLEAN
      BY <1>0, <2>1 DEF SNR
    <3>2. CASE mgr' = [mgr EXCEPT !.pc = "removeOutOfServiceTaint"]
      BY <3>2
    <3>3. CASE mgr' =
               CASE ~ResourceDeletionExpired ->
                      [mgr EXCEPT !.requeue = TRUE, !.pc = "updateSnrStatusLastError"]
                 [] ResourceDeletionExpired /\ mgr.snr.deleting ->
                      [mgr EXCEPT !.pc = "removeOutOfServiceTaint"]
                 [] ResourceDeletionExpired /\ ~mgr.snr.deleting ->
                      [mgr EXCEPT !.err = "NotReadyToDelete", !.pc = "updateSnrStatusLastError"]
      BY <3>1, <3>3
    <3> QED BY <1>5, <3>2, <3>3 DEF isResourceDeletionCompleted
  <2>3. /\ mgr'.snr = mgr.snr /\ mgr'.node = mgr.node
        /\ mgr'.pc \in {"removeOutOfServiceTaint", "updateSnrStatusLastError"}
    BY <1>0, <2>2 DEF Manager
  <2>4. Fits(mgr', mgr.node.taints, snr, taintGA)
    BY <1>0, <2>1, <2>3 DEF Fits, LastCalls
  <2>5. Carries(mgr', node, snr, taintGA)
    BY <1>0, <2>1, <2>3, <2>4 DEF Carries
  <2> QED BY <2>1, <2>5, QuietTaints DEF snrVars
<1>6. CASE removeOutOfServiceTaint
  <2> DEFINE m == IF mgr.snr.timedOut THEN [mgr EXCEPT !.pc = "removeNoScheduleTaint"]
                                      ELSE FencingCompleted(mgr)
             T == mgr.node.taints \ {"OutOfService"}
  <2>1. mgr.pc = "removeOutOfServiceTaint" /\ UNCHANGED taintGA /\ RemoveTaint("OutOfService", m)
    BY <1>6 DEF removeOutOfServiceTaint, Calling, configVars
  <2>2. /\ m \in Manager /\ m.node = mgr.node
        /\ (m.snr = mgr.snr /\ m.pc = "removeNoScheduleTaint") \/ m.pc \in LastCalls
    <3>1. CASE mgr.snr.timedOut
      BY <1>0, <3>1 DEF Manager, Calls
    <3>2. CASE ~mgr.snr.timedOut
      BY <1>f, <2>1, <3>2
    <3> QED BY <3>1, <3>2
  <2>3. Owned(T, snr, taintGA) /\ "OutOfService" \notin T
    BY <1>0, <2>1 DEF Owned
  <2> HIDE DEF m, T
  <2>4. Fits(m, T, snr, taintGA)
    BY <1>0, <2>1, <2>2, <2>3 DEF Fits, LastCalls
  <2> QED BY <2>1, <2>2, <2>4, TaintCallTaints DEF Taints, T
<1>7. CASE removeNoScheduleTaint
  <2> DEFINE m == AfterRecovery(mgr)
             T == mgr.node.taints \ {"NoSchedule"}
  <2>1. mgr.pc = "removeNoScheduleTaint" /\ UNCHANGED taintGA /\ RemoveTaint("NoSchedule", m)
    BY <1>7 DEF removeNoScheduleTaint, Calling, configVars
  <2>2. \E call \in LastCalls \cup {"removeFinalizer"} : m = [mgr EXCEPT !.pc = call]
    BY DEF AfterRecovery, LastCalls
  <2>3. /\ m \in Manager /\ m.node = mgr.node /\ m.snr = mgr.snr
        /\ m.pc \in LastCalls \cup {"removeFinalizer"}
    BY <1>0, <2>2 DEF Manager, Calls, LastCalls
  <2>4. T = {}
    <3>1. "OutOfService" \notin mgr.node.taints
      BY <1>0, <2>1 DEF Fits
    <3> QED BY <1>0, <3>1 DEF Taints
  <2> HIDE DEF m, T
  <2>5. Fits(m, T, snr, taintGA)
    BY <1>0, <2>1, <2>3, <2>4 DEF Fits, Owned, LastCalls
  <2> QED BY <2>1, <2>3, <2>5, TaintCallTaints DEF Taints, T
<1> QED BY <1>1, <1>2, <1>3, <1>4, <1>5, <1>6, <1>7

\* The calls of a reconcile that write the SNR.
LEMMA SNRCallsTaints ==
    ASSUME NeverStale, IInv, PInv, TInv,
           addFinalizer \/ removeFinalizer \/ updateSnrStatusLastError \/ updateSnrStatus
    PROVE  TInv'
<1>0. /\ mgr \in Manager
      /\ mgr.pc # "idle" => /\ mgr.snr \in SNR
                            /\ Carries(mgr, node, snr, taintGA)
                            /\ Fits(mgr, mgr.node.taints, snr, taintGA)
                            /\ Owned(mgr.node.taints, snr, taintGA)
                            /\ node.taints \subseteq mgr.node.taints
  BY DEF IInv, ManagerInv, MaybeSNR, SafeSNR, TInv, Carries, Fits
<1>s. snr # NoSNR => snr \in SNR
  BY DEF IInv, InformerInv, MaybeSNR, SafeSNR
<1>w. \A s : WriteSNR(s) => snr' = s /\ snrWatch' = <<>>
  BY WriteSeen
\* The copy is replaced by the SNR as it was written.
<1>r. ASSUME mgr.pc # "idle", UNCHANGED <<nodeVars, taintGA>>, snrWatch' = <<>>,
             Succeeds(snr, snr'), snr # NoSNR,
             mgr'.node = mgr.node, mgr'.snr = snr', mgr'.pc \in LastCalls
      PROVE  TInv'
  <2>1. Owned(node.taints, snr', taintGA) /\ Carries(mgr, node, snr', taintGA)
    BY <1>0, <1>r, SucceedsOwns DEF TInv
  <2>2. mgr'.snr.phase = "Fencing-Completed" => "OutOfService" \notin mgr.node.taints
    BY <1>0, <1>r DEF Succeeds, Owned
  <2>3. Carries(mgr', node, snr', taintGA)
    BY <1>r, <2>1, <2>2, LastCarries
  <2> QED BY <1>r, <2>1, <2>3 DEF TInv, nodeVars
\* The copy is kept.
<1>k. ASSUME mgr.pc # "idle", UNCHANGED <<snr, snrWatch, nodeVars, taintGA>>,
             mgr'.node = mgr.node, mgr'.snr.phase = mgr.snr.phase, mgr'.pc \in LastCalls
      PROVE  TInv'
  <2>1. Carries(mgr', node, snr, taintGA)
    BY <1>0, <1>k, LastCarries DEF Fits
  <2> QED BY <1>k, <2>1, QuietTaints
<1>1. CASE addFinalizer
  <2>1. mgr.pc = "addFinalizer" /\ UNCHANGED taintGA
    BY <1>1 DEF addFinalizer, Calling, configVars
  <2>2. CASE CallFails
    BY <2>1, <2>2, FailedTaints DEF CallFails
  <2>3. CASE /\ mgr' = [mgr EXCEPT !.requeue = TRUE, !.pc = "updateSnrStatusLastError",
                                   !.err = IF snr = NoSNR THEN "ApiCall" ELSE ""]
             /\ UNCHANGED <<snrVars, nodeVars>>
    <3>1. mgr'.node = mgr.node /\ mgr'.snr = mgr.snr /\ mgr'.pc \in LastCalls
      BY <1>0, <2>3 DEF Manager, LastCalls
    <3> QED BY <1>k, <2>1, <2>3, <3>1 DEF snrVars
  <2>4. CASE /\ mgr.current
             /\ WriteSNR([snr EXCEPT !.finalizer = TRUE])
             /\ mgr' = [mgr EXCEPT !.snr = [snr EXCEPT !.finalizer = TRUE], !.requeue = TRUE,
                                   !.pc = "updateSnrStatusLastError"]
             /\ UNCHANGED nodeVars
    <3> DEFINE s == [snr EXCEPT !.finalizer = TRUE]
    <3>1. snr # NoSNR
      BY <2>4 DEF IInv, ManagerInv
    <3>2. s \in SNR /\ s.finalizer /\ s.phase = snr.phase /\ s.strategy = snr.strategy
      BY <1>s, <3>1 DEF SNR
    <3> HIDE DEF s
    <3>3. Succeeds(snr, s)
      BY <3>2, BoundsAssumption DEF Succeeds
    <3>4. snr' = s /\ snrWatch' = <<>>
      BY <1>w, <2>4 DEF s
    <3>5. mgr'.node = mgr.node /\ mgr'.snr = s /\ mgr'.pc \in LastCalls
      BY <1>0, <2>4 DEF Manager, LastCalls, s
    <3> QED BY <1>r, <2>1, <2>4, <3>1, <3>3, <3>4, <3>5
  <2> QED BY <1>1, <2>2, <2>3, <2>4 DEF addFinalizer, Accepted
<1>2. CASE removeFinalizer
  <2>1. mgr.pc = "removeFinalizer" /\ UNCHANGED taintGA
    BY <1>2 DEF removeFinalizer, Calling, configVars
  <2>2. CASE CallFails
    BY <2>1, <2>2, FailedTaints DEF CallFails
  <2>3. CASE mgr' = Failed(mgr) /\ UNCHANGED <<snrVars, nodeVars>>
    BY <2>1, <2>3, FailedTaints
  <2>4. CASE /\ WriteSNR(NoSNR)
             /\ mgr' = [mgr EXCEPT !.current = FALSE,
                                   !.pc = IF mgr.snr.timedOut THEN "updateSnrStatus"
                                                              ELSE "updateSnrStatusLastError"]
             /\ UNCHANGED nodeVars
    <3>1. mgr.node.taints = {} /\ node.taints = {}
      BY <1>0, <2>1 DEF Fits
    <3>2. mgr'.node = mgr.node /\ mgr'.snr = mgr.snr /\ mgr'.pc \in LastCalls
      BY <1>0, <2>4 DEF Manager, LastCalls
    <3>3. snr' = NoSNR /\ snrWatch' = <<>>
      BY <1>w, <2>4
    <3>4. Owned({}, NoSNR, taintGA)
      BY DEF Owned
    <3>5. Carries(mgr', node, NoSNR, taintGA)
      BY <3>1, <3>2, <3>4 DEF Carries, Fits, LastCalls
    <3> QED BY <2>1, <2>4, <3>1, <3>3, <3>4, <3>5 DEF TInv, nodeVars
  <2> QED BY <1>2, <2>2, <2>3, <2>4 DEF removeFinalizer, Accepted
<1>3. CASE updateSnrStatusLastError
  <2> DEFINE m == [mgr EXCEPT !.pc = "updateSnrStatus"]
  <2>1. mgr.pc = "updateSnrStatusLastError" /\ UNCHANGED <<nodeVars, taintGA>>
    BY <1>3 DEF updateSnrStatusLastError, Calling, configVars
  <2>2. CASE mgr' = m /\ UNCHANGED snrVars
    <3>1. mgr'.node = mgr.node /\ mgr'.snr = mgr.snr /\ mgr'.pc \in LastCalls
      BY <1>0, <2>2 DEF Manager, LastCalls
    <3> QED BY <1>k, <2>1, <2>2, <3>1 DEF snrVars
  <2>3. CASE mgr' = [m EXCEPT !.snr.lastError = mgr.err, !.err = "ApiCall"] /\ UNCHANGED snrVars
    <3>1. /\ mgr'.snr = [mgr.snr EXCEPT !.lastError = mgr.err]
          /\ mgr'.node = mgr.node /\ mgr'.pc \in LastCalls
      BY <1>0, <2>3 DEF Manager, LastCalls
    <3>2. mgr'.snr.phase = mgr.snr.phase
      BY <1>0, <2>1, <3>1 DEF SNR
    <3> QED BY <1>k, <2>1, <2>3, <3>1, <3>2 DEF snrVars
  <2>4. CASE /\ snr # NoSNR
             /\ LET s == [snr EXCEPT !.lastError = mgr.err] IN
                /\ IF s = snr THEN UNCHANGED snrVars ELSE WriteSNR(s)
                /\ mgr' = [m EXCEPT !.snr = s, !.current = TRUE]
    <3> DEFINE s == [snr EXCEPT !.lastError = mgr.err]
    <3>1. /\ s \in SNR /\ s.finalizer = snr.finalizer /\ s.phase = snr.phase
          /\ s.strategy = snr.strategy
      BY <1>0, <1>s, <2>4 DEF SNR, Manager
    <3>2. /\ (s = snr /\ UNCHANGED snrVars) \/ WriteSNR(s)
          /\ mgr' = [m EXCEPT !.snr = s, !.current = TRUE]
      BY <2>4
    <3>3. mgr'.node = mgr.node /\ mgr'.snr = s /\ mgr'.pc \in LastCalls
      BY <1>0, <3>2 DEF Manager, LastCalls
    <3> HIDE DEF s
    <3>4. Succeeds(snr, s)
      BY <3>1, BoundsAssumption DEF Succeeds
    <3>5. snr' = s /\ snrWatch' = <<>>
      BY <1>w, <3>2 DEF TInv, snrVars
    <3> QED BY <1>r, <2>1, <2>4, <3>3, <3>4, <3>5
  <2> QED BY <1>3, <2>2, <2>3, <2>4 DEF updateSnrStatusLastError
<1>4. CASE updateSnrStatus
  <2>1. /\ mgr.pc = "updateSnrStatus" /\ mgr' = Idle /\ mgr'.pc = "idle"
        /\ UNCHANGED <<nodeVars, taintGA>>
    BY <1>4 DEF updateSnrStatus, configVars, Idle
  <2>2. CASE UNCHANGED snrVars
    BY <2>1, <2>2 DEF TInv, snrVars, nodeVars
  <2>3. CASE mgr.current /\ WriteSNR(WithStatus(snr, mgr.snr))
    <3> DEFINE s == WithStatus(snr, mgr.snr)
    <3>1. snr # NoSNR
      BY <2>3 DEF IInv, ManagerInv
    <3>2. /\ s \in SNR /\ s.finalizer = snr.finalizer /\ s.strategy = snr.strategy
          /\ s.phase = mgr.snr.phase
      BY <1>0, <1>s, <2>1, <3>1 DEF WithStatus, SNR
    <3>3. snr' = s /\ snrWatch' = <<>>
      BY <1>w, <2>3
    <3> HIDE DEF s
    <3>4. ASSUME "OutOfService" \in node.taints
          PROVE  s.phase = "Reboot-Completed" /\ Evicts(s, taintGA)
      <4>1. snr.phase = "Reboot-Completed" /\ Evicts(snr, taintGA)
        BY <3>4 DEF TInv, Owned
      <4>2. mgr.snr.phase # "Fencing-Completed"
        BY <1>0, <2>1, <3>4 DEF Fits
      <4>3. SamePhase(snr, mgr.snr) \/ Ahead(snr, mgr.snr, clock)
        BY <2>1, <2>3 DEF PInv, InStep
      <4>4. mgr.snr.phase = "Reboot-Completed"
        BY <4>1, <4>2, <4>3 DEF SamePhase, Ahead
      <4> QED BY <3>2, <4>1, <4>4 DEF Evicts
    <3>5. node.taints # {} => s # NoSNR /\ s.finalizer
      BY <3>2, BoundsAssumption DEF TInv, Owned
    <3>6. Owned(node.taints, s, taintGA)
      BY <3>4, <3>5 DEF Owned
    <3> QED BY <2>1, <3>3, <3>6 DEF TInv, nodeVars
  <2> QED BY <1>4, <2>2, <2>3 DEF updateSnrStatus, Accepted
<1> QED BY <1>1, <1>2, <1>3, <1>4

-----------------------------------------------------------------------------
\* The informers, the config controller, restarts and the rest of the cluster.
LEMMA OthersTaints ==
    ASSUME NeverStale, IInv, TInv,
           Restart \/ setCRsEnabledStatus \/ SyncSNR \/ SyncNode \/ RequeueDue \/ Tick \/ Cluster
    PROVE  TInv'
<1>s. snr # NoSNR => snr \in SNR
  BY DEF IInv, InformerInv, MaybeSNR, SafeSNR
<1>w. \A s : WriteSNR(s) => snr' = s /\ snrWatch' = <<>>
  BY WriteSeen
<1>b. ASSUME UNCHANGED <<snr, snrWatch, nodeVars, mgr, taintGA>> PROVE TInv'
  BY <1>b DEF TInv, nodeVars
<1>f. ASSUME NEW s, WriteSNR(s), Outdate, Succeeds(snr, s), UNCHANGED <<nodeVars, taintGA>>
      PROVE  TInv'
  <2>1. mgr'.pc = mgr.pc /\ mgr'.node = mgr.node /\ mgr'.snr = mgr.snr
    BY <1>f DEF Outdate, IInv, ManagerInv, Manager
  <2>2. snr' = s /\ snrWatch' = <<>>
    BY <1>f, <1>w
  <2> QED BY <1>f, <2>1, <2>2, SNRStep
\* Without an SNR, or one with the finalizer, there is no taint.
<1>e. ASSUME snr = NoSNR \/ ~snr.finalizer
      PROVE  \A t : Owned(node.taints, t, taintGA) /\
                    (mgr.pc # "idle" => Carries(mgr, node, t, taintGA))
  <2>1. node.taints = {}
    BY <1>e DEF TInv, Owned
  <2>2. ASSUME mgr.pc # "idle"
        PROVE  mgr.node.taints = {} /\ (mgr.pc \notin LastCalls => ~mgr.snr.finalizer)
    BY <1>e, <2>2 DEF TInv, Carries, Fits, Owned, Kept
  <2>3. \A t : Owned({}, t, taintGA)
    BY DEF Owned
  <2>4. ASSUME mgr.pc # "idle", NEW t PROVE Carries(mgr, node, t, taintGA)
    <3>1. Carries(mgr, node, snr, taintGA)
      BY <2>4 DEF TInv
    <3> QED BY <2>1, <2>2, <2>3, <2>4, <3>1 DEF Carries, Fits
  <2> QED BY <2>1, <2>3, <2>4
<1>g. ASSUME NEW s, WriteSNR(s), Outdate, UNCHANGED <<nodeVars, taintGA>>,
             snr = NoSNR \/ ~snr.finalizer
      PROVE  TInv'
  <2>1. mgr'.pc = mgr.pc /\ mgr'.node = mgr.node /\ mgr'.snr = mgr.snr
    BY <1>g DEF Outdate, IInv, ManagerInv, Manager
  <2>2. snr' = s /\ snrWatch' = <<>>
    BY <1>g, <1>w
  <2>3. mgr'.pc # "idle" => Carries(mgr', node, s, taintGA)
    BY <1>e, <1>g, <2>1, LikeCarries
  <2> QED BY <1>e, <1>g, <2>2, <2>3 DEF TInv, nodeVars
<1>1. CASE Restart
  <2>1. /\ mgr'.pc = "idle" /\ snrWatch' = <<>> /\ nodeWatch' = <<>>
        /\ nodeCache' = node /\ node' = node /\ snr' = snr
    BY <1>1 DEF Restart, Idle
  <2>2. taintGA' = taintGA
    BY <1>1 DEF Restart, InitOutOfServiceTaintFlags, NeverStale
  <2> QED BY <2>1, <2>2 DEF TInv
<1>2. CASE setCRsEnabledStatus
  <2>1. UNCHANGED <<nodeVars, taintGA>>
    BY <1>2 DEF setCRsEnabledStatus
  <2>2. CASE UNCHANGED <<snrVars, mgr>>
    BY <1>b, <2>1, <2>2 DEF snrVars
  <2>3. CASE snrCache # NoSNR /\ WriteSNR([snr EXCEPT !.disabled = FALSE]) /\ Outdate
    <3> DEFINE s == [snr EXCEPT !.disabled = FALSE]
    <3>1. snr # NoSNR
      BY <2>3 DEF IInv, InformerInv, TInv
    <3>2. /\ s \in SNR /\ s.finalizer = snr.finalizer /\ s.phase = snr.phase
          /\ s.strategy = snr.strategy
      BY <1>s, <3>1 DEF SNR
    <3>3. WriteSNR(s)
      BY <2>3
    <3> HIDE DEF s
    <3>4. Succeeds(snr, s)
      BY <3>2, BoundsAssumption DEF Succeeds
    <3> QED BY <1>f, <2>1, <2>3, <3>3, <3>4
  <2> QED BY <1>2, <2>2, <2>3 DEF setCRsEnabledStatus
<1>3. CASE SyncSNR \/ SyncNode
  BY <1>3 DEF SyncSNR, SyncNode, TInv
<1>4. CASE RequeueDue \/ Tick
  BY <1>4, <1>b DEF RequeueDue, Tick, snrVars, configVars
<1>5. CASE CreateSNR
  BY <1>5, <1>g DEF CreateSNR, configVars
<1>6. CASE DeleteSNR
  <2>1. UNCHANGED <<nodeVars, taintGA>> /\ Outdate /\ snr # NoSNR
    BY <1>6 DEF DeleteSNR, configVars
  <2>2. CASE ~snr.finalizer
    BY <1>6, <1>g, <2>1, <2>2 DEF DeleteSNR
  <2>3. CASE snr.finalizer
    <3> DEFINE s == [snr EXCEPT !.deleting = TRUE]
    <3>1. /\ s \in SNR /\ s.finalizer = snr.finalizer /\ s.phase = snr.phase
          /\ s.strategy = snr.strategy
      BY <1>s, <2>1 DEF SNR
    <3>2. WriteSNR(s)
      BY <1>6, <2>3 DEF DeleteSNR
    <3> HIDE DEF s
    <3>3. Succeeds(snr, s)
      BY <3>1, BoundsAssumption DEF Succeeds
    <3> QED BY <1>f, <2>1, <3>2, <3>3
  <2> QED BY <2>2, <2>3
<1>7. CASE TimeOutSNR
  <2> DEFINE s == [snr EXCEPT !.timedOut = TRUE]
  <2>1. UNCHANGED <<nodeVars, taintGA>> /\ Outdate /\ snr # NoSNR /\ WriteSNR(s)
    BY <1>7 DEF TimeOutSNR, configVars
  <2>2. /\ s \in SNR /\ s.finalizer = snr.finalizer /\ s.phase = snr.phase
        /\ s.strategy = snr.strategy
    BY <1>s, <2>1 DEF SNR
  <2> HIDE DEF s
  <2>3. Succeeds(snr, s)
    BY <2>2, BoundsAssumption DEF Succeeds
  <2> QED BY <1>f, <2>1, <2>3
<1>8. CASE NodeChanges
  <2>1. UNCHANGED <<snr, snrWatch, mgr, taintGA>>
    BY <1>8 DEF NodeChanges, Disrupt, snrVars, configVars
  <2>2. PICK n : /\ WriteNode(n)
                 /\ n.taints = {} \/ (n.taints = node.taints /\ n.exists)
    <3>1. AbsentNode.taints = {} /\ FreshNode.taints = {} /\ node \in Node
      BY DEF AbsentNode, FreshNode, IInv, NodeInv
    <3>2. /\ [node EXCEPT !.excluded = ~@].taints = node.taints
          /\ [node EXCEPT !.excluded = ~@].exists = node.exists
          /\ [node EXCEPT !.capable = ~@].taints = node.taints
          /\ [node EXCEPT !.capable = ~@].exists = node.exists
      BY <3>1 DEF Node
    <3>3. CASE WriteNode(IF node.exists THEN AbsentNode ELSE FreshNode)
      BY <3>1, <3>3
    <3>4. CASE node.exists /\ WriteNode([node EXCEPT !.excluded = ~@])
      BY <3>2, <3>4
    <3>5. CASE node.exists /\ WriteNode([node EXCEPT !.capable = ~@])
      BY <3>2, <3>5
    <3> QED BY <1>8, <3>3, <3>4, <3>5 DEF NodeChanges
  <2>3. node' = n /\ nodeCache' = n /\ nodeWatch' = <<>>
    BY <2>2, WriteSeen
  <2>4. Owned(n.taints, snr, taintGA)
    BY <2>2 DEF TInv, Owned
  <2>5. mgr.pc # "idle" => Carries(mgr, n, snr, taintGA)
    BY <2>2 DEF TInv, Carries
  <2> QED BY <2>1, <2>2, <2>3, <2>4, <2>5 DEF TInv
<1>9. CASE ConfigChanges \/ EvictPods \/ ForceDeletePods \/ DetachVolumes \/ SchedulePods
  <2>1. UNCHANGED <<snr, snrWatch, nodeVars, mgr, taintGA>>
    BY <1>9 DEF ConfigChanges, Disrupt, EvictPods, ForceDeletePods, DetachVolumes, SchedulePods,
                WorkloadStep, snrVars, configVars
  <2> QED BY <1>b, <2>1
<1> QED BY <1>1, <1>2, <1>3, <1>4, <1>5, <1>6, <1>7, <1>8, <1>9 DEF Cluster

-----------------------------------------------------------------------------
LEMMA InitTaints == Init => TInv
<1> SUFFICES ASSUME Init PROVE TInv
  OBVIOUS
<1>1. snrWatch = <<>> /\ nodeWatch = <<>> /\ nodeCache = node /\ mgr.pc = "idle"
      /\ node.taints = {}
  BY DEF Init, Idle, FreshNode
<1> QED BY <1>1 DEF TInv, Owned

LEMMA NextTaints == NeverStale /\ IInv /\ PInv /\ TInv /\ [Next]_vars => TInv'
<1> SUFFICES ASSUME NeverStale, IInv, PInv, TInv, [Next]_vars PROVE TInv'
  OBVIOUS
<1>1. CASE Next
  BY <1>1, ReconcileTaints, NodeCallsTaints, SNRCallsTaints, OthersTaints DEF Next, Call
<1>2. CASE UNCHANGED vars
  BY <1>2 DEF vars, snrVars, nodeVars, configVars, TInv
<1> QED BY <1>1, <1>2

\* What the invariant says of the two properties.
LEMMA TaintsFollow == TInv => TaintsAreOwned /\ NoTaintOnceCompleted
BY DEF TInv, Owned, TaintsAreOwned, NoTaintOnceCompleted

\* With caches that never lag and a cluster version that the manager knows, a taint of
\* this operator is on the node only while an SNR with the finalizer exists that will
\* remove it: whatever fails, restarts or happens to the node or the SNR in between, the
\* finalizer goes only after the taints (recoverNode, handleFencingCompletedPhase).
THEOREM TaintsHaveOwners == ASSUME NeverStale PROVE Spec => []TaintsAreOwned
<1>1. NeverStale
  OBVIOUS
<1>2. IInv /\ PInv /\ TInv /\ [Next]_vars => TInv'
  BY <1>1, NextTaints
<1>3. Spec => [](IInv /\ PInv /\ TInv)
  BY <1>2, InitInv, NextInv, InitPromise, NextPromise, InitTaints, PTL DEF Spec
<1> QED BY <1>3, TaintsFollow, PTL

\* In the same circumstances the node of a complete SNR does not carry the
\* out-of-service taint once the manager has nothing left to do
\* (handleRebootCompletedPhase completes the phase after it has removed the taint).
THEOREM CompletedUntainted == ASSUME NeverStale PROVE Spec => []NoTaintOnceCompleted
<1>1. NeverStale
  OBVIOUS
<1>2. IInv /\ PInv /\ TInv /\ [Next]_vars => TInv'
  BY <1>1, NextTaints
<1>3. Spec => [](IInv /\ PInv /\ TInv)
  BY <1>2, InitInv, NextInv, InitPromise, NextPromise, InitTaints, PTL DEF Spec
<1> QED BY <1>3, TaintsFollow, PTL
=============================================================================
