---------------------------- MODULE FencingProofs ----------------------------
(***************************************************************************)
(* Theorems about Fencing: for every length of a second, of the delays and *)
(* of the reboot duration that covers them, and for any number of SNRs and *)
(* interruptions, a node that the manager takes for rebooted is down or    *)
(* was booted since the creation of the SNR; and the agent reboots a node  *)
(* once for an SNR, and not for one that was deleted.                      *)
(***************************************************************************)
EXTENDS Fencing, TLAPS

\* What it may cost to learn of the SNR and to go down, and to start over with each of
\* the interruptions that are left after k.
Attempt == DetectTime + WatchdogTimeout
Budget(k) == (MaxInterruptions + 1 - k) * Attempt

\* From t on, there is time for all that before the deadline.
InTime(t) == t + Budget(interruptions) + 1 <= snr.timeAssumedRebooted

\* The manager waits for the node to reboot, and the node must do so by itself.
Awaited ==
    /\ snr # NoSNR /\ snr.phase = "Pre-Reboot-Completed" /\ ~snr.deleting
    /\ registered = "kept"
    /\ up /\ ~Rebooted

\* The agent has a version of the SNR that makes it reboot the node.
Ready ==
    /\ seen # NoSNR /\ seen.uid = snr.uid
    /\ seen.phase = "Pre-Reboot-Completed" /\ ~seen.deleting

TypeInv ==
    /\ snr \in SNR \cup {NoSNR} /\ seen \in SNR \cup {NoSNR}
    /\ created \in Nat /\ clock \in Nat /\ since \in 0 .. clock
    /\ queued \in {"no", "now", "later"}
    /\ creation \in [Uid -> Int]
    /\ up \in BOOLEAN /\ link \in BOOLEAN
    /\ boot \in Int /\ triggered \in Nat \cup {NoTime}
    /\ interruptions \in 0 .. MaxInterruptions

\* The agent's version of an SNR is the present one or an older one.
CacheInv ==
    /\ snr # NoSNR => snr.uid = created /\ creation[snr.uid] <= clock
    /\ seen # NoSNR => seen.uid <= created
    /\ snr # NoSNR /\ seen # NoSNR /\ seen.uid = snr.uid =>
          /\ snr.phase = "Fencing-Started" => seen.phase = "Fencing-Started"
          /\ seen.timedOut => snr.timedOut

\* The bounds on the agent and on the watchdog,
LearningInv == Learning => clock <= since + DetectTime

WatchdogInv ==
    triggered # NoTime => up /\ triggered <= clock /\ clock <= triggered + WatchdogTimeout

\* and why they are met in time: an awaited node has been triggered early enough, even
\* for an agent that starts anew just before the watchdog fires,
TriggeredInv ==
    Awaited /\ triggered # NoTime =>
        triggered + WatchdogTimeout + Budget(interruptions + 1) + 1 <= snr.timeAssumedRebooted

\* or it will learn of the SNR, or knows it, early enough.
AwaitedInv ==
    Awaited /\ triggered = NoTime =>
        /\ \/ Learning /\ InTime(since)
           \/ queued = "now" /\ Ready /\ InTime(clock - DetectTime)
        /\ seen = snr => queued # "no"

TimeInv == LearningInv /\ WatchdogInv /\ TriggeredInv /\ AwaitedInv

FInv == TypeInv /\ CacheInv /\ TimeInv /\ AssumedMeansRebooted

----------------------------------------------------------------------------
\* What rounding does to a time (metav1.Time and the kernel's uptime).
LEMMA StoredBounds ==
    ASSUME NEW t \in Int
    PROVE  Stored(t) \in Int /\ Stored(t) <= t /\ t < Stored(t) + Second
BY FencingAssumption DEF Stored

\* An interruption costs an attempt, and one attempt is always left.
LEMMA BudgetFacts ==
    ASSUME NEW k \in 0 .. MaxInterruptions
    PROVE  /\ Budget(k) \in Int /\ Attempt <= Budget(k)
           /\ Budget(k) <= (MaxInterruptions + 1) * Attempt
           /\ Budget(k + 1) = Budget(k) - Attempt
           /\ Attempt \in Nat
<1> DEFINE m == MaxInterruptions + 1 - k
<1>0. Attempt \in Nat
  BY FencingAssumption DEF Attempt
<1>1. m \in Nat /\ m >= 1 /\ m <= MaxInterruptions + 1
  BY FencingAssumption
<1>2. m * Attempt >= Attempt
  BY <1>0, <1>1
<1>3. m * Attempt <= (MaxInterruptions + 1) * Attempt
  BY <1>0, <1>1, FencingAssumption
<1>4. (MaxInterruptions + 1 - (k + 1)) * Attempt = m * Attempt - Attempt
  BY <1>0, FencingAssumption
<1> QED BY <1>0, <1>1, <1>2, <1>3, <1>4, FencingAssumption DEF Budget

\* didIRebootMyself errs only within two seconds of the SNR's creation,
LEMMA RoundedUptime ==
    ASSUME TypeInv, seen \in SNR
    PROVE  /\ didIRebootMyself(seen) => boot > creation[seen.uid] - 2 * Second
           /\ ~didIRebootMyself(seen) => boot <= creation[seen.uid]
<1>1. clock - boot \in Int /\ creation[seen.uid] \in Int /\ clock \in Int /\ boot \in Int
  BY DEF TypeInv, SNR
<1>2. /\ Stored(clock - boot) <= clock - boot /\ clock - boot < Stored(clock - boot) + Second
      /\ Stored(clock - boot) \in Int
  BY <1>1, StoredBounds
<1>3. /\ Stored(creation[seen.uid]) <= creation[seen.uid]
      /\ creation[seen.uid] < Stored(creation[seen.uid]) + Second
      /\ Stored(creation[seen.uid]) \in Int
  BY <1>1, StoredBounds
<1> QED BY <1>1, <1>2, <1>3, FencingAssumption DEF didIRebootMyself

\* and so an agent that is ready for the reboot of an awaited node reboots it.
LEMMA ReadyReboots ==
    ASSUME TypeInv, Awaited, Ready
    PROVE  rebootIfNeeded
<1>1. seen \in SNR
  BY DEF TypeInv, Ready
<1> QED BY <1>1, RoundedUptime DEF Awaited, Ready, Rebooted, rebootIfNeeded

\* A deadline leaves, when it is stored, the time for everything.
LEMMA DeadlineInTime ==
    ASSUME NEW delay \in 0 .. StoreDelay, TypeInv
    PROVE  LET d == Stored(clock + RebootDuration - delay)
           IN  d \in Int /\ clock + Budget(interruptions) + 1 <= d
<1> DEFINE t == clock + RebootDuration - delay
<1>1. t \in Int /\ t >= clock + RebootDuration - StoreDelay
  BY FencingAssumption DEF TypeInv
<1>2. Stored(t) \in Int /\ t < Stored(t) + Second
  BY <1>1, StoredBounds
<1>3. /\ Budget(interruptions) <= (MaxInterruptions + 1) * Attempt
      /\ Budget(interruptions) \in Int /\ (MaxInterruptions + 1) * Attempt \in Int
  BY BudgetFacts, FencingAssumption DEF TypeInv
<1>4. Budget(interruptions) + Second <= RebootDuration - StoreDelay
  BY <1>3, FencingAssumption, RebootDurationCovers DEF Attempt
<1> HIDE DEF t
<1>5. clock + Budget(interruptions) + 1 <= Stored(t)
  BY <1>1, <1>2, <1>3, <1>4, FencingAssumption DEF TypeInv
<1> QED BY <1>2, <1>5 DEF t

LEMMA InitHolds == ASSUME Init PROVE FInv
<1>1. TypeInv
  BY FencingAssumption DEF Init, Start, TypeInv, NoTime
<1>2. CacheInv /\ AssumedMeansRebooted
  BY DEF Init, Start, CacheInv, AssumedMeansRebooted
<1>3. TimeInv
  BY FencingAssumption DEF Init, Start, TimeInv, LearningInv, WatchdogInv, TriggeredInv,
                               AwaitedInv, Learning, Awaited
<1> QED BY <1>1, <1>2, <1>3 DEF FInv

\* The manager and NHC leave the node alone, and change the SNR in one of these ways.
Writes ==
    CreateSNR \/ DeleteSNR \/ StopSNR \/ PrepareReboot \/ Proceed \/ ReleaseSNR

LEMMA WritesKeepType == ASSUME TypeInv, Writes PROVE TypeInv'
<1> USE FencingAssumption DEF TypeInv, nodeVars, agentVars, historyVars
<1>w. Written => since' \in 0 .. clock
  BY DEF Written
<1>1. CASE CreateSNR
  <2>1. snr' \in SNR /\ created' \in Nat /\ creation' \in [Uid -> Int]
    BY <1>1 DEF CreateSNR, Create, New, SNR, Phases, Uid, NoTime
  <2> QED BY <1>1, <1>w, <2>1 DEF CreateSNR, Create
<1>2. CASE DeleteSNR
  <2>1. snr' \in SNR \cup {NoSNR}
    BY <1>2 DEF DeleteSNR, Delete, SNR
  <2> QED BY <1>2, <1>w, <2>1 DEF DeleteSNR, Delete
<1>3. CASE StopSNR
  <2>1. snr' \in SNR
    BY <1>3 DEF StopSNR, TimeOut, SNR
  <2> QED BY <1>3, <1>w, <2>1 DEF StopSNR, TimeOut
<1>4. CASE PrepareReboot
  <2>1. PICK delay \in 0 .. StoreDelay :
            PreRebootCompleted(Stored(clock + RebootDuration - delay))
    BY <1>4 DEF PrepareReboot
  <2>2. Stored(clock + RebootDuration - delay) \in Int
    BY DeadlineInTime
  <2>3. snr' \in SNR
    BY <2>1, <2>2 DEF PreRebootCompleted, Advance, SNR, Phases
  <2> QED BY <1>4, <1>w, <2>1, <2>3 DEF PrepareReboot, PreRebootCompleted, Advance
<1>5. CASE Proceed
  <2>1. snr' \in SNR
    BY <1>5 DEF Proceed, RebootCompleted, FencingCompleted, Advance, SNR, Phases
  <2> QED BY <1>5, <1>w, <2>1 DEF Proceed, RebootCompleted, FencingCompleted, Advance
<1>6. CASE ReleaseSNR
  BY <1>6, <1>w DEF ReleaseSNR, Release
<1> QED BY <1>1, <1>2, <1>3, <1>4, <1>5, <1>6 DEF Writes

LEMMA TypeStep == ASSUME TypeInv, Next PROVE TypeInv'
<1> USE FencingAssumption
    DEF TypeInv, lifecycleVars, nodeVars, agentVars, historyVars, Interrupt, Trigger, NoTime
<1>1. CASE Writes
  BY <1>1, WritesKeepType
<1>2. CASE Sync
  BY <1>2 DEF Sync
<1>3. CASE ReconcileAgent
  BY <1>3 DEF ReconcileAgent
<1>4. CASE RetryDue
  BY <1>4 DEF RetryDue
<1>5. CASE Verdict
  BY <1>5 DEF Verdict
<1>6. CASE AgentRestart
  BY <1>6 DEF AgentRestart
<1>7. CASE LinkChange
  BY <1>7 DEF LinkChange
<1>8. CASE NodeObjectChange
  BY <1>8 DEF NodeObjectChange
<1>9. CASE NodeDown
  BY <1>9 DEF NodeDown
<1>10. CASE Boot
  BY <1>10 DEF Boot
<1>11. CASE Tick
  BY <1>11 DEF Tick, Pass
<1> QED BY <1>1, <1>2, <1>3, <1>4, <1>5, <1>6, <1>7, <1>8, <1>9, <1>10, <1>11
        DEF Next, Writes

LEMMA CacheStep == ASSUME TypeInv, CacheInv, Next PROVE CacheInv'
<1> USE FencingAssumption
    DEF TypeInv, CacheInv, lifecycleVars, nodeVars, agentVars, historyVars, SNR
<1>1. CASE CreateSNR
  <2>1. /\ snr' = New(created + 1) /\ created' = created + 1 /\ seen' = seen /\ clock' = clock
        /\ creation'[created + 1] = clock
    BY <1>1 DEF CreateSNR, Create, Uid
  <2>2. snr'.uid = created'
    BY <2>1 DEF New
  <2> QED BY <2>1, <2>2 DEF Uid
<1>2. CASE DeleteSNR
  BY <1>2 DEF DeleteSNR, Delete
<1>3. CASE StopSNR
  BY <1>3 DEF StopSNR, TimeOut
<1>4. CASE PrepareReboot
  BY <1>4 DEF PrepareReboot, PreRebootCompleted, Advance
<1>5. CASE Proceed
  BY <1>5 DEF Proceed, RebootCompleted, FencingCompleted, Advance
<1>6. CASE ReleaseSNR
  BY <1>6 DEF ReleaseSNR, Release
<1>7. CASE Sync
  BY <1>7 DEF Sync
<1>8. CASE ReconcileAgent \/ RetryDue \/ Verdict \/ LinkChange \/ NodeObjectChange
  BY <1>8 DEF ReconcileAgent, RetryDue, Verdict, LinkChange, NodeObjectChange
<1>9. CASE AgentRestart \/ NodeDown \/ Boot
  BY <1>9 DEF AgentRestart, NodeDown, Boot
<1>10. CASE Tick
  BY <1>10 DEF Tick, Pass
<1> QED BY <1>1, <1>2, <1>3, <1>4, <1>5, <1>6, <1>7, <1>8, <1>9, <1>10 DEF Next

\* An awaited node still has time, and an agent that starts anew has, too.
LEMMA AwaitedInTime ==
    ASSUME FInv, Awaited
    PROVE  /\ triggered = NoTime =>
                 /\ InTime(clock - DetectTime)
                 /\ clock + WatchdogTimeout + Budget(interruptions + 1) + 1
                       <= snr.timeAssumedRebooted
           /\ clock + Budget(interruptions + 1) + 1 <= snr.timeAssumedRebooted
           /\ clock < snr.timeAssumedRebooted
<1>1. /\ Budget(interruptions) \in Int /\ Attempt <= Budget(interruptions)
      /\ Budget(interruptions + 1) = Budget(interruptions) - Attempt
      /\ Attempt = DetectTime + WatchdogTimeout
      /\ snr.timeAssumedRebooted \in Int /\ clock \in Int /\ since \in Int
  BY BudgetFacts DEF FInv, TypeInv, Awaited, SNR, Attempt
<1>2. CASE triggered = NoTime
  <2>1. InTime(clock - DetectTime)
    BY <1>1, <1>2, FencingAssumption DEF FInv, TimeInv, LearningInv, AwaitedInv, InTime
  <2> QED BY <1>1, <1>2, <2>1, FencingAssumption DEF InTime
<1>3. CASE triggered # NoTime
  BY <1>1, <1>3, FencingAssumption DEF FInv, TypeInv, TimeInv, WatchdogInv, TriggeredInv, Awaited
<1> QED BY <1>2, <1>3

LEMMA AssumedStep == ASSUME FInv, Next PROVE AssumedMeansRebooted'
<1> USE FencingAssumption
    DEF FInv, AssumedMeansRebooted, Rebooted, lifecycleVars, nodeVars, agentVars, historyVars
<1>1. CASE CreateSNR
  BY <1>1 DEF CreateSNR, Create, New
<1>2. CASE DeleteSNR
  BY <1>2 DEF DeleteSNR, Delete, TypeInv, SNR
<1>3. CASE StopSNR
  BY <1>3 DEF StopSNR, TimeOut, TypeInv, SNR
<1>4. CASE PrepareReboot
  BY <1>4 DEF PrepareReboot, PreRebootCompleted, Advance, TypeInv, SNR
<1>5. CASE Proceed
  <2>1. CASE RebootCompleted
    <3>1. ~Awaited
      BY <2>1, AwaitedInTime DEF RebootCompleted, TypeInv, SNR
    <3> QED BY <1>5, <2>1, <3>1
            DEF Proceed, RebootCompleted, Advance, Awaited, TypeInv, SNR
  <2>2. CASE FencingCompleted
    BY <1>5, <2>2 DEF Proceed, FencingCompleted, Advance, TypeInv, SNR
  <2> QED BY <1>5, <2>1, <2>2 DEF Proceed
<1>6. CASE ReleaseSNR
  BY <1>6 DEF ReleaseSNR, Release
<1>7. CASE Sync \/ ReconcileAgent \/ RetryDue \/ Verdict \/ AgentRestart \/ LinkChange
  BY <1>7 DEF Sync, ReconcileAgent, RetryDue, Verdict, AgentRestart, LinkChange
<1>8. CASE NodeObjectChange \/ NodeDown
  BY <1>8 DEF NodeObjectChange, NodeDown
<1>9. CASE Boot
  BY <1>9 DEF Boot, CacheInv, TypeInv, SNR
<1>10. CASE Tick
  BY <1>10 DEF Tick, Pass
<1> QED BY <1>1, <1>2, <1>3, <1>4, <1>5, <1>6, <1>7, <1>8, <1>9, <1>10 DEF Next

LEMMA LearningStep == ASSUME FInv, Next PROVE LearningInv'
<1> USE FencingAssumption
    DEF FInv, TypeInv, TimeInv, LearningInv, Learning, lifecycleVars, nodeVars, agentVars, historyVars
<1>t. since' \in Nat /\ clock' \in Nat
  BY TypeStep
<1>b. \A t \in Nat : t <= t + DetectTime
  OBVIOUS
<1>a. SUFFICES ~Tick => \/ ~Learning'
                        \/ since' = clock'
                        \/ Learning /\ UNCHANGED <<since, clock>>
  <2>1. CASE ~Tick
    <3>1. CASE since' = clock'
      BY <1>t, <1>b, <3>1, Zenon
    <3>2. CASE Learning /\ UNCHANGED <<since, clock>>
      BY <3>2
    <3> QED BY <1>a, <2>1, <3>1, <3>2
  <2>2. CASE Tick
    <3>1. Learning' = Learning /\ since' = since /\ clock' = clock + 1
      BY <2>2 DEF Tick, Pass, Learning
    <3>2. ~(Learning /\ clock >= since + DetectTime)
      BY <2>2 DEF Tick, Overdue
    <3> QED BY <3>1, <3>2
  <2> QED BY <2>1, <2>2
<1>1. CASE Writes
  <2>1. UNCHANGED clock /\ Written
    BY <1>1 DEF Writes, CreateSNR, DeleteSNR, StopSNR, PrepareReboot, Proceed, ReleaseSNR, Create,
                Delete, TimeOut, PreRebootCompleted, RebootCompleted, FencingCompleted, Advance, Release
  <2> QED BY <2>1 DEF Written
<1>2. CASE Sync \/ RetryDue \/ Verdict
  BY <1>2 DEF Sync, RetryDue, Verdict, Trigger, NoTime, Learning
<1>3. CASE ReconcileAgent
  <2>1. UNCHANGED <<clock, up, link, registered, seen, snr>>
    BY <1>3 DEF ReconcileAgent
  <2>2. CASE triggered' = triggered /\ UNCHANGED since /\ queued' = "no"
    BY <2>1, <2>2 DEF Learning
  <2>3. CASE Trigger
    BY <2>1, <2>3 DEF Learning, Trigger, NoTime
  <2>4. CASE triggered' = triggered /\ UNCHANGED since /\ registered # "kept"
    BY <2>1, <2>4 DEF Learning
  <2>5. CASE triggered' = triggered /\ since' = IF seen = snr THEN clock ELSE since
    BY <2>1, <2>5 DEF Learning
  <2> QED BY <1>3, <2>2, <2>3, <2>4, <2>5 DEF ReconcileAgent
<1>4. CASE AgentRestart \/ LinkChange \/ NodeDown \/ Boot
  BY <1>4 DEF AgentRestart, LinkChange, NodeDown, Boot, Learning
<1>5. CASE NodeObjectChange
  BY <1>5, Zenon DEF NodeObjectChange, Learning
<1> QED BY <1>1, <1>2, <1>3, <1>4, <1>5 DEF Next, Writes

LEMMA WatchdogStep == ASSUME FInv, Next PROVE WatchdogInv'
<1> USE FencingAssumption
    DEF FInv, TypeInv, TimeInv, WatchdogInv, lifecycleVars, nodeVars, agentVars, historyVars
<1>t. triggered' \in Nat \cup {NoTime} /\ clock' \in Nat
  BY TypeStep
<1>b. \A t \in Nat : t <= t /\ t <= t + WatchdogTimeout
  OBVIOUS
<1>a. SUFFICES ~Tick => \/ triggered' = NoTime
                        \/ up' /\ triggered' = clock'
                        \/ UNCHANGED <<up, triggered, clock>>
  <2>1. CASE ~Tick
    <3>1. CASE up' /\ triggered' = clock'
      BY <1>t, <1>b, <3>1, Zenon
    <3>2. CASE UNCHANGED <<up, triggered, clock>>
      BY <3>2
    <3> QED BY <1>a, <2>1, <3>1, <3>2
  <2>2. CASE Tick
    <3>1. up' = up /\ triggered' = triggered /\ clock' = clock + 1
      BY <2>2 DEF Tick, Pass
    <3>2. ~(up /\ triggered # NoTime /\ clock >= triggered + WatchdogTimeout)
      BY <2>2 DEF Tick, Overdue
    <3> QED BY <3>1, <3>2
  <2> QED BY <2>1, <2>2
<1>1. CASE Writes
  BY <1>1 DEF Writes, CreateSNR, DeleteSNR, StopSNR, PrepareReboot, Proceed, ReleaseSNR, Create,
              Delete, TimeOut, PreRebootCompleted, RebootCompleted, FencingCompleted, Advance, Release
<1>2. CASE Sync \/ RetryDue \/ AgentRestart \/ LinkChange \/ NodeObjectChange
  BY <1>2 DEF Sync, RetryDue, AgentRestart, LinkChange, NodeObjectChange
<1>3. CASE Verdict \/ ReconcileAgent
  BY <1>3 DEF Verdict, ReconcileAgent, Trigger
<1>4. CASE NodeDown \/ Boot
  BY <1>4 DEF NodeDown, Boot
<1> QED BY <1>1, <1>2, <1>3, <1>4 DEF Next, Writes

\* A node that is awaited was awaited before, unless its deadline has just been set.
LEMMA AwaitedBefore ==
    ASSUME FInv, Next, Awaited', ~PrepareReboot
    PROVE  Awaited /\ up' /\ snr'.timeAssumedRebooted = snr.timeAssumedRebooted
<1> USE DEF FInv, TypeInv, Awaited, Rebooted, lifecycleVars, nodeVars, agentVars, historyVars
<1>1. CASE CreateSNR
  BY <1>1 DEF CreateSNR, Create, New
<1>2. CASE DeleteSNR
  BY <1>2 DEF DeleteSNR, Delete, SNR
<1>3. CASE StopSNR
  BY <1>3 DEF StopSNR, TimeOut, SNR
<1>4. CASE Proceed
  BY <1>4 DEF Proceed, RebootCompleted, FencingCompleted, Advance, SNR
<1>5. CASE ReleaseSNR
  BY <1>5 DEF ReleaseSNR, Release
<1>6. CASE Sync \/ ReconcileAgent \/ RetryDue \/ Verdict \/ AgentRestart \/ LinkChange
  BY <1>6 DEF Sync, ReconcileAgent, RetryDue, Verdict, AgentRestart, LinkChange
<1>7. CASE NodeObjectChange \/ NodeDown
  BY <1>7 DEF NodeObjectChange, NodeDown
<1>8. CASE Boot
  BY <1>8, FencingAssumption DEF Boot, CacheInv, SNR
<1>9. CASE Tick
  BY <1>9 DEF Tick, Pass
<1> QED BY <1>1, <1>2, <1>3, <1>4, <1>5, <1>6, <1>7, <1>8, <1>9 DEF Next

LEMMA TriggeredStep == ASSUME FInv, Next PROVE TriggeredInv'
<1> SUFFICES ASSUME Awaited', triggered' # NoTime
             PROVE  triggered' + WatchdogTimeout + Budget(interruptions + 1)' + 1
                       <= snr'.timeAssumedRebooted
  BY DEF TriggeredInv
<1>1. CASE PrepareReboot
  <2>1. PICK delay \in 0 .. StoreDelay :
            PreRebootCompleted(Stored(clock + RebootDuration - delay))
    BY <1>1 DEF PrepareReboot
  <2> DEFINE d == Stored(clock + RebootDuration - delay)
  <2>2. d \in Int /\ clock + Budget(interruptions) + 1 <= d
    BY DeadlineInTime DEF FInv
  <2> HIDE DEF d
  <2>3. snr'.timeAssumedRebooted = d
    BY <2>1 DEF PreRebootCompleted, Advance, FInv, TypeInv, SNR, d
  <2>4. triggered' = triggered /\ triggered <= clock
    BY <1>1 DEF PrepareReboot, nodeVars, FInv, TimeInv, WatchdogInv
  <2>5. /\ Budget(interruptions) \in Int
        /\ Budget(interruptions + 1)' = Budget(interruptions) - (DetectTime + WatchdogTimeout)
    BY <1>1, BudgetFacts DEF FInv, TypeInv, PrepareReboot, Attempt
  <2> QED BY <2>2, <2>3, <2>4, <2>5, FencingAssumption DEF FInv, TypeInv
<1>2. CASE ~PrepareReboot
  <2>1. Awaited /\ snr'.timeAssumedRebooted = snr.timeAssumedRebooted
    BY <1>2, AwaitedBefore
  <2>2. \/ triggered' = triggered
        \/ triggered = NoTime /\ triggered' = clock
    BY DEF Next, CreateSNR, DeleteSNR, StopSNR, PrepareReboot, Proceed, ReleaseSNR, Sync, ReconcileAgent,
           RetryDue, Verdict, AgentRestart, LinkChange, NodeObjectChange, NodeDown, Boot, Tick,
           Trigger, nodeVars
  <2>a. UNCHANGED interruptions \/ Interrupt
    BY <2>1 DEF Next, CreateSNR, Create, DeleteSNR, StopSNR, PrepareReboot, Proceed, ReleaseSNR, Sync,
           ReconcileAgent, RetryDue, Verdict, AgentRestart, LinkChange, NodeObjectChange, NodeDown, Boot,
           Tick, Awaited
  <2>b. /\ Budget(interruptions + 1) \in Int
        /\ Budget(interruptions + 1)' \in Int
        /\ Budget(interruptions + 1)' <= Budget(interruptions + 1)
    <3>1. CASE UNCHANGED interruptions
      BY <3>1, BudgetFacts DEF FInv, TypeInv
    <3>2. CASE Interrupt
      <4>1. interruptions' = interruptions + 1 /\ interruptions + 1 \in 0 .. MaxInterruptions
        BY <3>2, FencingAssumption DEF Interrupt, FInv, TypeInv
      <4>2. Budget(interruptions + 1)' = Budget(interruptions + 1 + 1)
        BY <4>1
      <4> QED BY <4>1, <4>2, BudgetFacts DEF FInv, TypeInv
    <3> QED BY <2>a, <3>1, <3>2
  <2>c. /\ triggered' \in Int /\ snr.timeAssumedRebooted \in Int
    BY <2>1, TypeStep DEF FInv, TypeInv, Awaited, SNR, NoTime
  <2>3. CASE triggered' = triggered
    BY <2>1, <2>3, <2>b, <2>c, FencingAssumption DEF FInv, TimeInv, TriggeredInv
  <2>4. CASE triggered = NoTime /\ triggered' = clock
    BY <2>1, <2>4, <2>b, <2>c, AwaitedInTime, FencingAssumption
  <2> QED BY <2>2, <2>3, <2>4
<1> QED BY <1>1, <1>2

LEMMA AwaitedStep == ASSUME FInv, Next PROVE AwaitedInv'
<1> SUFFICES ASSUME Awaited', triggered' = NoTime
             PROVE  /\ \/ Learning' /\ InTime(since)'
                       \/ queued' = "now" /\ Ready' /\ InTime(clock - DetectTime)'
                    /\ seen' = snr' => queued' # "no"
  BY DEF AwaitedInv
<1>t. TypeInv /\ TypeInv'
  BY TypeStep DEF FInv
<1>u. up' /\ snr' # NoSNR /\ snr'.phase = "Pre-Reboot-Completed" /\ ~snr'.deleting
      /\ registered' = "kept"
  BY DEF Awaited
<1>1. CASE PrepareReboot
  <2>1. PICK delay \in 0 .. StoreDelay :
            PreRebootCompleted(Stored(clock + RebootDuration - delay))
    BY <1>1 DEF PrepareReboot
  <2> DEFINE d == Stored(clock + RebootDuration - delay)
  <2>2. d \in Int /\ clock + Budget(interruptions) + 1 <= d
    BY <1>t, DeadlineInTime
  <2> HIDE DEF d
  <2>3. snr'.timeAssumedRebooted = d /\ snr'.uid = snr.uid /\ snr # NoSNR
        /\ snr.phase = "Fencing-Started" /\ clock' = clock
    BY <1>t, <2>1 DEF PreRebootCompleted, Advance, TypeInv, SNR, d
  <2>4. UNCHANGED <<seen, interruptions>>
    BY <1>1 DEF PrepareReboot, agentVars
  <2>5. seen' # snr'
    BY <1>u, <2>3, <2>4 DEF FInv, CacheInv
  <2>6. since' <= clock /\ since' \in Int /\ clock \in Int
    BY <1>t, <2>3 DEF TypeInv
  <2>7. Budget(interruptions) \in Int
    BY <1>t, BudgetFacts DEF TypeInv
  <2>8. InTime(since)'
    BY <2>2, <2>3, <2>4, <2>6, <2>7, FencingAssumption DEF InTime
  <2> QED BY <1>u, <2>5, <2>8 DEF Learning
<1>2. CASE ~PrepareReboot
  <2>1. Awaited /\ snr'.timeAssumedRebooted = snr.timeAssumedRebooted
    BY <1>2, AwaitedBefore
  \* An interruption pays for a new start.
  <2>r. clock' = clock /\ interruptions' = interruptions + 1
        => InTime(since)' /\ InTime(clock - DetectTime)'
    <3>1. since' <= clock' /\ since' \in Int /\ clock \in Int
      BY <1>t DEF TypeInv
    <3>2. Budget(interruptions + 1) \in Int /\ snr.timeAssumedRebooted \in Int
      BY <1>t, <2>1, BudgetFacts DEF TypeInv, Awaited, SNR
    <3> QED BY <2>1, <3>1, <3>2, AwaitedInTime, FencingAssumption DEF InTime
  <2>s. CASE AgentRestart
    <3>1. seen' # snr' /\ clock' = clock /\ interruptions' = interruptions + 1
      BY <1>u, <2>s DEF AgentRestart, Interrupt, lifecycleVars
    <3> QED BY <1>u, <2>r, <3>1 DEF Learning
  <2> SUFFICES ASSUME ~AgentRestart
               PROVE  /\ \/ Learning' /\ InTime(since)'
                         \/ queued' = "now" /\ Ready' /\ InTime(clock - DetectTime)'
                      /\ seen' = snr' => queued' # "no"
    BY <2>s
  <2>2. triggered = NoTime
    BY <1>t, <2>1 DEF Next, CreateSNR, DeleteSNR, StopSNR, PrepareReboot, Proceed, ReleaseSNR, Sync,
           ReconcileAgent, RetryDue, Verdict, AgentRestart, LinkChange, NodeObjectChange, NodeDown,
           Boot, Tick, Trigger, nodeVars, TypeInv, NoTime, Awaited
  <2>3. /\ InTime(clock - DetectTime)
        /\ \/ Learning /\ InTime(since)
           \/ queued = "now" /\ Ready
        /\ seen = snr => queued # "no" /\ Ready
    BY <2>1, <2>2, AwaitedInTime DEF FInv, TimeInv, AwaitedInv, Awaited, Ready
  <2>5. /\ InTime(since) /\ UNCHANGED <<since, interruptions>> => InTime(since)'
        /\ UNCHANGED <<clock, interruptions>> => InTime(clock - DetectTime)'
    BY <2>1, <2>3 DEF InTime
  <2> USE DEF lifecycleVars, nodeVars, agentVars, historyVars
  <2>7. CASE StopSNR
    <3>1. /\ snr'.timedOut /\ ~snr.timedOut /\ snr'.uid = snr.uid
          /\ UNCHANGED <<seen, queued, interruptions, clock>> /\ Written
      BY <1>t, <2>1, <2>7 DEF StopSNR, TimeOut, TypeInv, SNR
    <3>2. seen' # snr'
      BY <1>u, <2>1, <3>1 DEF Awaited, FInv, CacheInv
    <3>3. Ready => Ready'
      BY <3>1 DEF Ready
    <3>4. Learning'
      BY <1>u, <3>2 DEF Learning
    <3>5. CASE Learning /\ InTime(since)
      BY <2>5, <3>1, <3>2, <3>4, <3>5 DEF Written
    <3>6. CASE queued = "now" /\ Ready
      BY <2>5, <3>1, <3>2, <3>3, <3>6
    <3> QED BY <2>3, <3>5, <3>6
  <2>8. CASE Sync
    <3>1. seen' = snr' /\ queued' = "now" /\ UNCHANGED <<clock, interruptions>>
      BY <2>8 DEF Sync
    <3> QED BY <1>u, <2>5, <3>1 DEF Ready
  <2>9. CASE ReconcileAgent
    <3>1. UNCHANGED <<seen, snr, clock>>
      BY <2>9 DEF ReconcileAgent
    <3>2. CASE ~rebootIfNeeded /\ UNCHANGED <<since, interruptions>>
      <4>1. ~Ready
        BY <1>t, <2>1, <3>2, ReadyReboots
      <4>2. seen' # snr' /\ InTime(since)
        BY <2>3, <3>1, <4>1
      <4> QED BY <1>u, <2>5, <3>2, <4>2 DEF Learning
    <3>3. CASE Interrupt /\ queued' = "later"
      BY <1>u, <2>r, <3>1, <3>3 DEF Interrupt, Learning
    <3>4. ~Trigger
      BY <1>t, <2>2 DEF Trigger, TypeInv, NoTime
    <3> QED BY <2>1, <2>9, <3>2, <3>3, <3>4 DEF ReconcileAgent, Awaited
  <2>10. CASE RetryDue
    <3>1. /\ queued = "later" /\ queued' = "now"
          /\ UNCHANGED <<seen, snr, since, clock, interruptions>>
      BY <2>10 DEF RetryDue
    <3>2. CASE Ready
      BY <2>5, <3>1, <3>2 DEF Ready
    <3>3. CASE ~Ready
      BY <1>u, <2>3, <2>5, <3>1, <3>3 DEF Learning
    <3> QED BY <3>2, <3>3
  <2>12. CASE LinkChange
    <3>1. /\ UNCHANGED <<seen, snr, queued, clock>>
          /\ interruptions' = interruptions + 1
      BY <2>12 DEF LinkChange, Interrupt
    <3>2. CASE seen # snr \/ queued = "later"
      BY <1>u, <2>3, <2>r, <3>1, <3>2 DEF Learning
    <3>3. CASE seen = snr /\ queued = "now"
      BY <2>3, <2>r, <3>1, <3>3 DEF Ready
    <3> QED BY <1>t, <2>3, <3>2, <3>3 DEF TypeInv
  <2>13. CASE Tick
    <3>1. queued # "now" /\ UNCHANGED <<seen, snr, queued, link, registered, since, interruptions>>
      BY <2>1, <2>13 DEF Tick, Pass, Overdue, Awaited
    <3> QED BY <1>u, <2>3, <2>5, <3>1 DEF Learning
  <2>14. ~CreateSNR /\ ~DeleteSNR /\ ~Proceed /\ ~ReleaseSNR
    BY <1>t, <1>u, <2>1 DEF CreateSNR, Create, DeleteSNR, Delete, Proceed, RebootCompleted,
          FencingCompleted, Advance, ReleaseSNR, Release, Awaited, TypeInv, SNR
  <2>15. ~Verdict /\ ~NodeObjectChange /\ ~NodeDown /\ ~Boot
    BY <1>t, <1>u, <2>1, <2>2 DEF Verdict, Trigger, NodeObjectChange, NodeDown, Boot, Awaited, TypeInv,
          NoTime
  <2> QED BY <1>2, <2>7, <2>8, <2>9, <2>10, <2>12, <2>13, <2>14, <2>15 DEF Next
<1> QED BY <1>1, <1>2

LEMMA NextKeeps == ASSUME FInv, Next PROVE FInv'
<1>1. TypeInv' /\ CacheInv'
  BY TypeStep, CacheStep DEF FInv
<1>2. TimeInv'
  BY LearningStep, WatchdogStep, TriggeredStep, AwaitedStep DEF TimeInv
<1> QED BY <1>1, <1>2, AssumedStep DEF FInv

LEMMA StutterKeeps == ASSUME FInv, UNCHANGED vars PROVE FInv'
<1> USE DEF FInv, TypeInv, TimeInv, Awaited, Learning, Ready, Rebooted, vars, lifecycleVars, nodeVars,
            agentVars, historyVars
<1>1. TypeInv' /\ CacheInv' /\ AssumedMeansRebooted'
  BY DEF CacheInv, AssumedMeansRebooted
<1>2. LearningInv' /\ WatchdogInv'
  BY DEF LearningInv, WatchdogInv
<1>3. Budget(interruptions + 1)' = Budget(interruptions + 1)
  OBVIOUS
<1>4. TriggeredInv'
  BY <1>3 DEF TriggeredInv
<1>5. AwaitedInv'
  BY DEF AwaitedInv, InTime
<1> QED BY <1>1, <1>2, <1>4, <1>5

LEMMA FInvHolds == Spec => []FInv
<1>1. FInv /\ [Next]_vars => FInv'
  BY NextKeeps, StutterKeeps
<1> QED BY <1>1, InitHolds, PTL DEF Spec

\* The node that the manager takes for rebooted (waitForNodeRebooted) is down or was
\* booted since the creation of the SNR, for all delays that the reboot duration covers.
THEOREM AssumedRebooted == Spec => []AssumedMeansRebooted
<1>1. FInv => AssumedMeansRebooted
  BY DEF FInv
<1> QED BY <1>1, FInvHolds, PTL

\* The agent's reconciler reboots a node at most once for an SNR, whatever the length of
\* the seconds to which didIRebootMyself rounds.
THEOREM RebootedOnce == Spec => RebootsOnce
<1>1. FInv /\ [Next]_vars => [Reconciled => boot <= creation[seen.uid]]_vars
  <2> SUFFICES ASSUME FInv, Reconciled PROVE boot <= creation[seen.uid]
    OBVIOUS
  <2>1. rebootIfNeeded
    BY DEF Reconciled, ReconcileAgent
  <2>2. seen \in SNR /\ TypeInv
    BY <2>1 DEF rebootIfNeeded, FInv, TypeInv
  <2> QED BY <2>1, <2>2, RoundedUptime DEF rebootIfNeeded
<1> QED BY <1>1, FInvHolds, PTL DEF Spec, RebootsOnce

----------------------------------------------------------------------------
(* The history: which SNRs were deleted when, and what the agent knows of it. *)

HistoryInv ==
    /\ clock \in Time /\ created \in 0 .. MaxCRs
    /\ creation \in [Uid -> Time] /\ deletion \in [Uid -> Time \cup {NoTime}]
    /\ linked \in Time /\ registered \in {"kept", "deleted", "back"}
    /\ triggered \in Time \cup {NoTime}

\* The agent of a connected node still takes an SNR for active that was deleted.
Stale ==
    /\ up /\ link /\ triggered = NoTime
    /\ seen # NoSNR /\ ~seen.deleting /\ deletion[seen.uid] # NoTime

\* Since then it could have learned better, and that is how long it has been behind:
\* none of its errors, and none of the writes of the SNR, gives it more time.
StaleInv ==
    /\ ~up => seen = NoSNR
    /\ \A u \in Uid : deletion[u] # NoTime => u <= created
    /\ snr # NoSNR /\ deletion[snr.uid] # NoTime => snr.deleting
    /\ Stale => since <= linked \/ since <= deletion[seen.uid]

HInv == FInv /\ HistoryInv /\ StaleInv

LEMMA HistoryStep == ASSUME TypeInv, HistoryInv, Next PROVE HistoryInv'
<1> USE FencingAssumption
    DEF HistoryInv, lifecycleVars, nodeVars, agentVars, historyVars, Trigger, Time, Uid
<1>1. CASE CreateSNR
  BY <1>1 DEF CreateSNR, Create
<1>2. CASE DeleteSNR
  BY <1>2 DEF DeleteSNR, Delete
<1>3. CASE StopSNR \/ ReleaseSNR
  BY <1>3 DEF StopSNR, TimeOut, ReleaseSNR, Release
<1>4. CASE PrepareReboot
  BY <1>4 DEF PrepareReboot, PreRebootCompleted, Advance
<1>5. CASE Proceed
  BY <1>5 DEF Proceed, RebootCompleted, FencingCompleted, Advance
<1>6. CASE Sync \/ RetryDue
  BY <1>6 DEF Sync, RetryDue
<1>7. CASE ReconcileAgent
  BY <1>7 DEF ReconcileAgent
<1>8. CASE Verdict
  BY <1>8 DEF Verdict
<1>9. CASE AgentRestart \/ NodeDown \/ Boot
  BY <1>9 DEF AgentRestart, NodeDown, Boot
<1>10. CASE LinkChange
  BY <1>10 DEF LinkChange
<1>11. CASE NodeObjectChange
  BY <1>11 DEF NodeObjectChange
<1>12. CASE Tick
  BY <1>12 DEF Tick, Pass
<1> QED BY <1>1, <1>2, <1>3, <1>4, <1>5, <1>6, <1>7, <1>8, <1>9, <1>10, <1>11, <1>12 DEF Next

\* An agent that takes a deleted SNR for active is behind the API server.
LEMMA StaleIsLearning ==
    ASSUME StaleInv, Stale
    PROVE  Learning
BY DEF StaleInv, Stale, Learning

\* The bound of StaleInv where it is, or may become, a bound on something else.
LEMMA StaleBound ==
    ASSUME HInv, Next, Stale'
    PROVE  since' <= linked' \/ since' <= deletion'[seen'.uid]
<1> USE DEF lifecycleVars, nodeVars, agentVars, historyVars
<1>t. /\ TypeInv /\ TypeInv' /\ HistoryInv /\ CacheInv /\ StaleInv
      /\ Stale => Learning /\ (since <= linked \/ since <= deletion[seen.uid])
  BY TypeStep, StaleIsLearning DEF HInv, FInv, StaleInv
<1>u. up' /\ link' /\ triggered' = NoTime /\ seen' # NoSNR /\ ~seen'.deleting /\ seen' \in SNR
  BY <1>t DEF Stale, TypeInv
<1>1. CASE DeleteSNR
  <2>1. PICK u \in Uid : u = snr.uid
    BY <1>t, <1>1 DEF DeleteSNR, Delete, TypeInv, SNR
  <2>2. /\ UNCHANGED <<up, link, triggered, seen, linked, clock>>
        /\ deletion' = [deletion EXCEPT ![u] = clock] /\ Written
    BY <1>1, <2>1 DEF DeleteSNR, Delete
  <2>3. since' <= clock
    BY <1>t, <2>2 DEF Written, TypeInv
  <2>4. CASE seen.uid = u
    <3>1. deletion'[seen'.uid] = clock
      BY <1>t, <2>2, <2>4 DEF HistoryInv
    <3> QED BY <2>3, <3>1
  <2>5. CASE seen.uid # u
    <3>1. deletion'[seen'.uid] = deletion[seen.uid] /\ Stale
      BY <1>t, <1>u, <2>2, <2>5 DEF HistoryInv, Stale, SNR
    <3> QED BY <1>t, <2>2, <3>1 DEF Written
  <2> QED BY <2>4, <2>5
<1>2. CASE Writes /\ ~DeleteSNR
  <2>1. UNCHANGED <<up, link, triggered, seen, linked, deletion>> /\ Written
    BY <1>2 DEF Writes, CreateSNR, StopSNR, PrepareReboot, Proceed, ReleaseSNR
  <2>2. Stale
    BY <2>1 DEF Stale
  <2> QED BY <1>t, <2>1, <2>2 DEF Written
<1>3. CASE Sync
  <2>1. seen' = snr /\ deletion' = deletion
    BY <1>3 DEF Sync
  <2> QED BY <1>t, <1>u, <2>1 DEF StaleInv, Stale
<1>4. CASE ReconcileAgent
  <2>1. UNCHANGED <<up, link, seen, snr, linked, deletion>>
    BY <1>4 DEF ReconcileAgent
  <2>2. triggered = NoTime
    BY <1>t, <1>u, <1>4 DEF ReconcileAgent, Trigger
  <2>3. Stale
    BY <2>1, <2>2 DEF Stale
  <2>4. seen # snr
    BY <1>t, <2>3 DEF Stale, StaleInv
  <2>5. UNCHANGED since
    BY <1>4, <2>4 DEF ReconcileAgent
  <2> QED BY <1>t, <2>1, <2>3, <2>5
<1>5. CASE RetryDue \/ NodeObjectChange \/ Tick
  <2>1. UNCHANGED <<up, link, triggered, seen, linked, deletion, since>>
    BY <1>5 DEF RetryDue, NodeObjectChange, Tick
  <2> QED BY <1>t, <2>1 DEF Stale
<1>6. CASE LinkChange
  <2>1. linked' = clock /\ since' = clock
    BY <1>t, <1>u, <1>6 DEF LinkChange, TypeInv
  <2> QED BY <1>t, <2>1 DEF TypeInv
<1>7. ~Verdict /\ ~AgentRestart /\ ~NodeDown
  BY <1>u DEF Verdict, AgentRestart, NodeDown
<1>8. ~Boot
  BY <1>t, <1>u DEF Boot, StaleInv
<1> QED BY <1>1, <1>2, <1>3, <1>4, <1>5, <1>6, <1>7, <1>8 DEF Next, Writes

LEMMA StaleStep == ASSUME HInv, Next PROVE StaleInv'
<1> USE DEF lifecycleVars, nodeVars, agentVars, historyVars
<1>t. TypeInv /\ HistoryInv /\ CacheInv /\ StaleInv
  BY DEF HInv, FInv
<1>1. ~up' => seen' = NoSNR
  <2>1. ~up => seen = NoSNR
    BY <1>t DEF StaleInv
  <2>2. CASE Writes
    BY <2>1, <2>2 DEF Writes, CreateSNR, DeleteSNR, StopSNR, PrepareReboot, Proceed, ReleaseSNR
  <2>3. CASE Sync \/ ReconcileAgent \/ RetryDue \/ Verdict \/ AgentRestart \/ LinkChange
    BY <2>1, <2>3 DEF Sync, ReconcileAgent, RetryDue, Verdict, AgentRestart, LinkChange
  <2>4. CASE NodeObjectChange \/ NodeDown \/ Boot \/ Tick
    BY <2>1, <2>4 DEF NodeObjectChange, NodeDown, Boot, Tick
  <2> QED BY <2>2, <2>3, <2>4 DEF Next, Writes
<1>2. /\ \A u \in Uid : deletion'[u] # NoTime => u <= created'
      /\ snr' # NoSNR /\ deletion'[snr'.uid] # NoTime => snr'.deleting
  <2>1. CASE CreateSNR
    <3>1. /\ snr' = New(created + 1) /\ created' = created + 1 /\ deletion' = deletion
          /\ created \in Nat /\ created + 1 \in Uid
      BY <1>t, <2>1, FencingAssumption DEF CreateSNR, Create, TypeInv, Uid
    <3>2. snr'.uid = created + 1
      BY <3>1 DEF New
    <3>3. deletion[created + 1] = NoTime
      BY <1>t, <3>1 DEF StaleInv
    <3>4. \A u \in Uid : u <= created => u <= created + 1
      BY <3>1 DEF Uid
    <3> QED BY <1>t, <3>1, <3>2, <3>3, <3>4 DEF StaleInv
  <2>2. CASE DeleteSNR
    <3>1. PICK v \in Uid : v = snr.uid
      BY <1>t, <2>2 DEF DeleteSNR, Delete, TypeInv, SNR
    <3>2. /\ snr # NoSNR /\ snr \in SNR /\ v = created /\ created' = created
          /\ deletion' = [deletion EXCEPT ![v] = clock]
          /\ snr' \in {[snr EXCEPT !.deleting = TRUE], NoSNR}
      BY <1>t, <2>2, <3>1 DEF DeleteSNR, Delete, CacheInv, TypeInv
    <3>3. snr' # NoSNR => snr'.deleting
      BY <3>2 DEF SNR
    <3>4. \A u \in Uid : deletion'[u] # NoTime => u <= created
      BY <1>t, <3>2, FencingAssumption DEF HistoryInv, StaleInv, Uid
    <3> QED BY <3>2, <3>3, <3>4
  <2>3. CASE StopSNR
    <3>1. /\ UNCHANGED <<created, deletion>> /\ snr \in SNR /\ snr # NoSNR
          /\ snr' = [snr EXCEPT !.timedOut = TRUE]
      BY <1>t, <2>3 DEF StopSNR, TimeOut, TypeInv
    <3>2. snr'.uid = snr.uid /\ snr'.deleting = snr.deleting
      BY <3>1 DEF SNR
    <3> QED BY <1>t, <3>1, <3>2 DEF StaleInv
  <2>4. CASE PrepareReboot \/ Proceed
    <3>1. UNCHANGED deletion
      BY <2>4 DEF PrepareReboot, Proceed
    <3>2. ASSUME NEW from, NEW to, NEW deadline, Advance(from, to, deadline)
          PROVE  /\ UNCHANGED created /\ snr # NoSNR
                 /\ snr'.uid = snr.uid /\ snr'.deleting = snr.deleting
      BY <1>t, <3>2 DEF Advance, TypeInv, SNR
    <3>3. UNCHANGED created /\ snr # NoSNR /\ snr'.uid = snr.uid /\ snr'.deleting = snr.deleting
      BY <2>4, <3>2 DEF PrepareReboot, PreRebootCompleted, Proceed, RebootCompleted, FencingCompleted
    <3> QED BY <1>t, <3>1, <3>3 DEF StaleInv
  <2>5. CASE ReleaseSNR
    BY <1>t, <2>5 DEF ReleaseSNR, Release, StaleInv
  <2>6. CASE ~Writes
    <3>1. UNCHANGED <<created, deletion, snr>>
      BY <2>6 DEF Next, Writes, Sync, ReconcileAgent, RetryDue, Verdict, AgentRestart, LinkChange,
                  NodeObjectChange, NodeDown, Boot, Tick, Pass
    <3> QED BY <1>t, <3>1 DEF StaleInv
  <2> QED BY <2>1, <2>2, <2>3, <2>4, <2>5, <2>6 DEF Writes
<1>3. Stale' => since' <= linked' \/ since' <= deletion'[seen'.uid]
  BY StaleBound
<1> QED BY <1>1, <1>2, <1>3 DEF StaleInv

LEMMA HInvHolds == Spec => []HInv
<1>1. Init => HInv
  <2> SUFFICES ASSUME Init PROVE HInv
    OBVIOUS
  <2>1. HistoryInv
    BY FencingAssumption DEF Init, Start, HistoryInv, Time, Uid, NoTime
  <2>2. StaleInv
    BY DEF Init, Start, StaleInv, Stale
  <2> QED BY <2>1, <2>2, InitHolds DEF HInv
<1>2. HInv /\ Next => HInv'
  BY NextKeeps, HistoryStep, StaleStep DEF HInv, FInv
<1>3. HInv /\ UNCHANGED vars => HInv'
  <2> SUFFICES ASSUME HInv, UNCHANGED vars PROVE HInv'
    OBVIOUS
  <2>1. HistoryInv' /\ StaleInv'
    BY DEF HInv, HistoryInv, StaleInv, Stale, vars, lifecycleVars, nodeVars, agentVars, historyVars
  <2> QED BY <2>1, StutterKeeps DEF HInv
<1> QED BY <1>1, <1>2, <1>3, PTL DEF Spec

\* The composition is typed: the times that the manager and the agent act at lie within
\* the bounds, and no more interruptions are counted than there may be (Interrupt).
LEMMA FencingTyped == Spec => []TypeOK
<1>1. HInv => TypeOK
  BY FencingAssumption DEF HInv, FInv, TypeInv, HistoryInv, TypeOK, Time
<1> QED BY <1>1, HInvHolds, PTL

\* What RebootIsCalledFor says of a step.
CalledForStep ==
    Reconciled /\ link /\ deletion[seen.uid] # NoTime
       => clock <= DetectTime + IF linked > deletion[seen.uid] THEN linked ELSE deletion[seen.uid]

\* RebootIsCalledFor: the agent of a connected node does not reboot it for an SNR that
\* was deleted longer ago than it takes to learn of that, however often its reconciler
\* fails, its process starts anew and NHC creates further SNRs in between.
THEOREM CalledFor == Spec => RebootIsCalledFor
<1>1. HInv /\ [Next]_vars => [CalledForStep]_vars
  <2> SUFFICES ASSUME HInv, Reconciled, link, deletion[seen.uid] # NoTime
               PROVE  clock <= DetectTime + IF linked > deletion[seen.uid] THEN linked
                                                                           ELSE deletion[seen.uid]
    BY DEF CalledForStep
  <2>1. rebootIfNeeded /\ up /\ triggered = NoTime
    BY DEF Reconciled, ReconcileAgent, Trigger
  <2>2. Stale /\ StaleInv
    BY <2>1 DEF Stale, rebootIfNeeded, HInv
  <2>3. clock <= since + DetectTime
    BY <2>2, StaleIsLearning DEF HInv, FInv, TimeInv, LearningInv
  <2>4. since <= linked \/ since <= deletion[seen.uid]
    BY <2>2 DEF StaleInv
  <2>5. /\ clock \in Int /\ since \in Int /\ linked \in Int /\ DetectTime \in Nat
        /\ deletion[seen.uid] \in Int
    BY <2>1, FencingAssumption
       DEF HInv, FInv, TypeInv, HistoryInv, rebootIfNeeded, SNR, Time, NoTime
  <2> QED BY <2>3, <2>4, <2>5
<1> QED BY <1>1, HInvHolds, PTL DEF Spec, RebootIsCalledFor, CalledForStep
=============================================================================
