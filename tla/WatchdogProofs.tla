--------------------------- MODULE WatchdogProofs ---------------------------
(***************************************************************************)
(* Theorems about Watchdog, for every timeout, every feeding period below  *)
(* it, any number of callers of Reboot, faults and stops of the pod: the   *)
(* device does not reboot the node unless somebody asked for it or         *)
(* something failed, the annotations tell the truth, and nobody feeds or   *)
(* disarms a triggered device.                                             *)
(***************************************************************************)
EXTENDS Watchdog, TLAPS

\* How the watchdog's fields and the updater depend on how far Start has come. Only a
\* device that has told its timeout is ever armed or triggered.
StartInv ==
    /\ swd.started <=> wd /\ starter # "init"
    /\ ~wd => starter = "done"
    /\ ~swd.started => swd.status = "Disarmed" /\ swd.timeout = 0
    /\ swd.status \in {"Armed", "Triggered"} => swd.timeout = Timeout
    /\ swd.status = "Malfunction" => softwareReboot
    /\ updater \in {"update", "done"} => ~wd \/ swd.started

\* While nobody has asked for a reboot and nothing has failed, the device runs only
\* under a goroutine that feeds it, and it is always fed again within a period.
Unasked == ~requested /\ faults = 0

Tended ==
    /\ host = "up" /\ \A c \in Callers : caller[c] = "idle"
    /\ starter \in {"init", "done"} => ~device.running /\ swd.status # "Armed"
    /\ starter \in {"startFeeding", "running"} => swd.status = "Armed"
    /\ starter # "done" => ~swd.cancelled
    /\ starter \in {"init", "startFeeding"} => feeder = "off"
    /\ starter = "startFeeding" => device.age = 0
    /\ starter = "running" =>
         \/ feeder = "waiting" /\ device.age + feedIn <= FeedPeriod
         \/ feeder = "entered" /\ device.age <= FeedPeriod

TendedInv == Unasked => Tended

\* What the updater has read and not published yet: it is as true as annotations have to be.
ReadingIsTrue ==
    updater = "update" /\ (~ctxDone \/ swd.timeout = 0) =>
        /\ swd.status # "Triggered" => (toPublish.initiated <=> swd.status = "Armed")
        /\ toPublish.timeout = swd.timeout

WInv == TypeOK /\ StartInv /\ TendedInv /\ ReadingIsTrue /\ AnnotationsAreTrue

-----------------------------------------------------------------------------
\* What the updates of the watchdog's and the device's records return.
LEMMA RecordFacts ==
    /\ NewSynced \in SynchronizedWatchdog /\ Off \in Device /\ Fed \in Device
    /\ \A w \in SynchronizedWatchdog :
         /\ w.status \in Statuses
         /\ [w EXCEPT !.status = "Armed", !.timeout = Timeout, !.started = TRUE]
              \in SynchronizedWatchdog
         /\ [w EXCEPT !.stop = TRUE] \in SynchronizedWatchdog
         /\ [w EXCEPT !.foodAge = 0] \in SynchronizedWatchdog
         /\ [w EXCEPT !.foodAge = IF @ <= StuckAfter THEN @ + 1 ELSE @] \in SynchronizedWatchdog
    /\ \A w \in SynchronizedWatchdog, s \in Statuses :
         /\ [w EXCEPT !.status = s, !.started = TRUE] \in SynchronizedWatchdog
         /\ [w EXCEPT !.status = s, !.cancelled = TRUE] \in SynchronizedWatchdog
    /\ \A d \in Device : d.age \in Nat /\ (d.age < Timeout => [d EXCEPT !.age = @ + 1] \in Device)
<1> USE TimesAssumption DEF SynchronizedWatchdog, Device, Statuses
<1>1. NewSynced \in SynchronizedWatchdog /\ Off \in Device /\ Fed \in Device
  BY DEF NewSynced, Off, Fed
<1>2. ASSUME NEW w \in SynchronizedWatchdog
      PROVE  /\ w.status \in Statuses
             /\ [w EXCEPT !.status = "Armed", !.timeout = Timeout, !.started = TRUE]
                  \in SynchronizedWatchdog
             /\ [w EXCEPT !.stop = TRUE] \in SynchronizedWatchdog
  OBVIOUS
<1>3. ASSUME NEW w \in SynchronizedWatchdog
      PROVE  /\ [w EXCEPT !.foodAge = 0] \in SynchronizedWatchdog
             /\ [w EXCEPT !.foodAge = IF @ <= StuckAfter THEN @ + 1 ELSE @] \in SynchronizedWatchdog
  OBVIOUS
<1>4. ASSUME NEW w \in SynchronizedWatchdog, NEW s \in Statuses
      PROVE  [w EXCEPT !.status = s, !.started = TRUE] \in SynchronizedWatchdog
  OBVIOUS
<1>5. ASSUME NEW w \in SynchronizedWatchdog, NEW s \in Statuses
      PROVE  [w EXCEPT !.status = s, !.cancelled = TRUE] \in SynchronizedWatchdog
  OBVIOUS
<1>6. ASSUME NEW d \in Device
      PROVE  d.age \in Nat /\ (d.age < Timeout => [d EXCEPT !.age = @ + 1] \in Device)
  OBVIOUS
<1> HIDE DEF SynchronizedWatchdog, Device, Statuses
<1> QED BY ONLY <1>1, <1>2, <1>3, <1>4, <1>5, <1>6, Zenon

LEMMA InitHolds == ASSUME Init PROVE WInv
<1> USE TimesAssumption DEF Init
<1>1. TypeOK
  <2>1. swd \in SynchronizedWatchdog /\ device \in Device
    BY RecordFacts
  <2>2. annotations \in Annotations /\ toPublish \in Reading
    BY DEF Annotations, Reading, NothingRead
  <2>3. starter \in {"init", "done"} /\ caller \in [Callers -> {"idle", "switch", "stop"}]
    OBVIOUS
  <2>4. feedIn \in 0 .. FeedPeriod /\ faults \in 0 .. MaxFaults /\ stops \in 0 .. MaxStops
    <3>1. feedIn = 0 /\ faults = 0 /\ stops = 0
      OBVIOUS
    <3> QED BY ONLY <3>1, TimesAssumption
  <2>5. softwareReboot \in BOOLEAN /\ wd \in BOOLEAN /\ ctxDone = FALSE /\ requested = FALSE
    OBVIOUS
  <2>6. feeder = "off" /\ updater = "waiting" /\ host = "up"
    OBVIOUS
  <2> QED BY ONLY <2>1, <2>2, <2>3, <2>4, <2>5, <2>6 DEF TypeOK
<1>2. StartInv /\ ReadingIsTrue /\ AnnotationsAreTrue
  BY DEF StartInv, ReadingIsTrue, AnnotationsAreTrue, NewSynced
<1>3. TendedInv
  BY DEF TendedInv, Tended, NewSynced, Off
<1> QED BY <1>1, <1>2, <1>3 DEF WInv

\* Every action keeps the types; the device is not let count beyond its timeout because
\* time stands still at an expired one until it fires.
LEMMA TypeStep ==
    ASSUME TypeOK, Next
    PROVE  TypeOK'
<1> USE TimesAssumption
<1>a. /\ swd \in SynchronizedWatchdog /\ device \in Device
      /\ caller \in [Callers -> {"idle", "switch", "stop"}]
      /\ feedIn \in 0 .. FeedPeriod /\ faults \in 0 .. MaxFaults /\ stops \in 0 .. MaxStops
  BY DEF TypeOK
<1>b. Fault => faults' \in 0 .. MaxFaults
  BY <1>a DEF Fault
<1>c. ASSUME NewProcess, wd' \in BOOLEAN,
             UNCHANGED <<softwareReboot, device, requested, annotations, host, stops>>,
             faults' \in 0 .. MaxFaults
      PROVE  TypeOK'
  <2>1. starter' \in {"init", "done"} /\ feedIn' \in 0 .. FeedPeriod
    BY <1>c DEF NewProcess
  <2>2. swd' \in SynchronizedWatchdog /\ caller' \in [Callers -> {"idle", "switch", "stop"}]
    BY <1>c, RecordFacts DEF NewProcess
  <2>3. toPublish' \in Reading
    BY <1>c DEF NewProcess, NothingRead, Reading
  <2> QED BY <1>c, <2>1, <2>2, <2>3 DEF NewProcess, TypeOK
<1>d. ASSUME NEW c \in Callers, RebootStep, UNCHANGED device, swd' \in SynchronizedWatchdog,
             requested' \in BOOLEAN, caller' \in [Callers -> {"idle", "switch", "stop"}],
             host' \in {"up", "software"}, faults' \in 0 .. MaxFaults
      PROVE  TypeOK'
  BY <1>d DEF RebootStep, TypeOK
<1>1. CASE init
  <2> DEFINE s == IF softwareReboot THEN "Malfunction" ELSE swd.status
  <2>0. s \in Statuses
    BY <1>a, RecordFacts DEF Statuses
  <2>1. swd' \in SynchronizedWatchdog
    <3>1. \/ swd' = [swd EXCEPT !.status = "Armed", !.timeout = Timeout, !.started = TRUE]
          \/ swd' = [swd EXCEPT !.status = s, !.started = TRUE]
      BY <1>1 DEF init
    <3> HIDE DEF s
    <3> QED BY <3>1, <2>0, <1>a, RecordFacts
  <2>3. device' \in Device
    BY <1>1, <1>a, RecordFacts DEF init
  <2>2. /\ starter' \in {"startFeeding", "done"} /\ faults' \in 0 .. MaxFaults
        /\ ctxDone' \in BOOLEAN
    BY <1>1, <1>a, <1>b DEF init, TypeOK
  <2> QED BY <1>1, <2>1, <2>2, <2>3 DEF init, TypeOK
<1>2. CASE startFeeding
  <2>1. swd' \in SynchronizedWatchdog
    BY <1>2, <1>a, RecordFacts DEF startFeeding
  <2> QED BY <1>2, <2>1 DEF startFeeding, TypeOK
<1>3. CASE disarm
  <2>1. swd' \in SynchronizedWatchdog /\ device' \in Device /\ faults' \in 0 .. MaxFaults
    BY <1>3, <1>a, <1>b, RecordFacts DEF disarm, Statuses
  <2> QED BY <1>3, <2>1 DEF disarm, TypeOK
<1>4. CASE feedRound
  BY <1>4 DEF feedRound, TypeOK
<1>5. CASE feed
  <2>1. swd' \in SynchronizedWatchdog /\ device' \in Device /\ faults' \in 0 .. MaxFaults
    BY <1>5, <1>a, <1>b, RecordFacts DEF feed
  <2>2. feedIn' \in 0 .. FeedPeriod
    BY <1>5 DEF feed
  <2> QED BY <1>5, <2>1, <2>2 DEF feed, TypeOK
<1>6. CASE NewAnnotationUpdater
  <2>1. swd.timeout \in {0, Timeout}
    BY <1>a DEF SynchronizedWatchdog
  <2>2. toPublish' \in Reading
    <3>1. \A b \in BOOLEAN, n \in {0, Timeout} : [initiated |-> b, timeout |-> n] \in Reading
      BY DEF Reading
    <3>2. (wd /\ swd.status = "Armed") \in BOOLEAN
      OBVIOUS
    <3>3. [initiated |-> wd /\ swd.status = "Armed", timeout |-> swd.timeout] \in Reading
      BY ONLY <2>1, <3>1, <3>2, Zenon
    <3> QED BY <1>6, <3>3, Zenon DEF NewAnnotationUpdater, ReadWatchdog, TypeOK
  <2> QED BY <1>6, <2>2 DEF NewAnnotationUpdater, TypeOK
<1>7. CASE UpdateNodeAnnotations
  <2>1. toPublish.timeout \in {0, Timeout} /\ toPublish' \in Reading
    BY <1>7 DEF UpdateNodeAnnotations, TypeOK, Reading, NothingRead
  <2>2. /\ \/ UNCHANGED annotations
           \/ \E v \in {"true", "false"} : annotations' = [capable |-> v, timeout |-> toPublish.timeout]
        /\ faults' \in 0 .. MaxFaults
    BY <1>7, <1>a, <1>b DEF UpdateNodeAnnotations
  <2>3. annotations' \in Annotations
    <3>1. CASE UNCHANGED annotations
      BY <3>1 DEF TypeOK
    <3>2. ASSUME NEW v \in {"true", "false"},
                 annotations' = [capable |-> v, timeout |-> toPublish.timeout]
          PROVE  annotations' \in Annotations
      BY <3>2, <2>1 DEF Annotations
    <3> QED BY <2>2, <3>1, <3>2
  <2> QED BY <1>7, <2>1, <2>2, <2>3 DEF UpdateNodeAnnotations, TypeOK
<1>8. CASE StopPod
  BY <1>8 DEF StopPod, TypeOK
<1>9. CASE Restart
  BY <1>9, <1>a, <1>b, <1>c DEF Restart
<1>10. CASE Crash
  BY <1>10, <1>b, <1>c DEF Crash, TypeOK
<1>11. CASE deviceFires
  BY <1>11 DEF deviceFires, process, TypeOK
<1>12. CASE Tick
  <2>1. swd' \in SynchronizedWatchdog
    BY <1>12, <1>a, RecordFacts DEF Tick
  <2>2. device' \in Device
    <3>1. device.running => device.age < Timeout
      <4>1. ~(device.running /\ device.age >= Timeout)
        BY <1>12 DEF Tick, Expired
      <4>2. device.age \in Nat
        BY <1>a, RecordFacts
      <4> QED BY <4>1, <4>2
    <3>2. device.age < Timeout => [device EXCEPT !.age = @ + 1] \in Device
      BY <1>a, RecordFacts
    <3> QED BY <1>12, <1>a, <3>1, <3>2 DEF Tick
  <2>3. feedIn' \in 0 .. FeedPeriod
    BY <1>12, <1>a DEF Tick
  <2> QED BY <1>12, <2>1, <2>2, <2>3 DEF Tick, TypeOK
<1>13. ASSUME NEW c \in Callers, Reboot(c) PROVE TypeOK'
  <2>1. caller' \in [Callers -> {"idle", "switch", "stop"}]
    BY <1>13, <1>a DEF Reboot, softwareRebootHook, Returns
  <2>2. host' \in {"up", "software"} /\ faults' \in 0 .. MaxFaults
    BY <1>13, <1>a, <1>b DEF Reboot, softwareRebootHook
  <2>3. requested' \in BOOLEAN /\ RebootStep /\ UNCHANGED <<swd, device>>
    BY <1>13 DEF Reboot, softwareRebootHook
  <2> QED BY <2>1, <2>2, <2>3, <1>a, <1>d
<1>14. ASSUME NEW c \in Callers, RebootSwitch(c) PROVE TypeOK'
  <2>1. caller' \in [Callers -> {"idle", "switch", "stop"}]
    BY <1>14, <1>a DEF RebootSwitch, softwareRebootHook, Returns
  <2>2. host' \in {"up", "software"} /\ faults' \in 0 .. MaxFaults
    BY <1>14, <1>a, <1>b DEF RebootSwitch, softwareRebootHook
  <2>3. UNCHANGED requested /\ RebootStep /\ UNCHANGED <<swd, device>>
    BY <1>14 DEF RebootSwitch, softwareRebootHook
  <2> QED BY <2>1, <2>2, <2>3, <1>a, <1>d DEF TypeOK
<1>15. ASSUME NEW c \in Callers, Stop(c) PROVE TypeOK'
  <2>1. caller' \in [Callers -> {"idle", "switch", "stop"}]
    BY <1>15, <1>a DEF Stop, Returns
  <2>2. swd' \in SynchronizedWatchdog
    BY <1>15, <1>a, RecordFacts DEF Stop, Statuses
  <2> QED BY <1>15, <2>1, <2>2, <1>a, <1>d DEF Stop, TypeOK
<1>16. ASSUME NEW c \in Callers, StopPanics(c) PROVE TypeOK'
  <2>1. CASE Returns(c) /\ UNCHANGED <<process, faults>>
    <3>1. caller' \in [Callers -> {"idle", "switch", "stop"}]
      BY <2>1, <1>a DEF Returns
    <3> QED BY <1>16, <2>1, <3>1 DEF StopPanics, process, TypeOK
  <2>2. CASE Fault /\ wd' = wd /\ NewProcess
    BY <1>16, <2>2, <1>b, <1>c DEF StopPanics, TypeOK
  <2> QED BY <1>16, <2>1, <2>2 DEF StopPanics
<1> QED BY <1>1, <1>2, <1>3, <1>4, <1>5, <1>6, <1>7, <1>8,
          <1>9, <1>10, <1>11, <1>12, <1>13, <1>14, <1>15, <1>16 DEF Next

\* init fixes status and timeout once per process, and the updater waits for it.
LEMMA StartStep ==
    ASSUME TypeOK, StartInv, Next
    PROVE  StartInv'
<1> USE TimesAssumption DEF TypeOK, SynchronizedWatchdog, Statuses, StartInv
<1>1. CASE init
  BY <1>1 DEF init
<1>2. CASE startFeeding
  BY <1>2 DEF startFeeding
<1>3. CASE disarm
  BY <1>3 DEF disarm
<1>4. CASE feedRound
  BY <1>4 DEF feedRound
<1>5. CASE feed
  BY <1>5 DEF feed
<1>6. CASE NewAnnotationUpdater
  BY <1>6 DEF NewAnnotationUpdater
<1>7. CASE UpdateNodeAnnotations
  BY <1>7 DEF UpdateNodeAnnotations
<1>8. CASE StopPod
  BY <1>8 DEF StopPod
<1>9. CASE Restart
  BY <1>9 DEF Restart, NewProcess, NewSynced
<1>10. CASE Crash
  BY <1>10 DEF Crash, NewProcess, NewSynced
<1>11. CASE deviceFires
  BY <1>11 DEF deviceFires, process
<1>12. CASE Tick
  BY <1>12 DEF Tick
<1>13. ASSUME NEW c \in Callers, Reboot(c) PROVE StartInv'
  BY <1>13 DEF Reboot, RebootStep, softwareRebootHook
<1>14. ASSUME NEW c \in Callers, RebootSwitch(c) PROVE StartInv'
  BY <1>14 DEF RebootSwitch, RebootStep, softwareRebootHook
<1>15. ASSUME NEW c \in Callers, Stop(c) PROVE StartInv'
  BY <1>15 DEF Stop, RebootStep
<1>16. ASSUME NEW c \in Callers, StopPanics(c) PROVE StartInv'
  <2>1. CASE Returns(c) /\ UNCHANGED <<process, faults>>
    BY <1>16, <2>1 DEF StopPanics, process
  <2>2. CASE Fault /\ wd' = wd /\ NewProcess
    BY <1>16, <2>2 DEF StopPanics, NewProcess, NewSynced
  <2> QED BY <1>16, <2>1, <2>2 DEF StopPanics
<1> QED BY <1>1, <1>2, <1>3, <1>4, <1>5, <1>6, <1>7, <1>8,
          <1>9, <1>10, <1>11, <1>12, <1>13, <1>14, <1>15, <1>16 DEF Next

\* As long as nobody asks for a reboot and nothing fails, the device stays tended.
LEMMA TendedStep ==
    ASSUME TypeOK, StartInv, TendedInv, Next
    PROVE  TendedInv'
<1> SUFFICES ASSUME Unasked' PROVE Tended'
  BY DEF TendedInv
<1>a. /\ swd \in SynchronizedWatchdog /\ device \in Device /\ feedIn \in 0 .. FeedPeriod
      /\ starter \in {"init", "startFeeding", "running", "done"}
      /\ faults \in 0 .. MaxFaults
  BY DEF TypeOK
<1>e. faults' = 0 /\ ~requested'
  BY DEF Unasked
<1>b. ~Fault
  BY <1>a, <1>e, TimesAssumption DEF Fault
<1>c. UNCHANGED faults /\ (UNCHANGED requested \/ requested')
  <2>1. CASE init \/ startFeeding \/ disarm \/ feedRound \/ feed
    BY <1>b, <2>1 DEF init, startFeeding, disarm, feedRound, feed
  <2>2. ASSUME NEW c \in Callers, Reboot(c) \/ RebootSwitch(c) \/ Stop(c) \/ StopPanics(c)
        PROVE  UNCHANGED faults /\ (UNCHANGED requested \/ requested')
    BY <1>b, <2>2 DEF Reboot, RebootSwitch, Stop, StopPanics, softwareRebootHook
  <2>3. CASE NewAnnotationUpdater \/ UpdateNodeAnnotations \/ StopPod \/ Restart \/ Crash
    BY <1>b, <2>3 DEF NewAnnotationUpdater, UpdateNodeAnnotations, StopPod, Restart, Crash
  <2>4. CASE deviceFires \/ Tick
    BY <1>b, <2>4 DEF deviceFires, Tick
  <2> QED BY <2>1, <2>2, <2>3, <2>4 DEF Next
<1>d. Tended
  BY <1>c, <1>e DEF TendedInv, Unasked
<1> USE TimesAssumption DEF Tended, SynchronizedWatchdog, Device
<1>1. CASE init
  <2>1. /\ device' = Fed /\ starter' = "startFeeding" /\ UNCHANGED <<feeder, caller, host>>
        /\ swd' = [swd EXCEPT !.status = "Armed", !.timeout = Timeout, !.started = TRUE]
    BY <1>1, <1>b DEF init
  <2>2. swd'.status = "Armed" /\ swd'.cancelled = swd.cancelled
    BY <2>1, <1>a
  <2> QED BY <1>1, <2>1, <2>2, <1>d DEF init, Fed
<1>2. CASE startFeeding
  BY <1>2, <1>a, <1>d DEF startFeeding
<1>3. CASE disarm
  <2>1. /\ device' = Off /\ starter' = "done" /\ UNCHANGED <<feeder, feedIn, caller, host>>
        /\ swd' = [swd EXCEPT !.status = "Disarmed", !.cancelled = TRUE]
    BY <1>3, <1>b, <1>d DEF disarm
  <2>2. swd'.status = "Disarmed"
    BY <2>1, <1>a
  <2> QED BY <2>1, <2>2, <1>d DEF Off
<1>4. CASE feedRound
  BY <1>4, <1>a, <1>d DEF feedRound
<1>5. CASE feed
  BY <1>5, <1>a, <1>b, <1>d DEF feed, Fed
<1>6. CASE NewAnnotationUpdater
  BY <1>6, <1>a, <1>d DEF NewAnnotationUpdater
<1>7. CASE UpdateNodeAnnotations
  BY <1>7, <1>a, <1>b, <1>d DEF UpdateNodeAnnotations
<1>8. CASE StopPod
  BY <1>8, <1>a, <1>d DEF StopPod
<1>9. CASE Restart
  BY <1>9, <1>a, <1>b, <1>d DEF Restart, NewProcess, NewSynced
<1>10. CASE Crash
  BY <1>10, <1>a, <1>b, <1>d DEF Crash
<1>11. CASE deviceFires
  BY <1>11, <1>a, <1>d DEF deviceFires, process, Expired
<1>12. CASE Tick
  BY <1>12, <1>a, <1>d DEF Tick, Expired
<1>13. ASSUME NEW c \in Callers, Reboot(c) PROVE Tended'
  BY <1>13, <1>e DEF Reboot
<1>14. ASSUME NEW c \in Callers, RebootSwitch(c) PROVE Tended'
  BY <1>14, <1>a, <1>d DEF RebootSwitch
<1>15. ASSUME NEW c \in Callers, Stop(c) PROVE Tended'
  BY <1>15, <1>a, <1>d DEF Stop
<1>16. ASSUME NEW c \in Callers, StopPanics(c) PROVE Tended'
  BY <1>16, <1>a, <1>d DEF StopPanics
<1> QED BY <1>1, <1>2, <1>3, <1>4, <1>5, <1>6, <1>7, <1>8,
          <1>9, <1>10, <1>11, <1>12, <1>13, <1>14, <1>15, <1>16 DEF Next

\* What was read stays true until it is published: only the end of Start, after the
\* manager was stopped, changes the status of a watchdog other than to triggered.
LEMMA ReadingStep ==
    ASSUME TypeOK, StartInv, ReadingIsTrue, Next
    PROVE  ReadingIsTrue'
<1> USE TimesAssumption DEF TypeOK, SynchronizedWatchdog, Statuses, StartInv, ReadingIsTrue
<1>1. CASE init
  BY <1>1 DEF init
<1>2. CASE startFeeding
  BY <1>2 DEF startFeeding
<1>3. CASE disarm
  <2>1. CASE swd.status # "Armed"
    BY <1>3, <2>1 DEF disarm
  <2>2. CASE swd.status = "Armed"
    <3>1. ctxDone' /\ swd'.timeout = Timeout
      BY <1>3, <2>2 DEF disarm
    <3> QED BY <3>1
  <2> QED BY <2>1, <2>2
<1>4. CASE feedRound
  BY <1>4 DEF feedRound
<1>5. CASE feed
  BY <1>5 DEF feed
<1>6. CASE NewAnnotationUpdater
  <2>1. CASE ReadWatchdog
    <3>1. /\ toPublish'.timeout = swd.timeout
          /\ toPublish'.initiated <=> wd /\ swd.status = "Armed"
          /\ UNCHANGED swd
      BY <1>6, <2>1 DEF NewAnnotationUpdater, ReadWatchdog
    <3>2. swd.status = "Armed" => wd
      OBVIOUS
    <3> QED BY <3>1, <3>2
  <2>2. CASE updater' = "skipped"
    BY <2>2
  <2> QED BY <1>6, <2>1, <2>2 DEF NewAnnotationUpdater
<1>7. CASE UpdateNodeAnnotations
  BY <1>7 DEF UpdateNodeAnnotations
<1>8. CASE StopPod
  BY <1>8 DEF StopPod
<1>9. CASE Restart
  BY <1>9 DEF Restart, NewProcess, NewSynced
<1>10. CASE Crash
  BY <1>10 DEF Crash, NewProcess, NewSynced
<1>11. CASE deviceFires
  BY <1>11 DEF deviceFires, process
<1>12. CASE Tick
  BY <1>12 DEF Tick
<1>13. ASSUME NEW c \in Callers, Reboot(c) PROVE ReadingIsTrue'
  BY <1>13 DEF Reboot, RebootStep, softwareRebootHook
<1>14. ASSUME NEW c \in Callers, RebootSwitch(c) PROVE ReadingIsTrue'
  BY <1>14 DEF RebootSwitch, RebootStep, softwareRebootHook
<1>15. ASSUME NEW c \in Callers, Stop(c) PROVE ReadingIsTrue'
  BY <1>15 DEF Stop, RebootStep
<1>16. ASSUME NEW c \in Callers, StopPanics(c) PROVE ReadingIsTrue'
  <2>1. CASE Returns(c) /\ UNCHANGED <<process, faults>>
    BY <1>16, <2>1 DEF StopPanics, process
  <2>2. CASE Fault /\ wd' = wd /\ NewProcess
    BY <1>16, <2>2 DEF StopPanics, NewProcess, NewSynced
  <2> QED BY <1>16, <2>1, <2>2 DEF StopPanics
<1> QED BY <1>1, <1>2, <1>3, <1>4, <1>5, <1>6, <1>7, <1>8,
          <1>9, <1>10, <1>11, <1>12, <1>13, <1>14, <1>15, <1>16 DEF Next

\* What was published was true when it was read, and stays true for the same reason.
LEMMA AnnotationsStep ==
    ASSUME TypeOK, StartInv, ReadingIsTrue, AnnotationsAreTrue, Next
    PROVE  AnnotationsAreTrue'
<1> USE TimesAssumption DEF TypeOK, SynchronizedWatchdog, Statuses, StartInv, AnnotationsAreTrue
<1>1. CASE init
  BY <1>1 DEF init
<1>2. CASE startFeeding
  BY <1>2 DEF startFeeding
<1>3. CASE disarm
  <2>1. CASE swd.status # "Armed"
    BY <1>3, <2>1 DEF disarm
  <2>2. CASE swd.status = "Armed"
    <3>1. ctxDone' /\ swd'.timeout = Timeout
      BY <1>3, <2>2 DEF disarm
    <3> QED BY <3>1
  <2> QED BY <2>1, <2>2
<1>4. CASE feedRound
  BY <1>4 DEF feedRound
<1>5. CASE feed
  BY <1>5 DEF feed
<1>6. CASE NewAnnotationUpdater
  BY <1>6 DEF NewAnnotationUpdater
<1>7. CASE UpdateNodeAnnotations
  <2>1. CASE updater' = "failed"
    BY <2>1
  <2>2. CASE updater' # "failed"
    <3>1. /\ annotations'.timeout = toPublish.timeout
          /\ annotations'.capable = "true" <=> toPublish.initiated \/ softwareReboot
          /\ UNCHANGED <<swd, ctxDone, softwareReboot>>
      BY <1>7, <2>2 DEF UpdateNodeAnnotations
    <3>2. updater = "update"
      BY <1>7 DEF UpdateNodeAnnotations
    <3> QED BY <3>1, <3>2 DEF ReadingIsTrue
  <2> QED BY <2>1, <2>2
<1>8. CASE StopPod
  BY <1>8 DEF StopPod
<1>9. CASE Restart
  BY <1>9 DEF Restart, NewProcess, NewSynced
<1>10. CASE Crash
  BY <1>10 DEF Crash, NewProcess, NewSynced
<1>11. CASE deviceFires
  BY <1>11 DEF deviceFires, process
<1>12. CASE Tick
  BY <1>12 DEF Tick
<1>13. ASSUME NEW c \in Callers, Reboot(c) PROVE AnnotationsAreTrue'
  BY <1>13 DEF Reboot, RebootStep, softwareRebootHook
<1>14. ASSUME NEW c \in Callers, RebootSwitch(c) PROVE AnnotationsAreTrue'
  BY <1>14 DEF RebootSwitch, RebootStep, softwareRebootHook
<1>15. ASSUME NEW c \in Callers, Stop(c) PROVE AnnotationsAreTrue'
  BY <1>15 DEF Stop, RebootStep
<1>16. ASSUME NEW c \in Callers, StopPanics(c) PROVE AnnotationsAreTrue'
  <2>1. CASE Returns(c) /\ UNCHANGED <<process, faults>>
    BY <1>16, <2>1 DEF StopPanics, process
  <2>2. CASE Fault /\ wd' = wd /\ NewProcess
    BY <1>16, <2>2 DEF StopPanics, NewProcess, NewSynced
  <2> QED BY <1>16, <2>1, <2>2 DEF StopPanics
<1> QED BY <1>1, <1>2, <1>3, <1>4, <1>5, <1>6, <1>7, <1>8,
          <1>9, <1>10, <1>11, <1>12, <1>13, <1>14, <1>15, <1>16 DEF Next

LEMMA StutterHolds ==
    ASSUME WInv, UNCHANGED vars
    PROVE  WInv'
<1> USE DEF vars, process
<1>1. TypeOK'
  BY DEF WInv, TypeOK
<1>2. StartInv' /\ ReadingIsTrue' /\ AnnotationsAreTrue'
  BY DEF WInv, StartInv, ReadingIsTrue, AnnotationsAreTrue
<1>3. TendedInv'
  BY DEF WInv, TendedInv, Unasked, Tended
<1> QED BY <1>1, <1>2, <1>3 DEF WInv

LEMMA Inductive == Spec => []WInv
<1>1. ASSUME WInv, [Next]_vars PROVE WInv'
  <2>1. CASE Next
    BY <1>1, <2>1, TypeStep, StartStep, TendedStep, ReadingStep, AnnotationsStep DEF WInv
  <2>2. CASE UNCHANGED vars
    BY <1>1, <2>2, StutterHolds
  <2> QED BY <1>1, <2>1, <2>2
<1> QED BY <1>1, InitHolds, PTL DEF Spec

-----------------------------------------------------------------------------
\* The watchdog, the device and the goroutines around them keep to their states, and the
\* device never counts beyond its timeout.
THEOREM WatchdogTyped == Spec => []TypeOK
<1>1. WInv => TypeOK
  BY DEF WInv
<1> QED BY <1>1, Inductive, PTL

\* Nobody reboots a node without being asked, for any timeout and any shorter feeding
\* period, however often the pod is stopped and started.
THEOREM NeverUnasked == Spec => []NoSpuriousReboot
<1>1. WInv => NoSpuriousReboot
  <2>1. WInv => faults \in 0 .. MaxFaults
    BY DEF WInv, TypeOK
  <2>2. WInv => faults = 0 \/ faults > 0
    BY <2>1, TimesAssumption
  <2> QED BY <2>2 DEF WInv, TendedInv, Tended, Unasked, NoSpuriousReboot
<1> QED BY <1>1, Inductive, PTL

\* Once published, the annotations say what the agent can do until it is stopped, although
\* the watchdog goes on between the reading of its status and the calls that publish it.
THEOREM AnnotationsTrue == Spec => []AnnotationsAreTrue
<1>1. WInv => AnnotationsAreTrue
  BY DEF WInv
<1> QED BY <1>1, Inductive, PTL

\* A triggered watchdog is neither fed nor disarmed by the process that triggered it.
THEOREM TriggeredForGood == Spec => TriggeredIsFinal
<1> DEFINE Final == swd.status = "Triggered" /\ swd'.started
         => swd'.status = "Triggered" /\ device'.running = device.running /\ device'.age >= device.age
<1>1. ASSUME WInv, [Next]_vars PROVE [Final]_vars
  <2> SUFFICES ASSUME swd.status = "Triggered", swd'.started, Next
               PROVE  /\ swd'.status = "Triggered"
                      /\ device'.running = device.running /\ device'.age >= device.age
    BY <1>1
  <2>a. /\ swd \in SynchronizedWatchdog /\ device \in Device /\ device.age \in Nat
        /\ starter # "init"
    BY <1>1, RecordFacts DEF WInv, TypeOK, StartInv
  <2>c. ASSUME UNCHANGED <<swd, device>>
        PROVE  /\ swd'.status = "Triggered"
               /\ device'.running = device.running /\ device'.age >= device.age
    BY <2>c, <2>a
  <2>b. ~NewProcess
    BY DEF NewProcess, NewSynced
  <2> USE TimesAssumption DEF SynchronizedWatchdog, Device
  <2>1. CASE init
    BY <2>1, <2>a DEF init
  <2>2. CASE startFeeding
    BY <2>2, <2>a DEF startFeeding
  <2>3. CASE disarm
    BY <2>3, <2>a DEF disarm
  <2>4. CASE feedRound
    BY <2>4, <2>a DEF feedRound
  <2>5. CASE feed
    BY <2>5, <2>a DEF feed
  <2>6. CASE NewAnnotationUpdater
    BY <2>6, <2>a DEF NewAnnotationUpdater
  <2>7. CASE UpdateNodeAnnotations
    BY <2>7, <2>a DEF UpdateNodeAnnotations
  <2>8. CASE StopPod
    BY <2>8, <2>a DEF StopPod
  <2>9. CASE Restart
    BY <2>9, <2>a, <2>b DEF Restart
  <2>10. CASE Crash
    BY <2>10, <2>a, <2>b DEF Crash
  <2>11. CASE deviceFires
    <3>1. UNCHANGED <<swd, device>>
      BY <2>11 DEF deviceFires, process
    <3> QED BY <3>1, <2>c
  <2>12. CASE Tick
    BY <2>12, <2>a DEF Tick
  <2>13. ASSUME NEW c \in Callers, Reboot(c)
        PROVE  /\ swd'.status = "Triggered"
               /\ device'.running = device.running /\ device'.age >= device.age
    <3>1. UNCHANGED <<swd, device>>
      BY <2>13 DEF Reboot, softwareRebootHook
    <3> QED BY <3>1, <2>c
  <2>14. ASSUME NEW c \in Callers, RebootSwitch(c)
        PROVE  /\ swd'.status = "Triggered"
               /\ device'.running = device.running /\ device'.age >= device.age
    <3>1. UNCHANGED <<swd, device>>
      BY <2>14 DEF RebootSwitch, softwareRebootHook
    <3> QED BY <3>1, <2>c
  <2>15. ASSUME NEW c \in Callers, Stop(c)
        PROVE  /\ swd'.status = "Triggered"
               /\ device'.running = device.running /\ device'.age >= device.age
    BY <2>15, <2>a DEF Stop
  <2>16. ASSUME NEW c \in Callers, StopPanics(c)
        PROVE  /\ swd'.status = "Triggered"
               /\ device'.running = device.running /\ device'.age >= device.age
    BY <2>16, <2>a, <2>b DEF StopPanics, process
  <2> QED BY <2>1, <2>2, <2>3, <2>4, <2>5, <2>6, <2>7, <2>8,
            <2>9, <2>10, <2>11, <2>12, <2>13, <2>14, <2>15, <2>16 DEF Next
<1> QED BY <1>1, Inductive, PTL DEF Spec, TriggeredIsFinal
=============================================================================
