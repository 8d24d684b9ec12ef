--------------------------- MODULE DetectionProofs --------------------------
(***************************************************************************)
(* What Detection is about, for every configuration and every number of    *)
(* peers: how many batches an agent asks, and that a node that is cut off  *)
(* reboots in the time that the manager allows for it, where the situation *)
(* satisfies Covered or Configured.                                        *)
(***************************************************************************)
EXTENDS Detection, WellFoundedInduction, TLAPS

-----------------------------------------------------------------------------
(* Division. *)

\* The quotient, rounded down.
LEMMA DivBounds ==
    ASSUME NEW x \in Int, NEW d \in Nat \ {0}
    PROVE  x \div d \in Int /\ d * (x \div d) <= x /\ x < d * (x \div d) + d
OBVIOUS

\* No other number satisfies these bounds.
LEMMA DivUnique ==
    ASSUME NEW x \in Int, NEW d \in Nat \ {0}, NEW q \in Int, d * q <= x, x < d * q + d
    PROVE  x \div d = q
<1> DEFINE p == x \div d
<1>1. p \in Int /\ d * p <= x /\ x < d * p + d
  BY DivBounds
<1> HIDE DEF p
<1>2. d * (p - q) < d /\ d * (q - p) < d
  BY <1>1
<1>3. ~(p - q >= 1) /\ ~(q - p >= 1)
  BY <1>1, <1>2
<1>4. p = q
  BY <1>1, <1>3
<1> QED BY <1>4 DEF p

\* n nodes in batches of d.
CeilDiv(n, d) == (n + d - 1) \div d

\* Taking a full batch off the list leaves one batch fewer.
LEMMA CeilDivFacts ==
    ASSUME NEW n \in Nat, NEW d \in Nat \ {0}
    PROVE  /\ CeilDiv(n, d) \in Nat
           /\ CeilDiv(0, d) = 0
           /\ n \in 1 .. d => CeilDiv(n, d) = 1
           /\ n > d => CeilDiv(n, d) = 1 + CeilDiv(n - d, d)
<1>1. CeilDiv(0, d) = 0
  <2>1. d * 0 <= 0 + d - 1 /\ 0 + d - 1 < d * 0 + d
    OBVIOUS
  <2> QED BY <2>1, DivUnique DEF CeilDiv
<1>2. ASSUME n \in 1 .. d PROVE CeilDiv(n, d) = 1
  <2>1. d * 1 <= n + d - 1 /\ n + d - 1 < d * 1 + d
    BY <1>2
  <2> QED BY <2>1, DivUnique DEF CeilDiv
<1>3. ASSUME n > d PROVE CeilDiv(n, d) = 1 + CeilDiv(n - d, d)
  <2> DEFINE q == (n - d + d - 1) \div d
  <2>1. n - d + d - 1 \in Int
    OBVIOUS
  <2>2. q \in Int /\ d * q <= n - d + d - 1 /\ n - d + d - 1 < d * q + d
    BY <2>1, DivBounds
  <2> HIDE DEF q
  <2>3. d * (1 + q) = d + d * q
    BY <2>2
  <2>4. d * (1 + q) <= n + d - 1 /\ n + d - 1 < d * (1 + q) + d
    BY <2>2, <2>3
  <2>5. (n + d - 1) \div d = 1 + q
    BY <2>2, <2>4, DivUnique
  <2> QED BY <2>5 DEF CeilDiv, q
<1>4. CeilDiv(n, d) \in Nat
  <2> DEFINE q == (n + d - 1) \div d
  <2>1. q \in Int /\ n + d - 1 < d * q + d
    BY DivBounds
  <2> HIDE DEF q
  <2>2. 0 < d * (q + 1)
    BY <2>1
  <2>3. ~(q + 1 <= 0)
    BY <2>1, <2>2
  <2> QED BY <2>1, <2>3 DEF CeilDiv, q
<1> QED BY <1>1, <1>2, <1>3, <1>4

\* More nodes never make fewer batches.
LEMMA CeilDivMonotonic ==
    ASSUME NEW m \in Nat, NEW n \in Nat, NEW d \in Nat \ {0}, m <= n
    PROVE  CeilDiv(m, d) <= CeilDiv(n, d)
<1> DEFINE p == (m + d - 1) \div d
           q == (n + d - 1) \div d
<1>1. p \in Int /\ q \in Int /\ d * p <= m + d - 1 /\ n + d - 1 < d * q + d
  BY DivBounds
<1> HIDE DEF p, q
<1>2. 0 < d * (q + 1 - p)
  BY <1>1
<1>3. ~(q + 1 - p <= 0)
  BY <1>1, <1>2
<1>4. p <= q
  BY <1>1, <1>3
<1> QED BY <1>4 DEF CeilDiv, p, q

-----------------------------------------------------------------------------
(* The batches of a check. *)

\* No batch after the first is smaller than the first.
LEMMA LaterBatchSize ==
    ASSUME NEW total \in Nat
    PROVE  LaterBatch(total) \in Nat /\ LaterBatch(total) >= 3
<1>1. (total - 3) \div 10 \in Int
  OBVIOUS
<1> QED BY <1>1 DEF LaterBatch, MinNrOfNodesInBatch, MaxNrOfBatchesAfterFirst

\* The peers that are not in the first batch make at most 13 more.
LEMMA LaterBatches ==
    ASSUME NEW total \in Nat, total > 3
    PROVE  CeilDiv(total - 3, LaterBatch(total)) <= 13
<1> DEFINE n == total - 3
           share == LaterBatch(total)
           q == (n + share - 1) \div share
<1>1. n \in Nat /\ share \in Nat \ {0} /\ share >= 3
  BY LaterBatchSize
<1>2. n < 10 * share + 10
  <2>1. n \div 10 \in Int /\ n < 10 * (n \div 10) + 10
    OBVIOUS
  <2>2. n \div 10 <= share
    BY <2>1 DEF LaterBatch, MinNrOfNodesInBatch, MaxNrOfBatchesAfterFirst
  <2> QED BY <1>1, <2>1, <2>2
<1> HIDE DEF n, share
<1>3. q \in Int /\ share * q <= n + share - 1
  BY <1>1, DivBounds
<1> HIDE DEF q
<1>4. share * (14 - q) > 0
  <2>1. share * (14 - q) = 14 * share - share * q
    BY <1>1, <1>3
  <2> QED BY <1>1, <1>2, <1>3, <2>1
<1>5. ~(14 - q <= 0)
  BY <1>1, <1>3, <1>4
<1> QED BY <1>3, <1>5 DEF CeilDiv, q, n, share

\* The batches that it takes to ask the n of total peers that are left.
Left(total, n) ==
    IF n = 0 THEN 0
    ELSE IF n # total THEN CeilDiv(n, LaterBatch(total))
    ELSE IF n <= 3 THEN 1 ELSE 1 + CeilDiv(n - 3, LaterBatch(total))

\* A batch is one to all of the peers that are left.
LEMMA BatchSize ==
    ASSUME NEW total \in Nat, NEW n \in 1 .. total
    PROVE  GetNextBatchSize(total, n) \in 1 .. n
BY LaterBatchSize DEF GetNextBatchSize, MinNrOfNodesInBatch

\* The batches are counted as GetNrOfBatches does: one, and those for the rest.
LEMMA LeftStep ==
    ASSUME NEW total \in Nat, NEW n \in 0 .. total
    PROVE  /\ Left(total, n) \in Nat
           /\ Left(total, 0) = 0
           /\ n # 0 => Left(total, n) = 1 + Left(total, n - GetNextBatchSize(total, n))
<1> DEFINE share == LaterBatch(total)
<1>0. share \in Nat \ {0} /\ share >= 3
  BY LaterBatchSize
<1> HIDE DEF share
<1>1. \A k \in Nat : CeilDiv(k, share) \in Nat
  BY <1>0, CeilDivFacts
<1>2. Left(total, n) \in Nat
  <2>1. n > 3 => n - 3 \in Nat
    OBVIOUS
  <2>2. n > 3 => CeilDiv(n - 3, share) \in Nat
    BY <1>1, <2>1
  <2> QED BY <1>1, <2>2 DEF Left, share
<1>3. Left(total, 0) = 0
  BY DEF Left
<1>4. ASSUME n # 0 PROVE Left(total, n) = 1 + Left(total, n - GetNextBatchSize(total, n))
  <2>1. CASE n = total /\ n <= 3
    <3>1. GetNextBatchSize(total, n) = n
      BY <1>4, <2>1 DEF GetNextBatchSize, MinNrOfNodesInBatch
    <3> QED BY <1>4, <2>1, <3>1 DEF Left
  <2>2. CASE n = total /\ n > 3
    <3>1. GetNextBatchSize(total, n) = 3
      BY <2>2 DEF GetNextBatchSize, MinNrOfNodesInBatch
    <3>2. Left(total, n - 3) = CeilDiv(n - 3, share)
      BY <2>2 DEF Left, share
    <3>3. Left(total, n) = 1 + CeilDiv(n - 3, share)
      BY <2>2 DEF Left, share
    <3> QED BY <3>1, <3>2, <3>3
  <2>3. CASE n # total /\ n <= share
    <3>1. GetNextBatchSize(total, n) = n
      BY <1>0, <2>3 DEF GetNextBatchSize, share
    <3>2. CeilDiv(n, share) = 1
      <4>1. n \in Nat /\ n \in 1 .. share
        BY <1>0, <1>4, <2>3
      <4> QED BY <1>0, <4>1, CeilDivFacts
    <3> QED BY <1>4, <2>3, <3>1, <3>2 DEF Left, share
  <2>4. CASE n # total /\ n > share
    <3>1. GetNextBatchSize(total, n) = share
      BY <1>0, <2>4 DEF GetNextBatchSize, share
    <3>2. CeilDiv(n, share) = 1 + CeilDiv(n - share, share)
      <4>1. n \in Nat
        OBVIOUS
      <4> QED BY <1>0, <2>4, <4>1, CeilDivFacts
    <3>3. Left(total, n) = CeilDiv(n, share)
      BY <1>4, <2>4 DEF Left, share
    <3>4. n - share # 0 /\ n - share # total
      BY <1>0, <2>4
    <3>5. Left(total, n - share) = CeilDiv(n - share, share)
      BY <3>4 DEF Left, share
    <3> QED BY <3>1, <3>2, <3>3, <3>5
  <2> QED BY <1>0, <2>1, <2>2, <2>3, <2>4
<1> QED BY <1>2, <1>3, <1>4

\* A nonempty set of naturals has a least element.
LEMMA LeastElement ==
    ASSUME NEW S \in SUBSET Nat, S # {}
    PROVE  \E n \in S : \A m \in S : n <= m
<1>1. \A m, n \in Nat : <<m, n>> \in OpToRel(<, Nat) <=> m < n
  BY DEF OpToRel
<1>2. PICK n \in S : \A m \in S : ~(<<m, n>> \in OpToRel(<, Nat))
  BY WFMin, NatLessThanWellFounded
<1>3. \A m \in S : ~(m < n)
  BY <1>1, <1>2, Zenon
<1>4. \A m \in S : m \in Nat /\ n \in Nat
  OBVIOUS
<1>5. \A m \in S : n <= m
  BY <1>3, <1>4
<1> QED BY <1>5

\* The loop of GetNrOfBatches ends with the number of batches there are. Its defining
\* equation has a solution, and two solutions would differ first at some n.
LEMMA CountedBatches ==
    ASSUME NEW total \in Nat
    PROVE  GetNrOfBatches(total) = Left(total, total)
<1> DEFINE Loop(g) == [n \in 0 .. total |->
                         IF n = 0 THEN 0 ELSE 1 + g[n - GetNextBatchSize(total, n)]]
           left == [n \in 0 .. total |-> Left(total, n)]
           b == CHOOSE g : g = Loop(g)
<1>1. GetNrOfBatches(total) = b[total]
  BY DEF GetNrOfBatches
<1>2. \A n \in 1 .. total : n - GetNextBatchSize(total, n) \in 0 .. n - 1
  BY BatchSize
<1>3. left = Loop(left)
  <2>1. ASSUME NEW n \in 0 .. total
        PROVE  Left(total, n) = IF n = 0 THEN 0 ELSE 1 + left[n - GetNextBatchSize(total, n)]
    <3>1. CASE n = 0
      BY <3>1, LeftStep
    <3>2. CASE n # 0
      <4>1. n - GetNextBatchSize(total, n) \in 0 .. total
        BY <1>2, <3>2
      <4>2. Left(total, n) = 1 + Left(total, n - GetNextBatchSize(total, n))
        BY <3>2, LeftStep
      <4> QED BY <3>2, <4>1, <4>2
    <3> QED BY <3>1, <3>2
  <2> QED BY <2>1
<1>4. b = Loop(b)
  <2> HIDE DEF left
  <2>1. \E g : g = Loop(g)
    BY <1>3
  <2> QED BY <2>1
<1> HIDE DEF b
<1>5. \A n \in 0 .. total : b[n] = IF n = 0 THEN 0 ELSE 1 + b[n - GetNextBatchSize(total, n)]
  BY <1>4
<1>6. \A n \in 0 .. total : b[n] = Left(total, n)
  <2> DEFINE S == {n \in 0 .. total : b[n] # Left(total, n)}
  <2>1. S \in SUBSET Nat /\ \A n \in 0 .. total : n \in S <=> b[n] # Left(total, n)
    OBVIOUS
  <2> HIDE DEF S
  <2>2. ASSUME S # {} PROVE FALSE
    <3>1. PICK n \in S : \A m \in S : n <= m
      BY <2>1, <2>2, LeastElement
    <3>2. n \in 0 .. total /\ b[n] # Left(total, n)
      BY <3>1 DEF S
    <3>3. n # 0
      BY <1>5, <3>2, LeftStep
    <3>4. PICK k \in 0 .. n - 1 : k = n - GetNextBatchSize(total, n)
      BY <1>2, <3>2, <3>3
    <3>5. k \in 0 .. total /\ k \notin S
      BY <3>1, <3>2, <3>4
    <3>6. b[k] = Left(total, k)
      BY <2>1, <3>5
    <3>7. b[n] = 1 + b[k]
      BY <1>5, <3>2, <3>3, <3>4
    <3>8. Left(total, n) = 1 + Left(total, k)
      BY <3>2, <3>3, <3>4, LeftStep
    <3> QED BY <3>2, <3>6, <3>7, <3>8
  <2> QED BY <2>1, <2>2
<1> QED BY <1>1, <1>6

-----------------------------------------------------------------------------
(* The inductive invariants. *)

\* Where the check is and what is left to ask; workers have no control plane peers.
StateInv ==
    /\ TypeOK
    /\ s \in Scenarios
    /\ IF pc = "ask" THEN remaining >= 1 /\ errorCount = s.threshold ELSE remaining = 0
    /\ batches + remaining <= NrOfPeers
    /\ pc \in {"confirm", "isolated"} => s.controlPlane
    /\ lastResponse <= 0

\* The batches asked and those to come are always as many as a check needs.
CountInv ==
    ~first /\ pc \in {"ask", "isolated", "reboot"} =>
        batches + Left(NrOfPeers, remaining) = Left(NrOfPeers, NrOfPeers)

\* How late it is when e errors are counted and the next check is waited for.
Counted(t, e) ==
    IF e < t.threshold THEN e * (CheckTime(t) + StatusTime(t))
    ELSE MaxTimeForNoPeersResponse(t) + StatusTime(t)

\* How late it is in a check, with the time that the rest of the check takes.
TimeInv ==
    LET all == Left(NrOfPeers, NrOfPeers) * BatchTime(s)
    IN  /\ pc = "wait" => now <= Counted(s, errorCount)
        /\ pc = "confirm" => now + StatusTime(s) <= Counted(s, errorCount)
        /\ pc \in {"ask", "isolated"} =>
              now + Left(NrOfPeers, remaining) * BatchTime(s) <= AskedBy(s) + all
        /\ pc = "reboot" => now <= AskedBy(s) + all + StatusTime(s)

-----------------------------------------------------------------------------
(* The situations. *)

\* The times of a situation are numbers, and there is a peer.
LEMMA ScenarioFacts ==
    ASSUME s \in Scenarios
    PROVE  /\ s \in Situations
           /\ s.controlPlane \in BOOLEAN
           /\ s.threshold \in Nat \ {0}
           /\ NrOfPeers \in Nat \ {0}
           /\ s.interval \in Nat /\ s.apiTimeout \in Nat
           /\ CheckTime(s) \in Nat /\ BatchTime(s) \in Nat /\ StatusTime(s) \in Nat
           /\ MaxTimeForNoPeersResponse(s) \in Nat
           /\ CheckTime(s) = s.interval + s.apiTimeout + StatusTime(s)
<1>1. s \in Situations
  BY ScenariosAdmitted
<1>2. /\ s.interval \in Nat /\ s.apiTimeout \in Nat /\ s.threshold \in Nat \ {0}
      /\ s.dial \in Nat /\ s.request \in Nat /\ s.noPeers \in Nat \cup {Unset}
      /\ s.peers \in Nat \ {0} /\ s.controlPlane \in BOOLEAN
  BY <1>1 DEF Situations
<1>3. NrOfPeers \in Nat \ {0}
  BY <1>2 DEF NrOfPeers
<1>4. getEffectivePeerRequestTimeout(s) \in Nat
  BY <1>2 DEF getEffectivePeerRequestTimeout, Larger, MinimumBuffer
<1>5. MaxTimeForNoPeersResponse(s) \in Nat
  BY <1>2 DEF MaxTimeForNoPeersResponse, OrDefault, Unset, DefaultNoPeers
<1>6. BatchTime(s) \in Nat
  BY <1>2, <1>4 DEF BatchTime
<1>7. StatusTime(s) \in Nat
  BY <1>2, <1>6 DEF StatusTime
<1>8. CheckTime(s) \in Nat /\ CheckTime(s) = s.interval + s.apiTimeout + StatusTime(s)
  BY <1>2, <1>7 DEF CheckTime
<1> QED BY <1>1, <1>2, <1>3, <1>5, <1>6, <1>7, <1>8

\* What a call that is not answered takes: at most its timeouts.
LEMMA Timeouts ==
    ASSUME s \in Scenarios
    PROVE  /\ \A call \in Unanswered : call \in Nat /\ call <= BatchTime(s)
           /\ s.controlPlane =>
                 \A status \in ControlPlaneStatus : status \in Nat /\ status <= StatusTime(s)
<1>1. s.dial \in Nat /\ s.request \in Nat /\ s.apiTimeout \in Nat
  BY ScenariosAdmitted DEF Situations
<1>2. getEffectivePeerRequestTimeout(s) \in Nat
  BY <1>1 DEF getEffectivePeerRequestTimeout, Larger, MinimumBuffer
<1>3. \A call \in Unanswered : call \in Nat /\ call <= BatchTime(s)
  BY <1>1, <1>2 DEF Unanswered, BatchTime
<1>4. ASSUME s.controlPlane, NEW status \in ControlPlaneStatus
      PROVE  status \in Nat /\ status <= StatusTime(s)
  <2>1. PICK call \in Unanswered, refresh \in Takes(s.apiTimeout), again \in Unanswered :
               status = call + refresh + again
    BY <1>4 DEF ControlPlaneStatus
  <2>2. refresh \in Nat /\ refresh <= s.apiTimeout
    BY <1>1, <2>1 DEF Takes
  <2>3. BatchTime(s) \in Nat /\ StatusTime(s) = 2 * BatchTime(s) + s.apiTimeout
    BY <1>4, ScenarioFacts DEF StatusTime
  <2>4. call \in Nat /\ call <= BatchTime(s) /\ again \in Nat /\ again <= BatchTime(s)
    BY <1>3, <2>1
  <2> QED BY <1>1, <2>1, <2>2, <2>3, <2>4
<1> QED BY <1>3, <1>4

\* A check that was under way has no more batches left than a whole one takes.
LEMMA LeftAtFirst ==
    ASSUME s \in Scenarios, NEW n \in LeftAfterBatches
    PROVE  /\ n \in 1 .. NrOfPeers
           /\ Left(NrOfPeers, n) <= Left(NrOfPeers, NrOfPeers)
<1> DEFINE P == NrOfPeers
           share == LaterBatch(P)
<1>1. P \in Nat
  BY ScenarioFacts
<1>2. n \in Nat /\ n >= 1 /\ n <= P - 3
  BY <1>1 DEF LeftAfterBatches, MinNrOfNodesInBatch
<1> HIDE DEF P
<1>3. share \in Nat \ {0}
  BY <1>1, LaterBatchSize
<1> HIDE DEF share
<1>4. P - 3 \in Nat
  BY <1>1, <1>2
<1>5. CeilDiv(n, share) <= CeilDiv(P - 3, share)
  BY <1>2, <1>3, <1>4, CeilDivMonotonic
<1>6. CeilDiv(n, share) \in Nat /\ CeilDiv(P - 3, share) \in Nat
  BY <1>2, <1>3, <1>4, CeilDivFacts
<1>7. Left(P, n) = CeilDiv(n, share) /\ Left(P, P) = 1 + CeilDiv(P - 3, share)
  BY <1>1, <1>2 DEF Left, share
<1>8. Left(P, n) <= Left(P, P)
  BY <1>5, <1>6, <1>7
<1>9. n \in 1 .. P
  BY <1>1, <1>2
<1> QED BY <1>8, <1>9 DEF P

\* A step takes off the list what the next batch is, and one batch fewer is left.
LEMMA Popped ==
    ASSUME NEW P \in Nat, NEW n \in 1 .. P, NEW k, k = n - GetNextBatchSize(P, n)
    PROVE  k \in 0 .. n - 1 /\ Left(P, k) \in Nat /\ Left(P, n) = Left(P, k) + 1
<1>1. GetNextBatchSize(P, n) \in 1 .. n
  BY BatchSize
<1>2. k \in 0 .. n - 1 /\ k \in 0 .. P
  BY <1>1
<1>3. Left(P, k) \in Nat
  BY <1>2, LeftStep
<1>4. Left(P, n) = 1 + Left(P, k)
  BY LeftStep
<1> QED BY <1>2, <1>3, <1>4

-----------------------------------------------------------------------------
(* The state of the check. *)

LEMMA InitState == Init => StateInv
<1> SUFFICES ASSUME Init PROVE StateInv
  OBVIOUS
<1>1. s \in Scenarios
  BY DEF Init
<1> USE <1>1
<1>2. /\ s \in Situations /\ s.threshold \in Nat \ {0} /\ NrOfPeers \in Nat \ {0}
      /\ MaxTimeForNoPeersResponse(s) \in Nat
  BY ScenarioFacts
<1>3. /\ remaining \in 0 .. NrOfPeers /\ pc \in {"wait", "ask"}
      /\ IF pc = "ask" THEN remaining >= 1 /\ errorCount = s.threshold ELSE remaining = 0
  <2>1. CASE pc = "wait" /\ remaining = 0
    BY <1>2, <2>1
  <2>2. CASE pc = "ask" /\ errorCount = s.threshold /\ remaining \in LeftAfterBatches
    <3>1. remaining \in 1 .. NrOfPeers
      BY <2>2, LeftAtFirst
    <3> QED BY <1>2, <2>2, <3>1
  <2> QED BY <2>1, <2>2 DEF Init
<1>4. lastResponse \in Int /\ lastResponse <= 0
  BY <1>2 DEF Init
<1>5. now \in Nat /\ first \in BOOLEAN /\ errorCount \in 0 .. s.threshold /\ batches = 0
  BY DEF Init
<1> HIDE <1>1
<1> QED BY <1>1, <1>2, <1>3, <1>4, <1>5 DEF StateInv, TypeOK

\* What a check takes until it asks the peers.
LEMMA CheckTimes ==
    ASSUME StateInv, Check
    PROVE  now' \in Nat /\ now' <= now + CheckTime(s)
<1> USE DEF StateInv
<1>1. /\ s.interval \in Nat /\ s.apiTimeout \in Nat
      /\ now \in Nat /\ s.controlPlane \in BOOLEAN /\ StatusTime(s) \in Nat
      /\ CheckTime(s) = s.interval + s.apiTimeout + StatusTime(s)
  BY ScenarioFacts DEF TypeOK
<1>2. PICK wait \in (IF first THEN 0 .. s.interval ELSE {s.interval}),
           call \in Takes(s.apiTimeout),
           status \in (IF s.controlPlane THEN ControlPlaneStatus ELSE {0}) :
             now' = now + wait + call + status
  BY DEF Check
<1>3. wait \in Nat /\ wait <= s.interval /\ call \in Nat /\ call <= s.apiTimeout
  BY <1>1, <1>2 DEF Takes
<1>4. status \in Nat /\ status <= StatusTime(s)
  BY <1>1, <1>2, Timeouts
<1> QED BY <1>1, <1>2, <1>3, <1>4

LEMMA CheckState ==
    ASSUME StateInv, Check
    PROVE  StateInv'
<1> USE DEF StateInv
<1>1. /\ s \in Situations /\ s.controlPlane \in BOOLEAN /\ s.threshold \in Nat \ {0}
      /\ NrOfPeers \in Nat \ {0}
  BY ScenarioFacts
<1>2. s' = s /\ lastResponse' = lastResponse /\ batches' = 0 /\ first' = FALSE /\ NrOfPeers' = NrOfPeers
  BY DEF Check, NrOfPeers
<1>3. now' \in Nat
  BY CheckTimes
<1>4. errorCount' \in 0 .. s.threshold /\ (errorCount' = s.threshold \/ errorCount' < s.threshold)
  BY <1>1 DEF Check, TypeOK
<1>5. /\ pc' \in {"wait", "confirm", "ask"}
      /\ pc' = "ask" => remaining' = NrOfPeers /\ errorCount' = s.threshold
      /\ pc' # "ask" => remaining' = 0
      /\ pc' = "confirm" => s.controlPlane
  BY <1>1, <1>4 DEF Check
<1>6. remaining' \in 0 .. NrOfPeers /\ (pc' = "ask" => remaining' >= 1)
  BY <1>1, <1>5
<1>7. lastResponse \in Int /\ lastResponse <= 0
  BY DEF TypeOK
<1>8. 0 \in 0 .. NrOfPeers /\ 0 + remaining' <= NrOfPeers
  <2>1. \A P \in Nat : \A n \in 0 .. P : 0 \in 0 .. P /\ 0 + n <= P
    OBVIOUS
  <2> QED BY <1>1, <1>6, <2>1
<1>9. batches' \in 0 .. NrOfPeers' /\ batches' + remaining' <= NrOfPeers'
  BY <1>2, <1>8
<1>10. TypeOK'
  BY <1>1, <1>2, <1>3, <1>4, <1>5, <1>6, <1>7, <1>9 DEF TypeOK
<1> QED BY <1>2, <1>5, <1>6, <1>7, <1>9, <1>10

\* What a batch takes, and what it leaves to ask.
LEMMA AskBatchTimes ==
    ASSUME StateInv, AskBatch
    PROVE  /\ now' \in Nat /\ now' <= now + BatchTime(s)
           /\ remaining \in 1 .. NrOfPeers
           /\ remaining' \in 0 .. remaining - 1
           /\ Left(NrOfPeers, remaining') \in Nat
           /\ Left(NrOfPeers, remaining) = Left(NrOfPeers, remaining') + 1
           /\ s' = s /\ NrOfPeers' = NrOfPeers
           /\ errorCount = s.threshold /\ errorCount' = s.threshold
           /\ batches' = batches + 1
<1> USE DEF StateInv
<1>1. BatchTime(s) \in Nat /\ NrOfPeers \in Nat /\ now \in Nat
  BY ScenarioFacts DEF TypeOK
<1>2. now' \in Nat /\ now' <= now + BatchTime(s)
  BY <1>1, Timeouts DEF AskBatch
<1>3. remaining \in 1 .. NrOfPeers /\ errorCount = s.threshold
  BY <1>1 DEF AskBatch, TypeOK
<1>4. remaining' = remaining - GetNextBatchSize(NrOfPeers, remaining)
  BY DEF AskBatch, popPeerIPs
<1>5. /\ remaining' \in 0 .. remaining - 1 /\ Left(NrOfPeers, remaining') \in Nat
      /\ Left(NrOfPeers, remaining) = Left(NrOfPeers, remaining') + 1
  BY <1>1, <1>3, <1>4, Popped
<1>6. /\ s' = s /\ NrOfPeers' = NrOfPeers /\ errorCount' = errorCount
      /\ batches' = batches + 1
  BY DEF AskBatch, NrOfPeers
<1> QED BY <1>2, <1>3, <1>5, <1>6

\* Where a batch leads to.
LEMMA AskBatchEnds ==
    ASSUME StateInv, AskBatch
    PROVE  /\ remaining' > 0 => pc' = "ask"
           /\ remaining' = 0 => pc' \in {"wait", "confirm", "isolated", "reboot"}
           /\ pc' \in {"confirm", "isolated"} => s.controlPlane
           /\ pc' \in {"wait", "confirm"} => now' <= MaxTimeForNoPeersResponse(s)
<1> USE DEF StateInv
<1>1. remaining' \in Nat /\ now' \in Nat
  BY AskBatchTimes, ScenarioFacts
<1>2. MaxTimeForNoPeersResponse(s) \in Nat /\ lastResponse \in Int /\ lastResponse <= 0
  BY ScenarioFacts DEF TypeOK
<1>3. CASE remaining' > 0
  <2>1. pc' = "ask"
    BY <1>1, <1>3 DEF AskBatch
  <2> QED BY <1>1, <1>3, <2>1
<1>4. CASE remaining' = 0 /\ now' <= lastResponse + MaxTimeForNoPeersResponse(s)
  <2>1. pc' = IF s.controlPlane THEN "confirm" ELSE "wait"
    BY <1>1, <1>2, <1>4 DEF AskBatch
  <2>2. now' <= MaxTimeForNoPeersResponse(s)
    BY <1>1, <1>2, <1>4
  <2> QED BY <1>4, <2>1, <2>2
<1>5. CASE remaining' = 0 /\ now' > lastResponse + MaxTimeForNoPeersResponse(s)
  <2>1. pc' = IF s.controlPlane THEN "isolated" ELSE "reboot"
    BY <1>1, <1>2, <1>5 DEF AskBatch
  <2> QED BY <1>5, <2>1
<1> QED BY <1>1, <1>2, <1>3, <1>4, <1>5

LEMMA AskBatchState ==
    ASSUME StateInv, AskBatch
    PROVE  StateInv'
<1> USE DEF StateInv
<1>1. s \in Situations /\ s.threshold \in Nat /\ NrOfPeers \in Nat
  BY ScenarioFacts
<1>2. /\ now' \in Nat /\ remaining \in 1 .. NrOfPeers /\ remaining' \in 0 .. remaining - 1
      /\ s' = s /\ NrOfPeers' = NrOfPeers /\ errorCount' = s.threshold /\ batches' = batches + 1
  BY AskBatchTimes
<1>3. first' = first /\ lastResponse' = lastResponse
  BY DEF AskBatch
<1>4. batches \in Nat /\ batches + remaining <= NrOfPeers
  BY DEF TypeOK
<1>5. /\ remaining' \in 0 .. NrOfPeers /\ batches' \in 0 .. NrOfPeers
      /\ batches' + remaining' <= NrOfPeers
  <2>1. ASSUME NEW P \in Nat, NEW n \in 1 .. P, NEW k \in 0 .. n - 1, NEW b \in Nat, b + n <= P
        PROVE  k \in 0 .. P /\ b + 1 \in 0 .. P /\ b + 1 + k <= P
    BY <2>1
  <2> QED BY <1>1, <1>2, <1>4, <2>1
<1>6. remaining' > 0 \/ remaining' = 0
  BY <1>1, <1>2
<1>7. /\ pc' \in {"wait", "ask", "confirm", "isolated", "reboot"}
      /\ IF pc' = "ask" THEN remaining' >= 1 ELSE remaining' = 0
      /\ pc' \in {"confirm", "isolated"} => s.controlPlane
  BY <1>1, <1>2, <1>6, AskBatchEnds
<1>8. TypeOK'
  BY <1>1, <1>2, <1>3, <1>5, <1>7 DEF TypeOK
<1> QED BY <1>2, <1>3, <1>5, <1>7, <1>8

LEMMA ConfirmState ==
    ASSUME StateInv, Confirm
    PROVE  StateInv'
<1> USE DEF StateInv
<1>1. now \in Nat /\ s.controlPlane
  BY DEF TypeOK, Confirm
<1>2. now' \in Nat
  BY <1>1, Timeouts DEF Confirm
<1>3. /\ UNCHANGED <<s, first, errorCount, remaining, batches, lastResponse>>
      /\ NrOfPeers' = NrOfPeers /\ pc' \in {"reboot", "wait"} /\ pc # "ask"
  BY DEF Confirm, NrOfPeers
<1>4. TypeOK'
  BY <1>2, <1>3 DEF TypeOK
<1> QED BY <1>3, <1>4

LEMMA NextState == StateInv /\ [Next]_vars => StateInv'
<1> SUFFICES ASSUME StateInv, [Next]_vars PROVE StateInv'
  OBVIOUS
<1>1. CASE Check
  BY <1>1, CheckState
<1>2. CASE AskBatch
  BY <1>2, AskBatchState
<1>3. CASE Confirm
  BY <1>3, ConfirmState
<1>4. CASE UNCHANGED vars
  BY <1>4 DEF vars, StateInv, TypeOK, NrOfPeers
<1> QED BY <1>1, <1>2, <1>3, <1>4 DEF Next

-----------------------------------------------------------------------------
(* The number of batches. *)

\* The batches of a whole check.
LEMMA AllBatches ==
    ASSUME s \in Scenarios
    PROVE  /\ Left(NrOfPeers, NrOfPeers) \in Nat
           /\ Left(NrOfPeers, 0) = 0
           /\ GetNrOfBatches(NrOfPeers) = Left(NrOfPeers, NrOfPeers)
<1>1. NrOfPeers \in Nat
  BY ScenarioFacts
<1>2. NrOfPeers \in 0 .. NrOfPeers
  BY <1>1
<1> QED BY <1>1, <1>2, LeftStep, CountedBatches

LEMMA NextCount == StateInv /\ CountInv /\ [Next]_vars => CountInv'
<1> SUFFICES ASSUME StateInv, CountInv, [Next]_vars PROVE CountInv'
  OBVIOUS
<1>0. s \in Scenarios /\ batches \in Nat
  BY DEF StateInv, TypeOK
<1>1. CASE Check
  <2>1. NrOfPeers' = NrOfPeers /\ batches' = 0 /\ pc' \in {"wait", "confirm", "ask"}
    BY <1>1 DEF Check, NrOfPeers
  <2>2. pc' = "ask" => remaining' = NrOfPeers
    BY <1>1 DEF Check
  <2>3. Left(NrOfPeers, NrOfPeers) \in Nat
    BY <1>0, AllBatches
  <2>4. 0 + Left(NrOfPeers, NrOfPeers) = Left(NrOfPeers, NrOfPeers)
    BY <2>3
  <2> QED BY <2>1, <2>2, <2>4 DEF CountInv
<1>2. CASE AskBatch
  <2>1. /\ Left(NrOfPeers, remaining') \in Nat
        /\ Left(NrOfPeers, remaining) = Left(NrOfPeers, remaining') + 1
        /\ NrOfPeers' = NrOfPeers /\ batches' = batches + 1
    BY <1>2, AskBatchTimes
  <2>2. batches' + Left(NrOfPeers, remaining') = batches + Left(NrOfPeers, remaining)
    BY <1>0, <2>1
  <2>3. pc = "ask" /\ first' = first
    BY <1>2 DEF AskBatch
  <2> QED BY <2>1, <2>2, <2>3 DEF CountInv
<1>3. CASE Confirm
  <2>1. /\ NrOfPeers' = NrOfPeers /\ batches' = batches /\ remaining' = remaining /\ first' = first
        /\ pc' \in {"wait", "reboot"} /\ (pc' = "reboot" => pc = "isolated")
    BY <1>3 DEF Confirm, NrOfPeers
  <2> QED BY <2>1 DEF CountInv
<1>4. CASE UNCHANGED vars
  BY <1>4 DEF vars, CountInv, NrOfPeers
<1> QED BY <1>1, <1>2, <1>3, <1>4 DEF Next

\* When nobody is left to ask, all batches have been asked.
LEMMA CountFollows == StateInv /\ CountInv => BatchesAsCounted
<1> SUFFICES ASSUME StateInv, CountInv, pc = "reboot", ~first PROVE BatchesAsCounted
  BY DEF BatchesAsCounted
<1>1. s \in Scenarios /\ remaining = 0 /\ batches \in Nat
  BY DEF StateInv, TypeOK
<1>2. /\ Left(NrOfPeers, NrOfPeers) \in Nat /\ Left(NrOfPeers, 0) = 0
      /\ GetNrOfBatches(NrOfPeers) = Left(NrOfPeers, NrOfPeers)
  BY <1>1, AllBatches
<1>3. batches + 0 = Left(NrOfPeers, NrOfPeers)
  BY <1>1, <1>2 DEF CountInv
<1>4. batches = Left(NrOfPeers, NrOfPeers)
  BY <1>1, <1>2, <1>3
<1>5. NrOfPeers \in Nat \ {0}
  BY <1>1, ScenarioFacts
<1>6. ASSUME NEW P \in Nat \ {0}
      PROVE  Left(P, P) = IF P - 3 <= 0 THEN 1
                          ELSE 1 + (P - 3 + LaterBatch(P) - 1) \div LaterBatch(P)
  BY <1>6 DEF Left, CeilDiv
<1>7. ASSUME NEW P \in Nat \ {0}, Left(P, P) \in Nat PROVE Left(P, P) <= 14
  <2>1. CASE P <= 3
    BY <1>7, <2>1 DEF Left
  <2>2. CASE P > 3
    <3>1. CeilDiv(P - 3, LaterBatch(P)) <= 13
      BY <2>2, LaterBatches
    <3>2. CeilDiv(P - 3, LaterBatch(P)) \in Nat
      BY <2>2, LaterBatchSize, CeilDivFacts
    <3> QED BY <2>2, <3>1, <3>2 DEF Left
  <2> QED BY <2>1, <2>2
<1> QED BY <1>2, <1>4, <1>5, <1>6, <1>7 DEF BatchesAsCounted, MinNrOfNodesInBatch

-----------------------------------------------------------------------------
(* The time. *)

\* Products with nonnegative factors grow with each of them.
LEMMA ProductGrows ==
    ASSUME NEW a \in Nat, NEW b \in Nat, NEW c \in Nat, a <= b
    PROVE  a * c \in Nat /\ b * c \in Nat /\ a * c <= b * c
<1>1. (b - a) * c \in Nat /\ (b - a) * c = b * c - a * c
  OBVIOUS
<1>2. a * c \in Nat /\ b * c \in Nat
  OBVIOUS
<1> QED BY <1>1, <1>2

\* Each error that is counted takes a check, the last one leads to the peers.
LEMMA TimeFacts ==
    ASSUME s \in Scenarios
    PROVE  /\ AskedBy(s) \in Nat
           /\ \A e \in Nat : Counted(s, e) \in Nat
           /\ Left(NrOfPeers, NrOfPeers) * BatchTime(s) \in Nat
           /\ \A e \in 0 .. s.threshold : Counted(s, e) + CheckTime(s) <= AskedBy(s)
                 \/ e + 1 < s.threshold
           /\ \A e \in Nat : e + 1 < s.threshold =>
                 Counted(s, e) + CheckTime(s) + StatusTime(s) = Counted(s, e + 1)
           /\ Counted(s, s.threshold) = MaxTimeForNoPeersResponse(s) + StatusTime(s)
<1> DEFINE N == s.threshold
           K == StatusTime(s)
           M == MaxTimeForNoPeersResponse(s)
           U == CheckTime(s)
<1>1. N \in Nat \ {0} /\ K \in Nat /\ M \in Nat /\ U \in Nat /\ BatchTime(s) \in Nat
  BY ScenarioFacts
<1>2. \A e \in Nat : Counted(s, e) = IF e < N THEN e * (U + K) ELSE M + K
  BY DEF Counted
<1>3. AskedBy(s) = Larger((N - 1) * (U + K), M + K) + U
  BY DEF AskedBy
<1>4. Left(NrOfPeers, NrOfPeers) \in Nat
  BY AllBatches
<1>5. Left(NrOfPeers, NrOfPeers) * BatchTime(s) \in Nat
  BY <1>1, <1>4
<1> HIDE DEF N, K, M, U
<1>6. \A e \in Nat : e * (U + K) \in Nat
  BY <1>1
<1>7. \A e \in Nat : Counted(s, e) \in Nat
  BY <1>1, <1>2, <1>6
<1>8. (N - 1) * (U + K) \in Nat
  BY <1>1
<1>9. AskedBy(s) \in Nat
  BY <1>1, <1>3, <1>8 DEF Larger
<1>10. ASSUME NEW e \in 0 .. N PROVE Counted(s, e) + U <= AskedBy(s) \/ e + 1 < N
  <2>1. CASE e + 1 < N
    BY <2>1
  <2>2. CASE e = N - 1
    <3>1. Counted(s, e) = (N - 1) * (U + K)
      BY <1>1, <1>2, <2>2
    <3> QED BY <1>1, <1>3, <1>8, <3>1 DEF Larger
  <2>3. CASE e = N
    <3>1. Counted(s, e) = M + K
      BY <1>1, <1>2, <2>3
    <3> QED BY <1>1, <1>3, <1>8, <3>1 DEF Larger
  <2> QED BY <1>1, <2>1, <2>2, <2>3
<1>11. ASSUME NEW e \in Nat, e + 1 < N PROVE Counted(s, e) + U + K = Counted(s, e + 1)
  <2>1. Counted(s, e) = e * (U + K) /\ Counted(s, e + 1) = (e + 1) * (U + K)
    BY <1>1, <1>2, <1>11
  <2>2. (e + 1) * (U + K) = e * (U + K) + (U + K)
    BY <1>1
  <2> QED BY <1>1, <1>6, <2>1, <2>2
<1>12. Counted(s, N) = M + K
  BY <1>1, <1>2
<1> QED BY <1>5, <1>7, <1>9, <1>10, <1>11, <1>12 DEF N, K, M, U

\* The clock, at the start and in every step.
LEMMA InitTime == Init => TimeInv
<1> SUFFICES ASSUME Init PROVE TimeInv
  OBVIOUS
<1>1. s \in Scenarios /\ now = 0
  BY DEF Init
<1>2. BatchTime(s) \in Nat /\ s.threshold \in Nat \ {0} /\ NrOfPeers \in Nat
  BY <1>1, ScenarioFacts
<1>3. CASE pc = "wait"
  <2>1. errorCount \in Nat
    BY <1>2 DEF Init
  <2>2. Counted(s, errorCount) \in Nat
    BY <1>1, <2>1, TimeFacts
  <2> QED BY <1>1, <1>3, <2>2 DEF TimeInv
<1>4. CASE pc = "ask" /\ remaining \in LeftAfterBatches
  <2>1. remaining \in 0 .. NrOfPeers /\ Left(NrOfPeers, remaining) <= Left(NrOfPeers, NrOfPeers)
    BY <1>1, <1>2, <1>4, LeftAtFirst
  <2>2. Left(NrOfPeers, remaining) \in Nat /\ Left(NrOfPeers, NrOfPeers) \in Nat
    BY <1>1, <1>2, <2>1, LeftStep, AllBatches
  <2>3. AskedBy(s) \in Nat
    BY <1>1, TimeFacts
  <2> DEFINE left == Left(NrOfPeers, remaining) * BatchTime(s)
             all == Left(NrOfPeers, NrOfPeers) * BatchTime(s)
  <2>4. left \in Nat /\ all \in Nat /\ left <= all
    BY <1>2, <2>1, <2>2, ProductGrows
  <2> HIDE DEF left, all
  <2>5. 0 + left <= AskedBy(s) + all
    BY <2>3, <2>4
  <2> QED BY <1>1, <1>4, <2>5 DEF TimeInv, left, all
<1> QED BY <1>3, <1>4 DEF Init

LEMMA CheckTimeInv ==
    ASSUME StateInv, TimeInv, Check
    PROVE  TimeInv'
<1>1. s \in Scenarios /\ now \in Nat /\ errorCount \in 0 .. s.threshold
  BY DEF StateInv, TypeOK
<1>2. CheckTime(s) \in Nat /\ StatusTime(s) \in Nat /\ s.threshold \in Nat \ {0}
  BY <1>1, ScenarioFacts
<1>3. s' = s /\ NrOfPeers' = NrOfPeers /\ pc = "wait"
  BY DEF Check, NrOfPeers
<1>4. now' \in Nat /\ now' <= now + CheckTime(s)
  BY CheckTimes
<1>5. errorCount \in Nat /\ Counted(s, errorCount) \in Nat
  BY <1>1, <1>2, TimeFacts
<1>6. now <= Counted(s, errorCount)
  BY <1>3 DEF TimeInv
<1>7. now' <= Counted(s, errorCount) + CheckTime(s)
  BY <1>1, <1>2, <1>4, <1>5, <1>6
<1>8. CASE errorCount' < s.threshold
  <2>1. pc' \in {"wait", "confirm"} /\ errorCount' = errorCount + 1 /\ errorCount + 1 < s.threshold
    BY <1>1, <1>2, <1>8 DEF Check
  <2>2. Counted(s, errorCount') = Counted(s, errorCount) + CheckTime(s) + StatusTime(s)
    BY <1>1, <1>5, <2>1, TimeFacts
  <2>3. now' <= Counted(s, errorCount') /\ now' + StatusTime(s) <= Counted(s, errorCount')
    BY <1>2, <1>4, <1>5, <1>7, <2>2
  <2> QED BY <1>3, <2>1, <2>3 DEF TimeInv
<1>9. CASE ~(errorCount' < s.threshold)
  <2>1. pc' = "ask" /\ remaining' = NrOfPeers
    BY <1>9 DEF Check
  <2>2. ~(errorCount + 1 < s.threshold)
    BY <1>1, <1>2, <1>9 DEF Check
  <2>3. Counted(s, errorCount) + CheckTime(s) <= AskedBy(s) /\ AskedBy(s) \in Nat
    BY <1>1, <2>2, TimeFacts
  <2>4. now' <= AskedBy(s)
    BY <1>2, <1>4, <1>5, <1>7, <2>3
  <2> DEFINE all == Left(NrOfPeers, NrOfPeers) * BatchTime(s)
  <2>5. all \in Nat
    BY <1>1, TimeFacts
  <2> HIDE DEF all
  <2>6. now' + all <= AskedBy(s) + all
    BY <1>4, <2>3, <2>4, <2>5
  <2> QED BY <1>3, <2>1, <2>6 DEF TimeInv, all
<1> QED BY <1>8, <1>9

LEMMA AskBatchTimeInv ==
    ASSUME StateInv, TimeInv, AskBatch
    PROVE  TimeInv'
<1>1. /\ s \in Scenarios /\ now \in Nat /\ pc = "ask" /\ s.threshold \in Nat
      /\ NrOfPeers \in Nat /\ BatchTime(s) \in Nat /\ StatusTime(s) \in Nat
      /\ MaxTimeForNoPeersResponse(s) \in Nat
  BY ScenarioFacts DEF StateInv, TypeOK, AskBatch
<1>2. /\ now' \in Nat /\ now' <= now + BatchTime(s)
      /\ remaining \in 1 .. NrOfPeers /\ remaining' \in 0 .. remaining - 1
      /\ Left(NrOfPeers, remaining') \in Nat
      /\ Left(NrOfPeers, remaining) = Left(NrOfPeers, remaining') + 1
      /\ s' = s /\ NrOfPeers' = NrOfPeers /\ errorCount' = s.threshold
  BY AskBatchTimes
<1>3. ASSUME NEW m \in Nat, NEW n \in Nat, NEW k \in Nat, NEW c \in Nat, m <= n + c
      PROVE  m + k * c <= n + (k + 1) * c
  <2>1. (k + 1) * c = k * c + c /\ k * c \in Nat
    OBVIOUS
  <2> QED BY <1>3, <2>1
<1> DEFINE before == now + Left(NrOfPeers, remaining) * BatchTime(s)
           rest == Left(NrOfPeers, remaining') * BatchTime(s)
           bound == AskedBy(s) + Left(NrOfPeers, NrOfPeers) * BatchTime(s)
<1>4. now' + rest <= before
  BY <1>1, <1>2, <1>3
<1>5. before <= bound
  BY <1>1 DEF TimeInv
<1>6. before \in Int /\ rest \in Nat /\ bound \in Nat
  <2>1. /\ AskedBy(s) \in Nat /\ Left(NrOfPeers, NrOfPeers) * BatchTime(s) \in Nat
    BY <1>1, TimeFacts
  <2>2. Left(NrOfPeers, remaining) \in Nat
    BY <1>2
  <2> QED BY <1>1, <1>2, <2>1, <2>2
<1> HIDE DEF before, rest, bound
<1>7. now' + rest <= bound /\ now' <= bound + StatusTime(s)
  <2>1. ASSUME NEW m \in Nat, NEW r \in Nat, NEW x \in Int, NEW y \in Nat, NEW k \in Nat,
               m + r <= x, x <= y
        PROVE  m + r <= y /\ m <= y + k
    BY <2>1
  <2> QED BY <1>1, <1>2, <1>4, <1>5, <1>6, <2>1
<1>8. Counted(s, s.threshold) = MaxTimeForNoPeersResponse(s) + StatusTime(s)
  BY <1>1, TimeFacts
<1>9. pc' \in {"wait", "confirm"} => now' <= MaxTimeForNoPeersResponse(s)
  BY AskBatchEnds
<1>10. pc' \in {"wait", "confirm"} =>
          now' <= Counted(s, s.threshold) /\ now' + StatusTime(s) <= Counted(s, s.threshold)
  BY <1>1, <1>2, <1>8, <1>9
<1> QED BY <1>2, <1>7, <1>10 DEF TimeInv, rest, bound

LEMMA ConfirmTimeInv ==
    ASSUME StateInv, TimeInv, Confirm
    PROVE  TimeInv'
<1>1. /\ s \in Scenarios /\ now \in Nat /\ s.controlPlane /\ remaining = 0
      /\ errorCount \in 0 .. s.threshold
  BY DEF StateInv, TypeOK, Confirm
<1>2. StatusTime(s) \in Nat /\ s.threshold \in Nat
  BY <1>1, ScenarioFacts
<1>3. now' \in Nat /\ now' <= now + StatusTime(s)
  BY <1>1, <1>2, Timeouts DEF Confirm
<1>4. s' = s /\ NrOfPeers' = NrOfPeers /\ errorCount' = errorCount
  BY DEF Confirm, NrOfPeers
<1>5. CASE pc = "isolated"
  <2> DEFINE bound == AskedBy(s) + Left(NrOfPeers, NrOfPeers) * BatchTime(s)
  <2>1. now + Left(NrOfPeers, 0) * BatchTime(s) <= bound
    BY <1>1, <1>5 DEF TimeInv
  <2>2. Left(NrOfPeers, 0) * BatchTime(s) = 0
    BY <1>1, AllBatches, ScenarioFacts
  <2>3. bound \in Nat
    BY <1>1, TimeFacts
  <2> HIDE DEF bound
  <2>4. now' <= bound + StatusTime(s)
    BY <1>1, <1>2, <1>3, <2>1, <2>2, <2>3
  <2>5. pc' = "reboot"
    BY <1>5 DEF Confirm
  <2> QED BY <1>4, <2>4, <2>5 DEF TimeInv, bound
<1>6. CASE pc = "confirm"
  <2>1. now + StatusTime(s) <= Counted(s, errorCount)
    BY <1>6 DEF TimeInv
  <2>2. errorCount \in Nat /\ Counted(s, errorCount) \in Nat
    BY <1>1, <1>2, TimeFacts
  <2>3. now' <= Counted(s, errorCount)
    BY <1>1, <1>2, <1>3, <2>1, <2>2
  <2>4. pc' = "wait"
    BY <1>6 DEF Confirm
  <2> QED BY <1>4, <2>3, <2>4 DEF TimeInv
<1> QED BY <1>5, <1>6 DEF Confirm

LEMMA NextTime == StateInv /\ TimeInv /\ [Next]_vars => TimeInv'
<1> SUFFICES ASSUME StateInv, TimeInv, [Next]_vars PROVE TimeInv'
  OBVIOUS
<1>1. CASE Check
  BY <1>1, CheckTimeInv
<1>2. CASE AskBatch
  BY <1>2, AskBatchTimeInv
<1>3. CASE Confirm
  BY <1>3, ConfirmTimeInv
<1>4. CASE UNCHANGED vars
  BY <1>4 DEF vars, TimeInv, NrOfPeers
<1> QED BY <1>1, <1>2, <1>3, <1>4 DEF Next

\* What the invariant says of the last check.
LEMMA SlowestFollows == StateInv /\ TimeInv => SlowestDetection
<1> SUFFICES ASSUME StateInv, TimeInv PROVE SlowestDetection
  OBVIOUS
<1>1. /\ s \in Scenarios /\ now \in Nat /\ errorCount \in 0 .. s.threshold
      /\ remaining \in 0 .. NrOfPeers
      /\ pc \in {"wait", "ask", "confirm", "isolated", "reboot"}
  BY DEF StateInv, TypeOK
<1>2. /\ CheckTime(s) \in Nat /\ BatchTime(s) \in Nat /\ StatusTime(s) \in Nat
      /\ s.threshold \in Nat \ {0} /\ NrOfPeers \in Nat /\ MaxTimeForNoPeersResponse(s) \in Nat
  BY <1>1, ScenarioFacts
<1>3. Left(NrOfPeers, remaining) \in Nat
  BY <1>1, <1>2, LeftStep
<1> DEFINE all == Left(NrOfPeers, NrOfPeers) * BatchTime(s)
           left == Left(NrOfPeers, remaining) * BatchTime(s)
<1>4. AskedBy(s) \in Nat /\ all \in Nat /\ left \in Nat
  BY <1>1, <1>2, <1>3, TimeFacts
<1>5. SlowestTime(s) = AskedBy(s) + all + StatusTime(s)
  BY <1>1, AllBatches DEF SlowestTime, NrOfPeers
<1>6. pc \in {"ask", "isolated"} => now + left <= AskedBy(s) + all
  BY DEF TimeInv
<1>7. pc = "reboot" => now <= AskedBy(s) + all + StatusTime(s)
  BY DEF TimeInv
<1> HIDE DEF all, left
<1>8. CASE pc \in {"ask", "isolated", "reboot"}
  BY <1>1, <1>2, <1>4, <1>5, <1>6, <1>7, <1>8 DEF SlowestDetection
<1>9. CASE pc \in {"wait", "confirm"}
  <2>1. errorCount \in Nat /\ Counted(s, errorCount) \in Nat
    BY <1>1, <1>2, TimeFacts
  <2>2. now <= Counted(s, errorCount)
    BY <1>1, <1>2, <1>9, <2>1 DEF TimeInv
  <2>3. Counted(s, errorCount) <= AskedBy(s)
    <3>1. CASE ~(errorCount + 1 < s.threshold)
      <4>1. Counted(s, errorCount) + CheckTime(s) <= AskedBy(s)
        BY <1>1, <3>1, TimeFacts
      <4> QED BY <1>2, <1>4, <2>1, <4>1
    <3>2. CASE errorCount + 1 < s.threshold
      <4> DEFINE x == errorCount * (CheckTime(s) + StatusTime(s))
                 y == (s.threshold - 1) * (CheckTime(s) + StatusTime(s))
      <4>1. errorCount <= s.threshold - 1 /\ s.threshold - 1 \in Nat
            /\ CheckTime(s) + StatusTime(s) \in Nat
        BY <1>1, <1>2, <3>2
      <4>2. x \in Nat /\ y \in Nat /\ x <= y
        BY <2>1, <4>1, ProductGrows
      <4>3. Counted(s, errorCount) = x
        BY <1>2, <2>1, <3>2 DEF Counted
      <4>4. AskedBy(s) = Larger(y, MaxTimeForNoPeersResponse(s) + StatusTime(s)) + CheckTime(s)
        BY DEF AskedBy
      <4> HIDE DEF x, y
      <4> QED BY <1>2, <4>2, <4>3, <4>4 DEF Larger
    <3> QED BY <3>1, <3>2
  <2> QED BY <1>1, <1>2, <1>4, <1>5, <2>1, <2>2, <2>3 DEF SlowestDetection
<1> QED BY <1>1, <1>8, <1>9

\* What the manager allows is more than that where the situation is covered.
LEMMA AllowsSlowest ==
    ASSUME NEW N \in Nat \ {0}, NEW U \in Nat, NEW M \in Nat, NEW C \in Nat,
           NEW b \in Nat, NEW B \in Nat, b <= B,
           (IF B * C < M THEN B * C ELSE M) <= (N - 1) * U
    PROVE  Larger((N - 1) * U, M) + U + b * C <= U * N + Larger(B * C, M)
<1>1. b * C <= B * C
  <2>1. (B - b) * C \in Nat
    OBVIOUS
  <2>2. (B - b) * C = B * C - b * C
    OBVIOUS
  <2> QED BY <2>1, <2>2
<1>2. (N - 1) * U = N * U - U /\ U * N = N * U
  OBVIOUS
<1> DEFINE NU == N * U
           BC == B * C
           bC == b * C
<1>3. NU \in Nat /\ BC \in Nat /\ bC \in Nat
  OBVIOUS
<1>4. /\ bC <= BC
      /\ (IF BC < M THEN BC ELSE M) <= NU - U
      /\ U * N = NU
  BY <1>1, <1>2
<1> HIDE DEF NU, BC, bC
<1>5. Larger(NU - U, M) + U + bC <= NU + Larger(BC, M)
  BY <1>3, <1>4 DEF Larger
<1>6. (N - 1) * U = NU - U
  BY <1>2 DEF NU
<1> QED BY <1>4, <1>5, <1>6 DEF BC, bC

\* The time that is calculated is enough.
LEMMA CoveredFollows ==
    ASSUME s \in Scenarios, now \in Nat, SlowestDetection, Covered(s)
    PROVE  DetectedInTime
<1>1. s \in Scenarios /\ now \in Nat /\ Covered(s)
  OBVIOUS
<1>2. /\ ~s.controlPlane
      /\ s.request >= s.apiTimeout + 2
      /\ GetNrOfBatches(NrOfPeers) <= GetNrOfBatches(s.workers)
      /\ (IF GetNrOfBatches(s.workers) * (s.dial + s.request) < MaxTimeForNoPeersResponse(s)
          THEN GetNrOfBatches(s.workers) * (s.dial + s.request)
          ELSE MaxTimeForNoPeersResponse(s)) <= (s.threshold - 1) * (s.interval + s.apiTimeout)
  BY <1>1 DEF Covered, validatePeerTimeoutSafety, MinimumBuffer, NrOfPeers
<1>3. /\ CheckTime(s) \in Nat /\ BatchTime(s) \in Nat /\ MaxTimeForNoPeersResponse(s) \in Nat
      /\ s.threshold \in Nat \ {0} /\ s.apiTimeout \in Nat
  BY <1>1, ScenarioFacts
<1>4. /\ s.workers \in Nat /\ s.dial \in Nat /\ s.request \in Nat
      /\ s.watchdog \in Nat \cup {Unset} /\ s.safeTime \in Nat \cup {Unset}
  BY <1>1, ScenariosAdmitted DEF Situations
<1>5. BatchTime(s) = s.dial + s.request /\ CheckTime(s) = s.interval + s.apiTimeout
  <2>1. StatusTime(s) = 0
    BY <1>2 DEF StatusTime
  <2>2. CheckTime(s) = s.interval + s.apiTimeout
    BY <1>1, <2>1, ScenarioFacts
  <2> QED BY <1>2, <1>3, <1>4, <2>2 DEF BatchTime, getEffectivePeerRequestTimeout, Larger, MinimumBuffer
<1> DEFINE b == GetNrOfBatches(NrOfPeers)
           B == GetNrOfBatches(s.workers)
<1>6. b \in Nat /\ B \in Nat /\ b <= B
  <2>1. b \in Nat
    BY <1>1, AllBatches
  <2>2. s.workers \in 0 .. s.workers
    BY <1>4
  <2>3. B \in Nat
    BY <1>4, <2>2, CountedBatches, LeftStep
  <2> QED BY <1>2, <2>1, <2>3
<1>7. /\ now <= AskedBy(s) + b * BatchTime(s)
      /\ AskedBy(s) = Larger((s.threshold - 1) * CheckTime(s), MaxTimeForNoPeersResponse(s)) + CheckTime(s)
  <2>1. StatusTime(s) = 0
    BY <1>2 DEF StatusTime
  <2>2. /\ MaxTimeForNoPeersResponse(s) + 0 = MaxTimeForNoPeersResponse(s)
        /\ CheckTime(s) + 0 = CheckTime(s)
    BY <1>3
  <2>3. AskedBy(s) = Larger((s.threshold - 1) * CheckTime(s), MaxTimeForNoPeersResponse(s)) + CheckTime(s)
    BY <2>1, <2>2 DEF AskedBy
  <2>4. AskedBy(s) + b * BatchTime(s) \in Int
    BY <1>1, <1>3, <1>6, TimeFacts
  <2>5. now <= AskedBy(s) + b * BatchTime(s) + 0
    BY <2>1 DEF SlowestDetection, SlowestTime, NrOfPeers
  <2>6. AskedBy(s) + b * BatchTime(s) + 0 = AskedBy(s) + b * BatchTime(s)
    BY <2>4
  <2> QED BY <2>3, <2>5, <2>6
<1>8. (IF B * BatchTime(s) < MaxTimeForNoPeersResponse(s) THEN B * BatchTime(s)
       ELSE MaxTimeForNoPeersResponse(s)) <= (s.threshold - 1) * CheckTime(s)
  BY <1>2, <1>5
<1> HIDE DEF b, B
<1>9. AskedBy(s) + b * BatchTime(s)
         <= CheckTime(s) * s.threshold + Larger(B * BatchTime(s), MaxTimeForNoPeersResponse(s))
  BY <1>3, <1>6, <1>7, <1>8, AllowsSlowest
<1> DEFINE slowest == AskedBy(s) + b * BatchTime(s)
           allowed == CheckTime(s) * s.threshold
                      + Larger(B * BatchTime(s), MaxTimeForNoPeersResponse(s))
<1>10. slowest \in Int /\ allowed \in Int
  BY <1>1, <1>3, <1>6, TimeFacts DEF Larger
<1>11. WatchdogTimeout(s) \in Nat
  BY <1>4 DEF WatchdogTimeout, OrDefault, Unset, DefaultWatchdogTimeout
<1>12. calculateMinimumRebootDuration(s) = allowed + WatchdogTimeout(s) + 30
  BY <1>5 DEF calculateMinimumRebootDuration, calcNumOfBatches, RebootBuffer, B
<1>13. now <= slowest /\ slowest <= allowed
  BY <1>7, <1>9
<1> HIDE DEF slowest, allowed
<1>14. s.safeTime \in Int
  BY <1>4 DEF Unset
<1>15. now + WatchdogTimeout(s) + 30 <= allowed + WatchdogTimeout(s) + 30
  BY <1>1, <1>10, <1>11, <1>13
<1>16. allowed + WatchdogTimeout(s) + 30 \in Int
  BY <1>10, <1>11
<1> QED BY <1>1, <1>11, <1>12, <1>14, <1>15, <1>16
        DEF DetectedInTime, GetRebootDuration, Larger, RebootBuffer

\* A time that is configured is allowed for as it is.
LEMMA ConfiguredFollows ==
    ASSUME s \in Scenarios, now \in Nat, SlowestDetection, Configured(s)
    PROVE  DetectedInTime
<1>1. s.watchdog \in Nat \cup {Unset} /\ s.safeTime \in Nat \cup {Unset} /\ s.interval \in Nat
      /\ s.apiTimeout \in Nat /\ s.threshold \in Nat /\ s.dial \in Nat /\ s.request \in Nat
      /\ s.workers \in Nat
  BY ScenariosAdmitted DEF Situations
<1>2. WatchdogTimeout(s) \in Nat /\ s.safeTime \in Int
  BY <1>1 DEF WatchdogTimeout, OrDefault, Unset, DefaultWatchdogTimeout
<1>3. SlowestTime(s) \in Nat
  <2>1. AskedBy(s) \in Nat /\ StatusTime(s) \in Nat /\ BatchTime(s) \in Nat
    BY TimeFacts, ScenarioFacts
  <2>2. GetNrOfBatches(s.peers) \in Nat
    BY AllBatches DEF NrOfPeers
  <2> QED BY <2>1, <2>2 DEF SlowestTime
<1>4. now + WatchdogTimeout(s) + 30 <= s.safeTime
  BY <1>2, <1>3 DEF SlowestDetection, Configured, RebootBuffer
<1>5. calculateMinimumRebootDuration(s) \in Int
  <2>1. s.workers \in 0 .. s.workers
    BY <1>1
  <2>2. GetNrOfBatches(s.workers) \in Nat
    BY <1>1, <2>1, CountedBatches, LeftStep
  <2>3. MaxTimeForNoPeersResponse(s) \in Nat
    BY ScenarioFacts
  <2>4. GetNrOfBatches(s.workers) * (s.dial + s.request) \in Nat
        /\ (s.interval + s.apiTimeout) * s.threshold \in Nat
    BY <1>1, <2>2
  <2> QED BY <1>2, <2>3, <2>4
          DEF calculateMinimumRebootDuration, calcNumOfBatches, Larger, RebootBuffer
<1> QED BY <1>2, <1>4, <1>5 DEF DetectedInTime, GetRebootDuration, Larger, RebootBuffer

-----------------------------------------------------------------------------
(* The theorems. *)

\* The check's state is typed: no more peers are asked, and no more batches are made,
\* than there are peers (popPeerIPs, GetNextBatchSize).
THEOREM DetectionTyped == Spec => []TypeOK
<1>1. StateInv => TypeOK
  BY DEF StateInv
<1> QED BY <1>1, InitState, NextState, PTL DEF Spec

\* Whatever the number of peers that it knows, an agent that asks all of them makes the
\* batches that GetNrOfBatches returns for it, one of three and then equal shares of the
\* others, and at most 14 in all.
THEOREM BatchesCounted == Spec => []BatchesAsCounted
<1>1. Init => CountInv
  BY DEF Init, CountInv
<1> QED BY <1>1, InitState, NextState, NextCount, CountFollows, PTL DEF Spec

\* For every configuration and wherever its check was when the node was cut off, the agent
\* has come to the end of its last check by SlowestTime: what the manager has to allow for.
THEOREM RebootsBy == Spec => []SlowestDetection
BY InitState, NextState, InitTime, NextTime, SlowestFollows, PTL DEF Spec

\* The manager does allow for it (GetRebootDuration) on the worker nodes of Covered, whatever
\* part of the workers they know as peers, and on any node for which enough is configured.
THEOREM DetectedEarly ==
    ASSUME \A t \in Scenarios : Covered(t) \/ Configured(t)
    PROVE  Spec => []DetectedInTime
<1>1. StateInv /\ TimeInv => DetectedInTime
  <2> SUFFICES ASSUME StateInv, TimeInv PROVE DetectedInTime
    OBVIOUS
  <2>1. s \in Scenarios /\ now \in Nat /\ SlowestDetection
    BY SlowestFollows DEF StateInv, TypeOK
  <2>2. Covered(s) \/ Configured(s)
    BY <2>1
  <2> QED BY <2>1, <2>2, CoveredFollows, ConfiguredFollows
<1> QED BY <1>1, InitState, NextState, InitTime, NextTime, PTL DEF Spec
=============================================================================
