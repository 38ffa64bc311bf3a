---------------------------- MODULE BdRing_proofs ----------------------------
(***************************************************************************)
(* For a ring of any size: the counters and the pointers of the four       *)
(* groups agree for ever, if the user is careful, with packets of any      *)
(* length and whatever hardware writes into the BDs; and the ring, its     *)
(* user and the hardware implement the four queues of BdQueues, if the     *)
(* user also clears a receive BD when it gives it its buffer.              *)
(***************************************************************************)
EXTENDS BdRing, TLAPS, SequenceTheorems

\* A walk returns no more than the hardware group holds.  XEmacPs_BdRingFromHwRx
\* leaves this to the user, who may ask for more than it has handed over.
WalkBounded ==
    /\ ~ Idle => walk.limit <= HwCnt
    /\ walk.at = "NEW" => walk.count < walk.limit

RingInv == TypeOK /\ Consistent /\ WalkBounded

-----------------------------------------------------------------------------
\* XEMACPS_RING_SEEKAHEAD and SEEKBACK stay in the ring.
LEMMA SeekInRing ==
    ASSUME NEW p \in Bds, NEW n \in 0 .. AllCnt
    PROVE  /\ XEMACPS_RING_SEEKAHEAD(p, n) \in Bds
           /\ XEMACPS_RING_SEEKBACK(p, n) \in Bds
  BY RingAssumption DEF Bds, XEMACPS_RING_SEEKAHEAD, XEMACPS_RING_SEEKBACK

\* Two seeks are one, also round the end of the ring.
LEMMA SeekTwice ==
    ASSUME NEW p \in Bds, NEW m \in Nat, NEW n \in Nat, m + n <= AllCnt
    PROVE  XEMACPS_RING_SEEKAHEAD(XEMACPS_RING_SEEKAHEAD(p, m), n)
              = XEMACPS_RING_SEEKAHEAD(p, m + n)
  BY RingAssumption DEF Bds, XEMACPS_RING_SEEKAHEAD

\* A seek back undoes the last part of a seek ahead.
LEMMA SeekBack ==
    ASSUME NEW p \in Bds, NEW m \in 0 .. AllCnt, NEW n \in 0 .. m
    PROVE  XEMACPS_RING_SEEKBACK(XEMACPS_RING_SEEKAHEAD(p, m), n)
              = XEMACPS_RING_SEEKAHEAD(p, m - n)
  BY RingAssumption DEF Bds, XEMACPS_RING_SEEKAHEAD, XEMACPS_RING_SEEKBACK

\* The BDs of a stretch are BDs of the ring.
LEMMA SpanInRing ==
    ASSUME NEW p \in Bds, NEW n \in 0 .. AllCnt
    PROVE  Span(p, n) \subseteq Bds
  BY SeekInRing, RingAssumption DEF Span

-----------------------------------------------------------------------------
LEMMA RingInit == Init => RingInv
  <1> SUFFICES ASSUME Init PROVE RingInv
    OBVIOUS
  <1>1. RingType
    BY RingAssumption DEF Init, RingType, Bds
  <1>2. WalkType
    <2>1. walk = NoWalk /\ 0 \in Bds /\ 0 \in 0 .. AllCnt
      BY RingAssumption DEF Init, Bds
    <2>2. walk \in [at : {"none", "SEND", "RECV", "NEW", "stop"}, cur : Bds,
                    limit : 0 .. AllCnt, count : 0 .. AllCnt, partial : 0 .. AllCnt,
                    sop : BOOLEAN, stat : BOOLEAN]
      BY <2>1, Zenon DEF NoWalk
    <2> QED BY <2>1, <2>2 DEF NoWalk, WalkType
  <1>3. MemoryType
    <2>1. Template(dir) \in [own : BOOLEAN, end : BOOLEAN]
      BY Zenon DEF Template
    <2> QED BY <2>1 DEF Init, MemoryType
  <1>4. HardwareType
    <2>1. next \in Bds /\ part \in 0 .. MaxRecv - 1
      BY RingAssumption DEF Init, Bds
    <2> QED BY <2>1, Zenon DEF Init, HardwareType
  <1>5. Consistent
    BY RingAssumption DEF Init, Consistent, XEMACPS_RING_SEEKAHEAD
  <1>6. WalkBounded
    BY DEF Init, WalkBounded, Idle, NoWalk
  <1> QED BY <1>1, <1>2, <1>3, <1>4, <1>5, <1>6 DEF RingInv, TypeOK

LEMMA StepAlloc ==
    ASSUME RingInv, NEW n \in 1 .. AllCnt, XEmacPs_BdRingAlloc(n)
    PROVE  RingInv'
  <1> USE DEF RingInv
  <1>1. n \in 0 .. FreeCnt /\ FreeCnt' = FreeCnt - n /\ PreCnt' = PreCnt + n
    BY RingAssumption DEF XEmacPs_BdRingAlloc, TypeOK, RingType, Consistent
  <1>2. FreeHead' = XEMACPS_RING_SEEKAHEAD(PreHead, PreCnt + n)
    BY <1>1, SeekTwice, RingAssumption DEF XEmacPs_BdRingAlloc, TypeOK, RingType, Consistent
  <1>3. RingType'
    BY <1>1, <1>2, SeekInRing, RingAssumption
    DEF XEmacPs_BdRingAlloc, TypeOK, RingType, Consistent
  <1>4. WalkType' /\ MemoryType'
    BY DEF XEmacPs_BdRingAlloc, TypeOK, WalkType, MemoryType
  <1>5. HardwareType'
    BY DEF XEmacPs_BdRingAlloc, TypeOK, HardwareType, hardVars
  <1>6. Consistent'
    BY <1>1, <1>2 DEF XEmacPs_BdRingAlloc, TypeOK, RingType, Consistent
  <1>7. WalkBounded'
    BY DEF XEmacPs_BdRingAlloc, WalkBounded, Idle
  <1> QED BY <1>3, <1>4, <1>5, <1>6, <1>7 DEF TypeOK

LEMMA StepUnAlloc ==
    ASSUME RingInv, NEW n \in 1 .. AllCnt, XEmacPs_BdRingUnAlloc(n)
    PROVE  RingInv'
  <1> USE DEF RingInv
  <1>1. n \in 0 .. PreCnt /\ FreeCnt' = FreeCnt + n /\ PreCnt' = PreCnt - n
    BY RingAssumption DEF XEmacPs_BdRingUnAlloc, TypeOK, RingType, Consistent
  <1>2. FreeHead' = XEMACPS_RING_SEEKAHEAD(PreHead, PreCnt - n)
    BY <1>1, SeekBack, RingAssumption DEF XEmacPs_BdRingUnAlloc, TypeOK, RingType, Consistent
  <1>3. RingType'
    BY <1>1, <1>2, SeekInRing, RingAssumption
    DEF XEmacPs_BdRingUnAlloc, TypeOK, RingType, Consistent
  <1>4. WalkType' /\ MemoryType'
    BY DEF XEmacPs_BdRingUnAlloc, TypeOK, WalkType, MemoryType
  <1>5. HardwareType'
    BY DEF XEmacPs_BdRingUnAlloc, TypeOK, HardwareType, hardVars
  <1>6. Consistent'
    BY <1>1, <1>2 DEF XEmacPs_BdRingUnAlloc, TypeOK, RingType, Consistent
  <1>7. WalkBounded'
    BY DEF XEmacPs_BdRingUnAlloc, WalkBounded, Idle
  <1> QED BY <1>3, <1>4, <1>5, <1>6, <1>7 DEF TypeOK

LEMMA StepToHw ==
    ASSUME RingInv, NEW n \in 1 .. AllCnt, XEmacPs_BdRingToHw(n)
    PROVE  RingInv'
  <1> USE DEF RingInv
  <1>1. n \in 0 .. PreCnt /\ PreCnt' = PreCnt - n /\ HwCnt' = HwCnt + n
    BY RingAssumption DEF XEmacPs_BdRingToHw, TypeOK, RingType, Consistent
  <1>2. PreHead' = XEMACPS_RING_SEEKAHEAD(HwHead, HwCnt + n)
    BY <1>1, SeekTwice, RingAssumption DEF XEmacPs_BdRingToHw, TypeOK, RingType, Consistent
  <1>3. FreeHead = XEMACPS_RING_SEEKAHEAD(PreHead', PreCnt - n)
    BY <1>1, SeekTwice, RingAssumption DEF XEmacPs_BdRingToHw, TypeOK, RingType, Consistent
  <1>4. RingType'
    BY <1>1, <1>2, <1>3, SeekInRing, RingAssumption
    DEF XEmacPs_BdRingToHw, TypeOK, RingType, Consistent
  <1>5. WalkType' /\ MemoryType'
    BY DEF XEmacPs_BdRingToHw, TypeOK, WalkType, MemoryType
  <1>6. HardwareType'
    BY DEF XEmacPs_BdRingToHw, TypeOK, HardwareType, hardVars
  <1>7. Consistent'
    BY <1>1, <1>2, <1>3 DEF XEmacPs_BdRingToHw, TypeOK, RingType, Consistent
  <1>8. WalkBounded'
    BY DEF XEmacPs_BdRingToHw, WalkBounded, Idle
  <1> QED BY <1>4, <1>5, <1>6, <1>7, <1>8 DEF TypeOK

LEMMA StepFree ==
    ASSUME RingInv, NEW n \in 1 .. AllCnt, XEmacPs_BdRingFree(n)
    PROVE  RingInv'
  <1> USE DEF RingInv
  <1>1. n \in 0 .. PostCnt /\ FreeCnt' = FreeCnt + n /\ PostCnt' = PostCnt - n
    BY RingAssumption DEF XEmacPs_BdRingFree, TypeOK, RingType, Consistent
  <1>2. HwHead = XEMACPS_RING_SEEKAHEAD(PostHead', PostCnt - n)
    BY <1>1, SeekTwice, RingAssumption DEF XEmacPs_BdRingFree, TypeOK, RingType, Consistent
  <1>3. RingType'
    BY <1>1, <1>2, SeekInRing, RingAssumption
    DEF XEmacPs_BdRingFree, TypeOK, RingType, Consistent
  <1>4. WalkType' /\ MemoryType'
    BY DEF XEmacPs_BdRingFree, TypeOK, WalkType, MemoryType
  <1>5. HardwareType'
    BY DEF XEmacPs_BdRingFree, TypeOK, HardwareType, hardVars
  <1>6. Consistent'
    BY <1>1, <1>2 DEF XEmacPs_BdRingFree, TypeOK, RingType, Consistent
  <1>7. WalkBounded'
    BY DEF XEmacPs_BdRingFree, WalkBounded, Idle
  <1> QED BY <1>3, <1>4, <1>5, <1>6, <1>7 DEF TypeOK

LEMMA StepFromHw ==
    ASSUME RingInv, Careful, NEW limit \in 1 .. AllCnt, FromHw(limit)
    PROVE  RingInv'
  <1> USE DEF RingInv
  <1>1. limit \in 1 .. HwCnt /\ BdLimit(limit) \in 1 .. HwCnt
    BY RingAssumption DEF FromHw, Request, BdLimit, TypeOK, RingType
  <1>2. walk' = [NoWalk EXCEPT !.at = dir, !.cur = HwHead, !.limit = BdLimit(limit)]
    BY DEF FromHw
  <1>3. WalkType'
    <2>1. dir \in {"SEND", "RECV"} /\ HwHead \in Bds /\ BdLimit(limit) \in 0 .. AllCnt
      BY <1>1, RingAssumption DEF TypeOK, MemoryType, RingType
    <2>2. 0 \in 0 .. AllCnt /\ Bds' = Bds
      BY RingAssumption DEF Bds
    <2>3. walk' = [at |-> dir, cur |-> HwHead, limit |-> BdLimit(limit), count |-> 0,
                   partial |-> 0, sop |-> FALSE, stat |-> FALSE]
      BY <1>2 DEF NoWalk
    <2>4. walk' \in [at : {"none", "SEND", "RECV", "NEW", "stop"}, cur : Bds,
                     limit : 0 .. AllCnt, count : 0 .. AllCnt, partial : 0 .. AllCnt,
                     sop : BOOLEAN, stat : BOOLEAN]
      BY <2>1, <2>2, <2>3, Zenon
    <2> QED BY <2>1, <2>3, <2>4, RingAssumption DEF WalkType, Bds
  <1>4. RingType' /\ MemoryType' /\ Consistent'
    BY DEF FromHw, TypeOK, RingType, MemoryType, Consistent, headVars, cntVars
  <1>5. HardwareType'
    BY DEF FromHw, TypeOK, HardwareType, hardVars
  <1>6. WalkBounded'
    BY <1>1, <1>2 DEF FromHw, WalkBounded, NoWalk, cntVars
  <1> QED BY <1>3, <1>4, <1>5, <1>6 DEF TypeOK

\* A step inside a walk leaves everything else alone.
LEMMA WalkFrame ==
    ASSUME RingInv, ~ Idle, walk'.limit = walk.limit, WalkType',
           walk'.at = "NEW" => walk'.count < walk'.limit,
           UNCHANGED <<dir, headVars, cntVars, bd, prepared, running, hardVars>>
    PROVE  RingInv'
  <1> USE DEF RingInv
  <1>1. RingType' /\ MemoryType' /\ Consistent'
    BY DEF TypeOK, RingType, MemoryType, Consistent, headVars, cntVars
  <1>2. HardwareType'
    BY DEF TypeOK, HardwareType, hardVars
  <1>3. WalkBounded'
    BY DEF WalkBounded, cntVars
  <1> QED BY <1>1, <1>2, <1>3 DEF TypeOK

LEMMA StepWalkSend ==
    ASSUME RingInv, WalkSend
    PROVE  RingInv'
  <1> USE DEF RingInv
  <1> DEFINE found == walk.sop \/ bd[walk.cur].own
             last == bd[walk.cur].end
  <1>1. walk.cur \in Bds /\ walk.limit \in 0 .. AllCnt /\ walk.count \in 0 .. walk.limit
        /\ walk.partial \in 0 .. walk.count /\ walk.count < walk.limit
    BY DEF WalkSend, TypeOK, WalkType
  <1>2. XEmacPs_BdRingNext(walk.cur) \in Bds
    BY <1>1, SeekInRing, RingAssumption DEF XEmacPs_BdRingNext
  <1>3. /\ walk' \in [at : {"none", "SEND", "RECV", "NEW", "stop"}, cur : Bds,
                      limit : 0 .. AllCnt, count : 0 .. AllCnt, partial : 0 .. AllCnt,
                      sop : BOOLEAN, stat : BOOLEAN]
        /\ walk'.limit = walk.limit /\ walk'.at = walk.at
        /\ walk'.count = IF found THEN walk.count + 1 ELSE walk.count
        /\ walk'.partial = CASE found /\ last -> 0
                             [] found /\ ~ last -> walk.partial + 1
                             [] OTHER -> walk.partial
    <2> DEFINE c == IF found THEN walk.count + 1 ELSE walk.count
               q == CASE found /\ last -> 0
                      [] found /\ ~ last -> walk.partial + 1
                      [] OTHER -> walk.partial
               b == found /\ ~ last
    <2>1. c \in 0 .. AllCnt /\ q \in 0 .. AllCnt
      <3> HIDE DEF found, last
      <3> QED BY <1>1, RingAssumption
    <2>2. b \in BOOLEAN
      OBVIOUS
    <2>3. walk' = [walk EXCEPT !.sop = b, !.count = c, !.partial = q,
                               !.cur = XEmacPs_BdRingNext(@)]
      BY DEF WalkSend
    <2> HIDE DEF c, q, b
    <2> QED BY <1>1, <1>2, <2>1, <2>2, <2>3 DEF TypeOK, WalkType, c, q
  <1>4. WalkType'
    <2> HIDE DEF found, last
    <2> QED BY <1>1, <1>3, RingAssumption DEF WalkType, Bds
  <1> QED BY <1>3, <1>4, WalkFrame DEF WalkSend, Idle

LEMMA StepReadStatus ==
    ASSUME RingInv, ReadStatus
    PROVE  RingInv'
  <1> USE DEF RingInv
  <1>1. bd[walk.cur].end \in BOOLEAN
    BY DEF TypeOK, WalkType, MemoryType
  <1>2. walk' = [walk EXCEPT !.at = "NEW", !.stat = bd[walk.cur].end]
    BY DEF ReadStatus
  <1>3. WalkType' /\ walk'.limit = walk.limit /\ walk'.count = walk.count
    BY <1>1, <1>2 DEF TypeOK, WalkType, Bds
  <1> QED BY <1>3, WalkFrame DEF ReadStatus, Idle

LEMMA StepReadNew ==
    ASSUME RingInv, ReadNew
    PROVE  RingInv'
  <1> USE DEF RingInv
  <1>1. walk.cur \in Bds /\ walk.limit \in 0 .. AllCnt /\ walk.count \in 0 .. walk.limit
        /\ walk.partial \in 0 .. walk.count /\ walk.count < walk.limit
    BY DEF ReadNew, WalkBounded, TypeOK, WalkType
  <1>2. XEmacPs_BdRingNext(walk.cur) \in Bds
    BY <1>1, SeekInRing, RingAssumption DEF XEmacPs_BdRingNext
  <1>3. WalkType' /\ walk'.limit = walk.limit /\ walk'.at # "NEW"
    <2>1. CASE bd[walk.cur].own
      <3> DEFINE q == IF walk.stat THEN 0 ELSE walk.partial + 1
      <3>1. q \in 0 .. AllCnt /\ q <= walk.count + 1 /\ walk.count + 1 \in 0 .. AllCnt
        BY <1>1, RingAssumption
      <3>2. walk' = [walk EXCEPT !.at = "RECV", !.count = @ + 1, !.partial = q,
                                 !.cur = XEmacPs_BdRingNext(@)]
        BY <2>1 DEF ReadNew
      <3> HIDE DEF q
      <3>3. walk' \in [at : {"none", "SEND", "RECV", "NEW", "stop"}, cur : Bds,
                       limit : 0 .. AllCnt, count : 0 .. AllCnt, partial : 0 .. AllCnt,
                       sop : BOOLEAN, stat : BOOLEAN]
            /\ walk'.limit = walk.limit /\ walk'.at = "RECV"
            /\ walk'.count = walk.count + 1 /\ walk'.partial = q
        BY <1>2, <3>1, <3>2 DEF TypeOK, WalkType
      <3> QED BY <1>1, <3>1, <3>3 DEF WalkType, Bds
    <2>2. CASE ~ bd[walk.cur].own
      BY <2>2 DEF ReadNew, TypeOK, WalkType, Bds
    <2> QED BY <2>1, <2>2
  <1> QED BY <1>3, WalkFrame DEF ReadNew, Idle

LEMMA StepReturn ==
    ASSUME RingInv, Return
    PROVE  RingInv'
  <1> USE DEF RingInv
  <1> DEFINE n == walk.count - walk.partial
  <1>1. n \in 0 .. HwCnt
    BY DEF Return, Idle, WalkBounded, TypeOK, WalkType, RingType
  <1>2. HwCnt' = HwCnt - n /\ PostCnt' = PostCnt + n
        /\ HwHead' = XEMACPS_RING_SEEKAHEAD(HwHead, n)
    <2>1. HwCnt - n \in 0 .. Wrap - 1
      BY <1>1, RingAssumption DEF TypeOK, RingType
    <2>2. (HwCnt - n) % Wrap = HwCnt - n
      BY <2>1, RingAssumption
    <2> QED BY <2>2 DEF Return
  <1> HIDE DEF n
  <1>3. HwHead' = XEMACPS_RING_SEEKAHEAD(PostHead, PostCnt + n)
    BY <1>1, <1>2, SeekTwice, RingAssumption DEF TypeOK, RingType, Consistent
  <1>4. PreHead = XEMACPS_RING_SEEKAHEAD(HwHead', HwCnt - n)
    BY <1>1, <1>2, SeekTwice, RingAssumption DEF TypeOK, RingType, Consistent
  <1>5. RingType'
    <2>1. HwHead' \in Bds
      BY <1>1, <1>2, SeekInRing, RingAssumption DEF TypeOK, RingType
    <2>2. HwCnt' \in 0 .. AllCnt /\ PostCnt' \in 0 .. AllCnt
      BY <1>1, <1>2, RingAssumption DEF TypeOK, RingType, Consistent
    <2> QED BY <2>1, <2>2 DEF Return, TypeOK, RingType, Bds
  <1>6. Consistent'
    BY <1>1, <1>2, <1>3, <1>4 DEF Return, TypeOK, RingType, Consistent
  <1>7. WalkType'
    <2>1. 0 \in Bds /\ 0 \in 0 .. AllCnt
      BY RingAssumption DEF Bds
    <2>2. NoWalk \in [at : {"none", "SEND", "RECV", "NEW", "stop"}, cur : Bds,
                      limit : 0 .. AllCnt, count : 0 .. AllCnt, partial : 0 .. AllCnt,
                      sop : BOOLEAN, stat : BOOLEAN]
      BY <2>1, Zenon DEF NoWalk
    <2> QED BY <2>2 DEF Return, WalkType, NoWalk, Bds
  <1>8. MemoryType' /\ HardwareType'
    BY DEF Return, TypeOK, MemoryType, HardwareType, hardVars
  <1>9. WalkBounded'
    BY DEF Return, WalkBounded, Idle, NoWalk
  <1> QED BY <1>5, <1>6, <1>7, <1>8, <1>9 DEF TypeOK

\* What is not the ring's own leaves its pointers and counters alone.
LEMMA UserFrame ==
    ASSUME RingInv, prepared' \in 0 .. PreCnt, MemoryType', HardwareType',
           UNCHANGED <<headVars, cntVars, walk>>
    PROVE  RingInv'
  <1> USE DEF RingInv
  <1>1. RingType' /\ Consistent'
    BY DEF TypeOK, RingType, Consistent, headVars, cntVars
  <1>2. WalkType' /\ WalkBounded'
    BY DEF TypeOK, WalkType, WalkBounded, Idle, cntVars
  <1> QED BY <1>1, <1>2 DEF TypeOK

LEMMA StepUser ==
    ASSUME RingInv, Start \/ \E n \in 1 .. AllCnt : Prepare(n)
    PROVE  RingInv'
  <1> USE DEF RingInv
  <1>1. CASE Start
    <2>1. MemoryType' /\ HardwareType'
      BY <1>1 DEF Start, TypeOK, MemoryType, HardwareType, hardVars
    <2> QED BY <1>1, <2>1, UserFrame DEF Start, TypeOK, RingType
  <1>2. ASSUME NEW n \in 1 .. AllCnt, Prepare(n) PROVE RingInv'
    <2>1. MemoryType'
      <3>1. ASSUME NEW i \in Bds, NEW last \in BOOLEAN
            PROVE  WithBuffer(i, last) \in [own : BOOLEAN, end : BOOLEAN]
        <4>1. bd[i] \in [own : BOOLEAN, end : BOOLEAN]
          BY DEF TypeOK, MemoryType
        <4> QED BY <4>1, Zenon DEF WithBuffer
      <3> DEFINE first == XEMACPS_RING_SEEKAHEAD(PreHead, prepared)
                 lastBd == XEMACPS_RING_SEEKAHEAD(first, n - 1)
                 given == Span(first, n)
                 new(i) == IF i \in given THEN WithBuffer(i, i = lastBd) ELSE bd[i]
      <3>2. bd' = [i \in Bds |-> new(i)]
        BY <1>2 DEF Prepare
      <3>3. ASSUME NEW i \in Bds PROVE new(i) \in [own : BOOLEAN, end : BOOLEAN]
        <4>1. bd[i] \in [own : BOOLEAN, end : BOOLEAN] /\ (i = lastBd) \in BOOLEAN
          BY DEF TypeOK, MemoryType
        <4>2. WithBuffer(i, i = lastBd) \in [own : BOOLEAN, end : BOOLEAN]
          BY <3>1, <4>1
        <4> HIDE DEF given, lastBd
        <4> QED BY <4>1, <4>2
      <3> HIDE DEF new
      <3>4. bd' \in [Bds -> [own : BOOLEAN, end : BOOLEAN]]
        BY <3>2, <3>3
      <3> QED BY <1>2, <3>4 DEF Prepare, TypeOK, MemoryType
    <2>2. HardwareType'
      BY <1>2 DEF Prepare, TypeOK, HardwareType
    <2>3. prepared' \in 0 .. PreCnt
      BY <1>2, RingAssumption DEF Prepare, TypeOK, RingType
    <2> QED BY <1>2, <2>1, <2>2, <2>3, UserFrame DEF Prepare
  <1> QED BY <1>1, <1>2

LEMMA StepHardware ==
    ASSUME RingInv, Hardware
    PROVE  RingInv'
  <1> USE DEF RingInv
  <1>1. CASE Send
    <2>1. MemoryType'
      BY <1>1 DEF Send, TypeOK, MemoryType
    <2>2. HardwareType'
      <3>1. PICK n \in 1 .. AllCnt :
              /\ done' = done \cup Span(next, n)
              /\ ends' = ends \cup {XEMACPS_RING_SEEKAHEAD(next, n - 1)}
              /\ next' = XEMACPS_RING_SEEKAHEAD(next, n)
        BY <1>1 DEF Send
      <3>2. next \in Bds /\ n \in 0 .. AllCnt /\ n - 1 \in 0 .. n - 1
        BY RingAssumption DEF TypeOK, HardwareType
      <3>3. next' \in Bds /\ done' \subseteq Bds
        BY <3>1, <3>2, SeekInRing, SpanInRing DEF TypeOK, HardwareType
      <3>4. ends' \subseteq done'
        BY <3>1, <3>2 DEF TypeOK, HardwareType, Span
      <3> QED BY <1>1, <3>3, <3>4 DEF Send, TypeOK, HardwareType, Bds
    <2> QED BY <1>1, <2>1, <2>2, UserFrame DEF Send, TypeOK, RingType
  <1>2. ASSUME NEW eof \in BOOLEAN, Receive(eof) PROVE RingInv'
    <2>1. MemoryType'
      <3>1. [own |-> TRUE, end |-> eof] \in [own : BOOLEAN, end : BOOLEAN]
        BY Zenon
      <3> QED BY <1>2, <3>1 DEF Receive, TypeOK, MemoryType
    <2>2. HardwareType'
      <3>1. next' \in Bds
        BY <1>2, SeekInRing, RingAssumption DEF Receive, TypeOK, HardwareType
      <3>2. part' \in 0 .. MaxRecv - 1
        BY <1>2, RingAssumption DEF Receive, TypeOK, HardwareType
      <3>3. done' \subseteq Bds /\ ends' \subseteq done'
        BY <1>2 DEF Receive, TypeOK, HardwareType
      <3> QED BY <1>2, <3>1, <3>2, <3>3 DEF Receive, TypeOK, HardwareType, Bds
    <2> QED BY <1>2, <2>1, <2>2, UserFrame DEF Receive, TypeOK, RingType
  <1> QED BY <1>1, <1>2 DEF Hardware

-----------------------------------------------------------------------------
LEMMA RingStep == Careful /\ RingInv /\ [Next]_vars => RingInv'
  <1> SUFFICES ASSUME Careful, RingInv, [Next]_vars PROVE RingInv'
    OBVIOUS
  <1>1. ASSUME NEW n \in 1 .. AllCnt, Calls(n) PROVE RingInv'
    BY <1>1, StepAlloc, StepUnAlloc, StepToHw, StepFree, StepFromHw, StepUser DEF Calls
  <1>2. CASE Walk
    BY <1>2, StepWalkSend, StepReadStatus, StepReadNew, StepReturn DEF Walk
  <1>3. CASE Start
    BY <1>3, StepUser
  <1>4. CASE Hardware
    BY <1>4, StepHardware
  <1>5. CASE UNCHANGED vars
    BY <1>5 DEF RingInv, TypeOK, RingType, WalkType, MemoryType, HardwareType, Consistent,
                WalkBounded, Idle, vars, headVars, cntVars, hardVars
  <1> QED BY <1>1, <1>2, <1>3, <1>4, <1>5 DEF Next

\* The driver's pointers and counters: with a careful user TypeOK and what
\* XEmacPs_BdRingCheck looks for hold in every state, for every ring size.
THEOREM RingInvariance == Careful => (Spec => []RingInv)
  <1> SUFFICES ASSUME Careful PROVE Spec => []RingInv
    OBVIOUS
  <1>1. RingInv /\ [Next]_vars => RingInv'
    BY RingStep
  <1> QED BY RingInit, <1>1, PTL DEF Spec

\* No call of a careful user puts a pointer or a counter out of the ring.
THEOREM RingTypeCorrect == Careful => (Spec => []TypeOK)
  <1> SUFFICES ASSUME Careful PROVE Spec => []TypeOK
    OBVIOUS
  <1>1. RingInv => TypeOK
    BY DEF RingInv
  <1> QED BY RingInvariance, <1>1, PTL

\* The counters add up and the four groups follow each other round the ring.
THEOREM RingConsistent == Careful => (Spec => []Consistent)
  <1> SUFFICES ASSUME Careful PROVE Spec => []Consistent
    OBVIOUS
  <1>1. RingInv => Consistent
    BY DEF RingInv
  <1> QED BY RingInvariance, <1>1, PTL

-----------------------------------------------------------------------------
(***************************************************************************)
(* The four queues.  From here on the bits in memory matter: what hardware *)
(* has processed, and what a walk has gathered.  A BD is placed by its     *)
(* distance from the first of a group, which turns groups into intervals.  *)
(***************************************************************************)
\* How far a BD is from another one, in the order of the ring.
Offset(p, i) == IF p <= i THEN i - p ELSE i - p + AllCnt

LEMMA OffsetSeek ==
    ASSUME NEW p \in Bds, NEW k \in 0 .. AllCnt - 1
    PROVE  Offset(p, XEMACPS_RING_SEEKAHEAD(p, k)) = k
  BY RingAssumption DEF Bds, Offset, XEMACPS_RING_SEEKAHEAD

LEMMA OffsetIn ==
    ASSUME NEW p \in Bds, NEW i \in Bds
    PROVE  /\ Offset(p, i) \in 0 .. AllCnt - 1
           /\ XEMACPS_RING_SEEKAHEAD(p, Offset(p, i)) = i
  BY RingAssumption DEF Bds, Offset, XEMACPS_RING_SEEKAHEAD

\* A stretch of the ring holds the BDs that are near enough to its first one.
LEMMA SpanByOffset ==
    ASSUME NEW p \in Bds, NEW i \in Bds, NEW n \in 0 .. AllCnt
    PROVE  i \in Span(p, n) <=> Offset(p, i) < n
  <1>1. ASSUME i \in Span(p, n) PROVE Offset(p, i) < n
    <2>1. PICK k \in 0 .. n - 1 : i = XEMACPS_RING_SEEKAHEAD(p, k)
      BY <1>1 DEF Span
    <2>2. k \in 0 .. AllCnt - 1 /\ k < n
      BY RingAssumption
    <2> QED BY <2>1, <2>2, OffsetSeek
  <1>2. ASSUME Offset(p, i) < n PROVE i \in Span(p, n)
    <2>1. Offset(p, i) \in 0 .. n - 1
      BY <1>2, OffsetIn
    <2> QED BY <2>1, OffsetIn, Zenon DEF Span
  <1> QED BY <1>1, <1>2

\* The same for a stretch further on.
LEMMA SpanFurtherOn ==
    ASSUME NEW p \in Bds, NEW i \in Bds, NEW m \in Nat, NEW n \in Nat, m + n <= AllCnt
    PROVE  i \in Span(XEMACPS_RING_SEEKAHEAD(p, m), n)
              <=> m <= Offset(p, i) /\ Offset(p, i) < m + n
  <1>1. XEMACPS_RING_SEEKAHEAD(p, m) \in Bds /\ n \in 0 .. AllCnt
    BY SeekInRing, RingAssumption
  <1>2. Offset(XEMACPS_RING_SEEKAHEAD(p, m), i) < n
           <=> m <= Offset(p, i) /\ Offset(p, i) < m + n
    BY RingAssumption DEF Bds, Offset, XEMACPS_RING_SEEKAHEAD
  <1> QED BY <1>1, <1>2, SpanByOffset

-----------------------------------------------------------------------------
LEMMA GroupIs ==
    ASSUME NEW p, NEW n \in Nat
    PROVE  /\ Len(Group(p, n)) = n
           /\ DOMAIN Group(p, n) = 1 .. n
           /\ \A i \in 1 .. n : Group(p, n)[i] = XEMACPS_RING_SEEKAHEAD(p, i - 1)
  <1>1. DOMAIN Group(p, n) = 1 .. n
    BY DEF Group
  <1>2. \A i \in 1 .. n : Group(p, n)[i] = XEMACPS_RING_SEEKAHEAD(p, i - 1)
    BY DEF Group
  <1> QED BY <1>1, <1>2

LEMMA GroupInRing ==
    ASSUME NEW p \in Bds, NEW n \in 0 .. AllCnt
    PROVE  Group(p, n) \in Seq(Bds)
  <1>1. \A i \in 1 .. n : XEMACPS_RING_SEEKAHEAD(p, i - 1) \in Bds
    BY SeekInRing, RingAssumption
  <1>2. Group(p, n) \in [1 .. n -> Bds] /\ n \in Nat
    BY <1>1 DEF Group
  <1> QED BY <1>2

LEMMA GroupMembers ==
    ASSUME NEW p \in Bds, NEW n \in 0 .. AllCnt
    PROVE  Queues!Members(Group(p, n)) = Span(p, n)
  <1> DEFINE g == Group(p, n)
  <1>1. DOMAIN g = 1 .. n /\ \A i \in 1 .. n : g[i] = XEMACPS_RING_SEEKAHEAD(p, i - 1)
    BY GroupIs
  <1> HIDE DEF g
  <1>2. ASSUME NEW i \in 1 .. n PROVE g[i] \in Span(p, n)
    <2>1. i - 1 \in 0 .. n - 1
      OBVIOUS
    <2> QED BY <1>1, <2>1, Zenon DEF Span
  <1>3. ASSUME NEW k \in 0 .. n - 1
        PROVE  \E i \in 1 .. n : g[i] = XEMACPS_RING_SEEKAHEAD(p, k)
    <2>1. k + 1 \in 1 .. n /\ (k + 1) - 1 = k
      OBVIOUS
    <2> QED BY <1>1, <2>1, Zenon
  <1>4. ASSUME NEW j PROVE j \in {g[i] : i \in DOMAIN g} <=> j \in Span(p, n)
    <2>1. ASSUME j \in {g[i] : i \in DOMAIN g} PROVE j \in Span(p, n)
      BY <1>1, <1>2, <2>1
    <2>2. ASSUME j \in Span(p, n) PROVE j \in {g[i] : i \in DOMAIN g}
      <3>1. PICK k \in 0 .. n - 1 : j = XEMACPS_RING_SEEKAHEAD(p, k)
        BY <2>2 DEF Span
      <3>2. \E i \in 1 .. n : g[i] = j
        BY <1>3, <3>1
      <3> QED BY <1>1, <3>2, Zenon
    <2> QED BY <2>1, <2>2
  <1>5. {g[i] : i \in DOMAIN g} = Span(p, n)
    <2> DEFINE A == {g[i] : i \in DOMAIN g}
    <2> DEFINE B == Span(p, n)
    <2>1. \A j : j \in A <=> j \in B
      BY <1>4, Zenon
    <2> HIDE DEF A, B
    <2>2. A = B
      BY <2>1
    <2> QED BY <2>2 DEF A, B
  <1> QED BY <1>5, Zenon DEF Queues!Members, g

LEMMA GroupFront ==
    ASSUME NEW p \in Bds, NEW n \in 0 .. AllCnt, NEW m \in 0 .. n
    PROVE  Queues!Front(Group(p, n), m) = Group(p, m)
  BY GroupIs, GroupInRing, RingAssumption DEF Queues!Front, Group

LEMMA GroupRest ==
    ASSUME NEW p \in Bds, NEW n \in 0 .. AllCnt, NEW m \in 0 .. n
    PROVE  Queues!Rest(Group(p, n), m) = Group(XEMACPS_RING_SEEKAHEAD(p, m), n - m)
  <1>1. ASSUME NEW i \in 1 .. n - m
        PROVE  XEMACPS_RING_SEEKAHEAD(XEMACPS_RING_SEEKAHEAD(p, m), i - 1)
                  = Group(p, n)[i + (m + 1) - 1]
    <2>1. i + (m + 1) - 1 \in 1 .. n /\ (i + (m + 1) - 1) - 1 = m + (i - 1)
          /\ m \in Nat /\ i - 1 \in Nat /\ m + (i - 1) <= AllCnt
      BY RingAssumption
    <2>2. Group(p, n)[i + (m + 1) - 1] = XEMACPS_RING_SEEKAHEAD(p, m + (i - 1))
      BY <2>1, GroupIs
    <2> QED BY <2>1, <2>2, SeekTwice
  <1> DEFINE r == SubSeq(Group(p, n), m + 1, n)
             t == Group(XEMACPS_RING_SEEKAHEAD(p, m), n - m)
  <1>2. ASSUME NEW i \in m + 1 .. n PROVE Group(p, n)[i] \in Bds
    <2>1. i \in 1 .. n /\ i - 1 \in 0 .. AllCnt
      BY RingAssumption
    <2> QED BY <2>1, GroupIs, SeekInRing
  <1>3. r \in Seq(Bds) /\ Len(r) = n - m
        /\ \A i \in 1 .. n - m : r[i] = Group(p, n)[m + 1 + i - 1]
    <2>1. m + 1 \in Int /\ n \in Int /\ n - (m + 1) + 1 = n - m
          /\ (IF m + 1 <= n THEN n - (m + 1) + 1 ELSE 0) = n - m
      BY RingAssumption
    <2>2. /\ r \in Seq(Bds)
          /\ Len(r) = IF m + 1 <= n THEN n - (m + 1) + 1 ELSE 0
          /\ \A i \in 1 .. n - (m + 1) + 1 : r[i] = Group(p, n)[m + 1 + i - 1]
      <3> DEFINE g == Group(p, n)
      <3>1. \A i \in m + 1 .. n : g[i] \in Bds
        BY <1>2
      <3> HIDE DEF g
      <3>2. /\ SubSeq(g, m + 1, n) \in Seq(Bds)
            /\ Len(SubSeq(g, m + 1, n)) = IF m + 1 <= n THEN n - (m + 1) + 1 ELSE 0
            /\ \A i \in 1 .. n - (m + 1) + 1 : SubSeq(g, m + 1, n)[i] = g[m + 1 + i - 1]
        BY <2>1, <3>1, SubSeqProperties
      <3> QED BY <3>2 DEF g
    <2> QED BY <2>1, <2>2, Zenon
  <1>4. t \in Seq(Bds) /\ Len(t) = n - m
        /\ \A i \in 1 .. n - m : t[i] = XEMACPS_RING_SEEKAHEAD(XEMACPS_RING_SEEKAHEAD(p, m), i - 1)
    <2>1. n - m \in 0 .. AllCnt /\ n - m \in Nat /\ XEMACPS_RING_SEEKAHEAD(p, m) \in Bds
      BY SeekInRing, RingAssumption
    <2> QED BY <2>1, GroupIs, GroupInRing, Zenon
  <1>5. \A i \in 1 .. n - m : r[i] = t[i]
    <2> SUFFICES ASSUME NEW i \in 1 .. n - m PROVE r[i] = t[i]
      OBVIOUS
    <2>1. m + 1 + i - 1 = i + (m + 1) - 1
      OBVIOUS
    <2> QED BY <1>1, <1>3, <1>4, <2>1, Zenon
  <1>6. r = t
    <2> HIDE DEF r, t
    <2> QED BY <1>3, <1>4, <1>5, SeqEqual, Zenon
  <1> QED BY <1>6, GroupIs DEF Queues!Rest

LEMMA GroupAppend ==
    ASSUME NEW p \in Bds, NEW m \in Nat, NEW n \in Nat, m + n <= AllCnt
    PROVE  Group(p, m) \o Group(XEMACPS_RING_SEEKAHEAD(p, m), n) = Group(p, m + n)
  <1> DEFINE q == XEMACPS_RING_SEEKAHEAD(p, m)
             s == Group(p, m)
             t == Group(q, n)
  <1>1. q \in Bds /\ m \in 0 .. AllCnt /\ n \in 0 .. AllCnt /\ m + n \in 0 .. AllCnt
    BY SeekInRing, RingAssumption
  <1>2. s \in Seq(Bds) /\ t \in Seq(Bds) /\ Len(s) = m /\ Len(t) = n
    BY <1>1, GroupInRing, GroupIs
  <1>7. \A k \in 1 .. n : t[k] = XEMACPS_RING_SEEKAHEAD(q, k - 1)
    <2> HIDE DEF q
    <2> QED BY GroupIs
  <1> DEFINE r == s \o t
  <1>3. r \in Seq(Bds) /\ Len(r) = m + n
        /\ \A i \in 1 .. m + n : r[i] = IF i <= m THEN s[i] ELSE t[i - m]
    <2> HIDE DEF s, t
    <2> QED BY <1>2, ConcatProperties, Zenon
  <1>4. ASSUME NEW i \in 1 .. m + n PROVE r[i] = XEMACPS_RING_SEEKAHEAD(p, i - 1)
    <2>1. CASE i <= m
      <3>1. r[i] = s[i] /\ i \in 1 .. m
        <4> HIDE DEF r, s, t
        <4> QED BY <1>3, <2>1
      <3> QED BY <3>1, GroupIs
    <2>2. CASE i > m
      <3>1. r[i] = t[i - m] /\ i - m \in 1 .. n
        <4> HIDE DEF r, s, t
        <4> QED BY <1>3, <2>2
      <3>2. t[i - m] = XEMACPS_RING_SEEKAHEAD(q, (i - m) - 1)
        <4> HIDE DEF q, t
        <4> QED BY <1>7, <3>1
      <3>3. (i - m) - 1 \in Nat /\ m + ((i - m) - 1) = i - 1 /\ m + ((i - m) - 1) <= AllCnt
        BY <2>2, RingAssumption
      <3>4. XEMACPS_RING_SEEKAHEAD(q, (i - m) - 1)
               = XEMACPS_RING_SEEKAHEAD(p, m + ((i - m) - 1))
        BY <3>3, SeekTwice
      <3> HIDE DEF r, t, q
      <3> QED BY <3>1, <3>2, <3>3, <3>4, Zenon
    <2>3. i <= m \/ i > m
      OBVIOUS
    <2> QED BY <2>1, <2>2, <2>3, Zenon
  <1>5. Group(p, m + n) \in Seq(Bds) /\ Len(Group(p, m + n)) = m + n
        /\ \A i \in 1 .. m + n : Group(p, m + n)[i] = XEMACPS_RING_SEEKAHEAD(p, i - 1)
    BY <1>1, GroupIs, GroupInRing
  <1>6. r = Group(p, m + n)
    <2> HIDE DEF r
    <2> QED BY <1>3, <1>4, <1>5, SeqEqual, Zenon
  <1> QED BY <1>6

\* What hardware has been given or is about to be given, with its buffers, and
\* what has come back.
Armed == Span(HwHead, HwCnt + prepared)
Returned == Span(PostHead, PostCnt)

\* Of a receive ring whose user clears the BDs, the two bits tell what hardware
\* has done to a BD that has its buffer; of a free BD they tell nothing.
Marked == \A i \in Armed : /\ bd[i].own <=> i \in done
                           /\ bd[i].end <=> i \in ends

\* What has come back has been processed, and its NEW bit keeps hardware off it.
Settled == \A i \in Returned : bd[i].own /\ i \in done

\* What a walk has gathered has been processed and, short of a partial packet,
\* ends where a packet ends.
Gathered ==
    /\ walk.at # "SEND"
    /\ ~ Idle => /\ walk.cur = XEMACPS_RING_SEEKAHEAD(HwHead, walk.count)
                 /\ Span(HwHead, walk.count) \subseteq done
                 /\ walk.partial < walk.count =>
                      XEMACPS_RING_SEEKAHEAD(HwHead, walk.count - walk.partial - 1) \in ends
    /\ walk.at = "NEW" /\ walk.stat => walk.cur \in ends

QueueInv == dir = "RECV" => Marked /\ Settled /\ Gathered

-----------------------------------------------------------------------------
LEMMA Ranges ==
    ASSUME RingInv
    PROVE  /\ FreeHead \in Bds /\ PreHead \in Bds /\ HwHead \in Bds /\ PostHead \in Bds
           /\ FreeCnt \in 0 .. AllCnt /\ PreCnt \in 0 .. AllCnt /\ HwCnt \in 0 .. AllCnt
           /\ PostCnt \in 0 .. AllCnt /\ prepared \in 0 .. PreCnt /\ AllCnt \in Nat
           /\ FreeCnt + PreCnt + HwCnt + PostCnt = AllCnt
           /\ HwHead = XEMACPS_RING_SEEKAHEAD(PostHead, PostCnt)
           /\ PreHead = XEMACPS_RING_SEEKAHEAD(HwHead, HwCnt)
           /\ FreeHead = XEMACPS_RING_SEEKAHEAD(PreHead, PreCnt)
  BY RingAssumption DEF RingInv, TypeOK, RingType, Consistent

LEMMA SeekNone ==
    ASSUME NEW p \in Bds
    PROVE  XEMACPS_RING_SEEKAHEAD(p, 0) = p /\ Span(p, 0) = {} /\ Span(p, 1) = {p}
  <1>1. XEMACPS_RING_SEEKAHEAD(p, 0) = p
    BY RingAssumption DEF Bds, XEMACPS_RING_SEEKAHEAD
  <1>2. 0 .. 0 - 1 = {} /\ 0 .. 1 - 1 = {0}
    OBVIOUS
  <1> QED BY <1>1, <1>2 DEF Span

LEMMA SpanOneMore ==
    ASSUME NEW p \in Bds, NEW n \in 0 .. AllCnt - 1
    PROVE  Span(p, n + 1) = Span(p, n) \cup {XEMACPS_RING_SEEKAHEAD(p, n)}
  <1>1. \A k : k \in 0 .. (n + 1) - 1 <=> k \in 0 .. n - 1 \/ k = n
    OBVIOUS
  <1> QED BY <1>1 DEF Span

\* The groups of the user and of hardware are intervals after the oldest BD back.
LEMMA Places ==
    ASSUME RingInv, NEW i \in Bds
    PROVE  /\ Offset(PostHead, i) \in 0 .. AllCnt - 1
           /\ i \in Returned <=> Offset(PostHead, i) < PostCnt
           /\ i \in Span(HwHead, HwCnt)
                <=> PostCnt <= Offset(PostHead, i) /\ Offset(PostHead, i) < PostCnt + HwCnt
           /\ i \in Armed <=> /\ PostCnt <= Offset(PostHead, i)
                              /\ Offset(PostHead, i) < PostCnt + (HwCnt + prepared)
  <1>1. /\ PostHead \in Bds /\ PostCnt \in 0 .. AllCnt /\ PostCnt \in Nat /\ HwCnt \in Nat
        /\ HwCnt + prepared \in Nat /\ PostCnt + HwCnt <= AllCnt
        /\ PostCnt + (HwCnt + prepared) <= AllCnt
    BY Ranges
  <1>2. HwHead = XEMACPS_RING_SEEKAHEAD(PostHead, PostCnt)
    BY Ranges
  <1> QED BY <1>1, <1>2, OffsetIn, SpanByOffset, SpanFurtherOn, Zenon DEF Returned, Armed

\* The BDs that get a buffer now are in none of these groups.
LEMMA Apart ==
    ASSUME RingInv, NEW n \in Nat, prepared + n <= PreCnt, NEW i \in Bds,
           i \in Span(XEMACPS_RING_SEEKAHEAD(PreHead, prepared), n)
    PROVE  i \notin Returned /\ i \notin Span(HwHead, HwCnt) /\ i \notin Armed
  <1> DEFINE m == PostCnt + (HwCnt + prepared)
  <1>1. /\ PostCnt \in Nat /\ HwCnt \in Nat /\ prepared \in Nat /\ HwCnt + prepared \in Nat
        /\ HwCnt + prepared <= AllCnt /\ m <= AllCnt /\ m \in Nat /\ m + n <= AllCnt
    BY Ranges
  <1>2. XEMACPS_RING_SEEKAHEAD(PreHead, prepared) = XEMACPS_RING_SEEKAHEAD(HwHead, HwCnt + prepared)
    BY <1>1, Ranges, SeekTwice
  <1>3. XEMACPS_RING_SEEKAHEAD(PreHead, prepared) = XEMACPS_RING_SEEKAHEAD(PostHead, m)
    BY <1>1, <1>2, Ranges, SeekTwice
  <1>4. m <= Offset(PostHead, i)
    <2>1. PostHead \in Bds
      BY Ranges
    <2> HIDE DEF m
    <2> QED BY <1>1, <1>3, <2>1, SpanFurtherOn
  <1>5. Offset(PostHead, i) \in Int
    BY Places
  <1> QED BY <1>1, <1>4, <1>5, Places

-----------------------------------------------------------------------------
LEMMA QueueInit == Init => QueueInv
  <1> SUFFICES ASSUME Init PROVE QueueInv
    OBVIOUS
  <1>1. 0 \in Bds /\ HwCnt + prepared = 0
    BY RingAssumption DEF Init, Bds
  <1>2. Armed = {} /\ Returned = {}
    BY <1>1, SeekNone DEF Init, Armed, Returned
  <1>3. Gathered
    BY DEF Init, Gathered, Idle, NoWalk
  <1> QED BY <1>2, <1>3 DEF QueueInv, Marked, Settled

\* A step that leaves the memory alone and arms no BD.
LEMMA QueueFrame ==
    ASSUME QueueInv, UNCHANGED <<dir, bd, done, ends>>, Armed' \subseteq Armed,
           dir = "RECV" => Settled' /\ Gathered'
    PROVE  QueueInv'
  <1> SUFFICES ASSUME dir = "RECV" PROVE Marked'
    BY DEF QueueInv
  <1>1. Marked
    BY DEF QueueInv
  <1> QED BY <1>1 DEF Marked

\* A step inside a walk.
LEMMA QueueWalks ==
    ASSUME QueueInv, dir = "RECV" => Gathered',
           UNCHANGED <<dir, headVars, cntVars, bd, prepared, running, hardVars>>
    PROVE  QueueInv'
  <1>1. UNCHANGED <<HwHead, PostHead, HwCnt, PostCnt, done, ends>>
    BY DEF headVars, cntVars, hardVars
  <1>2. Armed' = Armed /\ Returned' = Returned
    BY <1>1, Zenon DEF Armed, Returned, Span
  <1>3. ASSUME dir = "RECV" PROVE Settled'
    BY <1>1, <1>2, <1>3 DEF QueueInv, Settled
  <1> QED BY <1>1, <1>2, <1>3, QueueFrame

\* BDs that move between the groups before the hardware group's end, or nothing.
LEMMA QueueMoves ==
    ASSUME RingInv, QueueInv, HwCnt' + prepared' = HwCnt + prepared,
           UNCHANGED <<dir, bd, walk, done, ends, HwHead, PostHead, PostCnt>>
    PROVE  QueueInv'
  <1>1. Armed' = Armed /\ Returned' = Returned
    BY Zenon DEF Armed, Returned, Span
  <1>2. ASSUME dir = "RECV" PROVE Settled' /\ Gathered'
    <2>1. Settled'
      BY <1>1, <1>2 DEF QueueInv, Settled
    <2>2. Gathered
      BY <1>2 DEF QueueInv
    <2>3. Span(HwHead, walk.count)' = Span(HwHead, walk.count)
      BY Zenon DEF Span
    <2>4. XEMACPS_RING_SEEKAHEAD(HwHead, walk.count)' = XEMACPS_RING_SEEKAHEAD(HwHead, walk.count)
          /\ XEMACPS_RING_SEEKAHEAD(HwHead, walk.count - walk.partial - 1)'
               = XEMACPS_RING_SEEKAHEAD(HwHead, walk.count - walk.partial - 1)
      BY Zenon DEF XEMACPS_RING_SEEKAHEAD
    <2>5. Gathered'
      BY <2>2, <2>3, <2>4, Zenon DEF Gathered, Idle
    <2> QED BY <2>1, <2>5
  <1> QED BY <1>1, <1>2, QueueFrame

LEMMA QueueFree ==
    ASSUME RingInv, QueueInv, NEW n \in 1 .. AllCnt, XEmacPs_BdRingFree(n)
    PROVE  QueueInv'
  <1>1. /\ Idle /\ n \in Nat /\ PostCnt - n \in Nat /\ n + (PostCnt - n) <= AllCnt
        /\ PostCnt \in 0 .. AllCnt /\ PostHead \in Bds
    BY Ranges DEF XEmacPs_BdRingFree
  <1>2. /\ PostHead' = XEMACPS_RING_SEEKAHEAD(PostHead, n) /\ PostCnt' = PostCnt - n
        /\ UNCHANGED <<dir, HwHead, HwCnt, prepared, bd, walk, done, ends>>
    BY DEF XEmacPs_BdRingFree, hardVars
  <1>3. Armed' = Armed
    BY <1>2, Zenon DEF Armed, Span
  <1>4. Returned' = Span(XEMACPS_RING_SEEKAHEAD(PostHead, n), PostCnt - n)
    BY <1>2, Zenon DEF Returned, Span
  <1>5. Returned' \subseteq Returned
    <2>1. ASSUME NEW i \in Bds, i \in Span(XEMACPS_RING_SEEKAHEAD(PostHead, n), PostCnt - n)
          PROVE  i \in Returned
      <3>1. Offset(PostHead, i) < n + (PostCnt - n)
        BY <1>1, <2>1, SpanFurtherOn
      <3>2. n + (PostCnt - n) = PostCnt
        BY <1>1
      <3> QED BY <3>1, <3>2, Places
    <2>2. Span(XEMACPS_RING_SEEKAHEAD(PostHead, n), PostCnt - n) \subseteq Bds
      <3>1. XEMACPS_RING_SEEKAHEAD(PostHead, n) \in Bds /\ PostCnt - n \in 0 .. AllCnt
        BY <1>1, SeekInRing, RingAssumption
      <3> QED BY <3>1, SpanInRing
    <2> QED BY <1>4, <2>1, <2>2
  <1>6. ASSUME dir = "RECV" PROVE Settled' /\ Gathered'
    <2>1. Settled'
      BY <1>2, <1>5, <1>6 DEF QueueInv, Settled
    <2>2. Gathered'
      BY <1>1, <1>2 DEF Gathered, Idle
    <2> QED BY <2>1, <2>2
  <1> QED BY <1>2, <1>3, <1>6, QueueFrame

LEMMA QueueFromHw ==
    ASSUME RingInv, QueueInv, NEW limit \in 1 .. AllCnt, FromHw(limit)
    PROVE  QueueInv'
  <1>1. walk' = [at |-> dir, cur |-> HwHead, limit |-> BdLimit(limit), count |-> 0,
                 partial |-> 0, sop |-> FALSE, stat |-> FALSE]
    BY DEF FromHw, NoWalk
  <1>2. ASSUME dir = "RECV" PROVE Gathered'
    <2>1. walk'.at = "RECV" /\ walk'.cur = HwHead /\ walk'.count = 0 /\ walk'.partial = 0
      BY <1>1, <1>2
    <2>2. HwHead' = HwHead /\ HwHead \in Bds
      BY Ranges DEF FromHw, headVars
    <2>3. XEMACPS_RING_SEEKAHEAD(HwHead', walk'.count) = HwHead /\ Span(HwHead', walk'.count) = {}
      BY <2>1, <2>2, SeekNone
    <2> QED BY <2>1, <2>2, <2>3 DEF Gathered
  <1> QED BY <1>2, QueueWalks DEF FromHw

LEMMA QueueReadStatus ==
    ASSUME RingInv, QueueInv, ReadStatus
    PROVE  QueueInv'
  <1>1. ASSUME dir = "RECV" PROVE Gathered'
    <2>1. /\ Gathered /\ Marked /\ ~ Idle
      BY <1>1 DEF QueueInv, ReadStatus, Idle
    <2>2. walk'.at = "NEW" /\ walk'.stat = bd[walk.cur].end
          /\ walk'.cur = walk.cur /\ walk'.count = walk.count /\ walk'.partial = walk.partial
      BY DEF ReadStatus, RingInv, TypeOK, WalkType
    <2>3. HwHead' = HwHead /\ ends' = ends /\ done' = done
      BY DEF ReadStatus, headVars, hardVars
    <2>4. walk.cur \in Armed
      <3>1. walk.count \in 0 .. (HwCnt + prepared) - 1
        BY Ranges DEF ReadStatus, RingInv, WalkBounded, Idle, TypeOK, WalkType
      <3>2. XEMACPS_RING_SEEKAHEAD(HwHead, walk.count) \in Armed
        BY <3>1, Zenon DEF Armed, Span
      <3> QED BY <2>1, <3>2, Zenon DEF Gathered
    <2>5. walk'.stat => walk'.cur \in ends'
      BY <2>1, <2>2, <2>3, <2>4 DEF Marked
    <2>6. /\ Span(HwHead', walk'.count) = Span(HwHead, walk.count)
          /\ XEMACPS_RING_SEEKAHEAD(HwHead', walk'.count) = XEMACPS_RING_SEEKAHEAD(HwHead, walk.count)
          /\ XEMACPS_RING_SEEKAHEAD(HwHead', walk'.count - walk'.partial - 1)
               = XEMACPS_RING_SEEKAHEAD(HwHead, walk.count - walk.partial - 1)
      BY <2>2, <2>3, Zenon
    <2> QED BY <2>1, <2>2, <2>3, <2>5, <2>6, Zenon DEF Gathered
  <1> QED BY <1>1, QueueWalks DEF ReadStatus

LEMMA QueueReadNew ==
    ASSUME RingInv, QueueInv, ReadNew
    PROVE  QueueInv'
  <1>1. ASSUME dir = "RECV" PROVE Gathered'
    <2>1. Gathered /\ Marked /\ ~ Idle
      BY <1>1 DEF QueueInv, ReadNew, Idle
    <2>2. HwHead' = HwHead /\ ends' = ends /\ done' = done /\ HwHead \in Bds
      BY Ranges DEF ReadNew, headVars, hardVars
    <2>3. /\ walk.count \in 0 .. (HwCnt + prepared) - 1 /\ walk.count \in 0 .. AllCnt - 1
          /\ walk.count \in Nat /\ walk.count + 1 <= AllCnt /\ walk.partial \in 0 .. walk.count
      BY Ranges DEF ReadNew, RingInv, WalkBounded, Idle, TypeOK, WalkType
    <2>4. walk.cur = XEMACPS_RING_SEEKAHEAD(HwHead, walk.count)
          /\ Span(HwHead, walk.count) \subseteq done
      BY <2>1 DEF Gathered
    <2>5. CASE ~ bd[walk.cur].own
      <3>1. walk'.at = "stop" /\ walk'.cur = walk.cur /\ walk'.count = walk.count
            /\ walk'.partial = walk.partial
        BY <2>5 DEF ReadNew, RingInv, TypeOK, WalkType
      <3>2. walk.partial < walk.count =>
              XEMACPS_RING_SEEKAHEAD(HwHead, walk.count - walk.partial - 1) \in ends
        BY <2>1 DEF Gathered
      <3>3. Span(HwHead', walk'.count) = Span(HwHead, walk.count)
        BY <2>2, <3>1, Zenon
      <3> QED BY <2>2, <2>4, <3>1, <3>2, <3>3, Zenon DEF Gathered
    <2>6. CASE bd[walk.cur].own
      <3>1. /\ walk'.at = "RECV" /\ walk'.count = walk.count + 1
            /\ walk'.cur = XEmacPs_BdRingNext(walk.cur)
            /\ walk'.partial = IF walk.stat THEN 0 ELSE walk.partial + 1
        BY <2>6 DEF ReadNew, RingInv, TypeOK, WalkType
      <3>2. walk.cur \in done
        <4>1. walk.cur \in Armed
          BY <2>3, <2>4, Zenon DEF Armed, Span
        <4> QED BY <2>1, <2>6, <4>1 DEF Marked
      <3>3. Span(HwHead, walk.count + 1) \subseteq done
        <4>1. Span(HwHead, walk.count + 1) = Span(HwHead, walk.count) \cup {walk.cur}
          BY <2>2, <2>3, <2>4, SpanOneMore
        <4> QED BY <2>4, <3>2, <4>1
      <3>4. XEmacPs_BdRingNext(walk.cur) = XEMACPS_RING_SEEKAHEAD(HwHead, walk.count + 1)
        BY <2>2, <2>3, <2>4, SeekTwice DEF XEmacPs_BdRingNext
      <3>5. walk'.partial < walk'.count =>
              XEMACPS_RING_SEEKAHEAD(HwHead, walk'.count - walk'.partial - 1) \in ends
        <4>1. CASE walk.stat
          <5>1. walk'.count - walk'.partial - 1 = walk.count
            BY <2>3, <3>1, <4>1
          <5>2. walk.cur \in ends
            BY <2>1, <4>1 DEF Gathered, ReadNew
          <5> QED BY <2>4, <5>1, <5>2
        <4>2. CASE ~ walk.stat
          <5>1. walk'.count - walk'.partial - 1 = walk.count - walk.partial - 1
                /\ (walk'.partial < walk'.count <=> walk.partial < walk.count)
            BY <2>3, <3>1, <4>2
          <5>2. walk.partial < walk.count =>
                  XEMACPS_RING_SEEKAHEAD(HwHead, walk.count - walk.partial - 1) \in ends
            BY <2>1 DEF Gathered
          <5> QED BY <5>1, <5>2, Zenon
        <4> QED BY <4>1, <4>2
      <3>6. Span(HwHead', walk'.count) \subseteq done'
        BY <2>2, <3>1, <3>3, Zenon
      <3>7. walk'.cur = XEMACPS_RING_SEEKAHEAD(HwHead', walk'.count)
        BY <2>2, <3>1, <3>4, Zenon
      <3> QED BY <2>2, <3>1, <3>5, <3>6, <3>7, Zenon DEF Gathered
    <2> QED BY <2>5, <2>6
  <1> QED BY <1>1, QueueWalks DEF ReadNew

LEMMA QueueReturn ==
    ASSUME RingInv, RingInv', QueueInv, Return
    PROVE  QueueInv'
  <1> DEFINE n == walk.count - walk.partial
  <1>1. /\ n \in 0 .. HwCnt /\ n \in Nat /\ ~ Idle
        /\ walk.count \in 0 .. AllCnt /\ walk.partial \in 0 .. walk.count
    BY DEF Return, Idle, WalkBounded, RingInv, TypeOK, WalkType, RingType
  <1>2. /\ HwHead' = XEMACPS_RING_SEEKAHEAD(HwHead, n) /\ PostCnt' = PostCnt + n
        /\ walk' = NoWalk /\ HwCnt' = (HwCnt - n) % Wrap
        /\ UNCHANGED <<dir, PostHead, bd, prepared, done, ends>>
    BY DEF Return, hardVars
  <1> HIDE DEF n
  <1>3. HwCnt' = HwCnt - n
    <2>1. HwCnt - n \in 0 .. Wrap - 1
      BY <1>1, Ranges, RingAssumption
    <2> QED BY <1>2, <2>1, RingAssumption
  <1>4. Armed' = Span(XEMACPS_RING_SEEKAHEAD(HwHead, n), HwCnt - n + prepared)
    BY <1>2, <1>3, Zenon DEF Armed, Span
  <1>5. /\ HwHead \in Bds /\ PostHead \in Bds /\ HwCnt - n + prepared \in Nat
        /\ n + (HwCnt - n + prepared) = HwCnt + prepared /\ HwCnt + prepared \in 0 .. AllCnt
        /\ n + (HwCnt - n + prepared) <= AllCnt /\ PostCnt \in Nat /\ PostCnt + n <= AllCnt
        /\ PostCnt + n \in 0 .. AllCnt /\ n \in 0 .. AllCnt
        /\ HwCnt - n + prepared \in 0 .. AllCnt
    BY <1>1, Ranges
  <1>6. Armed' \subseteq Armed
    <2>1. ASSUME NEW i \in Bds, i \in Span(XEMACPS_RING_SEEKAHEAD(HwHead, n), HwCnt - n + prepared)
          PROVE  i \in Armed
      <3>1. Offset(HwHead, i) < HwCnt + prepared
        BY <1>1, <1>5, <2>1, SpanFurtherOn
      <3> QED BY <1>5, <3>1, SpanByOffset DEF Armed
    <2>2. XEMACPS_RING_SEEKAHEAD(HwHead, n) \in Bds
      BY <1>5, SeekInRing
    <2>3. Span(XEMACPS_RING_SEEKAHEAD(HwHead, n), HwCnt - n + prepared) \subseteq Bds
      BY <1>5, <2>2, SpanInRing
    <2> QED BY <1>4, <2>1, <2>3
  <1>7. ASSUME dir = "RECV" PROVE Settled' /\ Gathered'
    <2>1. Gathered'
      BY <1>2 DEF Gathered, Idle, NoWalk
    <2>2. Returned' = Span(PostHead, PostCnt + n)
      BY <1>2, Zenon DEF Returned, Span
    <2>3. Marked /\ Settled /\ Gathered
      BY <1>7 DEF QueueInv
    <2>4. Span(HwHead, n) \subseteq Span(HwHead, walk.count)
      BY <1>1 DEF Span, n
    <2>5. Span(HwHead, n) \subseteq done
      BY <1>1, <2>3, <2>4 DEF Gathered
    <2>6. ASSUME NEW i \in Bds, i \in Span(PostHead, PostCnt + n) PROVE bd[i].own /\ i \in done
      <3>1. Offset(PostHead, i) < PostCnt + n /\ Offset(PostHead, i) \in Int
        BY <1>5, <2>6, OffsetIn, SpanByOffset
      <3>2. CASE Offset(PostHead, i) < PostCnt
        BY <2>3, <3>2, Places DEF Settled
      <3>3. CASE ~ Offset(PostHead, i) < PostCnt
        <4>1. i \in Span(HwHead, n)
          <5>1. HwHead = XEMACPS_RING_SEEKAHEAD(PostHead, PostCnt)
            BY Ranges
          <5>2. PostCnt <= Offset(PostHead, i)
            BY <1>5, <3>1, <3>3
          <5> QED BY <1>1, <1>5, <3>1, <5>1, <5>2, SpanFurtherOn
        <4>2. i \in Armed
          <5>1. Offset(PostHead, i) < PostCnt + (HwCnt + prepared)
            BY <1>1, <1>5, <3>1, Ranges
          <5>2. PostCnt <= Offset(PostHead, i)
            BY <1>5, <3>1, <3>3
          <5> QED BY <5>1, <5>2, Places
        <4> QED BY <2>3, <2>5, <4>1, <4>2 DEF Marked
      <3> QED BY <3>2, <3>3
    <2>7. Span(PostHead, PostCnt + n) \subseteq Bds
      BY <1>5, SpanInRing
    <2>8. Settled'
      BY <1>2, <2>2, <2>6, <2>7 DEF Settled
    <2> QED BY <2>1, <2>8
  <1> QED BY <1>2, <1>6, <1>7, QueueFrame

\* The BDs that get a buffer are cleared, and are in nobody's group but the user's.
LEMMA QueuePrepare ==
    ASSUME Clears, RingInv, QueueInv, NEW n \in 1 .. AllCnt, Prepare(n)
    PROVE  QueueInv'
  <1> DEFINE first == XEMACPS_RING_SEEKAHEAD(PreHead, prepared)
             given == Span(first, n)
  <1>1. /\ Idle /\ prepared + n <= PreCnt /\ prepared' = prepared + n
        /\ done' = done \ given /\ ends' = ends \ given
        /\ UNCHANGED <<dir, HwHead, HwCnt, PostHead, PostCnt, walk>>
    BY DEF Prepare, headVars, cntVars
  <1>2. first = XEMACPS_RING_SEEKAHEAD(HwHead, HwCnt + prepared)
    BY Ranges, SeekTwice
  <1>3. /\ HwHead \in Bds /\ HwCnt + prepared \in Nat /\ HwCnt + prepared \in 0 .. AllCnt
        /\ n \in Nat /\ n \in 0 .. AllCnt /\ HwCnt + prepared + n <= AllCnt
        /\ HwCnt + prepared + n \in 0 .. AllCnt
        /\ HwCnt + (prepared + n) = HwCnt + prepared + n
    BY <1>1, Ranges
  <1>4. Armed' = Span(HwHead, HwCnt + prepared + n)
    <2>1. Armed' = Span(HwHead, HwCnt + (prepared + n))
      BY <1>1, Zenon DEF Armed, Span
    <2> QED BY <1>3, <2>1
  <1>5. Returned' = Returned
    BY <1>1, Zenon DEF Returned, Span
  <1>6. SUFFICES ASSUME dir = "RECV" PROVE Marked' /\ Settled' /\ Gathered'
    BY <1>1 DEF QueueInv
  <1>7. \A i \in Bds : bd'[i] = IF i \in given THEN [own |-> FALSE, end |-> FALSE] ELSE bd[i]
    BY <1>6 DEF Prepare, WithBuffer
  <1>8. Marked /\ Settled
    BY <1>6 DEF QueueInv
  <1>9. Marked'
    <2>1. ASSUME NEW i \in Bds, i \in Span(HwHead, HwCnt + prepared + n)
          PROVE  /\ bd'[i].own <=> i \in done'
                 /\ bd'[i].end <=> i \in ends'
      <3>1. CASE i \in given
        <4>1. bd'[i].own = FALSE /\ bd'[i].end = FALSE
          BY <1>7, <3>1
        <4>2. i \notin done' /\ i \notin ends'
          BY <1>1, <3>1
        <4> QED BY <4>1, <4>2
      <3>2. CASE i \notin given
        <4>1. i \in Armed
          <5>1. Offset(HwHead, i) < HwCnt + prepared + n /\ Offset(HwHead, i) \in Int
            BY <1>3, <2>1, OffsetIn, SpanByOffset
          <5>2. ~ (HwCnt + prepared <= Offset(HwHead, i)
                     /\ Offset(HwHead, i) < HwCnt + prepared + n)
            BY <1>2, <1>3, <3>2, SpanFurtherOn, Zenon
          <5>3. Offset(HwHead, i) < HwCnt + prepared
            BY <1>3, <5>1, <5>2
          <5> QED BY <1>3, <5>3, SpanByOffset DEF Armed
        <4>2. bd'[i] = bd[i]
          BY <1>7, <3>2
        <4>3. (i \in done' <=> i \in done) /\ (i \in ends' <=> i \in ends)
          BY <1>1, <3>2
        <4> QED BY <1>8, <4>1, <4>2, <4>3, Zenon DEF Marked
      <3> QED BY <3>1, <3>2
    <2>2. Armed' \subseteq Bds
      BY <1>3, <1>4, SpanInRing
    <2> QED BY <1>4, <2>1, <2>2, Zenon DEF Marked
  <1>10. Settled'
    <2>1. ASSUME NEW i \in Returned PROVE bd'[i].own /\ i \in done'
      <3>1. i \in Bds
        BY Ranges, SpanInRing DEF Returned
      <3>2. i \notin given
        BY <1>1, <1>3, <3>1, Apart
      <3>3. bd'[i] = bd[i]
        BY <1>7, <3>1, <3>2
      <3>4. bd[i].own /\ i \in done
        BY <1>8 DEF Settled
      <3> QED BY <1>1, <3>2, <3>3, <3>4
    <2> QED BY <1>5, <2>1 DEF Settled
  <1>11. Gathered'
    BY <1>1 DEF Gathered, Idle
  <1> QED BY <1>9, <1>10, <1>11

\* Hardware fills a BD without its NEW bit: none that has come back, and none
\* that it has filled since the BD was armed.
LEMMA QueueReceive ==
    ASSUME RingInv, QueueInv, NEW eof \in BOOLEAN, Receive(eof)
    PROVE  QueueInv' /\ next \notin Returned /\ (next \in Armed => next \notin done)
  <1>1. /\ dir = "RECV" /\ next \in Bds /\ ~ bd[next].own
        /\ bd' = [bd EXCEPT ![next] = [own |-> TRUE, end |-> eof]]
        /\ UNCHANGED <<dir, PostHead, PostCnt, HwHead, HwCnt, prepared, walk>>
        /\ done' = done \cup {next} /\ ends' = IF eof THEN ends \cup {next} ELSE ends
    BY DEF Receive, headVars, cntVars, RingInv, TypeOK, HardwareType
  <1>2. Marked /\ Settled /\ Gathered
    BY <1>1 DEF QueueInv
  <1>3. next \notin Returned /\ (next \in Armed => next \notin done)
    BY <1>1, <1>2 DEF Marked, Settled
  <1>4. Armed' = Armed /\ Returned' = Returned
    BY <1>1, Zenon DEF Armed, Returned, Span
  <1>5. /\ \A i \in Bds : i # next => bd'[i] = bd[i]
        /\ bd'[next].own /\ bd'[next].end = eof
    <2>1. bd'[next] = [own |-> TRUE, end |-> eof]
      BY <1>1 DEF RingInv, TypeOK, MemoryType
    <2>2. bd'[next].own = TRUE /\ bd'[next].end = eof
      BY <2>1
    <2> QED BY <1>1, <2>2 DEF RingInv, TypeOK, MemoryType
  <1>6. Armed \subseteq Bds /\ Returned \subseteq Bds
    <2>1. HwHead \in Bds /\ HwCnt + prepared \in 0 .. AllCnt
          /\ PostHead \in Bds /\ PostCnt \in 0 .. AllCnt
      BY Ranges
    <2> QED BY <2>1, SpanInRing DEF Armed, Returned
  <1>7. Marked'
    <2>1. ASSUME NEW i \in Armed PROVE /\ bd'[i].own <=> i \in done'
                                       /\ bd'[i].end <=> i \in ends'
      <3>1. CASE i = next
        <4>1. next \notin ends
          BY <1>3, <2>1, <3>1 DEF RingInv, TypeOK, HardwareType
        <4> QED BY <1>1, <1>5, <3>1, <4>1
      <3>2. CASE i # next
        <4>1. bd'[i] = bd[i]
          BY <1>5, <1>6, <3>2
        <4>2. (i \in done' <=> i \in done) /\ (i \in ends' <=> i \in ends)
          BY <1>1, <3>2
        <4> QED BY <1>2, <4>1, <4>2, Zenon DEF Marked
      <3> QED BY <3>1, <3>2
    <2> QED BY <1>4, <2>1, Zenon DEF Marked
  <1>8. Settled'
    <2>1. ASSUME NEW i \in Returned PROVE bd'[i].own /\ i \in done'
      BY <1>1, <1>2, <1>3, <1>5, <1>6 DEF Settled
    <2> QED BY <1>4, <2>1 DEF Settled
  <1>9. Gathered'
    <2>1. done \subseteq done' /\ ends \subseteq ends'
      BY <1>1
    <2>2. Span(HwHead', walk'.count) = Span(HwHead, walk.count)
      BY <1>1, Zenon
    <2>3. /\ XEMACPS_RING_SEEKAHEAD(HwHead', walk'.count)
               = XEMACPS_RING_SEEKAHEAD(HwHead, walk.count)
          /\ XEMACPS_RING_SEEKAHEAD(HwHead', walk'.count - walk'.partial - 1)
               = XEMACPS_RING_SEEKAHEAD(HwHead, walk.count - walk.partial - 1)
      BY <1>1, Zenon
    <2> QED BY <1>1, <1>2, <2>1, <2>2, <2>3 DEF Gathered, Idle
  <1> QED BY <1>3, <1>7, <1>8, <1>9 DEF QueueInv

-----------------------------------------------------------------------------
\* Of a ring that sends there is nothing to say.
LEMMA QueueSends ==
    ASSUME dir # "RECV", dir' = dir
    PROVE  QueueInv'
  BY DEF QueueInv

LEMMA QueueStep == Clears /\ RingInv /\ RingInv' /\ QueueInv /\ [Next]_vars => QueueInv'
  <1> SUFFICES ASSUME Clears, RingInv, RingInv', QueueInv, [Next]_vars PROVE QueueInv'
    OBVIOUS
  <1>1. ASSUME NEW n \in 1 .. AllCnt, Calls(n) PROVE QueueInv'
    <2>1. CASE XEmacPs_BdRingAlloc(n) \/ XEmacPs_BdRingUnAlloc(n)
      <3>1. UNCHANGED <<dir, bd, walk, done, ends, HwHead, HwCnt, prepared, PostHead, PostCnt>>
        BY <2>1 DEF XEmacPs_BdRingAlloc, XEmacPs_BdRingUnAlloc, hardVars
      <3> QED BY <3>1, QueueMoves
    <2>2. CASE XEmacPs_BdRingToHw(n)
      <3>1. /\ UNCHANGED <<dir, bd, walk, done, ends, HwHead, PostHead, PostCnt>>
            /\ HwCnt' = HwCnt + n /\ prepared' = prepared - n
        BY <2>2 DEF XEmacPs_BdRingToHw, hardVars
      <3>2. HwCnt' + prepared' = HwCnt + prepared
        BY <3>1, Ranges
      <3> QED BY <3>1, <3>2, QueueMoves
    <2> QED BY <1>1, <2>1, <2>2, QueueFree, QueueFromHw, QueuePrepare DEF Calls
  <1>2. CASE Walk
    <2>1. CASE WalkSend
      <3>1. walk.at = "SEND" /\ dir' = dir
            /\ UNCHANGED <<headVars, cntVars, bd, prepared, running, hardVars>>
        BY <2>1 DEF WalkSend
      <3>2. dir # "RECV"
        BY <3>1 DEF QueueInv, Gathered
      <3> QED BY <3>1, <3>2, QueueSends
    <2> QED BY <1>2, <2>1, QueueReadStatus, QueueReadNew, QueueReturn DEF Walk
  <1>3. CASE Start
    <2>1. UNCHANGED <<dir, bd, walk, done, ends, HwHead, HwCnt, prepared, PostHead, PostCnt>>
      BY <1>3 DEF Start, headVars, cntVars, hardVars
    <2> QED BY <2>1, QueueMoves
  <1>4. CASE Hardware
    <2>1. CASE Send
      <3>1. dir # "RECV" /\ dir' = dir
        BY <2>1 DEF Send
      <3> QED BY <3>1, QueueSends
    <2> QED BY <1>4, <2>1, QueueReceive DEF Hardware
  <1>5. CASE UNCHANGED vars
    <2>1. UNCHANGED <<dir, bd, walk, done, ends, HwHead, HwCnt, prepared, PostHead, PostCnt>>
      BY <1>5 DEF vars, headVars, cntVars, hardVars
    <2> QED BY <2>1, QueueMoves
  <1> QED BY <1>1, <1>2, <1>3, <1>4, <1>5 DEF Next

LEMMA QueuesStart == Init => Queues!Init
  <1> SUFFICES ASSUME Init PROVE Queues!Init
    OBVIOUS
  <1>1. \A p : Group(p, 0) = << >>
    BY DEF Group
  <1>2. FreeHead = 0 /\ FreeCnt = AllCnt /\ PreCnt = 0 /\ HwCnt = 0 /\ PostCnt = 0
        /\ done = {} /\ ends = {} /\ dir \in {"SEND", "RECV"}
    BY RingAssumption DEF Init
  <1>3. \A i \in 1 .. AllCnt : XEMACPS_RING_SEEKAHEAD(0, i - 1) = i - 1
    BY RingAssumption DEF XEMACPS_RING_SEEKAHEAD
  <1>4. Group(0, AllCnt) = [i \in 1 .. AllCnt |-> i - 1]
    BY <1>3 DEF Group
  <1> QED BY <1>1, <1>2, <1>4, Zenon DEF Queues!Init

\* The groups a call leaves alone are queues it leaves alone.
LEMMA GroupFrame ==
    /\ UNCHANGED <<FreeHead, FreeCnt>> => UNCHANGED Group(FreeHead, FreeCnt)
    /\ UNCHANGED <<PreHead, PreCnt>> => UNCHANGED Group(PreHead, PreCnt)
    /\ UNCHANGED <<HwHead, HwCnt>> => UNCHANGED Group(HwHead, HwCnt)
    /\ UNCHANGED <<PostHead, PostCnt>> => UNCHANGED Group(PostHead, PostCnt)
  BY Zenon DEF Group

\* n BDs go from the front of one queue to the end of the one before it.
LEMMA GroupHandsOver ==
    ASSUME NEW p \in Bds, NEW a \in Nat, NEW b \in Nat, NEW n \in 0 .. b, NEW q,
           a + b <= AllCnt, q = XEMACPS_RING_SEEKAHEAD(p, a)
    PROVE  /\ n <= Len(Group(q, b))
           /\ Group(p, a + n) = Group(p, a) \o SubSeq(Group(q, b), 1, n)
           /\ Group(XEMACPS_RING_SEEKAHEAD(q, n), b - n)
                = SubSeq(Group(q, b), n + 1, Len(Group(q, b)))
  <1>1. q \in Bds /\ b \in 0 .. AllCnt /\ n \in Nat /\ a + n <= AllCnt
    <2>1. a \in 0 .. AllCnt /\ b \in 0 .. AllCnt /\ n \in Nat /\ a + n <= AllCnt
      BY RingAssumption
    <2> QED BY <2>1, SeekInRing
  <1>2. n <= Len(Group(q, b))
    BY GroupIs
  <1>3. Group(p, a) \o Group(q, n) = Group(p, a + n)
    BY <1>1, GroupAppend
  <1>4. Queues!Front(Group(q, b), n) = Group(q, n)
    BY <1>1, GroupFront
  <1>5. Queues!Rest(Group(q, b), n) = Group(XEMACPS_RING_SEEKAHEAD(q, n), b - n)
    BY <1>1, GroupRest
  <1> QED BY <1>2, <1>3, <1>4, <1>5, Zenon DEF Queues!Front, Queues!Rest

LEMMA RefinesAlloc ==
    ASSUME RingInv, NEW n \in 1 .. AllCnt, XEmacPs_BdRingAlloc(n)
    PROVE  Queues!Alloc(n)
  <1>1. n \in 0 .. FreeCnt /\ PreCnt \in Nat /\ FreeCnt \in Nat /\ PreCnt + FreeCnt <= AllCnt
    BY Ranges DEF XEmacPs_BdRingAlloc
  <1>2. /\ FreeHead' = XEMACPS_RING_SEEKAHEAD(FreeHead, n) /\ FreeCnt' = FreeCnt - n
        /\ PreCnt' = PreCnt + n
        /\ UNCHANGED <<PreHead, HwHead, HwCnt, PostHead, PostCnt, dir, done, ends>>
    BY DEF XEmacPs_BdRingAlloc, hardVars
  <1>3. /\ n <= Len(Group(FreeHead, FreeCnt))
        /\ Group(PreHead, PreCnt + n)
             = Group(PreHead, PreCnt) \o Queues!Front(Group(FreeHead, FreeCnt), n)
        /\ Group(XEMACPS_RING_SEEKAHEAD(FreeHead, n), FreeCnt - n)
             = Queues!Rest(Group(FreeHead, FreeCnt), n)
    <2>1. PreHead \in Bds /\ FreeHead = XEMACPS_RING_SEEKAHEAD(PreHead, PreCnt)
      BY Ranges
    <2> QED BY <1>1, <2>1, GroupHandsOver DEF Queues!Front, Queues!Rest
  <1>4. /\ Group(FreeHead, FreeCnt)' = Group(XEMACPS_RING_SEEKAHEAD(FreeHead, n), FreeCnt - n)
        /\ Group(PreHead, PreCnt)' = Group(PreHead, PreCnt + n)
    BY <1>2, Zenon DEF Group
  <1>5. UNCHANGED <<Group(HwHead, HwCnt), Group(PostHead, PostCnt), dir, done, ends>>
    BY <1>2, GroupFrame
  <1> QED BY <1>3, <1>4, <1>5, Zenon DEF Queues!Alloc

LEMMA RefinesUnAlloc ==
    ASSUME RingInv, NEW n \in 1 .. AllCnt, XEmacPs_BdRingUnAlloc(n)
    PROVE  Queues!UnAlloc(n)
  <1> DEFINE kept == PreCnt - n
             q == XEMACPS_RING_SEEKAHEAD(PreHead, kept)
  <1>1. /\ n \in 0 .. PreCnt /\ kept \in 0 .. PreCnt /\ kept \in Nat /\ prepared <= kept
        /\ n \in Nat /\ kept + n = PreCnt /\ PreCnt - kept = n /\ PreCnt \in 0 .. AllCnt
        /\ n + FreeCnt <= AllCnt /\ FreeCnt \in Nat /\ PreCnt <= AllCnt
    <2>1. n \in 1 .. AllCnt /\ n <= PreCnt - prepared
      BY DEF XEmacPs_BdRingUnAlloc
    <2>2. /\ FreeCnt \in 0 .. AllCnt /\ PreCnt \in 0 .. AllCnt /\ HwCnt \in 0 .. AllCnt
          /\ PostCnt \in 0 .. AllCnt /\ prepared \in 0 .. PreCnt /\ AllCnt \in Nat
          /\ FreeCnt + PreCnt + HwCnt + PostCnt = AllCnt
      BY Ranges
    <2>3. PreCnt + FreeCnt <= AllCnt
      BY <2>2
    <2> QED BY <2>1, <2>2, <2>3
  <1>2. FreeHead' = q /\ FreeCnt' = FreeCnt + n /\ PreCnt' = kept
        /\ UNCHANGED <<PreHead, HwHead, HwCnt, PostHead, PostCnt, dir, done, ends>>
    <2>1. XEMACPS_RING_SEEKBACK(FreeHead, n) = q
      BY <1>1, Ranges, SeekBack
    <2> QED BY <2>1 DEF XEmacPs_BdRingUnAlloc, hardVars
  <1>3. q \in Bds /\ FreeHead = XEMACPS_RING_SEEKAHEAD(q, n)
    <2>1. q \in Bds
      BY <1>1, Ranges, SeekInRing
    <2>2. XEMACPS_RING_SEEKAHEAD(q, n) = XEMACPS_RING_SEEKAHEAD(PreHead, kept + n)
      BY <1>1, Ranges, SeekTwice
    <2> QED BY <1>1, <2>1, <2>2, Ranges
  <1> HIDE DEF q
  <1>4. Queues!Front(Group(PreHead, PreCnt), kept) = Group(PreHead, kept)
    BY <1>1, Ranges, GroupFront
  <1>5. Queues!Rest(Group(PreHead, PreCnt), kept) = Group(q, n)
    BY <1>1, Ranges, GroupRest DEF q
  <1>6. Group(q, n) \o Group(FreeHead, FreeCnt) = Group(q, FreeCnt + n)
    <2>1. n + FreeCnt = FreeCnt + n
      BY <1>1
    <2>2. Group(q, n) \o Group(XEMACPS_RING_SEEKAHEAD(q, n), FreeCnt) = Group(q, n + FreeCnt)
      BY <1>1, <1>3, GroupAppend
    <2> QED BY <1>3, <2>1, <2>2, Zenon
  <1>8. Len(Group(PreHead, PreCnt)) - n = kept
    BY <1>1, GroupIs
  <1>9. /\ Group(FreeHead, FreeCnt)' = Group(q, FreeCnt + n)
        /\ Group(PreHead, PreCnt)' = Group(PreHead, kept)
    BY <1>2, Zenon DEF Group
  <1>10. UNCHANGED <<Group(HwHead, HwCnt), Group(PostHead, PostCnt), dir, done, ends>>
    BY <1>2, GroupFrame
  <1>11. kept >= 0
    BY <1>1
  <1> HIDE DEF kept
  <1> QED BY <1>4, <1>5, <1>6, <1>8, <1>9, <1>10, <1>11, Zenon DEF Queues!UnAlloc

LEMMA RefinesToHw ==
    ASSUME RingInv, NEW n \in 1 .. AllCnt, XEmacPs_BdRingToHw(n)
    PROVE  Queues!ToHw(n)
  <1>1. n \in 0 .. PreCnt /\ HwCnt \in Nat /\ PreCnt \in Nat /\ HwCnt + PreCnt <= AllCnt
    BY Ranges DEF XEmacPs_BdRingToHw
  <1>2. /\ PreHead' = XEMACPS_RING_SEEKAHEAD(PreHead, n) /\ PreCnt' = PreCnt - n
        /\ HwCnt' = HwCnt + n
        /\ UNCHANGED <<FreeHead, FreeCnt, HwHead, PostHead, PostCnt, dir, done, ends>>
    BY DEF XEmacPs_BdRingToHw, hardVars
  <1>3. /\ n <= Len(Group(PreHead, PreCnt))
        /\ Group(HwHead, HwCnt + n)
             = Group(HwHead, HwCnt) \o Queues!Front(Group(PreHead, PreCnt), n)
        /\ Group(XEMACPS_RING_SEEKAHEAD(PreHead, n), PreCnt - n)
             = Queues!Rest(Group(PreHead, PreCnt), n)
    <2>1. HwHead \in Bds /\ PreHead = XEMACPS_RING_SEEKAHEAD(HwHead, HwCnt)
      BY Ranges
    <2> QED BY <1>1, <2>1, GroupHandsOver DEF Queues!Front, Queues!Rest
  <1>4. /\ Group(PreHead, PreCnt)' = Group(XEMACPS_RING_SEEKAHEAD(PreHead, n), PreCnt - n)
        /\ Group(HwHead, HwCnt)' = Group(HwHead, HwCnt + n)
    BY <1>2, Zenon DEF Group
  <1>5. UNCHANGED <<Group(FreeHead, FreeCnt), Group(PostHead, PostCnt), dir, done, ends>>
    BY <1>2, GroupFrame
  <1> QED BY <1>3, <1>4, <1>5, Zenon DEF Queues!ToHw

LEMMA RefinesFree ==
    ASSUME RingInv, NEW n \in 1 .. AllCnt, XEmacPs_BdRingFree(n)
    PROVE  Queues!Free(n)
  <1>1. /\ n \in 0 .. PostCnt /\ FreeCnt \in Nat /\ PostCnt \in Nat /\ FreeCnt + PostCnt <= AllCnt
        /\ n \in 0 .. AllCnt
    BY Ranges DEF XEmacPs_BdRingFree
  <1>2. /\ PostHead' = XEMACPS_RING_SEEKAHEAD(PostHead, n) /\ PostCnt' = PostCnt - n
        /\ FreeCnt' = FreeCnt + n
        /\ UNCHANGED <<FreeHead, PreHead, PreCnt, HwHead, HwCnt, dir, done, ends>>
    BY DEF XEmacPs_BdRingFree, hardVars
  <1>3. PostHead = XEMACPS_RING_SEEKAHEAD(FreeHead, FreeCnt)
    <2>1. /\ PostCnt \in Nat /\ HwCnt \in Nat /\ PreCnt \in Nat /\ FreeCnt \in Nat
          /\ PostCnt + HwCnt \in Nat /\ PostCnt + HwCnt + PreCnt \in Nat
          /\ PostCnt + HwCnt <= AllCnt /\ PostCnt + HwCnt + PreCnt <= AllCnt
          /\ PostCnt + HwCnt + PreCnt + FreeCnt = AllCnt
          /\ PostCnt + HwCnt + PreCnt + FreeCnt <= AllCnt
      BY Ranges
    <2>2. PreHead = XEMACPS_RING_SEEKAHEAD(PostHead, PostCnt + HwCnt)
      BY <2>1, Ranges, SeekTwice
    <2>3. FreeHead = XEMACPS_RING_SEEKAHEAD(PostHead, PostCnt + HwCnt + PreCnt)
      BY <2>1, <2>2, Ranges, SeekTwice
    <2>4. XEMACPS_RING_SEEKAHEAD(FreeHead, FreeCnt)
            = XEMACPS_RING_SEEKAHEAD(PostHead, PostCnt + HwCnt + PreCnt + FreeCnt)
      BY <2>1, <2>3, Ranges, SeekTwice
    <2>5. XEMACPS_RING_SEEKAHEAD(PostHead, AllCnt) = PostHead
      BY Ranges, RingAssumption DEF XEMACPS_RING_SEEKAHEAD, Bds
    <2> QED BY <2>1, <2>4, <2>5
  <1>4. /\ n <= Len(Group(PostHead, PostCnt))
        /\ Group(FreeHead, FreeCnt + n)
             = Group(FreeHead, FreeCnt) \o Queues!Front(Group(PostHead, PostCnt), n)
        /\ Group(XEMACPS_RING_SEEKAHEAD(PostHead, n), PostCnt - n)
             = Queues!Rest(Group(PostHead, PostCnt), n)
    <2>1. FreeHead \in Bds
      BY Ranges
    <2> QED BY <1>1, <1>3, <2>1, GroupHandsOver DEF Queues!Front, Queues!Rest
  <1>6. /\ Group(PostHead, PostCnt)' = Group(XEMACPS_RING_SEEKAHEAD(PostHead, n), PostCnt - n)
        /\ Group(FreeHead, FreeCnt)' = Group(FreeHead, FreeCnt + n)
    BY <1>2, Zenon DEF Group
  <1>7. UNCHANGED <<Group(PreHead, PreCnt), Group(HwHead, HwCnt)>>
    BY <1>2, GroupFrame
  <1> QED BY <1>2, <1>4, <1>6, <1>7, Zenon DEF Queues!Free

\* What comes back are whole packets that hardware has processed, or nothing.
LEMMA RefinesReturn ==
    ASSUME RingInv, RingInv', QueueInv, Return
    PROVE  (\E n \in 1 .. AllCnt : Queues!FromHw(n)) \/ UNCHANGED Queues!vars
  <1> DEFINE n == walk.count - walk.partial
  <1>1. n \in 0 .. HwCnt /\ walk.count \in Int /\ walk.partial \in Nat /\ ~ Idle
    BY DEF Return, Idle, WalkBounded, RingInv, TypeOK, WalkType, RingType
  <1>2. ASSUME dir = "RECV", n > 0
        PROVE  /\ Span(HwHead, n) \subseteq done
               /\ XEMACPS_RING_SEEKAHEAD(HwHead, n - 1) \in ends
    <2>1. walk.partial < walk.count /\ n - 1 = walk.count - walk.partial - 1
      BY <1>1, <1>2
    <2>2. Gathered
      BY <1>2 DEF QueueInv
    <2>3. Span(HwHead, n) \subseteq Span(HwHead, walk.count)
      BY <1>1 DEF Span
    <2> HIDE DEF n
    <2> QED BY <1>1, <2>1, <2>2, <2>3 DEF Gathered
  <1>3. /\ PostCnt' = PostCnt + n /\ HwHead' = XEMACPS_RING_SEEKAHEAD(HwHead, n)
        /\ UNCHANGED <<PostHead, FreeHead, FreeCnt, PreHead, PreCnt, dir, done, ends>>
    BY DEF Return, hardVars
  <1> HIDE DEF n
  <1>4. HwCnt' = HwCnt - n
    <2>1. FreeCnt + PreCnt + HwCnt' + (PostCnt + n) = AllCnt /\ HwCnt' \in Int
      <3>1. FreeCnt' + PreCnt' + HwCnt' + PostCnt' = AllCnt /\ HwCnt' \in Int
        BY DEF RingInv, TypeOK, RingType, Consistent
      <3> QED BY <1>3, <3>1
    <2>2. FreeCnt \in Int /\ PreCnt \in Int /\ HwCnt \in Int /\ PostCnt \in Int /\ n \in Int
          /\ FreeCnt + PreCnt + HwCnt + PostCnt = AllCnt
      BY <1>1, Ranges
    <2> QED BY <2>1, <2>2
  <1>5. UNCHANGED <<Group(FreeHead, FreeCnt), Group(PreHead, PreCnt), dir, done, ends>>
    BY <1>3, GroupFrame
  <1>6. CASE n = 0
    <2>1. HwHead' = HwHead /\ HwCnt' = HwCnt /\ PostCnt' = PostCnt
      <3>1. XEMACPS_RING_SEEKAHEAD(HwHead, 0) = HwHead
        BY Ranges, SeekNone
      <3>2. HwCnt \in Int /\ PostCnt \in Int
        BY Ranges
      <3> QED BY <1>3, <1>4, <1>6, <3>1, <3>2
    <2>2. UNCHANGED <<Group(HwHead, HwCnt), Group(PostHead, PostCnt)>>
      BY <1>3, <2>1, GroupFrame
    <2> QED BY <1>5, <2>2, Zenon DEF Queues!vars
  <1>7. CASE n # 0
    <2>1. /\ n \in 1 .. AllCnt /\ n > 0 /\ n \in 0 .. HwCnt /\ n \in 0 .. AllCnt
          /\ n \in 1 .. HwCnt /\ PostCnt \in Nat /\ HwCnt \in Nat
          /\ HwCnt \in 0 .. AllCnt /\ PostCnt + HwCnt <= AllCnt
      BY <1>1, <1>7, Ranges
    <2>2. /\ n <= Len(Group(HwHead, HwCnt))
          /\ Group(PostHead, PostCnt + n)
               = Group(PostHead, PostCnt) \o Queues!Front(Group(HwHead, HwCnt), n)
          /\ Group(XEMACPS_RING_SEEKAHEAD(HwHead, n), HwCnt - n)
               = Queues!Rest(Group(HwHead, HwCnt), n)
      <3>1. PostHead \in Bds /\ HwHead = XEMACPS_RING_SEEKAHEAD(PostHead, PostCnt)
        BY Ranges
      <3> QED BY <2>1, <3>1, GroupHandsOver DEF Queues!Front, Queues!Rest
    <2>3. dir = "RECV" => Queues!Members(Queues!Front(Group(HwHead, HwCnt), n)) \subseteq done
      <3>1. HwHead \in Bds
        BY Ranges
      <3>2. Queues!Front(Group(HwHead, HwCnt), n) = Group(HwHead, n)
        BY <2>1, <3>1, GroupFront
      <3>3. Queues!Members(Group(HwHead, n)) = Span(HwHead, n)
        BY <2>1, <3>1, GroupMembers
      <3> QED BY <1>2, <2>1, <3>2, <3>3
    <2>4. dir = "RECV" => Group(HwHead, HwCnt)[n] \in ends
      <3>1. Group(HwHead, HwCnt)[n] = XEMACPS_RING_SEEKAHEAD(HwHead, n - 1)
        BY <2>1, GroupIs
      <3> QED BY <1>2, <2>1, <3>1
    <2>5. /\ Group(HwHead, HwCnt)' = Group(XEMACPS_RING_SEEKAHEAD(HwHead, n), HwCnt - n)
          /\ Group(PostHead, PostCnt)' = Group(PostHead, PostCnt + n)
      BY <1>3, <1>4, Zenon DEF Group
    <2>6. Queues!FromHw(n)
      BY <1>5, <2>2, <2>3, <2>4, <2>5, Zenon DEF Queues!FromHw
    <2> QED BY <2>1, <2>6, Zenon
  <1> QED BY <1>6, <1>7

\* The user takes a BD that gets its buffer for not processed: one that neither
\* hardware has been given nor the user has back.
LEMMA RefinesPrepare ==
    ASSUME RingInv, NEW n \in 1 .. AllCnt, Prepare(n)
    PROVE  Queues!Process
  <1> DEFINE given == Span(XEMACPS_RING_SEEKAHEAD(PreHead, prepared), n)
  <1>1. /\ prepared + n <= PreCnt /\ n \in Nat
        /\ done' = done \ given /\ ends' = ends \ given
        /\ UNCHANGED <<dir, headVars, cntVars>>
    BY DEF Prepare
  <1>2. UNCHANGED <<Group(FreeHead, FreeCnt), Group(PreHead, PreCnt), Group(HwHead, HwCnt),
                    Group(PostHead, PostCnt)>>
    BY <1>1, GroupFrame DEF headVars, cntVars
  <1>3. done \subseteq Bds
    BY DEF RingInv, TypeOK, HardwareType
  <1>4. ASSUME NEW i \in done, i \in given PROVE i \notin Returned /\ i \notin Span(HwHead, HwCnt)
    BY <1>1, <1>3, <1>4, Apart
  <1>5. /\ Queues!Members(Group(HwHead, HwCnt)) = Span(HwHead, HwCnt)
        /\ Queues!Members(Group(PostHead, PostCnt)) = Returned
    BY Ranges, GroupMembers DEF Returned
  <1> HIDE DEF given
  <1>6. /\ done \cap (Span(HwHead, HwCnt) \cup Returned) \subseteq done'
        /\ ends' \cap (done \cap (Span(HwHead, HwCnt) \cup Returned))
             = ends \cap (done \cap (Span(HwHead, HwCnt) \cup Returned))
        /\ done' \cap Returned \subseteq done
    BY <1>1, <1>4
  <1> QED BY <1>1, <1>2, <1>5, <1>6, Zenon DEF Queues!Process

\* Hardware processes nothing a second time, and nothing that has come back.
LEMMA RefinesHardware ==
    ASSUME RingInv, QueueInv, Hardware
    PROVE  Queues!Process
  <1>1. UNCHANGED <<dir, headVars, cntVars>>
    BY DEF Hardware, Send, Receive
  <1>2. UNCHANGED <<Group(FreeHead, FreeCnt), Group(PreHead, PreCnt), Group(HwHead, HwCnt),
                    Group(PostHead, PostCnt)>>
    BY <1>1, GroupFrame DEF headVars, cntVars
  <1>3. ASSUME dir = "RECV"
        PROVE  LET held == done \cap (Span(HwHead, HwCnt) \cup Returned)
               IN  /\ held \subseteq done' /\ ends' \cap held = ends \cap held
                   /\ done' \cap Returned \subseteq done
    <2>1. PICK eof \in BOOLEAN : Receive(eof)
      BY <1>3 DEF Hardware, Send
    <2>2. next \notin Returned /\ (next \in Armed => next \notin done)
      BY <2>1, QueueReceive
    <2>3. done' = done \cup {next} /\ ends' = IF eof THEN ends \cup {next} ELSE ends
      BY <2>1 DEF Receive
    <2>4. Span(HwHead, HwCnt) \subseteq Armed
      BY Ranges DEF Armed, Span
    <2> QED BY <2>2, <2>3, <2>4
  <1>4. /\ Queues!Members(Group(HwHead, HwCnt)) = Span(HwHead, HwCnt)
        /\ Queues!Members(Group(PostHead, PostCnt)) = Returned
    BY Ranges, GroupMembers DEF Returned
  <1> QED BY <1>1, <1>2, <1>3, <1>4, Zenon DEF Queues!Process

\* What neither moves a BD between the groups nor processes one.
LEMMA RefinesStutter ==
    ASSUME UNCHANGED <<dir, headVars, cntVars, hardVars>>
    PROVE  UNCHANGED Queues!vars
  <1>1. UNCHANGED <<Group(FreeHead, FreeCnt), Group(PreHead, PreCnt), Group(HwHead, HwCnt),
                    Group(PostHead, PostCnt)>>
    BY GroupFrame DEF headVars, cntVars
  <1> QED BY <1>1 DEF Queues!vars, hardVars

LEMMA QueuesStep ==
    RingInv /\ RingInv' /\ QueueInv /\ [Next]_vars => [Queues!Next]_(Queues!vars)
  <1> SUFFICES ASSUME RingInv, RingInv', QueueInv, [Next]_vars
               PROVE  [Queues!Next]_(Queues!vars)
    OBVIOUS
  <1>1. ASSUME NEW n \in 1 .. AllCnt, Calls(n) PROVE [Queues!Next]_(Queues!vars)
    <2>1. CASE XEmacPs_BdRingAlloc(n)
      BY <2>1, RefinesAlloc, Zenon DEF Queues!Next
    <2>2. CASE XEmacPs_BdRingUnAlloc(n)
      BY <2>2, RefinesUnAlloc, Zenon DEF Queues!Next
    <2>3. CASE XEmacPs_BdRingToHw(n)
      BY <2>3, RefinesToHw, Zenon DEF Queues!Next
    <2>4. CASE XEmacPs_BdRingFree(n)
      BY <2>4, RefinesFree, Zenon DEF Queues!Next
    <2>5. CASE FromHw(n)
      <3>1. UNCHANGED <<dir, headVars, cntVars, hardVars>>
        BY <2>5 DEF FromHw
      <3> QED BY <3>1, RefinesStutter
    <2>6. CASE Prepare(n)
      BY <2>6, RefinesPrepare, Zenon DEF Queues!Next
    <2> QED BY <1>1, <2>1, <2>2, <2>3, <2>4, <2>5, <2>6 DEF Calls
  <1>2. CASE Walk
    <2>1. CASE Return
      BY <2>1, RefinesReturn, Zenon DEF Queues!Next
    <2>2. CASE WalkSend \/ ReadStatus \/ ReadNew
      <3>1. UNCHANGED <<dir, headVars, cntVars, hardVars>>
        BY <2>2 DEF WalkSend, ReadStatus, ReadNew
      <3> QED BY <3>1, RefinesStutter
    <2> QED BY <1>2, <2>1, <2>2 DEF Walk
  <1>3. CASE Start
    <2>1. UNCHANGED <<dir, headVars, cntVars, hardVars>>
      BY <1>3 DEF Start
    <2> QED BY <2>1, RefinesStutter
  <1>4. CASE Hardware
    BY <1>4, RefinesHardware, Zenon DEF Queues!Next
  <1>5. CASE UNCHANGED vars
    BY <1>5, RefinesStutter DEF vars
  <1> QED BY <1>1, <1>2, <1>3, <1>4, <1>5 DEF Next

\* Of a receive ring whose user clears the BDs, the two bits tell what hardware
\* has done to a BD that has its buffer, what has come back has been processed
\* and is left alone, and a walk gathers only what has been processed.
THEOREM QueueInvariance == Careful /\ Clears => (Spec => []QueueInv)
  <1> SUFFICES ASSUME Careful, Clears PROVE Spec => []QueueInv
    OBVIOUS
  <1>1. RingInv /\ RingInv' /\ QueueInv /\ [Next]_vars => QueueInv'
    BY QueueStep
  <1>2. Spec => []RingInv
    BY RingInvariance
  <1> QED BY QueueInit, <1>1, <1>2, PTL DEF Spec

\* The ring implements the four queues, for every number of BDs, every length
\* of the packets sent and received, every moment at which the device starts
\* and every interleaving of hardware with the calls: no BD is lost, doubled or
\* overtaken, and of a receive ring only whole packets come back that hardware
\* has processed since their BDs have their buffers.
THEOREM QueuesKept == Careful /\ Clears => (Spec => KeepsQueues)
  <1> SUFFICES ASSUME Careful, Clears PROVE Spec => KeepsQueues
    OBVIOUS
  <1>1. RingInv /\ RingInv' /\ QueueInv /\ [Next]_vars => [Queues!Next]_(Queues!vars)
    BY QueuesStep
  <1>2. Spec => []RingInv
    BY RingInvariance
  <1>3. Spec => []QueueInv
    BY QueueInvariance
  <1> QED BY QueuesStart, <1>1, <1>2, <1>3, PTL DEF Spec, KeepsQueues, Queues!Spec
=============================================================================
