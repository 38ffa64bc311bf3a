------------------------------- MODULE BdRing -------------------------------
(***************************************************************************)
(* The ring of buffer descriptors of the Ethernet driver (xemacps_bdring.c)*)
(* between a user and the DMA engine of the Ethernet controller.  A BD is  *)
(* named by its place in the ring; of its words the model keeps the bit    *)
(* hardware sets when it is done (USED for SEND, NEW for RECV) and the one *)
(* that ends a packet (LAST set by the user, EOF by hardware).             *)
(*                                                                         *)
(* The calls of a ring exclude each other, as the driver asks for; the     *)
(* hardware runs all the time, also while a call walks through the ring.   *)
(* A call that the driver refuses changes nothing and is left out.         *)
(***************************************************************************)
EXTENDS Integers, FiniteSets

CONSTANTS
    AllCnt,        \* the number of BDs
    Directions,    \* the directions a ring may serve: SEND, RECV
    MaxSend,       \* the most BDs of a packet sent
    MaxRecv,       \* the most BDs of a packet received
    Careful,       \* does the user ask for no more than it has handed over?
    Clears,        \* does it clear the bits of a receive BD when it gives it a buffer?
    Wrap           \* the counters are unsigned, modulo Wrap

ASSUME RingAssumption ==
    /\ AllCnt \in Nat \ {0} /\ Wrap \in Nat /\ Wrap > AllCnt
    /\ Directions \subseteq {"SEND", "RECV"}
    /\ MaxSend \in 1 .. AllCnt /\ MaxRecv \in 1 .. AllCnt
    /\ Careful \in BOOLEAN /\ Clears \in BOOLEAN

VARIABLES
    dir,                                      \* the direction of the ring
    FreeHead, PreHead, HwHead, HwTail, PostHead,
    FreeCnt, PreCnt, HwCnt, PostCnt,
    bd,                                       \* the BDs in memory
    walk,                                     \* the locals of XEmacPs_BdRingFromHwTx/Rx
    prepared,                                 \* how many BDs of the pre-processing group have a buffer
    running,                                  \* the device is started
    next,                                     \* the BD hardware looks at next
    part,                                     \* how many BDs of the packet it has filled
    done,                                     \* BDs processed since they have their buffer (history)
    ends                                      \* those of them that end a packet (history)

headVars == <<FreeHead, PreHead, HwHead, HwTail, PostHead>>
cntVars == <<FreeCnt, PreCnt, HwCnt, PostCnt>>
hardVars == <<next, part, done, ends>>
vars == <<dir, headVars, cntVars, bd, walk, prepared, running, hardVars>>

Bds == 0 .. AllCnt - 1

\* Mutant: the address after the highest BD is taken for one in the ring.
XEMACPS_RING_SEEKAHEAD_PastEnd(p, n) ==
    IF p + n > AllCnt THEN p + n - AllCnt ELSE p + n

XEMACPS_RING_SEEKAHEAD(p, n) ==
    IF p + n > AllCnt - 1 THEN p + n - AllCnt ELSE p + n

XEMACPS_RING_SEEKBACK(p, n) ==
    IF p - n < 0 THEN p - n + AllCnt ELSE p - n

XEmacPs_BdRingNext(p) == XEMACPS_RING_SEEKAHEAD(p, 1)

\* The n BDs from p on.
Span(p, n) == {XEMACPS_RING_SEEKAHEAD(p, i) : i \in 0 .. n - 1}

NoWalk == [at |-> "none", cur |-> 0, limit |-> 0, count |-> 0, partial |-> 0,
           sop |-> FALSE, stat |-> FALSE]

Idle == walk.at = "none"

\* The template of XEmacPs_BdRingClone: a BD to send belongs to the software.
Template(d) == [own |-> d = "SEND", end |-> FALSE]

-----------------------------------------------------------------------------
\* XEmacPs_BdRingCreate and XEmacPs_BdRingClone.
Init ==
    /\ dir \in Directions
    /\ FreeHead = 0 /\ PreHead = 0 /\ HwHead = 0 /\ HwTail = 0 /\ PostHead = 0
    /\ FreeCnt = AllCnt /\ PreCnt = 0 /\ HwCnt = 0 /\ PostCnt = 0
    /\ bd = [i \in Bds |-> Template(dir)]
    /\ walk = NoWalk /\ prepared = 0 /\ running = FALSE
    /\ next = 0 /\ part = 0 /\ done = {} /\ ends = {}

XEmacPs_BdRingAlloc(n) ==
    /\ Idle /\ n <= FreeCnt
    /\ FreeHead' = XEMACPS_RING_SEEKAHEAD(FreeHead, n)
    /\ FreeCnt' = FreeCnt - n /\ PreCnt' = PreCnt + n
    /\ UNCHANGED <<dir, PreHead, HwHead, HwTail, PostHead, HwCnt, PostCnt, bd, walk,
                   prepared, running, hardVars>>

\* Only what the user has not prepared yet: hardware may be at work on the rest.
XEmacPs_BdRingUnAlloc(n) ==
    /\ Idle /\ n <= PreCnt - prepared
    /\ FreeHead' = XEMACPS_RING_SEEKBACK(FreeHead, n)
    /\ FreeCnt' = FreeCnt + n /\ PreCnt' = PreCnt - n
    /\ UNCHANGED <<dir, PreHead, HwHead, HwTail, PostHead, HwCnt, PostCnt, bd, walk,
                   prepared, running, hardVars>>

\* Mutant: the tail is moved once per call instead of once per BD.
XEmacPs_BdRingToHw_Tail(n) ==
    /\ Idle /\ n <= PreCnt
    /\ n <= prepared
    /\ (dir = "SEND" => bd[XEMACPS_RING_SEEKAHEAD(PreHead, n - 1)].end)
    /\ PreHead' = XEMACPS_RING_SEEKAHEAD(PreHead, n)
    /\ PreCnt' = PreCnt - n /\ HwCnt' = HwCnt + n
    /\ HwTail' = XEmacPs_BdRingNext(PreHead)
    /\ prepared' = prepared - n
    /\ UNCHANGED <<dir, FreeHead, HwHead, PostHead, FreeCnt, PostCnt, bd, walk, running,
                   hardVars>>

\* The set ends with a packet, as XEmacPs_BdRingToHw asks but does not check.
XEmacPs_BdRingToHw(n) ==
    /\ Idle /\ n <= PreCnt
    /\ n <= prepared
    /\ (dir = "SEND" => bd[XEMACPS_RING_SEEKAHEAD(PreHead, n - 1)].end)
    /\ PreHead' = XEMACPS_RING_SEEKAHEAD(PreHead, n)
    /\ PreCnt' = PreCnt - n /\ HwCnt' = HwCnt + n
    /\ HwTail' = XEMACPS_RING_SEEKAHEAD(PreHead, n)
    /\ prepared' = prepared - n
    /\ UNCHANGED <<dir, FreeHead, HwHead, PostHead, FreeCnt, PostCnt, bd, walk, running,
                   hardVars>>

XEmacPs_BdRingFree(n) ==
    /\ Idle /\ n <= PostCnt
    /\ PostHead' = XEMACPS_RING_SEEKAHEAD(PostHead, n)
    /\ FreeCnt' = FreeCnt + n /\ PostCnt' = PostCnt - n
    /\ UNCHANGED <<dir, FreeHead, PreHead, HwHead, HwTail, PreCnt, HwCnt, bd, walk, prepared,
                   running, hardVars>>

-----------------------------------------------------------------------------
\* XEmacPs_BdRingFromHwTx and Rx: only the first caps the limit.

\* Mutant: the last BD of the hardware group is never looked at.
BdLimit_OneLess(limit) == IF limit >= HwCnt THEN HwCnt - 1 ELSE limit

BdLimit(limit) == IF dir = "SEND" /\ limit > HwCnt THEN HwCnt ELSE limit

\* What a careful user asks for: a packet of one BD, or what it has given.
Request == IF dir = "SEND" THEN 1 ELSE HwCnt

FromHw(limit) ==
    /\ Idle /\ running /\ HwCnt > 0
    /\ Careful => limit <= Request
    /\ walk' = [NoWalk EXCEPT !.at = dir, !.cur = HwHead, !.limit = BdLimit(limit)]
    /\ UNCHANGED <<dir, headVars, cntVars, bd, prepared, running, hardVars>>

\* A BD without its USED bit is passed over while no packet has begun.
WalkSend ==
    LET found == walk.sop \/ bd[walk.cur].own
        last  == bd[walk.cur].end
    IN  /\ walk.at = "SEND" /\ walk.count < walk.limit
        /\ walk' = [walk EXCEPT
             !.sop = found /\ ~ last,
             !.count = IF found THEN @ + 1 ELSE @,
             !.partial = CASE found /\ last -> 0 [] found /\ ~ last -> @ + 1 [] OTHER -> @,
             !.cur = XEmacPs_BdRingNext(@)]
        /\ UNCHANGED <<dir, headVars, cntVars, bd, prepared, running, hardVars>>

\* The status word is read first, and the NEW bit, in the other word, after it.
ReadStatus ==
    /\ walk.at = "RECV" /\ walk.count < walk.limit
    /\ walk' = [walk EXCEPT !.at = "NEW", !.stat = bd[walk.cur].end]
    /\ UNCHANGED <<dir, headVars, cntVars, bd, prepared, running, hardVars>>

\* Mutant: a BD without its NEW bit is passed over, as in WalkSend.
ReadNew_PassOver ==
    LET new == bd[walk.cur].own IN
    /\ walk.at = "NEW"
    /\ walk' = [walk EXCEPT !.at = "RECV", !.cur = XEmacPs_BdRingNext(@),
                            !.count = IF new THEN @ + 1 ELSE @,
                            !.partial = CASE ~ new -> @ [] new /\ walk.stat -> 0
                                          [] OTHER -> @ + 1]
    /\ UNCHANGED <<dir, headVars, cntVars, bd, prepared, running, hardVars>>

ReadNew ==
    /\ walk.at = "NEW"
    /\ walk' = IF bd[walk.cur].own
               THEN [walk EXCEPT !.at = "RECV", !.count = @ + 1, !.cur = XEmacPs_BdRingNext(@),
                                 !.partial = IF walk.stat THEN 0 ELSE @ + 1]
               ELSE [walk EXCEPT !.at = "stop"]
    /\ UNCHANGED <<dir, headVars, cntVars, bd, prepared, running, hardVars>>

\* Mutant: the BDs of a partial packet are returned as well.
Return_Partial ==
    /\ \/ walk.at = "stop"
       \/ walk.at \in {"SEND", "RECV"} /\ walk.count >= walk.limit
    /\ HwCnt' = (HwCnt - walk.count) % Wrap
    /\ PostCnt' = PostCnt + walk.count
    /\ HwHead' = XEMACPS_RING_SEEKAHEAD(HwHead, walk.count)
    /\ walk' = NoWalk
    /\ UNCHANGED <<dir, FreeHead, PreHead, HwTail, PostHead, FreeCnt, PreCnt, bd, prepared,
                   running, hardVars>>

Return ==
    /\ \/ walk.at = "stop"
       \/ walk.at \in {"SEND", "RECV"} /\ walk.count >= walk.limit
    /\ LET n == walk.count - walk.partial
       IN  /\ HwCnt' = (HwCnt - n) % Wrap
           /\ PostCnt' = PostCnt + n
           /\ HwHead' = XEMACPS_RING_SEEKAHEAD(HwHead, n)
    /\ walk' = NoWalk
    /\ UNCHANGED <<dir, FreeHead, PreHead, HwTail, PostHead, FreeCnt, PreCnt, bd, prepared,
                   running, hardVars>>

-----------------------------------------------------------------------------
\* The user, between its calls.

\* What a BD holds when it has its buffer: the owner bit of a BD to send is
\* cleared, XEmacPs_BdSetAddressRx leaves the NEW bit of a BD to receive alone.
WithBuffer(i, last) ==
    CASE dir = "SEND" -> [own |-> FALSE, end |-> last]
      [] dir = "RECV" /\ Clears -> [own |-> FALSE, end |-> FALSE]
      [] OTHER -> bd[i]

\* It gives a packet of n BDs its buffers, the owner bit of the first one last.
Prepare(n) ==
    LET first == XEMACPS_RING_SEEKAHEAD(PreHead, prepared)
        lastBd == XEMACPS_RING_SEEKAHEAD(first, n - 1)
    IN  /\ Idle /\ prepared + n <= PreCnt
        /\ n <= IF dir = "SEND" THEN MaxSend ELSE 1
        /\ bd' = [i \in Bds |-> IF i \in Span(first, n) THEN WithBuffer(i, i = lastBd) ELSE bd[i]]
        /\ prepared' = prepared + n
        /\ done' = done \ Span(first, n) /\ ends' = ends \ Span(first, n)
        /\ UNCHANGED <<dir, headVars, cntVars, walk, running, next, part>>

\* The device starts when the first BD has been handed over.
Start ==
    /\ Idle /\ ~ running /\ HwCnt > 0
    /\ running' = TRUE
    /\ UNCHANGED <<dir, headVars, cntVars, bd, walk, prepared, hardVars>>

-----------------------------------------------------------------------------
\* The Ethernet controller.

\* It sends the packet at its queue pointer and sets USED in the first BD of it.
Send ==
    /\ running /\ dir = "SEND" /\ ~ bd[next].own
    /\ \E n \in 1 .. AllCnt :
         /\ bd[XEMACPS_RING_SEEKAHEAD(next, n - 1)].end
         /\ \A k \in 1 .. n - 1 : ~ bd[XEMACPS_RING_SEEKAHEAD(next, k - 1)].end
         /\ done' = done \cup Span(next, n)
         /\ ends' = ends \cup {XEMACPS_RING_SEEKAHEAD(next, n - 1)}
         /\ next' = XEMACPS_RING_SEEKAHEAD(next, n)
    /\ bd' = [bd EXCEPT ![next].own = TRUE]
    /\ UNCHANGED <<dir, headVars, cntVars, walk, prepared, running, part>>

\* It fills the BD at its queue pointer, the last one of a packet or not; that
\* the BD has not been handed over does not stop it, only the NEW bit does.
Receive(eof) ==
    /\ running /\ dir = "RECV" /\ ~ bd[next].own
    /\ part + 1 = MaxRecv => eof
    /\ part' = IF eof THEN 0 ELSE part + 1
    /\ bd' = [bd EXCEPT ![next] = [own |-> TRUE, end |-> eof]]
    /\ done' = done \cup {next}
    /\ ends' = IF eof THEN ends \cup {next} ELSE ends
    /\ next' = XEMACPS_RING_SEEKAHEAD(next, 1)
    /\ UNCHANGED <<dir, headVars, cntVars, walk, prepared, running>>

-----------------------------------------------------------------------------
Calls(n) ==
    XEmacPs_BdRingAlloc(n) \/ XEmacPs_BdRingUnAlloc(n) \/ XEmacPs_BdRingToHw(n)
        \/ XEmacPs_BdRingFree(n) \/ FromHw(n) \/ Prepare(n)

Walk == WalkSend \/ ReadStatus \/ ReadNew \/ Return

Hardware == Send \/ \E eof \in BOOLEAN : Receive(eof)

Next ==
    \/ \E n \in 1 .. AllCnt : Calls(n)
    \/ Walk \/ Start
    \/ Hardware

Spec == Init /\ [][Next]_vars

\* The processor runs, hardware sends what it has, and the user comes
\* back, starts the device and asks for what it may get, again and again.
FairSpec ==
    /\ Spec
    /\ WF_vars(Walk) /\ WF_vars(Send)
    /\ WF_vars(Start)
    /\ SF_vars(FromHw(Request))

-----------------------------------------------------------------------------
\* Every pointer stays in the ring, and every counter below the ring's size,
\* through every wrap of XEMACPS_RING_SEEKAHEAD and SEEKBACK.
RingType ==
    /\ FreeHead \in Bds /\ PreHead \in Bds /\ HwHead \in Bds /\ HwTail \in Bds
    /\ PostHead \in Bds /\ FreeCnt \in 0 .. AllCnt /\ PreCnt \in 0 .. AllCnt
    /\ HwCnt \in 0 .. AllCnt /\ PostCnt \in 0 .. AllCnt /\ prepared \in 0 .. PreCnt

WalkType ==
    /\ walk \in [at : {"none", "SEND", "RECV", "NEW", "stop"}, cur : Bds, limit : 0 .. AllCnt,
                count : 0 .. AllCnt, partial : 0 .. AllCnt, sop : BOOLEAN, stat : BOOLEAN]
    /\ walk.count <= walk.limit /\ walk.partial <= walk.count

MemoryType == dir \in Directions /\ bd \in [Bds -> [own : BOOLEAN, end : BOOLEAN]]

HardwareType ==
    /\ running \in BOOLEAN
    /\ next \in Bds /\ part \in 0 .. MaxRecv - 1
    /\ done \subseteq Bds /\ ends \subseteq done

TypeOK == RingType /\ WalkType /\ MemoryType /\ HardwareType

\* What XEmacPs_BdRingCheck looks for, and more: the counters add up, and the
\* four groups follow each other round the ring without gap or overlap.
Consistent ==
    /\ FreeCnt + PreCnt + HwCnt + PostCnt = AllCnt
    /\ HwHead = XEMACPS_RING_SEEKAHEAD(PostHead, PostCnt)
    /\ PreHead = XEMACPS_RING_SEEKAHEAD(HwHead, HwCnt)
    /\ FreeHead = XEMACPS_RING_SEEKAHEAD(PreHead, PreCnt)
    /\ HwTail = PreHead

\* What XEmacPs_BdRingFromHwTx and Rx return "have been processed by hardware":
\* since the user gave them the buffers that it now takes for sent or filled.
ReturnedProcessed == Span(PostHead, PostCnt) \subseteq done

\* The four groups, each in the order of the ring.
Group(p, n) == [i \in 1 .. n |-> XEMACPS_RING_SEEKAHEAD(p, i - 1)]

Queues == INSTANCE BdQueues WITH
    free <- Group(FreeHead, FreeCnt), pre <- Group(PreHead, PreCnt),
    hw <- Group(HwHead, HwCnt), post <- Group(PostHead, PostCnt)

\* The ring, its user and the hardware together implement the four queues:
\* nothing is lost, doubled or overtaken, and of a receive ring, whose BDs the
\* user clears, only whole packets that hardware has processed come back, also
\* when it writes into BDs that it has not been given.
KeepsQueues == Queues!Spec

\* A walk through the ring ends, whatever hardware does during it.
CallsReturn == []<>Idle

\* A packet that hardware has processed, with all that was handed over before
\* it, comes back to a user who keeps asking.
Ready(i) ==
    \E n \in 1 .. HwCnt :
        /\ i = XEMACPS_RING_SEEKAHEAD(HwHead, n - 1) /\ i \in ends
        /\ Span(HwHead, n) \subseteq done

PacketsComeBack == \A i \in Bds : Ready(i) ~> i \notin Span(HwHead, HwCnt)
=============================================================================
