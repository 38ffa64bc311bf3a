------------------------------ MODULE BdQueues ------------------------------
(***************************************************************************)
(* What a ring of buffer descriptors promises its user: the descriptors    *)
(* (BDs) go round four queues, free, pre-processing, hardware and          *)
(* post-processing, and none is lost, doubled or overtaken.  Of a receive  *)
(* ring the user gets back only whole packets that hardware has processed  *)
(* since it gave their BDs a buffer, and then hardware leaves them alone;  *)
(* of what it has sent nothing of the kind can be said.                    *)
(***************************************************************************)
EXTENDS Integers, Sequences

CONSTANT AllCnt     \* the number of BDs

VARIABLES
    dir,                   \* the direction of the ring: SEND or RECV
    free, pre, hw, post,   \* the four queues
    done,                  \* the BDs hardware has processed since they have their buffer
    ends                   \* those of them that end a packet

vars == <<dir, free, pre, hw, post, done, ends>>

Bds == 0 .. AllCnt - 1

Front(s, n) == SubSeq(s, 1, n)
Rest(s, n)  == SubSeq(s, n + 1, Len(s))
Members(s)  == {s[i] : i \in DOMAIN s}

Init ==
    /\ dir \in {"SEND", "RECV"}
    /\ free = [i \in 1 .. AllCnt |-> i - 1]
    /\ pre = << >> /\ hw = << >> /\ post = << >>
    /\ done = {} /\ ends = {}

Alloc(n) ==
    /\ n <= Len(free)
    /\ free' = Rest(free, n) /\ pre' = pre \o Front(free, n)
    /\ UNCHANGED <<dir, hw, post, done, ends>>

\* The last ones allocated go back to the front.
UnAlloc(n) ==
    LET kept == Len(pre) - n IN
    /\ kept >= 0
    /\ free' = Rest(pre, kept) \o free /\ pre' = Front(pre, kept)
    /\ UNCHANGED <<dir, hw, post, done, ends>>

ToHw(n) ==
    /\ n <= Len(pre)
    /\ pre' = Rest(pre, n) /\ hw' = hw \o Front(pre, n)
    /\ UNCHANGED <<dir, free, post, done, ends>>

\* Hardware at work, and the user giving BDs their buffers: what has been
\* processed stays so until it comes back, and after.
Process ==
    LET held == done \cap (Members(hw) \cup Members(post)) IN
    /\ dir = "RECV" => held \subseteq done' /\ ends' \cap held = ends \cap held
                        /\ done' \cap Members(post) \subseteq done
    /\ UNCHANGED <<dir, free, pre, hw, post>>

FromHw(n) ==
    /\ n <= Len(hw)
    /\ dir = "RECV" => Members(Front(hw, n)) \subseteq done /\ hw[n] \in ends
    /\ hw' = Rest(hw, n) /\ post' = post \o Front(hw, n)
    /\ UNCHANGED <<dir, free, pre, done, ends>>

Free(n) ==
    /\ n <= Len(post)
    /\ post' = Rest(post, n) /\ free' = free \o Front(post, n)
    /\ UNCHANGED <<dir, pre, hw, done, ends>>

Next ==
    \/ \E n \in 1 .. AllCnt : Alloc(n) \/ UnAlloc(n) \/ ToHw(n) \/ FromHw(n) \/ Free(n)
    \/ Process

Spec == Init /\ [][Next]_vars
=============================================================================
