----------------------------- MODULE Scrollback -----------------------------
(***************************************************************************)
(* Scrollback (api/ws/session.rs): the last bytes of a shell's output,     *)
(* kept for a client that reattaches, and what replay_from answers it.     *)
(*                                                                         *)
(* `written` is not in the code: it is every byte ever pushed, the truth   *)
(* that the buffer is compared with.                                       *)
(*                                                                         *)
(* The names of the specification are the buffer's own, so that a module   *)
(* can extend this one beside that of the shell that writes into it.       *)
(***************************************************************************)
EXTENDS Integers, Sequences

CONSTANTS
    Byte,        \* the values of a byte
    Capacity,    \* Scrollback::capacity
    MaxPush,     \* bound: bytes of one push
    MaxWritten   \* bound: bytes ever pushed

ASSUME ScrollbackAssumption ==
    /\ Capacity \in Nat
    /\ MaxPush \in Nat
    /\ MaxWritten \in Nat

VARIABLES
    buf,      \* Scrollback::buf, oldest byte first
    nextSeq,  \* Scrollback::next_seq
    written   \* history: every byte pushed

scrollback == <<buf, nextSeq, written>>

ScrollbackTypeOK ==
    /\ buf \in Seq(Byte)
    /\ nextSeq \in Nat
    /\ written \in Seq(Byte)

New ==
    /\ buf = <<>>
    /\ nextSeq = 0
    /\ written = <<>>

\* A write larger than the buffer leaves only its tail.
Kept(data) ==
    IF Len(data) > Capacity
    THEN SubSeq(data, Len(data) - Capacity + 1, Len(data))
    ELSE data

\* How many of the oldest bytes make room for n new ones (saturating_sub).
Overflow(n) ==
    IF Len(buf) + n > Capacity THEN Len(buf) + n - Capacity ELSE 0

\* Faulty variant of Push: an oversized write leaves its head.
PushKeepingHead(data) ==
    /\ nextSeq' = nextSeq + Len(data)
    /\ buf' = SubSeq(buf, Overflow(Len(Kept(data))) + 1, Len(buf))
              \o SubSeq(data, 1, Len(Kept(data)))
    /\ written' = written \o data

Push(data) ==
    /\ nextSeq' = nextSeq + Len(data)
    /\ buf' = SubSeq(buf, Overflow(Len(Kept(data))) + 1, Len(buf)) \o Kept(data)
    /\ written' = written \o data

StartSeq == nextSeq - Len(buf)

\* Faulty variant of ReplayFrom: off by one.
ReplayFromNext(since) ==
    IF since >= nextSeq
        THEN [truncated |-> FALSE, bytes |-> <<>>]
    ELSE IF since < StartSeq
        THEN [truncated |-> TRUE, bytes |-> buf]
    ELSE [truncated |-> FALSE, bytes |-> SubSeq(buf, since - StartSeq + 2, Len(buf))]

\* replay_from: the bytes to send, and whether the client must reset first.
ReplayFrom(since) ==
    IF since >= nextSeq
        THEN [truncated |-> FALSE, bytes |-> <<>>]
    ELSE IF since < StartSeq
        THEN [truncated |-> TRUE, bytes |-> buf]
    ELSE [truncated |-> FALSE, bytes |-> SubSeq(buf, since - StartSeq + 1, Len(buf))]

AnyPush ==
    \E n \in 0 .. MaxPush : \E data \in [1 .. n -> Byte] :
        /\ nextSeq + n <= MaxWritten
        /\ Push(data)

ScrollbackSpec == New /\ [][AnyPush]_scrollback

-----------------------------------------------------------------------------
\* The buffer is exactly the newest output: as many bytes as fit, each the
\* byte that was written at its position.  Whatever sizes the writes came in,
\* including one larger than the whole buffer.
HoldsNewest ==
    /\ nextSeq = Len(written)
    /\ Len(buf) = IF nextSeq > Capacity THEN Capacity ELSE nextSeq
    /\ \A i \in 1 .. Len(buf) : buf[i] = written[StartSeq + i]

\* What a client that rendered `since` bytes is sent is what it missed: all of
\* it when it is told to carry on, and everything that is left when it is told
\* to reset; it is told to carry on whenever the buffer still reaches back.
ReplayIsWhatWasMissed ==
    \A since \in 0 .. nextSeq :
        LET replay == ReplayFrom(since)
            from == IF replay.truncated THEN StartSeq ELSE since
        IN /\ Len(replay.bytes) = nextSeq - from
           /\ \A i \in 1 .. Len(replay.bytes) : replay.bytes[i] = written[from + i]
           /\ replay.truncated <=> nextSeq - since > Len(buf)
=============================================================================
