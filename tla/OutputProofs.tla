---------------------------- MODULE OutputProofs -----------------------------
(***************************************************************************)
(* Output on its way to who reads it.  A shell's, from the PTY to the      *)
(* bytes a client may ask for: the scrollback (module Scrollback), for     *)
(* every capacity and every size of write, and the threads that read the   *)
(* shell (module LocalShell), for every buffer and channel.  A long        *)
(* step's, from the task that runs it to the page that polls (module       *)
(* JobLog), for any number of jobs and lines and every MAX_LINES.          *)
(*                                                                         *)
(* The scrollback holds the newest bytes and replays exactly what a client *)
(* missed.                                                                 *)
(***************************************************************************)
EXTENDS Scrollback, LocalShell, JobLog, FiniteSetTheorems, SequenceTheorems, TLAPS

\* A suffix of a sequence: its length and its elements.
LEMMA SuffixProperties ==
    ASSUME NEW S, NEW s \in Seq(S), NEW d \in Nat, d <= Len(s)
    PROVE  LET t == SubSeq(s, d + 1, Len(s))
           IN /\ t \in Seq(S)
              /\ Len(t) = Len(s) - d
              /\ \A i \in 1 .. Len(t) : t[i] = s[d + i]
<1> DEFINE t == SubSeq(s, d + 1, Len(s))
<1>1. Len(s) \in Nat /\ \A i \in d + 1 .. Len(s) : s[i] \in S
  BY LenProperties, ElementOfSeq
<1>2. /\ t \in Seq(S)
      /\ Len(t) = IF d + 1 <= Len(s) THEN Len(s) - (d + 1) + 1 ELSE 0
      /\ \A i \in 1 .. Len(s) - (d + 1) + 1 : t[i] = s[(d + 1) + i - 1]
  BY <1>1, SubSeqProperties, d + 1 \in Int, Len(s) \in Int
<1> HIDE DEF t
<1>3. Len(t) = Len(s) - d
  BY <1>1, <1>2
<1>4. \A i \in 1 .. Len(t) : t[i] = s[d + i]
  <2> TAKE i \in 1 .. Len(t)
  <2>1. i \in 1 .. Len(s) - (d + 1) + 1 /\ (d + 1) + i - 1 = d + i
    BY <1>1, <1>3
  <2> QED BY <2>1, <1>2
<1> QED BY <1>2, <1>3, <1>4 DEF t

\* What Push relies on: the kept part of a write is its last bytes, at most
\* Capacity of them.
LEMMA KeptIsTail ==
    ASSUME NEW data \in Seq(Byte)
    PROVE  /\ Kept(data) \in Seq(Byte)
           /\ Len(Kept(data)) = IF Len(data) > Capacity THEN Capacity ELSE Len(data)
           /\ \A i \in 1 .. Len(Kept(data)) :
                Kept(data)[i] = data[Len(data) - Len(Kept(data)) + i]
<1>1. Len(data) \in Nat
  BY LenProperties
<1>2. CASE Len(data) > Capacity
  <2>1. Len(data) - Capacity \in Nat /\ Len(data) - Capacity <= Len(data)
    BY <1>1, <1>2, ScrollbackAssumption
  <2>2. Kept(data) = SubSeq(data, (Len(data) - Capacity) + 1, Len(data))
    BY <1>2 DEF Kept
  <2>3. /\ Kept(data) \in Seq(Byte)
        /\ Len(Kept(data)) = Len(data) - (Len(data) - Capacity)
        /\ \A i \in 1 .. Len(Kept(data)) : Kept(data)[i] = data[(Len(data) - Capacity) + i]
    BY <2>1, <2>2, SuffixProperties
  <2>4. Len(Kept(data)) = Capacity
    BY <1>1, <1>2, <2>3, ScrollbackAssumption
  <2> QED BY <1>2, <2>3, <2>4
<1>3. CASE ~(Len(data) > Capacity)
  BY <1>1, <1>3 DEF Kept
<1> QED BY <1>2, <1>3

\* One push keeps the newest bytes: the step of HoldsNewest's induction.
LEMMA PushHoldsNewest ==
    ASSUME ScrollbackTypeOK, HoldsNewest, NEW data \in Seq(Byte), Push(data)
    PROVE  ScrollbackTypeOK' /\ HoldsNewest'
<1> DEFINE kept == Kept(data)
           drop == Overflow(Len(kept))
           old == SubSeq(buf, drop + 1, Len(buf))
<1>1. /\ kept \in Seq(Byte)
      /\ \A i \in 1 .. Len(kept) : kept[i] = data[Len(data) - Len(kept) + i]
  BY KeptIsTail
<1>2. /\ nextSeq \in Nat /\ Len(data) \in Nat /\ Len(buf) \in Nat /\ Len(kept) \in Nat
      /\ nextSeq = Len(written)
  BY <1>1, LenProperties DEF ScrollbackTypeOK, HoldsNewest
<1>3. /\ \/ nextSeq > Capacity /\ Len(buf) = Capacity
         \/ nextSeq <= Capacity /\ Len(buf) = nextSeq
      /\ \/ Len(data) > Capacity /\ Len(kept) = Capacity
         \/ Len(data) <= Capacity /\ Len(kept) = Len(data)
      /\ \/ Len(buf) + Len(kept) > Capacity /\ drop = Len(buf) + Len(kept) - Capacity
         \/ Len(buf) + Len(kept) <= Capacity /\ drop = 0
  <2>1. \/ nextSeq > Capacity /\ Len(buf) = Capacity
        \/ nextSeq <= Capacity /\ Len(buf) = nextSeq
    BY <1>2, ScrollbackAssumption DEF HoldsNewest
  <2>2. Len(kept) = IF Len(data) > Capacity THEN Capacity ELSE Len(data)
    BY KeptIsTail
  <2> HIDE DEF kept
  <2>3. \/ Len(data) > Capacity /\ Len(kept) = Capacity
        \/ Len(data) <= Capacity /\ Len(kept) = Len(data)
    BY <1>2, <2>2, ScrollbackAssumption
  <2>4. \/ Len(buf) + Len(kept) > Capacity /\ drop = Len(buf) + Len(kept) - Capacity
        \/ Len(buf) + Len(kept) <= Capacity /\ drop = 0
    BY <1>2, ScrollbackAssumption DEF Overflow
  <2> QED BY <2>1, <2>3, <2>4
<1> HIDE DEF kept, drop
<1>4. drop \in Nat /\ drop <= Len(buf) /\ Len(kept) <= Len(data) /\ Len(buf) <= nextSeq
  BY <1>2, <1>3, ScrollbackAssumption
<1>5. /\ \/ nextSeq + Len(data) > Capacity /\ (Len(buf) - drop) + Len(kept) = Capacity
         \/ nextSeq + Len(data) <= Capacity /\ (Len(buf) - drop) + Len(kept) = nextSeq + Len(data)
      /\ drop < Len(buf) =>
            (nextSeq - Len(buf)) + drop
                = (nextSeq + Len(data)) - ((Len(buf) - drop) + Len(kept))
  BY <1>2, <1>3, <1>4, ScrollbackAssumption
<1>6. /\ old \in Seq(Byte)
      /\ Len(old) = Len(buf) - drop
      /\ \A i \in 1 .. Len(old) : old[i] = buf[drop + i]
  BY <1>4, SuffixProperties DEF ScrollbackTypeOK
<1> HIDE DEF old
<1>7. /\ buf' = old \o kept
      /\ nextSeq' = nextSeq + Len(data)
      /\ written' = written \o data
  BY DEF Push, kept, drop, old
<1>8. /\ buf' \in Seq(Byte)
      /\ Len(buf') = Len(old) + Len(kept)
      /\ \A i \in 1 .. Len(old) + Len(kept) :
           buf'[i] = IF i <= Len(old) THEN old[i] ELSE kept[i - Len(old)]
  <2>1. old \in Seq(Byte) /\ kept \in Seq(Byte) /\ buf' = old \o kept
    BY <1>1, <1>6, <1>7
  <2> QED BY <2>1, ConcatProperties
<1>9. /\ written' \in Seq(Byte)
      /\ Len(written') = Len(written) + Len(data)
      /\ \A i \in 1 .. Len(written) + Len(data) :
           written'[i] = IF i <= Len(written) THEN written[i] ELSE data[i - Len(written)]
  <2>1. written \in Seq(Byte) /\ written' = written \o data
    BY <1>7 DEF ScrollbackTypeOK
  <2> QED BY <2>1, ConcatProperties
<1>10. ScrollbackTypeOK' /\ nextSeq' = Len(written')
  BY <1>2, <1>7, <1>8, <1>9 DEF ScrollbackTypeOK
<1>11. Len(buf') = IF nextSeq' > Capacity THEN Capacity ELSE nextSeq'
  BY <1>2, <1>5, <1>6, <1>7, <1>8, ScrollbackAssumption
\* The lengths alone, for the positions below.
<1>12. /\ Len(old) \in Nat /\ Len(written) \in Nat
       /\ Len(buf') = Len(old) + Len(kept)
       /\ Len(old) = Len(buf) - drop
       /\ Len(kept) <= Len(data) /\ Len(buf) <= nextSeq /\ nextSeq = Len(written)
       /\ StartSeq = nextSeq - Len(buf)
       /\ StartSeq' = (nextSeq + Len(data)) - (Len(old) + Len(kept))
       /\ 0 < Len(old) => StartSeq + drop = StartSeq'
  <2>1. StartSeq = nextSeq - Len(buf) /\ StartSeq' = nextSeq' - Len(buf')
    BY DEF StartSeq
  <2> QED BY <1>2, <1>4, <1>5, <1>6, <1>7, <1>8, <2>1
<1>13. ASSUME NEW i \in 1 .. Len(buf')
       PROVE  buf'[i] = written'[StartSeq' + i]
  <2>1. i \in Nat /\ 1 <= i /\ i <= Len(old) + Len(kept)
    BY <1>2, <1>12
  <2>2. CASE i <= Len(old)
    <3>1. i \in 1 .. Len(old) /\ drop + i \in 1 .. Len(buf) /\ i \in 1 .. Len(old) + Len(kept)
      BY <1>2, <1>4, <1>12, <2>1, <2>2
    <3>2. buf'[i] = buf[drop + i]
      BY <1>6, <1>8, <2>2, <3>1
    <3>3. buf'[i] = written[StartSeq + (drop + i)]
      BY <3>1, <3>2 DEF HoldsNewest
    <3>4. StartSeq + (drop + i) = StartSeq' + i /\ StartSeq + (drop + i) \in 1 .. Len(written)
      BY <1>2, <1>4, <1>12, <2>1, <2>2
    <3>5. StartSeq' + i \in 1 .. Len(written) + Len(data) /\ StartSeq' + i <= Len(written)
      BY <1>2, <3>4
    <3> QED BY <3>3, <3>4, <3>5, <1>9
  <2>3. CASE i > Len(old)
    <3> DEFINE j == i - Len(old)
               m == Len(data) - Len(kept) + j
    <3>1. /\ j \in 1 .. Len(kept)
          /\ i \in 1 .. Len(old) + Len(kept)
          /\ ~(i <= Len(old))
      BY <1>2, <1>12, <2>1, <2>3
    <3>2. StartSeq' + i = Len(written) + m
      <4>1. /\ StartSeq' = (nextSeq + Len(data)) - (Len(old) + Len(kept))
            /\ Len(old) \in Nat /\ nextSeq = Len(written)
        BY <1>12
      <4> QED BY <1>2, <2>1, <4>1
    <3>3. m \in 1 .. Len(data)
      BY <1>2, <1>12, <3>1
    <3> HIDE DEF m
    <3>4. /\ Len(written) + m \in 1 .. Len(written) + Len(data)
          /\ ~(Len(written) + m <= Len(written))
          /\ Len(written) + m - Len(written) = m
      BY <1>2, <1>12, <3>3
    <3>5. buf'[i] = kept[j]
      BY <1>8, <3>1
    <3>6. kept[j] = data[m]
      BY <1>1, <3>1 DEF m
    <3>7. written'[Len(written) + m] = data[m]
      BY <1>2, <1>9, <3>3, <3>4
    <3> QED BY <3>2, <3>5, <3>6, <3>7
  <2> QED BY <2>1, <2>2, <2>3, <1>12
<1> QED BY <1>10, <1>11, <1>13 DEF HoldsNewest

\* Session::publish can always rely on it: in every reachable state the buffer
\* is the newest Capacity bytes of the output.
THEOREM BufferHoldsNewest == ScrollbackSpec => [](ScrollbackTypeOK /\ HoldsNewest)
<1>1. New => ScrollbackTypeOK /\ HoldsNewest
  BY ScrollbackAssumption DEF New, ScrollbackTypeOK, HoldsNewest, StartSeq
<1>2. ScrollbackTypeOK /\ HoldsNewest /\ [AnyPush]_scrollback => (ScrollbackTypeOK /\ HoldsNewest)'
  <2> SUFFICES ASSUME ScrollbackTypeOK, HoldsNewest, [AnyPush]_scrollback
               PROVE  (ScrollbackTypeOK /\ HoldsNewest)'
    OBVIOUS
  <2>1. CASE AnyPush
    <3>1. PICK n \in 0 .. MaxPush : \E data \in [1 .. n -> Byte] : Push(data)
      BY <2>1 DEF AnyPush
    <3>2. PICK data \in [1 .. n -> Byte] : Push(data)
      BY <3>1
    <3>3. data \in Seq(Byte)
      BY <3>1, ScrollbackAssumption
    <3> QED BY <3>2, <3>3, PushHoldsNewest
  <2>2. CASE UNCHANGED scrollback
    BY <2>2 DEF scrollback, ScrollbackTypeOK, HoldsNewest, StartSeq
  <2> QED BY <2>1, <2>2
<1> QED BY <1>1, <1>2, PTL DEF ScrollbackSpec

\* Reattaching is seamless: replay_from never sends a byte twice, skips one, or
\* resets a screen whose position the buffer still reaches.
THEOREM ReplayExact == ScrollbackSpec => []ReplayIsWhatWasMissed
<1>1. ScrollbackTypeOK /\ HoldsNewest => ReplayIsWhatWasMissed
  <2> SUFFICES ASSUME ScrollbackTypeOK, HoldsNewest, NEW pos \in 0 .. nextSeq
      PROVE LET replay == ReplayFrom(pos)
                from == IF replay.truncated THEN StartSeq ELSE pos
            IN /\ Len(replay.bytes) = nextSeq - from
               /\ \A i \in 1 .. Len(replay.bytes) : replay.bytes[i] = written[from + i]
               /\ replay.truncated <=> nextSeq - pos > Len(buf)
    BY DEF ReplayIsWhatWasMissed
  <2>1. /\ Len(buf) \in Nat /\ nextSeq \in Nat /\ pos \in Nat
        /\ StartSeq = nextSeq - Len(buf) /\ StartSeq \in Nat /\ pos <= nextSeq
    BY ScrollbackAssumption DEF ScrollbackTypeOK, HoldsNewest, StartSeq
  <2>2. CASE pos >= nextSeq
    BY <2>1, <2>2 DEF ReplayFrom, ScrollbackTypeOK
  <2>3. CASE pos < nextSeq /\ pos < StartSeq
    BY <2>1, <2>3 DEF ReplayFrom, ScrollbackTypeOK, HoldsNewest
  <2>4. CASE pos < nextSeq /\ pos >= StartSeq
    <3> DEFINE tail == SubSeq(buf, pos - StartSeq + 1, Len(buf))
    <3>1. ReplayFrom(pos) = [truncated |-> FALSE, bytes |-> tail]
      BY <2>1, <2>4 DEF ReplayFrom
    <3>2. /\ Len(tail) = nextSeq - pos
          /\ \A i \in 1 .. Len(tail) : tail[i] = buf[pos - StartSeq + i]
      <4> DEFINE d == pos - StartSeq
      <4>1. d \in Nat /\ d <= Len(buf) /\ Len(buf) - d = nextSeq - pos
        BY <2>1, <2>4
      <4>2. tail = SubSeq(buf, d + 1, Len(buf)) /\ buf \in Seq(Byte)
        BY DEF ScrollbackTypeOK
      <4> HIDE DEF d, tail
      <4>3. Len(tail) = Len(buf) - d /\ \A i \in 1 .. Len(tail) : tail[i] = buf[d + i]
        BY <4>1, <4>2, SuffixProperties
      <4> QED BY <4>1, <4>3 DEF d
    <3>3. \A i \in 1 .. Len(tail) : tail[i] = written[pos + i]
      <4> SUFFICES ASSUME NEW i \in 1 .. Len(tail) PROVE tail[i] = written[pos + i]
        OBVIOUS
      <4> HIDE DEF tail
      <4>1. pos - StartSeq + i \in 1 .. Len(buf)
            /\ StartSeq + (pos - StartSeq + i) = pos + i
        BY <2>1, <2>4, <3>2
      <4>2. buf[pos - StartSeq + i] = written[StartSeq + (pos - StartSeq + i)]
        BY <4>1 DEF HoldsNewest
      <4> QED BY <4>1, <4>2, <3>2
    <3> HIDE DEF tail
    <3> QED BY <2>1, <2>4, <3>1, <3>2, <3>3
  <2>5. \/ pos >= nextSeq
        \/ pos < nextSeq /\ pos < StartSeq
        \/ pos < nextSeq /\ pos >= StartSeq
    BY <2>1
  <2> QED BY <2>2, <2>3, <2>4, <2>5, Zenon
<1> QED BY <1>1, BufferHoldsNewest, PTL

-----------------------------------------------------------------------------
(***************************************************************************)
(* The shell itself (module LocalShell), for any buffers, channels and     *)
(* amounts of output and input.                                            *)
(*                                                                         *)
(* Two threads deliver into one channel.  The gate is shut before the exit *)
(* is sent and looked at before a chunk is (Gated), so the exit is last.   *)
(* That all output precedes it is a matter of conservation: a chunk is     *)
(* delivered, in the channel, in the reader's hand or in the PTY, until    *)
(* the reader gives one up, which it does only behind a shut gate or when  *)
(* nobody listens (Conserved).                                             *)
(***************************************************************************)
\* What is counted, and the channel's type.
Counts ==
    /\ events \in Seq({"data", "exit"})
    /\ produced \in Nat /\ ptyOut \in Nat /\ delivered \in Nat

\* The exit is in the channel.
ExitQueued == \E i \in 1 .. Len(events) : events[i] = "exit"

\* Who sends has the gate, and after the exit nobody does.
Gated ==
    /\ reader = "sending" => gate = "reader" /\ ~shut
    /\ reaper = "sending" => gate = "reaper"
    /\ shut <=> reaper \in {"sending", "done"}
    /\ exited \/ ExitQueued => reaper = "done"

\* Chunks in the channel, and with the reader.
Datas(s) == IF s # <<>> /\ s[Len(s)] = "exit" THEN Len(s) - 1 ELSE Len(s)
InHand == IF reader \in {"holding", "sending"} THEN 1 ELSE 0

\* No chunk is lost while the reader runs; one that is done has left none, or
\* nobody will see the exit, or it was too late for it.
Complete == ~SlaveOpen /\ ptyOut = 0 /\ delivered + Datas(events) = produced
Conserved ==
    /\ reader # "done" => delivered + Datas(events) + InHand + ptyOut = produced
    /\ shut /\ drained => reader = "done"
    /\ reader = "done" /\ (shut => drained) => Complete \/ (drive = "gone" /\ ~exited)

ShellInv == Counts /\ Gated /\ NothingAfterExit /\ Conserved

\* What an event more, and one less, does to the channel.
LEMMA EventAdded ==
    ASSUME NEW s \in Seq({"data", "exit"}), NEW e \in {"data", "exit"},
           \A i \in 1 .. Len(s) : s[i] # "exit"
    PROVE  /\ Append(s, e) \in Seq({"data", "exit"}) /\ Datas(s) \in Nat
           /\ Datas(Append(s, e)) = IF e = "data" THEN Datas(s) + 1 ELSE Datas(s)
           /\ \A i \in 1 .. Len(Append(s, e)) : Append(s, e)[i] = "exit" =>
                 e = "exit" /\ i = Len(Append(s, e))
<1>1. /\ Append(s, e) \in Seq({"data", "exit"}) /\ Len(Append(s, e)) = Len(s) + 1
      /\ Append(s, e)[Len(s) + 1] = e /\ Len(s) \in Nat
      /\ \A i \in 1 .. Len(s) : Append(s, e)[i] = s[i]
    OBVIOUS
<1>2. s # <<>> => Len(s) \in 1 .. Len(s)
    OBVIOUS
<1>3. Datas(s) = Len(s)
    BY <1>2 DEF Datas
<1>4. Append(s, e) # <<>>
    BY <1>1
<1>5. Datas(Append(s, e)) = IF e = "data" THEN Len(s) + 1 ELSE Len(s)
    BY <1>1, <1>4 DEF Datas
<1> QED BY <1>1, <1>3, <1>5

\* What is left of a sequence that gave its head.
LEMMA TailIs ==
    ASSUME NEW S, NEW s \in Seq(S), s # <<>>
    PROVE  /\ Tail(s) \in Seq(S) /\ Head(s) = s[1] /\ Head(s) \in S
           /\ Len(Tail(s)) = Len(s) - 1 /\ Len(s) \in Nat /\ Len(s) > 0
           /\ \A i \in 1 .. Len(s) - 1 : Tail(s)[i] = s[i + 1]
           /\ Tail(s) = <<>> <=> Len(s) = 1
<1>1. Len(s) \in Nat /\ Len(s) > 0 /\ Head(s) = s[1] /\ Head(s) \in S
    OBVIOUS
<1>2. Tail(s) \in Seq(S) /\ Len(Tail(s)) = Len(s) - 1
    OBVIOUS
<1>3. \A i \in 1 .. Len(s) - 1 : Tail(s)[i] = s[i + 1]
    BY <1>1
<1>4. Tail(s) = <<>> <=> Len(s) = 1
    BY <1>1, <1>2
<1> QED BY <1>1, <1>2, <1>3, <1>4

\* The channel loses its oldest event: one chunk, or the exit, which was all.
LEMMA EventTaken ==
    ASSUME NEW s \in Seq({"data", "exit"}), s # <<>>,
           \A i \in 1 .. Len(s) : s[i] = "exit" => i = Len(s)
    PROVE  /\ Tail(s) \in Seq({"data", "exit"}) /\ Datas(s) \in Nat /\ Datas(Tail(s)) \in Nat
           /\ Head(s) = "data" => Datas(s) = Datas(Tail(s)) + 1
           /\ Head(s) # "data" => Tail(s) = <<>> /\ Datas(s) = Datas(Tail(s))
           /\ \A i \in 1 .. Len(Tail(s)) : Tail(s)[i] = "exit" => i = Len(Tail(s))
           /\ \A i \in 1 .. Len(Tail(s)) : Tail(s)[i] = "exit" =>
                 \E j \in 1 .. Len(s) : s[j] = "exit"
<1> DEFINE t == Tail(s)
           n == Len(s)
<1>1. /\ t \in Seq({"data", "exit"}) /\ Head(s) = s[1] /\ s[1] \in {"data", "exit"}
      /\ Len(t) = n - 1 /\ n \in Nat /\ n > 0
      /\ \A i \in 1 .. n - 1 : t[i] = s[i + 1]
      /\ t = <<>> <=> n = 1
    BY TailIs
<1>2. \A i \in 1 .. n : s[i] = "exit" => i = n
    OBVIOUS
<1> HIDE DEF t, n
<1>3. Datas(s) = IF s[n] = "exit" THEN n - 1 ELSE n
    BY DEF Datas, n
<1>4. Datas(t) = IF t # <<>> /\ t[n - 1] = "exit" THEN n - 2 ELSE n - 1
    BY <1>1 DEF Datas
<1>5. t # <<>> => n > 1 /\ t[n - 1] = s[n]
  <2>1. t # <<>> => n > 1 /\ n - 1 \in 1 .. n - 1 /\ (n - 1) + 1 = n
    BY <1>1
  <2> QED BY <1>1, <2>1
<1>6. Datas(s) \in Nat /\ Datas(t) \in Nat
    BY <1>1, <1>3, <1>4, <1>5
<1>7. 1 \in 1 .. n /\ (s[1] = "exit" => n = 1)
    BY <1>1, <1>2
<1>8. Head(s) = "data" => Datas(s) = Datas(t) + 1
  <2> SUFFICES ASSUME s[1] = "data" PROVE Datas(s) = Datas(t) + 1
    BY <1>1
  <2>1. CASE t = <<>>
    BY <1>1, <1>3, <1>4, <2>1
  <2>2. CASE t # <<>>
    BY <1>1, <1>3, <1>4, <1>5, <2>2
  <2> QED BY <2>1, <2>2
<1>9. Head(s) # "data" => t = <<>> /\ Datas(s) = Datas(t)
    BY <1>1, <1>3, <1>4, <1>7
<1>10. \A i \in 1 .. Len(t) : t[i] = "exit" =>
          i = Len(t) /\ \E j \in 1 .. n : s[j] = "exit"
  <2> SUFFICES ASSUME NEW i \in 1 .. Len(t), t[i] = "exit"
               PROVE  i = Len(t) /\ \E j \in 1 .. n : s[j] = "exit"
    OBVIOUS
  <2>1. i \in 1 .. n - 1 /\ i + 1 \in 1 .. n /\ s[i + 1] = "exit"
    BY <1>1
  <2>2. i + 1 = n
    BY <1>2, <2>1
  <2> QED BY <1>1, <2>1, <2>2
<1> QED BY <1>1, <1>6, <1>8, <1>9, <1>10 DEF t, n

\* Chunks in the channel are counted.
LEMMA DatasType ==
    ASSUME Counts
    PROVE  Datas(events) \in Nat
<1>1. Len(events) \in Nat /\ (events # <<>> => Len(events) > 0)
    BY DEF Counts
<1> QED BY <1>1 DEF Datas

\* Steps that neither add an event nor take one.
LEMMA AsideStep ==
    ASSUME ShellInv, Child \/ Holder \/ User \/ Read \/ ReadEof
                     \/ ReaderLocks \/ TryWait \/ Drain \/ Shut
                     \/ TakeInput \/ Write \/ TakeClose \/ End
                     \/ UNCHANGED vars
    PROVE  ShellInv'
<1> USE DEF childVars, threadVars, driveVars, inputVars
<1>1. UNCHANGED <<events, delivered, exited>>
    BY DEF Child, ChildWrites, ChildWrote, ChildReads, ChildExits,
           Holder, HolderStarts, HolderWrites, HolderReads, HolderEnds, User, Type, Close, Read, ReadEof, ReaderLocks,
           TryWait, Drain, Shut, TakeInput, Write,
           TakeClose, End, vars
<1>2. NothingAfterExit'
    BY <1>1 DEF ShellInv, NothingAfterExit
<1>3. /\ events \in Seq({"data", "exit"}) /\ produced \in Nat /\ ptyOut \in Nat
      /\ delivered \in Nat /\ Gated /\ Conserved
    BY DEF ShellInv, Counts
<1>4. PICK n \in Nat : n = Datas(events)
    BY DatasType DEF ShellInv
<1>5. Datas(events') = n /\ (ExitQueued' <=> ExitQueued)
    BY <1>1, <1>4 DEF ExitQueued
<1>6. CASE Child \/ Holder
  <2>1. /\ UNCHANGED <<reader, reaper, gate, shut, drained, drive>>
        /\ \/ UNCHANGED <<produced, ptyOut>> /\ (~SlaveOpen => ~SlaveOpen')
           \/ SlaveOpen /\ produced' = produced + 1 /\ ptyOut' = ptyOut + 1
    BY <1>6 DEF Child, ChildWrites, ChildWrote, ChildReads, ChildExits, SlaveOpen,
                Holder, HolderStarts, HolderWrites, HolderReads, HolderEnds
  <2>2. Counts' /\ Gated'
    BY <1>1, <1>3, <1>5, <2>1 DEF Counts, Gated
  <2>3. Conserved'
    BY <1>1, <1>3, <1>4, <1>5, <2>1 DEF Conserved, Complete, InHand
  <2> QED BY <1>2, <2>2, <2>3 DEF ShellInv
<1>7. CASE User \/ TakeInput \/ Write \/ TakeClose \/ UNCHANGED vars
  <2>1. /\ UNCHANGED <<child, held, produced, ptyOut, reader, reaper, gate, shut, drained>>
        /\ drive = "gone" => drive' = "gone"
    BY <1>7 DEF User, Type, Close, TakeInput, Write,
                TakeClose, vars
  <2>2. Counts' /\ Gated' /\ Conserved'
    BY <1>1, <1>3, <1>4, <1>5, <2>1 DEF Counts, Gated, Conserved, Complete, InHand, SlaveOpen
  <2> QED BY <1>2, <2>2 DEF ShellInv
<1>8. CASE End
  <2>1. /\ UNCHANGED <<held, produced, ptyOut, reader, reaper, gate, shut, drained>>
        /\ child' = "gone" /\ drive' = "gone" /\ drive # "gone"
    BY <1>8 DEF End
  <2>2. Counts' /\ Gated' /\ Conserved'
    BY <1>1, <1>3, <1>4, <1>5, <2>1 DEF Counts, Gated, Conserved, Complete, InHand, SlaveOpen
  <2> QED BY <1>2, <2>2 DEF ShellInv
<1>9. CASE Read \/ ReadEof \/ ReaderLocks
  <2>1. Counts' /\ Gated'
    BY <1>1, <1>3, <1>5, <1>9
       DEF Read, ReadEof, ReaderLocks, ReaderDone, Counts, Gated
  <2>2. Conserved'
    BY <1>1, <1>3, <1>4, <1>5, <1>9
       DEF Read, ReadEof, ReaderLocks, ReaderDone, Conserved, Complete,
           InHand, SlaveOpen
  <2> QED BY <1>2, <2>1, <2>2 DEF ShellInv
<1>10. CASE TryWait \/ Drain \/ Shut
  <2>1. Counts' /\ Gated'
    BY <1>1, <1>3, <1>5, <1>10 DEF TryWait, Drain, Shut, Counts, Gated
  <2>2. /\ UNCHANGED <<child, held, produced, ptyOut, reader, drive>>
        /\ \/ shut' = shut /\ drained' = drained
           \/ shut' /\ ~shut /\ (drained' <=> reader = "done")
    BY <1>3, <1>10 DEF TryWait, Drain, Shut, Gated
  <2>3. Conserved'
    BY <1>1, <1>3, <1>4, <1>5, <2>2 DEF Conserved, Complete, InHand, SlaveOpen
  <2> QED BY <1>2, <2>1, <2>3 DEF ShellInv
<1> QED BY <1>6, <1>7, <1>8, <1>9, <1>10

\* An event is sent, under the gate.
LEMMA SendStep ==
    ASSUME ShellInv, ReaderSends \/ ReaperSends
    PROVE  ShellInv'
<1> USE DEF childVars, threadVars, driveVars, inputVars
<1>0. /\ events \in Seq({"data", "exit"}) /\ produced \in Nat /\ ptyOut \in Nat
      /\ delivered \in Nat /\ Gated /\ Conserved /\ NothingAfterExit
      /\ UNCHANGED <<child, held, produced, ptyOut, shut, drained, drive, delivered, exited>>
    BY DEF ShellInv, Counts, ReaderSends, ReaperSends
<1>1. reaper # "done" /\ ~exited /\ ~ExitQueued
    BY <1>0 DEF Gated, ReaderSends, ReaperSends
<1>2. \A i \in 1 .. Len(events) : events[i] # "exit"
    BY <1>1 DEF ExitQueued
<1>3. PICK n \in Nat : n = Datas(events)
    BY DatasType DEF ShellInv
<1>4. CASE ReaderSends
  <2>1. reader = "sending" /\ gate' = "free" /\ reaper' = reaper /\ ~shut /\ reaper # "sending"
    BY <1>0, <1>4 DEF ReaderSends, Gated
  <2>2. CASE drive # "gone"
    <3>1. events' = Append(events, "data") /\ reader' = "reading"
      BY <1>4, <2>2 DEF ReaderSends
    <3>2. /\ events' \in Seq({"data", "exit"}) /\ Datas(events') = n + 1
          /\ \A i \in 1 .. Len(events') : events'[i] # "exit"
      BY <1>0, <1>2, <1>3, <3>1, EventAdded
    <3>3. Counts' /\ Gated' /\ NothingAfterExit'
      BY <1>0, <1>1, <2>1, <3>1, <3>2 DEF Counts, Gated, ExitQueued, NothingAfterExit
    <3>4. Conserved'
      BY <1>0, <1>3, <2>1, <3>1, <3>2 DEF Conserved, InHand
    <3> QED BY <3>3, <3>4 DEF ShellInv
  <2>3. CASE drive = "gone"
    <3>1. events' = events /\ reader' = "done"
      BY <1>4, <2>3 DEF ReaderSends, ReaderDone
    <3>2. Counts' /\ Gated' /\ NothingAfterExit'
      BY <1>0, <1>1, <2>1, <3>1 DEF Counts, Gated, ExitQueued, NothingAfterExit
    <3>3. Conserved'
      BY <1>0, <1>1, <2>1, <2>3, <3>1 DEF Conserved
    <3> QED BY <3>2, <3>3 DEF ShellInv
  <2> QED BY <2>2, <2>3
<1>5. CASE ReaperSends
  <2>1. reaper = "sending" /\ reaper' = "done" /\ reader' = reader /\ shut /\ reader # "sending"
    BY <1>0, <1>5 DEF ReaperSends, Gated
  <2>2. /\ events' \in Seq({"data", "exit"}) /\ Datas(events') = n
        /\ \A i \in 1 .. Len(events') : events'[i] = "exit" => i = Len(events')
    BY <1>0, <1>2, <1>3, <1>5, EventAdded DEF ReaperSends
  <2>3. Counts' /\ Gated' /\ NothingAfterExit'
    BY <1>0, <1>1, <2>1, <2>2 DEF Counts, Gated, NothingAfterExit
  <2>4. Conserved'
    BY <1>0, <1>3, <2>1, <2>2 DEF Conserved, Complete, InHand, SlaveOpen
  <2> QED BY <2>3, <2>4 DEF ShellInv
<1> QED BY <1>4, <1>5

\* An event is taken.
LEMMA TakeStep ==
    ASSUME ShellInv, TakeEvent
    PROVE  ShellInv'
<1> USE DEF childVars, threadVars, driveVars, inputVars
<1>0. /\ events \in Seq({"data", "exit"}) /\ produced \in Nat /\ ptyOut \in Nat
      /\ delivered \in Nat /\ Gated /\ Conserved /\ events # <<>> /\ ~exited
      /\ \A i \in 1 .. Len(events) : events[i] = "exit" => i = Len(events)
      /\ UNCHANGED <<child, held, produced, ptyOut, reader, reaper, gate, shut, drained>>
      /\ drive = "select" /\ events' = Tail(events)
    BY DEF ShellInv, Counts, TakeEvent, NothingAfterExit
<1>1. /\ events' \in Seq({"data", "exit"}) /\ Datas(events) \in Nat /\ Datas(events') \in Nat
      /\ Head(events) = "data" => Datas(events) = Datas(events') + 1
      /\ Head(events) # "data" => events' = <<>> /\ Datas(events) = Datas(events')
      /\ \A i \in 1 .. Len(events') : events'[i] = "exit" => i = Len(events')
      /\ \A i \in 1 .. Len(events') : events'[i] = "exit" =>
            \E j \in 1 .. Len(events) : events[j] = "exit"
    BY <1>0, EventTaken
<1>2. ExitQueued' => ExitQueued
    BY <1>1 DEF ExitQueued
<1>3. PICK n \in Nat, m \in Nat : n = Datas(events) /\ m = Datas(events')
    BY <1>1
<1>4. CASE Head(events) = "data"
  <2>1. delivered' = delivered + 1 /\ UNCHANGED <<drive, exited>> /\ n = m + 1
    BY <1>1, <1>3, <1>4 DEF TakeEvent
  <2>2. Counts' /\ Gated' /\ NothingAfterExit'
    BY <1>0, <1>1, <1>2, <2>1 DEF Counts, Gated, NothingAfterExit
  <2>3. reader = "done" /\ (shut => drained) => Complete /\ Complete'
    BY <1>0, <1>3, <2>1 DEF Conserved, Complete, SlaveOpen
  <2>4. reader # "done" => (delivered + Datas(events) + InHand + ptyOut = produced)'
    BY <1>0, <1>3, <2>1 DEF Conserved, InHand
  <2>5. Conserved'
    BY <1>0, <2>3, <2>4 DEF Conserved
  <2> QED BY <2>2, <2>5 DEF ShellInv
<1>5. CASE Head(events) # "data"
  <2>1. delivered' = delivered /\ exited' = TRUE /\ n = m /\ events' = <<>>
    BY <1>1, <1>3, <1>5 DEF TakeEvent
  <2>2. ExitQueued
    <3>1. Head(events) = events[1] /\ Head(events) \in {"data", "exit"} /\ 1 \in 1 .. Len(events)
      BY <1>0
    <3> QED BY <1>5, <3>1 DEF ExitQueued
  <2>3. Counts' /\ Gated' /\ NothingAfterExit'
    BY <1>0, <1>1, <2>1, <2>2 DEF Counts, Gated, NothingAfterExit
  <2>4. reader = "done" /\ (shut => drained) => Complete /\ Complete'
    BY <1>0, <1>3, <2>1 DEF Conserved, Complete, SlaveOpen
  <2>5. reader # "done" => (delivered + Datas(events) + InHand + ptyOut = produced)'
    BY <1>0, <1>3, <2>1 DEF Conserved, InHand
  <2>6. Conserved'
    BY <1>0, <2>4, <2>5 DEF Conserved
  <2> QED BY <2>3, <2>6 DEF ShellInv
<1> QED BY <1>4, <1>5

\* Spec => []ShellInv.
LEMMA ShellInvariant == Spec => []ShellInv
<1>1. Init => ShellInv
    BY DEF Init, ShellInv, Counts, Gated, ExitQueued, Conserved, InHand, Datas,
           NothingAfterExit
<1>2. ShellInv /\ [Next]_vars => ShellInv'
    BY AsideStep, SendStep, TakeStep
       DEF Next, ReaderSteps, ReaperSteps, DriveSteps
<1> QED BY <1>1, <1>2, PTL DEF Spec

\* The exit of a shell is the last event of its channel: a chunk the reader
\* thread read late never follows it.
THEOREM ExitIsLast == Spec => []NothingAfterExit
<1>1. ShellInv => NothingAfterExit
    BY DEF ShellInv
<1> QED BY <1>1, ShellInvariant, PTL

\* All that the child wrote is published before its exit, if the reader reached
\* the end of the PTY within the drain window.
THEOREM OutputIsFirst == Spec => []OutputBeforeExit
<1>1. ShellInv => OutputBeforeExit
  <2> SUFFICES ASSUME ShellInv, exited, drained PROVE delivered = produced
    BY DEF OutputBeforeExit
  <2>1. events = <<>> /\ shut /\ Counts /\ Conserved
    BY DEF ShellInv, Gated, NothingAfterExit
  <2>2. Datas(events) = 0
    BY <2>1 DEF Datas
  <2> QED BY <2>1, <2>2 DEF Conserved, Complete, Counts
<1> QED BY <1>1, ShellInvariant, PTL


-----------------------------------------------------------------------------
(***************************************************************************)
(* The log of a job and the page that reads it.  The page may be reading   *)
(* the log of a job whose slot another has taken since, and what it asks   *)
(* from next is then below, or above, what that one has numbered.  The     *)
(* invariant says of the slot's job and of the one being read what the     *)
(* page has of it: nothing from the line it asks from on, and everything   *)
(* below but what it had to miss.                                          *)
(***************************************************************************)

\* The lines a job has stored, those that were trimmed included.
Stored(j) == IF pushing[j] = None THEN next[j] ELSE next[j] - 1

\* Only the slot's job runs, only a job that runs writes, and a job to come
\* has no line.
Turn ==
    \A j \in Jobs :
        /\ running[j] => j = slot
        /\ pushing[j] # None => running[j] /\ pushing[j] = next[j] - 1
        /\ j > slot => lines[j] = <<>>

\* A log holds the newest numbers, each the successor of the one before it.
Consecutive ==
    \A j \in Jobs :
        /\ Len(lines[j]) <= Stored(j)
        /\ \A i \in 1 .. Len(lines[j]) : lines[j][i] = Stored(j) - Len(lines[j]) + i - 1

\* What the page has of a job it may still read is below the line it asks from.
Below(j) == \A i \in 1 .. Len(shown) :
    shown[i][1] <= j /\ (shown[i][1] = j => shown[i][2] < since)

\* The page has no line that its job did not number.
Numbered == \A i \in 1 .. Len(shown) : shown[i][2] < next[shown[i][1]]

\* A page that reads has not stopped, reads a job that was the slot's, and an
\* end that it read is one.
Reading ==
    viewing.job # None =>
        /\ done = None
        /\ viewing.job <= slot
        /\ ~viewing.running => ~running[viewing.job]

\* The line the page asks from was numbered by the slot's job or by one before.
Reached == since <= next[slot] \/ \E k \in Jobs : k < slot /\ since <= next[k]

\* Line n of job j need not come: a view stepped over it, or it is below what
\* an earlier job had the page ask from.
Missed(j, n) == <<j, n>> \in skipped \/ \E k \in Jobs : k < j /\ n < next[k]

\* Lines below the one the page asks from are shown or missed, those stored
\* and the one about to be.
Given(j) ==
    /\ \A n \in Range(lines[j]) : n < since => <<j, n>> \in Range(shown) \/ Missed(j, n)
    /\ pushing[j] # None /\ pushing[j] < since => Missed(j, pushing[j])

\* The page at rest will read the slot's job, and the one that reads its own.
Followed ==
    /\ Below(slot) /\ Given(slot)
    /\ viewing.job # None => Below(viewing.job) /\ Given(viewing.job)

Stopped == done # None => done <= slot /\ ~running[done] /\ EndIsShown

LogInv ==
    /\ JobLogTypeOK /\ Turn /\ Consecutive
    /\ Reading /\ Reached /\ Followed /\ Numbered /\ ShownInOrder /\ Stopped

\* What view filters out of a log of consecutive numbers is its end.
LEMMA SinceIs ==
    ASSUME NEW log \in Seq(Nat), NEW base \in Nat, NEW from \in Nat,
           \A i \in 1 .. Len(log) : log[i] = base + i - 1
    PROVE  \E d \in 0 .. Len(log) :
              /\ \A i \in 1 .. Len(log) : log[i] >= from <=> i > d
              /\ Since(log, from) = [i \in 1 .. Len(log) - d |-> log[d + i]]
<1> DEFINE n == Len(log)
           d == IF from <= base THEN 0 ELSE IF from - base <= n THEN from - base ELSE n
           asked == {p \in DOMAIN log : log[p] >= from}
<1>1. n \in Nat /\ DOMAIN log = 1 .. n
    OBVIOUS
<1>2. d \in 0 .. n /\ \A i \in 1 .. n : log[i] >= from <=> i > d
    BY <1>1
<1> HIDE DEF n, d
<1>3. asked = d + 1 .. n
    BY <1>1, <1>2
<1>4. Cardinality(asked) = n - d
  <2>1. Cardinality(d + 1 .. n) = IF d + 1 > n THEN 0 ELSE n - (d + 1) + 1
    BY <1>1, <1>2, FS_Interval
  <2> HIDE DEF asked
  <2> QED BY <1>1, <1>2, <1>3, <2>1
<1>5. ASSUME NEW p \in asked PROVE Cardinality({q \in asked : q <= p}) = p - d
  <2>1. p \in d + 1 .. n
    BY <1>3
  <2>2. {q \in asked : q <= p} = d + 1 .. p
    <3> HIDE DEF asked
    <3> QED BY <1>1, <1>2, <1>3, <2>1
  <2>3. d + 1 \in Int /\ p \in Int /\ d \in Int /\ d + 1 <= p
    BY <1>1, <1>2, <2>1
  <2>4. Cardinality(d + 1 .. p) = IF d + 1 > p THEN 0 ELSE p - (d + 1) + 1
    BY <2>3, FS_Interval
  <2>5. Cardinality(d + 1 .. p) = p - d
    BY <2>3, <2>4
  <2> QED BY <2>2, <2>5
<1> DEFINE at(i) == CHOOSE p \in asked : Cardinality({q \in asked : q <= p}) = i
<1>6. ASSUME NEW i \in 1 .. n - d PROVE at(i) = d + i
  <2> HIDE DEF asked
  <2>1. d + i \in asked
    BY <1>1, <1>2, <1>3
  <2>2. Cardinality({q \in asked : q <= d + i}) = i
    BY <1>1, <1>2, <1>5, <2>1
  <2>3. ASSUME NEW p \in asked, Cardinality({q \in asked : q <= p}) = i PROVE p = d + i
    <3>1. p - d = i
      BY <1>5, <2>3
    <3> QED BY <1>1, <1>2, <1>3, <3>1
  <2> QED BY <2>1, <2>2, <2>3
<1>7. Since(log, from) = [i \in 1 .. n - d |-> log[at(i)]]
    BY <1>4 DEF Since
<1> HIDE DEF at
<1>8. Since(log, from) = [i \in 1 .. n - d |-> log[d + i]]
    BY <1>6, <1>7
<1> QED BY <1>2, <1>8 DEF n

\* What the page has after a view: the end of the log, behind what it had.
LEMMA ViewAdds ==
    ASSUME LogInv, ViewLines
    PROVE  LET j == viewing.job
               log == lines[j]
           IN  /\ j \in Jobs
               /\ \E d \in 0 .. Len(log) :
                     /\ \A i \in 1 .. Len(log) : log[i] >= since <=> i > d
                     /\ shown' \in Seq(Jobs \X (0 .. MaxNumbered))
                     /\ Len(shown') = Len(shown) + (Len(log) - d)
                     /\ \A i \in 1 .. Len(shown) : shown'[i] = shown[i]
                     /\ \A i \in 1 .. Len(log) - d : shown'[Len(shown) + i] = <<j, log[d + i]>>
<1> DEFINE j == viewing.job
           log == lines[j]
           base == Stored(j) - Len(log)
<1>1. /\ j \in Jobs /\ log \in Seq(0 .. MaxNumbered) /\ since \in Nat
      /\ shown \in Seq(Jobs \X (0 .. MaxNumbered)) /\ next[j] \in Nat /\ Len(log) \in Nat
      /\ \A i \in 1 .. Len(log) : log[i] \in 0 .. MaxNumbered
    BY JobLogAssumption DEF LogInv, JobLogTypeOK, ViewLines
<1>2. /\ base \in Nat
      /\ \A i \in 1 .. Len(log) : log[i] = base + i - 1
  <2>1. /\ Len(log) <= Stored(j)
        /\ \A i \in 1 .. Len(log) : log[i] = Stored(j) - Len(log) + i - 1
    BY <1>1 DEF LogInv, Consecutive
  <2>2. Stored(j) \in Int
    BY <1>1 DEF Stored
  <2> HIDE DEF log
  <2> QED BY <1>1, <2>1, <2>2
<1>3. log \in Seq(Nat)
    BY <1>1, JobLogAssumption
<1> HIDE DEF base
<1>4. PICK d \in 0 .. Len(log) :
          /\ \A i \in 1 .. Len(log) : log[i] >= since <=> i > d
          /\ Since(log, since) = [i \in 1 .. Len(log) - d |-> log[d + i]]
    BY <1>1, <1>2, <1>3, SinceIs
<1> DEFINE added == [i \in 1 .. Len(log) - d |-> <<j, log[d + i]>>]
<1>5. shown' = shown \o added
  <2>1. DOMAIN Since(log, since) = 1 .. Len(log) - d
    BY <1>4
  <2>2. \A i \in 1 .. Len(log) - d : Since(log, since)[i] = log[d + i]
    BY <1>4
  <2>3. shown' = shown \o [i \in DOMAIN Since(log, since) |-> <<j, Since(log, since)[i]>>]
    BY DEF ViewLines
  <2> QED BY <2>1, <2>2, <2>3
<1> HIDE DEF j, log
<1>6. Len(log) - d \in Nat /\ \A i \in 1 .. Len(log) - d : log[d + i] \in 0 .. MaxNumbered
    BY <1>1
<1>7. /\ added \in Seq(Jobs \X (0 .. MaxNumbered)) /\ Len(added) = Len(log) - d
      /\ \A i \in 1 .. Len(log) - d : added[i] = <<j, log[d + i]>>
    BY <1>1, <1>6
<1> HIDE DEF added
<1>8. /\ shown' \in Seq(Jobs \X (0 .. MaxNumbered))
      /\ Len(shown') = Len(shown) + (Len(log) - d)
      /\ \A i \in 1 .. Len(shown) : shown'[i] = shown[i]
      /\ \A i \in 1 .. Len(log) - d : shown'[Len(shown) + i] = added[i]
  <2>1. /\ Len(shown \o added) = Len(shown) + Len(added)
        /\ \A i \in 1 .. Len(shown) + Len(added) : (shown \o added)[i] =
              IF i <= Len(shown) THEN shown[i] ELSE added[i - Len(shown)]
        /\ shown \o added \in Seq(Jobs \X (0 .. MaxNumbered))
    BY <1>1, <1>7, ConcatProperties
  <2>2. Len(shown) \in Nat
    BY <1>1
  <2>3. \A i \in 1 .. Len(log) - d : /\ Len(shown) + i \in 1 .. Len(shown) + Len(added)
                                     /\ ~(Len(shown) + i <= Len(shown))
                                     /\ (Len(shown) + i) - Len(shown) = i
    BY <1>6, <1>7, <2>2
  <2>4. \A i \in 1 .. Len(shown) : i \in 1 .. Len(shown) + Len(added) /\ i <= Len(shown)
    BY <1>6, <1>7, <2>2
  <2> QED BY <1>5, <1>7, <2>1, <2>3, <2>4
<1> QED BY <1>1, <1>4, <1>7, <1>8 DEF j, log

\* What the types say of the numbers in a log and on the page.
LEMMA LogTypes ==
    ASSUME JobLogTypeOK
    PROVE  /\ slot \in Jobs /\ Jobs \subseteq Nat /\ None \notin Jobs /\ None \notin Nat
           /\ viewing.job \in Jobs \cup {None} /\ viewing.running \in BOOLEAN
           /\ done \in Jobs \cup {None} /\ since \in Nat /\ MaxNumbered \in Nat
           /\ \A j \in Jobs : /\ next[j] \in Nat /\ Len(lines[j]) \in Nat
                              /\ DOMAIN lines[j] = 1 .. Len(lines[j])
                              /\ Range(lines[j]) \subseteq Nat
           /\ Len(shown) \in Nat /\ DOMAIN shown = 1 .. Len(shown)
           /\ \A i \in 1 .. Len(shown) :
                shown[i][1] \in Jobs /\ shown[i][2] \in Nat /\ shown[i] = <<shown[i][1], shown[i][2]>>
<1>1. /\ slot \in Jobs /\ Jobs \subseteq Nat /\ None \notin Jobs /\ None \notin Nat
      /\ MaxNumbered \in Nat /\ 0 .. MaxNumbered \subseteq Nat
    BY JobLogAssumption DEF JobLogTypeOK, Jobs, None
<1>2. /\ viewing.job \in Jobs \cup {None} /\ viewing.running \in BOOLEAN
      /\ done \in Jobs \cup {None} /\ since \in Nat
    BY <1>1 DEF JobLogTypeOK
<1>3. ASSUME NEW j \in Jobs
      PROVE  /\ next[j] \in Nat /\ Len(lines[j]) \in Nat
             /\ DOMAIN lines[j] = 1 .. Len(lines[j])
             /\ Range(lines[j]) \subseteq Nat
  <2>1. next[j] \in Nat /\ lines[j] \in Seq(0 .. MaxNumbered)
    BY <1>1 DEF JobLogTypeOK
  <2>2. /\ Len(lines[j]) \in Nat /\ DOMAIN lines[j] = 1 .. Len(lines[j])
        /\ \A i \in 1 .. Len(lines[j]) : lines[j][i] \in 0 .. MaxNumbered
    BY <2>1, LenProperties, ElementOfSeq
  <2>3. Range(lines[j]) \subseteq Nat
    BY <1>1, <2>2 DEF Range
  <2> QED BY <2>1, <2>2, <2>3
<1>4. shown \in Seq(Jobs \X (0 .. MaxNumbered))
    BY DEF JobLogTypeOK
<1>5. /\ Len(shown) \in Nat /\ DOMAIN shown = 1 .. Len(shown)
      /\ \A i \in 1 .. Len(shown) : shown[i] \in Jobs \X (0 .. MaxNumbered)
    BY <1>4
<1>6. \A i \in 1 .. Len(shown) :
         shown[i][1] \in Jobs /\ shown[i][2] \in Nat /\ shown[i] = <<shown[i][1], shown[i][2]>>
    BY <1>1, <1>5
<1> QED BY <1>1, <1>2, <1>3, <1>5, <1>6

\* The next job has the slot.
LEMMA BeginStep ==
    ASSUME LogInv, Begin
    PROVE  LogInv'
<1>1. /\ slot \in Jobs /\ slot + 1 \in Jobs /\ slot' = slot + 1 /\ ~running[slot]
      /\ running \in [Jobs -> BOOLEAN] /\ running' = [running EXCEPT ![slot + 1] = TRUE]
      /\ UNCHANGED <<next, lines, pushing, viewing, since, shown, done, skipped>>
    BY JobLogAssumption DEF LogInv, JobLogTypeOK, Begin, pageVars, Jobs
<1>2. /\ Jobs \subseteq Nat /\ None \notin Jobs /\ viewing.job \in Jobs \cup {None}
      /\ done \in Jobs \cup {None}
      /\ \A i \in 1 .. Len(shown) : shown[i][1] \in Jobs
    BY LogTypes DEF LogInv
<1>3. JobLogTypeOK'
    BY <1>1 DEF LogInv, JobLogTypeOK
<1>4. \A j \in Jobs : ~running[j] /\ pushing[j] = None /\ (j > slot => lines[j] = <<>>)
    BY <1>1 DEF LogInv, Turn
<1>5. Turn'
    BY <1>1, <1>2, <1>4 DEF Turn
<1>6. Consecutive' /\ ShownInOrder' /\ Numbered'
    BY <1>1 DEF LogInv, Consecutive, Stored, ShownInOrder, Numbered
<1>7. Reading'
  <2> SUFFICES ASSUME viewing.job # None
               PROVE  done = None /\ viewing.job <= slot + 1 /\ ~running'[viewing.job]
    BY <1>1 DEF Reading
  <2>1. viewing.job \in Nat /\ slot \in Nat /\ viewing.job <= slot /\ done = None
    BY <1>1, <1>2 DEF LogInv, Reading
  <2>2. viewing.job # slot + 1 /\ viewing.job \in Jobs
    BY <1>2, <2>1
  <2> QED BY <1>1, <1>4, <2>1, <2>2
<1>8. Reached'
    BY <1>1, <1>2 DEF LogInv, Reached
<1>9. Below(slot)' /\ Given(slot)'
  <2>1. \A i \in 1 .. Len(shown) : shown[i][1] <= slot /\ shown[i][1] \in Nat /\ slot \in Nat
    BY <1>1, <1>2 DEF LogInv, Followed, Below
  <2>2. Below(slot)'
    BY <1>1, <1>2, <2>1 DEF Below
  <2>3. lines[slot + 1] = <<>> /\ pushing[slot + 1] = None
    BY <1>1, <1>2, <1>4
  <2>4. Range(lines[slot + 1]) = {}
    BY <2>3 DEF Range
  <2> QED BY <1>1, <2>2, <2>3, <2>4 DEF Given
<1>10. Followed'
    BY <1>1, <1>9 DEF LogInv, Followed, Below, Given, Missed
<1>11. Stopped'
    BY <1>1, <1>2, <1>4 DEF LogInv, Stopped, EndIsShown
<1> QED BY <1>3, <1>5, <1>6, <1>7, <1>8, <1>10, <1>11 DEF LogInv

\* A line is numbered.
LEMMA NumberStep ==
    ASSUME LogInv, NEW j \in Jobs, Number(j)
    PROVE  LogInv'
<1>1. /\ running[j] /\ pushing[j] = None /\ next[j] < MaxNumbered
      /\ pushing' = [pushing EXCEPT ![j] = next[j]] /\ next' = [next EXCEPT ![j] = @ + 1]
      /\ UNCHANGED <<slot, running, lines, viewing, since, shown, done, skipped>>
    BY DEF Number, pageVars
<1>2. /\ slot \in Jobs /\ Jobs \subseteq Nat /\ viewing.job \in Jobs \cup {None} /\ None \notin Jobs
      /\ done \in Jobs \cup {None} /\ since \in Nat /\ MaxNumbered \in Nat /\ None \notin Nat
      /\ pushing \in [Jobs -> 0 .. MaxNumbered \cup {None}] /\ next \in [Jobs -> 0 .. MaxNumbered]
      /\ \A k \in Jobs : next[k] \in Nat /\ next[k] # None
    BY LogTypes DEF LogInv, JobLogTypeOK
<1>3. JobLogTypeOK'
  <2>1. next[j] + 1 \in 0 .. MaxNumbered
    BY <1>1, <1>2
  <2> QED BY <1>1, <1>2, <2>1 DEF LogInv, JobLogTypeOK
<1>4. j = slot
    BY <1>1 DEF LogInv, Turn
<1>5. Turn'
  <2>1. next'[j] - 1 = next[j] /\ pushing'[j] = next[j]
    BY <1>1, <1>2
  <2>2. \A k \in Jobs : k # j => next'[k] = next[k] /\ pushing'[k] = pushing[k]
    BY <1>1, <1>2
  <2> QED BY <1>1, <2>1, <2>2 DEF LogInv, Turn
<1>6. \A k \in Jobs : Stored(k)' = Stored(k)
    BY <1>1, <1>2 DEF Stored
<1>7. Consecutive' /\ ShownInOrder'
    BY <1>1, <1>6 DEF LogInv, Consecutive, ShownInOrder
<1>8. Reading'
    BY <1>1 DEF LogInv, Reading
<1>9. \A k \in Jobs : next'[k] \in Nat /\ next[k] <= next'[k]
    BY <1>1, <1>2
<1>10. Reached'
    BY <1>1, <1>2, <1>9 DEF LogInv, Reached
<1>11. ASSUME NEW k \in Jobs, NEW n \in Nat, Missed(k, n) PROVE Missed(k, n)'
    BY <1>1, <1>2, <1>9, <1>11 DEF Missed
<1>12. \A k \in Jobs : Range(lines[k]) \subseteq Nat
    BY LogTypes DEF LogInv
<1>13. pushing'[j] < since => Missed(j, pushing[j])'
  <2> SUFFICES ASSUME next[j] < since PROVE \E k \in Jobs : k < j /\ next[j] < next'[k]
    BY <1>1, <1>2 DEF Missed
  <2>1. PICK k \in Jobs : k < slot /\ since <= next[k]
    BY <1>2, <1>4 DEF LogInv, Reached
  <2> QED BY <1>2, <1>4, <1>9, <2>1
<1>14. ASSUME NEW k \in Jobs, Given(k), k # j => pushing[k] = None PROVE Given(k)'
  <2>1. \A n \in Range(lines'[k]) : n < since' => <<k, n>> \in Range(shown') \/ Missed(k, n)'
    BY <1>1, <1>11, <1>12, <1>14 DEF Given
  <2>2. pushing'[k] # None /\ pushing'[k] < since' => Missed(k, pushing[k])'
    <3>1. CASE k = j
      BY <1>1, <1>13, <3>1
    <3>2. CASE k # j
      BY <1>1, <1>2, <1>14, <3>2
    <3> QED BY <3>1, <3>2
  <2> QED BY <2>1, <2>2 DEF Given
<1>15. \A k \in Jobs : k # j => pushing[k] = None
    BY <1>4 DEF LogInv, Turn
<1>16. Followed'
    BY <1>1, <1>2, <1>14, <1>15 DEF LogInv, Followed, Below
<1>17. Numbered'
  <2>1. \A i \in 1 .. Len(shown) : shown[i][1] \in Jobs /\ shown[i][2] \in Nat
    BY LogTypes DEF LogInv
  <2> QED BY <1>1, <1>2, <1>9, <2>1 DEF LogInv, Numbered
<1>18. Stopped'
  <2> SUFFICES ASSUME done # None
               PROVE  /\ done <= slot /\ ~running[done]
                      /\ \A n \in Range(lines[done]) :
                            \/ <<done, n>> \in Range(shown)
                            \/ <<done, n>> \in skipped
                            \/ \E k \in Jobs : k < done /\ n < next'[k]
    BY <1>1 DEF Stopped, EndIsShown
  <2>1. done \in Jobs /\ Range(lines[done]) \subseteq Nat
    BY <1>2, <1>12
  <2>2. \A n \in Nat, k \in Jobs : n < next[k] => n < next'[k]
    BY <1>2, <1>9
  <2> QED BY <2>1, <2>2 DEF LogInv, Stopped, EndIsShown
<1> QED BY <1>3, <1>5, <1>7, <1>8, <1>10, <1>16, <1>17, <1>18 DEF LogInv

\* The line is stored, and the oldest makes room for it.
LEMMA StoreStep ==
    ASSUME LogInv, NEW j \in Jobs, Store(j)
    PROVE  LogInv'
<1> DEFINE log == lines[j]
           kept == IF Len(log) >= MaxLines THEN Tail(log) ELSE log
           p == pushing[j]
<1>1. /\ p # None
      /\ lines' = [lines EXCEPT ![j] = Append(kept, p)]
      /\ pushing' = [pushing EXCEPT ![j] = None]
      /\ UNCHANGED <<slot, running, next, viewing, since, shown, done, skipped>>
    BY DEF Store, pageVars
<1>2. /\ slot \in Jobs /\ Jobs \subseteq Nat /\ None \notin Jobs /\ None \notin Nat
      /\ MaxNumbered \in Nat /\ MaxLines \in Nat \ {0} /\ Len(log) \in Nat /\ next[j] \in Nat
      /\ lines \in [Jobs -> Seq(0 .. MaxNumbered)] /\ log \in Seq(0 .. MaxNumbered)
      /\ pushing \in [Jobs -> 0 .. MaxNumbered \cup {None}] /\ p \in 0 .. MaxNumbered
      /\ viewing.job \in Jobs \cup {None}
    BY <1>1, LogTypes, JobLogAssumption DEF LogInv, JobLogTypeOK
<1>3. running[j] /\ j = slot /\ p = next[j] - 1
    BY <1>1 DEF LogInv, Turn
<1>4. /\ Len(log) <= p /\ \A i \in 1 .. Len(log) : log[i] = p - Len(log) + i - 1
  <2>1. Stored(j) = p
    BY <1>1, <1>3 DEF Stored
  <2> QED BY <2>1 DEF LogInv, Consecutive
<1> HIDE DEF log, p
<1>5. /\ kept \in Seq(0 .. MaxNumbered) /\ Len(kept) \in Nat /\ Len(kept) <= p
      /\ \A i \in 1 .. Len(kept) : kept[i] = p - Len(kept) + i - 1
      /\ \A i \in 1 .. Len(kept) : \E m \in 1 .. Len(log) : kept[i] = log[m]
  <2>1. CASE Len(log) >= MaxLines
    <3>1. log # <<>> /\ kept = Tail(log)
      BY <1>2, <2>1
    <3>2. /\ Tail(log) \in Seq(0 .. MaxNumbered) /\ Len(Tail(log)) = Len(log) - 1
          /\ \A i \in 1 .. Len(log) - 1 : Tail(log)[i] = log[i + 1]
      BY <1>2, <3>1, TailIs
    <3>3. \A i \in 1 .. Len(log) - 1 : i + 1 \in 1 .. Len(log)
      BY <1>2
    <3>4. Len(log) - 1 \in Nat
      BY <1>2, <2>1
    <3> HIDE DEF kept
    <3> QED BY <1>2, <1>4, <3>1, <3>2, <3>3, <3>4
  <2>2. CASE ~(Len(log) >= MaxLines)
    BY <1>2, <1>4, <2>2
  <2> QED BY <2>1, <2>2
<1> HIDE DEF kept
<1>6. /\ Append(kept, p) \in Seq(0 .. MaxNumbered) /\ Len(Append(kept, p)) = Len(kept) + 1
      /\ \A i \in 1 .. Len(kept) : Append(kept, p)[i] = kept[i]
      /\ Append(kept, p)[Len(kept) + 1] = p
    BY <1>2, <1>5, AppendProperties
<1>7. lines'[j] = Append(kept, p) /\ \A k \in Jobs : k # j => lines'[k] = lines[k]
    BY <1>1, <1>2
<1>8. pushing'[j] = None /\ \A k \in Jobs : k # j => pushing'[k] = pushing[k]
    BY <1>1, <1>2
<1>9. JobLogTypeOK'
    BY <1>1, <1>2, <1>6 DEF LogInv, JobLogTypeOK
<1>10. Turn'
    BY <1>1, <1>2, <1>3, <1>7, <1>8 DEF LogInv, Turn
<1>11. Consecutive'
  <2>1. Stored(j)' = p + 1
    BY <1>1, <1>2, <1>3, <1>8 DEF Stored
  <2>2. \A i \in 1 .. Len(kept) + 1 :
            Append(kept, p)[i] = (p + 1) - (Len(kept) + 1) + i - 1
    <3> TAKE i \in 1 .. Len(kept) + 1
    <3>1. CASE i = Len(kept) + 1
      BY <1>2, <1>5, <1>6, <3>1
    <3>2. CASE i # Len(kept) + 1
      <4>1. i \in 1 .. Len(kept)
        BY <1>5, <3>2
      <4> QED BY <1>2, <1>5, <1>6, <4>1
    <3> QED BY <3>1, <3>2
  <2>3. \A k \in Jobs : k # j => Stored(k)' = Stored(k)
    BY <1>1, <1>8 DEF Stored
  <2>4. Len(kept) + 1 <= p + 1
    BY <1>2, <1>5
  <2> QED BY <1>6, <1>7, <2>1, <2>2, <2>3, <2>4 DEF LogInv, Consecutive
<1>12. Reading' /\ Reached' /\ Numbered' /\ ShownInOrder'
    BY <1>1 DEF LogInv, Reading, Reached, Numbered, ShownInOrder
<1>13. \A n \in Range(lines'[j]) : n \in Range(log) \/ n = p
  <2>1. DOMAIN Append(kept, p) = 1 .. Len(kept) + 1
    BY <1>6
  <2>2. \A i \in 1 .. Len(kept) + 1 : i \in 1 .. Len(kept) \/ i = Len(kept) + 1
    BY <1>5
  <2>3. DOMAIN log = 1 .. Len(log)
    BY <1>2
  <2> TAKE n \in Range(lines'[j])
  <2>4. PICK i \in 1 .. Len(kept) + 1 : n = Append(kept, p)[i]
    BY <1>7, <2>1 DEF Range
  <2>5. CASE i = Len(kept) + 1
    BY <1>6, <2>4, <2>5
  <2>6. CASE i \in 1 .. Len(kept)
    <3>1. PICK m \in 1 .. Len(log) : n = log[m]
      BY <1>5, <1>6, <2>4, <2>6
    <3> QED BY <2>3, <3>1 DEF Range
  <2> QED BY <2>2, <2>5, <2>6
<1>14. Given(j)'
  <2>1. Given(j)
    BY <1>3 DEF LogInv, Followed
  <2>2. p < since => Missed(j, p)
    BY <1>1, <2>1 DEF Given, p
  <2>3. \A n \in Range(log) : n < since => <<j, n>> \in Range(shown) \/ Missed(j, n)
    BY <2>1 DEF Given, log
  <2>4. \A n : Missed(j, n)' <=> Missed(j, n)
    BY <1>1 DEF Missed
  <2> QED BY <1>1, <1>8, <1>13, <2>2, <2>3, <2>4 DEF Given
<1>15. ASSUME NEW k \in Jobs, k # j, Given(k) PROVE Given(k)'
    BY <1>1, <1>7, <1>8, <1>15 DEF Given, Missed
<1>16. Followed'
  <2>1. Below(slot)' /\ Given(slot)'
    BY <1>1, <1>3, <1>14 DEF LogInv, Followed, Below
  <2>2. viewing.job # None => Below(viewing.job)' /\ Given(viewing.job)'
    BY <1>1, <1>2, <1>14, <1>15 DEF LogInv, Followed, Below
  <2> QED BY <1>1, <2>1, <2>2 DEF Followed
<1>17. Stopped'
  <2>1. done # None => done \in Jobs /\ done # j
    BY <1>3, LogTypes DEF LogInv, Stopped
  <2> QED BY <1>1, <1>7, <2>1 DEF LogInv, Stopped, EndIsShown
<1> QED BY <1>9, <1>10, <1>11, <1>12, <1>16, <1>17 DEF LogInv

\* A job ends.
LEMMA FinishStep ==
    ASSUME LogInv, NEW j \in Jobs, Finish(j)
    PROVE  LogInv'
<1>1. /\ running[j] /\ pushing[j] = None
      /\ running \in [Jobs -> BOOLEAN] /\ running' = [running EXCEPT ![j] = FALSE]
      /\ UNCHANGED <<slot, next, lines, pushing, viewing, since, shown, done, skipped>>
    BY DEF Finish, pageVars, LogInv, JobLogTypeOK
<1>2. \A k \in Jobs : running'[k] => running[k]
    BY <1>1
<1>3. JobLogTypeOK'
    BY <1>1 DEF LogInv, JobLogTypeOK
<1>4. Turn'
  <2>1. \A k \in Jobs : k # j => running'[k] = running[k]
    BY <1>1
  <2> QED BY <1>1, <1>2, <2>1 DEF LogInv, Turn
<1>5. Consecutive' /\ Reached' /\ Numbered' /\ ShownInOrder'
    BY <1>1 DEF LogInv, Consecutive, Stored, Reached, Numbered, ShownInOrder
<1>6. Reading' /\ Stopped'
  <2>1. (viewing.job # None => viewing.job \in Jobs) /\ (done # None => done \in Jobs)
    BY LogTypes DEF LogInv
  <2> QED BY <1>1, <1>2, <2>1 DEF LogInv, Reading, Stopped, EndIsShown
<1>7. Followed'
    BY <1>1 DEF LogInv, Followed, Below, Given, Missed
<1> QED BY <1>3, <1>4, <1>5, <1>6, <1>7 DEF LogInv

\* A read begins or is lost, or nothing happens.
LEMMA ReadStep ==
    ASSUME LogInv, ViewState \/ LoseView \/ UNCHANGED jobLog
    PROVE  LogInv'
<1>1. UNCHANGED <<slot, running, next, lines, pushing, since, shown, done, skipped>>
    BY DEF ViewState, LoseView, jobLog, jobVars, pageVars
<1>2. Turn' /\ Consecutive' /\ Reached' /\ Numbered' /\ ShownInOrder' /\ Stopped'
    BY <1>1 DEF LogInv, Turn, Consecutive, Stored, Reached, Numbered, ShownInOrder, Stopped,
                EndIsShown
<1>3. /\ slot \in Jobs /\ Jobs \subseteq Nat /\ running[slot] \in BOOLEAN /\ NoView.job = None
      /\ NoView \in [job : Jobs \cup {None}, running : BOOLEAN]
    BY LogTypes DEF LogInv, JobLogTypeOK, NoView
<1>4. CASE ViewState
  <2>1. done = None /\ viewing' = [job |-> slot, running |-> running[slot]]
    BY <1>4 DEF ViewState
  <2>2. viewing'.job = slot /\ viewing'.running = running[slot]
    BY <2>1
  <2>3. viewing' \in [job : Jobs \cup {None}, running : BOOLEAN]
    BY <1>3, <2>1
  <2>4. JobLogTypeOK'
    BY <1>1, <2>3 DEF LogInv, JobLogTypeOK
  <2>5. Reading'
    BY <1>1, <1>3, <2>1, <2>2 DEF Reading
  <2>6. Followed'
    BY <1>1, <2>2 DEF LogInv, Followed, Below, Given, Missed
  <2> QED BY <1>2, <2>4, <2>5, <2>6 DEF LogInv
<1>5. CASE LoseView
  <2>1. viewing' = NoView /\ viewing'.job = None
    BY <1>3, <1>5 DEF LoseView
  <2>2. JobLogTypeOK'
    BY <1>1, <1>3, <2>1 DEF LogInv, JobLogTypeOK
  <2>3. Reading' /\ Followed'
    BY <1>1, <2>1 DEF LogInv, Reading, Followed, Below, Given, Missed
  <2> QED BY <1>2, <2>2, <2>3 DEF LogInv
<1>6. CASE UNCHANGED jobLog
  <2>1. viewing' = viewing
    BY <1>6 DEF jobLog, pageVars
  <2>2. JobLogTypeOK' /\ Reading' /\ Followed'
    BY <1>1, <2>1 DEF LogInv, JobLogTypeOK, Reading, Followed, Below, Given, Missed
  <2> QED BY <1>2, <2>2 DEF LogInv
<1> QED BY <1>4, <1>5, <1>6

\* The page has the lines it asked for, or a view's end.
LEMMA ViewStep ==
    ASSUME LogInv, ViewLines
    PROVE  LogInv'
<1>0. PICK v \in Jobs : v = viewing.job
    BY LogTypes DEF LogInv, ViewLines
<1> DEFINE log == lines[v]
<1>1. /\ v # None /\ since' = next[v] /\ viewing' = NoView
      /\ skipped' = IF pushing[v] = None THEN skipped ELSE skipped \cup {<<v, pushing[v]>>}
      /\ done' = IF viewing.running THEN None ELSE v
      /\ UNCHANGED <<slot, running, next, lines, pushing>>
    BY <1>0 DEF ViewLines, ViewNext, jobVars
<1>2. PICK d \in 0 .. Len(log) :
          /\ \A i \in 1 .. Len(log) : log[i] >= since <=> i > d
          /\ shown' \in Seq(Jobs \X (0 .. MaxNumbered))
          /\ Len(shown') = Len(shown) + (Len(log) - d)
          /\ \A i \in 1 .. Len(shown) : shown'[i] = shown[i]
          /\ \A i \in 1 .. Len(log) - d : shown'[Len(shown) + i] = <<v, log[d + i]>>
    BY <1>0, ViewAdds
<1>3. /\ v \in Jobs /\ slot \in Jobs /\ Jobs \subseteq Nat /\ None \notin Jobs /\ None \notin Nat
      /\ since \in Nat /\ next[v] \in Nat /\ Len(log) \in Nat /\ Len(shown) \in Nat
      /\ DOMAIN log = 1 .. Len(log) /\ DOMAIN shown = 1 .. Len(shown) /\ Range(log) \subseteq Nat
      /\ \A i \in 1 .. Len(shown) : shown[i][1] \in Jobs /\ shown[i][2] \in Nat
      /\ viewing.running \in BOOLEAN
    BY <1>0, <1>1, LogTypes DEF LogInv
<1>4. /\ next \in [Jobs -> 0 .. MaxNumbered] /\ NoView.job = None
      /\ NoView \in [job : Jobs \cup {None}, running : BOOLEAN]
      /\ pushing[v] \in Nat \cup {None}
  <2>1. pushing[v] \in 0 .. MaxNumbered \cup {None} /\ 0 .. MaxNumbered \subseteq Nat
    BY <1>3, JobLogAssumption DEF LogInv, JobLogTypeOK
  <2> QED BY <2>1 DEF LogInv, JobLogTypeOK, NoView
<1>5. done = None /\ v <= slot /\ (~viewing.running => ~running[v]) /\ Below(v) /\ Given(v)
    BY <1>0, <1>1 DEF LogInv, Reading, Followed
<1>6. Turn' /\ Consecutive'
    BY <1>1 DEF LogInv, Turn, Consecutive, Stored
<1>7. JobLogTypeOK'
  <2>1. next[v] \in 0 .. MaxNumbered
    BY <1>3, <1>4
  <2>2. done' \in Jobs \cup {None}
    BY <1>1, <1>3
  <2> QED BY <1>1, <1>2, <1>4, <2>1, <2>2 DEF LogInv, JobLogTypeOK
<1>8. Reading'
    BY <1>1, <1>4 DEF Reading
<1>9. \A i \in 1 .. Len(log) :
         log[i] \in Nat /\ log[i] < next[v] /\ \A k \in 1 .. Len(log) : i < k => log[i] < log[k]
  <2>1. /\ Len(log) <= Stored(v)
        /\ \A i \in 1 .. Len(log) : log[i] = Stored(v) - Len(log) + i - 1
    BY <1>3 DEF LogInv, Consecutive
  <2>2. Stored(v) \in Int /\ Stored(v) <= next[v]
    BY <1>3 DEF Stored
  <2> HIDE DEF log
  <2> QED BY <1>3, <2>1, <2>2
<1>10. \A n \in Range(log) : \E i \in 1 .. Len(log) : n = log[i]
    BY <1>3 DEF Range
<1> HIDE DEF log
\* A line on the page was there, or is one of the log's from d on.
<1>11. ASSUME NEW i \in 1 .. Len(shown')
       PROVE  \/ i \in 1 .. Len(shown) /\ shown'[i] = shown[i]
              \/ \E m \in 1 .. Len(log) : /\ m > d /\ i = Len(shown) + (m - d)
                                          /\ shown'[i][1] = v /\ shown'[i][2] = log[m]
  <2>1. CASE i <= Len(shown)
    BY <1>2, <1>3, <2>1
  <2>2. CASE i > Len(shown)
    <3>1. i - Len(shown) \in 1 .. Len(log) - d
      BY <1>2, <1>3, <2>2
    <3>2. shown'[Len(shown) + (i - Len(shown))] = <<v, log[d + (i - Len(shown))]>>
      BY <1>2, <3>1
    <3>3. Len(shown) + (i - Len(shown)) = i
      BY <1>2, <1>3
    <3>4. /\ d + (i - Len(shown)) \in 1 .. Len(log) /\ d + (i - Len(shown)) > d
          /\ i = Len(shown) + ((d + (i - Len(shown))) - d)
      BY <1>2, <1>3, <3>1
    <3> QED BY <3>2, <3>3, <3>4
  <2> QED BY <1>2, <1>3, <2>1, <2>2
<1>12. DOMAIN shown' = 1 .. Len(shown')
    BY <1>2
\* The lines asked for have come, and those that were there stay.
<1>13. ASSUME NEW n \in Range(log), ~(n < since) PROVE <<v, n>> \in Range(shown')
  <2>1. PICK m \in 1 .. Len(log) : n = log[m]
    BY <1>10
  <2>2. m > d
    BY <1>2, <1>3, <1>9, <1>13, <2>1
  <2>3. m - d \in 1 .. Len(log) - d /\ d + (m - d) = m
    BY <1>2, <1>3, <2>2
  <2>4. shown'[Len(shown) + (m - d)] = <<v, n>>
    BY <1>2, <2>1, <2>3
  <2>5. Len(shown) + (m - d) \in 1 .. Len(shown')
    BY <1>2, <1>3, <2>3
  <2> QED BY <1>12, <2>4, <2>5 DEF Range
<1>14. Range(shown) \subseteq Range(shown')
  <2>1. \A i \in 1 .. Len(shown) : i \in 1 .. Len(shown')
    BY <1>2, <1>3
  <2> QED BY <1>2, <1>3, <1>12, <2>1 DEF Range
<1>15. ASSUME NEW n \in Nat, Missed(v, n) PROVE Missed(v, n)'
    BY <1>1, <1>15 DEF Missed
<1>16. \A n \in Range(log) : <<v, n>> \in Range(shown') \/ Missed(v, n)'
  <2> TAKE n \in Range(log)
  <2>1. CASE n < since
    BY <1>3, <1>5, <1>14, <1>15, <2>1 DEF Given, log
  <2> QED BY <1>13, <2>1
<1>17. Reached'
    BY <1>1, <1>3, <1>5 DEF Reached
<1>18. Numbered'
  <2> SUFFICES ASSUME NEW i \in 1 .. Len(shown') PROVE shown'[i][2] < next[shown'[i][1]]
    BY <1>1 DEF Numbered
  <2>1. CASE i \in 1 .. Len(shown) /\ shown'[i] = shown[i]
    BY <2>1 DEF LogInv, Numbered
  <2> QED BY <1>9, <1>11, <2>1
<1>19. Below(slot)'
  <2> SUFFICES ASSUME NEW i \in 1 .. Len(shown')
               PROVE  /\ shown'[i][1] <= slot
                      /\ shown'[i][1] = slot => shown'[i][2] < next[v]
    BY <1>1 DEF Below
  <2>1. shown'[i][1] \in Nat /\ shown'[i][1] <= v
    <3>1. CASE i \in 1 .. Len(shown) /\ shown'[i] = shown[i]
      BY <1>3, <1>5, <3>1 DEF Below
    <3>2. CASE shown'[i][1] = v
      BY <1>3, <3>2
    <3> QED BY <1>11, <3>1, <3>2
  <2>2. shown'[i][2] < next[shown'[i][1]]
    BY <1>1, <1>18 DEF Numbered
  <2>3. v \in Nat /\ slot \in Nat
    BY <1>3
  <2>4. shown'[i][1] = slot => shown'[i][1] = v
    BY <1>5, <2>1, <2>3
  <2> QED BY <1>5, <2>1, <2>2, <2>3, <2>4
<1>20. Given(slot)'
  <2>1. CASE v = slot
    <3>1. \A n \in Range(lines[slot]) : <<slot, n>> \in Range(shown') \/ Missed(slot, n)'
      BY <1>1, <1>16, <2>1 DEF log, Missed
    <3>2. pushing[slot] # None => Missed(slot, pushing[slot])'
      BY <1>1, <2>1 DEF Missed
    <3> QED BY <1>1, <3>1, <3>2 DEF Given
  <2>2. CASE v # slot
    <3>1. v < slot
      BY <1>3, <1>5, <2>2
    <3>2. \A n : n < next[v] => Missed(slot, n)'
      BY <1>1, <1>3, <3>1 DEF Missed
    <3> QED BY <1>1, <3>2 DEF Given
  <2> QED BY <2>1, <2>2
<1>21. Followed'
    BY <1>1, <1>4, <1>19, <1>20 DEF Followed
<1>22. ShownInOrder'
  <2> SUFFICES ASSUME NEW i \in 1 .. Len(shown'), NEW k \in 1 .. Len(shown'),
                      i < k, shown'[i][1] = shown'[k][1]
               PROVE  shown'[i][2] < shown'[k][2]
    BY <1>12 DEF ShownInOrder
  <2>1. CASE k \in 1 .. Len(shown) /\ shown'[k] = shown[k]
    <3>1. i \in 1 .. Len(shown)
      BY <1>3, <2>1
    <3>2. shown'[i] = shown[i]
      BY <1>2, <3>1
    <3> QED BY <1>3, <2>1, <3>1, <3>2 DEF LogInv, ShownInOrder
  <2>2. CASE \E m \in 1 .. Len(log) : /\ m > d /\ k = Len(shown) + (m - d)
                                      /\ shown'[k][1] = v /\ shown'[k][2] = log[m]
    <3>1. PICK m \in 1 .. Len(log) : /\ m > d /\ k = Len(shown) + (m - d)
                                     /\ shown'[k][1] = v /\ shown'[k][2] = log[m]
      BY <2>2
    <3>2. CASE i \in 1 .. Len(shown) /\ shown'[i] = shown[i]
      <4>1. shown[i][2] < since /\ shown[i][2] \in Nat
        BY <1>3, <1>5, <3>1, <3>2 DEF Below
      <4>2. log[m] >= since /\ log[m] \in Nat
        BY <1>2, <1>9, <3>1
      <4> QED BY <1>3, <3>1, <3>2, <4>1, <4>2
    <3>3. CASE \E l \in 1 .. Len(log) : /\ l > d /\ i = Len(shown) + (l - d)
                                        /\ shown'[i][1] = v /\ shown'[i][2] = log[l]
      <4>1. PICK l \in 1 .. Len(log) : i = Len(shown) + (l - d) /\ shown'[i][2] = log[l]
        BY <3>3
      <4>2. l < m
        BY <1>2, <1>3, <3>1, <4>1
      <4> QED BY <1>9, <3>1, <4>1, <4>2
    <3> QED BY <1>11, <3>2, <3>3
  <2> QED BY <1>11, <2>1, <2>2
<1>23. Stopped'
  <2> SUFFICES ASSUME done' # None PROVE v <= slot /\ ~running[v] /\ EndIsShown'
    BY <1>1 DEF Stopped
  <2>1. done' = v /\ ~viewing.running
    BY <1>1
  <2>2. \A n \in Range(lines'[v]) :
            \/ <<v, n>> \in Range(shown')
            \/ <<v, n>> \in skipped'
            \/ \E k \in Jobs : k < v /\ n < next'[k]
    BY <1>1, <1>16 DEF log, Missed
  <2> QED BY <1>5, <2>1, <2>2 DEF EndIsShown
<1> QED BY <1>6, <1>7, <1>8, <1>17, <1>18, <1>21, <1>22, <1>23 DEF LogInv

\* JobLog's invariant holds in every state of every behaviour.
LEMMA LogInvariant == JobLogSpec => []LogInv
<1>1. JobLogInit => LogInv
  <2> SUFFICES ASSUME JobLogInit PROVE LogInv
    OBVIOUS
  <2>1. /\ slot = 1 /\ 1 \in Jobs /\ Jobs \subseteq Nat /\ MaxNumbered \in Nat
        /\ running = [j \in Jobs |-> j = 1] /\ next = [j \in Jobs |-> 0]
        /\ lines = [j \in Jobs |-> <<>>] /\ pushing = [j \in Jobs |-> None]
        /\ viewing = NoView /\ since = 0 /\ shown = <<>> /\ done = None
    BY JobLogAssumption DEF JobLogInit, Jobs
  <2>2. viewing.job = None /\ viewing \in [job : Jobs \cup {None}, running : BOOLEAN]
    BY <2>1 DEF NoView
  <2>3. Len(shown) = 0 /\ Len(<<>>) = 0 /\ DOMAIN shown = {} /\ Range(<<>>) = {}
    BY <2>1 DEF Range
  <2>4. JobLogTypeOK
    BY <2>1, <2>2 DEF JobLogTypeOK
  <2>5. Turn /\ Consecutive
    <3>1. \A j \in Jobs : pushing[j] = None /\ next[j] = 0 /\ lines[j] = <<>>
      BY <2>1
    <3>2. \A j \in Jobs : Stored(j) = 0
      BY <3>1 DEF Stored
    <3>3. Turn
      BY <2>1, <3>1 DEF Turn
    <3>4. \A j \in Jobs : Len(lines[j]) = 0
      BY <2>3, <3>1
    <3>5. Consecutive
      BY <3>2, <3>4 DEF Consecutive
    <3> QED BY <3>3, <3>5
  <2>6. Reading /\ Reached /\ Numbered /\ ShownInOrder /\ Stopped
    BY <2>1, <2>2, <2>3 DEF Reading, Reached, Numbered, ShownInOrder, Stopped
  <2>7. Followed
    BY <2>1, <2>2, <2>3 DEF Followed, Below, Given
  <2> QED BY <2>4, <2>5, <2>6, <2>7 DEF LogInv
<1>2. LogInv /\ [JobLogNext]_jobLog => LogInv'
    BY BeginStep, NumberStep, StoreStep, FinishStep, ReadStep, ViewStep DEF JobLogNext, Step
<1> QED BY <1>1, <1>2, PTL DEF JobLogSpec

\* The slot of JobSlot::begin runs one job at a time: a job begins only over
\* one that has ended, and no job but the slot's ever runs.
THEOREM OneJobRuns == JobLogSpec => []OneAtATime
<1>1. LogInv => OneAtATime
    BY DEF LogInv, Turn, OneAtATime
<1> QED BY <1>1, LogInvariant, PTL

\* The page's lines come in order and none twice, however view cuts between
\* the number a push takes and the line it stores, and whatever was trimmed.
THEOREM LinesComeInOrder == JobLogSpec => []ShownInOrder
<1>1. LogInv => ShownInOrder
    BY DEF LogInv
<1> QED BY <1>1, LogInvariant, PTL

\* A page that was told the end has the log's end: view reads the state before
\* the lines, so that an end it reports is of a log that has no line to come.
THEOREM EndComes == JobLogSpec => []EndIsShown
<1>1. LogInv => EndIsShown
    BY DEF LogInv, Stopped, EndIsShown
<1> QED BY <1>1, LogInvariant, PTL
=============================================================================
