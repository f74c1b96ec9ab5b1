------------------------ MODULE TerminalStreamProofs ------------------------
(***************************************************************************)
(* That a terminal's output never skips, never repeats and is resumed      *)
(* without a silent hole, for any number of clients, connections, link     *)
(* drops and bytes, any chunk, queue and scrollback.                       *)
(*                                                                         *)
(* A byte passes through three places between the scrollback and a screen: *)
(* the queue of the attachment, the wire, and the renderer's writes that   *)
(* are not through.  The invariant says of each that its frames follow one *)
(* another without a gap (Flow) and joins the three: the wire goes on      *)
(* where the client's screen ends, the queue where the wire ends, and the  *)
(* queue of an attachment that is not withheld ends where the scrollback   *)
(* does (Stream).  Drawing does the same for what is received and what is  *)
(* counted.  The two meet when a client reattaches: the position it asks   *)
(* for is at or before the end of its screen.                              *)
(*                                                                         *)
(* Two facts of the attachment itself need no more than types: what is     *)
(* withheld from a client is announced to it, and the newest connection is *)
(* the attached one.                                                       *)
(***************************************************************************)
EXTENDS TerminalStream, TLAPS

\* Frames that go on from the frame before them.
Follows == {"data", "truncated"}

\* The frames of s go on from position at, one from the other.
Flow(s, at) ==
    /\ s # <<>> /\ s[1].kind \in Follows => s[1].from = at
    /\ \A i \in 1 .. Len(s) - 1 : s[i + 1].kind \in Follows => s[i + 1].from = s[i].to

\* The position after s, which starts at a position.
Reach(s, at) == IF s = <<>> THEN at ELSE s[Len(s)].to

\* Frames are intervals of what the shell wrote before n.
Sound(s, n) ==
    \A i \in 1 .. Len(s) :
        /\ s[i].from <= s[i].to /\ s[i].to <= n
        /\ s[i].kind # "data" => s[i].from = s[i].to

OfKinds(s, kinds) == \A i \in 1 .. Len(s) : s[i].kind \in kinds

\* Only the first frame is a `ready`.
Late(s) == \A i \in 2 .. Len(s) : s[i].kind # "ready"

\* A `ready` at the head resumes a screen that ends at a position, or is
\* followed by the notice that output was lost.
Resumes(s, at, exactly) ==
    s # <<>> /\ s[1].kind = "ready" =>
        \/ s[1].from <= at /\ (exactly => s[1].from = at)
        \/ Len(s) > 1 /\ s[2].kind = "truncated"

\* What the agent tells a client when its stream ends.
Terminals == {"exit", "revoked", "replay", "superseded"}
Told(s) == \E i \in 1 .. Len(s) : s[i].kind \in Terminals

-----------------------------------------------------------------------------
\* A connection has one client, from its first frame until either gives it up.
Linked ==
    /\ \A k, l \in Clients : sock[k] = sock[l] /\ sock[k] # NoConn => k = l
    /\ \A k \in Clients :
        sock[k] # NoConn =>
            phase[sock[k]] \in {"idle", "opening", "running"} /\ sock[k] \notin bye
    /\ \A c \in Conns : ~Reading(c) => wire[c] = <<>>

\* A connection is attached once, after its attach frame and before its pump.
Staged ==
    \A c \in Conns :
        /\ phase[c] = "unused" => step[c] = "none" /\ pump[c] = "none" /\ c \notin bye
        /\ step[c] = "may" => phase[c] \in {"opening", "done"}
        /\ step[c] # "none" => pump[c] = "none"
        /\ pump[c] # "on" => queue[c] = <<>>

\* What may be on the wire before, while and after the pump runs.
Allowed(p) ==
    CASE p = "none" -> {"gone", "forbidden"}
      [] p = "on" -> {"ready", "truncated", "data"}
      [] p = "off" -> {"ready", "truncated", "data"} \cup Terminals

\* What is on its way to client k on connection c.
Arriving(k, c) ==
    /\ Flow(wire[c], received[k]) /\ Sound(wire[c], nextSeq) /\ Late(wire[c])
    /\ Resumes(wire[c], received[k], k \in Apps)
    /\ OfKinds(wire[c], Allowed(pump[c]))
    /\ step[c] # "none" =>
        /\ wire[c] = <<>> /\ since[c] <= received[k]
        /\ k \in Apps => since[c] = received[k]
    /\ pump[c] = "off" => Told(wire[c])

\* What is queued for it.
Queued(k, c) ==
    LET tip == Reach(wire[c], received[k]) IN
    pump[c] = "on" =>
        /\ Flow(queue[c], tip) /\ Sound(queue[c], nextSeq)
        /\ current = c /\ ~lagging => Reach(queue[c], tip) = nextSeq

Stream == \A k \in Clients : \A c \in Conns : sock[k] = c => Arriving(k, c) /\ Queued(k, c)

\* Client k has not had the `ready` of its connection.
Fresh(k, c) ==
    sock[k] = c /\ (pump[c] = "none" \/ (wire[c] # <<>> /\ wire[c][1].kind = "ready"))

Counted(k) ==
    /\ rendered[k] <= received[k] /\ received[k] <= nextSeq
    /\ Flow(drawing[k], rendered[k]) /\ Sound(drawing[k], received[k])
    /\ OfKinds(drawing[k], {"data"})
    /\ k \in Apps => drawing[k] = <<>>
    /\ \A c \in Conns : Fresh(k, c) => drawing[k] = <<>>
    /\ (k \in Apps \/ drawing[k] # <<>> \/ \E c \in Conns : sock[k] = c /\ ~Fresh(k, c)) =>
            Reach(drawing[k], rendered[k]) = received[k]

Drawing == \A k \in Clients : Counted(k)

IInv == TypeOK /\ Linked /\ Staged /\ Stream /\ Drawing

-----------------------------------------------------------------------------
(***************************************************************************)
(* Sequences of frames.                                                    *)
(***************************************************************************)

\* What is queued can go on the wire.
LEMMA OutputIsFrame ==
    /\ \A e \in Output : e \in WireFrame
    /\ \A s \in Seq(Output) : s \in Seq(WireFrame)
<1>1. \A e \in Output : e \in WireFrame
    BY DEF Output, WireFrame, FrameKinds
<1>2. Output \subseteq WireFrame
    BY <1>1
<1> QED BY <1>1, <1>2

\* What a frame on the wire is made of.
LEMMA FrameType ==
    ASSUME NEW e \in WireFrame
    PROVE  e.from \in Nat /\ e.to \in Nat /\ e.kind \in FrameKinds
  BY DEF WireFrame

\* A control frame, and a frame of bytes.
LEMMA FrameIs ==
    ASSUME NEW kind \in FrameKinds, NEW from \in Nat, NEW to \in Nat
    PROVE  /\ Frame(kind, from, to) \in WireFrame
           /\ kind \in Kinds => Frame(kind, from, to) \in Output
           /\ Frame(kind, from, to).kind = kind
           /\ Frame(kind, from, to).from = from /\ Frame(kind, from, to).to = to
           /\ Control(kind, from) = Frame(kind, from, from)
  BY DEF Frame, Control, WireFrame, Output

\* A sequence with one more element.
LEMMA AppendIs ==
    ASSUME NEW S, NEW s \in Seq(S), NEW e \in S
    PROVE  /\ Append(s, e) \in Seq(S) /\ s \o <<e>> = Append(s, e)
           /\ Len(Append(s, e)) = Len(s) + 1 /\ Append(s, e) # <<>>
           /\ Append(s, e)[Len(s) + 1] = e
           /\ \A i \in 1 .. Len(s) : Append(s, e)[i] = s[i]
           /\ Len(s) \in Nat /\ (s = <<>> <=> Len(s) = 0)
<1>1. /\ Append(s, e) \in Seq(S) /\ Len(Append(s, e)) = Len(s) + 1
      /\ Append(s, e)[Len(s) + 1] = e
      /\ \A i \in 1 .. Len(s) : Append(s, e)[i] = s[i]
      /\ Len(s) \in Nat /\ (s = <<>> <=> Len(s) = 0)
    OBVIOUS
<1>2. Append(s, e) # <<>>
    BY <1>1
<1>3. s \o <<e>> = Append(s, e)
    OBVIOUS
<1> QED BY <1>1, <1>2, <1>3

\* The first element, of a sequence that had one or had none.
LEMMA AppendFirst ==
    ASSUME NEW S, NEW s \in Seq(S), NEW e \in S
    PROVE  /\ s # <<>> => Append(s, e)[1] = s[1]
           /\ s = <<>> => Append(s, e)[1] = e
<1>1. /\ Append(s, e)[Len(s) + 1] = e
      /\ \A i \in 1 .. Len(s) : Append(s, e)[i] = s[i]
      /\ Len(s) \in Nat /\ (s = <<>> <=> Len(s) = 0)
    BY AppendIs
<1>2. s # <<>> => 1 \in 1 .. Len(s)
    BY <1>1
<1>3. s = <<>> => Len(s) + 1 = 1
    BY <1>1
<1> QED BY <1>1, <1>2, <1>3

\* A sequence without its first element.
LEMMA TailIs ==
    ASSUME NEW S, NEW s \in Seq(S), s # <<>>
    PROVE  /\ Tail(s) \in Seq(S) /\ Head(s) = s[1] /\ Head(s) \in S
           /\ Len(Tail(s)) = Len(s) - 1 /\ Len(s) \in Nat /\ Len(s) > 0
           /\ \A i \in 1 .. Len(s) - 1 : Tail(s)[i] = s[i + 1]
           /\ Tail(s) = <<>> <=> Len(s) = 1
<1>1. Len(s) \in Nat /\ Len(s) > 0 /\ Head(s) = s[1] /\ Head(s) \in S
    OBVIOUS
<1>2. Tail(s) \in Seq(S) /\ Len(Tail(s)) = Len(s) - 1
    OBVIOUS
<1>3. \A i \in 1 .. Len(s) - 1 : Tail(s)[i] = s[i + 1]
    BY <1>1
<1>4. Tail(s) = <<>> <=> Len(s) = 1
    BY <1>1, <1>2
<1> QED BY <1>1, <1>2, <1>3, <1>4

\* A frame is added where the frames before it end.
LEMMA FlowAppend ==
    ASSUME NEW s \in Seq(WireFrame), NEW at, NEW e \in WireFrame,
           Flow(s, at), e.kind \in Follows => e.from = Reach(s, at)
    PROVE  Flow(Append(s, e), at) /\ Reach(Append(s, e), at) = e.to
<1> DEFINE t == Append(s, e)
<1>1. /\ Len(t) = Len(s) + 1 /\ t # <<>> /\ t[Len(s) + 1] = e
      /\ \A i \in 1 .. Len(s) : t[i] = s[i]
      /\ Len(s) \in Nat /\ (s = <<>> <=> Len(s) = 0)
    BY AppendIs
<1> HIDE DEF t
<1>2. Reach(t, at) = e.to
    BY <1>1 DEF Reach
<1>3. t[1].kind \in Follows => t[1].from = at
    BY <1>1 DEF Flow, Reach
<1>4. ASSUME NEW i \in 1 .. Len(t) - 1, t[i + 1].kind \in Follows
      PROVE  t[i + 1].from = t[i].to
  <2>1. CASE i = Len(s)
    BY <1>1, <1>4, <2>1 DEF Reach
  <2>2. CASE i # Len(s)
    <3>1. i \in 1 .. Len(s) - 1 /\ t[i] = s[i] /\ t[i + 1] = s[i + 1]
      BY <1>1, <1>4, <2>2
    <3> QED BY <1>4, <3>1 DEF Flow
  <2> QED BY <2>1, <2>2
<1>5. Flow(t, at)
    BY <1>3, <1>4 DEF Flow
<1> QED BY <1>2, <1>5 DEF t

\* The first is taken away.
LEMMA FlowTail ==
    ASSUME NEW s \in Seq(WireFrame), NEW at, s # <<>>, Flow(s, at)
    PROVE  /\ Flow(Tail(s), Head(s).to) /\ Reach(Tail(s), Head(s).to) = Reach(s, at)
           /\ Head(s).kind \in Follows => Head(s).from = at
<1> DEFINE t == Tail(s)
<1>1. /\ Head(s) = s[1] /\ Len(t) = Len(s) - 1 /\ Len(s) \in Nat /\ Len(s) > 0
      /\ \A i \in 1 .. Len(s) - 1 : t[i] = s[i + 1]
      /\ t = <<>> <=> Len(s) = 1
    BY TailIs
<1> HIDE DEF t
<1>2. Reach(t, Head(s).to) = Reach(s, at)
  <2>1. CASE t = <<>>
    BY <1>1, <2>1 DEF Reach
  <2>2. CASE t # <<>>
    <3>1. t[Len(t)] = s[Len(s)]
      BY <1>1, <2>2
    <3> QED BY <2>2, <3>1 DEF Reach
  <2> QED BY <2>1, <2>2
<1>3. t # <<>> /\ t[1].kind \in Follows => t[1].from = Head(s).to
    BY <1>1 DEF Flow
<1>4. ASSUME NEW i \in 1 .. Len(t) - 1, t[i + 1].kind \in Follows
      PROVE  t[i + 1].from = t[i].to
  <2>1. i + 1 \in 1 .. Len(s) - 1 /\ t[i] = s[i + 1] /\ t[i + 1] = s[(i + 1) + 1]
    BY <1>1, <1>4
  <2> QED BY <1>4, <2>1 DEF Flow
<1>5. Flow(t, Head(s).to)
    BY <1>3, <1>4 DEF Flow
<1>6. Head(s).kind \in Follows => Head(s).from = at
    BY <1>1 DEF Flow
<1> QED BY <1>2, <1>5, <1>6 DEF t

\* No frames, and frames that carry no position of the stream.
LEMMA FlowTrivial ==
    /\ \A at : Flow(<<>>, at) /\ Reach(<<>>, at) = at
    /\ \A s \in Seq(WireFrame) : OfKinds(s, {"gone", "forbidden"}) => \A at : Flow(s, at)
<1>1. \A at : Flow(<<>>, at) /\ Reach(<<>>, at) = at
    BY DEF Flow, Reach
<1>2. ASSUME NEW s \in Seq(WireFrame), OfKinds(s, {"gone", "forbidden"}), NEW at
      PROVE  Flow(s, at)
    BY <1>2 DEF Flow, OfKinds, Follows
<1> QED BY <1>1, <1>2

\* No frames.
LEMMA EmptyIs ==
    /\ \A n : Sound(<<>>, n)
    /\ \A kinds : OfKinds(<<>>, kinds)
    /\ Late(<<>>) /\ \A at, exactly : Resumes(<<>>, at, exactly)
  BY DEF Sound, OfKinds, Late, Resumes

\* What holds of each frame holds when one is added or taken away.
LEMMA SoundAppend ==
    ASSUME NEW s \in Seq(WireFrame), NEW e \in WireFrame, NEW n,
           Sound(s, n), e.from <= e.to, e.to <= n, e.kind # "data" => e.from = e.to
    PROVE  Sound(Append(s, e), n)
<1>1. \A i \in 1 .. Len(Append(s, e)) :
        (i \in 1 .. Len(s) /\ Append(s, e)[i] = s[i]) \/ Append(s, e)[i] = e
    BY AppendIs
<1> QED BY <1>1 DEF Sound

\* The first of sound frames is sound, and so is the rest.
LEMMA SoundTail ==
    ASSUME NEW s \in Seq(WireFrame), s # <<>>, NEW n, Sound(s, n)
    PROVE  /\ Sound(Tail(s), n)
           /\ Head(s).from <= Head(s).to /\ Head(s).to <= n
           /\ Head(s).kind # "data" => Head(s).from = Head(s).to
<1>1. \A i \in 1 .. Len(Tail(s)) : i + 1 \in 1 .. Len(s) /\ Tail(s)[i] = s[i + 1]
    BY TailIs
<1>2. Head(s) = s[1] /\ 1 \in 1 .. Len(s)
    BY TailIs
<1> QED BY <1>1, <1>2 DEF Sound

\* What lies before n lies before any later position.
LEMMA SoundGrows ==
    ASSUME NEW s \in Seq(WireFrame), NEW n \in Nat, NEW m \in Nat, n <= m, Sound(s, n)
    PROVE  Sound(s, m)
<1>1. \A i \in 1 .. Len(s) : s[i] \in WireFrame
    OBVIOUS
<1>2. \A i \in 1 .. Len(s) : s[i].to \in Nat
    BY <1>1, FrameType
<1> QED BY <1>2 DEF Sound

\* Kinds of frames, with one more.
LEMMA KindsAppend ==
    ASSUME NEW s \in Seq(WireFrame), NEW e \in WireFrame
    PROVE  /\ \A kinds : OfKinds(s, kinds) /\ e.kind \in kinds => OfKinds(Append(s, e), kinds)
           /\ Late(s) /\ e.kind # "ready" => Late(Append(s, e))
           /\ Told(s) \/ e.kind \in Terminals => Told(Append(s, e))
<1>1. /\ Len(Append(s, e)) = Len(s) + 1 /\ Append(s, e)[Len(s) + 1] = e
      /\ \A i \in 1 .. Len(s) : Append(s, e)[i] = s[i]
      /\ Len(s) \in Nat
    BY AppendIs
<1>2. \A i \in 1 .. Len(Append(s, e)) :
        (i \in 1 .. Len(s) /\ Append(s, e)[i] = s[i]) \/ Append(s, e)[i] = e
    BY <1>1
<1>3. \A kinds : OfKinds(s, kinds) /\ e.kind \in kinds => OfKinds(Append(s, e), kinds)
    BY <1>2 DEF OfKinds
<1>4. Late(s) /\ e.kind # "ready" => Late(Append(s, e))
    BY <1>1, <1>2 DEF Late
<1>5. Told(s) \/ e.kind \in Terminals => Told(Append(s, e))
  <2>1. CASE Told(s)
    BY <1>1, <2>1 DEF Told
  <2>2. CASE e.kind \in Terminals
    BY <1>1, <2>2 DEF Told
  <2> QED BY <2>1, <2>2
<1> QED BY <1>3, <1>4, <1>5

\* Kinds of frames, without the first.
LEMMA KindsTail ==
    ASSUME NEW s \in Seq(WireFrame), s # <<>>
    PROVE  /\ \A kinds : OfKinds(s, kinds) => OfKinds(Tail(s), kinds) /\ Head(s).kind \in kinds
           /\ Late(s) => Late(Tail(s)) /\ (Tail(s) # <<>> => Tail(s)[1].kind # "ready")
           /\ Told(s) /\ Head(s).kind \notin Terminals => Told(Tail(s))
<1>1. \A i \in 1 .. Len(Tail(s)) : i + 1 \in 1 .. Len(s) /\ Tail(s)[i] = s[i + 1]
    BY TailIs
<1>2. Head(s) = s[1] /\ 1 \in 1 .. Len(s) /\ Len(s) \in Nat /\ Len(Tail(s)) = Len(s) - 1
    BY TailIs
<1>3. \A kinds : OfKinds(s, kinds) => OfKinds(Tail(s), kinds) /\ Head(s).kind \in kinds
    BY <1>1, <1>2 DEF OfKinds
<1>4. Late(s) => Late(Tail(s)) /\ (Tail(s) # <<>> => Tail(s)[1].kind # "ready")
  <2> SUFFICES ASSUME Late(s) PROVE \A i \in 1 .. Len(Tail(s)) : Tail(s)[i].kind # "ready"
    BY <1>2, TailIs DEF Late
  <2> QED BY <1>1, <1>2 DEF Late
<1>5. ASSUME Told(s), Head(s).kind \notin Terminals PROVE Told(Tail(s))
  <2>1. PICK i \in 1 .. Len(s) : s[i].kind \in Terminals
    BY <1>5 DEF Told
  <2>2. i - 1 \in 1 .. Len(Tail(s)) /\ Tail(s)[i - 1] = s[i]
    BY <1>2, <1>5, <2>1, TailIs
  <2> QED BY <2>1, <2>2 DEF Told
<1> QED BY <1>3, <1>4, <1>5

\* A resumption that is not seen yet stays as it is.
LEMMA ResumesAppend ==
    ASSUME NEW s \in Seq(WireFrame), NEW e \in WireFrame, NEW at, NEW exactly,
           Resumes(s, at, exactly), e.kind # "ready"
    PROVE  Resumes(Append(s, e), at, exactly)
<1>1. /\ Len(Append(s, e)) = Len(s) + 1 /\ Append(s, e)[Len(s) + 1] = e
      /\ \A i \in 1 .. Len(s) : Append(s, e)[i] = s[i]
      /\ Len(s) \in Nat /\ (s = <<>> <=> Len(s) = 0)
    BY AppendIs
<1>2. CASE s = <<>>
    BY <1>1, <1>2 DEF Resumes
<1>3. CASE s # <<>>
    BY <1>1, <1>3 DEF Resumes
<1> QED BY <1>2, <1>3

-----------------------------------------------------------------------------
\* The frames of a stream that reaches the end of the scrollback, from a
\* `ready` on.
Streams(s) ==
    /\ s \in Seq(WireFrame) /\ s # <<>> /\ s[1].kind = "ready"
    /\ \A x : Flow(s, x)
    /\ Sound(s, nextSeq) /\ Late(s) /\ OfKinds(s, {"ready", "truncated", "data"})

\* The bytes from a position on end where the scrollback does.
LEMMA PayloadIs ==
    ASSUME nextSeq \in Nat, NEW s, Streams(s), NEW at \in Nat, at <= nextSeq,
           \A x : Reach(s, x) = at
    PROVE  /\ Streams(s \o Payload(at)) /\ \A x : Reach(s \o Payload(at), x) = nextSeq
           /\ (s \o Payload(at))[1] = s[1]
           /\ Len(s) > 1 => Len(s \o Payload(at)) > 1 /\ (s \o Payload(at))[2] = s[2]
<1>1. CASE at >= nextSeq
  <2>1. Payload(at) = <<>> /\ at = nextSeq
    BY <1>1 DEF Payload
  <2>2. s \o Payload(at) = s
    BY <2>1 DEF Streams
  <2> QED BY <2>1, <2>2
<1>2. CASE ~(at >= nextSeq)
  <2>1. PICK e : e = Frame("data", at, nextSeq)
    OBVIOUS
  <2>2. e \in WireFrame /\ e.kind = "data" /\ e.from = at /\ e.to = nextSeq
    BY <2>1, FrameIs DEF FrameKinds, Kinds
  <2>3. s \o Payload(at) = Append(s, e)
    BY <1>2, <2>1, <2>2, AppendIs DEF Payload, Streams
  <2>4. \A x : Flow(Append(s, e), x) /\ Reach(Append(s, e), x) = nextSeq
    BY <2>2, FlowAppend DEF Streams
  <2>5. Sound(Append(s, e), nextSeq)
    BY <2>2, SoundAppend DEF Streams
  <2>6. Late(Append(s, e)) /\ OfKinds(Append(s, e), {"ready", "truncated", "data"})
    BY <2>2, KindsAppend DEF Streams
  <2>7. /\ Append(s, e) \in Seq(WireFrame) /\ Append(s, e) # <<>>
        /\ Append(s, e)[1] = s[1]
        /\ Len(s) > 1 => Len(Append(s, e)) > 1 /\ Append(s, e)[2] = s[2]
    BY <2>2, AppendIs DEF Streams
  <2> QED BY <2>3, <2>4, <2>5, <2>6, <2>7 DEF Streams
<1> QED BY <1>1, <1>2

\* One frame.
LEMMA ReadyIs ==
    ASSUME nextSeq \in Nat, NEW at \in Nat, at <= nextSeq
    PROVE  /\ Streams(<<Control("ready", at)>>)
           /\ \A x : Reach(<<Control("ready", at)>>, x) = at
           /\ <<Control("ready", at)>>[1].from = at
<1>1. PICK e : e = Control("ready", at)
    OBVIOUS
<1>2. e \in WireFrame /\ e.kind = "ready" /\ e.from = at /\ e.to = at
    BY <1>1, FrameIs DEF FrameKinds, Kinds
<1>3. <<e>> \in Seq(WireFrame) /\ <<e>> # <<>> /\ Len(<<e>>) = 1 /\ <<e>>[1] = e
    BY <1>2
<1>4. \A x : Flow(<<e>>, x) /\ Reach(<<e>>, x) = at
    BY <1>2, <1>3 DEF Flow, Reach, Follows
<1>5. Sound(<<e>>, nextSeq) /\ Late(<<e>>) /\ OfKinds(<<e>>, {"ready", "truncated", "data"})
    BY <1>2, <1>3 DEF Sound, Late, OfKinds
<1> QED BY <1>1, <1>2, <1>3, <1>4, <1>5 DEF Streams

\* Scrollback::replay_from: a stream that reaches the end, from the position
\* asked for, or with the notice that it is not.
LEMMA ReplayIs ==
    ASSUME nextSeq \in Nat, NEW at \in Nat, at <= nextSeq
    PROVE  /\ Streams(Replay(at)) /\ \A x : Reach(Replay(at), x) = nextSeq
           /\ \A y \in Nat, exactly \in BOOLEAN : at <= y /\ (exactly => at = y) =>
                                        Resumes(Replay(at), y, exactly)
<1>0. StartSeq \in Nat /\ StartSeq <= nextSeq
    BY StreamAssumption DEF StartSeq
<1>1. CASE at < StartSeq
  <2>1. PICK d, e : d = Control("ready", StartSeq) /\ e = Control("truncated", StartSeq)
    OBVIOUS
  <2>2. d \in WireFrame /\ d.kind = "ready" /\ d.from = StartSeq /\ d.to = StartSeq
    BY <1>0, <2>1, FrameIs DEF FrameKinds
  <2>3. e \in WireFrame /\ e.kind = "truncated" /\ e.from = StartSeq /\ e.to = StartSeq
    BY <1>0, <2>1, FrameIs DEF FrameKinds
  <2>4. PICK t : t = <<d, e>>
    OBVIOUS
  <2>5. t \in Seq(WireFrame) /\ t # <<>> /\ Len(t) = 2 /\ t[1] = d /\ t[2] = e
    BY <2>2, <2>3, <2>4
  <2>6. \A x : Flow(t, x) /\ Reach(t, x) = StartSeq
    BY <2>2, <2>3, <2>5 DEF Flow, Reach, Follows
  <2>7. Sound(t, nextSeq) /\ Late(t) /\ OfKinds(t, {"ready", "truncated", "data"})
    BY <1>0, <2>2, <2>3, <2>5 DEF Sound, Late, OfKinds
  <2>8. Streams(t)
    BY <2>2, <2>5, <2>6, <2>7 DEF Streams
  <2>9. Replay(at) = t \o Payload(StartSeq)
    BY <1>1, <2>1, <2>4, Zenon DEF Replay
  <2>10. /\ Streams(Replay(at)) /\ \A x : Reach(Replay(at), x) = nextSeq
         /\ Len(Replay(at)) > 1 /\ Replay(at)[2].kind = "truncated"
    <3>1. /\ Streams(t \o Payload(StartSeq))
          /\ \A x : Reach(t \o Payload(StartSeq), x) = nextSeq
          /\ Len(t \o Payload(StartSeq)) > 1 /\ (t \o Payload(StartSeq))[2] = t[2]
      <4>1. (\A x : Reach(t, x) = StartSeq) /\ Len(t) > 1
        BY <2>5, <2>6
      <4> QED BY <1>0, <2>8, <4>1, PayloadIs
    <3> QED BY <2>3, <2>5, <2>9, <3>1, Zenon
  <2> QED BY <2>10 DEF Resumes
<1>2. CASE ~(at < StartSeq)
  <2>1. PICK s : s = <<Control("ready", at)>>
    OBVIOUS
  <2>2. Streams(s) /\ (\A x : Reach(s, x) = at) /\ s[1].from = at
    BY <2>1, ReadyIs
  <2>3. Replay(at) = s \o Payload(at)
    BY <1>2, <2>1, Zenon DEF Replay
  <2>4. /\ Streams(Replay(at)) /\ \A x : Reach(Replay(at), x) = nextSeq
        /\ Replay(at)[1].from = at
    <3>1. /\ Streams(s \o Payload(at)) /\ \A x : Reach(s \o Payload(at), x) = nextSeq
          /\ (s \o Payload(at))[1] = s[1]
      BY <2>2, PayloadIs
    <3> QED BY <2>2, <2>3, <3>1, Zenon
  <2> QED BY <2>4 DEF Resumes
<1> QED BY <1>1, <1>2

-----------------------------------------------------------------------------
(***************************************************************************)
(* What a step leaves alone.                                               *)
(***************************************************************************)

\* The state of connection c, and of client k, as far as output goes.
SameConn(c) ==
    /\ wire'[c] = wire[c] /\ queue'[c] = queue[c] /\ pump'[c] = pump[c]
    /\ step'[c] = step[c] /\ since'[c] = since[c]
SameClient(k) ==
    /\ sock'[k] = sock[k] /\ rendered'[k] = rendered[k] /\ received'[k] = received[k]
    /\ drawing'[k] = drawing[k]

\* The scrollback may grow, as long as nobody follows it live without it.
LEMMA ConnStays ==
    ASSUME TypeOK, nextSeq' \in Nat, nextSeq <= nextSeq', NEW k \in Clients, NEW c \in Conns,
           SameConn(c), received'[k] = received[k],
           current' = c /\ ~lagging' => current = c /\ ~lagging /\ nextSeq' = nextSeq,
           Arriving(k, c), Queued(k, c)
    PROVE  Arriving(k, c)' /\ Queued(k, c)'
<1>1. wire[c] \in Seq(WireFrame) /\ queue[c] \in Seq(WireFrame) /\ nextSeq \in Nat
    BY OutputIsFrame DEF TypeOK
<1>2. Sound(wire[c], nextSeq)' /\ (Sound(queue[c], nextSeq) => Sound(queue[c], nextSeq)')
    BY <1>1, SoundGrows DEF SameConn, Arriving, Sound
<1>3. Arriving(k, c)'
    BY <1>2 DEF Arriving, SameConn, Flow, Late, Resumes, OfKinds, Told
<1>4. Queued(k, c)'
    BY <1>2 DEF Queued, SameConn, Flow, Reach
<1> QED BY <1>3, <1>4

\* A client whose connection does not change what it waits for.
LEMMA CountedStays ==
    ASSUME TypeOK, nextSeq' \in Nat, nextSeq <= nextSeq', NEW k \in Clients,
           SameClient(k), Counted(k),
           \A c \in Conns : sock[k] = c => (Fresh(k, c)' <=> Fresh(k, c))
    PROVE  Counted(k)'
<1>1. received[k] \in Nat /\ nextSeq \in Nat
    BY DEF TypeOK
<1>2. received'[k] <= nextSeq' /\ rendered'[k] <= received'[k]
    BY <1>1 DEF Counted, SameClient
<1>3. \A c \in Conns : (Fresh(k, c)' <=> Fresh(k, c)) /\ (sock'[k] = c <=> sock[k] = c)
    BY DEF SameClient, Fresh
<1>4. /\ Flow(drawing[k], rendered[k])' /\ Sound(drawing[k], received[k])'
      /\ OfKinds(drawing[k], {"data"})' /\ (k \in Apps => drawing'[k] = <<>>)
    BY DEF Counted, SameClient, Flow, Sound, OfKinds
<1>5. /\ \A c \in Conns : Fresh(k, c)' => drawing'[k] = <<>>
      /\ (k \in Apps \/ drawing'[k] # <<>> \/ \E c \in Conns : sock'[k] = c /\ ~Fresh(k, c)') =>
            Reach(drawing'[k], rendered'[k]) = received'[k]
    BY <1>3 DEF Counted, SameClient
<1> QED BY <1>2, <1>4, <1>5 DEF Counted, Reach

\* The live position of a connection stays.
SameLive(c) == current' = c /\ ~lagging' => current = c /\ ~lagging /\ nextSeq' = nextSeq

\* A step of the agent: each connection that somebody reads stays, or is shown
\* to keep what is said of it.
LEMMA AgentStep ==
    ASSUME IInv, TypeOK', Linked', Staged', nextSeq <= nextSeq',
           UNCHANGED <<sock, rendered, received, drawing>>,
           \A k \in Clients : \A c \in Conns : sock[k] = c =>
               \/ SameConn(c) /\ SameLive(c)
               \/ /\ Arriving(k, c)' /\ Queued(k, c)'
                  /\ Fresh(k, c)' <=> Fresh(k, c)
    PROVE  IInv'
<1>1. nextSeq' \in Nat /\ TypeOK
    BY DEF TypeOK, IInv
<1>2. Stream'
  <2> SUFFICES ASSUME NEW k \in Clients, NEW c \in Conns, sock'[k] = c
               PROVE  Arriving(k, c)' /\ Queued(k, c)'
    BY DEF Stream
  <2>1. sock[k] = c /\ received'[k] = received[k]
    OBVIOUS
  <2>2. Arriving(k, c) /\ Queued(k, c)
    BY <2>1 DEF IInv, Stream
  <2>3. CASE SameConn(c) /\ SameLive(c)
    BY <1>1, <2>1, <2>2, <2>3, ConnStays DEF SameLive
  <2> QED BY <2>1, <2>3
<1>3. Drawing'
  <2> SUFFICES ASSUME NEW k \in Clients PROVE Counted(k)'
    BY DEF Drawing
  <2>1. SameClient(k) /\ Counted(k)
    BY DEF SameClient, IInv, Drawing
  <2>2. \A c \in Conns : sock[k] = c => (Fresh(k, c)' <=> Fresh(k, c))
    BY DEF Fresh, SameConn
  <2> QED BY <1>1, <2>1, <2>2, CountedStays
<1> QED BY <1>2, <1>3 DEF IInv

\* A step of a client, which nobody else notices.
LEMMA ClientStep ==
    ASSUME IInv, TypeOK', Linked', Staged', UNCHANGED <<nextSeq, current, lagging>>,
           NEW k \in Clients,
           \A l \in Clients \ {k} : SameClient(l),
           \A l \in Clients \ {k} : \A c \in Conns : sock[l] = c => SameConn(c),
           Counted(k)',
           \A c \in Conns : sock'[k] = c => Arriving(k, c)' /\ Queued(k, c)'
    PROVE  IInv'
<1>1. nextSeq' \in Nat /\ nextSeq <= nextSeq' /\ TypeOK
  <2>1. nextSeq \in Nat /\ nextSeq' = nextSeq /\ TypeOK
    BY Zenon DEF TypeOK, IInv
  <2> QED BY <2>1
<1>2. Stream'
  <2> SUFFICES ASSUME NEW l \in Clients, NEW c \in Conns, sock'[l] = c, l # k
               PROVE  Arriving(l, c)' /\ Queued(l, c)'
    BY DEF Stream
  <2>1. sock[l] = c /\ received'[l] = received[l] /\ SameConn(c)
    BY DEF SameClient
  <2>2. Arriving(l, c) /\ Queued(l, c)
    BY <2>1 DEF IInv, Stream
  <2> QED BY <1>1, <2>1, <2>2, ConnStays
<1>3. Drawing'
  <2> SUFFICES ASSUME NEW l \in Clients, l # k PROVE Counted(l)'
    BY DEF Drawing
  <2>1. SameClient(l) /\ Counted(l)
    BY DEF IInv, Drawing
  <2>2. \A c \in Conns : sock[l] = c => (Fresh(l, c)' <=> Fresh(l, c))
    BY <2>1 DEF Fresh, SameConn, SameClient
  <2> QED BY <1>1, <2>1, <2>2, CountedStays
<1> QED BY <1>2, <1>3 DEF IInv

\* Who reads a connection is one of those whose socket it is.
LEMMA ReaderIs ==
    ASSUME IInv, NEW k \in Clients, NEW c \in Conns, sock[k] = c
    PROVE  /\ Reading(c) /\ Arriving(k, c) /\ Queued(k, c) /\ Counted(k)
           /\ phase[c] \in {"idle", "opening", "running"} /\ c \notin bye
           /\ wire[c] \in Seq(WireFrame) /\ queue[c] \in Seq(Output)
           /\ queue[c] \in Seq(WireFrame)
           /\ received[k] \in Nat /\ nextSeq \in Nat /\ received[k] <= nextSeq
<1>1. c # NoConn
    BY DEF Conns, NoConn
<1>2. Reading(c) /\ Arriving(k, c) /\ Queued(k, c) /\ Counted(k)
    BY DEF Reading, IInv, Stream, Drawing
<1>3. phase[c] \in {"idle", "opening", "running"} /\ c \notin bye
    BY <1>1 DEF IInv, Linked
<1>4. /\ wire[c] \in Seq(WireFrame) /\ queue[c] \in Seq(Output)
      /\ received[k] \in Nat /\ nextSeq \in Nat
    BY DEF IInv, TypeOK
<1> QED BY <1>2, <1>3, <1>4, OutputIsFrame DEF Counted

-----------------------------------------------------------------------------
(***************************************************************************)
(* Steps that touch no output.                                             *)
(***************************************************************************)

\* A step that at most gives up a `close` on its way.
LEMMA AsideStep ==
    ASSUME IInv, TypeOK', bye' \subseteq bye,
           UNCHANGED <<nextSeq, current, lagging, phase, step, since, queue, pump, wire, sock,
                       rendered, received, drawing>>
    PROVE  IInv'
<1>1. Linked' /\ Staged'
    BY DEF IInv, Linked, Staged, Reading
<1>2. nextSeq <= nextSeq'
    BY DEF IInv, TypeOK
<1>3. \A c \in Conns : SameConn(c) /\ SameLive(c)
    BY DEF SameConn, SameLive
<1> QED BY <1>1, <1>2, <1>3, AgentStep

\* The shell ends, its handle is taken out, a `close` is lost.
LEMMA QuietStep ==
    ASSUME IInv,
           \/ ShellBroken \/ ShellClosed \/ DriveEnd \/ (\E why \in {"revoke", "reap"} : TakeOut(why))
           \/ (\E c \in Conns : LoseClose(c)) \/ UNCHANGED vars
    PROVE  IInv'
<1> USE DEF sessionVars, storeVars, connVars, pipeVars, clientVars
<1>1. /\ bye' \subseteq bye
      /\ UNCHANGED <<nextSeq, current, lagging, phase, step, since, queue, pump, wire, sock,
                     rendered, received, drawing>>
    BY DEF ShellBroken, ShellClosed, DriveEnd, TakeOut, LoseClose, vars
<1>2. TypeOK'
  <2>1. CASE ShellBroken \/ ShellClosed \/ DriveEnd
    BY <2>1, Zenon DEF ShellBroken, ShellClosed, DriveEnd, IInv, TypeOK
  <2>2. CASE \E why \in {"revoke", "reap"} : TakeOut(why)
    <3>1. ending' \in {"no", "revoke", "reap"} /\ inStore' \in BOOLEAN
      BY <2>2 DEF TakeOut
    <3> QED BY <2>2, <3>1, Zenon DEF TakeOut, IInv, TypeOK
  <2>3. CASE \E c \in Conns : LoseClose(c)
    <3>1. faults' \in Nat /\ bye' \in SUBSET Conns
      BY <2>3 DEF LoseClose, IInv, TypeOK
    <3> QED BY <2>3, <3>1, Zenon DEF LoseClose, IInv, TypeOK
  <2>4. CASE UNCHANGED vars
    BY <2>4, Zenon DEF vars, IInv, TypeOK
  <2> QED BY <2>1, <2>2, <2>3, <2>4
<1> QED BY <1>1, <1>2, AsideStep

-----------------------------------------------------------------------------
(***************************************************************************)
(* A connection's handler.                                                 *)
(***************************************************************************)

\* The handle is found.
LEMMA FoundStep ==
    ASSUME IInv, NEW c \in Conns, AttachFound(c)
    PROVE  IInv'
<1> USE DEF sessionVars, storeVars, connVars, pipeVars, clientVars
<1>0. /\ UNCHANGED <<nextSeq, current, lagging, since, bye, queue, pump, wire, sock, rendered,
                     received, drawing>>
      /\ phase[c] = "idle" /\ step[c] = "sent" /\ TypeOK /\ nextSeq <= nextSeq'
      /\ phase' = [phase EXCEPT ![c] = "opening"] /\ step' = [step EXCEPT ![c] = "may"]
    BY DEF AttachFound, IInv, TypeOK
<1>1. /\ phase' \in [Conns -> {"unused", "idle", "opening", "running", "done"}]
      /\ step' \in [Conns -> {"none", "sent", "may"}]
      /\ phase'[c] = "opening" /\ step'[c] = "may"
      /\ \A d \in Conns \ {c} : phase'[d] = phase[d] /\ step'[d] = step[d]
    BY <1>0 DEF TypeOK
<1>2. TypeOK'
    BY <1>0, <1>1, Zenon DEF AttachFound, TypeOK
<1>3. Linked'
    BY <1>0, <1>1 DEF IInv, Linked, Reading, TypeOK
<1>4. Staged'
    BY <1>0, <1>1 DEF IInv, Staged
<1>5. ASSUME NEW k \in Clients, NEW d \in Conns, sock[k] = d
      PROVE  \/ SameConn(d) /\ SameLive(d)
             \/ Arriving(k, d)' /\ Queued(k, d)' /\ (Fresh(k, d)' <=> Fresh(k, d))
  <2>1. CASE d # c
    BY <1>0, <1>1, <2>1 DEF SameConn, SameLive
  <2>2. CASE d = c
    BY <1>0, <1>1, <1>5, <2>2, ReaderIs DEF Arriving, Queued, Fresh
  <2> QED BY <2>1, <2>2
<1> QED BY <1>0, <1>2, <1>3, <1>4, <1>5, AgentStep

\* It is refused: gone, forbidden or closed.
LEMMA RefusedStep ==
    ASSUME IInv, NEW c \in Conns, AttachGone(c) \/ AttachForbidden(c) \/ AttachClosed(c)
    PROVE  IInv'
<1> USE DEF sessionVars, storeVars, connVars, pipeVars, clientVars
<1>0. /\ UNCHANGED <<nextSeq, current, lagging, since, bye, queue, pump, sock, rendered,
                     received, drawing>>
      /\ step[c] # "none" /\ TypeOK /\ nextSeq <= nextSeq'
      /\ step' = [step EXCEPT ![c] = "none"]
    BY DEF AttachGone, AttachForbidden, AttachClosed, IInv, TypeOK
<1>1. /\ phase' \in [Conns -> {"unused", "idle", "opening", "running", "done"}]
      /\ phase'[c] = phase[c] \/ phase'[c] = "idle"
      /\ \A d \in Conns \ {c} : phase'[d] = phase[d]
    BY <1>0 DEF AttachGone, AttachForbidden, AttachClosed, ResetOpening, TypeOK
<1>2. /\ step' \in [Conns -> {"none", "sent", "may"}] /\ step'[c] = "none"
      /\ \A d \in Conns \ {c} : step'[d] = step[d]
    BY <1>0 DEF TypeOK
<1>3. PICK kind \in {"gone", "forbidden"} : Send(c, <<Control(kind, since[c])>>)
    BY DEF AttachGone, AttachForbidden, AttachClosed
<1>4. PICK e : e = Control(kind, since[c])
    OBVIOUS
<1>5. e \in WireFrame /\ e.kind = kind /\ e.from = since[c] /\ e.to = since[c]
  <2>1. since[c] \in Nat /\ kind \in FrameKinds
    BY <1>0 DEF TypeOK, FrameKinds
  <2> QED BY <1>4, <2>1, FrameIs
<1>6. /\ wire' \in [Conns -> Seq(WireFrame)]
      /\ \A d \in Conns \ {c} : wire'[d] = wire[d]
      /\ ~Reading(c) => wire'[c] = wire[c]
      /\ Reading(c) => wire'[c] = Append(wire[c], e)
    BY <1>0, <1>3, <1>4, <1>5, AppendIs DEF Send, TypeOK
<1>7. TypeOK'
  <2>1. UNCHANGED <<latest, detached, closed, inStore, ending, closeIn, drive, marker, finished,
                    faults>>
    BY DEF AttachGone, AttachForbidden, AttachClosed
  <2> QED BY <1>0, <1>1, <1>2, <1>6, <2>1, Zenon DEF TypeOK
<1>8. pump[c] = "none" /\ phase[c] # "unused"
    BY <1>0 DEF IInv, Staged
<1>9. Linked'
    BY <1>0, <1>1, <1>6 DEF IInv, Linked, Reading, TypeOK
<1>10. Staged'
    BY <1>0, <1>1, <1>2, <1>8 DEF IInv, Staged
<1>11. ASSUME NEW k \in Clients, NEW d \in Conns, sock[k] = d
       PROVE  \/ SameConn(d) /\ SameLive(d)
              \/ Arriving(k, d)' /\ Queued(k, d)' /\ (Fresh(k, d)' <=> Fresh(k, d))
  <2>1. CASE d # c
    BY <1>0, <1>2, <1>6, <2>1 DEF SameConn, SameLive
  <2>2. CASE d = c
    <3>1. /\ wire[c] = <<>> /\ since[c] <= nextSeq /\ Reading(c)
          /\ Late(wire[c]) /\ Sound(wire[c], nextSeq) /\ wire[c] \in Seq(WireFrame)
          /\ Resumes(wire[c], received[k], k \in Apps)
          /\ OfKinds(wire[c], {"gone", "forbidden"})
      <4>1. since[c] \in Nat
        BY <1>0 DEF TypeOK
      <4> QED BY <1>0, <1>8, <1>11, <2>2, <4>1, ReaderIs, EmptyIs DEF Arriving
    <3>2. wire'[c] = Append(wire[c], e) /\ wire'[c] \in Seq(WireFrame)
      BY <1>6, <3>1
    <3>3. e.kind # "ready" /\ e.kind \in {"gone", "forbidden"} /\ e.from <= e.to
          /\ e.to <= nextSeq /\ e.from = e.to
      BY <1>0, <1>5, <3>1 DEF TypeOK
    <3>4. /\ OfKinds(wire'[c], {"gone", "forbidden"}) /\ Late(wire'[c])
          /\ Sound(wire'[c], nextSeq) /\ Resumes(wire'[c], received[k], k \in Apps)
      <4>1. OfKinds(wire'[c], {"gone", "forbidden"}) /\ Late(wire'[c])
        BY <1>5, <3>1, <3>2, <3>3, KindsAppend
      <4>2. Sound(wire'[c], nextSeq)
        BY <1>5, <3>1, <3>2, <3>3, SoundAppend
      <4>3. Resumes(wire'[c], received[k], k \in Apps)
        BY <1>5, <3>1, <3>2, <3>3, ResumesAppend
      <4> QED BY <4>1, <4>2, <4>3
    <3>5. Flow(wire'[c], received[k])
      BY <3>2, <3>4, FlowTrivial
    <3>6. Allowed("none") = {"gone", "forbidden"}
      BY DEF Allowed
    <3>7. Arriving(k, c)' /\ Queued(k, c)'
      BY <1>0, <1>2, <1>8, <3>4, <3>5, <3>6 DEF Arriving, Queued
    <3>8. Fresh(k, c)' <=> Fresh(k, c)
      BY <1>0, <1>8 DEF Fresh
    <3> QED BY <2>2, <3>7, <3>8
  <2> QED BY <2>1, <2>2
<1> QED BY <1>0, <1>7, <1>9, <1>10, <1>11, AgentStep

\* The session is attached: the replay goes out, and reaches the position from
\* which output is queued.
LEMMA TakenStep ==
    ASSUME IInv, NEW c \in Conns, AttachTaken(c)
    PROVE  IInv'
<1> USE DEF sessionVars, storeVars, connVars, pipeVars, clientVars
<1>0. /\ UNCHANGED <<nextSeq, closed, inStore, ending, closeIn, drive, since, bye, queue, marker,
                     sock, finished, rendered, received, drawing, faults>>
      /\ step[c] = "may" /\ phase[c] = "opening" /\ TypeOK /\ nextSeq <= nextSeq'
      /\ current' = c /\ latest' = c /\ detached' = FALSE /\ lagging' = FALSE
      /\ step' = [step EXCEPT ![c] = "none"] /\ phase' = [phase EXCEPT ![c] = "running"]
      /\ pump' = [pump EXCEPT ![c] = "on"]
    BY DEF AttachTaken, IInv, TypeOK
<1>1. /\ phase' \in [Conns -> {"unused", "idle", "opening", "running", "done"}]
      /\ step' \in [Conns -> {"none", "sent", "may"}]
      /\ pump' \in [Conns -> {"none", "on", "off"}]
      /\ phase'[c] = "running" /\ step'[c] = "none" /\ pump'[c] = "on"
      /\ \A d \in Conns \ {c} : phase'[d] = phase[d] /\ step'[d] = step[d] /\ pump'[d] = pump[d]
    BY <1>0 DEF TypeOK
<1>2. pump[c] = "none" /\ queue[c] = <<>>
    BY <1>0 DEF IInv, Staged
<1>3. Reading(c) => wire[c] = <<>> /\ since[c] \in Nat /\ since[c] <= nextSeq
  <2> SUFFICES ASSUME Reading(c) PROVE wire[c] = <<>> /\ since[c] \in Nat /\ since[c] <= nextSeq
    OBVIOUS
  <2>1. PICK k \in Clients : sock[k] = c
    BY DEF Reading
  <2>2. since[c] \in Nat
    BY <1>0 DEF TypeOK
  <2> QED BY <1>0, <2>1, <2>2, ReaderIs DEF Arriving
<1>4. Reading(c) => Streams(Replay(since[c]))
    BY <1>0, <1>3, ReplayIs DEF TypeOK
<1>5. /\ wire' \in [Conns -> Seq(WireFrame)]
      /\ \A d \in Conns \ {c} : wire'[d] = wire[d]
      /\ ~Reading(c) => wire'[c] = wire[c]
      /\ Reading(c) => wire'[c] = Replay(since[c])
  <2>1. CASE ~Reading(c)
    BY <1>0, <2>1 DEF AttachTaken, Send, TypeOK
  <2>2. CASE Reading(c)
    <3>1. wire' = [wire EXCEPT ![c] = wire[c] \o Replay(since[c])]
      BY <2>2 DEF AttachTaken, Send
    <3>2. wire[c] \o Replay(since[c]) = Replay(since[c]) /\ Replay(since[c]) \in Seq(WireFrame)
      <4>1. \A s \in Seq(WireFrame) : <<>> \o s = s
        OBVIOUS
      <4> QED BY <1>3, <1>4, <2>2, <4>1 DEF Streams
    <3> QED BY <1>0, <2>2, <3>1, <3>2 DEF TypeOK
  <2> QED BY <2>1, <2>2
<1>6. TypeOK'
  <2>1. current' \in Conns \cup {NoConn} /\ latest' \in Conns \cup {NoConn}
        /\ detached' \in BOOLEAN /\ lagging' \in BOOLEAN
    BY <1>0
  <2> QED BY <1>0, <1>1, <1>5, <2>1, Zenon DEF TypeOK
<1>7. Linked'
    BY <1>0, <1>1, <1>5 DEF IInv, Linked, Reading, TypeOK
<1>8. Staged'
    BY <1>0, <1>1, <1>2 DEF IInv, Staged
<1>9. ASSUME NEW k \in Clients, NEW d \in Conns, sock[k] = d
      PROVE  \/ SameConn(d) /\ SameLive(d)
             \/ Arriving(k, d)' /\ Queued(k, d)' /\ (Fresh(k, d)' <=> Fresh(k, d))
  <2>1. CASE d # c
    BY <1>0, <1>1, <1>5, <2>1 DEF SameConn, SameLive
  <2>2. CASE d = c
    <3>1. /\ Reading(c) /\ since[c] <= received[k] /\ (k \in Apps => since[c] = received[k])
          /\ received[k] \in Nat /\ nextSeq \in Nat
      BY <1>0, <1>9, <2>2, ReaderIs DEF Arriving
    <3>2. PICK r : r = Replay(since[c])
      OBVIOUS
    <3>3. wire'[c] = r /\ Streams(r) /\ (\A x : Reach(r, x) = nextSeq)
      BY <1>3, <1>5, <3>1, <3>2, ReplayIs
    <3>4. Resumes(r, received[k], k \in Apps)
      <4>1. (k \in Apps) \in BOOLEAN
        OBVIOUS
      <4> QED BY <1>3, <3>1, <3>2, <4>1, ReplayIs
    <3>5. Allowed("on") = {"ready", "truncated", "data"}
      BY DEF Allowed
    <3>6. Arriving(k, c)'
      BY <1>0, <1>1, <3>3, <3>4, <3>5 DEF Arriving, Streams
    <3>7. Queued(k, c)'
      BY <1>0, <1>2, <3>3, FlowTrivial, EmptyIs DEF Queued
    <3>8. Fresh(k, c)' <=> Fresh(k, c)
      BY <1>0, <1>2, <1>9, <2>2, <3>3 DEF Fresh, Streams
    <3> QED BY <2>2, <3>6, <3>7, <3>8
  <2> QED BY <2>1, <2>2
<1> QED BY <1>0, <1>6, <1>7, <1>8, <1>9, AgentStep

\* A step that gives up a connection nobody reads.
LEMMA GivenUp ==
    ASSUME IInv, TypeOK', NEW c \in Conns, ~Reading(c), Staged',
           UNCHANGED <<nextSeq, wire, sock, rendered, received, drawing, since>>,
           bye' \subseteq bye, current' = current \/ current' = NoConn,
           lagging' = lagging \/ current' = NoConn,
           \A d \in Conns \ {c} : /\ phase'[d] = phase[d] /\ step'[d] = step[d]
                                  /\ pump'[d] = pump[d] /\ queue'[d] = queue[d]
    PROVE  IInv'
<1>1. \A k \in Clients : sock[k] # c
    BY DEF Reading
<1>2. Linked'
    BY <1>1 DEF IInv, Linked, Reading, TypeOK
<1>3. nextSeq <= nextSeq'
    BY DEF IInv, TypeOK
<1>4. \A d \in Conns \ {c} : SameConn(d) /\ SameLive(d)
    BY DEF SameConn, SameLive, Conns, NoConn
<1> QED BY <1>1, <1>2, <1>3, <1>4, AgentStep

\* The socket went while the account was read.
LEMMA AbandonedStep ==
    ASSUME IInv, NEW c \in Conns, AttachAbandoned(c)
    PROVE  IInv'
<1> USE DEF sessionVars, storeVars, connVars, pipeVars, clientVars
<1>0. /\ UNCHANGED <<nextSeq, closed, inStore, ending, closeIn, drive, phase, since, bye, queue,
                     marker, wire, sock, finished, rendered, received, drawing, faults>>
      /\ step[c] = "may" /\ phase[c] # "opening" /\ TypeOK
      /\ current' = NoConn /\ latest' = c /\ detached' = TRUE /\ lagging' = FALSE
      /\ step' = [step EXCEPT ![c] = "none"] /\ pump' = [pump EXCEPT ![c] = "off"]
    BY DEF AttachAbandoned, IInv
<1>1. /\ step' \in [Conns -> {"none", "sent", "may"}]
      /\ pump' \in [Conns -> {"none", "on", "off"}]
      /\ step'[c] = "none" /\ pump'[c] = "off"
      /\ \A d \in Conns \ {c} : step'[d] = step[d] /\ pump'[d] = pump[d]
    BY <1>0 DEF TypeOK
<1>2. pump[c] = "none" /\ queue[c] = <<>> /\ phase[c] = "done"
    BY <1>0 DEF IInv, Staged
<1>3. ~Reading(c)
    BY <1>2, ReaderIs DEF Reading
<1>4. TypeOK'
  <2>1. current' \in Conns \cup {NoConn} /\ latest' \in Conns \cup {NoConn}
        /\ detached' \in BOOLEAN /\ lagging' \in BOOLEAN
    BY <1>0
  <2> QED BY <1>0, <1>1, <2>1, Zenon DEF TypeOK
<1>5. Staged'
    BY <1>0, <1>1, <1>2 DEF IInv, Staged
<1> QED BY <1>0, <1>1, <1>3, <1>4, <1>5, GivenUp

\* The agent notices that the client is gone.
LEMMA DisconnectStep ==
    ASSUME IInv, NEW c \in Conns, Disconnect(c)
    PROVE  IInv'
<1> USE DEF sessionVars, storeVars, connVars, pipeVars, clientVars
<1>0. /\ UNCHANGED <<nextSeq, latest, closed, lagging, inStore, ending, closeIn, drive, since,
                     bye, queue, pump, marker, wire, sock, finished, rendered, received, drawing,
                     faults>>
      /\ ~Reading(c) /\ TypeOK /\ phase[c] # "unused"
      /\ step' = [step EXCEPT ![c] = IF @ = "sent" THEN "none" ELSE @]
      /\ phase' = [phase EXCEPT ![c] = "done"]
      /\ (current' = NoConn /\ detached' = TRUE) \/ UNCHANGED <<current, detached>>
    BY DEF Disconnect, IInv
<1>1. /\ phase' \in [Conns -> {"unused", "idle", "opening", "running", "done"}]
      /\ step' \in [Conns -> {"none", "sent", "may"}]
      /\ phase'[c] = "done" /\ step'[c] \in {"none", step[c]}
      /\ \A d \in Conns \ {c} : phase'[d] = phase[d] /\ step'[d] = step[d]
    BY <1>0 DEF TypeOK
<1>2. TypeOK'
  <2>1. current' \in Conns \cup {NoConn} /\ detached' \in BOOLEAN
    BY <1>0 DEF TypeOK
  <2> QED BY <1>0, <1>1, <2>1, Zenon DEF TypeOK
<1>3. Staged'
    BY <1>0, <1>1 DEF IInv, Staged
<1> QED BY <1>0, <1>1, <1>2, <1>3, GivenUp

\* `close` arrives.
LEMMA CloseStep ==
    ASSUME IInv, NEW c \in Conns, HandleClose(c)
    PROVE  IInv'
<1> USE DEF sessionVars, storeVars, connVars, pipeVars, clientVars
<1>0. /\ UNCHANGED <<nextSeq, current, latest, detached, closed, lagging, ending, drive, step,
                     since, queue, pump, marker, wire, sock, finished, rendered, received,
                     drawing, faults>>
      /\ TypeOK /\ c \in bye /\ bye' = bye \ {c} /\ phase' = [phase EXCEPT ![c] = "done"]
      /\ inStore' \in {FALSE, inStore} /\ closeIn' \in {TRUE, closeIn}
    BY DEF HandleClose, IInv
<1>1. /\ phase' \in [Conns -> {"unused", "idle", "opening", "running", "done"}]
      /\ phase'[c] = "done" /\ \A d \in Conns \ {c} : phase'[d] = phase[d]
    BY <1>0 DEF TypeOK
<1>2. ~Reading(c)
    BY <1>0, ReaderIs DEF Reading
<1>3. TypeOK'
  <2>1. inStore' \in BOOLEAN /\ closeIn' \in BOOLEAN /\ bye' \in SUBSET Conns
    BY <1>0 DEF TypeOK
  <2> QED BY <1>0, <1>1, <2>1, Zenon DEF TypeOK
<1>4. Staged'
    BY <1>0, <1>1 DEF IInv, Staged
<1> QED BY <1>0, <1>1, <1>2, <1>3, <1>4, GivenUp

-----------------------------------------------------------------------------
(***************************************************************************)
(* The pump, and what is queued for it.                                    *)
(***************************************************************************)

\* A frame goes out, to whom there is.
LEMMA SentIs ==
    ASSUME TypeOK, NEW c \in Conns, NEW e \in WireFrame, Send(c, <<e>>)
    PROVE  /\ wire' \in [Conns -> Seq(WireFrame)]
           /\ \A d \in Conns \ {c} : wire'[d] = wire[d]
           /\ ~Reading(c) => wire' = wire
           /\ Reading(c) => wire'[c] = Append(wire[c], e)
  BY AppendIs DEF Send, TypeOK

\* The queue's first frame, of bytes, moves to the wire.
LEMMA PumpDataStep ==
    ASSUME IInv, NEW c \in Conns, PumpData(c)
    PROVE  IInv'
<1> USE DEF sessionVars, storeVars, connVars, pipeVars, clientVars
<1>0. /\ UNCHANGED <<nextSeq, current, latest, detached, closed, lagging, inStore, ending,
                     closeIn, drive, phase, step, since, bye, marker, sock, finished, rendered,
                     received, drawing, faults>>
      /\ pump[c] = "on" /\ queue[c] # <<>> /\ Head(queue[c]).kind = "data" /\ TypeOK
      /\ nextSeq <= nextSeq' /\ queue[c] \in Seq(Output)
    BY DEF PumpData, IInv, TypeOK
<1>1. PICK e : e = Head(queue[c])
    OBVIOUS
<1>2. /\ e \in WireFrame /\ e.kind = "data" /\ Tail(queue[c]) \in Seq(Output)
      /\ queue[c] \in Seq(WireFrame)
    BY <1>0, <1>1, TailIs, OutputIsFrame
<1>3. phase[c] # "unused" /\ step[c] = "none"
    BY <1>0 DEF IInv, Staged
<1>4. CASE phase[c] = "done"
  <2>1. wire' = wire /\ pump' = [pump EXCEPT ![c] = "off"] /\ queue' = [queue EXCEPT ![c] = <<>>]
    BY <1>4 DEF PumpData, PumpEnds
  <2>2. /\ pump' \in [Conns -> {"none", "on", "off"}] /\ queue' \in [Conns -> Seq(Output)]
        /\ pump'[c] = "off" /\ queue'[c] = <<>>
        /\ \A d \in Conns \ {c} : pump'[d] = pump[d] /\ queue'[d] = queue[d]
    BY <1>0, <2>1 DEF TypeOK
  <2>3. TypeOK'
    BY <1>0, <2>1, <2>2, Zenon DEF TypeOK
  <2>4. Staged'
    BY <1>0, <1>3, <2>2 DEF IInv, Staged
  <2>5. ~Reading(c)
    BY <1>4, ReaderIs DEF Reading
  <2> QED BY <1>0, <2>1, <2>2, <2>3, <2>4, <2>5, GivenUp
<1>5. CASE phase[c] # "done"
  <2>1. pump' = pump /\ queue' = [queue EXCEPT ![c] = Tail(@)] /\ Send(c, <<e>>)
    BY <1>1, <1>5 DEF PumpData
  <2>2. /\ queue' \in [Conns -> Seq(Output)] /\ queue'[c] = Tail(queue[c])
        /\ \A d \in Conns \ {c} : queue'[d] = queue[d]
    BY <1>0, <1>2, <2>1 DEF TypeOK
  <2>3. /\ wire' \in [Conns -> Seq(WireFrame)]
        /\ \A d \in Conns \ {c} : wire'[d] = wire[d]
        /\ ~Reading(c) => wire' = wire
        /\ Reading(c) => wire'[c] = Append(wire[c], e)
    BY <1>0, <1>2, <2>1, SentIs
  <2>4. TypeOK'
    BY <1>0, <2>1, <2>2, <2>3, Zenon DEF TypeOK
  <2>5. Staged'
    BY <1>0, <2>1, <2>2 DEF IInv, Staged
  <2>6. Linked'
    BY <1>0, <2>3 DEF IInv, Linked, Reading, TypeOK
  <2>7. ASSUME NEW k \in Clients, NEW d \in Conns, sock[k] = d
        PROVE  \/ SameConn(d) /\ SameLive(d)
               \/ Arriving(k, d)' /\ Queued(k, d)' /\ (Fresh(k, d)' <=> Fresh(k, d))
    <3>1. CASE d # c
      BY <1>0, <2>1, <2>2, <2>3, <3>1 DEF SameConn, SameLive
    <3>2. CASE d = c
      <4>1. /\ Reading(c) /\ Arriving(k, c) /\ Queued(k, c) /\ wire[c] \in Seq(WireFrame)
        BY <2>7, <3>2, ReaderIs
      <4>2. PICK tip : tip = Reach(wire[c], received[k])
        OBVIOUS
      <4>3. /\ Flow(queue[c], tip) /\ Sound(queue[c], nextSeq)
            /\ current = c /\ ~lagging => Reach(queue[c], tip) = nextSeq
        BY <1>0, <4>1, <4>2 DEF Queued
      <4>4. /\ Flow(Tail(queue[c]), e.to) /\ Reach(Tail(queue[c]), e.to) = Reach(queue[c], tip)
            /\ e.from = tip
        BY <1>0, <1>1, <1>2, <4>3, FlowTail DEF Follows
      <4>5. /\ Sound(Tail(queue[c]), nextSeq) /\ e.from <= e.to /\ e.to <= nextSeq
        BY <1>0, <1>1, <1>2, <4>3, SoundTail
      <4>6. Flow(wire'[c], received[k]) /\ Reach(wire'[c], received[k]) = e.to
        <5>1. Flow(wire[c], received[k]) /\ wire'[c] = Append(wire[c], e)
          BY <2>3, <4>1 DEF Arriving
        <5> QED BY <1>2, <4>1, <4>2, <4>4, <5>1, FlowAppend
      <4>7. Sound(wire'[c], nextSeq)
        BY <1>2, <2>3, <4>1, <4>5, SoundAppend DEF Arriving
      <4>8. Late(wire'[c]) /\ OfKinds(wire'[c], Allowed("on"))
        <5>1. "data" \in Allowed("on")
          BY DEF Allowed
        <5> QED BY <1>0, <1>2, <2>3, <4>1, <5>1, KindsAppend DEF Arriving
      <4>9. Resumes(wire'[c], received[k], k \in Apps)
        BY <1>2, <2>3, <4>1, ResumesAppend DEF Arriving
      <4>10. Arriving(k, c)'
        BY <1>0, <1>3, <2>1, <4>6, <4>7, <4>8, <4>9 DEF Arriving
      <4>11. Queued(k, c)'
        BY <1>0, <2>1, <2>2, <4>3, <4>4, <4>5, <4>6 DEF Queued
      <4>12. Fresh(k, c)' <=> Fresh(k, c)
        <5>1. wire'[c] # <<>> /\ (wire[c] # <<>> => wire'[c][1] = wire[c][1])
              /\ (wire[c] = <<>> => wire'[c][1] = e)
          BY <1>2, <2>3, <4>1, AppendIs, AppendFirst
        <5> QED BY <1>0, <1>2, <2>1, <5>1 DEF Fresh
      <4> QED BY <3>2, <4>10, <4>11, <4>12
    <3> QED BY <3>1, <3>2
  <2> QED BY <1>0, <2>4, <2>5, <2>6, <2>7, AgentStep
<1> QED BY <1>4, <1>5

\* The pump ends, and tells its client why.
LEMMA PumpEndStep ==
    ASSUME IInv, NEW c \in Conns, PumpLast(c) \/ PumpSuperseded(c)
    PROVE  IInv'
<1> USE DEF sessionVars, storeVars, connVars, pipeVars, clientVars
<1>0. /\ UNCHANGED <<nextSeq, current, latest, detached, closed, lagging, inStore, ending,
                     closeIn, drive, phase, step, since, bye, marker, sock, finished, rendered,
                     received, drawing, faults>>
      /\ pump[c] = "on" /\ TypeOK /\ nextSeq <= nextSeq' /\ nextSeq \in Nat
      /\ pump' = [pump EXCEPT ![c] = "off"] /\ queue' = [queue EXCEPT ![c] = <<>>]
    BY DEF PumpLast, PumpSuperseded, PumpEnds, IInv, TypeOK
<1>1. PICK e \in WireFrame :
        /\ Send(c, <<e>>) /\ e.kind \in Terminals
        /\ Reading(c) => e.from = e.to /\ e.to <= nextSeq
  <2>1. CASE PumpLast(c)
    <3>1. PICK e : e = Head(queue[c])
      OBVIOUS
    <3>2. queue[c] # <<>> /\ e.kind # "data" /\ queue[c] \in Seq(Output) /\ Send(c, <<e>>)
      BY <1>0, <2>1, <3>1 DEF PumpLast, TypeOK
    <3>3. e \in Output /\ queue[c] \in Seq(WireFrame)
      BY <3>1, <3>2, TailIs, OutputIsFrame
    <3>4. e.kind \in Terminals
      BY <3>2, <3>3 DEF Output, Kinds, Terminals
    <3>5. Reading(c) => Sound(queue[c], nextSeq)
      BY <1>0, ReaderIs DEF Reading, Queued
    <3>6. Reading(c) => e.from = e.to /\ e.to <= nextSeq
      BY <3>1, <3>2, <3>3, <3>5, SoundTail
    <3> QED BY <3>2, <3>3, <3>4, <3>6, OutputIsFrame
  <2>2. CASE PumpSuperseded(c)
    <3>1. PICK e : e = Control("superseded", nextSeq)
      OBVIOUS
    <3>2. e \in WireFrame /\ e.kind = "superseded" /\ e.from = nextSeq /\ e.to = nextSeq
      <4>1. "superseded" \in FrameKinds
        BY DEF FrameKinds
      <4> QED BY <1>0, <3>1, <4>1, FrameIs
    <3>3. Send(c, <<e>>)
      BY <2>2, <3>1 DEF PumpSuperseded
    <3> QED BY <1>0, <3>2, <3>3 DEF Terminals
  <2> QED BY <2>1, <2>2
<1>2. /\ pump' \in [Conns -> {"none", "on", "off"}] /\ queue' \in [Conns -> Seq(Output)]
      /\ pump'[c] = "off" /\ queue'[c] = <<>>
      /\ \A d \in Conns \ {c} : pump'[d] = pump[d] /\ queue'[d] = queue[d]
    BY <1>0 DEF TypeOK
<1>3. /\ wire' \in [Conns -> Seq(WireFrame)]
      /\ \A d \in Conns \ {c} : wire'[d] = wire[d]
      /\ ~Reading(c) => wire' = wire
      /\ Reading(c) => wire'[c] = Append(wire[c], e)
    BY <1>0, <1>1, SentIs
<1>4. TypeOK'
    BY <1>0, <1>2, <1>3, Zenon DEF TypeOK
<1>5. phase[c] # "unused" /\ step[c] = "none"
    BY <1>0 DEF IInv, Staged
<1>6. Staged'
    BY <1>0, <1>2, <1>5 DEF IInv, Staged
<1>7. Linked'
    BY <1>0, <1>3 DEF IInv, Linked, Reading, TypeOK
<1>8. ASSUME NEW k \in Clients, NEW d \in Conns, sock[k] = d
      PROVE  \/ SameConn(d) /\ SameLive(d)
             \/ Arriving(k, d)' /\ Queued(k, d)' /\ (Fresh(k, d)' <=> Fresh(k, d))
  <2>1. CASE d # c
    BY <1>0, <1>2, <1>3, <2>1 DEF SameConn, SameLive
  <2>2. CASE d = c
    <3>1. Reading(c) /\ Arriving(k, c) /\ wire[c] \in Seq(WireFrame)
      BY <1>8, <2>2, ReaderIs
    <3>2. e.kind # "ready" /\ e.kind # "data" /\ e.kind \notin Follows
      BY <1>1 DEF Terminals, Follows
    <3>3. Flow(wire'[c], received[k])
      BY <1>1, <1>3, <3>1, <3>2, FlowAppend DEF Arriving
    <3>4. Sound(wire'[c], nextSeq)
      <4>1. e.from <= e.to /\ e.to <= nextSeq /\ e.from = e.to
        BY <1>1, <3>1, FrameType
      <4> QED BY <1>1, <1>3, <3>1, <4>1, SoundAppend DEF Arriving
    <3>5. Late(wire'[c]) /\ Told(wire'[c])
      BY <1>1, <1>3, <3>1, <3>2, KindsAppend DEF Arriving
    <3>6. OfKinds(wire'[c], Allowed("off"))
      <4>1. OfKinds(wire[c], Allowed("off")) /\ e.kind \in Allowed("off")
        BY <1>0, <1>1, <3>1 DEF Arriving, Allowed, OfKinds
      <4> QED BY <1>1, <1>3, <3>1, <4>1, KindsAppend
    <3>7. Resumes(wire'[c], received[k], k \in Apps)
      BY <1>1, <1>3, <3>1, <3>2, ResumesAppend DEF Arriving
    <3>8. Arriving(k, c)' /\ Queued(k, c)'
      BY <1>0, <1>2, <1>5, <3>3, <3>4, <3>5, <3>6, <3>7 DEF Arriving, Queued
    <3>9. Fresh(k, c)' <=> Fresh(k, c)
      <4>1. wire'[c] # <<>> /\ (wire[c] # <<>> => wire'[c][1] = wire[c][1])
            /\ (wire[c] = <<>> => wire'[c][1] = e)
        <5>1. wire'[c] = Append(wire[c], e)
          BY <1>3, <3>1
        <5> QED BY <1>1, <3>1, <5>1, AppendIs, AppendFirst
      <4> QED BY <1>0, <1>2, <3>2, <4>1 DEF Fresh
    <3> QED BY <2>2, <3>8, <3>9
  <2> QED BY <2>1, <2>2
<1> QED BY <1>0, <1>4, <1>6, <1>7, <1>8, AgentStep

\* Output is queued: bytes only behind what reaches their first, and what is
\* live afterwards ends where the scrollback does.
LEMMA QueueStep ==
    ASSUME IInv, TypeOK', nextSeq <= nextSeq', NEW c \in Conns, NEW o \in Output,
           pump[c] = "on", queue' = [queue EXCEPT ![c] = Append(@, o)],
           UNCHANGED <<phase, step, since, bye, pump, wire, sock, rendered, received, drawing>>,
           o.from <= o.to, o.to <= nextSeq', o.kind # "data" => o.from = o.to,
           o.kind = "data" => current = c /\ ~lagging /\ o.from = nextSeq,
           current' = c /\ ~lagging' => o.to = nextSeq',
           \A d \in Conns \ {c} : SameLive(d)
    PROVE  IInv'
<1>0. /\ TypeOK /\ nextSeq \in Nat /\ nextSeq' \in Nat /\ o \in WireFrame
      /\ o.kind # "truncated"
    BY OutputIsFrame DEF IInv, TypeOK, Output, Kinds
<1>1. queue'[c] = Append(queue[c], o) /\ \A d \in Conns \ {c} : queue'[d] = queue[d]
    BY <1>0 DEF TypeOK
<1>2. Linked' /\ Staged'
    BY <1>1 DEF IInv, Linked, Reading, Staged
<1>3. ASSUME NEW k \in Clients, NEW d \in Conns, sock[k] = d
      PROVE  \/ SameConn(d) /\ SameLive(d)
             \/ Arriving(k, d)' /\ Queued(k, d)' /\ (Fresh(k, d)' <=> Fresh(k, d))
  <2>1. CASE d # c
    BY <1>1, <2>1 DEF SameConn
  <2>2. CASE d = c
    <3>1. /\ Arriving(k, c) /\ Queued(k, c) /\ wire[c] \in Seq(WireFrame)
          /\ queue[c] \in Seq(WireFrame)
      BY <1>3, <2>2, ReaderIs
    <3>2. PICK tip : tip = Reach(wire[c], received[k])
      OBVIOUS
    <3>3. /\ Flow(queue[c], tip) /\ Sound(queue[c], nextSeq)
          /\ current = c /\ ~lagging => Reach(queue[c], tip) = nextSeq
      BY <3>1, <3>2 DEF Queued
    <3>4. o.kind \in Follows => o.from = Reach(queue[c], tip)
      BY <1>0, <3>3 DEF Follows
    <3>5. Flow(queue'[c], tip) /\ Reach(queue'[c], tip) = o.to
      BY <1>0, <1>1, <3>1, <3>3, <3>4, FlowAppend
    <3>6. Sound(queue[c], nextSeq') /\ Sound(wire[c], nextSeq')
      BY <1>0, <3>1, <3>3, SoundGrows DEF Arriving
    <3>7. Sound(queue'[c], nextSeq')
      BY <1>0, <1>1, <3>1, <3>6, SoundAppend
    <3>8. Arriving(k, c)'
      BY <3>1, <3>6 DEF Arriving
    <3>9. Queued(k, c)'
      BY <3>2, <3>5, <3>7 DEF Queued
    <3>10. Fresh(k, c)' <=> Fresh(k, c)
      BY DEF Fresh
    <3> QED BY <2>2, <3>8, <3>9, <3>10
  <2> QED BY <2>1, <2>2
<1> QED BY <1>2, <1>3, AgentStep

\* Nothing is queued.
LEMMA UnqueuedStep ==
    ASSUME IInv, TypeOK', nextSeq <= nextSeq',
           UNCHANGED <<phase, step, since, bye, queue, pump, wire, sock, rendered, received,
                       drawing>>,
           \A d \in Conns : SameLive(d)
    PROVE  IInv'
<1>1. Linked' /\ Staged'
    BY DEF IInv, Linked, Reading, Staged
<1>2. \A d \in Conns : SameConn(d)
    BY DEF SameConn
<1> QED BY <1>1, <1>2, AgentStep

\* A queue holds what is put in it.
LEMMA QueueType ==
    ASSUME TypeOK, NEW c \in Conns, NEW o \in Output,
           queue' = [queue EXCEPT ![c] = Append(@, o)]
    PROVE  queue' \in [Conns -> Seq(Output)]
  BY DEF TypeOK

\* The send of ReplayRequired gets its slot, or finds nobody.
LEMMA MarkerStep ==
    ASSUME IInv, NEW c \in Conns, SendMarker(c)
    PROVE  IInv'
<1> USE DEF sessionVars, storeVars, connVars, pipeVars, clientVars
<1>0. /\ UNCHANGED <<nextSeq, current, latest, detached, closed, lagging, inStore, ending,
                     closeIn, drive, phase, step, since, bye, pump, wire, sock, finished,
                     rendered, received, drawing, faults>>
      /\ TypeOK /\ nextSeq \in Nat /\ marker' = [marker EXCEPT ![c] = FALSE]
    BY DEF SendMarker, IInv, TypeOK
<1>1. marker' \in [Conns -> BOOLEAN] /\ nextSeq <= nextSeq' /\ \A d \in Conns : SameLive(d)
    BY <1>0 DEF TypeOK, SameLive
<1>2. CASE queue' = queue
  <2>1. TypeOK'
    BY <1>0, <1>1, <1>2, Zenon DEF TypeOK
  <2> QED BY <1>0, <1>1, <1>2, <2>1, UnqueuedStep
<1>3. CASE queue' # queue
  <2>1. PICK o : o = Control("replay", nextSeq)
    OBVIOUS
  <2>2. /\ o \in Output /\ o.kind = "replay" /\ o.from = nextSeq /\ o.to = nextSeq
    <3>1. "replay" \in FrameKinds /\ "replay" \in Kinds
      BY DEF FrameKinds, Kinds
    <3> QED BY <1>0, <2>1, <3>1, FrameIs
  <2>3. pump[c] = "on" /\ queue' = [queue EXCEPT ![c] = Append(@, o)]
    BY <1>3, <2>1 DEF SendMarker
  <2>4. TypeOK'
    <3>1. queue' \in [Conns -> Seq(Output)]
      BY <1>0, <2>2, <2>3, QueueType
    <3> QED BY <1>0, <1>1, <3>1, Zenon DEF TypeOK
  <2> QED BY <1>0, <1>1, <2>2, <2>3, <2>4, QueueStep
<1> QED BY <1>2, <1>3

\* Session::publish of output that ends where the scrollback does then.
LEMMA PublishStep ==
    ASSUME IInv, NEW o \in Output, Publish(o), nextSeq' \in Nat, nextSeq <= nextSeq',
           UNCHANGED <<latest, closed, inStore, ending, closeIn, connVars, pump, wire,
                       clientVars, faults>>,
           drive' \in {"running", "ending", "gone"},
           o.to = nextSeq', o.from = nextSeq, o.kind # "data" => o.from = o.to
    PROVE  IInv'
<1> USE DEF connVars, clientVars
<1>0. TypeOK /\ nextSeq \in Nat /\ o.from <= o.to /\ o.to <= nextSeq'
    BY DEF IInv, TypeOK
<1>1. CASE PublishUnattended
  <2>1. UNCHANGED <<current, detached, lagging, queue, marker>> /\ (lagging \/ current = NoConn)
    BY <1>1 DEF PublishUnattended
  <2>2. TypeOK'
    BY <1>0, <2>1, Zenon DEF TypeOK
  <2>3. \A d \in Conns : SameLive(d)
    BY <2>1 DEF SameLive, Conns, NoConn
  <2> QED BY <2>1, <2>2, <2>3, UnqueuedStep
<1>2. CASE PublishQueued(o)
  <2>1. /\ UNCHANGED <<current, detached, lagging, marker>> /\ ~lagging /\ current \in Conns
        /\ pump[current] = "on" /\ queue' = [queue EXCEPT ![current] = Append(@, o)]
    BY <1>0, <1>2 DEF PublishQueued, TypeOK
  <2>2. TypeOK'
    BY <1>0, <2>1, QueueType, Zenon DEF TypeOK
  <2>3. \A d \in Conns \ {current} : SameLive(d)
    BY <2>1 DEF SameLive
  <2> QED BY <1>0, <2>1, <2>2, <2>3, QueueStep
<1>3. CASE PublishLagged
  <2>1. /\ UNCHANGED <<current, detached, queue>> /\ lagging' = TRUE /\ current \in Conns
        /\ marker' = [marker EXCEPT ![current] = TRUE]
    BY <1>0, <1>3 DEF PublishLagged, TypeOK
  <2>2. marker' \in [Conns -> BOOLEAN]
    BY <1>0, <2>1 DEF TypeOK
  <2>3. TypeOK'
    <3>1. lagging' \in BOOLEAN
      BY <2>1
    <3> QED BY <1>0, <2>1, <2>2, <3>1, Zenon DEF TypeOK
  <2>4. \A d \in Conns : SameLive(d)
    BY <2>1 DEF SameLive
  <2> QED BY <2>1, <2>3, <2>4, UnqueuedStep
<1>4. CASE PublishClosed
  <2>1. UNCHANGED <<lagging, queue, marker>> /\ current' = NoConn /\ detached' = TRUE
    BY <1>4 DEF PublishClosed
  <2>2. TypeOK'
    <3>1. current' \in Conns \cup {NoConn} /\ detached' \in BOOLEAN
      BY <2>1
    <3> QED BY <1>0, <2>1, <3>1, Zenon DEF TypeOK
  <2>3. \A d \in Conns : SameLive(d)
    BY <2>1 DEF SameLive, Conns, NoConn
  <2> QED BY <2>1, <2>2, <2>3, UnqueuedStep
<1> QED BY <1>1, <1>2, <1>3, <1>4 DEF Publish

\* The shell writes, or exits.
LEMMA ShellStep ==
    ASSUME IInv, (\E n \in 1 .. MaxChunk : ShellData(n)) \/ ShellExit
    PROVE  IInv'
<1> USE DEF sessionVars, storeVars, connVars, pipeVars, clientVars
<1>0. nextSeq \in Nat /\ TypeOK
    BY DEF IInv, TypeOK
<1>1. ASSUME NEW n \in 1 .. MaxChunk, ShellData(n) PROVE IInv'
  <2>1. PICK o : o = Frame("data", nextSeq, nextSeq + n)
    OBVIOUS
  <2>2. nextSeq' = nextSeq + n /\ nextSeq' \in Nat /\ nextSeq <= nextSeq'
    BY <1>0, <1>1, StreamAssumption DEF ShellData
  <2>3. o \in Output /\ o.kind = "data" /\ o.from = nextSeq /\ o.to = nextSeq'
    <3>1. "data" \in FrameKinds /\ "data" \in Kinds
      BY DEF FrameKinds, Kinds
    <3> QED BY <1>0, <2>1, <2>2, <3>1, FrameIs
  <2>4. /\ Publish(o) /\ drive' \in {"running", "ending", "gone"}
        /\ UNCHANGED <<latest, closed, inStore, ending, closeIn, connVars, pump, wire,
                       clientVars, faults>>
    BY <1>0, <1>1, <2>1 DEF ShellData, TypeOK
  <2> QED BY <2>2, <2>3, <2>4, PublishStep
<1>2. CASE ShellExit
  <2>1. PICK o : o = Control("exit", nextSeq)
    OBVIOUS
  <2>2. nextSeq' = nextSeq /\ nextSeq' \in Nat /\ nextSeq <= nextSeq'
    BY <1>0, <1>2 DEF ShellExit
  <2>3. o \in Output /\ o.kind = "exit" /\ o.from = nextSeq /\ o.to = nextSeq'
    <3>1. "exit" \in FrameKinds /\ "exit" \in Kinds
      BY DEF FrameKinds, Kinds
    <3> QED BY <1>0, <2>1, <2>2, <3>1, FrameIs
  <2>4. /\ Publish(o) /\ drive' \in {"running", "ending", "gone"}
        /\ UNCHANGED <<latest, closed, inStore, ending, closeIn, connVars, pump, wire,
                       clientVars, faults>>
    BY <1>2, <2>1 DEF ShellExit
  <2> QED BY <2>2, <2>3, <2>4, PublishStep
<1> QED BY <1>1, <1>2

\* The session is closed from outside.
LEMMA TerminateStep ==
    ASSUME IInv, Terminate
    PROVE  IInv'
<1> USE DEF sessionVars, storeVars, connVars, pipeVars, clientVars
<1>0. /\ UNCHANGED <<nextSeq, latest, lagging, inStore, drive, phase, step, since, bye, pump,
                     marker, wire, sock, finished, rendered, received, drawing, faults>>
      /\ TypeOK /\ nextSeq \in Nat /\ nextSeq <= nextSeq'
      /\ current' = NoConn /\ detached' = TRUE /\ closed' = TRUE /\ closeIn' = TRUE
      /\ ending' = "no"
    BY DEF Terminate, IInv, TypeOK
<1>1. \A d \in Conns : SameLive(d) /\ current' # d
    BY <1>0 DEF SameLive, Conns, NoConn
<1>2. /\ current' \in Conns \cup {NoConn} /\ detached' \in BOOLEAN /\ closed' \in BOOLEAN
      /\ closeIn' \in BOOLEAN /\ ending' \in {"no", "revoke", "reap"}
    BY <1>0
<1>3. CASE queue' = queue
  <2>1. TypeOK'
    BY <1>0, <1>2, <1>3, Zenon DEF TypeOK
  <2> QED BY <1>0, <1>1, <1>3, <2>1, UnqueuedStep
<1>4. CASE queue' # queue
  <2>1. PICK o : o = Control("revoked", nextSeq)
    OBVIOUS
  <2>2. o \in Output /\ o.kind = "revoked" /\ o.from = nextSeq /\ o.to = nextSeq
    <3>1. "revoked" \in FrameKinds /\ "revoked" \in Kinds
      BY DEF FrameKinds, Kinds
    <3> QED BY <1>0, <2>1, <3>1, FrameIs
  <2>3. /\ current \in Conns /\ pump[current] = "on"
        /\ queue' = [queue EXCEPT ![current] = Append(@, o)]
    BY <1>0, <1>4, <2>1 DEF Terminate, TypeOK
  <2>4. TypeOK'
    BY <1>0, <1>2, <2>2, <2>3, QueueType, Zenon DEF TypeOK
  <2> QED BY <1>0, <1>1, <2>2, <2>3, <2>4, QueueStep
<1> QED BY <1>3, <1>4

-----------------------------------------------------------------------------
(***************************************************************************)
(* The clients.                                                            *)
(***************************************************************************)

\* The connections of the others.
LEMMA OthersConns ==
    ASSUME IInv, NEW k \in Clients, NEW l \in Clients \ {k}, NEW c \in Conns, sock[l] = c
    PROVE  sock[k] # c
<1>1. c # NoConn
    BY DEF Conns, NoConn
<1> QED BY <1>1 DEF IInv, Linked

\* A client attaches on a new connection, from its counter.
LEMMA ConnectStep ==
    ASSUME IInv, NEW k \in Clients, NEW c \in Conns, Connect(k, c)
    PROVE  IInv'
<1> USE DEF sessionVars, storeVars, connVars, pipeVars, clientVars
<1>0. /\ UNCHANGED <<nextSeq, current, latest, detached, closed, lagging, inStore, ending,
                     closeIn, drive, bye, queue, pump, marker, wire, finished, rendered,
                     received, faults>>
      /\ TypeOK /\ phase[c] = "unused" /\ sock[k] = NoConn
      /\ phase' = [phase EXCEPT ![c] = "idle"] /\ step' = [step EXCEPT ![c] = "sent"]
      /\ since' = [since EXCEPT ![c] = rendered[k]] /\ sock' = [sock EXCEPT ![k] = c]
      /\ drawing' = [drawing EXCEPT ![k] = <<>>]
    BY DEF Connect, IInv
<1>1. /\ phase' \in [Conns -> {"unused", "idle", "opening", "running", "done"}]
      /\ step' \in [Conns -> {"none", "sent", "may"}] /\ since' \in [Conns -> Nat]
      /\ phase'[c] = "idle" /\ step'[c] = "sent" /\ since'[c] = rendered[k]
      /\ \A d \in Conns \ {c} : /\ phase'[d] = phase[d] /\ step'[d] = step[d]
                                /\ since'[d] = since[d]
    BY <1>0 DEF TypeOK
<1>2. /\ sock' \in [Clients -> Conns \cup {NoConn}] /\ drawing' \in [Clients -> Seq(Output)]
      /\ sock'[k] = c /\ drawing'[k] = <<>>
      /\ \A l \in Clients \ {k} : sock'[l] = sock[l] /\ drawing'[l] = drawing[l]
    BY <1>0 DEF TypeOK
<1>3. TypeOK'
    BY <1>0, <1>1, <1>2, Zenon DEF TypeOK
<1>4. \A l \in Clients : sock[l] # c
    BY <1>0, ReaderIs
<1>5. wire[c] = <<>> /\ pump[c] = "none" /\ c \notin bye /\ c # NoConn
    BY <1>0, <1>4 DEF IInv, Linked, Staged, Reading, Conns, NoConn
<1>6. Linked'
  <2>1. \A d \in Conns : Reading(d)' <=> (d = c \/ Reading(d))
    BY <1>0, <1>2, <1>5 DEF Reading, Conns, NoConn
  <2>2. \A l \in Clients : sock'[l] = c <=> l = k
    BY <1>2, <1>4
  <2>3. \A l, m \in Clients : sock'[l] = sock'[m] /\ sock'[l] # NoConn => l = m
    BY <1>2, <2>2 DEF IInv, Linked
  <2>4. \A l \in Clients : sock'[l] # NoConn =>
            phase'[sock'[l]] \in {"idle", "opening", "running"} /\ sock'[l] \notin bye'
    <3> SUFFICES ASSUME NEW l \in Clients, sock'[l] # NoConn
                 PROVE  phase'[sock'[l]] \in {"idle", "opening", "running"} /\ sock'[l] \notin bye'
      OBVIOUS
    <3>1. CASE l = k
      BY <1>0, <1>1, <1>2, <1>5, <3>1
    <3>2. CASE l # k
      <4>1. sock'[l] = sock[l] /\ sock[l] \in Conns \ {c}
        BY <1>0, <1>2, <1>4, <3>2 DEF TypeOK
      <4> QED BY <1>0, <1>1, <4>1 DEF IInv, Linked
    <3> QED BY <3>1, <3>2
  <2>5. \A d \in Conns : ~Reading(d)' => wire'[d] = <<>>
    BY <1>0, <2>1 DEF IInv, Linked
  <2> QED BY <2>3, <2>4, <2>5 DEF Linked
<1>7. Staged'
    BY <1>0, <1>1, <1>5 DEF IInv, Staged
<1>8. Counted(k) /\ rendered[k] \in Nat /\ received[k] \in Nat
    BY <1>0 DEF IInv, Drawing, TypeOK
<1>9. Counted(k)'
  <2>1. \A d \in Conns : sock'[k] = d => Fresh(k, d)'
    BY <1>0, <1>2, <1>5 DEF Fresh
  <2>2. k \in Apps => rendered[k] = received[k]
    BY <1>8, FlowTrivial DEF Counted
  <2> QED BY <1>0, <1>2, <1>8, <2>1, <2>2, FlowTrivial, EmptyIs DEF Counted
<1>10. ASSUME NEW d \in Conns, sock'[k] = d PROVE Arriving(k, d)' /\ Queued(k, d)'
  <2>1. d = c
    BY <1>2, <1>10
  <2>2. since'[c] <= received[k] /\ (k \in Apps => since'[c] = received[k])
    BY <1>1, <1>8, FlowTrivial DEF Counted
  <2>3. Arriving(k, c)' /\ Queued(k, c)'
    BY <1>0, <1>1, <1>5, <2>2, FlowTrivial, EmptyIs DEF Arriving, Queued
  <2> QED BY <2>1, <2>3
<1>11. \A l \in Clients \ {k} : SameClient(l)
    BY <1>0, <1>2 DEF SameClient
<1>12. \A l \in Clients \ {k} : \A d \in Conns : sock[l] = d => SameConn(d)
    BY <1>0, <1>1, <1>4 DEF SameConn
<1> QED BY <1>0, <1>3, <1>6, <1>7, <1>9, <1>10, <1>11, <1>12, ClientStep

\* A client gives up its socket, and keeps its counters or starts over.
LEMMA LeaveStep ==
    ASSUME IInv, TypeOK', NEW k \in Clients,
           UNCHANGED <<nextSeq, current, lagging, phase, step, since, queue, pump>>,
           sock' = [sock EXCEPT ![k] = NoConn],
           bye' \subseteq bye \cup ({sock[k]} \ {NoConn}),
           \A c \in Conns : wire'[c] = IF c = sock[k] THEN <<>> ELSE wire[c],
           \A l \in Clients \ {k} : /\ rendered'[l] = rendered[l] /\ received'[l] = received[l]
                                    /\ drawing'[l] = drawing[l],
           \/ rendered'[k] = 0 /\ received'[k] = 0 /\ drawing'[k] = <<>>
           \/ /\ rendered'[k] = rendered[k] /\ received'[k] = received[k]
              /\ drawing'[k] = drawing[k]
    PROVE  IInv'
<1>0. TypeOK /\ nextSeq \in Nat
    BY DEF IInv, TypeOK
<1>1. sock'[k] = NoConn /\ \A l \in Clients \ {k} : sock'[l] = sock[l]
    BY <1>0 DEF TypeOK
<1>2. \A c \in Conns : c # NoConn
    BY DEF Conns, NoConn
<1>3. \A l \in Clients \ {k} : \A c \in Conns : sock[l] = c => c # sock[k] /\ wire'[c] = wire[c]
    BY OthersConns
<1>4. Linked'
  <2>1. \A l \in Clients : sock'[l] # NoConn => l # k /\ sock'[l] = sock[l] /\ sock[l] \in Conns
    BY <1>0, <1>1 DEF TypeOK
  <2>2. \A l, m \in Clients : sock'[l] = sock'[m] /\ sock'[l] # NoConn => l = m
    BY <2>1 DEF IInv, Linked
  <2>3. \A l \in Clients : sock'[l] # NoConn =>
            phase'[sock'[l]] \in {"idle", "opening", "running"} /\ sock'[l] \notin bye'
    BY <1>3, <2>1 DEF IInv, Linked
  <2>4. ASSUME NEW c \in Conns, ~Reading(c)' PROVE wire'[c] = <<>>
    <3>1. CASE c = sock[k]
      BY <3>1
    <3>2. CASE c # sock[k]
      <4>1. ~Reading(c)
        BY <1>1, <2>4, <3>2 DEF Reading
      <4> QED BY <3>2, <4>1 DEF IInv, Linked
    <3> QED BY <3>1, <3>2
  <2> QED BY <2>2, <2>3, <2>4 DEF Linked
<1>5. Staged'
  <2>1. \A c \in Conns : phase[c] = "unused" => sock[k] # c
    BY ReaderIs
  <2> QED BY <2>1 DEF IInv, Staged
<1>6. Counted(k)'
  <2>1. Counted(k) /\ rendered[k] \in Nat /\ received[k] \in Nat
    BY <1>0 DEF IInv, Drawing, TypeOK
  <2>2. \A c \in Conns : ~Fresh(k, c)' /\ sock'[k] # c
    BY <1>1, <1>2 DEF Fresh
  <2>3. CASE rendered'[k] = 0 /\ received'[k] = 0 /\ drawing'[k] = <<>>
    BY <1>0, <2>2, <2>3, FlowTrivial, EmptyIs DEF Counted
  <2>4. CASE /\ rendered'[k] = rendered[k] /\ received'[k] = received[k]
             /\ drawing'[k] = drawing[k]
    BY <1>0, <2>1, <2>2, <2>4 DEF Counted
  <2> QED BY <2>3, <2>4
<1>7. \A l \in Clients \ {k} : SameClient(l)
    BY <1>1 DEF SameClient
<1>8. \A l \in Clients \ {k} : \A c \in Conns : sock[l] = c => SameConn(c)
    BY <1>3 DEF SameConn
<1>9. \A c \in Conns : sock'[k] # c
    BY <1>1, <1>2
<1> QED BY <1>4, <1>5, <1>6, <1>7, <1>8, <1>9, ClientStep

\* The link goes, a tab reloads, the user ends the terminal.
LEMMA LeftStep ==
    ASSUME IInv, NEW k \in Clients, LinkDrop(k) \/ Reload(k) \/ CloseShell(k)
    PROVE  IInv'
<1> USE DEF sessionVars, storeVars, connVars, pipeVars, clientVars
<1>0. /\ UNCHANGED <<nextSeq, current, latest, detached, closed, lagging, inStore, ending,
                     closeIn, drive, phase, step, since, queue, pump, marker>>
      /\ TypeOK /\ sock' = [sock EXCEPT ![k] = NoConn]
    BY DEF LinkDrop, Reload, CloseShell, Drop, IInv
<1>1. sock' \in [Clients -> Conns \cup {NoConn}]
    BY <1>0 DEF TypeOK
<1>2. CASE LinkDrop(k)
  <2>1. /\ UNCHANGED <<bye, rendered, received, drawing>>
        /\ sock[k] \in Conns /\ wire' = [wire EXCEPT ![sock[k]] = <<>>]
        /\ faults' = faults + 1
        /\ finished' = [finished EXCEPT ![k] = IF HasHandle(k) THEN @ ELSE "failed"]
    BY <1>0, <1>2 DEF LinkDrop, Drop, TypeOK
  <2>2. /\ wire' \in [Conns -> Seq(WireFrame)]
        /\ \A c \in Conns : wire'[c] = IF c = sock[k] THEN <<>> ELSE wire[c]
    BY <1>0, <2>1 DEF TypeOK
  <2>3. faults' \in Nat
    BY <1>0, <2>1 DEF TypeOK
  <2>4. finished' \in [Clients -> {"no", "exit", "revoked", "superseded", "gone", "failed",
                                  "closed", "left"}]
    BY <1>0, <2>1 DEF TypeOK
  <2>5. TypeOK'
    BY <1>0, <1>1, <2>1, <2>2, <2>3, <2>4, Zenon DEF TypeOK
  <2> QED BY <1>0, <2>1, <2>2, <2>5, LeaveStep
<1>3. CASE Reload(k)
  <2>1. /\ bye' = bye /\ faults' = faults + 1
        /\ wire' = [c \in Conns |-> IF c = sock[k] THEN <<>> ELSE wire[c]]
        /\ finished' = [finished EXCEPT ![k] = "no"]
        /\ rendered' = [rendered EXCEPT ![k] = 0] /\ received' = [received EXCEPT ![k] = 0]
        /\ drawing' = [drawing EXCEPT ![k] = <<>>]
    BY <1>3 DEF Reload
  <2>2. /\ wire' \in [Conns -> Seq(WireFrame)]
        /\ \A c \in Conns : wire'[c] = IF c = sock[k] THEN <<>> ELSE wire[c]
    BY <1>0, <2>1 DEF TypeOK
  <2>3. faults' \in Nat
    BY <1>0, <2>1 DEF TypeOK
  <2>4. finished' \in [Clients -> {"no", "exit", "revoked", "superseded", "gone", "failed",
                                  "closed", "left"}]
    BY <1>0, <2>1 DEF TypeOK
  <2>5. /\ rendered' \in [Clients -> Nat] /\ received' \in [Clients -> Nat]
        /\ drawing' \in [Clients -> Seq(Output)]
        /\ rendered'[k] = 0 /\ received'[k] = 0 /\ drawing'[k] = <<>>
        /\ \A l \in Clients \ {k} : /\ rendered'[l] = rendered[l] /\ received'[l] = received[l]
                                    /\ drawing'[l] = drawing[l]
    BY <1>0, <2>1 DEF TypeOK
  <2>6. TypeOK'
    BY <1>0, <1>1, <2>1, <2>2, <2>3, <2>4, <2>5, Zenon DEF TypeOK
  <2> QED BY <1>0, <2>1, <2>2, <2>5, <2>6, LeaveStep
<1>4. CASE CloseShell(k)
  <2>1. /\ UNCHANGED <<rendered, received, drawing, faults>>
        /\ bye' = bye \cup ({sock[k]} \ {NoConn})
        /\ wire' = [c \in Conns |-> IF c = sock[k] THEN <<>> ELSE wire[c]]
        /\ finished' = [finished EXCEPT ![k] = IF sock[k] = NoConn THEN "left" ELSE "closed"]
    BY <1>4 DEF CloseShell
  <2>2. /\ wire' \in [Conns -> Seq(WireFrame)]
        /\ \A c \in Conns : wire'[c] = IF c = sock[k] THEN <<>> ELSE wire[c]
    BY <1>0, <2>1 DEF TypeOK
  <2>3. bye' \in SUBSET Conns
    BY <1>0, <2>1 DEF TypeOK
  <2>4. finished' \in [Clients -> {"no", "exit", "revoked", "superseded", "gone", "failed",
                                  "closed", "left"}]
    BY <1>0, <2>1 DEF TypeOK
  <2>5. TypeOK'
    BY <1>0, <1>1, <2>1, <2>2, <2>3, <2>4, Zenon DEF TypeOK
  <2> QED BY <1>0, <2>1, <2>2, <2>5, LeaveStep
<1> QED BY <1>2, <1>3, <1>4

\* The frame that ends a connection is read.
LEMMA LastFrameStep ==
    ASSUME IInv, NEW k \in Clients, sock[k] # NoConn, Incoming(k) # <<>>,
           ReceiveReplay(k) \/ ReceiveEnd(k),
           UNCHANGED <<sessionVars, storeVars, connVars, pipeVars, faults>>
    PROVE  IInv'
<1> USE DEF sessionVars, storeVars, connVars, pipeVars
<1>1. /\ TypeOK /\ sock[k] \in Conns /\ UNCHANGED <<rendered, received, drawing>>
      /\ sock' = [sock EXCEPT ![k] = NoConn] /\ wire' = [wire EXCEPT ![sock[k]] = <<>>]
    BY DEF ReceiveReplay, ReceiveEnd, Drop, IInv, TypeOK
<1>2. sock' \in [Clients -> Conns \cup {NoConn}]
    BY <1>1 DEF TypeOK
<1>3. /\ wire' \in [Conns -> Seq(WireFrame)]
      /\ \A c \in Conns : wire'[c] = IF c = sock[k] THEN <<>> ELSE wire[c]
    BY <1>1 DEF TypeOK
<1>4. finished' \in [Clients -> {"no", "exit", "revoked", "superseded", "gone", "failed",
                                "closed", "left"}]
  <2>1. CASE ReceiveReplay(k)
    BY <1>1, <2>1 DEF ReceiveReplay, TypeOK
  <2>2. CASE ReceiveEnd(k)
    <3>1. Verdict(k, Head(Incoming(k)).kind) \in {"exit", "revoked", "superseded", "gone", "failed"}
      BY <2>2 DEF ReceiveEnd, Verdict
    <3> QED BY <1>1, <2>2, <3>1 DEF ReceiveEnd, TypeOK
  <2> QED BY <2>1, <2>2
<1>5. TypeOK'
    BY <1>1, <1>2, <1>3, <1>4, Zenon DEF TypeOK
<1> QED BY <1>1, <1>3, <1>5, LeaveStep

\* Any other frame is read: the stream goes on behind it.
LEMMA ConsumeStep ==
    ASSUME IInv, TypeOK', NEW k \in Clients, NEW c \in Conns, sock[k] = c, wire[c] # <<>>,
           UNCHANGED <<nextSeq, current, lagging, phase, step, since, bye, queue, pump, sock>>,
           wire' = [wire EXCEPT ![c] = Tail(@)],
           \A l \in Clients \ {k} : /\ rendered'[l] = rendered[l] /\ received'[l] = received[l]
                                    /\ drawing'[l] = drawing[l],
           Head(wire[c]).kind \notin Terminals,
           pump[c] = "none" => received'[k] = received[k],
           pump[c] # "none" => received'[k] = Head(wire[c]).to,
           Counted(k)'
    PROVE  IInv'
<1>0. /\ TypeOK /\ Arriving(k, c) /\ Queued(k, c) /\ wire[c] \in Seq(WireFrame) /\ Reading(c)
    BY ReaderIs DEF IInv
<1>1. wire'[c] = Tail(wire[c]) /\ \A d \in Conns \ {c} : wire'[d] = wire[d]
    BY <1>0 DEF TypeOK
<1>2. Linked'
    BY <1>0, <1>1 DEF IInv, Linked, Reading
<1>3. Staged'
    BY DEF IInv, Staged
<1>4. \A l \in Clients \ {k} : SameClient(l)
    BY DEF SameClient
<1>5. \A l \in Clients \ {k} : \A d \in Conns : sock[l] = d => SameConn(d)
    BY <1>1, OthersConns DEF SameConn
<1>6. step[c] = "none"
    BY <1>0 DEF Arriving
<1>7. Sound(wire'[c], nextSeq)
    BY <1>0, <1>1, SoundTail DEF Arriving
<1>8. /\ Late(wire'[c]) /\ OfKinds(wire'[c], Allowed(pump[c]))
      /\ wire'[c] # <<>> => wire'[c][1].kind # "ready"
      /\ pump[c] = "off" => Told(wire'[c])
    BY <1>0, <1>1, KindsTail DEF Arriving
<1>9. Resumes(wire'[c], received'[k], k \in Apps)
    BY <1>8 DEF Resumes
<1>10. /\ Flow(wire'[c], received'[k])
       /\ pump[c] = "on" => Reach(wire'[c], received'[k]) = Reach(wire[c], received[k])
  <2>1. CASE pump[c] = "none"
    <3>1. Allowed("none") = {"gone", "forbidden"}
      BY DEF Allowed
    <3>2. wire'[c] \in Seq(WireFrame)
      BY <1>0, <1>1, TailIs
    <3> QED BY <1>8, <2>1, <3>1, <3>2, FlowTrivial
  <2>2. CASE pump[c] # "none"
    BY <1>0, <1>1, <2>2, FlowTail DEF Arriving
  <2> QED BY <2>1, <2>2
<1>11. Arriving(k, c)'
    BY <1>6, <1>7, <1>8, <1>9, <1>10 DEF Arriving
<1>12. Queued(k, c)'
    BY <1>0, <1>10 DEF Queued
<1>13. \A d \in Conns : sock'[k] = d => Arriving(k, d)' /\ Queued(k, d)'
    BY <1>11, <1>12
<1> QED BY <1>2, <1>3, <1>4, <1>5, <1>13, ClientStep

\* A frame is read.
LEMMA ReceiveStep ==
    ASSUME IInv, NEW k \in Clients, Receive(k)
    PROVE  IInv'
<1> USE DEF sessionVars, storeVars, connVars, pipeVars, clientVars
<1>0. /\ UNCHANGED <<nextSeq, current, latest, detached, closed, lagging, inStore, ending,
                     closeIn, drive, phase, step, since, bye, queue, pump, marker, faults>>
      /\ TypeOK /\ sock[k] # NoConn /\ Incoming(k) # <<>>
    BY DEF Receive, IInv
<1>1. PICK c \in Conns : sock[k] = c
    BY <1>0 DEF TypeOK
<1>2. PICK e : e = Head(wire[c])
    OBVIOUS
<1>3. /\ wire[c] # <<>> /\ wire[c] \in Seq(WireFrame) /\ Arriving(k, c) /\ Counted(k)
      /\ received[k] \in Nat /\ rendered[k] \in Nat /\ nextSeq \in Nat
      /\ drawing[k] \in Seq(Output) /\ received[k] <= nextSeq
    BY <1>0, <1>1, ReaderIs DEF Incoming, TypeOK
<1>4. /\ e \in WireFrame /\ e = wire[c][1] /\ Tail(wire[c]) \in Seq(WireFrame)
      /\ e.from \in Nat /\ e.to \in Nat
    BY <1>2, <1>3, TailIs, FrameType
<1>5. /\ e.from <= e.to /\ e.to <= nextSeq /\ (e.kind # "data" => e.from = e.to)
    BY <1>2, <1>3, SoundTail DEF Arriving
<1>6. e.kind \in Follows => e.from = received[k]
    BY <1>2, <1>3, FlowTail DEF Arriving
<1>7. e.kind \in Allowed(pump[c])
    BY <1>2, <1>3, KindsTail DEF Arriving
<1>8. pump[c] \in {"none", "on", "off"}
    BY <1>0 DEF TypeOK
<1>9. Tail(wire[c]) # <<>> => Tail(wire[c])[1].kind # "ready"
    BY <1>3, KindsTail DEF Arriving
<1>10. ASSUME wire' = [wire EXCEPT ![c] = Tail(@)]
       PROVE  wire' \in [Conns -> Seq(WireFrame)] /\ wire'[c] = Tail(wire[c])
    BY <1>0, <1>4, <1>10 DEF TypeOK
<1>11. CASE ReceiveReady(k)
  <2>1. /\ e.kind = "ready" /\ UNCHANGED <<sock, finished, drawing>>
        /\ rendered' = [rendered EXCEPT ![k] = e.from]
        /\ received' = [received EXCEPT ![k] = e.from]
        /\ wire' = [wire EXCEPT ![c] = Tail(@)]
    BY <1>1, <1>2, <1>11 DEF ReceiveReady, Consume, Incoming
  <2>2. /\ rendered' \in [Clients -> Nat] /\ received' \in [Clients -> Nat]
        /\ rendered'[k] = e.to /\ received'[k] = e.to
        /\ \A l \in Clients \ {k} : rendered'[l] = rendered[l] /\ received'[l] = received[l]
    BY <1>0, <1>4, <1>5, <2>1 DEF TypeOK
  <2>3. TypeOK'
    BY <1>0, <1>10, <2>1, <2>2, Zenon DEF TypeOK
  <2>4. pump[c] # "none"
    BY <1>7, <2>1 DEF Allowed
  <2>5. drawing[k] = <<>>
    BY <1>1, <1>3, <1>4, <2>1 DEF Counted, Fresh
  <2>6. Counted(k)'
    BY <1>0, <1>4, <1>5, <2>1, <2>2, <2>5, FlowTrivial, EmptyIs DEF Counted
  <2>7. e.kind \notin Terminals
    BY <2>1 DEF Terminals
  <2> QED BY <1>0, <1>1, <1>2, <1>3, <2>1, <2>2, <2>3, <2>4, <2>6, <2>7, ConsumeStep
<1>12. CASE ReceiveNotice(k)
  <2>1. /\ e.kind \in {"truncated", "forbidden"}
        /\ UNCHANGED <<sock, finished, rendered, received, drawing>>
        /\ wire' = [wire EXCEPT ![c] = Tail(@)]
    BY <1>1, <1>2, <1>12 DEF ReceiveNotice, Consume, Incoming
  <2>2. TypeOK'
    BY <1>0, <1>10, <2>1, Zenon DEF TypeOK
  <2>3. pump[c] = "none" <=> e.kind = "forbidden"
    BY <1>7, <1>8, <2>1 DEF Allowed, Terminals
  <2>4. pump[c] # "none" => received[k] = e.to
    BY <1>5, <1>6, <2>1, <2>3 DEF Follows
  <2>5. Fresh(k, c)' <=> Fresh(k, c)
    <3>1. wire'[c] = Tail(wire[c])
      BY <1>10, <2>1
    <3> QED BY <1>0, <1>4, <1>9, <2>1, <3>1 DEF Fresh
  <2>6. Counted(k)'
    <3>1. SameClient(k) /\ nextSeq' \in Nat /\ nextSeq <= nextSeq'
      BY <1>0, <1>3, <2>1 DEF SameClient
    <3> QED BY <1>0, <1>1, <1>3, <2>5, <3>1, CountedStays
  <2>7. e.kind \notin Terminals
    BY <2>1 DEF Terminals
  <2>8. \A l \in Clients \ {k} : /\ rendered'[l] = rendered[l] /\ received'[l] = received[l]
                                 /\ drawing'[l] = drawing[l]
    BY <2>1
  <2>9. /\ pump[c] = "none" => received'[k] = received[k]
        /\ pump[c] # "none" => received'[k] = e.to
    BY <2>1, <2>4
  <2> QED BY <1>0, <1>1, <1>2, <1>3, <2>1, <2>2, <2>6, <2>7, <2>8, <2>9, ConsumeStep
<1>13. CASE ReceiveData(k)
  <2>1. /\ e.kind = "data" /\ UNCHANGED <<sock, finished>>
        /\ received' = [received EXCEPT ![k] = e.to]
        /\ wire' = [wire EXCEPT ![c] = Tail(@)]
        /\ k \in Apps =>
            /\ rendered' = [rendered EXCEPT ![k] = @ + (e.to - e.from)] /\ drawing' = drawing
        /\ k \notin Apps =>
            /\ drawing' = [drawing EXCEPT ![k] = Append(@, e)] /\ rendered' = rendered
    BY <1>1, <1>2, <1>13 DEF ReceiveData, Consume, Incoming
  <2>2. pump[c] # "none" /\ e.from = received[k] /\ e.kind \notin Terminals
    BY <1>6, <1>7, <2>1 DEF Allowed, Follows, Terminals
  <2>3. ~Fresh(k, c) /\ \A d \in Conns : ~Fresh(k, d)'
    <3>1. wire'[c] = Tail(wire[c])
      BY <1>10, <2>1
    <3> QED BY <1>0, <1>1, <1>4, <1>9, <2>1, <2>2, <3>1 DEF Fresh
  <2>4. Reach(drawing[k], rendered[k]) = received[k]
    BY <1>1, <1>3, <2>3 DEF Counted
  <2>5. /\ received' \in [Clients -> Nat] /\ received'[k] = e.to
        /\ \A l \in Clients \ {k} : received'[l] = received[l]
    BY <1>0, <1>4, <2>1 DEF TypeOK
  <2>6. e \in Output
    BY <1>4, <2>1 DEF WireFrame, Output, Kinds
  <2>7. CASE k \in Apps
    <3>1. drawing[k] = <<>> /\ rendered[k] = received[k]
      BY <1>3, <2>4, <2>7, FlowTrivial DEF Counted
    <3>2. rendered[k] + (e.to - e.from) = e.to
      BY <1>3, <1>4, <2>2, <3>1
    <3>3. /\ rendered' \in [Clients -> Nat] /\ rendered'[k] = e.to
          /\ \A l \in Clients \ {k} : rendered'[l] = rendered[l]
      BY <1>0, <1>4, <2>1, <2>7, <3>2 DEF TypeOK
    <3>4. TypeOK'
      <4>1. drawing' = drawing /\ UNCHANGED <<sock, finished>>
            /\ wire' \in [Conns -> Seq(WireFrame)]
        BY <1>10, <2>1, <2>7
      <4> QED BY <1>0, <2>5, <3>3, <4>1, Zenon DEF TypeOK
    <3>5. Counted(k)'
      BY <1>0, <1>4, <1>5, <2>1, <2>5, <2>7, <3>1, <3>3, FlowTrivial, EmptyIs DEF Counted
    <3> QED BY <1>0, <1>1, <1>2, <1>3, <2>1, <2>2, <2>5, <2>7, <3>3, <3>4, <3>5, ConsumeStep
  <2>8. CASE k \notin Apps
    <3>1. /\ drawing' \in [Clients -> Seq(Output)] /\ drawing'[k] = Append(drawing[k], e)
          /\ \A l \in Clients \ {k} : drawing'[l] = drawing[l]
      <4>1. drawing' = [drawing EXCEPT ![k] = Append(@, e)]
        BY <2>1, <2>8
      <4>2. Append(drawing[k], e) \in Seq(Output)
        BY <1>3, <2>6, AppendIs
      <4>3. drawing \in [Clients -> Seq(Output)]
        BY <1>0 DEF TypeOK
      <4> QED BY <4>1, <4>2, <4>3
    <3>2. TypeOK'
      <4>1. rendered' = rendered /\ UNCHANGED <<sock, finished>>
            /\ wire' \in [Conns -> Seq(WireFrame)]
        BY <1>10, <2>1, <2>8
      <4> QED BY <1>0, <2>5, <3>1, <4>1, Zenon DEF TypeOK
    <3>3. drawing[k] \in Seq(WireFrame)
      BY <1>3, OutputIsFrame
    <3>4. Flow(drawing'[k], rendered[k]) /\ Reach(drawing'[k], rendered[k]) = e.to
      <4>1. Flow(drawing[k], rendered[k])
        BY <1>3 DEF Counted
      <4> QED BY <1>4, <2>2, <2>4, <3>1, <3>3, <4>1, FlowAppend
    <3>5. Sound(drawing'[k], e.to)
      <4>1. Sound(drawing[k], e.to)
        BY <1>3, <1>4, <1>5, <2>2, <3>3, SoundGrows DEF Counted
      <4> QED BY <1>4, <1>5, <2>1, <3>1, <3>3, <4>1, SoundAppend
    <3>6. OfKinds(drawing'[k], {"data"})
      <4>1. OfKinds(drawing[k], {"data"}) /\ e.kind \in {"data"}
        BY <1>3, <2>1 DEF Counted
      <4> QED BY <1>4, <3>1, <3>3, <4>1, KindsAppend
    <3>7. rendered[k] <= e.to
      BY <1>3, <1>4, <1>5, <2>2 DEF Counted
    <3>8. Counted(k)'
      BY <1>0, <1>5, <2>1, <2>3, <2>5, <2>8, <3>4, <3>5, <3>6, <3>7 DEF Counted
    <3> QED BY <1>0, <1>1, <1>2, <1>3, <2>1, <2>2, <2>5, <2>8, <3>1, <3>2, <3>8, ConsumeStep
  <2> QED BY <2>7, <2>8
<1>14. CASE ReceiveReplay(k) \/ ReceiveEnd(k)
    BY <1>0, <1>14, LastFrameStep
<1> QED BY <1>11, <1>12, <1>13, <1>14 DEF Receive

\* A write of the renderer is through.
LEMMA DrawStep ==
    ASSUME IInv, NEW k \in Clients, Draw(k)
    PROVE  IInv'
<1> USE DEF sessionVars, storeVars, connVars, pipeVars, clientVars
<1>0. /\ UNCHANGED <<nextSeq, current, latest, detached, closed, lagging, inStore, ending,
                     closeIn, drive, phase, step, since, bye, queue, pump, marker, wire, sock,
                     finished, received, faults>>
      /\ TypeOK /\ drawing[k] # <<>> /\ drawing[k] \in Seq(Output) /\ rendered[k] \in Nat
      /\ received[k] \in Nat /\ Counted(k)
    BY DEF Draw, IInv, TypeOK, Drawing
<1>1. PICK e : e = Head(drawing[k])
    OBVIOUS
<1>2. /\ drawing[k] \in Seq(WireFrame) /\ e \in WireFrame /\ e.from \in Nat /\ e.to \in Nat
      /\ Tail(drawing[k]) \in Seq(Output)
    BY <1>0, <1>1, OutputIsFrame, TailIs, FrameType
<1>3. e.kind = "data" /\ OfKinds(Tail(drawing[k]), {"data"})
  <2>1. OfKinds(drawing[k], {"data"})
    BY <1>0 DEF Counted
  <2> QED BY <1>0, <1>1, <1>2, <2>1, KindsTail
<1>4. Sound(Tail(drawing[k]), received[k]) /\ e.from <= e.to /\ e.to <= received[k]
    BY <1>0, <1>1, <1>2, SoundTail DEF Counted
<1>5. /\ Flow(Tail(drawing[k]), e.to) /\ Reach(Tail(drawing[k]), e.to) = received[k]
      /\ e.from = rendered[k]
  <2>1. Flow(drawing[k], rendered[k]) /\ Reach(drawing[k], rendered[k]) = received[k]
    BY <1>0 DEF Counted
  <2> QED BY <1>0, <1>1, <1>2, <1>3, <2>1, FlowTail DEF Follows
<1>6. rendered[k] + (e.to - e.from) = e.to
    BY <1>0, <1>2, <1>5
<1>7. /\ rendered' \in [Clients -> Nat] /\ drawing' \in [Clients -> Seq(Output)]
      /\ rendered'[k] = e.to /\ drawing'[k] = Tail(drawing[k])
      /\ \A l \in Clients \ {k} : rendered'[l] = rendered[l] /\ drawing'[l] = drawing[l]
    BY <1>0, <1>1, <1>2, <1>6 DEF Draw, TypeOK
<1>8. TypeOK'
    BY <1>0, <1>7, Zenon DEF TypeOK
<1>9. Linked' /\ Staged'
    BY <1>0 DEF IInv, Linked, Staged, Reading
<1>10. Counted(k)'
  <2>1. \A c \in Conns : ~Fresh(k, c)'
    BY <1>0 DEF Counted, Fresh
  <2>2. k \notin Apps
    BY <1>0 DEF Counted
  <2>3. received'[k] <= nextSeq'
    BY <1>0 DEF Counted
  <2> QED BY <1>0, <1>3, <1>4, <1>5, <1>7, <2>1, <2>2, <2>3 DEF Counted
<1>11. \A l \in Clients \ {k} : SameClient(l)
    BY <1>0, <1>7 DEF SameClient
<1>12. \A c \in Conns : SameConn(c)
    BY <1>0 DEF SameConn
<1>13. \A c \in Conns : sock'[k] = c => Arriving(k, c)' /\ Queued(k, c)'
    BY <1>0, ReaderIs DEF Arriving, Queued
<1> QED BY <1>0, <1>8, <1>9, <1>10, <1>11, <1>12, <1>13, ClientStep

-----------------------------------------------------------------------------
(***************************************************************************)
(* The invariant holds, and with it the properties of the stream.          *)
(***************************************************************************)

\* open_local leaves the opener its `ready`, and everybody else nothing.
LEMMA InitStep == Init => IInv
<1> SUFFICES ASSUME Init PROVE IInv
    OBVIOUS
<1>1. 1 \in Conns /\ NoConn \notin Conns /\ Opener \in Clients /\ 1 # NoConn
    BY StreamAssumption DEF Conns, NoConn
<1>2. PICK s : s = <<Control("ready", 0)>>
    OBVIOUS
<1>3. nextSeq = 0 /\ Streams(s) /\ (\A x : Reach(s, x) = 0) /\ s[1].from = 0
    BY <1>2, ReadyIs DEF Init
<1>4. /\ \A c \in Conns : /\ wire[c] = IF c = 1 THEN s ELSE <<>>
                          /\ pump[c] = IF c = 1 THEN "on" ELSE "none"
                          /\ phase[c] = IF c = 1 THEN "running" ELSE "unused"
                          /\ step[c] = "none" /\ queue[c] = <<>>
      /\ \A k \in Clients : /\ sock[k] = IF k = Opener THEN 1 ELSE NoConn
                            /\ rendered[k] = 0 /\ received[k] = 0 /\ drawing[k] = <<>>
      /\ bye = {}
    BY <1>2 DEF Init
<1>5. TypeOK
  <2>1. wire \in [Conns -> Seq(WireFrame)]
    <3>1. wire = [c \in Conns |-> IF c = 1 THEN s ELSE <<>>]
      BY <1>2 DEF Init
    <3> QED BY <1>3, <3>1 DEF Streams
  <2>2. sock \in [Clients -> Conns \cup {NoConn}] /\ pump \in [Conns -> {"none", "on", "off"}]
        /\ phase \in [Conns -> {"unused", "idle", "opening", "running", "done"}]
    BY <1>1 DEF Init
  <2>3. /\ since \in [Conns -> Nat] /\ rendered \in [Clients -> Nat]
        /\ received \in [Clients -> Nat] /\ faults \in Nat
        /\ queue \in [Conns -> Seq(Output)] /\ drawing \in [Clients -> Seq(Output)]
        /\ marker \in [Conns -> BOOLEAN] /\ step \in [Conns -> {"none", "sent", "may"}]
        /\ finished \in [Clients -> {"no", "exit", "revoked", "superseded", "gone", "failed",
                                    "closed", "left"}]
    BY DEF Init
  <2>4. /\ nextSeq \in Nat /\ current \in Conns \cup {NoConn} /\ latest \in Conns \cup {NoConn}
        /\ detached \in BOOLEAN /\ closed \in BOOLEAN /\ lagging \in BOOLEAN
        /\ inStore \in BOOLEAN /\ ending \in {"no", "revoke", "reap"} /\ closeIn \in BOOLEAN
        /\ drive \in {"running", "ending", "gone"} /\ bye \in SUBSET Conns
    BY <1>1 DEF Init
  <2> QED BY <2>1, <2>2, <2>3, <2>4, Zenon DEF TypeOK
<1>6. Linked
    BY <1>1, <1>4 DEF Linked, Reading
<1>7. Staged
    BY <1>4 DEF Staged
<1>8. Stream
  <2> SUFFICES ASSUME NEW k \in Clients, NEW c \in Conns, sock[k] = c
               PROVE  Arriving(k, c) /\ Queued(k, c)
    BY DEF Stream
  <2>1. c = 1 /\ wire[c] = s /\ pump[c] = "on" /\ received[k] = 0 /\ queue[c] = <<>>
        /\ step[c] = "none"
    BY <1>1, <1>4
  <2>2. Allowed("on") = {"ready", "truncated", "data"}
    BY DEF Allowed
  <2>3. Resumes(s, 0, k \in Apps)
    BY <1>3 DEF Resumes
  <2>4. Arriving(k, c)
    BY <1>3, <2>1, <2>2, <2>3 DEF Arriving, Streams
  <2>5. Queued(k, c)
    BY <1>3, <2>1, FlowTrivial, EmptyIs DEF Queued
  <2> QED BY <2>4, <2>5
<1>9. Drawing
  <2> SUFFICES ASSUME NEW k \in Clients PROVE Counted(k)
    BY DEF Drawing
  <2>1. rendered[k] = 0 /\ received[k] = 0 /\ drawing[k] = <<>> /\ nextSeq = 0
    BY <1>3, <1>4
  <2>2. /\ Flow(<<>>, 0) /\ Reach(<<>>, 0) = 0 /\ Sound(<<>>, 0) /\ OfKinds(<<>>, {"data"})
    BY FlowTrivial, EmptyIs
  <2> QED BY <2>1, <2>2 DEF Counted
<1> QED BY <1>5, <1>6, <1>7, <1>8, <1>9 DEF IInv

\* Every step keeps it.
LEMMA NextStep == IInv /\ [Next]_vars => IInv'
<1> SUFFICES ASSUME IInv, [Next]_vars PROVE IInv'
    OBVIOUS
<1>1. CASE Shell
    BY <1>1, ShellStep, QuietStep DEF Shell
<1>2. CASE Outside
    BY <1>2, TerminateStep, QuietStep DEF Outside
<1>3. ASSUME NEW c \in Conns, Attach(c) PROVE IInv'
    BY <1>3, FoundStep, RefusedStep, TakenStep, AbandonedStep DEF Attach
<1>4. ASSUME NEW c \in Conns, Disconnect(c) \/ HandleClose(c) \/ LoseClose(c) PROVE IInv'
    BY <1>4, DisconnectStep, CloseStep, QuietStep
<1>5. ASSUME NEW c \in Conns, Pump(c) \/ SendMarker(c) PROVE IInv'
    BY <1>5, PumpDataStep, PumpEndStep, MarkerStep DEF Pump
<1>6. ASSUME NEW k \in Clients, (\E c \in Conns : Connect(k, c)) \/ Receive(k) \/ Draw(k)
      PROVE  IInv'
    BY <1>6, ConnectStep, ReceiveStep, DrawStep
<1>7. ASSUME NEW k \in Clients, LinkDrop(k) \/ Reload(k) \/ CloseShell(k) PROVE IInv'
    BY <1>7, LeftStep
<1>8. CASE UNCHANGED vars
    BY <1>8, QuietStep
<1> QED BY <1>1, <1>2, <1>3, <1>4, <1>5, <1>6, <1>7, <1>8 DEF Next

\* Spec => []IInv, the induction every theorem below rests on.
LEMMA InvariantHolds == Spec => []IInv
  BY InitStep, NextStep, PTL DEF Spec

\* Every variable keeps its type, whatever the agent and the clients do.
THEOREM TypesHold == Spec => []TypeOK
<1>1. IInv => TypeOK
    BY DEF IInv
<1> QED BY <1>1, InvariantHolds, PTL

\* What a client is sent next, and what is said of it.
LEMMA ExpectedIs ==
    ASSUME IInv, NEW k \in Clients, Expecting(k)
    PROVE  \E c \in Conns : /\ sock[k] = c /\ Incoming(k) = wire[c] /\ wire[c] # <<>>
                            /\ NextFrame(k) = wire[c][1] /\ Arriving(k, c)
<1>1. sock[k] \in Conns
    BY DEF Expecting, IInv, TypeOK
<1>2. wire[sock[k]] # <<>> /\ wire[sock[k]] \in Seq(WireFrame) /\ Arriving(k, sock[k])
    BY <1>1, ReaderIs DEF Expecting, Incoming
<1>3. Head(wire[sock[k]]) = wire[sock[k]][1]
    BY <1>2, TailIs
<1> QED BY <1>1, <1>2, <1>3 DEF NextFrame, Incoming

\* The next frame of bytes begins exactly where the client's screen ends: the
\* lock Session::publish and Session::attach share, the queue that stops at a
\* drop and the replay together neither skip nor repeat a byte.
THEOREM OutputIsContiguous == Spec => []Contiguous
<1>1. IInv => Contiguous
  <2> SUFFICES ASSUME IInv, NEW k \in Clients, Expecting(k), NextFrame(k).kind = "data"
               PROVE  NextFrame(k).from = received[k]
    BY DEF Contiguous
  <2> QED BY ExpectedIs DEF Arriving, Flow, Follows
<1> QED BY <1>1, InvariantHolds, PTL

\* A reattached stream goes on at or before the end of the screen, or says that
\* output was lost: replay_from of what the client counted leaves no hole.
THEOREM ResumptionIsSound == Spec => []ResumeLeavesNoHole
<1>1. IInv => ResumeLeavesNoHole
  <2> SUFFICES ASSUME IInv, NEW k \in Clients, Expecting(k), NextFrame(k).kind = "ready"
               PROVE  \/ NextFrame(k).from <= received[k]
                         /\ (k \in Apps => NextFrame(k).from = received[k])
                      \/ Len(Incoming(k)) > 1 /\ Incoming(k)[2].kind = "truncated"
    BY DEF ResumeLeavesNoHole
  <2> QED BY ExpectedIs DEF Arriving, Resumes
<1> QED BY <1>1, InvariantHolds, PTL

\* The counter a client resumes from is never past what it was given, nor that
\* past what the shell wrote: `since` never leads Scrollback::next_seq.
THEOREM CounterIsBehind == Spec => []CounterNeverLeads
<1>1. IInv => CounterNeverLeads
    BY DEF IInv, Drawing, Counted, CounterNeverLeads
<1> QED BY <1>1, InvariantHolds, PTL

\* A socket whose pump_output has ended is not left open and quiet.
THEOREM EndsAreTold == Spec => []QuietSocketIsTold
<1>1. IInv => QuietSocketIsTold
    BY DEF IInv, Stream, Arriving, Told, Terminals, Reading, QuietSocketIsTold
<1> QED BY <1>1, InvariantHolds, PTL

-----------------------------------------------------------------------------
(***************************************************************************)
(* The attachment.                                                         *)
(***************************************************************************)

\* Steps of which the attachment and its channel know nothing.
LEMMA ElsewhereIs ==
    ASSUME NEW c \in Conns,
           \/ ShellBroken \/ ShellClosed \/ DriveEnd \/ (\E why \in {"revoke", "reap"} : TakeOut(why))
           \/ LoseClose(c) \/ HandleClose(c)
           \/ AttachFound(c) \/ AttachGone(c) \/ AttachForbidden(c) \/ AttachClosed(c)
    PROVE  UNCHANGED <<current, latest, closed, lagging, queue, pump, marker>>
  BY DEF ShellBroken, ShellClosed, DriveEnd, TakeOut, LoseClose, HandleClose, AttachFound,
         AttachGone, AttachForbidden, AttachClosed, sessionVars, storeVars, connVars, pipeVars

\* Nor do they know of the steps of a client.
LEMMA ClientsElsewhere ==
    ASSUME NEW k \in Clients,
           \/ (\E c \in Conns : Connect(k, c)) \/ Receive(k) \/ Draw(k) \/ LinkDrop(k)
           \/ Reload(k) \/ CloseShell(k)
    PROVE  UNCHANGED <<current, latest, closed, lagging, queue, pump, marker>>
  BY DEF Connect, Receive, Draw, LinkDrop, Reload, CloseShell, sessionVars, storeVars, connVars,
         pipeVars

\* ReplayRequired is queued for connection c, or waits for a slot.
Announced(c) == marker[c] \/ \E i \in 1 .. Len(queue[c]) : queue[c][i].kind = "replay"

\* It stays so while output is queued and bytes are pumped.
LEMMA AnnouncedStays ==
    ASSUME NEW q \in Seq(Output), NEW i \in 1 .. Len(q), q[i].kind = "replay"
    PROVE  /\ \A o \in Output : \E j \in 1 .. Len(Append(q, o)) : Append(q, o)[j].kind = "replay"
           /\ Head(q).kind # "replay" => \E j \in 1 .. Len(Tail(q)) : Tail(q)[j].kind = "replay"
<1>1. q # <<>>
    OBVIOUS
<1>2. ASSUME NEW o \in Output PROVE \E j \in 1 .. Len(Append(q, o)) : Append(q, o)[j].kind = "replay"
  <2>1. i \in 1 .. Len(Append(q, o)) /\ Append(q, o)[i] = q[i]
    BY AppendIs
  <2> QED BY <2>1
<1>3. ASSUME Head(q).kind # "replay" PROVE \E j \in 1 .. Len(Tail(q)) : Tail(q)[j].kind = "replay"
  <2>1. i # 1
    BY <1>1, <1>3, TailIs
  <2>2. i - 1 \in 1 .. Len(Tail(q)) /\ Tail(q)[i - 1] = q[i]
    BY <1>1, <2>1, TailIs
  <2> QED BY <2>2
<1> QED BY <1>2, <1>3

\* A client whose live output was cut is going to be told: after Session::publish
\* found a channel full, ReplayRequired is queued for it or waits for a slot.
THEOREM CutsAreAnnounced == Spec => []LagIsAnnounced
<1>1. Init => LagIsAnnounced
    BY DEF Init, LagIsAnnounced
<1>2. IInv /\ LagIsAnnounced /\ [Next]_vars => LagIsAnnounced'
  <2> SUFFICES ASSUME IInv, LagIsAnnounced, [Next]_vars, NEW c \in Conns,
                      lagging', current' = c, pump'[c] = "on"
               PROVE  Announced(c)'
    BY DEF LagIsAnnounced, Announced
  <2> USE DEF sessionVars, storeVars, connVars, pipeVars, clientVars
  <2>0. /\ TypeOK /\ queue[c] \in Seq(Output) /\ nextSeq \in Nat /\ NoConn # c
        /\ lagging /\ current = c /\ pump[c] = "on" => Announced(c)
    <3>0. TypeOK /\ NoConn # c
      BY DEF IInv, Conns, NoConn
    <3>1. queue \in [Conns -> Seq(Output)] /\ nextSeq \in Nat
      BY <3>0, Zenon DEF TypeOK
    <3>2. lagging /\ current = c /\ pump[c] = "on" => Announced(c)
      BY DEF LagIsAnnounced, Announced
    <3> QED BY <3>0, <3>1, <3>2
  <2>1. CASE UNCHANGED <<current, lagging, queue, pump, marker>>
    BY <2>0, <2>1 DEF Announced
  <2>2. ASSUME NEW o \in Output, Publish(o), pump' = pump PROVE Announced(c)'
    <3>1. CASE PublishUnattended
      BY <2>0, <2>2, <3>1 DEF PublishUnattended, Announced
    <3>2. CASE PublishLagged
      BY <2>0, <3>2 DEF PublishLagged, Announced, TypeOK
    <3> QED BY <2>0, <2>2, <3>1, <3>2 DEF Publish, PublishQueued, PublishClosed
  <2>3. ASSUME NEW n \in 1 .. MaxChunk, ShellData(n) PROVE Announced(c)'
    <3>1. Frame("data", nextSeq, nextSeq + n) \in Output
      <4>1. nextSeq + n \in Nat /\ "data" \in FrameKinds /\ "data" \in Kinds
        BY <2>0, StreamAssumption DEF FrameKinds, Kinds
      <4> QED BY <2>0, <4>1, FrameIs
    <3> QED BY <2>2, <2>3, <3>1 DEF ShellData
  <2>4. CASE ShellExit
    <3>1. Control("exit", nextSeq) \in Output
      <4>1. "exit" \in FrameKinds /\ "exit" \in Kinds
        BY DEF FrameKinds, Kinds
      <4> QED BY <2>0, <4>1, FrameIs
    <3> QED BY <2>2, <2>4, <3>1 DEF ShellExit
  <2>5. CASE Terminate
    BY <2>0, <2>5 DEF Terminate
  <2>6. ASSUME NEW d \in Conns, AttachTaken(d) \/ AttachAbandoned(d) PROVE Announced(c)'
    BY <2>6 DEF AttachTaken, AttachAbandoned
  <2>7. ASSUME NEW d \in Conns, Disconnect(d) PROVE Announced(c)'
    BY <2>0, <2>7 DEF Disconnect, Announced
  <2>8. ASSUME NEW d \in Conns, Pump(d) PROVE Announced(c)'
    <3>1. UNCHANGED <<current, lagging, marker>> /\ pump[d] = "on"
      BY <2>8 DEF Pump, PumpData, PumpLast, PumpSuperseded
    <3>2. CASE PumpEnds(d)
      <4>1. d # c /\ queue'[c] = queue[c] /\ pump'[c] = pump[c]
        BY <2>0, <3>2 DEF PumpEnds, TypeOK
      <4> QED BY <2>0, <3>1, <4>1 DEF Announced
    <3>3. CASE ~PumpEnds(d)
      <4>1. /\ queue[d] # <<>> /\ Head(queue[d]).kind = "data" /\ pump' = pump
            /\ queue' = [queue EXCEPT ![d] = Tail(@)]
        BY <2>8, <3>3 DEF Pump, PumpData, PumpLast, PumpSuperseded
      <4>2. Announced(c)
        BY <2>0, <3>1, <4>1
      <4>3. CASE d # c
        <5>1. queue'[c] = queue[c]
          BY <2>0, <4>1, <4>3 DEF TypeOK
        <5> QED BY <3>1, <4>2, <5>1 DEF Announced
      <4>4. CASE d = c /\ ~marker[c]
        <5>1. PICK i \in 1 .. Len(queue[c]) : queue[c][i].kind = "replay"
          BY <4>2, <4>4 DEF Announced
        <5>2. queue'[c] = Tail(queue[c]) /\ Head(queue[c]).kind # "replay"
          BY <2>0, <4>1, <4>4 DEF TypeOK
        <5> QED BY <2>0, <5>1, <5>2, AnnouncedStays DEF Announced
      <4> QED BY <3>1, <4>3, <4>4 DEF Announced
    <3> QED BY <3>2, <3>3
  <2>9. ASSUME NEW d \in Conns, SendMarker(d) PROVE Announced(c)'
    <3>1. UNCHANGED <<current, lagging, pump>> /\ marker' = [marker EXCEPT ![d] = FALSE]
      BY <2>9 DEF SendMarker
    <3>2. PICK o : o = Control("replay", nextSeq)
      OBVIOUS
    <3>3. o \in Output /\ o.kind = "replay"
      <4>1. "replay" \in FrameKinds /\ "replay" \in Kinds
        BY DEF FrameKinds, Kinds
      <4> QED BY <2>0, <3>2, <4>1, FrameIs
    <3>4. CASE d # c
      <4>1. marker'[c] = marker[c] /\ queue'[c] = queue[c]
        BY <2>0, <2>9, <3>1, <3>4 DEF SendMarker, TypeOK
      <4> QED BY <2>0, <3>1, <4>1 DEF Announced
    <3>5. CASE d = c
      <4>1. queue'[c] = Append(queue[c], o)
        BY <2>0, <2>9, <3>1, <3>2, <3>5 DEF SendMarker, TypeOK
      <4>2. Len(queue[c]) + 1 \in 1 .. Len(queue'[c]) /\ queue'[c][Len(queue[c]) + 1] = o
        BY <2>0, <3>3, <4>1, AppendIs
      <4> QED BY <3>3, <4>2 DEF Announced
    <3> QED BY <3>4, <3>5
  <2>10. ASSUME NEW d \in Conns, LoseClose(d) \/ HandleClose(d) \/ Attach(d) PROVE Announced(c)'
    BY <2>1, <2>6, <2>10, ElsewhereIs DEF Attach
  <2>11. CASE Shell \/ Outside
    BY <2>1, <2>3, <2>4, <2>5, <2>11, ElsewhereIs DEF Shell, Outside
  <2>12. ASSUME NEW k \in Clients,
                \/ (\E d \in Conns : Connect(k, d)) \/ Receive(k) \/ Draw(k) \/ LinkDrop(k)
                \/ Reload(k) \/ CloseShell(k)
         PROVE  Announced(c)'
    BY <2>1, <2>12, ClientsElsewhere
  <2>13. CASE UNCHANGED vars
    BY <2>1, <2>13 DEF vars
  <2> QED BY <2>7, <2>8, <2>9, <2>10, <2>11, <2>12, <2>13 DEF Next
<1> QED BY <1>1, <1>2, InvariantHolds, PTL DEF Spec

\* A late disconnect of an older connection never takes the session from the
\* newest one: Session::detach compares the AttachmentId.
THEOREM NewestIsAttached == Spec => []NewestStaysAttached
<1>1. Init => NewestStaysAttached
    BY DEF Init, NewestStaysAttached
<1>2. IInv /\ NewestStaysAttached /\ [Next]_vars => NewestStaysAttached'
  <2> SUFFICES ASSUME IInv, NewestStaysAttached, [Next]_vars, NEW c \in Conns,
                      latest' = c, phase'[c] = "running", pump'[c] = "on", ~closed'
               PROVE  current' = c
    BY DEF NewestStaysAttached
  <2> USE DEF sessionVars, storeVars, connVars, pipeVars, clientVars
  <2>0. /\ TypeOK
        /\ latest = c /\ phase[c] = "running" /\ pump[c] = "on" /\ ~closed => current = c
    BY DEF IInv, NewestStaysAttached
  <2>1. CASE UNCHANGED <<current, latest, closed, pump>> /\ phase'[c] = phase[c]
    BY <2>0, <2>1
  <2>2. ASSUME NEW o, Publish(o), UNCHANGED <<latest, closed, pump, phase>> PROVE current' = c
    BY <2>0, <2>2 DEF Publish, PublishUnattended, PublishQueued, PublishLagged, PublishClosed
  <2>3. CASE Shell
    BY <2>1, <2>2, <2>3
       DEF Shell, ShellData, ShellExit, ShellBroken, ShellClosed, DriveEnd
  <2>4. CASE Outside
    BY <2>1, <2>4 DEF Outside, TakeOut, Terminate
  <2>5. ASSUME NEW d \in Conns, Attach(d) PROVE current' = c
    <3>1. CASE AttachFound(d) \/ AttachGone(d) \/ AttachForbidden(d) \/ AttachClosed(d)
      <4>1. phase'[c] = phase[c]
        BY <2>0, <3>1 DEF AttachFound, AttachGone, AttachForbidden, AttachClosed, ResetOpening,
                          TypeOK
      <4> QED BY <2>1, <3>1, <4>1, ElsewhereIs
    <3>2. CASE AttachTaken(d)
      BY <3>2 DEF AttachTaken
    <3>3. CASE AttachAbandoned(d)
      BY <2>0, <3>3 DEF AttachAbandoned, TypeOK
    <3> QED BY <2>5, <3>1, <3>2, <3>3 DEF Attach
  <2>6. ASSUME NEW d \in Conns, Disconnect(d) PROVE current' = c
    <3>1. d # c /\ phase'[c] = phase[c]
      BY <2>0, <2>6 DEF Disconnect, TypeOK
    <3> QED BY <2>0, <2>6, <3>1 DEF Disconnect
  <2>7. ASSUME NEW d \in Conns, HandleClose(d) \/ LoseClose(d) PROVE current' = c
    <3>1. phase'[c] = phase[c]
      BY <2>0, <2>7 DEF HandleClose, LoseClose, TypeOK
    <3> QED BY <2>1, <2>7, <3>1, ElsewhereIs
  <2>8. ASSUME NEW d \in Conns, Pump(d) \/ SendMarker(d) PROVE current' = c
    <3>1. UNCHANGED <<current, latest, closed, phase>> /\ (pump'[c] = pump[c] \/ pump'[c] = "off")
      BY <2>0, <2>8 DEF Pump, PumpData, PumpLast, PumpSuperseded, PumpEnds, SendMarker, TypeOK
    <3> QED BY <2>0, <3>1
  <2>9. ASSUME NEW k \in Clients, NEW d \in Conns, Connect(k, d) PROVE current' = c
    <3>1. phase'[c] = phase[c]
      BY <2>0, <2>9 DEF Connect, TypeOK
    <3> QED BY <2>1, <2>9, <3>1, ClientsElsewhere
  <2>10. ASSUME NEW k \in Clients,
                Receive(k) \/ Draw(k) \/ LinkDrop(k) \/ Reload(k) \/ CloseShell(k)
         PROVE  current' = c
    <3>1. phase' = phase
      BY <2>10 DEF Receive, Draw, LinkDrop, Reload, CloseShell
    <3> QED BY <2>1, <2>10, <3>1, ClientsElsewhere
  <2>11. CASE UNCHANGED vars
    BY <2>1, <2>11 DEF vars
  <2> QED BY <2>3, <2>4, <2>5, <2>6, <2>7, <2>8, <2>9, <2>10, <2>11 DEF Next
<1> QED BY <1>1, <1>2, InvariantHolds, PTL DEF Spec

=============================================================================
