--------------------------- MODULE TerminalStream ---------------------------
(***************************************************************************)
(* The output path of one terminal session of the Monitor agent, end to    *)
(* end: the scrollback and the attachment of a Session                     *)
(* (api/ws/session.rs), the connections that attach to it and pump its     *)
(* output into a WebSocket (api/ws/terminal.rs), and the clients that      *)
(* count what they rendered and reattach from there: the panel             *)
(* (frontend/src/lib/terminal.svelte.ts) and the app                       *)
(* (lib/core/monitor/terminal.dart).                                       *)
(*                                                                         *)
(* A byte of output is its sequence number: the n-th byte the shell ever   *)
(* wrote is n - 1.  A frame of output is the interval [from, to) of the    *)
(* bytes it carries; a control frame carries none, and from = to is the    *)
(* position of the stream it speaks of.  What the scrollback holds is the  *)
(* interval [StartSeq, nextSeq), which module Scrollback derives from the  *)
(* byte buffer.                                                            *)
(*                                                                         *)
(* A WebSocket delivers whole frames in order until the link goes; what    *)
(* was on the wire then is lost, and the agent may notice later or never.  *)
(* The model starts right after open_local answered the first client.      *)
(***************************************************************************)
EXTENDS Integers, Sequences

CONSTANTS
    Clients,      \* the clients that hold the session's handle
    Opener,       \* the one that opened it
    Apps,         \* the clients that are the app; the others are panel tabs
    OutputQueue,  \* OUTPUT_QUEUE, slots of an attachment's output channel
    Capacity,     \* scrollback_bytes
    MaxBytes,     \* bound: bytes the shell writes
    MaxChunk,     \* bound: bytes of one ShellEvent::Data
    MaxConns,     \* bound: connections ever made
    MaxFaults     \* bound: link drops, reloads, resumes

ASSUME StreamAssumption ==
    /\ Opener \in Clients
    /\ Apps \subseteq Clients
    /\ OutputQueue \in Nat \ {0}
    /\ Capacity \in Nat
    /\ MaxBytes \in Nat
    /\ MaxChunk \in Nat
    /\ MaxConns \in Nat \ {0}
    /\ MaxFaults \in Nat

Conns == 1 .. MaxConns
NoConn == 0

VARIABLES
    nextSeq,   \* Scrollback::next_seq
    current,   \* AttachmentState::current: the attached connection, or NoConn
    latest,    \* the last attachment made (AttachmentState::next_id)
    detached,  \* AttachmentState::detached_at.is_some()
    closed,    \* AttachmentState::closed
    lagging,   \* AttachmentState::replay_requested
    inStore,   \* the handle is in SessionStore::sessions
    ending,    \* taken out of the store, its end() or terminate() still to run
    closeIn,   \* SessionInput::Close is in the input channel
    drive,     \* the task of drive_local_shell
    phase,     \* Phase of each connection's handler
    step,      \* where each connection's attach handler is
    since,     \* the position its attach frame asks for
    bye,       \* connections whose client has sent `close`
    queue,     \* the output channel of each attachment
    pump,      \* the task of pump_output, which owns the receiver
    marker,    \* a spawned send of ReplayRequired is waiting for a slot
    wire,      \* frames on their way to the client
    sock,      \* each client's socket
    finished,  \* why a client gave up rejoining, or "no"
    rendered,  \* each client's resume counter
    received,  \* position after the last byte handed to its renderer
    drawing,   \* panel: writes whose completion callback has not run
    faults     \* link drops, reloads and resumes so far

sessionVars == <<nextSeq, current, latest, detached, closed, lagging>>
storeVars == <<inStore, ending, closeIn, drive>>
connVars == <<phase, step, since, bye>>
pipeVars == <<queue, pump, marker>>
clientVars == <<sock, finished, rendered, received, drawing>>
vars == <<sessionVars, storeVars, connVars, pipeVars, wire, clientVars, faults>>

Kinds == {"data", "exit", "revoked", "replay"}
FrameKinds == Kinds \cup {"ready", "truncated", "superseded", "gone", "forbidden"}
Frame(kind, from, to) == [kind |-> kind, from |-> from, to |-> to]
Control(kind, at) == Frame(kind, at, at)
Output == [kind : Kinds, from : Nat, to : Nat]
WireFrame == [kind : FrameKinds, from : Nat, to : Nat]

TypeOK ==
    /\ nextSeq \in Nat
    /\ current \in Conns \cup {NoConn}
    /\ latest \in Conns \cup {NoConn}
    /\ detached \in BOOLEAN
    /\ closed \in BOOLEAN
    /\ lagging \in BOOLEAN
    /\ inStore \in BOOLEAN
    /\ ending \in {"no", "revoke", "reap"}
    /\ closeIn \in BOOLEAN
    /\ drive \in {"running", "ending", "gone"}
    /\ phase \in [Conns -> {"unused", "idle", "opening", "running", "done"}]
    /\ step \in [Conns -> {"none", "sent", "may"}]
    /\ since \in [Conns -> Nat]
    /\ bye \in SUBSET Conns
    /\ queue \in [Conns -> Seq(Output)]
    /\ pump \in [Conns -> {"none", "on", "off"}]
    /\ marker \in [Conns -> BOOLEAN]
    /\ wire \in [Conns -> Seq(WireFrame)]
    /\ sock \in [Clients -> Conns \cup {NoConn}]
    /\ finished \in [Clients -> {"no", "exit", "revoked", "superseded", "gone", "failed",
                                "closed", "left"}]
    /\ rendered \in [Clients -> Nat]
    /\ received \in [Clients -> Nat]
    /\ drawing \in [Clients -> Seq(Output)]
    /\ faults \in Nat

(***************************************************************************)
(* The state open_local leaves: the session registered, attached from 0 by *)
(* the opener's connection, `ready` sent and its pump running.             *)
(***************************************************************************)
Init ==
    /\ nextSeq = 0
    /\ current = 1 /\ latest = 1
    /\ detached = FALSE /\ closed = FALSE /\ lagging = FALSE
    /\ inStore = TRUE /\ ending = "no" /\ closeIn = FALSE /\ drive = "running"
    /\ phase = [c \in Conns |-> IF c = 1 THEN "running" ELSE "unused"]
    /\ step = [c \in Conns |-> "none"]
    /\ since = [c \in Conns |-> 0]
    /\ bye = {}
    /\ queue = [c \in Conns |-> <<>>]
    /\ pump = [c \in Conns |-> IF c = 1 THEN "on" ELSE "none"]
    /\ marker = [c \in Conns |-> FALSE]
    /\ wire = [c \in Conns |-> IF c = 1 THEN <<Control("ready", 0)>> ELSE <<>>]
    /\ sock = [k \in Clients |-> IF k = Opener THEN 1 ELSE NoConn]
    /\ finished = [k \in Clients |-> "no"]
    /\ rendered = [k \in Clients |-> 0]
    /\ received = [k \in Clients |-> 0]
    /\ drawing = [k \in Clients |-> <<>>]
    /\ faults = 0

-----------------------------------------------------------------------------
(***************************************************************************)
(* The scrollback, as far as positions go.                                 *)
(***************************************************************************)

\* Scrollback::start_seq: the buffer holds the last Capacity bytes, or all.
StartSeq == IF nextSeq > Capacity THEN nextSeq - Capacity ELSE 0

\* The bytes from a position on, if there are any.
Payload(at) == IF at >= nextSeq THEN <<>> ELSE <<Frame("data", at, nextSeq)>>

\* Faulty variant of Replay: the gap is not announced.
ReplayUnannounced(at) ==
    IF at < StartSeq
    THEN <<Control("ready", StartSeq)>> \o Payload(StartSeq)
    ELSE <<Control("ready", at)>> \o Payload(at)

\* Scrollback::replay_from and what terminal.rs's attach makes of it: `ready`
\* with the position the stream goes on from, the notice when output was lost,
\* the bytes themselves.
Replay(at) ==
    IF at < StartSeq
    THEN <<Control("ready", StartSeq), Control("truncated", StartSeq)>> \o Payload(StartSeq)
    ELSE <<Control("ready", at)>> \o Payload(at)

(***************************************************************************)
(* Session::publish, under the attachment lock.  The scrollback is written *)
(* by the caller, which knows whether the output is data.                  *)
(***************************************************************************)

\* Nobody is attached, or the client was told to come back for a replay.
PublishUnattended ==
    /\ lagging \/ current = NoConn
    /\ UNCHANGED <<current, detached, lagging, queue, marker>>

\* Faulty variant of PublishQueued: live output goes on after a drop.
PublishQueuedWhileLagging(output) ==
    /\ current # NoConn
    /\ pump[current] = "on"
    /\ Len(queue[current]) < OutputQueue
    /\ queue' = [queue EXCEPT ![current] = Append(@, output)]
    /\ UNCHANGED <<current, detached, lagging, marker>>

\* try_send found a slot.
PublishQueued(output) ==
    /\ ~lagging /\ current # NoConn
    /\ pump[current] = "on"
    /\ Len(queue[current]) < OutputQueue
    /\ queue' = [queue EXCEPT ![current] = Append(@, output)]
    /\ UNCHANGED <<current, detached, lagging, marker>>

\* Faulty variant of PublishLagged: the client is not told.
PublishLaggedSilently ==
    /\ ~lagging /\ current # NoConn
    /\ pump[current] = "on"
    /\ Len(queue[current]) >= OutputQueue
    /\ lagging' = TRUE
    /\ UNCHANGED <<current, detached, queue, marker>>

\* try_send found the channel full: live output stops, and a task is spawned
\* that will queue ReplayRequired behind what is there.
PublishLagged ==
    /\ ~lagging /\ current # NoConn
    /\ pump[current] = "on"
    /\ Len(queue[current]) >= OutputQueue
    /\ lagging' = TRUE
    /\ marker' = [marker EXCEPT ![current] = TRUE]
    /\ UNCHANGED <<current, detached, queue>>

\* try_send found the receiver gone.
PublishClosed ==
    /\ ~lagging /\ current # NoConn
    /\ pump[current] # "on"
    /\ current' = NoConn
    /\ detached' = TRUE
    /\ UNCHANGED <<lagging, queue, marker>>

Publish(output) ==
    \/ PublishUnattended
    \/ PublishQueued(output)
    \/ PublishLagged
    \/ PublishClosed

(***************************************************************************)
(* The task that moves the shell's bytes (drive_local_shell).              *)
(***************************************************************************)

\* ShellEvent::Data: into the scrollback always, then to whoever is attached.
ShellData(n) ==
    /\ drive = "running"
    /\ nextSeq + n <= MaxBytes
    /\ nextSeq' = nextSeq + n
    /\ Publish(Frame("data", nextSeq, nextSeq + n))
    /\ UNCHANGED <<latest, closed, storeVars, connVars, pump, wire, clientVars, faults>>

\* ShellEvent::Exit: published, and the loop breaks.
ShellExit ==
    /\ drive = "running"
    /\ drive' = "ending"
    /\ Publish(Control("exit", nextSeq))
    /\ UNCHANGED <<nextSeq, latest, closed, inStore, ending, closeIn, connVars,
                   pump, wire, clientVars, faults>>

\* A keystroke reaches a shell that has exited before its Exit is read: the
\* write fails and the loop breaks with nothing published.
ShellBroken ==
    /\ drive = "running"
    /\ drive' = "ending"
    /\ UNCHANGED <<sessionVars, inStore, ending, closeIn, connVars, pipeVars,
                   wire, clientVars, faults>>

\* SessionInput::Close, or the input channel's end: the loop breaks.
ShellClosed ==
    /\ drive = "running"
    /\ closeIn
    /\ drive' = "ending"
    /\ UNCHANGED <<sessionVars, inStore, ending, closeIn, connVars, pipeVars,
                   wire, clientVars, faults>>

\* The shell is killed and its handle removed.  The attachment stays as it is.
DriveEnd ==
    /\ drive = "ending"
    /\ drive' = "gone"
    /\ inStore' = FALSE
    /\ UNCHANGED <<sessionVars, ending, closeIn, connVars, pipeVars, wire,
                   clientVars, faults>>

(***************************************************************************)
(* Ends that come from outside: SessionStore::close and close_all          *)
(* ("revoke"), and the reaper or the next insert ("reap").  The map is     *)
(* unlocked before the session itself is closed.                           *)
(***************************************************************************)

TakeOut(why) ==
    /\ inStore
    /\ why = "reap" => detached
    /\ inStore' = FALSE
    /\ ending' = why
    /\ UNCHANGED <<sessionVars, closeIn, drive, connVars, pipeVars, wire,
                   clientVars, faults>>

\* Session::close, then end()'s Revoked by try_send, then SessionInput::Close.
Terminate ==
    /\ ending # "no"
    /\ ending' = "no"
    /\ closed' = TRUE
    /\ detached' = TRUE
    /\ current' = NoConn
    /\ queue' = IF /\ ending = "revoke"
                   /\ current # NoConn
                   /\ pump[current] = "on"
                   /\ Len(queue[current]) < OutputQueue
                THEN [queue EXCEPT ![current] = Append(@, Control("revoked", nextSeq))]
                ELSE queue
    /\ closeIn' = TRUE
    /\ UNCHANGED <<nextSeq, latest, lagging, inStore, drive, connVars, pump,
                   marker, wire, clientVars, faults>>

(***************************************************************************)
(* A connection's handler.                                                 *)
(***************************************************************************)

Reading(c) == \E k \in Clients : sock[k] = c

\* sink.send towards a client that may be gone: the frame is then lost.
Send(c, frames) ==
    wire' = IF Reading(c) THEN [wire EXCEPT ![c] = @ \o frames] ELSE wire

\* The attach frame arrives: claim_idle, then SessionStore::get finds the
\* handle; the account is read next, across an await.
AttachFound(c) ==
    /\ phase[c] = "idle" /\ step[c] = "sent"
    /\ inStore
    /\ phase' = [phase EXCEPT ![c] = "opening"]
    /\ step' = [step EXCEPT ![c] = "may"]
    /\ UNCHANGED <<sessionVars, storeVars, since, bye, pipeVars, wire, clientVars, faults>>

\* SessionStore::get finds nothing: `session_gone`, and back to Idle.
AttachGone(c) ==
    /\ phase[c] = "idle" /\ step[c] = "sent"
    /\ ~inStore
    /\ step' = [step EXCEPT ![c] = "none"]
    /\ Send(c, <<Control("gone", since[c])>>)
    /\ UNCHANGED <<sessionVars, storeVars, phase, since, bye, pipeVars, clientVars, faults>>

\* reset_opening
ResetOpening(c) ==
    phase' = [phase EXCEPT ![c] = IF @ = "opening" THEN "idle" ELSE @]

\* The account may not open a shell any more: `forbidden`.
AttachForbidden(c) ==
    /\ step[c] = "may"
    /\ step' = [step EXCEPT ![c] = "none"]
    /\ ResetOpening(c)
    /\ Send(c, <<Control("forbidden", since[c])>>)
    /\ UNCHANGED <<sessionVars, storeVars, since, bye, pipeVars, clientVars, faults>>

\* Session::attach refuses a closed session: `session_gone`.
AttachClosed(c) ==
    /\ step[c] = "may"
    /\ closed
    /\ step' = [step EXCEPT ![c] = "none"]
    /\ ResetOpening(c)
    /\ Send(c, <<Control("gone", since[c])>>)
    /\ UNCHANGED <<sessionVars, storeVars, since, bye, pipeVars, clientVars, faults>>

\* Session::attach: the replay is read and this connection's sender installed
\* in one step; the replay's frames go out before the pump starts.
AttachTaken(c) ==
    /\ step[c] = "may"
    /\ ~closed
    /\ phase[c] = "opening"
    /\ step' = [step EXCEPT ![c] = "none"]
    /\ phase' = [phase EXCEPT ![c] = "running"]
    /\ current' = c
    /\ latest' = c
    /\ detached' = FALSE
    /\ lagging' = FALSE
    /\ pump' = [pump EXCEPT ![c] = "on"]
    /\ Send(c, Replay(since[c]))
    /\ UNCHANGED <<nextSeq, closed, storeVars, since, bye, queue, marker, clientVars, faults>>

\* The same, when the socket went while the account was read: set_if_opening
\* fails and the attachment just made is given up again.
AttachAbandoned(c) ==
    /\ step[c] = "may"
    /\ ~closed
    /\ phase[c] # "opening"
    /\ step' = [step EXCEPT ![c] = "none"]
    /\ current' = NoConn
    /\ latest' = c
    /\ detached' = TRUE
    /\ lagging' = FALSE
    /\ pump' = [pump EXCEPT ![c] = "off"]
    /\ UNCHANGED <<nextSeq, closed, storeVars, phase, since, bye, queue, marker, wire,
                   clientVars, faults>>

\* Faulty variant of Disconnect: whoever is attached is detached.
DisconnectAnyone(c) ==
    /\ phase[c] \in {"idle", "opening", "running"} /\ c \notin bye
    /\ ~Reading(c)
    /\ phase' = [phase EXCEPT ![c] = "done"]
    /\ step' = [step EXCEPT ![c] = IF @ = "sent" THEN "none" ELSE @]
    /\ IF phase[c] = "running"
       THEN current' = NoConn /\ detached' = TRUE
       ELSE UNCHANGED <<current, detached>>
    /\ UNCHANGED <<nextSeq, latest, closed, lagging, storeVars, since, bye, pipeVars,
                   wire, clientVars, faults>>

\* The agent notices that the client is gone: Session::detach, Phase::Done.
Disconnect(c) ==
    /\ phase[c] \in {"idle", "opening", "running"} /\ c \notin bye
    /\ ~Reading(c)
    /\ phase' = [phase EXCEPT ![c] = "done"]
    /\ step' = [step EXCEPT ![c] = IF @ = "sent" THEN "none" ELSE @]
    /\ IF phase[c] = "running" /\ current = c
       THEN current' = NoConn /\ detached' = TRUE
       ELSE UNCHANGED <<current, detached>>
    /\ UNCHANGED <<nextSeq, latest, closed, lagging, storeVars, since, bye, pipeVars,
                   wire, clientVars, faults>>

\* ClientMsg::Close, which a frame before it does not hold up: a running
\* session is dropped from the store and its shell told to end.
HandleClose(c) ==
    /\ c \in bye /\ step[c] # "sent"
    /\ bye' = bye \ {c}
    /\ phase' = [phase EXCEPT ![c] = "done"]
    /\ IF phase[c] = "running"
       THEN inStore' = FALSE /\ closeIn' = TRUE
       ELSE UNCHANGED <<inStore, closeIn>>
    /\ UNCHANGED <<sessionVars, ending, drive, step, since, pipeVars, wire,
                   clientVars, faults>>

(***************************************************************************)
(* The pump of an attachment, and the send that ReplayRequired waits in.   *)
(***************************************************************************)

\* The receiver is dropped, and with it what is still queued.
PumpEnds(c) ==
    /\ pump' = [pump EXCEPT ![c] = "off"]
    /\ queue' = [queue EXCEPT ![c] = <<>>]

\* Data goes out; a send that fails, the socket being known dead, ends it.
PumpData(c) ==
    /\ pump[c] = "on" /\ queue[c] # <<>>
    /\ Head(queue[c]).kind = "data"
    /\ IF phase[c] = "done"
       THEN PumpEnds(c) /\ UNCHANGED wire
       ELSE /\ queue' = [queue EXCEPT ![c] = Tail(@)]
            /\ Send(c, <<Head(queue[c])>>)
            /\ UNCHANGED pump
    /\ UNCHANGED <<sessionVars, storeVars, connVars, marker, clientVars, faults>>

\* Exit, Revoked and ReplayRequired: told, the socket closed, the pump done.
PumpLast(c) ==
    /\ pump[c] = "on" /\ queue[c] # <<>>
    /\ Head(queue[c]).kind # "data"
    /\ PumpEnds(c)
    /\ Send(c, <<Head(queue[c])>>)
    /\ UNCHANGED <<sessionVars, storeVars, connVars, marker, clientVars, faults>>

\* Faulty variant of PumpSuperseded: the socket is left open.
PumpSupersededQuietly(c) ==
    /\ pump[c] = "on" /\ queue[c] = <<>>
    /\ current # c /\ ~marker[c]
    /\ PumpEnds(c)
    /\ UNCHANGED <<sessionVars, storeVars, connVars, marker, wire, clientVars, faults>>

\* Every sender is gone: the session was taken from this connection.
PumpSuperseded(c) ==
    /\ pump[c] = "on" /\ queue[c] = <<>>
    /\ current # c /\ ~marker[c]
    /\ PumpEnds(c)
    /\ Send(c, <<Control("superseded", nextSeq)>>)
    /\ UNCHANGED <<sessionVars, storeVars, connVars, marker, clientVars, faults>>

\* Faulty variant of SendMarker: a full channel drops the notice.
TrySendMarker(c) ==
    /\ marker[c]
    /\ marker' = [marker EXCEPT ![c] = FALSE]
    /\ IF pump[c] = "on" /\ Len(queue[c]) < OutputQueue
       THEN queue' = [queue EXCEPT ![c] = Append(@, Control("replay", nextSeq))]
       ELSE UNCHANGED queue
    /\ UNCHANGED <<sessionVars, storeVars, connVars, pump, wire, clientVars, faults>>

\* The spawned send of ReplayRequired gets its slot, or finds nobody.
SendMarker(c) ==
    /\ marker[c]
    /\ marker' = [marker EXCEPT ![c] = FALSE]
    /\ \/ /\ pump[c] = "on" /\ Len(queue[c]) < OutputQueue
          /\ queue' = [queue EXCEPT ![c] = Append(@, Control("replay", nextSeq))]
       \/ pump[c] # "on" /\ UNCHANGED queue
    /\ UNCHANGED <<sessionVars, storeVars, connVars, pump, wire, clientVars, faults>>

(***************************************************************************)
(* The clients.                                                            *)
(***************************************************************************)

\* A client has the handle once its first `ready` arrived; the other tabs
\* read it from the storage they share.
HasHandle(k) ==
    ~(k = Opener /\ wire[1] # <<>> /\ Head(wire[1]).kind = "ready")

Incoming(k) == wire[sock[k]]

\* connect / _connect with a handle: a new socket, and `attach` from the
\* counter.  Renderer callbacks of the connection before no longer count.
Connect(k, c) ==
    /\ finished[k] = "no" /\ sock[k] = NoConn
    /\ phase[c] = "unused"
    /\ \A d \in Conns : d < c => phase[d] # "unused"
    /\ phase' = [phase EXCEPT ![c] = "idle"]
    /\ step' = [step EXCEPT ![c] = "sent"]
    /\ since' = [since EXCEPT ![c] = rendered[k]]
    /\ sock' = [sock EXCEPT ![k] = c]
    /\ drawing' = [drawing EXCEPT ![k] = <<>>]
    /\ UNCHANGED <<sessionVars, storeVars, bye, pipeVars, wire, finished, rendered,
                   received, faults>>

\* The socket is gone for the client, and with it what was on the wire.
Drop(k) ==
    /\ sock' = [sock EXCEPT ![k] = NoConn]
    /\ wire' = [wire EXCEPT ![sock[k]] = <<>>]

Consume(k) == wire' = [wire EXCEPT ![sock[k]] = Tail(@)]

\* `ready`: the counter is set from the agent's position.
ReceiveReady(k) ==
    /\ Head(Incoming(k)).kind = "ready"
    /\ rendered' = [rendered EXCEPT ![k] = Head(Incoming(k)).from]
    /\ received' = [received EXCEPT ![k] = Head(Incoming(k)).from]
    /\ Consume(k)
    /\ UNCHANGED <<sock, finished, drawing>>

\* `gap_truncated`: the screen is reset; `forbidden`: the panel shows it.
ReceiveNotice(k) ==
    /\ \/ Head(Incoming(k)).kind = "truncated"
       \/ Head(Incoming(k)).kind = "forbidden" /\ k \notin Apps
    /\ Consume(k)
    /\ UNCHANGED <<sock, finished, rendered, received, drawing>>

\* Faulty variant of ReceiveData: counted before it is drawn, and again after.
ReceiveDataCounted(k) ==
    LET frame == Head(Incoming(k)) IN
    /\ frame.kind = "data"
    /\ received' = [received EXCEPT ![k] = frame.to]
    /\ rendered' = [rendered EXCEPT ![k] = @ + (frame.to - frame.from)]
    /\ drawing' = [drawing EXCEPT ![k] = Append(@, frame)]
    /\ Consume(k)
    /\ UNCHANGED <<sock, finished>>

\* Faulty variant of ReceiveData: the app does not count.
ReceiveDataUncounted(k) ==
    LET frame == Head(Incoming(k)) IN
    /\ frame.kind = "data"
    /\ received' = [received EXCEPT ![k] = frame.to]
    /\ Consume(k)
    /\ UNCHANGED <<sock, finished, rendered, drawing>>

\* Output: the app counts it as it comes, the panel once it is drawn.
ReceiveData(k) ==
    LET frame == Head(Incoming(k)) IN
    /\ frame.kind = "data"
    /\ received' = [received EXCEPT ![k] = frame.to]
    /\ IF k \in Apps
       THEN /\ rendered' = [rendered EXCEPT ![k] = @ + (frame.to - frame.from)]
            /\ UNCHANGED drawing
       ELSE /\ drawing' = [drawing EXCEPT ![k] = Append(@, frame)]
            /\ UNCHANGED rendered
    /\ Consume(k)
    /\ UNCHANGED <<sock, finished>>

\* `output_lagged` and a close: the panel comes back for the rest.
ReceiveReplay(k) ==
    /\ Head(Incoming(k)).kind = "replay"
    /\ k \notin Apps
    /\ Drop(k)
    /\ UNCHANGED <<finished, rendered, received, drawing>>

\* Every other frame ends the client's session; the app fails on any error
\* code it does not know.
Verdict(k, kind) ==
    IF kind \in {"replay", "forbidden"} THEN "failed" ELSE kind
ReceiveEnd(k) ==
    LET kind == Head(Incoming(k)).kind IN
    /\ \/ kind \in {"exit", "revoked", "superseded", "gone"}
       \/ kind \in {"replay", "forbidden"} /\ k \in Apps
    /\ finished' = [finished EXCEPT ![k] = Verdict(k, kind)]
    /\ Drop(k)
    /\ UNCHANGED <<rendered, received, drawing>>

Receive(k) ==
    /\ sock[k] # NoConn /\ Incoming(k) # <<>>
    /\ \/ ReceiveReady(k)
       \/ ReceiveNotice(k)
       \/ ReceiveData(k)
       \/ ReceiveReplay(k)
       \/ ReceiveEnd(k)
    /\ UNCHANGED <<sessionVars, storeVars, connVars, pipeVars, faults>>

\* The renderer's write callback.
Draw(k) ==
    /\ drawing[k] # <<>>
    /\ rendered' = [rendered EXCEPT ![k] = @ + (Head(drawing[k]).to - Head(drawing[k]).from)]
    /\ drawing' = [drawing EXCEPT ![k] = Tail(@)]
    /\ UNCHANGED <<sessionVars, storeVars, connVars, pipeVars, wire, sock, finished,
                   received, faults>>

\* The link goes, or the heartbeat stops: onDisconnect.  Without a handle
\* there is nothing to rejoin.
LinkDrop(k) ==
    /\ faults < MaxFaults
    /\ sock[k] # NoConn
    /\ Drop(k)
    /\ finished' = [finished EXCEPT ![k] = IF HasHandle(k) THEN @ ELSE "failed"]
    /\ faults' = faults + 1
    /\ UNCHANGED <<sessionVars, storeVars, connVars, pipeVars, rendered, received, drawing>>

\* A tab reloads, or a superseded one is resumed on a fresh renderer: start()
\* asks for the whole buffer.
Reload(k) ==
    /\ faults < MaxFaults
    /\ k \notin Apps /\ HasHandle(k)
    /\ finished[k] \in {"no", "superseded"}
    /\ faults' = faults + 1
    /\ sock' = [sock EXCEPT ![k] = NoConn]
    /\ wire' = [c \in Conns |-> IF c = sock[k] THEN <<>> ELSE wire[c]]
    /\ finished' = [finished EXCEPT ![k] = "no"]
    /\ rendered' = [rendered EXCEPT ![k] = 0]
    /\ received' = [received EXCEPT ![k] = 0]
    /\ drawing' = [drawing EXCEPT ![k] = <<>>]
    /\ UNCHANGED <<sessionVars, storeVars, connVars, pipeVars>>

\* close(): the user ends the terminal.  The agent is told if there is a
\* socket to tell it on.
CloseShell(k) ==
    /\ finished[k] = "no"
    /\ finished' = [finished EXCEPT ![k] = IF sock[k] = NoConn THEN "left" ELSE "closed"]
    /\ bye' = bye \cup ({sock[k]} \ {NoConn})
    /\ sock' = [sock EXCEPT ![k] = NoConn]
    /\ wire' = [c \in Conns |-> IF c = sock[k] THEN <<>> ELSE wire[c]]
    /\ UNCHANGED <<sessionVars, storeVars, phase, step, since, pipeVars, rendered,
                   received, drawing, faults>>

\* The link goes before `close` gets through.
LoseClose(c) ==
    /\ faults < MaxFaults
    /\ c \in bye
    /\ bye' = bye \ {c}
    /\ faults' = faults + 1
    /\ UNCHANGED <<sessionVars, storeVars, phase, step, since, pipeVars, wire, clientVars>>

-----------------------------------------------------------------------------
Shell ==
    \/ \E n \in 1 .. MaxChunk : ShellData(n)
    \/ ShellExit
    \/ ShellBroken
    \/ ShellClosed
    \/ DriveEnd

Outside ==
    \/ \E why \in {"revoke", "reap"} : TakeOut(why)
    \/ Terminate

Attach(c) ==
    \/ AttachFound(c)
    \/ AttachGone(c)
    \/ AttachForbidden(c)
    \/ AttachClosed(c)
    \/ AttachTaken(c)
    \/ AttachAbandoned(c)

Pump(c) ==
    \/ PumpData(c)
    \/ PumpLast(c)
    \/ PumpSuperseded(c)

Next ==
    \/ Shell
    \/ Outside
    \/ \E c \in Conns :
        \/ Attach(c)
        \/ Disconnect(c)
        \/ HandleClose(c)
        \/ LoseClose(c)
        \/ Pump(c)
        \/ SendMarker(c)
    \/ \E k \in Clients :
        \/ \E c \in Conns : Connect(k, c)
        \/ Receive(k)
        \/ Draw(k)
        \/ LinkDrop(k)
        \/ Reload(k)
        \/ CloseShell(k)

\* What the runtimes schedule: spawned tasks, handlers, timers of a client
\* that reconnects.  The shell, the network, the user and the account do as
\* they like.
Fairness ==
    /\ WF_vars(DriveEnd) /\ WF_vars(ShellClosed) /\ WF_vars(Terminate)
    /\ \A c \in Conns : WF_vars(Attach(c)) /\ WF_vars(Disconnect(c))
                        /\ WF_vars(HandleClose(c)) /\ WF_vars(Pump(c)) /\ WF_vars(SendMarker(c))
    /\ \A k \in Clients : WF_vars(Receive(k)) /\ WF_vars(Draw(k))
                          /\ WF_vars(\E c \in Conns : Connect(k, c))

Spec == Init /\ [][Next]_vars
FairSpec == Spec /\ Fairness

-----------------------------------------------------------------------------
(***************************************************************************)
(* Properties.                                                             *)
(***************************************************************************)

NextFrame(k) == Head(Incoming(k))
Expecting(k) == sock[k] # NoConn /\ Incoming(k) # <<>>

\* Output never skips and never repeats within a connection: the next frame
\* of bytes begins exactly where the client's screen ends.  This is what the
\* lock shared by Session::publish and Session::attach is for, and what
\* dropping live output after a full queue must not break.
Contiguous ==
    \A k \in Clients :
        Expecting(k) /\ NextFrame(k).kind = "data" => NextFrame(k).from = received[k]

\* A reattached stream goes on at or before the end of what the screen shows,
\* exactly at it for the app, unless the very next frame says that output was
\* lost: the replay leaves no silent hole.
ResumeLeavesNoHole ==
    \A k \in Clients :
        Expecting(k) /\ NextFrame(k).kind = "ready" =>
            \/ NextFrame(k).from <= received[k]
               /\ (k \in Apps => NextFrame(k).from = received[k])
            \/ Len(Incoming(k)) > 1 /\ Incoming(k)[2].kind = "truncated"

\* The resume counter is allowed to lag, never to lead: it is never past what
\* the renderer was given, nor that past what the shell wrote, so `since` is
\* never larger than Scrollback::next_seq.
CounterNeverLeads ==
    \A k \in Clients : rendered[k] <= received[k] /\ received[k] <= nextSeq

\* A late disconnect of an older connection never takes the session from the
\* newest one (AttachmentId): while that one's handler and pump run, it is
\* the attached one.
NewestStaysAttached ==
    \A c \in Conns :
        latest = c /\ phase[c] = "running" /\ pump[c] = "on" /\ ~closed => current = c

\* A client whose live output was cut is going to be told: while output is
\* withheld from an attachment, ReplayRequired is queued for it or waits for
\* a slot.
LagIsAnnounced ==
    \A c \in Conns :
        lagging /\ current = c /\ pump[c] = "on" =>
            \/ marker[c]
            \/ \E i \in 1 .. Len(queue[c]) : queue[c][i].kind = "replay"

\* A socket whose pump has ended is not left open and quiet: the frame that
\* ends the client's connection is on its way.
QuietSocketIsTold ==
    \A c \in Conns :
        pump[c] = "off" /\ Reading(c) =>
            \E i \in 1 .. Len(wire[c]) :
                wire[c][i].kind \in {"exit", "revoked", "replay", "superseded"}

\* A refused client keeps its socket, with nothing running on it.
Refused(k) == sock[k] # NoConn /\ phase[sock[k]] = "idle" /\ step[sock[k]] = "none"

\* The bound on connections keeps a client from connecting again.
OutOfConns(k) == sock[k] = NoConn /\ \A c \in Conns : phase[c] # "unused"

\* Whatever links drop and queues overflow, a client that has not given up
\* gets all of the output again and again: nobody stays behind for good.
CatchesUp ==
    \A k \in Clients :
        []<>(finished[k] # "no" \/ received[k] = nextSeq \/ Refused(k) \/ OutOfConns(k))

\* "A dead shell's handle stops working at once", and a socket that will
\* never see output again is not left open and quiet: once the shell's task
\* is over, every client ends.
DeadShellIsNoticed ==
    drive = "gone" ~> \A k \in Clients : finished[k] # "no" \/ Refused(k)

\* "Nothing is lost: the scrollback still has it": with a scrollback that
\* holds everything, links that never drop and a session nobody revokes, a
\* client that is done has seen all the output.
NothingIsLost ==
    (faults = 0 /\ ~closed /\ ending = "no" /\ nextSeq <= Capacity) =>
        \A k \in Clients : finished[k] \in {"exit", "gone"} => received[k] = nextSeq

\* The app's shell session is done when the shell ends, not when the socket
\* does: while the shell runs, nothing was revoked and no link dropped, the
\* one client there is has not ended its session unless the user closed it.
AppOutlivesItsSocket ==
    (faults = 0 /\ drive = "running" /\ inStore) =>
        \A k \in Apps : finished[k] \in {"no", "closed", "left"}

\* "Terminal sessions receive password_changed and are closed": a client that
\* is told `superseded` has lost its session to another connection, never to
\* a revocation.
SupersededIsTrue ==
    \A c \in Conns :
        (\E i \in 1 .. Len(wire[c]) : wire[c][i].kind = "superseded") => latest # c
=============================================================================
