----------------------------- MODULE LocalShell -----------------------------
(***************************************************************************)
(* A shell on a local PTY (pty.rs) and the task that drives it             *)
(* (drive_local_shell of api/ws/terminal.rs): the thread that reads the    *)
(* PTY, the thread that waits for the child, the gate and the bounded      *)
(* channel they share, and the loop that takes events and input in turn    *)
(* and writes to the PTY itself.                                           *)
(*                                                                         *)
(* The PTY is the kernel's: a buffer each way, a write that blocks when    *)
(* its buffer is full and fails once the last process has closed the       *)
(* slave, which a process that the shell leaves behind may not do for as   *)
(* long as it lives.  A chunk of output or of input is one unit.           *)
(***************************************************************************)
EXTENDS Integers, Sequences

CONSTANTS
    PtyBuffer,   \* chunks the kernel holds in each direction
    EventSlots,  \* the events channel, mpsc::channel(64)
    InputQueue,  \* INPUT_QUEUE
    MaxOutput,   \* bound: chunks the child writes
    MaxInput     \* bound: chunks the user sends

ASSUME ShellAssumption ==
    /\ PtyBuffer \in Nat \ {0}
    /\ EventSlots \in Nat \ {0}
    /\ InputQueue \in Nat \ {0}
    /\ MaxOutput \in Nat
    /\ MaxInput \in Nat

VARIABLES
    child,      \* the process; "writing" is blocked in a write of its own
    held,       \* a process the child has left in the background has the PTY open
    produced,   \* chunks written to the PTY by either
    ptyOut,     \* chunks nobody has read from the PTY
    ptyIn,      \* chunks nobody has read on the shell's side
    reader,     \* the reader thread
    reaper,     \* the thread that polls try_wait
    eof,        \* reader_done
    gate,       \* who holds the lock of delivery_closed
    shut,       \* delivery_closed
    drained,    \* history: the reader was done when the gate was shut
    events,     \* the events channel
    drive,      \* the driving task
    delivered,  \* chunks it has published
    exited,     \* it has published the exit
    input,      \* chunks in the input channel
    typed,      \* chunks sent by the user so far
    closeIn     \* SessionInput::Close is in the input channel

childVars == <<child, held, produced>>
threadVars == <<reader, reaper, eof, gate, shut, drained>>
driveVars == <<drive, delivered, exited>>
inputVars == <<input, typed, closeIn>>
vars == <<childVars, ptyOut, ptyIn, threadVars, events, driveVars, inputVars>>

TypeOK ==
    /\ child \in {"running", "writing", "gone"}
    /\ held \in BOOLEAN
    /\ produced \in 0 .. MaxOutput
    /\ ptyOut \in 0 .. PtyBuffer
    /\ ptyIn \in 0 .. PtyBuffer
    /\ reader \in {"reading", "holding", "sending", "done"}
    /\ reaper \in {"polling", "draining", "locking", "sending", "done"}
    /\ eof \in BOOLEAN
    /\ gate \in {"free", "reader", "reaper"}
    /\ shut \in BOOLEAN
    /\ drained \in BOOLEAN
    /\ events \in Seq({"data", "exit"})
    /\ drive \in {"select", "writing", "ending", "gone"}
    /\ delivered \in 0 .. MaxOutput
    /\ exited \in BOOLEAN
    /\ input \in 0 .. InputQueue
    /\ typed \in 0 .. MaxInput
    /\ closeIn \in BOOLEAN

Init ==
    /\ child = "running" /\ held = FALSE /\ produced = 0
    /\ ptyOut = 0 /\ ptyIn = 0
    /\ reader = "reading" /\ reaper = "polling"
    /\ eof = FALSE /\ gate = "free" /\ shut = FALSE /\ drained = FALSE
    /\ events = <<>>
    /\ drive = "select" /\ delivered = 0 /\ exited = FALSE
    /\ input = 0 /\ typed = 0 /\ closeIn = FALSE

-----------------------------------------------------------------------------
(***************************************************************************)
(* The child and the user.                                                 *)
(***************************************************************************)

\* The child starts a write, and is in it until there is room.
ChildWrites ==
    /\ child = "running" /\ produced < MaxOutput
    /\ child' = "writing"
    /\ UNCHANGED <<held, produced, ptyOut, ptyIn, threadVars, events, driveVars, inputVars>>

ChildWrote ==
    /\ child = "writing" /\ ptyOut < PtyBuffer
    /\ child' = "running"
    /\ produced' = produced + 1
    /\ ptyOut' = ptyOut + 1
    /\ UNCHANGED <<held, ptyIn, threadVars, events, driveVars, inputVars>>

ChildReads ==
    /\ child = "running" /\ ptyIn > 0
    /\ ptyIn' = ptyIn - 1
    /\ UNCHANGED <<childVars, ptyOut, threadVars, events, driveVars, inputVars>>

ChildExits ==
    /\ child = "running"
    /\ child' = "gone"
    /\ UNCHANGED <<held, produced, ptyOut, ptyIn, threadVars, events, driveVars, inputVars>>

\* A background process ("nohup something &") inherits the PTY, outlives the
\* shell, writes and reads when it likes, and closes the PTY when it ends.
HolderStarts ==
    /\ child = "running" /\ ~held
    /\ held' = TRUE
    /\ UNCHANGED <<child, produced, ptyOut, ptyIn, threadVars, events, driveVars, inputVars>>

HolderWrites ==
    /\ held /\ produced < MaxOutput /\ ptyOut < PtyBuffer
    /\ produced' = produced + 1
    /\ ptyOut' = ptyOut + 1
    /\ UNCHANGED <<child, held, ptyIn, threadVars, events, driveVars, inputVars>>

HolderReads ==
    /\ held /\ ptyIn > 0
    /\ ptyIn' = ptyIn - 1
    /\ UNCHANGED <<childVars, ptyOut, threadVars, events, driveVars, inputVars>>

HolderEnds ==
    /\ held
    /\ held' = FALSE
    /\ UNCHANGED <<child, produced, ptyOut, ptyIn, threadVars, events, driveVars, inputVars>>

\* Some process has the slave open.
SlaveOpen == child # "gone" \/ held

\* on_input
Type ==
    /\ typed < MaxInput /\ input < InputQueue
    /\ typed' = typed + 1
    /\ input' = input + 1
    /\ UNCHANGED <<childVars, ptyOut, ptyIn, threadVars, events, driveVars, closeIn>>

Close ==
    /\ ~closeIn
    /\ closeIn' = TRUE
    /\ UNCHANGED <<childVars, ptyOut, ptyIn, threadVars, events, driveVars, input, typed>>

(***************************************************************************)
(* The reader thread.                                                      *)
(***************************************************************************)

Read ==
    /\ reader = "reading" /\ ptyOut > 0
    /\ reader' = "holding"
    /\ ptyOut' = ptyOut - 1
    /\ UNCHANGED <<childVars, ptyIn, reaper, eof, gate, shut, drained, events, driveVars, inputVars>>

\* The loop is over: reader_done.
ReaderDone ==
    /\ reader' = "done"
    /\ eof' = TRUE

\* End of file, or the error that stands for it: nobody has the slave open.
\* A ConPTY may never get here.
ReadEof ==
    /\ reader = "reading" /\ ptyOut = 0 /\ ~SlaveOpen
    /\ ReaderDone
    /\ UNCHANGED <<childVars, ptyOut, ptyIn, reaper, gate, shut, drained, events, driveVars, inputVars>>

\* Faulty variant of ReaderLocks: delivery_closed is not looked at.
ReaderLocksBlindly ==
    /\ reader = "holding" /\ gate = "free"
    /\ reader' = "sending" /\ gate' = "reader"
    /\ UNCHANGED <<childVars, ptyOut, ptyIn, eof, reaper, shut, drained, events, driveVars, inputVars>>

\* A chunk in hand, the gate is taken; nothing is sent once it is shut.
ReaderLocks ==
    /\ reader = "holding" /\ gate = "free"
    /\ IF shut
       THEN ReaderDone /\ UNCHANGED gate
       ELSE reader' = "sending" /\ gate' = "reader" /\ UNCHANGED eof
    /\ UNCHANGED <<childVars, ptyOut, ptyIn, reaper, shut, drained, events, driveVars, inputVars>>

\* Faulty variant of ReaderSends: try_send, which drops what does not fit.
ReaderTrySends ==
    /\ reader = "sending"
    /\ gate' = "free"
    /\ events' = IF Len(events) < EventSlots THEN Append(events, "data") ELSE events
    /\ reader' = "reading"
    /\ UNCHANGED <<childVars, ptyOut, ptyIn, reaper, eof, shut, drained, driveVars, inputVars>>

\* blocking_send, under the gate; it fails once the receiver is gone.
ReaderSends ==
    /\ reader = "sending"
    /\ gate' = "free"
    /\ \/ /\ drive # "gone" /\ Len(events) < EventSlots
          /\ events' = Append(events, "data")
          /\ reader' = "reading"
          /\ UNCHANGED eof
       \/ /\ drive = "gone"
          /\ ReaderDone
          /\ UNCHANGED events
    /\ UNCHANGED <<childVars, ptyOut, ptyIn, reaper, shut, drained, driveVars, inputVars>>

(***************************************************************************)
(* The thread that waits for the child.                                    *)
(***************************************************************************)

TryWait ==
    /\ reaper = "polling" /\ child = "gone"
    /\ reaper' = "draining"
    /\ UNCHANGED <<childVars, ptyOut, ptyIn, reader, eof, gate, shut, drained, events, driveVars, inputVars>>

\* Faulty variant of Drain: waits for the reader however long it takes.
DrainForever ==
    /\ reaper = "draining" /\ eof
    /\ reaper' = "locking"
    /\ UNCHANGED <<childVars, ptyOut, ptyIn, reader, eof, gate, shut, drained, events, driveVars, inputVars>>

\* wait_timeout_while: the reader is done, or 100 ms have passed.
Drain ==
    /\ reaper = "draining"
    /\ reaper' = "locking"
    /\ UNCHANGED <<childVars, ptyOut, ptyIn, reader, eof, gate, shut, drained, events, driveVars, inputVars>>

\* The exit waits for the gate, and shuts it.
Shut ==
    /\ reaper = "locking" /\ gate = "free"
    /\ reaper' = "sending" /\ gate' = "reaper"
    /\ shut' = TRUE
    /\ drained' = (reader = "done")
    /\ UNCHANGED <<childVars, ptyOut, ptyIn, reader, eof, events, driveVars, inputVars>>

ReaperSends ==
    /\ reaper = "sending"
    /\ reaper' = "done" /\ gate' = "free"
    /\ \/ /\ drive # "gone" /\ Len(events) < EventSlots
          /\ events' = Append(events, "exit")
       \/ /\ drive = "gone"
          /\ UNCHANGED events
    /\ UNCHANGED <<childVars, ptyOut, ptyIn, reader, eof, shut, drained, driveVars, inputVars>>

(***************************************************************************)
(* The driving task: select! takes whichever is ready.                     *)
(***************************************************************************)

TakeEvent ==
    /\ drive = "select" /\ events # <<>>
    /\ events' = Tail(events)
    /\ IF Head(events) = "data"
       THEN delivered' = delivered + 1 /\ UNCHANGED <<drive, exited>>
       ELSE drive' = "ending" /\ exited' = TRUE /\ UNCHANGED delivered
    /\ UNCHANGED <<childVars, ptyOut, ptyIn, threadVars, inputVars>>

\* Input is taken, and LocalShell::write called: until it returns the task
\* takes nothing else.
TakeInput ==
    /\ drive = "select" /\ input > 0
    /\ drive' = "writing"
    /\ input' = input - 1
    /\ UNCHANGED <<childVars, ptyOut, ptyIn, threadVars, events, delivered, exited, typed, closeIn>>

\* It writes when there is room, blocks when there is none, and fails once
\* nobody has the slave open.
Write ==
    /\ drive = "writing"
    /\ \/ /\ SlaveOpen /\ ptyIn < PtyBuffer
          /\ ptyIn' = ptyIn + 1
          /\ drive' = "select"
       \/ /\ ~SlaveOpen
          /\ drive' = "ending"
          /\ UNCHANGED ptyIn
    /\ UNCHANGED <<childVars, ptyOut, threadVars, events, delivered, exited, inputVars>>

TakeClose ==
    /\ drive = "select" /\ closeIn /\ input = 0
    /\ drive' = "ending"
    /\ UNCHANGED <<childVars, ptyOut, ptyIn, threadVars, events, delivered, exited, inputVars>>

\* shell.kill(), and the receiver dropped.
End ==
    /\ drive = "ending"
    /\ drive' = "gone"
    /\ child' = "gone"
    /\ UNCHANGED <<held, produced, ptyOut, ptyIn, threadVars, events, delivered, exited, inputVars>>

-----------------------------------------------------------------------------
Child == ChildWrites \/ ChildWrote \/ ChildReads \/ ChildExits
Holder == HolderStarts \/ HolderWrites \/ HolderReads \/ HolderEnds
User == Type \/ Close
ReaderSteps == Read \/ ReadEof \/ ReaderLocks \/ ReaderSends
ReaperSteps == TryWait \/ Drain \/ Shut \/ ReaperSends
DriveSteps == TakeEvent \/ TakeInput \/ Write \/ TakeClose \/ End
Next == Child \/ Holder \/ User \/ ReaderSteps \/ ReaperSteps \/ DriveSteps

\* Threads and the task run; a child gets on with a write there is room for
\* and with the input it has.  That a reader sees the end, and that a
\* background process does anything at all, is not assumed.
Fairness ==
    /\ WF_vars(ChildWrote) /\ WF_vars(ChildReads)
    /\ WF_vars(Read) /\ WF_vars(ReaderLocks) /\ WF_vars(ReaderSends)
    /\ WF_vars(ReaperSteps)
    /\ WF_vars(TakeEvent) /\ WF_vars(TakeInput \/ TakeClose) /\ WF_vars(Write) /\ WF_vars(End)

Spec == Init /\ [][Next]_vars
FairSpec == Spec /\ Fairness

-----------------------------------------------------------------------------
\* The exit is the last event: the gate keeps a chunk read late from coming
\* after it.
NothingAfterExit ==
    /\ \A i \in 1 .. Len(events) : events[i] = "exit" => i = Len(events)
    /\ exited => events = <<>>

\* "Preserve the usual PTY contract that the last output comes before the
\* exit notification": if the reader reached the end within the drain window,
\* all that the child wrote was published before its exit.
OutputBeforeExit == exited /\ drained => delivered = produced

\* The task is in a write for which there is no room, to a PTY that only a
\* background process has open.
BlockedByHolder == drive = "writing" /\ child = "gone" /\ held /\ ptyIn = PtyBuffer

\* A child that is gone ends the session's task, even if the reader never sees
\* the end of the PTY, because it is a ConPTY or because a background process
\* keeps it open, and whatever is blocked on the gate or the channel: the drain
\* is bounded.  The one exception is a write that such a process leaves blocked
\* for good.
ExitEndsTask == child = "gone" ~> (drive = "gone" \/ []BlockedByHolder)

\* The same without the exception: "exit is delivered even if its read handle
\* stays open".
ExitIsReported == child = "gone" ~> drive = "gone"

\* A session that is closed, by its user or by a password change ("removes and
\* terminates every session"), ends: its task gets to read SessionInput::Close.
CloseEndsTask == closeIn ~> drive = "gone"
=============================================================================
