---------------------------- MODULE SessionStore ----------------------------
(***************************************************************************)
(* The terminal sessions of an agent and who may hold one: the map of      *)
(* SessionStore and the close of a Session (api/ws/session.rs), opening    *)
(* and rejoining one over a connection (open_local, attach and the Phase   *)
(* of api/ws/terminal.rs), the shell's task, the reaper, and the password  *)
(* change that ends them all (authz::end_account).                         *)
(*                                                                         *)
(* What flows through a session is module TerminalStream.  Here a          *)
(* connection's handler is cut at every await and at every lock it gives   *)
(* back, because the reaper, a password change and other connections run   *)
(* on other threads in between.                                            *)
(***************************************************************************)
EXTENDS Integers, FiniteSets

CONSTANTS
    Sessions,     \* sessions that may ever be opened
    Conns,        \* connections that may ever be made
    NoSession,
    NoConn,
    MaxSessions,  \* SessionStore::max
    MaxChanges,   \* bound: password changes
    MaxResets     \* bound: those of them made from the command line

ASSUME StoreAssumption ==
    /\ NoSession \notin Sessions
    /\ NoConn \notin Conns
    /\ MaxSessions \in Nat
    /\ MaxChanges \in Nat
    /\ MaxResets \in Nat

VARIABLES
    epoch,     \* password_changed_ms: how often the password was set
    owed,      \* changes stored whose end_account has still to run
    resets,    \* changes no running agent was told about
    store,     \* SessionStore::sessions
    taken,     \* out of the store, its end() or terminate() still to run
    since,     \* Session::since: the epoch it was opened under
    shell,     \* the process
    drive,     \* the task of drive_local_shell
    closeIn,   \* SessionInput::Close is in the input channel
    closed,    \* AttachmentState::closed
    current,   \* AttachmentState::current
    detached,  \* AttachmentState::detached_at.is_some()
    phase,     \* Phase of each connection
    admitted,  \* ConnCtx::since: the epoch at the upgrade
    pc,        \* where its open or attach handler is
    of         \* the session that handler, or the phase, speaks of

accountVars == <<epoch, owed, resets>>
shellVars == <<since, shell, drive>>
attachmentVars == <<closed, current, detached>>
connVars == <<phase, admitted, pc, of>>
vars == <<accountVars, store, taken, shellVars, closeIn, attachmentVars, connVars>>

OpenSteps == {"open_may", "spawn", "insert", "recheck", "attach_first", "abandon"}
AttachSteps == {"attach_may", "attach"}

TypeOK ==
    /\ epoch \in Nat /\ owed \in Nat /\ resets \in Nat
    /\ store \in SUBSET Sessions
    /\ taken \in [Sessions -> {"no", "revoke", "reap"}]
    /\ since \in [Sessions -> Nat]
    /\ shell \in [Sessions -> {"none", "alive", "killed"}]
    /\ drive \in [Sessions -> {"none", "running", "ending", "gone"}]
    /\ closeIn \in [Sessions -> BOOLEAN]
    /\ closed \in [Sessions -> BOOLEAN]
    /\ current \in [Sessions -> Conns \cup {NoConn}]
    /\ detached \in [Sessions -> BOOLEAN]
    /\ phase \in [Conns -> {"unused", "idle", "opening", "running", "done"}]
    /\ admitted \in [Conns -> Nat]
    /\ pc \in [Conns -> {"none"} \cup OpenSteps \cup AttachSteps]
    /\ of \in [Conns -> Sessions \cup {NoSession}]

Init ==
    /\ epoch = 0 /\ owed = 0 /\ resets = 0
    /\ store = {}
    /\ taken = [s \in Sessions |-> "no"]
    /\ since = [s \in Sessions |-> 0]
    /\ shell = [s \in Sessions |-> "none"]
    /\ drive = [s \in Sessions |-> "none"]
    /\ closeIn = [s \in Sessions |-> FALSE]
    /\ closed = [s \in Sessions |-> FALSE]
    /\ current = [s \in Sessions |-> NoConn]
    /\ detached = [s \in Sessions |-> FALSE]
    /\ phase = [c \in Conns |-> "unused"]
    /\ admitted = [c \in Conns |-> 0]
    /\ pc = [c \in Conns |-> "none"]
    /\ of = [c \in Conns |-> NoSession]

-----------------------------------------------------------------------------
(***************************************************************************)
(* The account.                                                            *)
(***************************************************************************)

\* change_own_password: the hash is stored first ...
ChangePassword ==
    /\ epoch < MaxChanges
    /\ epoch' = epoch + 1
    /\ owed' = owed + 1
    /\ UNCHANGED <<resets, store, taken, shellVars, closeIn, attachmentVars, connVars>>

\* ... then end_account drains the store (close_all).
EndAccount ==
    /\ owed > 0
    /\ owed' = owed - 1
    /\ store' = {}
    /\ taken' = [s \in Sessions |-> IF s \in store THEN "revoke" ELSE taken[s]]
    /\ UNCHANGED <<epoch, resets, shellVars, closeIn, attachmentVars, connVars>>

\* set_password_hash from the command line: another process, which cannot
\* reach what the agent has open.  A request that is dropped, or fails, at the
\* commit that carried its change out leaves the same.
ResetFromCli ==
    /\ epoch < MaxChanges /\ resets < MaxResets
    /\ epoch' = epoch + 1
    /\ resets' = resets + 1
    /\ UNCHANGED <<owed, store, taken, shellVars, closeIn, attachmentVars, connVars>>

(***************************************************************************)
(* Ends from outside.                                                      *)
(***************************************************************************)

\* Those take_expired may pick: unattached, for as long as the timeout.
Expirable == {s \in store : detached[s]}

\* start_reaper's sweep.
Reap(expired) ==
    /\ expired # {} /\ expired \subseteq Expirable
    /\ store' = store \ expired
    /\ taken' = [s \in Sessions |-> IF s \in expired THEN "reap" ELSE taken[s]]
    /\ UNCHANGED <<accountVars, shellVars, closeIn, attachmentVars, connVars>>

\* SessionStore::close, from the list of what is live.
CloseLive(s) ==
    /\ s \in store
    /\ store' = store \ {s}
    /\ taken' = [taken EXCEPT ![s] = "revoke"]
    /\ UNCHANGED <<accountVars, shellVars, closeIn, attachmentVars, connVars>>

\* Faulty variant of Terminate: the shell's task is not told.
TerminateUntold(s) ==
    /\ taken[s] # "no"
    /\ taken' = [taken EXCEPT ![s] = "no"]
    /\ closed' = [closed EXCEPT ![s] = TRUE]
    /\ current' = [current EXCEPT ![s] = NoConn]
    /\ detached' = [detached EXCEPT ![s] = TRUE]
    /\ UNCHANGED <<accountVars, store, shellVars, closeIn, connVars>>

\* The rest of end() and terminate(), the map being unlocked: Session::close,
\* and SessionInput::Close, by a task of its own when the channel is full.
Terminate(s) ==
    /\ taken[s] # "no"
    /\ taken' = [taken EXCEPT ![s] = "no"]
    /\ closed' = [closed EXCEPT ![s] = TRUE]
    /\ current' = [current EXCEPT ![s] = NoConn]
    /\ detached' = [detached EXCEPT ![s] = TRUE]
    /\ closeIn' = [closeIn EXCEPT ![s] = TRUE]
    /\ UNCHANGED <<accountVars, store, shellVars, connVars>>

(***************************************************************************)
(* The task that drives a shell.                                           *)
(***************************************************************************)

\* Session::publish finds the attached connection's receiver gone.  Pumps are
\* not part of this module: one may have ended at any time.
PublishClosed(s) ==
    /\ drive[s] = "running"
    /\ current[s] # NoConn
    /\ current' = [current EXCEPT ![s] = NoConn]
    /\ detached' = [detached EXCEPT ![s] = TRUE]
    /\ UNCHANGED <<accountVars, store, taken, shellVars, closeIn, closed, connVars>>

\* The shell exits or a write to it fails.
ShellEnds(s) ==
    /\ drive[s] = "running"
    /\ drive' = [drive EXCEPT ![s] = "ending"]
    /\ UNCHANGED <<accountVars, store, taken, since, shell, closeIn, attachmentVars, connVars>>

ReadClose(s) ==
    /\ closeIn[s]
    /\ ShellEnds(s)

DriveEnd(s) ==
    /\ drive[s] = "ending"
    /\ drive' = [drive EXCEPT ![s] = "gone"]
    /\ shell' = [shell EXCEPT ![s] = "killed"]
    /\ store' = store \ {s}
    /\ UNCHANGED <<accountVars, taken, since, closeIn, attachmentVars, connVars>>

(***************************************************************************)
(* A connection.                                                           *)
(***************************************************************************)

\* terminal_ws: the account is read, and the socket upgraded.
Upgrade(c) ==
    /\ phase[c] = "unused"
    /\ phase' = [phase EXCEPT ![c] = "idle"]
    /\ admitted' = [admitted EXCEPT ![c] = epoch]
    /\ UNCHANGED <<accountVars, store, taken, shellVars, closeIn, attachmentVars, pc, of>>

\* Faulty variant of Disconnect: the time of the detach is not noted.
DisconnectUndated(c) ==
    /\ phase[c] \in {"idle", "opening", "running"}
    /\ phase' = [phase EXCEPT ![c] = "done"]
    /\ IF phase[c] = "running" /\ current[of[c]] = c
       THEN /\ current' = [current EXCEPT ![of[c]] = NoConn]
            /\ UNCHANGED detached
       ELSE UNCHANGED <<current, detached>>
    /\ UNCHANGED <<accountVars, store, taken, shellVars, closeIn, closed, admitted, pc, of>>

\* on_disconnect, or Frame::Close: Session::detach, which minds whose
\* attachment it is.
Disconnect(c) ==
    /\ phase[c] \in {"idle", "opening", "running"}
    /\ phase' = [phase EXCEPT ![c] = "done"]
    /\ IF phase[c] = "running" /\ current[of[c]] = c
       THEN /\ current' = [current EXCEPT ![of[c]] = NoConn]
            /\ detached' = [detached EXCEPT ![of[c]] = TRUE]
       ELSE UNCHANGED <<current, detached>>
    /\ UNCHANGED <<accountVars, store, taken, shellVars, closeIn, closed, admitted, pc, of>>

\* ClientMsg::Close
HandleClose(c) ==
    /\ phase[c] \in {"idle", "opening", "running"}
    /\ phase' = [phase EXCEPT ![c] = "done"]
    /\ IF phase[c] = "running"
       THEN /\ store' = store \ {of[c]}
            /\ closeIn' = [closeIn EXCEPT ![of[c]] = TRUE]
       ELSE UNCHANGED <<store, closeIn>>
    /\ UNCHANGED <<accountVars, taken, shellVars, attachmentVars, admitted, pc, of>>

\* An open or attach handler that answers with an error: reset_opening.
Refuse(c) ==
    /\ pc' = [pc EXCEPT ![c] = "none"]
    /\ of' = [of EXCEPT ![c] = NoSession]
    /\ phase' = [phase EXCEPT ![c] = IF @ = "opening" THEN "idle" ELSE @]
    /\ UNCHANGED admitted

Goto(c, there) == pc' = [pc EXCEPT ![c] = there]

\* ConnCtx::may: the account is read again.
May(c) == admitted[c] = epoch

\* The first two checks of a handler differ in what comes after.
MayEnter(c) ==
    /\ pc[c] \in {"open_may", "attach_may"}
    /\ May(c)
    /\ Goto(c, IF pc[c] = "open_may" THEN "spawn" ELSE "attach")
    /\ UNCHANGED <<accountVars, store, taken, shellVars, closeIn, attachmentVars,
                   phase, admitted, of>>

\* It says no, or cannot be asked, or the target is not one to run.
MayNot(c) ==
    /\ pc[c] \in {"open_may", "attach_may", "spawn"}
    /\ Refuse(c)
    /\ UNCHANGED <<accountVars, store, taken, shellVars, closeIn, attachmentVars>>

(***************************************************************************)
(* open_local                                                              *)
(***************************************************************************)

ClaimOpen(c) ==
    /\ phase[c] = "idle" /\ pc[c] = "none"
    /\ phase' = [phase EXCEPT ![c] = "opening"]
    /\ Goto(c, "open_may")
    /\ UNCHANGED <<accountVars, store, taken, shellVars, closeIn, attachmentVars,
                   admitted, of>>

Spawn(c, s) ==
    /\ pc[c] = "spawn"
    /\ shell[s] = "none"
    /\ shell' = [shell EXCEPT ![s] = "alive"]
    /\ since' = [since EXCEPT ![s] = admitted[c]]
    /\ of' = [of EXCEPT ![c] = s]
    /\ Goto(c, "insert")
    /\ UNCHANGED <<accountVars, store, taken, drive, closeIn, attachmentVars, phase, admitted>>

\* Faulty variant of Kill: dropping the handle is taken to be enough.
DropShell(s) == UNCHANGED shell

\* shell.kill(), when the session it was for is not to be.
Kill(s) == shell' = [shell EXCEPT ![s] = "killed"]

\* Faulty variant of Insert: one too many.
InsertOverCap(c, expired) ==
    /\ pc[c] = "insert"
    /\ expired \subseteq Expirable
    /\ taken' = [s \in Sessions |-> IF s \in expired THEN "reap" ELSE taken[s]]
    /\ IF Cardinality(store \ expired) > MaxSessions
       THEN /\ store' = store \ expired
            /\ Kill(of[c])
            /\ Refuse(c)
       ELSE /\ store' = (store \ expired) \cup {of[c]}
            /\ Goto(c, "recheck")
            /\ UNCHANGED <<shell, phase, admitted, of>>
    /\ UNCHANGED <<accountVars, since, drive, closeIn, attachmentVars>>

\* SessionStore::insert takes the expired ones out first, and counts the rest.
Insert(c, expired) ==
    /\ pc[c] = "insert"
    /\ expired \subseteq Expirable
    /\ taken' = [s \in Sessions |-> IF s \in expired THEN "reap" ELSE taken[s]]
    /\ IF Cardinality(store \ expired) >= MaxSessions
       THEN /\ store' = store \ expired
            /\ Kill(of[c])
            /\ Refuse(c)
       ELSE /\ store' = (store \ expired) \cup {of[c]}
            /\ Goto(c, "recheck")
            /\ UNCHANGED <<shell, phase, admitted, of>>
    /\ UNCHANGED <<accountVars, since, drive, closeIn, attachmentVars>>

\* Faulty variant of Recheck: the first check is trusted.
RecheckTrusting(c) ==
    /\ pc[c] = "recheck"
    /\ Goto(c, "attach_first")
    /\ UNCHANGED <<accountVars, store, taken, shellVars, closeIn, attachmentVars,
                   phase, admitted, of>>

\* "Once registered, either this recheck rejects it or end_account closes it."
Recheck(c) ==
    /\ pc[c] = "recheck"
    /\ May(c)
    /\ Goto(c, "attach_first")
    /\ UNCHANGED <<accountVars, store, taken, shellVars, closeIn, attachmentVars,
                   phase, admitted, of>>

\* The recheck fails, or the session was closed meanwhile.
Withdraw(c) ==
    /\ \/ pc[c] = "recheck"
       \/ pc[c] = "attach_first" /\ closed[of[c]]
    /\ store' = store \ {of[c]}
    /\ Kill(of[c])
    /\ Refuse(c)
    /\ UNCHANGED <<accountVars, taken, since, drive, closeIn, attachmentVars>>

\* Session::attach(0) and the shell's task started; then Phase::Running, or,
\* when the socket went meanwhile, the shell is told to end.
AttachFirst(c) ==
    /\ pc[c] = "attach_first" /\ ~closed[of[c]]
    /\ current' = [current EXCEPT ![of[c]] = c]
    /\ detached' = [detached EXCEPT ![of[c]] = FALSE]
    /\ drive' = [drive EXCEPT ![of[c]] = "running"]
    /\ \/ /\ phase[c] = "opening"
          /\ phase' = [phase EXCEPT ![c] = "running"]
          /\ Goto(c, "none")
          /\ UNCHANGED closeIn
       \/ /\ phase[c] = "done"
          /\ closeIn' = [closeIn EXCEPT ![of[c]] = TRUE]
          /\ Goto(c, "abandon")
          /\ UNCHANGED phase
    /\ UNCHANGED <<accountVars, store, taken, since, shell, closed, admitted, of>>

Abandon(c) ==
    /\ pc[c] = "abandon"
    /\ store' = store \ {of[c]}
    /\ Goto(c, "none")
    /\ UNCHANGED <<accountVars, taken, shellVars, closeIn, attachmentVars, phase,
                   admitted, of>>

(***************************************************************************)
(* attach                                                                  *)
(***************************************************************************)

\* claim_idle and SessionStore::get; a handle that is not there answers
\* `session_gone` and changes nothing.
ClaimAttach(c, s) ==
    /\ phase[c] = "idle" /\ pc[c] = "none"
    /\ s \in store /\ drive[s] # "none"
    /\ phase' = [phase EXCEPT ![c] = "opening"]
    /\ of' = [of EXCEPT ![c] = s]
    /\ Goto(c, "attach_may")
    /\ UNCHANGED <<accountVars, store, taken, shellVars, closeIn, attachmentVars, admitted>>

\* Session::attach refuses a closed session.
AttachRefused(c) ==
    /\ pc[c] = "attach" /\ closed[of[c]]
    /\ Refuse(c)
    /\ UNCHANGED <<accountVars, store, taken, shellVars, closeIn, attachmentVars>>

\* Taken over from whoever has it; given up again if the socket went.
Attach(c) ==
    /\ pc[c] = "attach" /\ ~closed[of[c]]
    /\ Goto(c, "none")
    /\ \/ /\ phase[c] = "opening"
          /\ phase' = [phase EXCEPT ![c] = "running"]
          /\ current' = [current EXCEPT ![of[c]] = c]
          /\ detached' = [detached EXCEPT ![of[c]] = FALSE]
       \/ /\ phase[c] = "done"
          /\ current' = [current EXCEPT ![of[c]] = NoConn]
          /\ detached' = [detached EXCEPT ![of[c]] = TRUE]
          /\ UNCHANGED phase
    /\ UNCHANGED <<accountVars, store, taken, shellVars, closeIn, closed, admitted, of>>

-----------------------------------------------------------------------------
Account ==
    \/ ChangePassword
    \/ EndAccount
    \/ ResetFromCli

Session(s) ==
    \/ CloseLive(s)
    \/ Terminate(s)
    \/ PublishClosed(s)
    \/ ShellEnds(s)
    \/ ReadClose(s)
    \/ DriveEnd(s)

\* What a handler does once it has claimed the connection.
Handle(c) ==
    \/ MayEnter(c)
    \/ MayNot(c)
    \/ \E s \in Sessions : Spawn(c, s)
    \/ \E expired \in SUBSET Sessions : Insert(c, expired)
    \/ Recheck(c)
    \/ Withdraw(c)
    \/ AttachFirst(c)
    \/ Abandon(c)
    \/ AttachRefused(c)
    \/ Attach(c)

Next ==
    \/ Account
    \/ \E expired \in SUBSET Sessions : Reap(expired)
    \/ \E s \in Sessions : Session(s)
    \/ \E c \in Conns :
        \/ Upgrade(c)
        \/ ClaimOpen(c)
        \/ \E s \in Sessions : ClaimAttach(c, s)
        \/ Disconnect(c)
        \/ HandleClose(c)
        \/ Handle(c)

\* Tasks and handlers run, and the reaper comes round; users, links and
\* shells do as they like.
Fairness ==
    /\ WF_vars(EndAccount)
    /\ \A c \in Conns : WF_vars(Handle(c))
    /\ \A s \in Sessions :
        /\ WF_vars(Terminate(s)) /\ WF_vars(ReadClose(s)) /\ WF_vars(DriveEnd(s))
        /\ WF_vars(\E expired \in SUBSET Sessions : s \in expired /\ Reap(expired))

Spec == Init /\ [][Next]_vars
FairSpec == Spec /\ Fairness

-----------------------------------------------------------------------------
(***************************************************************************)
(* Properties.                                                             *)
(***************************************************************************)

\* A shell is on its way out: somebody has still to take it down.
Ending(s) == taken[s] # "no" \/ closeIn[s] \/ drive[s] = "ending"

\* Its open handler is still to find out whether it may go on.
BeingOpened(s, steps) == \E c \in Conns : of[c] = s /\ pc[c] \in steps

\* After a password change through the agent, whatever open or attach it
\* raced, nothing of the old password stays: a shell opened under it is
\* ending or about to be withdrawn by its own recheck, and no connection
\* admitted under it holds a session.
OldPasswordHoldsNothing ==
    owed = 0 /\ resets = 0 =>
        /\ \A s \in Sessions :
            shell[s] = "alive" /\ since[s] # epoch =>
                Ending(s) \/ BeingOpened(s, {"insert", "recheck"})
        /\ \A s \in Sessions :
            shell[s] = "alive" /\ current[s] # NoConn /\ admitted[current[s]] # epoch =>
                Ending(s)

\* Every shell process has somebody who will end it, and every handle in the
\* store a shell behind it: no open that fails half way, no race of a reap or
\* a close with an open, leaks a process or a slot.
NothingIsOrphaned ==
    \A s \in Sessions :
        /\ shell[s] = "alive" =>
            \/ drive[s] \in {"running", "ending"}
            \/ BeingOpened(s, {"insert", "recheck", "attach_first"})
        /\ s \in store => shell[s] = "alive"

\* terminal_max_sessions bounds the store, the opens that race included.
StoreIsBounded == Cardinality(store) <= MaxSessions

\* A connection whose handler still runs is attached.
Attended(s) ==
    current[s] # NoConn /\ phase[current[s]] = "running" /\ of[current[s]] = s

\* A session nobody is attached to is rejoined or ends: none stays in the
\* store for good with nobody looking at it.
NoneIsForgotten ==
    \A s \in Sessions : []<>(s \in store => Attended(s))

\* A closed session's shell dies, even one that was closed before its task
\* had started.
ClosedShellDies ==
    \A s \in Sessions : []<>(closed[s] => shell[s] = "killed")

\* "A session opened under a password that has since changed - a CLI reset
\* the running agent was not told about - is closed at the next sweep."
StaleIsSwept ==
    \A s \in Sessions : (s \in store /\ since[s] # epoch) ~> s \notin store

\* The reaper "drops sessions nobody came back for": one that it ends is not
\* attached.
ReapSparesAttached ==
    \A s \in Sessions : taken[s] = "reap" => current[s] = NoConn
=============================================================================
