------------------------------- MODULE Relays -------------------------------
(***************************************************************************)
(* What the sockets opened with tickets carry: relayed connections         *)
(* (api/ws/stream.rs), listened ports and the connections they hold for    *)
(* the app (listen.rs), guest consoles (virt_console.rs) and remote        *)
(* desktops (rdcleanpath.rs), the list they are shown and ended by         *)
(* (live.rs), and the notice of a password change that must end them.      *)
(*                                                                         *)
(* How a ticket is redeemed is module Tickets; here a socket begins when   *)
(* its upgrade is admitted.  A connection's bytes are left out; a client   *)
(* that does not read, so that a send to it waits for ever, is not.        *)
(***************************************************************************)
EXTENDS Integers, FiniteSets

CONSTANTS
    Sockets,      \* upgrades that may ever be admitted
    Kinds,        \* what may be asked for: "dial", "accept", "listen", "console", "rdp"
    Incoming,     \* connections that may come in at a listened port
    Nobody,
    MaxPending,   \* MAX_PENDING
    MaxListeners, \* MAX_LISTENERS
    MaxChanges    \* bound: password changes

ASSUME RelaysAssumption ==
    /\ Kinds \subseteq {"dial", "accept", "listen", "console", "rdp"}
    /\ Nobody \notin Sockets
    /\ MaxPending \in Nat
    /\ MaxListeners \in Nat
    /\ MaxChanges \in Nat

VARIABLES
    epoch,    \* password_changed_ms: how often the password was set
    unsaid,   \* changes stored whose end_account has still to send password_changed
    announced,\* history: the newest epoch that end_account follows
    since,    \* ConnCtx::since: the epoch the socket was admitted under
    kind,     \* what it asked for
    phase,    \* how far that is
    notices,  \* password_changed sent to its receiver and not yet read
    ended,    \* sockets ended through DELETE /live/connections
    stalled,  \* sockets whose client no longer reads
    conn,     \* each incoming connection: "none", "waiting", "taken", "closed"
    at,       \* the listener that holds it, or the relay that took it
    late,     \* connections past PENDING_TTL
    timed     \* connections with a task that closes them then

account == <<epoch, unsaid, announced>>
connVars == <<conn, at, late, timed>>
vars == <<account, since, kind, phase, notices, ended, stalled, connVars>>

\* The phases, in the order they are gone through.
Phases == {"none", "admitted", "asked", "read", "checked", "opened", "greeting", "on", "announcing",
           "telling", "off"}

TypeOK ==
    /\ epoch \in Nat /\ unsaid \in Nat /\ announced \in Nat
    /\ since \in [Sockets -> Nat]
    /\ kind \in [Sockets -> Kinds \cup {"none"}]
    /\ phase \in [Sockets -> Phases]
    /\ notices \in [Sockets -> Nat]
    /\ ended \in SUBSET Sockets
    /\ stalled \in SUBSET Sockets
    /\ conn \in [Incoming -> {"none", "waiting", "taken", "closed"}]
    /\ at \in [Incoming -> Sockets \cup {Nobody}]
    /\ late \in SUBSET Incoming
    /\ timed \in SUBSET Incoming

Init ==
    /\ epoch = 0 /\ unsaid = 0 /\ announced = 0
    /\ since = [u \in Sockets |-> 0]
    /\ kind = [u \in Sockets |-> "none"]
    /\ phase = [u \in Sockets |-> "none"]
    /\ notices = [u \in Sockets |-> 0]
    /\ ended = {} /\ stalled = {}
    /\ conn = [c \in Incoming |-> "none"]
    /\ at = [c \in Incoming |-> Nobody]
    /\ late = {} /\ timed = {}

\* Faulty variant of Subscribed: a socket listens once it carries bytes.
SubscribedOnceOn == {u \in Sockets : phase[u] \in {"on", "announcing", "telling"}}

\* Sockets with a receiver: taken before the account is checked, but by "rdp"
\* after it is read.
Subscribed ==
    {u \in Sockets :
        \/ phase[u] \in {"checked", "opened", "greeting", "on", "announcing", "telling"}
        \/ phase[u] = "asked" /\ kind[u] # "rdp"}

\* Sockets that hold a place of PendingStore.
Slots == {u \in Sockets : kind[u] = "listen"
                              /\ phase[u] \in {"opened", "greeting", "on", "announcing", "telling"}}

\* Sockets on the live list: registered when they start, until Ending drops.
Listed ==
    {u \in Sockets : phase[u] \in {"on", "announcing", "telling"}
                         \/ (phase[u] = "greeting" /\ kind[u] = "rdp")}

To(u, p) == phase' = [phase EXCEPT ![u] = p]

\* The connections become those of new, each at who ats says: one that is closed
\* is nobody's, and only one that waits can be late.
Conns(new, ats) ==
    /\ conn' = new
    /\ at' = [c \in Incoming |-> IF new[c] = "closed" THEN Nobody ELSE ats[c]]
    /\ late' = {c \in late : new[c] = "waiting"}

\* The loop of u is over: its receiver, its place and its entry in the list are
\* dropped, its held connections closed, and the one it carried too.
Off(u) ==
    /\ To(u, "off")
    /\ notices' = [notices EXCEPT ![u] = 0]
    /\ ended' = ended \ {u} /\ stalled' = stalled \ {u}
    /\ since' = [since EXCEPT ![u] = 0]
    /\ kind' = [kind EXCEPT ![u] = "none"]
    /\ Conns([c \in Incoming |-> IF at[c] = u THEN "closed" ELSE conn[c]], at)
    /\ UNCHANGED <<account, timed>>

-----------------------------------------------------------------------------
(***************************************************************************)
(* The account, and the upgrade.                                           *)
(***************************************************************************)
\* set_password_hash: strictly later than the one before.
SetHash ==
    /\ epoch < MaxChanges
    /\ epoch' = epoch + 1

\* change_own_password, and restore: end_account follows.
ChangePassword ==
    /\ SetHash
    /\ announced' = epoch + 1
    /\ unsaid' = unsaid + 1
    /\ UNCHANGED <<since, kind, phase, notices, ended, stalled, connVars>>

\* It does not: the command line's reset is another process, and a request may
\* fail, or be dropped, at the commit that carried its change out.
ChangeUntold ==
    /\ SetHash
    /\ UNCHANGED <<unsaid, announced, since, kind, phase, notices, ended, stalled, connVars>>

\* end_account, the last thing it does.
Broadcast ==
    /\ unsaid > 0
    /\ unsaid' = unsaid - 1
    /\ notices' = [u \in Sockets |-> IF u \in Subscribed THEN notices[u] + 1 ELSE notices[u]]
    /\ UNCHANGED <<epoch, announced, since, kind, phase, ended, stalled, connVars>>

\* stream_ws, listen_ws, virt_console_ws: the account that admits the socket is
\* the one it is bound to.
Admit(u) ==
    /\ phase[u] = "none"
    /\ since' = [since EXCEPT ![u] = epoch]
    /\ To(u, "admitted")
    /\ UNCHANGED <<account, kind, notices, ended, stalled, connVars>>

\* Only rdp: the socket is open without a ticket, and its first message
\* presents one.
RdpRedeem(u) ==
    /\ "rdp" \in Kinds /\ phase[u] = "none"
    /\ kind' = [kind EXCEPT ![u] = "rdp"]
    /\ To(u, "asked")
    /\ UNCHANGED <<account, since, notices, ended, stalled, connVars>>

-----------------------------------------------------------------------------
(***************************************************************************)
(* From the request to the loop.                                           *)
(***************************************************************************)

\* open, accept, listen, connect: subscribed first.  One request per socket.
Request(u) ==
    /\ phase[u] = "admitted"
    /\ \E k \in Kinds \ {"rdp"} : kind' = [kind EXCEPT ![u] = k]
    /\ To(u, "asked")
    /\ UNCHANGED <<account, since, notices, ended, stalled, connVars>>

\* The account is read, and is the one that was admitted.
CheckAccount(u) ==
    /\ phase[u] = "asked" /\ kind[u] # "rdp" /\ since[u] = epoch
    /\ To(u, "checked")
    /\ UNCHANGED <<account, since, kind, notices, ended, stalled, connVars>>

\* handshake of rdp: the account is read, whichever it is ...
RdpReads(u) ==
    /\ phase[u] = "asked" /\ kind[u] = "rdp"
    /\ since' = [since EXCEPT ![u] = epoch]
    /\ To(u, "read")
    /\ UNCHANGED <<account, kind, notices, ended, stalled, connVars>>

\* ... and then it subscribes.
RdpSubscribes(u) ==
    /\ phase[u] = "read"
    /\ To(u, "checked")
    /\ UNCHANGED <<account, since, kind, notices, ended, stalled, connVars>>

\* The address answers; a listener has a place.
Opened(u) ==
    /\ phase[u] = "checked" /\ kind[u] \in {"dial", "console", "rdp", "listen"}
    /\ kind[u] = "listen" => Cardinality(Slots) < MaxListeners
    /\ To(u, CASE kind[u] = "dial" -> "on"
               [] kind[u] = "rdp" -> "greeting"
               [] OTHER -> "opened")
    /\ UNCHANGED <<account, since, kind, notices, ended, stalled, connVars>>

\* The port is bound; a console has its account read again.
Greets(u) ==
    /\ phase[u] = "opened"
    /\ kind[u] = "console" => since[u] = epoch
    /\ To(u, "greeting")
    /\ UNCHANGED <<account, since, kind, notices, ended, stalled, connVars>>

\* `ready`, or the rdp response, is sent: it carries.
Starts(u) ==
    /\ phase[u] = "greeting" /\ u \notin stalled
    /\ To(u, "on")
    /\ UNCHANGED <<account, since, kind, notices, ended, stalled, connVars>>

\* Refused, nowhere to connect to, no place, not bound, or nothing there to
\* accept; a database that cannot be read is a refusal too.
Fails(u) ==
    /\ phase[u] \in {"asked", "read", "checked", "opened"}
    /\ Off(u)

\* expire_locked, before anything else is done to the held connections.
Expired == [c \in Incoming |-> IF conn[c] = "waiting" /\ c \in late THEN "closed" ELSE conn[c]]

\* accept: PendingStore::claim, and the relay is started.
Claim(u, c) ==
    /\ phase[u] = "checked" /\ kind[u] = "accept"
    /\ Expired[c] = "waiting"
    /\ Conns([Expired EXCEPT ![c] = "taken"], [at EXCEPT ![c] = u])
    /\ To(u, "on")
    /\ UNCHANGED <<account, since, kind, notices, ended, stalled, timed>>

-----------------------------------------------------------------------------
(***************************************************************************)
(* The loops: a relay's, a console's, and accept_loop.                     *)
(***************************************************************************)

\* Faulty variant of Holds: the task that closes it is spawned when the app was
\* told.
HoldsUntimed(u, c) ==
    /\ phase[u] = "on" /\ kind[u] = "listen" /\ conn[c] = "none"
    /\ Cardinality({d \in Incoming : Expired[d] = "waiting" /\ at[d] = u}) < MaxPending
    /\ Conns([Expired EXCEPT ![c] = "waiting"], [at EXCEPT ![c] = u])
    /\ To(u, "announcing")
    /\ UNCHANGED <<account, since, kind, notices, ended, stalled, timed>>

\* A connection comes in and is held, with a task to close it after PENDING_TTL.
Holds(u, c) ==
    /\ phase[u] = "on" /\ kind[u] = "listen" /\ conn[c] = "none"
    /\ Cardinality({d \in Incoming : Expired[d] = "waiting" /\ at[d] = u}) < MaxPending
    /\ Conns([Expired EXCEPT ![c] = "waiting"], [at EXCEPT ![c] = u])
    /\ timed' = timed \cup {c}
    /\ To(u, "announcing")
    /\ UNCHANGED <<account, since, kind, notices, ended, stalled>>

\* Too many wait, or there is no randomness to name it with: it is closed.
TurnsAway(u, c) ==
    /\ phase[u] = "on" /\ kind[u] = "listen" /\ conn[c] = "none"
    /\ Conns([Expired EXCEPT ![c] = "closed"], at)
    /\ UNCHANGED <<account, since, kind, phase, notices, ended, stalled, timed>>

\* `incoming` is sent, and the loop goes on.
Announced(u) ==
    /\ phase[u] = "announcing" /\ u \notin stalled
    /\ To(u, "on")
    /\ UNCHANGED <<account, since, kind, notices, ended, stalled, connVars>>

\* Faulty variant of Notice: the account is read, but not compared.
NoticeAnyPassword(u) ==
    /\ phase[u] = "on" /\ notices[u] > 0
    /\ notices' = [notices EXCEPT ![u] = @ - 1]
    /\ UNCHANGED <<account, since, kind, phase, ended, stalled, connVars>>

\* ending.next: a change, for which the account is read again.  (A database
\* that cannot be read ends the relay too.)
Notice(u) ==
    /\ phase[u] = "on" /\ notices[u] > 0
    /\ notices' = [notices EXCEPT ![u] = @ - 1]
    /\ \/ since[u] = epoch /\ To(u, "on")
       \/ To(u, "telling")
    /\ UNCHANGED <<account, since, kind, ended, stalled, connVars>>

\* ... or its own end.
Ended(u) ==
    /\ phase[u] = "on" /\ u \in ended
    /\ To(u, "telling")
    /\ UNCHANGED <<account, since, kind, notices, ended, stalled, connVars>>

\* The client is told why, and the loop is left.
Told(u) ==
    /\ phase[u] = "telling" /\ u \notin stalled
    /\ Off(u)

\* Either side of the connection, or the socket, goes.
Gone(u) ==
    /\ phase[u] \notin {"none", "off"}
    /\ Off(u)

\* DELETE /live/connections/{id}.
EndOne(u) ==
    /\ u \in Listed /\ u \notin ended
    /\ ended' = ended \cup {u}
    /\ UNCHANGED <<account, since, kind, phase, notices, stalled, connVars>>

\* The client does not read, its buffers are full, and a send to it waits.
Stall(u) ==
    /\ phase[u] \in {"greeting", "announcing", "telling"} /\ u \notin stalled
    /\ stalled' = stalled \cup {u}
    /\ UNCHANGED <<account, since, kind, phase, notices, ended, connVars>>

\* PENDING_TTL passes.
Age(c) ==
    /\ conn[c] = "waiting" /\ c \notin late
    /\ late' = late \cup {c}
    /\ UNCHANGED <<account, since, kind, phase, notices, ended, stalled, conn, at, timed>>

\* The task spawned with c: PendingStore::expire.
Timer(c) ==
    /\ c \in timed /\ (c \in late \/ conn[c] # "waiting")
    /\ timed' = timed \ {c}
    /\ Conns(Expired, at)
    /\ UNCHANGED <<account, since, kind, phase, notices, ended, stalled>>

-----------------------------------------------------------------------------
\* What the agent does of its own accord for u.
Serve(u) ==
    \/ CheckAccount(u) \/ RdpReads(u) \/ RdpSubscribes(u) \/ Opened(u) \/ Greets(u) \/ Starts(u)
    \/ Announced(u) \/ Notice(u) \/ Ended(u) \/ Told(u)

Next ==
    \/ ChangePassword \/ ChangeUntold \/ Broadcast
    \/ \E u \in Sockets :
        \/ Admit(u) \/ RdpRedeem(u)
        \/ Request(u) \/ Serve(u) \/ Fails(u) \/ Gone(u)
        \/ EndOne(u) \/ Stall(u)
        \/ \E c \in Incoming : Claim(u, c) \/ Holds(u, c) \/ TurnsAway(u, c)
    \/ \E c \in Incoming : Age(c) \/ Timer(c)

Spec == Init /\ [][Next]_vars

\* Tasks that can go on do, and time passes; clients and operators owe nothing.
FairSpec ==
    /\ Spec
    /\ WF_vars(Broadcast)
    /\ \A u \in Sockets : WF_vars(Serve(u))
    /\ \A c \in Incoming : WF_vars(Age(c)) /\ WF_vars(Timer(c))

-----------------------------------------------------------------------------
(***************************************************************************)
(* Properties.                                                             *)
(***************************************************************************)

\* Sockets past their check, whose loop goes on or is about to begin.
GoesOn(u) == phase[u] \in {"checked", "opened", "greeting", "on", "announcing"}

\* Nothing is on its way that would make u look at the account.
Quiet(u) == unsaid = 0 /\ notices[u] = 0

\* u was admitted before a change that the agent told of, and overlooked it.
Overlooked(u) == GoesOn(u) /\ since[u] < announced /\ Quiet(u)

\* A password change made through the agent reaches every relay, listener and
\* console admitted before it, wherever between its request and its loop the
\* change finds it and whatever resets from the command line come in between.
NoChangeIsMissed == \A u \in Sockets : kind[u] # "rdp" => ~Overlooked(u)

\* rdcleanpath.rs: "Subscribed before the checks, so a password change racing
\* them is delivered to the relay rather than missed."
RdpMissesNoChange == \A u \in Sockets : kind[u] = "rdp" => ~Overlooked(u)

\* bootstrap.rs, of a reset from the command line: it "ends what the old
\* password had paid for, as one through the API does".
ResetEndsRelays ==
    \A u \in Sockets : kind[u] # "rdp" => ~(GoesOn(u) /\ since[u] # epoch /\ Quiet(u))

\* What was admitted before a change made through the agent ends, unless its
\* client is not there to be told: by then nothing but the farewell is sent to
\* it.  (What a reset from the command line leaves goes on until such a change,
\* or a restart.)
OldPasswordEnds ==
    \A u \in Sockets :
        (phase[u] = "on" /\ kind[u] # "rdp" /\ since[u] < announced)
            ~> (phase[u] = "off" \/ u \in stalled)

\* listen.rs: a held connection is "Closed here if the app never takes it,
\* whatever else happens in the meantime".
HeldIsResolved == \A c \in Incoming : conn[c] = "waiting" ~> conn[c] # "waiting"

\* live.rs: "each one listed by `GET /live` and ended one at a time by `DELETE
\* /live/connections/{id}`".
EndedEnds == \A u \in Sockets : u \in ended ~> phase[u] \in {"telling", "off"}
=============================================================================
