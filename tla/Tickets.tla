------------------------------- MODULE Tickets -------------------------------
(***************************************************************************)
(* The single-use tickets that stand for a bearer token at a WebSocket     *)
(* upgrade: TicketStore (api/ws/ticket.rs), the route that issues them     *)
(* (issue_ws_ticket), the upgrade that redeems one (terminal_ws; the other *)
(* endpoints do the same) and the password change that revokes them.       *)
(*                                                                         *)
(* The account is read before a ticket is issued and again after one is    *)
(* reserved, each time with other threads running in between; a            *)
(* reservation is held across the handshake.  Time is what makes a ticket  *)
(* expire.                                                                 *)
(***************************************************************************)
EXTENDS Integers, FiniteSets

CONSTANTS
    Tickets,     \* tickets that may ever be asked for
    Upgrades,    \* upgrade requests that may ever be made
    NoTicket,
    MaxLive,     \* MAX_LIVE
    MaxChanges   \* bound: password changes

ASSUME TicketsAssumption ==
    /\ NoTicket \notin Tickets
    /\ MaxLive \in Nat
    /\ MaxChanges \in Nat

VARIABLES
    epoch,     \* password_changed_ms: how often the password was set
    owed,      \* changes stored whose end_account has still to run
    asked,     \* the request for each ticket
    paidBy,    \* the epoch its caller was checked under
    entries,   \* TicketStore::entries
    reserved,  \* the entries with Entry::reserved
    expired,   \* tickets past Entry::expires_at
    upgrade,   \* where each upgrade request is
    ticket     \* the ticket it presented

accountVars == <<epoch, owed>>
issueVars == <<asked, paidBy>>
entryVars == <<entries, reserved>>
upgradeVars == <<upgrade, ticket>>
vars == <<accountVars, issueVars, entryVars, expired, upgradeVars>>

\* Upgrades that hold a reservation, or whose reservation nobody gives back.
Holding == {"reserved", "admitted", "open", "dropped"}

TypeOK ==
    /\ epoch \in Nat /\ owed \in Nat
    /\ asked \in [Tickets -> {"no", "checked", "issued", "refused"}]
    /\ paidBy \in [Tickets -> Nat]
    /\ entries \in SUBSET Tickets
    /\ reserved \in SUBSET entries
    /\ expired \in SUBSET Tickets
    /\ upgrade \in [Upgrades -> {"new", "refused", "burned"} \cup Holding]
    /\ ticket \in [Upgrades -> Tickets \cup {NoTicket}]

Init ==
    /\ epoch = 0 /\ owed = 0
    /\ asked = [t \in Tickets |-> "no"]
    /\ paidBy = [t \in Tickets |-> 0]
    /\ entries = {} /\ reserved = {} /\ expired = {}
    /\ upgrade = [u \in Upgrades |-> "new"]
    /\ ticket = [u \in Upgrades |-> NoTicket]

-----------------------------------------------------------------------------
(***************************************************************************)
(* The account.                                                            *)
(***************************************************************************)

ChangePassword ==
    /\ epoch < MaxChanges
    /\ epoch' = epoch + 1
    /\ owed' = owed + 1
    /\ UNCHANGED <<issueVars, entryVars, expired, upgradeVars>>

\* end_account, its revoke_all: reserved or not.
RevokeAll ==
    /\ owed > 0
    /\ owed' = owed - 1
    /\ entries' = {} /\ reserved' = {}
    /\ UNCHANGED <<epoch, issueVars, expired, upgradeVars>>

(***************************************************************************)
(* issue_ws_ticket                                                         *)
(***************************************************************************)

\* require_jwt: the account is read.
CheckCaller(t) ==
    /\ asked[t] = "no"
    /\ asked' = [asked EXCEPT ![t] = "checked"]
    /\ paidBy' = [paidBy EXCEPT ![t] = epoch]
    /\ UNCHANGED <<accountVars, entryVars, expired, upgradeVars>>

\* Faulty variant of Issue: one too many.
IssueOverCap(t) ==
    /\ asked[t] = "checked"
    /\ LET live == entries \ expired IN
       /\ reserved' = reserved \ expired
       /\ \/ /\ Cardinality(live) <= MaxLive
             /\ entries' = live \cup {t}
             /\ asked' = [asked EXCEPT ![t] = "issued"]
          \/ /\ Cardinality(live) > MaxLive
             /\ entries' = live
             /\ asked' = [asked EXCEPT ![t] = "refused"]
    /\ UNCHANGED <<accountVars, paidBy, expired, upgradeVars>>

\* issue_at: the expired ones swept, whoever has them reserved, then counted.
Issue(t) ==
    /\ asked[t] = "checked"
    /\ LET live == entries \ expired IN
       /\ reserved' = reserved \ expired
       /\ \/ /\ Cardinality(live) < MaxLive
             /\ entries' = live \cup {t}
             /\ asked' = [asked EXCEPT ![t] = "issued"]
          \/ /\ Cardinality(live) >= MaxLive
             /\ entries' = live
             /\ asked' = [asked EXCEPT ![t] = "refused"]
    /\ UNCHANGED <<accountVars, paidBy, expired, upgradeVars>>

\* TTL seconds have passed.
Expire(t) ==
    /\ asked[t] = "issued" /\ t \notin expired
    /\ expired' = expired \cup {t}
    /\ UNCHANGED <<accountVars, issueVars, entryVars, upgradeVars>>

(***************************************************************************)
(* terminal_ws                                                             *)
(***************************************************************************)

Answer(u, how) == upgrade' = [upgrade EXCEPT ![u] = how]

\* Faulty variant of Reserve: an entry in use is handed out again.
ReserveShared(u, t) ==
    /\ upgrade[u] = "new"
    /\ ticket' = [ticket EXCEPT ![u] = t]
    /\ t \in entries /\ t \notin expired
    /\ reserved' = reserved \cup {t}
    /\ Answer(u, "reserved")
    /\ UNCHANGED <<accountVars, issueVars, entries, expired>>

\* reserve_at, with its own secret and purpose.
Reserve(u, t) ==
    /\ upgrade[u] = "new"
    /\ ticket' = [ticket EXCEPT ![u] = t]
    /\ t \in entries \ reserved /\ t \notin expired
    /\ reserved' = reserved \cup {t}
    /\ Answer(u, "reserved")
    /\ UNCHANGED <<accountVars, issueVars, entries, expired>>

\* reserve_at of an id that is not there, or reserved by another request.
ReserveUnknown(u, t) ==
    /\ upgrade[u] = "new"
    /\ asked[t] = "issued" /\ (t \in entries => t \in reserved)
    /\ ticket' = [ticket EXCEPT ![u] = t]
    /\ Answer(u, "refused")
    /\ UNCHANGED <<accountVars, issueVars, entryVars, expired>>

\* reserve_at of an expired ticket, or with a wrong purpose or secret: the
\* entry is gone all the same.
ReserveBurns(u, t) ==
    /\ upgrade[u] = "new"
    /\ t \in entries \ reserved
    /\ ticket' = [ticket EXCEPT ![u] = t]
    /\ entries' = entries \ {t}
    /\ Answer(u, "refused")
    /\ UNCHANGED <<accountVars, issueVars, reserved, expired>>

\* authz::caller found the account, and the link will do.
Admit(u) ==
    /\ upgrade[u] = "reserved"
    /\ Answer(u, "admitted")
    /\ UNCHANGED <<accountVars, issueVars, entryVars, expired, ticket>>

\* Faulty variant of Rollback: the entry is put back.
RollbackPutsBack(u) ==
    /\ entries' = entries \cup {ticket[u]}
    /\ reserved' = reserved \ {ticket[u]}

\* TicketStore::rollback, of an entry that is still there.
Rollback(u) ==
    /\ reserved' = reserved \ {ticket[u]}
    /\ UNCHANGED entries

\* Not admitted, or the handshake failed.
Fail(u) ==
    /\ upgrade[u] \in {"reserved", "admitted"}
    /\ Rollback(u)
    /\ Answer(u, "refused")
    /\ UNCHANGED <<accountVars, issueVars, expired, ticket>>

\* upgrade::start: the socket runs on a task of its own from here on ...
Open(u) ==
    /\ upgrade[u] = "admitted"
    /\ Answer(u, "open")
    /\ UNCHANGED <<accountVars, issueVars, entryVars, expired, ticket>>

\* ... and the ticket is burned after it.
Commit(u) ==
    /\ upgrade[u] = "open"
    /\ entries' = entries \ {ticket[u]}
    /\ reserved' = reserved \ {ticket[u]}
    /\ Answer(u, "burned")
    /\ UNCHANGED <<accountVars, issueVars, expired, ticket>>

\* The peer goes while the account is read: the request's future is dropped,
\* and with it a reservation that nothing gives back.
Drop(u) ==
    /\ upgrade[u] = "reserved"
    /\ Answer(u, "dropped")
    /\ UNCHANGED <<accountVars, issueVars, entryVars, expired, ticket>>

-----------------------------------------------------------------------------
Next ==
    \/ ChangePassword
    \/ RevokeAll
    \/ \E t \in Tickets : CheckCaller(t) \/ Issue(t) \/ Expire(t)
    \/ \E u \in Upgrades :
        \/ \E t \in Tickets : Reserve(u, t) \/ ReserveUnknown(u, t) \/ ReserveBurns(u, t)
        \/ Admit(u)
        \/ Fail(u)
        \/ Open(u)
        \/ Commit(u)
        \/ Drop(u)

Spec == Init /\ [][Next]_vars

-----------------------------------------------------------------------------
(***************************************************************************)
(* Properties.                                                             *)
(***************************************************************************)

\* A ticket opens one socket, however many requests present it while the
\* first is between its reservation and its commit, whatever a sweep or a
\* revocation does to the entry meanwhile.
SingleUse ==
    \A u, v \in Upgrades :
        upgrade[u] \in {"open", "burned"} /\ upgrade[v] \in {"open", "burned"}
            /\ ticket[u] = ticket[v] => u = v

\* A ticket that left the store never returns: the rollback of a handshake
\* that began before revoke_all, or before a sweep, brings nothing back.
OutStaysOut ==
    [][\A t \in Tickets : asked[t] = "issued" /\ t \notin entries => t \notin entries']_vars

\* MAX_LIVE bounds the store, reservations that nobody gave back included.
LiveIsBounded == Cardinality(entries) <= MaxLive

\* "Forgets every ticket: what the old password authorised is not to be
\* redeemed after it changes": once end_account is through, no ticket in the
\* store was paid for by an earlier password.
OldTicketsAreForgotten ==
    owed = 0 => \A t \in entries : paidBy[t] = epoch
=============================================================================
