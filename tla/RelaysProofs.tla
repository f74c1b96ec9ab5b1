---------------------------- MODULE RelaysProofs ----------------------------
(***************************************************************************)
(* That no password change made through the agent is missed, for any       *)
(* number of sockets, incoming connections and changes, and whatever       *)
(* changes that tell nobody come in between.                               *)
(*                                                                         *)
(* NoChangeIsMissed is not inductive alone: a socket of remote desktop     *)
(* passes through a phase of its own on its way to "checked", and nothing  *)
(* in the property says that no other kind does (ReadIsRdp); and that a    *)
(* socket whose epoch is the account's has missed nothing takes that no    *)
(* change was told of that was not made (ToldWasMade).                     *)
(***************************************************************************)
EXTENDS Relays, TLAPS

\* Only remote desktop reads the account before it subscribes.
ReadIsRdp == \A u \in Sockets : phase[u] = "read" => kind[u] = "rdp"

\* A change that is told of was made.
ToldWasMade == announced <= epoch

IInv == TypeOK /\ ToldWasMade /\ ReadIsRdp /\ NoChangeIsMissed

-----------------------------------------------------------------------------
\* What expire_locked leaves is a state of each incoming connection.
LEMMA ExpiredType ==
    ASSUME TypeOK
    PROVE  Expired \in [Incoming -> {"none", "waiting", "taken", "closed"}]
  BY DEF TypeOK, Expired

\* Connections that are closed, taken or held keep their types.
LEMMA ConnsType ==
    ASSUME TypeOK,
           NEW new \in [Incoming -> {"none", "waiting", "taken", "closed"}],
           NEW ats \in [Incoming -> Sockets \cup {Nobody}],
           Conns(new, ats)
    PROVE  /\ conn' \in [Incoming -> {"none", "waiting", "taken", "closed"}]
           /\ at' \in [Incoming -> Sockets \cup {Nobody}]
           /\ late' \in SUBSET Incoming
  BY DEF TypeOK, Conns

\* The end of a socket's loop keeps the types.
LEMMA OffType ==
    ASSUME TypeOK, NEW u \in Sockets, Off(u)
    PROVE  TypeOK'
<1>1. [c \in Incoming |-> IF at[c] = u THEN "closed" ELSE conn[c]]
          \in [Incoming -> {"none", "waiting", "taken", "closed"}]
    BY DEF TypeOK
<1> QED BY <1>1, ConnsType DEF TypeOK, Off, To, Phases, account

\* Every step of the relays keeps the types of their state.
LEMMA TypeStep ==
    ASSUME TypeOK, [Next]_vars
    PROVE  TypeOK'
<1> USE DEF TypeOK, Phases
<1>1. CASE ChangePassword \/ ChangeUntold
    BY <1>1 DEF ChangePassword, ChangeUntold, SetHash, connVars
<1>2. CASE Broadcast
    BY <1>2 DEF Broadcast, connVars, account
<1>3. ASSUME NEW u \in Sockets, Admit(u) \/ RdpRedeem(u) \/ Request(u)
      PROVE  TypeOK'
    BY <1>3 DEF Admit, RdpRedeem, Request, To, connVars, account
<1>4. ASSUME NEW u \in Sockets, Serve(u)
      PROVE  TypeOK'
  <2>1. CASE CheckAccount(u) \/ RdpReads(u) \/ RdpSubscribes(u)
    BY <2>1 DEF CheckAccount, RdpReads, RdpSubscribes, To, connVars, account
  <2>2. CASE Opened(u)
    BY <2>2 DEF Opened, To, connVars, account
  <2>3. CASE Greets(u) \/ Starts(u) \/ Announced(u)
    BY <2>3 DEF Greets, Starts, Announced, To, connVars, account
  <2>4. CASE Notice(u) \/ Ended(u)
    BY <2>4 DEF Notice, Ended, To, connVars, account
  <2>5. CASE Told(u)
    BY <2>5, OffType DEF Told
  <2> QED BY <1>4, <2>1, <2>2, <2>3, <2>4, <2>5 DEF Serve
<1>5. ASSUME NEW u \in Sockets, Fails(u) \/ Gone(u)
      PROVE  TypeOK'
    BY <1>5, OffType DEF Fails, Gone
<1>6. ASSUME NEW u \in Sockets, EndOne(u) \/ Stall(u)
      PROVE  TypeOK'
    BY <1>6 DEF EndOne, Stall, connVars, account
<1>7. ASSUME NEW u \in Sockets, NEW c \in Incoming, Claim(u, c) \/ Holds(u, c) \/ TurnsAway(u, c)
      PROVE  TypeOK'
  <2>0. \A x \in {"waiting", "taken", "closed"} :
            /\ [Expired EXCEPT ![c] = x] \in [Incoming -> {"none", "waiting", "taken", "closed"}]
            /\ [at EXCEPT ![c] = u] \in [Incoming -> Sockets \cup {Nobody}]
    BY ExpiredType
  <2>1. CASE Claim(u, c)
    BY <2>0, <2>1, ConnsType DEF Claim, To, account
  <2>2. CASE Holds(u, c)
    BY <2>0, <2>2, ConnsType DEF Holds, To, account
  <2>3. CASE TurnsAway(u, c)
    BY <2>0, <2>3, ConnsType DEF TurnsAway, To, account
  <2> QED BY <1>7, <2>1, <2>2, <2>3
<1>8. ASSUME NEW c \in Incoming, Age(c) \/ Timer(c)
      PROVE  TypeOK'
    BY <1>8, ExpiredType, ConnsType DEF Age, Timer, account
<1>9. CASE UNCHANGED vars
    BY <1>9 DEF vars, connVars, account
<1> QED BY <1>1, <1>2, <1>3, <1>4, <1>5, <1>6, <1>7, <1>8, <1>9 DEF Next

-----------------------------------------------------------------------------
\* Only a change tells of a change.
LEMMA ToldStep ==
    ASSUME TypeOK, ToldWasMade, [Next]_vars
    PROVE  ToldWasMade'
<1>1. CASE ChangePassword \/ ChangeUntold
    BY <1>1 DEF ChangePassword, ChangeUntold, SetHash, ToldWasMade, TypeOK
<1>2. CASE ~(ChangePassword \/ ChangeUntold)
  <2>1. UNCHANGED <<epoch, announced>>
    BY <1>2 DEF Next, vars, account, Broadcast, Serve, Admit, RdpRedeem, Request, CheckAccount, RdpReads,
                RdpSubscribes, Opened, Greets, Starts, Announced, Notice, Ended, Told, Fails, Gone,
                Off, EndOne, Stall, Claim, Holds, TurnsAway, Age, Timer
  <2> QED BY <2>1 DEF ToldWasMade
<1> QED BY <1>1, <1>2

\* The facts of one socket that the invariant rests on.
Reads(u) == phase[u] = "read" => kind[u] = "rdp"
Seen(u) == kind[u] # "rdp" => ~Overlooked(u)

\* A step that leaves the account, the notices and a socket as they are leaves
\* what is known of that socket.
LEMMA Untouched ==
    ASSUME NEW v \in Sockets, Reads(v), Seen(v), UNCHANGED account,
           phase'[v] = phase[v], kind'[v] = kind[v], since'[v] = since[v],
           notices'[v] = notices[v]
    PROVE  Reads(v)' /\ Seen(v)'
  BY DEF Reads, Seen, Overlooked, GoesOn, Quiet, account

\* A socket that is over, or whose loop is left, overlooks nothing.
LEMMA OverIsQuiet ==
    ASSUME TypeOK, NEW u \in Sockets, Off(u), NEW v \in Sockets, Reads(v), Seen(v)
    PROVE  Reads(v)' /\ Seen(v)'
<1>1. CASE v = u
    BY <1>1 DEF Reads, Seen, Overlooked, GoesOn, Off, To, TypeOK
<1>2. CASE v # u
    BY <1>2, Untouched DEF Off, To, TypeOK
<1> QED BY <1>1, <1>2

\* Every step keeps what is known of a socket: a change of password leaves a
\* broadcast to come, the broadcast a notice for every socket past its
\* subscription, and a notice is read only to compare the account.
LEMMA SeenStep ==
    ASSUME TypeOK, ToldWasMade, [Next]_vars, NEW v \in Sockets, Reads(v), Seen(v)
    PROVE  Reads(v)' /\ Seen(v)'
<1> USE DEF GoesOn, Quiet
<1>1. CASE ChangePassword \/ ChangeUntold
    BY <1>1 DEF ChangePassword, ChangeUntold, Reads, Seen, Overlooked, TypeOK
<1>2. CASE Broadcast
  <2>1. Reads(v)'
    BY <1>2 DEF Broadcast, Reads
  <2>2. ASSUME kind'[v] # "rdp", Overlooked(v)' PROVE FALSE
    <3>1. v \in Subscribed
      BY <1>2, <2>2 DEF Broadcast, Overlooked, Subscribed
    <3>2. notices'[v] = notices[v] + 1 /\ notices[v] \in Nat
      BY <1>2, <3>1 DEF Broadcast, TypeOK
    <3> QED BY <2>2, <3>2 DEF Overlooked
  <2> QED BY <2>1, <2>2 DEF Seen
<1>3. ASSUME NEW u \in Sockets, Admit(u) \/ RdpRedeem(u) \/ Request(u)
      PROVE  Reads(v)' /\ Seen(v)'
  <2>1. CASE v = u
    BY <1>3, <2>1 DEF Admit, RdpRedeem, Request, To, Reads, Seen, Overlooked, TypeOK, account
  <2>2. CASE v # u
    BY <1>3, <2>2, Untouched DEF Admit, RdpRedeem, Request, To, TypeOK
  <2> QED BY <2>1, <2>2
<1>4. ASSUME NEW u \in Sockets, Serve(u)
      PROVE  Reads(v)' /\ Seen(v)'
  <2>1. CASE CheckAccount(u) \/ RdpReads(u) \/ RdpSubscribes(u)
    <3>1. CASE v = u
      BY <2>1, <3>1 DEF CheckAccount, RdpReads, RdpSubscribes, To, Reads, Seen, Overlooked, TypeOK,
                        ToldWasMade, account
    <3>2. CASE v # u
      BY <2>1, <3>2, Untouched DEF CheckAccount, RdpReads, RdpSubscribes, To, TypeOK
    <3> QED BY <3>1, <3>2
  <2>2. CASE Opened(u) \/ Greets(u) \/ Starts(u) \/ Announced(u)
    <3>1. CASE v = u
      BY <2>2, <3>1 DEF Opened, Greets, Starts, Announced, To, Reads, Seen, Overlooked, TypeOK, account
    <3>2. CASE v # u
      BY <2>2, <3>2, Untouched DEF Opened, Greets, Starts, Announced, To, TypeOK
    <3> QED BY <3>1, <3>2
  <2>3. CASE Notice(u)
    <3>1. CASE v = u
      BY <2>3, <3>1 DEF Notice, To, Reads, Seen, Overlooked, TypeOK, ToldWasMade, account
    <3>2. CASE v # u
      BY <2>3, <3>2, Untouched DEF Notice, To, TypeOK
    <3> QED BY <3>1, <3>2
  <2>4. CASE Ended(u)
    <3>1. CASE v = u
      BY <2>4, <3>1 DEF Ended, To, Reads, Seen, Overlooked, TypeOK, account
    <3>2. CASE v # u
      BY <2>4, <3>2, Untouched DEF Ended, To, TypeOK
    <3> QED BY <3>1, <3>2
  <2>5. CASE Told(u)
    BY <2>5, OverIsQuiet DEF Told
  <2> QED BY <1>4, <2>1, <2>2, <2>3, <2>4, <2>5 DEF Serve
<1>5. ASSUME NEW u \in Sockets, Fails(u) \/ Gone(u)
      PROVE  Reads(v)' /\ Seen(v)'
    BY <1>5, OverIsQuiet DEF Fails, Gone
<1>6. ASSUME NEW u \in Sockets, EndOne(u) \/ Stall(u)
      PROVE  Reads(v)' /\ Seen(v)'
    BY <1>6, Untouched DEF EndOne, Stall
<1>7. ASSUME NEW u \in Sockets, NEW c \in Incoming, Claim(u, c) \/ Holds(u, c) \/ TurnsAway(u, c)
      PROVE  Reads(v)' /\ Seen(v)'
  <2>1. CASE v = u
    BY <1>7, <2>1 DEF Claim, Holds, TurnsAway, To, Reads, Seen, Overlooked, TypeOK, account
  <2>2. CASE v # u
    BY <1>7, <2>2, Untouched DEF Claim, Holds, TurnsAway, To, TypeOK
  <2> QED BY <2>1, <2>2
<1>8. ASSUME NEW c \in Incoming, Age(c) \/ Timer(c)
      PROVE  Reads(v)' /\ Seen(v)'
    BY <1>8, Untouched DEF Age, Timer
<1>9. CASE UNCHANGED vars
    BY <1>9, Untouched DEF vars
<1> QED BY <1>1, <1>2, <1>3, <1>4, <1>5, <1>6, <1>7, <1>8, <1>9 DEF Next

-----------------------------------------------------------------------------
\* The relays' state has its types in every behaviour.
THEOREM TypesHold == Spec => []TypeOK
<1>1. Init => TypeOK
    BY RelaysAssumption DEF Init, TypeOK, Phases
<1>2. TypeOK /\ [Next]_vars => TypeOK'
    BY TypeStep
<1> QED BY <1>1, <1>2, PTL DEF Spec

\* A relay, listener or console admitted before a password change that was made
\* through the agent has a notice to read, or one is still to be sent to it,
\* until its loop is left: whatever the numbers of sockets, connections and
\* changes, and whatever changes in between are told to nobody.
THEOREM ChangesReachAll == Spec => []NoChangeIsMissed
<1>1. Init => IInv
    BY RelaysAssumption DEF Init, IInv, TypeOK, ToldWasMade, Phases, ReadIsRdp, NoChangeIsMissed,
                            Overlooked, GoesOn
<1>2. IInv /\ [Next]_vars => IInv'
  <2> SUFFICES ASSUME IInv, [Next]_vars PROVE IInv'
    OBVIOUS
  <2>1. TypeOK'
    BY TypeStep DEF IInv
  <2>2. \A v \in Sockets : Reads(v)' /\ Seen(v)'
    <3> TAKE v \in Sockets
    <3>1. Reads(v) /\ Seen(v)
      BY DEF IInv, ReadIsRdp, NoChangeIsMissed, Reads, Seen
    <3> QED BY <3>1, SeenStep DEF IInv
  <2>3. ToldWasMade'
    BY ToldStep DEF IInv
  <2> QED BY <2>1, <2>2, <2>3 DEF IInv, ReadIsRdp, NoChangeIsMissed, Reads, Seen
<1>3. IInv => NoChangeIsMissed
    BY DEF IInv
<1> QED BY <1>1, <1>2, <1>3, PTL DEF Spec
=============================================================================
