------------------------- MODULE SessionStoreProofs -------------------------
(***************************************************************************)
(* For any number of sessions, connections and password changes: nothing   *)
(* of an old password stays, no shell and no slot is orphaned, and the     *)
(* store keeps to its bound.                                               *)
(***************************************************************************)
EXTENDS SessionStore, FiniteSetTheorems, TLAPS

\* The steps at which an open handler owns a shell that no task drives yet.
Owning == {"insert", "recheck", "attach_first"}

\* A shell has one owner at most, who was admitted under the epoch it carries.
Owned ==
    /\ \A c \in Conns : pc[c] \in Owning =>
        /\ of[c] \in Sessions
        /\ shell[of[c]] = "alive"
        /\ drive[of[c]] = "none"
        /\ current[of[c]] = NoConn
        /\ since[of[c]] = admitted[c]
    /\ \A c, d \in Conns :
        pc[c] \in Owning /\ pc[d] \in Owning /\ of[c] = of[d] => c = d

\* What a handler past its open, or a running connection, speaks of.
Spoken ==
    \A c \in Conns :
        /\ pc[c] = "insert" => of[c] \notin store
        /\ pc[c] = "abandon" => of[c] \in Sessions /\ closeIn[of[c]]
        /\ pc[c] \in AttachSteps => of[c] \in Sessions /\ drive[of[c]] # "none"
        /\ phase[c] = "running" => pc[c] = "none" /\ of[c] \in Sessions
        /\ pc[c] # "none" => phase[c] \in {"opening", "done"}

\* A driven shell is alive, and an alive one is driven or owned.
Driven ==
    \A s \in Sessions :
        /\ drive[s] \in {"running", "ending"} => shell[s] = "alive"
        /\ shell[s] = "alive" =>
            drive[s] \in {"running", "ending"} \/ BeingOpened(s, Owning)
        /\ shell[s] = "none" => drive[s] = "none" /\ current[s] = NoConn
        /\ s \in store => shell[s] = "alive"

\* A shell that nobody is ending is where close_all will find it, or its
\* recheck has still to come.
Findable ==
    \A s \in Sessions :
        shell[s] = "alive" => s \in store \/ Ending(s) \/ BeingOpened(s, {"insert"})

\* What the old password still has once end_account is through.
Outdated ==
    owed = 0 /\ resets = 0 =>
        /\ \A s \in store : since[s] = epoch \/ BeingOpened(s, {"recheck"})
        /\ \A s \in Sessions :
            shell[s] = "alive" /\ current[s] # NoConn /\ admitted[current[s]] # epoch =>
                Ending(s)
        /\ \A c \in Conns :
            pc[c] = "attach" /\ admitted[c] # epoch /\ shell[of[c]] = "alive" =>
                Ending(of[c])

IInv == TypeOK /\ Owned /\ Spoken /\ Driven /\ Findable /\ Outdated

\* Every step keeps the types; the handlers that touch a session have one.
LEMMA TypeStep ==
    ASSUME IInv, [Next]_vars
    PROVE  TypeOK'
<1> USE StoreAssumption DEF IInv, TypeOK, OpenSteps, AttachSteps,
        accountVars, shellVars, attachmentVars, connVars
<1>1. CASE Account
  BY <1>1 DEF ChangePassword, EndAccount, ResetFromCli, Account
<1>2. ASSUME NEW expired \in SUBSET Sessions, Reap(expired)
      PROVE  TypeOK'
  BY <1>2 DEF Reap, Expirable
<1>3. ASSUME NEW s \in Sessions, Session(s)
      PROVE  TypeOK'
  <2>1. CASE CloseLive(s)
    BY <2>1 DEF CloseLive
  <2>2. CASE Terminate(s)
    BY <2>2 DEF Terminate
  <2>3. CASE PublishClosed(s)
    BY <2>3 DEF PublishClosed
  <2>4. CASE ShellEnds(s)
    BY <2>4 DEF ShellEnds
  <2>5. CASE ReadClose(s)
    BY <2>5 DEF ReadClose, ShellEnds
  <2>6. CASE DriveEnd(s)
    BY <2>6 DEF DriveEnd
  <2> QED BY <1>3, <2>1, <2>2, <2>3, <2>4, <2>5, <2>6 DEF Session
<1>4. ASSUME NEW c \in Conns, Upgrade(c) \/ ClaimOpen(c) \/ \E s \in Sessions : ClaimAttach(c, s)
      PROVE  TypeOK'
  BY <1>4 DEF Upgrade, ClaimOpen, ClaimAttach, Goto
<1>5. ASSUME NEW c \in Conns, Disconnect(c) \/ HandleClose(c)
      PROVE  TypeOK'
  <2>1. phase[c] = "running" => of[c] \in Sessions
    BY DEF Spoken
  <2>2. CASE Disconnect(c)
    <3>1. current' \in [Sessions -> Conns \cup {NoConn}] /\ detached' \in [Sessions -> BOOLEAN]
      BY <2>1, <2>2 DEF Disconnect
    <3> QED BY <2>2, <3>1 DEF Disconnect
  <2>3. CASE HandleClose(c)
    <3>1. store' \in SUBSET Sessions /\ closeIn' \in [Sessions -> BOOLEAN]
      BY <2>1, <2>3 DEF HandleClose
    <3> QED BY <2>3, <3>1 DEF HandleClose
  <2> QED BY <1>5, <2>2, <2>3
<1>6. ASSUME NEW c \in Conns, MayEnter(c) \/ MayNot(c) \/ Recheck(c)
      PROVE  TypeOK'
  <2>1. CASE MayEnter(c)
    BY <2>1 DEF MayEnter, May, Goto
  <2>2. CASE MayNot(c)
    BY <2>2 DEF MayNot, May, Refuse
  <2>3. CASE Recheck(c)
    BY <2>3 DEF Recheck, May, Goto
  <2> QED BY <1>6, <2>1, <2>2, <2>3
<1>7. ASSUME NEW c \in Conns, NEW s \in Sessions, Spawn(c, s)
      PROVE  TypeOK'
  BY <1>7 DEF Spawn, Goto
<1>8. ASSUME NEW c \in Conns, NEW expired \in SUBSET Sessions, Insert(c, expired)
      PROVE  TypeOK'
  <2>1. of[c] \in Sessions
    BY <1>8 DEF Insert, Owned, Spoken, Owning
  <2> QED BY <1>8, <2>1 DEF Insert, Goto, Refuse, Kill, Expirable
<1>9. ASSUME NEW c \in Conns, Withdraw(c) \/ Abandon(c)
      PROVE  TypeOK'
  <2>1. of[c] \in Sessions
    BY <1>9 DEF Withdraw, Abandon, Owned, Spoken, Owning
  <2>2. CASE Withdraw(c)
    BY <2>1, <2>2 DEF Withdraw, Goto, Refuse, Kill
  <2>3. CASE Abandon(c)
    BY <2>1, <2>3 DEF Abandon, Goto, Refuse, Kill
  <2> QED BY <1>9, <2>2, <2>3
<1>10. ASSUME NEW c \in Conns, AttachFirst(c)
      PROVE  TypeOK'
  <2>1. of[c] \in Sessions
    BY <1>10 DEF AttachFirst, Owned, Spoken, Owning
  <2> QED BY <1>10, <2>1 DEF AttachFirst, Goto
<1>11. ASSUME NEW c \in Conns, AttachRefused(c) \/ Attach(c)
      PROVE  TypeOK'
  <2>1. of[c] \in Sessions
    BY <1>11 DEF AttachRefused, Attach, Owned, Spoken, Owning
  <2>2. CASE AttachRefused(c)
    BY <2>1, <2>2 DEF AttachRefused, Refuse
  <2>3. CASE Attach(c)
    <3>1. /\ \E holder \in Conns \cup {NoConn} :
                current' = [current EXCEPT ![of[c]] = holder]
          /\ \E flag \in BOOLEAN : detached' = [detached EXCEPT ![of[c]] = flag]
      BY <2>3 DEF Attach
    <3>2. current' \in [Sessions -> Conns \cup {NoConn}]
      BY <2>1, <3>1
    <3>3. detached' \in [Sessions -> BOOLEAN]
      BY <2>1, <3>1
    <3>4. phase' \in [Conns -> {"unused", "idle", "opening", "running", "done"}]
      BY <2>3 DEF Attach
    <3> QED BY <2>3, <3>2, <3>3, <3>4 DEF Attach, Goto
  <2> QED BY <1>11, <2>2, <2>3
<1>12. CASE UNCHANGED vars
  BY <1>12 DEF vars
<1> QED
  BY <1>1, <1>2, <1>3, <1>4, <1>5, <1>6, <1>7, <1>8, <1>9, <1>10, <1>11, <1>12 DEF Next, Handle

\* A shell is handed from step to step of one open handler, which gives it up
\* when its task starts.
LEMMA OwnedStep ==
    ASSUME IInv, [Next]_vars
    PROVE  Owned'
<1> USE DEF IInv, TypeOK, Owned, Spoken, Driven, Owning, BeingOpened, OpenSteps, AttachSteps,
        accountVars, shellVars, attachmentVars, connVars
<1>1. CASE Account
  BY <1>1 DEF ChangePassword, EndAccount, ResetFromCli, Account
<1>2. ASSUME NEW expired \in SUBSET Sessions, Reap(expired)
      PROVE  Owned'
  BY <1>2 DEF Reap, Expirable
<1>3. ASSUME NEW s \in Sessions, Session(s)
      PROVE  Owned'
  <2>1. CASE CloseLive(s)
    BY <2>1 DEF CloseLive
  <2>2. CASE Terminate(s)
    BY <2>2 DEF Terminate
  <2>3. CASE PublishClosed(s)
    BY <2>3 DEF PublishClosed
  <2>4. CASE ShellEnds(s)
    BY <2>4 DEF ShellEnds
  <2>5. CASE ReadClose(s)
    BY <2>5 DEF ReadClose, ShellEnds
  <2>6. CASE DriveEnd(s)
    BY <2>6 DEF DriveEnd
  <2> QED BY <1>3, <2>1, <2>2, <2>3, <2>4, <2>5, <2>6 DEF Session
<1>4. ASSUME NEW c \in Conns, Upgrade(c) \/ ClaimOpen(c) \/ \E s \in Sessions : ClaimAttach(c, s)
      PROVE  Owned'
  BY <1>4 DEF Upgrade, ClaimOpen, ClaimAttach, Goto
<1>5. ASSUME NEW c \in Conns, Disconnect(c) \/ HandleClose(c)
      PROVE  Owned'
  <2>1. CASE Disconnect(c)
    BY <2>1 DEF Disconnect
  <2>2. CASE HandleClose(c)
    BY <2>2 DEF HandleClose
  <2> QED BY <1>5, <2>1, <2>2
<1>6. ASSUME NEW c \in Conns, MayEnter(c) \/ MayNot(c) \/ Recheck(c)
      PROVE  Owned'
  <2>1. CASE MayEnter(c)
    BY <2>1 DEF MayEnter, May, Goto
  <2>2. CASE MayNot(c)
    BY <2>2 DEF MayNot, May, Refuse
  <2>3. CASE Recheck(c)
    BY <2>3 DEF Recheck, May, Goto
  <2> QED BY <1>6, <2>1, <2>2, <2>3
<1>7. ASSUME NEW c \in Conns, NEW s \in Sessions, Spawn(c, s)
      PROVE  Owned'
  BY <1>7 DEF Spawn, Goto
<1>8. ASSUME NEW c \in Conns, NEW expired \in SUBSET Sessions, Insert(c, expired)
      PROVE  Owned'
  <2>1. CASE Cardinality(store \ expired) >= MaxSessions
    BY <1>8, <2>1 DEF Insert, Refuse, Kill, Expirable
  <2>2. CASE ~(Cardinality(store \ expired) >= MaxSessions)
    BY <1>8, <2>2 DEF Insert, Goto, Expirable
  <2> QED BY <2>1, <2>2
<1>9. ASSUME NEW c \in Conns, Withdraw(c) \/ Abandon(c)
      PROVE  Owned'
  <2>1. CASE Withdraw(c)
    BY <2>1 DEF Withdraw, Refuse, Kill
  <2>2. CASE Abandon(c)
    BY <2>2 DEF Abandon, Goto
  <2> QED BY <1>9, <2>1, <2>2
<1>10. ASSUME NEW c \in Conns, AttachFirst(c)
      PROVE  Owned'
  BY <1>10 DEF AttachFirst, Goto
<1>11. ASSUME NEW c \in Conns, AttachRefused(c) \/ Attach(c)
      PROVE  Owned'
  <2>1. CASE AttachRefused(c)
    BY <2>1 DEF AttachRefused, Refuse
  <2>2. CASE Attach(c)
    BY <2>2 DEF Attach, Goto
  <2> QED BY <1>11, <2>1, <2>2
<1>12. CASE UNCHANGED vars
  BY <1>12 DEF vars
<1> QED
  BY <1>1, <1>2, <1>3, <1>4, <1>5, <1>6, <1>7, <1>8, <1>9, <1>10, <1>11, <1>12 DEF Next, Handle

\* Handlers keep to the session they speak of.
LEMMA SpokenStep ==
    ASSUME IInv, [Next]_vars
    PROVE  Spoken'
<1> USE DEF IInv, TypeOK, Owned, Spoken, Driven, Owning, OpenSteps, AttachSteps,
        accountVars, shellVars, attachmentVars, connVars
<1>1. CASE Account
  BY <1>1 DEF ChangePassword, EndAccount, ResetFromCli, Account
<1>2. ASSUME NEW expired \in SUBSET Sessions, Reap(expired)
      PROVE  Spoken'
  BY <1>2 DEF Reap, Expirable
<1>3. ASSUME NEW s \in Sessions, Session(s)
      PROVE  Spoken'
  <2>1. CASE CloseLive(s)
    BY <2>1 DEF CloseLive
  <2>2. CASE Terminate(s)
    BY <2>2 DEF Terminate
  <2>3. CASE PublishClosed(s)
    BY <2>3 DEF PublishClosed
  <2>4. CASE ShellEnds(s)
    BY <2>4 DEF ShellEnds
  <2>5. CASE ReadClose(s)
    BY <2>5 DEF ReadClose, ShellEnds
  <2>6. CASE DriveEnd(s)
    BY <2>6 DEF DriveEnd
  <2> QED BY <1>3, <2>1, <2>2, <2>3, <2>4, <2>5, <2>6 DEF Session
<1>4. ASSUME NEW c \in Conns, Upgrade(c) \/ ClaimOpen(c) \/ \E s \in Sessions : ClaimAttach(c, s)
      PROVE  Spoken'
  BY <1>4 DEF Upgrade, ClaimOpen, ClaimAttach, Goto
<1>5. ASSUME NEW c \in Conns, Disconnect(c) \/ HandleClose(c)
      PROVE  Spoken'
  <2>1. CASE Disconnect(c)
    BY <2>1 DEF Disconnect
  <2>2. CASE HandleClose(c)
    BY <2>2 DEF HandleClose
  <2> QED BY <1>5, <2>1, <2>2
<1>6. ASSUME NEW c \in Conns, MayEnter(c) \/ MayNot(c) \/ Recheck(c)
      PROVE  Spoken'
  <2>1. CASE MayEnter(c)
    BY <2>1 DEF MayEnter, May, Goto
  <2>2. CASE MayNot(c)
    BY <2>2 DEF MayNot, May, Refuse
  <2>3. CASE Recheck(c)
    BY <2>3 DEF Recheck, May, Goto
  <2> QED BY <1>6, <2>1, <2>2, <2>3
<1>7. ASSUME NEW c \in Conns, NEW s \in Sessions, Spawn(c, s)
      PROVE  Spoken'
  BY <1>7 DEF Spawn, Goto
<1>8. ASSUME NEW c \in Conns, NEW expired \in SUBSET Sessions, Insert(c, expired)
      PROVE  Spoken'
  <2>1. CASE Cardinality(store \ expired) >= MaxSessions
    BY <1>8, <2>1 DEF Insert, Refuse, Kill, Expirable
  <2>2. CASE ~(Cardinality(store \ expired) >= MaxSessions)
    BY <1>8, <2>2 DEF Insert, Goto, Expirable
  <2> QED BY <2>1, <2>2
<1>9. ASSUME NEW c \in Conns, Withdraw(c) \/ Abandon(c)
      PROVE  Spoken'
  <2>1. CASE Withdraw(c)
    BY <2>1 DEF Withdraw, Refuse, Kill
  <2>2. CASE Abandon(c)
    BY <2>2 DEF Abandon, Goto
  <2> QED BY <1>9, <2>1, <2>2
<1>10. ASSUME NEW c \in Conns, AttachFirst(c)
      PROVE  Spoken'
  BY <1>10 DEF AttachFirst, Goto
<1>11. ASSUME NEW c \in Conns, AttachRefused(c) \/ Attach(c)
      PROVE  Spoken'
  <2>1. CASE AttachRefused(c)
    BY <2>1 DEF AttachRefused, Refuse
  <2>2. CASE Attach(c)
    BY <2>2 DEF Attach, Goto
  <2> QED BY <1>11, <2>1, <2>2
<1>12. CASE UNCHANGED vars
  BY <1>12 DEF vars
<1> QED
  BY <1>1, <1>2, <1>3, <1>4, <1>5, <1>6, <1>7, <1>8, <1>9, <1>10, <1>11, <1>12 DEF Next, Handle

\* No step leaves an alive shell without a task or an owner.
LEMMA DrivenStep ==
    ASSUME IInv, [Next]_vars
    PROVE  Driven'
<1> USE DEF IInv, TypeOK, Owned, Spoken, Driven, Owning, BeingOpened, OpenSteps, AttachSteps,
        accountVars, shellVars, attachmentVars, connVars
<1>1. CASE Account
  BY <1>1 DEF ChangePassword, EndAccount, ResetFromCli, Account
<1>2. ASSUME NEW expired \in SUBSET Sessions, Reap(expired)
      PROVE  Driven'
  BY <1>2 DEF Reap, Expirable
<1>3. ASSUME NEW s \in Sessions, Session(s)
      PROVE  Driven'
  <2>1. CASE CloseLive(s)
    BY <2>1 DEF CloseLive
  <2>2. CASE Terminate(s)
    BY <2>2 DEF Terminate
  <2>3. CASE PublishClosed(s)
    BY <2>3 DEF PublishClosed
  <2>4. CASE ShellEnds(s)
    BY <2>4 DEF ShellEnds
  <2>5. CASE ReadClose(s)
    BY <2>5 DEF ReadClose, ShellEnds
  <2>6. CASE DriveEnd(s)
    BY <2>6 DEF DriveEnd
  <2> QED BY <1>3, <2>1, <2>2, <2>3, <2>4, <2>5, <2>6 DEF Session
<1>4. ASSUME NEW c \in Conns, Upgrade(c) \/ ClaimOpen(c) \/ \E s \in Sessions : ClaimAttach(c, s)
      PROVE  Driven'
  BY <1>4 DEF Upgrade, ClaimOpen, ClaimAttach, Goto
<1>5. ASSUME NEW c \in Conns, Disconnect(c) \/ HandleClose(c)
      PROVE  Driven'
  <2>1. CASE Disconnect(c)
    BY <2>1 DEF Disconnect
  <2>2. CASE HandleClose(c)
    BY <2>2 DEF HandleClose
  <2> QED BY <1>5, <2>1, <2>2
<1>6. ASSUME NEW c \in Conns, MayEnter(c) \/ MayNot(c) \/ Recheck(c)
      PROVE  Driven'
  <2>1. CASE MayEnter(c)
    BY <2>1 DEF MayEnter, May, Goto
  <2>2. CASE MayNot(c)
    BY <2>2 DEF MayNot, May, Refuse
  <2>3. CASE Recheck(c)
    BY <2>3 DEF Recheck, May, Goto
  <2> QED BY <1>6, <2>1, <2>2, <2>3
<1>7. ASSUME NEW c \in Conns, NEW s \in Sessions, Spawn(c, s)
      PROVE  Driven'
  BY <1>7 DEF Spawn, Goto
<1>8. ASSUME NEW c \in Conns, NEW expired \in SUBSET Sessions, Insert(c, expired)
      PROVE  Driven'
  <2>1. CASE Cardinality(store \ expired) >= MaxSessions
    BY <1>8, <2>1 DEF Insert, Refuse, Kill, Expirable
  <2>2. CASE ~(Cardinality(store \ expired) >= MaxSessions)
    BY <1>8, <2>2 DEF Insert, Goto, Expirable
  <2> QED BY <2>1, <2>2
<1>9. ASSUME NEW c \in Conns, Withdraw(c) \/ Abandon(c)
      PROVE  Driven'
  <2>1. CASE Withdraw(c)
    BY <2>1 DEF Withdraw, Refuse, Kill
  <2>2. CASE Abandon(c)
    BY <2>2 DEF Abandon, Goto
  <2> QED BY <1>9, <2>1, <2>2
<1>10. ASSUME NEW c \in Conns, AttachFirst(c)
      PROVE  Driven'
  BY <1>10 DEF AttachFirst, Goto
<1>11. ASSUME NEW c \in Conns, AttachRefused(c) \/ Attach(c)
      PROVE  Driven'
  <2>1. CASE AttachRefused(c)
    BY <2>1 DEF AttachRefused, Refuse
  <2>2. CASE Attach(c)
    BY <2>2 DEF Attach, Goto
  <2> QED BY <1>11, <2>1, <2>2
<1>12. CASE UNCHANGED vars
  BY <1>12 DEF vars
<1> QED
  BY <1>1, <1>2, <1>3, <1>4, <1>5, <1>6, <1>7, <1>8, <1>9, <1>10, <1>11, <1>12 DEF Next, Handle

\* What leaves the store is being ended.
LEMMA FindableStep ==
    ASSUME IInv, [Next]_vars
    PROVE  Findable'
<1> USE DEF IInv, TypeOK, Owned, Spoken, Driven, Findable, Owning, BeingOpened, Ending,
        OpenSteps, AttachSteps, accountVars, shellVars, attachmentVars, connVars
<1>1. CASE Account
  BY <1>1 DEF ChangePassword, EndAccount, ResetFromCli, Account
<1>2. ASSUME NEW expired \in SUBSET Sessions, Reap(expired)
      PROVE  Findable'
  BY <1>2 DEF Reap, Expirable
<1>3. ASSUME NEW s \in Sessions, Session(s)
      PROVE  Findable'
  <2>1. CASE CloseLive(s)
    BY <2>1 DEF CloseLive
  <2>2. CASE Terminate(s)
    BY <2>2 DEF Terminate
  <2>3. CASE PublishClosed(s)
    BY <2>3 DEF PublishClosed
  <2>4. CASE ShellEnds(s)
    BY <2>4 DEF ShellEnds
  <2>5. CASE ReadClose(s)
    BY <2>5 DEF ReadClose, ShellEnds
  <2>6. CASE DriveEnd(s)
    BY <2>6 DEF DriveEnd
  <2> QED BY <1>3, <2>1, <2>2, <2>3, <2>4, <2>5, <2>6 DEF Session
<1>4. ASSUME NEW c \in Conns, Upgrade(c) \/ ClaimOpen(c) \/ \E s \in Sessions : ClaimAttach(c, s)
      PROVE  Findable'
  BY <1>4 DEF Upgrade, ClaimOpen, ClaimAttach, Goto
<1>5. ASSUME NEW c \in Conns, Disconnect(c) \/ HandleClose(c)
      PROVE  Findable'
  <2>1. CASE Disconnect(c)
    BY <2>1 DEF Disconnect
  <2>2. CASE HandleClose(c)
    BY <2>2 DEF HandleClose
  <2> QED BY <1>5, <2>1, <2>2
<1>6. ASSUME NEW c \in Conns, MayEnter(c) \/ MayNot(c) \/ Recheck(c)
      PROVE  Findable'
  <2>1. CASE MayEnter(c)
    BY <2>1 DEF MayEnter, May, Goto
  <2>2. CASE MayNot(c)
    BY <2>2 DEF MayNot, May, Refuse
  <2>3. CASE Recheck(c)
    BY <2>3 DEF Recheck, May, Goto
  <2> QED BY <1>6, <2>1, <2>2, <2>3
<1>7. ASSUME NEW c \in Conns, NEW s \in Sessions, Spawn(c, s)
      PROVE  Findable'
  BY <1>7 DEF Spawn, Goto
<1>8. ASSUME NEW c \in Conns, NEW expired \in SUBSET Sessions, Insert(c, expired)
      PROVE  Findable'
  <2>1. CASE Cardinality(store \ expired) >= MaxSessions
    BY <1>8, <2>1 DEF Insert, Refuse, Kill, Expirable
  <2>2. CASE ~(Cardinality(store \ expired) >= MaxSessions)
    BY <1>8, <2>2 DEF Insert, Goto, Expirable
  <2> QED BY <2>1, <2>2
<1>9. ASSUME NEW c \in Conns, Withdraw(c) \/ Abandon(c)
      PROVE  Findable'
  <2>1. CASE Withdraw(c)
    BY <2>1 DEF Withdraw, Refuse, Kill
  <2>2. CASE Abandon(c)
    BY <2>2 DEF Abandon, Goto
  <2> QED BY <1>9, <2>1, <2>2
<1>10. ASSUME NEW c \in Conns, AttachFirst(c)
      PROVE  Findable'
  BY <1>10 DEF AttachFirst, Goto
<1>11. ASSUME NEW c \in Conns, AttachRefused(c) \/ Attach(c)
      PROVE  Findable'
  <2>1. CASE AttachRefused(c)
    BY <2>1 DEF AttachRefused, Refuse
  <2>2. CASE Attach(c)
    BY <2>2 DEF Attach, Goto
  <2> QED BY <1>11, <2>1, <2>2
<1>12. CASE UNCHANGED vars
  BY <1>12 DEF vars
<1> QED
  BY <1>1, <1>2, <1>3, <1>4, <1>5, <1>6, <1>7, <1>8, <1>9, <1>10, <1>11, <1>12 DEF Next, Handle

\* end_account leaves nothing of the old password, and no step brings any back.
LEMMA OutdatedStep ==
    ASSUME IInv, [Next]_vars
    PROVE  Outdated'
<1> USE DEF IInv, TypeOK, Owned, Spoken, Driven, Findable, Outdated, Owning, BeingOpened, Ending,
        OpenSteps, AttachSteps, accountVars, shellVars, attachmentVars, connVars
<1>1. CASE Account
  BY <1>1 DEF ChangePassword, EndAccount, ResetFromCli, Account
<1>2. ASSUME NEW expired \in SUBSET Sessions, Reap(expired)
      PROVE  Outdated'
  BY <1>2 DEF Reap, Expirable
<1>3. ASSUME NEW s \in Sessions, Session(s)
      PROVE  Outdated'
  <2>1. CASE CloseLive(s)
    BY <2>1 DEF CloseLive
  <2>2. CASE Terminate(s)
    BY <2>2 DEF Terminate
  <2>3. CASE PublishClosed(s)
    BY <2>3 DEF PublishClosed
  <2>4. CASE ShellEnds(s)
    BY <2>4 DEF ShellEnds
  <2>5. CASE ReadClose(s)
    BY <2>5 DEF ReadClose, ShellEnds
  <2>6. CASE DriveEnd(s)
    BY <2>6 DEF DriveEnd
  <2> QED BY <1>3, <2>1, <2>2, <2>3, <2>4, <2>5, <2>6 DEF Session
<1>4. ASSUME NEW c \in Conns, Upgrade(c) \/ ClaimOpen(c) \/ \E s \in Sessions : ClaimAttach(c, s)
      PROVE  Outdated'
  BY <1>4 DEF Upgrade, ClaimOpen, ClaimAttach, Goto
<1>5. ASSUME NEW c \in Conns, Disconnect(c) \/ HandleClose(c)
      PROVE  Outdated'
  <2>1. CASE Disconnect(c)
    BY <2>1 DEF Disconnect
  <2>2. CASE HandleClose(c)
    BY <2>2 DEF HandleClose
  <2> QED BY <1>5, <2>1, <2>2
<1>6. ASSUME NEW c \in Conns, MayEnter(c) \/ MayNot(c) \/ Recheck(c)
      PROVE  Outdated'
  <2>1. CASE MayEnter(c)
    BY <2>1 DEF MayEnter, May, Goto
  <2>2. CASE MayNot(c)
    BY <2>2 DEF MayNot, May, Refuse
  <2>3. CASE Recheck(c)
    BY <2>3 DEF Recheck, May, Goto
  <2> QED BY <1>6, <2>1, <2>2, <2>3
<1>7. ASSUME NEW c \in Conns, NEW s \in Sessions, Spawn(c, s)
      PROVE  Outdated'
  BY <1>7 DEF Spawn, Goto
<1>8. ASSUME NEW c \in Conns, NEW expired \in SUBSET Sessions, Insert(c, expired)
      PROVE  Outdated'
  <2>1. CASE Cardinality(store \ expired) >= MaxSessions
    BY <1>8, <2>1 DEF Insert, Refuse, Kill, Expirable
  <2>2. CASE ~(Cardinality(store \ expired) >= MaxSessions)
    BY <1>8, <2>2 DEF Insert, Goto, Expirable
  <2> QED BY <2>1, <2>2
<1>9. ASSUME NEW c \in Conns, Withdraw(c) \/ Abandon(c)
      PROVE  Outdated'
  <2>1. CASE Withdraw(c)
    BY <2>1 DEF Withdraw, Refuse, Kill
  <2>2. CASE Abandon(c)
    BY <2>2 DEF Abandon, Goto
  <2> QED BY <1>9, <2>1, <2>2
<1>10. ASSUME NEW c \in Conns, AttachFirst(c)
      PROVE  Outdated'
  BY <1>10 DEF AttachFirst, Goto
<1>11. ASSUME NEW c \in Conns, AttachRefused(c) \/ Attach(c)
      PROVE  Outdated'
  <2>1. CASE AttachRefused(c)
    BY <2>1 DEF AttachRefused, Refuse
  <2>2. CASE Attach(c)
    BY <2>2 DEF Attach, Goto
  <2> QED BY <1>11, <2>1, <2>2
<1>12. CASE UNCHANGED vars
  BY <1>12 DEF vars
<1> QED
  BY <1>1, <1>2, <1>3, <1>4, <1>5, <1>6, <1>7, <1>8, <1>9, <1>10, <1>11, <1>12 DEF Next, Handle

\* The inductive invariant holds in every reachable state.
THEOREM StoreInvariant == Spec => []IInv
<1>1. Init => IInv
  BY StoreAssumption DEF Init, IInv, TypeOK, Owned, Spoken, Driven, Findable, Outdated,
       Owning, OpenSteps, AttachSteps, BeingOpened, Ending
<1>2. IInv /\ [Next]_vars => IInv'
  BY TypeStep, OwnedStep, SpokenStep, DrivenStep, FindableStep, OutdatedStep DEF IInv
<1> QED BY <1>1, <1>2, PTL DEF Spec

\* No reachable state breaks the types.
THEOREM TypesHold == Spec => []TypeOK
<1>1. IInv => TypeOK
  BY DEF IInv
<1> QED BY <1>1, StoreInvariant, PTL

\* Whatever opens and attaches a password change races, for any number of
\* them: once end_account is through, each shell of the old password is
\* ending or will be withdrawn by its own recheck, and no connection admitted
\* under it holds a session.
THEOREM OldPasswordIsOut == Spec => []OldPasswordHoldsNothing
<1>1. IInv => OldPasswordHoldsNothing
  BY DEF IInv, Findable, Outdated, OldPasswordHoldsNothing, BeingOpened
<1> QED BY <1>1, StoreInvariant, PTL

\* Every shell has a task or an open handler that will end it, and every
\* handle in the store a shell.
THEOREM NoOrphans == Spec => []NothingIsOrphaned
<1>1. IInv => NothingIsOrphaned
  BY DEF IInv, Driven, NothingIsOrphaned, BeingOpened, Owning
<1> QED BY <1>1, StoreInvariant, PTL

\* Only insert adds to the store, one session at a time and below the bound.
THEOREM StoreKeepsItsBound == Spec => []StoreIsBounded
<1> DEFINE Bounded == IsFiniteSet(store) /\ Cardinality(store) <= MaxSessions
<1>1. Init => Bounded
  BY StoreAssumption, FS_EmptySet DEF Init
<1>2. Bounded /\ [Next]_vars => Bounded'
  <2> SUFFICES ASSUME Bounded, [Next]_vars PROVE Bounded'
    OBVIOUS
  <2>1. ASSUME NEW rest, rest \subseteq store
        PROVE  IsFiniteSet(rest) /\ Cardinality(rest) \in Nat /\ Cardinality(rest) <= MaxSessions
    <3>1. /\ IsFiniteSet(rest)
          /\ Cardinality(rest) <= Cardinality(store)
      BY <2>1, FS_Subset
    <3>2. Cardinality(rest) \in Nat /\ Cardinality(store) \in Nat
      BY <3>1, FS_CardinalityType
    <3> QED BY <3>1, <3>2, StoreAssumption
  <2>2. CASE store' \subseteq store
    BY <2>1, <2>2
  <2>3. ASSUME NEW c \in Conns, NEW expired \in SUBSET Sessions, Insert(c, expired)
        PROVE  Bounded'
    <3>1. CASE Cardinality(store \ expired) >= MaxSessions
      BY <2>1, <2>3, <3>1 DEF Insert
    <3>2. CASE ~(Cardinality(store \ expired) >= MaxSessions)
      <4>1. store' = (store \ expired) \cup {of[c]}
        BY <2>3, <3>2 DEF Insert
      <4>2. /\ IsFiniteSet(store \ expired)
            /\ Cardinality(store \ expired) \in Nat
        BY <2>1
      <4>3. /\ IsFiniteSet(store')
            /\ \/ Cardinality(store') = Cardinality(store \ expired)
               \/ Cardinality(store') = Cardinality(store \ expired) + 1
        BY <4>1, <4>2, FS_AddElement
      <4> QED BY <3>2, <4>2, <4>3, StoreAssumption
    <3> QED BY <3>1, <3>2
  <2>4. \/ store' \subseteq store
        \/ \E c \in Conns, expired \in SUBSET Sessions : Insert(c, expired)
    BY DEF Next, Account, ChangePassword, EndAccount, ResetFromCli, Reap, Session, CloseLive,
         Terminate, PublishClosed, ShellEnds, ReadClose, DriveEnd, Upgrade, ClaimOpen,
         ClaimAttach, Disconnect, HandleClose, Handle, MayEnter, MayNot, Spawn, Recheck,
         Withdraw, AttachFirst, Abandon, AttachRefused, Attach, vars
  <2> QED BY <2>2, <2>3, <2>4
<1>3. Bounded => StoreIsBounded
  BY DEF StoreIsBounded
<1> QED BY <1>1, <1>2, <1>3, PTL DEF Spec
=============================================================================
