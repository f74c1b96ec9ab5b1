------------------------- MODULE DeskSessionProofs --------------------------
(***************************************************************************)
(* That no tab puts away a change it never learnt of, and that a tab at    *)
(* rest shows nothing that was never stored: for any number of tabs, reads *)
(* under way, changes and failures, with windows restored or not.          *)
(*                                                                         *)
(* Both are about one step or one moment, and hold because of what every   *)
(* answer on its way says.  Whoever has the stored revision, whether as    *)
(* its own, in a save it sent or in an answer it has yet to take, was told *)
(* the stored windows or is about to be with the same step (Informed); and *)
(* what a tab shows is stored, or is carried by something that will store  *)
(* it (Minded).                                                            *)
(***************************************************************************)
EXTENDS DeskSession, TLAPS

\* The session kept: nothing before the first save, and nothing but saved changes.
Server ==
    /\ stored.rev = 0 => stored.win = {}
    /\ stored.win \subseteq kept

\* Windows seen at revision `rev` are those stored, if that is the revision.
Seen(rev, win) ==
    /\ rev <= stored.rev
    /\ rev = stored.rev => stored.win \subseteq win

\* What a tab knows, what the save it sent was made from, and what a read on its
\* way will tell it.
Knows(t) ==
    /\ windows[t] \subseteq told[t]
    /\ Seen(revision[t], told[t])
SaveKnows(t) ==
    /\ save[t].at \in {"asked", "ok"} => save[t].win \subseteq told[t]
    /\ save[t].at = "asked" => Seen(save[t].from, told[t])
    /\ save[t].at = "ok" => Seen(save[t].from + 1, told[t])
    /\ save[t].at = "refused" => Seen(save[t].current.rev, save[t].current.win)
LoadKnows(t, l) ==
    /\ load[t][l].at = "half" => load[t][l].current.rev <= stored.rev
    /\ load[t][l].at = "answered" => Seen(load[t][l].current.rev, load[t][l].current.win)
Informed(t) == Knows(t) /\ SaveKnows(t) /\ \A l \in Loads : LoadKnows(t, l)

\* Something will store what the tab shows, or says that it did not.
Cared(t) ==
    \/ windows[t] \subseteq kept
    \/ status[t] \in {"failed", "closed"} \/ unsaved[t]
    \/ timer[t] \/ again[t]
    \/ save[t].at # "none" /\ windows[t] \subseteq save[t].win \cup kept

\* And what it is answered was stored.
Answers(t) ==
    /\ save[t].at = "ok" => save[t].win \subseteq kept
    /\ save[t].at = "refused" => save[t].current.win \subseteq kept
Minded(t) ==
    /\ Cared(t)
    /\ save[t].at = "none" => ~again[t]
    /\ status[t] \in {"new", "loading"} => windows[t] \subseteq kept
    /\ Answers(t)
    /\ \A l \in Loads : load[t][l].current.win \subseteq kept

IInv == TypeOK /\ Server /\ (\A t \in Tabs : Informed(t)) /\ (\A t \in Tabs : Minded(t))

-----------------------------------------------------------------------------
\* A save that is sent has the type of one, and is this tab's only.
LEMMA RequestType ==
    ASSUME TypeOK, NEW t \in Tabs, NEW rev \in Nat, NEW win \in SUBSET Edits,
           NEW n \in 1 .. Attempts, Request(t, rev, win, n)
    PROVE  /\ save' \in [Tabs -> Save]
           /\ save'[t] = [at |-> "asked", from |-> rev, win |-> win, attempt |-> n,
                          current |-> Empty]
           /\ \A u \in Tabs : u # t => save'[u] = save[u]
<1>1. Empty \in Session
    BY DEF Empty, Session
<1>2. [at |-> "asked", from |-> rev, win |-> win, attempt |-> n, current |-> Empty] \in Save
    BY <1>1 DEF Save
<1> QED BY <1>2 DEF TypeOK, Request

\* One is a number of attempts, and no save has the type of one.
LEMMA NoSaveType == 1 \in 1 .. Attempts /\ NoSave \in Save /\ NoLoad \in Load
<1>1. Empty \in Session
    BY DEF Empty, Session
<1>2. 1 \in 1 .. Attempts
    BY DeskAssumption
<1> QED BY <1>1, <1>2 DEF NoSave, Save, NoLoad, Load

\* What flush sends, or leaves word of.
LEMMA FlushType ==
    ASSUME TypeOK, NEW t \in Tabs, Flush(t)
    PROVE  save' \in [Tabs -> Save] /\ again' \in [Tabs -> BOOLEAN]
<1>1. CASE save[t].at # "none"
    BY <1>1 DEF Flush, TypeOK
<1>2. CASE save[t].at = "none"
    BY <1>2, RequestType, NoSaveType DEF Flush, TypeOK
<1> QED BY <1>1, <1>2

\* The end of a flush.
LEMMA EndFlushType ==
    ASSUME TypeOK, NEW t \in Tabs, NEW rev \in Nat, NEW win \in SUBSET Edits,
           EndFlush(t, rev, win)
    PROVE  /\ save' \in [Tabs -> Save] /\ again' \in [Tabs -> BOOLEAN]
           /\ status' \in [Tabs -> {"new", "loading", "ready", "failed", "closed"}]
<1>1. again' \in [Tabs -> BOOLEAN]
    BY DEF EndFlush, TypeOK
<1>2. CASE again[t] /\ status[t] # "closed"
    BY <1>1, <1>2, RequestType, NoSaveType DEF EndFlush, TypeOK
<1>3. CASE ~(again[t] /\ status[t] # "closed")
    BY <1>1, <1>3, NoSaveType DEF EndFlush, TypeOK
<1> QED BY <1>2, <1>3

\* Hydrate shows no more than it is given, in this tab.
LEMMA HydrateIs ==
    ASSUME TypeOK, NEW t \in Tabs, NEW win \in SUBSET Edits, NEW shown \in Shown(win),
           Hydrate(t, win, shown)
    PROVE  /\ windows' \in [Tabs -> SUBSET Edits] /\ left' \in [Tabs -> SUBSET Edits]
           /\ shown \in SUBSET Edits /\ shown \subseteq win
           /\ windows'[t] = shown
           /\ \A u \in Tabs : u # t => windows'[u] = windows[u]
<1>1. shown \subseteq win /\ shown \in SUBSET Edits /\ (win \ shown) \in SUBSET Edits
    BY DEF Shown
<1> QED BY <1>1 DEF Hydrate, TypeOK

\* What a tab shows after a refusal it yields to is part of what it was refused
\* with.
LEMMA RefusedShows ==
    ASSUME TypeOK, NEW t \in Tabs, RefusedUnused(t)
    PROVE  /\ EndFlush(t, save[t].current.rev, windows'[t])
           /\ windows'[t] \in SUBSET Edits /\ windows'[t] \subseteq save[t].current.win
<1>1. save[t].current.win \in SUBSET Edits
    BY DEF TypeOK, Save, Session
<1>2. PICK shown \in Shown(save[t].current.win) :
          /\ Hydrate(t, save[t].current.win, shown)
          /\ EndFlush(t, save[t].current.rev, shown)
    BY DEF RefusedUnused
<1>3. windows'[t] = shown /\ shown \in SUBSET Edits /\ shown \subseteq save[t].current.win
    BY <1>1, <1>2, HydrateIs
<1> QED BY <1>2, <1>3

\* What it shows after a read is part of the answer, if it is to be restored.
LEMMA LoadedShows ==
    ASSUME TypeOK, NEW t \in Tabs, NEW l \in Loads, Loaded(t, l), status[t] # "closed"
    PROVE  IF Restore \/ Started(t) THEN windows'[t] \subseteq load[t][l].current.win
                                    ELSE windows' = windows
<1>1. load[t][l].current.win \in SUBSET Edits
    BY DEF TypeOK, Load, Session
<1> QED BY <1>1, HydrateIs DEF Loaded

\* A read that is sent.
LEMMA AskLoadType ==
    ASSUME TypeOK, NEW t \in Tabs, NEW l \in Loads, AskLoad(t, l)
    PROVE  load' \in [Tabs -> [Loads -> Load]]
<1>1. [at |-> "asked", current |-> Empty] \in Load
    BY DEF Load, Empty, Session
<1> QED BY <1>1 DEF AskLoad, TypeOK

\* Every step keeps the types.
LEMMA TypeStep ==
    ASSUME TypeOK, [Next]_vars
    PROVE  TypeOK'
<1> USE DEF serverVars
<1>1. ASSUME NEW t \in Tabs, Start(t) PROVE TypeOK'
    BY <1>1, AskLoadType DEF Start, TypeOK
<1>2. ASSUME NEW t \in Tabs, Edit(t) PROVE TypeOK'
  <2>1. edits' \in 0 .. MaxEdits /\ edits' \in Edits
    BY <1>2, DeskAssumption DEF Edit, TypeOK, Edits
  <2> QED BY <1>2, <2>1 DEF Edit, TypeOK
<1>3. ASSUME NEW t \in Tabs, Timer(t) PROVE TypeOK'
    BY <1>3, FlushType DEF Timer, TypeOK
<1>4. ASSUME NEW t \in Tabs, Write(t) PROVE TypeOK'
  <2>1. save[t] \in Save /\ stored \in Session
    BY DEF TypeOK
  <2>2. stored' \in Session /\ stored'.rev \in Nat
    BY <1>4, <2>1 DEF Write, Save, Session
  <2>3. heard' \in [Tabs -> Nat]
    BY <1>4, <2>2 DEF Write, Told, TypeOK
  <2>4. save' \in [Tabs -> Save]
    BY <1>4, <2>1 DEF Write, TypeOK, Save
  <2>5. kept' \in SUBSET Edits
    BY <1>4, <2>1 DEF Write, TypeOK, Save
  <2> QED BY <1>4, <2>2, <2>3, <2>4, <2>5 DEF Write, TypeOK
<1>5. ASSUME NEW t \in Tabs, Conflict(t) PROVE TypeOK'
  <2>1. save[t] \in Save /\ stored \in Session
    BY DEF TypeOK
  <2>2. save' \in [Tabs -> Save]
    <3>1. PICK s : s = [save[t] EXCEPT !.at = "refused", !.current = stored]
      OBVIOUS
    <3>2. s \in Save
      BY <2>1, <3>1 DEF Save
    <3>3. save' = [save EXCEPT ![t] = s]
      BY <1>5, <3>1, Zenon DEF Conflict
    <3> QED BY <3>2, <3>3 DEF TypeOK
  <2> QED BY <1>5, <2>2 DEF Conflict, TypeOK
<1>6. ASSUME NEW t \in Tabs, Saved(t) PROVE TypeOK'
  <2>1. save[t].from + 1 \in Nat /\ windows[t] \in SUBSET Edits
    BY DEF TypeOK, Save
  <2> QED BY <1>6, <2>1, EndFlushType DEF Saved, TypeOK
<1>7. ASSUME NEW t \in Tabs, RefusedInUse(t) PROVE TypeOK'
  <2>1. /\ save[t].current.rev \in Nat /\ save[t].current.win \in SUBSET Edits
        /\ windows[t] \in SUBSET Edits
    BY DEF TypeOK, Save, Session
  <2>2. CASE save[t].attempt < Attempts
    <3>1. save[t].attempt + 1 \in 1 .. Attempts
      BY <2>2, DeskAssumption DEF TypeOK, Save
    <3> QED BY <1>7, <2>1, <2>2, <3>1, RequestType DEF RefusedInUse, TypeOK
  <2>3. CASE ~(save[t].attempt < Attempts)
    <3>1. unsaved' \in [Tabs -> BOOLEAN]
      BY <1>7, <2>3 DEF RefusedInUse, TypeOK
    <3> QED BY <1>7, <2>1, <2>3, <3>1, EndFlushType DEF RefusedInUse, TypeOK
  <2> QED BY <2>2, <2>3
<1>8. ASSUME NEW t \in Tabs, RefusedUnused(t) PROVE TypeOK'
  <2>1. save[t].current.rev \in Nat /\ save[t].current.win \in SUBSET Edits
    BY DEF TypeOK, Save, Session
  <2>2. PICK shown \in Shown(save[t].current.win) :
            /\ Hydrate(t, save[t].current.win, shown)
            /\ EndFlush(t, save[t].current.rev, shown)
    BY <1>8 DEF RefusedUnused
  <2>3. /\ windows' \in [Tabs -> SUBSET Edits] /\ left' \in [Tabs -> SUBSET Edits]
        /\ shown \in SUBSET Edits
    BY <2>1, <2>2, HydrateIs
  <2> QED BY <1>8, <2>1, <2>2, <2>3, EndFlushType DEF RefusedUnused, TypeOK
<1>9. ASSUME NEW t \in Tabs, SaveFails(t) PROVE TypeOK'
  <2>1. revision[t] \in Nat /\ windows[t] \in SUBSET Edits
    BY DEF TypeOK
  <2> QED BY <1>9, <2>1, EndFlushType DEF SaveFails, TypeOK
<1>10. ASSUME NEW t \in Tabs, Close(t) PROVE TypeOK'
  <2>1. save' \in [Tabs -> Save] /\ again' \in [Tabs -> BOOLEAN]
    BY <1>10, FlushType DEF Close, TypeOK
  <2>2. load' \in [Tabs -> [Loads -> Load]]
    BY <1>10, NoSaveType DEF Close, TypeOK
  <2> QED BY <1>10, <2>1, <2>2 DEF Close, TypeOK
<1>11. ASSUME NEW t \in Tabs, NEW l \in Loads, ReadSession(t, l) PROVE TypeOK'
  <2>1. load[t][l] \in Load /\ stored \in Session
    BY DEF TypeOK
  <2>2. load' \in [Tabs -> [Loads -> Load]]
    <3>1. PICK r \in Load : load' = [load EXCEPT ![t][l] = r]
      <4>1. CASE load[t][l].at = "asked"
        <5>1. [at |-> IF stored.rev = 0 THEN "answered" ELSE "half",
               current |-> [rev |-> stored.rev, win |-> {}]] \in Load
          BY <2>1 DEF Load, Session
        <5> QED BY <1>11, <4>1, <5>1, Zenon DEF ReadSession
      <4>2. CASE load[t][l].at = "half"
        <5>1. [at |-> "answered",
               current |-> [load[t][l].current EXCEPT !.win = stored.win]] \in Load
          BY <2>1 DEF Load, Session
        <5> QED BY <1>11, <4>2, <5>1 DEF ReadSession, TypeOK
      <4> QED BY <1>11, <4>1, <4>2 DEF ReadSession
    <3> QED BY <3>1 DEF TypeOK
  <2> QED BY <1>11, <2>2 DEF ReadSession, TypeOK
<1>12. ASSUME NEW t \in Tabs, NEW l \in Loads, Loaded(t, l) PROVE TypeOK'
  <2>1. load[t][l].current.rev \in Nat /\ load[t][l].current.win \in SUBSET Edits
    BY DEF TypeOK, Load, Session
  <2>2. load' \in [Tabs -> [Loads -> Load]]
    BY <1>12, NoSaveType DEF Loaded, TypeOK
  <2>3. timer' \in [Tabs -> BOOLEAN]
    BY <1>12 DEF Loaded, TypeOK
  <2>4. /\ windows' \in [Tabs -> SUBSET Edits] /\ told' \in [Tabs -> SUBSET Edits]
        /\ left' \in [Tabs -> SUBSET Edits]
    <3>1. CASE status[t] = "closed"
      BY <1>12, <3>1 DEF Loaded, TypeOK
    <3>2. CASE status[t] # "closed"
      <4>1. windows' \in [Tabs -> SUBSET Edits] /\ left' \in [Tabs -> SUBSET Edits]
        BY <1>12, <2>1, <3>2, HydrateIs DEF Loaded, TypeOK
      <4>2. told' \in [Tabs -> SUBSET Edits]
        BY <1>12, <2>1, <3>2 DEF Loaded, TypeOK
      <4> QED BY <4>1, <4>2 DEF TypeOK
    <3> QED BY <3>1, <3>2
  <2>5. /\ revision' \in [Tabs -> Nat]
        /\ status' \in [Tabs -> {"new", "loading", "ready", "failed", "closed"}]
    BY <1>12, <2>1 DEF Loaded, TypeOK
  <2> QED BY <1>12, <2>2, <2>3, <2>4, <2>5 DEF Loaded, TypeOK
<1>13. ASSUME NEW t \in Tabs, NEW l \in Loads, LoadFails(t, l) PROVE TypeOK'
  <2>1. load' \in [Tabs -> [Loads -> Load]]
    BY <1>13, NoSaveType DEF LoadFails, TypeOK
  <2> QED BY <1>13, <2>1 DEF LoadFails, TypeOK
<1>14. ASSUME NEW t \in Tabs, RemoteChanged(t) PROVE TypeOK'
    BY <1>14, AskLoadType DEF RemoteChanged, TypeOK
<1>15. CASE UNCHANGED vars
    BY <1>15 DEF vars, tabVars, TypeOK
<1> QED
    BY <1>1, <1>2, <1>3, <1>4, <1>5, <1>6, <1>7, <1>8, <1>9, <1>10, <1>11, <1>12, <1>13,
       <1>14, <1>15 DEF Next

\* What the tabs start with.
LEMMA InitType ==
    ASSUME Init
    PROVE  TypeOK
<1>1. stored \in Session
    BY DEF Init, Empty, Session
<1>2. edits \in 0 .. MaxEdits
    BY DeskAssumption DEF Init
<1> QED BY <1>1, <1>2, NoSaveType DEF Init, TypeOK

\* The types hold of every execution.
THEOREM TypesHold == Spec => []TypeOK
<1>1. Init => TypeOK
    BY InitType
<1>2. TypeOK /\ [Next]_vars => TypeOK'
    BY TypeStep
<1> QED BY <1>1, <1>2, PTL DEF Spec

-----------------------------------------------------------------------------
\* A step of another tab: nothing of this one's changes.
Untouched(u) ==
    /\ status'[u] = status[u] /\ revision'[u] = revision[u] /\ windows'[u] = windows[u]
    /\ timer'[u] = timer[u] /\ again'[u] = again[u] /\ save'[u] = save[u]
    /\ load'[u] = load[u] /\ told'[u] = told[u] /\ unsaved'[u] = unsaved[u]

\* What a tab knows stays so while what is stored does.
LEMMA OthersInformed ==
    ASSUME NEW u \in Tabs, Informed(u), Untouched(u), stored' = stored
    PROVE  Informed(u)'
  BY DEF Untouched, Informed, Knows, SaveKnows, LoadKnows, Seen

\* And once another save is written no revision it has is the stored one.
LEMMA OthersOutdated ==
    ASSUME TypeOK, NEW u \in Tabs, Informed(u), Untouched(u), stored'.rev = stored.rev + 1
    PROVE  Informed(u)'
<1>1. stored.rev \in Nat /\ revision[u] \in Nat /\ save[u] \in Save
    BY DEF TypeOK, Session
<1>2. \A l \in Loads : load[u][l] \in Load
    BY DEF TypeOK
<1>3. Knows(u)'
    BY <1>1 DEF Informed, Knows, Seen, Untouched
<1>4. SaveKnows(u)'
    BY <1>1 DEF Informed, SaveKnows, Seen, Untouched, Save, Session
<1>5. ASSUME NEW l \in Loads PROVE LoadKnows(u, l)'
    BY <1>1, <1>2 DEF Informed, LoadKnows, Seen, Untouched, Load, Session
<1> QED BY <1>3, <1>4, <1>5 DEF Informed

\* What a tab shows stays minded while nothing kept is forgotten.
LEMMA OthersMinded ==
    ASSUME NEW u \in Tabs, Minded(u), Untouched(u), kept \subseteq kept'
    PROVE  Minded(u)'
  BY DEF Untouched, Minded, Cared, Answers

\* Every step is one tab's.
LEMMA OneTab ==
    ASSUME TypeOK, NEW t \in Tabs, NEW u \in Tabs, u # t,
           \/ Start(t) \/ Edit(t) \/ Close(t) \/ Timer(t) \/ Write(t) \/ Conflict(t)
           \/ Saved(t) \/ RefusedInUse(t) \/ RefusedUnused(t) \/ SaveFails(t)
           \/ RemoteChanged(t)
           \/ \E l \in Loads : ReadSession(t, l) \/ Loaded(t, l) \/ LoadFails(t, l)
    PROVE  Untouched(u)
<1> USE DEF Untouched, TypeOK
<1>1. CASE Start(t) \/ Edit(t)
    BY <1>1 DEF Start, Edit, AskLoad
<1>2. CASE Close(t) \/ Timer(t)
    BY <1>2 DEF Close, Timer, Flush, Request
<1>3. CASE Write(t) \/ Conflict(t)
    BY <1>3 DEF Write, Conflict
<1>4. CASE Saved(t) \/ SaveFails(t)
    BY <1>4 DEF Saved, SaveFails, EndFlush, Request
<1>5. CASE RefusedInUse(t) \/ RefusedUnused(t)
    BY <1>5 DEF RefusedInUse, RefusedUnused, EndFlush, Request, Hydrate
<1>6. CASE RemoteChanged(t)
    BY <1>6 DEF RemoteChanged, AskLoad
<1>7. ASSUME NEW l \in Loads, ReadSession(t, l) PROVE Untouched(u)
    BY <1>7 DEF ReadSession
<1>8. ASSUME NEW l \in Loads, Loaded(t, l) \/ LoadFails(t, l) PROVE Untouched(u)
    BY <1>8 DEF Loaded, LoadFails, Hydrate
<1> QED BY <1>1, <1>2, <1>3, <1>4, <1>5, <1>6, <1>7, <1>8

-----------------------------------------------------------------------------
\* What a tab sends: it has seen the windows of the revision it names.
LEMMA RequestInformed ==
    ASSUME TypeOK, NEW t \in Tabs, NEW rev \in Nat, NEW win \in SUBSET Edits,
           NEW n \in 1 .. Attempts, Request(t, rev, win, n),
           Seen(rev, told'[t]), stored' = stored, win \subseteq told'[t]
    PROVE  SaveKnows(t)'
<1>0. save'[t] = [at |-> "asked", from |-> rev, win |-> win, attempt |-> n, current |-> Empty]
    BY RequestType
<1>1. save'[t].at = "asked" /\ save'[t].from = rev /\ save'[t].win = win
    BY <1>0
<1> QED BY <1>1 DEF SaveKnows, Seen

\* What it sends is what it shows, so that is minded.
LEMMA RequestMinded ==
    ASSUME TypeOK, NEW t \in Tabs, NEW rev \in Nat, NEW n \in 1 .. Attempts,
           windows'[t] \in SUBSET Edits, Request(t, rev, windows'[t], n),
           status'[t] \in {"new", "loading"} => windows'[t] \subseteq kept',
           \A l \in Loads : load'[t][l].current.win \subseteq kept'
    PROVE  Minded(t)'
<1>0. save'[t] = [at |-> "asked", from |-> rev, win |-> windows'[t], attempt |-> n,
                  current |-> Empty]
    BY RequestType
<1>1. save'[t].at = "asked" /\ save'[t].win = windows'[t]
    BY <1>0
<1> QED BY <1>1 DEF Minded, Cared, Answers

\* The end of a flush sends again what is shown, or is the end.
LEMMA EndFlushIs ==
    ASSUME TypeOK, NEW t \in Tabs, NEW rev \in Nat, NEW win \in SUBSET Edits,
           EndFlush(t, rev, win)
    PROVE  /\ ~again'[t]
           /\ \/ again[t] /\ Request(t, rev, win, 1) /\ status' = status
              \/ /\ save'[t] = NoSave
                 /\ status'[t] \in {status[t], "closed"}
                 /\ again[t] => status'[t] = "closed"
<1>1. ~again'[t]
    BY DEF EndFlush, TypeOK
<1>2. CASE again[t] /\ status[t] # "closed"
    BY <1>1, <1>2 DEF EndFlush
<1>3. CASE ~(again[t] /\ status[t] # "closed")
    BY <1>1, <1>3 DEF EndFlush, TypeOK
<1> QED BY <1>2, <1>3

\* After a flush a tab knows what it knew.
LEMMA EndFlushInformed ==
    ASSUME TypeOK, NEW t \in Tabs, NEW rev \in Nat, NEW win \in SUBSET Edits,
           EndFlush(t, rev, win),
           Seen(rev, told'[t]), stored' = stored, win \subseteq told'[t]
    PROVE  SaveKnows(t)'
<1>1. CASE Request(t, rev, win, 1)
    BY <1>1, RequestInformed, NoSaveType
<1>2. CASE save'[t] = NoSave
    BY <1>2 DEF SaveKnows, NoSave
<1> QED BY <1>1, <1>2, EndFlushIs

-----------------------------------------------------------------------------
\* A save that a step leaves as it is says what it said.
LEMMA SaveKept ==
    ASSUME NEW t \in Tabs, SaveKnows(t), save'[t] = save[t], told[t] \subseteq told'[t],
           stored' = stored
    PROVE  SaveKnows(t)'
  BY DEF SaveKnows, Seen

\* And of a read.
LEMMA LoadKept ==
    ASSUME NEW t \in Tabs, NEW l \in Loads, LoadKnows(t, l), load'[t][l] = load[t][l],
           stored' = stored
    PROVE  LoadKnows(t, l)'
  BY DEF LoadKnows, Seen

\* A read that is asked, over or given up says nothing yet.
LEMMA LoadSaysNothing ==
    ASSUME NEW t \in Tabs, NEW l \in Loads, load'[t][l].at \in {"none", "asked"}
    PROVE  LoadKnows(t, l)'
  BY DEF LoadKnows

\* A read is sent.
LEMMA AskLoadKnows ==
    ASSUME IInv, NEW t \in Tabs, NEW l \in Loads, AskLoad(t, l), stored' = stored
    PROVE  \A m \in Loads : LoadKnows(t, m)'
<1> SUFFICES ASSUME NEW m \in Loads PROVE LoadKnows(t, m)'
    OBVIOUS
<1>1. CASE m = l
  <2>1. load'[t][l] = [at |-> "asked", current |-> Empty]
    BY DEF AskLoad, IInv, TypeOK
  <2>2. load'[t][l].at = "asked"
    BY <2>1
  <2> QED BY <1>1, <2>2, LoadSaysNothing
<1>2. CASE m # l
  <2>1. load'[t][m] = load[t][m]
    BY <1>2 DEF AskLoad, IInv, TypeOK
  <2> QED BY <2>1, LoadKept DEF IInv, Informed
<1> QED BY <1>1, <1>2

\* A save is written: it replaces what its tab has seen by what it shows.
LEMMA WriteInformed ==
    ASSUME IInv, NEW t \in Tabs, Write(t)
    PROVE  Server' /\ \A u \in Tabs : Informed(u)'
<1>0. /\ stored.rev \in Nat /\ save[t] \in Save /\ revision[t] \in Nat
      /\ \A l \in Loads : load[t][l] \in Load
    BY DEF IInv, TypeOK, Session
<1>1. stored'.rev = stored.rev + 1 /\ stored'.win = save[t].win
    BY DEF Write
<1>2. Server'
    BY <1>0, <1>1 DEF Server, Write
<1>3. ASSUME NEW u \in Tabs, u # t PROVE Informed(u)'
    BY <1>1, <1>3, OneTab, OthersOutdated DEF IInv
<1>4. Knows(t)'
    BY <1>0, <1>1 DEF IInv, Informed, Knows, Seen, Write
<1>5. SaveKnows(t)'
  <2>1. /\ save'[t].at = "ok" /\ save'[t].from = stored.rev /\ save'[t].win = save[t].win
        /\ told' = told
    BY <1>0 DEF Write, IInv, TypeOK, Save
  <2>2. save[t].win \subseteq told[t]
    BY DEF IInv, Informed, SaveKnows, Write
  <2> QED BY <1>0, <1>1, <2>1, <2>2 DEF SaveKnows, Seen
<1>6. ASSUME NEW l \in Loads PROVE LoadKnows(t, l)'
    BY <1>0, <1>1 DEF IInv, Informed, LoadKnows, Seen, Write, Load, Session
<1> QED BY <1>2, <1>3, <1>4, <1>5, <1>6 DEF Informed

\* A read: a revision read now is not ahead, and windows read after it are those
\* of that revision, if it is still the stored one.
LEMMA ReadInformed ==
    ASSUME IInv, NEW t \in Tabs, NEW l \in Loads, ReadSession(t, l)
    PROVE  Informed(t)'
<1>0. stored.rev \in Nat /\ load[t][l] \in Load /\ stored' = stored /\ stored \in Session
    BY DEF IInv, TypeOK, ReadSession, serverVars, Session
<1>1. Knows(t)' /\ SaveKnows(t)'
    BY SaveKept DEF IInv, Informed, Knows, Seen, ReadSession, serverVars
<1>2. ASSUME NEW m \in Loads, m # l PROVE LoadKnows(t, m)'
  <2>1. load'[t][m] = load[t][m]
    BY <1>2 DEF ReadSession, IInv, TypeOK
  <2> QED BY <1>0, <2>1, LoadKept DEF IInv, Informed
<1>3. CASE load[t][l].at = "asked"
  <2>0. PICK r : /\ r = [at |-> IF stored.rev = 0 THEN "answered" ELSE "half",
                         current |-> [rev |-> stored.rev, win |-> {}]]
                 /\ load' = [load EXCEPT ![t][l] = r]
    BY <1>3, Zenon DEF ReadSession
  <2>1. load'[t][l] = r
    BY <2>0 DEF IInv, TypeOK
  <2>2. /\ load'[t][l].current.rev = stored.rev
        /\ load'[t][l].at = "answered" => stored.rev = 0
        /\ load'[t][l].current.win = {}
    BY <2>0, <2>1
  <2>3. LoadKnows(t, l)'
    BY <1>0, <2>2 DEF LoadKnows, Seen, IInv, Server
  <2> QED BY <1>1, <1>2, <2>3 DEF Informed
<1>4. CASE load[t][l].at = "half"
  <2>1. load'[t][l] = [at |-> "answered",
                       current |-> [load[t][l].current EXCEPT !.win = stored.win]]
    BY <1>4 DEF ReadSession, IInv, TypeOK
  <2>2. /\ load'[t][l].current.rev = load[t][l].current.rev
        /\ load'[t][l].at = "answered"
        /\ load'[t][l].current.win = stored.win
    BY <1>0, <2>1 DEF Load, Session
  <2>3. load[t][l].current.rev <= stored.rev
    BY <1>4 DEF IInv, Informed, LoadKnows
  <2>4. LoadKnows(t, l)'
    BY <1>0, <2>2, <2>3 DEF LoadKnows, Seen
  <2> QED BY <1>1, <1>2, <2>4 DEF Informed
<1> QED BY <1>3, <1>4 DEF ReadSession

\* An answer is taken, with its revision and its windows.
LEMMA LoadedInformed ==
    ASSUME IInv, NEW t \in Tabs, NEW l \in Loads, Loaded(t, l) \/ LoadFails(t, l)
    PROVE  Informed(t)'
<1>0. stored' = stored /\ save' = save /\ load' = [load EXCEPT ![t][l] = NoLoad]
    BY DEF Loaded, LoadFails, serverVars
<1>1. told[t] \subseteq told'[t]
    BY DEF Loaded, LoadFails, IInv, TypeOK
<1>2. SaveKnows(t)'
    BY <1>0, <1>1, SaveKept DEF IInv, Informed
<1>3. ASSUME NEW m \in Loads, m # l PROVE LoadKnows(t, m)'
  <2>1. load'[t][m] = load[t][m]
    BY <1>0, <1>3 DEF IInv, TypeOK
  <2> QED BY <1>0, <2>1, LoadKept DEF IInv, Informed
<1>4. LoadKnows(t, l)'
  <2>1. load'[t][l].at = "none"
    BY <1>0 DEF IInv, TypeOK, NoLoad
  <2> QED BY <2>1, LoadSaysNothing
<1>5. Knows(t)'
  <2>1. CASE LoadFails(t, l) \/ status[t] = "closed"
    BY <1>0, <2>1 DEF Loaded, LoadFails, IInv, Informed, Knows, Seen
  <2>2. CASE Loaded(t, l) /\ status[t] # "closed"
    <3>1. /\ revision'[t] = load[t][l].current.rev
          /\ told'[t] = told[t] \cup load[t][l].current.win
          /\ windows'[t] \subseteq load[t][l].current.win \/ windows' = windows
      BY <2>2, LoadedShows DEF Loaded, IInv, TypeOK
    <3>2. Seen(load[t][l].current.rev, load[t][l].current.win)
      BY <2>2 DEF Loaded, IInv, Informed, LoadKnows
    <3> QED BY <1>0, <3>1, <3>2 DEF IInv, Informed, Knows, Seen
  <2> QED BY <2>1, <2>2
<1> QED BY <1>2, <1>3, <1>4, <1>5 DEF Informed

\* The answer to a save is taken: a tab that goes on from it has seen what it says.
LEMMA AnswerInformed ==
    ASSUME IInv, NEW t \in Tabs,
           Saved(t) \/ RefusedInUse(t) \/ RefusedUnused(t) \/ SaveFails(t)
    PROVE  Informed(t)'
<1>0. /\ save[t] \in Save /\ revision[t] \in Nat /\ windows[t] \in SUBSET Edits
      /\ told[t] \in SUBSET Edits
    BY DEF IInv, TypeOK
<1>1. stored' = stored /\ load' = load
    BY DEF Saved, RefusedInUse, RefusedUnused, SaveFails, serverVars
<1>2. ASSUME NEW l \in Loads PROVE LoadKnows(t, l)'
    BY <1>1, LoadKept DEF IInv, Informed
<1>3. Knows(t)
    BY DEF IInv, Informed
<1>4. CASE Saved(t)
  <2>1. /\ Seen(save[t].from + 1, told[t]) /\ told' = told /\ windows' = windows
        /\ revision'[t] = save[t].from + 1 /\ save[t].from + 1 \in Nat
    BY <1>0, <1>4 DEF Saved, IInv, Informed, SaveKnows, TypeOK, Save
  <2>2. Knows(t)'
    BY <1>1, <1>3, <2>1 DEF Knows, Seen
  <2>3. SaveKnows(t)'
    BY <1>0, <1>1, <1>3, <1>4, <2>1, EndFlushInformed DEF Saved, IInv, Knows
  <2> QED BY <1>2, <2>2, <2>3 DEF Informed
<1>5. CASE SaveFails(t)
  <2>1. Seen(revision[t], told[t]) /\ told' = told /\ windows' = windows /\ revision' = revision
    BY <1>3, <1>5 DEF SaveFails, Knows
  <2>2. Knows(t)'
    BY <1>1, <1>3, <2>1 DEF Knows, Seen
  <2>3. SaveKnows(t)'
    BY <1>0, <1>1, <1>3, <1>5, <2>1, EndFlushInformed DEF SaveFails, IInv, Knows
  <2> QED BY <1>2, <2>2, <2>3 DEF Informed
<1>6. CASE RefusedInUse(t) \/ RefusedUnused(t)
  <2>1. /\ Seen(save[t].current.rev, save[t].current.win)
        /\ save[t].current.rev \in Nat /\ save[t].current.win \in SUBSET Edits
        /\ save[t].attempt \in 1 .. Attempts
    BY <1>0, <1>6
    DEF RefusedInUse, RefusedUnused, IInv, Informed, SaveKnows, Save, Session
  <2>2. /\ revision'[t] = save[t].current.rev
        /\ told'[t] = told[t] \cup save[t].current.win
        /\ windows' = windows \/ windows'[t] \subseteq save[t].current.win
    BY <1>6, RefusedShows DEF RefusedInUse, RefusedUnused, IInv, TypeOK
  <2>3. Seen(save[t].current.rev, told'[t]) /\ windows[t] \subseteq told'[t]
    BY <1>3, <2>1, <2>2 DEF Seen, Knows
  <2>4. Knows(t)'
    BY <1>1, <1>3, <2>2, <2>3 DEF Knows, Seen
  <2>5. SaveKnows(t)'
    <3>1. CASE RefusedUnused(t)
      BY <1>1, <2>1, <2>2, <2>3, <3>1, RefusedShows, EndFlushInformed DEF RefusedUnused, IInv
    <3>2. CASE RefusedInUse(t) /\ save[t].attempt < Attempts
      <4>1. save[t].attempt + 1 \in 1 .. Attempts
        BY <2>1, <3>2, DeskAssumption
      <4> QED BY <1>0, <1>1, <2>1, <2>2, <2>3, <3>2, <4>1, RequestInformed
              DEF RefusedInUse, IInv
    <3>3. CASE RefusedInUse(t) /\ ~(save[t].attempt < Attempts)
      BY <1>0, <1>1, <2>1, <2>2, <2>3, <3>3, EndFlushInformed DEF RefusedInUse, IInv
    <3> QED BY <1>6, <3>1, <3>2, <3>3
  <2> QED BY <1>2, <2>4, <2>5 DEF Informed
<1> QED BY <1>4, <1>5, <1>6

\* A flush sends what the tab shows, as of the revision it has.
LEMMA FlushInformed ==
    ASSUME IInv, NEW t \in Tabs, Flush(t), stored' = stored, told' = told
    PROVE  SaveKnows(t)'
<1>1. CASE save[t].at # "none"
    BY <1>1, SaveKept DEF Flush, IInv, Informed
<1>2. CASE save[t].at = "none"
  <2>1. revision[t] \in Nat /\ windows[t] \in SUBSET Edits
    BY DEF IInv, TypeOK
  <2>2. Seen(revision[t], told'[t]) /\ windows[t] \subseteq told'[t]
    BY DEF IInv, Informed, Knows
  <2> QED BY <1>2, <2>1, <2>2, RequestInformed, NoSaveType DEF Flush, IInv
<1> QED BY <1>1, <1>2

\* Every step leaves every tab informed.
LEMMA InformedStep ==
    ASSUME IInv, [Next]_vars
    PROVE  Server' /\ \A u \in Tabs : Informed(u)'
<1> DEFINE Preserved == Server' /\ \A u \in Tabs : Informed(u)'
<1>0. ASSUME NEW t \in Tabs, UNCHANGED serverVars, Informed(t)',
             \A u \in Tabs : u # t => Untouched(u)
      PROVE  Preserved
    BY <1>0, OthersInformed DEF IInv, Server, serverVars
<1>1. ASSUME NEW t \in Tabs, Start(t) \/ RemoteChanged(t) PROVE Preserved
  <2>1. \A u \in Tabs : u # t => Untouched(u)
    BY <1>1, OneTab DEF IInv
  <2>2. Knows(t)' /\ SaveKnows(t)'
    BY <1>1, SaveKept DEF Start, RemoteChanged, IInv, Informed, Knows, Seen, serverVars
  <2>3. \A m \in Loads : LoadKnows(t, m)'
    BY <1>1, AskLoadKnows DEF Start, RemoteChanged, serverVars
  <2>4. UNCHANGED serverVars
    BY <1>1 DEF Start, RemoteChanged
  <2> QED BY <1>0, <2>1, <2>2, <2>3, <2>4 DEF Informed
<1>2. ASSUME NEW t \in Tabs, Edit(t) PROVE Preserved
  <2>1. \A u \in Tabs : u # t => Untouched(u)
    BY <1>2, OneTab DEF IInv
  <2>2. Informed(t)'
    <3>1. told[t] \subseteq told'[t] /\ windows'[t] \subseteq told'[t]
      BY <1>2 DEF Edit, IInv, TypeOK, Informed, Knows
    <3>2. Knows(t)'
      BY <1>2, <3>1 DEF Edit, serverVars, IInv, Informed, Knows, Seen
    <3>3. SaveKnows(t)'
      BY <1>2, <3>1, SaveKept DEF Edit, serverVars, IInv, Informed
    <3>4. ASSUME NEW l \in Loads PROVE LoadKnows(t, l)'
      BY <1>2, LoadKept DEF Edit, serverVars, IInv, Informed
    <3> QED BY <3>2, <3>3, <3>4 DEF Informed
  <2> QED BY <1>0, <1>2, <2>1, <2>2 DEF Edit
<1>3. ASSUME NEW t \in Tabs, Timer(t) PROVE Preserved
  <2>1. \A u \in Tabs : u # t => Untouched(u)
    BY <1>3, OneTab DEF IInv
  <2>2. Informed(t)'
    <3>1. SaveKnows(t)'
      BY <1>3, FlushInformed DEF Timer, serverVars
    <3>2. Knows(t)'
      BY <1>3 DEF Timer, serverVars, IInv, Informed, Knows, Seen
    <3>3. ASSUME NEW l \in Loads PROVE LoadKnows(t, l)'
      BY <1>3, LoadKept DEF Timer, serverVars, IInv, Informed
    <3> QED BY <3>1, <3>2, <3>3 DEF Informed
  <2> QED BY <1>0, <1>3, <2>1, <2>2 DEF Timer
<1>4. ASSUME NEW t \in Tabs, Close(t) PROVE Preserved
  <2>1. \A u \in Tabs : u # t => Untouched(u)
    BY <1>4, OneTab DEF IInv
  <2>2. Informed(t)'
    <3>1. SaveKnows(t)'
      BY <1>4, FlushInformed, SaveKept DEF Close, serverVars, IInv, Informed
    <3>2. Knows(t)'
      BY <1>4 DEF Close, serverVars, IInv, Informed, Knows, Seen
    <3>3. ASSUME NEW l \in Loads PROVE LoadKnows(t, l)'
      <4>1. CASE load' = load
        BY <1>4, <4>1, LoadKept DEF Close, serverVars, IInv, Informed
      <4>2. CASE load' = [load EXCEPT ![t] = [m \in Loads |-> NoLoad]]
        <5>1. load'[t][l].at = "none"
          BY <4>2 DEF IInv, TypeOK, NoLoad
        <5> QED BY <5>1, LoadSaysNothing
      <4> QED BY <1>4, <4>1, <4>2 DEF Close
    <3> QED BY <3>1, <3>2, <3>3 DEF Informed
  <2> QED BY <1>0, <1>4, <2>1, <2>2 DEF Close
<1>5. ASSUME NEW t \in Tabs, Write(t) PROVE Preserved
    BY <1>5, WriteInformed
<1>6. ASSUME NEW t \in Tabs, Conflict(t) PROVE Preserved
  <2>1. \A u \in Tabs : u # t => Untouched(u)
    BY <1>6, OneTab DEF IInv
  <2>2. Informed(t)'
    <3>0. save[t] \in Save /\ stored.rev \in Nat /\ stored' = stored
      BY <1>6 DEF IInv, TypeOK, Session, Conflict, serverVars
    <3>1. SaveKnows(t)'
      <4>1. PICK s : s = [save[t] EXCEPT !.at = "refused", !.current = stored]
        OBVIOUS
      <4>2. save'[t] = s
        BY <1>6, <4>1, Zenon DEF Conflict, IInv, TypeOK
      <4>3. s.at = "refused" /\ s.current = stored
        BY <3>0, <4>1 DEF Save
      <4> QED BY <3>0, <4>2, <4>3 DEF SaveKnows, Seen
    <3>2. Knows(t)'
      BY <1>6 DEF Conflict, serverVars, IInv, Informed, Knows, Seen
    <3>3. ASSUME NEW l \in Loads PROVE LoadKnows(t, l)'
      BY <1>6, LoadKept DEF Conflict, serverVars, IInv, Informed
    <3> QED BY <3>1, <3>2, <3>3 DEF Informed
  <2> QED BY <1>0, <1>6, <2>1, <2>2, Zenon DEF Conflict
<1>7. ASSUME NEW t \in Tabs,
             Saved(t) \/ RefusedInUse(t) \/ RefusedUnused(t) \/ SaveFails(t)
      PROVE  Preserved
  <2>1. \A u \in Tabs : u # t => Untouched(u)
    BY <1>7, OneTab DEF IInv
  <2>2. UNCHANGED serverVars
    BY <1>7 DEF Saved, RefusedInUse, RefusedUnused, SaveFails
  <2> QED BY <1>0, <1>7, <2>1, <2>2, AnswerInformed
<1>8. ASSUME NEW t \in Tabs, NEW l \in Loads,
             ReadSession(t, l) \/ Loaded(t, l) \/ LoadFails(t, l)
      PROVE  Preserved
  <2>1. \A u \in Tabs : u # t => Untouched(u)
    BY <1>8, OneTab DEF IInv
  <2>2. UNCHANGED serverVars
    BY <1>8 DEF ReadSession, Loaded, LoadFails
  <2> QED BY <1>0, <1>8, <2>1, <2>2, ReadInformed, LoadedInformed
<1>9. CASE UNCHANGED vars
    BY <1>9, OthersInformed DEF vars, serverVars, tabVars, Untouched, IInv, Server
<1> QED BY <1>1, <1>2, <1>3, <1>4, <1>5, <1>6, <1>7, <1>8, <1>9 DEF Next

-----------------------------------------------------------------------------
\* What a read on its way holds was stored.
LEMMA LoadsStored ==
    ASSUME IInv, NEW t \in Tabs, kept' = kept,
           \/ load' = load
           \/ \E l \in Loads :
                  AskLoad(t, l) \/ ReadSession(t, l) \/ load' = [load EXCEPT ![t][l] = NoLoad]
           \/ load' = [load EXCEPT ![t] = [l \in Loads |-> NoLoad]]
    PROVE  \A m \in Loads : load'[t][m].current.win \subseteq kept'
<1> SUFFICES ASSUME NEW m \in Loads PROVE load'[t][m].current.win \subseteq kept
    OBVIOUS
<1>0. load[t][m].current.win \subseteq kept
    BY DEF IInv, Minded
<1>1. CASE load' = load
    BY <1>0, <1>1
<1>2. ASSUME NEW l \in Loads,
             AskLoad(t, l) \/ load' = [load EXCEPT ![t][l] = NoLoad]
      PROVE  load'[t][m].current.win \subseteq kept
  <2>1. PICK r \in {[at |-> "asked", current |-> Empty], NoLoad} :
            load' = [load EXCEPT ![t][l] = r]
    BY <1>2, Zenon DEF AskLoad
  <2>2. r.current.win = {}
    BY <2>1 DEF Empty, NoLoad
  <2> QED BY <1>0, <2>1, <2>2 DEF IInv, TypeOK
<1>3. ASSUME NEW l \in Loads, ReadSession(t, l)
      PROVE  load'[t][m].current.win \subseteq kept
  <2>0. load[t][l] \in Load /\ stored.win \subseteq kept
    BY DEF IInv, TypeOK, Server
  <2>1. PICK r : load' = [load EXCEPT ![t][l] = r] /\ r.current.win \subseteq kept
    <3>1. CASE load[t][l].at = "asked"
      <4>1. PICK r : /\ r = [at |-> IF stored.rev = 0 THEN "answered" ELSE "half",
                             current |-> [rev |-> stored.rev, win |-> {}]]
                     /\ load' = [load EXCEPT ![t][l] = r]
        BY <1>3, <3>1, Zenon DEF ReadSession
      <4>2. r.current.win = {}
        BY <4>1
      <4> QED BY <4>1, <4>2
    <3>2. CASE load[t][l].at = "half"
      <4>1. PICK r : /\ r = [at |-> "answered",
                             current |-> [load[t][l].current EXCEPT !.win = stored.win]]
                     /\ load' = [load EXCEPT ![t][l] = r]
        BY <1>3, <3>2 DEF ReadSession, IInv, TypeOK
      <4>2. r.current.win = stored.win
        BY <2>0, <4>1 DEF Load, Session
      <4> QED BY <2>0, <4>1, <4>2
    <3> QED BY <1>3, <3>1, <3>2 DEF ReadSession
  <2> QED BY <1>0, <2>1 DEF IInv, TypeOK
<1>4. CASE load' = [load EXCEPT ![t] = [l \in Loads |-> NoLoad]]
    BY <1>4 DEF NoLoad, Empty, IInv, TypeOK
<1> QED BY <1>1, <1>2, <1>3, <1>4

\* The answer to a save is taken: what is shown was stored by it, is sent again,
\* or the tab is told that it was not saved.
LEMMA AnswerMinded ==
    ASSUME IInv, NEW t \in Tabs,
           Saved(t) \/ RefusedInUse(t) \/ RefusedUnused(t) \/ SaveFails(t)
    PROVE  Minded(t)'
<1>0. /\ save[t] \in Save /\ revision[t] \in Nat /\ windows[t] \in SUBSET Edits
      /\ save[t].from + 1 \in Nat /\ save[t].attempt \in 1 .. Attempts
      /\ save[t].current.rev \in Nat /\ save[t].current.win \in SUBSET Edits
    BY DEF IInv, TypeOK, Save, Session
<1>1. kept' = kept /\ load' = load
    BY DEF Saved, RefusedInUse, RefusedUnused, SaveFails, serverVars
<1>2. \A l \in Loads : load'[t][l].current.win \subseteq kept'
    BY <1>1, LoadsStored
<1>3. Minded(t) /\ TypeOK
    BY DEF IInv
<1>4. ASSUME NEW rev \in Nat, EndFlush(t, rev, windows'[t]), windows'[t] \in SUBSET Edits,
             status[t] \in {"new", "loading"} => windows'[t] \subseteq kept,
             ~again[t] => unsaved'[t] \/ timer'[t] \/ status'[t] \in {"failed", "closed"}
                             \/ windows'[t] \subseteq kept
      PROVE  Minded(t)'
  <2>1. CASE again[t] /\ Request(t, rev, windows'[t], 1) /\ status' = status
    BY <1>1, <1>2, <1>3, <1>4, <2>1, RequestMinded, NoSaveType
  <2>2. CASE /\ save'[t] = NoSave /\ status'[t] \in {status[t], "closed"}
             /\ again[t] => status'[t] = "closed"
    <3>1. save'[t].at = "none"
      BY <2>2 DEF NoSave
    <3>2. ~again'[t]
      BY <1>3, <1>4, EndFlushIs
    <3> QED BY <1>1, <1>2, <1>4, <2>2, <3>1, <3>2 DEF Minded, Cared, Answers
  <2> QED BY <1>3, <1>4, <2>1, <2>2, EndFlushIs
<1>5. CASE Saved(t)
  <2>1. windows' = windows /\ unsaved' = unsaved /\ timer' = timer
    BY <1>5 DEF Saved
  <2>2. EndFlush(t, save[t].from + 1, windows'[t])
    BY <1>5, <2>1 DEF Saved
  <2>3. save[t].win \subseteq kept
    BY <1>3, <1>5 DEF Saved, Minded, Answers
  <2>4. \/ again[t] \/ unsaved'[t] \/ timer'[t] \/ status'[t] \in {"failed", "closed"}
        \/ windows'[t] \subseteq kept
    <3>1. status[t] \in {"failed", "closed"} => again[t] \/ status'[t] \in {"failed", "closed"}
      BY <1>0, <1>3, <2>2, EndFlushIs, <2>1
    <3> QED BY <1>3, <2>1, <2>3, <3>1 DEF Minded, Cared
  <2> QED BY <1>0, <1>3, <1>4, <2>1, <2>2, <2>4 DEF Minded
<1>6. CASE SaveFails(t)
  <2>1. windows' = windows /\ EndFlush(t, revision[t], windows'[t])
    BY <1>6 DEF SaveFails
  <2>2. ~again[t] => unsaved'[t]
    BY <1>3, <1>6 DEF SaveFails, TypeOK
  <2> QED BY <1>0, <1>3, <1>4, <2>1, <2>2 DEF Minded
<1>7. CASE RefusedUnused(t)
  <2>1. save[t].current.win \subseteq kept
    BY <1>3, <1>7 DEF RefusedUnused, Minded, Answers
  <2>2. /\ EndFlush(t, save[t].current.rev, windows'[t])
        /\ windows'[t] \in SUBSET Edits /\ windows'[t] \subseteq save[t].current.win
    BY <1>3, <1>7, RefusedShows
  <2> QED BY <1>0, <1>4, <2>1, <2>2
<1>8. CASE RefusedInUse(t) /\ save[t].attempt < Attempts
  <2>1. save[t].attempt + 1 \in 1 .. Attempts
    BY <1>0, <1>8, DeskAssumption
  <2>2. /\ Request(t, save[t].current.rev, windows'[t], save[t].attempt + 1)
        /\ windows' = windows /\ status' = status
    BY <1>8 DEF RefusedInUse
  <2>3. status'[t] \in {"new", "loading"} => windows'[t] \subseteq kept'
    BY <1>1, <1>3, <2>2 DEF Minded
  <2> QED BY <1>0, <1>2, <1>3, <2>1, <2>2, <2>3, RequestMinded
<1>9. CASE RefusedInUse(t) /\ ~(save[t].attempt < Attempts)
  <2>1. windows' = windows /\ EndFlush(t, save[t].current.rev, windows'[t])
    BY <1>9 DEF RefusedInUse
  <2>2. ~again[t] => unsaved'[t]
    BY <1>3, <1>9 DEF RefusedInUse, TypeOK
  <2> QED BY <1>0, <1>3, <1>4, <2>1, <2>2 DEF Minded
<1> QED BY <1>5, <1>6, <1>7, <1>8, <1>9

\* Every step leaves what tabs show minded.
LEMMA MindedStep ==
    ASSUME IInv, [Next]_vars
    PROVE  \A u \in Tabs : Minded(u)'
<1> DEFINE Preserved == \A u \in Tabs : Minded(u)'
<1>0. ASSUME NEW t \in Tabs, kept \subseteq kept', Minded(t)',
             \A u \in Tabs : u # t => Untouched(u)
      PROVE  Preserved
    BY <1>0, OthersMinded DEF IInv
<1>1. ASSUME NEW t \in Tabs, Start(t) \/ RemoteChanged(t) PROVE Preserved
  <2>1. \A u \in Tabs : u # t => Untouched(u)
    BY <1>1, OneTab DEF IInv
  <2>2. kept' = kept
    BY <1>1 DEF Start, RemoteChanged, serverVars
  <2>3. \A m \in Loads : load'[t][m].current.win \subseteq kept'
    BY <1>1, <2>2, LoadsStored DEF Start, RemoteChanged
  <2>4. Minded(t)'
    BY <1>1, <2>2, <2>3
    DEF Start, RemoteChanged, IInv, TypeOK, Minded, Cared, Answers
  <2> QED BY <1>0, <2>1, <2>2, <2>4
<1>2. ASSUME NEW t \in Tabs, Edit(t) PROVE Preserved
  <2>1. \A u \in Tabs : u # t => Untouched(u)
    BY <1>2, OneTab DEF IInv
  <2>2. kept' = kept /\ load' = load /\ save' = save /\ again' = again /\ status' = status
    BY <1>2 DEF Edit, serverVars
  <2>3. timer'[t] \/ status[t] = "failed"
    BY <1>2 DEF Edit, Started, IInv, TypeOK
  <2>4. status[t] \notin {"new", "loading"}
    BY <1>2 DEF Edit, Started
  <2>5. Minded(t)'
    BY <2>2, <2>3, <2>4 DEF IInv, Minded, Cared, Answers
  <2> QED BY <1>0, <2>1, <2>2, <2>5
<1>3. ASSUME NEW t \in Tabs, Flush(t), windows' = windows, load' = load, kept' = kept,
             status' = status
      PROVE  Minded(t)'
  <2>1. CASE save[t].at # "none"
    <3>1. again'[t] /\ save' = save
      BY <1>3, <2>1 DEF Flush, IInv, TypeOK
    <3> QED BY <1>3, <2>1, <3>1 DEF IInv, Minded, Cared, Answers
  <2>2. CASE save[t].at = "none"
    <3>1. revision[t] \in Nat /\ windows'[t] \in SUBSET Edits
      BY <1>3 DEF IInv, TypeOK
    <3>2. /\ status'[t] \in {"new", "loading"} => windows'[t] \subseteq kept'
          /\ \A l \in Loads : load'[t][l].current.win \subseteq kept'
      BY <1>3 DEF IInv, Minded
    <3> QED BY <1>3, <2>2, <3>1, <3>2, RequestMinded, NoSaveType DEF Flush, IInv
  <2> QED BY <2>1, <2>2
<1>4. ASSUME NEW t \in Tabs, Timer(t) PROVE Preserved
  <2>1. \A u \in Tabs : u # t => Untouched(u)
    BY <1>4, OneTab DEF IInv
  <2>2. Minded(t)' /\ kept' = kept
    BY <1>3, <1>4 DEF Timer, serverVars
  <2> QED BY <1>0, <2>1, <2>2
<1>5. ASSUME NEW t \in Tabs, Close(t) PROVE Preserved
  <2>1. \A u \in Tabs : u # t => Untouched(u)
    BY <1>5, OneTab DEF IInv
  <2>2. kept' = kept /\ windows' = windows
    BY <1>5 DEF Close, serverVars
  <2>3. CASE timer[t] /\ status[t] = "ready" /\ save[t].at = "none"
    <3>1. Flush(t) /\ load' = load /\ status' = status
      BY <1>5, <2>3 DEF Close
    <3> QED BY <1>0, <1>3, <2>1, <2>2, <3>1
  <2>4. CASE ~(timer[t] /\ status[t] = "ready" /\ save[t].at = "none")
    <3>1. /\ status'[t] = "closed"
          /\ load' = [load EXCEPT ![t] = [l \in Loads |-> NoLoad]]
      BY <1>5, <2>4 DEF Close, IInv, TypeOK
    <3>2. save' = save /\ (again' = again \/ save[t].at # "none")
      BY <1>5, <2>4 DEF Close, Flush
    <3>3. \A m \in Loads : load'[t][m].current.win \subseteq kept'
      BY <2>2, <3>1, LoadsStored
    <3>4. Minded(t)'
      BY <2>2, <3>1, <3>2, <3>3 DEF IInv, Minded, Cared, Answers
    <3> QED BY <1>0, <2>1, <2>2, <3>4
  <2> QED BY <2>3, <2>4
<1>6. ASSUME NEW t \in Tabs, Write(t) PROVE Preserved
  <2>1. \A u \in Tabs : u # t => Untouched(u)
    BY <1>6, OneTab DEF IInv
  <2>2. /\ save'[t].at = "ok" /\ save'[t].win = save[t].win /\ save[t].at = "asked"
        /\ kept' = kept \cup save[t].win
    BY <1>6 DEF Write, IInv, TypeOK, Save
  <2>3. Minded(t)'
    BY <1>6, <2>2 DEF Write, IInv, Minded, Cared, Answers
  <2> QED BY <1>0, <2>1, <2>2, <2>3
<1>7. ASSUME NEW t \in Tabs, Conflict(t) PROVE Preserved
  <2>1. \A u \in Tabs : u # t => Untouched(u)
    BY <1>7, OneTab DEF IInv
  <2>2. PICK s : s = [save[t] EXCEPT !.at = "refused", !.current = stored]
    OBVIOUS
  <2>3. save'[t] = s
    BY <1>7, <2>2, Zenon DEF Conflict, IInv, TypeOK
  <2>4. s.at = "refused" /\ s.current = stored /\ s.win = save[t].win
    BY <2>2 DEF Save, IInv, TypeOK
  <2>5. /\ save[t].at = "asked"
        /\ UNCHANGED <<kept, status, windows, timer, again, load, unsaved>>
    BY <1>7, Zenon DEF Conflict, serverVars
  <2>6. Minded(t)'
    BY <2>3, <2>4, <2>5 DEF IInv, Server, Minded, Cared, Answers
  <2> QED BY <1>0, <2>1, <2>5, <2>6
<1>8. ASSUME NEW t \in Tabs,
             Saved(t) \/ RefusedInUse(t) \/ RefusedUnused(t) \/ SaveFails(t)
      PROVE  Preserved
  <2>1. \A u \in Tabs : u # t => Untouched(u)
    BY <1>8, OneTab DEF IInv
  <2>2. kept' = kept
    BY <1>8 DEF Saved, RefusedInUse, RefusedUnused, SaveFails, serverVars
  <2> QED BY <1>0, <1>8, <2>1, <2>2, AnswerMinded
<1>9. ASSUME NEW t \in Tabs, NEW l \in Loads,
             ReadSession(t, l) \/ Loaded(t, l) \/ LoadFails(t, l)
      PROVE  Preserved
  <2>1. \A u \in Tabs : u # t => Untouched(u)
    BY <1>9, OneTab DEF IInv
  <2>2. kept' = kept /\ save' = save /\ again' = again /\ unsaved' = unsaved
    BY <1>9 DEF ReadSession, Loaded, LoadFails, serverVars
  <2>3. \A m \in Loads : load'[t][m].current.win \subseteq kept'
    BY <1>9, <2>2, LoadsStored DEF Loaded, LoadFails
  <2>4. CASE ReadSession(t, l)
    <3>1. Minded(t)'
      BY <2>2, <2>3, <2>4 DEF ReadSession, IInv, Minded, Cared, Answers
    <3> QED BY <1>0, <2>1, <2>2, <3>1
  <2>5. CASE LoadFails(t, l)
    <3>1. status'[t] \in {"failed", "closed"} /\ windows' = windows
      BY <2>5 DEF LoadFails, IInv, TypeOK
    <3>2. Minded(t)'
      BY <2>2, <2>3, <3>1 DEF IInv, Minded, Cared, Answers
    <3> QED BY <1>0, <2>1, <2>2, <3>2
  <2>6. CASE Loaded(t, l) /\ status[t] = "closed"
    <3>1. Minded(t)'
      BY <2>2, <2>3, <2>6 DEF Loaded, IInv, Minded, Cared, Answers
    <3> QED BY <1>0, <2>1, <2>2, <3>1
  <2>7. CASE Loaded(t, l) /\ status[t] # "closed"
    <3>1. load[t][l].current.win \subseteq kept
      BY DEF IInv, Minded
    <3>2. status[t] \in {"new", "loading"} \/ Started(t)
      BY <2>7 DEF Started, IInv, TypeOK
    <3>3. /\ status'[t] = "ready"
          /\ IF Restore \/ Started(t) THEN windows'[t] \subseteq load[t][l].current.win
                                      ELSE windows' = windows
      BY <2>7, LoadedShows DEF Loaded, IInv, TypeOK
    <3>4. windows'[t] \subseteq kept
      BY <3>1, <3>2, <3>3 DEF IInv, Minded
    <3>5. Minded(t)'
      BY <2>2, <2>3, <3>3, <3>4 DEF IInv, Minded, Cared, Answers
    <3> QED BY <1>0, <2>1, <2>2, <3>5
  <2> QED BY <1>9, <2>4, <2>5, <2>6, <2>7
<1>10. CASE UNCHANGED vars
    BY <1>10, OthersMinded DEF vars, serverVars, tabVars, Untouched, IInv
<1> QED BY <1>1, <1>2, <1>4, <1>5, <1>6, <1>7, <1>8, <1>9, <1>10 DEF Next

-----------------------------------------------------------------------------
\* The invariant holds of every execution.
LEMMA Invariant == Spec => []IInv
<1>1. Init => IInv
  <2> SUFFICES ASSUME Init PROVE IInv
    OBVIOUS
  <2>1. TypeOK
    BY InitType
  <2>2. Server
    BY DEF Init, Server, Empty
  <2>3. ASSUME NEW t \in Tabs PROVE Informed(t)
    BY DEF Init, Informed, Knows, SaveKnows, LoadKnows, Seen, Empty, NoSave, NoLoad
  <2>4. ASSUME NEW t \in Tabs PROVE Minded(t)
    BY DEF Init, Minded, Cared, Answers, Empty, NoSave, NoLoad
  <2> QED BY <2>1, <2>2, <2>3, <2>4 DEF IInv
<1>2. IInv /\ [Next]_vars => IInv'
  <2> SUFFICES ASSUME IInv, [Next]_vars PROVE IInv'
    OBVIOUS
  <2>1. TypeOK'
    BY TypeStep DEF IInv
  <2> QED BY <2>1, InformedStep, MindedStep DEF IInv
<1> QED BY <1>1, <1>2, PTL DEF Spec

\* A save goes from asked to ok in no other step than the one that writes it.
LEMMA OnlyWriteAnswers ==
    ASSUME IInv, [Next]_vars, NEW t \in Tabs, save[t].at = "asked", save'[t].at = "ok"
    PROVE  Write(t)
<1>0. TypeOK
    BY DEF IInv
<1>1. ASSUME NEW u \in Tabs, save'[u] = save[u] PROVE u # t
    BY <1>1
<1>2. ASSUME Untouched(t) PROVE FALSE
    BY <1>1, <1>2 DEF Untouched
<1>3. CASE Timer(t) \/ Close(t)
    BY <1>1, <1>3 DEF Timer, Close, Flush
<1>4. CASE Start(t) \/ Edit(t) \/ RemoteChanged(t)
    BY <1>1, <1>4 DEF Start, Edit, RemoteChanged
<1>5. CASE Saved(t) \/ RefusedInUse(t) \/ RefusedUnused(t)
    BY <1>5 DEF Saved, RefusedInUse, RefusedUnused
<1>6. CASE SaveFails(t)
  <2>1. revision[t] \in Nat /\ windows[t] \in SUBSET Edits
    BY DEF IInv, TypeOK
  <2>2. save'[t] = NoSave \/ Request(t, revision[t], windows[t], 1)
    BY <1>0, <1>6, <2>1, EndFlushIs DEF SaveFails
  <2>3. CASE save'[t] = NoSave
    BY <2>3 DEF NoSave
  <2>4. CASE Request(t, revision[t], windows[t], 1)
    <3>1. save'[t] = [at |-> "asked", from |-> revision[t], win |-> windows[t],
                      attempt |-> 1, current |-> Empty]
      BY <1>0, <2>1, <2>4, RequestType, NoSaveType
    <3> QED BY <3>1
  <2> QED BY <2>2, <2>3, <2>4
<1>7. CASE Conflict(t)
  <2>1. PICK s : s = [save[t] EXCEPT !.at = "refused", !.current = stored]
    OBVIOUS
  <2>2. save'[t] = s
    BY <1>7, <2>1, Zenon DEF Conflict, IInv, TypeOK
  <2>3. s.at = "refused"
    BY <2>1 DEF Save, IInv, TypeOK
  <2> QED BY <2>2, <2>3
<1>8. ASSUME NEW l \in Loads, ReadSession(t, l) \/ Loaded(t, l) \/ LoadFails(t, l)
      PROVE  FALSE
    BY <1>1, <1>8 DEF ReadSession, Loaded, LoadFails
<1>9. CASE UNCHANGED vars
    BY <1>1, <1>9 DEF vars, tabVars
<1>10. ASSUME NEW u \in Tabs, u # t,
             \/ Start(u) \/ Edit(u) \/ Close(u) \/ Timer(u) \/ Write(u) \/ Conflict(u)
             \/ Saved(u) \/ RefusedInUse(u) \/ RefusedUnused(u) \/ SaveFails(u)
             \/ RemoteChanged(u)
             \/ \E l \in Loads : ReadSession(u, l) \/ Loaded(u, l) \/ LoadFails(u, l)
      PROVE  FALSE
    BY <1>0, <1>2, <1>10, OneTab
<1> QED
    BY <1>3, <1>4, <1>5, <1>6, <1>7, <1>8, <1>9, <1>10 DEF Next

\* store_session: "a second writer from the same revision waits, then matches
\* nothing and is told what is current".  No save puts away a change its tab
\* never learnt of, for any number of tabs, reads, changes and failures.
THEOREM NothingUntoldIsReplaced == Spec => NothingIsReplacedUntold
<1>1. IInv /\ [Next]_vars =>
          [\A t \in Tabs : save[t].at = "asked" /\ save'[t].at = "ok"
                               => stored.win \subseteq told[t]]_vars
  <2> SUFFICES ASSUME IInv, [Next]_vars, NEW t \in Tabs, save[t].at = "asked",
                      save'[t].at = "ok"
               PROVE  stored.win \subseteq told[t]
    OBVIOUS
  <2>1. Write(t)
    BY OnlyWriteAnswers
  <2> QED BY <2>1 DEF Write, IInv, Informed, SaveKnows, Seen
<1> QED BY <1>1, Invariant, PTL DEF Spec, NothingIsReplacedUntold

\* "a change made during one is saved after": a tab at rest shows nothing that
\* was never stored, unless it was told that its last save did not go through.
THEOREM TabsAtRestAreSaved == Spec => []RestIsSaved
<1>1. IInv => RestIsSaved
  <2> SUFFICES ASSUME IInv, NEW t \in Tabs, AtRest(t), ~unsaved[t]
               PROVE  windows[t] \subseteq kept
    BY DEF RestIsSaved
  <2>1. save[t].at = "none"
    BY DEF AtRest, NoSave
  <2> QED BY <2>1 DEF AtRest, IInv, Minded, Cared
<1> QED BY <1>1, Invariant, PTL
=============================================================================
