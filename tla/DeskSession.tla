---------------------------- MODULE DeskSession -----------------------------
(***************************************************************************)
(* The windows of a desk, kept by the agent and shown by several tabs of   *)
(* one browser: SessionSync (frontend/src/desk/session.svelte.ts) against  *)
(* the compare-and-swap of PUT /desk/session (api/desk.rs), with the event *)
(* stream that says another tab saved.                                     *)
(*                                                                         *)
(* Windows are the set of changes made to them: a save that replaces       *)
(* windows loses the changes that are not in its own.  Requests, answers   *)
(* and events each take their time.  Which tab is in use                   *)
(* (document.hasFocus) changes at any time and is only ever read, so what  *)
(* a tab does where it asks is a choice.                                   *)
(***************************************************************************)
EXTENDS Integers

CONSTANTS
    Tabs,
    Opened,     \* the tabs whose first load is answered already: nothing was kept
    Loads,      \* bound: reads of the session a tab can have under way
    Attempts,   \* how often flush sends before it gives up (3 in the code)
    Installed,  \* changes to windows of apps installed on the agent, which a tab
                \* may fail to read the list of
    Restore,    \* systemPrefs.restoreWindows: a tab starts with what was kept
    MaxEdits,   \* bound: changes to windows
    MaxFaults   \* bound: requests that fail

ASSUME DeskAssumption ==
    /\ Opened \subseteq Tabs
    /\ Attempts \in Nat \ {0}
    /\ Restore \in BOOLEAN
    /\ MaxEdits \in Nat
    /\ MaxFaults \in Nat

VARIABLES
    stored,   \* desk_session and desk_window: the revision and its windows
    edits,    \* changes made so far
    faults,
    status,   \* SessionSync.status; "new" before start, "closed" after close
    revision, \* SessionSync.#revision
    windows,  \* the windows the tab shows
    timer,    \* a change waits for SAVE_DELAY_MS of quiet
    again,    \* SessionSync.#again
    closing,  \* close() waits for its flush
    save,     \* the save under way (#saving): where it is and what it carries
    load,     \* the reads under way
    heard,    \* the newest revision /desk/events has brought and the tab not acted on
    kept,     \* history: changes that were ever stored
    told,     \* history: changes the tab made or was answered with
    left,     \* history: changes its last hydrate left out
    unsaved   \* history: its last flush ended without saving

tabVars == <<status, revision, windows, timer, again, closing, save, load, told, left, unsaved>>
serverVars == <<stored, kept>>
vars == <<serverVars, edits, faults, tabVars, heard>>

Edits == 1 .. MaxEdits
Session == [rev : Nat, win : SUBSET Edits]
Empty == [rev |-> 0, win |-> {}]

\* A save: asked (with the revision it replaces and its windows), or answered.
Save == [at : {"none", "asked", "ok", "refused"}, from : Nat, win : SUBSET Edits,
         attempt : 1 .. Attempts, current : Session]
NoSave == [at |-> "none", from |-> 0, win |-> {}, attempt |-> 1, current |-> Empty]

\* A read: asked, its revision read, or answered.
Load == [at : {"none", "asked", "half", "answered"}, current : Session]
NoLoad == [at |-> "none", current |-> Empty]

TypeOK ==
    /\ stored \in Session
    /\ kept \in SUBSET Edits
    /\ edits \in 0 .. MaxEdits
    /\ faults \in Nat
    /\ status \in [Tabs -> {"new", "loading", "ready", "failed", "closed"}]
    /\ revision \in [Tabs -> Nat]
    /\ windows \in [Tabs -> SUBSET Edits]
    /\ timer \in [Tabs -> BOOLEAN]
    /\ again \in [Tabs -> BOOLEAN]
    /\ closing \in [Tabs -> BOOLEAN]
    /\ save \in [Tabs -> Save]
    /\ load \in [Tabs -> [Loads -> Load]]
    /\ heard \in [Tabs -> Nat]
    /\ told \in [Tabs -> SUBSET Edits]
    /\ left \in [Tabs -> SUBSET Edits]
    /\ unsaved \in [Tabs -> BOOLEAN]

Init ==
    /\ stored = Empty /\ kept = {}
    /\ edits = 0 /\ faults = 0
    /\ status = [t \in Tabs |-> IF t \in Opened THEN "ready" ELSE "new"]
    /\ revision = [t \in Tabs |-> 0]
    /\ windows = [t \in Tabs |-> {}]
    /\ timer = [t \in Tabs |-> t \in Opened]
    /\ again = [t \in Tabs |-> FALSE]
    /\ closing = [t \in Tabs |-> FALSE]
    /\ save = [t \in Tabs |-> NoSave]
    /\ load = [t \in Tabs |-> [l \in Loads |-> NoLoad]]
    /\ heard = [t \in Tabs |-> 0]
    /\ told = [t \in Tabs |-> {}]
    /\ left = [t \in Tabs |-> {}]
    /\ unsaved = [t \in Tabs |-> FALSE]

Started(t) == status[t] \in {"ready", "failed"}

-----------------------------------------------------------------------------
(***************************************************************************)
(* The browser.                                                            *)
(***************************************************************************)

\* A read of the session is sent.
AskLoad(t, l) ==
    /\ load[t][l].at = "none"
    /\ load' = [load EXCEPT ![t][l] = [at |-> "asked", current |-> Empty]]

\* Desk.start: the first load.
Start(t) ==
    /\ status[t] = "new"
    /\ status' = [status EXCEPT ![t] = "loading"]
    /\ \E l \in Loads : AskLoad(t, l)
    /\ UNCHANGED <<serverVars, edits, faults, revision, windows, timer, again, closing,
                   save, told, left, unsaved, heard>>

\* A window is opened, moved or closed, or its app changes its state: schedule.
Edit(t) ==
    /\ Started(t) /\ edits < MaxEdits /\ ~closing[t]
    /\ edits' = edits + 1
    /\ windows' = [windows EXCEPT ![t] = @ \cup {edits'}]
    /\ told' = [told EXCEPT ![t] = @ \cup {edits'}]
    /\ timer' = [timer EXCEPT ![t] = @ \/ status[t] = "ready"]
    /\ unsaved' = [unsaved EXCEPT ![t] = FALSE]
    /\ UNCHANGED <<serverVars, faults, status, revision, again, closing, save, load, left, heard>>

(***************************************************************************)
(* flush: one save at a time, sent again over another tab's while this one *)
(* is in use.                                                              *)
(***************************************************************************)

\* What is sent: the windows as they are then, and the revision they are of.
Request(t, rev, win, n) ==
    save' = [save EXCEPT ![t] = [at |-> "asked", from |-> rev, win |-> win, attempt |-> n,
                                 current |-> Empty]]

\* Sent now, or after the one under way.
Flush(t) ==
    IF save[t].at # "none"
    THEN again' = [again EXCEPT ![t] = TRUE] /\ UNCHANGED save
    ELSE Request(t, revision[t], windows[t], 1) /\ UNCHANGED again

\* The quiet is over.
Timer(t) ==
    /\ timer[t] /\ status[t] # "closed"
    /\ timer' = [timer EXCEPT ![t] = FALSE]
    /\ Flush(t)
    /\ UNCHANGED <<serverVars, edits, faults, status, revision, windows, closing, load, told, left,
                   unsaved, heard>>

\* put_session, once it is written: the tabs with /desk/events open are told.
\* Another, or one whose stream drops or lags before it brought it, is not:
\* neither opening it again nor `resync` reads the session (Desk.#listen).
Told(rev) ==
    \E open \in SUBSET {u \in Tabs : Started(u) /\ ~closing[u]} :
        heard' = [u \in Tabs |-> IF u \in open THEN rev ELSE heard[u]]

\* Faulty variant of Write: a revision from before is good enough.
WriteOver(t) ==
    /\ save[t].at = "asked" /\ save[t].from <= stored.rev
    /\ stored' = [rev |-> stored.rev + 1, win |-> save[t].win]
    /\ kept' = kept \cup save[t].win
    /\ Told(stored'.rev)
    /\ save' = [save EXCEPT ![t].at = "ok"]
    /\ UNCHANGED <<edits, faults, status, revision, windows, timer, again, closing, load, told, left,
                   unsaved>>

\* store_session: the revision is checked by the write itself.  A row is there
\* once the revision is above 0, so INSERT OR IGNORE is the same check.
Write(t) ==
    /\ save[t].at = "asked" /\ save[t].from = stored.rev
    /\ stored' = [rev |-> stored.rev + 1, win |-> save[t].win]
    /\ kept' = kept \cup save[t].win
    /\ Told(stored'.rev)
    /\ save' = [save EXCEPT ![t].at = "ok"]
    /\ UNCHANGED <<edits, faults, status, revision, windows, timer, again, closing, load, told, left,
                   unsaved>>

\* Or refused, with what is current.
Conflict(t) ==
    /\ save[t].at = "asked" /\ save[t].from # stored.rev
    /\ save' = [save EXCEPT ![t] = [@ EXCEPT !.at = "refused", !.current = stored]]
    /\ UNCHANGED <<serverVars, edits, faults, status, revision, windows, timer, again,
                   closing, load, told, left, unsaved, heard>>

\* Faulty variant of EndFlush: a change made meanwhile is not saved after.
EndFlushOnce(t, rev, win) ==
    /\ again' = [again EXCEPT ![t] = FALSE]
    /\ save' = [save EXCEPT ![t] = NoSave]
    /\ status' = [status EXCEPT ![t] = IF closing[t] THEN "closed" ELSE @]

\* The end of flush: what changed meanwhile is saved next, unless closed.
EndFlush(t, rev, win) ==
    /\ again' = [again EXCEPT ![t] = FALSE]
    /\ IF again[t] /\ status[t] # "closed"
       THEN Request(t, rev, win, 1) /\ UNCHANGED status
       ELSE /\ save' = [save EXCEPT ![t] = NoSave]
            /\ status' = [status EXCEPT ![t] = IF closing[t] THEN "closed" ELSE @]

Saved(t) ==
    /\ save[t].at = "ok"
    /\ revision' = [revision EXCEPT ![t] = save[t].from + 1]
    /\ EndFlush(t, save[t].from + 1, windows[t])
    /\ UNCHANGED <<serverVars, edits, faults, windows, timer, closing, load, told, left, unsaved, heard>>

\* WindowManager.hydrate: the windows of an app this desk does not know are
\* left out.  Of those installed on the agent it knows none if the read of them
\* failed (reloadWebApps, reloadStackApps), which it may at any start.
Shown(win) == {win, win \ Installed}
Hydrate(t, win, shown) ==
    /\ windows' = [windows EXCEPT ![t] = shown]
    /\ left' = [left EXCEPT ![t] = win \ shown]

\* Refused to a tab in use: sent again over what is there; after the last
\* attempt it is left at that.
RefusedInUse(t) ==
    /\ save[t].at = "refused"
    /\ revision' = [revision EXCEPT ![t] = save[t].current.rev]
    /\ told' = [told EXCEPT ![t] = @ \cup save[t].current.win]
    /\ IF save[t].attempt < Attempts
       THEN /\ Request(t, save[t].current.rev, windows[t], save[t].attempt + 1)
            /\ UNCHANGED <<again, status, unsaved>>
       ELSE /\ EndFlush(t, save[t].current.rev, windows[t])
            /\ unsaved' = [unsaved EXCEPT ![t] = ~again[t]]
    /\ UNCHANGED <<serverVars, edits, faults, windows, timer, closing, load, left, heard>>

\* Refused to another: it takes the windows that are there.
RefusedUnused(t) ==
    /\ save[t].at = "refused"
    /\ revision' = [revision EXCEPT ![t] = save[t].current.rev]
    /\ told' = [told EXCEPT ![t] = @ \cup save[t].current.win]
    /\ \E shown \in Shown(save[t].current.win) :
        /\ Hydrate(t, save[t].current.win, shown)
        /\ EndFlush(t, save[t].current.rev, shown)
    /\ UNCHANGED <<serverVars, edits, faults, timer, closing, load, unsaved, heard>>

\* The request or its answer is lost, before or after it was written; one the
\* agent takes up only after the tab has given up on it is not modelled.
SaveFails(t) ==
    /\ save[t].at # "none" /\ faults < MaxFaults
    /\ faults' = faults + 1
    /\ EndFlush(t, revision[t], windows[t])
    /\ unsaved' = [unsaved EXCEPT ![t] = ~again[t]]
    /\ UNCHANGED <<serverVars, edits, revision, windows, timer, closing, load, told, left, heard>>

\* close: what is pending is saved first.  Behind a save under way flush only
\* leaves word, and the desk is closed at once.  A closed desk takes no answer
\* to its reads.
Close(t) ==
    /\ status[t] \notin {"new", "closed"} /\ ~closing[t]
    /\ timer' = [timer EXCEPT ![t] = FALSE]
    /\ heard' = [heard EXCEPT ![t] = 0]
    /\ IF timer[t] /\ status[t] = "ready" /\ save[t].at = "none"
       THEN /\ Flush(t)
            /\ closing' = [closing EXCEPT ![t] = TRUE]
            /\ UNCHANGED <<status, load>>
       ELSE /\ IF timer[t] /\ status[t] = "ready" THEN Flush(t) ELSE UNCHANGED <<again, save>>
            /\ status' = [status EXCEPT ![t] = "closed"]
            /\ load' = [load EXCEPT ![t] = [l \in Loads |-> NoLoad]]
            /\ UNCHANGED closing
    /\ UNCHANGED <<serverVars, edits, faults, revision, windows, told, left, unsaved>>

-----------------------------------------------------------------------------
(***************************************************************************)
(* Reading the session: at the start, and when another tab saved.          *)
(***************************************************************************)

\* Faulty variant of ReadSession: the windows are read before the revision.
ReadWindowsFirst(t, l) ==
    /\ \/ /\ load[t][l].at = "asked"
          /\ load' = [load EXCEPT ![t][l] =
                         [at |-> "half", current |-> [rev |-> 0, win |-> stored.win]]]
       \/ /\ load[t][l].at = "half"
          /\ load' = [load EXCEPT ![t][l].at = "answered", ![t][l].current.rev = stored.rev]
    /\ UNCHANGED <<serverVars, edits, faults, status, revision, windows, timer, again,
                   closing, save, told, left, unsaved, heard>>

\* load_session, outside of a transaction: the revision, then the windows,
\* which may be those of a later one.  No row is an empty session.
ReadSession(t, l) ==
    /\ \/ /\ load[t][l].at = "asked"
          /\ load' = [load EXCEPT ![t][l] =
                         [at |-> IF stored.rev = 0 THEN "answered" ELSE "half",
                          current |-> [rev |-> stored.rev, win |-> {}]]]
       \/ /\ load[t][l].at = "half"
          /\ load' = [load EXCEPT ![t][l] =
                         [at |-> "answered", current |-> [@.current EXCEPT !.win = stored.win]]]
    /\ UNCHANGED <<serverVars, edits, faults, status, revision, windows, timer, again,
                   closing, save, told, left, unsaved, heard>>

\* Taken as it comes, whatever the tab has done since it asked.  The desk's
\* effect reads the status, so becoming ready counts as a change to save.
Loaded(t, l) ==
    /\ load[t][l].at = "answered"
    /\ load' = [load EXCEPT ![t][l] = NoLoad]
    /\ IF status[t] = "closed"
       THEN UNCHANGED <<status, revision, windows, timer, told, left>>
       ELSE /\ revision' = [revision EXCEPT ![t] = load[t][l].current.rev]
            /\ IF Restore \/ Started(t)
               THEN \E shown \in Shown(load[t][l].current.win) :
                        Hydrate(t, load[t][l].current.win, shown)
               ELSE UNCHANGED <<windows, left>>
            /\ told' = [told EXCEPT ![t] = @ \cup load[t][l].current.win]
            /\ status' = [status EXCEPT ![t] = "ready"]
            /\ timer' = [timer EXCEPT ![t] = @ \/ status[t] # "ready"]
    /\ UNCHANGED <<serverVars, edits, faults, again, closing, save, unsaved, heard>>

LoadFails(t, l) ==
    /\ load[t][l].at # "none" /\ faults < MaxFaults
    /\ faults' = faults + 1
    /\ load' = [load EXCEPT ![t][l] = NoLoad]
    /\ status' = [status EXCEPT ![t] = IF @ = "closed" THEN @ ELSE "failed"]
    /\ UNCHANGED <<serverVars, edits, revision, windows, timer, again, closing, save, told, left,
                   unsaved, heard>>

\* remoteChanged: read again.  A tab that knows the revision passes it over,
\* and so does one in use: this step need not be taken.
RemoteChanged(t) ==
    /\ heard[t] > revision[t]
    /\ heard' = [heard EXCEPT ![t] = 0]
    /\ \E l \in Loads : AskLoad(t, l)
    /\ UNCHANGED <<serverVars, edits, faults, status, revision, windows, timer, again,
                   closing, save, told, left, unsaved>>

-----------------------------------------------------------------------------
Next ==
    \E t \in Tabs :
        \/ Start(t) \/ Edit(t) \/ Close(t)
        \/ Timer(t) \/ Write(t) \/ Conflict(t)
        \/ Saved(t) \/ RefusedInUse(t) \/ RefusedUnused(t) \/ SaveFails(t)
        \/ \E l \in Loads : ReadSession(t, l) \/ Loaded(t, l) \/ LoadFails(t, l)
        \/ RemoteChanged(t)

Spec == Init /\ [][Next]_vars

-----------------------------------------------------------------------------
\* store_session: "a second writer from the same revision waits, then matches
\* nothing and is told what is current".  A save that is written replaces only
\* what its tab made or was answered with: whatever the order of saves, reads
\* and their answers, no change of another tab is put away by one that never
\* learnt of it.  (That it showed what it learnt of is not said: a tab in use
\* saves over what it is refused with, and see UnknownComeBack.)
NothingIsReplacedUntold ==
    [][\A t \in Tabs :
           save[t].at = "asked" /\ save'[t].at = "ok" => stored.win \subseteq told[t]]_vars

AtRest(t) ==
    /\ status[t] = "ready" /\ ~timer[t] /\ save[t] = NoSave
    /\ \A l \in Loads : load[t][l] = NoLoad

\* "a change made during one is saved after": a tab that waits for nothing
\* shows no change that was never stored, unless its last save failed or was
\* refused to the end.
RestIsSaved ==
    \A t \in Tabs : AtRest(t) /\ ~unsaved[t] => windows[t] \subseteq kept

-----------------------------------------------------------------------------
(***************************************************************************)
(* What the comments say and the code does not do.                         *)
(***************************************************************************)

\* "an event saying the other saved is taken only by a tab not in use": so a
\* tab at rest that knows the stored revision shows what is stored.
RestIsCurrent ==
    \A t \in Tabs :
        AtRest(t) /\ ~unsaved[t] /\ revision[t] = stored.rev => windows[t] = stored.win

\* Desk.reloadStackApps, where it fails: "Their windows come back on the next
\* start".  So a save does not put away what hydrate left out.
UnknownComeBack ==
    [][\A t \in Tabs :
           save[t].at = "asked" /\ save'[t].at = "ok"
               => left[t] \cap stored.win \subseteq stored'.win]_vars

\* close: "Saves what is pending, then stops".
ClosingSaves ==
    \A t \in Tabs :
        status[t] = "closed" /\ save[t] = NoSave /\ ~unsaved[t] => windows[t] \subseteq kept
=============================================================================
