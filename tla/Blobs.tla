------------------------------- MODULE Blobs --------------------------------
(***************************************************************************)
(* The files the agent keeps beside its database (core/blobs.rs): requests *)
(* that write files and then the rows naming them, the collector that      *)
(* removes what no row names, the settings backup that copies rows first   *)
(* and files after (monitor_backup), its restore, and an agent that is     *)
(* killed anywhere and starts again.                                       *)
(*                                                                         *)
(* A file is its digest.  It is staged in tmp/, and there or not there     *)
(* under its name, since a rename is atomic.  A name is a key of one of    *)
(* the tables with a sha256 column: a hosted backup, a wallpaper, a theme, *)
(* an app.  Its row (or rows: an app has several files) is the set of      *)
(* digests it names, empty when there is none.                             *)
(***************************************************************************)
EXTENDS Integers

CONSTANTS
    Digest,
    Names,
    Kept,        \* the names a settings backup carries (wallpapers, themes)
    Single,      \* the names of one file (wallpapers, hosted backups)
    Writers,     \* requests that write, each at most one at a time
    Foreign,     \* those of them made by the command line, another process
    LateDrops,   \* a request may be dropped while its commit is under way
    MaxDue,      \* bound: collections owed when a request begins
    MaxBackups,  \* bound: settings backups begun
    MaxCrashes   \* bound: times the agent is killed

ASSUME BlobsAssumption ==
    /\ Kept \subseteq Names
    /\ Single \subseteq Names
    /\ Foreign \subseteq Writers
    /\ LateDrops \in BOOLEAN
    /\ MaxDue \in Nat
    /\ MaxBackups \in Nat
    /\ MaxCrashes \in Nat

VARIABLES
    rows,     \* the tables: the digests each name's rows name
    legacy,   \* backup_blob, the table of an agent before migration 020
    files,    \* digests with a file in place
    left,     \* tmp/ holds what an interrupted write left
    boot,     \* how far handle_serve is
    shared,   \* Blobs::gate: the writers that hold it
    collect,  \* the running collection: "idle", "alone" (the gate is its own)
    named,    \*   or "removing", with the digests it read
    due,      \* collections spawned or owed by a start that wait for the gate
    pc,       \* where each writer is
    kind,     \* what it does: store, restore, move, or a first install of a theme
    change,   \* the rows its transaction will write
    todo,     \* files it has still to put
    put,      \* files it has put and not yet named
    making,   \* the settings backup being made
    archive,  \* the settings backup in the folder
    lost,     \* history: digests restored without a file, not put since
    failed,   \* history: something failed since the last complete collection
    crashes,
    backups   \* settings backups begun

gateVars == <<shared, collect, named, due>>
writerVars == <<pc, kind, change, todo, put>>
backupVars == <<making, archive, backups>>
vars == <<rows, legacy, files, left, boot, gateVars, writerVars, backupVars, lost, failed,
          crashes>>

\* Rows of some names.
Rows == UNION {[N -> SUBSET Digest] : N \in SUBSET Names}
NoRows == [n \in {} |-> {}]
Backup == [rows : [Kept -> SUBSET Digest], todo : SUBSET Digest, files : SUBSET Digest]
None == [rows |-> [n \in Kept |-> {}], todo |-> {}, files |-> {}]

TypeOK ==
    /\ rows \in [Names -> SUBSET Digest]
    /\ legacy \in Rows
    /\ files \in SUBSET Digest
    /\ left \in BOOLEAN
    /\ boot \in {"moving", "collecting", "up"}
    /\ shared \in SUBSET Writers
    /\ collect \in {"idle", "alone", "removing"}
    /\ named \in SUBSET Digest
    /\ due \in Nat
    /\ pc \in [Writers -> {"idle", "in", "staged", "submitted", "applied", "dropped"}]
    /\ kind \in [Writers -> {"store", "restore", "move", "first"}]
    /\ change \in [Writers -> Rows]
    /\ todo \in [Writers -> SUBSET Digest]
    /\ put \in [Writers -> SUBSET Digest]
    /\ making \in Backup
    /\ archive \in Backup
    /\ lost \in SUBSET Digest
    /\ failed \in BOOLEAN
    /\ crashes \in Nat
    /\ backups \in Nat

Digests(r) == UNION {r[n] : n \in DOMAIN r}
Named == Digests(rows)
InUse == UNION {put[w] : w \in Writers}

\* An agent that starts beside a database from before migration 020, or not.
Init ==
    /\ rows = [n \in Names |-> {}]
    /\ legacy \in {NoRows} \cup [Names \ Kept -> {{d} : d \in Digest}]
    /\ files = {} /\ left = FALSE
    /\ boot = "moving"
    /\ shared = {} /\ collect = "idle" /\ named = {} /\ due = 0
    /\ pc = [w \in Writers |-> "idle"]
    /\ kind = [w \in Writers |-> "store"]
    /\ change = [w \in Writers |-> NoRows]
    /\ todo = [w \in Writers |-> {}]
    /\ put = [w \in Writers |-> {}]
    /\ making = None /\ archive = None
    /\ lost = {} /\ failed = FALSE
    /\ crashes = 0 /\ backups = 0

-----------------------------------------------------------------------------
(***************************************************************************)
(* Blobs::writing: writers share the gate, a collection has it alone.      *)
(***************************************************************************)

\* Faulty variant of Begin: a writer does not wait for a collection.
BeginBeside(w, k, new, fs) ==
    /\ pc[w] = "idle"
    /\ shared' = shared \cup {w}
    /\ pc' = [pc EXCEPT ![w] = "in"]
    /\ kind' = [kind EXCEPT ![w] = k]
    /\ change' = [change EXCEPT ![w] = new]
    /\ todo' = [todo EXCEPT ![w] = fs]
    /\ UNCHANGED <<rows, legacy, files, left, boot, collect, named, due, put, backupVars,
                   lost, failed, crashes>>

\* A writer has the gate: it will put `fs`, then write the rows `new`.  The
\* command line has a gate of its own, which nobody else takes.
Begin(w, k, new, fs) ==
    /\ pc[w] = "idle"
    /\ IF w \in Foreign THEN UNCHANGED shared
       ELSE collect = "idle" /\ shared' = shared \cup {w}
    /\ pc' = [pc EXCEPT ![w] = "in"]
    /\ kind' = [kind EXCEPT ![w] = k]
    /\ change' = [change EXCEPT ![w] = new]
    /\ todo' = [todo EXCEPT ![w] = fs]
    /\ UNCHANGED <<rows, legacy, files, left, boot, collect, named, due, put, backupVars,
                   lost, failed, crashes>>

\* What may be stored under a name.
Packages(n) == IF n \in Single THEN {{d} : d \in Digest} ELSE SUBSET Digest \ {{}}

\* backup.rs store, desk.rs put_wallpaper, desk_themes.rs install, apps.rs store.
Store(w) ==
    /\ boot = "up" /\ w \notin Foreign /\ due < MaxDue
    /\ \E n \in Names : \E D \in Packages(n) :
           Begin(w, "store", [m \in {n} |-> D], D)

\* restore_database: the files of the archive, then its rows for every table
\* it carries.
Restore(w) ==
    /\ boot = "up" /\ due < MaxDue
    /\ archive # None
    /\ Begin(w, "restore", archive.rows, archive.files)

\* move_database_backups, before anything is served.
Move(w) ==
    /\ boot = "moving" /\ legacy # NoRows /\ w \notin Foreign
    /\ \A v \in Writers \ Foreign : pc[v] = "idle"
    /\ Begin(w, "move", legacy, Digests(legacy))

(***************************************************************************)
(* Blobs::put, once per file.                                              *)
(***************************************************************************)

\* The file is there already: equal contents are one file.
PutFound(w) ==
    /\ pc[w] = "in"
    /\ \E d \in todo[w] \cap files :
        /\ put' = [put EXCEPT ![w] = @ \cup {d}]
        /\ todo' = [todo EXCEPT ![w] = @ \ {d}]
    /\ UNCHANGED <<rows, legacy, files, left, boot, gateVars, pc, kind, change, backupVars,
                   lost, failed, crashes>>

\* It is written to tmp/ and synced there.
Stage(w) ==
    /\ pc[w] = "in"
    /\ todo[w] \ files # {}
    /\ pc' = [pc EXCEPT ![w] = "staged"]
    /\ UNCHANGED <<rows, legacy, files, left, boot, gateVars, kind, change, todo, put,
                   backupVars, lost, failed, crashes>>

\* Then renamed into place; another writer may have put an equal one since.
Rename(w) ==
    /\ pc[w] = "staged"
    /\ \E d \in todo[w] :
        /\ files' = files \cup {d}
        /\ lost' = lost \ {d}
        /\ put' = [put EXCEPT ![w] = @ \cup {d}]
        /\ todo' = [todo EXCEPT ![w] = @ \ {d}]
    /\ pc' = [pc EXCEPT ![w] = "in"]
    /\ UNCHANGED <<rows, legacy, left, boot, gateVars, kind, change, backupVars, failed, crashes>>

(***************************************************************************)
(* The rows, and the end of the request.  The commit is done by the        *)
(* database's own thread: submitted, applied, and answered.                *)
(***************************************************************************)
\* Faulty variant of Submit: the rows are written before the files.
SubmitFirst(w) ==
    /\ pc[w] = "in"
    /\ pc' = [pc EXCEPT ![w] = "submitted"]
    /\ UNCHANGED <<rows, legacy, files, left, boot, gateVars, kind, change, todo, put,
                   backupVars, lost, failed, crashes>>

Submit(w) ==
    /\ pc[w] = "in" /\ todo[w] = {}
    /\ pc' = [pc EXCEPT ![w] = "submitted"]
    /\ UNCHANGED <<rows, legacy, files, left, boot, gateVars, kind, change, todo, put,
                   backupVars, lost, failed, crashes>>

\* What the tables are once w's transaction is in.
Written(w) == [n \in Names |-> IF n \in DOMAIN change[w] THEN change[w][n] ELSE rows[n]]

\* A theme that may replace no earlier one, seen in the transaction: none with
\* backgrounds is there, or this very package is.
First(w) ==
    /\ kind[w] = "store"
    /\ DOMAIN change[w] \subseteq Kept \ Single
    /\ \A n \in DOMAIN change[w] : rows[n] = {} \/ rows[n] = change[w][n]

\* Applied also when the request is gone by then; nobody collects after it.
Apply(w) ==
    /\ pc[w] \in {"submitted", "dropped"}
    /\ rows' = Written(w)
    /\ legacy' = IF kind[w] = "move" THEN NoRows ELSE legacy
    /\ lost' = IF kind[w] = "restore" THEN lost \cup (Digests(change[w]) \ put[w]) ELSE lost
    /\ change' = [change EXCEPT ![w] = NoRows]
    /\ put' = [put EXCEPT ![w] = {}]
    /\ IF pc[w] = "submitted"
       THEN /\ pc' = [pc EXCEPT ![w] = "applied"]
            /\ \/ First(w) /\ kind' = [kind EXCEPT ![w] = "first"]
               \/ UNCHANGED kind
            /\ UNCHANGED failed
       ELSE /\ pc' = [pc EXCEPT ![w] = "idle"]
            /\ failed' = TRUE
            /\ UNCHANGED kind
    /\ UNCHANGED <<files, left, boot, gateVars, todo, backupVars, crashes>>

\* The request is over: its guard is dropped.
Leave(w) ==
    /\ pc' = [pc EXCEPT ![w] = "idle"]
    /\ shared' = shared \ {w}
    /\ todo' = [todo EXCEPT ![w] = {}]
    /\ put' = [put EXCEPT ![w] = {}]
    /\ change' = [change EXCEPT ![w] = NoRows]
    /\ kind' = [kind EXCEPT ![w] = "store"]
    /\ UNCHANGED <<rows, legacy, files, collect, named, backupVars, lost, crashes>>

\* Faulty variant of Finish: what was replaced is left where it is.
FinishUncollected(w) ==
    /\ pc[w] = "applied"
    /\ Leave(w)
    /\ UNCHANGED <<due, left, failed>>
    /\ boot' = IF kind[w] = "move" THEN "collecting" ELSE boot

\* Answered: collect_soon, for what was replaced; a theme installed for the
\* first time, or once more, replaces nothing and spawns none.  The move is
\* followed by the collection of a start; the command line never collects.
Finish(w) ==
    /\ pc[w] = "applied"
    /\ Leave(w)
    /\ due' = IF w \in Foreign \/ kind[w] = "first" THEN due ELSE due + 1
    /\ failed' = (failed \/ w \in Foreign)
    /\ boot' = IF kind[w] = "move" THEN "collecting" ELSE boot
    /\ UNCHANGED left

\* Refused in its transaction (too many backups or themes, a declined app):
\* its files belong to nothing.
Refuse(w) ==
    /\ pc[w] = "in" /\ todo[w] = {} /\ kind[w] = "store"
    /\ Leave(w)
    /\ due' = due + 1
    /\ UNCHANGED <<left, boot, failed>>

\* A file or a row could not be written: the error is answered, and whatever
\* was put stays until some later collection (a theme's install spawns one at
\* once).  A failed move ends the agent.
Fail(w) ==
    /\ pc[w] \in {"in", "staged"} /\ kind[w] # "move"
    /\ Leave(w)
    /\ failed' = TRUE
    /\ due' \in {due, due + 1}
    /\ UNCHANGED <<left, boot>>

\* Where the client going away finds a request.
Droppable == {"in", "staged"} \cup (IF LateDrops THEN {"submitted"} ELSE {})

\* The client is gone and the future dropped with its guard; a file on its way
\* may stay in tmp/.  A commit that was handed over is carried out.
Drop(w) ==
    /\ pc[w] \in Droppable /\ kind[w] # "move" /\ w \notin Foreign
    /\ pc' = [pc EXCEPT ![w] = IF @ = "submitted" THEN "dropped" ELSE "idle"]
    /\ shared' = shared \ {w}
    /\ todo' = [todo EXCEPT ![w] = {}]
    /\ put' = [put EXCEPT ![w] = IF pc[w] = "submitted" THEN @ ELSE {}]
    /\ left' = (left \/ pc[w] = "staged")
    /\ failed' = TRUE
    /\ UNCHANGED <<rows, legacy, files, boot, collect, named, due, kind, change, backupVars,
                   lost, crashes>>

\* backup.rs remove, desk.rs delete_wallpaper, apps.rs remove, desk_themes.rs
\* remove: the row alone, without the gate.
Remove(n) ==
    /\ boot = "up" /\ rows[n] # {} /\ due < MaxDue
    /\ rows' = [rows EXCEPT ![n] = {}]
    /\ due' = due + 1
    /\ UNCHANGED <<legacy, files, left, boot, shared, collect, named, writerVars,
                   backupVars, lost, failed, crashes>>

-----------------------------------------------------------------------------
(***************************************************************************)
(* Blobs::collect.                                                         *)
(***************************************************************************)

\* Faulty variant of CollectEnters: it does not wait for the writers inside.
CollectEntersBeside ==
    /\ due > 0 /\ collect = "idle"
    /\ due' = due - 1
    /\ collect' = "alone"
    /\ UNCHANGED <<rows, legacy, files, left, boot, shared, named, writerVars, backupVars,
                   lost, failed, crashes>>

\* A spawned collection, or the one of a start, gets the gate.
CollectEnters ==
    /\ due > 0 /\ collect = "idle" /\ shared = {}
    /\ due' = due - 1
    /\ collect' = "alone"
    /\ UNCHANGED <<rows, legacy, files, left, boot, shared, named, writerVars, backupVars,
                   lost, failed, crashes>>

\* The rows are read once; a row removed after that has a collection of its own.
CollectReads ==
    /\ collect = "alone"
    /\ named' = Named
    /\ collect' = "removing"
    /\ UNCHANGED <<rows, legacy, files, left, boot, shared, due, writerVars,
                   backupVars, lost, failed, crashes>>

\* One file after the other.
CollectRemoves ==
    /\ collect = "removing"
    /\ \E d \in files \ named : files' = files \ {d}
    /\ UNCHANGED <<rows, legacy, left, boot, gateVars, writerVars, backupVars, lost, failed,
                   crashes>>

\* tmp/ is emptied whatever it holds.  (What the command line was staging goes
\* too, and its command fails.)
CollectCleans ==
    /\ collect = "removing" /\ left
    /\ left' = FALSE
    /\ UNCHANGED <<rows, legacy, files, boot, gateVars, writerVars, backupVars, lost, failed,
                   crashes>>

CollectEnds ==
    /\ collect' = "idle" /\ named' = {}
    /\ boot' = IF boot = "collecting" THEN "up" ELSE boot
    /\ UNCHANGED <<rows, legacy, files, left, shared, due, writerVars, backupVars,
                   lost, crashes>>

CollectDone ==
    /\ collect = "removing" /\ files \subseteq named /\ ~left
    /\ CollectEnds
    /\ failed' = FALSE

\* The rows cannot be read or a file not removed: the rest stays, with a warning.
CollectFails ==
    /\ collect \in {"alone", "removing"}
    /\ CollectEnds
    /\ failed' = TRUE

-----------------------------------------------------------------------------
(***************************************************************************)
(* The settings backup: write_database copies the rows in a transaction,   *)
(* write_archive opens the files they name after it.  The gate is not      *)
(* taken, and a file that is gone is left out.                             *)
(***************************************************************************)
Snapshot ==
    /\ boot = "up" /\ making = None
    /\ backups < MaxBackups
    /\ backups' = backups + 1
    /\ LET copy == [n \in Kept |-> rows[n]]
       IN making' = [rows |-> copy, todo |-> Digests(copy), files |-> {}]
    /\ making' # None
    /\ UNCHANGED <<rows, legacy, files, left, boot, gateVars, writerVars, archive, lost,
                   failed, crashes>>

ArchiveFile ==
    /\ \E d \in making.todo :
        making' = [making EXCEPT !.todo = @ \ {d},
                                 !.files = IF d \in files THEN @ \cup {d} ELSE @]
    /\ UNCHANGED <<rows, legacy, files, left, boot, gateVars, writerVars, archive, backups,
                   lost, failed, crashes>>

Uploaded ==
    /\ making # None /\ making.todo = {}
    /\ archive' = making
    /\ making' = None
    /\ UNCHANGED <<rows, legacy, files, left, boot, gateVars, writerVars, backups, lost,
                   failed, crashes>>

-----------------------------------------------------------------------------
(***************************************************************************)
(* The agent is killed and starts again (handle_serve): the move, then a   *)
(* collection, before anything is served.  A command of the command line   *)
(* goes on.                                                                *)
(***************************************************************************)
Crash ==
    /\ crashes < MaxCrashes
    /\ crashes' = crashes + 1
    /\ boot' = "moving"
    /\ shared' = {} /\ collect' = "idle" /\ named' = {} /\ due' = 0
    /\ left' = (left \/ \E w \in Writers \ Foreign : pc[w] = "staged")
    /\ pc' = [w \in Writers |-> IF w \in Foreign THEN pc[w] ELSE "idle"]
    /\ change' = [w \in Writers |-> IF w \in Foreign THEN change[w] ELSE NoRows]
    /\ todo' = [w \in Writers |-> IF w \in Foreign THEN todo[w] ELSE {}]
    /\ put' = [w \in Writers |-> IF w \in Foreign THEN put[w] ELSE {}]
    /\ making' = None
    /\ kind' = [w \in Writers |-> IF w \in Foreign THEN kind[w] ELSE "store"]
    /\ UNCHANGED <<rows, legacy, files, archive, backups, lost, failed>>

\* Nothing to move: the collection of a start is next.
NothingToMove ==
    /\ boot = "moving" /\ legacy = NoRows
    /\ boot' = "collecting"
    /\ due' = due + 1
    /\ UNCHANGED <<rows, legacy, files, left, shared, collect, named, writerVars,
                   backupVars, lost, failed, crashes>>

-----------------------------------------------------------------------------
Next ==
    \/ \E w \in Writers :
           \/ Store(w) \/ Restore(w) \/ Move(w)
           \/ PutFound(w) \/ Stage(w) \/ Rename(w)
           \/ Submit(w) \/ Apply(w) \/ Finish(w) \/ Refuse(w) \/ Fail(w) \/ Drop(w)
    \/ \E n \in Names : Remove(n)
    \/ CollectEnters \/ CollectReads \/ CollectRemoves \/ CollectCleans
    \/ CollectDone \/ CollectFails
    \/ Snapshot \/ ArchiveFile \/ Uploaded
    \/ Crash \/ NothingToMove

Spec == Init /\ [][Next]_vars

-----------------------------------------------------------------------------
\* blobs.rs: "a file written and not yet named by its row is never taken for
\* garbage".  What a request has put, or found there, is there until it has
\* written its rows, whatever is collected meanwhile.
PutStays == \A w \in Writers : put[w] \subseteq files

\* Every digest a row names has its file, through crashes, failures, dropped
\* requests and collections; but for a row restored from a backup that was
\* made without the file.
NamedHasFile == Named \ files \subseteq lost

\* Nothing is left behind quietly: a file that no row names and no request
\* holds is owed to a collection that has not read the rows yet or is removing
\* it, unless a failure left it.
GarbageIsDue ==
    \/ boot # "up"
    \/ due > 0 \/ collect # "idle"
    \/ \E w \in Writers : pc[w] = "applied"
    \/ failed
    \/ files \subseteq Named \cup InUse

\* What a name holds, to one who reads it: its rows, if the files are there.
Torn == {{}}
Contents == [n \in Names |-> IF rows[n] \subseteq files \cup lost THEN rows[n] ELSE Torn]

\* What a request still waits for.
Asked == [w \in Writers |-> IF pc[w] \in {"idle", "applied"} THEN NoRows ELSE change[w]]

\* Staging, collecting, crashing and starting again change nothing that can be
\* read by name; a request changes what it asked for in one step and once, and
\* one that failed, was dropped or was cut short by a crash changes nothing.
Atomic == INSTANCE AtomicStore WITH content <- Contents, asked <- Asked, Clients <- Writers
ImplementsAtomicStore == Atomic!Spec

\* snapshot.rs on what an archive holds: "`blobs/<sha256>`: the files those
\* rows name".
BackupIsWhole == Digests(archive.rows) \subseteq archive.files
=============================================================================
