--------------------------- MODULE SettingsBackup ---------------------------
(***************************************************************************)
(* Backups of the agent's settings to a WebDAV folder (monitor_backup/):   *)
(* the loop that hashes the settings and makes a backup when they changed, *)
(* the folder it uploads to and prunes, the key files without which no     *)
(* backup can be read, and the operator who edits settings, moves the      *)
(* folder, changes the passphrase, restores, and may run the command line  *)
(* beside the agent.                                                       *)
(*                                                                         *)
(* The settings are a value, and their stable hash is the value itself.  A *)
(* backup is the time in its name (NAME_TIME: no two share one), who made  *)
(* it, the key it is encrypted to and the settings it holds.  A request to *)
(* the folder may fail, and may fail although the server carried it out.   *)
(***************************************************************************)
EXTENDS Integers, FiniteSets

CONSTANTS
    Folders,      \* addresses a folder may have
    Processes,    \* "agent", and "cli" for a `backup run` beside it
    ClockBack,    \* the clock may be set back between backups
    MaxEdits,     \* bound: edits of the settings
    MaxKeep,      \* bound: the largest `keep`
    MaxKeys,      \* bound: keys ever made
    MaxInstances, \* bound: times backups are configured anew
    MaxBackups,   \* bound: backups ever uploaded
    MaxFaults,    \* bound: requests to the folder, and packings, that fail
    MaxCrashes    \* bound: times the agent is killed

ASSUME SettingsBackupAssumption ==
    /\ "agent" \in Processes
    /\ ClockBack \in BOOLEAN
    /\ {MaxEdits, MaxKeys, MaxInstances, MaxBackups, MaxFaults, MaxCrashes} \subseteq Nat
    /\ MaxKeep \in Nat \ {0}

VARIABLES
    settings,  \* what the KEPT tables and config.toml hold
    edits,     \* edits so far, each of which makes settings there were never before
    restored,  \* history: the settings are what a restore put there
    daily,     \* only what changes on its own did, and the last backup is a day old
    row,       \* the monitor_backup table: its row, or NoRow
    folder,    \* what each folder holds: backups and key files
    times,     \* the times backups were made at
    keys,      \* keys made so far (new_key)
    instances, \* instances made so far (new_instance)
    op,        \* what each process does under its MonitorBackup::lock
    forced,    \* MonitorBackup::forced of the agent
    pruneDue,  \* MonitorBackup::prune_due of the agent
    faults, crashes

operatorVars == <<settings, edits, restored, daily, keys, instances>>
vars == <<operatorVars, row, folder, times, op, forced, pruneDue, faults, crashes>>

Nothing == -1  \* no hash, no key, no name

\* A configured row (Row): its password, user name and error times left out.
NoRow == [instance |-> 0, folder |-> Nothing, enabled |-> FALSE, keep |-> 1, key |-> Nothing,
          hash |-> Nothing, last |-> Nothing, error |-> FALSE]

Idle == [pc |-> "idle", stored |-> NoRow, force |-> FALSE, same |-> FALSE,
         digest |-> 0, holds |-> 0, name |-> Nothing, surplus |-> {}, unused |-> {}, outcome |-> "failed"]

\* What a folder holds.
Backup == [at : Nat, instance : Nat, key : Nat, holds : Nat]
KeyFile == [instance : Nat, key : Nat]

OrNothing == Nat \cup {Nothing}
Row == [instance : Nat, folder : Folders \cup {Nothing}, enabled : BOOLEAN, keep : 1 .. MaxKeep,
        key : OrNothing, hash : OrNothing, last : OrNothing, error : BOOLEAN]
Op == [pc : {"idle", "keyPut", "listing", "packing", "uploading", "relisting", "pruning",
             "recording"},
       stored : Row, force : BOOLEAN, same : BOOLEAN, digest : Nat, holds : Nat,
       name : OrNothing, surplus : SUBSET Nat, unused : SUBSET KeyFile,
       outcome : {"made", "checked", "failed"}]

TypeOK ==
    /\ settings \in Nat /\ edits \in Nat
    /\ restored \in BOOLEAN /\ daily \in BOOLEAN
    /\ row \in Row
    /\ folder \in [Folders -> [backups : SUBSET Backup, keys : SUBSET KeyFile]]
    /\ times \in SUBSET Nat
    /\ keys \in Nat /\ instances \in Nat
    /\ op \in [Processes -> Op]
    /\ forced \in BOOLEAN /\ pruneDue \in BOOLEAN
    /\ faults \in Nat /\ crashes \in Nat

Init ==
    /\ settings = 0 /\ edits = 0 /\ restored = FALSE /\ daily = FALSE
    /\ row = NoRow
    /\ folder = [f \in Folders |-> [backups |-> {}, keys |-> {}]]
    /\ times = {} /\ keys = 0 /\ instances = 0
    /\ op = [p \in Processes |-> Idle]
    /\ forced = FALSE /\ pruneDue = FALSE
    /\ faults = 0 /\ crashes = 0

Free(p) == op[p].pc = "idle"
At(p, pc) == op[p].pc = pc
Key(instance, key) == [instance |-> instance, key |-> key]

\* What the folder named by a row, or copied from one, holds.
In(r) == folder[r.folder]
Mine(r) == {b \in In(r).backups : b.instance = r.instance}

\* A request to the folder, or packing, fails.
Fault == faults < MaxFaults /\ faults' = faults + 1
NoFault == UNCHANGED faults

-----------------------------------------------------------------------------
(***************************************************************************)
(* The operator.                                                           *)
(***************************************************************************)

\* Any page that writes a table the backup carries, or config.toml.
Edit ==
    /\ edits < MaxEdits
    /\ edits' = edits + 1
    /\ settings' = edits + 1 /\ restored' = FALSE
    /\ UNCHANGED <<daily, keys, instances, row, folder, times, op, forced, pruneDue, faults,
                   crashes>>

\* Backups in f that can be opened with the passphrase of their day.
Readable(f) == {b \in folder[f].backups : Key(b.instance, b.key) \in folder[f].keys}

\* restore, of any backup, another instance's too: under the lock, but for the
\* command line's.  The row was read before the lock was taken, so the folder
\* may be one left since; the command line may name one.  Where backups go is
\* not among what it restores.  (One that fails half way is an edit.)
Restore ==
    /\ row # NoRow
    /\ Free("agent") \/ "cli" \in Processes
    /\ \E f \in Folders : \E b \in Readable(f) : b.holds # settings /\ settings' = b.holds
    /\ restored' = TRUE
    /\ UNCHANGED <<edits, daily, keys, instances, row, folder, times, op, forced, pruneDue,
                   faults, crashes>>

\* The command line's `restore` with a folder named, where no backups are set
\* up: this machine carries on as the monitor that made the backup (adopt).
Adopt ==
    /\ row = NoRow
    /\ \E f \in Folders : \E b \in Readable(f) :
        /\ settings' = b.holds /\ restored' = TRUE
        /\ row' = [NoRow EXCEPT !.instance = b.instance, !.folder = f, !.enabled = TRUE,
                                !.keep = MaxKeep, !.key = b.key]
    /\ UNCHANGED <<edits, daily, keys, instances, folder, times, op, forced, pruneDue, faults,
                   crashes>>

\* A day after the last backup, a column of Kept::volatile is not as it holds it.
DayPasses ==
    /\ ~daily /\ row.hash # Nothing
    /\ daily' = TRUE
    /\ UNCHANGED <<settings, edits, restored, keys, instances, row, folder, times, op, forced, pruneDue, faults,
                   crashes>>

\* Faulty variant of Moved: another folder keeps the key of the last one.
MovedWithKey(f, on, keep) == [row EXCEPT !.folder = f, !.enabled = on, !.keep = keep]

\* Another folder starts over: its own key, none of the last folder's state.
Moved(f, on, keep) ==
    IF row.folder = f
    THEN [row EXCEPT !.enabled = on, !.keep = keep]
    ELSE [NoRow EXCEPT !.instance = row.instance, !.folder = f, !.enabled = on, !.keep = keep]

\* set_settings on a row that is there: the lock is held from the read to the
\* write, and the next check prunes when fewer are to be kept.
SetSettings ==
    /\ Free("agent") /\ row # NoRow
    /\ \E f \in Folders, on \in BOOLEAN, keep \in 1 .. MaxKeep :
        /\ row' = Moved(f, on, keep)
        /\ pruneDue' = (pruneDue \/ (row.folder = f /\ keep < row.keep))
    /\ UNCHANGED <<operatorVars, folder, times, op, forced, faults, crashes>>

\* And on none: a new instance.
Configure ==
    /\ Free("agent") /\ row = NoRow /\ instances < MaxInstances
    /\ \E f \in Folders, keep \in 1 .. MaxKeep :
        row' = [NoRow EXCEPT !.instance = instances + 1, !.folder = f, !.enabled = TRUE,
                             !.keep = keep]
    /\ instances' = instances + 1
    /\ UNCHANGED <<settings, edits, restored, daily, keys, folder, times, op, forced, pruneDue, faults, crashes>>

\* remove_settings: what is in the folder stays.
RemoveSettings ==
    /\ Free("agent") /\ row # NoRow
    /\ row' = NoRow
    /\ UNCHANGED <<operatorVars, folder, times, op, forced, pruneDue, faults, crashes>>

\* set_key: a new key pair, its secret half put in the folder first ...
PutKey ==
    /\ Free("agent") /\ row # NoRow /\ keys < MaxKeys
    /\ keys' = keys + 1
    /\ \E landed, answered \in BOOLEAN :
        /\ IF landed
           THEN folder' = [folder EXCEPT ![row.folder].keys = @ \cup {Key(row.instance, keys + 1)}]
           ELSE UNCHANGED folder
        /\ IF answered
           THEN landed /\ NoFault /\ op' = [op EXCEPT !["agent"] = [Idle EXCEPT !.pc = "keyPut"]]
           ELSE Fault /\ UNCHANGED op
    /\ UNCHANGED <<settings, edits, restored, daily, instances, row, times, forced, pruneDue, crashes>>

\* Faulty variant of StoreKey: the hashes stay.
StoreKeyOnly ==
    /\ At("agent", "keyPut")
    /\ row' = IF row = NoRow THEN row ELSE [row EXCEPT !.key = keys]
    /\ op' = [op EXCEPT !["agent"] = Idle]
    /\ UNCHANGED <<operatorVars, folder, times, forced, pruneDue, faults, crashes>>

\* ... then the row, whose hashes go so that a backup to the new key is made,
\* and at once (request_now).
StoreKey ==
    /\ At("agent", "keyPut")
    /\ row' = IF row = NoRow THEN row
              ELSE [row EXCEPT !.key = keys, !.hash = Nothing]
    /\ op' = [op EXCEPT !["agent"] = Idle]
    /\ forced' = TRUE
    /\ UNCHANGED <<operatorVars, folder, times, pruneDue, faults, crashes>>

\* POST /monitor-backup/run.
RunNow ==
    /\ row.enabled /\ row.key # Nothing /\ ~forced
    /\ forced' = TRUE
    /\ UNCHANGED <<operatorVars, row, folder, times, op, pruneDue, faults, crashes>>

-----------------------------------------------------------------------------
(***************************************************************************)
(* back_up and make.                                                       *)
(***************************************************************************)

\* The stable hash is the last backup's, and the full one too or not yet due.
Unchanged(r) == r.hash = settings /\ ~daily

\* Faulty variant of HasWork: an error is not looked into.
HasWorkIfChanged(p, force) == force \/ ~Unchanged(row) \/ (p = "agent" /\ pruneDue)

HasWork(p, force) == force \/ ~Unchanged(row) \/ row.error \/ (p = "agent" /\ pruneDue)

\* The row is read, then the settings hashed, under the lock; the loop has
\* taken the forced flag, make takes prune_due.
Check(p) ==
    /\ Free(p)
    /\ row.enabled /\ row.key # Nothing
    /\ LET force == p = "cli" \/ forced
       IN /\ HasWork(p, force)
          /\ op' = [op EXCEPT ![p] = [Idle EXCEPT !.pc = "listing", !.stored = row,
                        !.force = force, !.same = Unchanged(row), !.digest = settings]]
    /\ IF p = "agent" THEN forced' = FALSE /\ pruneDue' = FALSE
       ELSE UNCHANGED <<forced, pruneDue>>
    /\ UNCHANGED <<operatorVars, row, folder, times, faults, crashes>>

\* Not set up, or turned off: the flag is taken for nothing.
CheckNotSet ==
    /\ Free("agent") /\ forced
    /\ ~row.enabled \/ row.key = Nothing
    /\ forced' = FALSE
    /\ UNCHANGED <<operatorVars, row, folder, times, op, pruneDue, faults, crashes>>

\* Faulty variant of Surplus: the newest go.
SurplusNewest(r) ==
    {b.at : b \in {c \in Mine(r) : Cardinality({d \in Mine(r) : d.at < c.at}) >= r.keep}}

\* prune, as far as it is settled by the listing: the backups past the newest
\* `keep`, by the time in their names ...
Surplus(r) ==
    {b.at : b \in {c \in Mine(r) : Cardinality({d \in Mine(r) : d.at > c.at}) >= r.keep}}

\* Faulty variant of Unused: only the current key counts.
UnusedButCurrent(r) == {k \in In(r).keys : k.instance = r.instance /\ k.key # r.key}

\* ... and this instance's key files that no backup kept is made with.
Unused(r) ==
    {k \in In(r).keys :
        /\ k.instance = r.instance /\ k.key # r.key
        /\ \A b \in Mine(r) : b.key = k.key => b.at \in Surplus(r)}

\* The next step of p, with what it found.
Prune(p, outcome) ==
    [op[p] EXCEPT !.pc = "pruning", !.outcome = outcome, !.same = FALSE, !.holds = 0,
                  !.surplus = Surplus(op[p].stored), !.unused = Unused(op[p].stored)]

Failed(p) == [Idle EXCEPT !.pc = "recording"]

\* Unchanged, and the last backup is there: only pruned.  Without its key file
\* a backup could never be read.
Listed(p) ==
    LET r == op[p].stored
    IN IF op[p].same /\ ~op[p].force /\ \E b \in In(r).backups : b.at = r.last
       THEN Prune(p, "checked")
       ELSE IF Key(r.instance, r.key) \in In(r).keys
       THEN [op[p] EXCEPT !.pc = "packing", !.force = FALSE, !.same = FALSE]
       ELSE Failed(p)

List(p) ==
    /\ At(p, "listing")
    /\ \/ NoFault /\ op' = [op EXCEPT ![p] = Listed(p)]
       \/ Fault /\ op' = [op EXCEPT ![p] = Failed(p)]
    /\ UNCHANGED <<operatorVars, row, folder, times, forced, pruneDue, crashes>>

\* write_database: a transaction of its own, after the hash.
Pack(p) ==
    /\ At(p, "packing")
    /\ op' = [op EXCEPT ![p].pc = "uploading", ![p].holds = settings]
    /\ UNCHANGED <<operatorVars, row, folder, times, forced, pruneDue, faults, crashes>>

\* The copy, the archive or its encryption fails, or is past MAX_BYTES.
PackFails(p) ==
    /\ At(p, "packing")
    /\ Fault
    /\ op' = [op EXCEPT ![p] = Failed(p)]
    /\ UNCHANGED <<operatorVars, row, folder, times, forced, pruneDue, crashes>>

\* The time in the name of the next backup.
Times == 1 .. MaxBackups
Now == {t \in Times \ times : ClockBack \/ \A u \in times : u < t}

\* put_file: under a temporary name, then moved.
Upload(p) ==
    /\ At(p, "uploading")
    /\ LET r == op[p].stored
       IN \E t \in Now, landed, answered \in BOOLEAN :
            /\ \A u \in Now : ClockBack \/ t <= u
            /\ times' = times \cup {t}
            /\ IF landed
               THEN folder' = [folder EXCEPT ![r.folder].backups = @ \cup
                        {[at |-> t, instance |-> r.instance, key |-> r.key, holds |-> op[p].holds]}]
               ELSE UNCHANGED folder
            /\ IF answered
               THEN landed /\ NoFault
                    /\ op' = [op EXCEPT ![p].pc = "relisting", ![p].name = t]
               ELSE Fault /\ op' = [op EXCEPT ![p] = Failed(p)]
    /\ UNCHANGED <<operatorVars, row, forced, pruneDue, crashes>>

\* The upload is looked for before it is recorded.
Relist(p) ==
    /\ At(p, "relisting")
    /\ \/ /\ NoFault
          /\ op' = [op EXCEPT ![p] =
                        IF \E b \in In(@.stored).backups : b.at = @.name
                        THEN Prune(p, "made") ELSE Failed(p)]
       \/ Fault /\ op' = [op EXCEPT ![p] = Failed(p)]
    /\ UNCHANGED <<operatorVars, row, folder, times, forced, pruneDue, crashes>>

\* Oldest backups first, key files after them, each a request.
PruneBackup(p) ==
    /\ At(p, "pruning")
    /\ \E t \in op[p].surplus :
        /\ \A u \in op[p].surplus : t <= u
        /\ op' = [op EXCEPT ![p].surplus = @ \ {t}]
        /\ folder' = [folder EXCEPT ![op[p].stored.folder].backups = {b \in @ : b.at # t}]
    /\ NoFault
    /\ UNCHANGED <<operatorVars, row, times, forced, pruneDue, crashes>>

PruneKey(p) ==
    /\ At(p, "pruning") /\ op[p].surplus = {}
    /\ \E k \in op[p].unused :
        /\ op' = [op EXCEPT ![p].unused = @ \ {k}]
        /\ folder' = [folder EXCEPT ![op[p].stored.folder].keys = @ \ {k}]
    /\ NoFault
    /\ UNCHANGED <<operatorVars, row, times, forced, pruneDue, crashes>>

\* Something is left to delete.
Unfinished(p) == op[p].surplus # {} \/ op[p].unused # {}

\* A delete fails: the rest is left, and the failure goes with the outcome.
PruneFails(p) ==
    /\ At(p, "pruning") /\ Unfinished(p)
    /\ Fault
    /\ op' = [op EXCEPT ![p].pc = "recording"]
    /\ UNCHANGED <<operatorVars, row, folder, times, forced, pruneDue, crashes>>

\* What a check leaves in the row, whatever became of the row meanwhile.
Recorded(p) ==
    IF row = NoRow THEN row
    ELSE CASE op[p].outcome = "made" ->
                  [row EXCEPT !.hash = op[p].digest, !.last = op[p].name,
                              !.error = Unfinished(p)]
           [] op[p].outcome = "checked" -> [row EXCEPT !.error = Unfinished(p)]
           [] OTHER -> [row EXCEPT !.error = TRUE]

Record(p) ==
    /\ \/ At(p, "recording")
       \/ At(p, "pruning") /\ ~Unfinished(p)
    /\ row' = Recorded(p)
    /\ daily' = IF op[p].outcome = "made" THEN FALSE ELSE daily
    /\ op' = [op EXCEPT ![p] = Idle]
    /\ UNCHANGED <<settings, edits, restored, keys, instances, folder, times, forced, pruneDue, faults, crashes>>

\* The agent is killed: its lock and its flags go with it.
Crash ==
    /\ crashes < MaxCrashes
    /\ crashes' = crashes + 1
    /\ op' = [op EXCEPT !["agent"] = Idle]
    /\ forced' = FALSE /\ pruneDue' = FALSE
    /\ UNCHANGED <<operatorVars, row, folder, times, faults>>

-----------------------------------------------------------------------------
BackupStep(p) ==
    \/ List(p) \/ Pack(p) \/ PackFails(p) \/ Upload(p) \/ Relist(p)
    \/ PruneBackup(p) \/ PruneKey(p) \/ PruneFails(p) \/ Record(p)

Next ==
    \/ Edit \/ Restore \/ Adopt \/ DayPasses
    \/ Configure \/ SetSettings \/ RemoveSettings \/ PutKey \/ StoreKey \/ RunNow
    \/ \E p \in Processes : Check(p) \/ BackupStep(p)
    \/ CheckNotSet
    \/ Crash

Spec == Init /\ [][Next]_vars

\* The loop checks every CHECK_EVERY and carries a check through.
FairSpec ==
    /\ Spec
    /\ \A p \in Processes : WF_vars(Check(p)) /\ WF_vars(BackupStep(p))
    /\ WF_vars(StoreKey)

-----------------------------------------------------------------------------
\* No backup is left in a folder without the key file that opens it: not by
\* pruning, by a change of passphrase, by a failure or crash half way through
\* either.
EveryBackupOpens ==
    \A f \in Folders : \A b \in folder[f].backups : Key(b.instance, b.key) \in folder[f].keys

\* The key backups are made to has its file in the folder they go to; if it
\* had not, no backup could be made before a new passphrase is set.
CurrentKeyIsThere ==
    row.key # Nothing => Key(row.instance, row.key) \in In(row).keys

\* The folder has a backup of the settings that the current passphrase opens.
BackedUp == \E b \in Mine(row) : b.key = row.key /\ b.holds = settings

\* When a check would find the settings unchanged there is a backup of them,
\* also when they were edited while the last one was made.  (Of settings that
\* were restored it is not so: see HashIsTrue.)
UnchangedIsBackedUp ==
    (row.key # Nothing /\ row.hash = settings /\ ~restored) => BackedUp

\* mod.rs: "a backup is made when what matters changed".  The same for settings
\* that were restored.
HashIsTrue == (row.key # Nothing /\ row.hash = settings) => BackedUp

\* Backups are configured and on.
On == row.enabled /\ row.key # Nothing

\* No upload is begun any more: the bound on backups.
Exhausted == Now = {}

\* Edited settings that stay as they are come to be in the folder, in a backup
\* the current passphrase opens: whatever failed, was cut short by a crash, or
\* was made to an earlier key is made again.
Wanted == On /\ ~restored /\ ~Exhausted
EditsAreBackedUp == Wanted ~> (~Wanted \/ BackedUp)

\* The folder holds more than is to be kept.
TooMany == On /\ Cardinality(Mine(row)) > row.keep

\* A lower `keep` is carried out even when nothing changed and though requests
\* fail, once the agent is killed no more.
OwedPruneIsDone == (TooMany /\ pruneDue /\ crashes = MaxCrashes) ~>
    (~TooMany \/ (At("agent", "uploading") /\ Exhausted))

\* mod.rs: "`keep` went down: the next check prunes even when nothing changed."
KeepIsReached == TooMany ~> (~TooMany \/ (At("agent", "uploading") /\ Exhausted))
=============================================================================
