------------------------ MODULE SettingsBackupProofs ------------------------
(***************************************************************************)
(* That no backup is left without the key file that opens it, that the key *)
(* in use has its file, and that settings found unchanged are backed up:   *)
(* for any number of folders, keys, backups, edits, failures and crashes,  *)
(* as long as the agent is the only process that backs up (backup_cli.cfg  *)
(* shows what a second one does) and, for the last, the clock is not set   *)
(* back (backup_clock.cfg).                                                *)
(*                                                                         *)
(* What is deleted was chosen from a listing some steps ago.  It is still  *)
(* right because the lock keeps the row as it was read (Locked), and since *)
(* a key is deleted only after every backup it opens (Doomed).  That the   *)
(* last backup is still there when the settings are found unchanged does   *)
(* not hold of the backup the row names, which may have been pruned for a  *)
(* later one that was uploaded without an answer: it is the newest that    *)
(* holds them (Newest), which pruning never takes.                         *)
(***************************************************************************)
EXTENDS SettingsBackup, FiniteSetTheorems, TLAPS

\* What the agent does under its lock.
agent == op["agent"]

\* A check is under way, its row read and not yet written back.
Busy == agent.pc \in {"listing", "packing", "uploading", "relisting", "pruning"}

\* Nobody else touches the row meanwhile.
Locked ==
    /\ agent.pc # "idle" => row # NoRow
    /\ Busy => agent.stored = row /\ row.key # Nothing
    /\ agent.pc = "keyPut" => Key(row.instance, keys) \in In(row).keys

\* A row names a folder.
Placed == row # NoRow => row.folder \in Folders

\* A key file that will be deleted opens only backups deleted before it.
Doomed ==
    agent.pc = "pruning" =>
        \A k \in agent.unused :
            /\ k.instance = row.instance /\ k.key # row.key
            /\ \A b \in Mine(row) : b.key = k.key => b.at \in agent.surplus

IInv == TypeOK /\ Locked /\ Placed /\ Doomed /\ EveryBackupOpens /\ CurrentKeyIsThere

-----------------------------------------------------------------------------
\* No row, and nothing under way, have their types.
LEMMA IdleType == NoRow \in Row /\ Idle \in Op
<1>1. NoRow \in Row
    BY SettingsBackupAssumption DEF NoRow, Row, OrNothing
<1>2. Idle \in Op
    BY <1>1 DEF Idle, Op, OrNothing
<1> QED BY <1>1, <1>2

\* What a step of the agent does to what it does.
LEMMA AgentIs ==
    ASSUME Processes = {"agent"}, TypeOK, NEW x \in Op, op' = [op EXCEPT !["agent"] = x]
    PROVE  agent' = x /\ op' \in [Processes -> Op]
  BY DEF agent, TypeOK

\* The type of what it does.
LEMMA AgentType ==
    ASSUME TypeOK
    PROVE  agent \in Op
  BY SettingsBackupAssumption DEF agent, TypeOK

\* A failed check.
LEMMA FailedIs ==
    ASSUME NEW x, x = [Idle EXCEPT !.pc = "recording"]
    PROVE  x \in Op /\ x.pc = "recording" /\ x.outcome = "failed" /\ x.digest = 0
<1>1. x.pc = "recording" /\ x.outcome = "failed" /\ x.digest = 0
    BY DEF Idle
<1>2. x \in Op
    BY IdleType DEF Op
<1> QED BY <1>1, <1>2

\* What is surplus or unused is of the folder's contents.
LEMMA ListingType ==
    ASSUME TypeOK, NEW r \in Row, r.folder \in Folders
    PROVE  /\ In(r).backups \in SUBSET Backup /\ In(r).keys \in SUBSET KeyFile
           /\ Mine(r) \in SUBSET Backup
           /\ Surplus(r) \in SUBSET Nat
           /\ Unused(r) \in SUBSET KeyFile
<1>1. In(r).backups \in SUBSET Backup /\ In(r).keys \in SUBSET KeyFile
    BY DEF TypeOK, In
<1>2. Mine(r) \in SUBSET Backup
    BY <1>1 DEF Mine
<1>3. \A b \in Backup : b.at \in Nat
    BY DEF Backup
<1>4. Surplus(r) \in SUBSET Nat
    BY <1>2, <1>3 DEF Surplus
<1>5. Unused(r) \in SUBSET KeyFile
    BY <1>1 DEF Unused
<1> QED BY <1>1, <1>2, <1>4, <1>5

\* A listing settles what is deleted.
LEMMA PruneIs ==
    ASSUME TypeOK, Surplus(row) \in SUBSET Nat, Unused(row) \in SUBSET KeyFile,
           NEW outcome \in {"made", "checked", "failed"}, NEW x,
           x = [agent EXCEPT !.pc = "pruning", !.outcome = outcome, !.same = FALSE, !.holds = 0,
                             !.surplus = Surplus(row), !.unused = Unused(row)]
    PROVE  /\ x \in Op
           /\ x.pc = "pruning" /\ x.outcome = outcome
           /\ x.surplus = Surplus(row) /\ x.unused = Unused(row)
           /\ x.stored = agent.stored /\ x.digest = agent.digest
<1>0. agent \in Op
    BY AgentType
<1>1. /\ x.pc = "pruning" /\ x.outcome = outcome
      /\ x.surplus = Surplus(row) /\ x.unused = Unused(row)
      /\ x.stored = agent.stored /\ x.digest = agent.digest
    BY <1>0 DEF Op
<1>2. x \in Op
    BY <1>0 DEF Op
<1> QED BY <1>1, <1>2

-----------------------------------------------------------------------------
\* A step that leaves the row, the folders and the agent's work alone.
LEMMA Aside ==
    ASSUME IInv, TypeOK', UNCHANGED <<row, folder, op, keys>>
    PROVE  IInv'
  BY DEF IInv, Locked, Placed, Doomed, EveryBackupOpens, CurrentKeyIsThere, Busy, agent, In,
         Mine, Key

\* The row changes while the lock is free, to one whose key is there.
LEMMA RowChanges ==
    ASSUME IInv, TypeOK', agent.pc = "idle", UNCHANGED <<folder, op>>, Placed',
           row'.key # Nothing => Key(row'.instance, row'.key) \in folder[row'.folder].keys
    PROVE  IInv'
<1>1. agent' = agent
    BY DEF agent
<1>2. Locked' /\ Doomed'
    BY <1>1 DEF Locked, Doomed, Busy
<1>3. EveryBackupOpens' /\ CurrentKeyIsThere'
    BY DEF IInv, EveryBackupOpens, CurrentKeyIsThere, In, Key
<1> QED BY <1>2, <1>3 DEF IInv

\* The agent goes on with its check, or ends it, and has deleted nothing yet.
LEMMA AgentGoesOn ==
    ASSUME IInv, TypeOK', UNCHANGED <<row, folder>>, agent'.pc # "keyPut",
           agent'.pc # "idle" => row # NoRow,
           Busy' => agent'.stored = row /\ row.key # Nothing,
           agent'.pc = "pruning" => agent'.surplus = Surplus(row) /\ agent'.unused = Unused(row)
    PROVE  IInv'
<1>1. Locked' /\ Placed'
    BY DEF IInv, Locked, Placed
<1>2. EveryBackupOpens' /\ CurrentKeyIsThere'
    BY DEF IInv, EveryBackupOpens, CurrentKeyIsThere, In, Key
<1>3. Mine(row)' = Mine(row)
    BY DEF Mine, In
<1>4. Doomed'
    BY <1>3 DEF Doomed, Unused
<1> QED BY <1>1, <1>2, <1>4 DEF IInv

\* A row that is there names a folder, which is the one of the check.
LEMMA BusyPlaced ==
    ASSUME IInv, Busy
    PROVE  /\ row \in Row /\ row # NoRow /\ row.folder \in Folders
           /\ agent.stored = row /\ row.key \in Nat
           /\ Key(row.instance, row.key) \in folder[row.folder].keys
<1>1. row \in Row /\ row # NoRow /\ row.folder \in Folders
    BY DEF IInv, Locked, Placed, Busy, TypeOK
<1>2. agent.stored = row /\ row.key # Nothing
    BY DEF IInv, Locked
<1>3. row.key \in Nat
    BY <1>1, <1>2 DEF Row, OrNothing
<1>4. Key(row.instance, row.key) \in folder[row.folder].keys
    BY <1>2 DEF IInv, CurrentKeyIsThere, In
<1> QED BY <1>1, <1>2, <1>3, <1>4

-----------------------------------------------------------------------------
\* The operator's steps that change neither row nor folder.
LEMMA SettingsStep ==
    ASSUME IInv, Edit \/ Restore \/ DayPasses \/ RunNow \/ CheckNotSet \/ UNCHANGED vars
    PROVE  IInv'
<1> USE DEF operatorVars
<1>1. UNCHANGED <<row, folder, op, keys>>
    BY Zenon DEF Edit, Restore, DayPasses, RunNow, CheckNotSet, vars
<1>2. CASE Edit
  <2>1. settings' \in Nat /\ edits' \in Nat
    BY <1>2 DEF Edit, IInv, TypeOK
  <2>2. restored' \in BOOLEAN
    BY <1>2 DEF Edit
  <2>3. TypeOK'
    BY <1>1, <1>2, <2>1, <2>2, Zenon DEF Edit, IInv, TypeOK
  <2> QED BY <1>1, <2>3, Aside
<1>3. CASE Restore
  <2>1. \A f \in Folders : \A b \in Readable(f) : b.holds \in Nat
    BY DEF IInv, TypeOK, Readable, Backup
  <2>2. settings' \in Nat
    BY <1>3, <2>1 DEF Restore
  <2>3. TypeOK'
    BY <1>1, <1>3, <2>2 DEF Restore, IInv, TypeOK
  <2> QED BY <1>1, <2>3, Aside
<1>4. CASE DayPasses \/ RunNow \/ CheckNotSet
  <2>1. TypeOK'
    BY <1>1, <1>4 DEF DayPasses, RunNow, CheckNotSet, IInv, TypeOK
  <2> QED BY <1>1, <2>1, Aside
<1>5. CASE UNCHANGED vars
  <2>1. TypeOK'
    BY <1>5 DEF vars, IInv, TypeOK
  <2> QED BY <1>1, <2>1, Aside
<1> QED BY <1>2, <1>3, <1>4, <1>5

\* What a backup of the settings is looked for by stays the same.
SameRow ==
    /\ row'.instance = row.instance /\ row'.folder = row.folder
    /\ row'.key = row.key /\ row'.hash = row.hash

\* Backups configured, moved, taken over from another machine or given up: the
\* row stays as far as backups are concerned, or starts without a hash.
LEMMA RowStep ==
    ASSUME IInv, Adopt \/ SetSettings \/ Configure \/ RemoveSettings
    PROVE  IInv' /\ (SameRow \/ row'.hash = Nothing)
<1> USE DEF operatorVars
<1>0. UNCHANGED <<folder, op>> /\ TypeOK
    BY DEF Adopt, SetSettings, Configure, RemoveSettings, IInv
<1>1. agent.pc = "idle"
    BY DEF Adopt, SetSettings, Configure, RemoveSettings, Free, IInv, Locked, agent
<1>2. CASE Adopt
  <2>1. PICK f \in Folders : \E b \in Readable(f) :
            /\ settings' = b.holds
            /\ row' = [NoRow EXCEPT !.instance = b.instance, !.folder = f, !.enabled = TRUE,
                                    !.keep = MaxKeep, !.key = b.key]
    BY <1>2, Zenon DEF Adopt
  <2>2. PICK b \in Readable(f) :
            /\ settings' = b.holds
            /\ row' = [NoRow EXCEPT !.instance = b.instance, !.folder = f, !.enabled = TRUE,
                                    !.keep = MaxKeep, !.key = b.key]
    BY <2>1, Zenon
  <2>3. b \in Backup /\ Key(b.instance, b.key) \in folder[f].keys
    BY <1>0 DEF Readable, TypeOK
  <2>4. row'.instance = b.instance /\ row'.folder = f /\ row'.key = b.key /\ row'.hash = Nothing
    BY <2>2 DEF NoRow
  <2>5. row' \in Row
    <3>1. b.instance \in Nat /\ b.key \in OrNothing /\ MaxKeep \in 1 .. MaxKeep
      BY <2>3, SettingsBackupAssumption DEF Backup, OrNothing
    <3> QED BY <2>2, <3>1, IdleType DEF Row
  <2>6. settings' \in Nat
    BY <2>2, <2>3 DEF Backup
  <2>7. TypeOK'
    BY <1>0, <1>2, <2>5, <2>6 DEF Adopt, TypeOK
  <2> QED BY <1>0, <1>1, <2>3, <2>4, <2>7, RowChanges DEF Placed
<1>3. CASE SetSettings
  <2>1. PICK f \in Folders, on \in BOOLEAN, keep \in 1 .. MaxKeep :
            /\ row' = Moved(f, on, keep)
            /\ pruneDue' = (pruneDue \/ (row.folder = f /\ keep < row.keep))
    BY <1>3, Zenon DEF SetSettings
  <2>2. pruneDue' \in BOOLEAN
    BY <1>0, <2>1, Zenon DEF TypeOK
  <2>3. CASE row.folder = f
    <3>1. row' = [row EXCEPT !.enabled = on, !.keep = keep]
      BY <2>1, <2>3, Zenon DEF Moved
    <3>2. row' \in Row /\ SameRow
      BY <1>0, <2>3, <3>1 DEF TypeOK, Row, SameRow
    <3>3. TypeOK'
      BY <1>0, <1>3, <2>2, <3>2 DEF SetSettings, TypeOK
    <3> QED BY <1>0, <1>1, <2>3, <3>2, <3>3, RowChanges
            DEF IInv, Placed, CurrentKeyIsThere, In, SameRow
  <2>4. CASE row.folder # f
    <3>1. row' = [NoRow EXCEPT !.instance = row.instance, !.folder = f, !.enabled = on,
                               !.keep = keep]
      BY <2>1, <2>4, Zenon DEF Moved
    <3>2. row'.folder = f /\ row'.key = Nothing /\ row'.hash = Nothing
      BY <3>1 DEF NoRow
    <3>3. row' \in Row
      BY <1>0, <3>1, IdleType DEF TypeOK, Row
    <3>4. TypeOK'
      BY <1>0, <1>3, <2>2, <3>3 DEF SetSettings, TypeOK
    <3> QED BY <1>0, <1>1, <3>2, <3>4, RowChanges DEF Placed
  <2> QED BY <2>3, <2>4
<1>4. CASE Configure
  <2>1. PICK f \in Folders, keep \in 1 .. MaxKeep :
            row' = [NoRow EXCEPT !.instance = instances + 1, !.folder = f, !.enabled = TRUE,
                                 !.keep = keep]
    BY <1>4, Zenon DEF Configure
  <2>2. row'.folder = f /\ row'.key = Nothing /\ row'.hash = Nothing
    BY <2>1 DEF NoRow
  <2>3. row' \in Row
    <3>1. instances + 1 \in Nat
      BY <1>0 DEF TypeOK
    <3> QED BY <2>1, <3>1, IdleType DEF Row
  <2>4. instances' \in Nat
    <3>1. instances' = instances + 1
      BY <1>4, Zenon DEF Configure
    <3> QED BY <1>0, <3>1 DEF TypeOK
  <2>5. TypeOK'
    BY <1>0, <1>4, <2>3, <2>4, Zenon DEF Configure, TypeOK
  <2> QED BY <1>0, <1>1, <2>2, <2>5, RowChanges DEF Placed
<1>5. CASE RemoveSettings
  <2>1. row' = NoRow /\ row'.key = Nothing /\ row'.hash = Nothing
    BY <1>5 DEF RemoveSettings, NoRow
  <2>2. TypeOK'
    BY <1>0, <1>5, IdleType DEF RemoveSettings, TypeOK
  <2> QED BY <1>0, <1>1, <2>1, <2>2, RowChanges DEF Placed
<1> QED BY <1>2, <1>3, <1>4, <1>5

-----------------------------------------------------------------------------
\* set_key puts the new key's file and removes nothing.
LEMMA PutKeyIs ==
    ASSUME Processes = {"agent"}, IInv, PutKey
    PROVE  /\ TypeOK' /\ row' = row /\ agent.pc = "idle" /\ row.folder \in Folders
           /\ \A f \in Folders : /\ folder'[f].backups = folder[f].backups
                                 /\ folder[f].keys \subseteq folder'[f].keys
           /\ \/ op' = op
              \/ /\ agent'.pc = "keyPut" /\ agent'.digest = 0
                 /\ Key(row.instance, keys') \in folder'[row.folder].keys
<1> USE DEF operatorVars
<1>0. /\ TypeOK /\ row' = row /\ agent.pc = "idle" /\ row.folder \in Folders /\ row \in Row
      /\ keys' = keys + 1 /\ keys' \in Nat
    BY DEF PutKey, IInv, Free, agent, Placed, TypeOK
<1>1. PICK landed \in BOOLEAN, answered \in BOOLEAN :
        /\ IF landed
           THEN folder' = [folder EXCEPT ![row.folder].keys = @ \cup {Key(row.instance, keys + 1)}]
           ELSE UNCHANGED folder
        /\ IF answered
           THEN landed /\ NoFault /\ op' = [op EXCEPT !["agent"] = [Idle EXCEPT !.pc = "keyPut"]]
           ELSE Fault /\ UNCHANGED op
    BY Zenon DEF PutKey
<1>2. Key(row.instance, keys') \in KeyFile
    BY <1>0 DEF Key, KeyFile, Row
<1>3. /\ folder' \in [Folders -> [backups : SUBSET Backup, keys : SUBSET KeyFile]]
      /\ \A f \in Folders : /\ folder'[f].backups = folder[f].backups
                            /\ folder[f].keys \subseteq folder'[f].keys
  <2>1. CASE landed
    <3>1. folder' = [folder EXCEPT ![row.folder].keys = @ \cup {Key(row.instance, keys')}]
      BY <1>0, <1>1, <2>1
    <3> QED BY <1>0, <1>2, <3>1 DEF TypeOK
  <2>2. CASE ~landed
    BY <1>0, <1>1, <2>2 DEF TypeOK
  <2> QED BY <2>1, <2>2
<1>4. faults' \in Nat
    BY <1>0, <1>1 DEF Fault, NoFault, TypeOK
<1>5. CASE answered
  <2>1. PICK x : x = [Idle EXCEPT !.pc = "keyPut"]
    OBVIOUS
  <2>2. op' = [op EXCEPT !["agent"] = x]
    BY <1>1, <1>5, <2>1, Zenon
  <2>3. x.pc = "keyPut" /\ x.digest = 0
    BY <2>1 DEF Idle
  <2>4. x \in Op
    BY <2>1, IdleType DEF Op
  <2>5. agent' = x /\ op' \in [Processes -> Op]
    BY <1>0, <2>2, <2>4, AgentIs
  <2>6. Key(row.instance, keys') \in folder'[row.folder].keys
    BY <1>0, <1>1, <1>5 DEF TypeOK
  <2>7. TypeOK'
    BY <1>0, <1>3, <1>4, <2>5, Zenon DEF PutKey, TypeOK
  <2> QED BY <1>0, <1>3, <2>3, <2>5, <2>6, <2>7
<1>6. CASE ~answered
  <2>1. op' = op
    BY <1>1, <1>6
  <2>2. TypeOK'
    BY <1>0, <1>3, <1>4, <2>1, Zenon DEF PutKey, TypeOK
  <2> QED BY <1>0, <1>3, <2>1, <2>2
<1> QED BY <1>5, <1>6

\* ... and stores it with the row, which then has no hash.
LEMMA StoreKeyIs ==
    ASSUME Processes = {"agent"}, IInv, StoreKey
    PROVE  /\ TypeOK' /\ folder' = folder /\ agent' = Idle
           /\ row # NoRow /\ agent.pc = "keyPut"
           /\ row'.instance = row.instance /\ row'.folder = row.folder
           /\ row'.key = keys /\ row'.hash = Nothing
<1> USE DEF operatorVars
<1>0. /\ TypeOK /\ agent.pc = "keyPut" /\ row # NoRow /\ row \in Row /\ keys \in Nat
      /\ folder' = folder
    BY DEF StoreKey, At, agent, IInv, Locked, TypeOK
<1>1. row' = [row EXCEPT !.key = keys, !.hash = Nothing]
    BY <1>0, Zenon DEF StoreKey
<1>2. agent' = Idle /\ op' \in [Processes -> Op]
    BY <1>0, AgentIs, IdleType DEF StoreKey
<1>3. /\ row'.instance = row.instance /\ row'.folder = row.folder
      /\ row'.key = keys /\ row'.hash = Nothing
    BY <1>0, <1>1 DEF Row
<1>4. row' \in Row
    BY <1>0, <1>1 DEF Row, OrNothing
<1>5. forced' \in BOOLEAN
    BY DEF StoreKey
<1>6. TypeOK'
    BY <1>0, <1>2, <1>4, <1>5, Zenon DEF StoreKey, TypeOK
<1> QED BY <1>0, <1>2, <1>3, <1>6

\* The new key keeps the invariant.
LEMMA KeyStep ==
    ASSUME Processes = {"agent"}, IInv, PutKey \/ StoreKey
    PROVE  IInv'
<1>1. CASE PutKey
  <2>1. EveryBackupOpens' /\ CurrentKeyIsThere'
    <3>1. row.key # Nothing => row.folder \in Folders
      BY <1>1, PutKeyIs
    <3> QED BY <1>1, <3>1, PutKeyIs DEF IInv, EveryBackupOpens, CurrentKeyIsThere, In, Key
  <2>2. Placed' /\ row # NoRow
    BY <1>1, PutKeyIs DEF PutKey, IInv, Placed
  <2>3. CASE op' = op
    BY <1>1, <2>1, <2>2, <2>3, PutKeyIs DEF IInv, Locked, Doomed, Busy, agent
  <2>4. CASE agent'.pc = "keyPut" /\ Key(row.instance, keys') \in folder'[row.folder].keys
    <3>1. Locked'
      BY <1>1, <2>2, <2>4, PutKeyIs DEF Locked, Busy, In, Key
    <3>2. Doomed'
      BY <2>4 DEF Doomed
    <3> QED BY <1>1, <2>1, <2>2, <3>1, <3>2, PutKeyIs DEF IInv
  <2> QED BY <1>1, <2>3, <2>4, PutKeyIs
<1>2. CASE StoreKey
  <2>1. Placed'
    BY <1>2, StoreKeyIs DEF IInv, Placed
  <2>2. agent'.pc = "idle"
    BY <1>2, StoreKeyIs DEF Idle
  <2>3. Locked' /\ Doomed'
    BY <2>2 DEF Locked, Doomed, Busy
  <2>4. CurrentKeyIsThere'
    BY <1>2, StoreKeyIs DEF IInv, Locked, CurrentKeyIsThere, In, Key
  <2>5. EveryBackupOpens'
    BY <1>2, StoreKeyIs DEF IInv, EveryBackupOpens, Key
  <2> QED BY <1>2, <2>1, <2>3, <2>4, <2>5, StoreKeyIs DEF IInv
<1> QED BY <1>1, <1>2

-----------------------------------------------------------------------------
\* A check begins with the row and the settings as they are.
LEMMA CheckIs ==
    ASSUME Processes = {"agent"}, IInv, Check("agent")
    PROVE  /\ TypeOK' /\ row' = row /\ folder' = folder /\ agent.pc = "idle"
           /\ row # NoRow /\ row.key # Nothing
           /\ agent'.pc = "listing" /\ agent'.stored = row /\ agent'.digest = settings
<1> USE DEF operatorVars
<1>0. /\ TypeOK /\ row' = row /\ folder' = folder /\ agent.pc = "idle" /\ row.key # Nothing
      /\ row.enabled /\ row \in Row /\ settings \in Nat
    BY Zenon DEF Check, Free, agent, IInv, TypeOK
<1>1. row # NoRow
    BY <1>0 DEF NoRow
<1>2. PICK force \in BOOLEAN, same \in BOOLEAN :
        op' = [op EXCEPT !["agent"] = [Idle EXCEPT !.pc = "listing", !.stored = row,
                  !.force = force, !.same = same, !.digest = settings]]
  <2>1. ("agent" = "cli" \/ forced) \in BOOLEAN /\ Unchanged(row) \in BOOLEAN
    BY DEF Unchanged
  <2> QED BY <2>1, Zenon DEF Check
<1>3. PICK x : x = [Idle EXCEPT !.pc = "listing", !.stored = row, !.force = force,
                                !.same = same, !.digest = settings]
    OBVIOUS
<1>4. x.pc = "listing" /\ x.stored = row /\ x.digest = settings
    BY <1>3 DEF Idle
<1>5. x \in Op
    BY <1>0, <1>3, IdleType DEF Op
<1>6. agent' = x /\ op' \in [Processes -> Op]
    BY <1>0, <1>2, <1>3, <1>5, AgentIs
<1>7. forced' \in BOOLEAN /\ pruneDue' \in BOOLEAN
    BY Zenon DEF Check
<1>8. TypeOK'
    BY <1>0, <1>6, <1>7, Zenon DEF Check, TypeOK
<1> QED BY <1>0, <1>1, <1>4, <1>6, <1>8

\* A listing is answered: the agent prunes, packs, or gives up.
LEMMA ListIs ==
    ASSUME Processes = {"agent"}, IInv, List("agent")
    PROVE  /\ TypeOK' /\ row' = row /\ folder' = folder /\ agent.pc = "listing"
           /\ \/ /\ agent'.pc = "pruning" /\ agent'.outcome = "checked"
                 /\ agent'.surplus = Surplus(row) /\ agent'.unused = Unused(row)
                 /\ agent'.stored = row /\ agent'.digest = agent.digest
              \/ /\ agent'.pc = "packing"
                 /\ agent'.stored = row /\ agent'.digest = agent.digest
              \/ agent'.pc = "recording" /\ agent'.outcome = "failed" /\ agent'.digest = 0
<1> USE DEF operatorVars
<1>0. /\ TypeOK /\ row' = row /\ folder' = folder /\ agent.pc = "listing" /\ Busy
      /\ agent \in Op
    BY AgentType DEF List, At, agent, IInv, Busy
<1>1. agent.stored = row /\ row \in Row /\ row.folder \in Folders
    BY <1>0, BusyPlaced
<1>2. Surplus(row) \in SUBSET Nat /\ Unused(row) \in SUBSET KeyFile
    BY <1>0, <1>1, ListingType
<1>3. faults' \in Nat
    BY <1>0 DEF List, Fault, NoFault, TypeOK
<1>4. ASSUME NEW x \in Op, op' = [op EXCEPT !["agent"] = x]
      PROVE  agent' = x /\ TypeOK'
  <2>1. agent' = x /\ op' \in [Processes -> Op]
    BY <1>0, <1>4, AgentIs
  <2> QED BY <1>0, <1>3, <2>1, Zenon DEF List, TypeOK
<1>5. CASE op' = [op EXCEPT !["agent"] = Failed("agent")]
  <2>1. PICK x : x = [Idle EXCEPT !.pc = "recording"]
    OBVIOUS
  <2>2. op' = [op EXCEPT !["agent"] = x]
    BY <1>5, <2>1, Zenon DEF Failed
  <2> QED BY <1>0, <1>4, <2>1, <2>2, FailedIs
<1>6. CASE op' = [op EXCEPT !["agent"] = Prune("agent", "checked")]
  <2>1. PICK x : x = [agent EXCEPT !.pc = "pruning", !.outcome = "checked", !.same = FALSE,
                          !.holds = 0, !.surplus = Surplus(row), !.unused = Unused(row)]
    OBVIOUS
  <2>2. op' = [op EXCEPT !["agent"] = x]
    BY <1>1, <1>6, <2>1, Zenon DEF Prune, agent
  <2>3. /\ x \in Op /\ x.pc = "pruning" /\ x.outcome = "checked"
        /\ x.surplus = Surplus(row) /\ x.unused = Unused(row)
        /\ x.stored = agent.stored /\ x.digest = agent.digest
    <3>1. "checked" \in {"made", "checked", "failed"}
      OBVIOUS
    <3> QED BY <1>0, <1>2, <2>1, <3>1, PruneIs, Zenon
  <2> QED BY <1>0, <1>1, <1>4, <2>2, <2>3
<1>7. CASE op' = [op EXCEPT !["agent"] = [op["agent"] EXCEPT !.pc = "packing", !.force = FALSE,
                                                             !.same = FALSE]]
  <2>1. PICK x : x = [agent EXCEPT !.pc = "packing", !.force = FALSE, !.same = FALSE]
    OBVIOUS
  <2>2. op' = [op EXCEPT !["agent"] = x]
    BY <1>7, <2>1, Zenon DEF agent
  <2>3. x.pc = "packing" /\ x.stored = agent.stored /\ x.digest = agent.digest
    BY <1>0, <2>1 DEF Op
  <2>4. x \in Op
    BY <1>0, <2>1 DEF Op
  <2> QED BY <1>0, <1>1, <1>4, <2>2, <2>3, <2>4
<1>8. \/ Listed("agent") = Failed("agent")
      \/ Listed("agent") = Prune("agent", "checked")
      \/ Listed("agent") = [op["agent"] EXCEPT !.pc = "packing", !.force = FALSE, !.same = FALSE]
    BY Zenon DEF Listed
<1> QED BY <1>5, <1>6, <1>7, <1>8, Zenon DEF List

\* The settings are packed as they are then.
LEMMA PackIs ==
    ASSUME Processes = {"agent"}, IInv, Pack("agent")
    PROVE  /\ TypeOK' /\ row' = row /\ folder' = folder /\ agent.pc = "packing"
           /\ agent'.pc = "uploading" /\ agent'.holds = settings
           /\ agent'.stored = row /\ agent'.digest = agent.digest
<1> USE DEF operatorVars
<1>0. /\ TypeOK /\ row' = row /\ folder' = folder /\ agent.pc = "packing" /\ Busy
      /\ agent \in Op /\ settings \in Nat
    BY AgentType DEF Pack, At, agent, IInv, Busy, TypeOK
<1>1. agent.stored = row
    BY <1>0, BusyPlaced
<1>2. PICK x : x = [agent EXCEPT !.pc = "uploading", !.holds = settings]
    OBVIOUS
<1>3. op' = [op EXCEPT !["agent"] = x]
    BY <1>0, <1>2 DEF Pack, agent, TypeOK
<1>4. /\ x.pc = "uploading" /\ x.holds = settings /\ x.stored = agent.stored
      /\ x.digest = agent.digest
    BY <1>0, <1>2 DEF Op
<1>5. x \in Op
    BY <1>0, <1>2 DEF Op
<1>6. agent' = x /\ op' \in [Processes -> Op]
    BY <1>0, <1>3, <1>5, AgentIs
<1>7. TypeOK'
    BY <1>0, <1>6, Zenon DEF Pack, TypeOK
<1> QED BY <1>0, <1>1, <1>4, <1>6, <1>7

\* Or they are not, and that is recorded.
LEMMA PackFailsIs ==
    ASSUME Processes = {"agent"}, IInv, PackFails("agent")
    PROVE  /\ TypeOK' /\ row' = row /\ folder' = folder /\ agent.pc = "packing"
           /\ agent'.pc = "recording" /\ agent'.outcome = "failed" /\ agent'.digest = 0
<1> USE DEF operatorVars
<1>0. /\ TypeOK /\ row' = row /\ folder' = folder /\ agent.pc = "packing"
      /\ agent \in Op /\ faults' \in Nat
    BY AgentType DEF PackFails, Fault, At, agent, IInv, TypeOK
<1>1. PICK x : x = [Idle EXCEPT !.pc = "recording"]
    OBVIOUS
<1>2. op' = [op EXCEPT !["agent"] = x]
    BY <1>1, Zenon DEF PackFails, Failed
<1>3. x \in Op /\ x.pc = "recording" /\ x.outcome = "failed" /\ x.digest = 0
    BY <1>1, FailedIs
<1>4. agent' = x /\ op' \in [Processes -> Op]
    BY <1>0, <1>2, <1>3, AgentIs
<1>5. TypeOK'
    BY <1>0, <1>4, Zenon DEF PackFails, TypeOK
<1> QED BY <1>0, <1>3, <1>4, <1>5

\* A backup is uploaded, later than any before it: to the folder and the key of
\* the row, with what was packed.
LEMMA UploadIs ==
    ASSUME Processes = {"agent"}, IInv, Upload("agent")
    PROVE  /\ TypeOK' /\ row' = row /\ agent.pc = "uploading"
           /\ \E t \in Now, b \in Backup :
               /\ b.at = t /\ b.instance = row.instance /\ b.key = row.key
               /\ b.holds = agent.holds
               /\ times' = times \cup {t}
               /\ \A f \in Folders : folder'[f].keys = folder[f].keys
               /\ \A f \in Folders : f # row.folder => folder'[f].backups = folder[f].backups
               /\ \/ /\ folder'[row.folder].backups = folder[row.folder].backups \cup {b}
                     /\ \/ /\ agent'.pc = "relisting" /\ agent'.stored = row
                           /\ agent'.digest = agent.digest
                        \/ /\ agent'.pc = "recording" /\ agent'.outcome = "failed"
                           /\ agent'.digest = 0
                  \/ /\ folder' = folder
                     /\ agent'.pc = "recording" /\ agent'.outcome = "failed"
                     /\ agent'.digest = 0
<1> USE DEF operatorVars
<1>0. TypeOK /\ row' = row /\ agent.pc = "uploading" /\ Busy /\ agent \in Op
    BY AgentType DEF Upload, At, agent, IInv, Busy
<1>1. agent.stored = row /\ row \in Row /\ row.folder \in Folders /\ row.key \in Nat
    BY <1>0, BusyPlaced
<1>2. PICK t \in Now, landed \in BOOLEAN, answered \in BOOLEAN :
        /\ times' = times \cup {t}
        /\ IF landed
           THEN folder' = [folder EXCEPT ![row.folder].backups = @ \cup
                    {[at |-> t, instance |-> row.instance, key |-> row.key, holds |-> agent.holds]}]
           ELSE UNCHANGED folder
        /\ IF answered
           THEN landed /\ NoFault
                /\ op' = [op EXCEPT !["agent"].pc = "relisting", !["agent"].name = t]
           ELSE Fault /\ op' = [op EXCEPT !["agent"] = Failed("agent")]
    BY <1>1, Zenon DEF Upload, agent
<1>3. t \in Nat
    BY SettingsBackupAssumption DEF Now, Times
<1>4. PICK b : b = [at |-> t, instance |-> row.instance, key |-> row.key, holds |-> agent.holds]
    OBVIOUS
<1>5. /\ b \in Backup /\ b.at = t /\ b.instance = row.instance /\ b.key = row.key
      /\ b.holds = agent.holds
    BY <1>0, <1>1, <1>3, <1>4 DEF Backup, Row, Op
<1>6. /\ folder' \in [Folders -> [backups : SUBSET Backup, keys : SUBSET KeyFile]]
      /\ \A f \in Folders : folder'[f].keys = folder[f].keys
      /\ \A f \in Folders : f # row.folder => folder'[f].backups = folder[f].backups
      /\ landed => folder'[row.folder].backups = folder[row.folder].backups \cup {b}
      /\ ~landed => folder' = folder
  <2>1. CASE landed
    <3>1. folder' = [folder EXCEPT ![row.folder].backups = @ \cup {b}]
      BY <1>2, <1>4, <2>1, Zenon
    <3> QED BY <1>0, <1>1, <1>5, <2>1, <3>1 DEF TypeOK
  <2>2. CASE ~landed
    BY <1>0, <1>2, <2>2 DEF TypeOK
  <2> QED BY <2>1, <2>2
<1>7. faults' \in Nat /\ times' \in SUBSET Nat
    BY <1>0, <1>2, <1>3 DEF Fault, NoFault, TypeOK
<1>8. ASSUME NEW x \in Op, op' = [op EXCEPT !["agent"] = x]
      PROVE  agent' = x /\ TypeOK'
  <2>1. agent' = x /\ op' \in [Processes -> Op]
    BY <1>0, <1>8, AgentIs
  <2> QED BY <1>0, <1>6, <1>7, <2>1, Zenon DEF Upload, TypeOK
<1>9. CASE answered
  <2>1. PICK x : x = [agent EXCEPT !.pc = "relisting", !.name = t]
    OBVIOUS
  <2>2. op' = [op EXCEPT !["agent"] = x]
    BY <1>0, <1>2, <1>9, <2>1 DEF agent, TypeOK
  <2>3. x.pc = "relisting" /\ x.stored = agent.stored /\ x.digest = agent.digest
    BY <1>0, <2>1 DEF Op
  <2>4. x \in Op
    BY <1>0, <1>3, <2>1 DEF Op, OrNothing
  <2>5. landed
    BY <1>2, <1>9
  <2> QED BY <1>0, <1>1, <1>2, <1>5, <1>6, <1>8, <2>2, <2>3, <2>4, <2>5
<1>10. CASE ~answered
  <2>1. PICK x : x = [Idle EXCEPT !.pc = "recording"]
    OBVIOUS
  <2>2. op' = [op EXCEPT !["agent"] = x]
    BY <1>2, <1>10, <2>1, Zenon DEF Failed
  <2>3. x \in Op /\ x.pc = "recording" /\ x.outcome = "failed" /\ x.digest = 0
    BY <2>1, FailedIs
  <2> QED BY <1>0, <1>1, <1>2, <1>5, <1>6, <1>8, <2>2, <2>3
<1> QED BY <1>9, <1>10

\* The upload is found, or not.
LEMMA RelistIs ==
    ASSUME Processes = {"agent"}, IInv, Relist("agent")
    PROVE  /\ TypeOK' /\ row' = row /\ folder' = folder /\ agent.pc = "relisting"
           /\ \/ /\ agent'.pc = "pruning" /\ agent'.outcome = "made"
                 /\ agent'.surplus = Surplus(row) /\ agent'.unused = Unused(row)
                 /\ agent'.stored = row /\ agent'.digest = agent.digest
              \/ agent'.pc = "recording" /\ agent'.outcome = "failed" /\ agent'.digest = 0
<1> USE DEF operatorVars
<1>0. /\ TypeOK /\ row' = row /\ folder' = folder /\ agent.pc = "relisting" /\ Busy
      /\ agent \in Op
    BY AgentType DEF Relist, At, agent, IInv, Busy
<1>1. agent.stored = row /\ row \in Row /\ row.folder \in Folders
    BY <1>0, BusyPlaced
<1>2. Surplus(row) \in SUBSET Nat /\ Unused(row) \in SUBSET KeyFile
    BY <1>0, <1>1, ListingType
<1>3. faults' \in Nat
    BY <1>0 DEF Relist, Fault, NoFault, TypeOK
<1>4. ASSUME NEW x \in Op, op' = [op EXCEPT !["agent"] = x]
      PROVE  agent' = x /\ TypeOK'
  <2>1. agent' = x /\ op' \in [Processes -> Op]
    BY <1>0, <1>4, AgentIs
  <2> QED BY <1>0, <1>3, <2>1, Zenon DEF Relist, TypeOK
<1>5. CASE op' = [op EXCEPT !["agent"] = Failed("agent")]
  <2>1. PICK x : x = [Idle EXCEPT !.pc = "recording"]
    OBVIOUS
  <2>2. op' = [op EXCEPT !["agent"] = x]
    BY <1>5, <2>1, Zenon DEF Failed
  <2> QED BY <1>0, <1>4, <2>1, <2>2, FailedIs
<1>6. CASE op' = [op EXCEPT !["agent"] = Prune("agent", "made")]
  <2>1. PICK x : x = [agent EXCEPT !.pc = "pruning", !.outcome = "made", !.same = FALSE,
                          !.holds = 0, !.surplus = Surplus(row), !.unused = Unused(row)]
    OBVIOUS
  <2>2. op' = [op EXCEPT !["agent"] = x]
    BY <1>1, <1>6, <2>1, Zenon DEF Prune, agent
  <2>3. /\ x \in Op /\ x.pc = "pruning" /\ x.outcome = "made"
        /\ x.surplus = Surplus(row) /\ x.unused = Unused(row)
        /\ x.stored = agent.stored /\ x.digest = agent.digest
    <3>1. "made" \in {"made", "checked", "failed"}
      OBVIOUS
    <3> QED BY <1>0, <1>2, <2>1, <3>1, PruneIs, Zenon
  <2> QED BY <1>0, <1>1, <1>4, <2>2, <2>3
<1> QED BY <1>5, <1>6, Zenon DEF Relist

\* A surplus backup is deleted.
LEMMA PruneBackupIs ==
    ASSUME Processes = {"agent"}, IInv, PruneBackup("agent")
    PROVE  /\ TypeOK' /\ row' = row /\ agent.pc = "pruning"
           /\ agent'.pc = "pruning" /\ agent'.stored = row /\ agent'.digest = agent.digest
           /\ agent'.outcome = agent.outcome /\ agent'.unused = agent.unused
           /\ \E t \in agent.surplus :
               /\ agent'.surplus = agent.surplus \ {t}
               /\ \A f \in Folders : folder'[f].keys = folder[f].keys
               /\ \A f \in Folders : f # row.folder => folder'[f].backups = folder[f].backups
               /\ folder'[row.folder].backups = {b \in folder[row.folder].backups : b.at # t}
<1> USE DEF operatorVars
<1>0. TypeOK /\ row' = row /\ agent.pc = "pruning" /\ Busy /\ agent \in Op
    BY AgentType DEF PruneBackup, At, agent, IInv, Busy
<1>1. agent.stored = row /\ row.folder \in Folders
    BY <1>0, BusyPlaced
<1>2. PICK t \in agent.surplus :
        /\ op' = [op EXCEPT !["agent"].surplus = @ \ {t}]
        /\ folder' = [folder EXCEPT ![row.folder].backups = {b \in @ : b.at # t}]
    BY <1>1, Zenon DEF PruneBackup, agent
<1>3. PICK x : x = [agent EXCEPT !.surplus = agent.surplus \ {t}]
    OBVIOUS
<1>4. op' = [op EXCEPT !["agent"] = x]
    BY <1>0, <1>2, <1>3 DEF agent, TypeOK
<1>5. /\ x.pc = agent.pc /\ x.stored = agent.stored /\ x.digest = agent.digest
      /\ x.outcome = agent.outcome /\ x.unused = agent.unused
      /\ x.surplus = agent.surplus \ {t}
    BY <1>0, <1>3 DEF Op
<1>6. x \in Op
    BY <1>0, <1>3 DEF Op
<1>7. agent' = x /\ op' \in [Processes -> Op]
    BY <1>0, <1>4, <1>6, AgentIs
<1>8. /\ folder' \in [Folders -> [backups : SUBSET Backup, keys : SUBSET KeyFile]]
      /\ \A f \in Folders : folder'[f].keys = folder[f].keys
      /\ \A f \in Folders : f # row.folder => folder'[f].backups = folder[f].backups
      /\ folder'[row.folder].backups = {b \in folder[row.folder].backups : b.at # t}
    BY <1>0, <1>1, <1>2 DEF TypeOK
<1>9. TypeOK'
    BY <1>0, <1>7, <1>8, Zenon DEF PruneBackup, NoFault, TypeOK
<1> QED BY <1>0, <1>1, <1>5, <1>7, <1>8, <1>9

\* Once they are, an unused key file is.
LEMMA PruneKeyIs ==
    ASSUME Processes = {"agent"}, IInv, PruneKey("agent")
    PROVE  /\ TypeOK' /\ row' = row /\ agent.pc = "pruning" /\ agent.surplus = {}
           /\ agent'.pc = "pruning" /\ agent'.stored = row /\ agent'.digest = agent.digest
           /\ agent'.outcome = agent.outcome /\ agent'.surplus = {}
           /\ \E k \in agent.unused :
               /\ agent'.unused = agent.unused \ {k}
               /\ \A f \in Folders : folder'[f].backups = folder[f].backups
               /\ \A f \in Folders : f # row.folder => folder'[f].keys = folder[f].keys
               /\ folder'[row.folder].keys = folder[row.folder].keys \ {k}
<1> USE DEF operatorVars
<1>0. TypeOK /\ row' = row /\ agent.pc = "pruning" /\ Busy /\ agent \in Op /\ agent.surplus = {}
    BY AgentType DEF PruneKey, At, agent, IInv, Busy
<1>1. agent.stored = row /\ row.folder \in Folders
    BY <1>0, BusyPlaced
<1>2. PICK k \in agent.unused :
        /\ op' = [op EXCEPT !["agent"].unused = @ \ {k}]
        /\ folder' = [folder EXCEPT ![row.folder].keys = @ \ {k}]
    BY <1>1, Zenon DEF PruneKey, agent
<1>3. PICK x : x = [agent EXCEPT !.unused = agent.unused \ {k}]
    OBVIOUS
<1>4. op' = [op EXCEPT !["agent"] = x]
    BY <1>0, <1>2, <1>3 DEF agent, TypeOK
<1>5. /\ x.pc = agent.pc /\ x.stored = agent.stored /\ x.digest = agent.digest
      /\ x.outcome = agent.outcome /\ x.surplus = agent.surplus
      /\ x.unused = agent.unused \ {k}
    BY <1>0, <1>3 DEF Op
<1>6. x \in Op
    BY <1>0, <1>3 DEF Op
<1>7. agent' = x /\ op' \in [Processes -> Op]
    BY <1>0, <1>4, <1>6, AgentIs
<1>8. /\ folder' \in [Folders -> [backups : SUBSET Backup, keys : SUBSET KeyFile]]
      /\ \A f \in Folders : folder'[f].backups = folder[f].backups
      /\ \A f \in Folders : f # row.folder => folder'[f].keys = folder[f].keys
      /\ folder'[row.folder].keys = folder[row.folder].keys \ {k}
    BY <1>0, <1>1, <1>2 DEF TypeOK
<1>9. TypeOK'
    BY <1>0, <1>7, <1>8, Zenon DEF PruneKey, NoFault, TypeOK
<1> QED BY <1>0, <1>1, <1>5, <1>7, <1>8, <1>9

\* A delete fails.
LEMMA PruneFailsIs ==
    ASSUME Processes = {"agent"}, IInv, PruneFails("agent")
    PROVE  /\ TypeOK' /\ row' = row /\ folder' = folder /\ agent.pc = "pruning"
           /\ agent'.pc = "recording"
           /\ agent'.digest = agent.digest /\ agent'.outcome = agent.outcome
<1> USE DEF operatorVars
<1>0. /\ TypeOK /\ row' = row /\ folder' = folder /\ agent.pc = "pruning" /\ Busy
      /\ agent \in Op
    BY AgentType DEF PruneFails, At, agent, IInv, Busy
<1>1. PICK x : x = [agent EXCEPT !.pc = "recording"]
    OBVIOUS
<1>2. op' = [op EXCEPT !["agent"] = x]
    BY <1>0, <1>1 DEF PruneFails, agent, TypeOK
<1>3. x.pc = "recording" /\ x.digest = agent.digest /\ x.outcome = agent.outcome
    BY <1>0, <1>1 DEF Op
<1>4. x \in Op
    BY <1>0, <1>1 DEF Op
<1>5. agent' = x /\ op' \in [Processes -> Op]
    BY <1>0, <1>2, <1>4, AgentIs
<1>6. faults' \in Nat
    BY <1>0 DEF PruneFails, Fault, TypeOK
<1>7. TypeOK'
    BY <1>0, <1>5, <1>6, Zenon DEF PruneFails, TypeOK
<1> QED BY <1>0, <1>3, <1>5, <1>7

\* The outcome is recorded in the row.
LEMMA RecordIs ==
    ASSUME Processes = {"agent"}, IInv, Record("agent")
    PROVE  /\ TypeOK' /\ folder' = folder /\ agent' = Idle
           /\ agent.pc \in {"recording", "pruning"} /\ row # NoRow
           /\ row'.instance = row.instance /\ row'.folder = row.folder /\ row'.key = row.key
           /\ row'.hash = IF agent.outcome = "made" THEN agent.digest ELSE row.hash
<1> USE DEF operatorVars
<1>0. /\ TypeOK /\ folder' = folder /\ agent.pc \in {"recording", "pruning"} /\ agent \in Op
      /\ row \in Row /\ row # NoRow
    BY AgentType DEF Record, At, agent, IInv, Locked, TypeOK
<1>1. agent' = Idle /\ op' \in [Processes -> Op]
    BY <1>0, AgentIs, IdleType DEF Record
<1>2. Unfinished("agent") \in BOOLEAN
    BY DEF Unfinished
<1>3. /\ row' \in Row
      /\ row'.instance = row.instance /\ row'.folder = row.folder /\ row'.key = row.key
      /\ row'.hash = IF agent.outcome = "made" THEN agent.digest ELSE row.hash
  <2>1. CASE agent.outcome = "made"
    <3>1. row' = [row EXCEPT !.hash = agent.digest, !.last = agent.name,
                             !.error = Unfinished("agent")]
      BY <1>0, <2>1 DEF Record, Recorded, agent
    <3>2. agent.digest \in OrNothing /\ agent.name \in OrNothing
      BY <1>0 DEF Op, OrNothing
    <3>3. /\ row'.instance = row.instance /\ row'.folder = row.folder /\ row'.key = row.key
          /\ row'.hash = agent.digest
      BY <1>0, <3>1 DEF Row
    <3>4. row' \in Row
      BY <1>0, <1>2, <3>1, <3>2 DEF Row
    <3> QED BY <2>1, <3>3, <3>4
  <2>2. CASE agent.outcome = "checked"
    <3>1. row' = [row EXCEPT !.error = Unfinished("agent")]
      BY <1>0, <2>2 DEF Record, Recorded, agent
    <3> QED BY <1>0, <1>2, <2>2, <3>1 DEF Row
  <2>3. CASE agent.outcome = "failed"
    <3>1. row' = [row EXCEPT !.error = TRUE]
      BY <1>0, <2>3 DEF Record, Recorded, agent
    <3> QED BY <1>0, <2>3, <3>1 DEF Row
  <2> QED BY <1>0, <2>1, <2>2, <2>3 DEF Op
<1>4. daily' \in BOOLEAN
    BY <1>0 DEF Record, TypeOK
<1>5. TypeOK'
    BY <1>0, <1>1, <1>3, <1>4, Zenon DEF Record, TypeOK
<1> QED BY <1>0, <1>1, <1>3, <1>5

\* The agent is killed.
LEMMA CrashIs ==
    ASSUME Processes = {"agent"}, IInv, Crash
    PROVE  TypeOK' /\ row' = row /\ folder' = folder /\ agent' = Idle
<1> USE DEF operatorVars
<1>0. TypeOK /\ row' = row /\ folder' = folder
    BY DEF Crash, IInv
<1>1. agent' = Idle /\ op' \in [Processes -> Op]
    BY <1>0, AgentIs, IdleType DEF Crash
<1>2. crashes' \in Nat
    BY <1>0 DEF Crash, TypeOK
<1>3. forced' \in BOOLEAN /\ pruneDue' \in BOOLEAN
    BY Zenon DEF Crash
<1>4. TypeOK'
    BY <1>0, <1>1, <1>2, <1>3, Zenon DEF Crash, TypeOK
<1> QED BY <1>0, <1>1, <1>4

-----------------------------------------------------------------------------
\* Nothing under way is the end of a check.
LEMMA IdleIs == Idle.pc = "idle" /\ Idle.digest = 0 /\ Idle.outcome = "failed"
  BY DEF Idle

\* A check as far as the upload, and its end.
LEMMA CheckStep ==
    ASSUME Processes = {"agent"}, IInv,
           \/ Check("agent") \/ List("agent") \/ Pack("agent") \/ PackFails("agent") \/ Relist("agent")
           \/ PruneFails("agent") \/ Record("agent") \/ Crash
    PROVE  IInv'
<1>1. CASE Check("agent")
    BY <1>1, CheckIs, AgentGoesOn
<1>2. CASE List("agent")
  <2>1. row # NoRow /\ row.key # Nothing
    BY <1>2, ListIs DEF IInv, Locked, Busy
  <2>2. CASE agent'.pc = "recording"
    BY <1>2, <2>1, <2>2, ListIs, AgentGoesOn DEF Busy
  <2>3. CASE agent'.pc = "packing"
    BY <1>2, <2>1, <2>3, ListIs, AgentGoesOn DEF Busy
  <2>4. CASE agent'.pc = "pruning"
    BY <1>2, <2>1, <2>4, ListIs, AgentGoesOn DEF Busy
  <2> QED BY <1>2, <2>2, <2>3, <2>4, ListIs
<1>3. CASE Pack("agent")
  <2>1. row # NoRow /\ row.key # Nothing
    BY <1>3, PackIs DEF IInv, Locked, Busy
  <2> QED BY <1>3, <2>1, PackIs, AgentGoesOn
<1>8. CASE PackFails("agent")
  <2>1. row # NoRow
    BY <1>8, PackFailsIs DEF IInv, Locked
  <2>2. agent'.pc = "recording" /\ ~Busy'
    BY <1>8, PackFailsIs DEF Busy
  <2> QED BY <1>8, <2>1, <2>2, PackFailsIs, AgentGoesOn
<1>4. CASE Relist("agent")
  <2>1. row # NoRow /\ row.key # Nothing
    BY <1>4, RelistIs DEF IInv, Locked, Busy
  <2>2. CASE agent'.pc = "recording"
    BY <1>4, <2>1, <2>2, RelistIs, AgentGoesOn DEF Busy
  <2>3. CASE agent'.pc = "pruning"
    BY <1>4, <2>1, <2>3, RelistIs, AgentGoesOn DEF Busy
  <2> QED BY <1>4, <2>2, <2>3, RelistIs
<1>5. CASE PruneFails("agent")
  <2>1. row # NoRow
    BY <1>5, PruneFailsIs DEF IInv, Locked
  <2>2. agent'.pc = "recording" /\ ~Busy'
    BY <1>5, PruneFailsIs DEF Busy
  <2> QED BY <1>5, <2>1, <2>2, PruneFailsIs, AgentGoesOn
<1>6. CASE Record("agent")
  <2>1. agent'.pc = "idle"
    BY <1>6, RecordIs, IdleIs
  <2>2. Locked' /\ Doomed'
    BY <2>1 DEF Locked, Doomed, Busy
  <2>3. Placed' /\ EveryBackupOpens' /\ CurrentKeyIsThere'
    BY <1>6, RecordIs DEF IInv, Placed, EveryBackupOpens, CurrentKeyIsThere, In, Key
  <2> QED BY <1>6, <2>2, <2>3, RecordIs DEF IInv
<1>7. CASE Crash
  <2>1. agent'.pc = "idle" /\ ~Busy'
    BY <1>7, CrashIs, IdleIs DEF Busy
  <2> QED BY <1>7, <2>1, CrashIs, AgentGoesOn
<1> QED BY <1>1, <1>2, <1>3, <1>4, <1>5, <1>6, <1>7, <1>8

\* A backup is uploaded to a key whose file is there.
LEMMA UploadStep ==
    ASSUME Processes = {"agent"}, IInv, Upload("agent")
    PROVE  IInv'
<1>0. Busy /\ TypeOK' /\ row' = row
    BY UploadIs DEF Busy
<1>1. /\ row # NoRow /\ row.folder \in Folders /\ row.key # Nothing
      /\ Key(row.instance, row.key) \in folder[row.folder].keys
    BY <1>0, BusyPlaced DEF IInv, Locked
<1>2. PICK b \in Backup :
        /\ b.instance = row.instance /\ b.key = row.key
        /\ \A f \in Folders : folder'[f].keys = folder[f].keys
        /\ \A f \in Folders : f # row.folder => folder'[f].backups = folder[f].backups
        /\ \/ folder'[row.folder].backups = folder[row.folder].backups \cup {b}
           \/ folder' = folder
        /\ (agent'.pc = "relisting" /\ agent'.stored = row) \/ agent'.pc = "recording"
    BY UploadIs
<1>3. EveryBackupOpens'
  <2> SUFFICES ASSUME NEW f \in Folders, NEW c \in folder'[f].backups
               PROVE  Key(c.instance, c.key) \in folder'[f].keys
    BY DEF EveryBackupOpens, Key
  <2>1. CASE c \in folder[f].backups
    BY <1>2, <2>1 DEF IInv, EveryBackupOpens
  <2>2. CASE c \notin folder[f].backups
    <3>1. f = row.folder /\ c = b
      BY <1>2, <2>2
    <3> QED BY <1>1, <1>2, <3>1
  <2> QED BY <2>1, <2>2
<1>4. CurrentKeyIsThere' /\ Placed'
    BY <1>0, <1>1, <1>2 DEF CurrentKeyIsThere, Placed, In, Key
<1>5. Locked' /\ Doomed'
    BY <1>0, <1>1, <1>2 DEF Locked, Doomed, Busy
<1> QED BY <1>0, <1>3, <1>4, <1>5 DEF IInv

\* Backups are deleted before the keys that open them, and the key in use is not.
LEMMA PruneStep ==
    ASSUME Processes = {"agent"}, IInv, PruneBackup("agent") \/ PruneKey("agent")
    PROVE  IInv'
<1>0. agent.pc = "pruning" /\ TypeOK' /\ row' = row /\ agent'.pc = "pruning"
      /\ agent'.stored = row
    BY PruneBackupIs, PruneKeyIs
<1>1. /\ row # NoRow /\ row.folder \in Folders /\ row.key # Nothing
      /\ Key(row.instance, row.key) \in folder[row.folder].keys
    BY <1>0, BusyPlaced DEF IInv, Locked, Busy
<1>2. Locked' /\ Placed'
    BY <1>0, <1>1 DEF Locked, Placed, Busy
<1>3. CASE PruneBackup("agent")
  <2>1. PICK t \in agent.surplus :
          /\ agent'.surplus = agent.surplus \ {t} /\ agent'.unused = agent.unused
          /\ \A f \in Folders : folder'[f].keys = folder[f].keys
          /\ \A f \in Folders : f # row.folder => folder'[f].backups = folder[f].backups
          /\ folder'[row.folder].backups = {b \in folder[row.folder].backups : b.at # t}
    BY <1>3, PruneBackupIs
  <2>2. EveryBackupOpens' /\ CurrentKeyIsThere'
    BY <1>0, <1>1, <2>1 DEF IInv, EveryBackupOpens, CurrentKeyIsThere, In, Key
  <2>3. \A b \in Mine(row)' : b \in Mine(row) /\ b.at # t
    BY <1>0, <1>1, <2>1 DEF Mine, In
  <2>4. Doomed'
    BY <1>0, <2>1, <2>3 DEF IInv, Doomed
  <2> QED BY <1>0, <1>2, <2>2, <2>4 DEF IInv
<1>4. CASE PruneKey("agent")
  <2>1. PICK k \in agent.unused :
          /\ agent'.surplus = {} /\ agent.surplus = {} /\ agent'.unused = agent.unused \ {k}
          /\ \A f \in Folders : folder'[f].backups = folder[f].backups
          /\ \A f \in Folders : f # row.folder => folder'[f].keys = folder[f].keys
          /\ folder'[row.folder].keys = folder[row.folder].keys \ {k}
    BY <1>4, PruneKeyIs
  <2>2. /\ k.instance = row.instance /\ k.key # row.key
        /\ \A b \in Mine(row) : b.key # k.key
    BY <1>0, <2>1 DEF IInv, Doomed
  <2>3. CurrentKeyIsThere'
    <3>1. Key(row.instance, row.key) # k
      BY <2>2 DEF Key
    <3> QED BY <1>0, <1>1, <2>1, <3>1 DEF CurrentKeyIsThere, In, Key
  <2>4. EveryBackupOpens'
    <3> SUFFICES ASSUME NEW f \in Folders, NEW c \in folder'[f].backups
                 PROVE  Key(c.instance, c.key) \in folder'[f].keys
      BY DEF EveryBackupOpens, Key
    <3>1. c \in folder[f].backups /\ Key(c.instance, c.key) \in folder[f].keys
      BY <2>1 DEF IInv, EveryBackupOpens
    <3>2. CASE f # row.folder
      BY <2>1, <3>1, <3>2
    <3>3. CASE f = row.folder
      <4>1. Key(c.instance, c.key) # k
        <5>1. Key(c.instance, c.key) = k => c.instance = row.instance /\ c.key = k.key
          BY <2>2 DEF Key
        <5>2. c.instance = row.instance => c \in Mine(row)
          BY <3>1, <3>3 DEF Mine, In
        <5> QED BY <2>2, <5>1, <5>2
      <4> QED BY <2>1, <3>1, <3>3, <4>1
    <3> QED BY <3>2, <3>3
  <2>5. Mine(row)' = Mine(row)
    BY <1>0, <1>1, <2>1 DEF Mine, In
  <2>6. Doomed'
    BY <1>0, <2>1, <2>5 DEF IInv, Doomed
  <2> QED BY <1>0, <1>2, <2>3, <2>4, <2>6 DEF IInv
<1> QED BY <1>3, <1>4

\* Every step keeps the invariant.
LEMMA InvStep ==
    ASSUME Processes = {"agent"}, IInv, [Next]_vars
    PROVE  IInv'
<1>1. CASE Edit \/ Restore \/ DayPasses \/ RunNow \/ CheckNotSet \/ UNCHANGED vars
    BY <1>1, SettingsStep
<1>2. CASE Adopt \/ SetSettings \/ Configure \/ RemoveSettings
    BY <1>2, RowStep
<1>3. CASE PutKey \/ StoreKey
    BY <1>3, KeyStep
<1>4. CASE Crash
    BY <1>4, CheckStep
<1>5. ASSUME NEW p \in Processes, Check(p) \/ BackupStep(p) PROVE IInv'
    BY <1>5, CheckStep, UploadStep, PruneStep DEF BackupStep
<1> QED BY <1>1, <1>2, <1>3, <1>4, <1>5 DEF Next

\* What an agent starts with.
LEMMA InitInv ==
    ASSUME Init
    PROVE  IInv
<1>1. TypeOK
    BY IdleType DEF Init, TypeOK
<1>2. agent.pc = "idle"
    BY SettingsBackupAssumption, IdleIs DEF Init, agent
<1>3. row = NoRow /\ row.key = Nothing
    BY DEF Init, NoRow
<1>4. Locked /\ Placed /\ Doomed /\ CurrentKeyIsThere
    BY <1>2, <1>3 DEF Locked, Placed, Doomed, CurrentKeyIsThere, Busy
<1>5. EveryBackupOpens
    BY DEF Init, EveryBackupOpens
<1> QED BY <1>1, <1>4, <1>5 DEF IInv

\* The invariant holds of every execution of one agent.
LEMMA Invariant ==
    ASSUME Processes = {"agent"}
    PROVE  Spec => []IInv
<1>1. Init => IInv
    BY InitInv
<1>2. IInv /\ [Next]_vars => IInv'
    BY InvStep
<1> QED BY <1>1, <1>2, PTL DEF Spec

\* keys.rs and prune: no backup is ever left in a folder without the key file
\* that opens it, by whatever is pruned, replaced, failing or cut short.
THEOREM BackupsOpen ==
    ASSUME Processes = {"agent"}
    PROVE  Spec => []EveryBackupOpens
<1>1. IInv => EveryBackupOpens
    BY DEF IInv
<1> QED BY <1>1, Invariant, PTL

\* The key the next backup is made to has its file in the folder it goes to.
THEOREM KeyInUseIsThere ==
    ASSUME Processes = {"agent"}
    PROVE  Spec => []CurrentKeyIsThere
<1>1. IInv => CurrentKeyIsThere
    BY DEF IInv
<1> QED BY <1>1, Invariant, PTL

-----------------------------------------------------------------------------
(***************************************************************************)
(* Settings found unchanged are backed up.                                 *)
(***************************************************************************)

\* A backup is made, and not yet recorded.
Made == agent.pc = "relisting" \/ (agent.pc \in {"pruning", "recording"} /\ agent.outcome = "made")

\* No hash and no backup is of settings that are still to come, and settings
\* that were not restored are the latest.
Past ==
    /\ settings <= edits /\ row.hash <= edits /\ agent.digest <= edits
    /\ agent.pc = "uploading" => agent.holds <= edits
    /\ ~restored => settings = edits
    /\ \A f \in Folders : \A b \in folder[f].backups : b.holds <= edits

\* Backups bear the times they were made at.
Stamped == \A f \in Folders : \A b \in folder[f].backups : b.at \in times

\* The latest settings were backed up, or have just been.
Held ==
    /\ ~restored /\ row.key # Nothing
    /\ row.hash = edits \/ (Made /\ agent.digest = edits)

\* What is uploaded over a backup of the latest settings holds them too; also
\* when the settings were edited between their hash and the packing.
Packed ==
    (agent.pc = "uploading" /\ ~restored /\ (row.hash = edits \/ agent.digest = edits)) =>
        agent.holds = edits

\* The newest backup holds them, to the key in use, and is not to be pruned.
IsNewest(m) ==
    /\ m.key = row.key /\ m.holds = edits
    /\ \A c \in Mine(row) : c.at <= m.at
    /\ agent.pc = "pruning" => m.at \notin agent.surplus
Newest == Held => \E m \in Mine(row) : IsNewest(m)

HInv == Past /\ Stamped /\ Packed /\ Newest

-----------------------------------------------------------------------------
\* The newest backup is never surplus, however few are kept.
LEMMA NewestIsKept ==
    ASSUME TypeOK, row.folder \in Folders, NEW m \in Mine(row),
           \A c \in Mine(row) : c.at <= m.at
    PROVE  m.at \notin Surplus(row)
<1>1. \A c \in Mine(row) : c.at \in Nat
    BY ListingType DEF TypeOK, Backup
<1>2. SUFFICES ASSUME NEW c \in Mine(row), c.at = m.at,
                      Cardinality({d \in Mine(row) : d.at > c.at}) >= row.keep
               PROVE  FALSE
    BY DEF Surplus
<1>3. {d \in Mine(row) : d.at > c.at} = {}
  <2>1. \A d \in Mine(row) : ~(d.at > c.at)
    BY <1>1, <1>2
  <2> QED BY <2>1
<1>4. Cardinality({d \in Mine(row) : d.at > c.at}) = 0
    BY <1>3, FS_EmptySet
<1>5. row.keep \in Nat /\ row.keep > 0
    BY DEF TypeOK, Row
<1> QED BY <1>2, <1>4, <1>5

\* Keys are in rows that name a folder.
LEMMA KeyedIsPlaced ==
    ASSUME IInv, row.key # Nothing
    PROVE  row.folder \in Folders
  BY DEF IInv, Placed, NoRow

\* A step that uploads, deletes and edits nothing: a backup that held the
\* latest settings before it is the one that does after it.
LEMMA HeldStays ==
    ASSUME IInv, HInv, UNCHANGED <<settings, edits, restored, times>>,
           \A f \in Folders : folder'[f].backups = folder[f].backups,
           row'.hash <= edits, agent'.digest <= edits,
           agent'.pc = "uploading" =>
               agent'.holds = settings \/ (agent' = agent /\ row' = row),
           Held' => /\ Held
                    /\ row'.instance = row.instance /\ row'.folder = row.folder
                    /\ row'.key = row.key,
           agent'.pc = "pruning" =>
               \/ agent'.surplus = Surplus(row)
               \/ agent.pc = "pruning" /\ agent'.surplus = agent.surplus
    PROVE  HInv'
<1>1. Past'
    BY DEF HInv, Past
<1>2. Stamped'
    BY DEF HInv, Stamped
<1>3. Packed'
    BY DEF HInv, Packed, Past
<1>4. Newest'
  <2> SUFFICES ASSUME Held' PROVE \E m \in Mine(row)' : IsNewest(m)'
    BY DEF Newest
  <2>1. row.folder \in Folders /\ TypeOK
    BY KeyedIsPlaced DEF Held, IInv
  <2>2. Mine(row)' = Mine(row)
    BY <2>1 DEF Mine, In
  <2>3. PICK m \in Mine(row) : IsNewest(m)
    BY DEF HInv, Newest
  <2>4. m.at \notin Surplus(row)
    BY <2>1, <2>3, NewestIsKept DEF IsNewest
  <2>5. IsNewest(m)'
    BY <2>2, <2>3, <2>4 DEF IsNewest
  <2> QED BY <2>2, <2>5
<1> QED BY <1>1, <1>2, <1>3, <1>4 DEF HInv

\* New settings, or settings out of a backup, are not held to be backed up.
LEMMA SettingsHeld ==
    ASSUME IInv, HInv, Edit \/ Restore \/ Adopt
    PROVE  HInv'
<1>0. /\ TypeOK /\ settings \in Nat /\ edits \in Nat /\ agent \in Op /\ row \in Row
      /\ UNCHANGED <<folder, times, op>>
    BY AgentType DEF Edit, Restore, Adopt, IInv, TypeOK
<1>1. /\ agent' = agent /\ agent.digest \in Nat /\ agent.holds \in Nat
      /\ row.hash \in Int /\ \A f \in Folders : \A b \in folder[f].backups : b.holds \in Nat
    BY <1>0 DEF agent, Op, Row, OrNothing, Nothing, TypeOK, Backup
<1>2. Stamped'
    BY <1>0 DEF HInv, Stamped
<1>3. CASE Edit
  <2>1. row' = row /\ edits' = edits + 1 /\ settings' = edits + 1
    BY <1>3 DEF Edit
  <2>2. Past'
    BY <1>0, <1>1, <2>1 DEF HInv, Past
  <2>3. row'.hash # edits' /\ agent'.digest # edits'
    BY <1>0, <1>1, <2>1 DEF HInv, Past
  <2>4. Packed' /\ Newest'
    BY <2>3 DEF Packed, Newest, Held
  <2> QED BY <1>2, <2>2, <2>4 DEF HInv
<1>4. CASE Restore \/ Adopt
  <2>1. restored' /\ edits' = edits
    BY <1>4 DEF Restore, Adopt
  <2>2. settings' <= edits
    BY <1>4 DEF Restore, Adopt, Readable, HInv, Past
  <2>3. row'.hash <= edits
    <3>1. CASE Restore
      BY <3>1 DEF Restore, HInv, Past
    <3>2. CASE Adopt
      BY <1>0, <3>2, RowStep DEF HInv, Past, SameRow, Nothing
    <3> QED BY <1>4, <3>1, <3>2
  <2>4. Past'
    BY <1>0, <1>1, <2>1, <2>2, <2>3 DEF HInv, Past
  <2>5. Packed' /\ Newest'
    BY <2>1 DEF Packed, Newest, Held
  <2> QED BY <1>2, <2>4, <2>5 DEF HInv
<1> QED BY <1>3, <1>4

\* Nothing of a backup: a day, a flag, a row changed or removed, a key.
LEMMA AsideHeld ==
    ASSUME Processes = {"agent"}, IInv, HInv,
           \/ DayPasses \/ RunNow \/ CheckNotSet \/ UNCHANGED vars
           \/ SetSettings \/ Configure \/ RemoveSettings \/ PutKey \/ StoreKey
    PROVE  HInv'
<1> USE DEF operatorVars
<1>0. /\ UNCHANGED <<settings, edits, restored, times>>
      /\ edits \in Nat /\ row.hash <= edits /\ agent.digest <= edits
    BY DEF DayPasses, RunNow, CheckNotSet, vars, SetSettings, Configure, RemoveSettings,
           PutKey, StoreKey, IInv, TypeOK, HInv, Past
<1>1. CASE DayPasses \/ RunNow \/ CheckNotSet \/ UNCHANGED vars
  <2>1. row' = row /\ folder' = folder /\ agent' = agent
    BY <1>1, Zenon DEF DayPasses, RunNow, CheckNotSet, vars, agent
  <2>2. Held' => Held
    BY <1>0, <2>1 DEF Held, Made
  <2> QED BY <1>0, <2>1, <2>2, HeldStays
<1>2. CASE SetSettings \/ Configure \/ RemoveSettings
  <2>1. folder' = folder /\ agent' = agent /\ agent.pc = "idle"
    BY <1>2 DEF SetSettings, Configure, RemoveSettings, agent, Free
  <2>2. SameRow \/ row'.hash = Nothing
    BY <1>2, RowStep
  <2>3. row'.hash <= edits
    BY <1>0, <2>2 DEF SameRow, Nothing
  <2>4. Held' => Held /\ SameRow
    BY <1>0, <2>1, <2>2 DEF Held, Made, SameRow, Nothing
  <2> QED BY <1>0, <2>1, <2>3, <2>4, HeldStays DEF SameRow
<1>3. CASE PutKey
  <2>1. /\ row' = row /\ \A f \in Folders : folder'[f].backups = folder[f].backups
        /\ agent.pc = "idle"
        /\ agent' = agent \/ (agent'.pc = "keyPut" /\ agent'.digest = 0)
    BY <1>3, PutKeyIs DEF agent
  <2>2. Held' => Held
    BY <1>0, <2>1 DEF Held, Made
  <2> QED BY <1>0, <2>1, <2>2, HeldStays
<1>4. CASE StoreKey
  <2>1. /\ folder' = folder /\ agent'.pc = "idle" /\ agent'.digest = 0
        /\ row'.hash = Nothing
    BY <1>4, StoreKeyIs, IdleIs
  <2>2. ~Held'
    BY <1>0, <2>1 DEF Held, Made, Nothing
  <2>3. row'.hash <= edits
    BY <1>0, <2>1 DEF Nothing
  <2> QED BY <1>0, <2>1, <2>2, <2>3, HeldStays
<1> QED BY <1>1, <1>2, <1>3, <1>4

\* A check as far as the upload, and its end.
LEMMA CheckHeld ==
    ASSUME Processes = {"agent"}, IInv, HInv,
           \/ Check("agent") \/ List("agent") \/ Pack("agent") \/ PackFails("agent") \/ Relist("agent")
           \/ PruneFails("agent") \/ PruneKey("agent") \/ Record("agent") \/ Crash
    PROVE  HInv'
<1> USE DEF operatorVars
<1>0. /\ UNCHANGED <<settings, edits, restored, times>>
      /\ edits \in Nat /\ row.hash <= edits /\ agent.digest <= edits /\ settings <= edits
    BY DEF Check, List, Pack, PackFails, Relist, PruneFails, PruneKey, Record, Crash, IInv, TypeOK,
           HInv, Past
<1>1. CASE Check("agent")
  <2>1. Held' => Held
    BY <1>0, <1>1, CheckIs DEF Held, Made
  <2> QED BY <1>0, <1>1, <2>1, CheckIs, HeldStays
<1>2. CASE List("agent")
  <2>1. Held' => Held
    BY <1>0, <1>2, ListIs DEF Held, Made
  <2> QED BY <1>0, <1>2, <2>1, ListIs, HeldStays
<1>3. CASE Pack("agent")
  <2>1. Held' => Held
    BY <1>0, <1>3, PackIs DEF Held, Made
  <2> QED BY <1>0, <1>3, <2>1, PackIs, HeldStays
<1>9. CASE PackFails("agent")
  <2>1. Held' => Held
    BY <1>0, <1>9, PackFailsIs DEF Held, Made
  <2> QED BY <1>0, <1>9, <2>1, PackFailsIs, HeldStays
<1>4. CASE Relist("agent")
  <2>1. Held' => Held
    BY <1>0, <1>4, RelistIs DEF Held, Made
  <2> QED BY <1>0, <1>4, <2>1, RelistIs, HeldStays
<1>5. CASE PruneFails("agent")
  <2>1. Held' => Held
    BY <1>0, <1>5, PruneFailsIs DEF Held, Made
  <2> QED BY <1>0, <1>5, <2>1, PruneFailsIs, HeldStays
<1>6. CASE PruneKey("agent")
  <2>1. Held' => Held
    BY <1>0, <1>6, PruneKeyIs DEF Held, Made
  <2> QED BY <1>0, <1>6, <2>1, PruneKeyIs, HeldStays
<1>7. CASE Record("agent")
  <2>1. Held' => Held
    BY <1>0, <1>7, RecordIs, IdleIs DEF Held, Made
  <2>2. row'.hash <= edits
    BY <1>0, <1>7, RecordIs
  <2> QED BY <1>0, <1>7, <2>1, <2>2, RecordIs, IdleIs, HeldStays
<1>8. CASE Crash
  <2>1. Held' => Held
    BY <1>0, <1>8, CrashIs, IdleIs DEF Held, Made
  <2> QED BY <1>0, <1>8, <2>1, CrashIs, IdleIs, HeldStays
<1> QED BY <1>1, <1>2, <1>3, <1>4, <1>5, <1>6, <1>7, <1>8, <1>9

\* What is uploaded is newer than all there is, and holds the latest settings
\* if what it is put over does.
LEMMA UploadHeld ==
    ASSUME Processes = {"agent"}, ClockBack = FALSE, IInv, HInv, Upload("agent")
    PROVE  HInv'
<1> USE DEF operatorVars
<1>0. /\ UNCHANGED <<settings, edits, restored>> /\ agent.pc = "uploading" /\ row' = row
      /\ edits \in Nat /\ times \in SUBSET Nat /\ Busy
    BY UploadIs DEF Upload, IInv, TypeOK, Busy
<1>1. row.folder \in Folders
    BY <1>0, BusyPlaced
<1>2. PICK t \in Now, b \in Backup :
        /\ b.at = t /\ b.instance = row.instance /\ b.key = row.key
        /\ b.holds = agent.holds
        /\ times' = times \cup {t}
        /\ \A f \in Folders : f # row.folder => folder'[f].backups = folder[f].backups
        /\ \/ /\ folder'[row.folder].backups = folder[row.folder].backups \cup {b}
              /\ \/ /\ agent'.pc = "relisting" /\ agent'.digest = agent.digest
                 \/ /\ agent'.pc = "recording" /\ agent'.outcome = "failed"
                    /\ agent'.digest = 0
           \/ /\ folder' = folder
              /\ agent'.pc = "recording" /\ agent'.outcome = "failed"
              /\ agent'.digest = 0
    BY UploadIs
<1>3. \A f \in Folders : \A c \in folder'[f].backups :
        c \in folder[f].backups \/ (f = row.folder /\ c = b)
    BY <1>1, <1>2
<1>4. t \in Nat /\ \A u \in times : u < t
    BY SettingsBackupAssumption DEF Now, Times
<1>5. Past'
    BY <1>0, <1>2, <1>3 DEF HInv, Past
<1>6. Stamped'
    BY <1>2, <1>3 DEF HInv, Stamped
<1>7. Packed'
    BY <1>2 DEF Packed
<1>8. Newest'
  <2> SUFFICES ASSUME Held' PROVE \E m \in Mine(row)' : IsNewest(m)'
    BY DEF Newest
  <2>1. /\ ~restored /\ row.key # Nothing
        /\ row.hash = edits \/ (agent'.pc = "relisting" /\ agent.digest = edits)
    BY <1>0, <1>2 DEF Held, Made
  <2>2. agent.holds = edits /\ agent'.pc # "pruning"
    BY <1>0, <1>2, <2>1 DEF HInv, Packed
  <2>3. CASE folder'[row.folder].backups = folder[row.folder].backups \cup {b}
    <3>1. b \in Mine(row)'
      BY <1>0, <1>2, <2>3 DEF Mine, In
    <3>2. \A c \in Mine(row)' : c = b \/ c.at \in times
      BY <1>0, <1>1, <1>3 DEF Mine, In, HInv, Stamped
    <3>3. \A c \in Mine(row)' : c.at <= b.at
      <4>1. b.at \in Nat /\ (\A u \in times : u \in Nat /\ u < b.at)
        BY <1>0, <1>2, <1>4
      <4> SUFFICES ASSUME NEW c \in Mine(row)' PROVE c.at <= b.at
        OBVIOUS
      <4>2. CASE c = b
        BY <4>1, <4>2
      <4>3. CASE c.at \in times
        BY <4>1, <4>3
      <4> QED BY <3>2, <4>2, <4>3
    <3>4. IsNewest(b)'
      BY <1>0, <1>2, <2>2, <3>3 DEF IsNewest
    <3> QED BY <3>1, <3>4
  <2>4. CASE folder' = folder /\ agent'.pc = "recording"
    <3>1. Held
      BY <2>1, <2>4 DEF Held
    <3>2. PICK m \in Mine(row) : IsNewest(m)
      BY <3>1 DEF HInv, Newest
    <3>3. Mine(row)' = Mine(row)
      BY <1>0, <2>4 DEF Mine, In
    <3>4. IsNewest(m)'
      BY <1>0, <2>2, <3>2, <3>3 DEF IsNewest
    <3> QED BY <3>3, <3>4
  <2> QED BY <1>2, <2>3, <2>4
<1> QED BY <1>5, <1>6, <1>7, <1>8 DEF HInv

\* A surplus backup is not the newest.
LEMMA PruneHeld ==
    ASSUME Processes = {"agent"}, IInv, HInv, PruneBackup("agent")
    PROVE  HInv'
<1> USE DEF operatorVars
<1>0. /\ UNCHANGED <<settings, edits, restored, times>> /\ row' = row
      /\ agent.pc = "pruning" /\ agent'.pc = "pruning" /\ agent'.digest = agent.digest
      /\ agent'.outcome = agent.outcome /\ Busy
    BY PruneBackupIs DEF PruneBackup, Busy
<1>1. row.folder \in Folders
    BY <1>0, BusyPlaced
<1>2. PICK t \in agent.surplus :
        /\ agent'.surplus = agent.surplus \ {t}
        /\ \A f \in Folders : f # row.folder => folder'[f].backups = folder[f].backups
        /\ folder'[row.folder].backups = {b \in folder[row.folder].backups : b.at # t}
    BY PruneBackupIs
<1>3. \A f \in Folders : folder'[f].backups \subseteq folder[f].backups
    BY <1>1, <1>2
<1>4. Past' /\ Stamped'
    BY <1>0, <1>3 DEF HInv, Past, Stamped
<1>5. Packed'
    BY <1>0 DEF Packed
<1>6. Newest'
  <2> SUFFICES ASSUME Held' PROVE \E m \in Mine(row)' : IsNewest(m)'
    BY DEF Newest
  <2>1. Held
    BY <1>0 DEF Held, Made
  <2>2. PICK m \in Mine(row) : IsNewest(m)
    BY <2>1 DEF HInv, Newest
  <2>3. m \in Mine(row)' /\ Mine(row)' \subseteq Mine(row)
    BY <1>0, <1>1, <1>2, <2>2 DEF Mine, In, IsNewest
  <2>4. IsNewest(m)'
    BY <1>0, <1>2, <2>2, <2>3 DEF IsNewest
  <2> QED BY <2>3, <2>4
<1> QED BY <1>4, <1>5, <1>6 DEF HInv

\* When a check would find the settings unchanged, and they are not what a
\* restore put there, the folder has a backup of them that the current
\* passphrase opens: also when they were edited while it was made, and when the
\* backup the row names has been pruned.
THEOREM UnchangedMeansBackedUp ==
    ASSUME Processes = {"agent"}, ClockBack = FALSE
    PROVE  Spec => []UnchangedIsBackedUp
<1>1. Init => HInv
  <2> SUFFICES ASSUME Init PROVE HInv
    OBVIOUS
  <2>1. /\ agent.pc = "idle" /\ agent.digest = 0
        /\ row.key = Nothing /\ row.hash = Nothing
    BY SettingsBackupAssumption, IdleIs DEF Init, agent, NoRow
  <2>2. Past /\ Stamped
    BY <2>1 DEF Init, Past, Stamped, Nothing
  <2>3. Packed /\ Newest
    BY <2>1 DEF Packed, Newest, Held
  <2> QED BY <2>2, <2>3 DEF HInv
<1>2. IInv /\ HInv /\ [Next]_vars => HInv'
  <2> SUFFICES ASSUME IInv, HInv, [Next]_vars PROVE HInv'
    OBVIOUS
  <2>1. CASE Edit \/ Restore \/ Adopt
    BY <2>1, SettingsHeld
  <2>2. CASE \/ DayPasses \/ RunNow \/ CheckNotSet \/ UNCHANGED vars
             \/ SetSettings \/ Configure \/ RemoveSettings \/ PutKey \/ StoreKey
    BY <2>2, AsideHeld
  <2>3. CASE Crash
    BY <2>3, CheckHeld
  <2>4. ASSUME NEW p \in Processes, Check(p) \/ BackupStep(p) PROVE HInv'
    BY <2>4, CheckHeld, UploadHeld, PruneHeld DEF BackupStep
  <2> QED BY <2>1, <2>2, <2>3, <2>4 DEF Next
<1>3. HInv => UnchangedIsBackedUp
  <2> SUFFICES ASSUME HInv, row.key # Nothing, row.hash = settings, ~restored
               PROVE  BackedUp
    BY DEF UnchangedIsBackedUp
  <2>1. settings = edits /\ Held
    BY DEF HInv, Past, Held
  <2> QED BY <2>1 DEF HInv, Newest, IsNewest, BackedUp
<1> QED BY <1>1, <1>2, <1>3, Invariant, PTL DEF Spec

=============================================================================
