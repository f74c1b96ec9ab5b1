---------------------------- MODULE BlobsProofs -----------------------------
(***************************************************************************)
(* That a file put is there until its row is, and that a row has its       *)
(* files: for any number of requests, names and contents, through crashes, *)
(* failures and collections, as long as the agent is the only process and  *)
(* a request is not dropped under its commit (blobs_cli.cfg and            *)
(* late_drop.cfg show what happens otherwise).                             *)
(*                                                                         *)
(* Neither is inductive alone.  A collection removes what it did not read: *)
(* it must be alone (Alone), so that no request is inside (Sound) and what *)
(* it read stays all that rows name (Covered).  A commit writes rows whose *)
(* files were put, so a request must remember what it owes (Sound).        *)
(*                                                                         *)
(* From the same invariant: a file no row names is in somebody's care, or  *)
(* a collection is owed that will find it; and by name the store is the    *)
(* atomic one of module AtomicStore.                                       *)
(***************************************************************************)
EXTENDS Blobs, TLAPS

\* What is known of one request.
Sound(w) ==
    /\ pc[w] # "dropped"
    /\ pc[w] # "idle" => w \in shared
    /\ pc[w] = "idle" => put[w] = {}
    /\ put[w] \subseteq files
    /\ pc[w] = "submitted" => todo[w] = {}
    /\ (pc[w] \in {"in", "staged", "submitted"} /\ kind[w] # "restore")
           => \A n \in DOMAIN change[w] : change[w][n] \subseteq put[w] \cup todo[w]

\* A collection has the gate for itself.
Alone == collect # "idle" => shared = {}

\* What it read is still all that is named.
Covered == collect = "removing" => \A n \in Names : rows[n] \subseteq named

\* NamedHasFile, name by name.
HasFiles == \A n \in Names : rows[n] \subseteq files \cup lost

IInv == TypeOK /\ (\A w \in Writers : Sound(w)) /\ Alone /\ Covered /\ HasFiles

-----------------------------------------------------------------------------
\* Rows of some of the names are rows.
LEMMA SomeRows ==
    ASSUME NEW N \in SUBSET Names, NEW r \in [N -> SUBSET Digest]
    PROVE  r \in Rows
  BY DEF Rows

\* Rows name digests.
LEMMA RowsName ==
    ASSUME NEW r \in Rows
    PROVE  /\ DOMAIN r \in SUBSET Names
           /\ \A n \in DOMAIN r : r[n] \in SUBSET Digest
           /\ Digests(r) \in SUBSET Digest
<1>1. PICK N \in SUBSET Names : r \in [N -> SUBSET Digest]
    BY DEF Rows
<1> QED BY <1>1 DEF Digests

\* No rows are rows.
LEMMA NoRowsType == NoRows \in Rows
<1>1. {} \in SUBSET Names /\ NoRows \in [{} -> SUBSET Digest]
    BY DEF NoRows
<1> QED BY <1>1, SomeRows

\* A request that has the gate keeps the types.
LEMMA BeginType ==
    ASSUME TypeOK, NEW w \in Writers, NEW k \in {"store", "restore", "move"}, NEW new \in Rows,
           NEW fs \in SUBSET Digest, Begin(w, k, new, fs)
    PROVE  TypeOK'
  BY DEF Begin, TypeOK, backupVars

\* The end of a request keeps the types of its state.
LEMMA LeaveType ==
    ASSUME TypeOK, NEW w \in Writers, Leave(w), due' \in Nat, left' \in BOOLEAN,
           boot' \in {"moving", "collecting", "up"}, failed' \in BOOLEAN
    PROVE  TypeOK'
  BY NoRowsType DEF Leave, TypeOK, backupVars

\* Every step of the blob store keeps the types of its state.
LEMMA TypeStep ==
    ASSUME TypeOK, [Next]_vars
    PROVE  TypeOK'
<1>1. ASSUME NEW w \in Writers, Store(w) PROVE TypeOK'
  <2>a. PICK n \in Names : \E D \in Packages(n) : Begin(w, "store", [m \in {n} |-> D], D)
    BY <1>1 DEF Store
  <2>1. PICK D \in Packages(n) : Begin(w, "store", [m \in {n} |-> D], D)
    BY <2>a
  <2>2. D \in SUBSET Digest
    BY DEF Packages
  <2>3. [m \in {n} |-> D] \in Rows
    <3>1. {n} \in SUBSET Names /\ [m \in {n} |-> D] \in [{n} -> SUBSET Digest]
      BY <2>2
    <3> QED BY <3>1, SomeRows
  <2> QED BY <2>1, <2>2, <2>3, BeginType
<1>2. ASSUME NEW w \in Writers, Restore(w) PROVE TypeOK'
  <2>1. archive.rows \in [Kept -> SUBSET Digest] /\ archive.files \in SUBSET Digest
    BY DEF TypeOK, Backup
  <2>2. archive.rows \in Rows
    BY <2>1, SomeRows, BlobsAssumption
  <2> QED BY <1>2, <2>1, <2>2, BeginType DEF Restore
<1>3. ASSUME NEW w \in Writers, Move(w) PROVE TypeOK'
  <2>1. legacy \in Rows /\ Digests(legacy) \in SUBSET Digest
    BY RowsName DEF TypeOK
  <2> QED BY <1>3, <2>1, BeginType DEF Move
<1>4. ASSUME NEW w \in Writers, PutFound(w) \/ Stage(w) \/ Rename(w) PROVE TypeOK'
    BY <1>4 DEF PutFound, Stage, Rename, TypeOK, gateVars, backupVars
<1>5. ASSUME NEW w \in Writers, Submit(w) PROVE TypeOK'
    BY <1>5 DEF Submit, TypeOK, gateVars, backupVars
<1>6. ASSUME NEW w \in Writers, Apply(w) PROVE TypeOK'
  <2>1. change[w] \in Rows
    BY DEF TypeOK
  <2>2. Written(w) \in [Names -> SUBSET Digest] /\ Digests(change[w]) \in SUBSET Digest
    BY <2>1, RowsName DEF Written, TypeOK
  <2> QED BY <1>6, <2>2, NoRowsType DEF Apply, TypeOK, gateVars, backupVars
<1>7. ASSUME NEW w \in Writers, Finish(w) \/ Refuse(w) \/ Fail(w) PROVE TypeOK'
  <2>1. due' \in Nat /\ boot' \in {"moving", "collecting", "up"}
    BY <1>7 DEF Finish, Refuse, Fail, TypeOK
  <2>2. left' \in BOOLEAN
    BY <1>7 DEF Finish, Refuse, Fail, TypeOK
  <2>3. failed' \in BOOLEAN
    BY <1>7, Zenon DEF Finish, Refuse, Fail, TypeOK
  <2> QED BY <1>7, <2>1, <2>2, <2>3, LeaveType DEF Finish, Refuse, Fail
<1>8. ASSUME NEW w \in Writers, Drop(w) PROVE TypeOK'
    BY <1>8 DEF Drop, TypeOK, backupVars
<1>9. ASSUME NEW n \in Names, Remove(n) PROVE TypeOK'
    BY <1>9 DEF Remove, TypeOK, writerVars, backupVars
<1>10. CASE CollectEnters \/ CollectRemoves \/ CollectCleans
  <2>1. CASE CollectEnters
    BY <2>1 DEF CollectEnters, TypeOK, writerVars, backupVars
  <2>2. CASE CollectRemoves
    BY <2>2 DEF CollectRemoves, TypeOK, gateVars, writerVars, backupVars
  <2>3. CASE CollectCleans
    BY <2>3 DEF CollectCleans, TypeOK, gateVars, writerVars, backupVars
  <2> QED BY <1>10, <2>1, <2>2, <2>3
<1>11. CASE CollectReads
  <2>1. Named \in SUBSET Digest
    BY DEF TypeOK, Named, Digests
  <2> QED BY <1>11, <2>1 DEF CollectReads, TypeOK, writerVars, backupVars
<1>12. CASE CollectDone \/ CollectFails
    BY <1>12 DEF CollectDone, CollectFails, CollectEnds, TypeOK, writerVars, backupVars
<1>13. CASE Snapshot
  <2>1. [n \in Kept |-> rows[n]] \in [Kept -> SUBSET Digest]
    BY BlobsAssumption DEF TypeOK
  <2>2. Digests([n \in Kept |-> rows[n]]) \in SUBSET Digest
    BY <2>1 DEF Digests
  <2> QED BY <1>13, <2>1, <2>2 DEF Snapshot, TypeOK, Backup, gateVars, writerVars
<1>14. CASE ArchiveFile
  <2>1. PICK d \in making.todo :
            making' = [making EXCEPT !.todo = @ \ {d},
                                     !.files = IF d \in files THEN @ \cup {d} ELSE @]
    BY <1>14 DEF ArchiveFile
  <2>2. making \in Backup /\ files \in SUBSET Digest
    BY DEF TypeOK
  <2>3. making' = [rows |-> making.rows, todo |-> making.todo \ {d},
                   files |-> IF d \in files THEN making.files \cup {d} ELSE making.files]
    BY <2>1, <2>2 DEF Backup
  <2>4. making' \in Backup
    BY <2>2, <2>3 DEF Backup
  <2> QED BY <1>14, <2>4 DEF ArchiveFile, TypeOK, gateVars, writerVars
<1>15. CASE Uploaded
    BY <1>15 DEF Uploaded, TypeOK, Backup, None, gateVars, writerVars
<1>16. CASE Crash
    BY <1>16, NoRowsType DEF Crash, TypeOK, Backup, None
<1>17. CASE NothingToMove
    BY <1>17 DEF NothingToMove, TypeOK, writerVars, backupVars
<1>18. CASE UNCHANGED vars
    BY <1>18 DEF vars, TypeOK, gateVars, writerVars, backupVars
<1> QED
    BY <1>1, <1>2, <1>3, <1>4, <1>5, <1>6, <1>7, <1>8, <1>9, <1>10, <1>11, <1>12, <1>13,
       <1>14, <1>15, <1>16, <1>17, <1>18 DEF Next

-----------------------------------------------------------------------------
\* What an agent starts with has its types.
LEMMA InitType ==
    ASSUME Init
    PROVE  TypeOK
<1>1. legacy \in Rows
  <2>1. CASE legacy = NoRows
    BY <2>1, NoRowsType
  <2>2. CASE legacy \in [Names \ Kept -> {{d} : d \in Digest}]
    <3>1. legacy \in [Names \ Kept -> SUBSET Digest] /\ Names \ Kept \in SUBSET Names
      BY <2>2
    <3> QED BY <3>1, SomeRows
  <2> QED BY <2>1, <2>2 DEF Init
<1>2. None \in Backup
  BY DEF None, Backup
<1> QED BY <1>1, <1>2, NoRowsType DEF Init, TypeOK

\* The types hold of every execution, with the command line and late drops or
\* without.
THEOREM TypesHold == Spec => []TypeOK
<1>1. Init => TypeOK
    BY InitType
<1>2. TypeOK /\ [Next]_vars => TypeOK'
    BY TypeStep
<1> QED BY <1>1, <1>2, PTL DEF Spec

-----------------------------------------------------------------------------
\* A request that a step leaves alone, and whose files it does not remove,
\* stays sound.
LEMMA OthersSound ==
    ASSUME NEW v \in Writers, Sound(v), files \subseteq files',
           pc'[v] = pc[v], kind'[v] = kind[v], change'[v] = change[v],
           todo'[v] = todo[v], put'[v] = put[v],
           v \in shared => v \in shared'
    PROVE  Sound(v)'
  BY DEF Sound

\* While a collection has the gate no request is inside, and none holds files.
LEMMA NobodyInside ==
    ASSUME IInv, collect # "idle", NEW v \in Writers
    PROVE  pc[v] = "idle" /\ put[v] = {}
  BY DEF IInv, Sound, Alone

\* A request begins while nothing is collected, owing the files of its rows
\* unless it restores.
LEMMA BeginSound ==
    ASSUME Foreign = {}, IInv, NEW w \in Writers, NEW k, NEW new, NEW fs, Begin(w, k, new, fs),
           k = "restore" \/ \A n \in DOMAIN new : new[n] \subseteq fs
    PROVE  (\A v \in Writers : Sound(v)') /\ Alone' /\ Covered' /\ HasFiles'
<1> USE DEF Begin
<1>1. ASSUME NEW v \in Writers, v # w PROVE Sound(v)'
    BY <1>1, OthersSound DEF IInv, TypeOK
<1>2. Sound(w)'
    BY DEF IInv, TypeOK, Sound
<1>3. Alone' /\ Covered' /\ HasFiles'
    BY DEF IInv, Alone, Covered, HasFiles
<1> QED BY <1>1, <1>2, <1>3

\* A request that leaves holds nothing.
LEMMA LeaveSound ==
    ASSUME IInv, NEW w \in Writers, Leave(w)
    PROVE  (\A v \in Writers : Sound(v)') /\ Alone' /\ Covered' /\ HasFiles'
<1> USE DEF Leave
<1>1. ASSUME NEW v \in Writers, v # w PROVE Sound(v)'
    BY <1>1, OthersSound DEF IInv, TypeOK
<1>2. Sound(w)'
    BY DEF IInv, TypeOK, Sound
<1>3. Alone' /\ Covered' /\ HasFiles'
    BY DEF IInv, Alone, Covered, HasFiles
<1> QED BY <1>1, <1>2, <1>3

\* A step that leaves requests, rows, files and the gate alone.
LEMMA Aside ==
    ASSUME IInv, UNCHANGED <<rows, files, lost, shared, collect, named>>, UNCHANGED writerVars
    PROVE  (\A v \in Writers : Sound(v)') /\ Alone' /\ Covered' /\ HasFiles'
<1>1. ASSUME NEW v \in Writers PROVE Sound(v)'
    BY OthersSound DEF IInv, writerVars
<1>2. Alone' /\ Covered' /\ HasFiles'
    BY DEF IInv, Alone, Covered, HasFiles
<1> QED BY <1>1, <1>2

\* One file put: found, staged or renamed into place.
LEMMA PutSound ==
    ASSUME IInv, NEW w \in Writers, PutFound(w) \/ Stage(w) \/ Rename(w)
    PROVE  (\A v \in Writers : Sound(v)') /\ Alone' /\ Covered' /\ HasFiles'
<1>1. CASE PutFound(w)
  <2>1. ASSUME NEW v \in Writers, v # w PROVE Sound(v)'
    BY <1>1, <2>1, OthersSound DEF IInv, TypeOK, PutFound, gateVars
  <2>2. Sound(w)'
    BY <1>1 DEF IInv, TypeOK, Sound, PutFound, gateVars
  <2>3. Alone' /\ Covered' /\ HasFiles'
    BY <1>1 DEF IInv, Alone, Covered, HasFiles, PutFound, gateVars
  <2> QED BY <2>1, <2>2, <2>3
<1>2. CASE Stage(w)
  <2>1. ASSUME NEW v \in Writers, v # w PROVE Sound(v)'
    BY <1>2, <2>1, OthersSound DEF IInv, TypeOK, Stage, gateVars
  <2>2. Sound(w)'
    BY <1>2 DEF IInv, TypeOK, Sound, Stage, gateVars
  <2>3. Alone' /\ Covered' /\ HasFiles'
    BY <1>2 DEF IInv, Alone, Covered, HasFiles, Stage, gateVars
  <2> QED BY <2>1, <2>2, <2>3
<1>3. CASE Rename(w)
  <2>1. ASSUME NEW v \in Writers, v # w PROVE Sound(v)'
    BY <1>3, <2>1, OthersSound DEF IInv, TypeOK, Rename, gateVars
  <2>2. Sound(w)'
    BY <1>3 DEF IInv, TypeOK, Sound, Rename, gateVars
  <2>3. Alone' /\ Covered' /\ HasFiles'
    BY <1>3 DEF IInv, Alone, Covered, HasFiles, Rename, gateVars
  <2> QED BY <2>1, <2>2, <2>3
<1> QED BY <1>1, <1>2, <1>3

\* The rows are written: their files were put, or are recorded as lost.
LEMMA ApplySound ==
    ASSUME IInv, NEW w \in Writers, Apply(w)
    PROVE  (\A v \in Writers : Sound(v)') /\ Alone' /\ Covered' /\ HasFiles'
<1>0. /\ pc[w] = "submitted" /\ collect = "idle" /\ todo[w] = {} /\ put[w] \subseteq files
      /\ w \in shared
    BY DEF IInv, Sound, Alone, Apply
<1>1. ASSUME NEW v \in Writers, v # w PROVE Sound(v)'
    BY <1>0, <1>1, OthersSound DEF IInv, TypeOK, Apply, gateVars
<1>2. Sound(w)'
    BY <1>0 DEF IInv, TypeOK, Sound, Apply, gateVars
<1>3. Alone' /\ Covered'
    BY <1>0 DEF IInv, Alone, Covered, Apply, gateVars
<1>4. ASSUME NEW n \in Names PROVE rows'[n] \subseteq files' \cup lost'
  <2>1. files' = files /\ lost \subseteq lost'
    BY DEF Apply
  <2>2. CASE n \notin DOMAIN change[w]
    <3>1. rows'[n] = rows[n]
      BY <2>2 DEF Apply, Written
    <3> QED BY <2>1, <3>1 DEF IInv, HasFiles
  <2>3. CASE n \in DOMAIN change[w]
    <3>1. rows'[n] = change[w][n]
      BY <2>3 DEF Apply, Written
    <3>2. CASE kind[w] = "restore"
      <4>1. lost' = lost \cup (Digests(change[w]) \ put[w])
        BY <3>2 DEF Apply
      <4>2. change[w][n] \subseteq Digests(change[w])
        BY <2>3 DEF Digests
      <4> QED BY <1>0, <2>1, <3>1, <4>1, <4>2
    <3>3. CASE kind[w] # "restore"
      <4>1. change[w][n] \subseteq put[w]
        BY <1>0, <2>3, <3>3 DEF IInv, Sound
      <4> QED BY <1>0, <2>1, <3>1, <4>1
    <3> QED BY <3>2, <3>3
  <2> QED BY <2>2, <2>3
<1> QED BY <1>1, <1>2, <1>3, <1>4 DEF HasFiles

-----------------------------------------------------------------------------
\* Every step keeps the invariant.
LEMMA InvStep ==
    ASSUME Foreign = {}, LateDrops = FALSE, IInv, [Next]_vars
    PROVE  IInv'
<1> DEFINE Preserved == (\A v \in Writers : Sound(v)') /\ Alone' /\ Covered' /\ HasFiles'
<1>0. TypeOK'
    BY TypeStep DEF IInv
<1> SUFFICES Preserved
    BY <1>0 DEF IInv
<1>1. ASSUME NEW w \in Writers, Store(w) PROVE Preserved
  <2>1. PICK n \in Names : \E D \in Packages(n) : Begin(w, "store", [m \in {n} |-> D], D)
    BY <1>1 DEF Store
  <2>2. PICK D \in Packages(n) : Begin(w, "store", [m \in {n} |-> D], D)
    BY <2>1
  <2>3. \A m \in DOMAIN [m \in {n} |-> D] : [m1 \in {n} |-> D][m] \subseteq D
    OBVIOUS
  <2> QED BY <2>2, <2>3, BeginSound
<1>2. ASSUME NEW w \in Writers, Restore(w) PROVE Preserved
    BY <1>2, BeginSound DEF Restore
<1>3. ASSUME NEW w \in Writers, Move(w) PROVE Preserved
  <2>1. \A n \in DOMAIN legacy : legacy[n] \subseteq Digests(legacy)
    BY DEF Digests
  <2> QED BY <1>3, <2>1, BeginSound DEF Move
<1>4. ASSUME NEW w \in Writers, PutFound(w) \/ Stage(w) \/ Rename(w) PROVE Preserved
    BY <1>4, PutSound
<1>5. ASSUME NEW w \in Writers, Submit(w) PROVE Preserved
  <2>1. ASSUME NEW v \in Writers, v # w PROVE Sound(v)'
    BY <1>5, <2>1, OthersSound DEF IInv, TypeOK, Submit, gateVars
  <2>2. Sound(w)'
    BY <1>5 DEF IInv, TypeOK, Sound, Submit, gateVars
  <2>3. Alone' /\ Covered' /\ HasFiles'
    BY <1>5 DEF IInv, Alone, Covered, HasFiles, Submit, gateVars
  <2> QED BY <2>1, <2>2, <2>3
<1>6. ASSUME NEW w \in Writers, Apply(w) PROVE Preserved
    BY <1>6, ApplySound
<1>7. ASSUME NEW w \in Writers, Finish(w) \/ Refuse(w) \/ Fail(w) PROVE Preserved
    BY <1>7, LeaveSound DEF Finish, Refuse, Fail
<1>8. ASSUME NEW w \in Writers, Drop(w) PROVE Preserved
  <2>1. pc[w] \in {"in", "staged"}
    BY <1>8 DEF Drop, Droppable
  <2>2. ASSUME NEW v \in Writers, v # w PROVE Sound(v)'
    BY <1>8, <2>2, OthersSound DEF IInv, TypeOK, Drop
  <2>3. Sound(w)'
    BY <1>8, <2>1 DEF IInv, TypeOK, Sound, Drop
  <2>4. Alone' /\ Covered' /\ HasFiles'
    BY <1>8 DEF IInv, Alone, Covered, HasFiles, Drop
  <2> QED BY <2>2, <2>3, <2>4
<1>9. ASSUME NEW n \in Names, Remove(n) PROVE Preserved
  <2>1. ASSUME NEW v \in Writers PROVE Sound(v)'
    BY <1>9, OthersSound DEF IInv, Remove, writerVars
  <2>2. \A m \in Names : rows'[m] \subseteq rows[m]
    BY <1>9 DEF Remove, IInv, TypeOK
  <2>3. Alone' /\ Covered' /\ HasFiles'
    BY <1>9, <2>2 DEF IInv, Alone, Covered, HasFiles, Remove
  <2> QED BY <2>1, <2>3
<1>10. CASE CollectEnters \/ CollectReads
  <2>1. ASSUME NEW v \in Writers PROVE Sound(v)'
    BY <1>10, OthersSound DEF IInv, CollectEnters, CollectReads, writerVars
  <2>2. Alone' /\ HasFiles'
    BY <1>10 DEF IInv, Alone, HasFiles, CollectEnters, CollectReads
  <2>3. Covered'
    <3>1. CASE CollectEnters
      BY <3>1 DEF Covered, CollectEnters
    <3>2. CASE CollectReads
      <4>1. \A n \in Names : rows[n] \subseteq Named
        BY DEF Named, Digests, IInv, TypeOK
      <4> QED BY <3>2, <4>1 DEF Covered, CollectReads
    <3> QED BY <1>10, <3>1, <3>2
  <2> QED BY <2>1, <2>2, <2>3
<1>11. CASE CollectRemoves
  <2>1. PICK d \in files \ named : files' = files \ {d}
    BY <1>11 DEF CollectRemoves
  <2>2. ASSUME NEW v \in Writers PROVE Sound(v)'
    <3>1. pc[v] = "idle" /\ put[v] = {}
      BY <1>11, NobodyInside DEF CollectRemoves
    <3> QED BY <1>11, <3>1 DEF CollectRemoves, Sound, writerVars
  <2>3. HasFiles'
    BY <1>11, <2>1 DEF IInv, HasFiles, Covered, CollectRemoves
  <2>4. Alone' /\ Covered'
    BY <1>11 DEF IInv, Alone, Covered, CollectRemoves, gateVars
  <2> QED BY <2>2, <2>3, <2>4
<1>12. CASE CollectDone \/ CollectFails
  <2>1. ASSUME NEW v \in Writers PROVE Sound(v)'
    BY <1>12, OthersSound DEF IInv, CollectDone, CollectFails, CollectEnds, writerVars
  <2>2. Alone' /\ Covered' /\ HasFiles'
    BY <1>12 DEF IInv, Alone, Covered, HasFiles, CollectDone, CollectFails, CollectEnds
  <2> QED BY <2>1, <2>2
<1>13. CASE CollectCleans
    BY <1>13, Aside DEF CollectCleans, gateVars
<1>14. CASE Snapshot
    BY <1>14, Aside DEF Snapshot, gateVars
<1>15. CASE ArchiveFile \/ Uploaded
    BY <1>15, Aside DEF ArchiveFile, Uploaded, gateVars
<1>16. CASE NothingToMove
    BY <1>16, Aside DEF NothingToMove
<1>17. CASE UNCHANGED vars
    BY <1>17, Aside DEF vars, gateVars
<1>18. CASE Crash
  <2>1. ASSUME NEW v \in Writers PROVE Sound(v)'
    BY <1>18 DEF Crash, Sound
  <2>2. Alone' /\ Covered' /\ HasFiles'
    BY <1>18 DEF IInv, Alone, Covered, HasFiles, Crash
  <2> QED BY <2>1, <2>2
<1> QED
    BY <1>1, <1>2, <1>3, <1>4, <1>5, <1>6, <1>7, <1>8, <1>9, <1>10, <1>11, <1>12, <1>13,
       <1>14, <1>15, <1>16, <1>17, <1>18 DEF Next

\* The invariant holds of every execution of one agent whose requests see
\* their commits through.
LEMMA Invariant ==
    ASSUME Foreign = {}, LateDrops = FALSE
    PROVE  Spec => []IInv
<1>1. Init => IInv
  <2> SUFFICES ASSUME Init PROVE IInv
    OBVIOUS
  <2>1. TypeOK
    BY InitType
  <2> QED BY <2>1 DEF Init, IInv, Sound, Alone, Covered, HasFiles
<1>2. IInv /\ [Next]_vars => IInv'
    BY InvStep
<1> QED BY <1>1, <1>2, PTL DEF Spec

\* blobs.rs: "a file written and not yet named by its row is never taken for
\* garbage", for any number of requests beside the collector.
THEOREM FilesPutStay ==
    ASSUME Foreign = {}, LateDrops = FALSE
    PROVE  Spec => []PutStays
<1>1. IInv => PutStays
    BY DEF IInv, Sound, PutStays
<1> QED BY <1>1, Invariant, PTL

\* Every digest a row names has its file, or was restored without it.
THEOREM RowsHaveFiles ==
    ASSUME Foreign = {}, LateDrops = FALSE
    PROVE  Spec => []NamedHasFile
<1>1. IInv => NamedHasFile
    BY DEF IInv, TypeOK, HasFiles, NamedHasFile, Named, Digests
<1> QED BY <1>1, Invariant, PTL

-----------------------------------------------------------------------------
(***************************************************************************)
(* That garbage is always owed to a collection.  GarbageIsDue itself is    *)
(* not inductive: a theme installed for the first time finishes and owes   *)
(* none, so it must have replaced nothing (Packed, in Owed); and the end   *)
(* of a collection settles everything only if what it read is still named, *)
(* or somebody owes another one (Fresh).                                   *)
(***************************************************************************)

\* A request that stores puts nothing but what its rows will name, and once
\* they are written holds nothing.
Packed(w) ==
    /\ (pc[w] \in {"in", "staged", "submitted"} /\ kind[w] = "store")
           => \A d \in put[w] \cup todo[w] : \E n \in DOMAIN change[w] : d \in change[w][n]
    /\ pc[w] = "applied" => put[w] = {}
    /\ kind[w] = "first" => pc[w] = "applied"

\* What a collection has read is named, unless a row went and owes another.
Fresh == collect = "removing" => due > 0 \/ \A d \in named : \E n \in Names : d \in rows[n]

\* Every file is named or held by a request.
Clean == \A d \in files : (\E n \in Names : d \in rows[n]) \/ \E w \in Writers : d \in put[w]

\* What will see to a file that is neither.
Pending ==
    \/ boot # "up" \/ due > 0 \/ collect # "idle" \/ failed
    \/ \E w \in Writers : pc[w] = "applied" /\ kind[w] # "first"
Owed == Pending \/ Clean

GInv == IInv /\ (\A w \in Writers : Packed(w)) /\ Fresh /\ Owed

\* A request that a step leaves alone stays packed.
LEMMA OthersPacked ==
    ASSUME NEW v \in Writers, Packed(v),
           pc'[v] = pc[v], kind'[v] = kind[v], change'[v] = change[v],
           todo'[v] = todo[v], put'[v] = put[v]
    PROVE  Packed(v)'
  BY DEF Packed

\* Files stay named or held where rows and holds only grow.
LEMMA CleanKept ==
    ASSUME Clean, files' \subseteq files, \A n \in Names : rows[n] \subseteq rows'[n],
           \A v \in Writers : put[v] \subseteq put'[v]
    PROVE  Clean'
  BY DEF Clean

\* What is pending stays so in a step that settles none of it.
LEMMA PendingKept ==
    ASSUME Pending, boot' = boot, due' = due, collect' = collect, failed' = failed,
           \A v \in Writers : pc[v] = "applied" /\ kind[v] # "first"
                                  => pc'[v] = "applied" /\ kind'[v] # "first"
    PROVE  Pending'
  BY DEF Pending

\* A step that leaves requests, rows, files, the gate and the start alone.
LEMMA GarbageAside ==
    ASSUME GInv, UNCHANGED <<rows, files, boot, gateVars, writerVars, failed>>
    PROVE  (\A v \in Writers : Packed(v)') /\ Fresh' /\ Owed'
<1> USE DEF gateVars, writerVars
<1>1. ASSUME NEW v \in Writers PROVE Packed(v)'
    BY OthersPacked DEF GInv
<1>2. Fresh'
    BY DEF GInv, Fresh
<1>3. Owed'
    BY PendingKept, CleanKept DEF GInv, Owed
<1> QED BY <1>1, <1>2, <1>3

\* A request begins with nothing put, and a store owes what its rows name.
LEMMA BeginGarbage ==
    ASSUME Foreign = {}, GInv, NEW w \in Writers, NEW k, NEW new, NEW fs, Begin(w, k, new, fs),
           k # "first", k = "store" => \A d \in fs : \E n \in DOMAIN new : d \in new[n]
    PROVE  (\A v \in Writers : Packed(v)') /\ Fresh' /\ Owed'
<1> USE DEF Begin
<1>1. ASSUME NEW v \in Writers, v # w PROVE Packed(v)'
    BY <1>1, OthersPacked DEF GInv, IInv, TypeOK
<1>2. Packed(w)'
  <2>1. put[w] = {}
    BY DEF GInv, IInv, Sound
  <2> QED BY <2>1 DEF GInv, IInv, TypeOK, Packed
<1>3. Fresh'
    BY DEF GInv, Fresh
<1>4. Owed'
  <2>1. CASE Pending
    <3>1. \A v \in Writers : pc[v] = "applied" => pc'[v] = "applied" /\ kind'[v] = kind[v]
      BY DEF GInv, IInv, TypeOK
    <3> QED BY <2>1, <3>1, PendingKept DEF Owed
  <2>2. CASE Clean
    BY <2>2, CleanKept DEF Owed
  <2> QED BY <2>1, <2>2 DEF GInv, Owed
<1> QED BY <1>1, <1>2, <1>3, <1>4

\* A request that leaves takes what it held with it; somebody must see to that.
LEMMA LeaveGarbage ==
    ASSUME GInv, NEW w \in Writers, Leave(w), due' \in Nat, due' >= due, Owed'
    PROVE  (\A v \in Writers : Packed(v)') /\ Fresh' /\ Owed'
<1> USE DEF Leave
<1>1. ASSUME NEW v \in Writers, v # w PROVE Packed(v)'
    BY <1>1, OthersPacked DEF GInv, IInv, TypeOK
<1>2. Packed(w)'
    BY DEF GInv, IInv, TypeOK, Packed
<1>3. Fresh'
    BY DEF GInv, IInv, TypeOK, Fresh
<1> QED BY <1>1, <1>2, <1>3

\* One file put: it is held by the request that put it.
LEMMA PutGarbage ==
    ASSUME GInv, NEW w \in Writers, PutFound(w) \/ Stage(w) \/ Rename(w)
    PROVE  (\A v \in Writers : Packed(v)') /\ Fresh' /\ Owed'
<1> USE DEF gateVars
<1>1. ASSUME NEW v \in Writers, v # w PROVE Packed(v)'
    BY <1>1, OthersPacked DEF GInv, IInv, TypeOK, PutFound, Stage, Rename
<1>2. Packed(w)'
  <2>1. CASE PutFound(w)
    BY <2>1 DEF GInv, IInv, TypeOK, Packed, PutFound
  <2>2. CASE Stage(w)
    BY <2>2 DEF GInv, IInv, TypeOK, Packed, Stage
  <2>3. CASE Rename(w)
    BY <2>3 DEF GInv, IInv, TypeOK, Packed, Rename
  <2> QED BY <2>1, <2>2, <2>3
<1>3. Fresh'
    BY DEF GInv, Fresh, PutFound, Stage, Rename
<1>4. ASSUME Pending PROVE Pending'
  <2>1. \A v \in Writers : pc[v] = "applied" => pc'[v] = "applied" /\ kind'[v] = kind[v]
    BY DEF GInv, IInv, TypeOK, PutFound, Stage, Rename
  <2>2. boot' = boot /\ due' = due /\ collect' = collect /\ failed' = failed
    BY DEF PutFound, Stage, Rename
  <2> QED BY <1>4, <2>1, <2>2, PendingKept
<1>5. ASSUME Clean PROVE Clean'
  <2>1. \A v \in Writers : put[v] \subseteq put'[v]
    BY DEF GInv, IInv, TypeOK, PutFound, Stage, Rename
  <2>2. rows' = rows
    BY DEF PutFound, Stage, Rename
  <2>3. CASE PutFound(w) \/ Stage(w)
    BY <1>5, <2>1, <2>2, <2>3, CleanKept DEF PutFound, Stage
  <2>4. CASE Rename(w)
    <3>1. PICK d \in todo[w] : files' = files \cup {d} /\ put' = [put EXCEPT ![w] = @ \cup {d}]
      BY <2>4 DEF Rename
    <3>2. d \in put'[w]
      BY <3>1 DEF GInv, IInv, TypeOK
    <3> QED BY <1>5, <2>1, <2>2, <3>1, <3>2 DEF Clean
  <2> QED BY <2>3, <2>4
<1> QED BY <1>1, <1>2, <1>3, <1>4, <1>5 DEF GInv, Owed

\* The rows are written: what they replace is owed by the request, unless it
\* is an install that replaces nothing and names all that it put.
LEMMA ApplyGarbage ==
    ASSUME GInv, NEW w \in Writers, Apply(w)
    PROVE  (\A v \in Writers : Packed(v)') /\ Fresh' /\ Owed'
<1>0. /\ pc[w] = "submitted" /\ collect = "idle" /\ w \in shared
      /\ pc' = [pc EXCEPT ![w] = "applied"]
      /\ (First(w) /\ kind' = [kind EXCEPT ![w] = "first"]) \/ kind' = kind
      /\ put' = [put EXCEPT ![w] = {}] /\ change' = [change EXCEPT ![w] = NoRows]
      /\ rows' = Written(w)
      /\ UNCHANGED <<files, boot, collect, named, due, todo, failed>>
    BY DEF GInv, IInv, Sound, Alone, Apply, gateVars
<1>1. ASSUME NEW v \in Writers, v # w PROVE Packed(v)'
    BY <1>0, <1>1, OthersPacked DEF GInv, IInv, TypeOK
<1>2. Packed(w)'
    BY <1>0 DEF GInv, IInv, TypeOK, Packed
<1>3. Fresh'
    BY <1>0 DEF Fresh
<1>4. CASE kind' = kind /\ kind[w] # "first"
  <2>1. pc'[w] = "applied" /\ kind'[w] # "first"
    BY <1>0, <1>4 DEF GInv, IInv, TypeOK
  <2> QED BY <1>1, <1>2, <1>3, <2>1 DEF Owed, Pending
<1>5. CASE First(w) /\ kind' = [kind EXCEPT ![w] = "first"]
  <2>1. CASE Pending
    <3>1. \A v \in Writers : pc[v] = "applied" => v # w
      BY <1>0
    <3>2. \A v \in Writers : pc[v] = "applied" => pc'[v] = "applied" /\ kind'[v] = kind[v]
      BY <1>0, <3>1 DEF GInv, IInv, TypeOK
    <3>3. Pending'
      BY <1>0, <2>1, <3>2, PendingKept
    <3> QED BY <1>1, <1>2, <1>3, <3>3 DEF Owed
  <2>2. CASE Clean
    <3>1. change[w] \in Rows /\ DOMAIN change[w] \subseteq Names
      BY RowsName DEF GInv, IInv, TypeOK
    <3>2. \A n \in Names : rows[n] \subseteq rows'[n]
      BY <1>0, <1>5, <3>1 DEF First, Written
    <3>3. \A d \in put[w] : \E n \in Names : d \in rows'[n]
      BY <1>0, <1>5, <3>1 DEF GInv, Packed, First, Written
    <3>4. \A v \in Writers : v # w => put'[v] = put[v]
      BY <1>0 DEF GInv, IInv, TypeOK
    <3>5. Clean'
      BY <1>0, <2>2, <3>2, <3>3, <3>4 DEF Clean
    <3> QED BY <1>1, <1>2, <1>3, <3>5 DEF Owed
  <2> QED BY <2>1, <2>2 DEF GInv, Owed
<1>6. kind[w] # "first"
    BY <1>0 DEF GInv, Packed
<1> QED BY <1>0, <1>4, <1>5, <1>6

\* A request that is refused, fails or is over.
LEMMA EndGarbage ==
    ASSUME Foreign = {}, GInv, NEW w \in Writers, Finish(w) \/ Refuse(w) \/ Fail(w)
    PROVE  (\A v \in Writers : Packed(v)') /\ Fresh' /\ Owed'
<1>0. due \in Nat
    BY DEF GInv, IInv, TypeOK
<1>1. CASE Refuse(w)
    BY <1>0, <1>1, LeaveGarbage DEF Refuse, Owed, Pending
<1>2. CASE Fail(w)
    BY <1>0, <1>2, LeaveGarbage DEF Fail, Owed, Pending
<1>3. CASE Finish(w)
  <2>1. CASE kind[w] # "first"
    BY <1>0, <1>3, <2>1, LeaveGarbage DEF Finish, Owed, Pending
  <2>2. CASE kind[w] = "first"
    <3>1. Leave(w) /\ due' = due /\ failed' = failed /\ boot' = boot
      BY <1>3, <2>2, Zenon DEF Finish, GInv, IInv, TypeOK
    <3>2. Owed'
      <4>1. CASE Pending
        <5>1. \A v \in Writers : pc[v] = "applied" /\ kind[v] # "first"
                                     => pc'[v] = "applied" /\ kind'[v] # "first"
          BY <2>2, <3>1 DEF Leave, GInv, IInv, TypeOK
        <5> QED BY <3>1, <4>1, <5>1, PendingKept DEF Owed, Leave
      <4>2. CASE Clean
        <5>1. put[w] = {}
          BY <1>3 DEF Finish, GInv, Packed
        <5>2. \A v \in Writers : put[v] \subseteq put'[v]
          BY <3>1, <5>1 DEF Leave, GInv, IInv, TypeOK
        <5> QED BY <3>1, <4>2, <5>2, CleanKept DEF Owed, Leave
      <4> QED BY <4>1, <4>2 DEF GInv, Owed
    <3> QED BY <1>0, <3>1, <3>2, LeaveGarbage
  <2> QED BY <2>1, <2>2
<1> QED BY <1>1, <1>2, <1>3

\* A collection: what it reads is named, what it removes was garbage, and what
\* it leaves when it is done is named or owed to the next.
LEMMA CollectGarbage ==
    ASSUME GInv,
           CollectEnters \/ CollectReads \/ CollectRemoves \/ CollectDone \/ CollectFails
    PROVE  (\A v \in Writers : Packed(v)') /\ Fresh' /\ Owed'
<1> USE DEF gateVars, writerVars
<1>1. ASSUME NEW v \in Writers PROVE Packed(v)'
    BY OthersPacked
    DEF GInv, CollectEnters, CollectReads, CollectRemoves, CollectDone, CollectFails, CollectEnds
<1>2. CASE CollectEnters
    BY <1>1, <1>2 DEF CollectEnters, Fresh, Owed, Pending
<1>3. CASE CollectReads
  <2>1. \A d \in Named : \E n \in Names : d \in rows[n]
    BY DEF Named, Digests, GInv, IInv, TypeOK
  <2> QED BY <1>1, <1>3, <2>1 DEF CollectReads, Fresh, Owed, Pending
<1>4. CASE CollectRemoves
    BY <1>1, <1>4 DEF CollectRemoves, GInv, Fresh, Owed, Pending
<1>5. CASE CollectDone
  <2>1. Fresh' /\ due' = due
    BY <1>5 DEF CollectDone, CollectEnds, Fresh
  <2>2. due > 0 \/ Clean'
    BY <1>5 DEF CollectDone, CollectEnds, GInv, Fresh, Clean
  <2> QED BY <1>1, <2>1, <2>2 DEF Owed, Pending
<1>6. CASE CollectFails
    BY <1>1, <1>6 DEF CollectFails, CollectEnds, Fresh, Owed, Pending
<1> QED BY <1>2, <1>3, <1>4, <1>5, <1>6

\* Every step keeps it.
LEMMA GarbageStep ==
    ASSUME Foreign = {}, LateDrops = FALSE, GInv, [Next]_vars
    PROVE  GInv'
<1> DEFINE Preserved == (\A v \in Writers : Packed(v)') /\ Fresh' /\ Owed'
<1>0. IInv'
    BY InvStep DEF GInv
<1> SUFFICES Preserved
    BY <1>0 DEF GInv
<1>1. ASSUME NEW w \in Writers, Store(w) PROVE Preserved
  <2>1. PICK n \in Names : \E D \in Packages(n) : Begin(w, "store", [m \in {n} |-> D], D)
    BY <1>1 DEF Store
  <2>2. PICK D \in Packages(n) : Begin(w, "store", [m \in {n} |-> D], D)
    BY <2>1
  <2>3. \A d \in D : \E m \in DOMAIN [m \in {n} |-> D] : d \in [m1 \in {n} |-> D][m]
    OBVIOUS
  <2> QED BY <2>2, <2>3, BeginGarbage
<1>2. ASSUME NEW w \in Writers, Restore(w) \/ Move(w) PROVE Preserved
    BY <1>2, BeginGarbage DEF Restore, Move
<1>3. ASSUME NEW w \in Writers, PutFound(w) \/ Stage(w) \/ Rename(w) PROVE Preserved
    BY <1>3, PutGarbage
<1>4. ASSUME NEW w \in Writers, Submit(w) PROVE Preserved
  <2>1. ASSUME NEW v \in Writers, v # w PROVE Packed(v)'
    BY <1>4, <2>1, OthersPacked DEF GInv, IInv, TypeOK, Submit
  <2>2. Packed(w)'
    BY <1>4 DEF GInv, IInv, TypeOK, Packed, Submit
  <2>3. Fresh'
    BY <1>4 DEF GInv, Fresh, Submit, gateVars
  <2>4. \A v \in Writers : pc[v] = "applied" => pc'[v] = "applied" /\ kind'[v] = kind[v]
    BY <1>4 DEF GInv, IInv, TypeOK, Submit
  <2>5. Owed'
    BY <1>4, <2>4, PendingKept, CleanKept DEF GInv, Owed, Submit, gateVars
  <2> QED BY <2>1, <2>2, <2>3, <2>5
<1>5. ASSUME NEW w \in Writers, Apply(w) PROVE Preserved
    BY <1>5, ApplyGarbage
<1>6. ASSUME NEW w \in Writers, Finish(w) \/ Refuse(w) \/ Fail(w) PROVE Preserved
    BY <1>6, EndGarbage
<1>7. ASSUME NEW w \in Writers, Drop(w) PROVE Preserved
  <2>1. pc[w] \in {"in", "staged"}
    BY <1>7 DEF Drop, Droppable
  <2>2. ASSUME NEW v \in Writers, v # w PROVE Packed(v)'
    BY <1>7, <2>2, OthersPacked DEF GInv, IInv, TypeOK, Drop
  <2>3. Packed(w)'
    BY <1>7, <2>1 DEF GInv, IInv, TypeOK, Packed, Drop
  <2>4. Fresh' /\ Owed'
    BY <1>7 DEF GInv, Fresh, Owed, Pending, Drop
  <2> QED BY <2>2, <2>3, <2>4
<1>8. ASSUME NEW n \in Names, Remove(n) PROVE Preserved
  <2>1. due' > 0
    BY <1>8 DEF Remove, GInv, IInv, TypeOK
  <2>2. ASSUME NEW v \in Writers PROVE Packed(v)'
    BY <1>8, OthersPacked DEF GInv, Remove, writerVars
  <2> QED BY <2>1, <2>2 DEF Fresh, Owed, Pending
<1>9. CASE CollectEnters \/ CollectReads \/ CollectRemoves \/ CollectDone \/ CollectFails
    BY <1>9, CollectGarbage
<1>10. CASE CollectCleans \/ Snapshot \/ ArchiveFile \/ Uploaded
    BY <1>10, GarbageAside DEF CollectCleans, Snapshot, ArchiveFile, Uploaded
<1>11. CASE NothingToMove
  <2>1. ASSUME NEW v \in Writers PROVE Packed(v)'
    BY <1>11, OthersPacked DEF GInv, NothingToMove, writerVars
  <2>2. Fresh' /\ Owed'
    BY <1>11 DEF NothingToMove, GInv, IInv, TypeOK, Fresh, Owed, Pending
  <2> QED BY <2>1, <2>2
<1>12. CASE Crash
  <2>1. ASSUME NEW v \in Writers PROVE Packed(v)'
    BY <1>12 DEF Crash, Packed
  <2>2. Fresh' /\ Owed'
    BY <1>12 DEF Crash, Fresh, Owed, Pending
  <2> QED BY <2>1, <2>2
<1>13. CASE UNCHANGED vars
    BY <1>13, GarbageAside DEF vars
<1> QED
    BY <1>1, <1>2, <1>3, <1>4, <1>5, <1>6, <1>7, <1>8, <1>9, <1>10, <1>11, <1>12, <1>13
    DEF Next

\* blobs.rs: a collection is spawned whenever a row was replaced or removed, so
\* nothing unnamed stays without one to come, unless something failed.
THEOREM GarbageIsOwed ==
    ASSUME Foreign = {}, LateDrops = FALSE
    PROVE  Spec => []GarbageIsDue
<1>1. Init => GInv
  <2> SUFFICES ASSUME Init PROVE GInv
    OBVIOUS
  <2>1. IInv
    BY InitType DEF Init, IInv, Sound, Alone, Covered, HasFiles
  <2> QED BY <2>1 DEF Init, GInv, Packed, Fresh, Owed, Pending
<1>2. GInv /\ [Next]_vars => GInv'
    BY GarbageStep
<1>3. GInv => GarbageIsDue
  <2>1. Clean /\ TypeOK => files \subseteq Named \cup InUse
    BY DEF Clean, TypeOK, Named, Digests, InUse
  <2>2. Pending => GarbageIsDue
    BY DEF Pending, GarbageIsDue
  <2> QED BY <2>1, <2>2 DEF GInv, IInv, Owed, GarbageIsDue
<1> QED BY <1>1, <1>2, <1>3, PTL DEF Spec

-----------------------------------------------------------------------------
(***************************************************************************)
(* That the store with its files, its gate, its collector and its restarts *)
(* implements AtomicStore.  Where rows have their files a name holds what  *)
(* its rows say (ContentsAreRows), so a collection, whatever it removes,   *)
(* and a put, whatever it adds, are stutters; of the steps that are not,   *)
(* each is one of the four of the abstract store.                          *)
(***************************************************************************)

\* To one who reads a name, it holds what its rows name, before a step and
\* after it.
LEMMA ContentsAreRows ==
    ASSUME IInv, IInv'
    PROVE  Contents = rows /\ Contents' = rows'
  BY DEF IInv, TypeOK, HasFiles, Contents

\* What a request still waits for, request by request.
LEMMA AskedOf ==
    ASSUME NEW w \in Writers
    PROVE  Asked[w] = IF pc[w] \in {"idle", "applied"} THEN NoRows ELSE change[w]
  BY DEF Asked

\* A step that changes neither rows nor what is asked for is not seen.
LEMMA Unseen ==
    ASSUME IInv, IInv', rows' = rows, \A v \in Writers : Asked'[v] = Asked[v]
    PROVE  UNCHANGED <<Contents, Asked>>
<1>1. Contents = rows /\ Contents' = rows'
    BY ContentsAreRows
<1>2. Asked' = Asked
    BY DEF Asked
<1> QED BY <1>1, <1>2

\* What is asked for depends on nothing but where a request is and its rows.
LEMMA AskedKept ==
    ASSUME NEW v \in Writers, pc'[v] = pc[v], change'[v] = change[v]
    PROVE  Asked'[v] = Asked[v]
  BY DEF Asked

\* A request that begins asks.
LEMMA BeginAsks ==
    ASSUME IInv, IInv', NEW w \in Writers, NEW k, NEW new \in Rows, NEW fs,
           Begin(w, k, new, fs)
    PROVE  Atomic!Ask(w)
<1>1. Contents' = Contents
    BY ContentsAreRows DEF Begin
<1>2. Asked[w] = Atomic!Nothing
    BY AskedOf DEF Begin, NoRows, Atomic!Nothing
<1>3. Asked' = [Asked EXCEPT ![w] = new]
    BY DEF Asked, Begin, IInv, TypeOK
<1>4. new \in Atomic!Changes
    BY DEF Rows, Atomic!Changes
<1> QED BY <1>1, <1>2, <1>3, <1>4 DEF Atomic!Ask

\* The rows written are the change asked for, made at once.
LEMMA ApplyMakes ==
    ASSUME IInv, IInv', NEW w \in Writers, Apply(w)
    PROVE  Atomic!Make(w)
<1>0. pc[w] = "submitted"
    BY DEF IInv, Sound, Apply
<1>1. Contents = rows /\ Contents' = rows' /\ rows' = Written(w)
    BY ContentsAreRows DEF Apply
<1>2. Asked[w] = change[w]
    BY <1>0, AskedOf
<1>3. Asked' = [Asked EXCEPT ![w] = Atomic!Nothing]
    BY <1>0 DEF Asked, Apply, IInv, TypeOK, NoRows, Atomic!Nothing
<1> QED BY <1>1, <1>2, <1>3 DEF Atomic!Make, Written

\* Requests that end without their rows, all of C at once, give up.
LEMMA EndsGiveUp ==
    ASSUME IInv, IInv', rows' = rows, NEW C \in SUBSET Writers,
           \A v \in C : pc'[v] = "idle",
           \A v \in Writers \ C : pc'[v] = pc[v] /\ change'[v] = change[v]
    PROVE  Atomic!GiveUp
<1>1. Contents' = Contents
    BY ContentsAreRows
<1>2. Asked' = [v \in Writers |-> IF v \in C THEN Atomic!Nothing ELSE Asked[v]]
    BY DEF Asked, NoRows, Atomic!Nothing
<1> QED BY <1>1, <1>2 DEF Atomic!GiveUp

\* A row removed is a name emptied.
LEMMA RemoveRemoves ==
    ASSUME IInv, IInv', NEW n \in Names, Remove(n)
    PROVE  Atomic!Remove(n)
<1>1. Contents = rows /\ Contents' = rows'
    BY ContentsAreRows
<1>2. Asked' = Asked
    BY DEF Asked, Remove, writerVars
<1> QED BY <1>1, <1>2 DEF Remove, Atomic!Remove

\* Every step of the store is a step of the abstract one, or is not seen.
LEMMA StepImplements ==
    ASSUME Foreign = {}, LateDrops = FALSE, IInv, IInv', [Next]_vars
    PROVE  [Atomic!Next]_<<Contents, Asked>>
<1> DEFINE Seen == Atomic!Next \/ UNCHANGED <<Contents, Asked>>
<1> SUFFICES Seen
    OBVIOUS
<1>1. ASSUME NEW w \in Writers, Store(w) PROVE Seen
  <2>1. PICK n \in Names : \E D \in Packages(n) : Begin(w, "store", [m \in {n} |-> D], D)
    BY <1>1 DEF Store
  <2>2. PICK D \in Packages(n) : Begin(w, "store", [m \in {n} |-> D], D)
    BY <2>1
  <2>3. D \in SUBSET Digest
    BY DEF Packages
  <2>4. {n} \in SUBSET Names /\ [m \in {n} |-> D] \in [{n} -> SUBSET Digest]
    BY <2>3
  <2>5. [m \in {n} |-> D] \in Rows
    BY <2>4, SomeRows
  <2> QED BY <2>2, <2>5, BeginAsks DEF Atomic!Next
<1>2. ASSUME NEW w \in Writers, Restore(w) PROVE Seen
  <2>1. archive.rows \in [Kept -> SUBSET Digest]
    BY DEF IInv, TypeOK, Backup
  <2>2. archive.rows \in Rows
    BY <2>1, SomeRows, BlobsAssumption
  <2> QED BY <1>2, <2>2, BeginAsks DEF Restore, Atomic!Next
<1>3. ASSUME NEW w \in Writers, Move(w) PROVE Seen
  <2>1. legacy \in Rows
    BY DEF IInv, TypeOK
  <2> QED BY <1>3, <2>1, BeginAsks DEF Move, Atomic!Next
<1>4. ASSUME NEW w \in Writers, PutFound(w) \/ Stage(w) \/ Rename(w) \/ Submit(w)
      PROVE  Seen
  <2>1. rows' = rows /\ change' = change
    BY <1>4 DEF PutFound, Stage, Rename, Submit
  <2>2. \A v \in Writers : v # w => pc'[v] = pc[v]
    BY <1>4 DEF PutFound, Stage, Rename, Submit, IInv, TypeOK
  <2>3. pc[w] \notin {"idle", "applied"} /\ pc'[w] \notin {"idle", "applied"}
    BY <1>4 DEF PutFound, Stage, Rename, Submit, IInv, TypeOK
  <2>4. \A v \in Writers : Asked'[v] = Asked[v]
    BY <2>1, <2>2, <2>3 DEF Asked
  <2> QED BY <2>1, <2>4, Unseen
<1>5. ASSUME NEW w \in Writers, Apply(w) PROVE Seen
    BY <1>5, ApplyMakes DEF Atomic!Next
<1>6. ASSUME NEW w \in Writers, Finish(w) \/ Refuse(w) \/ Fail(w) \/ Drop(w) PROVE Seen
  <2>1. rows' = rows /\ pc'[w] = "idle"
    BY <1>6 DEF Finish, Refuse, Fail, Drop, Droppable, Leave, IInv, TypeOK
  <2>2. \A v \in Writers : v # w => pc'[v] = pc[v] /\ change'[v] = change[v]
    BY <1>6 DEF Finish, Refuse, Fail, Drop, Leave, IInv, TypeOK
  <2>3. {w} \in SUBSET Writers /\ \A v \in {w} : pc'[v] = "idle"
    BY <2>1
  <2>4. \A v \in Writers \ {w} : pc'[v] = pc[v] /\ change'[v] = change[v]
    BY <2>2
  <2>5. Atomic!GiveUp
    BY <2>1, <2>3, <2>4, EndsGiveUp
  <2> QED BY <2>5 DEF Atomic!Next
<1>7. ASSUME NEW n \in Names, Remove(n) PROVE Seen
    BY <1>7, RemoveRemoves DEF Atomic!Next
<1>8. CASE Crash
  <2>1. rows' = rows /\ \A v \in Writers : pc'[v] = "idle"
    BY <1>8 DEF Crash
  <2>2. Writers \in SUBSET Writers /\ Writers \ Writers = {}
    OBVIOUS
  <2>3. Atomic!GiveUp
    BY <2>1, <2>2, EndsGiveUp
  <2> QED BY <2>3 DEF Atomic!Next
<1>9. ASSUME UNCHANGED <<rows, writerVars>> PROVE Seen
    BY <1>9, AskedKept, Unseen DEF writerVars
<1>10. CASE \/ CollectEnters \/ CollectReads \/ CollectRemoves \/ CollectCleans
            \/ CollectDone \/ CollectFails \/ NothingToMove
    BY <1>9, <1>10 DEF CollectEnters, CollectReads, CollectRemoves, CollectCleans, CollectDone,
                       CollectFails, CollectEnds, NothingToMove
<1>11. CASE Snapshot \/ ArchiveFile \/ Uploaded
  <2>1. UNCHANGED <<rows, writerVars>>
    BY <1>11, Zenon DEF Snapshot, ArchiveFile, Uploaded
  <2> QED BY <1>9, <2>1
<1>12. CASE UNCHANGED vars
    BY <1>9, <1>12 DEF vars
<1> QED
    BY <1>1, <1>2, <1>3, <1>4, <1>5, <1>6, <1>7, <1>8, <1>10, <1>11, <1>12 DEF Next

\* The blob store is an atomic store: nothing but the commit of a request
\* changes what can be read by name, wherever an agent is killed, a request
\* fails or is dropped, or a collection runs.
THEOREM StoreIsAtomic ==
    ASSUME Foreign = {}, LateDrops = FALSE
    PROVE  Spec => ImplementsAtomicStore
<1>1. Init => Atomic!Init
    BY DEF Init, Atomic!Init, Contents, Asked, NoRows, Atomic!Nothing
<1>2. IInv /\ IInv' /\ [Next]_vars => [Atomic!Next]_<<Contents, Asked>>
    BY StepImplements
<1>3. Spec => []IInv
    BY Invariant
<1> QED BY <1>1, <1>2, <1>3, PTL DEF Spec, ImplementsAtomicStore, Atomic!Spec
=============================================================================
