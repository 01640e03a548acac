------------------------------- MODULE StoreProofs -------------------------------
(***************************************************************************)
(* Proofs about the snapshot store, for any number of requests, failures,  *)
(* kills and losses of power: when its backup stays readable, that it      *)
(* implements DurableWorld while undisturbed, and how much a damage or a   *)
(* failed read costs.                                                      *)
(***************************************************************************)
EXTENDS SnapshotStore, TLAPS

----------------------------------------------------------------------------
(* What is on disk and in memory at each file operation. *)

Saving == pc \in SaveStep \cup RollbackStep

BeforeRename == {"write", "write_backup", "rename_backup", "sync_backup", "rename"}

(* What is known of the files, whatever happens to the primary. *)
FilesInv ==
  /\ \A t \in Temporary : staged[t].synced
  /\ \A f \in File : view[f] \in possible[f]

(* Only a race lets torn bytes pass from the primary to the backup. *)
RacedInv ==
  /\ raced => damage # 0
  /\ ~raced => Torn \notin possible["backup"]
  /\ pc = "write_backup" /\ ~raced => view["primary"] # Torn
  /\ pc = "rename_backup" => staged["bak.tmp"].bytes # Absent
  /\ pc = "rename_backup" /\ ~raced => staged["bak.tmp"].bytes # Torn

(* A proposal exists while save runs, and is what save writes. *)
ProposalInv ==
  /\ Saving => requests >= 1 /\ \E w \in World : proposal = {w}
  /\ ~Saving => proposal = {}
  /\ pc \in BeforeRename \ {"write"} => staged["tmp"].bytes \in proposal
  /\ pc = "saved" /\ view["primary"] \in proposal => possible["primary"] = proposal

(* What a rollback puts back, and what a restoration copies. *)
CopyInv ==
  /\ pc \in {"rollback_write", "rollback_rename"} => previous \notin {Absent, Unseen}
  /\ pc = "rollback_rename" => staged["rollback.tmp"].bytes = previous
  /\ pc = "rollback_remove" => previous \in {Absent, Unseen}
  /\ pc \in {"restore_write", "restore_rename"} => Readable(view["backup"])
  /\ pc = "restore_rename" => staged["restore.tmp"].bytes = view["backup"]
  /\ pc = "restore_sync" => Readable(staged["restore.tmp"].bytes)

(* More is known while nobody has damaged the primary. *)
WholeInv ==
  /\ Torn \notin possible["primary"] /\ previous # Torn
  /\ pc = "write_backup" => Readable(view["primary"])
  /\ pc = "rename_backup" => Readable(view["primary"]) /\ staged["bak.tmp"].bytes = view["primary"]
  /\ pc \in BeforeRename /\ previous # Unseen => view["primary"] = previous
  /\ pc \in BeforeRename \cup {"sync"} \cup RollbackStep =>
       previous \in possible["primary"] \cup {Unseen}
  /\ pc \in {"sync", "saved"} => view["primary"] \in proposal
  /\ pc = "restore_sync" => staged["restore.tmp"].bytes = view["primary"]
  /\ pc \in {"restore_write", "restore_rename"} /\ passed = 0 => ~Readable(view["primary"])

StoreInv ==
  /\ TypeOK /\ FilesInv /\ RacedInv /\ ProposalInv /\ CopyInv
  /\ damage = 0 => WholeInv

LEMMA ReadableIsWorld ==
  /\ Absent # Torn /\ Absent # Unseen /\ Torn # Unseen
  /\ Genesis \in World /\ Readable(Genesis)
  /\ \A w \in World : Readable(w) /\ w # Absent /\ w # Torn /\ w # Unseen
  /\ \A c \in Content : Readable(c) => c \in World
  <1>1. /\ {Absent, Torn, Unseen} \cap World = {}
        /\ Absent # Torn /\ Absent # Unseen /\ Torn # Unseen
    BY StoreAssumption DEF World
  <1>2. Genesis \in World BY DEF Genesis, World
  <1> QED BY <1>1, <1>2 DEF Readable, Content

LEMMA LoadedContent ==
  ASSUME NEW p \in Content, NEW b \in Content
  PROVE  /\ Loaded(p, b) \in World \cup {Torn}
         /\ Readable(p) => Loaded(p, b) = p
         /\ p # Torn /\ b # Torn => Loaded(p, b) \in World
         /\ Readable(b) /\ ~Readable(p) => Loaded(p, b) = b
  BY ReadableIsWorld DEF Loaded, Content, Readable

LEMMA InitStore == Init => StoreInv
  <1> SUFFICES ASSUME Init PROVE StoreInv OBVIOUS
  <1>a. MaxRequests \in Nat /\ MaxDamage \in Nat /\ MaxPassed \in Nat /\ MaxSkipped \in Nat
    BY StoreAssumption
  <1>b. <<>> \in World BY DEF World
  <1>c. NoFiles \in [Temporary -> [bytes : Content, synced : BOOLEAN]]
    BY DEF NoFiles, NoBytes, Content
  <1>d. /\ view = [f \in File |-> Absent] /\ possible = [f \in File |-> {Absent}]
        /\ served = <<>> /\ acked = <<>> /\ proposal = {} /\ previous = Absent
        /\ staged = NoFiles /\ pc = "serving" /\ refused = {}
    BY DEF Init, Genesis
  <1>e. /\ requests = 0 /\ damage = 0 /\ raced = FALSE
        /\ passed = 0 /\ skipped = 0 /\ overlooked = FALSE
    BY DEF Init
  <1>f. view \in [File -> Content] /\ possible \in [File -> SUBSET Content] BY <1>d DEF Content
  <1>g. requests \in 0 .. MaxRequests /\ damage \in 0 .. MaxDamage
        /\ passed \in 0 .. MaxPassed /\ skipped \in 0 .. MaxSkipped
    BY <1>a, <1>e
  <1>1. TypeOK BY <1>b, <1>c, <1>d, <1>e, <1>f, <1>g DEF TypeOK, Content
  <1>2. FilesInv BY ReadableIsWorld DEF Init, FilesInv, NoFiles, NoBytes, File
  <1>3. RacedInv /\ WholeInv
    BY ReadableIsWorld DEF Init, RacedInv, WholeInv, BeforeRename, RollbackStep, File
  <1>4. ProposalInv BY DEF Init, ProposalInv, Saving, SaveStep, RollbackStep, BeforeRename
  <1>5. CopyInv BY DEF Init, CopyInv
  <1> QED BY <1>1, <1>2, <1>3, <1>4, <1>5 DEF StoreInv

----------------------------------------------------------------------------
LEMMA TypeStep == StoreInv /\ [Next]_vars => TypeOK'
  <1> SUFFICES ASSUME StoreInv, [Next]_vars PROVE TypeOK' OBVIOUS
  <1> USE ReadableIsWorld, StoreAssumption
  <1>a. TypeOK /\ ProposalInv /\ \A t \in Temporary : staged[t].bytes \in Content
    BY DEF StoreInv, TypeOK
  <1>b. NoFiles \in [Temporary -> [bytes : Content, synced : BOOLEAN]] BY DEF NoFiles, NoBytes, Content
  <1>c. "primary" \in File /\ "backup" \in File /\ Temporary = {"tmp", "bak.tmp", "restore.tmp", "rollback.tmp"}
    BY DEF File, Temporary
  <1>d. /\ view["primary"] \in Content /\ view["backup"] \in Content
        /\ World \subseteq Content /\ Absent \in Content /\ Torn \in Content
    BY <1>a, <1>c DEF TypeOK, Content
  <1>f. ASSUME NEW f \in File, NEW c, c.bytes \in Content, Enter(f, c)
        PROVE  view' \in [File -> Content] /\ possible' \in [File -> SUBSET Content]
    BY <1>a, <1>d, <1>f DEF Enter, TypeOK
  <1>g. ASSUME SyncParent
        PROVE  view' \in [File -> Content] /\ possible' \in [File -> SUBSET Content]
    BY <1>a, <1>g DEF SyncParent, TypeOK
  <1>h. ASSUME NEW t \in Temporary, NEW b \in Content, WriteSynced(t, b)
        PROVE  staged' \in [Temporary -> [bytes : Content, synced : BOOLEAN]]
    BY <1>a, <1>h DEF WriteSynced, TypeOK
  <1> USE DEF Step, files, client, outside, lapses, history, EndSave,
              SaveStep, RollbackStep, LoadStep
  <1>1. CASE BeginSave
    <2>1. Append(served, requests + 1) \in World BY <1>1, <1>a DEF BeginSave, TypeOK, World
    <2> QED BY <1>1, <1>a, <1>d, <2>1 DEF BeginSave, TypeOK
  <1>2. CASE WriteTemporary BY <1>2, <1>a, <1>c, <1>d, <1>h DEF WriteTemporary, TypeOK
  <1>3. CASE WriteBackup BY <1>3, <1>a, <1>c, <1>d, <1>h DEF WriteBackup, TypeOK
  <1>4. CASE RenameBackup BY <1>4, <1>a, <1>c, <1>f DEF RenameBackup, TypeOK
  <1>5. CASE SyncBackup BY <1>5, <1>a, <1>g DEF SyncBackup, TypeOK
  <1>6. CASE RenamePrimary BY <1>6, <1>a, <1>c, <1>f DEF RenamePrimary, TypeOK
  <1>7. CASE SyncPrimary BY <1>7, <1>a, <1>g DEF SyncPrimary, TypeOK
  <1>8. CASE Acknowledge BY <1>8, <1>a, <1>b, <1>d DEF Acknowledge, TypeOK
  <1>9. CASE Refuse
    <2>1. requests \in 1 .. MaxRequests BY <1>9, <1>a DEF Refuse, TypeOK, ProposalInv, Saving
    <2> QED BY <1>9, <1>a, <1>b, <1>d, <2>1 DEF Refuse, TypeOK
  <1>10. CASE SyncPrimaryFails BY <1>10, <1>a DEF SyncPrimaryFails, TypeOK
  <1>11. CASE RollbackWrite
    <2>1. previous \in Content BY <1>11, <1>a DEF RollbackWrite, StoreInv, CopyInv, TypeOK
    <2> QED BY <1>11, <1>a, <1>c, <1>h, <2>1 DEF RollbackWrite, TypeOK
  <1>12. CASE RollbackRename BY <1>12, <1>a, <1>c, <1>f DEF RollbackRename, TypeOK
  <1>13. CASE RollbackRemove BY <1>13, <1>a, <1>c, <1>d, <1>f DEF RollbackRemove, TypeOK, NoBytes
  <1>14. CASE RollbackSync BY <1>14, <1>a, <1>g DEF RollbackSync, TypeOK
  <1>15. CASE OperationFails BY <1>15, <1>a DEF OperationFails, TypeOK
  <1>16. CASE LoadPrimary BY <1>16, <1>a, <1>d DEF LoadPrimary, TypeOK
  <1>17. CASE LoadGenesis BY <1>17, <1>a DEF LoadGenesis, TypeOK
  <1>18. CASE LoadBackup BY <1>18, <1>a DEF LoadBackup, TypeOK
  <1>19. CASE RestoreWrite BY <1>19, <1>a, <1>c, <1>d, <1>h DEF RestoreWrite, TypeOK
  <1>20. CASE RestoreRename BY <1>20, <1>a, <1>c, <1>f DEF RestoreRename, TypeOK
  <1>21. CASE RestoreSync
    <2>1. staged["restore.tmp"].bytes \in World
      BY <1>21, <1>a, <1>c DEF RestoreSync, StoreInv, CopyInv
    <2> QED BY <1>21, <1>a, <1>b, <1>g, <2>1 DEF RestoreSync, TypeOK
  <1>22. CASE RestoreFails BY <1>22, <1>a, <1>b DEF RestoreFails, TypeOK
  <1>23. CASE Killed BY <1>23, <1>a, <1>b, <1>d DEF Killed, TypeOK
  <1>24. CASE PowerLoss BY <1>24, <1>a, <1>b, <1>c, <1>d DEF PowerLoss, TypeOK
  <1>25. ASSUME NEW c \in {Absent, Torn}, Damage(c) PROVE TypeOK'
    BY <1>25, <1>a, <1>c, <1>d, <1>f DEF Damage, TypeOK
  <1>26. CASE UNCHANGED vars BY <1>26, <1>a DEF vars, TypeOK
  <1> QED BY <1>1, <1>2, <1>3, <1>4, <1>5, <1>6, <1>7, <1>8, <1>9, <1>10, <1>11, <1>12, <1>13,
             <1>14, <1>15, <1>16, <1>17, <1>18, <1>19, <1>20, <1>21, <1>22, <1>23, <1>24, <1>25,
             <1>26
          DEF Next, Save, Rollback, Load

----------------------------------------------------------------------------
(* What the file operations do to the entries of the directory.            *)

LEMMA EnterEntries ==
  ASSUME TypeOK, NEW f \in File, NEW c, Enter(f, c)
  PROVE  /\ view'[f] = c.bytes
         /\ possible'[f] = possible[f] \cup {c.bytes} \cup IF c.synced THEN {} ELSE {Torn}
         /\ \A g \in File \ {f} : view'[g] = view[g] /\ possible'[g] = possible[g]
  BY DEF Enter, TypeOK

(* A synced temporary file that is renamed becomes a possible entry.       *)
LEMMA Entered ==
  ASSUME TypeOK, FilesInv, NEW f \in File, NEW t \in Temporary, Enter(f, staged[t])
  PROVE  /\ view'[f] = staged[t].bytes /\ staged[t].bytes \in Content
         /\ possible'[f] = possible[f] \cup {staged[t].bytes}
         /\ \A g \in File \ {f} : view'[g] = view[g] /\ possible'[g] = possible[g]
  <1>1. staged[t].synced /\ staged[t].bytes \in Content BY DEF FilesInv, TypeOK
  <1> QED BY <1>1, EnterEntries

LEMMA SyncEntries ==
  ASSUME SyncParent
  PROVE  view' = view /\ \A f \in File : possible'[f] = {view[f]}
  BY DEF SyncParent

LEMMA WrittenFile ==
  ASSUME TypeOK, NEW t \in Temporary, NEW b, WriteSynced(t, b)
  PROVE  /\ staged'[t].bytes = b /\ staged'[t].synced
         /\ \A u \in Temporary \ {t} : staged'[u] = staged[u]
  BY DEF WriteSynced, TypeOK

LEMMA FilesStep == StoreInv /\ [Next]_vars => FilesInv'
  <1> SUFFICES ASSUME StoreInv, [Next]_vars PROVE FilesInv' OBVIOUS
  <1>a. TypeOK /\ FilesInv BY DEF StoreInv
  <1>b. \A t \in Temporary : NoFiles[t].synced BY DEF NoFiles, NoBytes
  <1>c. File = {"primary", "backup"} /\ Temporary = {"tmp", "bak.tmp", "restore.tmp", "rollback.tmp"}
    BY DEF File, Temporary
  <1>d. ASSUME NEW f \in File, NEW c, Enter(f, c) PROVE \A g \in File : view'[g] \in possible'[g]
    BY <1>a, <1>d, EnterEntries DEF FilesInv
  <1>e. ASSUME SyncParent PROVE \A g \in File : view'[g] \in possible'[g]
    BY <1>e, SyncEntries
  <1>f. ASSUME NEW t \in Temporary, NEW b, WriteSynced(t, b)
        PROVE  \A u \in Temporary : staged'[u].synced
    BY <1>a, <1>f, WrittenFile DEF FilesInv
  <1>g. ASSUME UNCHANGED files PROVE \A g \in File : view'[g] \in possible'[g]
    BY <1>a, <1>g DEF FilesInv, files
  <1>h. ASSUME staged' = staged \/ staged' = NoFiles PROVE \A t \in Temporary : staged'[t].synced
    BY <1>a, <1>b, <1>h DEF FilesInv
  <1> USE DEF EndSave, FilesInv
  <1>1. CASE BeginSave BY <1>1, <1>g, <1>h DEF BeginSave
  <1>2. CASE WriteTemporary BY <1>2, <1>c, <1>f, <1>g DEF WriteTemporary
  <1>3. CASE WriteBackup BY <1>3, <1>c, <1>f, <1>g DEF WriteBackup
  <1>4. CASE RenameBackup BY <1>4, <1>c, <1>d, <1>h DEF RenameBackup
  <1>5. CASE SyncBackup BY <1>5, <1>e, <1>h DEF SyncBackup
  <1>6. CASE RenamePrimary BY <1>6, <1>c, <1>d, <1>h DEF RenamePrimary
  <1>7. CASE SyncPrimary BY <1>7, <1>e, <1>h DEF SyncPrimary
  <1>8. CASE Acknowledge BY <1>8, <1>h, <1>g DEF Acknowledge
  <1>9. CASE Refuse BY <1>9, <1>h, <1>g DEF Refuse
  <1>10. CASE SyncPrimaryFails BY <1>10, <1>g, <1>h DEF SyncPrimaryFails
  <1>11. CASE RollbackWrite BY <1>11, <1>c, <1>f, <1>g DEF RollbackWrite
  <1>12. CASE RollbackRename BY <1>12, <1>c, <1>d, <1>h DEF RollbackRename
  <1>13. CASE RollbackRemove
    <2>1. Enter("primary", NoBytes) \/ UNCHANGED files BY <1>13 DEF RollbackRemove, files
    <2>2. staged' = staged BY <1>13 DEF RollbackRemove
    <2> QED BY <2>1, <2>2, <1>c, <1>d, <1>g, <1>h
  <1>14. CASE RollbackSync BY <1>14, <1>e, <1>h DEF RollbackSync
  <1>15. CASE OperationFails BY <1>15, <1>g, <1>h DEF OperationFails
  <1>16. CASE LoadPrimary BY <1>16, <1>g, <1>h DEF LoadPrimary
  <1>17. CASE LoadGenesis BY <1>17, <1>g, <1>h DEF LoadGenesis
  <1>18. CASE LoadBackup BY <1>18, <1>g, <1>h DEF LoadBackup
  <1>19. CASE RestoreWrite BY <1>19, <1>c, <1>f, <1>g DEF RestoreWrite
  <1>20. CASE RestoreRename BY <1>20, <1>c, <1>d, <1>h DEF RestoreRename
  <1>21. CASE RestoreSync BY <1>21, <1>e, <1>h DEF RestoreSync
  <1>22. CASE RestoreFails BY <1>22, <1>h, <1>g DEF RestoreFails
  <1>23. CASE Killed BY <1>23, <1>h, <1>g DEF Killed
  <1>24. CASE PowerLoss
    <2>1. \A f \in File : possible'[f] = {view'[f]} BY <1>24 DEF PowerLoss
    <2>2. staged' = NoFiles BY <1>24 DEF PowerLoss
    <2> QED BY <2>1, <2>2, <1>h
  <1>25. ASSUME NEW c \in {Absent, Torn}, Damage(c) PROVE FilesInv'
    BY <1>25, <1>c, <1>d, <1>h DEF Damage
  <1>26. CASE UNCHANGED vars BY <1>26, <1>a DEF vars
  <1> QED BY <1>1, <1>2, <1>3, <1>4, <1>5, <1>6, <1>7, <1>8, <1>9, <1>10, <1>11, <1>12, <1>13,
             <1>14, <1>15, <1>16, <1>17, <1>18, <1>19, <1>20, <1>21, <1>22, <1>23, <1>24, <1>25,
             <1>26
          DEF Next, Save, Rollback, Load

(* What depends on pc and on what the step before it did. *)
LEMMA ControlStep == StoreInv /\ [Next]_vars => RacedInv' /\ ProposalInv' /\ CopyInv'
  <1> SUFFICES ASSUME StoreInv, [Next]_vars PROVE RacedInv' /\ ProposalInv' /\ CopyInv' OBVIOUS
  <1>a. TypeOK /\ FilesInv /\ damage \in Nat BY DEF StoreInv, TypeOK
  <1>b. File = {"primary", "backup"} /\ Temporary = {"tmp", "bak.tmp", "restore.tmp", "rollback.tmp"}
    BY DEF File, Temporary
  <1>c. view["primary"] \in possible["primary"] /\ view["backup"] \in possible["backup"]
    BY <1>a, <1>b DEF FilesInv
  <1> USE DEF RacedInv, ProposalInv, CopyInv, Saving, BeforeRename, SaveStep, RollbackStep,
              Step, files, client, outside, lapses, history
  <1>d. RacedInv /\ ProposalInv /\ CopyInv BY DEF StoreInv
  <1>1. CASE BeginSave
    <2>1. Append(served, requests + 1) \in World
      BY <1>1, <1>a, StoreAssumption DEF BeginSave, TypeOK, World
    <2>2. requests' >= 1 BY <1>1, <1>a DEF BeginSave, TypeOK
    <2> QED BY <1>1, <1>d, <2>1, <2>2 DEF BeginSave
  <1>2. CASE WriteTemporary
    <2>1. \E w \in proposal : staged'["tmp"].bytes = w
      BY <1>2, <1>a, <1>b, WrittenFile DEF WriteTemporary
    <2> QED BY <1>2, <1>d, <2>1 DEF WriteTemporary, KeepsPrimary, Readable
  <1>3. CASE WriteBackup
    <2>1. staged'["bak.tmp"].bytes = view["primary"] /\ staged'["tmp"] = staged["tmp"]
      BY <1>3, <1>a, <1>b, WrittenFile DEF WriteBackup
    <2> QED BY <1>3, <1>d, <2>1 DEF WriteBackup
  <1>4. CASE RenameBackup
    <2>1. possible'["backup"] = possible["backup"] \cup {staged["bak.tmp"].bytes}
      BY <1>4, <1>a, <1>b, Entered DEF RenameBackup
    <2> QED BY <1>4, <1>d, <2>1 DEF RenameBackup
  <1>5. CASE SyncBackup
    <2>1. possible'["backup"] = {view["backup"]} BY <1>5, <1>b, SyncEntries DEF SyncBackup
    <2> QED BY <1>5, <1>c, <1>d, <2>1 DEF SyncBackup
  <1>6. CASE RenamePrimary
    <2>1. possible'["backup"] = possible["backup"] BY <1>6, <1>a, <1>b, Entered DEF RenamePrimary
    <2> QED BY <1>6, <1>d, <2>1 DEF RenamePrimary
  <1>7. CASE SyncPrimary
    <2>1. possible'["primary"] = {view["primary"]} /\ possible'["backup"] = {view["backup"]}
          /\ view' = view
      BY <1>7, <1>b, SyncEntries DEF SyncPrimary
    <2> QED BY <1>7, <1>c, <1>d, <2>1 DEF SyncPrimary
  <1>8. CASE Acknowledge BY <1>8, <1>d DEF Acknowledge, EndSave
  <1>9. CASE Refuse BY <1>9, <1>d DEF Refuse, EndSave
  <1>10. CASE SyncPrimaryFails BY <1>10, <1>d DEF SyncPrimaryFails
  <1>11. CASE RollbackWrite
    <2>1. staged'["rollback.tmp"].bytes = previous
      BY <1>11, <1>a, <1>b, WrittenFile DEF RollbackWrite
    <2> QED BY <1>11, <1>d, <2>1 DEF RollbackWrite
  <1>12. CASE RollbackRename
    <2>1. possible'["backup"] = possible["backup"] BY <1>12, <1>a, <1>b, Entered DEF RollbackRename
    <2> QED BY <1>12, <1>d, <2>1 DEF RollbackRename
  <1>13. CASE RollbackRemove
    <2>1. possible'["backup"] = possible["backup"]
      BY <1>13, <1>a, <1>b, EnterEntries DEF RollbackRemove
    <2> QED BY <1>13, <1>d, <2>1 DEF RollbackRemove
  <1>14. CASE RollbackSync
    <2>1. possible'["backup"] = {view["backup"]} BY <1>14, <1>b, SyncEntries DEF RollbackSync
    <2> QED BY <1>14, <1>c, <1>d, <2>1 DEF RollbackSync
  <1>15. CASE OperationFails BY <1>15, <1>d DEF OperationFails
  <1>16. CASE LoadPrimary BY <1>16, <1>d DEF LoadPrimary
  <1>17. CASE LoadGenesis BY <1>17, <1>d DEF LoadGenesis
  <1>18. CASE LoadBackup BY <1>18, <1>d DEF LoadBackup
  <1>19. CASE RestoreWrite
    <2>1. staged'["restore.tmp"].bytes = view["backup"]
      BY <1>19, <1>a, <1>b, WrittenFile DEF RestoreWrite
    <2> QED BY <1>19, <1>d, <2>1 DEF RestoreWrite
  <1>20. CASE RestoreRename
    <2>1. possible'["backup"] = possible["backup"] BY <1>20, <1>a, <1>b, Entered DEF RestoreRename
    <2> QED BY <1>20, <1>d, <2>1 DEF RestoreRename
  <1>21. CASE RestoreSync
    <2>1. possible'["backup"] = {view["backup"]} BY <1>21, <1>b, SyncEntries DEF RestoreSync
    <2> QED BY <1>21, <1>c, <1>d, <2>1 DEF RestoreSync
  <1>22. CASE RestoreFails BY <1>22, <1>d DEF RestoreFails
  <1>23. CASE Killed BY <1>23, <1>d DEF Killed, EndSave
  <1>24. CASE PowerLoss
    <2>1. possible'["backup"] \subseteq possible["backup"] BY <1>24, <1>b DEF PowerLoss
    <2> QED BY <1>24, <1>d, <2>1 DEF PowerLoss, EndSave
  <1>25. ASSUME NEW c \in {Absent, Torn}, Damage(c) PROVE RacedInv' /\ ProposalInv' /\ CopyInv'
    <2>1. Enter("primary", [bytes |-> c, synced |-> TRUE]) BY <1>25 DEF Damage
    <2>2. /\ view'["primary"] = c /\ view'["backup"] = view["backup"]
          /\ possible'["backup"] = possible["backup"]
      BY <1>a, <1>b, <2>1, EnterEntries
    <2>3. damage' # 0 BY <1>25, <1>a DEF Damage
    <2>4. c \notin World BY ReadableIsWorld
    <2>5. RacedInv' BY <1>25, <1>d, <2>2, <2>3, ReadableIsWorld DEF Damage
    <2>6. ProposalInv' BY <1>25, <1>d, <2>2, <2>4 DEF Damage
    <2>7. CopyInv' BY <1>25, <1>d, <2>2 DEF Damage
    <2> QED BY <2>5, <2>6, <2>7
  <1>26. CASE UNCHANGED vars BY <1>26, <1>d DEF vars
  <1> QED BY <1>1, <1>2, <1>3, <1>4, <1>5, <1>6, <1>7, <1>8, <1>9, <1>10, <1>11, <1>12, <1>13,
             <1>14, <1>15, <1>16, <1>17, <1>18, <1>19, <1>20, <1>21, <1>22, <1>23, <1>24, <1>25,
             <1>26
          DEF Next, Save, Rollback, Load

(* Damage and lapses are counted and never forgotten. *)
LEMMA NeverForgotten ==
  ASSUME StoreInv, [Next]_vars
  PROVE  /\ damage \in Nat /\ passed \in Nat
         /\ \/ damage' = damage /\ passed' = passed
            \/ /\ damage' = damage + 1 /\ passed' = passed /\ overlooked' = overlooked
               /\ \E c \in {Absent, Torn} : Damage(c)
            \/ /\ damage' = damage /\ passed' = passed + 1 /\ overlooked' = overlooked
               /\ LoadBackup
         /\ overlooked => overlooked'
  <1> USE DEF client, outside, lapses, history
  <1>1. damage \in Nat /\ passed \in Nat BY DEF StoreInv, TypeOK
  <1>2. CASE \E c \in {Absent, Torn} : Damage(c)
    <2>1. PICK c \in {Absent, Torn} : Damage(c) BY <1>2
    <2> QED BY <1>1, <1>2, <2>1 DEF Damage
  <1>3. CASE LoadBackup BY <1>1, <1>3 DEF LoadBackup
  <1>4. CASE LoadGenesis BY <1>1, <1>4 DEF LoadGenesis
  <1>5. CASE RollbackRemove
    <2>1. damage' = damage /\ passed' = passed BY <1>5 DEF RollbackRemove
    <2>2. overlooked' = (overlooked \/ previous = Unseen) \/ overlooked' = overlooked
      BY <1>5 DEF RollbackRemove
    <2>3. overlooked => overlooked' BY <2>2
    <2> QED BY <1>1, <2>1, <2>3
  <1>6. CASE WriteTemporary BY <1>1, <1>6 DEF WriteTemporary
  <1>7. CASE /\ Next /\ ~LoadBackup /\ ~LoadGenesis /\ ~RollbackRemove /\ ~WriteTemporary
             /\ ~ \E c \in {Absent, Torn} : Damage(c)
    <2>1. damage' = damage /\ passed' = passed /\ overlooked' = overlooked
      BY <1>7 DEF Next, Save, Rollback, Load, BeginSave, WriteBackup, RenameBackup, SyncBackup,
        RenamePrimary, SyncPrimary, Acknowledge, Refuse, SyncPrimaryFails, RollbackWrite,
        RollbackRename, RollbackSync, OperationFails, LoadPrimary, RestoreWrite, RestoreRename,
        RestoreSync, RestoreFails, Killed, PowerLoss
    <2> QED BY <1>1, <2>1
  <1>8. CASE UNCHANGED vars BY <1>1, <1>8 DEF vars
  <1> QED BY <1>2, <1>3, <1>4, <1>5, <1>6, <1>7, <1>8

(* What holds while nobody has damaged the primary. *)
LEMMA WholeStep == StoreInv /\ [Next]_vars /\ damage' = 0 => WholeInv'
  <1> SUFFICES ASSUME StoreInv, [Next]_vars, damage' = 0 PROVE WholeInv' OBVIOUS
  <1>0. damage = 0 BY NeverForgotten
  <1>a. TypeOK /\ FilesInv /\ WholeInv BY <1>0 DEF StoreInv
  <1>b. File = {"primary", "backup"} /\ Temporary = {"tmp", "bak.tmp", "restore.tmp", "rollback.tmp"}
    BY DEF File, Temporary
  <1>c. view["primary"] \in possible["primary"] /\ view["primary"] # Torn
    BY <1>a, <1>b DEF FilesInv, WholeInv
  <1>d. ProposalInv /\ CopyInv BY DEF StoreInv
  <1> USE ReadableIsWorld
          DEF WholeInv, BeforeRename, RollbackStep, Step, files, client, outside, lapses, history
  <1>1. CASE BeginSave BY <1>1, <1>a, <1>c DEF BeginSave
  <1>2. CASE WriteTemporary BY <1>2, <1>a DEF WriteTemporary, KeepsPrimary
  <1>3. CASE WriteBackup
    <2>1. staged'["bak.tmp"].bytes = view["primary"]
      BY <1>3, <1>a, <1>b, WrittenFile DEF WriteBackup
    <2> QED BY <1>3, <1>a, <2>1 DEF WriteBackup
  <1>4. CASE RenameBackup
    <2>1. view'["primary"] = view["primary"] /\ possible'["primary"] = possible["primary"]
      BY <1>4, <1>a, <1>b, Entered DEF RenameBackup
    <2> QED BY <1>4, <1>a, <2>1 DEF RenameBackup
  <1>5. CASE SyncBackup
    <2>1. view' = view /\ possible'["primary"] = {view["primary"]}
      BY <1>5, <1>b, SyncEntries DEF SyncBackup
    <2> QED BY <1>5, <1>a, <1>c, <2>1 DEF SyncBackup
  <1>6. CASE RenamePrimary
    <2>1. /\ view'["primary"] = staged["tmp"].bytes
          /\ possible'["primary"] = possible["primary"] \cup {staged["tmp"].bytes}
      BY <1>6, <1>a, <1>b, Entered DEF RenamePrimary
    <2>2. staged["tmp"].bytes \in proposal BY <1>6, <1>d DEF RenamePrimary, ProposalInv
    <2>3. staged["tmp"].bytes # Torn BY <2>2, <1>a DEF TypeOK
    <2> QED BY <1>6, <1>a, <2>1, <2>2, <2>3 DEF RenamePrimary
  <1>7. CASE SyncPrimary
    <2>1. view' = view /\ possible'["primary"] = {view["primary"]}
      BY <1>7, <1>b, SyncEntries DEF SyncPrimary
    <2> QED BY <1>7, <1>a, <1>c, <2>1 DEF SyncPrimary
  <1>8. CASE Acknowledge BY <1>8, <1>a DEF Acknowledge, EndSave
  <1>9. CASE Refuse BY <1>9, <1>a DEF Refuse, EndSave
  <1>10. CASE SyncPrimaryFails BY <1>10, <1>a DEF SyncPrimaryFails
  <1>11. CASE RollbackWrite BY <1>11, <1>a DEF RollbackWrite
  <1>12. CASE RollbackRename
    <2>1. /\ possible'["primary"] = possible["primary"] \cup {staged["rollback.tmp"].bytes}
          /\ staged["rollback.tmp"].bytes = previous
      BY <1>12, <1>a, <1>b, <1>d, Entered DEF RollbackRename, CopyInv
    <2> QED BY <1>12, <1>a, <2>1 DEF RollbackRename
  <1>13. CASE RollbackRemove
    <2>1. CASE Enter("primary", NoBytes)
      <3>1. possible'["primary"] = possible["primary"] \cup {Absent}
        BY <2>1, <1>a, <1>b, EnterEntries DEF NoBytes
      <3> QED BY <1>13, <1>a, <3>1 DEF RollbackRemove
    <2>2. CASE UNCHANGED files BY <1>13, <1>a, <2>2 DEF RollbackRemove
    <2> QED BY <1>13, <2>1, <2>2 DEF RollbackRemove
  <1>14. CASE RollbackSync
    <2>1. view' = view /\ possible'["primary"] = {view["primary"]}
      BY <1>14, <1>b, SyncEntries DEF RollbackSync
    <2> QED BY <1>14, <1>a, <1>c, <2>1 DEF RollbackSync
  <1>15. CASE OperationFails BY <1>15, <1>a DEF OperationFails, SaveStep
  <1>16. CASE LoadPrimary BY <1>16, <1>a DEF LoadPrimary
  <1>17. CASE LoadGenesis BY <1>17, <1>a DEF LoadGenesis
  <1>18. CASE LoadBackup
    <2>1. passed' = 0 => ~Readable(view["primary"]) BY <1>18, <1>a DEF LoadBackup, TypeOK
    <2> QED BY <1>18, <1>a, <2>1 DEF LoadBackup
  <1>19. CASE RestoreWrite BY <1>19, <1>a DEF RestoreWrite
  <1>20. CASE RestoreRename
    <2>1. /\ view'["primary"] = staged["restore.tmp"].bytes
          /\ possible'["primary"] = possible["primary"] \cup {staged["restore.tmp"].bytes}
      BY <1>20, <1>a, <1>b, Entered DEF RestoreRename
    <2>2. staged["restore.tmp"].bytes # Torn BY <1>20, <1>d DEF RestoreRename, CopyInv, Readable
    <2> QED BY <1>20, <1>a, <2>1, <2>2 DEF RestoreRename
  <1>21. CASE RestoreSync
    <2>1. view' = view /\ possible'["primary"] = {view["primary"]}
      BY <1>21, <1>b, SyncEntries DEF RestoreSync
    <2> QED BY <1>21, <1>a, <1>c, <2>1 DEF RestoreSync
  <1>22. CASE RestoreFails BY <1>22, <1>a DEF RestoreFails
  <1>23. CASE Killed BY <1>23, <1>a DEF Killed, EndSave
  <1>24. CASE PowerLoss
    <2>1. possible'["primary"] \subseteq possible["primary"] BY <1>24, <1>b DEF PowerLoss
    <2> QED BY <1>24, <1>a, <2>1 DEF PowerLoss, EndSave
  <1>25. ASSUME NEW c \in {Absent, Torn}, Damage(c) PROVE FALSE
    BY <1>0, <1>25 DEF Damage
  <1>26. CASE UNCHANGED vars BY <1>26, <1>a DEF vars
  <1> QED BY <1>1, <1>2, <1>3, <1>4, <1>5, <1>6, <1>7, <1>8, <1>9, <1>10, <1>11, <1>12, <1>13,
             <1>14, <1>15, <1>16, <1>17, <1>18, <1>19, <1>20, <1>21, <1>22, <1>23, <1>24, <1>25,
             <1>26
          DEF Next, Save, Rollback, Load

LEMMA StoreStep == StoreInv /\ [Next]_vars => StoreInv'
  BY TypeStep, FilesStep, ControlStep, WholeStep DEF StoreInv

(* The invariant the other theorems follow from. *)
THEOREM StoreCorrect == Spec => []StoreInv
  BY InitStore, StoreStep, PTL DEF Spec

(* Whatever fails, is killed or damaged, the store keeps to its types.     *)
THEOREM TypeCorrect == Spec => []TypeOK
  <1>1. StoreInv => TypeOK BY DEF StoreInv
  <1> QED BY <1>1, StoreCorrect, PTL

(* No failure, kill, loss of power or damage to the primary ever makes the *)
(* backup unreadable, unless the damage comes after save has decoded the   *)
(* primary and before it reads it again.                                   *)
THEOREM BackupCorrect == Spec => []BackupStaysReadable
  <1>1. StoreInv => BackupStaysReadable BY DEF StoreInv, RacedInv, BackupStaysReadable
  <1> QED BY <1>1, StoreCorrect, PTL

----------------------------------------------------------------------------
(* The refinement: what a restart may come back with changes only as the   *)
(* promise says.                                                           *)

(* A load makes a world of any pair of entries in possible. *)
LEMMA PossibleContent ==
  ASSUME TypeOK
  PROVE  possible["primary"] \subseteq Content /\ possible["backup"] \subseteq Content
  BY DEF TypeOK, File

(* There is always something a restart may come back with. *)
LEMMA SomethingToLoad ==
  /\ FilesInv => Recoverable # {}
  /\ FilesInv' => Recoverable' # {}
  <1>1. FilesInv => view["primary"] \in possible["primary"] /\ view["backup"] \in possible["backup"]
    BY DEF FilesInv, File
  <1>2. FilesInv' => view'["primary"] \in possible'["primary"] /\ view'["backup"] \in possible'["backup"]
    BY DEF FilesInv, File
  <1>3. FilesInv => Loaded(view["primary"], view["backup"]) \in Recoverable BY <1>1 DEF Recoverable
  <1>4. FilesInv' => Loaded(view'["primary"], view'["backup"]) \in Recoverable' BY <1>2 DEF Recoverable
  <1> QED BY <1>3, <1>4

(* If every entry the files may have after the step is one they could have *)
(* before, no new world can come back.                                     *)
LEMMA Shrinks ==
  ASSUME FilesInv', \A f \in File : possible'[f] \subseteq possible[f]
  PROVE  Recoverable' \subseteq Recoverable /\ Recoverable' # {}
  BY SomethingToLoad DEF Recoverable, File

(* An entry that becomes possible for the primary adds the world it holds. *)
LEMMA PrimaryEntered ==
  ASSUME StoreInv, StoreInv', NEW w \in Content, Readable(w) \/ w \in possible["primary"],
         possible'["primary"] = possible["primary"] \cup {w},
         possible'["backup"] = possible["backup"]
  PROVE  Recoverable' # {} /\ Recoverable' \subseteq Recoverable \cup {w}
  <1>1. possible'["backup"] \subseteq Content /\ possible'["primary"] \subseteq Content
    BY PossibleContent DEF StoreInv, TypeOK, File
  <1>2. ASSUME NEW p \in possible'["primary"], NEW b \in possible'["backup"]
        PROVE  Loaded(p, b) \in Recoverable \cup {w}
    <2>1. CASE p \in possible["primary"] BY <2>1 DEF Recoverable
    <2>2. CASE Readable(w) /\ p = w BY <2>2, <1>1, LoadedContent
    <2> QED BY <2>1, <2>2
  <1>3. Recoverable' # {} BY SomethingToLoad DEF StoreInv
  <1>4. ASSUME NEW x \in Recoverable' PROVE x \in Recoverable \cup {w}
    <2>1. PICK p \in possible'["primary"], b \in possible'["backup"] : x = Loaded(p, b)
      BY DEF Recoverable
    <2> QED BY <2>1, <1>2
  <1> QED BY <1>3, <1>4

(* The copy of the primary that becomes the backup adds no world. *)
LEMMA BackupEntered ==
  ASSUME StoreInv, StoreInv', NEW w \in possible["primary"], Readable(w),
         possible'["primary"] = possible["primary"],
         possible'["backup"] = possible["backup"] \cup {w}
  PROVE  Recoverable' # {} /\ Recoverable' \subseteq Recoverable
  <1>1. /\ possible["backup"] \subseteq Content /\ possible["primary"] \subseteq Content
        /\ \E b \in possible["backup"] : TRUE
    BY PossibleContent DEF StoreInv, FilesInv, File
  <1>2. ASSUME NEW p \in possible["primary"], Readable(p) PROVE p \in Recoverable
    BY <1>1, <1>2, LoadedContent DEF Recoverable
  <1>3. ASSUME NEW p \in possible["primary"] PROVE Loaded(p, w) \in Recoverable
    BY <1>2, ReadableIsWorld DEF Loaded, Readable
  <1>4. Recoverable' # {} BY SomethingToLoad DEF StoreInv
  <1>5. ASSUME NEW x \in Recoverable' PROVE x \in Recoverable
    <2>1. PICK p \in possible'["primary"], b \in possible'["backup"] : x = Loaded(p, b)
      BY DEF Recoverable
    <2> QED BY <2>1, <1>3 DEF Recoverable
  <1> QED BY <1>4, <1>5

(* At the end of a save only its world can come back. *)
LEMMA OnlyTheProposal ==
  ASSUME StoreInv, pc = "saved", view["primary"] \in proposal
  PROVE  proposal # {} /\ Recoverable = proposal
  <1>1. PICK w \in World : proposal = {w}
    BY DEF StoreInv, ProposalInv, Saving, SaveStep
  <1>2. possible["primary"] = {w} BY <1>1 DEF StoreInv, ProposalInv
  <1>3. possible["backup"] \subseteq Content /\ \E b \in possible["backup"] : TRUE
    BY PossibleContent DEF StoreInv, FilesInv, File
  <1>4. \A b \in possible["backup"] : Loaded(w, b) = w
    BY <1>3, ReadableIsWorld, LoadedContent DEF Content
  <1> QED BY <1>1, <1>2, <1>3, <1>4 DEF Recoverable

(* What a load that can read its files finds is a world a restart could    *)
(* come back with.                                                         *)
LEMMA LoadedNow ==
  ASSUME StoreInv
  PROVE  Loaded(view["primary"], view["backup"]) \in Recoverable
  BY DEF StoreInv, FilesInv, File, Recoverable

(* The store starts as the promise does. *)
LEMMA PromiseInit == Init => Promise!Init
  <1> SUFFICES ASSUME Init PROVE Promise!Init OBVIOUS
  <1>1. Recoverable = {Loaded(Absent, Absent)} BY DEF Init, Recoverable, File
  <1>2. Loaded(Absent, Absent) = Genesis BY DEF Loaded, Readable
  <1> QED BY <1>1, <1>2 DEF Init, Promise!Init, Genesis, LoadStep

(* Steps the promise does not see. *)
LEMMA Stutters ==
  ASSUME UNCHANGED <<served, proposal, acked, possible>>,
         pc \in LoadStep <=> pc' \in LoadStep
  PROVE  UNCHANGED Promise!vars
  <1>1. Recoverable' = Recoverable BY DEF Recoverable
  <1> QED BY <1>1 DEF Promise!vars

(* Membership in the non-empty subsets, as the promise writes it. *)
LEMMA NonEmptySubset ==
  ASSUME NEW S, NEW T, T # {}, T \subseteq S
  PROVE  T \in (SUBSET S) \ {{}}
  OBVIOUS

(* Steps that change what may come back and nothing else. *)
LEMMA Persists ==
  ASSUME UNCHANGED <<served, proposal, acked>>, pc \in LoadStep <=> pc' \in LoadStep,
         Recoverable' # {}, Recoverable' \subseteq Recoverable \cup proposal
  PROVE  Promise!Persist
  <1>1. Recoverable' \in (SUBSET (Recoverable \cup proposal)) \ {{}} BY NonEmptySubset
  <1> QED BY <1>1 DEF Promise!Persist

(* A step that settles the directory. *)
LEMMA Settles ==
  ASSUME StoreInv, StoreInv', SyncParent
  PROVE  Recoverable' # {} /\ Recoverable' \subseteq Recoverable
  <1>1. \A f \in File : possible'[f] = {view[f]} BY DEF SyncParent
  <1>2. \A f \in File : possible'[f] \subseteq possible[f] BY <1>1 DEF StoreInv, FilesInv
  <1> QED BY <1>2, Shrinks DEF StoreInv

(* A restart serves what a load finds. *)
LEMMA Restarts ==
  ASSUME StoreInv, pc \in LoadStep, pc' = "serving", UNCHANGED <<proposal, acked>>,
         served' = Loaded(view["primary"], view["backup"]),
         Recoverable' # {}, Recoverable' \subseteq Recoverable
  PROVE  Promise!Restart
  <1>1. Recoverable' \in (SUBSET Recoverable) \ {{}} BY NonEmptySubset
  <1>2. served' \in Recoverable BY LoadedNow
  <1>3. pc' \notin LoadStep BY DEF LoadStep
  <1> QED BY <1>1, <1>2, <1>3 DEF Promise!Restart

(* Every step of an undisturbed store is one of the promise, or one it     *)
(* does not see.                                                           *)
LEMMA PromiseStep ==
  ASSUME StoreInv, StoreInv', Next, Undisturbed'
  PROVE  [Promise!Next]_(Promise!vars)
  <1>a. /\ File = {"primary", "backup"} /\ "primary" # "backup"
        /\ Temporary = {"tmp", "bak.tmp", "restore.tmp", "rollback.tmp"}
    BY DEF File, Temporary
  <1>b. LoadStep = {"down", "restore_write", "restore_rename", "restore_sync"} BY DEF LoadStep
  <1>c. possible' = possible => Recoverable' = Recoverable BY DEF Recoverable
  <1>d. Recoverable # {} /\ Recoverable' # {} BY SomethingToLoad DEF StoreInv
  <1>e. ASSUME Promise!Persist PROVE [Promise!Next]_(Promise!vars) BY <1>e DEF Promise!Next
  <1>f. damage = 0 /\ damage' = 0 /\ passed = 0 /\ passed' = 0 /\ ~overlooked /\ ~overlooked'
    BY NeverForgotten DEF Undisturbed
  <1>g. TypeOK /\ FilesInv /\ ProposalInv /\ CopyInv /\ WholeInv BY <1>f DEF StoreInv
  <1>h. view["primary"] \in possible["primary"] BY <1>a, <1>g DEF FilesInv
  <1> USE DEF Step, files, client, outside, lapses, history, EndSave
  <1>1. CASE BeginSave
    <2>0. requests \in 0 .. MaxRequests /\ requests < MaxRequests
      BY <1>1, <1>g DEF BeginSave, TypeOK
    <2>1. requests + 1 \in 1 .. MaxRequests BY <2>0, StoreAssumption
    <2>2. proposal = {} BY <1>1, <1>g DEF BeginSave, ProposalInv, Saving, SaveStep, RollbackStep
    <2>3. Promise!Propose(requests + 1)
      BY <1>1, <1>b, <1>c, <2>2 DEF BeginSave, Promise!Propose
    <2> QED BY <2>1, <2>3 DEF Promise!Next
  <1>2. CASE WriteTemporary BY <1>2, <1>b, Stutters DEF WriteTemporary
  <1>3. CASE WriteBackup BY <1>3, <1>b, Stutters DEF WriteBackup
  <1>4. CASE RenameBackup
    <2>1. staged["bak.tmp"].bytes = view["primary"] /\ Readable(view["primary"])
      BY <1>4, <1>g DEF RenameBackup, WholeInv
    <2>2. /\ possible'["backup"] = possible["backup"] \cup {view["primary"]}
          /\ possible'["primary"] = possible["primary"]
      BY <1>4, <1>a, <1>g, <2>1, Entered DEF RenameBackup
    <2>3. Recoverable' \subseteq Recoverable BY <1>h, <2>1, <2>2, BackupEntered
    <2> QED BY <1>4, <1>b, <1>d, <1>e, <2>3, Persists DEF RenameBackup
  <1>5. CASE SyncBackup BY <1>5, <1>b, <1>e, Settles, Persists DEF SyncBackup
  <1>6. CASE RenamePrimary
    <2>1. staged["tmp"].bytes \in proposal /\ staged["tmp"].bytes \in World
      BY <1>6, <1>g DEF RenamePrimary, ProposalInv, TypeOK, BeforeRename
    <2>2. /\ possible'["primary"] = possible["primary"] \cup {staged["tmp"].bytes}
          /\ possible'["backup"] = possible["backup"] /\ staged["tmp"].bytes \in Content
      BY <1>6, <1>a, <1>g, Entered DEF RenamePrimary
    <2>3. Recoverable' \subseteq Recoverable \cup proposal
      BY <2>1, <2>2, PrimaryEntered, ReadableIsWorld
    <2> QED BY <1>6, <1>b, <1>d, <1>e, <2>3, Persists DEF RenamePrimary
  <1>7. CASE SyncPrimary BY <1>7, <1>b, <1>e, Settles, Persists DEF SyncPrimary
  <1>8. CASE Acknowledge
    <2>1. proposal # {} /\ Recoverable = proposal
      BY <1>8, <1>g, OnlyTheProposal DEF Acknowledge, WholeInv
    <2>2. Promise!Acknowledge BY <1>8, <1>b, <1>c, <2>1 DEF Acknowledge, Promise!Acknowledge
    <2> QED BY <2>2 DEF Promise!Next
  <1>9. CASE Refuse
    <2>1. proposal # {} BY <1>9, <1>g DEF Refuse, ProposalInv, Saving, SaveStep
    <2>2. Promise!Refuse BY <1>9, <1>b, <1>c, <2>1 DEF Refuse, Promise!Refuse
    <2> QED BY <2>2 DEF Promise!Next
  <1>10. CASE SyncPrimaryFails BY <1>10, <1>b, Stutters DEF SyncPrimaryFails
  <1>11. CASE RollbackWrite BY <1>11, <1>b, Stutters DEF RollbackWrite
  <1>12. CASE RollbackRename
    <2>1. staged["rollback.tmp"].bytes = previous /\ previous \in possible["primary"]
      BY <1>12, <1>g DEF RollbackRename, CopyInv, WholeInv, RollbackStep
    <2>2. possible'["primary"] = possible["primary"] /\ possible'["backup"] = possible["backup"]
      BY <1>12, <1>a, <1>g, <2>1, Entered DEF RollbackRename
    <2>3. Recoverable' \subseteq Recoverable BY <1>a, <2>2, Shrinks DEF StoreInv
    <2> QED BY <1>12, <1>b, <1>d, <1>e, <2>3, Persists DEF RollbackRename
  <1>13. CASE RollbackRemove
    <2>1. CASE Enter("primary", NoBytes) /\ overlooked' = (overlooked \/ previous = Unseen)
      <3>1. previous # Unseen BY <1>f, <2>1
      <3>2. Absent \in possible["primary"]
        BY <1>13, <1>g, <3>1 DEF RollbackRemove, CopyInv, WholeInv, RollbackStep
      <3>3. possible'["primary"] = possible["primary"] /\ possible'["backup"] = possible["backup"]
        BY <1>a, <1>g, <2>1, <3>2, EnterEntries DEF NoBytes
      <3>4. Recoverable' \subseteq Recoverable BY <1>a, <3>3, Shrinks DEF StoreInv
      <3> QED BY <1>13, <1>b, <1>d, <1>e, <3>4, Persists DEF RollbackRemove
    <2>2. CASE UNCHANGED files BY <1>13, <1>b, <2>2, Stutters DEF RollbackRemove
    <2> QED BY <1>13, <2>1, <2>2 DEF RollbackRemove
  <1>14. CASE RollbackSync BY <1>14, <1>b, <1>e, Settles, Persists DEF RollbackSync
  <1>15. CASE OperationFails
    BY <1>15, <1>b, Stutters DEF OperationFails, SaveStep, RollbackStep
  <1>16. CASE LoadPrimary
    <2>1. served' = Loaded(view["primary"], view["backup"]) BY <1>16 DEF LoadPrimary, Loaded
    <2>2. Promise!Restart BY <1>16, <1>b, <1>c, <1>d, <2>1, Restarts DEF LoadPrimary
    <2> QED BY <2>2 DEF Promise!Next
  <1>17. CASE LoadGenesis
    <2>1. overlooked' = (overlooked \/ \E f \in File : view[f] # Absent) BY <1>17 DEF LoadGenesis
    <2>2. view["primary"] = Absent /\ view["backup"] = Absent BY <1>a, <1>f, <2>1
    <2>3. served' = Loaded(view["primary"], view["backup"])
      BY <1>17, <2>2 DEF LoadGenesis, Loaded, Readable
    <2>4. Promise!Restart BY <1>17, <1>b, <1>c, <1>d, <2>3, Restarts DEF LoadGenesis
    <2> QED BY <2>4 DEF Promise!Next
  <1>18. CASE LoadBackup BY <1>18, <1>b, Stutters DEF LoadBackup
  <1>19. CASE RestoreWrite BY <1>19, <1>b, Stutters DEF RestoreWrite
  <1>20. CASE RestoreRename
    <2>1. /\ staged["restore.tmp"].bytes = Loaded(view["primary"], view["backup"])
          /\ Readable(staged["restore.tmp"].bytes)
      BY <1>20, <1>f, <1>g DEF RestoreRename, CopyInv, WholeInv, Loaded, Readable
    <2>2. /\ possible'["primary"] = possible["primary"] \cup {staged["restore.tmp"].bytes}
          /\ possible'["backup"] = possible["backup"] /\ staged["restore.tmp"].bytes \in Content
      BY <1>20, <1>a, <1>g, Entered DEF RestoreRename
    <2>3. Recoverable' \subseteq Recoverable \cup {staged["restore.tmp"].bytes}
      BY <2>1, <2>2, PrimaryEntered
    <2>4. staged["restore.tmp"].bytes \in Recoverable BY <2>1, LoadedNow
    <2> QED BY <1>20, <1>b, <1>d, <1>e, <2>3, <2>4, Persists DEF RestoreRename
  <1>21. CASE RestoreSync
    <2>1. served' = Loaded(view["primary"], view["backup"])
      BY <1>21, <1>g DEF RestoreSync, CopyInv, WholeInv, Loaded
    <2>2. Promise!Restart BY <1>21, <1>b, <2>1, Settles, Restarts DEF RestoreSync
    <2> QED BY <2>2 DEF Promise!Next
  <1>22. CASE RestoreFails BY <1>22, <1>b, Stutters DEF RestoreFails
  <1>23. CASE Killed
    <2>1. Recoverable' \in (SUBSET Recoverable) \ {{}}
      BY <1>23, <1>c, <1>d, NonEmptySubset DEF Killed
    <2>2. Promise!Crash BY <1>23, <1>b, <2>1 DEF Killed, Promise!Crash
    <2> QED BY <2>2 DEF Promise!Next
  <1>24. CASE PowerLoss
    <2>1. \A f \in File : possible'[f] \subseteq possible[f] BY <1>24, <1>a DEF PowerLoss
    <2>2. Recoverable' \in (SUBSET Recoverable) \ {{}}
      BY <2>1, Shrinks, NonEmptySubset DEF StoreInv
    <2>3. Promise!Crash BY <1>24, <1>b, <2>2 DEF PowerLoss, Promise!Crash
    <2> QED BY <2>3 DEF Promise!Next
  <1>25. ASSUME NEW c \in {Absent, Torn}, Damage(c) PROVE FALSE
    BY <1>25, <1>f DEF Damage
  <1> QED BY <1>1, <1>2, <1>3, <1>4, <1>5, <1>6, <1>7, <1>8, <1>9, <1>10, <1>11, <1>12, <1>13,
             <1>14, <1>15, <1>16, <1>17, <1>18, <1>19, <1>20, <1>21, <1>22, <1>23, <1>24, <1>25
          DEF Next, Save, Rollback, Load

(* While nobody damages the primary, no load passes over it and no stat    *)
(* that fails hides a file for good, every run of the store is one the     *)
(* promise allows, whatever else fails and whenever it is killed or loses  *)
(* power.                                                                  *)
THEOREM StoreImplementsPromise == Spec => KeepsPromise
  <1>1. StoreInv /\ StoreInv' /\ [Next]_vars
          => [Undisturbed' => [Promise!Next]_(Promise!vars)]_vars
    BY PromiseStep
  <1> QED BY <1>1, PromiseInit, StoreCorrect, PTL DEF Spec, KeepsPromise

----------------------------------------------------------------------------
(* The guarantee of the promise holds of every behaviour that keeps it,    *)
(* whatever the worlds a restart may come back with are.                   *)

(* A prefix of a world is a prefix of what is appended to it. *)
LEMMA PrefixAppend ==
  ASSUME NEW s \in Promise!World, NEW t \in Promise!World, Promise!IsPrefixOf(s, t), NEW c
  PROVE  Promise!IsPrefixOf(s, Append(t, c))
  BY DEF Promise!World, Promise!IsPrefixOf

(* A world is a prefix of itself. *)
LEMMA PrefixSelf == ASSUME NEW s \in Promise!World PROVE Promise!IsPrefixOf(s, s)
  BY DEF Promise!World, Promise!IsPrefixOf

(* AckedSurvives with the types it needs; acked may be a strict prefix of  *)
(* what is served, after a restart came back with an unanswered proposal.  *)
DurableInv ==
  /\ served \in Promise!World /\ acked \in Promise!World
  /\ Recoverable \subseteq Promise!World /\ proposal \subseteq Promise!World
  /\ \A v, w \in proposal : v = w
  /\ Promise!AckedSurvives

(* It holds at first and every step of the promise keeps it. *)
LEMMA DurableInit == Promise!Init => DurableInv
  <1>1. <<>> \in Promise!World /\ Promise!IsPrefixOf(<<>>, <<>>)
    BY DEF Promise!World, Promise!IsPrefixOf
  <1> QED BY <1>1 DEF Promise!Init, DurableInv, Promise!AckedSurvives

LEMMA DurableStep == DurableInv /\ [Promise!Next]_(Promise!vars) => DurableInv'
  <1> SUFFICES ASSUME DurableInv, [Promise!Next]_(Promise!vars) PROVE DurableInv' OBVIOUS
  <1> USE DEF DurableInv, Promise!AckedSurvives
  <1>1. ASSUME NEW c \in 1 .. MaxRequests, Promise!Propose(c) PROVE DurableInv'
    <2>1. Append(served, c) \in Promise!World BY DEF Promise!World
    <2>2. Promise!IsPrefixOf(acked, Append(served, c)) BY PrefixAppend
    <2> QED BY <1>1, <2>1, <2>2 DEF Promise!Propose
  <1>2. CASE Promise!Persist BY <1>2 DEF Promise!Persist
  <1>3. CASE Promise!Acknowledge
    <2>1. /\ acked' \in proposal /\ proposal = Recoverable /\ served' = acked'
          /\ Recoverable' = Recoverable /\ proposal' = {}
      BY <1>3 DEF Promise!Acknowledge
    <2>2. Recoverable' = {acked'} BY <2>1
    <2> QED BY <2>1, <2>2, PrefixSelf
  <1>4. CASE Promise!Refuse BY <1>4 DEF Promise!Refuse
  <1>5. CASE Promise!Crash BY <1>5 DEF Promise!Crash
  <1>6. CASE Promise!Restart BY <1>6 DEF Promise!Restart
  <1>7. CASE UNCHANGED Promise!vars BY <1>7 DEF Promise!vars
  <1> QED BY <1>1, <1>2, <1>3, <1>4, <1>5, <1>6, <1>7 DEF Promise!Next

(* Whoever keeps the promise loses no command that was answered with       *)
(* success: no sequence of failed saves, crashes and restarts does.        *)
THEOREM AckedAlwaysSurvives == Promise!Spec => []Promise!AckedSurvives
  <1>1. DurableInv => Promise!AckedSurvives BY DEF DurableInv
  <1> QED BY <1>1, DurableInit, DurableStep, PTL DEF Promise!Spec

----------------------------------------------------------------------------
(* The same for the store, through the refinement mapping. *)

SurvivesInv == StoreInv /\ (Undisturbed => DurableInv)

LEMMA SurvivesInit == Init => SurvivesInv
  BY InitStore, PromiseInit, DurableInit DEF SurvivesInv

(* A store that is undisturbed after a step was so before it, and the      *)
(* step is one of the promise.                                             *)
LEMMA PromisedStep ==
  ASSUME StoreInv, [Next]_vars, Undisturbed'
  PROVE  Undisturbed /\ [Promise!Next]_(Promise!vars)
  <1>1. StoreInv' BY StoreStep
  <1>2. Undisturbed BY NeverForgotten DEF Undisturbed
  <1>3. CASE Next BY <1>1, <1>2, <1>3, PromiseStep
  <1>4. CASE UNCHANGED vars
    <2>1. Recoverable' = Recoverable BY <1>4 DEF vars, Recoverable
    <2> QED BY <1>2, <1>4, <2>1 DEF vars, Promise!vars
  <1> QED BY <1>2, <1>3, <1>4

LEMMA SurvivesStep == SurvivesInv /\ [Next]_vars => SurvivesInv'
  BY StoreStep, PromisedStep, DurableStep DEF SurvivesInv

(* Undisturbed, whatever fails, is killed or loses power, every world the  *)
(* node serves or can come back with is readable and holds every command   *)
(* that was answered with success, at its place.                           *)
THEOREM AckedCommandsSurvive == Spec => []AckedSurvives
  <1>1. SurvivesInv => AckedSurvives
    <2> SUFFICES ASSUME SurvivesInv, Undisturbed
                 PROVE  Torn \notin Recoverable /\ Promise!AckedSurvives
      BY DEF AckedSurvives
    <2>1. Recoverable \subseteq World
      BY DEF SurvivesInv, DurableInv, World, Promise!World
    <2>2. Torn \notin Recoverable BY <2>1, ReadableIsWorld
    <2> QED BY <2>2 DEF SurvivesInv, DurableInv
  <1> QED BY <1>1, SurvivesInit, SurvivesStep, PTL DEF Spec

----------------------------------------------------------------------------
(* One loss.  Undisturbed, no file is more than one command behind another *)
(* but for each save that did not keep the primary, so that all a restart  *)
(* finds, also after one damage or one load that passes over the primary,  *)
(* has all but the last acknowledged commands; and a store that has lost   *)
(* some does not lose others.                                              *)

(* s without its last n requests is the beginning of t. *)
Within(n, s, t) == Promise!IsPrefixOf(Without(s, n), t)

LEMMA WithoutOf ==
  ASSUME NEW s \in World, NEW n \in Nat
  PROVE  /\ Len(Without(s, n)) = IF Len(s) <= n THEN 0 ELSE Len(s) - n
         /\ \A i \in 1 .. Len(s) - n : Without(s, n)[i] = s[i]
  <1>1. s \in Seq(1 .. MaxRequests) /\ Len(s) \in Nat BY DEF World
  <1>2. PICK k \in Int : k = Len(s) - n BY <1>1
  <1>3. Without(s, n) = SubSeq(s, 1, k) BY <1>2 DEF Without
  <1>4. CASE k <= 0
    <2>1. Len(SubSeq(s, 1, k)) = 0 BY <1>1, <1>4
    <2> QED BY <1>1, <1>2, <1>3, <1>4, <2>1
  <1>5. CASE k > 0
    <2>1. SubSeq(s, 1, k) = [i \in 1 .. k |-> s[i]] BY <1>1, <1>2, <1>5
    <2>2. Len(SubSeq(s, 1, k)) = k BY <1>1, <1>2, <1>5
    <2> QED BY <1>1, <1>2, <1>3, <1>5, <2>1, <2>2
  <1> QED BY <1>4, <1>5

LEMMA WithinMeans ==
  ASSUME NEW s \in World, NEW t \in World, NEW n \in Nat
  PROVE  Within(n, s, t) <=> /\ Len(s) <= Len(t) + n
                             /\ \A i \in 1 .. Len(s) - n : s[i] = t[i]
  <1>1. Len(s) \in Nat /\ Len(t) \in Nat BY DEF World
  <1>2. PICK u : u = Without(s, n) OBVIOUS
  <1>3. /\ Len(u) = IF Len(s) <= n THEN 0 ELSE Len(s) - n
        /\ \A i \in 1 .. Len(s) - n : u[i] = s[i]
    BY <1>2, WithoutOf
  <1>4. Within(n, s, t) <=> Len(u) <= Len(t) /\ \A i \in 1 .. Len(u) : u[i] = t[i]
    BY <1>2 DEF Within, Promise!IsPrefixOf
  <1>5. CASE Len(s) <= n BY <1>1, <1>3, <1>4, <1>5
  <1>6. CASE Len(s) > n BY <1>1, <1>3, <1>4, <1>6
  <1> QED BY <1>1, <1>5, <1>6

(* How Within combines with prefixes and with appended requests. *)
LEMMA WithinPrefix ==
  ASSUME NEW s \in World, NEW t \in World, NEW n \in Nat, Promise!IsPrefixOf(s, t)
  PROVE  Within(n, s, t)
  <1>1. Len(s) \in Nat /\ Len(t) \in Nat BY DEF World
  <1>2. Len(s) <= Len(t) + n BY <1>1 DEF Promise!IsPrefixOf
  <1>3. \A i \in 1 .. Len(s) - n : s[i] = t[i] BY <1>1 DEF Promise!IsPrefixOf
  <1> QED BY <1>2, <1>3, WithinMeans

LEMMA WithinSelf == ASSUME NEW s \in World, NEW n \in Nat PROVE Within(n, s, s)
  BY PrefixSelf, WithinPrefix DEF World, Promise!World

LEMMA WithinMore ==
  ASSUME NEW s \in World, NEW t \in World, NEW n \in Nat, NEW m \in Nat, n <= m, Within(n, s, t)
  PROVE  Within(m, s, t)
  <1>1. Len(s) \in Nat /\ Len(t) \in Nat BY DEF World
  <1>2. Len(s) <= Len(t) + n /\ \A i \in 1 .. Len(s) - n : s[i] = t[i] BY WithinMeans
  <1>3. Len(s) <= Len(t) + m /\ \A i \in 1 .. Len(s) - m : s[i] = t[i] BY <1>1, <1>2
  <1> QED BY <1>3, WithinMeans

LEMMA WithinLonger ==
  ASSUME NEW s \in World, NEW t \in World, NEW u \in World, NEW n \in Nat,
         Within(n, s, t), Promise!IsPrefixOf(t, u)
  PROVE  Within(n, s, u)
  <1>1. Len(s) \in Nat /\ Len(t) \in Nat /\ Len(u) \in Nat BY DEF World
  <1>2. Len(s) <= Len(t) + n /\ \A i \in 1 .. Len(s) - n : s[i] = t[i] BY WithinMeans
  <1>3. Len(t) <= Len(u) /\ \A i \in 1 .. Len(t) : t[i] = u[i] BY DEF Promise!IsPrefixOf
  <1>4. Len(s) <= Len(u) + n /\ \A i \in 1 .. Len(s) - n : s[i] = u[i] BY <1>1, <1>2, <1>3
  <1> QED BY <1>4, WithinMeans

LEMMA WithinShorter ==
  ASSUME NEW r \in World, NEW s \in World, NEW t \in World, NEW n \in Nat,
         Promise!IsPrefixOf(r, s), Within(n, s, t)
  PROVE  Within(n, r, t)
  <1>1. Len(r) \in Nat /\ Len(s) \in Nat /\ Len(t) \in Nat BY DEF World
  <1>2. Len(s) <= Len(t) + n /\ \A i \in 1 .. Len(s) - n : s[i] = t[i] BY WithinMeans
  <1>3. Len(r) <= Len(s) /\ \A i \in 1 .. Len(r) : r[i] = s[i] BY DEF Promise!IsPrefixOf
  <1>4. Len(r) <= Len(t) + n BY <1>1, <1>2, <1>3
  <1>5. \A i \in 1 .. Len(r) - n : r[i] = t[i] BY <1>1, <1>2, <1>3
  <1> QED BY <1>4, <1>5, WithinMeans

LEMMA WithinAppended ==
  ASSUME NEW s \in World, NEW t \in World, NEW n \in Nat, NEW c \in 1 .. MaxRequests,
         Within(n, s, t)
  PROVE  /\ Append(s, c) \in World
         /\ Within(1 + n, Append(s, c), t)
  <1>1. Len(s) \in Nat /\ Len(t) \in Nat BY DEF World
  <1>2. Len(s) <= Len(t) + n /\ \A i \in 1 .. Len(s) - n : s[i] = t[i] BY WithinMeans
  <1>3. PICK u : u = Append(s, c) OBVIOUS
  <1>4. u \in World /\ Len(u) = Len(s) + 1 /\ \A i \in 1 .. Len(s) : u[i] = s[i]
    BY <1>3 DEF World
  <1>5. Len(u) <= Len(t) + (1 + n) BY <1>1, <1>2, <1>4
  <1>6. \A i \in 1 .. Len(u) - (1 + n) : u[i] = t[i] BY <1>1, <1>2, <1>4
  <1>7. Within(1 + n, u, t) BY <1>4, <1>5, <1>6, WithinMeans
  <1> QED BY <1>3, <1>4, <1>7

(* A world is the beginning of what is appended to it. *)
LEMMA PrefixAppended ==
  ASSUME NEW s \in World, NEW c
  PROVE  Promise!IsPrefixOf(s, Append(s, c))
  BY PrefixSelf, PrefixAppend DEF World, Promise!World

(* What a load makes of a file alone. *)
Held(c) == IF c = Absent THEN Genesis ELSE c

(* The entries the two files may have. *)
Files == possible["primary"] \cup possible["backup"]

(* Undisturbed, no file lags further behind another ...                    *)
AgreeInv == \A x, y \in Files : Within(1 + skipped, Held(x), Held(y))

(* ... or behind what is served, nor this behind a file.                   *)
ServedInv ==
  pc \notin LoadStep =>
    \A x \in Files : Within(1 + skipped, Held(x), served) /\ Within(1 + skipped, served, Held(x))

(* The primary has what is served, and so have both files, but for the     *)
(* saves that skipped the backup, before the primary is replaced.          *)
LatestInv ==
  /\ pc \notin LoadStep => Promise!IsPrefixOf(served, Held(view["primary"]))
  /\ Saving => /\ proposal = {Append(served, requests)}
               /\ previous # Unseen => Promise!IsPrefixOf(served, Held(previous))
  /\ pc = "sync_backup" => Promise!IsPrefixOf(served, Held(view["backup"]))
  /\ pc \in {"rename", "sync", "saved"} => \A x \in Files : Within(skipped, served, Held(x))

KeptInv == AgreeInv /\ ServedInv /\ LatestInv

LEMMA HeldWorld ==
  /\ Held(Absent) = Genesis
  /\ \A w \in World : Held(w) = w
  /\ \A c \in Content \ {Torn} : Held(c) \in World
  BY ReadableIsWorld DEF Held, Content

LEMMA LoadedHeld ==
  ASSUME NEW p \in Content, NEW b \in Content
  PROVE  \/ Loaded(p, b) = Torn
         \/ Readable(p) /\ Loaded(p, b) = Held(p)
         \/ ~Readable(p) /\ b # Torn /\ Loaded(p, b) = Held(b)
  BY ReadableIsWorld DEF Loaded, Held, Readable, Content

(* Only the empty world is a prefix of the first world. *)
LEMMA PrefixOfGenesis ==
  ASSUME NEW s \in World, NEW t \in World, Promise!IsPrefixOf(s, Genesis)
  PROVE  Promise!IsPrefixOf(s, t)
  BY DEF World, Promise!IsPrefixOf, Genesis

(* What the files of an undamaged store hold. *)
LEMMA WholeFiles ==
  ASSUME StoreInv, damage = 0
  PROVE  /\ Files \subseteq Content \ {Torn} /\ \A x \in Files : Held(x) \in World
         /\ view["primary"] \in Files /\ view["backup"] \in Files
         /\ view["primary"] \in possible["primary"] /\ view["backup"] \in possible["backup"]
  <1>1. TypeOK /\ FilesInv /\ RacedInv /\ WholeInv BY DEF StoreInv
  <1>2. Torn \notin possible["primary"] /\ Torn \notin possible["backup"]
    BY <1>1 DEF RacedInv, WholeInv
  <1>3. view["primary"] \in possible["primary"] /\ view["backup"] \in possible["backup"]
    BY <1>1 DEF FilesInv, File
  <1> QED BY <1>1, <1>2, <1>3, PossibleContent, HeldWorld DEF Files

LEMMA KeptInit == Init => KeptInv
  <1> SUFFICES ASSUME Init PROVE KeptInv OBVIOUS
  <1>1. /\ served = Genesis /\ pc = "serving" /\ skipped = 0 /\ Files = {Absent}
        /\ view["primary"] = Absent
    BY DEF Init, Files, File
  <1>2. Genesis \in World BY ReadableIsWorld
  <1>3. \A n \in Nat : Within(n, Genesis, Genesis) BY <1>2, WithinSelf
  <1>4. Within(1 + skipped, Genesis, Genesis) BY <1>1, <1>3
  <1>5. Promise!IsPrefixOf(Genesis, Genesis) BY <1>2, PrefixSelf DEF World, Promise!World
  <1> QED BY <1>1, <1>4, <1>5, HeldWorld
          DEF KeptInv, AgreeInv, ServedInv, LatestInv, Saving, SaveStep, RollbackStep

(* Undisturbed, the files keep up. *)
LEMMA KeptStep ==
  ASSUME StoreInv, StoreInv', KeptInv, [Next]_vars, Undisturbed'
  PROVE  KeptInv'
  <1>0. damage = 0 /\ damage' = 0 /\ ~overlooked /\ ~overlooked'
    BY NeverForgotten DEF Undisturbed
  <1>a. /\ TypeOK /\ FilesInv /\ ProposalInv /\ CopyInv /\ WholeInv
        /\ served \in World /\ skipped \in Nat /\ requests \in 0 .. MaxRequests
    BY <1>0 DEF StoreInv, TypeOK
  <1>b. /\ \A x \in Files : Held(x) \in World /\ x \in Content /\ x # Torn
        /\ view["primary"] \in Files /\ view["backup"] \in Files
        /\ view["primary"] \in possible["primary"]
        /\ possible["primary"] \subseteq Files /\ possible["backup"] \subseteq Files
    BY <1>0, WholeFiles DEF Files
  <1>c. File = {"primary", "backup"} /\ Temporary = {"tmp", "bak.tmp", "restore.tmp", "rollback.tmp"}
    BY DEF File, Temporary
  <1>d. AgreeInv /\ ServedInv /\ LatestInv BY DEF KeptInv
  <1>e. Files' = possible'["primary"] \cup possible'["backup"] BY DEF Files
  <1>f. ASSUME UNCHANGED files PROVE Files' = Files /\ view' = view
    BY <1>f, <1>e DEF files, Files
  <1>g. ASSUME SyncParent
        PROVE  Files' = {view["primary"], view["backup"]} /\ Files' \subseteq Files /\ view' = view
    BY <1>b, <1>c, <1>e, <1>g, SyncEntries
  <1>h. ASSUME Files' \subseteq Files, skipped' = skipped PROVE AgreeInv'
    BY <1>d, <1>h DEF AgreeInv
  <1>i. ASSUME Files' \subseteq Files, skipped' = skipped, served' = served,
               pc \in LoadStep => pc' \in LoadStep
        PROVE  ServedInv'
    BY <1>d, <1>i DEF ServedInv
  <1>j. LoadStep = {"down", "restore_write", "restore_rename", "restore_sync"} BY DEF LoadStep
  <1> USE DEF Step, files, client, outside, lapses, history, Saving, SaveStep, RollbackStep
  <1>1. CASE BeginSave
    <2>1. LatestInv' BY <1>1, <1>d, <1>f, <1>j DEF BeginSave, LatestInv
    <2> QED BY <1>1, <1>f, <1>h, <1>i, <1>j, <2>1 DEF BeginSave, KeptInv
  <1>2. CASE WriteTemporary
    <2>1. /\ UNCHANGED <<served, proposal, previous, requests, files>> /\ pc = "write"
          /\ Files' = Files /\ view' = view
      BY <1>2, <1>f DEF WriteTemporary
    <2>2. CASE skipped' = skipped /\ pc' = "write_backup"
      <3>1. LatestInv' BY <1>d, <1>j, <2>1, <2>2 DEF LatestInv
      <3> QED BY <1>h, <1>i, <1>j, <2>1, <2>2, <3>1 DEF KeptInv
    <2>3. CASE skipped' = skipped + 1 /\ pc' = "rename"
      <3>1. skipped' \in Nat /\ 1 + skipped \in Nat /\ 1 + skipped' \in Nat
            /\ 1 + skipped <= 1 + skipped' /\ skipped' = 1 + skipped
        BY <1>a, <2>3
      <3>2. AgreeInv' BY <1>b, <1>d, <2>1, <3>1, WithinMore DEF AgreeInv
      <3>3. pc \notin LoadStep BY <1>j, <2>1
      <3>4. ServedInv' BY <1>a, <1>b, <1>d, <2>1, <3>1, <3>3, WithinMore DEF ServedInv
      <3>5. \A x \in Files' : Within(skipped', served', Held(x))
        BY <1>d, <2>1, <3>1, <3>3 DEF ServedInv
      <3>6. LatestInv' BY <1>d, <1>j, <2>1, <2>3, <3>5 DEF LatestInv
      <3> QED BY <3>2, <3>4, <3>6 DEF KeptInv
    <2>4. CASE skipped' = skipped /\ ~KeepsPrimary /\ previous # Unseen /\ pc' = "rename"
      <3>1. view["primary"] = previous BY <1>a, <2>1, <2>4 DEF WholeInv, BeforeRename
      <3>2. view["primary"] = Absent BY <1>b, <2>4, <3>1 DEF KeepsPrimary, Readable
      <3>3. Promise!IsPrefixOf(served, Genesis)
        BY <1>d, <1>j, <2>1, <3>2, HeldWorld DEF LatestInv
      <3>4. \A x \in Files : Within(skipped, served, Held(x))
        BY <1>a, <1>b, <3>3, PrefixOfGenesis, WithinPrefix
      <3>5. LatestInv' BY <1>d, <1>j, <2>1, <2>4, <3>4 DEF LatestInv
      <3> QED BY <1>h, <1>i, <1>j, <2>1, <2>4, <3>5 DEF KeptInv
    <2> QED BY <1>2, <1>a, <2>2, <2>3, <2>4 DEF WriteTemporary
  <1>3. CASE WriteBackup
    <2>1. LatestInv' BY <1>3, <1>d, <1>f, <1>j DEF WriteBackup, LatestInv
    <2> QED BY <1>3, <1>f, <1>h, <1>i, <1>j, <2>1 DEF WriteBackup, KeptInv
  <1>4. CASE RenameBackup
    <2>1. staged["bak.tmp"].bytes = view["primary"] BY <1>4, <1>a DEF RenameBackup, WholeInv
    <2>2. /\ view'["backup"] = view["primary"] /\ view'["primary"] = view["primary"]
          /\ possible'["backup"] = possible["backup"] \cup {view["primary"]}
          /\ possible'["primary"] = possible["primary"]
      BY <1>4, <1>a, <1>c, <2>1, Entered DEF RenameBackup
    <2>3. Files' \subseteq Files BY <1>b, <1>e, <2>2
    <2>4. LatestInv' BY <1>4, <1>d, <1>j, <2>2 DEF RenameBackup, LatestInv
    <2> QED BY <1>4, <1>h, <1>i, <1>j, <2>3, <2>4 DEF RenameBackup, KeptInv
  <1>5. CASE SyncBackup
    <2>1. /\ Promise!IsPrefixOf(served, Held(view["primary"]))
          /\ Promise!IsPrefixOf(served, Held(view["backup"]))
      BY <1>5, <1>d, <1>j DEF SyncBackup, LatestInv
    <2>2. \A x \in Files' : Within(skipped, served, Held(x))
      BY <1>5, <1>a, <1>b, <1>g, <2>1, WithinPrefix DEF SyncBackup
    <2>3. LatestInv' BY <1>5, <1>d, <1>g, <1>j, <2>2 DEF SyncBackup, LatestInv
    <2> QED BY <1>5, <1>g, <1>h, <1>i, <1>j, <2>3 DEF SyncBackup, KeptInv
  <1>6. CASE RenamePrimary
    <2>1. /\ UNCHANGED <<served, proposal, previous, requests, skipped>>
          /\ pc = "rename" /\ pc' = "sync" /\ Enter("primary", staged["tmp"])
      BY <1>6 DEF RenamePrimary
    <2>2. PICK w : w = staged["tmp"].bytes OBVIOUS
    <2>3. requests \in 1 .. MaxRequests /\ w = Append(served, requests)
      <3>1. w \in proposal BY <1>a, <2>1, <2>2 DEF ProposalInv, BeforeRename
      <3>2. proposal = {Append(served, requests)} BY <1>d, <2>1 DEF LatestInv
      <3>3. requests >= 1 BY <1>a, <2>1 DEF ProposalInv
      <3> QED BY <1>a, <3>1, <3>2, <3>3
    <2>4. w \in World /\ Held(w) = w /\ Promise!IsPrefixOf(served, w)
      <3>1. Within(0, served, served) BY <1>a, WithinSelf
      <3> QED BY <1>a, <2>3, <3>1, WithinAppended, PrefixAppended, HeldWorld
    <2>5. /\ view'["primary"] = w /\ view'["backup"] = view["backup"] /\ Files' = Files \cup {w}
      BY <1>a, <1>c, <1>e, <2>1, <2>2, Entered DEF Files
    <2>6. 1 + skipped \in Nat /\ skipped \in Nat BY <1>a
    <2>7. \A x \in Files : Within(1 + skipped, Held(x), served) /\ Within(1 + skipped, served, Held(x))
      BY <1>d, <1>j, <2>1 DEF ServedInv
    <2>8. \A x \in Files : Within(skipped, served, Held(x)) BY <1>d, <2>1 DEF LatestInv
    <2>9. \A x \in Files : Within(1 + skipped, Held(x), w)
      BY <1>a, <1>b, <2>4, <2>6, <2>7, WithinLonger
    <2>10. \A x \in Files : Within(1 + skipped, w, Held(x))
      BY <1>a, <1>b, <2>3, <2>6, <2>8, WithinAppended
    <2>11. Within(1 + skipped, w, w) BY <2>4, <2>6, WithinSelf
    <2>12. Within(1 + skipped, w, served)
      <3>1. Within(skipped, served, served) BY <1>a, WithinSelf
      <3> QED BY <1>a, <2>3, <3>1, WithinAppended
    <2>13. Within(1 + skipped, served, w) /\ Within(skipped, served, w)
      BY <1>a, <2>4, <2>6, WithinPrefix
    <2>14. AgreeInv' BY <1>d, <2>1, <2>4, <2>5, <2>9, <2>10, <2>11 DEF AgreeInv
    <2>15. ServedInv' BY <2>1, <2>4, <2>5, <2>7, <2>12, <2>13 DEF ServedInv
    <2>16. LatestInv' BY <1>d, <1>j, <2>1, <2>4, <2>5, <2>8, <2>13 DEF LatestInv
    <2> QED BY <2>14, <2>15, <2>16 DEF KeptInv
  <1>7. CASE SyncPrimary
    <2>1. LatestInv' BY <1>7, <1>d, <1>g, <1>j DEF SyncPrimary, LatestInv
    <2> QED BY <1>7, <1>g, <1>h, <1>i, <1>j, <2>1 DEF SyncPrimary, KeptInv
  <1>8. CASE Acknowledge
    <2>1. /\ UNCHANGED <<requests, skipped, files>> /\ pc = "saved" /\ pc' = "serving"
          /\ served' \in proposal
      BY <1>8 DEF Acknowledge
    <2>2. requests \in 1 .. MaxRequests /\ served' = Append(served, requests)
      <3>1. proposal = {Append(served, requests)} BY <1>d, <2>1 DEF LatestInv
      <3>2. requests >= 1 BY <1>a, <2>1 DEF ProposalInv
      <3> QED BY <1>a, <2>1, <3>1, <3>2
    <2>3. PICK w : w = served' OBVIOUS
    <2>4. w \in World /\ Held(w) = w /\ Promise!IsPrefixOf(served, w) /\ Promise!IsPrefixOf(w, w)
      <3>1. Within(0, served, served) BY <1>a, WithinSelf
      <3>2. w \in World /\ Promise!IsPrefixOf(served, w)
        BY <1>a, <2>2, <2>3, <3>1, WithinAppended, PrefixAppended
      <3> QED BY <3>2, PrefixSelf, HeldWorld DEF World, Promise!World
    <2>5. view["primary"] = w
      BY <1>a, <1>d, <2>1, <2>2, <2>3 DEF WholeInv, LatestInv
    <2>6. skipped \in Nat /\ 1 + skipped \in Nat BY <1>a
    <2>7. /\ \A x \in Files : Within(1 + skipped, Held(x), served)
          /\ \A x \in Files : Within(skipped, served, Held(x))
      BY <1>d, <1>j, <2>1 DEF ServedInv, LatestInv
    <2>8. \A x \in Files : Within(1 + skipped, Held(x), w)
      BY <1>a, <1>b, <2>4, <2>6, <2>7, WithinLonger
    <2>9. \A x \in Files : Within(1 + skipped, w, Held(x))
      BY <1>a, <1>b, <2>2, <2>3, <2>6, <2>7, WithinAppended
    <2>10. ServedInv' BY <1>f, <2>1, <2>3, <2>8, <2>9 DEF ServedInv
    <2>11. LatestInv' BY <1>f, <2>1, <2>3, <2>4, <2>5 DEF LatestInv
    <2> QED BY <1>f, <1>h, <2>1, <2>10, <2>11 DEF KeptInv
  <1>9. CASE Refuse
    <2>1. LatestInv' BY <1>9, <1>d, <1>f, <1>j DEF Refuse, LatestInv
    <2> QED BY <1>9, <1>f, <1>h, <1>i, <1>j, <2>1 DEF Refuse, KeptInv
  <1>10. CASE SyncPrimaryFails
    <2>1. LatestInv' BY <1>10, <1>d, <1>f, <1>j DEF SyncPrimaryFails, LatestInv
    <2> QED BY <1>10, <1>f, <1>h, <1>i, <1>j, <2>1 DEF SyncPrimaryFails, KeptInv
  <1>11. CASE RollbackWrite
    <2>1. LatestInv' BY <1>11, <1>d, <1>f, <1>j DEF RollbackWrite, LatestInv
    <2> QED BY <1>11, <1>f, <1>h, <1>i, <1>j, <2>1 DEF RollbackWrite, KeptInv
  <1>12. CASE RollbackRename
    <2>1. /\ staged["rollback.tmp"].bytes = previous /\ previous # Unseen
          /\ previous \in possible["primary"]
      BY <1>12, <1>a DEF RollbackRename, CopyInv, WholeInv
    <2>2. view'["primary"] = previous /\ Files' \subseteq Files
      BY <1>12, <1>a, <1>b, <1>c, <1>e, <2>1, Entered DEF RollbackRename
    <2>3. LatestInv' BY <1>12, <1>d, <1>j, <2>1, <2>2 DEF RollbackRename, LatestInv
    <2> QED BY <1>12, <1>h, <1>i, <1>j, <2>2, <2>3 DEF RollbackRename, KeptInv
  <1>13. CASE RollbackRemove
    <2>1. CASE Enter("primary", NoBytes) /\ overlooked' = (overlooked \/ previous = Unseen)
      <3>1. previous # Unseen BY <1>0, <2>1
      <3>2. previous = Absent /\ Absent \in possible["primary"]
        BY <1>13, <1>a, <3>1 DEF RollbackRemove, CopyInv, WholeInv
      <3>3. view'["primary"] = previous /\ Files' \subseteq Files
        BY <1>a, <1>b, <1>c, <1>e, <2>1, <3>2, EnterEntries DEF NoBytes
      <3>4. LatestInv' BY <1>13, <1>d, <1>j, <3>1, <3>3 DEF RollbackRemove, LatestInv
      <3> QED BY <1>13, <1>h, <1>i, <1>j, <3>3, <3>4 DEF RollbackRemove, KeptInv
    <2>2. CASE UNCHANGED files
      <3>1. LatestInv' BY <1>13, <1>d, <1>f, <1>j, <2>2 DEF RollbackRemove, LatestInv
      <3> QED BY <1>13, <1>f, <1>h, <1>i, <1>j, <2>2, <3>1 DEF RollbackRemove, KeptInv
    <2> QED BY <1>13, <2>1, <2>2 DEF RollbackRemove
  <1>14. CASE RollbackSync
    <2>1. LatestInv' BY <1>14, <1>d, <1>g, <1>j DEF RollbackSync, LatestInv
    <2> QED BY <1>14, <1>g, <1>h, <1>i, <1>j, <2>1 DEF RollbackSync, KeptInv
  <1>15. CASE OperationFails
    <2>1. LatestInv' BY <1>15, <1>d, <1>f, <1>j DEF OperationFails, LatestInv
    <2> QED BY <1>15, <1>f, <1>h, <1>i, <1>j, <2>1 DEF OperationFails, KeptInv
  <1>k. ASSUME pc' = "serving", NEW x \in Files, view'["primary"] = x, served' = Held(x),
               Files' \subseteq Files, skipped' = skipped
        PROVE  KeptInv'
    <2>1. Promise!IsPrefixOf(Held(x), Held(x)) BY <1>b, PrefixSelf DEF World, Promise!World
    <2>2. ServedInv' BY <1>d, <1>k DEF AgreeInv, ServedInv
    <2>3. LatestInv' BY <1>k, <2>1 DEF LatestInv
    <2> QED BY <1>h, <1>k, <2>2, <2>3 DEF KeptInv
  <1>16. CASE LoadPrimary
    <2>1. served' = Held(view["primary"]) BY <1>16, ReadableIsWorld DEF LoadPrimary, Held, Readable
    <2> QED BY <1>16, <1>b, <1>f, <1>k, <2>1 DEF LoadPrimary
  <1>17. CASE LoadGenesis
    <2>1. overlooked' = (overlooked \/ \E f \in File : view[f] # Absent) BY <1>17 DEF LoadGenesis
    <2>2. view["primary"] = Absent BY <1>0, <1>c, <2>1
    <2> QED BY <1>17, <1>b, <1>f, <1>k, <2>2, HeldWorld DEF LoadGenesis
  <1>l. ASSUME pc' \in LoadStep, Files' \subseteq Files, skipped' = skipped PROVE KeptInv'
    BY <1>h, <1>j, <1>l DEF KeptInv, ServedInv, LatestInv
  <1>18. CASE LoadBackup BY <1>18, <1>f, <1>j, <1>l DEF LoadBackup
  <1>19. CASE RestoreWrite BY <1>19, <1>f, <1>j, <1>l DEF RestoreWrite
  <1>20. CASE RestoreRename
    <2>1. staged["restore.tmp"].bytes = view["backup"] BY <1>20, <1>a DEF RestoreRename, CopyInv
    <2>2. Files' \subseteq Files
      BY <1>20, <1>a, <1>b, <1>c, <1>e, <2>1, Entered DEF RestoreRename
    <2> QED BY <1>20, <1>j, <1>l, <2>2 DEF RestoreRename
  <1>21. CASE RestoreSync
    <2>1. served' = view["primary"] /\ Readable(view["primary"])
      BY <1>21, <1>a DEF RestoreSync, CopyInv, WholeInv
    <2>2. served' = Held(view["primary"]) BY <2>1 DEF Held, Readable
    <2> QED BY <1>21, <1>b, <1>g, <1>k, <2>2 DEF RestoreSync
  <1>22. CASE RestoreFails BY <1>22, <1>f, <1>j, <1>l DEF RestoreFails
  <1>23. CASE Killed BY <1>23, <1>f, <1>j, <1>l DEF Killed
  <1>24. CASE PowerLoss
    <2>1. Files' \subseteq Files BY <1>24, <1>c, <1>e DEF PowerLoss, Files
    <2> QED BY <1>24, <1>j, <1>l, <2>1 DEF PowerLoss
  <1>25. ASSUME NEW c \in {Absent, Torn}, Damage(c) PROVE FALSE
    BY <1>0, <1>25 DEF Damage
  <1>26. CASE UNCHANGED vars
    <2>1. LatestInv' BY <1>26, <1>d, <1>f DEF vars, LatestInv
    <2> QED BY <1>26, <1>f, <1>h, <1>i, <2>1 DEF vars, KeptInv
  <1> QED BY <1>1, <1>2, <1>3, <1>4, <1>5, <1>6, <1>7, <1>8, <1>9, <1>10, <1>11, <1>12, <1>13,
             <1>14, <1>15, <1>16, <1>17, <1>18, <1>19, <1>20, <1>21, <1>22, <1>23, <1>24, <1>25,
             <1>26
          DEF Next, Save, Rollback, Load

----------------------------------------------------------------------------
(* w has all acknowledged requests but the last, and but one more for each *)
(* save that did not keep the primary.                                     *)
Enough(w) == Within(1 + skipped, acked, w)

(* After one loss this holds of all the node serves, can come back with or *)
(* is about to put into a file.                                            *)
AlmostInv ==
  /\ Enough(served)
  /\ \A w \in (Recoverable \cup proposal) \ {Torn} : Enough(w)
  /\ Saving /\ previous # Unseen =>
       \A b \in possible["backup"] : Loaded(previous, b) = Torn \/ Enough(Loaded(previous, b))
  /\ pc = "rename_backup" => staged["bak.tmp"].bytes = Torn \/ Enough(staged["bak.tmp"].bytes)
  /\ pc \in {"restore_write", "restore_rename"} => Enough(view["backup"])
  /\ pc = "restore_sync" => Enough(staged["restore.tmp"].bytes)
  /\ pc \in {"sync", "saved"} /\ view["primary"] \notin proposal =>
       \A w \in Recoverable \ {Torn}, v \in proposal : Within(1 + skipped, v, w)

(* Losses never decrease; the first is a damage or a load that passes over *)
(* the primary.                                                            *)
LossInv ==
  /\ StoreInv
  /\ Undisturbed => DurableInv /\ KeptInv
  /\ damage + passed <= 1 /\ ~overlooked => AlmostInv

(* Undisturbed, every file has enough. *)
LEMMA FilesEnough ==
  ASSUME StoreInv, DurableInv, KeptInv, damage = 0
  PROVE  \A x \in Files : Enough(Held(x))
  <1>1. /\ acked \in World /\ skipped \in Nat /\ 1 + skipped \in Nat
        /\ view["primary"] \in Content /\ view["backup"] \in Content
    BY DEF StoreInv, TypeOK, File
  <1>2. Loaded(view["primary"], view["backup"]) \in Recoverable BY LoadedNow
  <1>3. Promise!IsPrefixOf(acked, Loaded(view["primary"], view["backup"]))
    BY <1>2 DEF DurableInv, Promise!AckedSurvives
  <1>4. Loaded(view["primary"], view["backup"]) # Torn
    BY <1>2, ReadableIsWorld DEF DurableInv, World, Promise!World
  <1>5. PICK y \in Files : Loaded(view["primary"], view["backup"]) = Held(y)
    BY <1>1, <1>4, LoadedHeld, WholeFiles
  <1>6. ASSUME NEW x \in Files PROVE Within(1 + skipped, acked, Held(x))
    <2>1. Within(1 + skipped, Held(y), Held(x)) BY DEF KeptInv, AgreeInv
    <2>2. Held(x) \in World /\ Held(y) \in World BY WholeFiles
    <2> QED BY <1>1, <1>3, <1>5, <2>1, <2>2, WithinShorter
  <1> QED BY <1>6 DEF Enough

(* What is as good as acknowledged is enough. *)
LEMMA PrefixEnough ==
  ASSUME StoreInv, NEW w \in World, Promise!IsPrefixOf(acked, w)
  PROVE  Enough(w)
  BY WithinPrefix DEF StoreInv, TypeOK, Enough

LEMMA LossInit == Init => LossInv
  <1> SUFFICES ASSUME Init PROVE LossInv OBVIOUS
  <1>1. StoreInv /\ DurableInv /\ KeptInv BY InitStore, PromiseInit, DurableInit, KeptInit
  <1>2. pc = "serving" BY DEF Init
  <1>3. served \in World /\ Recoverable \subseteq World /\ proposal \subseteq World
    BY <1>1 DEF DurableInv, World, Promise!World
  <1>4. Enough(served) /\ \A w \in Recoverable \cup proposal : Enough(w)
    BY <1>1, <1>3, PrefixEnough DEF DurableInv, Promise!AckedSurvives
  <1>5. AlmostInv BY <1>2, <1>4 DEF AlmostInv, Saving, SaveStep, RollbackStep
  <1> QED BY <1>1, <1>5 DEF LossInv

(* The first damage leaves what the other entries make of it. *)
LEMMA AlmostDamaged ==
  ASSUME StoreInv, StoreInv', DurableInv, KeptInv, damage = 0,
         NEW c \in {Absent, Torn}, Damage(c)
  PROVE  AlmostInv'
  <1>1. /\ UNCHANGED <<pc, served, proposal, previous, staged, requests, acked, skipped>>
        /\ Enter("primary", [bytes |-> c, synced |-> TRUE])
    BY DEF Damage, client, lapses
  <1>2. /\ view'["backup"] = view["backup"] /\ view'["primary"] = c
        /\ possible'["primary"] = possible["primary"] \cup {c}
        /\ possible'["backup"] = possible["backup"]
    BY <1>1, EnterEntries DEF StoreInv, File
  <1>3. /\ TypeOK /\ ProposalInv /\ CopyInv /\ WholeInv
        /\ acked \in World /\ served \in World /\ proposal \subseteq World
        /\ skipped \in Nat /\ requests \in 0 .. MaxRequests /\ c \in Content
    BY DEF StoreInv, TypeOK, Content
  <1>4. \A x \in Files : Enough(Held(x)) /\ Held(x) \in World /\ x \in Content /\ x # Torn
    BY FilesEnough, WholeFiles
  <1>6. ASSUME NEW w \in World, Promise!IsPrefixOf(acked, w) PROVE Enough(w)
    BY <1>6, PrefixEnough
  <1>7. Enough(served) /\ \A w \in proposal : Enough(w)
    BY <1>3, <1>6 DEF DurableInv, Promise!AckedSurvives
  <1>8. ASSUME NEW w \in Recoverable', w # Torn PROVE \E x \in Files : w = Held(x)
    <2>1. PICK p \in possible["primary"] \cup {c}, b \in possible["backup"] : w = Loaded(p, b)
      BY <1>2 DEF Recoverable
    <2>2. p \in Content /\ b \in Content /\ (Readable(p) => p \in Files) /\ b \in Files
      BY <1>3, <1>4 DEF Files, Readable
    <2> QED BY <1>8, <2>1, <2>2, LoadedHeld
  <1>9. \A w \in (Recoverable' \cup proposal') \ {Torn} : Enough(w) BY <1>1, <1>4, <1>7, <1>8
  <1>10. ASSUME Saving, previous # Unseen, NEW b \in possible["backup"]
         PROVE  Loaded(previous, b) = Torn \/ Enough(Loaded(previous, b))
    <2>1. b \in Files /\ b \in Content /\ previous \in Content
      BY <1>3, <1>4, <1>10 DEF Files, TypeOK
    <2>2. CASE Readable(previous)
      <3>1. Loaded(previous, b) = previous /\ Held(previous) = previous /\ previous \in World
        BY <2>1, <2>2, LoadedContent, ReadableIsWorld, HeldWorld
      <3>2. Promise!IsPrefixOf(served, previous) BY <1>10, <3>1 DEF KeptInv, LatestInv
      <3>3. Within(1 + skipped, acked, previous)
        <4>1. Promise!IsPrefixOf(acked, served) BY DEF DurableInv, Promise!AckedSurvives
        <4>2. Within(1 + skipped, acked, served) BY <1>3, <4>1, WithinPrefix
        <4> QED BY <1>3, <3>1, <3>2, <4>2, WithinLonger
      <3> QED BY <3>1, <3>3 DEF Enough
    <2>3. CASE ~Readable(previous) BY <1>4, <2>1, <2>3, LoadedHeld
    <2> QED BY <2>2, <2>3
  <1>11. pc = "rename_backup" => Enough(staged["bak.tmp"].bytes)
    <2> SUFFICES ASSUME pc = "rename_backup" PROVE Enough(staged["bak.tmp"].bytes) OBVIOUS
    <2>1. staged["bak.tmp"].bytes = view["primary"] /\ Readable(view["primary"])
      BY <1>3 DEF WholeInv
    <2> QED BY <1>4, <2>1, WholeFiles DEF Held, Readable
  <1>12. pc \in {"restore_write", "restore_rename"} => Enough(view["backup"])
    <2> SUFFICES ASSUME pc \in {"restore_write", "restore_rename"} PROVE Enough(view["backup"])
      OBVIOUS
    <2>1. Readable(view["backup"]) BY <1>3 DEF CopyInv
    <2> QED BY <1>4, <2>1, WholeFiles DEF Held, Readable
  <1>13. pc = "restore_sync" => Enough(staged["restore.tmp"].bytes)
    <2> SUFFICES ASSUME pc = "restore_sync" PROVE Enough(staged["restore.tmp"].bytes) OBVIOUS
    <2>1. staged["restore.tmp"].bytes = view["primary"] /\ Readable(view["primary"])
      BY <1>3 DEF WholeInv, CopyInv
    <2> QED BY <1>4, <2>1, WholeFiles DEF Held, Readable
  <1>14. ASSUME pc \in {"sync", "saved"}, NEW w \in Recoverable', w # Torn, NEW v \in proposal
         PROVE  Within(1 + skipped, v, w)
    <2>1. PICK x \in Files : w = Held(x) BY <1>8, <1>14
    <2>2. Within(skipped, served, w) BY <1>14, <2>1 DEF KeptInv, LatestInv
    <2>3. requests \in 1 .. MaxRequests /\ v = Append(served, requests)
      <3>1. Saving BY <1>14 DEF Saving, SaveStep
      <3>2. requests >= 1 BY <1>3, <3>1 DEF ProposalInv
      <3> QED BY <1>3, <1>14, <3>1, <3>2 DEF KeptInv, LatestInv
    <2> QED BY <1>3, <1>4, <2>1, <2>2, <2>3, WithinAppended
  <1> QED BY <1>1, <1>2, <1>7, <1>9, <1>10, <1>11, <1>12, <1>13, <1>14 DEF AlmostInv, Enough, Saving

(* The first load that passes over the primary. *)
LEMMA AlmostPassed ==
  ASSUME StoreInv, DurableInv, KeptInv, damage = 0, LoadBackup
  PROVE  AlmostInv'
  <1>1. /\ UNCHANGED <<served, proposal, staged, view, possible, acked, skipped>>
        /\ pc' = "restore_write" /\ Readable(view["backup"])
    BY DEF LoadBackup, Step, files, client
  <1>2. Recoverable' = Recoverable BY <1>1 DEF Recoverable
  <1>3. served \in World /\ Recoverable \subseteq World /\ proposal \subseteq World
    BY DEF DurableInv, World, Promise!World
  <1>4. Enough(served) /\ \A w \in Recoverable \cup proposal : Enough(w)
    BY <1>3, PrefixEnough DEF DurableInv, Promise!AckedSurvives
  <1>5. Enough(view["backup"])
    BY <1>1, FilesEnough, WholeFiles DEF Held, Readable
  <1> QED BY <1>1, <1>2, <1>4, <1>5 DEF AlmostInv, Enough, Saving, SaveStep, RollbackStep

(* Any other step loses no more than has been lost. *)
LEMMA AlmostStep ==
  ASSUME StoreInv, StoreInv', AlmostInv, [Next]_vars, damage' = damage, passed' = passed,
         ~overlooked'
  PROVE  AlmostInv'
  <1>a. /\ TypeOK /\ FilesInv /\ RacedInv /\ ProposalInv /\ CopyInv
        /\ served \in World /\ acked \in World /\ proposal \subseteq World
        /\ skipped \in Nat /\ 1 + skipped \in Nat /\ requests \in 0 .. MaxRequests
        /\ damage \in Nat /\ passed \in Nat
    BY DEF StoreInv, TypeOK
  <1>b. File = {"primary", "backup"} /\ Temporary = {"tmp", "bak.tmp", "restore.tmp", "rollback.tmp"}
    BY DEF File, Temporary
  <1>c. /\ possible["primary"] \subseteq Content /\ possible["backup"] \subseteq Content
        /\ view["primary"] \in possible["primary"] /\ view["backup"] \in possible["backup"]
    BY <1>a, <1>b, PossibleContent DEF FilesInv
  <1>d. possible' = possible => Recoverable' = Recoverable BY DEF Recoverable
  <1>e. Torn \notin World BY ReadableIsWorld
  (* A step that acknowledges and skips nothing keeps what is enough. *)
  <1>f. ASSUME acked' = acked, skipped' = skipped, NEW w, Enough(w) PROVE Within(1 + skipped', acked', w)
    BY <1>f DEF Enough
  <1>g. ASSUME SyncParent
        PROVE  /\ Recoverable' \subseteq Recoverable /\ view' = view
               /\ possible'["backup"] \subseteq possible["backup"]
    BY <1>b, <1>c, <1>g, Settles, SyncEntries
  (* An entry that adds enough, or torn bytes, to what can come back. *)
  <1>h. ASSUME NEW x \in Content, x = Torn \/ x = Absent \/ Enough(x),
               \A b \in possible["backup"] : Loaded(x, b) = Torn \/ Enough(Loaded(x, b)),
               possible'["primary"] = possible["primary"] \cup {x},
               possible'["backup"] = possible["backup"]
        PROVE  \A w \in Recoverable' \ {Torn} : Enough(w)
    <2> SUFFICES ASSUME NEW w \in Recoverable', w # Torn PROVE Enough(w) OBVIOUS
    <2>1. PICK p \in possible["primary"] \cup {x}, b \in possible["backup"] : w = Loaded(p, b)
      BY <1>h DEF Recoverable
    <2>2. CASE p = x BY <1>h, <2>1, <2>2
    <2>3. CASE p \in possible["primary"] BY <2>1, <2>3 DEF AlmostInv, Recoverable
    <2> QED BY <2>1, <2>2, <2>3
  <1>i. \A w \in Recoverable \ {Torn} : Enough(w) BY DEF AlmostInv
  <1>j. ASSUME NEW p \in possible["primary"], Readable(p) PROVE Enough(p)
    <2>1. PICK b : b \in possible["backup"] BY <1>c
    <2>2. Loaded(p, b) = p /\ Loaded(p, b) \in Recoverable
      BY <1>c, <1>j, <2>1, LoadedContent DEF Recoverable
    <2> QED BY <1>i, <1>j, <2>2 DEF Readable
  <1> USE DEF Step, files, client, outside, lapses, history, Saving, SaveStep, RollbackStep
  <1>1. CASE BeginSave
    <2>1. /\ UNCHANGED <<served, files, acked, skipped>> /\ pc' = "write" /\ pc = "serving"
          /\ proposal' = {Append(served, requests + 1)}
          /\ previous' = view["primary"] \/ previous' = Unseen
      BY <1>1 DEF BeginSave
    <2>2. Enough(Append(served, requests + 1))
      <3>1. requests + 1 \in 1 .. MaxRequests
        <4>1. requests < MaxRequests BY <1>1 DEF BeginSave
        <4> QED BY <1>a, <4>1, StoreAssumption
      <3>2. Within(1 + skipped, acked, served) BY DEF AlmostInv, Enough
      <3>3. /\ Append(served, requests + 1) \in World
            /\ Promise!IsPrefixOf(served, Append(served, requests + 1))
        <4>1. Within(0, served, served) BY <1>a, WithinSelf
        <4> QED BY <1>a, <3>1, <4>1, WithinAppended, PrefixAppended
      <3>4. Within(1 + skipped, acked, Append(served, requests + 1))
        BY <1>a, <3>2, <3>3, WithinLonger
      <3> QED BY <3>4 DEF Enough
    <2>3. Recoverable' = Recoverable /\ possible'["backup"] = possible["backup"] BY <1>d, <2>1
    <2>4. \A b \in possible["backup"] :
             previous' # Unseen => Loaded(previous', b) = Torn \/ Enough(Loaded(previous', b))
      <3> SUFFICES ASSUME NEW b \in possible["backup"], previous' # Unseen
                   PROVE  Loaded(previous', b) = Torn \/ Enough(Loaded(previous', b))
        OBVIOUS
      <3>1. Loaded(view["primary"], b) \in Recoverable BY <1>c DEF Recoverable
      <3> QED BY <1>i, <2>1, <3>1
    <2> QED BY <2>1, <2>2, <2>3, <2>4 DEF AlmostInv, Enough
  <1>2. CASE WriteTemporary
    <2>1. /\ UNCHANGED <<served, proposal, previous, files, acked>> /\ pc = "write"
          /\ pc' \in {"write_backup", "rename"}
          /\ skipped' = skipped \/ skipped' = skipped + 1
      BY <1>2, <1>a DEF WriteTemporary
    <2>2. 1 + skipped' \in Nat /\ 1 + skipped <= 1 + skipped' BY <1>a, <2>1
    <2>3. ASSUME NEW w \in World, Enough(w) PROVE Within(1 + skipped', acked', w)
      <3>1. Within(1 + skipped, acked, w) BY <2>3 DEF Enough
      <3> QED BY <1>a, <2>1, <2>2, <2>3, <3>1, WithinMore
    <2>4. Recoverable' = Recoverable BY <1>d, <2>1
    <2>5. /\ \A w \in Recoverable : w \in World \cup {Torn}
          /\ previous # Unseen => \A b \in possible["backup"] : Loaded(previous, b) \in World \cup {Torn}
      BY <1>a, <1>c, LoadedContent DEF Recoverable, TypeOK
    <2>6. Within(1 + skipped', acked', served) BY <1>a, <2>3 DEF AlmostInv
    <2>7. \A w \in (Recoverable \cup proposal) \ {Torn} : Within(1 + skipped', acked', w)
      BY <1>a, <2>3, <2>5 DEF AlmostInv
    <2>8. previous # Unseen =>
            \A b \in possible["backup"] :
               Loaded(previous, b) = Torn \/ Within(1 + skipped', acked', Loaded(previous, b))
      BY <2>1, <2>3, <2>5 DEF AlmostInv
    <2> QED BY <2>1, <2>4, <2>6, <2>7, <2>8 DEF AlmostInv, Enough
  <1>3. CASE WriteBackup
    <2>1. /\ UNCHANGED <<served, proposal, previous, files, acked, skipped>>
          /\ pc = "write_backup" /\ pc' = "rename_backup" /\ view["primary"] # Absent
      BY <1>3 DEF WriteBackup
    <2>2. staged'["bak.tmp"].bytes = view["primary"] BY <1>3, <1>a, <1>b, WrittenFile DEF WriteBackup
    <2>3. view["primary"] = Torn \/ Enough(view["primary"])
      BY <1>c, <1>j, <2>1 DEF Readable
    <2> QED BY <1>d, <2>1, <2>2, <2>3 DEF AlmostInv, Enough
  <1>4. CASE RenameBackup
    <2>1. /\ UNCHANGED <<served, proposal, previous, staged, acked, skipped>>
          /\ pc = "rename_backup" /\ pc' = "sync_backup"
      BY <1>4 DEF RenameBackup
    <2>2. PICK x : x = staged["bak.tmp"].bytes OBVIOUS
    <2>3. /\ x \in Content /\ possible'["backup"] = possible["backup"] \cup {x}
          /\ possible'["primary"] = possible["primary"]
      BY <1>4, <1>a, <1>b, <2>2, Entered DEF RenameBackup
    <2>4. x # Absent /\ (x = Torn \/ Enough(x)) BY <1>a, <2>1, <2>2 DEF RacedInv, AlmostInv
    <2>5. ASSUME NEW p \in Content, ~Readable(p) PROVE Loaded(p, x) = Torn \/ Enough(Loaded(p, x))
      BY <2>4, <2>5 DEF Loaded
    <2>6. ASSUME NEW w \in Recoverable', w # Torn PROVE Enough(w)
      <3>1. PICK p \in possible["primary"], b \in possible["backup"] \cup {x} : w = Loaded(p, b)
        BY <2>3 DEF Recoverable
      <3>2. CASE b \in possible["backup"] BY <1>i, <2>6, <3>1, <3>2 DEF Recoverable
      <3>3. CASE b = x /\ Readable(p) BY <1>c, <1>j, <2>3, <3>1, <3>3, LoadedContent
      <3>4. CASE b = x /\ ~Readable(p) BY <1>c, <2>5, <2>6, <3>1, <3>4
      <3> QED BY <3>1, <3>2, <3>3, <3>4
    <2>7. ASSUME previous # Unseen, NEW b \in possible["backup"] \cup {x}
          PROVE  Loaded(previous, b) = Torn \/ Enough(Loaded(previous, b))
      <3>0. previous \in Content BY <1>a, <2>7 DEF TypeOK
      <3>1. CASE b \in possible["backup"] BY <2>1, <2>7, <3>1 DEF AlmostInv
      <3>2. CASE b = x /\ Readable(previous)
        <4>1. PICK d : d \in possible["backup"] BY <1>c
        <4>2. Loaded(previous, d) = previous /\ Loaded(previous, x) = previous
          BY <1>c, <2>3, <3>0, <3>2, <4>1, LoadedContent
        <4>3. Loaded(previous, d) = Torn \/ Enough(Loaded(previous, d))
          BY <2>1, <2>7, <4>1 DEF AlmostInv
        <4> QED BY <3>2, <4>2, <4>3
      <3>3. CASE b = x /\ ~Readable(previous) BY <2>5, <3>0, <3>3
      <3> QED BY <2>7, <3>1, <3>2, <3>3
    <2> QED BY <2>1, <2>3, <2>6, <2>7 DEF AlmostInv, Enough
  <1>5. CASE SyncBackup
    <2>1. /\ UNCHANGED <<served, proposal, previous, acked, skipped>>
          /\ pc = "sync_backup" /\ pc' = "rename"
      BY <1>5 DEF SyncBackup
    <2> QED BY <1>5, <1>g, <2>1 DEF SyncBackup, AlmostInv, Enough
  <1>6. CASE RenamePrimary
    <2>1. /\ UNCHANGED <<served, proposal, previous, acked, skipped>>
          /\ pc = "rename" /\ pc' = "sync"
      BY <1>6 DEF RenamePrimary
    <2>2. PICK x : x = staged["tmp"].bytes OBVIOUS
    <2>3. /\ x \in Content /\ possible'["primary"] = possible["primary"] \cup {x}
          /\ possible'["backup"] = possible["backup"] /\ view'["primary"] = x
      BY <1>6, <1>a, <1>b, <2>2, Entered DEF RenamePrimary
    <2>4. x \in proposal /\ x \in World BY <1>a, <2>1, <2>2 DEF ProposalInv, BeforeRename
    <2>5. Enough(x) BY <1>e, <2>4 DEF AlmostInv
    <2>6. \A b \in possible["backup"] : Loaded(x, b) = x
      BY <1>c, <2>3, <2>4, LoadedContent, ReadableIsWorld
    <2>7. \A w \in Recoverable' \ {Torn} : Enough(w) BY <1>h, <2>3, <2>5, <2>6
    <2> QED BY <2>1, <2>3, <2>4, <2>7 DEF AlmostInv, Enough
  <1>7. CASE SyncPrimary
    <2>1. /\ UNCHANGED <<served, proposal, previous, acked, skipped>>
          /\ pc = "sync" /\ pc' = "saved"
      BY <1>7 DEF SyncPrimary
    <2> QED BY <1>7, <1>g, <2>1 DEF SyncPrimary, AlmostInv, Enough
  <1>8. CASE Acknowledge
    <2>1. /\ UNCHANGED <<files, skipped>> /\ pc = "saved" /\ pc' = "serving"
          /\ served' \in proposal /\ acked' = served' /\ proposal' = {}
      BY <1>8 DEF Acknowledge, EndSave
    <2>2. PICK v \in World : proposal = {v} BY <1>a, <2>1 DEF ProposalInv
    <2>3. served' = v /\ acked' = v /\ Recoverable' = Recoverable BY <1>d, <2>1, <2>2
    <2>4. Within(1 + skipped, v, v) BY <1>a, WithinSelf
    <2>5. ASSUME NEW w \in Recoverable, w # Torn PROVE Within(1 + skipped, v, w)
      <3>1. CASE view["primary"] \in proposal
        <4>1. Recoverable = proposal BY <2>1, <3>1, OnlyTheProposal
        <4> QED BY <2>2, <2>4, <2>5, <4>1
      <3>2. CASE view["primary"] \notin proposal BY <2>1, <2>2, <2>5, <3>2 DEF AlmostInv
      <3> QED BY <3>1, <3>2
    <2> QED BY <2>1, <2>3, <2>4, <2>5 DEF AlmostInv, Enough
  <1>9. CASE Refuse
    <2>1. UNCHANGED <<served, files, acked, skipped>> /\ pc' = "serving" /\ proposal' = {}
      BY <1>9 DEF Refuse, EndSave
    <2> QED BY <1>d, <2>1 DEF AlmostInv, Enough
  <1>10. CASE SyncPrimaryFails
    <2>1. /\ UNCHANGED <<served, proposal, previous, files, acked, skipped>>
          /\ pc = "sync" /\ pc' \in {"rollback_remove", "rollback_write"}
      BY <1>10 DEF SyncPrimaryFails
    <2> QED BY <1>d, <2>1 DEF AlmostInv, Enough
  <1>11. CASE RollbackWrite
    <2>1. /\ UNCHANGED <<served, proposal, previous, files, acked, skipped>>
          /\ pc = "rollback_write" /\ pc' = "rollback_rename"
      BY <1>11 DEF RollbackWrite
    <2> QED BY <1>d, <2>1 DEF AlmostInv, Enough
  (* A rollback puts back what save found. *)
  <1>k. ASSUME pc \in RollbackStep, pc' = "rollback_sync", previous # Unseen,
               UNCHANGED <<served, proposal, previous, acked, skipped>>,
               possible'["primary"] = possible["primary"] \cup {previous},
               possible'["backup"] = possible["backup"]
        PROVE  AlmostInv'
    <2>1. previous \in Content BY <1>a, <1>k DEF TypeOK
    <2>2. \A b \in possible["backup"] : Loaded(previous, b) = Torn \/ Enough(Loaded(previous, b))
      BY <1>k DEF AlmostInv
    <2>3. previous = Torn \/ previous = Absent \/ Enough(previous)
      <3>1. PICK b : b \in possible["backup"] BY <1>c
      <3>2. Readable(previous) => Loaded(previous, b) = previous
        BY <1>c, <2>1, <3>1, LoadedContent
      <3> QED BY <2>2, <3>1, <3>2 DEF Readable
    <2>4. \A w \in Recoverable' \ {Torn} : Enough(w) BY <1>h, <1>k, <2>1, <2>2, <2>3
    <2> QED BY <1>k, <2>2, <2>4 DEF AlmostInv, Enough
  <1>12. CASE RollbackRename
    <2>1. staged["rollback.tmp"].bytes = previous /\ previous # Unseen
      BY <1>12, <1>a DEF RollbackRename, CopyInv
    <2>2. /\ possible'["primary"] = possible["primary"] \cup {previous}
          /\ possible'["backup"] = possible["backup"]
      BY <1>12, <1>a, <1>b, <2>1, Entered DEF RollbackRename
    <2> QED BY <1>12, <1>k, <2>1, <2>2 DEF RollbackRename
  <1>13. CASE RollbackRemove
    <2>1. CASE Enter("primary", NoBytes) /\ overlooked' = (overlooked \/ previous = Unseen)
      <3>1. previous # Unseen BY <2>1
      <3>2. previous = Absent BY <1>13, <1>a, <3>1 DEF RollbackRemove, CopyInv
      <3>3. /\ possible'["primary"] = possible["primary"] \cup {previous}
            /\ possible'["backup"] = possible["backup"]
        BY <1>a, <1>b, <2>1, <3>2, EnterEntries DEF NoBytes
      <3> QED BY <1>13, <1>k, <3>1, <3>3 DEF RollbackRemove
    <2>2. CASE UNCHANGED files
      <3>1. /\ UNCHANGED <<served, proposal, previous, files, acked, skipped>>
            /\ pc = "rollback_remove" /\ pc' = "rollback_sync"
        BY <1>13, <2>2 DEF RollbackRemove
      <3> QED BY <1>d, <3>1 DEF AlmostInv, Enough
    <2> QED BY <1>13, <2>1, <2>2 DEF RollbackRemove
  <1>14. CASE RollbackSync
    <2>1. /\ UNCHANGED <<served, proposal, previous, acked, skipped>>
          /\ pc = "rollback_sync" /\ pc' = "failed"
      BY <1>14 DEF RollbackSync
    <2> QED BY <1>14, <1>g, <2>1 DEF RollbackSync, AlmostInv, Enough
  <1>15. CASE OperationFails
    <2>1. /\ UNCHANGED <<served, proposal, previous, files, acked, skipped>>
          /\ pc \in SaveStep \cup RollbackStep /\ pc' = "failed"
      BY <1>15 DEF OperationFails
    <2> QED BY <1>d, <2>1 DEF AlmostInv, Enough
  (* A restart serves a world that has enough. *)
  <1>l. ASSUME pc' = "serving", Enough(served'), Recoverable' \subseteq Recoverable,
               UNCHANGED <<proposal, acked, skipped>>
        PROVE  AlmostInv'
    BY <1>l DEF AlmostInv, Enough
  <1>16. CASE LoadPrimary
    <2>1. Enough(served') BY <1>16, <1>c, <1>j DEF LoadPrimary
    <2> QED BY <1>16, <1>d, <1>l, <2>1 DEF LoadPrimary
  <1>17. CASE LoadGenesis
    <2>1. overlooked' = (overlooked \/ \E f \in File : view[f] # Absent) BY <1>17 DEF LoadGenesis
    <2>2. view["primary"] = Absent /\ view["backup"] = Absent BY <1>b, <2>1
    <2>3. served' = Loaded(view["primary"], view["backup"]) /\ served' \in World
      BY <1>17, <2>2, ReadableIsWorld DEF LoadGenesis, Loaded, Readable
    <2>4. Enough(served') BY <1>e, <1>i, <2>3, LoadedNow
    <2> QED BY <1>17, <1>d, <1>l, <2>4 DEF LoadGenesis
  (* The node is down, and only the named temporary file matters. *)
  <1>18. CASE LoadBackup
    <2>1. /\ UNCHANGED <<served, proposal, staged, files, acked, skipped>>
          /\ pc' = "restore_write" /\ Readable(view["backup"])
      BY <1>18 DEF LoadBackup
    <2>2. ~Readable(view["primary"]) BY <1>18, <1>a DEF LoadBackup
    <2>3. Loaded(view["primary"], view["backup"]) = view["backup"]
      BY <1>c, <2>1, <2>2, LoadedContent
    <2>4. Enough(view["backup"]) BY <1>i, <2>1, <2>3, LoadedNow DEF Readable
    <2> QED BY <1>d, <2>1, <2>4 DEF AlmostInv, Enough
  <1>19. CASE RestoreWrite
    <2>1. /\ UNCHANGED <<served, proposal, files, acked, skipped>>
          /\ pc = "restore_write" /\ pc' = "restore_rename"
      BY <1>19 DEF RestoreWrite
    <2> QED BY <1>d, <2>1 DEF AlmostInv, Enough
  <1>20. CASE RestoreRename
    <2>1. /\ UNCHANGED <<served, proposal, staged, acked, skipped>>
          /\ pc = "restore_rename" /\ pc' = "restore_sync"
      BY <1>20 DEF RestoreRename
    <2>2. PICK x : x = view["backup"] OBVIOUS
    <2>3. staged["restore.tmp"].bytes = x /\ Readable(x) BY <1>a, <2>1, <2>2 DEF CopyInv
    <2>4. /\ x \in Content /\ possible'["primary"] = possible["primary"] \cup {x}
          /\ possible'["backup"] = possible["backup"]
      BY <1>20, <1>a, <1>b, <2>3, Entered DEF RestoreRename
    <2>5. Enough(x) BY <2>1, <2>2 DEF AlmostInv
    <2>6. \A b \in possible["backup"] : Loaded(x, b) = x
      BY <1>c, <2>3, <2>4, LoadedContent
    <2>7. \A w \in Recoverable' \ {Torn} : Enough(w) BY <1>h, <2>4, <2>5, <2>6
    <2> QED BY <2>1, <2>3, <2>5, <2>7 DEF AlmostInv, Enough
  <1>21. CASE RestoreSync
    <2>1. Enough(served') BY <1>21 DEF RestoreSync, AlmostInv
    <2> QED BY <1>21, <1>g, <1>l, <2>1 DEF RestoreSync
  (* The node is down and prepares nothing. *)
  <1>m. ASSUME pc' = "down", Recoverable' \subseteq Recoverable, proposal' = {} \/ proposal' = proposal,
               UNCHANGED <<served, acked, skipped>>
        PROVE  AlmostInv'
    BY <1>m DEF AlmostInv, Enough
  <1>22. CASE RestoreFails BY <1>22, <1>d, <1>m DEF RestoreFails
  <1>23. CASE Killed BY <1>23, <1>d, <1>m DEF Killed, EndSave
  <1>24. CASE PowerLoss
    <2>1. \A f \in File : possible'[f] \subseteq possible[f] BY <1>24, <1>b DEF PowerLoss
    <2>2. Recoverable' \subseteq Recoverable BY <2>1, Shrinks DEF StoreInv
    <2> QED BY <1>24, <1>m, <2>2 DEF PowerLoss, EndSave
  <1>25. ASSUME NEW c \in {Absent, Torn}, Damage(c) PROVE FALSE
    BY <1>a, <1>25 DEF Damage
  <1>26. CASE UNCHANGED vars
    <2>1. Recoverable' = Recoverable BY <1>26 DEF vars, Recoverable
    <2> QED BY <1>26, <2>1 DEF vars, AlmostInv, Enough
  <1> QED BY <1>1, <1>2, <1>3, <1>4, <1>5, <1>6, <1>7, <1>8, <1>9, <1>10, <1>11, <1>12, <1>13,
             <1>14, <1>15, <1>16, <1>17, <1>18, <1>19, <1>20, <1>21, <1>22, <1>23, <1>24, <1>25,
             <1>26
          DEF Next, Save, Rollback, Load

LEMMA LossStep == LossInv /\ [Next]_vars => LossInv'
  <1> SUFFICES ASSUME LossInv, [Next]_vars PROVE LossInv' OBVIOUS
  <1>1. StoreInv /\ StoreInv' BY StoreStep DEF LossInv
  <1>2. damage \in Nat /\ passed \in Nat BY <1>1 DEF StoreInv, TypeOK
  <1>3. ASSUME Undisturbed' PROVE DurableInv' /\ KeptInv'
    <2>1. Undisturbed /\ [Promise!Next]_(Promise!vars) BY <1>1, <1>3, PromisedStep
    <2>2. DurableInv /\ KeptInv BY <2>1 DEF LossInv
    <2> QED BY <1>1, <1>3, <2>1, <2>2, DurableStep, KeptStep
  <1>4. ASSUME damage' + passed' <= 1, ~overlooked' PROVE AlmostInv'
    <2>1. ~overlooked BY <1>1, <1>4, NeverForgotten
    <2>2. CASE damage' = damage /\ passed' = passed
      <3>1. AlmostInv BY <1>4, <2>1, <2>2 DEF LossInv
      <3> QED BY <1>1, <1>4, <2>2, <3>1, AlmostStep
    <2>3. CASE /\ damage' = damage + 1 /\ passed' = passed
               /\ \E c \in {Absent, Torn} : Damage(c)
      <3>1. damage = 0 /\ passed = 0 BY <1>2, <1>4, <2>3
      <3>2. DurableInv /\ KeptInv BY <2>1, <3>1 DEF LossInv, Undisturbed
      <3> QED BY <1>1, <2>3, <3>1, <3>2, AlmostDamaged
    <2>4. CASE damage' = damage /\ passed' = passed + 1 /\ LoadBackup
      <3>1. damage = 0 /\ passed = 0 BY <1>2, <1>4, <2>4
      <3>2. DurableInv /\ KeptInv BY <2>1, <3>1 DEF LossInv, Undisturbed
      <3> QED BY <1>1, <2>4, <3>1, <3>2, AlmostPassed
    <2> QED BY <1>1, <2>2, <2>3, <2>4, NeverForgotten
  <1> QED BY <1>1, <1>3, <1>4 DEF LossInv

(* Whatever fails, is killed or loses power besides, one corruption or     *)
(* deletion of the primary, or one load that passes over it, costs at most *)
(* the last acknowledged command and one more for each save that did not   *)
(* keep the primary as the backup, or the node refuses to start.           *)
THEOREM OneLossAlwaysBounded == Spec => []OneLossBounded
  <1>1. LossInv => OneLossBounded
    BY DEF LossInv, AlmostInv, Enough, Within, OneLossBounded
  <1> QED BY <1>1, LossInit, LossStep, PTL DEF Spec

=================================================================================
