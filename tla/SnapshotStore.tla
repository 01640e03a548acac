------------------------------ MODULE SnapshotStore ------------------------------
(***************************************************************************)
(* The snapshot store (src/storage.rs) under mutate_and_save (src/rpc.rs)  *)
(* and the loader of src/main.rs, file operation by file operation, on a   *)
(* local file system that may refuse any operation, reads and stats        *)
(* included, with a process that may be killed and a machine that may lose *)
(* power at any point.  A read that fails makes decode fail on a sound     *)
(* file, and Path::exists answers false if it cannot stat a file that is   *)
(* there; the code goes on after both, and passed, skipped and overlooked  *)
(* record where.                                                           *)
(*                                                                         *)
(* A world is the sequence of requests it results from, so that what a     *)
(* restart comes back with can be compared with what was acknowledged.     *)
(* A temporary file is truncated before it is written and never read back  *)
(* but by the rename that follows, so what one may hold when the node      *)
(* starts is left out.                                                     *)
(***************************************************************************)
EXTENDS Naturals, Sequences, SequencesExt

CONSTANTS
  Absent,       \* no directory entry
  Torn,         \* bytes that do not decode to a valid world
  Unseen,       \* a primary that is there but was not seen by save
  MaxRequests,  \* bound: requests that reach save
  MaxDamage,    \* bound: times the primary is corrupted or deleted from outside
  MaxPassed,    \* bound: loads that pass over a sound primary
  MaxSkipped    \* bound: saves that do not keep a sound primary

ASSUME StoreAssumption ==
  /\ {MaxRequests, MaxDamage, MaxPassed, MaxSkipped} \subseteq Nat
  /\ Absent # Torn /\ Absent # Unseen /\ Torn # Unseen
  /\ {Absent, Torn, Unseen} \cap Seq(1 .. MaxRequests) = {}

VARIABLES
  pc,        \* the file operation that comes next, or "serving" or "down"
  served,    \* AppState.world
  proposal,  \* {} or {w}: the world save is called with
  previous,  \* what save read when it began; None is Absent or Unseen
  staged,    \* the temporary files: their bytes and whether they are synced
  view,      \* the directory as the running system sees it
  possible,  \* the entries each name may have after a power loss
  requests,  \* requests made so far
  acked,     \* the last world whose request was answered with success
  refused,   \* requests answered with an error
  damage,    \* times the primary was damaged from outside
  raced,     \* one of them was between decode and fs::read of a save
  passed,    \* loads that restored the backup over a sound primary
  skipped,   \* saves that did not keep a sound primary as the backup
  overlooked \* a failed stat made a load serve genesis although there were
             \* files, or a rollback remove the primary it should put back

files   == <<view, possible>>
outside == <<damage, raced>>
lapses  == <<passed, skipped, overlooked>>
vars    == <<pc, served, proposal, previous, staged, view, possible,
             requests, acked, refused, damage, raced, passed, skipped, overlooked>>

World == Seq(1 .. MaxRequests)
File  == {"primary", "backup"}     \* state.json and state.json.bak
Temporary == {"tmp", "bak.tmp", "restore.tmp", "rollback.tmp"}  \* after "state.json."
Content == World \cup {Absent, Torn}

SaveStep     == {"write", "write_backup", "rename_backup", "sync_backup", "rename",
                 "sync", "saved", "failed"}
RollbackStep == {"rollback_write", "rollback_rename", "rollback_remove", "rollback_sync"}
LoadStep     == {"down", "restore_write", "restore_rename", "restore_sync"}

Genesis  == <<>>
NoBytes  == [bytes |-> Absent, synced |-> TRUE]
NoFiles  == [t \in Temporary |-> NoBytes]
AnyBytes(c) == c # Absent                 \* mutant: decode validates nothing
Readable(c) == c \notin {Absent, Torn}    \* decode succeeds

TypeOK ==
  /\ pc \in SaveStep \cup RollbackStep \cup LoadStep \cup {"serving"}
  /\ served \in World /\ acked \in World
  /\ proposal \subseteq World
  /\ previous \in Content \cup {Unseen}
  /\ staged \in [Temporary -> [bytes : Content, synced : BOOLEAN]]
  /\ view \in [File -> Content]
  /\ possible \in [File -> SUBSET Content]
  /\ requests \in 0 .. MaxRequests
  /\ refused \subseteq 1 .. MaxRequests
  /\ damage \in 0 .. MaxDamage /\ raced \in BOOLEAN
  /\ passed \in 0 .. MaxPassed /\ skipped \in 0 .. MaxSkipped /\ overlooked \in BOOLEAN

Init ==
  /\ pc = "serving" /\ served = Genesis /\ proposal = {} /\ previous = Absent
  /\ staged = NoFiles
  /\ view = [f \in File |-> Absent] /\ possible = [f \in File |-> {Absent}]
  /\ requests = 0 /\ acked = Genesis /\ refused = {}
  /\ damage = 0 /\ raced = FALSE
  /\ passed = 0 /\ skipped = 0 /\ overlooked = FALSE

----------------------------------------------------------------------------
(* File operations. *)

(* Mutant: sync_all is not called on the file. *)
WriteUnsynced(t, bytes) == staged' = [staged EXCEPT ![t] = [bytes |-> bytes, synced |-> FALSE]]

WriteSynced(t, bytes) == staged' = [staged EXCEPT ![t] = [bytes |-> bytes, synced |-> TRUE]]

(* A directory entry changes at once for the system and sooner or later on *)
(* the disk; bytes that were not synced may be torn by then.               *)
Enter(f, c) ==
  /\ view' = [view EXCEPT ![f] = c.bytes]
  /\ possible' = [possible EXCEPT ![f] =
                    @ \cup {c.bytes} \cup IF c.synced THEN {} ELSE {Torn}]

SyncNothing == UNCHANGED files  \* mutant: the directory is not synced
SyncParent ==
  /\ possible' = [f \in File |-> {view[f]}]
  /\ UNCHANGED view

----------------------------------------------------------------------------
(* SnapshotStore::save, called by mutate_and_save with the mutated world.  *)

client  == <<requests, acked, refused>>
history == <<client, outside, lapses>>

Step(from, to) == pc = from /\ pc' = to

(* Path::exists may miss a primary that is there. *)
BeginSave ==
  /\ Step("serving", "write")
  /\ requests < MaxRequests
  /\ requests' = requests + 1
  /\ proposal' = {Append(served, requests + 1)}
  /\ \/ previous' = view["primary"]
     \/ view["primary"] # Absent /\ previous' = Unseen
  /\ UNCHANGED <<served, staged, files, acked, refused, outside, lapses>>

AnyPrimary   == previous \notin {Absent, Unseen}              \* mutant: it is not decoded first
FirstPrimary == AnyPrimary /\ view["backup"] = Absent        \* mutant: a backup is not replaced

(* The primary is worth keeping as the backup. *)
KeepsPrimary == previous \notin {Absent, Unseen} /\ Readable(view["primary"])

(* After tmp is written the primary is decoded.  If that succeeds it is    *)
(* kept; if it does not, or the primary was not seen, save goes on.        *)
WriteTemporary ==
  /\ pc = "write"
  /\ \E w \in proposal : WriteSynced("tmp", w)
  /\ \/ KeepsPrimary /\ pc' = "write_backup" /\ UNCHANGED skipped
     \/ /\ pc' = "rename"
        /\ skipped' = skipped + IF KeepsPrimary \/ previous = Unseen THEN 1 ELSE 0
        /\ skipped' <= MaxSkipped
  /\ UNCHANGED <<served, proposal, previous, files, client, outside, passed, overlooked>>

(* The primary is read again, whatever it holds by now. *)
WriteBackup ==
  /\ Step("write_backup", "rename_backup")
  /\ view["primary"] # Absent
  /\ WriteSynced("bak.tmp", view["primary"])
  /\ UNCHANGED <<served, proposal, previous, files, history>>

RenameBackup ==
  /\ Step("rename_backup", "sync_backup")
  /\ Enter("backup", staged["bak.tmp"])
  /\ UNCHANGED <<served, proposal, previous, staged, history>>

SyncBackup ==
  /\ Step("sync_backup", "rename")
  /\ SyncParent
  /\ UNCHANGED <<served, proposal, previous, staged, history>>

RenamePrimary ==
  /\ Step("rename", "sync")
  /\ Enter("primary", staged["tmp"])
  /\ UNCHANGED <<served, proposal, previous, staged, history>>

SyncPrimary ==
  /\ Step("sync", "saved")
  /\ SyncParent
  /\ UNCHANGED <<served, proposal, previous, staged, history>>

(* rollback_primary: put back what save found, or remove what it made.     *)
SyncPrimaryFails ==
  /\ Step("sync", IF previous \in {Absent, Unseen} THEN "rollback_remove" ELSE "rollback_write")
  /\ UNCHANGED <<served, proposal, previous, staged, files, history>>

RollbackWrite ==
  /\ Step("rollback_write", "rollback_rename")
  /\ WriteSynced("rollback.tmp", previous)
  /\ UNCHANGED <<served, proposal, previous, files, history>>

RollbackRename ==
  /\ Step("rollback_rename", "rollback_sync")
  /\ Enter("primary", staged["rollback.tmp"])
  /\ UNCHANGED <<served, proposal, previous, staged, history>>

(* What save took for a new file is removed, also if it had not seen the   *)
(* one before; nothing is removed if Path::exists misses it.               *)
RollbackRemove ==
  /\ Step("rollback_remove", "rollback_sync")
  /\ \/ Enter("primary", NoBytes) /\ overlooked' = (overlooked \/ previous = Unseen)
     \/ UNCHANGED <<files, overlooked>>
  /\ UNCHANGED <<served, proposal, previous, staged, client, outside, passed, skipped>>

RollbackSync ==
  /\ Step("rollback_sync", "failed")
  /\ SyncParent
  /\ UNCHANGED <<served, proposal, previous, staged, history>>

(* Any operation but the last sync of the primary may fail and end save at *)
(* once, the reads of the primary and a rollback included.                 *)
OperationFails ==
  /\ pc \in (SaveStep \cup RollbackStep) \ {"sync", "saved", "failed"}
  /\ pc' = "failed"
  /\ UNCHANGED <<served, proposal, previous, staged, files, history>>

(* mutate_and_save returns: with the new world, or with the original.      *)
EndSave == proposal' = {} /\ staged' = NoFiles /\ previous' = Absent

Acknowledge ==
  /\ Step("saved", "serving")
  /\ served' \in proposal /\ acked' = served'
  /\ EndSave
  /\ UNCHANGED <<files, requests, refused, outside, lapses>>

Refuse ==
  /\ Step("failed", "serving")
  /\ refused' = refused \cup {requests}
  /\ EndSave
  /\ UNCHANGED <<served, files, requests, acked, outside, lapses>>

----------------------------------------------------------------------------
(* The end of the process, with or without a loss of power. *)

Killed ==
  /\ pc' = "down" /\ EndSave
  /\ UNCHANGED <<served, files, history>>

PowerLoss ==
  /\ pc' = "down" /\ EndSave
  /\ \E p \in possible["primary"], b \in possible["backup"] :
       /\ view' = [f \in File |-> IF f = "primary" THEN p ELSE b]
       /\ possible' = [f \in File |-> {view'[f]}]
  /\ UNCHANGED <<served, history>>

(* External: someone corrupts or deletes state.json, at any time. *)
Damage(c) ==
  /\ damage < MaxDamage
  /\ view["primary"] # Absent
  /\ damage' = damage + 1
  /\ raced' = (raced \/ (pc = "write_backup" /\ c = Torn))
  /\ Enter("primary", [bytes |-> c, synced |-> TRUE])
  /\ UNCHANGED <<pc, served, proposal, previous, staged, client, lapses>>

----------------------------------------------------------------------------
(* SnapshotStore::load_with_status.  Where it fails the node stays down.   *)

(* What a load makes of the two files if it can read both; Torn if neither *)
(* decodes.                                                                *)
Loaded(p, b) ==
  IF Readable(p) THEN p
  ELSE IF p = Absent /\ b = Absent THEN Genesis
  ELSE IF b = Absent THEN Torn ELSE b

LoadPrimary ==
  /\ Step("down", "serving")
  /\ Readable(view["primary"]) /\ served' = view["primary"]
  /\ UNCHANGED <<proposal, previous, staged, files, history>>

(* There is no file, or Path::exists does not see the primary. *)
LoadGenesis ==
  /\ Step("down", "serving")
  /\ served' = Genesis
  /\ overlooked' = (overlooked \/ \E f \in File : view[f] # Absent)
  /\ UNCHANGED <<proposal, previous, staged, files, client, outside, passed, skipped>>

(* The primary is missing or torn, or it is not seen or cannot be read. *)
LoadBackup ==
  /\ Step("down", "restore_write")
  /\ Readable(view["backup"])
  /\ passed' = passed + IF Readable(view["primary"]) THEN 1 ELSE 0
  /\ passed' <= MaxPassed
  /\ UNCHANGED <<served, proposal, previous, staged, files, client, outside,
                 skipped, overlooked>>

RestoreWrite ==
  /\ Step("restore_write", "restore_rename")
  /\ WriteSynced("restore.tmp", view["backup"])
  /\ UNCHANGED <<served, proposal, previous, files, history>>

RestoreRename ==
  /\ Step("restore_rename", "restore_sync")
  /\ Enter("primary", staged["restore.tmp"])
  /\ UNCHANGED <<served, proposal, previous, staged, history>>

RestoreSync ==
  /\ Step("restore_sync", "serving")
  /\ SyncParent
  /\ served' = staged["restore.tmp"].bytes /\ staged' = NoFiles
  /\ UNCHANGED <<proposal, previous, history>>

RestoreFails ==
  /\ pc \in {"restore_write", "restore_rename", "restore_sync"}
  /\ pc' = "down" /\ staged' = NoFiles
  /\ UNCHANGED <<served, proposal, previous, files, history>>

----------------------------------------------------------------------------
Save ==
  \/ BeginSave \/ WriteTemporary \/ WriteBackup \/ RenameBackup \/ SyncBackup
  \/ RenamePrimary \/ SyncPrimary \/ Acknowledge \/ Refuse

Rollback ==
  \/ SyncPrimaryFails \/ RollbackWrite \/ RollbackRename \/ RollbackRemove
  \/ RollbackSync \/ OperationFails

Load ==
  \/ LoadPrimary \/ LoadGenesis \/ LoadBackup \/ RestoreWrite \/ RestoreRename
  \/ RestoreSync \/ RestoreFails

Next ==
  \/ Save \/ Rollback \/ Load
  \/ Killed \/ PowerLoss \/ \E c \in {Absent, Torn} : Damage(c)

Spec == Init /\ [][Next]_vars

----------------------------------------------------------------------------
(* Properties. *)

(* The worlds a restart that can read its files may come back with, also   *)
(* after a loss of power now.                                              *)
Recoverable == {Loaded(p, b) : p \in possible["primary"], b \in possible["backup"]}

(* Nobody damaged the primary, no load passed over a sound file and no     *)
(* rollback removed a primary that save had not seen.  Reads and stats     *)
(* that fail anywhere else leave this true.                                *)
Undisturbed == damage = 0 /\ passed = 0 /\ ~overlooked

(***************************************************************************)
(* Undisturbed, the store does what DurableWorld promises: success means   *)
(* that nothing but the new world can come back, a failed or interrupted   *)
(* save leaves the old world or the new, and no power loss makes the node  *)
(* unable to start or start from an older world.                           *)
(***************************************************************************)
Promise == INSTANCE DurableWorld WITH
             Command <- 1 .. MaxRequests,
             up <- pc \notin LoadStep,
             maybe <- Recoverable

KeepsPromise ==
  Promise!Init /\ [][Undisturbed' => [Promise!Next]_(Promise!vars)]_vars

(* Every world the node serves or can come back with, after any failures   *)
(* and losses of power but undisturbed, is readable and contains every     *)
(* request that was answered with success.                                 *)
AckedSurvives == Undisturbed => Torn \notin Recoverable /\ Promise!AckedSurvives

(* A corrupt primary is copied over a valid backup in one case only: it    *)
(* was corrupted after save had decoded it and before save read it again.  *)
BackupStaysReadable == ~raced => Torn \notin possible["backup"]

(* What is left of a world without its last n requests. *)
Without(s, n) == SubSeq(s, 1, Len(s) - n)

(* One corruption or deletion of the primary at any time, or one load that *)
(* cannot read it, costs at most the last acknowledged command and one     *)
(* more for each save that could not keep the primary as the backup; or    *)
(* the node refuses to start.                                              *)
OneLossBounded ==
  damage + passed <= 1 /\ ~overlooked =>
    \A w \in Recoverable \ {Torn} : Promise!IsPrefixOf(Without(acked, 1 + skipped), w)

(* doc/api.md: failed snapshot writes do not persist events.               *)
RefusedNeverServed == \A i \in DOMAIN served : served[i] \notin refused
==================================================================================
