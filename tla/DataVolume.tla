----------------------------- MODULE DataVolume -----------------------------
(***************************************************************************)
(* The dashboard's /data volume over boots, image upgrades, crashes,       *)
(* backups and restores: the entrypoint and main.ts's boot order, the      *)
(* migrate-on-boot with its snapshot (policy/db.ts,                        *)
(* setup/pre-migration-backup.ts), the server's SSH key pair               *)
(* (setup/ssh-keys.ts), the Ansible venv (setup/ansible-venv.ts) and       *)
(* scripts/pct-data-backup.sh.                                             *)
(*                                                                         *)
(* The policy store is abstracted to its schema version, the number of     *)
(* changes made to it and the server keys its enrolled clients trust; a    *)
(* key is a number, 0 for none.  "conf" stands for adguard/conf and        *)
(* ansible/inventory.yml, which the scripts treat alike.                   *)
(***************************************************************************)
EXTENDS Integers, FiniteSets, Sequences

CONSTANTS Images,        \* the images an operator may run: [schema, core]
          Retain,        \* preMigrationBackup.retain
          Null,
          MaxBoots, MaxEdits, MaxArchives, MaxKeys, MaxFiles   \* bounds

Stores == [schema : Nat, edits : Nat, trusts : SUBSET Nat, file : Nat]
\* file: the private key's file exists, if only empty.
KeyPairs == {k \in [file : BOOLEAN, priv : Nat, pub : Nat] : k.priv # 0 => k.file}

\* What every instance gives the constants.
ConstantsOK ==
  Images \subseteq [schema : Nat, core : Nat] /\ Retain \in Nat /\ Null \notin Stores \cup KeyPairs

VARIABLES
  db,          \* Null or one of Stores: file tells two database files apart
  wal,         \* the file the -wal sidecar belongs to; 0 for no sidecar
  secrets,     \* Null or one of KeyPairs
  conf,        \* Null or a version of the settings
  snapshots,   \* the files pre-migrate-*.sqlite: [stamp, of, whole]
  venv,        \* [bin, sentinel]: the ansible-core installed and the one recorded
  laidOut,     \* the volume is not empty
  image,
  server,      \* "down", "migrate", "services", "keygen", "pubkey", "listen", "up"
  creds,       \* the private key the transports were built with
  venvState,   \* "idle", "check", "create", "uninstall", "install", "record", "ready", "unavailable"
  script,      \* [op, step, arc]: the backup or restore that is running
  archives,    \* the archives written so far
  boots, edits, nextKey, files, clock,
  hist         \* history: [pre, generated, torn, corrupt, swapped, steppedBack]

volume == <<db, wal, secrets, conf, snapshots, venv, laidOut>>
process == <<image, server, creds, venvState>>
counters == <<boots, edits, nextKey, files, clock>>
vars == <<db, wal, secrets, conf, snapshots, venv, laidOut, image, server, creds,
          venvState, script, archives, boots, edits, nextKey, files, clock, hist>>

Idle == [op |-> "none", step |-> 0, arc |-> Null]
NoKey == [file |-> FALSE, priv |-> 0, pub |-> 0]

Init ==
  /\ db = Null /\ wal = 0 /\ secrets = Null /\ conf = Null /\ snapshots = {}
  /\ venv = [bin |-> 0, sentinel |-> 0] /\ laidOut = FALSE
  /\ image \in Images /\ server = "down" /\ creds = 0 /\ venvState = "idle"
  /\ script = Idle /\ archives = {}
  /\ boots = 0 /\ edits = 0 /\ nextKey = 1 /\ files = 0 /\ clock = 0
  /\ hist = [pre |-> Null, generated |-> FALSE, torn |-> FALSE, corrupt |-> FALSE,
             swapped |-> FALSE, steppedBack |-> FALSE]

-----------------------------------------------------------------------------
(* Boot. *)

\* A sidecar of another database file is replayed onto the one opened.
openDatabase ==
  IF db = Null
    THEN /\ files' = files + 1
         /\ db' = [schema |-> 0, edits |-> 0, trusts |-> {}, file |-> files + 1]
         /\ wal' = 0
         /\ UNCHANGED hist
    ELSE /\ wal' = 0
         /\ hist' = [hist EXCEPT !.corrupt = @ \/ (wal # 0 /\ wal # db.file)]
         /\ UNCHANGED <<db, files>>

\* docker-entrypoint.sh lays the volume out and starts the server, which opens the store.
Boot ==
  /\ server = "down" /\ script.op # "restore" /\ boots < MaxBoots /\ files < MaxFiles
  /\ laidOut' = TRUE
  /\ secrets' = IF secrets = Null THEN NoKey ELSE secrets
  /\ server' = "migrate" /\ creds' = 0 /\ venvState' = "idle" /\ boots' = boots + 1
  /\ openDatabase
  /\ UNCHANGED <<conf, snapshots, venv, image, script, archives, edits, nextKey, clock>>

\* inspectMigrations: migrations wait on a store that was migrated before.
pendingTags == IF db.schema = 0 THEN {} ELSE (db.schema + 1) .. image.schema

\* Mutant: one snapshot too many is removed.
pruneOneMore(snaps) ==
  {s \in snaps : Cardinality({t \in snaps : t.stamp >= s.stamp}) < Retain}
\* pruneBackups: the names sort by their stamp, and the last Retain stay.
pruneBackups(snaps) ==
  {s \in snaps : Cardinality({t \in snaps : t.stamp > s.stamp}) < Retain}

\* backUpBeforeMigrate: VACUUM INTO a new file named by the clock, then prune.  The
\* clock of a host without a battery may be behind the stamps already on disk.
backUpBeforeMigrate(stamp) ==
  /\ stamp \notin {s.stamp : s \in snapshots}
  /\ snapshots' = pruneBackups(snapshots \cup {[stamp |-> stamp, of |-> db, whole |-> TRUE]})
  /\ clock' = stamp

\* migrate: one transaction over every pending migration.
migrate == db' = [db EXCEPT !.schema = IF image.schema > @ THEN image.schema ELSE @]

\* VACUUM INTO, in whole or in part, without the pruning that follows it.
vacuumInto(stamp, whole) ==
  /\ stamp \notin {s.stamp : s \in snapshots}
  /\ snapshots' = snapshots \cup {[stamp |-> stamp, of |-> db, whole |-> whole]}
  /\ clock' = stamp

Snapshot(stamp) ==
  /\ backUpBeforeMigrate(stamp)
  /\ hist' = [hist EXCEPT !.pre = db,
                          !.steppedBack = @ \/ \E s \in snapshots : s.stamp > stamp]

\* createDb with a snapshot taken.
MigrateBackedUp ==
  /\ server = "migrate" /\ pendingTags # {}
  /\ \E stamp \in (clock - 1) .. (clock + 1) : Snapshot(stamp)
  /\ migrate /\ server' = "services"
  /\ UNCHANGED <<wal, secrets, conf, venv, laidOut, image, creds, venvState, script,
                 archives, boots, edits, nextKey, files>>

\* createDb when the store is fresh or current, and when the snapshot failed, which may
\* leave a torn file: the migration runs without one.
MigrateOnly ==
  /\ server = "migrate"
  /\ \/ UNCHANGED <<snapshots, clock>>
     \/ pendingTags # {} /\ \E stamp \in (clock - 1) .. (clock + 1) : vacuumInto(stamp, FALSE)
  /\ hist' = IF pendingTags # {} THEN [hist EXCEPT !.pre = Null] ELSE hist
  /\ migrate /\ server' = "services"
  /\ UNCHANGED <<wal, secrets, conf, venv, laidOut, image, creds, venvState,
                 script, archives, boots, edits, nextKey, files>>

\* The process dies within VACUUM INTO, or before the pruning: the file it leaves, torn or
\* whole, has a snapshot's name, and counts as one when the next boot prunes.
SnapshotCut ==
  /\ server = "migrate" /\ pendingTags # {}
  /\ \E stamp \in (clock - 1) .. (clock + 1), whole \in BOOLEAN : vacuumInto(stamp, whole)
  /\ server' = "down"
  /\ UNCHANGED <<db, wal, secrets, conf, venv, laidOut, image, creds, venvState, script,
                 archives, boots, edits, nextKey, files, hist>>

\* The migration throws after its snapshot: createDb closes the store, the process ends.
MigrateFails ==
  /\ server = "migrate" /\ pendingTags # {}
  /\ \E stamp \in (clock - 1) .. (clock + 1) : Snapshot(stamp)
  /\ server' = "down"
  /\ UNCHANGED <<db, wal, secrets, conf, venv, laidOut, image, creds, venvState, script,
                 archives, boots, edits, nextKey, files>>

\* createPolicyPushTransport: the private key is read once, here; without one the
\* dispatcher is the logging stub, and stays so until the next start.
createPolicyPushTransport == creds' = secrets.priv

\* buildAppServices: the transport, then the pipeline over the same key file.
buildAppServices ==
  /\ server = "services"
  /\ createPolicyPushTransport
  /\ hist' = [hist EXCEPT !.generated = FALSE]
  /\ server' = "keygen"
  /\ UNCHANGED <<volume, image, venvState, script, archives, counters>>

\* ensureServerSshKeyPair, up to the private key.  A file there, an empty one too, is
\* never written again.  An error leaves the server keyless, and so does a cut; either may
\* leave the file empty, which is read as no key.
ensureServerSshKeyPair ==
  /\ server = "keygen"
  /\ \/ /\ secrets.file
        /\ server' = "listen"
        /\ UNCHANGED <<secrets, nextKey, hist>>
     \/ /\ ~secrets.file /\ nextKey <= MaxKeys
        /\ secrets' = [file |-> TRUE, priv |-> nextKey, pub |-> secrets.pub]
        /\ nextKey' = nextKey + 1 /\ server' = "pubkey"
        /\ hist' = [hist EXCEPT !.generated = TRUE]
     \/ /\ ~secrets.file
        /\ secrets' \in {secrets, [file |-> TRUE, priv |-> 0, pub |-> secrets.pub]}
        /\ server' = "listen"
        /\ UNCHANGED <<nextKey, hist>>
  /\ UNCHANGED <<db, wal, conf, snapshots, venv, laidOut, image, creds, venvState, script,
                 archives, boots, edits, files, clock>>

\* ensureServerSshKeyPair, the public key; a cut here leaves a private key without one.
writePublicKey ==
  /\ server = "pubkey"
  /\ secrets' = [secrets EXCEPT !.pub = secrets.priv]
  /\ server' = "listen"
  /\ UNCHANGED <<db, wal, conf, snapshots, venv, laidOut, image, creds, venvState, script,
                 archives, counters, hist>>

\* app.listen; the venv bootstrap starts behind it.
Listen ==
  /\ server = "listen"
  /\ server' = "up" /\ venvState' = "check"
  /\ UNCHANGED <<volume, image, creds, script, archives, counters, hist>>

-----------------------------------------------------------------------------
(* The Ansible venv. *)

\* Mutant: any recorded version will do.
installNeededAnyVersion ==
  IF venv.bin = 0 THEN "missing" ELSE IF venv.sentinel # 0 THEN "no" ELSE "drift"
\* #installNeeded
installNeeded ==
  IF venv.bin = 0 THEN "missing"
                  ELSE IF venv.sentinel = image.core THEN "no" ELSE "drift"

\* bootstrap: a venv at the pinned version is ready; else it is created or reconciled.
VenvCheck ==
  /\ server = "up" /\ venvState = "check"
  /\ venvState' = IF installNeeded = "no" THEN "ready" ELSE "install"
  /\ UNCHANGED <<volume, image, server, creds, script, archives, counters, hist>>

\* python -m venv and pip install: the old ansible-core is removed, then the pinned one
\* is in place, then the sentinel is written.
PipRemoves ==
  /\ server = "up" /\ venvState = "install" /\ venv.bin \notin {0, image.core}
  /\ venv' = [venv EXCEPT !.bin = 0]
  /\ UNCHANGED <<db, wal, secrets, conf, snapshots, laidOut, process, script, archives,
                 counters, hist>>

PipInstalls ==
  /\ server = "up" /\ venvState = "install" /\ venv.bin \in {0, image.core}
  /\ venv' = [venv EXCEPT !.bin = image.core]
  /\ venvState' = "record"
  /\ UNCHANGED <<db, wal, secrets, conf, snapshots, laidOut, image, server, creds, script,
                 archives, counters, hist>>

VenvReady ==
  /\ server = "up" /\ venvState = "record"
  /\ venv' = [venv EXCEPT !.sentinel = image.core]
  /\ venvState' = "ready"
  /\ UNCHANGED <<db, wal, secrets, conf, snapshots, laidOut, image, server, creds, script,
                 archives, counters, hist>>

\* A step of the bootstrap throws: Ansible is unavailable until the next boot.
VenvFails ==
  /\ server = "up" /\ venvState \in {"install", "record"}
  /\ venvState' = "unavailable"
  /\ UNCHANGED <<volume, image, server, creds, script, archives, counters, hist>>

-----------------------------------------------------------------------------
(* The running server. *)

\* A change to the policy store.  It is in the -wal sidecar until a checkpoint.
Edit ==
  /\ server = "up" /\ edits < MaxEdits
  /\ edits' = edits + 1
  /\ db' = [db EXCEPT !.edits = @ + 1] /\ wal' = db.file
  /\ UNCHANGED <<secrets, conf, snapshots, venv, laidOut, process, script, archives,
                 boots, nextKey, files, clock, hist>>

\* enrolClient: the client authorises the public key of the reply, if there is one.
Enrol ==
  /\ server = "up" /\ edits < MaxEdits
  /\ edits' = edits + 1
  /\ db' = [db EXCEPT !.edits = @ + 1, !.trusts = @ \cup {secrets.pub}] /\ wal' = db.file
  /\ UNCHANGED <<secrets, conf, snapshots, venv, laidOut, process, script, archives,
                 boots, nextKey, files, clock, hist>>

\* AdGuard Home saves its settings.
SaveConf ==
  /\ server = "up" /\ edits < MaxEdits
  /\ edits' = edits + 1 /\ conf' = edits + 1
  /\ UNCHANGED <<db, wal, secrets, snapshots, venv, laidOut, process, script, archives,
                 boots, nextKey, files, clock, hist>>

\* What the process holds goes with it.
down == /\ server' = "down" /\ creds' = 0 /\ venvState' = "idle"
        /\ hist' = [hist EXCEPT !.generated = FALSE]

\* onClose: teardown closes the store, which checkpoints it.
teardown ==
  /\ server = "up"
  /\ down /\ wal' = 0
  /\ UNCHANGED <<db, secrets, conf, snapshots, venv, laidOut, image, script, archives,
                 counters>>

\* The process or the host dies.
Crash ==
  /\ server # "down"
  /\ down
  /\ UNCHANGED <<volume, image, script, archives, counters>>

\* The operator runs another image; a venv left between two versions is noted.
ChangeImage ==
  /\ server = "down"
  /\ \E i \in Images \ {image} :
       /\ image' = i
       /\ hist' = [hist EXCEPT !.swapped = @ \/ venv.bin # venv.sentinel]
  /\ UNCHANGED <<volume, server, creds, venvState, script, archives, counters>>

\* The host is lost, and the volume with it.
LoseVolume ==
  /\ server = "down" /\ script = Idle /\ archives # {}
  /\ db' = Null /\ wal' = 0 /\ secrets' = Null /\ conf' = Null /\ snapshots' = {}
  /\ venv' = [bin |-> 0, sentinel |-> 0] /\ laidOut' = FALSE
  /\ hist' = [hist EXCEPT !.pre = Null, !.torn = FALSE]
  /\ UNCHANGED <<process, script, archives, counters>>

-----------------------------------------------------------------------------
(* pct-data-backup.sh *)

\* torn is history: the volume is what a cut restore left.
Empty == [db |-> Null, secrets |-> Null, conf |-> Null, torn |-> hist.torn]

\* Mutant: the settings are copied before the policy store.
backupOrderSecretsFirst == <<"secrets", "conf", "db">>
\* The order of cmd_backup: the store, the directories, the files.
backupOrder == <<"db", "secrets", "conf">>

\* cmd_backup: it needs the data dir, and may run beside the server.
BackupStarts ==
  /\ script = Idle /\ laidOut /\ Cardinality(archives) < MaxArchives
  /\ script' = [op |-> "backup", step |-> 1, arc |-> Empty]
  /\ UNCHANGED <<volume, process, archives, counters, hist>>

\* One copy of cmd_backup.  The online backup takes a committed state of the store.
BackupCopies ==
  /\ script.op = "backup" /\ script.step <= 3
  /\ script' =
       [script EXCEPT !.step = @ + 1,
          !.arc = CASE backupOrder[script.step] = "db" -> [@ EXCEPT !.db = db]
                    [] backupOrder[script.step] = "secrets" -> [@ EXCEPT !.secrets = secrets]
                    [] OTHER -> [@ EXCEPT !.conf = conf]]
  /\ UNCHANGED <<volume, process, archives, counters, hist>>

\* The archive is written; a cut before that leaves only the staging directory.
BackupWrites ==
  /\ script.op = "backup" /\ script.step = 4
  /\ archives' = archives \cup {script.arc}
  /\ script' = Idle
  /\ UNCHANGED <<volume, process, counters, hist>>

\* cmd_restore, to the copy: a volume that is not empty is refused without --force, what
\* the archive holds is cleared, and the sidecar with the store.  The operator has
\* stopped the server.
RestoreStarts(force) ==
  /\ script = Idle /\ server = "down" /\ files < MaxFiles
  /\ ~laidOut \/ force
  /\ \E a \in archives :
       /\ script' = [op |-> "restore", step |-> 0, arc |-> a]
       /\ db' = IF a.db # Null THEN Null ELSE db
       /\ secrets' = IF a.secrets # Null THEN Null ELSE secrets
       /\ conf' = IF a.conf # Null THEN Null ELSE conf
  /\ laidOut' = TRUE
  /\ hist' = [hist EXCEPT !.torn = TRUE, !.pre = Null]
  /\ UNCHANGED <<wal, snapshots, venv, process, archives, counters>>

\* Mutant: the sidecar stays.
dropSidecarsNot == wal
dropSidecars == IF script.arc.db # Null THEN 0 ELSE wal

\* One path of cp -a, in the order of the directory.
RestoreCopies ==
  /\ script.op = "restore"
  /\ \/ /\ script.arc.db # Null /\ db = Null
        /\ files' = files + 1
        /\ db' = [script.arc.db EXCEPT !.file = files + 1]
        /\ wal' = dropSidecars
        /\ UNCHANGED <<secrets, conf>>
     \/ /\ script.arc.secrets # Null /\ secrets = Null
        /\ secrets' = script.arc.secrets
        /\ UNCHANGED <<db, wal, conf, files>>
     \/ /\ script.arc.conf # Null /\ conf = Null
        /\ conf' = script.arc.conf
        /\ UNCHANGED <<db, wal, secrets, files>>
  /\ UNCHANGED <<snapshots, venv, laidOut, process, script, archives, boots, edits,
                 nextKey, clock, hist>>

\* The copy is complete and the integrity check passes.
RestoreEnds ==
  /\ script.op = "restore"
  /\ script.arc.db # Null => db # Null
  /\ script.arc.secrets # Null => secrets # Null
  /\ script.arc.conf # Null => conf # Null
  /\ script' = Idle
  /\ hist' = [hist EXCEPT !.torn = script.arc.torn]
  /\ UNCHANGED <<volume, process, archives, counters>>

\* The script is cut.
ScriptCut ==
  /\ script # Idle
  /\ script' = Idle
  /\ UNCHANGED <<volume, process, archives, counters, hist>>

Next ==
  \/ Boot \/ MigrateBackedUp \/ MigrateOnly \/ MigrateFails \/ SnapshotCut
  \/ buildAppServices \/ ensureServerSshKeyPair \/ writePublicKey \/ Listen
  \/ VenvCheck \/ PipRemoves \/ PipInstalls \/ VenvReady \/ VenvFails
  \/ Edit \/ Enrol \/ SaveConf \/ teardown \/ Crash \/ ChangeImage \/ LoseVolume
  \/ BackupStarts \/ BackupCopies \/ BackupWrites
  \/ (\E force \in BOOLEAN : RestoreStarts(force)) \/ RestoreCopies \/ RestoreEnds
  \/ ScriptCut

Spec == Init /\ [][Next]_vars

-----------------------------------------------------------------------------
(* Properties. *)

\* The server holds the key its enrolled clients trust, over crashes, restores and new
\* hosts, except on a volume a cut restore left behind or one restored from its backup.
ClientsTrustServerKey ==
  server = "up" /\ ~hist.torn => db.trusts \ {0} \subseteq {secrets.priv}

\* A migration can be taken back, done or failed: the snapshot of what the last one found
\* is on disk, if one was taken and no clock ran backwards.
MigrationCanBeUndone ==
  hist.pre # Null /\ ~hist.steppedBack /\ Retain > 0 =>
    \E s \in snapshots : s.whole /\ s.of = hist.pre

\* No store is opened under the sidecar of another.
NoForeignSidecar == ~hist.corrupt

\* The transports run with the key on disk, but for the boot that generated it.
CredentialsCurrent ==
  server = "up" => creds = secrets.priv \/ (creds = 0 /\ hist.generated)

\* Ansible reported ready is the pinned version, unless the image changed while the venv
\* stood between two versions.
ReadyVenvIsPinned ==
  server = "up" /\ venvState = "ready" /\ ~hist.swapped => venv.bin = image.core

\* The five, over cuts between the steps of boot, backup and restore, and within VACUUM INTO
\* and the write of the private key.
VolumeSound ==
  /\ ClientsTrustServerKey
  /\ MigrationCanBeUndone
  /\ NoForeignSidecar
  /\ CredentialsCurrent
  /\ ReadyVenvIsPinned

\* docs/architecture.md:303-306: the dispatcher is the logging stub until the server's
\* key exists.
StubOnlyWithoutKey == server = "up" /\ creds = 0 => secrets.priv = 0
=============================================================================
