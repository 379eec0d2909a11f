-------------------------- MODULE LegacyMigration --------------------------
(***************************************************************************)
(* The start of the Store on a data directory that may hold the files of   *)
(* earlier versions: migrateLegacyFiles in store_sqlite.go.                *)
(*                                                                         *)
(* The process reads and removes the two files one after the other and     *)
(* commits one transaction; it may die between any two steps, a file may   *)
(* be damaged, and a removal may fail.                                     *)
(***************************************************************************)
EXTENDS Integers, Sequences

CONSTANTS
  MaxPlaced, \* how often the operator puts old files into the data directory
  MaxCrashes,\* how often the process may die or a removal may fail
  NoFile

ASSUME MigrationConstants ==
  /\ MaxPlaced \in Nat \ {0} /\ MaxCrashes \in Nat
  /\ NoFile \notin [version : Nat, good : BOOLEAN]

VARIABLES
  files,   \* files[f]: the version of its contents and whether they decode, or NoFile
  marker,  \* TRUE: atom2api_meta holds legacyMigrationKey
  rows,    \* rows[f]: the versions of file f that were inserted into the tables
  used,    \* TRUE: the tables hold rows of the running program
  pc,      \* where the start of the process is
  saw,     \* the files that the start found
  placed, crashes

migrationVars == <<files, marker, rows, used, pc, saw, placed, crashes>>
db == <<marker, rows, used>>

\* The state file and the usage log
Files == {"state", "usage"}
Present == {f \in Files : files[f] # NoFile}

MigrationInit ==
  /\ files \in [Files -> [version : {1}, good : BOOLEAN] \cup {NoFile}]
  /\ marker = FALSE
  /\ rows = [f \in Files |-> <<>>]
  /\ used = FALSE
  /\ pc = "down"
  /\ saw = {}
  /\ placed = 1
  /\ crashes = 0

(***************************************************************************)
(* The start of the process                                                *)
(***************************************************************************)
\* The existence of the two files is inspected; without either the Store loads.
Inspect ==
  /\ pc = "down"
  /\ saw' = Present
  /\ pc' = IF Present = {} THEN "up" ELSE "marker"
  /\ UNCHANGED <<files, db, placed, crashes>>

\* Definitions named Wrong... are plausible defects of the definition they precede;
\* they are not part of the specification.
WrongCompleted == FALSE
Completed == marker

\* A directory that was migrated before only needs the files to be removed.
CheckMarker ==
  /\ pc = "marker"
  /\ pc' = IF Completed THEN "remove state" ELSE "empty"
  /\ UNCHANGED <<files, db, saw, placed, crashes>>

\* sqliteIsEmpty
Empty == ~used /\ \A f \in Files : rows[f] = <<>>

CheckEmpty ==
  /\ pc = "empty"
  /\ pc' = IF Empty THEN "load" ELSE "refused"
  /\ UNCHANGED <<files, db, saw, placed, crashes>>

\* loadLegacyState fails on a file that does not decode.
Load ==
  /\ pc = "load"
  /\ pc' = IF \A f \in saw : files[f].good THEN "commit" ELSE "failed"
  /\ UNCHANGED <<files, db, saw, placed, crashes>>

Marked == marker' = TRUE

\* The transaction: the rows of both files and the marker
Commit ==
  /\ pc = "commit"
  /\ rows' = [f \in Files |-> IF f \in saw THEN Append(rows[f], files[f].version) ELSE rows[f]]
  /\ Marked
  /\ pc' = "remove state"
  /\ UNCHANGED <<files, used, saw, placed, crashes>>

\* removeLegacyFiles; a file that does not exist is no error, any other failure ends
\* the start.
Remove(f, from, to) ==
  /\ pc = from
  /\ \/ /\ files' = [files EXCEPT ![f] = NoFile]
        /\ pc' = to
        /\ UNCHANGED crashes
     \/ /\ files[f] # NoFile
        /\ crashes < MaxCrashes /\ crashes' = crashes + 1
        /\ pc' = "failed"
        /\ UNCHANGED files
  /\ UNCHANGED <<db, saw, placed>>

WrongRemovals == Remove("state", "empty", "load")
Removals == Remove("state", "remove state", "remove usage") \/ Remove("usage", "remove usage", "up")

StartStep == Inspect \/ CheckMarker \/ CheckEmpty \/ Load \/ Commit \/ Removals

(***************************************************************************)
(* The process and the operator                                            *)
(***************************************************************************)
\* The running program saves rows of its own, or deletes the last of them.
Use ==
  /\ pc = "up"
  /\ used' \in BOOLEAN
  /\ UNCHANGED <<files, marker, rows, pc, saw, placed, crashes>>

\* The operator stops the process.
Stop ==
  /\ pc = "up"
  /\ pc' = "down"
  /\ UNCHANGED <<files, db, saw, placed, crashes>>

\* main ends when the Store cannot be opened.
Exit ==
  /\ pc \in {"refused", "failed"}
  /\ pc' = "down"
  /\ UNCHANGED <<files, db, saw, placed, crashes>>

Crash ==
  /\ pc \notin {"down", "up", "refused", "failed"}
  /\ crashes < MaxCrashes /\ crashes' = crashes + 1
  /\ pc' = "down"
  /\ UNCHANGED <<files, db, saw, placed>>

\* The operator puts files of an earlier version into the directory.
Place ==
  /\ pc = "down"
  /\ placed < MaxPlaced /\ placed' = placed + 1
  /\ \E f \in (SUBSET Files) \ {{}} :
       files' = [g \in Files |-> IF g \in f THEN [version |-> placed + 1, good |-> TRUE]
                                 ELSE files[g]]
  /\ UNCHANGED <<db, pc, saw, crashes>>

MigrationNext == StartStep \/ Use \/ Stop \/ Exit \/ Crash \/ Place

MigrationSpec == MigrationInit /\ [][MigrationNext]_migrationVars
\* A process that was started runs on until the Store is open or the start has failed,
\* and the service manager starts it again; nobody needs to stop it.
MigrationFairSpec == MigrationSpec /\ WF_migrationVars(StartStep) /\ WF_migrationVars(Exit)

(***************************************************************************)
(* Properties                                                              *)
(***************************************************************************)
\* The state has its type; in particular the tables hold the contents of a file at most
\* once, and only together with the marker.
MigrationTypeOK ==
  /\ files \in [Files -> [version : 1 .. MaxPlaced, good : BOOLEAN] \cup {NoFile}]
  /\ marker \in BOOLEAN
  /\ \A f \in Files : rows[f] \in Seq(1 .. MaxPlaced) /\ Len(rows[f]) <= 1
                     /\ (rows[f] # <<>> => marker)
  /\ used \in BOOLEAN
  /\ pc \in {"down", "marker", "empty", "load", "commit", "remove state", "remove usage",
             "up", "refused", "failed"}
  /\ saw \subseteq Files
  /\ placed \in 1 .. MaxPlaced /\ crashes \in 0 .. MaxCrashes

\* The database holds the contents that file f has now.
Migrated(f) == \E i \in DOMAIN rows[f] : rows[f][i] = files[f].version

\* The files whose contents the database does not hold, whenever they were put there
Left == {f \in Files : files[f] # NoFile /\ ~Migrated(f)}
Taken == {f \in Files : rows[f] # <<>>}

\* Wherever the process dies, all files that are there move into the database in one step,
\* and none that was not migrated is removed before that step (README.md:148).
Migration == INSTANCE Handover WITH Contents <- Files, left <- Left, taken <- Taken
ImplementsHandover == Migration!Spec

\* README.md:148 says more: an old file is "migrated transactionally into the database and
\* removed only after the migration commits".  A file that is put beside a database that was
\* migrated into before is removed unread (migrateLegacyFiles, store_sqlite.go:155).
RemovedOnlyMigrated ==
  [][\A f \in Files : files[f] # NoFile /\ files'[f] = NoFile => Migrated(f)]_migrationVars

\* A start is refused only when the running program wrote to a database that files were
\* never migrated into: an interrupted migration is taken up, never refused.
RefusedOnlyWhenAmbiguous == pc = "refused" => used /\ ~marker

\* A migrated directory that is started again and again gets rid of the files.
FilesGo == []<>(~marker \/ Present = {})
=============================================================================
