---------------------------- MODULE ProcessProofs ----------------------------
(***************************************************************************)
(* Proofs about what the process does on its own behalf: the migration of  *)
(* old files (LegacyMigration) for any number of crashes and of placed     *)
(* files, and the refresh of quotas and the logins (QuotaRefresh,          *)
(* OAuthSessions) for any number of accounts, resets, sessions and polls.  *)
(***************************************************************************)
EXTENDS LegacyMigration, QuotaRefresh, OAuthSessions, SequenceTheorems, TLAPS

-----------------------------------------------------------------------------
(* The migration of old files.                                               *)

(* The marker is set by the transaction that inserts the rows, so there are  *)
(* rows exactly when there is a marker; and what a start inspected is still there when it   *)
(* commits, because the operator changes files only while no process runs.   *)
MigrationInv ==
  /\ marker \in BOOLEAN
  /\ rows \in [Files -> Seq(Nat)]
  /\ placed \in Nat
  /\ files \in [Files -> [version : Nat, good : BOOLEAN] \cup {NoFile}]
  /\ ~marker <=> Taken = {}
  /\ pc \in {"marker", "empty", "load", "commit"} => saw = Present /\ saw # {}
  /\ pc \in {"empty", "load", "commit"} => ~marker
  /\ pc \in {"remove state", "remove usage"} => marker
  /\ pc = "refused" => used /\ ~marker

LEMMA MigrationStart == MigrationInit => MigrationInv
<1> SUFFICES ASSUME MigrationInit PROVE MigrationInv
  OBVIOUS
<1>1. rows \in [Files -> Seq(Nat)] /\ Taken = {}
  BY EmptySeq DEF MigrationInit, Taken
<1>2. files \in [Files -> [version : Nat, good : BOOLEAN] \cup {NoFile}]
  BY DEF MigrationInit
<1> QED
  BY <1>1, <1>2 DEF MigrationInit, MigrationInv

LEMMA AppendIsMore ==
  ASSUME NEW s \in Seq(Nat), NEW n \in Nat
  PROVE  Append(s, n) \in Seq(Nat) /\ Append(s, n) # <<>>
<1>1. Append(s, n) \in Seq(Nat) /\ Len(Append(s, n)) = Len(s) + 1
  BY AppendProperties
<1>2. Len(s) \in Nat
  BY LenProperties
<1>3. Len(<<>>) = 0
  BY EmptySeq
<1> QED
  BY <1>1, <1>2, <1>3

LEMMA AppendElements ==
  ASSUME NEW s \in Seq(Nat), NEW n \in Nat
  PROVE  /\ \A i \in DOMAIN Append(s, n) : (i \in DOMAIN s /\ Append(s, n)[i] = s[i]) \/ Append(s, n)[i] = n
         /\ \E i \in DOMAIN Append(s, n) : Append(s, n)[i] = n
<1>1. Len(s) \in Nat /\ DOMAIN s = 1 .. Len(s)
  BY LenProperties
<1>2. /\ Append(s, n) \in Seq(Nat)
      /\ Len(Append(s, n)) = Len(s) + 1
      /\ \A i \in 1 .. Len(s) : Append(s, n)[i] = s[i]
      /\ Append(s, n)[Len(s) + 1] = n
  BY AppendProperties
<1>3. DOMAIN Append(s, n) = 1 .. Len(s) + 1
  BY <1>2, LenProperties
<1> QED
  BY <1>1, <1>2, <1>3

LEMMA CommitTakes ==
  ASSUME MigrationInv, Commit
  PROVE  /\ rows' \in [Files -> Seq(Nat)]
         /\ Taken' = Taken \cup saw
         /\ Left = saw /\ Left' = {} /\ saw # {}
<1>1. saw = Present /\ saw # {} /\ ~marker /\ saw \subseteq Files
  BY DEF MigrationInv, Commit, Present
<1>2. \A f \in saw : files[f].version \in Nat /\ rows[f] \in Seq(Nat)
  BY <1>1 DEF MigrationInv, Present
<1>3. \A f \in saw : Append(rows[f], files[f].version) \in Seq(Nat)
                     /\ Append(rows[f], files[f].version) # <<>>
  BY <1>2, AppendIsMore
<1>4. rows' = [f \in Files |-> IF f \in saw THEN Append(rows[f], files[f].version) ELSE rows[f]]
  BY DEF Commit
<1>5. rows' \in [Files -> Seq(Nat)]
  BY <1>3, <1>4 DEF MigrationInv
<1>6. Taken' = Taken \cup saw
  BY <1>1, <1>3, <1>4 DEF Taken
<1>7. \A f \in saw : rows'[f] = Append(rows[f], files[f].version) /\ UNCHANGED files
  BY <1>1, <1>4 DEF Commit
<1>8. \A f \in saw : Migrated(f)'
  <2>1. \A f \in saw : \E i \in DOMAIN Append(rows[f], files[f].version) :
          Append(rows[f], files[f].version)[i] = files[f].version
    BY <1>2, AppendElements
  <2> QED
    BY <1>7, <2>1 DEF Migrated
<1>9. \A f \in saw : ~Migrated(f)
  <2>1. \A f \in Files : rows[f] = <<>>
    BY <1>1 DEF MigrationInv, Taken
  <2>2. DOMAIN <<>> = {}
    BY EmptySeq, LenProperties
  <2> QED
    BY <1>1, <2>1, <2>2 DEF Migrated
<1>10. Left = saw /\ Left' = {}
  BY <1>1, <1>8, <1>9 DEF Left, Present, Commit
<1> QED
  BY <1>1, <1>5, <1>6, <1>10

LEMMA MigrationStep == MigrationInv /\ [MigrationNext]_migrationVars => MigrationInv'
<1> SUFFICES ASSUME MigrationInv, [MigrationNext]_migrationVars PROVE MigrationInv'
  OBVIOUS
<1>1. CASE Inspect
  BY <1>1 DEF Inspect, MigrationInv, Present, Taken, db
<1>2. CASE CheckMarker
  BY <1>2 DEF CheckMarker, Completed, MigrationInv, Present, Taken, db
<1>3. CASE CheckEmpty
  <2>1. pc' = "refused" => used
    BY <1>3 DEF CheckEmpty, Empty, MigrationInv, Taken
  <2> QED
    BY <1>3, <2>1 DEF CheckEmpty, MigrationInv, Present, Taken, db
<1>4. CASE Load
  BY <1>4 DEF Load, MigrationInv, Present, Taken, db
<1>5. CASE Commit
  <2>1. rows' \in [Files -> Seq(Nat)] /\ Taken' # {}
    BY <1>5, CommitTakes
  <2> QED
    BY <1>5, <2>1 DEF Commit, Marked, MigrationInv
<1>6. CASE Removals
  <2>1. ASSUME NEW f \in Files, NEW from \in {"remove state", "remove usage"},
               NEW to \in {"remove usage", "up"}, Remove(f, from, to)
        PROVE  MigrationInv'
    BY <2>1 DEF Remove, MigrationInv, Taken, db
  <2> QED
    BY <1>6, <2>1 DEF Removals, Files
<1>7. CASE Use \/ Stop \/ Exit \/ Crash
  <2>1. UNCHANGED <<files, marker, rows, placed>>
    BY <1>7 DEF Use, Stop, Exit, Crash, db
  <2>2. pc' \in {"up", "down"}
    BY <1>7 DEF Use, Stop, Exit, Crash
  <2> QED
    BY <2>1, <2>2 DEF MigrationInv, Taken
<1>8. CASE Place
  <2>1. files' \in [Files -> [version : Nat, good : BOOLEAN] \cup {NoFile}] /\ placed' \in Nat
    BY <1>8 DEF Place, MigrationInv
  <2> QED
    BY <1>8, <2>1 DEF Place, MigrationInv, Taken, db
<1>9. CASE UNCHANGED migrationVars
  BY <1>9 DEF migrationVars, MigrationInv, Present, Taken
<1> QED
  BY <1>1, <1>2, <1>3, <1>4, <1>5, <1>6, <1>7, <1>8, <1>9 DEF MigrationNext, StartStep

LEMMA MigrationHolds == MigrationSpec => []MigrationInv
  BY MigrationStart, MigrationStep, PTL DEF MigrationSpec

LEMMA FirstRow ==
  ASSUME NEW S, NEW n \in S
  PROVE  /\ <<>> \in Seq(S) /\ Len(<<>>) = 0
         /\ Append(<<>>, n) \in Seq(S) /\ Len(Append(<<>>, n)) = 1
<1>1. <<>> \in Seq(S) /\ Len(<<>>) = 0
  BY EmptySeq
<1> QED
  BY <1>1, AppendProperties

LEMMA CommitType ==
  ASSUME MigrationTypeOK, MigrationInv, Commit
  PROVE  \A f \in Files : rows'[f] \in Seq(1 .. MaxPlaced) /\ Len(rows'[f]) <= 1
<1> SUFFICES ASSUME NEW f \in Files
             PROVE  rows'[f] \in Seq(1 .. MaxPlaced) /\ Len(rows'[f]) <= 1
  OBVIOUS
<1>1. ~marker /\ saw = Present /\ rows[f] = <<>>
  BY DEF MigrationInv, Commit, Taken
<1>2. rows' = [g \in Files |-> IF g \in saw THEN Append(rows[g], files[g].version) ELSE rows[g]]
  BY DEF Commit
<1>3. CASE f \notin saw
  <2>1. rows'[f] = <<>>
    BY <1>1, <1>2, <1>3
  <2>2. <<>> \in Seq(1 .. MaxPlaced) /\ Len(<<>>) = 0
    BY EmptySeq
  <2> QED
    BY <2>1, <2>2
<1>4. CASE f \in saw
  <2>1. files[f].version \in 1 .. MaxPlaced
    BY <1>1, <1>4 DEF MigrationTypeOK, Present
  <2>2. rows'[f] = Append(<<>>, files[f].version)
    BY <1>1, <1>2, <1>4
  <2>3. Append(<<>>, files[f].version) \in Seq(1 .. MaxPlaced)
        /\ Len(Append(<<>>, files[f].version)) = 1
    BY <2>1, FirstRow
  <2> QED
    BY <2>2, <2>3
<1> QED
  BY <1>3, <1>4

LEMMA OneMore ==
  ASSUME NEW n \in 0 .. MaxCrashes, n < MaxCrashes PROVE n + 1 \in 0 .. MaxCrashes
  BY MigrationConstants

(* A commit is made once, and every other step leaves the tables alone.      *)
LEMMA TypeStep == MigrationTypeOK /\ MigrationInv /\ [MigrationNext]_migrationVars => MigrationTypeOK'
<1> SUFFICES ASSUME MigrationTypeOK, MigrationInv, [MigrationNext]_migrationVars PROVE MigrationTypeOK'
  OBVIOUS
<1> DEFINE RowsOK == \A f \in Files : /\ rows[f] \in Seq(1 .. MaxPlaced) /\ Len(rows[f]) <= 1
                                     /\ (rows[f] # <<>> => marker)
<1>a. RowsOK
  BY DEF MigrationTypeOK
<1>c. crashes \in 0 .. MaxCrashes
  BY DEF MigrationTypeOK
<1>b. ASSUME UNCHANGED <<rows, marker>> PROVE RowsOK'
  BY <1>a, <1>b
<1> HIDE DEF RowsOK
<1>1. CASE Inspect \/ CheckMarker \/ CheckEmpty \/ Load
  BY <1>1, <1>b DEF Inspect, CheckMarker, CheckEmpty, Load, MigrationTypeOK, RowsOK, Present, db
<1>2. CASE Commit
  <2>1. RowsOK'
    BY <1>2, CommitType DEF Commit, Marked, RowsOK
  <2> QED
    BY <1>2, <2>1 DEF Commit, Marked, MigrationTypeOK, RowsOK
<1>3. CASE Removals
  <2>1. ASSUME NEW f \in Files, NEW from \in {"remove state", "remove usage"},
               NEW to \in {"remove usage", "up"}, Remove(f, from, to)
        PROVE  MigrationTypeOK'
    <3>1. RowsOK' /\ UNCHANGED <<marker, used, saw, placed>>
      BY <2>1, <1>b DEF Remove, db
    <3>2. crashes' \in 0 .. MaxCrashes
      <4>1. crashes' = crashes \/ (crashes < MaxCrashes /\ crashes' = crashes + 1)
        BY <2>1 DEF Remove
      <4>2. CASE crashes' = crashes
        BY <4>2, <1>c
      <4>3. CASE crashes < MaxCrashes /\ crashes' = crashes + 1
        BY <4>3, <1>c, OneMore
      <4> QED
        BY <4>1, <4>2, <4>3
    <3>3. files \in [Files -> [version : 1 .. MaxPlaced, good : BOOLEAN] \cup {NoFile}]
      BY DEF MigrationTypeOK
    <3>4. files' \in [Files -> [version : 1 .. MaxPlaced, good : BOOLEAN] \cup {NoFile}]
      BY <2>1, <3>3 DEF Remove
    <3>5. pc' \in {"remove usage", "up", "failed"}
      BY <2>1 DEF Remove
    <3> QED
      BY <3>1, <3>2, <3>4, <3>5 DEF MigrationTypeOK, RowsOK
  <2> QED
    BY <1>3, <2>1 DEF Removals, Files
<1>4. CASE Use \/ Stop \/ Exit
  <2>1. RowsOK'
    BY <1>4, <1>b DEF Use, Stop, Exit, db
  <2> QED
    BY <1>4, <2>1 DEF Use, Stop, Exit, MigrationTypeOK, RowsOK, db
<1>7. CASE Crash
  <2>1. RowsOK'
    BY <1>7, <1>b DEF Crash, db
  <2>2. crashes' \in 0 .. MaxCrashes
    BY <1>7, <1>c, MigrationConstants DEF Crash
  <2>3. UNCHANGED <<files, marker, used, saw, placed>> /\ pc' = "down"
    BY <1>7 DEF Crash, db
  <2> QED
    BY <2>1, <2>2, <2>3 DEF MigrationTypeOK, RowsOK
<1>5. CASE Place
  <2>1. files' \in [Files -> [version : 1 .. MaxPlaced, good : BOOLEAN] \cup {NoFile}]
    BY <1>5, MigrationConstants DEF Place, MigrationTypeOK
  <2> QED
    BY <1>5, <1>b, <2>1, MigrationConstants DEF Place, MigrationTypeOK, RowsOK, db
<1>6. CASE UNCHANGED migrationVars
  BY <1>6, <1>b DEF migrationVars, MigrationTypeOK, RowsOK
<1> QED
  BY <1>1, <1>2, <1>3, <1>4, <1>5, <1>6, <1>7 DEF MigrationNext, StartStep

(* The state keeps its type; in particular no file is inserted twice.        *)
THEOREM TypeCorrect == MigrationSpec => []MigrationTypeOK
<1>1. MigrationInit => MigrationTypeOK
  <2>1. <<>> \in Seq(1 .. MaxPlaced) /\ Len(<<>>) = 0
    BY EmptySeq
  <2> SUFFICES ASSUME MigrationInit PROVE MigrationTypeOK
    OBVIOUS
  <2>2. 1 \in 1 .. MaxPlaced /\ 0 \in 0 .. MaxCrashes
    BY MigrationConstants
  <2>3. files \in [Files -> [version : 1 .. MaxPlaced, good : BOOLEAN] \cup {NoFile}]
    BY <2>2 DEF MigrationInit
  <2>4. \A f \in Files : rows[f] = <<>>
    BY DEF MigrationInit
  <2>5. \A f \in Files : /\ rows[f] \in Seq(1 .. MaxPlaced) /\ Len(rows[f]) <= 1
                        /\ (rows[f] # <<>> => marker)
    <3> SUFFICES ASSUME NEW f \in Files
                 PROVE  /\ rows[f] \in Seq(1 .. MaxPlaced) /\ Len(rows[f]) <= 1
                        /\ (rows[f] # <<>> => marker)
      OBVIOUS
    <3>1. rows[f] = <<>>
      BY <2>4
    <3>2. rows[f] \in Seq(1 .. MaxPlaced)
      BY <2>1, <3>1
    <3>3. Len(rows[f]) = 0
      BY <2>1, <3>1
    <3> QED
      BY <3>1, <3>2, <3>3
  <2>6. placed = 1 /\ crashes = 0 /\ marker = FALSE /\ used = FALSE /\ pc = "down" /\ saw = {}
    BY DEF MigrationInit
  <2> QED
    BY <2>2, <2>3, <2>5, <2>6 DEF MigrationTypeOK
<1> QED
  BY <1>1, MigrationHolds, TypeStep, PTL DEF MigrationSpec

(* An interrupted migration is never taken for an ambiguous one.             *)
THEOREM NeverRefusedAfterCrash == MigrationSpec => []RefusedOnlyWhenAmbiguous
<1>1. MigrationInv => RefusedOnlyWhenAmbiguous
  BY DEF MigrationInv, RefusedOnlyWhenAmbiguous
<1> QED
  BY <1>1, MigrationHolds, PTL

(* Every row is of a file that was placed, and so is every file: a file that *)
(* is placed now differs from all rows.                                      *)
Numbered ==
  /\ \A f \in Files : files[f] # NoFile => files[f].version <= placed
  /\ \A f \in Files : \A i \in DOMAIN rows[f] : rows[f][i] <= placed

LEMMA NumberedStep == MigrationInv /\ Numbered /\ [MigrationNext]_migrationVars => Numbered'
<1> SUFFICES ASSUME MigrationInv, Numbered, [MigrationNext]_migrationVars PROVE Numbered'
  OBVIOUS
<1>1. CASE Inspect \/ CheckMarker \/ CheckEmpty \/ Load \/ Use \/ Stop \/ Exit \/ Crash \/ UNCHANGED migrationVars
  <2>1. UNCHANGED <<files, rows, placed>>
    BY <1>1 DEF Inspect, CheckMarker, CheckEmpty, Load, Use, Stop, Exit, Crash, db, migrationVars
  <2> QED
    BY <2>1 DEF Numbered
<1>2. CASE Commit
  <2>1. rows' = [f \in Files |-> IF f \in saw THEN Append(rows[f], files[f].version) ELSE rows[f]]
    BY <1>2 DEF Commit
  <2>2. saw = Present /\ UNCHANGED <<files, placed>>
    BY <1>2 DEF Commit, MigrationInv
  <2>3. ASSUME NEW f \in Files, NEW i \in DOMAIN rows'[f] PROVE rows'[f][i] <= placed
    <3>1. CASE f \in saw
      <4>1. files[f].version \in Nat /\ rows[f] \in Seq(Nat) /\ files[f].version <= placed
        BY <2>2, <3>1 DEF Present, MigrationInv, Numbered
      <4>2. rows'[f] = Append(rows[f], files[f].version)
        BY <2>1, <3>1
      <4>4. \A j \in DOMAIN Append(rows[f], files[f].version) :
              \/ j \in DOMAIN rows[f] /\ Append(rows[f], files[f].version)[j] = rows[f][j]
              \/ Append(rows[f], files[f].version)[j] = files[f].version
        BY <4>1, AppendElements
      <4>3. (i \in DOMAIN rows[f] /\ rows'[f][i] = rows[f][i]) \/ rows'[f][i] = files[f].version
        BY <2>3, <4>2, <4>4
      <4> QED
        BY <4>1, <4>3 DEF Numbered
    <3>2. CASE f \notin saw
      BY <2>1, <2>3, <3>2 DEF Numbered
    <3> QED
      BY <3>1, <3>2
  <2> QED
    BY <2>2, <2>3 DEF Numbered
<1>3. CASE Removals
  <2>1. ASSUME NEW f \in Files, NEW from \in {"remove state", "remove usage"},
               NEW to \in {"remove usage", "up"}, Remove(f, from, to)
        PROVE  Numbered'
    BY <2>1 DEF Remove, MigrationInv, Numbered, db
  <2> QED
    BY <1>3, <2>1 DEF Removals, Files
<1>4. CASE Place
  <2>1. PICK f \in (SUBSET Files) \ {{}} :
          files' = [g \in Files |-> IF g \in f THEN [version |-> placed + 1, good |-> TRUE] ELSE files[g]]
    BY <1>4 DEF Place
  <2>2. placed \in Nat /\ placed' = placed + 1 /\ UNCHANGED rows
    BY <1>4 DEF Place, db, MigrationInv
  <2>3. \A g \in Files : files[g] # NoFile => files[g].version \in Nat
    BY DEF MigrationInv
  <2>4. \A g \in Files : files'[g] # NoFile => files'[g].version <= placed'
    BY <2>1, <2>2, <2>3 DEF Numbered
  <2>5. \A g \in Files : rows[g] \in Seq(Nat)
    BY DEF MigrationInv
  <2>6. \A g \in Files : \A i \in DOMAIN rows[g] : rows[g][i] \in Nat
    BY <2>5, LenProperties, ElementOfSeq
  <2>7. \A g \in Files : \A i \in DOMAIN rows'[g] : rows'[g][i] <= placed'
    BY <2>2, <2>6 DEF Numbered
  <2> QED
    BY <2>4, <2>7 DEF Numbered
<1> QED
  BY <1>1, <1>2, <1>3, <1>4 DEF MigrationNext, StartStep

LEMMA NumberedHolds == MigrationSpec => []Numbered
<1>1. MigrationInit => Numbered
  <2>1. DOMAIN <<>> = {}
    BY EmptySeq, LenProperties
  <2> QED
    BY <2>1 DEF MigrationInit, Numbered
<1> QED
  BY <1>1, MigrationHolds, NumberedStep, PTL DEF MigrationSpec

LEMMA StepImplements ==
  MigrationInv /\ Numbered /\ [MigrationNext]_migrationVars => [Migration!Next]_(Migration!hvars)
<1> SUFFICES ASSUME MigrationInv, Numbered, [MigrationNext]_migrationVars PROVE [Migration!Next]_(Migration!hvars)
  OBVIOUS
<1>1. ASSUME Left' = Left, Taken' = Taken PROVE [Migration!Next]_(Migration!hvars)
  BY <1>1 DEF Migration!hvars
<1>2. CASE Inspect \/ CheckMarker \/ CheckEmpty \/ Load \/ Use \/ Stop \/ Exit \/ Crash \/ UNCHANGED migrationVars
  <2>1. UNCHANGED <<files, rows>>
    BY <1>2 DEF Inspect, CheckMarker, CheckEmpty, Load, Use, Stop, Exit, Crash, db, migrationVars
  <2> QED
    BY <1>1, <2>1 DEF Left, Taken, Migrated
<1>3. CASE Commit
  <2>1. ~marker
    BY <1>3 DEF Commit, MigrationInv
  <2>2. Taken = {}
    BY <2>1 DEF MigrationInv
  <2> QED
    BY <1>3, <2>2, CommitTakes DEF Migration!Next, Migration!Take
<1>4. CASE Removals
  <2>1. marker /\ UNCHANGED <<marker, rows>>
    BY <1>4 DEF Removals, Remove, MigrationInv, db
  <2>2. Taken # {} /\ Taken' = Taken
    BY <2>1 DEF MigrationInv, Taken
  <2>3. ASSUME NEW f \in Files, NEW from, NEW to, Remove(f, from, to)
        PROVE  Left' \subseteq Left
    BY <2>1, <2>3 DEF Remove, Left, Migrated, MigrationInv
  <2>4. Left' \subseteq Left
    BY <1>4, <2>3 DEF Removals, Files
  <2> QED
    BY <2>2, <2>4 DEF Migration!Next, Migration!Discard
<1>5. CASE Place
  <2>1. UNCHANGED rows /\ Taken' = Taken /\ placed \in Nat
    BY <1>5 DEF Place, db, Taken, MigrationInv
  <2>2. PICK f \in (SUBSET Files) \ {{}} :
          files' = [g \in Files |-> IF g \in f THEN [version |-> placed + 1, good |-> TRUE]
                                    ELSE files[g]]
    BY <1>5 DEF Place
  <2>3. [version |-> placed + 1, good |-> TRUE] # NoFile
    <3>1. placed + 1 \in Nat
      BY <2>1
    <3>2. [version |-> placed + 1, good |-> TRUE] \in [version : Nat, good : BOOLEAN]
      BY <3>1
    <3> QED
      BY <3>2, MigrationConstants
  <2>4. \A g \in Files : \A i \in DOMAIN rows[g] : rows[g][i] # placed + 1
    <3>2. \A g \in Files : rows[g] \in Seq(Nat)
      BY DEF MigrationInv
    <3>1. \A g \in Files : \A i \in DOMAIN rows[g] : rows[g][i] \in Nat
      BY <3>2, LenProperties, ElementOfSeq
    <3> QED
      BY <2>1, <3>1 DEF Numbered
  <2>5. \A g \in f : g \in Left'
    BY <2>1, <2>2, <2>3, <2>4 DEF Left, Migrated
  <2>6. \A g \in Files \ f : g \in Left => g \in Left'
    BY <2>1, <2>2 DEF Left, Migrated
  <2>7. Left \subseteq Left' /\ Left' # {} /\ Left' \subseteq Files
    BY <2>5, <2>6 DEF Left
  <2> QED
    BY <2>1, <2>7 DEF Migration!Next, Migration!Place
<1> QED
  BY <1>2, <1>3, <1>4, <1>5 DEF MigrationNext, StartStep

(* Wherever the process dies, the migration looks like one atomic move into  *)
(* the database of all files that are there; nothing that was not migrated   *)
(* is removed before it, only what is put there afterwards.                  *)
THEOREM MigrationIsAtomic == MigrationSpec => ImplementsHandover
<1>1. MigrationInit => Migration!Init
  BY EmptySeq DEF MigrationInit, Migration!Init, Left, Taken
<1>2. MigrationSpec => [][Migration!Next]_(Migration!hvars)
  BY MigrationHolds, NumberedHolds, StepImplements, PTL DEF MigrationSpec
<1> QED
  BY <1>1, <1>2, PTL DEF MigrationSpec, ImplementsHandover, Migration!Spec

-----------------------------------------------------------------------------
(* The refresh of quotas.                                                    *)

LEMMA SoonerType ==
  ASSUME NEW n \in Int, NEW m \in Int, n \in -MaxRound .. m
  PROVE  Sooner(n) \in -MaxRound .. m
  BY RefreshConstants DEF Sooner

LEMMA RefreshStep == RefreshTypeOK /\ [RefreshNext]_refreshVars => RefreshTypeOK'
<1> SUFFICES ASSUME RefreshTypeOK, [RefreshNext]_refreshVars PROVE RefreshTypeOK'
  OBVIOUS
<1> USE RefreshConstants
<1>1. CASE Second
  <2>1. \A r \in Resets : Sooner(deadline[r]) \in Deadlines
    BY DEF RefreshTypeOK, Deadlines, Sooner
  <2>2. \A a \in Watched : attempt[a] \in [reset : Resets \cup {NoReset}, again : -MaxRound .. Retry]
    BY DEF RefreshTypeOK
  <2>3. \A a \in Watched : Sooner(attempt[a].again) \in -MaxRound .. Retry
    BY <2>2 DEF Sooner
  <2>4. \A a \in Watched : [attempt[a] EXCEPT !.again = Sooner(@)]
                              \in [reset : Resets \cup {NoReset}, again : -MaxRound .. Retry]
    BY <2>2, <2>3
  <2>5. attempt' \in [Watched -> [reset : Resets \cup {NoReset}, again : -MaxRound .. Retry]]
    BY <1>1, <2>4 DEF Second
  <2>6. deadline' \in [Resets -> Deadlines]
    BY <1>1, <2>1 DEF Second
  <2> QED
    BY <1>1, <2>5, <2>6 DEF Second, RefreshTypeOK
<1>2. CASE RefreshDue
  <2>1. PICK now \in SUBSET Watched :
          /\ now = {a \in Watched : DueAt(a) /\ ~TriedLately(a)}
          /\ syncing' = now
          /\ attempt' = [a \in Watched |->
                           CASE a \in now -> [reset |-> plan[a], again |-> Retry - tick]
                             [] plan[a] = NoAccount -> NoAttempt
                             [] OTHER -> attempt[a]]
    BY <1>2 DEF RefreshDue
  <2>2. tick \in 0 .. MaxRound /\ Retry - tick \in -MaxRound .. Retry
    BY <1>2 DEF RefreshDue, RefreshTypeOK
  <2>3. \A a \in now : plan[a] \in Resets
    BY <2>1 DEF DueAt
  <2>4. ASSUME NEW a \in Watched
        PROVE  attempt'[a] \in [reset : Resets \cup {NoReset}, again : -MaxRound .. Retry]
    <3>1. CASE a \in now
      <4>1. attempt'[a] = [reset |-> plan[a], again |-> Retry - tick]
        BY <2>1, <2>3, <3>1
      <4> QED
        BY <2>2, <2>3, <3>1, <4>1
    <3>2. CASE a \notin now /\ plan[a] = NoAccount
      <4>1. attempt'[a] = NoAttempt
        BY <2>1, <3>2
      <4> QED
        BY <4>1 DEF NoAttempt
    <3>3. CASE a \notin now /\ plan[a] # NoAccount
      <4>1. attempt'[a] = attempt[a]
        BY <2>1, <3>3
      <4> QED
        BY <4>1 DEF RefreshTypeOK
    <3> QED
      BY <3>1, <3>2, <3>3
  <2>5. attempt' \in [Watched -> [reset : Resets \cup {NoReset}, again : -MaxRound .. Retry]]
    BY <2>1, <2>4
  <2> QED
    BY <1>2, <2>1, <2>5 DEF RefreshDue, RefreshTypeOK
<1>3. CASE RoundEnds \/ CloseRefresh
  BY <1>3 DEF RoundEnds, CloseRefresh, RefreshTypeOK
<1>4. ASSUME NEW a \in Watched, NEW plans \in SUBSET Plans, PlanBecomes(a, plans)
      PROVE  plan' \in [Watched -> Plans] /\ deadline' \in [Resets -> Deadlines]
  <2>1. 0 .. Horizon \subseteq Deadlines
    BY DEF Deadlines
  <2> QED
    BY <1>4, <2>1 DEF PlanBecomes, RefreshTypeOK
<1>5. ASSUME NEW a \in Watched, SyncEnds(a) PROVE RefreshTypeOK'
  <2>1. plan' \in [Watched -> Plans] /\ deadline' \in [Resets -> Deadlines]
    BY <1>4, <1>5 DEF SyncEnds, RefreshTypeOK
  <2>2. syncing' \subseteq Watched /\ (loop = "wait" => syncing' = {})
    BY <1>5 DEF SyncEnds, RefreshTypeOK
  <2> QED
    BY <1>5, <2>1, <2>2 DEF SyncEnds, RefreshTypeOK
<1>6. ASSUME NEW a \in Watched, OthersSync(a) PROVE RefreshTypeOK'
  <2>1. plan' \in [Watched -> Plans] /\ deadline' \in [Resets -> Deadlines]
    BY <1>4, <1>6 DEF OthersSync
  <2> QED
    BY <1>6, <2>1 DEF OthersSync, RefreshTypeOK
<1>7. CASE UNCHANGED refreshVars
  BY <1>7 DEF refreshVars, RefreshTypeOK
<1> QED
  BY <1>1, <1>2, <1>3, <1>5, <1>6, <1>7 DEF RefreshNext

(* The state of the loop keeps its type, and an attempt is put off for at    *)
(* most the retry interval.                                                  *)
THEOREM RefreshTypeCorrect == RefreshSpec => []RefreshTypeOK
<1>1. RefreshInit => RefreshTypeOK
  BY RefreshConstants DEF RefreshInit, RefreshTypeOK, NoAttempt
<1> QED
  BY <1>1, RefreshStep, PTL DEF RefreshSpec

-----------------------------------------------------------------------------
(* The sessions of logins.                                                   *)

(* A poll that works on a pending session has marked it.                     *)
WorkIsMarked ==
  \A p \in Polls : poll[p].pc \notin {"idle", "view"} =>
    /\ poll[p].of \in Sessions
    /\ session[poll[p].of].age # "none" => session[poll[p].of].finishing

GoneIsUnmarked == \A s \in Sessions : session[s].age = "none" => ~session[s].finishing

OAuthInv == OAuthTypeOK /\ WorkIsMarked /\ GoneIsUnmarked /\ OnePoller

LEMMA OAuthInitInv == OAuthInit => OAuthInv
  BY DEF OAuthInit, OAuthInv, OAuthTypeOK, WorkIsMarked, GoneIsUnmarked, OnePoller, Finishers, NotPending, NoPoll

SessionType == [age : {"none", "fresh", "old", "stale"}, finishing : BOOLEAN, complete : BOOLEAN]
Places == {"idle", "view", "check", "token", "store", "claim", "finish", "release"}
PollType == [pc : Places, of : Sessions \cup {NoSession}]

LEMMA OAuthTypes ==
  OAuthTypeOK <=> /\ session \in [Sessions -> SessionType]
                  /\ granted \in [Sessions -> BOOLEAN]
                  /\ account \in [Sessions -> BOOLEAN]
                  /\ poll \in [Polls -> PollType]
  BY DEF OAuthTypeOK, SessionType, PollType, Places

LEMMA RecordTypes ==
  /\ NotPending \in SessionType
  /\ NoPoll \in PollType
  /\ \A s \in Sessions : [pc |-> "view", of |-> s] \in PollType
                        /\ [pc |-> "check", of |-> s] \in PollType
  BY DEF SessionType, PollType, Places, NotPending, NoPoll

LEMMA GoesType ==
  ASSUME poll \in [Polls -> PollType], NEW p \in Polls, NEW where \in Places, Goes(p, where)
  PROVE  poll' \in [Polls -> PollType]
<1>1. [poll[p] EXCEPT !.pc = where] \in PollType
  BY DEF PollType
<1>2. poll' = [poll EXCEPT ![p] = [poll[p] EXCEPT !.pc = where]]
  BY DEF Goes
<1> QED
  BY <1>1, <1>2

LEMMA OAuthTypeStep == OAuthTypeOK /\ WorkIsMarked /\ [OAuthNext]_oauthVars => OAuthTypeOK'
<1> SUFFICES ASSUME OAuthTypeOK, WorkIsMarked, [OAuthNext]_oauthVars
             PROVE  /\ session' \in [Sessions -> SessionType]
                    /\ granted' \in [Sessions -> BOOLEAN]
                    /\ account' \in [Sessions -> BOOLEAN]
                    /\ poll' \in [Polls -> PollType]
  BY DEF OAuthTypeOK, SessionType, PollType, Places
<1>0. /\ session \in [Sessions -> SessionType]
      /\ granted \in [Sessions -> BOOLEAN]
      /\ account \in [Sessions -> BOOLEAN]
      /\ poll \in [Polls -> PollType]
  BY OAuthTypes
<1>1. ASSUME NEW s \in Sessions, StartSession(s)
      PROVE  session' \in [Sessions -> SessionType]
  <2>1. [NotPending EXCEPT !.age = "fresh"] \in SessionType
    BY DEF SessionType, NotPending
  <2>2. ASSUME NEW x \in Sessions PROVE session'[x] \in SessionType
    BY <1>0, <1>1, <2>1, RecordTypes DEF StartSession
  <2>3. session' = [x \in Sessions |-> session'[x]]
    BY <1>1 DEF StartSession
  <2> QED
    BY <2>2, <2>3
<1>2. ASSUME NEW s \in Sessions, NEW a \in {"old", "stale"}, session' = [session EXCEPT ![s].age = a]
      PROVE  session' \in [Sessions -> SessionType]
  <2>1. [session[s] EXCEPT !.age = a] \in SessionType
    BY <1>0 DEF SessionType
  <2>2. session' = [session EXCEPT ![s] = [session[s] EXCEPT !.age = a]]
    BY <1>2
  <2> QED
    BY <1>0, <2>1, <2>2
<1>3. ASSUME NEW s \in Sessions, Age(s) PROVE session' \in [Sessions -> SessionType]
  <2>1. session' = [session EXCEPT ![s].age = "old"] \/ session' = [session EXCEPT ![s].age = "stale"]
    BY <1>3 DEF Age
  <2> QED
    BY <1>2, <2>1
<1>4. ASSUME NEW s \in Sessions, NEW p \in Polls, EnterPoll(p, s)
      PROVE  session' \in [Sessions -> SessionType] /\ poll' \in [Polls -> PollType]
  <2>1. [session[s] EXCEPT !.finishing = TRUE] \in SessionType
    BY <1>0 DEF SessionType
  <2>2. \/ session' = session
        \/ session' = [session EXCEPT ![s] = NotPending]
        \/ session' = [session EXCEPT ![s] = [session[s] EXCEPT !.finishing = TRUE]]
    BY <1>4 DEF EnterPoll
  <2>3. session' \in [Sessions -> SessionType]
    BY <1>0, <2>1, <2>2, RecordTypes
  <2>4. \/ poll' = poll
        \/ poll' = [poll EXCEPT ![p] = [pc |-> "view", of |-> s]]
        \/ poll' = [poll EXCEPT ![p] = [pc |-> "check", of |-> s]]
    BY <1>4 DEF EnterPoll
  <2>5. poll' \in [Polls -> PollType]
    BY <1>0, <2>4, RecordTypes
  <2> QED
    BY <2>3, <2>5
<1>5. ASSUME NEW p \in Polls, CheckLogin(p) \/ TakeToken(p) \/ StoreAccount(p) \/ ClaimPlan(p)
      PROVE  poll' \in [Polls -> PollType]
  <2>1. PICK where \in {"release", "token", "store", "claim", "finish"} : Goes(p, where)
    BY <1>5 DEF CheckLogin, TakeToken, StoreAccount, ClaimPlan
  <2>2. where \in Places
    BY DEF Places
  <2> QED
    BY <1>0, <2>1, <2>2, GoesType
<1>6. ASSUME NEW p \in Polls, PollReturns(p) PROVE poll' \in [Polls -> PollType]
  BY <1>0, <1>6, RecordTypes DEF PollReturns
<1>7. ASSUME NEW p \in Polls, NEW done \in BOOLEAN, Leave(p, done), poll[p].of \in Sessions
      PROVE  session' \in [Sessions -> SessionType]
  <2>1. PICK s \in Sessions : s = poll[p].of
    BY <1>7
  <2>2. [session[s] EXCEPT !.finishing = FALSE, !.complete = done \/ @] \in SessionType
    BY <1>0 DEF SessionType
  <2>3. \/ session' = session
        \/ session' = [session EXCEPT ![s] =
                         [session[s] EXCEPT !.finishing = FALSE, !.complete = done \/ @]]
    BY <1>7, <2>1 DEF Leave
  <2> QED
    BY <1>0, <2>2, <2>3
<1>8. ASSUME NEW p \in Polls, FinishPoll(p) \/ Release(p)
      PROVE  session' \in [Sessions -> SessionType]
  <2>1. poll[p].of \in Sessions
    BY <1>8 DEF FinishPoll, Release, PollAt, WorkIsMarked
  <2> QED
    BY <1>7, <1>8, <2>1 DEF FinishPoll, Release, MarkTaken
<1>9. ASSUME NEW p \in Polls, PollStep(p)
      PROVE  /\ session' \in [Sessions -> SessionType]
             /\ granted' \in [Sessions -> BOOLEAN]
             /\ account' \in [Sessions -> BOOLEAN]
             /\ poll' \in [Polls -> PollType]
  <2>1. poll' \in [Polls -> PollType]
    BY <1>5, <1>6, <1>9 DEF PollStep, ViewAccount, FinishPoll, Release
  <2>2. session' \in [Sessions -> SessionType]
    BY <1>0, <1>8, <1>9
       DEF PollStep, ViewAccount, CheckLogin, TakeToken, StoreAccount, ClaimPlan
  <2>3. granted' = granted
    BY <1>9 DEF PollStep, ViewAccount, CheckLogin, TakeToken, StoreAccount, ClaimPlan,
                FinishPoll, Release
  <2>4. account' = account \/ account' = [account EXCEPT ![poll[p].of] = TRUE]
    BY <1>9 DEF PollStep, ViewAccount, CheckLogin, TakeToken, StoreAccount, ClaimPlan,
                FinishPoll, Release
  <2>5. account' \in [Sessions -> BOOLEAN]
    BY <1>0, <2>4
  <2> QED
    BY <1>0, <2>1, <2>2, <2>3, <2>5
<1>10. ASSUME NEW s \in Sessions, StartSession(s) \/ Age(s) \/ Grant(s) \/ DeleteAccount(s)
       PROVE  /\ session' \in [Sessions -> SessionType]
              /\ granted' \in [Sessions -> BOOLEAN]
              /\ account' \in [Sessions -> BOOLEAN]
              /\ poll' = poll
  <2>1. session' \in [Sessions -> SessionType]
    BY <1>0, <1>1, <1>3, <1>10 DEF Grant, DeleteAccount
  <2>2. granted' \in [Sessions -> BOOLEAN] /\ account' \in [Sessions -> BOOLEAN] /\ poll' = poll
    BY <1>0, <1>10 DEF StartSession, Age, Grant, DeleteAccount
  <2> QED
    BY <2>1, <2>2
<1>11. ASSUME NEW s \in Sessions, NEW p \in Polls, EnterPoll(p, s)
       PROVE  granted' = granted /\ account' = account
  BY <1>11 DEF EnterPoll
<1>12. CASE EndProcess
  BY <1>0, <1>12, RecordTypes DEF EndProcess
<1>13. CASE UNCHANGED oauthVars
  BY <1>0, <1>13 DEF oauthVars
<1> QED
  BY <1>0, <1>4, <1>9, <1>10, <1>11, <1>12, <1>13 DEF OAuthNext

(* Between its critical sections a poll changes nobody's mark.               *)
LEMMA OutsideTheLock ==
  ASSUME OAuthInv, NEW p \in Polls, UNCHANGED session,
         NEW where \in {"check", "token", "store", "claim", "finish", "release"},
         poll[p].pc \notin {"idle", "view"}, Goes(p, where)
  PROVE  WorkIsMarked' /\ GoneIsUnmarked' /\ OnePoller'
<1>1. poll' = [poll EXCEPT ![p].pc = where]
  BY DEF Goes
<1>2. \A q \in Polls : poll'[q].of = poll[q].of
  BY <1>1 DEF OAuthInv, OAuthTypeOK
<1>3. \A q \in Polls : poll'[q].pc \notin {"idle", "view"} <=> poll[q].pc \notin {"idle", "view"}
  BY <1>1 DEF OAuthInv, OAuthTypeOK
<1>4. \A s \in Sessions : Finishers(s)' = Finishers(s)
  BY <1>2, <1>3 DEF Finishers
<1>5. WorkIsMarked'
  BY <1>2, <1>3 DEF OAuthInv, WorkIsMarked
<1>6. GoneIsUnmarked'
  BY DEF OAuthInv, GoneIsUnmarked
<1>7. OnePoller'
  BY <1>4 DEF OAuthInv, OnePoller
<1> QED
  BY <1>5, <1>6, <1>7

(* A poll that enters found no mark, so no poll was working on the session.  *)
LEMMA EnterInv ==
  ASSUME OAuthInv, NEW s \in Sessions, NEW p \in Polls, EnterPoll(p, s)
  PROVE  WorkIsMarked' /\ GoneIsUnmarked' /\ OnePoller'
<1> USE DEF OAuthInv, OAuthTypeOK
<1>1. CASE session' = [session EXCEPT ![s] = NotPending] /\ UNCHANGED poll
  <2>1. \A x \in Sessions : Finishers(x)' = Finishers(x)
    BY <1>1 DEF Finishers
  <2>2. \A x \in Sessions : session'[x] = IF x = s THEN NotPending ELSE session[x]
    BY <1>1
  <2>3. WorkIsMarked'
    BY <1>1, <2>2 DEF WorkIsMarked, NotPending
  <2>4. GoneIsUnmarked'
    BY <2>2 DEF GoneIsUnmarked, NotPending
  <2>5. OnePoller'
    BY <2>1, <2>2 DEF OnePoller, NotPending
  <2> QED
    BY <2>3, <2>4, <2>5
<1>2. CASE poll' = [poll EXCEPT ![p] = [pc |-> "view", of |-> s]] /\ UNCHANGED session
  <2>1. \A q \in Polls : poll'[q] = IF q = p THEN [pc |-> "view", of |-> s] ELSE poll[q]
    BY <1>2
  <2>2. \A x \in Sessions : Finishers(x)' = Finishers(x)
    BY <2>1 DEF Finishers, EnterPoll, PollAt
  <2>3. WorkIsMarked'
    BY <1>2, <2>1 DEF WorkIsMarked
  <2>4. GoneIsUnmarked'
    BY <1>2 DEF GoneIsUnmarked
  <2> QED
    BY <1>2, <2>2, <2>3, <2>4 DEF OnePoller
<1>3. CASE /\ session[s].age = "fresh" /\ Free(s)
           /\ session' = [session EXCEPT ![s].finishing = TRUE]
           /\ poll' = [poll EXCEPT ![p] = [pc |-> "check", of |-> s]]
  <2>1. \A q \in Polls : poll'[q] = IF q = p THEN [pc |-> "check", of |-> s] ELSE poll[q]
    BY <1>3
  <2>2. \A x \in Sessions : /\ x # s => session'[x] = session[x]
                            /\ session'[x].age = session[x].age
    BY <1>3
  <2>3. session'[s].finishing
    BY <1>3
  <2>4. Finishers(s) = {}
    BY <1>3 DEF Finishers, WorkIsMarked, Free
  <2>5. Finishers(s)' = {p}
    BY <2>1, <2>4 DEF Finishers
  <2>6. \A x \in Sessions : x # s => Finishers(x)' = Finishers(x)
    BY <2>1 DEF Finishers, EnterPoll, PollAt
  <2>7. WorkIsMarked'
    <3> SUFFICES ASSUME NEW q \in Polls, poll'[q].pc \notin {"idle", "view"}
                 PROVE  /\ poll'[q].of \in Sessions
                        /\ session'[poll'[q].of].age # "none" => session'[poll'[q].of].finishing
      BY DEF WorkIsMarked
    <3>1. CASE q = p
      BY <2>1, <2>3, <3>1
    <3>2. CASE q # p
      <4>1. poll'[q] = poll[q]
        BY <2>1, <3>2
      <4>2. PICK x \in Sessions : x = poll[q].of
        BY <4>1 DEF WorkIsMarked
      <4>3. session[x].age # "none" => session[x].finishing
        BY <4>1, <4>2 DEF WorkIsMarked
      <4> QED
        BY <2>2, <2>3, <4>1, <4>2, <4>3
    <3> QED
      BY <3>1, <3>2
  <2>8. GoneIsUnmarked'
    BY <1>3, <2>2 DEF GoneIsUnmarked
  <2>9. ASSUME NEW x \in Sessions
        PROVE  /\ \A q, r \in Finishers(x)' : q = r
               /\ session'[x].finishing => Finishers(x)' # {}
    <3>1. CASE x = s
      BY <2>5, <3>1
    <3>2. CASE x # s
      BY <2>2, <2>6, <3>2 DEF OnePoller
    <3> QED
      BY <3>1, <3>2
  <2> QED
    BY <2>7, <2>8, <2>9 DEF OnePoller
<1> QED
  BY <1>1, <1>2, <1>3 DEF EnterPoll

(* A poll that leaves was the only one, so the mark it takes back is its own.*)
LEMMA LeaveInv ==
  ASSUME OAuthInv, NEW p \in Polls, NEW done \in BOOLEAN,
         poll[p].pc \notin {"idle", "view"}, Leave(p, done), PollReturns(p)
  PROVE  WorkIsMarked' /\ GoneIsUnmarked' /\ OnePoller'
<1> USE DEF OAuthInv, OAuthTypeOK
<1>1. PICK s \in Sessions : s = poll[p].of
  BY DEF WorkIsMarked
<1>2. \A q \in Polls : poll'[q] = IF q = p THEN NoPoll ELSE poll[q]
  BY DEF PollReturns
<1>3. \A x \in Sessions : /\ x # s => session'[x] = session[x]
                          /\ session'[x].age = session[x].age
  BY <1>1 DEF Leave
<1>4. session[s].age # "none" => ~session'[s].finishing
  BY <1>1 DEF Leave
<1>5. p \in Finishers(s)
  BY <1>1 DEF Finishers
<1>6. Finishers(s) = {p}
  BY <1>5 DEF OnePoller, Finishers
<1>7. Finishers(s)' = {}
  BY <1>2, <1>6 DEF Finishers, NoPoll
<1>8. \A x \in Sessions : x # s => Finishers(x)' = Finishers(x)
  BY <1>1, <1>2 DEF Finishers, NoPoll
<1>9. session[s].age = "none" => session' = session
  BY <1>1 DEF Leave
<1>10. WorkIsMarked'
  <2> SUFFICES ASSUME NEW q \in Polls, poll'[q].pc \notin {"idle", "view"}
               PROVE  /\ poll'[q].of \in Sessions
                      /\ session'[poll'[q].of].age # "none" => session'[poll'[q].of].finishing
    BY DEF WorkIsMarked
  <2>1. q # p /\ poll'[q] = poll[q] /\ poll[q].of \in Sessions
    BY <1>2 DEF NoPoll, WorkIsMarked
  <2>2. poll[q].of # s
    BY <2>1, <1>6 DEF Finishers
  <2> QED
    BY <2>1, <2>2, <1>3 DEF WorkIsMarked
<1>11. GoneIsUnmarked'
  BY <1>3, <1>9 DEF GoneIsUnmarked
<1>12. ~session'[s].finishing
  BY <1>4, <1>9 DEF GoneIsUnmarked
<1>13. ASSUME NEW x \in Sessions
       PROVE  /\ \A q, r \in Finishers(x)' : q = r
              /\ session'[x].finishing => Finishers(x)' # {}
  <2>1. CASE x = s
    BY <1>7, <1>12, <2>1
  <2>2. CASE x # s
    BY <1>3, <1>8, <2>2 DEF OnePoller
  <2> QED
    BY <2>1, <2>2
<1> QED
  BY <1>10, <1>11, <1>13 DEF OnePoller

LEMMA OAuthStep == OAuthInv /\ [OAuthNext]_oauthVars => OAuthInv'
<1> SUFFICES ASSUME OAuthInv, [OAuthNext]_oauthVars PROVE OAuthInv'
  OBVIOUS
<1>1. OAuthTypeOK'
  BY OAuthTypeStep DEF OAuthInv
<1>2. SUFFICES WorkIsMarked' /\ GoneIsUnmarked' /\ OnePoller'
  BY <1>1 DEF OAuthInv
<1>3. ASSUME NEW s \in Sessions, StartSession(s)
      PROVE  WorkIsMarked' /\ GoneIsUnmarked' /\ OnePoller'
  <2>1. \A p \in Polls : poll[p].of # s
    BY <1>3 DEF StartSession, Known
  <2>2. \A x \in Sessions : session'[x] = CASE x = s -> [NotPending EXCEPT !.age = "fresh"]
                                           [] session[x].age = "stale" -> NotPending
                                           [] OTHER -> session[x]
    BY <1>3 DEF StartSession
  <2>3. ~session[s].finishing /\ session[s].age = "none"
    BY <1>3 DEF StartSession, Known, OAuthInv, GoneIsUnmarked
  <2>4. \A x \in Sessions : x # s =>
          \/ session'[x].age = "none" /\ ~session'[x].finishing
          \/ session'[x] = session[x]
    BY <2>2 DEF NotPending
  <2>5. ~session'[s].finishing
    BY <2>2, <2>3 DEF NotPending
  <2>6. \A x \in Sessions : Finishers(x)' = Finishers(x)
    BY <1>3 DEF StartSession, Finishers
  <2>7. WorkIsMarked'
    BY <1>3, <2>1, <2>4 DEF StartSession, OAuthInv, WorkIsMarked
  <2>8. GoneIsUnmarked'
    BY <2>4, <2>5 DEF OAuthInv, GoneIsUnmarked
  <2>9. OnePoller'
    BY <2>4, <2>5, <2>6 DEF OAuthInv, OnePoller
  <2> QED
    BY <2>7, <2>8, <2>9
<1>4. ASSUME NEW s \in Sessions, Age(s)
      PROVE  WorkIsMarked' /\ GoneIsUnmarked' /\ OnePoller'
  <2>1. \A x \in Sessions : /\ session'[x].finishing = session[x].finishing
                            /\ session'[x].age = "none" <=> session[x].age = "none"
    BY <1>4 DEF Age, OAuthInv, OAuthTypeOK
  <2>2. poll' = poll /\ \A x \in Sessions : Finishers(x)' = Finishers(x)
    BY <1>4 DEF Age, Finishers
  <2>3. WorkIsMarked'
    BY <2>1, <2>2 DEF OAuthInv, WorkIsMarked
  <2>4. GoneIsUnmarked'
    BY <2>1 DEF OAuthInv, GoneIsUnmarked
  <2>5. OnePoller'
    BY <2>1, <2>2 DEF OAuthInv, OnePoller
  <2> QED
    BY <2>3, <2>4, <2>5
<1>5. ASSUME UNCHANGED <<session, poll>> PROVE WorkIsMarked' /\ GoneIsUnmarked' /\ OnePoller'
  <2>1. \A x \in Sessions : Finishers(x)' = Finishers(x)
    BY <1>5 DEF Finishers
  <2> QED
    BY <1>5, <2>1 DEF OAuthInv, WorkIsMarked, GoneIsUnmarked, OnePoller
<1>6. ASSUME NEW s \in Sessions, Grant(s) \/ DeleteAccount(s)
      PROVE  WorkIsMarked' /\ GoneIsUnmarked' /\ OnePoller'
  BY <1>5, <1>6 DEF Grant, DeleteAccount
<1>7. ASSUME NEW p \in Polls, ViewAccount(p)
      PROVE  WorkIsMarked' /\ GoneIsUnmarked' /\ OnePoller'
  <2>1. \A q \in Polls : poll'[q] = IF q = p THEN NoPoll ELSE poll[q]
    BY <1>7 DEF ViewAccount, PollReturns, OAuthInv, OAuthTypeOK
  <2>2. session' = session /\ poll[p].pc = "view"
    BY <1>7 DEF ViewAccount, PollAt
  <2>3. \A x \in Sessions : Finishers(x)' = Finishers(x)
    BY <2>1, <2>2 DEF Finishers, NoPoll
  <2>4. WorkIsMarked'
    BY <2>1, <2>2 DEF OAuthInv, WorkIsMarked, NoPoll
  <2> QED
    BY <2>2, <2>3, <2>4 DEF OAuthInv, GoneIsUnmarked, OnePoller
<1>8. ASSUME NEW p \in Polls,
             CheckLogin(p) \/ TakeToken(p) \/ StoreAccount(p) \/ ClaimPlan(p)
      PROVE  WorkIsMarked' /\ GoneIsUnmarked' /\ OnePoller'
  <2>1. poll[p].pc \notin {"idle", "view"} /\ UNCHANGED session
    BY <1>8 DEF CheckLogin, TakeToken, StoreAccount, ClaimPlan, PollAt
  <2>2. PICK where \in {"check", "token", "store", "claim", "finish", "release"} : Goes(p, where)
    BY <1>8 DEF CheckLogin, TakeToken, StoreAccount, ClaimPlan
  <2> QED
    BY <2>1, <2>2, OutsideTheLock
<1>9. ASSUME NEW p \in Polls, FinishPoll(p) \/ Release(p)
      PROVE  WorkIsMarked' /\ GoneIsUnmarked' /\ OnePoller'
  <2>1. poll[p].pc \notin {"idle", "view"} /\ PollReturns(p)
    BY <1>9 DEF FinishPoll, Release, PollAt
  <2>2. PICK done \in BOOLEAN : Leave(p, done)
    BY <1>9 DEF FinishPoll, Release, MarkTaken
  <2> QED
    BY <2>1, <2>2, LeaveInv
<1>10. CASE EndProcess
  <2>1. \A p \in Polls : poll'[p].pc = "idle"
    BY <1>10 DEF EndProcess, NoPoll
  <2>2. \A x \in Sessions : ~session'[x].finishing
    BY <1>10 DEF EndProcess, NotPending
  <2>3. \A x \in Sessions : Finishers(x)' = {}
    BY <2>1 DEF Finishers
  <2> QED
    BY <2>1, <2>2, <2>3 DEF WorkIsMarked, GoneIsUnmarked, OnePoller
<1>11. CASE UNCHANGED oauthVars
  BY <1>5, <1>11 DEF oauthVars
<1> QED
  BY <1>3, <1>4, <1>6, <1>7, <1>8, <1>9, <1>10, <1>11, EnterInv DEF OAuthNext, PollStep

(* The state of the sessions keeps its type.                                 *)
THEOREM OAuthTypeCorrect == OAuthSpec => []OAuthTypeOK
<1>1. OAuthInv => OAuthTypeOK
  BY DEF OAuthInv
<1> QED
  BY <1>1, OAuthInitInv, OAuthStep, PTL DEF OAuthSpec

(* However polls overlap, fail and outlive their session, one of them at a   *)
(* time finishes it, and no mark is left without one.                        *)
THEOREM OnePollerHolds == OAuthSpec => []OnePoller
<1>1. OAuthInv => OnePoller
  BY DEF OAuthInv
<1> QED
  BY <1>1, OAuthInitInv, OAuthStep, PTL DEF OAuthSpec
=============================================================================
