-------------------------- MODULE ConfigStoreProofs --------------------------
(***************************************************************************)
(* Proofs about ConfigStore for any number of overlapping settings         *)
(* requests, edits, failed file operations and ends of the process.        *)
(***************************************************************************)
EXTENDS ConfigStore, TLAPS

Carries(t) == work[t].pc \in {"compare", "replace", "rename", "install"}
Stores(t) == work[t].pc \in {"replace", "rename", "install"}
Usable(c) == c.hashed /\ c.key # 0 /\ c.value # Invalid

WorkType == [pc : {"down", "idle", "compare", "replace", "rename", "install"},
             data : Contents \cup {NoConfig}]

(* The types, and who can be where: before the start has finished there are  *)
(* no requests, and what is stored was normalised and validated before.      *)
ThreadsInv ==
  /\ file \in Contents \cup {NoConfig}
  /\ config \in Contents \cup {NoConfig}
  /\ work \in [ConfigThreads -> WorkType]
  /\ drawn \in Nat /\ sealed \in Nat
  /\ Running => Usable(config) /\ ~At(Loop, "down")
  /\ ~Running => Alone /\ work[Loop].pc \in {"down", "replace", "rename", "install"}
  /\ \A t \in ConfigThreads : /\ Carries(t) => work[t].data \in Contents
                              /\ Stores(t) => Usable(work[t].data)
  /\ \A a \in Administrators : work[a].pc # "compare"

Counters ==
  /\ edits \in 0 .. MaxEdits /\ faults \in 0 .. MaxFaults /\ kills \in 0 .. MaxKills

Flags == clean \in BOOLEAN /\ keyGone \in BOOLEAN

(* Wherever the configuration is, its key is the one in memory; while there  *)
(* is none, it is the one that the credentials need.                         *)
KeyInv ==
  ~keyGone =>
    /\ Running => /\ file # NoConfig => file.key = config.key
                  /\ \A t \in ConfigThreads : Carries(t) => work[t].data.key = config.key
                  /\ sealed # 0 => config.key = sealed
    /\ ~Running => /\ sealed # 0 /\ file # NoConfig => file.key = sealed
                   /\ sealed # 0 /\ Carries(Loop) => work[Loop].data.key = sealed
                   /\ At(Loop, "install") => file # NoConfig /\ file.key = work[Loop].data.key
                   /\ sealed # 0 /\ file = NoConfig => ~At(Loop, "down")

(* An undisturbed reload carries what is in the file.                        *)
CleanInv ==
  clean =>
    /\ Alone
    /\ At(Loop, "idle") => (file # NoConfig /\ Acceptable(file) => config = file)
    /\ At(Loop, "compare") \/ At(Loop, "install") => file = work[Loop].data

LEMMA NoContent == NoConfig \notin Contents
  BY ConfigConstants DEF Contents

LEMMA Types ==
  /\ Example \in Contents /\ Example.value # Invalid
  /\ NoConfig \notin Contents
  /\ Loop \notin Administrators
  BY ConfigConstants DEF Contents, Example

LEMMA NormalisedIsUsable ==
  ASSUME drawn \in Nat, NEW c \in Contents, Acceptable(c)
  PROVE  /\ Normalised(c) \in Contents /\ Usable(Normalised(c))
         /\ c.key # 0 => Normalised(c).key = c.key
         /\ (IF c.key = 0 THEN drawn + 1 ELSE drawn) \in Nat
<1> DEFINE k == IF c.key = 0 THEN drawn + 1 ELSE c.key
<1>1. k \in Nat /\ k # 0
  BY DEF Contents
<1>2. Normalised(c) = [c EXCEPT !.hashed = TRUE, !.key = k]
  BY DEF Normalised
<1> HIDE DEF k
<1>3. /\ Normalised(c) \in Contents
      /\ Normalised(c).hashed /\ Normalised(c).key = k /\ Normalised(c).value = c.value
  BY <1>1, <1>2 DEF Contents
<1> QED
  BY <1>1, <1>3 DEF Usable, Acceptable, k

LEMMA GotoEffect ==
  ASSUME work \in [ConfigThreads -> WorkType], NEW t \in ConfigThreads,
         NEW pc \in {"down", "idle", "compare", "replace", "rename", "install"},
         NEW d \in Contents \cup {NoConfig}, Goto(t, pc, d)
  PROVE  /\ work' \in [ConfigThreads -> WorkType]
         /\ work'[t].pc = pc /\ work'[t].data = d
         /\ \A x \in ConfigThreads : x # t => work'[x] = work[x]
<1>1. [pc |-> pc, data |-> d] \in WorkType
  BY DEF WorkType
<1> QED
  BY <1>1 DEF Goto

LEMMA InitInv == ConfigInit => ThreadsInv /\ Counters /\ Flags /\ KeyInv /\ CleanInv
<1> SUFFICES ASSUME ConfigInit PROVE ThreadsInv /\ Counters /\ Flags /\ KeyInv /\ CleanInv
  OBVIOUS
<1>1. file \in Contents \cup {NoConfig} /\ sealed \in Nat /\ drawn \in Nat
  <2>1. [Example EXCEPT !.key = 1] \in Contents
    BY Types DEF Contents
  <2> QED
    BY <2>1, Types DEF ConfigInit
<1>2. work \in [ConfigThreads -> WorkType] /\ At(Loop, "down") /\ Alone
  BY Types DEF ConfigInit, WorkType, ConfigThreads, At, Alone
<1>3. \A t \in ConfigThreads : work[t].pc \in {"down", "idle"}
  BY DEF ConfigInit
<1>4. ThreadsInv
  BY <1>1, <1>2, <1>3 DEF ConfigInit, ThreadsInv, Running, Carries, Stores, At, ConfigThreads
<1>5. Counters /\ Flags
  <2>1. edits = 0 /\ faults = 0 /\ kills = 0
    BY Zenon DEF ConfigInit
  <2>2. Flags
    BY Zenon DEF ConfigInit, Flags
  <2>3. Counters
    BY <2>1, ConfigConstants DEF Counters
  <2> QED
    BY <2>2, <2>3
<1>6. sealed # 0 => file # NoConfig /\ file.key = sealed
  <2>1. CASE file = [Example EXCEPT !.key = 1] /\ sealed \in {0, 1}
    <3>1. [Example EXCEPT !.key = 1] \in Contents /\ [Example EXCEPT !.key = 1].key = 1
      BY Types DEF Example, Contents
    <3>2. file \in Contents /\ file.key = 1
      BY <2>1, <3>1
    <3> QED
      BY <2>1, <3>2, Types
  <2> QED
    BY <2>1 DEF ConfigInit
<1>7. KeyInv
  BY <1>2, <1>3, <1>6 DEF ConfigInit, KeyInv, Running, Carries, At
<1>8. CleanInv
  BY DEF ConfigInit, CleanInv
<1> QED
  BY <1>4, <1>5, <1>7, <1>8

LEMMA CountersStep == Counters /\ [ConfigNext]_configVars => Counters'
<1> SUFFICES ASSUME Counters, [ConfigNext]_configVars PROVE Counters'
  OBVIOUS
<1>1. /\ edits' = edits \/ (edits < MaxEdits /\ edits' = edits + 1)
      /\ faults' = faults \/ (faults < MaxFaults /\ faults' = faults + 1)
      /\ kills' = kills \/ (kills < MaxKills /\ kills' = kills + 1)
  <2>1. ASSUME NEW t \in ConfigThreads, Replace(t) \/ RenameAgain(t) PROVE 
          /\ edits' = edits \/ (edits < MaxEdits /\ edits' = edits + 1)
          /\ faults' = faults \/ (faults < MaxFaults /\ faults' = faults + 1)
          /\ kills' = kills \/ (kills < MaxKills /\ kills' = kills + 1)
    BY <2>1, Zenon DEF Replace, RenameAgain, GiveUp, Fault
  <2>2. ASSUME NEW t \in ConfigThreads, Install(t) PROVE 
          /\ edits' = edits \/ (edits < MaxEdits /\ edits' = edits + 1)
          /\ faults' = faults \/ (faults < MaxFaults /\ faults' = faults + 1)
          /\ kills' = kills \/ (kills < MaxKills /\ kills' = kills + 1)
    BY <2>2, Zenon DEF Install
  <2>3. CASE NewConfigManager \/ ReadFile \/ Compare \/ UpdateStep \/ Seal \/ UNCHANGED configVars
    BY <2>3, Zenon DEF NewConfigManager, ReadFile, Compare, UpdateStep, UpdateSettings, Seal, configVars
  <2>4. CASE ConfigCrash
    BY <2>4, Zenon DEF ConfigCrash
  <2>5. CASE Edit
    BY <2>5, Zenon DEF Edit
  <2> QED
    BY <2>1, <2>2, <2>3, <2>4, <2>5
       DEF ConfigNext, LoopStep, SettingsStep, FailToStart, ConfigThreads
<1> QED
  BY <1>1, ConfigConstants DEF Counters

LEMMA FlagsStep == Flags /\ [ConfigNext]_configVars => Flags'
<1> SUFFICES ASSUME Flags, [ConfigNext]_configVars PROVE Flags'
  OBVIOUS
<1> USE DEF Flags
<1>1. ASSUME NEW t \in ConfigThreads, Replace(t) \/ RenameAgain(t) \/ Install(t) PROVE Flags'
  BY <1>1, Zenon DEF Replace, RenameAgain, GiveUp, Fault, Install
<1>2. CASE NewConfigManager \/ ReadFile \/ Compare \/ UpdateStep \/ Seal
  BY <1>2, Zenon DEF NewConfigManager, ReadFile, Alone, Compare, UpdateStep, UpdateSettings, Seal
<1>3. CASE ConfigCrash \/ Edit \/ UNCHANGED configVars
  BY <1>3, Zenon DEF ConfigCrash, Edit, configVars
<1> QED
  BY <1>1, <1>2, <1>3 DEF ConfigNext, LoopStep, SettingsStep, FailToStart, ConfigThreads

(* The invariants in a step that moves thread t and leaves the others.       *)
LEMMA ThreadMoves ==
  ASSUME ThreadsInv, NEW t \in ConfigThreads,
         NEW pc \in {"down", "idle", "compare", "replace", "rename", "install"},
         NEW d \in Contents \cup {NoConfig}, Goto(t, pc, d),
         file' \in Contents \cup {NoConfig}, config' \in Contents \cup {NoConfig},
         drawn' \in Nat, sealed' \in Nat,
         Running' <=> Running \/ (t = Loop /\ pc = "idle"),
         Running' => Usable(config'),
         t = Loop => (pc \in {"down", "idle", "compare"} =>
                        IF Running' THEN pc # "down" ELSE pc = "down"),
         t # Loop => Running /\ pc \in {"idle", "replace", "rename", "install"},
         pc \in {"compare", "replace", "rename", "install"} => d # NoConfig,
         pc \in {"replace", "rename", "install"} => Usable(d)
  PROVE  ThreadsInv'
<1> USE DEF ThreadsInv
<1>1. /\ work' \in [ConfigThreads -> WorkType]
      /\ work'[t].pc = pc /\ work'[t].data = d
      /\ \A x \in ConfigThreads : x # t => work'[x] = work[x]
  BY GotoEffect
<1>2. Loop \in ConfigThreads /\ Administrators \subseteq ConfigThreads
  BY DEF ConfigThreads
<1>3. \A x \in ConfigThreads :
        /\ Carries(x)' => work'[x].data \in Contents
        /\ Stores(x)' => Usable(work'[x].data)
  BY <1>1 DEF Carries, Stores
<1>4. \A a \in Administrators : work'[a].pc # "compare"
  BY <1>1, <1>2, Types
<1>5. Running' => ~At(Loop, "down")'
  BY <1>1, <1>2 DEF At
<1>6. ~Running' => Alone' /\ work'[Loop].pc \in {"down", "replace", "rename", "install"}
  <2> SUFFICES ASSUME ~Running' PROVE Alone' /\ work'[Loop].pc \in {"down", "replace", "rename", "install"}
    OBVIOUS
  <2>1. ~Running /\ t = Loop
    OBVIOUS
  <2>2. Alone'
    BY <1>1, <1>2, <2>1, Types DEF Alone, At
  <2>3. work'[Loop].pc \in {"down", "replace", "rename", "install"}
    BY <1>1, <1>2, <2>1
  <2> QED
    BY <2>2, <2>3
<1>7. Running' => Usable(config)'
  BY DEF Usable
<1>8. /\ (file \in Contents \cup {NoConfig})'
      /\ (config \in Contents \cup {NoConfig})'
      /\ (work \in [ConfigThreads -> WorkType])'
      /\ (drawn \in Nat /\ sealed \in Nat)'
  BY <1>1
<1> QED
  BY <1>3, <1>4, <1>5, <1>6, <1>7, <1>8 DEF Usable

LEMMA EditKeepsType ==
  ASSUME file \in Contents, Edit
  PROVE  file' \in Contents /\ (keyGone' = TRUE \/ (keyGone' = keyGone /\ file'.key = file.key))
<1>1. ASSUME NEW w \in Words PROVE /\ [file EXCEPT !.word = w, !.hashed = FALSE] \in Contents
                                  /\ [file EXCEPT !.word = w, !.hashed = FALSE].key = file.key
  BY DEF Contents
<1>2. ASSUME NEW v \in Values \cup {Invalid}
      PROVE  [file EXCEPT !.value = v] \in Contents /\ [file EXCEPT !.value = v].key = file.key
  BY DEF Contents
<1>3. [file EXCEPT !.key = 0] \in Contents
  BY DEF Contents
<1>4. \/ \E w \in Words : file' = [file EXCEPT !.word = w, !.hashed = FALSE] /\ keyGone' = keyGone
      \/ \E v \in Values \cup {Invalid} : file' = [file EXCEPT !.value = v] /\ keyGone' = keyGone
      \/ file' = [file EXCEPT !.key = 0] /\ keyGone' = TRUE
  BY Zenon DEF Edit
<1>5. CASE file' = [file EXCEPT !.key = 0] /\ keyGone' = TRUE
  BY <1>3, <1>5, Zenon
<1>6. ASSUME NEW w \in Words, file' = [file EXCEPT !.word = w, !.hashed = FALSE], keyGone' = keyGone
      PROVE  file' \in Contents /\ keyGone' = keyGone /\ file'.key = file.key
  BY <1>1, <1>6, Zenon
<1>7. ASSUME NEW v \in Values \cup {Invalid}, file' = [file EXCEPT !.value = v], keyGone' = keyGone
      PROVE  file' \in Contents /\ keyGone' = keyGone /\ file'.key = file.key
  BY <1>2, <1>7, Zenon
<1> QED
  BY <1>4, <1>5, <1>6, <1>7, Zenon

LEMMA ThreadsStep == ThreadsInv /\ [ConfigNext]_configVars => ThreadsInv'
<1> SUFFICES ASSUME ThreadsInv, [ConfigNext]_configVars PROVE ThreadsInv'
  OBVIOUS
<1>0. /\ file \in Contents \cup {NoConfig} /\ config \in Contents \cup {NoConfig}
      /\ drawn \in Nat /\ sealed \in Nat
      /\ Running => Usable(config) /\ ~At(Loop, "down")
      /\ ~Running => Alone /\ work[Loop].pc \in {"down", "replace", "rename", "install"}
      /\ Loop \in ConfigThreads /\ Loop \notin Administrators
      /\ \A a \in Administrators : a \in ConfigThreads /\ a # Loop
  BY Types DEF ThreadsInv, ConfigThreads
<1>1. CASE NewConfigManager
  <2>1. ~Running /\ UNCHANGED <<file, sealed>>
    BY <1>0, <1>1 DEF NewConfigManager
  <2>2. CASE /\ Goto(Loop, "replace", DefaultConfig) /\ drawn' = drawn + 1 /\ UNCHANGED config
    <3>1. DefaultConfig \in Contents /\ Usable(DefaultConfig)
      BY <1>0, Types, NormalisedIsUsable DEF DefaultConfig, Acceptable
    <3> QED
      BY <1>0, <2>1, <2>2, <3>1, Types, ThreadMoves DEF Running
  <2>3. CASE /\ file # NoConfig /\ Acceptable(file)
             /\ Goto(Loop, "replace", Normalised(file)) /\ Draw(file) /\ UNCHANGED config
    <3>1. Normalised(file) \in Contents /\ Usable(Normalised(file)) /\ drawn' \in Nat
      BY <1>0, <2>3, NormalisedIsUsable DEF Draw
    <3> QED
      BY <1>0, <2>1, <2>3, <3>1, Types, ThreadMoves DEF Running
  <2>4. CASE /\ file # NoConfig /\ Acceptable(file) /\ Normal(file)
             /\ config' = file /\ Goto(Loop, "idle", NoConfig) /\ UNCHANGED drawn
    <3>1. Usable(file) /\ file \in Contents
      BY <1>0, <2>4 DEF Usable, Normal, Acceptable
    <3>2. Running' /\ Usable(config') /\ config' \in Contents
      BY <2>4, <3>1 DEF Running
    <3> QED
      BY <1>0, <2>1, <2>4, <3>1, <3>2, ThreadMoves
  <2> QED
    BY <1>1, <2>2, <2>3, <2>4 DEF NewConfigManager
<1>2. CASE ReadFile
  <2>1. Running
    BY <1>0, <1>2 DEF ReadFile, At
  <2> QED
    BY <1>0, <1>2, <2>1, ThreadMoves DEF ReadFile, Running
<1>3. CASE Compare
  <2>1. Running /\ work[Loop].data \in Contents /\ UNCHANGED <<file, config, sealed>>
    BY <1>0, <1>3 DEF Compare, At, ThreadsInv, Carries
  <2> DEFINE c == work[Loop].data
  <2>2. CASE Goto(Loop, "idle", NoConfig) /\ UNCHANGED drawn
    BY <1>0, <2>1, <2>2, ThreadMoves DEF Running
  <2>3. CASE Acceptable(c) /\ Normal(c) /\ Goto(Loop, "install", c) /\ UNCHANGED drawn
    <3>1. Usable(c)
      BY <2>1, <2>3 DEF Usable, Normal, Acceptable
    <3> QED
      BY <1>0, <2>1, <2>3, <3>1, Types, ThreadMoves DEF Running
  <2>4. CASE Acceptable(c) /\ Goto(Loop, "replace", Normalised(c)) /\ Draw(c)
    <3>1. Normalised(c) \in Contents /\ Usable(Normalised(c)) /\ drawn' \in Nat
      BY <1>0, <2>1, <2>4, NormalisedIsUsable DEF Draw
    <3> QED
      BY <1>0, <2>1, <2>4, <3>1, Types, ThreadMoves DEF Running
  <2> QED
    BY <1>3, <2>2, <2>3, <2>4 DEF Compare
<1>4. CASE UpdateStep
  <2>1. PICK a \in Administrators : UpdateSettings(a)
    BY <1>4 DEF UpdateStep
  <2>2. PICK w \in Words, v \in Values :
          Goto(a, "replace", [Snapshot EXCEPT !.word = w, !.value = v])
    BY <2>1 DEF UpdateSettings
  <2>3. Running /\ config \in Contents /\ UNCHANGED <<file, config, drawn, sealed>>
    BY <1>0, <2>1 DEF UpdateSettings, Running
  <2>4. [Snapshot EXCEPT !.word = w, !.value = v] \in Contents
        /\ Usable([Snapshot EXCEPT !.word = w, !.value = v])
    <3>1. v # Invalid
      BY ConfigConstants
    <3> QED
      BY <1>0, <2>3, <3>1 DEF Snapshot, Contents, Usable
  <2> QED
    BY <1>0, <2>2, <2>3, <2>4, Types, ThreadMoves DEF Running
<1>5. ASSUME NEW t \in ConfigThreads, Replace(t) \/ RenameAgain(t)
      PROVE  ThreadsInv'
  <2>1. /\ work[t].data \in Contents /\ Usable(work[t].data)
        /\ UNCHANGED <<config, drawn, sealed>>
        /\ work[t].pc \in {"replace", "rename"}
    BY <1>5 DEF Replace, RenameAgain, At, ThreadsInv, Carries, Stores
  <2>2. t # Loop => t \in Administrators /\ Running
    BY <1>0, <2>1 DEF ConfigThreads, Alone, At
  <2>3. CASE file' = work[t].data /\ Goto(t, "install", work[t].data)
    BY <1>0, <2>1, <2>2, <2>3, Types, ThreadMoves DEF Running
  <2>4. CASE GiveUp(t)
    <3>1. Goto(t, Rest(t), NoConfig) /\ UNCHANGED file
      BY <2>4 DEF GiveUp
    <3>2. Rest(t) = IF t = Loop /\ ~Running THEN "down" ELSE "idle"
      BY DEF Rest
    <3> QED
      BY <1>0, <2>1, <2>2, <3>1, <3>2, ThreadMoves DEF Running
  <2>5. CASE file' = NoConfig /\ Goto(t, "rename", work[t].data)
    BY <1>0, <2>1, <2>2, <2>5, Types, ThreadMoves DEF Running
  <2> QED
    BY <1>5, <2>3, <2>4, <2>5 DEF Replace, RenameAgain
<1>6. ASSUME NEW t \in ConfigThreads, Install(t)
      PROVE  ThreadsInv'
  <2>1. /\ work[t].data \in Contents /\ Usable(work[t].data)
        /\ UNCHANGED <<file, drawn, sealed>> /\ config' = work[t].data
        /\ Goto(t, "idle", NoConfig)
        /\ work[t].pc = "install"
    BY <1>6 DEF Install, At, ThreadsInv, Carries, Stores
  <2>2. t # Loop => t \in Administrators /\ Running
    BY <1>0, <2>1 DEF ConfigThreads, Alone, At
  <2>3. Running' /\ Usable(config')
    BY <2>1, Types DEF Running
  <2> QED
    BY <1>0, <2>1, <2>2, <2>3, ThreadMoves
<1>7. CASE Seal
  <2>1. config \in Contents /\ UNCHANGED <<file, config, work, drawn>>
    BY <1>0, <1>7 DEF Seal, Running
  <2>2. sealed' \in Nat
    BY <1>7, <2>1 DEF Seal, Contents
  <2> QED
    BY <2>1, <2>2 DEF ThreadsInv, Running, At, Alone, Carries, Stores
<1>8. CASE ConfigCrash
  <2>1. /\ config' = NoConfig /\ UNCHANGED <<file, drawn, sealed>>
        /\ work' = [t \in ConfigThreads |->
                     [pc |-> IF t = Loop THEN "down" ELSE "idle", data |-> NoConfig]]
    BY <1>8 DEF ConfigCrash
  <2>2. work' \in [ConfigThreads -> WorkType]
    BY <2>1 DEF WorkType
  <2>3. \A t \in ConfigThreads : work'[t].pc = IF t = Loop THEN "down" ELSE "idle"
    BY <2>1
  <2> QED
    BY <1>0, <2>1, <2>2, <2>3 DEF ThreadsInv, Running, At, Alone, Carries, Stores
<1>9. CASE Edit
  <2>1. file \in Contents /\ UNCHANGED <<config, work, drawn, sealed>>
    BY <1>0, <1>9 DEF Edit
  <2>2. file' \in Contents
    BY <1>9, <2>1, EditKeepsType, Zenon
  <2> QED
    BY <2>1, <2>2 DEF ThreadsInv, Running, At, Alone, Carries, Stores
<1>10. CASE UNCHANGED configVars
  BY <1>10 DEF configVars, ThreadsInv, Running, At, Alone, Carries, Stores
<1> QED
  BY <1>0, <1>1, <1>2, <1>3, <1>4, <1>5, <1>6, <1>7, <1>8, <1>9, <1>10
     DEF ConfigNext, LoopStep, SettingsStep, FailToStart

LEMMA KeyStep == ThreadsInv /\ KeyInv /\ [ConfigNext]_configVars => KeyInv'
<1> SUFFICES ASSUME ThreadsInv, KeyInv, [ConfigNext]_configVars, ~keyGone' PROVE KeyInv'
  BY DEF KeyInv
<1>0. /\ file \in Contents \cup {NoConfig} /\ config \in Contents \cup {NoConfig}
      /\ drawn \in Nat /\ work \in [ConfigThreads -> WorkType]
      /\ Running => Usable(config) /\ ~At(Loop, "down")
      /\ ~Running => Alone /\ work[Loop].pc \in {"down", "replace", "rename", "install"}
      /\ Loop \in ConfigThreads /\ Loop \notin Administrators
      /\ \A a \in Administrators : a \in ConfigThreads /\ a # Loop
      /\ \A t \in ConfigThreads : t = Loop \/ t \in Administrators
  BY Types DEF ThreadsInv, ConfigThreads
<1>1. CASE NewConfigManager
  <2>1. ~Running /\ UNCHANGED <<file, sealed, keyGone>> /\ At(Loop, "down")
    BY <1>0, <1>1 DEF NewConfigManager
  <2>2. sealed # 0 => file # NoConfig /\ file.key = sealed
    BY <2>1 DEF KeyInv
  <2>3. CASE file = NoConfig /\ Goto(Loop, "replace", DefaultConfig) /\ UNCHANGED config
    <3>1. DefaultConfig \in Contents
      BY <1>0, Types, NormalisedIsUsable DEF DefaultConfig, Acceptable
    <3>2. work'[Loop].pc = "replace"
      BY <1>0, <2>3, <3>1, GotoEffect
    <3> QED
      BY <2>1, <2>2, <2>3, <3>2 DEF KeyInv, Running, At
  <2>4. CASE /\ file # NoConfig /\ Acceptable(file)
             /\ Goto(Loop, "replace", Normalised(file)) /\ UNCHANGED config
    <3>1. Normalised(file) \in Contents /\ (file.key # 0 => Normalised(file).key = file.key)
      BY <1>0, <2>4, NormalisedIsUsable
    <3>2. work'[Loop].pc = "replace" /\ work'[Loop].data = Normalised(file)
      BY <1>0, <2>4, <3>1, GotoEffect
    <3> QED
      BY <2>1, <2>2, <2>4, <3>1, <3>2 DEF KeyInv, Running, At
  <2>5. CASE file # NoConfig /\ config' = file /\ Goto(Loop, "idle", NoConfig)
    <3>1. \A t \in ConfigThreads : ~Carries(t)'
      <4>1. /\ work'[Loop].pc = "idle"
            /\ \A t \in ConfigThreads : t # Loop => work'[t] = work[t]
        BY <1>0, <2>5, GotoEffect
      <4>2. \A a \in Administrators : work[a].pc = "idle"
        BY <1>0, <2>1 DEF Alone, At
      <4> QED
        BY <1>0, <4>1, <4>2 DEF Carries
    <3> QED
      BY <2>1, <2>2, <2>5, <3>1 DEF KeyInv, Running
  <2> QED
    BY <1>1, <2>3, <2>4, <2>5 DEF NewConfigManager
<1>2. CASE ReadFile
  <2>1. Running /\ file \in Contents /\ UNCHANGED <<file, config, sealed, keyGone>>
    BY <1>0, <1>2 DEF ReadFile, At
  <2>2. /\ work'[Loop].data = file
        /\ \A t \in ConfigThreads : t # Loop => work'[t] = work[t]
    BY <1>0, <1>2, <2>1, GotoEffect DEF ReadFile
  <2>3. \A t \in ConfigThreads : Carries(t)' => work'[t].data.key = config.key
    BY <2>1, <2>2, Types DEF KeyInv, Carries
  <2> QED
    BY <2>1, <2>3 DEF KeyInv, Running
<1>3. CASE Compare
  <2>1. /\ Running /\ work[Loop].data \in Contents /\ Carries(Loop)
        /\ UNCHANGED <<file, config, sealed, keyGone>>
    BY <1>0, <1>3 DEF Compare, At, ThreadsInv, Carries
  <2> DEFINE c == work[Loop].data
  <2>2. c.key = config.key /\ c.key # 0
    BY <1>0, <2>1 DEF KeyInv, Usable
  <2>3. CASE Goto(Loop, "idle", NoConfig)
    <3>1. /\ work'[Loop].pc = "idle"
          /\ \A t \in ConfigThreads : t # Loop => work'[t] = work[t]
      BY <1>0, <2>3, GotoEffect
    <3>2. \A t \in ConfigThreads : Carries(t)' => work'[t].data.key = config.key
      BY <2>1, <3>1 DEF KeyInv, Carries
    <3> QED
      BY <2>1, <3>2 DEF KeyInv, Running
  <2>4. CASE Goto(Loop, "install", c)
    <3>1. /\ work'[Loop].data = c
          /\ \A t \in ConfigThreads : t # Loop => work'[t] = work[t]
      BY <1>0, <2>1, <2>4, GotoEffect
    <3>2. \A t \in ConfigThreads : Carries(t)' => work'[t].data.key = config.key
      BY <2>1, <2>2, <3>1 DEF KeyInv, Carries
    <3> QED
      BY <2>1, <3>2 DEF KeyInv, Running
  <2>5. CASE Acceptable(c) /\ Goto(Loop, "replace", Normalised(c))
    <3>1. Normalised(c) \in Contents /\ Normalised(c).key = config.key
      BY <1>0, <2>1, <2>2, <2>5, NormalisedIsUsable
    <3>2. /\ work'[Loop].data = Normalised(c)
          /\ \A t \in ConfigThreads : t # Loop => work'[t] = work[t]
      BY <1>0, <2>5, <3>1, GotoEffect
    <3>3. \A t \in ConfigThreads : Carries(t)' => work'[t].data.key = config.key
      BY <2>1, <3>1, <3>2 DEF KeyInv, Carries
    <3> QED
      BY <2>1, <3>3 DEF KeyInv, Running
  <2> QED
    BY <1>3, <2>3, <2>4, <2>5 DEF Compare
<1>4. CASE UpdateStep
  <2>1. PICK a \in Administrators : UpdateSettings(a)
    BY <1>4 DEF UpdateStep
  <2>2. PICK w \in Words, v \in Values :
          Goto(a, "replace", [Snapshot EXCEPT !.word = w, !.value = v])
    BY <2>1 DEF UpdateSettings
  <2>3. Running /\ config \in Contents /\ UNCHANGED <<file, config, sealed, keyGone>>
    BY <1>0, <2>1 DEF UpdateSettings, Running
  <2>4. /\ [Snapshot EXCEPT !.word = w, !.value = v] \in Contents
        /\ [Snapshot EXCEPT !.word = w, !.value = v].key = config.key
    BY <2>3 DEF Snapshot, Contents
  <2>5. /\ work'[a].data = [Snapshot EXCEPT !.word = w, !.value = v]
        /\ \A t \in ConfigThreads : t # a => work'[t] = work[t]
    BY <1>0, <2>2, <2>4, GotoEffect
  <2>6. \A t \in ConfigThreads : Carries(t)' => work'[t].data.key = config.key
    BY <2>3, <2>4, <2>5 DEF KeyInv, Carries
  <2> QED
    BY <2>3, <2>6 DEF KeyInv, Running
<1>5. ASSUME NEW t \in ConfigThreads, Replace(t) \/ RenameAgain(t)
      PROVE  KeyInv'
  <2>1. /\ work[t].data \in Contents /\ Carries(t)
        /\ UNCHANGED <<config, sealed>>
        /\ work[t].pc \in {"replace", "rename"}
    BY <1>5 DEF Replace, RenameAgain, At, ThreadsInv, Carries
  <2>2. ~Running => t = Loop
    BY <1>0, <2>1 DEF Alone, At
  <2>3. CASE file' = work[t].data /\ Goto(t, "install", work[t].data) /\ UNCHANGED keyGone
    <3>1. /\ work'[t].data = work[t].data /\ work'[t].pc = "install"
          /\ \A x \in ConfigThreads : x # t => work'[x] = work[x]
      BY <1>0, <2>1, <2>3, GotoEffect
    <3>2. CASE Running
      <4>1. \A x \in ConfigThreads : Carries(x)' => work'[x].data.key = config.key
        BY <2>1, <2>3, <3>1, <3>2 DEF KeyInv, Carries
      <4> QED
        BY <2>1, <2>3, <3>2, <4>1 DEF KeyInv, Running
    <3>3. CASE ~Running
      BY <2>1, <2>2, <2>3, <3>1, <3>3, Types DEF KeyInv, Running, Carries, At
    <3> QED
      BY <3>2, <3>3
  <2>4. CASE GiveUp(t)
    <3>1. Goto(t, Rest(t), NoConfig) /\ UNCHANGED file
      BY <2>4 DEF GiveUp
    <3>2. Rest(t) \in {"down", "idle"} /\ (Rest(t) = "down" <=> t = Loop /\ ~Running)
      BY DEF Rest
    <3>3. /\ work'[t].pc \in {"down", "idle"}
          /\ \A x \in ConfigThreads : x # t => work'[x] = work[x]
      BY <1>0, <3>1, <3>2, GotoEffect
    <3>4. ~keyGone /\ ~(Rest(t) = "down" /\ file = NoConfig)
      BY <2>4, Zenon DEF GiveUp
    <3>5. CASE Running
      <4>1. \A x \in ConfigThreads : Carries(x)' => work'[x].data.key = config.key
        BY <2>1, <3>3, <3>4, <3>5 DEF KeyInv, Carries
      <4> QED
        BY <2>1, <3>1, <3>4, <3>5, <4>1 DEF KeyInv, Running
    <3>6. CASE ~Running
      BY <2>1, <2>2, <3>1, <3>2, <3>3, <3>4, <3>6 DEF KeyInv, Running, Carries, At
    <3> QED
      BY <3>5, <3>6
  <2>5. CASE file' = NoConfig /\ Goto(t, "rename", work[t].data) /\ UNCHANGED keyGone
    <3>1. /\ work'[t].data = work[t].data /\ work'[t].pc = "rename"
          /\ \A x \in ConfigThreads : x # t => work'[x] = work[x]
      BY <1>0, <2>1, <2>5, GotoEffect
    <3>2. CASE Running
      <4>1. \A x \in ConfigThreads : Carries(x)' => work'[x].data.key = config.key
        BY <2>1, <2>5, <3>1, <3>2 DEF KeyInv, Carries
      <4> QED
        BY <2>1, <2>5, <3>2, <4>1 DEF KeyInv, Running
    <3>3. CASE ~Running
      BY <2>1, <2>2, <2>5, <3>1, <3>3 DEF KeyInv, Running, Carries, At
    <3> QED
      BY <3>2, <3>3
  <2> QED
    BY <1>5, <2>3, <2>4, <2>5 DEF Replace, RenameAgain
<1>6. ASSUME NEW t \in ConfigThreads, Install(t)
      PROVE  KeyInv'
  <2>1. /\ work[t].data \in Contents /\ Carries(t)
        /\ UNCHANGED <<file, sealed, keyGone>> /\ config' = work[t].data
        /\ Goto(t, "idle", NoConfig)
        /\ work[t].pc = "install"
    BY <1>6 DEF Install, At, ThreadsInv, Carries
  <2>2. ~Running => t = Loop
    BY <1>0, <2>1 DEF Alone, At
  <2>3. Running'
    BY <2>1, Types DEF Running
  <2>4. /\ work'[t].pc = "idle"
        /\ \A x \in ConfigThreads : x # t => work'[x] = work[x]
    BY <1>0, <2>1, GotoEffect
  <2>5. CASE Running
    <3>1. config'.key = config.key
      BY <2>1, <2>5 DEF KeyInv
    <3>2. \A x \in ConfigThreads : Carries(x)' => work'[x].data.key = config'.key
      BY <2>1, <2>4, <2>5, <3>1 DEF KeyInv, Carries
    <3> QED
      BY <2>1, <2>3, <2>5, <3>1, <3>2 DEF KeyInv
  <2>6. CASE ~Running
    <3>1. \A x \in ConfigThreads : ~Carries(x)'
      BY <1>0, <2>2, <2>4, <2>6 DEF Carries, Alone, At
    <3> QED
      BY <2>1, <2>2, <2>3, <2>6, <3>1 DEF KeyInv, At
  <2> QED
    BY <2>5, <2>6
<1>7. CASE Seal
  BY <1>7 DEF Seal, KeyInv, Running, Carries, At
<1>8. CASE ConfigCrash
  <2>1. /\ config' = NoConfig /\ UNCHANGED <<file, sealed>>
        /\ work' = [t \in ConfigThreads |->
                     [pc |-> IF t = Loop THEN "down" ELSE "idle", data |-> NoConfig]]
    BY <1>8 DEF ConfigCrash
  <2>2. ~keyGone /\ file # NoConfig
    BY <1>8, Zenon DEF ConfigCrash
  <2>3. work'[Loop].pc = "down" /\ ~Running'
    BY <1>0, <2>1 DEF Running
  <2>4. sealed # 0 => file.key = sealed
    BY <2>2 DEF KeyInv
  <2> QED
    BY <2>1, <2>2, <2>3, <2>4 DEF KeyInv, Carries, At
<1>9. CASE Edit
  <2>1. file \in Contents /\ UNCHANGED <<config, work, sealed>>
    BY <1>0, <1>9 DEF Edit
  <2>2. file' \in Contents /\ file'.key = file.key /\ ~keyGone
    <3>1. file' \in Contents /\ (keyGone' = TRUE \/ (keyGone' = keyGone /\ file'.key = file.key))
      BY <1>9, <2>1, EditKeepsType
    <3>2. CASE keyGone' = TRUE
      BY <3>2, Zenon
    <3>3. CASE keyGone' = keyGone /\ file'.key = file.key
      BY <3>1, <3>3, Zenon
    <3> QED
      BY <3>1, <3>2, <3>3, Zenon
  <2> QED
    BY <2>1, <2>2, Types DEF KeyInv, Running, Carries, At
<1>10. CASE UNCHANGED configVars
  BY <1>10 DEF configVars, KeyInv, Running, Carries, At
<1> QED
  BY <1>0, <1>1, <1>2, <1>3, <1>4, <1>5, <1>6, <1>7, <1>8, <1>9, <1>10
     DEF ConfigNext, LoopStep, SettingsStep, FailToStart

LEMMA CleanStep == ThreadsInv /\ CleanInv /\ [ConfigNext]_configVars => CleanInv'
<1> SUFFICES ASSUME ThreadsInv, CleanInv, [ConfigNext]_configVars, clean' PROVE CleanInv'
  BY DEF CleanInv
<1>0. /\ file \in Contents \cup {NoConfig}
      /\ work \in [ConfigThreads -> WorkType] /\ drawn \in Nat
      /\ Running => ~At(Loop, "down")
      /\ ~Running => Alone
      /\ Loop \in ConfigThreads /\ Loop \notin Administrators
      /\ \A a \in Administrators : a \in ConfigThreads /\ a # Loop
      /\ \A t \in ConfigThreads : t = Loop \/ t \in Administrators
  BY Types DEF ThreadsInv, ConfigThreads
<1>1. ASSUME NEW pc \in {"down", "idle", "compare", "replace", "rename", "install"},
             NEW d \in Contents \cup {NoConfig}, Goto(Loop, pc, d), Alone
      PROVE  Alone' /\ work'[Loop].pc = pc /\ work'[Loop].data = d
  <2>1. /\ work'[Loop].pc = pc /\ work'[Loop].data = d
        /\ \A x \in ConfigThreads : x # Loop => work'[x] = work[x]
    BY <1>0, <1>1, GotoEffect
  <2> QED
    BY <1>0, <1>1, <2>1 DEF Alone, At
<1>2. CASE NewConfigManager
  <2>1. Alone
    BY <1>0, <1>2 DEF NewConfigManager
  <2>2. CASE Goto(Loop, "replace", DefaultConfig)
    <3>1. DefaultConfig \in Contents
      BY <1>0, Types, NormalisedIsUsable DEF DefaultConfig, Acceptable
    <3> QED
      BY <1>1, <2>1, <2>2, <3>1 DEF CleanInv, At
  <2>3. CASE file # NoConfig /\ Acceptable(file) /\ Goto(Loop, "replace", Normalised(file))
    <3>1. Normalised(file) \in Contents
      BY <1>0, <2>3, NormalisedIsUsable
    <3> QED
      BY <1>1, <2>1, <2>3, <3>1 DEF CleanInv, At
  <2>4. CASE config' = file /\ file' = file /\ Goto(Loop, "idle", NoConfig)
    BY <1>1, <2>1, <2>4 DEF CleanInv, At
  <2> QED
    BY <1>2, <2>2, <2>3, <2>4 DEF NewConfigManager
<1>3. CASE ReadFile
  <2>1. Alone
    BY <1>3, Zenon DEF ReadFile
  <2>2. Goto(Loop, "compare", file) /\ file' = file
    BY <1>3 DEF ReadFile
  <2> QED
    BY <1>0, <1>1, <2>1, <2>2 DEF CleanInv, At
<1>4. CASE Compare
  <2> DEFINE c == work[Loop].data
  <2>1. Alone /\ c = file /\ c \in Contents /\ UNCHANGED <<file, config>>
    BY <1>0, <1>4 DEF Compare, CleanInv, At, ThreadsInv, Carries
  <2>2. CASE Goto(Loop, "idle", NoConfig) /\ (Unchanged(c) \/ ~Acceptable(c))
    BY <1>1, <2>1, <2>2 DEF CleanInv, At, Unchanged
  <2>3. CASE Goto(Loop, "install", c)
    BY <1>1, <2>1, <2>3 DEF CleanInv, At
  <2>4. CASE Acceptable(c) /\ Goto(Loop, "replace", Normalised(c))
    <3>1. Normalised(c) \in Contents
      BY <1>0, <2>1, <2>4, NormalisedIsUsable
    <3> QED
      BY <1>1, <2>1, <2>4, <3>1 DEF CleanInv, At
  <2> QED
    BY <1>4, <2>2, <2>3, <2>4 DEF Compare
<1>5. ASSUME NEW t \in ConfigThreads, Replace(t) \/ RenameAgain(t)
      PROVE  CleanInv'
  <2>1. clean /\ file' = work[t].data /\ Goto(t, "install", work[t].data)
    BY <1>5, Zenon DEF Replace, RenameAgain, GiveUp, Fault
  <2>2. Alone /\ t = Loop /\ work[t].data \in Contents
    BY <1>0, <1>5, <2>1 DEF CleanInv, Alone, At, Replace, RenameAgain, ThreadsInv, Carries
  <2> QED
    BY <1>1, <2>1, <2>2 DEF CleanInv, At
<1>6. ASSUME NEW t \in ConfigThreads, Install(t)
      PROVE  CleanInv'
  <2>1. clean /\ config' = work[t].data /\ file' = file /\ Goto(t, "idle", NoConfig)
    BY <1>6 DEF Install
  <2>2. Alone /\ t = Loop /\ work[t].data = file
    BY <1>0, <1>6, <2>1 DEF CleanInv, Alone, At, Install
  <2> QED
    BY <1>1, <2>1, <2>2 DEF CleanInv, At
<1>7. CASE UpdateStep \/ ConfigCrash \/ Edit
  BY <1>7, Zenon DEF UpdateStep, UpdateSettings, ConfigCrash, Edit
<1>8. CASE Seal \/ UNCHANGED configVars
  BY <1>8 DEF Seal, configVars, CleanInv, Alone, At
<1> QED
  BY <1>0, <1>2, <1>3, <1>4, <1>5, <1>6, <1>7, <1>8
     DEF ConfigNext, LoopStep, SettingsStep, FailToStart

LEMMA ConfigInvariants == ConfigSpec => [](ThreadsInv /\ Counters /\ Flags /\ KeyInv /\ CleanInv)
  BY InitInv, ThreadsStep, CountersStep, FlagsStep, KeyStep, CleanStep, PTL DEF ConfigSpec

(* Whatever is in the file, every reader finds a valid configuration with a  *)
(* key and without a plaintext password.                                     *)
THEOREM ConfigTypeCorrect == ConfigSpec => []ConfigTypeOK
<1>1. ThreadsInv /\ Counters /\ Flags => ConfigTypeOK
  BY DEF ThreadsInv, Counters, Flags, ConfigTypeOK, WorkType, Usable
<1> QED
  BY <1>1, ConfigInvariants, PTL

(* The credentials in the database stay readable through updates, reloads    *)
(* and restarts, as long as the key was not removed.                         *)
THEOREM CredentialsStayReadable == ConfigSpec => []CredentialsReadable
<1>1. KeyInv => CredentialsReadable
  BY DEF KeyInv, CredentialsReadable
<1> QED
  BY <1>1, ConfigInvariants, PTL

(* One undisturbed reload brings memory and file together.                   *)
THEOREM OneReloadSuffices == ConfigSpec => []OneReloadAgrees
<1>1. CleanInv => OneReloadAgrees
  BY DEF CleanInv, OneReloadAgrees
<1> QED
  BY <1>1, ConfigInvariants, PTL
=============================================================================
