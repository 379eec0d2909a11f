---------------------------- MODULE ConfigStore ----------------------------
(***************************************************************************)
(* config.json and its copy in memory: ConfigManager in config.go, the     *)
(* settings handler in settings.go, and the key under which the Store      *)
(* encrypts credentials (store.go).                                        *)
(*                                                                         *)
(* The file is replaced by settings requests and by reloads that had to    *)
(* normalise what they read, and edited by the operator; memory is         *)
(* replaced afterwards, under m.mu.  No lock spans the two.                *)
(*                                                                         *)
(* Simplifications.  Of the settings, the password and one other value are *)
(* told apart; a value Invalid stands for everything parseConfig refuses.  *)
(* fileHash is the hash of the content that was installed with it, so the  *)
(* configuration in memory stands for both.  Two hashes of one password    *)
(* and two layouts of one content are not told apart: they cause reloads   *)
(* that change nothing.                                                    *)
(***************************************************************************)
EXTENDS Integers

CONSTANTS
  Administrators, \* slots for settings requests in flight
  Loop,           \* the goroutine of Start; before it, NewConfigManager
  Words,          \* administrator passwords
  DefaultWord,
  Values,         \* valid values of the other settings
  DefaultValue,
  Invalid,        \* a value that does not parse or validate
  NoConfig,       \* no configuration: no file, or no process
  MaxEdits,       \* how often the operator edits the file
  MaxFaults,      \* how many file operations fail
  MaxKills        \* how often the process ends

ASSUME ConfigConstants ==
  /\ Loop \notin Administrators
  /\ DefaultWord \in Words /\ DefaultValue \in Values
  /\ Invalid \notin Values
  /\ NoConfig \notin [key : Nat, word : Words, hashed : BOOLEAN, value : Values \cup {Invalid}]
  /\ MaxEdits \in Nat /\ MaxFaults \in Nat /\ MaxKills \in Nat

VARIABLES
  file,    \* the content of config.json, or NoConfig
  config,  \* the configuration in memory, or NoConfig before the start has finished
  work,    \* work[t]: where a request or the loop is, and the content it carries
  drawn,   \* encryption keys are numbered in the order they are generated
  sealed,  \* the key under which the credentials in the database are encrypted, or 0
  edits, faults, kills,
  \* Observation:
  clean,   \* the last reload began with no settings request in flight, and since then
           \* nobody began one, nobody edited the file and no file operation failed
  keyGone  \* the operator removed the key, or the process ended without a file

configVars == <<file, config, work, drawn, sealed, edits, faults, kills, clean, keyGone>>

ConfigThreads == Administrators \cup {Loop}

\* Key 0 is an empty encryption_key, which config.example.json has.
Contents == [key : Nat, word : Words, hashed : BOOLEAN, value : Values \cup {Invalid}]
Example == [key |-> 0, word |-> DefaultWord, hashed |-> FALSE, value |-> DefaultValue]

\* parseConfig refuses the rest; what it accepts it normalises: a missing key is
\* generated and a plaintext password is replaced by its hash.
Acceptable(c) == c.value # Invalid
WrongNormal(c) == c.key # 0
Normal(c) == c.hashed /\ c.key # 0
Normalised(c) == [c EXCEPT !.hashed = TRUE, !.key = IF c.key = 0 THEN drawn + 1 ELSE c.key]
Draw(c) == drawn' = IF c.key = 0 THEN drawn + 1 ELSE drawn

DefaultConfig == Normalised(Example)

At(t, pc) == work[t].pc = pc
Goto(t, pc, c) == work' = [work EXCEPT ![t] = [pc |-> pc, data |-> c]]
Alone == \A a \in Administrators : At(a, "idle")
Running == config # NoConfig

\* One more file operation fails.
Fault == faults < MaxFaults /\ faults' = faults + 1 /\ clean' = FALSE

ConfigInit ==
  /\ \/ file = NoConfig /\ sealed = 0
     \/ file = Example /\ sealed = 0
     \/ file = [Example EXCEPT !.key = 1] /\ sealed \in {0, 1}
  /\ config = NoConfig
  /\ work = [t \in ConfigThreads |->
               [pc |-> IF t = Loop THEN "down" ELSE "idle", data |-> NoConfig]]
  /\ drawn = 1
  /\ edits = 0 /\ faults = 0 /\ kills = 0
  /\ clean = FALSE /\ keyGone = FALSE

(***************************************************************************)
(* NewConfigManager                                                        *)
(***************************************************************************)
NewConfigManager ==
  /\ At(Loop, "down")
  /\ \/ /\ file = NoConfig
        /\ Goto(Loop, "replace", DefaultConfig) /\ drawn' = drawn + 1
        /\ UNCHANGED config
     \/ /\ file # NoConfig /\ Acceptable(file) /\ ~Normal(file)
        /\ Goto(Loop, "replace", Normalised(file)) /\ Draw(file)
        /\ UNCHANGED config
     \/ /\ file # NoConfig /\ Acceptable(file) /\ Normal(file)
        /\ config' = file
        /\ Goto(Loop, "idle", NoConfig)
        /\ UNCHANGED drawn
  /\ clean' = TRUE
  /\ UNCHANGED <<file, sealed, edits, faults, kills, keyGone>>

\* A file that is not acceptable ends the process, which is started again.
FailToStart ==
  /\ At(Loop, "down") /\ file # NoConfig /\ ~Acceptable(file)
  /\ UNCHANGED configVars

(***************************************************************************)
(* Reload, once per tick                                                   *)
(***************************************************************************)
\* A file that cannot be read is left for the next tick.
ReadFile ==
  /\ At(Loop, "idle") /\ file # NoConfig
  /\ Goto(Loop, "compare", file)
  /\ clean' = Alone
  /\ UNCHANGED <<file, config, drawn, sealed, edits, faults, kills, keyGone>>

WrongUnchanged(c) == c.value = config.value
Unchanged(c) == c = config

\* The hash is compared under the read lock; what changed is installed as it is, or
\* first stored in its normal form.
Compare ==
  /\ At(Loop, "compare")
  /\ LET c == work[Loop].data IN
       \/ /\ Unchanged(c) \/ ~Acceptable(c)
          /\ Goto(Loop, "idle", NoConfig) /\ UNCHANGED drawn
       \/ /\ ~Unchanged(c) /\ Acceptable(c) /\ Normal(c)
          /\ Goto(Loop, "install", c) /\ UNCHANGED drawn
       \/ /\ ~Unchanged(c) /\ Acceptable(c) /\ ~Normal(c)
          /\ Goto(Loop, "replace", Normalised(c)) /\ Draw(c)
  /\ UNCHANGED <<file, config, sealed, edits, faults, kills, clean, keyGone>>

(***************************************************************************)
(* The settings handler                                                    *)
(***************************************************************************)
\* The fields of the request are put into a snapshot, which Update normalises and
\* validates; a request that is refused changes nothing.
WrongSnapshot == DefaultConfig
Snapshot == config

UpdateSettings(a) ==
  /\ Running
  /\ At(a, "idle")
  /\ \E w \in Words, v \in Values :
       Goto(a, "replace", [Snapshot EXCEPT !.word = w, !.value = v])
  /\ clean' = FALSE
  /\ UNCHANGED <<file, config, drawn, sealed, edits, faults, kills, keyGone>>

(***************************************************************************)
(* store                                                                   *)
(***************************************************************************)
\* A start that cannot store ends the process; any other store reports the error.
Rest(t) == IF t = Loop /\ ~Running THEN "down" ELSE "idle"
GiveUp(t) ==
  /\ Goto(t, Rest(t), NoConfig) /\ Fault
  /\ keyGone' = (keyGone \/ (Rest(t) = "down" /\ file = NoConfig))
  /\ UNCHANGED file

\* The temporary file is renamed onto config.json.  Where that fails the file is removed
\* first, and the rename tried again.
Replace(t) ==
  /\ At(t, "replace")
  /\ \/ /\ file' = work[t].data /\ Goto(t, "install", work[t].data)
        /\ UNCHANGED <<faults, clean, keyGone>>
     \/ GiveUp(t)
     \/ /\ file' = NoConfig /\ Goto(t, "rename", work[t].data)
        /\ Fault /\ UNCHANGED keyGone
  /\ UNCHANGED <<config, drawn, sealed, edits, kills>>

RenameAgain(t) ==
  /\ At(t, "rename")
  /\ \/ /\ file' = work[t].data /\ Goto(t, "install", work[t].data)
        /\ UNCHANGED <<faults, clean, keyGone>>
     \/ GiveUp(t)
  /\ UNCHANGED <<config, drawn, sealed, edits, kills>>

Install(t) ==
  /\ At(t, "install")
  /\ config' = work[t].data
  /\ Goto(t, "idle", NoConfig)
  /\ UNCHANGED <<file, drawn, sealed, edits, faults, kills, clean, keyGone>>

(***************************************************************************)
(* The rest of the process, its end, and the operator                      *)
(***************************************************************************)
\* Store.encrypt takes the key from a snapshot; a login, an import or a refresh stores
\* the credentials of the account anew.
Seal ==
  /\ Running
  /\ sealed' = config.key
  /\ UNCHANGED <<file, config, work, drawn, edits, faults, kills, clean, keyGone>>

\* The process ends at any point, and is started again.
ConfigCrash ==
  /\ ~At(Loop, "down")
  /\ kills < MaxKills /\ kills' = kills + 1
  /\ config' = NoConfig
  /\ work' = [t \in ConfigThreads |->
                [pc |-> IF t = Loop THEN "down" ELSE "idle", data |-> NoConfig]]
  /\ clean' = FALSE
  /\ keyGone' = (keyGone \/ file = NoConfig)
  /\ UNCHANGED <<file, drawn, sealed, edits, faults>>

\* The operator enters a new password in plain text, changes another setting, perhaps to
\* something invalid, or removes the key.
Edit ==
  /\ edits < MaxEdits /\ edits' = edits + 1
  /\ file # NoConfig
  /\ \/ /\ \E w \in Words : file' = [file EXCEPT !.word = w, !.hashed = FALSE]
        /\ UNCHANGED keyGone
     \/ /\ \E v \in Values \cup {Invalid} : file' = [file EXCEPT !.value = v]
        /\ UNCHANGED keyGone
     \/ /\ file' = [file EXCEPT !.key = 0]
        /\ keyGone' = TRUE
  /\ clean' = FALSE
  /\ UNCHANGED <<config, work, drawn, sealed, faults, kills>>

LoopStep == NewConfigManager \/ FailToStart \/ ReadFile \/ Compare
            \/ Replace(Loop) \/ RenameAgain(Loop) \/ Install(Loop)
SettingsStep == \E a \in Administrators : Replace(a) \/ RenameAgain(a) \/ Install(a)
UpdateStep == \E a \in Administrators : UpdateSettings(a)

ConfigNext == LoopStep \/ SettingsStep \/ UpdateStep \/ Seal \/ ConfigCrash \/ Edit

ConfigSpec == ConfigInit /\ [][ConfigNext]_configVars

(***************************************************************************)
(* Properties                                                              *)
(***************************************************************************)
\* The state has its type; in particular every reader of the configuration finds a valid
\* one with a key and without a plaintext password, whatever is in the file.
ConfigTypeOK ==
  /\ file \in Contents \cup {NoConfig}
  /\ config \in Contents \cup {NoConfig}
  /\ Running => config.hashed /\ config.key # 0 /\ config.value # Invalid
  /\ work \in [ConfigThreads ->
                 [pc : {"down", "idle", "compare", "replace", "rename", "install"},
                  data : Contents \cup {NoConfig}]]
  /\ drawn \in Nat /\ sealed \in Nat
  /\ edits \in 0 .. MaxEdits /\ faults \in 0 .. MaxFaults /\ kills \in 0 .. MaxKills
  /\ clean \in BOOLEAN /\ keyGone \in BOOLEAN

\* README.md:175 and config.go:251: the key that the credentials in the database need is
\* the key in memory, through updates, reloads and restarts, unless the operator removed
\* it from the file or the process ended between the removal of the file and its rename.
CredentialsReadable == Running /\ sealed # 0 /\ ~keyGone => config.key = sealed

\* config.go:309: one reload that no settings request and no edit disturbs brings memory
\* and file together, whatever requests, stale reloads and failed replacements left
\* behind; from then on the file holds no plaintext password, and a request's snapshot
\* loses nothing that the file has.
OneReloadAgrees ==
  clean /\ At(Loop, "idle") /\ file # NoConfig /\ Acceptable(file) => config = file
=============================================================================
