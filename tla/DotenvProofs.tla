---------------------------- MODULE DotenvProofs ----------------------------
(***************************************************************************)
(* Theorems about module Dotenv: its types, the order of the backups, the  *)
(* vault under imports that overlap, the placeholders, and where the real  *)
(* value of a name is.                                                     *)
(***************************************************************************)
EXTENDS Dotenv, WellFoundedInduction, TLAPS

BackupFile == [content : Content, mtime : Nat]
Times ==
    /\ mtime \in Nat \ {0} /\ written \in Nat
    /\ \A s \in Stamp : backups[s].mtime <= written
HeldFiles == [secrets : SUBSET Secret, aliases : [Alias -> Secret \cup {None}], config : SUBSET Alias]
\* Where an import that adds an alias is before the alias names the secret, and after.
Before == {"secrets", "store", "aliases", "name"}
After == {"old", "drop"}
Worked(p) ==
    /\ todo[p] \subseteq Imported(p)
    /\ pc[p] \in Before => name[p] \in todo[p]
    /\ pc[p] \in After => name[p] \in Imported(p) \ todo[p] /\ old[p] /= None
    /\ pc[p] = "config" => todo[p] = {}
Picked(r) == pc[r] \in {"copy", "ask"} => pick[r] \in Stamp /\ Exists(pick[r])
TInv ==
    /\ TypeOK /\ Times /\ backups \in [Stamp -> BackupFile]
    /\ \A p \in Import : Worked(p)
    /\ \A r \in Restore \cup Uninstall : Picked(r)

LEMMA LeastNumber ==
  ASSUME NEW S \in SUBSET Nat, S # {}
  PROVE  \E m \in S : \A k \in S : m <= k
  <1> DEFINE Less == {p \in Nat \X Nat : p[1] < p[2]}
  <1>1. IsWellFoundedOn(Less, Nat)
    BY NatLessThanWellFounded DEF OpToRel
  <1> HIDE DEF Less
  <1>2. PICK m \in S : \A k \in S : ~(<<k, m>> \in Less)
    BY <1>1, WFMin
  <1>3. ASSUME NEW k \in S PROVE m <= k
    <2>1. <<k, m>> \in Nat \X Nat /\ ~(<<k, m>>[1] < <<k, m>>[2])
      BY <1>2 DEF Less
    <2> QED
      BY <2>1
  <1> QED
    BY <1>3

\* There is a newest backup as soon as there is any.
LEMMA LatestExists ==
  ASSUME TInv, NEW s \in Stamp, Exists(s)
  PROVE  /\ Latest \in Stamp /\ Exists(Latest)
         /\ \A o \in Stamp : Exists(o) =>
               \/ backups[o].mtime < backups[Latest].mtime
               \/ backups[o].mtime = backups[Latest].mtime /\ o <= Latest
  <1> USE DotenvAssumption
  <1> DEFINE Files == {q \in Stamp : Exists(q)}
             Ages == {written - backups[q].mtime : q \in Files}
  <1>1. \A q \in Stamp : backups[q].mtime \in Nat /\ q \in Nat /\ q <= MaxSecond /\ backups[q].mtime <= written
    BY DEF TInv, Times, BackupFile, Stamp
  <1>2. Ages \in SUBSET Nat /\ Ages # {} /\ written \in Nat
    BY <1>1 DEF TInv, Times
  <1>3. PICK age \in Ages : \A a \in Ages : age <= a
    <2> HIDE DEF Ages
    <2> QED
      BY <1>2, LeastNumber
  <1> DEFINE Newest == {q \in Files : written - backups[q].mtime = age}
             Ranks == {MaxSecond - q : q \in Newest}
  <1>4. Ranks \in SUBSET Nat /\ Ranks # {}
    BY <1>1, <1>3
  <1>5. PICK rank \in Ranks : \A a \in Ranks : rank <= a
    <2> HIDE DEF Ranks
    <2> QED
      BY <1>4, LeastNumber
  <1>6. PICK q \in Newest : rank = MaxSecond - q
    BY <1>5
  <1>7. ASSUME NEW o \in Stamp, Exists(o)
        PROVE  \/ backups[o].mtime < backups[q].mtime
               \/ backups[o].mtime = backups[q].mtime /\ o <= q
    <2>1. age <= written - backups[o].mtime
      BY <1>3, <1>7
    <2>2. age = written - backups[q].mtime /\ age \in Nat
      BY <1>2, <1>3, <1>6
    <2>3. backups[o].mtime <= backups[q].mtime
      BY <1>1, <1>2, <1>6, <1>7, <2>1, <2>2
    <2>4. CASE backups[o].mtime = backups[q].mtime
      <3>1. MaxSecond - o \in Ranks
        BY <1>7, <2>2, <2>4
      <3>2. MaxSecond - q <= MaxSecond - o
        BY <1>5, <1>6, <3>1
      <3> QED
        BY <1>1, <1>6, <1>7, <2>4, <3>2
    <2> QED
      BY <1>1, <1>6, <1>7, <2>3, <2>4
  <1>8. \E l \in Stamp : /\ Exists(l)
            /\ \A o \in Stamp : Exists(o) =>
                  \/ backups[o].mtime < backups[l].mtime
                  \/ backups[o].mtime = backups[l].mtime /\ o <= l
    BY <1>6, <1>7
  <1> QED
    BY <1>8 DEF Latest

\* What a copy that was killed leaves is a content.
LEMMA CutContent ==
  ASSUME NEW c \in Content, NEW k
  PROVE  Cut(c, k) \in Content
  BY DEF Cut, Content, Value

LEMMA RestoredContent ==
  ASSUME TypeOK, NEW c \in Content
  PROVE  Restored(c) \in Content
  <1>1. ASSUME NEW a \in Alias PROVE Resolved(a) \in Value
    BY DotenvAssumption DEF Resolved, TypeOK, Secret, Value
  <1> QED
    BY <1>1, DotenvAssumption DEF Restored, TypeOK, Content, Value

LEMMA RewrittenContent ==
  ASSUME TypeOK, NEW p \in Import
  PROVE  Rewritten(p) \in Content
  BY DotenvAssumption DEF Rewritten, TypeOK, Content, Value

\* What copying content c to the backup of this second, with time t, does to the types.
LEMMA BackupTypes ==
  ASSUME TInv, NEW c \in Content, NEW t \in Nat, t <= written',
         written' \in Nat, written <= written',
         backups' = [backups EXCEPT ![second] = [content |-> c, mtime |-> t]]
  PROVE  /\ backups' \in [Stamp -> BackupFile]
         /\ DOMAIN backups' = Stamp /\ \A s \in Stamp : backups'[s].content \in Content
         /\ \A s \in Stamp : backups'[s].mtime <= written'
  <1>1. \A s \in Stamp : backups[s] \in BackupFile /\ backups[s].mtime <= written /\ second \in Stamp
    BY DEF TInv, TypeOK, Times
  <1>2. \A s \in Stamp : backups'[s] = IF s = second THEN [content |-> c, mtime |-> t] ELSE backups[s]
    BY DEF TInv
  <1>3. [content |-> c, mtime |-> t] \in BackupFile
    BY DEF BackupFile
  <1>4. backups' \in [Stamp -> BackupFile]
    BY <1>3 DEF TInv
  <1>5. \A s \in Stamp : backups'[s].mtime <= written'
    <2> SUFFICES ASSUME NEW s \in Stamp PROVE backups'[s].mtime <= written'
      OBVIOUS
    <2> QED
      BY <1>1, <1>2 DEF BackupFile, TInv, Times
  <1> QED
    BY <1>4, <1>5 DEF BackupFile


\* The secret an import stores for a name it found.
LEMMA SecretOfTyped ==
  ASSUME TypeOK, NEW p \in Import, name[p] \in Imported(p)
  PROVE  SecretOf(p) \in Secret /\ name[p] \in Name /\ AliasOf[name[p]] \in Alias
  BY DotenvAssumption DEF SecretOf, Secret, Imported, TypeOK, Content, Value

LEMMA BusyImported ==
  ASSUME TInv, NEW p \in Import, pc[p] \in Before \cup After
  PROVE  name[p] \in Imported(p)
  BY DEF TInv, Worked

LEMMA LeaveTyped ==
  ASSUME TypeOK, NEW p \in Import, NEW l \in Ended, Leave(p, l)
  PROVE  /\ pc' \in [Proc -> Ended \cup Steps] /\ found' \in [Import -> Content] /\ lines' \in [Import -> Content]
         /\ todo' \in [Import -> SUBSET Name] /\ name' \in [Import -> Name \cup {None}]
         /\ old' \in [Import -> Secret \cup {None}] /\ held' \in [Import -> HeldFiles]
  <1>1. NothingHeld \in HeldFiles /\ Empty \in Content
    BY DEF NothingHeld, HeldFiles, NoAliases, Empty, Content, Value
  <1> QED
    BY <1>1 DEF Leave, Goto, TypeOK, HeldFiles

\* What changing one of the copies an import holds does to them.
LEMMA HeldSecrets ==
  ASSUME held \in [Import -> HeldFiles], NEW p \in Import, NEW x \in SUBSET Secret,
         held' = [held EXCEPT ![p].secrets = x]
  PROVE  held' \in [Import -> HeldFiles] /\ held'[p] = [held[p] EXCEPT !.secrets = x]
  <1>1. [held[p] EXCEPT !.secrets = x] \in HeldFiles
    BY DEF HeldFiles
  <1> QED
    BY <1>1

LEMMA HeldAliases ==
  ASSUME held \in [Import -> HeldFiles], NEW p \in Import, NEW x \in [Alias -> Secret \cup {None}],
         held' = [held EXCEPT ![p].aliases = x]
  PROVE  held' \in [Import -> HeldFiles] /\ held'[p] = [held[p] EXCEPT !.aliases = x]
  <1>1. [held[p] EXCEPT !.aliases = x] \in HeldFiles
    BY DEF HeldFiles
  <1> QED
    BY <1>1

LEMMA HeldConfig ==
  ASSUME held \in [Import -> HeldFiles], NEW p \in Import, NEW x \in SUBSET Alias,
         held' = [held EXCEPT ![p].config = x]
  PROVE  held' \in [Import -> HeldFiles] /\ held'[p] = [held[p] EXCEPT !.config = x]
  <1>1. [held[p] EXCEPT !.config = x] \in HeldFiles
    BY DEF HeldFiles
  <1> QED
    BY <1>1

LocalTypes ==
    /\ pc \in [Proc -> Ended \cup Steps] /\ found \in [Import -> Content] /\ lines \in [Import -> Content]
    /\ todo \in [Import -> SUBSET Name] /\ name \in [Import -> Name \cup {None}]
    /\ old \in [Import -> Secret \cup {None}] /\ held \in [Import -> HeldFiles]

LEMMA NextLocalTypes ==
  ASSUME TInv, [Next]_vars
  PROVE  LocalTypes'
  <1> TypeOK /\ LocalTypes
    BY DEF TInv, TypeOK, LocalTypes, HeldFiles
  <1> USE DotenvAssumption DEF locals
  <1>1. ASSUME NEW p \in Import, Scan(p) PROVE LocalTypes'
    <2>1. \A n \in Name : dotenv[n] \in Value
      BY DEF TypeOK, Content
    <2> QED
      BY <1>1, <2>1 DEF Scan, LocalTypes, Content, Value, Steps, Ended, Goto
  <1>2. ASSUME NEW p \in Import, LookAlias(p) PROVE LocalTypes'
    <2>1. PICK n \in todo[p] : name' = [name EXCEPT ![p] = n] /\ old' = [old EXCEPT ![p] = aliases[AliasOf[n]]]
      BY <1>2 DEF LookAlias, First
    <2>2. n \in Name /\ aliases[AliasOf[n]] \in Secret \cup {None}
      BY DEF TypeOK
    <2> QED
      BY <1>2, <2>1, <2>2 DEF LookAlias, LocalTypes, Steps, Goto
  <1>3. ASSUME NEW p \in Import, LoadSecrets(p) \/ LoadAliases(p) \/ LoadOld(p) PROVE LocalTypes'
    <2>1. held' \in [Import -> HeldFiles]
      BY <1>3, HeldSecrets, HeldAliases DEF LoadSecrets, LoadAliases, LoadOld, LocalTypes, TypeOK
    <2>2. pc' \in [Proc -> Ended \cup Steps]
      BY <1>3 DEF LoadSecrets, LoadAliases, LoadOld, LocalTypes, Steps, Goto, NextName
    <2> QED
      BY <1>3, <2>1, <2>2 DEF LoadSecrets, LoadAliases, LoadOld, LocalTypes
  <1>4. ASSUME NEW p \in Import, StoreSecret(p) \/ DropOld(p) PROVE LocalTypes'
    <2>1. held' \in [Import -> HeldFiles]
      BY <1>4, HeldSecrets DEF StoreSecret, DropOld, LocalTypes
    <2>2. pc' \in [Proc -> Ended \cup Steps]
      BY <1>4 DEF StoreSecret, DropOld, LocalTypes, Steps, Goto, NextName
    <2> QED
      BY <1>4, <2>1, <2>2 DEF StoreSecret, DropOld, LocalTypes
  <1>5. ASSUME NEW p \in Import, NameSecret(p) PROVE LocalTypes'
    <2>1. held' \in [Import -> HeldFiles]
      <3>1. NoAliases \in [Alias -> Secret \cup {None}]
        BY DEF NoAliases
      <3> QED
        BY <1>5, <3>1, HeldAliases DEF NameSecret, LocalTypes
    <2>2. pc' \in [Proc -> Ended \cup Steps]
      BY <1>5 DEF NameSecret, LocalTypes, Steps, Goto, NextName
    <2> QED
      BY <1>5, <2>1, <2>2 DEF NameSecret, LocalTypes
  <1>6. ASSUME NEW p \in Import, LoadConfig(p) PROVE LocalTypes'
    <2>1. held' \in [Import -> HeldFiles]
      BY <1>6, HeldConfig DEF LoadConfig, LocalTypes, TypeOK
    <2> QED
      BY <1>6, <2>1 DEF LoadConfig, LocalTypes, Imported, Steps, Goto
  <1>7. ASSUME NEW p \in Import, NEW l \in Ended, Leave(p, l) PROVE LocalTypes'
    BY <1>7, LeaveTyped DEF LocalTypes
  <1>8. ASSUME NEW p \in Import, AssignAlias(p) PROVE LocalTypes'
    <2>1. CASE Leave(p, "failed")
      BY <1>7, <2>1 DEF Ended
    <2>2. CASE ~Leave(p, "failed")
      BY <1>8, <2>2 DEF AssignAlias, LocalTypes
    <2> QED
      BY <2>1, <2>2
  <1>9. ASSUME NEW p \in Import, SaveConfig(p) PROVE LocalTypes'
    <2>1. CASE Leave(p, "done")
      BY <1>7, <2>1 DEF Ended
    <2>2. CASE ~Leave(p, "done")
      BY <1>9, <2>2 DEF SaveConfig, AfterAssign, LocalTypes, Steps, Goto
    <2> QED
      BY <2>1, <2>2
  <1>10. ASSUME NEW p \in Import, Backup(p) PROVE LocalTypes'
    BY <1>10 DEF Backup, LocalTypes, Steps, Goto
  <1>11. ASSUME NEW p \in Import, BackupKilled(p) \/ Crash(p) \/ Replace(p) PROVE LocalTypes'
    BY <1>7, <1>11 DEF BackupKilled, Crash, Replace, Ended
  <1>12. ASSUME NEW p \in Import, ReadLines(p) PROVE LocalTypes'
    BY <1>12 DEF ReadLines, LocalTypes, TypeOK, Steps, Goto
  <1>13. ASSUME NEW r \in Restore \cup Uninstall,
                \/ LookLatest(r) \/ CopyBack(r) \/ CopyKilled(r) \/ Choose(r) \/ NothingToRestore(r)
                \/ KeepFile(r) \/ Cleanup(r)
         PROVE  LocalTypes'
    BY <1>13 DEF LookLatest, CopyBack, CopyKilled, Choose, NothingToRestore, KeepFile, Cleanup, LocalTypes,
       Steps, Ended, Goto
  <1>14. CASE Edit \/ Tick \/ UNCHANGED vars
    BY <1>14 DEF Edit, Tick, vars, LocalTypes
  <1> QED
    BY <1>1, <1>2, <1>3, <1>4, <1>5, <1>6, <1>8, <1>9, <1>10, <1>11, <1>12, <1>13, <1>14 DEF Next

VaultTypes == /\ secrets \subseteq Secret /\ aliases \in [Alias -> Secret \cup {None}]
              /\ assigned \subseteq Alias /\ spoiled \subseteq Alias

\* Which steps change the vault, the configuration and their history.
LEMMA VaultChangers ==
  ASSUME [Next]_vars
  PROVE  /\ \/ UNCHANGED <<secrets, aliases, assigned, spoiled>>
            \/ \E p \in Import : StoreSecret(p) \/ DropOld(p) \/ NameSecret(p) \/ SaveConfig(p)
            \/ \E u \in Uninstall : Cleanup(u)
  <1> USE DEF vault, history
  <1>1. ASSUME NEW p \in Import,
               \/ Scan(p) \/ LookAlias(p) \/ LoadSecrets(p) \/ LoadAliases(p) \/ LoadOld(p)
               \/ LoadConfig(p) \/ AssignAlias(p) \/ Backup(p) \/ BackupKilled(p)
               \/ ReadLines(p) \/ Replace(p) \/ Crash(p)
        PROVE  UNCHANGED <<secrets, aliases, assigned, spoiled>>
    BY <1>1 DEF Scan, LookAlias, LoadSecrets, LoadAliases, LoadOld, LoadConfig, AssignAlias, Backup,
       BackupKilled, ReadLines, Replace, Crash
  <1>2. ASSUME NEW r \in Restore \cup Uninstall,
               \/ LookLatest(r) \/ CopyBack(r) \/ CopyKilled(r) \/ Choose(r) \/ NothingToRestore(r)
               \/ KeepFile(r)
        PROVE  UNCHANGED <<secrets, aliases, assigned, spoiled>>
    BY <1>2 DEF LookLatest, CopyBack, CopyKilled, Choose, NothingToRestore, KeepFile
  <1>3. CASE Edit \/ Tick \/ UNCHANGED vars
    BY <1>3 DEF Edit, Tick, vars
  <1> QED
    BY <1>1, <1>2, <1>3 DEF Next

LEMMA NextVaultTypes ==
  ASSUME TInv, [Next]_vars
  PROVE  VaultTypes'
  <1> TypeOK /\ VaultTypes
    BY DEF TInv, TypeOK, VaultTypes
  <1> USE DotenvAssumption
  <1>1. ASSUME NEW p \in Import, pc[p] \in Before \cup After
        PROVE  SecretOf(p) \in Secret /\ Unseen(p) \subseteq Alias /\ AliasOf[name[p]] \in Alias
               /\ held[p] \in HeldFiles
    BY <1>1, BusyImported, SecretOfTyped DEF Unseen, Secret, TypeOK, HeldFiles
  <1>2. ASSUME NEW p \in Import, StoreSecret(p) PROVE VaultTypes'
    BY <1>1, <1>2 DEF StoreSecret, VaultTypes, Before, HeldFiles
  <1>3. ASSUME NEW p \in Import, DropOld(p) PROVE VaultTypes'
    BY <1>1, <1>3 DEF DropOld, VaultTypes, After, HeldFiles
  <1>4. ASSUME NEW p \in Import, NameSecret(p) PROVE VaultTypes'
    BY <1>1, <1>4 DEF NameSecret, VaultTypes, Before, HeldFiles
  <1>5. ASSUME NEW p \in Import, SaveConfig(p) PROVE VaultTypes'
    <2>1. Assigned(p) \subseteq Alias /\ held[p].config \subseteq Alias
      BY DEF Assigned, Imported, TypeOK
    <2> QED
      BY <1>5, <2>1 DEF SaveConfig, VaultTypes, vault
  <1>6. ASSUME NEW u \in Uninstall, Cleanup(u) PROVE VaultTypes'
    BY <1>6 DEF Cleanup, VaultTypes, vault, history
  <1>7. CASE UNCHANGED <<secrets, aliases, assigned, spoiled>>
    BY <1>7 DEF VaultTypes
  <1> QED
    BY <1>2, <1>3, <1>4, <1>5, <1>6, <1>7, VaultChangers

FileTypes ==
    /\ dotenv \in Content /\ meant \in Content /\ taken \in Content \cup {None} /\ exposed \subseteq Name
    /\ DOMAIN backups = Stamp /\ \A s \in Stamp : backups[s].content \in Content
    /\ mtime <= written /\ second \in Stamp /\ edits \in 0 .. MaxEdits /\ kills \in 0 .. MaxKills
    /\ Times /\ backups \in [Stamp -> BackupFile]

\* Which steps change the file, the backups, the counters and their history.
LEMMA FileChangers ==
  ASSUME [Next]_vars
  PROVE  \/ UNCHANGED <<file, backups, second, count, meant, taken, exposed>>
         \/ \E p \in Import : Backup(p) \/ BackupKilled(p) \/ Replace(p)
         \/ UNCHANGED <<file, backups, second, edits, meant, taken, exposed>> /\ Kill
         \/ \E r \in Restore \cup Uninstall : CopyBack(r) \/ CopyKilled(r)
         \/ Edit \/ Tick
  <1> USE DEF history
  <1>1. ASSUME NEW p \in Import,
               \/ Scan(p) \/ LookAlias(p) \/ LoadSecrets(p) \/ StoreSecret(p) \/ LoadAliases(p)
               \/ NameSecret(p) \/ LoadOld(p) \/ DropOld(p) \/ LoadConfig(p) \/ AssignAlias(p)
               \/ SaveConfig(p) \/ ReadLines(p)
        PROVE  UNCHANGED <<file, backups, second, count, meant, taken, exposed>>
    BY <1>1 DEF Scan, LookAlias, LoadSecrets, StoreSecret, LoadAliases, NameSecret, LoadOld, DropOld,
       LoadConfig, AssignAlias, SaveConfig, ReadLines
  <1>2. ASSUME NEW r \in Restore \cup Uninstall,
               LookLatest(r) \/ Choose(r) \/ NothingToRestore(r) \/ KeepFile(r) \/ Cleanup(r)
        PROVE  UNCHANGED <<file, backups, second, count, meant, taken, exposed>>
    BY <1>2 DEF LookLatest, Choose, NothingToRestore, KeepFile, Cleanup
  <1>3. ASSUME NEW p \in Import, Crash(p)
        PROVE  UNCHANGED <<file, backups, second, edits, meant, taken, exposed>> /\ Kill
    BY <1>3 DEF Crash
  <1>4. CASE UNCHANGED vars
    BY <1>4 DEF vars
  <1> QED
    BY <1>1, <1>2, <1>3, <1>4 DEF Next

LEMMA NextFileTypes ==
  ASSUME TInv, [Next]_vars
  PROVE  FileTypes'
  <1> TypeOK /\ Times /\ FileTypes
    BY DEF TInv, TypeOK, FileTypes
  <1> USE DotenvAssumption DEF file, count, Kill
  <1>0. \A q \in Stamp : backups[q].mtime \in Nat /\ backups[q].content \in Content
    BY DEF FileTypes, BackupFile
  <1>1. ASSUME NEW p \in Import, NEW c \in Content, NEW t \in Nat, t <= written', written' \in Nat, written <= written',
               backups' = [backups EXCEPT ![second] = [content |-> c, mtime |-> t]],
               UNCHANGED <<dotenv, mtime, second, edits, meant>>, kills' \in 0 .. MaxKills,
               taken' \in Content \cup {None}, exposed' = exposed \cup Dropped
        PROVE  FileTypes'
    <2>1. /\ backups' \in [Stamp -> BackupFile]
          /\ DOMAIN backups' = Stamp /\ \A s \in Stamp : backups'[s].content \in Content
          /\ \A s \in Stamp : backups'[s].mtime <= written'
      BY <1>1, BackupTypes
    <2> QED
      BY <1>1, <2>1 DEF FileTypes, Times, Dropped
  <1>2. ASSUME NEW p \in Import, Backup(p) PROVE FileTypes'
    <2>1. dotenv \in Content /\ mtime \in Nat /\ mtime <= written' /\ written' = written
      BY <1>2 DEF Backup, FileTypes, Times
    <2> DEFINE c == dotenv
               t == mtime
    <2>2. /\ c \in Content /\ t \in Nat /\ t <= written' /\ written' \in Nat /\ written <= written'
          /\ backups' = [backups EXCEPT ![second] = [content |-> c, mtime |-> t]]
      BY <1>2, <2>1 DEF Backup, Times
    <2> HIDE DEF c, t
    <2>3. UNCHANGED <<dotenv, mtime, second, edits, meant>> /\ kills' \in 0 .. MaxKills
      BY <1>2 DEF Backup, FileTypes
    <2>4. taken' \in Content \cup {None} /\ exposed' = exposed \cup Dropped
      BY <1>2, <2>1 DEF Backup
    <2> QED
      BY <1>1, <2>2, <2>3, <2>4
  <1>3. ASSUME NEW p \in Import, BackupKilled(p) PROVE FileTypes'
    <2>1. PICK k \in Name \cup {0} :
             backups' = [backups EXCEPT ![second] = [content |-> Cut(dotenv, k), mtime |-> written + 1]]
      BY <1>3 DEF BackupKilled
    <2> DEFINE c == Cut(dotenv, k)
    <2>2. c \in Content
      BY CutContent DEF FileTypes
    <2>3. written' = written + 1 /\ written \in Nat
      BY <1>3 DEF BackupKilled, Times
    <2> HIDE DEF c
    <2>4. UNCHANGED <<dotenv, mtime, second, edits, meant>> /\ kills' \in 0 .. MaxKills
          /\ taken' = None /\ exposed' = exposed \cup Dropped
      BY <1>3 DEF BackupKilled, FileTypes
    <2>5. /\ backups' = [backups EXCEPT ![second] = [content |-> c, mtime |-> written + 1]]
          /\ written + 1 \in Nat /\ written + 1 <= written' /\ written <= written' /\ written' \in Nat
      BY <2>1, <2>3 DEF c
    <2> QED
      BY <1>1, <2>2, <2>4, <2>5
  <1>4. ASSUME NEW c \in Content, Write(c), meant' \in Content, taken' \in Content \cup {None}, exposed' \subseteq Name,
               UNCHANGED <<backups, second>>, edits' \in 0 .. MaxEdits, kills' \in 0 .. MaxKills
        PROVE  FileTypes'
    BY <1>0, <1>4 DEF Write, FileTypes, Times
  <1>5. ASSUME NEW p \in Import, Replace(p) PROVE FileTypes'
    BY <1>4, <1>5, RewrittenContent DEF Replace, FileTypes, history
  <1>6. ASSUME NEW r \in Restore \cup Uninstall, CopyBack(r) PROVE FileTypes'
    <2>1. pick[r] \in Stamp /\ Exists(pick[r])
      BY <1>6 DEF CopyBack, TInv, Picked
    <2>2. dotenv' \in Content /\ meant' \in Content /\ mtime' \in Nat \ {0} /\ mtime' <= written
      BY <1>0, <1>6, <2>1, RestoredContent DEF CopyBack, Exists, FileTypes, Times
    <2> QED
      BY <1>6, <2>2 DEF CopyBack, FileTypes, Times, Taking
  <1>7. ASSUME NEW r \in Restore \cup Uninstall, CopyKilled(r) PROVE FileTypes'
    <2>1. pick[r] \in Stamp
      BY <1>7 DEF CopyKilled, TInv, Picked
    <2>2. PICK k \in Name \cup {0} : Write(Cut(backups[pick[r]].content, k))
      BY <1>7 DEF CopyKilled
    <2>3. Cut(backups[pick[r]].content, k) \in Content /\ meant' \in Content
      BY <1>0, <1>7, <2>1, CutContent, RestoredContent DEF CopyKilled
    <2> DEFINE c == Cut(backups[pick[r]].content, k)
    <2>4. taken' = None /\ exposed' \subseteq Name /\ UNCHANGED <<backups, second>>
      BY <1>7 DEF CopyKilled, FileTypes, Taking
    <2>6. edits' \in 0 .. MaxEdits /\ kills' \in 0 .. MaxKills
      BY <1>7 DEF CopyKilled, FileTypes
    <2>5. c \in Content /\ Write(c)
      BY <2>2, <2>3
    <2> HIDE DEF c
    <2> QED
      BY <1>4, <2>3, <2>4, <2>5, <2>6
  <1>8. CASE Edit
    <2>1. PICK n \in Name, v \in Real : Edit!2!(n, v)
      BY <1>8 DEF Edit
    <2>2. [dotenv EXCEPT ![n] = v] \in Content /\ meant' \in Content
      BY <2>1 DEF FileTypes, Content, Value
    <2> DEFINE c == [dotenv EXCEPT ![n] = v]
    <2>3. c \in Content /\ Write(c)
      BY <2>1, <2>2
    <2>4. taken' \in Content \cup {None} /\ exposed' \subseteq Name /\ UNCHANGED <<backups, second>>
      BY <1>8, <2>1 DEF Edit, FileTypes
    <2>5. edits' \in 0 .. MaxEdits /\ kills' \in 0 .. MaxKills
      BY <1>8 DEF Edit, FileTypes
    <2> HIDE DEF c
    <2> QED
      BY <1>4, <2>2, <2>3, <2>4, <2>5
  <1>9. CASE Tick
    BY <1>9 DEF Tick, FileTypes, Times, Stamp, history
  <1>10. CASE UNCHANGED <<file, backups, second, edits, meant, taken, exposed>> /\ kills' \in 0 .. MaxKills
    BY <1>10 DEF FileTypes, Times
  <1>11. Kill => kills' \in 0 .. MaxKills
    BY DEF FileTypes
  <1> QED
    BY <1>2, <1>3, <1>5, <1>6, <1>7, <1>8, <1>9, <1>10, <1>11, FileChangers DEF FileTypes

\* Import p does nothing, ends, or takes a step of its own.
Idle(p) == /\ pc'[p] = pc[p] /\ found'[p] = found[p] /\ lines'[p] = lines[p] /\ todo'[p] = todo[p]
           /\ name'[p] = name[p] /\ old'[p] = old[p] /\ held'[p] = held[p]
Gone(p) == /\ pc'[p] \in Ended /\ found'[p] = Empty /\ lines'[p] = Empty /\ todo'[p] = {}
           /\ name'[p] = None /\ old'[p] = None /\ held'[p] = NothingHeld
Acts(p) ==
    \/ Scan(p) \/ LookAlias(p) \/ LoadSecrets(p) \/ StoreSecret(p) \/ LoadAliases(p) \/ NameSecret(p)
    \/ LoadOld(p) \/ DropOld(p) \/ LoadConfig(p)
    \/ AssignAlias(p) /\ UNCHANGED <<pc, found, name, old, held, lines>>
    \/ SaveConfig(p) /\ (\E next \in {"rewrite", "backup"} : Goto(p, next)) /\ UNCHANGED locals
    \/ Backup(p) \/ ReadLines(p)

LEMMA Stepwise ==
  ASSUME LocalTypes, [Next]_vars, NEW q \in Import
  PROVE  Idle(q) \/ Gone(q) \/ Acts(q)
  <1> USE DotenvAssumption
  <1> q \in Proc
    BY DEF Proc
  <1>1. ASSUME NEW p \in Import, NEW l \in Ended, Leave(p, l) PROVE Idle(q) \/ Gone(q)
    BY <1>1 DEF Leave, Goto, Idle, Gone, LocalTypes
  <1>2. ASSUME NEW p \in Import, p # q,
               \/ Scan(p) \/ LookAlias(p) \/ ReadLines(p) \/ Backup(p)
        PROVE  Idle(q)
    BY <1>2 DEF Scan, LookAlias, ReadLines, Backup, locals, Goto, Idle, LocalTypes
  <1>3. ASSUME NEW p \in Import, p # q,
               LoadSecrets(p) \/ StoreSecret(p) \/ LoadAliases(p)
        PROVE  Idle(q)
    BY <1>3 DEF LoadSecrets, StoreSecret, LoadAliases, Goto, Idle, LocalTypes
  <1>4. ASSUME NEW p \in Import, p # q, NameSecret(p) \/ LoadOld(p) \/ DropOld(p) \/ LoadConfig(p)
        PROVE  Idle(q)
    BY <1>4 DEF NameSecret, LoadOld, DropOld, LoadConfig, Goto, Idle, LocalTypes
  <1>5. ASSUME NEW p \in Import, AssignAlias(p) PROVE Idle(q) \/ Gone(q) \/ Acts(q)
    <2>1. CASE Leave(p, "failed")
      BY <1>1, <2>1 DEF Ended
    <2>2. CASE ~Leave(p, "failed")
      <3>1. UNCHANGED <<pc, found, name, old, held, lines>> /\ \E n : todo' = [todo EXCEPT ![p] = @ \ {n}]
        BY <1>5, <2>2 DEF AssignAlias
      <3>2. p # q => Idle(q)
        BY <3>1 DEF Idle, LocalTypes
      <3> QED
        BY <1>5, <3>1, <3>2 DEF Acts
    <2> QED
      BY <2>1, <2>2
  <1>6. ASSUME NEW p \in Import, SaveConfig(p) PROVE Idle(q) \/ Gone(q) \/ Acts(q)
    <2>1. CASE Leave(p, "done")
      BY <1>1, <2>1 DEF Ended
    <2>2. CASE ~Leave(p, "done")
      <3>1. (\E next \in {"rewrite", "backup"} : Goto(p, next)) /\ UNCHANGED locals
        BY <1>6, <2>2 DEF SaveConfig, AfterAssign
      <3>2. p # q => Idle(q)
        BY <3>1 DEF Idle, LocalTypes, Goto, locals
      <3> QED
        BY <1>6, <3>1, <3>2 DEF Acts
    <2> QED
      BY <2>1, <2>2
  <1>7. ASSUME NEW p \in Import, BackupKilled(p) \/ Replace(p) \/ Crash(p) PROVE Idle(q) \/ Gone(q)
    BY <1>1, <1>7 DEF BackupKilled, Replace, Crash, Ended
  <1>8. ASSUME NEW r \in Restore \cup Uninstall,
               \/ LookLatest(r) \/ CopyBack(r) \/ CopyKilled(r) \/ Choose(r) \/ NothingToRestore(r)
               \/ KeepFile(r) \/ Cleanup(r)
        PROVE  Idle(q)
    BY <1>8 DEF LookLatest, CopyBack, CopyKilled, Choose, NothingToRestore, KeepFile, Cleanup, locals,
       Goto, Idle, LocalTypes
  <1>9. CASE Edit \/ Tick \/ UNCHANGED vars
    BY <1>9 DEF Edit, Tick, vars, locals, Idle
  <1> QED
    BY <1>2, <1>3, <1>4, <1>5, <1>6, <1>7, <1>8, <1>9 DEF Next, Acts

\* The steps of an import, and a restore or an uninstall that ends, pick no backup.
LEMMA NextPickTyped ==
  ASSUME TInv, [Next]_vars
  PROVE  pick' \in [Restore \cup Uninstall -> Stamp \cup {None}]
  <1> DEFINE Goal == pick' \in [Restore \cup Uninstall -> Stamp \cup {None}]
  <1> pick \in [Restore \cup Uninstall -> Stamp \cup {None}]
    BY DEF TInv, TypeOK
  <1>1. ASSUME NEW p \in Import,
               \/ Scan(p) \/ LookAlias(p) \/ LoadSecrets(p) \/ StoreSecret(p) \/ LoadAliases(p)
               \/ NameSecret(p) \/ LoadOld(p) \/ DropOld(p) \/ LoadConfig(p)
        PROVE  Goal
    BY <1>1 DEF Scan, LookAlias, LoadSecrets, StoreSecret, LoadAliases, NameSecret, LoadOld, DropOld, LoadConfig
  <1>2. ASSUME NEW p \in Import,
               \/ AssignAlias(p) \/ SaveConfig(p) \/ Backup(p) \/ BackupKilled(p) \/ ReadLines(p)
               \/ Replace(p) \/ Crash(p)
        PROVE  Goal
    BY <1>2 DEF AssignAlias, SaveConfig, Backup, BackupKilled, ReadLines, Replace, Crash
  <1>3. ASSUME NEW r \in Restore \cup Uninstall, LookLatest(r) \/ Choose(r) PROVE Goal
    <2>1. PICK s \in Stamp : pick' = [pick EXCEPT ![r] = s]
      BY <1>3, LatestExists DEF LookLatest, Choose
    <2> QED
      BY <2>1
  <1>4. ASSUME NEW r \in Restore \cup Uninstall,
               CopyBack(r) \/ CopyKilled(r) \/ KeepFile(r) \/ NothingToRestore(r) \/ Cleanup(r)
        PROVE  Goal
    BY <1>4 DEF CopyBack, CopyKilled, KeepFile, NothingToRestore, Cleanup
  <1>5. CASE Edit \/ Tick \/ UNCHANGED vars
    BY <1>5 DEF Edit, Tick, vars
  <1> QED
    BY <1>1, <1>2, <1>3, <1>4, <1>5 DEF Next

LEMMA NextPicked ==
  ASSUME TInv, [Next]_vars, NEW r \in Restore \cup Uninstall
  PROVE  Picked(r)'
  <1> pick \in [Restore \cup Uninstall -> Stamp \cup {None}] /\ Picked(r) /\ LocalTypes /\ r \in Proc
    BY DEF TInv, TypeOK, LocalTypes, HeldFiles, Proc
  <1> USE DotenvAssumption
  <1>1. ASSUME NEW s \in Stamp, Exists(s) PROVE Exists(s)'
    <2>1. CASE backups' = backups
      BY <1>1, <2>1 DEF Exists
    <2>2. ASSUME NEW p \in Import, Backup(p) \/ BackupKilled(p) PROVE Exists(s)'
      <3>1. mtime > 0 /\ written + 1 > 0
        BY DEF TInv, Times
      <3> QED
        BY <1>1, <2>2, <3>1 DEF Backup, BackupKilled, Exists, TInv, BackupFile
    <2> QED
      BY <2>1, <2>2, FileChangers DEF Replace, CopyBack, CopyKilled, Edit, Tick
  <1>2. ASSUME pick' = pick, pc'[r] = pc[r] \/ pc'[r] \notin {"copy", "ask"}
        PROVE  Picked(r)'
    BY <1>1, <1>2 DEF Picked
  <1>3. ASSUME NEW p \in Import, NEW l, Goto(p, l) PROVE pc'[r] = pc[r]
    BY <1>3 DEF Goto, LocalTypes
  <1>4. ASSUME NEW p \in Import,
               \/ Scan(p) \/ LookAlias(p) \/ LoadSecrets(p) \/ StoreSecret(p) \/ LoadAliases(p)
               \/ NameSecret(p) \/ LoadOld(p) \/ DropOld(p) \/ LoadConfig(p) \/ AssignAlias(p)
               \/ SaveConfig(p) \/ Backup(p) \/ BackupKilled(p) \/ ReadLines(p) \/ Replace(p) \/ Crash(p)
        PROVE  pick' = pick /\ (pc' = pc \/ \E l : Goto(p, l))
    <2>1. CASE \/ Scan(p) \/ LookAlias(p) \/ LoadSecrets(p) \/ StoreSecret(p) \/ LoadAliases(p)
               \/ NameSecret(p) \/ LoadOld(p) \/ DropOld(p) \/ LoadConfig(p)
      BY <2>1 DEF Scan, LookAlias, LoadSecrets, StoreSecret, LoadAliases, NameSecret, LoadOld, DropOld, LoadConfig
    <2>2. CASE \/ AssignAlias(p) \/ SaveConfig(p) \/ Backup(p) \/ BackupKilled(p) \/ ReadLines(p)
               \/ Replace(p) \/ Crash(p)
      BY <2>2 DEF AssignAlias, SaveConfig, AfterAssign, Backup, BackupKilled, ReadLines, Replace, Crash, Leave
    <2> QED
      BY <1>4, <2>1, <2>2
  <1>5. ASSUME NEW q \in Restore \cup Uninstall, LookLatest(q) \/ Choose(q)
        PROVE  Picked(r)'
    <2>1. PICK s \in Stamp : Exists(s) /\ pick' = [pick EXCEPT ![q] = s]
      BY <1>5, LatestExists DEF LookLatest, Choose
    <2>2. backups' = backups /\ \E l : Goto(q, l)
      BY <1>5 DEF LookLatest, Choose
    <2> QED
      BY <1>1, <2>1, <2>2 DEF Picked, Goto, LocalTypes
  <1>6. ASSUME NEW q \in Restore \cup Uninstall,
               CopyBack(q) \/ CopyKilled(q) \/ KeepFile(q)
        PROVE  Picked(r)'
    <2>1. backups' = backups /\ pick' = [pick EXCEPT ![q] = None] /\ \E l \in {"done", "cleanup", "dead"} : Goto(q, l)
      BY <1>6 DEF CopyBack, CopyKilled, KeepFile
    <2> QED
      BY <1>1, <2>1 DEF Picked, Goto, LocalTypes
  <1>7. ASSUME NEW q \in Restore \cup Uninstall, NothingToRestore(q) \/ Cleanup(q)
        PROVE  pick' = pick /\ \E l \in {"failed", "uninstalled"} : Goto(q, l)
    BY <1>7 DEF NothingToRestore, Cleanup
  <1>8. CASE Edit \/ Tick \/ UNCHANGED vars
    BY <1>2, <1>8 DEF Edit, Tick, vars
  <1>9. ASSUME NEW q \in Restore \cup Uninstall, NothingToRestore(q) \/ Cleanup(q)
        PROVE  Picked(r)'
    BY <1>2, <1>7, <1>9 DEF Goto, LocalTypes
  <1>10. ASSUME NEW p \in Import, pick' = pick, pc' = pc \/ \E l : Goto(p, l) PROVE Picked(r)'
    BY <1>2, <1>3, <1>10
  <1> QED
    BY <1>4, <1>5, <1>6, <1>8, <1>9, <1>10 DEF Next

LEMMA NextWorked ==
  ASSUME TInv, [Next]_vars, NEW p \in Import
  PROVE  Worked(p)'
  <1> LocalTypes /\ LocalTypes' /\ Worked(p) /\ p \in Proc /\ TypeOK
    BY NextLocalTypes DEF TInv, TypeOK, LocalTypes, HeldFiles, Proc
  <1> USE DotenvAssumption DEF Before, After
  <1>1. CASE Idle(p)
    BY <1>1 DEF Idle, Worked, Imported
  <1>2. CASE Gone(p)
    BY <1>2 DEF Gone, Worked, Ended
  <1>3. CASE Scan(p)
    BY <1>3 DEF Scan, Worked, Imported, Discoverable, LocalTypes, Goto
  <1>4. CASE LookAlias(p)
    <2>1. PICK n \in todo[p] : name' = [name EXCEPT ![p] = n]
      BY <1>4 DEF LookAlias, First
    <2>2. name'[p] \in todo'[p] /\ todo'[p] = todo[p] /\ found' = found /\ pc'[p] = "secrets"
      BY <1>4, <2>1 DEF LookAlias, LocalTypes, Goto
    <2> QED
      BY <2>2 DEF Worked, Imported
  <1>5. CASE LoadSecrets(p) \/ StoreSecret(p) \/ LoadAliases(p)
    BY <1>5 DEF LoadSecrets, StoreSecret, LoadAliases, Worked, Imported, LocalTypes, Goto
  <1>6. CASE NameSecret(p)
    <2>1. /\ todo' = [todo EXCEPT ![p] = @ \ {name[p]}] /\ UNCHANGED <<found, name, old>> /\ pc[p] = "name"
          /\ pc'[p] = IF old[p] = None THEN NextName(p) ELSE "old"
      BY <1>6 DEF NameSecret, LocalTypes, Goto
    <2>2. NextName(p) = "config" => todo[p] \subseteq {name[p]}
      BY DEF NextName
    <2>3. NextName(p) \in {"config", "look"}
      BY DEF NextName
    <2> QED
      BY <2>1, <2>2, <2>3 DEF Worked, Imported, LocalTypes
  <1>7. CASE LoadOld(p) \/ DropOld(p)
    <2>1. UNCHANGED <<todo, found, name, old>> /\ pc[p] \in After /\ pc'[p] \in {"drop", NextName(p)}
      BY <1>7 DEF LoadOld, DropOld, LocalTypes, Goto
    <2>2. NextName(p) = "config" => todo[p] \subseteq {name[p]}
      BY DEF NextName
    <2>3. NextName(p) \in {"config", "look"}
      BY DEF NextName
    <2> QED
      BY <2>1, <2>2, <2>3 DEF Worked, Imported
  <1>8. CASE LoadConfig(p)
    BY <1>8 DEF LoadConfig, Worked, Imported, LocalTypes, Goto
  <1>9. CASE AssignAlias(p) /\ UNCHANGED <<pc, found, name, old, held, lines>>
    <2>1. todo'[p] \subseteq todo[p] /\ pc[p] = "assign" /\ UNCHANGED <<pc, found, name, old>>
      <3>1. \E n : Leave(p, "failed") \/ todo' = [todo EXCEPT ![p] = @ \ {n}]
        BY <1>9 DEF AssignAlias
      <3> QED
        BY <1>9, <3>1 DEF AssignAlias, Leave, LocalTypes
    <2> QED
      BY <2>1 DEF Worked, Imported
  <1>10. CASE SaveConfig(p) /\ (\E next \in {"rewrite", "backup"} : Goto(p, next)) /\ UNCHANGED locals
    BY <1>10 DEF Worked, Imported, locals, Goto, LocalTypes
  <1>11. CASE Backup(p) \/ ReadLines(p)
    BY <1>11 DEF Backup, ReadLines, Worked, Imported, locals, Goto, LocalTypes
  <1> QED
    BY <1>1, <1>2, <1>3, <1>4, <1>5, <1>6, <1>7, <1>8, <1>9, <1>10, <1>11, Stepwise DEF Acts

LEMMA InitTInv == Init => TInv
  <1> SUFFICES ASSUME Init PROVE TInv
    OBVIOUS
  <1> USE DotenvAssumption
  <1>1. NothingHeld \in HeldFiles /\ NoAliases \in [Alias -> Secret \cup {None}] /\ Empty \in Content
    BY DEF NothingHeld, HeldFiles, NoAliases, Empty, Content, Value
  <1>2. dotenv \in Content
    BY DEF Init, Content, Value
  <1>3. backups \in [Stamp -> BackupFile] /\ \A s \in Stamp : backups[s].mtime = 0 /\ backups[s].content \in Content
    BY <1>1 DEF Init, BackupFile, NoBackupFile
  <1>4. TypeOK
    <2>1. /\ dotenv \in Content /\ meant \in Content /\ taken \in Content \cup {None}
          /\ exposed \subseteq Name /\ spoiled \subseteq Alias
          /\ secrets \subseteq Secret /\ aliases \in [Alias -> Secret \cup {None}] /\ assigned \subseteq Alias
      BY <1>1, <1>2 DEF Init
    <2>2. pc \in [Proc -> Ended \cup Steps] /\ pick \in [Restore \cup Uninstall -> Stamp \cup {None}]
      BY DEF Init, Steps
    <2>3. /\ found \in [Import -> Content] /\ lines \in [Import -> Content]
          /\ todo \in [Import -> SUBSET Name] /\ name \in [Import -> Name \cup {None}]
          /\ old \in [Import -> Secret \cup {None}] /\ held \in [Import -> HeldFiles]
      BY <1>1 DEF Init
    <2>4. mtime <= written /\ second \in Stamp /\ edits \in 0 .. MaxEdits /\ kills \in 0 .. MaxKills
      BY DEF Init, Stamp
    <2> QED
      BY <1>3, <2>1, <2>2, <2>3, <2>4 DEF TypeOK, HeldFiles
  <1>5. Times
    BY <1>3 DEF Init, Times
  <1>6. \A p \in Import : Worked(p)
    BY DEF Init, Worked, Before, After, Proc
  <1>7. \A r \in Restore \cup Uninstall : Picked(r)
    BY DEF Init, Picked, Proc
  <1> QED
    BY <1>3, <1>4, <1>5, <1>6, <1>7 DEF TInv

LEMMA NextTInv == TInv /\ [Next]_vars => TInv'
  <1> SUFFICES ASSUME TInv, [Next]_vars PROVE TInv'
    OBVIOUS
  <1>1. LocalTypes' /\ VaultTypes' /\ FileTypes'
    BY NextLocalTypes, NextVaultTypes, NextFileTypes
  <1>2. (\A r \in Restore \cup Uninstall : Picked(r))' /\ (\A p \in Import : Worked(p))'
    BY NextPicked, NextWorked
  <1>3. pick' \in [Restore \cup Uninstall -> Stamp \cup {None}]
    BY NextPickTyped
  <1> QED
    BY <1>1, <1>2, <1>3 DEF TInv, TypeOK, LocalTypes, HeldFiles, VaultTypes, FileTypes

LEMMA Typed == Spec => []TInv
  BY InitTInv, NextTInv, PTL DEF Spec

\* Types are kept, for any file, processes and bounds.
THEOREM TypeCorrect == Spec => []TypeOK
  BY Typed, PTL DEF TInv
-----------------------------------------------------------------------------
(* The order of the backups.                                               *)

Newest(s) ==
    /\ Exists(s)
    /\ \A o \in Stamp : Exists(o) =>
          \/ backups[o].mtime < backups[s].mtime
          \/ backups[o].mtime = backups[s].mtime /\ o <= s
\* No backup is newer than the file it would be compared with, or from the future,
\* until a copy is killed or an older backup put back; the newest is the last taken.
Ordered == taken # None =>
    /\ \A s \in Stamp : Exists(s) => s <= second /\ backups[s].mtime <= mtime
    /\ \A s \in Stamp : Newest(s) => backups[s].content = taken

LEMMA LatestNewest ==
  ASSUME TInv, NEW s \in Stamp, Exists(s)
  PROVE  Latest \in Stamp /\ Newest(Latest)
  BY LatestExists DEF Newest

\* A file that only gets newer, while the backups stay, keeps the order.
LEMMA StillOrdered ==
  ASSUME TInv, TInv', Ordered, backups' = backups, taken' \in {taken, None},
         second <= second', mtime <= mtime' \/ \E s \in Stamp : Exists(s) /\ mtime' = backups[Latest].mtime
  PROVE  Ordered'
  <1> SUFFICES ASSUME taken # None, taken' = taken PROVE Ordered'
    BY DEF Ordered
  <1>1. \A s \in Stamp : s \in Nat /\ second \in Nat /\ second' \in Nat /\ backups[s].mtime \in Nat
                         /\ mtime \in Nat /\ mtime' \in Nat
    BY DotenvAssumption DEF TInv, TypeOK, Times, BackupFile, Stamp
  <1>2. ASSUME NEW s \in Stamp, Exists(s) PROVE s <= second' /\ backups[s].mtime <= mtime'
    <2>1. s <= second /\ backups[s].mtime <= mtime
      BY <1>2 DEF Ordered
    <2>2. ASSUME mtime' = backups[Latest].mtime PROVE backups[s].mtime <= mtime'
      BY <1>1, <1>2, <2>2, LatestExists
    <2> QED
      BY <1>1, <2>1, <2>2
  <1>3. \A s \in Stamp : (Exists(s) <=> Exists(s)') /\ (Newest(s) <=> Newest(s)')
    BY DEF Exists, Newest
  <1> QED
    BY <1>2, <1>3 DEF Ordered

\* A copy of the file as it is now is the newest backup.
LEMMA BackupOrdered ==
  ASSUME TInv, Ordered, NEW p \in Import, Backup(p)
  PROVE  Ordered'
  <1> SUFFICES ASSUME taken # None PROVE Ordered'
    BY DEF Ordered, Backup
  <1>1. /\ second \in Stamp /\ mtime \in Nat \ {0}
        /\ \A s \in Stamp : s \in Nat /\ backups[s].mtime \in Nat
    BY DotenvAssumption DEF TInv, TypeOK, Times, BackupFile, Stamp
  <1>2. /\ backups'[second] = [content |-> dotenv, mtime |-> mtime]
        /\ \A s \in Stamp \ {second} : backups'[s] = backups[s]
        /\ taken' = dotenv /\ mtime' = mtime /\ second' = second
    BY <1>1 DEF Backup, TInv, file
  <1>3. \A s \in Stamp : Exists(s)' => s <= second /\ backups'[s].mtime <= mtime
    BY <1>1, <1>2 DEF Ordered, Exists
  <1>4. backups'[second].mtime > 0
    BY <1>1, <1>2
  <1>5. ASSUME NEW s \in Stamp, Newest(s)' PROVE s = second
    <2>1. s <= second /\ backups'[s].mtime <= mtime
      BY <1>3, <1>5 DEF Newest
    <2>2. \A o \in Stamp : backups'[o].mtime > 0 => backups'[o].mtime < backups'[s].mtime \/ o <= s
      BY <1>5 DEF Newest, Exists
    <2>4. backups'[second].mtime < backups'[s].mtime \/ second <= s
      BY <1>1, <1>4, <2>2
    <2>3. backups'[second].mtime = mtime /\ backups'[s].mtime \in Nat
      BY <1>1, <1>2
    <2> QED
      BY <1>1, <2>1, <2>3, <2>4
  <1> QED
    BY <1>2, <1>3, <1>5 DEF Ordered

\* The steps that take a backup or write the file, and what they leave of the order.
LEMMA NextOrdered ==
  ASSUME TInv, Ordered, [Next]_vars
  PROVE  Ordered'
  <1> TInv'
    BY NextTInv
  <1> USE DotenvAssumption DEF file, history
  <1> mtime \in Nat /\ written \in Nat /\ mtime <= written /\ second \in Nat
    BY DEF TInv, TypeOK, Times, Stamp
  <1>1. ASSUME NEW p \in Import, Backup(p) PROVE Ordered'
    BY <1>1, BackupOrdered
  <1>2. ASSUME NEW p \in Import, Replace(p) PROVE Ordered'
    BY <1>2, StillOrdered DEF Replace, Write
  <1>3. ASSUME taken' = None PROVE Ordered'
    BY <1>3 DEF Ordered
  <1>4. ASSUME NEW r \in Restore \cup Uninstall, CopyBack(r) PROVE Ordered'
    <2>1. CASE pick[r] = Latest
      <3>1. pick[r] \in Stamp /\ Exists(pick[r])
        BY <1>4 DEF CopyBack, TInv, Picked
      <3>2. taken' = taken /\ backups' = backups /\ second' = second /\ mtime' = backups[Latest].mtime
        BY <1>4, <2>1 DEF CopyBack
      <3> QED
        BY <2>1, <3>1, <3>2, StillOrdered
    <2>2. CASE pick[r] # Latest
      BY <1>3, <1>4, <2>2 DEF CopyBack
    <2> QED
      BY <2>1, <2>2
  <1>5. CASE Edit
    BY <1>5, StillOrdered DEF Edit, Write
  <1>6. CASE Tick
    BY <1>6, StillOrdered DEF Tick
  <1>7. ASSUME UNCHANGED <<backups, taken, second, mtime>> PROVE Ordered'
    BY <1>7, StillOrdered
  <1>8. ASSUME NEW p \in Import, BackupKilled(p) PROVE Ordered'
    BY <1>3, <1>8 DEF BackupKilled
  <1>9. ASSUME NEW r \in Restore \cup Uninstall, CopyKilled(r) PROVE Ordered'
    BY <1>3, <1>9 DEF CopyKilled
  <1> QED
    BY <1>1, <1>2, <1>4, <1>5, <1>6, <1>7, <1>8, <1>9, FileChangers

\* Until a copy is killed or puts back a backup that is not the latest, `secrets restore`
\* and `uninstall` look up the last backup taken: a modification time put back with a
\* file is the greatest of the backups', so the times never run backwards.
\* (core/dotenv_backups.py:34)
THEOREM RestoresTakenHolds == Spec => RestoresTaken
  <1>1. Init => Ordered
    BY DEF Init, Ordered, Exists, Newest, NoBackupFile
  <1>2. TInv /\ Ordered /\ [Next]_vars => Ordered'
    BY NextOrdered
  <1>3. TInv /\ Ordered /\ [Next]_vars =>
            [\A r \in Restore \cup Uninstall :
                LookLatest(r) /\ taken # None => backups[pick'[r]].content = taken]_vars
    <2> SUFFICES ASSUME TInv, Ordered, NEW r \in Restore \cup Uninstall, LookLatest(r), taken # None
                 PROVE  backups[pick'[r]].content = taken
      OBVIOUS
    <2>1. Latest \in Stamp /\ Newest(Latest) /\ pick'[r] = Latest
      BY LatestNewest DEF LookLatest, TInv, TypeOK
    <2> QED
      BY <2>1 DEF Ordered
  <1> QED
    BY <1>1, <1>2, <1>3, Typed, PTL DEF Spec, RestoresTaken
-----------------------------------------------------------------------------
(* The vault under imports that overlap.                                   *)

\* aliases.json does not name yet the secret import p makes for name n.
Unnamed(p, n) == pc[p] = "start" \/ (pc[p] \in {"look"} \cup Before \cup After /\ n \in todo[p])
\* An entry of alias a names a secret that was made for a, and was named before.
Fits(a, i) == i # None => AliasOf[i.name] = a /\ ~Unnamed(i.import, i.name)
Entries == \A a \in Alias :
    /\ Fits(a, aliases[a])
    /\ \A q \in Import : Fits(a, held[q].aliases[a])
Olds(q) == old[q] # None => name[q] \in Name /\ Fits(AliasOf[name[q]], old[q])
\* The secret an import is about to delete is no longer the one of its alias.
OldGone(q) == pc[q] \in After /\ AliasOf[name[q]] \notin spoiled => aliases[AliasOf[name[q]]] # old[q]
\* The secret an import is about to name is in the vault.
Stored(q) == pc[q] \in {"aliases", "name"} /\ AliasOf[name[q]] \notin spoiled => SecretOf(q) \in secrets
Named(a) == a \notin spoiled /\ aliases[a] # None => aliases[a] \in secrets /\ aliases[a].value \in Real
VInv ==
    /\ Entries
    /\ \A q \in Import : Olds(q) /\ OldGone(q) /\ Stored(q)
    /\ \A a \in Alias : Named(a)

\* What a step does to the entries of an alias it does not spoil.
Moved(a) ==
    \/ aliases'[a] = aliases[a]
    \/ \E p \in Import : /\ NameSecret(p) /\ a = AliasOf[name[p]] /\ aliases'[a] = SecretOf(p)
                         /\ found[p][name[p]] \in Real
Kept(i) == i \in secrets' \/ \E p \in Import : DropOld(p) /\ i = old[p]
VaultMoves ==
    /\ spoiled \subseteq spoiled'
    /\ \A a \in Alias \ spoiled' : Moved(a)
    /\ \A i \in secrets : AliasOf[i.name] \notin spoiled' => Kept(i)

LEMMA VaultStep ==
  ASSUME TInv, [Next]_vars
  PROVE  VaultMoves
  <1> TypeOK /\ LocalTypes
    BY DEF TInv, TypeOK, LocalTypes, HeldFiles
  <1>1. ASSUME NEW p \in Import, StoreSecret(p) PROVE VaultMoves
    <2>1. secrets' = held[p].secrets \cup {SecretOf(p)} /\ spoiled' = spoiled \cup Unseen(p) /\ aliases' = aliases
      BY <1>1 DEF StoreSecret
    <2> QED
      BY <2>1 DEF Unseen, VaultMoves, Moved, Kept
  <1>2. ASSUME NEW p \in Import, DropOld(p) PROVE VaultMoves
    <2>1. secrets' = held[p].secrets \ {old[p]} /\ spoiled' = spoiled \cup Unseen(p) /\ aliases' = aliases
      BY <1>2 DEF DropOld
    <2> QED
      BY <1>2, <2>1 DEF Unseen, VaultMoves, Moved, Kept
  <1>3. ASSUME NEW p \in Import, NameSecret(p) PROVE VaultMoves
    <2> DEFINE a == AliasOf[name[p]]
    <2>1. /\ secrets' = secrets /\ aliases' = [held[p].aliases EXCEPT ![a] = SecretOf(p)]
          /\ spoiled' = spoiled \cup {b \in Alias \ {a} : aliases[b] /= held[p].aliases[b]}
                                \cup (IF found[p][name[p]] \in Real THEN {} ELSE {a})
      BY <1>3 DEF NameSecret
    <2>2. held[p].aliases \in [Alias -> Secret \cup {None}]
      BY DEF TypeOK
    <2>3. \A b \in Alias \ spoiled' : b # a => aliases'[b] = aliases[b]
      BY <2>1, <2>2
    <2>4. a \in Alias \ spoiled' => aliases'[a] = SecretOf(p) /\ found[p][name[p]] \in Real
      BY <2>1, <2>2
    <2>5. spoiled \subseteq spoiled' /\ \A i \in secrets : i \in secrets'
      BY <2>1
    <2> QED
      BY <1>3, <2>3, <2>4, <2>5 DEF VaultMoves, Moved, Kept
  <1>4. ASSUME NEW p \in Import, SaveConfig(p) PROVE VaultMoves
    BY <1>4 DEF SaveConfig, vault, VaultMoves, Moved, Kept
  <1>5. ASSUME NEW u \in Uninstall, Cleanup(u) PROVE VaultMoves
    BY <1>5 DEF Cleanup, vault, history, VaultMoves, Moved, Kept
  <1>6. CASE UNCHANGED <<secrets, aliases, assigned, spoiled>>
    BY <1>6 DEF VaultMoves, Moved, Kept
  <1> QED
    BY <1>1, <1>2, <1>3, <1>4, <1>5, <1>6, VaultChangers

\* What was named stays named.
LEMMA UnnamedBefore ==
  ASSUME TInv, [Next]_vars, NEW p \in Import, NEW n \in Name, Unnamed(p, n)'
  PROVE  Unnamed(p, n)
  <1> LocalTypes /\ p \in Proc
    BY DEF TInv, TypeOK, LocalTypes, HeldFiles, Proc
  <1> USE DotenvAssumption DEF Before, After
  <1>1. CASE Idle(p)
    BY <1>1 DEF Idle, Unnamed
  <1>2. CASE Gone(p)
    BY <1>2 DEF Gone, Unnamed, Ended
  <1>3. CASE Scan(p)
    BY <1>3 DEF Scan, Unnamed
  <1>4. CASE LookAlias(p) \/ LoadSecrets(p) \/ StoreSecret(p) \/ LoadAliases(p)
    BY <1>4 DEF LookAlias, LoadSecrets, StoreSecret, LoadAliases, Unnamed, LocalTypes, Goto
  <1>5. CASE NameSecret(p) \/ LoadOld(p) \/ DropOld(p)
    <2>1. todo'[p] \subseteq todo[p] /\ pc[p] \in Before \cup After /\ pc'[p] # "start"
      BY <1>5 DEF NameSecret, LoadOld, DropOld, LocalTypes, Goto, NextName
    <2> QED
      BY <2>1 DEF Unnamed
  <1>6. CASE \/ LoadConfig(p) \/ Backup(p) \/ ReadLines(p)
             \/ AssignAlias(p) /\ UNCHANGED <<pc, found, name, old, held, lines>>
             \/ SaveConfig(p) /\ (\E next \in {"rewrite", "backup"} : Goto(p, next)) /\ UNCHANGED locals
    <2>1. pc'[p] \in {"assign", "backup", "rewrite", "replace"}
      BY <1>6 DEF LoadConfig, Backup, ReadLines, AssignAlias, SaveConfig, LocalTypes, Goto
    <2> QED
      BY <2>1 DEF Unnamed
  <1> QED
    BY <1>1, <1>2, <1>3, <1>4, <1>5, <1>6, Stepwise DEF Acts

LEMMA FitsStays ==
  ASSUME TInv, [Next]_vars, NEW a \in Alias, NEW i \in Secret \cup {None}, Fits(a, i)
  PROVE  Fits(a, i)'
  BY UnnamedBefore, DotenvAssumption DEF Fits, Secret

\* The secret import p names fits its alias once it is named.
LEMMA FitsNew ==
  ASSUME TInv, [Next]_vars, NEW p \in Import, NameSecret(p)
  PROVE  /\ SecretOf(p) \in Secret /\ name[p] \in Name /\ AliasOf[name[p]] \in Alias
         /\ Unnamed(p, name[p]) /\ Fits(AliasOf[name[p]], SecretOf(p))'
  <1> LocalTypes /\ TypeOK /\ p \in Proc
    BY DEF TInv, TypeOK, LocalTypes, HeldFiles, Proc
  <1> USE DotenvAssumption DEF Before, After
  <1>1. pc[p] = "name" /\ name[p] \in todo[p] /\ name[p] \in Imported(p)
    BY DEF NameSecret, TInv, Worked
  <1>2. SecretOf(p) \in Secret /\ name[p] \in Name /\ AliasOf[name[p]] \in Alias
    BY <1>1, SecretOfTyped
  <1>3. todo'[p] = todo[p] \ {name[p]} /\ pc'[p] # "start" /\ name' = name /\ found' = found
    BY DEF NameSecret, LocalTypes, Goto, NextName
  <1>4. ~Unnamed(p, name[p])'
    BY <1>3 DEF Unnamed
  <1>5. SecretOf(p)' = SecretOf(p) /\ SecretOf(p).import = p /\ SecretOf(p).name = name[p]
    BY <1>3 DEF SecretOf
  <1> QED
    BY <1>1, <1>2, <1>3, <1>4, <1>5 DEF Fits, Unnamed

LEMMA NextEntries ==
  ASSUME TInv, VInv, [Next]_vars
  PROVE  Entries'
  <1> LocalTypes /\ TypeOK /\ Entries /\ TInv'
    BY NextTInv DEF TInv, TypeOK, LocalTypes, HeldFiles, VInv
  <1> USE DotenvAssumption
  <1>1. ASSUME NEW a \in Alias PROVE Fits(a, aliases[a])'
    <2>1. aliases[a] \in Secret \cup {None} /\ \A q \in Import : held[q].aliases[a] \in Secret \cup {None}
      BY DEF TypeOK
    <2>2. Fits(a, aliases[a]) /\ \A q \in Import : Fits(a, held[q].aliases[a])
      BY DEF Entries
    <2>3. ASSUME NEW p \in Import, NameSecret(p) PROVE Fits(a, aliases[a])'
      <3>1. aliases' = [held[p].aliases EXCEPT ![AliasOf[name[p]]] = SecretOf(p)] /\ name' = name /\ found' = found
        BY <2>3 DEF NameSecret
      <3>2. held[p].aliases \in [Alias -> Secret \cup {None}]
        BY DEF TypeOK
      <3>3. CASE a = AliasOf[name[p]]
        <4>1. aliases'[a] = SecretOf(p) /\ SecretOf(p)' = SecretOf(p) /\ a = AliasOf[name'[p]]
          BY <3>1, <3>2, <3>3 DEF SecretOf
        <4>2. Fits(AliasOf[name[p]], SecretOf(p))'
          BY <2>3, FitsNew
        <4> QED
          BY <4>1, <4>2 DEF Fits
      <3>4. CASE a # AliasOf[name[p]]
        <4>1. aliases'[a] = held[p].aliases[a]
          BY <3>1, <3>2, <3>4
        <4> QED
          BY <4>1, <2>1, <2>2, FitsStays
      <3> QED
        BY <3>3, <3>4
    <2>4. CASE aliases' = aliases
      BY <2>1, <2>2, <2>4, FitsStays
    <2> QED
      BY <2>3, <2>4, VaultChangers DEF StoreSecret, DropOld, SaveConfig, Cleanup, vault
  <1>2. ASSUME NEW a \in Alias, NEW q \in Import PROVE Fits(a, held[q].aliases[a])'
    <2>1. aliases[a] \in Secret \cup {None} /\ held[q].aliases[a] \in Secret \cup {None}
      BY DEF TypeOK
    <2>2. Fits(a, aliases[a]) /\ Fits(a, held[q].aliases[a])
      BY DEF Entries
    <2>3. held'[q].aliases[a] \in {held[q].aliases[a], aliases[a], None}
      <3>1. CASE Idle(q)
        BY <3>1 DEF Idle
      <3>2. CASE Gone(q)
        BY <3>2 DEF Gone, NothingHeld, NoAliases
      <3>3. CASE LoadSecrets(q) \/ StoreSecret(q) \/ DropOld(q) \/ LoadOld(q)
        <4>1. held' = held \/ \E x \in SUBSET Secret : held' = [held EXCEPT ![q].secrets = x]
          BY <3>3 DEF LoadSecrets, StoreSecret, DropOld, LoadOld, TypeOK
        <4>2. held'[q].aliases = held[q].aliases
          BY <4>1, HeldSecrets DEF LocalTypes, HeldFiles
        <4> QED
          BY <4>2
      <3>4. CASE LoadAliases(q) \/ NameSecret(q)
        <4>1. \E x \in {aliases, NoAliases} : held' = [held EXCEPT ![q].aliases = x]
          BY <3>4 DEF LoadAliases, NameSecret
        <4>2. aliases \in [Alias -> Secret \cup {None}] /\ NoAliases \in [Alias -> Secret \cup {None}]
          BY DEF TypeOK, NoAliases
        <4>3. held'[q].aliases \in {aliases, NoAliases}
          BY <4>1, <4>2, HeldAliases DEF LocalTypes, HeldFiles
        <4> QED
          BY <4>3 DEF NoAliases
      <3>5. CASE LoadConfig(q)
        <4>1. held'[q].aliases = held[q].aliases
          BY <3>5, HeldConfig DEF LoadConfig, LocalTypes, HeldFiles, TypeOK
        <4> QED
          BY <4>1
      <3>6. CASE \/ Scan(q) \/ LookAlias(q) \/ Backup(q) \/ ReadLines(q)
                 \/ AssignAlias(q) /\ UNCHANGED <<pc, found, name, old, held, lines>>
                 \/ SaveConfig(q) /\ (\E next \in {"rewrite", "backup"} : Goto(q, next)) /\ UNCHANGED locals
        BY <3>6 DEF Scan, LookAlias, Backup, ReadLines, locals
      <3> QED
        BY <3>1, <3>2, <3>3, <3>4, <3>5, <3>6, Stepwise DEF Acts
    <2>4. Fits(a, None)'
      BY DEF Fits
    <2> QED
      BY <2>1, <2>2, <2>3, <2>4, FitsStays
  <1> QED
    BY <1>1, <1>2 DEF Entries

\* Only LookAlias gives an import its name and its old secret.
LEMMA NameStays ==
  ASSUME TInv, [Next]_vars, NEW q \in Import
  PROVE  \/ name'[q] = name[q] /\ old'[q] = old[q]
         \/ Gone(q)
         \/ LookAlias(q)
  <1> LocalTypes
    BY DEF TInv, TypeOK, LocalTypes, HeldFiles
  <1>1. CASE Idle(q)
    BY <1>1 DEF Idle
  <1>2. CASE \/ Scan(q) \/ LoadSecrets(q) \/ StoreSecret(q) \/ LoadAliases(q) \/ NameSecret(q)
             \/ LoadOld(q) \/ DropOld(q)
    BY <1>2 DEF Scan, LoadSecrets, StoreSecret, LoadAliases, NameSecret, LoadOld, DropOld
  <1>3. CASE \/ LoadConfig(q) \/ Backup(q) \/ ReadLines(q)
             \/ AssignAlias(q) /\ UNCHANGED <<pc, found, name, old, held, lines>>
             \/ SaveConfig(q) /\ (\E next \in {"rewrite", "backup"} : Goto(q, next)) /\ UNCHANGED locals
    BY <1>3 DEF LoadConfig, Backup, ReadLines, locals
  <1> QED
    BY <1>1, <1>2, <1>3, Stepwise DEF Acts

LEMMA NextOlds ==
  ASSUME TInv, VInv, [Next]_vars, NEW q \in Import
  PROVE  Olds(q)'
  <1> LocalTypes /\ TypeOK /\ Entries /\ Olds(q)
    BY DEF TInv, TypeOK, LocalTypes, HeldFiles, VInv
  <1> USE DotenvAssumption
  <1>1. CASE name'[q] = name[q] /\ old'[q] = old[q]
    <2>1. old[q] \in Secret \cup {None}
      BY DEF TypeOK
    <2>2. CASE old[q] # None
      <3>1. name[q] \in Name /\ AliasOf[name[q]] \in Alias /\ Fits(AliasOf[name[q]], old[q])
        BY <2>2 DEF Olds
      <3>2. Fits(AliasOf[name[q]], old[q])'
        <4>1. PICK a \in Alias, i \in Secret : a = AliasOf[name[q]] /\ i = old[q]
          BY <2>1, <2>2, <3>1
        <4>2. Fits(a, i)'
          BY <3>1, <4>1, FitsStays
        <4> QED
          BY <1>1, <4>1, <4>2 DEF Fits
      <3> QED
        BY <1>1, <3>1, <3>2 DEF Olds
    <2> QED
      BY <1>1, <2>2 DEF Olds
  <1>2. CASE Gone(q)
    BY <1>2 DEF Gone, Olds
  <1>3. CASE LookAlias(q)
    <2>1. PICK n \in todo[q] : name' = [name EXCEPT ![q] = n] /\ old' = [old EXCEPT ![q] = aliases[AliasOf[n]]]
      BY <1>3 DEF LookAlias, First
    <2>2. name'[q] = n /\ old'[q] = aliases[AliasOf[n]] /\ n \in Name /\ AliasOf[n] \in Alias
      BY <2>1 DEF TypeOK
    <2>3. aliases' = aliases
      BY <1>3 DEF LookAlias, vault
    <2>4. Fits(AliasOf[n], aliases[AliasOf[n]])'
      BY <2>2, NextEntries DEF Entries
    <2> QED
      BY <2>2, <2>3, <2>4 DEF Olds, Fits
  <1> QED
    BY <1>1, <1>2, <1>3, NameStays

LEMMA NextOldGone ==
  ASSUME TInv, VInv, [Next]_vars, NEW q \in Import
  PROVE  OldGone(q)'
  <1> LocalTypes /\ TypeOK /\ Entries /\ Olds(q) /\ OldGone(q) /\ q \in Proc
    BY DEF TInv, TypeOK, LocalTypes, HeldFiles, VInv, Proc
  <1> USE DotenvAssumption DEF After
  <1> SUFFICES ASSUME pc'[q] \in After, AliasOf[name'[q]] \notin spoiled'
               PROVE  aliases'[AliasOf[name'[q]]] # old'[q]
    BY DEF OldGone
  <1>1. ASSUME pc[q] \in After, name'[q] = name[q], old'[q] = old[q]
        PROVE  aliases'[AliasOf[name'[q]]] # old'[q]
    <2> DEFINE a == AliasOf[name[q]]
    <2>1. name[q] \in Imported(q) /\ old[q] # None
      BY <1>1 DEF TInv, Worked
    <2>2. a \in Alias \ spoiled' /\ a \notin spoiled
      BY <1>1, <2>1, VaultStep DEF Imported, VaultMoves, Moved, Kept
    <2>3. aliases[a] # old[q]
      BY <1>1, <2>2 DEF OldGone
    <2>4. ASSUME NEW p \in Import, NameSecret(p), a = AliasOf[name[p]], aliases'[a] = SecretOf(p)
          PROVE  aliases'[a] # old[q]
      <3>1. Unnamed(p, name[p]) /\ SecretOf(p) \in Secret
        BY <2>4, FitsNew
      <3>2. ~Unnamed(old[q].import, old[q].name)
        BY <2>1 DEF Olds, Fits
      <3>3. SecretOf(p).import = p /\ SecretOf(p).name = name[p]
        BY DEF SecretOf
      <3> QED
        BY <2>4, <3>1, <3>2, <3>3
    <2> QED
      BY <1>1, <2>2, <2>3, <2>4, VaultStep DEF VaultMoves, Moved, Kept
  <1>2. CASE Idle(q)
    BY <1>1, <1>2 DEF Idle
  <1>3. CASE Gone(q)
    BY <1>3 DEF Gone, Ended
  <1>4. CASE LoadOld(q) \/ DropOld(q)
    BY <1>1, <1>4 DEF LoadOld, DropOld
  <1>5. CASE NameSecret(q)
    <2>1. Unnamed(q, name[q]) /\ SecretOf(q) \in Secret /\ AliasOf[name[q]] \in Alias
      BY <1>5, FitsNew
    <2>2. aliases'[AliasOf[name[q]]] = SecretOf(q) /\ name' = name /\ old' = old
      BY <1>5, <2>1 DEF NameSecret, TypeOK
    <2>3. pc'[q] = IF old[q] = None THEN NextName(q) ELSE "old"
      BY <1>5 DEF NameSecret, Goto, LocalTypes
    <2>4. old[q] # None
      BY <2>3 DEF NextName
    <2>5. ~Unnamed(old[q].import, old[q].name)
      BY <2>4 DEF Olds, Fits
    <2>6. SecretOf(q).import = q /\ SecretOf(q).name = name[q]
      BY DEF SecretOf
    <2> QED
      BY <2>1, <2>2, <2>5, <2>6
  <1>6. CASE Scan(q) \/ LookAlias(q) \/ LoadSecrets(q) \/ StoreSecret(q) \/ LoadAliases(q)
    BY <1>6 DEF Scan, LookAlias, LoadSecrets, StoreSecret, LoadAliases, Goto, LocalTypes
  <1>7. CASE \/ LoadConfig(q) \/ Backup(q) \/ ReadLines(q)
             \/ AssignAlias(q) /\ UNCHANGED <<pc, found, name, old, held, lines>>
             \/ SaveConfig(q) /\ (\E next \in {"rewrite", "backup"} : Goto(q, next)) /\ UNCHANGED locals
    BY <1>7 DEF LoadConfig, Backup, ReadLines, AssignAlias, SaveConfig, Goto, LocalTypes
  <1> QED
    BY <1>2, <1>3, <1>4, <1>5, <1>6, <1>7, Stepwise DEF Acts

LEMMA NextStored ==
  ASSUME TInv, VInv, [Next]_vars, NEW q \in Import
  PROVE  Stored(q)'
  <1> LocalTypes /\ TypeOK /\ Stored(q) /\ q \in Proc
    BY DEF TInv, TypeOK, LocalTypes, HeldFiles, VInv, Proc
  <1> USE DotenvAssumption DEF Before
  <1> SUFFICES ASSUME pc'[q] \in {"aliases", "name"}, AliasOf[name'[q]] \notin spoiled'
               PROVE  SecretOf(q)' \in secrets'
    BY DEF Stored
  <1>1. ASSUME pc[q] \in {"aliases", "name"}, name'[q] = name[q], found'[q] = found[q]
        PROVE  SecretOf(q)' \in secrets'
    <2>1. SecretOf(q)' = SecretOf(q) /\ SecretOf(q).import = q /\ SecretOf(q).name = name[q]
      BY <1>1 DEF SecretOf
    <2>2. SecretOf(q) \in secrets
      BY <1>1, VaultStep DEF Stored, VaultMoves, Moved, Kept
    <2>3. name[q] \in todo[q] /\ Unnamed(q, name[q])
      BY <1>1 DEF TInv, Worked, Unnamed
    <2>4. ASSUME NEW p \in Import, DropOld(p), SecretOf(q) = old[p] PROVE FALSE
      <3>1. old[p] # None
        BY <2>4 DEF TInv, Worked, After, DropOld
      <3>2. ~Unnamed(old[p].import, old[p].name)
        BY <3>1 DEF VInv, Olds, Fits
      <3> QED
        BY <2>1, <2>3, <2>4, <3>2
    <2> QED
      BY <1>1, <2>1, <2>2, <2>4, VaultStep DEF VaultMoves, Moved, Kept
  <1>2. CASE Idle(q)
    BY <1>1, <1>2 DEF Idle
  <1>3. CASE Gone(q)
    BY <1>3 DEF Gone, Ended
  <1>4. CASE StoreSecret(q)
    BY <1>4 DEF StoreSecret, SecretOf
  <1>5. CASE LoadAliases(q)
    BY <1>1, <1>5 DEF LoadAliases
  <1>6. CASE Scan(q) \/ LookAlias(q) \/ LoadSecrets(q) \/ NameSecret(q) \/ LoadOld(q) \/ DropOld(q)
    BY <1>6 DEF Scan, LookAlias, LoadSecrets, NameSecret, LoadOld, DropOld, Goto, LocalTypes, NextName
  <1>7. CASE \/ LoadConfig(q) \/ Backup(q) \/ ReadLines(q)
             \/ AssignAlias(q) /\ UNCHANGED <<pc, found, name, old, held, lines>>
             \/ SaveConfig(q) /\ (\E next \in {"rewrite", "backup"} : Goto(q, next)) /\ UNCHANGED locals
    BY <1>7 DEF LoadConfig, Backup, ReadLines, AssignAlias, SaveConfig, Goto, LocalTypes
  <1> QED
    BY <1>2, <1>3, <1>4, <1>5, <1>6, <1>7, Stepwise DEF Acts

LEMMA NextNamed ==
  ASSUME TInv, VInv, [Next]_vars, NEW a \in Alias
  PROVE  Named(a)'
  <1> TypeOK /\ Named(a) /\ Entries
    BY DEF TInv, VInv
  <1> USE DotenvAssumption
  <1> SUFFICES ASSUME a \notin spoiled', aliases'[a] # None
               PROVE  aliases'[a] \in secrets' /\ aliases'[a].value \in Real
    BY DEF Named
  <1>1. CASE aliases'[a] = aliases[a]
    <2>1. aliases[a] \in secrets /\ aliases[a].value \in Real /\ AliasOf[aliases[a].name] = a
      BY <1>1, VaultStep DEF Named, Entries, Fits, VaultMoves, Moved, Kept
    <2>2. ASSUME NEW p \in Import, DropOld(p), aliases[a] = old[p] PROVE FALSE
      <3>1. pc[p] \in After /\ old[p] # None
        BY <2>2 DEF DropOld, After, TInv, Worked
      <3>2. AliasOf[name[p]] = a
        BY <2>1, <2>2, <3>1 DEF VInv, Olds, Fits
      <3>3. a \notin spoiled
        BY VaultStep DEF VaultMoves, Moved, Kept
      <3> QED
        BY <2>2, <3>1, <3>2, <3>3 DEF VInv, OldGone
    <2> QED
      BY <1>1, <2>1, <2>2, VaultStep DEF VaultMoves, Moved, Kept
  <1>2. ASSUME NEW p \in Import, NameSecret(p), a = AliasOf[name[p]], aliases'[a] = SecretOf(p),
               found[p][name[p]] \in Real
        PROVE  aliases'[a] \in secrets' /\ aliases'[a].value \in Real
    <2>1. SecretOf(p) \in secrets /\ secrets' = secrets
      BY <1>2, VaultStep DEF VInv, Stored, NameSecret, VaultMoves, Moved, Kept
    <2> QED
      BY <1>2, <2>1 DEF SecretOf
  <1> QED
    BY <1>1, <1>2, VaultStep DEF VaultMoves, Moved, Kept

LEMMA InitVInv == Init => VInv
  <1> SUFFICES ASSUME Init PROVE VInv
    OBVIOUS
  <1>1. Entries
    BY DEF Init, Entries, Fits, NothingHeld, NoAliases
  <1>2. \A q \in Import : Olds(q) /\ OldGone(q) /\ Stored(q)
    BY DEF Init, Olds, OldGone, Stored, Proc, After
  <1>3. \A a \in Alias : Named(a)
    BY DEF Init, Named, NoAliases
  <1> QED
    BY <1>1, <1>2, <1>3 DEF VInv

LEMMA NextVInv == TInv /\ VInv /\ [Next]_vars => VInv'
  BY NextEntries, NextOlds, NextOldGone, NextStored, NextNamed DEF VInv

LEMMA VaultKept == Spec => [](TInv /\ VInv)
  BY InitVInv, NextVInv, InitTInv, NextTInv, PTL DEF Spec
-----------------------------------------------------------------------------
(* Placeholders.                                                           *)

\* Alias a can be resolved, and is listed in agentsecure.json.
Good(a) == a \in spoiled \/ aliases[a] # None
Backed(a) ==
    \/ a \in spoiled
    \/ aliases[a] # None /\ (a \in assigned \/ \E u \in Uninstall : pc[u] = "uninstalled")
\* Every placeholder of a content is the one of its line, and is backed.
Placed(content) == \A n \in Name : content[n] \in Alias =>
    content[n] = AliasOf[n] /\ Backed(AliasOf[n])

Adding == {"look"} \cup Before \cup After
Assigning == {"config", "assign"}
Rewriting == {"backup", "rewrite", "replace"}
\* What an import has added by now, and assigned before it rewrites the file.
Added(q) ==
    /\ pc[q] \in Adding => \A n \in Imported(q) \ todo[q] : Good(AliasOf[n])
    /\ pc[q] \in Assigning => \A n \in Imported(q) : Good(AliasOf[n])
    /\ pc[q] \in Rewriting => \A n \in Imported(q) : Backed(AliasOf[n])
PInv ==
    /\ \A q \in Import : Added(q) /\ Placed(lines[q])
    /\ Placed(dotenv)
    /\ \A s \in Stamp : Placed(backups[s].content)

\* What was resolved stays resolved, and what was backed stays backed.
LEMMA GoodStays ==
  ASSUME TInv, [Next]_vars, NEW a \in Alias
  PROVE  /\ Good(a) => Good(a)'
         /\ Backed(a) => Backed(a)'
  <1> LocalTypes /\ TypeOK
    BY DEF TInv, TypeOK, LocalTypes, HeldFiles
  <1> USE DotenvAssumption
  <1>1. ASSUME a \notin spoiled', aliases[a] # None PROVE aliases'[a] # None
    <2>1. ASSUME NEW p \in Import, NameSecret(p), aliases'[a] = SecretOf(p) PROVE aliases'[a] # None
      BY <2>1, FitsNew
    <2> QED
      BY <1>1, <2>1, VaultStep DEF VaultMoves, Moved
  <1>2. ASSUME NEW u \in Uninstall, pc[u] = "uninstalled" PROVE pc'[u] = "uninstalled"
    <2> u \in Proc
      BY DEF Proc
    <2>1. ASSUME NEW p \in Import, NEW l, Goto(p, l) PROVE pc'[u] = pc[u]
      BY <2>1 DEF Goto, LocalTypes
    <2>2. ASSUME NEW r \in Restore \cup Uninstall, NEW l, Goto(r, l), pc[r] # "uninstalled" PROVE pc'[u] = pc[u]
      BY <1>2, <2>2 DEF Goto, LocalTypes
    <2>3. ASSUME NEW p \in Import,
                 \/ Scan(p) \/ LookAlias(p) \/ LoadSecrets(p) \/ StoreSecret(p) \/ LoadAliases(p)
                 \/ NameSecret(p) \/ LoadOld(p) \/ DropOld(p) \/ LoadConfig(p)
          PROVE  \E l : Goto(p, l)
      BY <2>3 DEF Scan, LookAlias, LoadSecrets, StoreSecret, LoadAliases, NameSecret, LoadOld, DropOld, LoadConfig
    <2>4. ASSUME NEW p \in Import,
                 \/ AssignAlias(p) \/ SaveConfig(p) \/ Backup(p) \/ BackupKilled(p) \/ ReadLines(p)
                 \/ Replace(p) \/ Crash(p)
          PROVE  pc' = pc \/ \E l : Goto(p, l)
      BY <2>4 DEF AssignAlias, SaveConfig, AfterAssign, Backup, BackupKilled, ReadLines, Replace, Crash, Leave
    <2>5. ASSUME NEW r \in Restore \cup Uninstall,
                 \/ LookLatest(r) \/ CopyBack(r) \/ CopyKilled(r) \/ Choose(r) \/ NothingToRestore(r)
                 \/ KeepFile(r) \/ Cleanup(r)
          PROVE  pc[r] # "uninstalled" /\ \E l : Goto(r, l)
      BY <2>5 DEF LookLatest, CopyBack, CopyKilled, Choose, NothingToRestore, KeepFile, Cleanup
    <2>6. CASE Edit \/ Tick \/ UNCHANGED vars
      BY <1>2, <2>6 DEF Edit, Tick, vars
    <2> QED
      BY <1>2, <2>1, <2>2, <2>3, <2>4, <2>5, <2>6 DEF Next
  <1>3. ASSUME a \notin spoiled', a \in assigned
        PROVE  a \in assigned' \/ \E u \in Uninstall : pc'[u] = "uninstalled"
    <2>1. ASSUME NEW p \in Import, SaveConfig(p) PROVE a \in assigned'
      BY <1>3, <2>1 DEF SaveConfig
    <2>2. ASSUME NEW u \in Uninstall, Cleanup(u) PROVE pc'[u] = "uninstalled"
      BY <2>2 DEF Cleanup, Goto, LocalTypes, Proc
    <2>3. ASSUME NEW p \in Import, StoreSecret(p) \/ DropOld(p) \/ NameSecret(p) PROVE assigned' = assigned
      BY <2>3 DEF StoreSecret, DropOld, NameSecret
    <2> QED
      BY <1>3, <2>1, <2>2, <2>3, VaultChangers
  <1>4. spoiled \subseteq spoiled'
    BY VaultStep DEF VaultMoves
  <1> QED
    BY <1>1, <1>2, <1>3, <1>4 DEF Good, Backed

\* An import that names its secret makes its alias good.
LEMMA NameGood ==
  ASSUME TInv, [Next]_vars, NEW p \in Import, NameSecret(p)
  PROVE  Good(AliasOf[name[p]])'
  <1>1. SecretOf(p) \in Secret /\ AliasOf[name[p]] \in Alias
    BY FitsNew
  <1>2. name' = name /\ aliases' = [held[p].aliases EXCEPT ![AliasOf[name[p]]] = SecretOf(p)]
        /\ held[p].aliases \in [Alias -> Secret \cup {None}]
    BY DEF NameSecret, TInv, TypeOK
  <1>3. aliases'[AliasOf[name'[p]]] # None
    BY <1>1, <1>2, DotenvAssumption
  <1> QED
    BY <1>3 DEF Good

LEMMA NextAdded ==
  ASSUME TInv, PInv, [Next]_vars, NEW q \in Import
  PROVE  Added(q)'
  <1> LocalTypes /\ TypeOK /\ Added(q) /\ q \in Proc /\ Worked(q)
    BY DEF TInv, TypeOK, LocalTypes, HeldFiles, PInv, Proc
  <1> USE DotenvAssumption
  <1>1. \A n \in Name : /\ AliasOf[n] \in Alias
                        /\ Good(AliasOf[n]) => Good(AliasOf[n])'
                        /\ Backed(AliasOf[n]) => Backed(AliasOf[n])'
    BY GoodStays
  <1>2. Imported(q) \subseteq Name /\ Imported(q)' \subseteq Name
    BY DEF Imported
  <1> USE DEF Adding, Assigning, Rewriting, Before, After
  <1>3. CASE Idle(q)
    <2>1. Imported(q)' = Imported(q)
      BY <1>3 DEF Idle, Imported
    <2> QED
      BY <1>1, <1>2, <1>3, <2>1 DEF Idle, Added
  <1>4. CASE Gone(q)
    BY <1>4 DEF Gone, Added, Ended
  <1>5. CASE Scan(q)
    <2>1. Imported(q)' = todo'[q] /\ pc'[q] \in {"done", "look"}
      BY <1>5 DEF Scan, Imported, Discoverable, Goto, LocalTypes
    <2> QED
      BY <2>1 DEF Added
  <1>6. CASE LookAlias(q) \/ LoadSecrets(q) \/ StoreSecret(q) \/ LoadAliases(q)
    <2>1. found' = found /\ todo' = todo /\ pc'[q] \in Before /\ pc[q] \in Adding
      BY <1>6 DEF LookAlias, LoadSecrets, StoreSecret, LoadAliases, Goto, LocalTypes
    <2>2. Imported(q)' = Imported(q)
      BY <2>1 DEF Imported
    <2> QED
      BY <1>1, <1>2, <2>1, <2>2 DEF Added
  <1>7. CASE NameSecret(q)
    <2>1. /\ found' = found /\ todo'[q] = todo[q] \ {name[q]} /\ name' = name
          /\ pc'[q] \in {"look", "config", "old"} /\ pc[q] = "name"
          /\ pc'[q] = "config" => todo[q] \subseteq {name[q]} \/ old[q] # None
      BY <1>7 DEF NameSecret, NextName, Goto, LocalTypes
    <2>2. Imported(q)' = Imported(q)
      BY <2>1 DEF Imported
    <2>3. \A n \in Imported(q) \ todo'[q] : Good(AliasOf[n])'
      <3>1. ASSUME NEW n \in Imported(q) \ todo'[q] PROVE Good(AliasOf[n])'
        <4>1. CASE n = name[q]
          BY <1>7, <2>1, <4>1, NameGood DEF Good
        <4>2. CASE n # name[q]
          BY <1>1, <1>2, <2>1, <4>2 DEF Added
        <4> QED
          BY <4>1, <4>2
      <3> QED
        BY <3>1
    <2>4. pc'[q] = "config" => todo'[q] = {}
      BY NextWorked DEF Worked
    <2> QED
      BY <2>1, <2>2, <2>3, <2>4 DEF Added
  <1>8. CASE LoadOld(q) \/ DropOld(q)
    <2>1. found' = found /\ todo' = todo /\ pc'[q] \in {"look", "config", "drop"} /\ pc[q] \in After
      BY <1>8 DEF LoadOld, DropOld, NextName, Goto, LocalTypes
    <2>2. Imported(q)' = Imported(q)
      BY <2>1 DEF Imported
    <2>3. pc'[q] = "config" => todo'[q] = {}
      BY NextWorked DEF Worked
    <2> QED
      BY <1>1, <1>2, <2>1, <2>2, <2>3 DEF Added
  <1>9. CASE LoadConfig(q) \/ (AssignAlias(q) /\ UNCHANGED <<pc, found, name, old, held, lines>>)
    <2>1. found' = found /\ pc'[q] = "assign" /\ pc[q] \in Assigning
      BY <1>9 DEF LoadConfig, AssignAlias, Goto, LocalTypes
    <2>2. Imported(q)' = Imported(q)
      BY <2>1 DEF Imported
    <2> QED
      BY <1>1, <1>2, <2>1, <2>2 DEF Added
  <1>10. CASE SaveConfig(q) /\ (\E next \in {"rewrite", "backup"} : Goto(q, next)) /\ UNCHANGED locals
    <2>1. found' = found /\ pc'[q] \in Rewriting /\ pc[q] \in Assigning
          /\ assigned' = held[q].config \cup Assigned(q)
      BY <1>10 DEF SaveConfig, Goto, LocalTypes, locals
    <2>2. Imported(q)' = Imported(q)
      BY <2>1 DEF Imported
    <2>3. ASSUME NEW n \in Imported(q) PROVE Backed(AliasOf[n])'
      <3>1. Good(AliasOf[n])' /\ AliasOf[n] \in assigned'
        BY <1>1, <1>2, <2>1 DEF Added, Assigned
      <3> QED
        BY <3>1 DEF Good, Backed
    <2> QED
      BY <2>1, <2>2, <2>3 DEF Added
  <1>11. CASE Backup(q) \/ ReadLines(q)
    <2>1. found' = found /\ pc'[q] \in Rewriting /\ pc[q] \in Rewriting
      BY <1>11 DEF Backup, ReadLines, Goto, LocalTypes, locals
    <2>2. Imported(q)' = Imported(q)
      BY <2>1 DEF Imported
    <2> QED
      BY <1>1, <1>2, <2>1, <2>2 DEF Added
  <1> QED
    BY <1>3, <1>4, <1>5, <1>6, <1>7, <1>8, <1>9, <1>10, <1>11, Stepwise DEF Acts

\* Which steps write the file, read its lines or back it up.
LEMMA LinesChangers ==
  ASSUME TInv, [Next]_vars, NEW q \in Import
  PROVE  lines'[q] \in {lines[q], Empty, dotenv}
  <1> LocalTypes
    BY DEF TInv, TypeOK, LocalTypes, HeldFiles
  <1>1. CASE ReadLines(q)
    BY <1>1 DEF ReadLines, LocalTypes
  <1>2. CASE Gone(q) \/ Idle(q)
    BY <1>2 DEF Gone, Idle
  <1>3. CASE \/ Scan(q) \/ LookAlias(q) \/ LoadSecrets(q) \/ StoreSecret(q) \/ LoadAliases(q) \/ NameSecret(q)
             \/ LoadOld(q) \/ DropOld(q)
    BY <1>3 DEF Scan, LookAlias, LoadSecrets, StoreSecret, LoadAliases, NameSecret, LoadOld, DropOld
  <1>4. CASE \/ LoadConfig(q) \/ Backup(q)
             \/ AssignAlias(q) /\ UNCHANGED <<pc, found, name, old, held, lines>>
             \/ SaveConfig(q) /\ (\E next \in {"rewrite", "backup"} : Goto(q, next)) /\ UNCHANGED locals
    BY <1>4 DEF LoadConfig, Backup, locals
  <1> QED
    BY <1>1, <1>2, <1>3, <1>4, Stepwise DEF Acts

LEMMA BackupsChanged ==
  ASSUME TInv, [Next]_vars, NEW s \in Stamp, NEW n \in Name
  PROVE  backups'[s].content[n] \in {backups[s].content[n], dotenv[n], None}
  <1> backups \in [Stamp -> BackupFile]
    BY DEF TInv
  <1>1. ASSUME NEW p \in Import, Backup(p) \/ BackupKilled(p)
        PROVE  backups'[s].content[n] \in {backups[s].content[n], dotenv[n], None}
    BY <1>1 DEF Backup, BackupKilled, Cut
  <1>2. CASE backups' = backups
    BY <1>2
  <1> QED
    BY <1>1, <1>2, FileChangers DEF Replace, CopyBack, CopyKilled, Edit, Tick

\* Every line that is written is a real value, a placeholder the import has assigned, or
\* a line read before.
LEMMA NextPlaced ==
  ASSUME TInv, PInv, [Next]_vars
  PROVE  /\ Placed(dotenv)'
         /\ \A q \in Import : Placed(lines[q])'
         /\ \A s \in Stamp : Placed(backups[s].content)'
  <1> TypeOK
    BY DEF TInv
  <1> DEFINE Fine(n, v) == v \in Alias => v = AliasOf[n] /\ Backed(AliasOf[n])
             Stays(n, v) == v \in Alias => v = AliasOf[n] /\ Backed(AliasOf[n])'
  <1>1. \A n \in Name : \A v : Fine(n, v) => Stays(n, v)
    BY GoodStays, DotenvAssumption
  <1>2. \A n \in Name : Stays(n, None) /\ \A v \in Real : Stays(n, v)
    BY DotenvAssumption
  <1>3. \A n \in Name : Stays(n, dotenv[n])
    BY <1>1 DEF PInv, Placed
  <1>4. \A p \in Import, n \in Name : Stays(n, lines[p][n])
    BY <1>1 DEF PInv, Placed
  <1>5. \A s \in Stamp, n \in Name : Stays(n, backups[s].content[n])
    BY <1>1 DEF PInv, Placed
  <1> HIDE DEF Fine, Stays
  <1>6. ASSUME NEW p \in Import, Replace(p), NEW n \in Name PROVE Stays(n, dotenv'[n])
    <2>1. pc[p] = "replace" /\ dotenv'[n] \in {AliasOf[n], lines[p][n]}
          /\ (n \notin Imported(p) => dotenv'[n] = lines[p][n])
      BY <1>6 DEF Replace, Write, Rewritten
    <2>2. n \in Imported(p) => Fine(n, AliasOf[n])
      BY <2>1 DEF PInv, Added, Rewriting, Fine
    <2> QED
      BY <1>1, <1>4, <2>1, <2>2
  <1>7. ASSUME Edit, NEW n \in Name PROVE Stays(n, dotenv'[n])
    <2>1. dotenv'[n] = dotenv[n] \/ dotenv'[n] \in Real
      BY <1>7 DEF Edit, Write, TypeOK, Content
    <2> QED
      BY <1>2, <1>3, <2>1
  <1>8. ASSUME NEW r \in Restore \cup Uninstall, CopyBack(r) \/ CopyKilled(r), NEW n \in Name PROVE Stays(n, dotenv'[n])
    <2>1. pick[r] \in Stamp
      BY <1>8 DEF CopyBack, CopyKilled, TInv, Picked
    <2>2. dotenv'[n] \in {None, backups[pick[r]].content[n]}
      BY <1>8 DEF CopyBack, CopyKilled, Write, Cut
    <2> QED
      BY <1>2, <1>5, <2>1, <2>2
  <1>9. \A n \in Name : Stays(n, dotenv'[n])
    BY <1>3, <1>6, <1>7, <1>8, FileChangers DEF Backup, BackupKilled, Tick, file
  <1>10. ASSUME NEW q \in Import, NEW n \in Name PROVE Stays(n, lines'[q][n])
    BY <1>2, <1>3, <1>4, LinesChangers DEF Empty
  <1>11. ASSUME NEW s \in Stamp, NEW n \in Name PROVE Stays(n, backups'[s].content[n])
    BY <1>2, <1>3, <1>5, BackupsChanged
  <1> QED
    BY <1>9, <1>10, <1>11 DEF Placed, Stays

LEMMA InitPInv == Init => PInv
  <1> SUFFICES ASSUME Init PROVE PInv
    OBVIOUS
  <1> USE DotenvAssumption
  <1>1. \A q \in Import : Added(q) /\ Placed(lines[q])
    BY DEF Init, Added, Placed, Adding, Before, After, Assigning, Rewriting, Proc, Empty
  <1>2. Placed(dotenv)
    BY DEF Init, Placed
  <1>3. \A s \in Stamp : Placed(backups[s].content)
    BY DEF Init, Placed, NoBackupFile, Empty
  <1> QED
    BY <1>1, <1>2, <1>3 DEF PInv

LEMMA NextPInv == TInv /\ PInv /\ [Next]_vars => PInv'
  BY NextAdded, NextPlaced DEF PInv

LEMMA NamedResolves ==
  ASSUME VInv, NEW a \in Alias, a \notin spoiled, aliases[a] # None
  PROVE  Resolved(a) \in Real
  BY DEF VInv, Named, Resolved

\* A placeholder in the file resolves to a real value of an assigned alias, however imports,
\* restores, uninstalls and kills overlap, until an uninstall ends: but for the aliases an
\* import spoiled, with a file saved over an entry written since it was loaded, or with the
\* placeholder it found.  (cli/main.py:1927; core/secret_aliases.py:121)
THEOREM PlaceholdersBacked == Spec => []PlaceholderBacked
  <1>1. VInv /\ PInv => PlaceholderBacked
    BY NamedResolves, DotenvAssumption DEF PInv, Placed, Backed, PlaceholderBacked
  <1> QED
    BY <1>1, InitPInv, NextPInv, Typed, VaultKept, PTL DEF Spec
-----------------------------------------------------------------------------
(* Where the value of a name is.                                           *)

InVault(n) == meant[n] \in {None, Resolved(AliasOf[n])}
Copied(n) == \E s \in Stamp : backups[s].content[n] = meant[n]
\* A line v of name n stands for what the user meant.
Means(n, v) ==
    /\ v \in Real => meant[n] \in {None, v}
    /\ v \in Alias => InVault(n)
\* Import p has named its secret for n.
Past(p, n) == n \in Imported(p) /\ (pc[p] \in Adding => n \notin todo[p])
HeldFor(p, n) ==
    /\ pc[p] = "replace" => Means(n, lines[p][n]) /\ (lines[p][n] = None <=> dotenv[n] = None)
    /\ found[p][n] \in Real => meant[n] \in {None, found[p][n]}
    /\ Past(p, n) => InVault(n)
HeldValue(n) ==
    /\ Means(n, dotenv[n])
    /\ dotenv[n] = None => InVault(n) \/ Copied(n)
    /\ \A p \in Import : HeldFor(p, n)
Watched == {n \in Name \ (exposed \cup Shared) : AliasOf[n] \notin spoiled}
\* What an accident has befallen aside, the value of a name is held wherever it may be read from.
HInv == \A n \in Watched : HeldValue(n)

\* What the alias of a name of its own resolves to changes only where the name is imported.
LEMMA ResolvedStays ==
  ASSUME TInv, VInv, [Next]_vars, NEW n \in Watched'
  PROVE  \/ Resolved(AliasOf[n])' = Resolved(AliasOf[n])
         \/ \E p \in Import : /\ NameSecret(p) /\ n = name[p]
                              /\ found[p][n] \in Real /\ Resolved(AliasOf[n])' = found[p][n]
  <1> DEFINE a == AliasOf[n]
  <1>1. n \in Name /\ a \in Alias \ spoiled' /\ a \notin spoiled /\ n \notin Shared
    BY VaultStep, DotenvAssumption DEF Watched, VaultMoves, Shared
  <1>2. Named(a) /\ Named(a)'
    BY <1>1, NextNamed DEF VInv
  <1>3. ASSUME aliases'[a] = aliases[a] PROVE Resolved(AliasOf[n])' = Resolved(AliasOf[n])
    <2>1. None \notin secrets /\ None \notin secrets'
      BY NextTInv, DotenvAssumption DEF TInv, TypeOK
    <2>2. aliases[a] # None => aliases[a] \in secrets /\ aliases[a] \in secrets'
      BY <1>1, <1>2, <1>3 DEF Named
    <2> QED
      BY <1>3, <2>1, <2>2 DEF Resolved
  <1>4. ASSUME NEW p \in Import, NameSecret(p), a = AliasOf[name[p]], aliases'[a] = SecretOf(p),
               found[p][name[p]] \in Real
        PROVE  n = name[p] /\ Resolved(AliasOf[n])' = found[p][n]
    <2>1. name[p] \in Name /\ SecretOf(p) \in Secret
      BY <1>4, FitsNew
    <2>2. n = name[p]
      BY <1>1, <1>4, <2>1 DEF Shared
    <2>3. aliases'[a] \in secrets' /\ aliases'[a].value = found[p][n]
      BY <1>1, <1>2, <1>4, <2>1, <2>2, DotenvAssumption DEF Named, SecretOf
    <2> QED
      BY <2>2, <2>3 DEF Resolved
  <1> QED
    BY <1>1, <1>3, <1>4, VaultStep DEF VaultMoves, Moved

\* A name whose import is at NameSecret: what is stored is what the user meant.
LEMMA VaultHeld ==
  ASSUME TInv, VInv, [Next]_vars, NEW n \in Watched', HeldValue(n), meant' = meant
  PROVE  InVault(n) => InVault(n)'
  <1>1. ASSUME NEW p \in Import, NameSecret(p), n = name[p], found[p][n] \in Real,
               Resolved(AliasOf[n])' = found[p][n]
        PROVE  InVault(n)'
    BY <1>1 DEF HeldValue, HeldFor, InVault
  <1>2. CASE Resolved(AliasOf[n])' = Resolved(AliasOf[n])
    BY <1>2 DEF InVault
  <1> QED
    BY <1>1, <1>2, ResolvedStays

\* After NameSecret the value is in the vault.
LEMMA NamedHeld ==
  ASSUME TInv, VInv, [Next]_vars, NEW p \in Import, NameSecret(p), NEW n \in Watched', n = name[p], HeldValue(n)
  PROVE  InVault(n)'
  <1>1. /\ SecretOf(p) \in Secret /\ n \in Name /\ AliasOf[n] \in Alias
        /\ held[p].aliases \in [Alias -> Secret \cup {None}]
    BY FitsNew DEF TInv, TypeOK
  <1>2. /\ aliases' = [held[p].aliases EXCEPT ![AliasOf[n]] = SecretOf(p)] /\ name' = name /\ meant' = meant
        /\ AliasOf[n] \notin (IF found[p][n] \in Real THEN {} ELSE {AliasOf[n]})
    BY DEF NameSecret, Watched
  <1>3. found[p][n] \in Real /\ aliases'[AliasOf[n]] = SecretOf(p)
    BY <1>1, <1>2
  <1>4. AliasOf[n] \notin spoiled'
    BY <1>2 DEF Watched
  <1>5. aliases'[AliasOf[n]] \in secrets'
    BY <1>1, <1>3, <1>4, NextNamed, DotenvAssumption DEF Named
  <1>6. meant[n] \in {None, found[p][n]}
    BY <1>3 DEF HeldValue, HeldFor
  <1> QED
    BY <1>2, <1>3, <1>5, <1>6 DEF InVault, Resolved, SecretOf

\* What a step leaves an import, if it gives the user's value no new meaning.
LEMMA HeldForStays ==
  ASSUME TInv, VInv, PInv, [Next]_vars, NEW n \in Watched', HeldValue(n), meant'[n] = meant[n],
         InVault(n) => InVault(n)',
         dotenv'[n] = None <=> dotenv[n] = None, NEW q \in Import
  PROVE  HeldFor(q, n)'
  <1> TypeOK /\ LocalTypes /\ q \in Proc /\ HeldFor(q, n) /\ n \in Name
    BY DEF TInv, TypeOK, LocalTypes, HeldFiles, Proc, HeldValue, Watched
  <1> USE DotenvAssumption DEF Adding, Before, After
  <1>1. \A v : Means(n, v) => Means(n, v)'
    BY DEF Means
  <1>2. CASE Idle(q)
    <2>1. Imported(q)' = Imported(q)
      BY <1>2 DEF Idle, Imported
    <2>2. Past(q, n)' = Past(q, n)
      BY <1>2, <2>1 DEF Past, Idle
    <2> QED
      BY <1>1, <1>2, <2>2 DEF Idle, HeldFor
  <1>3. CASE Gone(q)
    BY <1>3 DEF Gone, HeldFor, Past, Imported, Ended, Empty
  <1>4. CASE Scan(q)
    <2>1. /\ pc'[q] \in {"done", "look"} /\ found'[q][n] \in {None, dotenv[n]}
          /\ n \in Imported(q)' => n \in todo'[q]
          /\ pc'[q] = "done" => Imported(q)' = {}
      BY <1>4 DEF Scan, Goto, LocalTypes, Imported, Discoverable
    <2> QED
      BY <2>1 DEF HeldFor, HeldValue, Means, Past
  <1>5. CASE LookAlias(q) \/ LoadSecrets(q) \/ StoreSecret(q) \/ LoadAliases(q)
    <2>1. /\ found'[q] = found[q] /\ todo'[q] = todo[q] /\ Imported(q)' = Imported(q)
          /\ pc'[q] \in Adding /\ pc[q] \in Adding
      BY <1>5 DEF LookAlias, LoadSecrets, StoreSecret, LoadAliases, Goto, LocalTypes, Imported
    <2> QED
      BY <2>1 DEF HeldFor, Past
  <1>6. CASE NameSecret(q)
    <2>1. /\ found'[q] = found[q] /\ todo'[q] = todo[q] \ {name[q]} /\ Imported(q)' = Imported(q) /\ name' = name
          /\ pc'[q] \in {"look", "config", "old"} /\ pc[q] \in Adding
          /\ pc'[q] = "config" => todo'[q] = {}
      BY <1>6, NextWorked DEF NameSecret, NextName, Goto, LocalTypes, Imported, Worked
    <2>2. n = name[q] => InVault(n)'
      BY <1>6, NamedHeld
    <2> QED
      BY <2>1, <2>2 DEF HeldFor, Past
  <1>7. CASE LoadOld(q) \/ DropOld(q)
    <2>1. /\ found'[q] = found[q] /\ todo'[q] = todo[q] /\ Imported(q)' = Imported(q)
          /\ pc'[q] \in {"look", "config", "drop"} /\ pc[q] \in Adding
          /\ pc'[q] = "config" => todo'[q] = {}
      BY <1>7, NextWorked DEF LoadOld, DropOld, NextName, Goto, LocalTypes, Imported, Worked
    <2> QED
      BY <2>1 DEF HeldFor, Past
  <1>8. CASE \/ LoadConfig(q) \/ Backup(q)
             \/ AssignAlias(q) /\ UNCHANGED <<pc, found, name, old, held, lines>>
             \/ SaveConfig(q) /\ (\E next \in {"rewrite", "backup"} : Goto(q, next)) /\ UNCHANGED locals
    <2>1. /\ found'[q] = found[q] /\ Imported(q)' = Imported(q)
          /\ pc'[q] \in {"assign", "backup", "rewrite"} /\ pc[q] \notin Adding
      BY <1>8 DEF LoadConfig, Backup, AssignAlias, SaveConfig, Goto, LocalTypes, Imported, locals
    <2> QED
      BY <2>1 DEF HeldFor, Past
  <1>9. CASE ReadLines(q)
    <2>1. /\ found'[q] = found[q] /\ Imported(q)' = Imported(q) /\ lines'[q] = dotenv /\ dotenv' = dotenv
          /\ pc'[q] = "replace" /\ pc[q] \notin Adding
      BY <1>9 DEF ReadLines, Goto, LocalTypes, Imported, file
    <2>2. Means(n, lines[q][n])'
      BY <1>1, <2>1 DEF HeldValue, Means
    <2> QED
      BY <2>1, <2>2 DEF HeldFor, Past
  <1> QED
    BY <1>2, <1>3, <1>4, <1>5, <1>6, <1>7, <1>8, <1>9, Stepwise DEF Acts

\* Steps that leave the file and what the user means.
LEMMA HeldMoved ==
  ASSUME TInv, VInv, PInv, [Next]_vars, NEW n \in Watched', HeldValue(n), meant' = meant, dotenv' = dotenv,
         dotenv[n] = None /\ Copied(n) => (InVault(n) \/ Copied(n))'
  PROVE  HeldValue(n)'
  <1>1. InVault(n) => InVault(n)'
    BY VaultHeld
  <1>2. \A q \in Import : HeldFor(q, n)'
    BY <1>1, HeldForStays
  <1> QED
    BY <1>1, <1>2 DEF HeldValue, Means

\* A line the user gives while no import holds the name.
LEMMA HeldGiven ==
  ASSUME TInv, NEW n \in Name, n \notin Taking, UNCHANGED <<lines, found, todo, pc>> \/ UNCHANGED locals,
         \A p \in Import : pc'[p] = pc[p],
         Means(n, dotenv[n])', dotenv'[n] = None => (InVault(n) \/ Copied(n))'
  PROVE  HeldValue(n)'
  <1>1. \A p \in Import : /\ pc'[p] # "replace" /\ n \notin Imported(p)'
                          /\ found'[p][n] = None
    BY DEF Taking, Imported, locals
  <1> QED
    BY <1>1, DotenvAssumption DEF HeldValue, HeldFor, Past

\* What a copy of a backup means by its line n.
LEMMA HeldRestored ==
  ASSUME TInv, PInv, NEW n \in Name, AliasOf[n] \notin spoiled, n \notin Taking, UNCHANGED <<locals, vault, backups>>,
         \A p \in Import : pc'[p] = pc[p],
         NEW s \in Stamp, meant' = Restored(backups[s].content),
         dotenv'[n] \in {None, backups[s].content[n]}
  PROVE  HeldValue(n)'
  <1> DEFINE line == backups[s].content[n]
             v == Resolved(AliasOf[n])
  <1>1. line \in Real \cup Alias \cup {None} /\ (line \in Alias => line = AliasOf[n]) /\ AliasOf[n] \in Alias
    BY DotenvAssumption DEF TInv, TypeOK, Content, Value, PInv, Placed
  <1>2. meant'[n] = CASE line \in Real -> line
                      [] line \in Alias -> Resolved(line)
                      [] OTHER -> IF meant[n] = v THEN meant[n] ELSE None
    BY DEF Restored
  <1>3. Resolved(AliasOf[n])' = v
    BY DEF Resolved, vault
  <1> HIDE DEF v
  <1>4. line \in Real => meant'[n] = line
    BY <1>2, DotenvAssumption
  <1>5. line \in Alias => meant'[n] = v
    BY <1>1, <1>2, DotenvAssumption DEF v
  <1>6. line = None => meant'[n] \in {None, v}
    BY <1>2, DotenvAssumption
  <1>7. line \notin Real => InVault(n)'
    BY <1>1, <1>3, <1>5, <1>6 DEF InVault
  <1>8. Means(n, dotenv[n])'
    BY <1>1, <1>4, <1>7, DotenvAssumption DEF Means
  <1>9. (InVault(n) \/ Copied(n))'
    BY <1>4, <1>7 DEF Copied
  <1> QED
    BY <1>8, <1>9, HeldGiven

\* A step that exposes no name and spoils no alias leaves what was watched.
LEMMA NextHInv ==
  ASSUME TInv, VInv, PInv, HInv, [Next]_vars
  PROVE  HInv'
  <1> SUFFICES ASSUME NEW n \in Watched' PROVE HeldValue(n)'
    BY DEF HInv
  <1> USE DotenvAssumption DEF file
  <1> TypeOK /\ LocalTypes /\ n \in Name /\ AliasOf[n] \in Alias /\ AliasOf[n] \notin spoiled
      /\ n \notin Shared /\ n \notin exposed'
    BY VaultStep DEF TInv, TypeOK, LocalTypes, HeldFiles, Watched, VaultMoves, Shared
  <1>1. ASSUME n \notin exposed PROVE HeldValue(n)
    BY <1>1 DEF HInv, Watched
  <1>2. ASSUME NEW p \in Import, Backup(p) \/ BackupKilled(p) PROVE HeldValue(n)'
    <2>1. n \notin exposed /\ n \notin Dropped /\ meant' = meant /\ dotenv' = dotenv /\ UNCHANGED vault
      BY <1>2 DEF Backup, BackupKilled
    <2>2. HeldValue(n)
      BY <1>1, <2>1
    <2>3. ASSUME dotenv[n] = None, Copied(n) PROVE (InVault(n) \/ Copied(n))'
      <3>1. backups[second].content[n] = None
        BY <2>1, <2>3 DEF Dropped
      <3>2. PICK s \in Stamp : backups[s].content[n] = meant[n]
        BY <2>3 DEF Copied
      <3>3. CASE s = second
        BY <2>1, <3>1, <3>2, <3>3 DEF InVault
      <3>4. CASE s # second
        <4>1. backups'[s] = backups[s]
          BY <1>2, <3>4 DEF Backup, BackupKilled, TInv
        <4> QED
          BY <2>1, <3>2, <4>1 DEF Copied
      <3> QED
        BY <3>3, <3>4
    <2> QED
      BY <2>1, <2>2, <2>3, HeldMoved
  <1>3. ASSUME NEW p \in Import, Replace(p) PROVE HeldValue(n)'
    <2>1. HeldValue(n) /\ pc[p] = "replace" /\ meant' = meant /\ backups' = backups
      BY <1>1, <1>3 DEF Replace, history
    <2>2. dotenv'[n] = IF n \in Imported(p) /\ lines[p][n] # None THEN AliasOf[n] ELSE lines[p][n]
      BY <1>3 DEF Replace, Write, Rewritten
    <2>3. n \in Imported(p) => InVault(n)
      BY <2>1 DEF HeldValue, HeldFor, Past, Adding, Before, After
    <2>4. Means(n, dotenv'[n])
      BY <2>1, <2>2, <2>3 DEF Means, HeldValue, HeldFor
    <2>5. dotenv'[n] = None <=> dotenv[n] = None
      BY <2>1, <2>2 DEF HeldValue, HeldFor
    <2>6. InVault(n) => InVault(n)'
      BY <2>1, VaultHeld
    <2>7. \A q \in Import : HeldFor(q, n)'
      BY <2>1, <2>5, <2>6, HeldForStays
    <2>8. Means(n, dotenv[n])' /\ (Copied(n) => Copied(n)')
      BY <2>1, <2>4, <2>6 DEF Means, Copied
    <2> QED
      BY <2>1, <2>5, <2>6, <2>7, <2>8 DEF HeldValue
  <1>4. ASSUME NEW r \in Restore \cup Uninstall, CopyBack(r) \/ CopyKilled(r) PROVE HeldValue(n)'
    <2>1. PICK s \in Stamp : s = pick[r]
      BY <1>4 DEF CopyBack, CopyKilled, TInv, Picked
    <2>2. /\ n \notin Taking /\ meant' = Restored(backups[s].content) /\ UNCHANGED <<locals, vault, backups>>
          /\ \E l : Goto(r, l)
      BY <1>4, <2>1 DEF CopyBack, CopyKilled
    <2>3. dotenv'[n] \in {None, backups[s].content[n]}
      BY <1>4, <2>1 DEF CopyBack, CopyKilled, Write, Cut
    <2>4. \A p \in Import : pc'[p] = pc[p]
      BY <2>2 DEF Goto, LocalTypes
    <2> QED
      BY <2>2, <2>3, <2>4, HeldRestored
  <1>5. CASE Edit
    <2>1. PICK m \in Name, v \in Real :
             /\ dotenv' = [dotenv EXCEPT ![m] = v] /\ meant' = [meant EXCEPT ![m] = v]
             /\ exposed' = IF m \in Taking THEN exposed \cup {m} ELSE exposed \ {m}
      BY <1>5 DEF Edit, Write
    <2>2. UNCHANGED <<vault, backups, locals, pc>>
      BY <1>5 DEF Edit
    <2>3. CASE m = n
      <3>1. n \notin Taking /\ dotenv'[n] = v /\ meant'[n] = v /\ v \notin Alias /\ v # None
        BY <2>1, <2>3 DEF TypeOK, Content
      <3> QED
        BY <2>2, <3>1, HeldGiven DEF Means
    <2>4. CASE m # n
      <3>1. n \notin exposed /\ dotenv'[n] = dotenv[n] /\ meant'[n] = meant[n]
        BY <2>1, <2>4 DEF TypeOK, Content
      <3>2. /\ InVault(n)' = InVault(n) /\ Copied(n)' = Copied(n)
            /\ \A w : Means(n, w)' = Means(n, w)
        BY <2>2, <3>1 DEF InVault, Means, Copied, Resolved, vault
      <3>3. HeldValue(n)
        BY <1>1, <3>1
      <3>4. \A q \in Import : HeldFor(q, n)'
        BY <3>1, <3>2, <3>3, HeldForStays
      <3> QED
        BY <3>1, <3>2, <3>3, <3>4 DEF HeldValue
    <2> QED
      BY <2>3, <2>4
  <1>6. CASE UNCHANGED <<dotenv, backups, meant, exposed>>
    <2>1. HeldValue(n) /\ Copied(n)' = Copied(n)
      BY <1>1, <1>6 DEF Copied
    <2> QED
      BY <1>6, <2>1, HeldMoved
  <1>7. CASE Tick
    BY <1>6, <1>7 DEF Tick, history
  <1> QED
    BY <1>2, <1>3, <1>4, <1>5, <1>6, <1>7, FileChangers

\* The real value the user last gave a name is in the file, in the vault or in a backup,
\* however imports, edits, restores, uninstalls and kills overlap, unless the value was given
\* while an import held the name, a backup of the same second replaced the only copy of a lost
\* line, the name shares its alias with another, or an import spoiled the alias.
\* (cli/main.py:1927; core/dotenv_backups.py:14; core/secret_aliases.py:121)
THEOREM NoValueLostHolds == Spec => []NoValueLost
  <1>1. Init => HInv
    <2> SUFFICES ASSUME Init, NEW n \in Watched PROVE HeldValue(n)
      BY DEF HInv
    <2>0. n \in Name
      BY DEF Watched
    <2>1. dotenv[n] \in Real \cup {None} /\ dotenv[n] \notin Alias /\ meant[n] = dotenv[n]
      BY <2>0, DotenvAssumption DEF Init
    <2>2. \A p \in Import : pc[p] = "start" /\ Imported(p) = {} /\ found[p][n] = None
      BY <2>0 DEF Init, Imported, Empty, Proc
    <2>3. \A p \in Import : HeldFor(p, n)
      BY <2>2, DotenvAssumption DEF HeldFor, Past
    <2> QED
      BY <2>1, <2>3 DEF HeldValue, Means, InVault
  <1>2. TInv /\ VInv /\ PInv /\ HInv /\ [Next]_vars => HInv'
    BY NextHInv
  <1>3. TInv /\ HInv => NoValueLost
    <2> SUFFICES ASSUME TInv, HInv, NEW n \in Name \ (exposed \cup Shared), AliasOf[n] \notin spoiled
                 PROVE  \/ meant[n] \in {None, dotenv[n], Resolved(AliasOf[n])}
                        \/ \E s \in Stamp : backups[s].content[n] = meant[n]
      BY DEF NoValueLost
    <2>1. dotenv[n] \in Real \cup Alias \cup {None}
      BY DEF TInv, TypeOK, Content, Value
    <2> QED
      BY <2>1 DEF HInv, Watched, HeldValue, Means, InVault, Copied
  <1> QED
    BY <1>1, <1>2, <1>3, InitPInv, NextPInv, VaultKept, PTL DEF Spec
=============================================================================
