------------------------------- MODULE Dotenv -------------------------------
(***************************************************************************)
(* The life of a dotenv file: `secrets import` moves its real values into  *)
(* the vault and leaves placeholders, `secrets restore` and `uninstall`    *)
(* put a backup back, and the user edits the file in between.              *)
(*                                                                         *)
(* The dotenv file is scanned, copied to the backup and read again to be   *)
(* rewritten: three reads at three moments.  The vault's files and         *)
(* agentsecure.json are loaded, changed and saved whole, with no lock: an  *)
(* import that saves what it loaded undoes what another saved in between.  *)
(* A process may be killed between any two steps, and a copy               *)
(* (shutil.copy2 writes in place) half way through.                        *)
(***************************************************************************)
EXTENDS Naturals

CONSTANTS
    Name,         \* variable names, by the number of their line
    SecretName,   \* those with a marker such as API_KEY or TOKEN in the name
    Alias,        \* alias ids; also stands for the text AGENTSECURE_ALIAS_...
    AliasOf,      \* _alias_id_for_env_name
    Initial,      \* the contents the file may have at first
    Real,         \* real secret values (a credential URL where the name has no marker)
    None,         \* no line, no value, no secret
    Import,       \* `secrets import` processes, and imports by guided setup
    Restore,      \* `secrets restore` processes
    Uninstall,    \* `uninstall` processes; one in both sets runs either command
    MaxEdits,     \* bound on the user's edits
    MaxSecond,    \* bound on the clock, in seconds
    MaxKills      \* bound on the processes that are killed

Proc == Import \cup Restore \cup Uninstall
Value == Real \cup Alias \cup {None}
Content == [Name -> Value]
Empty == [n \in Name |-> None]
Stamp == 0 .. MaxSecond
NoBackupFile == [content |-> Empty, mtime |-> 0]
\* An entry of secrets.enc.json: its id is a random token, here the value it holds with the
\* import and the name it was made for.
Secret == [import : Import, name : Name, value : Real \cup Alias]
NoAliases == [a \in Alias |-> None]

ASSUME DotenvAssumption ==
    /\ Name \subseteq Nat /\ AliasOf \in [Name -> Alias] /\ SecretName \subseteq Name
    /\ Initial \subseteq [Name -> Real \cup {None}]
    /\ Import \cap (Restore \cup Uninstall) = {}
    /\ Real \cap Alias = {} /\ None \notin Real \cup Alias \cup Name \cup Secret \cup Stamp
    /\ MaxEdits \in Nat /\ MaxSecond \in Nat /\ MaxKills \in Nat

VARIABLES
    dotenv,    \* the content of the file
    mtime,     \* its modification time (nanoseconds: every write has its own)
    written,   \* the last modification time given out
    secrets,   \* the entries of secrets.enc.json
    aliases,   \* aliases.json: the secret an alias names, or None
    assigned,  \* the aliases listed in agentsecure.json
    backups,   \* [Stamp -> [content, mtime]]: the backup files by the second in their name
    second,    \* wall clock
    pc,        \* where each process is
    pick,      \* restore, uninstall: the backup file that was looked up
    found,     \* import: the discoveries, by name
    todo,      \* import: names whose alias is still to be put, or to be assigned
    name,      \* import: the name add_alias is at
    old,       \* import: the secret its alias named when add_alias looked (existing)
    held,      \* import: its copies of the files it is about to save
    lines,     \* import: the lines read for the rewrite
    edits,     \* number of edits made
    kills,     \* number of processes killed
    meant,     \* history: the last real value the user put or restored, by name
    taken,     \* history: the content of the last backup, None after a copy that
               \* was killed or put a backup back that is not the latest
    exposed,   \* history: names whose value was given after a running import read it, or
               \* whose line was missing from a file backed up twice in one second
    spoiled    \* history: aliases with an entry in a file that was saved from an older copy,
               \* the entry changed since, or that were given a placeholder for a secret

vault == <<secrets, aliases>>
file == <<dotenv, mtime, written>>
locals == <<found, todo, name, old, held, lines>>
count == <<edits, kills>>
history == <<meant, taken, exposed, spoiled>>
vars == <<file, vault, assigned, backups, second, pc, pick, locals, count, history>>

Ended == {"done", "failed", "dead", "uninstalled"}
Exists(s) == backups[s].mtime > 0
NothingHeld == [secrets |-> {}, aliases |-> NoAliases, config |-> {}]

Init ==
    /\ dotenv \in Initial /\ mtime = 1 /\ written = 1
    /\ secrets = {} /\ aliases = NoAliases /\ assigned = {}
    /\ backups = [s \in Stamp |-> NoBackupFile] /\ second = 0
    /\ pc = [p \in Proc |-> "start"]
    /\ pick = [r \in Restore \cup Uninstall |-> None]
    /\ found = [p \in Import |-> Empty] /\ lines = found
    /\ todo = [p \in Import |-> {}]
    /\ name = [p \in Import |-> None] /\ old = name
    /\ held = [p \in Import |-> NothingHeld]
    /\ edits = 0 /\ kills = 0 /\ meant = dotenv /\ taken = Empty /\ exposed = {} /\ spoiled = {}

Goto(p, label) == pc' = [pc EXCEPT ![p] = label]
\* An import that ends leaves nothing in memory.
Leave(p, label) ==
    /\ Goto(p, label)
    /\ found' = [found EXCEPT ![p] = Empty] /\ lines' = [lines EXCEPT ![p] = Empty]
    /\ todo' = [todo EXCEPT ![p] = {}]
    /\ name' = [name EXCEPT ![p] = None] /\ old' = [old EXCEPT ![p] = None]
    /\ held' = [held EXCEPT ![p] = NothingHeld]
Kill == kills < MaxKills /\ kills' = kills + 1
\* The file as the user's last write left it: a new modification time.
Write(content) == dotenv' = content /\ mtime' = written + 1 /\ written' = written + 1

(***************************************************************************)
(* secrets import                                                          *)
(***************************************************************************)
\* is_discoverable_secret: a marker in the name, or a credential URL; a
\* placeholder is no URL, but is long enough to be a secret value.
Discoverable(n, v) == v \in Real \/ (v \in Alias /\ n \in SecretName)

Scan(p) ==
    /\ p \in Import /\ pc[p] = "start"
    /\ LET names == {n \in Name : Discoverable(n, dotenv[n])} IN
       /\ found' = [found EXCEPT ![p] = [n \in Name |-> IF n \in names THEN dotenv[n] ELSE None]]
       /\ todo' = [todo EXCEPT ![p] = names]
       /\ Goto(p, IF names = {} THEN "done" ELSE "look")
    /\ UNCHANGED <<file, vault, assigned, backups, second, pick, name, old, held, lines, count, history>>

\* The names in the order of their lines.
First(names) == {n \in names : \A m \in names : n <= m}
Imported(p) == {n \in Name : found[p][n] /= None}
SecretOf(p) == [import |-> p, name |-> name[p], value |-> found[p][name[p]]]

(* add_alias: look the alias up, put the new secret, put the alias, and if  *)
(* there was one delete the secret it named.                                *)
LookAlias(p) ==
    /\ pc[p] = "look"
    /\ \E n \in First(todo[p]) :
          /\ name' = [name EXCEPT ![p] = n]
          /\ old' = [old EXCEPT ![p] = aliases[AliasOf[n]]]
    /\ Goto(p, "secrets")
    /\ UNCHANGED <<file, vault, assigned, backups, second, pick, found, todo, held, lines, count, history>>

LoadSecrets(p) ==
    /\ pc[p] = "secrets"
    /\ held' = [held EXCEPT ![p].secrets = secrets]
    /\ Goto(p, "store")
    /\ UNCHANGED <<file, vault, assigned, backups, second, pick, found, todo, name, old, lines, count, history>>

\* Aliases of the secrets others have stored since p loaded the file: saving undoes that.
Unseen(p) == {AliasOf[i.name] : i \in secrets \ held[p].secrets}

StoreSecret(p) ==
    /\ pc[p] = "store"
    /\ secrets' = held[p].secrets \cup {SecretOf(p)}
    /\ spoiled' = spoiled \cup Unseen(p)
    /\ held' = [held EXCEPT ![p].secrets = {}]
    /\ Goto(p, "aliases")
    /\ UNCHANGED <<file, aliases, assigned, backups, second, pick, found, todo, name, old, lines, count,
                   meant, taken, exposed>>

LoadAliases(p) ==
    /\ pc[p] = "aliases"
    /\ held' = [held EXCEPT ![p].aliases = aliases]
    /\ Goto(p, "name")
    /\ UNCHANGED <<file, vault, assigned, backups, second, pick, found, todo, name, old, lines, count, history>>

\* Where p is when the alias is in place and nothing is left to delete.
NextName(p) == IF todo[p] \subseteq {name[p]} THEN "config" ELSE "look"

NameSecret(p) ==
    /\ pc[p] = "name"
    /\ LET a == AliasOf[name[p]] IN
       /\ aliases' = [held[p].aliases EXCEPT ![a] = SecretOf(p)]
       /\ spoiled' = spoiled \cup {b \in Alias \ {a} : aliases[b] /= held[p].aliases[b]}
                             \cup (IF found[p][name[p]] \in Real THEN {} ELSE {a})
    /\ todo' = [todo EXCEPT ![p] = @ \ {name[p]}]
    /\ held' = [held EXCEPT ![p].aliases = NoAliases]
    /\ Goto(p, IF old[p] = None THEN NextName(p) ELSE "old")
    /\ UNCHANGED <<file, secrets, assigned, backups, second, pick, found, name, old, lines, count,
                   meant, taken, exposed>>

LoadOld(p) ==
    /\ pc[p] = "old"
    /\ IF old[p] \in secrets
       THEN held' = [held EXCEPT ![p].secrets = secrets] /\ Goto(p, "drop")
       ELSE UNCHANGED held /\ Goto(p, NextName(p))
    /\ UNCHANGED <<file, vault, assigned, backups, second, pick, found, todo, name, old, lines, count, history>>

DropOld(p) ==
    /\ pc[p] = "drop"
    /\ secrets' = held[p].secrets \ {old[p]}
    /\ spoiled' = spoiled \cup Unseen(p)
    /\ held' = [held EXCEPT ![p].secrets = {}]
    /\ Goto(p, NextName(p))
    /\ UNCHANGED <<file, aliases, assigned, backups, second, pick, found, todo, name, old, lines, count,
                   meant, taken, exposed>>

(* assign_to_project: the configuration, then each alias, then the save.    *)
LoadConfig(p) ==
    /\ pc[p] = "config"
    /\ held' = [held EXCEPT ![p].config = assigned]
    /\ todo' = [todo EXCEPT ![p] = Imported(p)]
    /\ Goto(p, "assign")
    /\ UNCHANGED <<file, vault, assigned, backups, second, pick, found, name, old, lines, count, history>>

AssignAlias(p) ==
    /\ pc[p] = "assign"
    /\ \E n \in First(todo[p]) :
          IF aliases[AliasOf[n]] = None THEN Leave(p, "failed")
          ELSE todo' = [todo EXCEPT ![p] = @ \ {n}] /\ UNCHANGED <<pc, found, name, old, held, lines>>
    /\ UNCHANGED <<file, vault, assigned, backups, second, pick, count, history>>

\* Mutant: the project lists the names.
AssignedNames(p) == Imported(p)
Assigned(p) == {AliasOf[n] : n \in Imported(p)}

\* --keep-file, --no-backup, neither.
AfterAssign(p) == Leave(p, "done") \/ \E next \in {"rewrite", "backup"} : Goto(p, next) /\ UNCHANGED locals

\* Mutant: the list in agentsecure.json is replaced, not merged into.
SaveReplacing(p) ==
    /\ pc[p] = "assign" /\ todo[p] = {}
    /\ assigned' = Assigned(p)
    /\ spoiled' = spoiled \cup (assigned \ held[p].config)
    /\ AfterAssign(p)
    /\ UNCHANGED <<file, vault, backups, second, pick, count, meant, taken, exposed>>
SaveConfig(p) ==
    /\ pc[p] = "assign" /\ todo[p] = {}
    /\ assigned' = held[p].config \cup Assigned(p)
    /\ spoiled' = spoiled \cup (assigned \ held[p].config)
    /\ AfterAssign(p)
    /\ UNCHANGED <<file, vault, backups, second, pick, count, meant, taken, exposed>>

\* Lines the file has lost to a killed copy, and the backup of this second still has.
Dropped == {n \in Name : dotenv[n] = None /\ backups[second].content[n] /= None}

\* copy2 keeps the modification time; a second backup in one second has the
\* name of the first and overwrites it.
Backup(p) ==
    /\ pc[p] = "backup"
    /\ backups' = [backups EXCEPT ![second] = [content |-> dotenv, mtime |-> mtime]]
    /\ taken' = IF taken = None THEN None ELSE dotenv
    /\ exposed' = exposed \cup Dropped
    /\ Goto(p, "rewrite")
    /\ UNCHANGED <<file, vault, assigned, second, pick, locals, count, meant, spoiled>>

\* The first k lines of a copy that was killed.
Cut(content, k) == [n \in Name |-> IF n <= k THEN content[n] ELSE None]
\* Killed inside the copy: a file with lines missing, and the time of now.
BackupKilled(p) ==
    /\ Kill
    /\ pc[p] = "backup"
    /\ \E k \in Name \cup {0} :
          backups' = [backups EXCEPT ![second] = [content |-> Cut(dotenv, k), mtime |-> written + 1]]
    /\ written' = written + 1
    /\ Leave(p, "dead")
    /\ taken' = None
    /\ exposed' = exposed \cup Dropped
    /\ UNCHANGED <<dotenv, mtime, vault, assigned, second, pick, edits, meant, spoiled>>

\* Mutant: the lines as the scan saw them.
ReadScanned(p) ==
    /\ pc[p] = "rewrite"
    /\ lines' = [lines EXCEPT ![p] = found[p]]
    /\ Goto(p, "replace")
    /\ UNCHANGED <<file, vault, assigned, backups, second, pick, found, todo, name, old, held, count, history>>
\* The lines as they are by now.
ReadLines(p) ==
    /\ pc[p] = "rewrite"
    /\ lines' = [lines EXCEPT ![p] = dotenv]
    /\ Goto(p, "replace")
    /\ UNCHANGED <<file, vault, assigned, backups, second, pick, found, todo, name, old, held, count, history>>

\* Every line whose name was imported, whatever its value is by now.
Rewritten(p) == [n \in Name |->
    IF n \in Imported(p) /\ lines[p][n] /= None THEN AliasOf[n] ELSE lines[p][n]]

Replace(p) ==
    /\ pc[p] = "replace"
    /\ Write(Rewritten(p))
    /\ Leave(p, "done")
    /\ UNCHANGED <<vault, assigned, backups, second, pick, count, history>>

(***************************************************************************)
(* secrets restore and uninstall                                           *)
(***************************************************************************)
\* Mutant: the least modification time.
Oldest == CHOOSE s \in Stamp : /\ Exists(s)
    /\ \A o \in Stamp : Exists(o) => backups[o].mtime >= backups[s].mtime
\* latest_dotenv_backup: newest modification time, then the greater name.
Latest == CHOOSE s \in Stamp : /\ Exists(s)
    /\ \A o \in Stamp : Exists(o) =>
          \/ backups[o].mtime < backups[s].mtime
          \/ backups[o].mtime = backups[s].mtime /\ o <= s

\* What an alias resolves to.
Resolved(a) == IF aliases[a] \in secrets THEN aliases[a].value ELSE None

\* The names whose line a running import will write as it was: those it found, and
\* all of them between the read and the write of the file.
Taking == {n \in Name : \E p \in Import : pc[p] = "replace" \/ n \in Imported(p)}

\* What the user who puts content back means: the real values in it and those its
\* placeholders stand for.  A line that a killed copy has lost still means what was
\* imported; a value typed since is given up.
Restored(content) == [n \in Name |->
    CASE content[n] \in Real -> content[n]
      [] content[n] \in Alias -> Resolved(content[n])
      [] OTHER -> IF meant[n] = Resolved(AliasOf[n]) THEN meant[n] ELSE None]

\* The backup is looked up; uninstall then asks the user.
LookLatest(r) ==
    /\ r \in Restore \cup Uninstall /\ pc[r] = "start" /\ \E s \in Stamp : Exists(s)
    /\ pick' = [pick EXCEPT ![r] = Latest]
    /\ (r \in Restore /\ Goto(r, "copy")) \/ (r \in Uninstall /\ Goto(r, "ask"))
    /\ UNCHANGED <<file, vault, assigned, backups, second, locals, count, history>>

\* --backup PATH
Choose(r) ==
    /\ r \in Restore /\ pc[r] = "start"
    /\ \E s \in Stamp : Exists(s) /\ pick' = [pick EXCEPT ![r] = s]
    /\ Goto(r, "copy")
    /\ UNCHANGED <<file, vault, assigned, backups, second, locals, count, history>>

CopyBack(r) ==
    /\ pc[r] \in {"copy", "ask"}
    /\ dotenv' = backups[pick[r]].content /\ mtime' = backups[pick[r]].mtime
    /\ meant' = Restored(backups[pick[r]].content)
    /\ taken' = IF pick[r] = Latest THEN taken ELSE None
    /\ exposed' = exposed \cup Taking
    /\ pick' = [pick EXCEPT ![r] = None]
    /\ Goto(r, IF pc[r] = "copy" THEN "done" ELSE "cleanup")
    /\ UNCHANGED <<written, vault, assigned, backups, second, locals, count, spoiled>>

\* Killed inside the copy back: lines of the file are missing.
CopyKilled(r) ==
    /\ Kill
    /\ pc[r] \in {"copy", "ask"}
    /\ \E k \in Name \cup {0} : Write(Cut(backups[pick[r]].content, k))
    /\ meant' = Restored(backups[pick[r]].content)
    /\ taken' = None
    /\ exposed' = exposed \cup Taking
    /\ pick' = [pick EXCEPT ![r] = None]
    /\ Goto(r, "dead")
    /\ UNCHANGED <<vault, assigned, backups, second, locals, edits, spoiled>>

NothingToRestore(r) ==
    /\ r \in Restore /\ pc[r] = "start" /\ \A s \in Stamp : ~Exists(s)
    /\ Goto(r, "failed")
    /\ UNCHANGED <<file, vault, assigned, backups, second, pick, locals, count, history>>

\* No backup, --no-restore-dotenv, or the user says no.
KeepFile(u) ==
    /\ u \in Uninstall /\ pc[u] \in {"start", "ask"}
    /\ pick' = [pick EXCEPT ![u] = None]
    /\ Goto(u, "cleanup")
    /\ UNCHANGED <<file, vault, assigned, backups, second, locals, count, history>>

\* agentsecure.json is removed.
Cleanup(u) ==
    /\ pc[u] = "cleanup"
    /\ assigned' = {}
    /\ Goto(u, "uninstalled")
    /\ UNCHANGED <<file, vault, backups, second, pick, locals, count, history>>

(***************************************************************************)
(* The environment                                                         *)
(***************************************************************************)
Edit ==
    /\ edits < MaxEdits
    /\ \E n \in Name, v \in Real :
          /\ v /= dotenv[n]
          /\ Write([dotenv EXCEPT ![n] = v])
          /\ meant' = [meant EXCEPT ![n] = v]
          /\ exposed' = IF n \in Taking THEN exposed \cup {n} ELSE exposed \ {n}
    /\ edits' = edits + 1
    /\ UNCHANGED <<vault, assigned, backups, second, pc, pick, locals, kills, taken, spoiled>>

Tick ==
    /\ second < MaxSecond /\ second' = second + 1
    /\ UNCHANGED <<file, vault, assigned, backups, pc, pick, locals, count, history>>

\* A restore or an uninstall that is killed between two steps leaves nothing behind: it is
\* one that takes no further step.
Crash(p) ==
    /\ Kill
    /\ pc[p] \notin Ended \cup {"start"}
    /\ Leave(p, "dead")
    /\ UNCHANGED <<file, vault, assigned, backups, second, pick, edits, history>>

Next ==
    \/ \E p \in Import :
          \/ Scan(p)
          \/ LookAlias(p) \/ LoadSecrets(p) \/ StoreSecret(p) \/ LoadAliases(p) \/ NameSecret(p)
          \/ LoadOld(p) \/ DropOld(p)
          \/ LoadConfig(p) \/ AssignAlias(p) \/ SaveConfig(p)
          \/ Backup(p) \/ BackupKilled(p) \/ ReadLines(p) \/ Replace(p)
          \/ Crash(p)
    \/ \E r \in Restore \cup Uninstall : LookLatest(r) \/ CopyBack(r) \/ CopyKilled(r)
    \/ \E r \in Restore : Choose(r) \/ NothingToRestore(r)
    \/ \E u \in Uninstall : KeepFile(u) \/ Cleanup(u)
    \/ Edit \/ Tick

Spec == Init /\ [][Next]_vars

(***************************************************************************)
(* Properties                                                              *)
(***************************************************************************)
Steps == {"start", "look", "secrets", "store", "aliases", "name", "old", "drop", "config", "assign",
          "backup", "rewrite", "replace", "copy", "ask", "cleanup"}
TypeOK ==
    /\ dotenv \in Content /\ meant \in Content /\ taken \in Content \cup {None}
    /\ exposed \subseteq Name /\ spoiled \subseteq Alias
    /\ secrets \subseteq Secret /\ aliases \in [Alias -> Secret \cup {None}] /\ assigned \subseteq Alias
    /\ DOMAIN backups = Stamp /\ \A s \in Stamp : backups[s].content \in Content
    /\ pc \in [Proc -> Ended \cup Steps]
    /\ pick \in [Restore \cup Uninstall -> Stamp \cup {None}]
    /\ found \in [Import -> Content] /\ lines \in [Import -> Content]
    /\ todo \in [Import -> SUBSET Name] /\ name \in [Import -> Name \cup {None}]
    /\ old \in [Import -> Secret \cup {None}]
    /\ held \in [Import -> [secrets : SUBSET Secret, aliases : [Alias -> Secret \cup {None}],
                            config : SUBSET Alias]]
    /\ mtime <= written /\ second \in Stamp /\ edits \in 0 .. MaxEdits /\ kills \in 0 .. MaxKills

\* Two names of the file (API_KEY, api_key) with one alias id.
Shared == {n \in Name : \E m \in Name \ {n} : AliasOf[m] = AliasOf[n]}

\* However imports, restores, uninstalls and kills overlap, the real value the user last gave
\* a name is in the file, in the vault or in a backup, but for five accidents, each limited to
\* the name or the alias it befalls: a running import had found the name, or read the file to
\* rewrite it, before the value was given; a copy back was killed before the line, and an import
\* backed the file up in the very second of the backup that has it; another name of the file
\* has the same alias id; an import took the placeholder for the secret; a file of the vault
\* was saved over an entry of the alias that was written after the file was loaded.
\* (cli/main.py:1927; core/dotenv_backups.py:14; core/secret_aliases.py:121)
NoValueLost ==
    \A n \in Name \ (exposed \cup Shared) :
        \/ AliasOf[n] \in spoiled
        \/ meant[n] \in {None, dotenv[n], Resolved(AliasOf[n])}
        \/ \E s \in Stamp : backups[s].content[n] = meant[n]

\* A placeholder in the file names an alias that resolves to a real value and is
\* assigned to the project, until uninstall removes the project's configuration: but for
\* the aliases whose entry another import saved an older copy of a file over, or that
\* an import gave the placeholder it found.  (core/secret_aliases.py:135)
PlaceholderBacked ==
    \A n \in Name : dotenv[n] \in Alias \ spoiled =>
        /\ Resolved(dotenv[n]) \in Real
        /\ dotenv[n] \in assigned \/ \E u \in Uninstall : pc[u] = "uninstalled"

\* As long as no copy was killed and none put back a backup that was not the latest by
\* then, the backup `secrets restore` and `uninstall` look up has the content of the last
\* backup taken, whatever imports, edits and restores came between: the order of the
\* modification times is that of the backups.
RestoresTaken ==
    [][\A r \in Restore \cup Uninstall :
          LookLatest(r) /\ taken /= None => backups[pick'[r]].content = taken]_vars

\* docs/vault-and-backups.md: the vault stores real secrets.
VaultHoldsReal == \A a \in Alias : Resolved(a) \in Real \cup {None}
=============================================================================
