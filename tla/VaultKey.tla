------------------------------ MODULE VaultKey ------------------------------
(***************************************************************************)
(* The device key and the store encrypted under it.                        *)
(*                                                                         *)
(* The first command to need the vault creates device.key: it opens the    *)
(* file with O_EXCL and writes the key into it, two steps.  A command that *)
(* finds the file reads it, whatever is in it by then; an empty file gives *)
(* an empty key, which the cipher takes like any other.  A ciphertext is   *)
(* stood for by the key it was made with: decrypt checks a MAC, so it      *)
(* answers under that key and returns nothing under another.               *)
(*                                                                         *)
(* `cleanup` removes both files, one after the other, whatever other       *)
(* commands are at: one of them may hold a key that is gone, a copy of the *)
(* store that is gone, or the open file it is about to write its key into. *)
(***************************************************************************)
CONSTANTS
    Putter,    \* commands that store a secret; its id is named by the command
    Getter,    \* commands that read one
    Cleaner,   \* `cleanup` and `uninstall` of the project whose store it is
    NoKey,     \* no key in memory, no ciphertext
    NoFile,    \* device.key does not exist
    EmptyKey,  \* device.key is empty; the key that is read from it
    Overlap    \* may two commands be between the read and the write of the store?

Proc == Putter \cup Getter
\* urandom: every creator makes a key of its own, named by it.
Key == Proc

ASSUME KeyAssumption ==
    /\ Putter \cap Getter = {} /\ Cleaner \cap Proc = {} /\ Overlap \in BOOLEAN
    /\ {NoKey, NoFile, EmptyKey} \cap Proc = {}
    /\ NoKey /= EmptyKey /\ NoFile /= EmptyKey /\ NoKey /= NoFile

VARIABLES
    keyfile,   \* content of device.key
    key,       \* the key each process has loaded
    data,      \* secrets.enc.json: [Putter -> key of its ciphertext, or NoKey]
    snap,      \* the copy of secrets.enc.json a put has read
    got,       \* the ids a getter has decrypted
    pc,
    cpc,       \* where each cleanup is
    todo,      \* the files a cleanup has found and not yet removed
    fresh      \* history: commands that began after the last file was removed,
               \* and did not find device.key created but still empty

cleaning == <<cpc, todo, fresh>>
vars == <<keyfile, key, data, snap, got, pc, cleaning>>
Ended == {"done", "failed", "dead"}
NoData == [i \in Putter |-> NoKey]
MayRead == Overlap \/ \A q \in Proc : pc[q] /= "write"

Init ==
    /\ keyfile = NoFile /\ key = [p \in Proc |-> NoKey]
    /\ data = NoData /\ snap = [p \in Proc |-> NoData]
    /\ got = [p \in Proc |-> {}] /\ pc = [p \in Proc |-> "open"]
    /\ cpc = [c \in Cleaner |-> "start"] /\ todo = [c \in Cleaner |-> {}] /\ fresh = {}

Goto(p, label) == pc' = [pc EXCEPT ![p] = label]

\* Mutant: the key is what the file held at first sight.
OpenFile(p) ==
    /\ pc[p] = "open"
    /\ Goto(p, IF keyfile = NoFile THEN "create" ELSE "ready")
    /\ key' = [key EXCEPT ![p] = keyfile]
    /\ fresh' = IF keyfile = EmptyKey THEN fresh ELSE fresh \cup {p}
    /\ UNCHANGED <<keyfile, data, snap, got, cpc, todo>>
\* get_or_create_key, its test for the file.
Open(p) ==
    /\ pc[p] = "open"
    /\ IF keyfile = NoFile
       THEN Goto(p, "create") /\ UNCHANGED key
       ELSE Goto(p, "ready") /\ key' = [key EXCEPT ![p] = keyfile]
    /\ fresh' = IF keyfile = EmptyKey THEN fresh ELSE fresh \cup {p}
    /\ UNCHANGED <<keyfile, data, snap, got, cpc, todo>>

\* Mutant: without O_EXCL the second creator writes over the first.
CreateAnyway(p) ==
    /\ pc[p] = "create"
    /\ keyfile' = EmptyKey /\ Goto(p, "fill")
    /\ UNCHANGED <<key, data, snap, got, cleaning>>
\* os.open with O_CREAT | O_EXCL: one creator wins, the others raise.
Create(p) ==
    /\ pc[p] = "create"
    /\ IF keyfile = NoFile
       THEN keyfile' = EmptyKey /\ Goto(p, "fill")
       ELSE Goto(p, "failed") /\ UNCHANGED keyfile
    /\ UNCHANGED <<key, data, snap, got, cleaning>>

\* write, chmod: the key is there for everyone who opens the file from now on.
Fill(p) ==
    /\ pc[p] = "fill"
    /\ keyfile' = p /\ key' = [key EXCEPT ![p] = p]
    /\ Goto(p, "ready")
    /\ UNCHANGED <<data, snap, got, cleaning>>

\* Its file has been removed: it writes into a file nobody else can open, and the chmod
\* that follows succeeds only if another command has created a new one by then.
FillGone(p) ==
    /\ pc[p] = "fillGone"
    /\ IF keyfile = NoFile
       THEN Goto(p, "failed") /\ UNCHANGED key
       ELSE Goto(p, "ready") /\ key' = [key EXCEPT ![p] = p]
    /\ UNCHANGED <<keyfile, data, snap, got, cleaning>>

\* device.key is removed, also from under the command that is writing it.
KeyRemoved ==
    /\ keyfile' = NoFile
    /\ fresh' = {}

\* The write fails: the file at the path is removed, whoever made it.  (The chmod of a
\* file that exists is taken not to fail.)
FillFails(p) ==
    /\ pc[p] \in {"fill", "fillGone"}
    /\ pc' = [q \in Proc |-> IF q = p THEN "failed" ELSE IF pc[q] = "fill" THEN "fillGone" ELSE pc[q]]
    /\ IF keyfile = NoFile \/ pc[p] = "fill"
       THEN keyfile' = NoFile /\ UNCHANGED fresh
       ELSE KeyRemoved
    /\ UNCHANGED <<key, data, snap, got, cpc, todo>>

PutRead(p) ==
    /\ p \in Putter /\ pc[p] = "ready" /\ MayRead
    /\ snap' = [snap EXCEPT ![p] = data]
    /\ Goto(p, "write")
    /\ UNCHANGED <<keyfile, key, data, got, cleaning>>

PutWrite(p) ==
    /\ pc[p] = "write"
    /\ data' = [snap[p] EXCEPT ![p] = key[p]]
    /\ snap' = [snap EXCEPT ![p] = NoData]
    /\ Goto(p, "done")
    /\ UNCHANGED <<keyfile, key, got, cleaning>>

Decrypts(p, i) == data[i] = key[p]

\* get: a missing id, or a ciphertext of another key, is None.
Get(p) ==
    /\ p \in Getter /\ pc[p] = "ready"
    /\ \E i \in Putter : got' = [got EXCEPT ![p] = IF Decrypts(p, i) THEN {i} ELSE {}]
    /\ Goto(p, "done")
    /\ UNCHANGED <<keyfile, key, data, snap, cleaning>>

Crash(p) ==
    /\ pc[p] \notin Ended
    /\ Goto(p, "dead")
    /\ key' = [key EXCEPT ![p] = NoKey] /\ snap' = [snap EXCEPT ![p] = NoData]
    /\ UNCHANGED <<keyfile, data, got, cleaning>>

\* rmtree lists the directory once and removes what it listed, one file at a time; what
\* appears meanwhile makes its last step fail, when the rest is gone.
CleanStart(c) ==
    /\ cpc[c] = "start"
    /\ todo' = [todo EXCEPT ![c] = (IF keyfile = NoFile THEN {} ELSE {"key"})
                                   \cup (IF data = NoData THEN {} ELSE {"store"})]
    /\ cpc' = [cpc EXCEPT ![c] = "remove"]
    /\ UNCHANGED <<keyfile, key, data, snap, got, pc, fresh>>

RemoveKey(c) ==
    /\ cpc[c] = "remove" /\ "key" \in todo[c]
    /\ KeyRemoved
    /\ pc' = [q \in Proc |-> IF pc[q] = "fill" THEN "fillGone" ELSE pc[q]]
    /\ todo' = [todo EXCEPT ![c] = @ \ {"key"}]
    /\ UNCHANGED <<key, data, snap, got, cpc>>

RemoveStore(c) ==
    /\ cpc[c] = "remove" /\ "store" \in todo[c]
    /\ data' = NoData
    /\ todo' = [todo EXCEPT ![c] = @ \ {"store"}]
    /\ fresh' = {}
    /\ UNCHANGED <<keyfile, key, snap, got, pc, cpc>>

\* It is done, fails or is killed.
CleanEnd(c) ==
    /\ cpc[c] = "remove"
    /\ cpc' = [cpc EXCEPT ![c] = "done"]
    /\ todo' = [todo EXCEPT ![c] = {}]
    /\ UNCHANGED <<keyfile, key, data, snap, got, pc, fresh>>

Next ==
    \/ \E p \in Proc :
          \/ Open(p) \/ Create(p) \/ Fill(p) \/ FillGone(p) \/ FillFails(p)
          \/ PutRead(p) \/ PutWrite(p) \/ Get(p) \/ Crash(p)
    \/ \E c \in Cleaner : CleanStart(c) \/ RemoveKey(c) \/ RemoveStore(c) \/ CleanEnd(c)

Spec == Init /\ [][Next]_vars

(***************************************************************************)
(* Properties                                                              *)
(***************************************************************************)
TypeOK ==
    /\ keyfile \in Key \cup {NoFile, EmptyKey}
    /\ key \in [Proc -> Key \cup {NoKey, EmptyKey}]
    /\ data \in [Putter -> Key \cup {NoKey, EmptyKey}]
    /\ snap \in [Proc -> [Putter -> Key \cup {NoKey, EmptyKey}]]
    /\ got \in [Proc -> SUBSET Putter]
    /\ pc \in [Proc -> Ended \cup {"open", "create", "fill", "fillGone", "ready", "write"}]
    /\ cpc \in [Cleaner -> {"start", "remove", "done"}]
    /\ todo \in [Cleaner -> SUBSET {"key", "store"}]
    /\ fresh \subseteq Proc

\* A command that opens device.key between its creation and the write into it works
\* with an empty key, and nobody reads what it stores.  That is the whole of the damage:
\* however creators race, fail and die, and whatever those commands, or commands that a
\* cleanup overtook, still write, every other one that begins after the last file was
\* removed works with the key in the file, which is a real one, and what it has stored
\* can be read with it.  (crypto/key_provider.py:31, cli/project.py:93)
OneKey == \A p \in fresh :
    /\ pc[p] \in {"ready", "write", "done"} => keyfile \in Key /\ key[p] = keyfile
    /\ p \in Putter /\ data[p] /= NoKey => keyfile \in Key /\ data[p] = keyfile
=============================================================================
