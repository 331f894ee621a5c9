--------------------------- MODULE VaultKeyProofs ---------------------------
(***************************************************************************)
(* Type correctness and the single device key of VaultKey, for any sets of *)
(* commands, any cleanups in their midst, and with or without overlapping  *)
(* updates of the store.                                                   *)
(***************************************************************************)
EXTENDS VaultKey, TLAPS

\* The type invariant is inductive.
LEMMA TypeStep == TypeOK /\ [Next]_vars => TypeOK'
<1> SUFFICES ASSUME TypeOK, [Next]_vars
             PROVE  TypeOK'
  OBVIOUS
<1> USE KeyAssumption DEF TypeOK, Proc, Key, Ended, Goto, cleaning
<1>1. ASSUME NEW p \in Proc, Open(p) \/ Create(p)
      PROVE  TypeOK'
  <2>1. CASE Open(p)
    <3>1. CASE keyfile = NoFile
      BY <2>1, <3>1 DEF Open
    <3>2. CASE keyfile /= NoFile
      <4>1. /\ key' = [key EXCEPT ![p] = keyfile] /\ pc' = [pc EXCEPT ![p] = "ready"]
            /\ keyfile' = keyfile /\ data' = data /\ snap' = snap /\ got' = got
            /\ fresh' \subseteq fresh \cup {p} /\ cpc' = cpc /\ todo' = todo
        BY <2>1, <3>2 DEF Open
      <4>2. key' \in [Proc -> Key \cup {NoKey, EmptyKey}]
        BY <3>2, <4>1
      <4> QED
        BY <4>1, <4>2
    <3> QED
      BY <3>1, <3>2
  <2>2. CASE Create(p)
    BY <2>2 DEF Create
  <2> QED
    BY <1>1, <2>1, <2>2
<1>2. ASSUME NEW p \in Proc, Fill(p) \/ FillGone(p) \/ FillFails(p)
      PROVE  TypeOK'
  <2>1. CASE Fill(p)
    BY <2>1 DEF Fill
  <2>2. CASE FillGone(p)
    <3>1. CASE keyfile = NoFile
      BY <2>2, <3>1 DEF FillGone
    <3>2. CASE keyfile /= NoFile
      <4>1. key' = [key EXCEPT ![p] = p] /\ pc' = [pc EXCEPT ![p] = "ready"]
        BY <2>2, <3>2 DEF FillGone
      <4>2. key' \in [Proc -> Key \cup {NoKey, EmptyKey}]
        BY <4>1
      <4> QED
        BY <2>2, <4>1, <4>2 DEF FillGone
    <3> QED
      BY <3>1, <3>2
  <2>3. CASE FillFails(p)
    BY <2>3 DEF FillFails, KeyRemoved
  <2> QED
    BY <1>2, <2>1, <2>2, <2>3
<1>3. ASSUME NEW p \in Proc, PutRead(p)
      PROVE  TypeOK'
  BY <1>3 DEF PutRead
<1>4. ASSUME NEW p \in Proc, PutWrite(p)
      PROVE  TypeOK'
  <2>1. [snap[p] EXCEPT ![p] = key[p]] \in [Putter -> Key \cup {NoKey, EmptyKey}]
    OBVIOUS
  <2> QED
    BY <1>4, <2>1 DEF PutWrite, NoData
<1>5. ASSUME NEW p \in Proc, Get(p)
      PROVE  TypeOK'
  BY <1>5 DEF Get
<1>6. ASSUME NEW p \in Proc, Crash(p)
      PROVE  TypeOK'
  BY <1>6 DEF Crash, NoData
<1>7. ASSUME NEW c \in Cleaner, CleanStart(c) \/ RemoveKey(c) \/ RemoveStore(c) \/ CleanEnd(c)
      PROVE  TypeOK'
  <2>1. CASE CleanStart(c)
    BY <2>1 DEF CleanStart
  <2>2. CASE RemoveKey(c)
    BY <2>2 DEF RemoveKey, KeyRemoved
  <2>3. CASE RemoveStore(c)
    BY <2>3 DEF RemoveStore, NoData
  <2>4. CASE CleanEnd(c)
    BY <2>4 DEF CleanEnd
  <2> QED
    BY <1>7, <2>1, <2>2, <2>3, <2>4
<1>8. CASE UNCHANGED vars
  BY <1>8 DEF vars, cleaning
<1> QED
  BY <1>1, <1>2, <1>3, <1>4, <1>5, <1>6, <1>7, <1>8 DEF Next

\* VaultKey is typed in every state.
THEOREM VaultTyped == Spec => []TypeOK
<1>1. Init => TypeOK
  BY KeyAssumption DEF Init, TypeOK, Proc, Key, NoData, Ended
<1> QED
  BY <1>1, TypeStep, PTL DEF Spec

\* What OneKey needs to be inductive.  A command that has not looked for the key is not
\* fresh, and holds and stores nothing.  The file is empty while its creator, the only
\* one, is about to fill it; a creator whose file is gone is not fresh.  Neither a command
\* nor a copy of the store that is about to be written back holds, for a fresh command, a
\* key that the file does not.
Good(k) == k /= NoKey => keyfile \in Key /\ k = keyfile
IInv ==
    /\ \A p \in fresh : Good(key[p]) /\ (pc[p] \in {"ready", "write", "done"} => key[p] /= NoKey)
    /\ \A i \in Putter : i \in fresh => Good(data[i]) /\ \A p \in Proc : Good(snap[p][i])
    /\ \A p \in Proc : pc[p] = "open" => key[p] = NoKey /\ p \notin fresh
    /\ \A p \in Proc : pc[p] = "fill" => keyfile = EmptyKey
    /\ \A p, q \in Proc : pc[p] = "fill" /\ pc[q] = "fill" => p = q
    /\ \A p \in Proc : pc[p] = "fillGone" => p \notin fresh
    /\ \A i \in Putter : pc[i] = "open" => data[i] = NoKey /\ \A p \in Proc : snap[p][i] = NoKey

\* Once a key is in the file it stays until it is removed, when nobody is fresh;
\* before that nobody fresh has one to use.
LEMMA KeyStep == TypeOK /\ IInv /\ [Next]_vars => IInv'
<1> SUFFICES ASSUME TypeOK, IInv, [Next]_vars
             PROVE  IInv'
  OBVIOUS
<1> USE KeyAssumption DEF TypeOK, IInv, Good, Proc, Key, Ended, Goto, cleaning
<1>1. ASSUME NEW p \in Proc, Open(p)
      PROVE  IInv'
  <2>1. CASE keyfile = NoFile
    BY <1>1, <2>1 DEF Open
  <2>2. CASE keyfile /= NoFile
    <3>1. /\ key' = [key EXCEPT ![p] = keyfile] /\ pc' = [pc EXCEPT ![p] = "ready"]
          /\ keyfile' = keyfile /\ data' = data /\ snap' = snap
          /\ fresh' = (IF keyfile = EmptyKey THEN fresh ELSE fresh \cup {p})
          /\ pc[p] = "open"
      BY <1>1, <2>2 DEF Open
    <3>2. \A q \in fresh' : Good(key[q])' /\ (pc'[q] \in {"ready", "write", "done"} => key'[q] /= NoKey)
      BY <2>2, <3>1
    <3>3. \A i \in Putter : i \in fresh' => Good(data[i])' /\ \A q \in Proc : Good(snap[q][i])'
      BY <3>1
    <3> QED
      BY <3>1, <3>2, <3>3
  <2> QED
    BY <2>1, <2>2
<1>2. ASSUME NEW p \in Proc, Create(p)
      PROVE  IInv'
  <2>1. CASE keyfile = NoFile
    <3>1. /\ keyfile' = EmptyKey /\ pc' = [pc EXCEPT ![p] = "fill"] /\ pc[p] = "create"
          /\ key' = key /\ data' = data /\ snap' = snap /\ fresh' = fresh
      BY <1>2, <2>1 DEF Create
    <3>2. \A q \in Proc : pc[q] /= "fill"
      BY <2>1
    <3>3. /\ \A q \in fresh : key[q] = NoKey
          /\ \A i \in Putter : i \in fresh => data[i] = NoKey /\ \A q \in Proc : snap[q][i] = NoKey
      BY <2>1
    <3> QED
      BY <3>1, <3>2, <3>3
  <2>2. CASE keyfile /= NoFile
    BY <1>2, <2>2 DEF Create
  <2> QED
    BY <2>1, <2>2
<1>3. ASSUME NEW p \in Proc, Fill(p) \/ FillGone(p) \/ FillFails(p)
      PROVE  IInv'
  <2>1. CASE Fill(p)
    <3>1. /\ keyfile = EmptyKey /\ keyfile' = p /\ pc[p] = "fill"
          /\ key' = [key EXCEPT ![p] = p] /\ pc' = [pc EXCEPT ![p] = "ready"]
          /\ data' = data /\ snap' = snap /\ fresh' = fresh
      BY <2>1 DEF Fill
    <3>2. /\ \A q \in fresh : key[q] = NoKey
          /\ \A i \in Putter : i \in fresh => data[i] = NoKey
          /\ \A q \in Proc, i \in Putter : i \in fresh => snap[q][i] = NoKey
      BY <3>1
    <3>3. \A q \in Proc : pc'[q] /= "fill"
      BY <3>1
    <3> QED
      BY <3>1, <3>2, <3>3
  <2>2. CASE FillGone(p)
    <3>1. /\ keyfile' = keyfile /\ data' = data /\ snap' = snap /\ fresh' = fresh
          /\ p \notin fresh
          /\ pc' = [pc EXCEPT ![p] = "failed"] \/ pc' = [pc EXCEPT ![p] = "ready"]
          /\ \A q \in Proc : q /= p => key'[q] = key[q]
      BY <2>2 DEF FillGone
    <3>2. pc'[p] \in {"failed", "ready"} /\ \A q \in Proc : q /= p => pc'[q] = pc[q]
      BY <3>1
    <3>3. \A q \in Proc : pc'[q] = "open" => q /= p /\ pc[q] = "open"
      BY <3>2
    <3>4. \A q \in Proc : pc'[q] \in {"fill", "fillGone"} => q /= p /\ pc'[q] = pc[q]
      BY <3>2
    <3>5. \A q \in fresh' : key'[q] = key[q]
      BY <3>1
    <3> QED
      BY <3>1, <3>3, <3>4, <3>5
  <2>3. CASE FillFails(p)
    <3>1. /\ data' = data /\ snap' = snap /\ key' = key /\ keyfile' = NoFile
          /\ \A q \in Proc : /\ pc'[q] /= "fill"
                             /\ pc'[q] = "open" => pc[q] = "open"
          /\ (keyfile \in {NoFile, EmptyKey} /\ fresh' = fresh) \/ fresh' = {}
      BY <2>3 DEF FillFails, KeyRemoved
    <3>2. \A q \in Proc : pc'[q] = "fillGone" => q \notin fresh'
      <4>1. CASE pc[p] = "fill"
        BY <2>3, <4>1 DEF FillFails, KeyRemoved
      <4>2. CASE pc[p] = "fillGone"
        BY <2>3, <4>2 DEF FillFails, KeyRemoved
      <4> QED
        BY <2>3, <4>1, <4>2 DEF FillFails
    <3>3. \A q \in fresh' : Good(key[q])' /\ (pc'[q] \in {"ready", "write", "done"} => key'[q] /= NoKey)
      <4>1. CASE fresh' = {}
        BY <4>1
      <4>2. CASE keyfile \in {NoFile, EmptyKey} /\ fresh' = fresh
        <5>1. \A q \in fresh : key[q] = NoKey /\ pc[q] \notin {"ready", "write", "done"}
          BY <4>2
        <5>2. \A q \in Proc : pc'[q] \in {"ready", "write", "done"} => pc[q] = pc'[q]
          BY <2>3 DEF FillFails
        <5> QED
          BY <3>1, <4>2, <5>1, <5>2
      <4> QED
        BY <3>1, <4>1, <4>2
    <3>4. \A i \in Putter : i \in fresh' => Good(data[i])' /\ \A q \in Proc : Good(snap[q][i])'
      <4>1. CASE fresh' = {}
        BY <4>1
      <4>2. CASE keyfile \in {NoFile, EmptyKey} /\ fresh' = fresh
        <5>1. \A i \in Putter : i \in fresh => data[i] = NoKey /\ \A q \in Proc : snap[q][i] = NoKey
          BY <4>2
        <5> QED
          BY <3>1, <4>2, <5>1
      <4> QED
        BY <3>1, <4>1, <4>2
    <3> QED
      BY <3>1, <3>2, <3>3, <3>4
  <2> QED
    BY <1>3, <2>1, <2>2, <2>3
<1>4. ASSUME NEW p \in Proc, PutRead(p)
      PROVE  IInv'
  BY <1>4 DEF PutRead
<1>5. ASSUME NEW p \in Proc, PutWrite(p)
      PROVE  IInv'
  <2>1. /\ data' = [snap[p] EXCEPT ![p] = key[p]] /\ snap' = [snap EXCEPT ![p] = NoData]
        /\ keyfile' = keyfile /\ key' = key /\ pc' = [pc EXCEPT ![p] = "done"]
        /\ fresh' = fresh /\ pc[p] = "write"
    BY <1>5 DEF PutWrite
  <2>2. \A i \in Putter : data'[i] = IF i = p THEN key[p] ELSE snap[p][i]
    BY <2>1
  <2>3. \A i \in Putter : i \in fresh => Good(data[i])'
    <3>1. \A i \in Putter : i \in fresh => Good(key[i]) /\ Good(snap[p][i])
      BY <2>1
    <3> QED
      BY <2>1, <2>2, <3>1
  <2>4. \A q \in Proc, i \in Putter : snap'[q][i] \in {snap[q][i], NoKey}
    BY <2>1 DEF NoData
  <2>5. \A i \in Putter : pc'[i] = "open" => data'[i] = NoKey
    BY <2>1, <2>2
  <2> QED
    BY <2>1, <2>3, <2>4, <2>5
<1>6. ASSUME NEW p \in Proc, Get(p)
      PROVE  IInv'
  BY <1>6 DEF Get
<1>7. ASSUME NEW p \in Proc, Crash(p)
      PROVE  IInv'
  BY <1>7 DEF Crash, NoData
<1>8. ASSUME NEW c \in Cleaner, CleanStart(c) \/ CleanEnd(c)
      PROVE  IInv'
  BY <1>8 DEF CleanStart, CleanEnd
<1>9. ASSUME NEW c \in Cleaner, RemoveKey(c)
      PROVE  IInv'
  BY <1>9 DEF RemoveKey, KeyRemoved
<1>10. ASSUME NEW c \in Cleaner, RemoveStore(c)
       PROVE  IInv'
  BY <1>10 DEF RemoveStore, NoData
<1>11. CASE UNCHANGED vars
  BY <1>11 DEF vars
<1> QED
  BY <1>1, <1>2, <1>3, <1>4, <1>5, <1>6, <1>7, <1>8, <1>9, <1>10, <1>11 DEF Next

\* However many commands race to create the device key, die at it or are overtaken by a
\* cleanup, those that begin after the last file was removed, and do not find it empty, hold the key
\* in the file.  (crypto/key_provider.py:31, cli/project.py:93)
THEOREM SingleKey == Spec => []OneKey
<1>1. Init => IInv
  BY KeyAssumption DEF Init, IInv, Good, Proc, Key, NoData
<1>2. IInv => OneKey
  BY DEF IInv, Good, OneKey
<1> QED
  BY <1>1, <1>2, KeyStep, VaultTyped, PTL DEF Spec
=============================================================================
