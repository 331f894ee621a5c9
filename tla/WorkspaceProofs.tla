--------------------------- MODULE WorkspaceProofs ---------------------------
(***************************************************************************)
(* Proofs about Workspace, for any projects, policies, runs and applies.   *)
(* The invariant says why a workspace is safe to look into at every step   *)
(* of its construction and after: what must be a copy never is a link, and *)
(* no copy of a dotenv file shows what its run replaces.                   *)
(***************************************************************************)
EXTENDS Workspace, TLAPS

\* What a dotenv file with content c shows is none of run r's replacements.
Covers(r, c) ==
    c \in Secret => \A q \in known[r] : IF q[1] \in Denied THEN c[1] /= q[1] ELSE c[2] /= q[2]

Unbuilt == \A r \in Run : pc[r] \in {"start", "ready"} => tree[r] = NoFiles
Copied == \A r \in Run, p \in Dotenv \cup ProtectWrite : tree[r][p] /= Link
Covered == \A r \in Run, p \in Dotenv : Covers(r, tree[r][p])
PlansSafe == \A a \in Apply : todo[a] \cap Protected = {}
IInv == TypeOK /\ Unbuilt /\ Copied /\ Covered /\ PlansSafe

USE DEF Run, Content, Secret, Protected

LEMMA NoSecret == None \notin Secret /\ Hidden \notin Secret /\ Link \notin Secret /\ Text \cap Secret = {}
  BY ContentAssumption

LEMMA InitIInv == Init => IInv
  <1> SUFFICES ASSUME Init PROVE IInv
    OBVIOUS
  <1>1. TypeOK
    <2>1. source \in [Path -> Content \cup {None}]
      BY ProjectAssumption DEF Init
    <2>2. tree \in [Run -> [Path -> Content \cup {Link, None}]]
      BY DEF Init, NoFiles
    <2>3. from \in [Apply -> Run \cup {None}]
      BY DEF Init
    <2> QED
      BY <2>1, <2>2, <2>3 DEF Init, TypeOK, Ended
  <1>2. Unbuilt
    BY DEF Init, Unbuilt
  <1>3. Copied
    BY PathAssumption, ContentAssumption DEF Init, Copied, NoFiles
  <1>4. Covered
    BY PathAssumption, NoSecret DEF Init, Covered, Covers, NoFiles
  <1>5. PlansSafe
    BY RunAssumption DEF Init, PlansSafe
  <1> QED
    BY <1>1, <1>2, <1>3, <1>4, <1>5 DEF IInv

\* A file the walk makes is typed, a copy where it must be, and covered.
LEMMA MadeSafe ==
  ASSUME IInv, NEW r \in Run, NEW p \in Path, MustCopy(r, p) => source[p] /= None
  PROVE  LET c == IF MustCopy(r, p) THEN Rewritten(r, p) ELSE Link IN
         /\ c \in Content \cup {Link, None}
         /\ p \in Dotenv \cup ProtectWrite => c /= Link
         /\ p \in Dotenv => Covers(r, c)
  <1>1. source[p] \in Content \cup {None}
    BY DEF IInv, TypeOK
  <1>2. Rewritten(r, p) \in Content \cup {None}
    BY <1>1 DEF Rewritten
  <1>3. Rewritten(r, p) /= Link
    BY <1>2, ContentAssumption
  <1>4. p \in Dotenv => Covers(r, Rewritten(r, p))
    BY NoSecret DEF Rewritten, Replaced, Covers
  <1> QED
    BY <1>2, <1>3, <1>4 DEF MustCopy

LEMMA NextIInv == IInv /\ [Next]_vars => IInv'
  <1> SUFFICES ASSUME IInv, [Next]_vars PROVE IInv'
    OBVIOUS
  <1> USE RunAssumption
  <1>1. ASSUME NEW r \in Run, Discover(r) PROVE IInv'
    <2>1. PICK k \in SUBSET Found :
             \E more \in SUBSET {c \in Bound : c[1] \notin NamesOf(k)} :
                known' = [known EXCEPT ![r] = k \cup more]
      BY <1>1 DEF Discover
    <2>2. TypeOK'
      BY <1>1, <2>1, ContentAssumption DEF Discover, Found, IInv, TypeOK, Goto
    <2>3. Unbuilt'
      BY <1>1 DEF Discover, Goto, IInv, TypeOK, Unbuilt
    <2>4. Copied' /\ PlansSafe'
      BY <1>1 DEF Discover, IInv, Copied, PlansSafe
    <2>5. Covered'
      <3> SUFFICES ASSUME NEW s \in Run, NEW p \in Dotenv PROVE Covers(s, tree[s][p])'
        BY DEF Covered
      <3>1. CASE s = r
        BY <3>1, <1>1, PathAssumption, NoSecret DEF Discover, IInv, Unbuilt, NoFiles, Covers
      <3>2. CASE s /= r
        BY <3>2, <1>1, <2>1 DEF Discover, IInv, TypeOK, Covered, Covers
      <3> QED
        BY <3>1, <3>2
    <2> QED
      BY <2>2, <2>3, <2>4, <2>5 DEF IInv
  <1>2. ASSUME NEW r \in Run, \/ NoWorkspace(r) \/ Create(r) \/ Launch(r) \/ LaunchFails(r)
        PROVE  IInv'
    <2>1. TypeOK'
      BY <1>2 DEF NoWorkspace, Create, Launch, LaunchFails, Goto, IInv, TypeOK, Ended
    <2>2. Unbuilt'
      BY <1>2 DEF NoWorkspace, Create, Launch, LaunchFails, Goto, IInv, TypeOK, Unbuilt
    <2>3. Copied' /\ Covered'
      BY <1>2 DEF NoWorkspace, Create, Launch, LaunchFails, IInv, Copied, Covered, Covers
    <2>4. PlansSafe'
      BY <1>2 DEF NoWorkspace, Create, Launch, LaunchFails, IInv, TypeOK, PlansSafe
    <2> QED
      BY <2>1, <2>2, <2>3, <2>4 DEF IInv
  <1>3. ASSUME NEW r \in Run, NEW p \in Path, Materialise(r, p) PROVE IInv'
    <2> DEFINE c == IF MustCopy(r, p) THEN Rewritten(r, p) ELSE Link
    <2>1. /\ c \in Content \cup {Link, None}
          /\ p \in Dotenv \cup ProtectWrite => c /= Link
          /\ p \in Dotenv => Covers(r, c)
      BY <1>3, MadeSafe DEF Materialise
    <2>2. tree' = [tree EXCEPT ![r][p] = c]
      BY <1>3 DEF Materialise
    <2> HIDE DEF c
    <2>3. TypeOK'
      BY <1>3, <2>1, <2>2 DEF Materialise, IInv, TypeOK
    <2>4. Unbuilt' /\ PlansSafe'
      BY <1>3, <2>2 DEF Materialise, IInv, TypeOK, Unbuilt, PlansSafe
    <2>5. Copied'
      BY <2>1, <2>2, PathAssumption DEF IInv, TypeOK, Copied
    <2>6. Covered'
      BY <1>3, <2>1, <2>2, PathAssumption DEF Materialise, IInv, TypeOK, Covered, Covers
    <2> QED
      BY <2>3, <2>4, <2>5, <2>6 DEF IInv
  <1>4. ASSUME NEW r \in Run, NEW p \in Path, MaterialiseFails(r, p) PROVE IInv'
    BY <1>4 DEF MaterialiseFails, Goto, IInv, TypeOK, Ended, Unbuilt, Copied, Covered, Covers, PlansSafe
  <1>5. ASSUME NEW r \in Run, NEW p \in Path,
               AgentWrite(r, p) \/ AgentReplace(r, p) \/ AgentDelete(r, p)
        PROVE  IInv'
    <2>1. pc[r] = "up" /\ UNCHANGED <<pc, known, todo, from, edits>>
      BY <1>5 DEF AgentWrite, AgentReplace, AgentDelete
    <2>2. /\ source' \in [Path -> Content \cup {None}]
          /\ \/ tree' = tree
             \/ \E c \in Text \cup {None} : tree' = [tree EXCEPT ![r][p] = c]
      BY <1>5 DEF AgentWrite, AgentReplace, AgentDelete, IInv, TypeOK
    <2>3. TypeOK'
      <3> DEFINE Tree == [Path -> Content \cup {Link, None}]
      <3>1. tree \in [Run -> Tree]
        BY DEF IInv, TypeOK
      <3>2. \A c \in Text \cup {None} : [tree[r] EXCEPT ![p] = c] \in Tree
        BY <3>1
      <3>3. tree' \in [Run -> Tree]
        <4>1. ASSUME NEW c \in Text \cup {None}, tree' = [tree EXCEPT ![r][p] = c]
              PROVE  tree' \in [Run -> Tree]
          <5>1. tree' = [tree EXCEPT ![r] = [tree[r] EXCEPT ![p] = c]]
            BY <4>1
          <5> HIDE DEF Tree
          <5> QED
            BY <5>1, <3>1, <3>2
        <4> QED
          BY <2>2, <3>1, <4>1
      <3> QED
        BY <2>1, <2>2, <3>3 DEF IInv, TypeOK
    <2>4. Unbuilt' /\ PlansSafe'
      BY <2>1, <2>2 DEF IInv, TypeOK, Unbuilt, PlansSafe
    <2>5. Copied'
      BY <2>2, PathAssumption, ContentAssumption DEF IInv, TypeOK, Copied
    <2>6. Covered'
      BY <2>1, <2>2, PathAssumption, NoSecret DEF IInv, TypeOK, Covered, Covers
    <2> QED
      BY <2>3, <2>4, <2>5, <2>6 DEF IInv
  <1>6. ASSUME NEW r \in Run, Finish(r) PROVE IInv'
    <2>1. /\ tree' = tree \/ tree' = [tree EXCEPT ![r] = NoFiles]
          /\ pc' \in {[pc EXCEPT ![r] = "kept"], [pc EXCEPT ![r] = "done"]}
          /\ UNCHANGED <<source, known, todo, from, edits>>
      BY <1>6 DEF Finish, Goto
    <2>2. TypeOK'
      <3>1. tree' \in [Run -> [Path -> Content \cup {Link, None}]]
        BY <2>1 DEF IInv, TypeOK, NoFiles
      <3>2. pc' \in [Run \cup Apply -> Ended \cup {"start", "ready", "fill", "up", "kept", "copy"}]
        BY <2>1 DEF IInv, TypeOK, Ended
      <3> QED
        BY <2>1, <3>1, <3>2 DEF IInv, TypeOK
    <2>3. Unbuilt' /\ PlansSafe'
      BY <2>1 DEF IInv, TypeOK, Unbuilt, PlansSafe
    <2>4. Copied'
      BY <2>1, PathAssumption, ContentAssumption DEF IInv, TypeOK, Copied, NoFiles
    <2>5. Covered'
      BY <2>1, PathAssumption, NoSecret DEF IInv, TypeOK, Covered, Covers, NoFiles
    <2> QED
      BY <2>2, <2>3, <2>4, <2>5 DEF IInv
  <1>7. ASSUME NEW a \in Apply, NEW r \in Run, StartApply(a, r) PROVE IInv'
    BY <1>7 DEF StartApply, Plan, Goto, IInv, TypeOK, Unbuilt, Copied, Covered, Covers, PlansSafe
  <1>8. ASSUME NEW a \in Apply, NoWorkspaceFound(a) \/ EndApply(a) PROVE IInv'
    BY <1>8 DEF NoWorkspaceFound, EndApply, Goto, IInv, TypeOK, Ended, Unbuilt, Copied, Covered, Covers, PlansSafe
  <1>9. ASSUME NEW a \in Apply, NEW p \in Path, CopyBack(a, p) PROVE IInv'
    <2>1. TypeOK'
      BY <1>9 DEF CopyBack, IsFile, IInv, TypeOK
    <2>2. Unbuilt' /\ Copied' /\ Covered' /\ PlansSafe'
      BY <1>9 DEF CopyBack, IInv, TypeOK, Unbuilt, Copied, Covered, Covers, PlansSafe
    <2> QED
      BY <2>1, <2>2 DEF IInv
  <1>10. ASSUME NEW a \in Apply, NEW p \in Path, CopyFails(a, p) PROVE IInv'
    BY <1>10 DEF CopyFails, Goto, IInv, TypeOK, Ended, Unbuilt, Copied, Covered, Covers, PlansSafe
  <1>11. ASSUME NEW p \in Path, Edit(p) PROVE IInv'
    <2>1. TypeOK'
      BY <1>11 DEF Edit, IInv, TypeOK
    <2>2. Unbuilt' /\ Copied' /\ Covered' /\ PlansSafe'
      BY <1>11 DEF Edit, IInv, Unbuilt, Copied, Covered, Covers, PlansSafe
    <2> QED
      BY <2>1, <2>2 DEF IInv
  <1>12. ASSUME NEW c \in Run \cup Apply, Crash(c) PROVE IInv'
    BY <1>12 DEF Crash, Goto, IInv, TypeOK, Ended, Unbuilt, Copied, Covered, Covers, PlansSafe
  <1>13. CASE UNCHANGED vars
    BY <1>13 DEF vars, IInv, TypeOK, Unbuilt, Copied, Covered, Covers, PlansSafe
  <1> QED
    BY <1>1, <1>2, <1>3, <1>4, <1>5, <1>6, <1>7, <1>8, <1>9, <1>10, <1>11, <1>12, <1>13
    DEF Next, RunStep, ApplyStep

LEMMA Inductive == Spec => []IInv
  BY InitIInv, NextIInv, PTL DEF Spec

\* Every variable keeps its type, whatever is edited, killed or applied meanwhile.
THEOREM TypeCorrect == Spec => []TypeOK
  <1>1. IInv => TypeOK
    BY DEF IInv
  <1> QED
    BY <1>1, Inductive, PTL

\* No dotenv file of a workspace ever shows a value its run replaces or a name it
\* removes (SecretsHidden), whatever is edited, killed or applied meanwhile.
THEOREM NoSecretShown == Spec => []SecretsHidden
  <1>1. IInv => SecretsHidden
    BY DEF IInv, Copied, Covered, Covers, SecretsHidden, Sees
  <1> QED
    BY <1>1, Inductive, PTL

\* A protected file changes by the user's hand only (ProtectedKept).
THEOREM ProtectedFilesKept == Spec => ProtectedKept
  <1> DEFINE Safe == ProtectWrite \cup (Dotenv \cap ByDefault)
  <1>1. ASSUME IInv, Next, NEW p \in Safe, source'[p] /= source[p] PROVE Edit(p)
    <2> p \in Path /\ p \in Protected
      BY PathAssumption
    <2>1. ASSUME NEW r \in Run, RunStep(r) PROVE FALSE
      <3>1. PICK q \in Path : AgentWrite(r, q)
        BY <1>1, <2>1 DEF RunStep, Discover, NoWorkspace, Create, Launch, LaunchFails, Finish,
                          Materialise, MaterialiseFails, AgentReplace, AgentDelete
      <3>2. tree[r][q] = Link
        BY <3>1, <1>1 DEF AgentWrite
      <3>3. q \notin Safe
        BY <3>2, <1>1 DEF IInv, Copied
      <3> QED
        BY <3>1, <3>3, <1>1 DEF AgentWrite, IInv, TypeOK
    <2>2. ASSUME NEW a \in Apply, ApplyStep(a) PROVE FALSE
      <3>1. PICK q \in Path : CopyBack(a, q)
        BY <1>1, <2>2 DEF ApplyStep, NoWorkspaceFound, EndApply, StartApply, CopyFails
      <3>2. q \notin Protected
        BY <3>1, <1>1 DEF CopyBack, IInv, PlansSafe
      <3> QED
        BY <3>1, <3>2, <1>1 DEF CopyBack, IInv, TypeOK
    <2>3. ASSUME NEW c \in Run \cup Apply, Crash(c) PROVE FALSE
      BY <2>3, <1>1 DEF Crash
    <2>4. ASSUME NEW q \in Path, Edit(q) PROVE Edit(p)
      <3>1. q = p
        BY <2>4, <1>1 DEF Edit, IInv, TypeOK
      <3> QED
        BY <2>4, <3>1
    <2> QED
      BY <1>1, <2>1, <2>2, <2>3, <2>4 DEF Next
  <1>2. IInv /\ [Next]_vars =>
           [\A p \in Safe : source'[p] /= source[p] => Edit(p)]_vars
    BY <1>1 DEF vars
  <1> QED
    BY <1>2, Inductive, PTL DEF Spec, ProtectedKept
=============================================================================
