--------------------------- MODULE MeshBoardProofs ---------------------------
(***************************************************************************)
(* Type correctness and well-rooted threads of MeshBoard, for any sets of  *)
(* agents, messages and approvals.                                         *)
(***************************************************************************)
EXTENDS MeshBoard, TLAPS

\* The board starts typed and every step keeps it typed.
LEMMA TypeInit == BoardInit => BoardOK
BY DEF BoardInit, EmptyMesh, BoardOK, MeshState

\* Storing a message under an id keeps the board typed.
LEMMA PutMessage ==
    ASSUME BoardOK, NEW m \in Msg, NEW x \in Message,
           mesh' = [mesh EXCEPT !.messages[m] = x]
    PROVE  BoardOK'
BY DEF BoardOK, MeshState

\* Every step keeps the board typed.
LEMMA ReadMessage ==
  ASSUME NEW e \in Message
  PROVE  [e EXCEPT !.read = TRUE] \in Message
  BY DEF Message

LEMMA TypeStep == BoardOK /\ [BoardNext]_mesh => BoardOK'
<1> SUFFICES ASSUME BoardOK, [BoardNext]_mesh
             PROVE  BoardOK'
  OBVIOUS
<1> USE NoneAssumption DEF BoardOK, MeshState, Message, Decision, WakeMode, Stored
<1>1. ASSUME NEW m \in Msg, Post(m)
      PROVE  BoardOK'
  <2> PICK from \in Agent, to \in Agent :
        mesh' = [mesh EXCEPT !.messages[m] =
                    [from |-> from, to |-> to, thread |-> m, reply |-> None, read |-> FALSE]]
    BY <1>1 DEF Post
  <2>1. [from |-> from, to |-> to, thread |-> m, reply |-> None, read |-> FALSE] \in Message
    OBVIOUS
  <2> QED
    BY <2>1, PutMessage
<1>2. ASSUME NEW m \in Msg, Acknowledge(m)
      PROVE  BoardOK'
  <2>1. [mesh.messages[m] EXCEPT !.read = TRUE] \in Message
    <3>1. mesh.messages[m] \in Message
      BY <1>2 DEF Acknowledge
    <3> QED
      BY ONLY <3>1, ReadMessage
  <2>2. mesh' = [mesh EXCEPT !.messages[m] = [mesh.messages[m] EXCEPT !.read = TRUE]]
    BY <1>2 DEF Acknowledge
  <2> QED
    BY <2>1, <2>2, PutMessage
<1>3. ASSUME NEW m \in Msg, NEW re \in Msg, Reply(m, re)
      PROVE  BoardOK'
  BY <1>3 DEF Reply
<1>4. ASSUME NEW a \in Approval, Request(a) \/ Decide(a)
      PROVE  BoardOK'
  BY <1>4 DEF Request, Decide
<1>5. ASSUME NEW g \in Agent, Enlist(g) \/ Configure(g)
      PROVE  BoardOK'
  BY <1>5 DEF Enlist, Configure
<1>6. CASE UNCHANGED mesh
  BY <1>6
<1> QED
  BY <1>1, <1>2, <1>3, <1>4, <1>5, <1>6 DEF BoardNext

\* MeshBoard is typed in every state.
THEOREM BoardTyped == BoardSpec => []BoardOK
BY TypeInit, TypeStep, PTL DEF BoardSpec

\* What is stored stays, with its sender, addressee, thread and what it replies to; what
\* was read stays read.
LEMMA BoardKeeps ==
    ASSUME BoardOK, [BoardNext]_mesh
    PROVE  /\ \A m \in Msg : Stored(m) =>
                 /\ Stored(m)'
                 /\ mesh'.messages[m].from = mesh.messages[m].from
                 /\ mesh'.messages[m].to = mesh.messages[m].to
                 /\ mesh'.messages[m].thread = mesh.messages[m].thread
                 /\ mesh'.messages[m].reply = mesh.messages[m].reply
                 /\ mesh.messages[m].read => mesh'.messages[m].read
           /\ \A a \in Approval : mesh.approvals[a] # None => mesh'.approvals[a] # None
<1> USE DEF BoardOK, MeshState, Stored
<1>1. CASE \E m \in Msg : Post(m) \/ \E re \in Msg : Reply(m, re)
  <2>0. PICK m \in Msg : ~Stored(m) /\ \E x : mesh' = [mesh EXCEPT !.messages[m] = x]
    BY <1>1 DEF Post, Reply
  <2>1. PICK x : mesh' = [mesh EXCEPT !.messages[m] = x]
    BY <2>0
  <2>2. \A n \in Msg : Stored(n) => mesh'.messages[n] = mesh.messages[n]
    BY <2>0, <2>1
  <2> QED
    BY <2>1, <2>2
<1>2. ASSUME NEW m \in Msg, Acknowledge(m)
      PROVE  /\ mesh'.approvals = mesh.approvals
             /\ \A n \in Msg : Stored(n) =>
                  /\ Stored(n)'
                  /\ mesh'.messages[n].from = mesh.messages[n].from
                  /\ mesh'.messages[n].to = mesh.messages[n].to
                  /\ mesh'.messages[n].thread = mesh.messages[n].thread
                  /\ mesh'.messages[n].reply = mesh.messages[n].reply
                  /\ mesh.messages[n].read => mesh'.messages[n].read
  <2>1. /\ \A n \in Msg \ {m} : mesh'.messages[n] = mesh.messages[n]
        /\ mesh'.messages[m] = [mesh.messages[m] EXCEPT !.read = TRUE]
        /\ mesh'.approvals = mesh.approvals
    BY <1>2 DEF Acknowledge
  <2>2. mesh.messages[m] \in Message
    BY <1>2 DEF Acknowledge
  <2>3. [mesh.messages[m] EXCEPT !.read = TRUE] \in Message
    BY <2>2 DEF Message
  <2> QED
    BY <2>1, <2>2, <2>3, NoneAssumption DEF Message
<1>3. CASE \E a \in Approval : Request(a) \/ Decide(a)
  BY <1>3, NoneAssumption DEF Request, Decide
<1>4. CASE \E g \in Agent : Enlist(g) \/ Configure(g)
  BY <1>4 DEF Enlist, Configure
<1>5. CASE UNCHANGED mesh
  BY <1>5
<1> QED
  BY <1>1, <1>2, <1>3, <1>4, <1>5 DEF BoardNext

\* No step uproots a thread: ids are stored once, and what a message says of its
\* thread never changes.
LEMMA ThreadsStep == BoardOK /\ ThreadsRooted /\ [BoardNext]_mesh => ThreadsRooted'
<1> SUFFICES ASSUME BoardOK, ThreadsRooted, [BoardNext]_mesh
             PROVE  ThreadsRooted'
  OBVIOUS
<1> USE NoneAssumption
<1>1. ASSUME NEW m \in Msg, Post(m)
      PROVE  ThreadsRooted'
  <2> PICK from \in Agent, to \in Agent :
        mesh' = [mesh EXCEPT !.messages[m] =
                    [from |-> from, to |-> to, thread |-> m, reply |-> None, read |-> FALSE]]
    BY <1>1 DEF Post
  <2>1. mesh'.messages[m] = [from |-> from, to |-> to, thread |-> m, reply |-> None, read |-> FALSE]
    BY DEF BoardOK, MeshState
  <2>2. \A n \in Msg \ {m} : mesh'.messages[n] = mesh.messages[n]
    BY DEF BoardOK, MeshState
  <2>3. mesh.messages[m] = None
    BY <1>1 DEF Post, Stored
  <2> QED
    BY <2>1, <2>2, <2>3 DEF ThreadsRooted, Stored, BoardOK, MeshState, Message
<1>2. ASSUME NEW m \in Msg, Acknowledge(m)
      PROVE  ThreadsRooted'
  <2>1. mesh'.messages[m] = [mesh.messages[m] EXCEPT !.read = TRUE]
    BY <1>2 DEF Acknowledge, BoardOK, MeshState
  <2>2. \A n \in Msg \ {m} : mesh'.messages[n] = mesh.messages[n]
    BY <1>2 DEF Acknowledge, BoardOK, MeshState
  <2>3. mesh.messages[m] \in Message
    BY <1>2 DEF Acknowledge, Stored, BoardOK, MeshState
  <2>4. \A n \in Msg : Stored(n)' = Stored(n)
    BY <2>1, <2>2, <2>3 DEF Stored, Message
  <2>5. \A n \in Msg : Stored(n) =>
           /\ mesh'.messages[n].thread = mesh.messages[n].thread
           /\ mesh'.messages[n].reply = mesh.messages[n].reply
           /\ mesh'.messages[n].from = mesh.messages[n].from
           /\ mesh'.messages[n].to = mesh.messages[n].to
           /\ mesh.messages[n].read => mesh'.messages[n].read
    BY <2>1, <2>2, <2>3 DEF Message
  <2>6. \A n \in Msg : Stored(n) => /\ mesh.messages[n].thread \in Msg
                                    /\ mesh.messages[n].reply \in Msg \cup {None}
    BY DEF BoardOK, MeshState, Message, Stored
  <2> QED
    BY <2>4, <2>5, <2>6 DEF ThreadsRooted
<1>3. ASSUME NEW m \in Msg, NEW re \in Msg, Reply(m, re)
      PROVE  ThreadsRooted'
  <2>1. mesh'.messages[m] = [from |-> mesh.messages[re].to, to |-> mesh.messages[re].from,
                             thread |-> mesh.messages[re].thread, reply |-> re, read |-> FALSE]
    BY <1>3 DEF Reply, BoardOK, MeshState
  <2>2. \A n \in Msg \ {m} : mesh'.messages[n] = mesh.messages[n]
    BY <1>3 DEF Reply, BoardOK, MeshState
  <2>3. /\ mesh.messages[m] = None
        /\ mesh.messages[re] /= None /\ mesh.messages[re] \in Message
        /\ mesh.messages[re].read
    BY <1>3 DEF Reply, Stored, BoardOK, MeshState
  <2> QED
    BY <2>1, <2>2, <2>3 DEF ThreadsRooted, Stored, BoardOK, MeshState, Message
<1>4. ASSUME mesh'.messages = mesh.messages
      PROVE  ThreadsRooted'
  BY <1>4 DEF ThreadsRooted, Stored
<1>5. ASSUME NEW a \in Approval, Request(a) \/ Decide(a)
      PROVE  mesh'.messages = mesh.messages
  BY <1>5 DEF Request, Decide, BoardOK, MeshState
<1>6. ASSUME NEW g \in Agent, Enlist(g) \/ Configure(g)
      PROVE  mesh'.messages = mesh.messages
  BY <1>6 DEF Enlist, Configure, BoardOK, MeshState
<1>7. CASE UNCHANGED mesh
  BY <1>4, <1>7
<1> QED
  BY <1>1, <1>2, <1>3, <1>4, <1>5, <1>6, <1>7 DEF BoardNext

\* Every thread on the board has its first message, and every reply its
\* original, read and in the same thread.
THEOREM ThreadsAreRooted == BoardSpec => []ThreadsRooted
<1>1. BoardInit => ThreadsRooted
  BY DEF BoardInit, EmptyMesh, ThreadsRooted, Stored
<1> QED
  BY <1>1, ThreadsStep, BoardTyped, PTL DEF BoardSpec
=============================================================================
