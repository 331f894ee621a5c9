------------------------------ MODULE MeshProofs ------------------------------
(***************************************************************************)
(* Proofs about Mesh: types, that replies return to their sender whatever  *)
(* commands overwrite of each other, and, without overlap, that the mesh   *)
(* implements MeshBoard.                                                   *)
(***************************************************************************)
EXTENDS Mesh, MeshBoardProofs

\* What kind of command each process is.
LEMMA Kinds ==
  /\ \A p \in Sender : /\ p \in Proc /\ p \in Msg
        /\ Label(p) = {"start", "save", "record", "done", "denied", "dead"}
        /\ Target(p) = {} /\ Draft(p) = Message
  /\ \A p \in Replier : /\ p \in Proc /\ p \in Msg
        /\ Label(p) = {"start", "saveRead", "recordRead", "reply", "load", "save",
                       "record", "done", "failed", "denied", "dead"}
        /\ Target(p) = Msg /\ Draft(p) = Message
  /\ \A p \in Reader : /\ p \in Proc /\ p \notin Msg
        /\ Label(p) = {"start", "saveRead", "recordRead", "done", "failed", "dead"}
        /\ Target(p) = Msg /\ Draft(p) = {}
  /\ \A p \in Resolver : /\ p \in Proc /\ p \notin Msg
        /\ Label(p) = {"start", "save", "record", "done", "failed", "dead"}
        /\ Target(p) = Approval /\ Draft(p) = Decision
  /\ \A p \in Requester \cup Registrar \cup Configurer : /\ p \in Proc /\ p \notin Msg
        /\ Label(p) = {"start", "save", "record", "done", "dead"}
  /\ \A p \in Requester : Target(p) = {} /\ Draft(p) = {"pending"}
  /\ \A p \in Registrar : Target(p) = Agent /\ Draft(p) = Team
  /\ \A p \in Configurer : Target(p) = Agent /\ Draft(p) = WakeMode
  /\ \A p \in Waking : /\ p \in Proc /\ p \notin Msg
        /\ Label(p) = {"poll", "idle", "wake", "nothing", "profile", "notified",
                       "launch", "launched", "launchFailed", "unconfigured", "dead"}
        /\ Target(p) = {} /\ Draft(p) = {}
  <1> USE MeshProcs DEF Proc, Editor, Waking
  <1>1. \A p \in Sender : p \notin Replier \cup Reader \cup Resolver \cup Requester
                                 \cup Registrar \cup Configurer \cup Waking
    OBVIOUS
  <1>2. \A p \in Replier : p \notin Sender \cup Reader \cup Resolver \cup Requester
                                 \cup Registrar \cup Configurer \cup Waking
    OBVIOUS
  <1>3. \A p \in Reader : p \notin Sender \cup Replier \cup Resolver \cup Requester
                                 \cup Registrar \cup Configurer \cup Waking
    OBVIOUS
  <1>4. \A p \in Resolver : p \notin Sender \cup Replier \cup Reader \cup Requester
                                 \cup Registrar \cup Configurer \cup Waking
    OBVIOUS
  <1>5. \A p \in Requester : p \notin Sender \cup Replier \cup Reader \cup Resolver
                                 \cup Registrar \cup Configurer \cup Waking
    OBVIOUS
  <1>6. \A p \in Registrar : p \notin Sender \cup Replier \cup Reader \cup Resolver
                                 \cup Requester \cup Configurer \cup Waking
    OBVIOUS
  <1>7. \A p \in Configurer : p \notin Sender \cup Replier \cup Reader \cup Resolver
                                 \cup Requester \cup Registrar \cup Waking
    OBVIOUS
  <1>8. \A p \in Waking : p \notin Sender \cup Replier \cup Reader \cup Resolver
                                 \cup Requester \cup Registrar \cup Configurer
    OBVIOUS
  <1> USE DEF Label, Target, Draft
  <1> QED
    BY <1>1, <1>2, <1>3, <1>4, <1>5, <1>6, <1>7, <1>8
-----------------------------------------------------------------------------
(* Types, overlapping commands included.                                   *)

\* A command has at hand what its next steps use.
HasEntry(p) ==
    /\ draft[p] \in Draft(p)
    /\ p \notin Sender \cup Requester => target[p] \in Target(p)
AtHand == \A p \in Proc :
    /\ pc[p] \in {"save", "record"} => HasEntry(p)
    /\ pc[p] \in {"saveRead", "recordRead", "reply", "load"} =>
          /\ target[p] \in Msg
          /\ p \in Replier => draft[p] \in Message
    /\ pc[p] = "saveRead" => snap[p].messages[target[p]] # None
Typed == TypeOK /\ AtHand

LEMMA EmptyTyped == EmptyMesh \in MeshState
  BY DEF EmptyMesh, MeshState

LEMMA TypedInit == Init => Typed
  <1> SUFFICES ASSUME Init PROVE Typed
    OBVIOUS
  <1>1. \A p \in Proc : /\ pc[p] \in Label(p) /\ pc[p] \in {"start", "poll", "wake", "launch"}
                        /\ target[p] = None /\ draft[p] = None
    <2> SUFFICES ASSUME NEW p \in Proc
                 PROVE  pc[p] \in Label(p) /\ pc[p] \in {"start", "poll", "wake", "launch"}
      BY DEF Init
    <2>1. CASE p \in Editor
      <3>1. p \notin Waking
        BY <2>1, MeshProcs
      <3>2. pc[p] = "start"
        BY <2>1, <3>1 DEF Init, Waking
      <3> QED
        BY <2>1, <3>2, Kinds DEF Editor
    <2>2. CASE p \in Waking
      <3>1. p \notin Editor
        BY <2>2, MeshProcs
      <3> QED
        BY <2>2, <3>1, Kinds, MeshProcs DEF Init, Waking
    <2> QED
      BY <2>1, <2>2 DEF Proc
  <1>2. BoardOK
    BY TypeInit DEF Init
  <1> QED
    BY <1>1, <1>2, EmptyTyped DEF Init, Typed, TypeOK, AtHand

\* Steps after which a process holds nothing, or what it held before.
LEMMA FinishTyped ==
  ASSUME Typed, NEW p \in Proc, NEW l, l \in Label(p) \cap Ended, Finish(p, l), BoardOK'
  PROVE  Typed'
  BY EmptyTyped DEF Typed, TypeOK, AtHand, Finish, Goto, Ended, HasEntry

LEMMA GotoTyped ==
  ASSUME Typed, NEW p \in Proc, NEW l, l \in Label(p), Goto(p, l), UNCHANGED local, BoardOK',
         l \in {"save", "record"} => HasEntry(p),
         l \in {"saveRead", "recordRead", "reply", "load"} =>
            target[p] \in Msg /\ (p \in Replier => draft[p] \in Message),
         l # "saveRead"
  PROVE  Typed'
  BY DEF Typed, TypeOK, AtHand, Goto, HasEntry, local

\* No command but p has its locals changed.
OnlyIn(p) ==
    /\ DOMAIN target' = Proc /\ DOMAIN draft' = Proc /\ snap' \in [Proc -> MeshState]
    /\ \A q \in Proc \ {p} :
          target'[q] = target[q] /\ draft'[q] = draft[q] /\ snap'[q] = snap[q]

\* The snapshot is dropped, or what the command will store is made.
LEMMA StepTyped ==
  ASSUME Typed, NEW p \in Proc, NEW l, l \in Label(p), Goto(p, l), BoardOK', OnlyIn(p),
         target'[p] \in Target(p) \cup {None}, draft'[p] \in Draft(p) \cup {None},
         l \in {"save", "record"} =>
            draft'[p] \in Draft(p) /\ (p \notin Sender \cup Requester => target'[p] \in Target(p)),
         l \in {"saveRead", "recordRead", "reply", "load"} =>
            target'[p] \in Msg /\ (p \in Replier => draft'[p] \in Message),
         l = "saveRead" => snap'[p].messages[target'[p]] # None
  PROVE  Typed'
  BY DEF Typed, TypeOK, AtHand, Goto, HasEntry, OnlyIn

\* What LocalMeshStore.load gives a command that will save is a step of this kind.
LEMMA LoadTyped ==
  ASSUME Typed, NEW p \in Proc, NEW t, NEW d, NEW l \in {"save", "saveRead"}, l \in Label(p),
         Load(p, t, d, l), t \in Target(p) \cup {None}, d \in Draft(p) \cup {None},
         l = "save" => d \in Draft(p) /\ (p \notin Sender \cup Requester => t \in Target(p)),
         l = "saveRead" => /\ t \in Msg /\ (p \in Replier => d \in Message)
                           /\ mesh.messages[t] # None
  PROVE  Typed'
  <1>1. BoardOK' /\ mesh \in MeshState
    BY DEF Load, Typed, TypeOK, BoardOK
  <1> QED
    BY <1>1, StepTyped DEF Load, OnlyIn, Typed, TypeOK

LEMMA SaveBoard ==
  ASSUME Typed, NEW p \in Editor, Save(p)
  PROVE  BoardOK'
  <1>1. HasEntry(p) /\ snap[p] \in MeshState /\ mesh' = Edited(p)
    BY DEF Typed, TypeOK, AtHand, Save, Proc
  <1>2. CASE p \in Sender \cup Replier
    <2>1. mesh' = [snap[p] EXCEPT !.messages[p] = draft[p]]
      BY <1>1, <1>2, MeshProcs DEF Edited
    <2> QED
      BY <1>1, <1>2, <2>1, Kinds DEF HasEntry, BoardOK, MeshState
  <1>3. CASE p \in Requester
    <2>1. mesh' = [snap[p] EXCEPT !.approvals[p] = draft[p]]
      BY <1>1, <1>3, MeshProcs DEF Edited
    <2> QED
      BY <1>1, <1>3, <2>1, Kinds, MeshProcs DEF HasEntry, BoardOK, MeshState
  <1>4. CASE p \in Resolver
    <2>1. mesh' = [snap[p] EXCEPT !.approvals[target[p]] = draft[p]]
      BY <1>1, <1>4, MeshProcs DEF Edited
    <2> QED
      BY <1>1, <1>4, <2>1, Kinds, MeshProcs DEF HasEntry, BoardOK, MeshState
  <1>5. CASE p \in Registrar
    <2>1. mesh' = [snap[p] EXCEPT !.agents[target[p]] = draft[p]]
      BY <1>1, <1>5, MeshProcs DEF Edited
    <2> QED
      BY <1>1, <1>5, <2>1, Kinds, MeshProcs DEF HasEntry, BoardOK, MeshState
  <1>6. CASE p \in Configurer
    <2>1. mesh' = [snap[p] EXCEPT !.launch_profiles[target[p]] = draft[p]]
      BY <1>1, <1>6, MeshProcs DEF Edited
    <2> QED
      BY <1>1, <1>6, <2>1, Kinds, MeshProcs DEF HasEntry, BoardOK, MeshState
  <1>7. CASE p \in Reader
    BY <1>7, Kinds DEF Save, Typed, TypeOK
  <1> QED
    BY <1>2, <1>3, <1>4, <1>5, <1>6, <1>7 DEF Editor

\* The answer to a stored message is a message.
LEMMA AnswerTyped ==
  ASSUME Typed, NEW m \in Msg, Stored(m)
  PROVE  mesh.messages[m] \in Message /\ Answer(m) \in Message
  BY NoneAssumption DEF Typed, TypeOK, BoardOK, MeshState, Stored, Answer, Message

LEMMA EditTyped ==
  ASSUME Typed, NEW p \in Editor, Edit(p)
  PROVE  Typed'
  <1> USE DEF Ended
  <1>a. p \in Proc /\ pc[p] \in Label(p) /\ BoardOK /\ snap[p] \in MeshState
    BY DEF Typed, TypeOK, Proc
  <1>b. UNCHANGED mesh => BoardOK'
    BY <1>a DEF BoardOK
  <1>1. CASE Send(p)
    <2> PICK from \in Agent, to \in Agent :
          Load(p, None, [from |-> from, to |-> to, thread |-> p, reply |-> None, read |-> FALSE], "save")
      BY <1>1 DEF Send
    <2>1. p \in Sender /\ p \in Msg
      BY <1>1, Kinds DEF Send
    <2>2. [from |-> from, to |-> to, thread |-> p, reply |-> None, read |-> FALSE] \in Message
      BY <2>1 DEF Message
    <2> QED
      BY <1>a, <2>1, <2>2, Kinds, LoadTyped
  <1>2. CASE Deny(p)
    <2>1. "denied" \in Label(p)
      BY <1>2, Kinds DEF Deny
    <2> QED
      BY <1>2, <1>a, <1>b, <2>1, FinishTyped DEF Deny
  <1>3. CASE ReadNew(p)
    <2> PICK m \in Msg : Stored(m) /\ Load(p, m, DraftOfReader(p, m), "saveRead")
      BY <1>3 DEF ReadNew
    <2>1. p \in Reader \cup Replier /\ "saveRead" \in Label(p) /\ m \in Target(p)
      BY <1>3, Kinds DEF ReadNew
    <2>2. DraftOfReader(p, m) \in Draft(p) \cup {None}
          /\ (p \in Replier => DraftOfReader(p, m) \in Message)
      BY <2>1, Kinds, AnswerTyped DEF DraftOfReader
    <2> QED
      BY <1>a, <2>1, <2>2, LoadTyped DEF Stored
  <1>4. CASE ReadAgain(p)
    <2> PICK m \in Msg :
          /\ Stored(m)
          /\ \/ p \in Reader /\ Finish(p, "done")
             \/ /\ p \in Replier
                /\ target' = [target EXCEPT ![p] = m]
                /\ draft' = [draft EXCEPT ![p] = Answer(m)]
                /\ Goto(p, "reply")
                /\ UNCHANGED snap
      BY <1>4 DEF ReadAgain
    <2>1. BoardOK'
      BY <1>4, <1>b DEF ReadAgain
    <2>2. CASE p \in Reader /\ Finish(p, "done")
      BY <2>1, <2>2, <1>a, Kinds, FinishTyped
    <2>3. CASE /\ p \in Replier
               /\ target' = [target EXCEPT ![p] = m]
               /\ draft' = [draft EXCEPT ![p] = Answer(m)]
               /\ Goto(p, "reply")
               /\ UNCHANGED snap
      <3>1. OnlyIn(p) /\ target'[p] = m /\ draft'[p] = Answer(m)
        BY <2>3, <1>a DEF Typed, TypeOK, OnlyIn
      <3>2. "reply" \in Label(p) /\ Answer(m) \in Message /\ Target(p) = Msg /\ Draft(p) = Message
        BY <2>3, Kinds, AnswerTyped
      <3> QED
        BY <2>1, <2>3, <3>1, <3>2, <1>a, StepTyped
    <2> QED
      BY <2>2, <2>3
  <1>5. CASE Refuse(p)
    <2>1. "failed" \in Label(p)
      BY <1>5, Kinds DEF Refuse
    <2> QED
      BY <1>5, <1>a, <1>b, <2>1, FinishTyped DEF Refuse
  <1>6. CASE SaveRead(p)
    <2>1. p \in Reader \cup Replier
      BY <1>6, <1>a, Kinds DEF SaveRead, Editor
    <2>2. target[p] \in Msg /\ snap[p].messages[target[p]] \in Message
          /\ (p \in Replier => draft[p] \in Message)
      BY <1>6, <1>a DEF SaveRead, Typed, AtHand, MeshState
    <2>3. [snap[p].messages[target[p]] EXCEPT !.read = TRUE] \in Message
      BY <2>2 DEF Message
    <2>4. BoardOK'
      BY <1>6, <1>a, <2>2, <2>3 DEF SaveRead, BoardOK, MeshState
    <2>5. /\ OnlyIn(p) /\ target'[p] = target[p] /\ draft'[p] = draft[p]
          /\ target[p] \in Target(p) \cup {None} /\ draft[p] \in Draft(p) \cup {None}
      BY <1>6, <1>a, EmptyTyped DEF SaveRead, Typed, TypeOK, OnlyIn
    <2>6. "recordRead" \in Label(p)
      BY <2>1, Kinds
    <2> QED
      BY <1>6, <1>a, <2>2, <2>4, <2>5, <2>6, StepTyped DEF SaveRead
  <1>7. CASE RecordRead(p)
    <2>1. target[p] \in Msg /\ (p \in Replier => draft[p] \in Message)
      BY <1>7, <1>a DEF RecordRead, Typed, AtHand
    <2>2. CASE p \in Reader /\ Finish(p, "done")
      BY <2>2, <1>7, <1>a, <1>b, Kinds, FinishTyped DEF RecordRead
    <2>3. CASE p \in Replier /\ Goto(p, "reply") /\ UNCHANGED local
      BY <2>1, <2>3, <1>7, <1>a, <1>b, Kinds, GotoTyped DEF RecordRead
    <2> QED
      BY <1>7, <2>2, <2>3 DEF RecordRead
  <1>8. CASE FindThread(p)
    <2>1. p \in Replier /\ target[p] \in Msg /\ draft[p] \in Message
      BY <1>8, <1>a DEF FindThread, Typed, AtHand
    <2>2. draft'[p] \in Message
      <3>1. CASE Stored(target[p])
        <4>1. mesh.messages[target[p]].thread \in Msg
          BY <2>1, <3>1, AnswerTyped DEF Message
        <4>2. [draft[p] EXCEPT !.thread = mesh.messages[target[p]].thread] \in Message
          BY <2>1, <4>1 DEF Message
        <4> QED
          BY <1>8, <3>1, <4>2, <1>a DEF FindThread, Typed, TypeOK
      <3>2. CASE ~Stored(target[p])
        BY <1>8, <2>1, <3>2 DEF FindThread
      <3> QED
        BY <3>1, <3>2
    <2>3. OnlyIn(p) /\ target'[p] = target[p]
      BY <1>8, <1>a DEF FindThread, Typed, TypeOK, OnlyIn
    <2>4. "load" \in Label(p) /\ Target(p) = Msg /\ Draft(p) = Message
      BY <2>1, Kinds
    <2> QED
      BY <1>8, <1>a, <1>b, <2>1, <2>2, <2>3, <2>4, StepTyped DEF FindThread
  <1>9. CASE SendReply(p)
    <2>1. target[p] \in Msg /\ draft[p] \in Message /\ p \in Replier
      BY <1>9, <1>a DEF SendReply, Typed, AtHand
    <2> QED
      BY <1>9, <1>a, <2>1, Kinds, LoadTyped DEF SendReply
  <1>10. CASE RequestApproval(p)
    BY <1>10, <1>a, Kinds, LoadTyped DEF RequestApproval
  <1>11. CASE ResolveApproval(p)
    <2> PICK a \in Approval, d \in Decision : Load(p, a, d, "save")
      BY <1>11 DEF ResolveApproval
    <2> QED
      BY <1>11, <1>a, Kinds, LoadTyped DEF ResolveApproval
  <1>12. CASE RegisterAgent(p)
    <2> PICK g \in Agent, t \in Team : Load(p, g, t, "save")
      BY <1>12 DEF RegisterAgent
    <2> QED
      BY <1>12, <1>a, Kinds, LoadTyped DEF RegisterAgent
  <1>13. CASE SetLaunchProfile(p)
    <2> PICK g \in Agent, w \in WakeMode : Load(p, g, w, "save")
      BY <1>13 DEF SetLaunchProfile
    <2> QED
      BY <1>13, <1>a, Kinds, LoadTyped DEF SetLaunchProfile
  <1>14. CASE Save(p)
    <2>1. HasEntry(p) /\ "record" \in Label(p) /\ p \notin Reader
      BY <1>14, <1>a, Kinds DEF Save, Typed, AtHand, Editor
    <2>2. BoardOK'
      BY <1>14, SaveBoard
    <2>3. /\ OnlyIn(p) /\ target'[p] = target[p] /\ draft'[p] = draft[p]
          /\ target[p] \in Target(p) \cup {None} /\ draft[p] \in Draft(p) \cup {None}
      BY <1>14, <1>a, EmptyTyped DEF Save, Typed, TypeOK, OnlyIn
    <2> QED
      BY <1>14, <1>a, <2>1, <2>2, <2>3, StepTyped DEF Save, HasEntry
  <1>15. CASE Record(p)
    <2>1. "done" \in Label(p)
      BY Kinds DEF Editor
    <2> QED
      BY <1>15, <1>a, <1>b, <2>1, FinishTyped DEF Record
  <1> QED
    BY <1>1, <1>2, <1>3, <1>4, <1>5, <1>6, <1>7, <1>8, <1>9, <1>10, <1>11, <1>12, <1>13, <1>14, <1>15 DEF Edit

LEMMA CrashTyped ==
  ASSUME Typed, NEW p \in Proc, Crash(p)
  PROVE  Typed'
  <1>1. "dead" \in Label(p) \cap Ended /\ BoardOK'
    BY Kinds DEF Crash, Typed, TypeOK, BoardOK, Proc, Editor, Ended
  <1> QED
    BY <1>1, FinishTyped DEF Crash

LEMMA NotifyTyped ==
  ASSUME Typed, NEW w \in Waking, Notify(w)
  PROVE  Typed'
  <1>1. /\ w \in Proc /\ BoardOK' /\ UNCHANGED local
        /\ \E l \in Label(w) : Goto(w, l)
    BY Kinds DEF Notify, Poll, Wake, DecideLaunch, Launch, Typed, TypeOK, BoardOK, local
  <1>2. PICK l \in Label(w) : Goto(w, l)
    BY <1>1
  <1> QED
    BY <1>1, <1>2, Kinds, GotoTyped

LEMMA TypedStep == Typed /\ [Next]_vars => Typed'
  <1> SUFFICES ASSUME Typed, [Next]_vars PROVE Typed'
    OBVIOUS
  <1>1. CASE UNCHANGED vars
    BY <1>1 DEF vars, Typed, TypeOK, AtHand, HasEntry, BoardOK
  <1>2. CASE Next
    BY <1>2, EditTyped, CrashTyped, NotifyTyped DEF Next, Proc
  <1> QED
    BY <1>1, <1>2

\* Every variable keeps its type and every command is where its kind of command can be,
\* however commands overlap and die.  (mesh/store.py:17, mesh/service.py:280)
THEOREM TypeCorrect == Spec => []TypeOK
  <1>1. Typed => TypeOK
    BY DEF Typed
  <1> QED
    BY <1>1, TypedInit, TypedStep, PTL DEF Spec
-----------------------------------------------------------------------------
(* Replies, overlapping commands included.                                 *)

\* The command has not stored its message.
Unsaved(m) == pc[m] \in {"start", "saveRead", "recordRead", "reply", "load", "save"}
\* The board, and what commands hold of it.
Copies == {mesh} \cup {snap[p] : p \in Proc}
Same(x, y) == x.from = y.from /\ x.to = y.to /\ x.reply = y.reply
Back(x, y) == x.from = y.to /\ x.to = y.from
\* The message replied to was stored, so no copy will ever hold another of its id; a
\* copy that still has it says that the reply goes back.
Answers(x) == x.reply # None =>
    /\ ~Unsaved(x.reply)
    /\ \A c \in Copies : c.messages[x.reply] # None => Back(x, c.messages[x.reply])
Letters ==
    /\ \A c \in Copies, m \in Msg : c.messages[m] # None => ~Unsaved(m) /\ Answers(c.messages[m])
    /\ \A c, d \in Copies, m \in Msg : c.messages[m] # None /\ d.messages[m] # None
          => Same(c.messages[m], d.messages[m])
    /\ \A p \in Msg : draft[p] # None => Answers(draft[p])

\* A step that stores no new message: copies hold what some copy held, and a new draft
\* answers a message of the board, or none.
LEMMA LettersKept ==
  ASSUME Typed, Typed', Letters,
         \A c \in Copies', m \in Msg : c.messages[m] # None =>
            \E d \in Copies : d.messages[m] # None /\ Same(c.messages[m], d.messages[m]),
         \A m \in Msg : Unsaved(m)' => Unsaved(m),
         \A p \in Msg : draft'[p] # None =>
            \/ draft'[p].reply = None
            \/ draft[p] # None /\ Same(draft'[p], draft[p])
            \/ \E m \in Msg : /\ Stored(m) /\ draft'[p].reply = m
                             /\ Back(draft'[p], mesh.messages[m])
  PROVE  Letters'
  <1>1. \A c \in Copies', m \in Msg : c.messages[m] # None =>
           c.messages[m] \in Message
    BY DEF Typed, TypeOK, BoardOK, Copies, MeshState
  <1>2. ASSUME NEW x \in Message, NEW y \in Message, Same(x, y), Answers(y)
        PROVE  Answers(x)'
    <2> SUFFICES ASSUME x.reply # None
                 PROVE  /\ ~Unsaved(x.reply)'
                        /\ \A c \in Copies' : c.messages[x.reply] # None => Back(x, c.messages[x.reply])
      BY DEF Answers
    <2>1. x.reply \in Msg /\ x.reply = y.reply /\ ~Unsaved(x.reply)
      BY <1>2 DEF Message, Same, Answers
    <2>2. ASSUME NEW c \in Copies', c.messages[x.reply] # None
          PROVE  Back(x, c.messages[x.reply])
      <3> PICK d \in Copies : d.messages[x.reply] # None /\ Same(c.messages[x.reply], d.messages[x.reply])
        BY <2>1, <2>2
      <3> QED
        BY <1>2, <2>1 DEF Answers, Same, Back
    <2> QED
      BY <2>1, <2>2
  <1>3. \A d \in Copies, m \in Msg : d.messages[m] # None => d.messages[m] \in Message
    BY DEF Typed, TypeOK, BoardOK, Copies, MeshState
  <1>4. ASSUME NEW c \in Copies', NEW m \in Msg, c.messages[m] # None
        PROVE  ~Unsaved(m)' /\ Answers(c.messages[m])'
    <2> PICK d \in Copies : d.messages[m] # None /\ Same(c.messages[m], d.messages[m])
      BY <1>4
    <2>1. ~Unsaved(m) /\ Answers(d.messages[m])
      BY DEF Letters
    <2> QED
      BY <1>1, <1>2, <1>3, <1>4, <2>1
  <1>5. ASSUME NEW c \in Copies', NEW d \in Copies', NEW m \in Msg,
               c.messages[m] # None, d.messages[m] # None
        PROVE  Same(c.messages[m], d.messages[m])
    <2>1. PICK e \in Copies : e.messages[m] # None /\ Same(c.messages[m], e.messages[m])
      BY <1>5
    <2>2. PICK f \in Copies : f.messages[m] # None /\ Same(d.messages[m], f.messages[m])
      BY <1>5
    <2> QED
      BY <2>1, <2>2 DEF Letters, Same
  <1>6. ASSUME NEW p \in Msg, NEW x, x = draft'[p], x # None
        PROVE  Answers(x)'
    <2>1. x \in Message /\ (draft[p] # None => draft[p] \in Message)
      <3>1. p \in Proc /\ Draft(p) = Message
        BY Kinds, MeshProcs
      <3> QED
        BY <1>6, <3>1 DEF Typed, TypeOK
    <2>2. CASE x.reply = None
      BY <2>2 DEF Answers
    <2>3. CASE draft[p] # None /\ Same(x, draft[p])
      BY <2>1, <2>3, <1>2 DEF Letters
    <2>4. ASSUME NEW m \in Msg, Stored(m), x.reply = m, Back(x, mesh.messages[m])
          PROVE  Answers(x)'
      <3>1. ~Unsaved(m)' /\ mesh \in Copies /\ mesh.messages[m] # None
        BY <2>4 DEF Letters, Copies, Stored
      <3>2. ASSUME NEW c \in Copies', c.messages[m] # None
            PROVE  Back(x, c.messages[m])
        <4> PICK d \in Copies : d.messages[m] # None /\ Same(c.messages[m], d.messages[m])
          BY <3>2
        <4>1. Same(d.messages[m], mesh.messages[m])
          BY <3>1 DEF Letters
        <4> QED
          BY <2>4, <4>1 DEF Same, Back
      <3> QED
        BY <2>4, <3>1, <3>2 DEF Answers
    <2> QED
      BY <1>6, <2>2, <2>3, <2>4
  <1>7. \A p \in Msg : draft'[p] # None => (Answers(draft[p]))'
    BY <1>6 DEF Answers
  <1> QED
    BY <1>4, <1>5, <1>7 DEF Letters

\* The three ways a step changes the copies without a new message.
LEMMA LocalCopies ==
  ASSUME mesh' = mesh, \A q \in Proc : snap'[q] \in {snap[q], mesh, EmptyMesh}
  PROVE  \A c \in Copies', m \in Msg : c.messages[m] # None =>
            \E d \in Copies : d.messages[m] # None /\ Same(c.messages[m], d.messages[m])
  BY DEF Copies, Same, EmptyMesh

LEMMA SavedCopies ==
  ASSUME Typed, NEW p \in Proc, snap' = [snap EXCEPT ![p] = EmptyMesh],
         \A m \in Msg : mesh'.messages[m] # None =>
            snap[p].messages[m] # None /\ Same(mesh'.messages[m], snap[p].messages[m])
  PROVE  \A c \in Copies', m \in Msg : c.messages[m] # None =>
            \E d \in Copies : d.messages[m] # None /\ Same(c.messages[m], d.messages[m])
  BY DEF Copies, Same, EmptyMesh, Typed, TypeOK

\* A command stores its message: no copy has one of its id, and none is a reply to it.
LEMMA LettersSave ==
  ASSUME Typed, Typed', Letters, NEW p \in Msg, Save(p)
  PROVE  Letters'
  <1>a. p \in Proc /\ snap[p] \in MeshState /\ snap[p] \in Copies /\ draft[p] \in Message
    BY Kinds, MeshProcs DEF Save, Typed, TypeOK, AtHand, HasEntry, Copies
  <1>b. mesh' = [snap[p] EXCEPT !.messages[p] = draft[p]]
    BY MeshProcs DEF Save, Edited
  <1>c. Unsaved(p) /\ ~Unsaved(p)' /\ \A m \in Msg \ {p} : Unsaved(m)' = Unsaved(m)
    BY <1>a, Kinds, MeshProcs DEF Save, Unsaved, Goto, Typed, TypeOK
  <1>d. draft' = draft /\ Answers(draft[p])
    BY <1>a, NoneAssumption DEF Save, Letters
  <1>1. \A c \in Copies : c \in MeshState /\ c.messages[p] = None
    BY <1>c DEF Letters, Typed, TypeOK, BoardOK, Copies
  <1>2. \A c \in Copies', m \in Msg : m # p /\ c.messages[m] # None =>
           \E d \in Copies : d.messages[m] = c.messages[m]
    <2>1. \A m \in Msg : m # p => mesh'.messages[m] = snap[p].messages[m]
      BY <1>a, <1>b DEF MeshState
    <2> QED
      BY <1>a, <2>1 DEF Copies, Save, EmptyMesh, Typed, TypeOK
  <1>3. \A c \in Copies' : c.messages[p] # None => c.messages[p] = draft[p]
    <2>1. mesh'.messages[p] = draft[p]
      BY <1>a, <1>b DEF MeshState
    <2> QED
      BY <1>a, <1>1, <2>1 DEF Copies, Save, EmptyMesh, Typed, TypeOK
  <1>4. ASSUME NEW x \in Message, Answers(x)
        PROVE  Answers(x)'
    <2> SUFFICES ASSUME x.reply # None
                 PROVE  /\ ~Unsaved(x.reply)'
                        /\ \A c \in Copies' : c.messages[x.reply] # None => Back(x, c.messages[x.reply])
      BY DEF Answers
    <2>1. x.reply \in Msg /\ x.reply # p /\ ~Unsaved(x.reply)'
      BY <1>4, <1>c DEF Answers, Message
    <2> QED
      BY <1>4, <1>2, <2>1 DEF Answers
  <1>5. ASSUME NEW c \in Copies', NEW m \in Msg, c.messages[m] # None
        PROVE  ~Unsaved(m)' /\ Answers(c.messages[m])'
    <2>1. CASE m = p
      BY <1>5, <2>1, <1>3, <1>4, <1>a, <1>c, <1>d
    <2>2. CASE m # p
      <3> PICK d \in Copies : d.messages[m] = c.messages[m]
        BY <1>5, <1>2, <2>2
      <3>1. d.messages[m] \in Message /\ ~Unsaved(m) /\ Answers(d.messages[m])
        BY <1>1, <1>5 DEF Letters, MeshState
      <3> QED
        BY <3>1, <1>4, <1>c, <2>2
    <2> QED
      BY <2>1, <2>2
  <1>6. ASSUME NEW c \in Copies', NEW d \in Copies', NEW m \in Msg,
               c.messages[m] # None, d.messages[m] # None
        PROVE  Same(c.messages[m], d.messages[m])
    <2>1. CASE m = p
      BY <1>6, <2>1, <1>3 DEF Same
    <2>2. CASE m # p
      BY <1>6, <2>2, <1>2 DEF Letters
    <2> QED
      BY <2>1, <2>2
  <1>7. ASSUME NEW q \in Msg, NEW x, x = draft'[q], x # None
        PROVE  Answers(x)'
    <2>1. q \in Proc /\ Draft(q) = Message
      BY Kinds, MeshProcs
    <2>2. x = draft[q] /\ x \in Message /\ Answers(x)
      BY <1>7, <1>d, <2>1 DEF Typed, TypeOK, Letters
    <2> QED
      BY <1>4, <2>2
  <1>8. \A q \in Msg : draft'[q] # None => (Answers(draft[q]))'
    BY <1>7 DEF Answers
  <1> QED
    BY <1>5, <1>6, <1>8 DEF Letters

LEMMA LettersInit == Init => Letters
  <1> SUFFICES ASSUME Init PROVE Letters
    OBVIOUS
  <1>1. \A c \in Copies, m \in Msg : c.messages[m] = None
    BY DEF Init, BoardInit, Copies, EmptyMesh
  <1>2. \A p \in Msg : draft[p] = None
    BY MeshProcs DEF Init, Proc, Editor
  <1> QED
    BY <1>1, <1>2 DEF Letters

\* A step of p that leaves the board, and gives p the board or nothing as its copy.
LEMMA LettersLocal ==
  ASSUME Typed, Typed', Letters, NEW p \in Proc, NEW l, Goto(p, l),
         mesh' = mesh, DOMAIN draft' = Proc, \A q \in Proc \ {p} : draft'[q] = draft[q],
         \A q \in Proc : snap'[q] \in {snap[q], mesh, EmptyMesh},
         p \in Msg => \/ Unsaved(p)
                      \/ l \notin {"start", "saveRead", "recordRead", "reply", "load", "save"},
         p \in Msg /\ draft'[p] # None =>
            \/ draft'[p].reply = None
            \/ draft[p] # None /\ Same(draft'[p], draft[p])
            \/ \E m \in Msg : /\ Stored(m) /\ draft'[p].reply = m
                             /\ Back(draft'[p], mesh.messages[m])
  PROVE  Letters'
  <1>1. \A m \in Msg : Unsaved(m)' => Unsaved(m)
    BY Kinds, MeshProcs DEF Unsaved, Goto, Typed, TypeOK
  <1>2. \A q \in Msg : draft'[q] # None =>
            \/ draft'[q].reply = None
            \/ draft[q] # None /\ Same(draft'[q], draft[q])
            \/ \E m \in Msg : /\ Stored(m) /\ draft'[q].reply = m
                             /\ Back(draft'[q], mesh.messages[m])
    BY Kinds, MeshProcs DEF Same
  <1> QED
    BY <1>1, <1>2, LocalCopies, LettersKept

LEMMA LettersFinish ==
  ASSUME Typed, Typed', Letters, NEW p \in Proc, NEW l \in Ended, Finish(p, l), mesh' = mesh
  PROVE  Letters'
  <1>1. /\ DOMAIN draft' = Proc /\ \A q \in Proc \ {p} : draft'[q] = draft[q]
        /\ \A q \in Proc : snap'[q] \in {snap[q], mesh, EmptyMesh}
        /\ draft'[p] = None
    BY DEF Finish, Typed, TypeOK
  <1> QED
    BY <1>1, LettersLocal DEF Finish, Ended

LEMMA LettersEdit ==
  ASSUME Typed, Typed', Letters, NEW p \in Editor, Edit(p)
  PROVE  Letters'
  <1> USE DEF Ended
  <1>a. p \in Proc
    BY DEF Proc
  <1>0. ASSUME NEW t, NEW d, NEW l \in {"save", "saveRead"}, Load(p, t, d, l), p \in Msg => Unsaved(p),
               p \in Msg =>
                  \/ d = None
                  \/ d.reply = None
                  \/ draft[p] # None /\ Same(d, draft[p])
                  \/ \E m \in Msg : Stored(m) /\ d.reply = m /\ Back(d, mesh.messages[m])
        PROVE  Letters'
    <2>1. /\ mesh' = mesh /\ Goto(p, l)
          /\ DOMAIN draft' = Proc /\ \A q \in Proc \ {p} : draft'[q] = draft[q]
          /\ \A q \in Proc : snap'[q] \in {snap[q], mesh, EmptyMesh}
          /\ draft'[p] = d
      BY <1>0, <1>a DEF Load, Typed, TypeOK
    <2> QED
      BY <1>0, <1>a, <2>1, LettersLocal
  <1>1. CASE Send(p)
    <2> PICK from \in Agent, to \in Agent :
          Load(p, None, [from |-> from, to |-> to, thread |-> p, reply |-> None, read |-> FALSE], "save")
      BY <1>1 DEF Send
    <2>1. Unsaved(p)
      BY <1>1 DEF Send, Unsaved
    <2> QED
      BY <2>1, <1>0
  <1>2. CASE Deny(p)
    BY <1>2, <1>a, LettersFinish DEF Deny
  <1>3. CASE ReadNew(p)
    <2> PICK m \in Msg : Stored(m) /\ Load(p, m, DraftOfReader(p, m), "saveRead")
      BY <1>3 DEF ReadNew
    <2>1. Unsaved(p) /\ (p \in Msg => p \in Replier)
      BY <1>3, Kinds DEF ReadNew, Unsaved
    <2>2. p \in Msg => DraftOfReader(p, m).reply = m /\ Back(DraftOfReader(p, m), mesh.messages[m])
      BY <2>1 DEF DraftOfReader, Answer, Back
    <2> QED
      BY <2>1, <2>2, <1>0
  <1>4. CASE ReadAgain(p)
    <2>1. CASE p \in Reader /\ Finish(p, "done")
      BY <1>4, <2>1, <1>a, LettersFinish DEF ReadAgain
    <2>2. ASSUME NEW m \in Msg, Stored(m), Goto(p, "reply"), UNCHANGED snap,
                 draft' = [draft EXCEPT ![p] = Answer(m)]
          PROVE  Letters'
      <3>1. /\ DOMAIN draft' = Proc /\ \A q \in Proc \ {p} : draft'[q] = draft[q]
            /\ draft'[p].reply = m /\ Back(draft'[p], mesh.messages[m])
        BY <2>2, <1>a DEF Typed, TypeOK, Answer, Back
      <3>2. Unsaved(p) /\ mesh' = mesh
        BY <1>4 DEF ReadAgain, Unsaved
      <3> QED
        BY <2>2, <1>a, <3>1, <3>2, LettersLocal
    <2> QED
      BY <1>4, <2>1, <2>2 DEF ReadAgain
  <1>5. CASE Refuse(p)
    BY <1>5, <1>a, LettersFinish DEF Refuse
  <1>6. CASE SaveRead(p)
    <2>1. target[p] \in Msg /\ snap[p] \in MeshState /\ snap[p].messages[target[p]] \in Message
      BY <1>6, <1>a DEF SaveRead, Typed, TypeOK, AtHand, MeshState
    <2>2. \A m \in Msg : mesh'.messages[m] # None =>
             snap[p].messages[m] # None /\ Same(mesh'.messages[m], snap[p].messages[m])
      <3>1. snap[p].messages[target[p]] # None
        BY <2>1, NoneAssumption
      <3>2. \A m \in Msg : mesh'.messages[m] = IF m = target[p]
               THEN [snap[p].messages[m] EXCEPT !.read = TRUE] ELSE snap[p].messages[m]
        BY <1>6, <2>1 DEF SaveRead, MeshState
      <3> QED
        BY <2>1, <3>1, <3>2 DEF Same, Message
    <2>3. \A m \in Msg : Unsaved(m)' => Unsaved(m)
      BY <1>6, <1>a, Kinds, MeshProcs DEF SaveRead, Unsaved, Goto, Typed, TypeOK
    <2>4. draft' = draft /\ snap' = [snap EXCEPT ![p] = EmptyMesh]
      BY <1>6 DEF SaveRead
    <2>5. \A q \in Msg : draft'[q] # None => draft[q] # None /\ Same(draft'[q], draft[q])
      BY <2>4 DEF Same
    <2>6. \A c \in Copies', m \in Msg : c.messages[m] # None =>
            \E d \in Copies : d.messages[m] # None /\ Same(c.messages[m], d.messages[m])
      BY <1>a, <2>2, <2>4, SavedCopies
    <2> QED
      BY <2>3, <2>5, <2>6, LettersKept
  <1>7. CASE RecordRead(p)
    <2>1. CASE p \in Reader /\ Finish(p, "done")
      BY <1>7, <2>1, <1>a, LettersFinish DEF RecordRead
    <2>2. CASE p \in Replier /\ Goto(p, "reply") /\ UNCHANGED local
      <3>1. /\ Unsaved(p) /\ mesh' = mesh /\ draft' = draft /\ snap' = snap
            /\ DOMAIN draft' = Proc /\ Same(draft'[p], draft[p])
        BY <1>7, <2>2 DEF RecordRead, Unsaved, local, Typed, TypeOK, Same
      <3> QED
        BY <2>2, <3>1, <1>a, LettersLocal
    <2> QED
      BY <1>7, <2>1, <2>2 DEF RecordRead
  <1>8. CASE FindThread(p)
    <2>1. /\ Unsaved(p) /\ mesh' = mesh /\ snap' = snap /\ Goto(p, "load")
          /\ p \in Replier /\ draft[p] \in Message
      BY <1>8, <1>a DEF FindThread, Unsaved, Typed, AtHand
    <2>2. /\ DOMAIN draft' = Proc /\ \A q \in Proc \ {p} : draft'[q] = draft[q]
          /\ Same(draft'[p], draft[p])
      BY <1>8, <1>a, <2>1 DEF FindThread, Typed, TypeOK, Same, Message
    <2>3. draft[p] # None
      BY <2>1, NoneAssumption
    <2> QED
      BY <2>1, <2>2, <2>3, <1>a, LettersLocal
  <1>9. CASE SendReply(p)
    <2>1. Unsaved(p) /\ Same(draft[p], draft[p])
      BY <1>9 DEF SendReply, Unsaved, Same
    <2> QED
      BY <1>9, <2>1, <1>0 DEF SendReply
  <1>10. CASE RequestApproval(p)
    <2>1. p \notin Msg
      BY <1>10, Kinds DEF RequestApproval
    <2> QED
      BY <1>10, <2>1, <1>0 DEF RequestApproval
  <1>11. CASE ResolveApproval(p)
    <2>1. p \notin Msg
      BY <1>11, Kinds DEF ResolveApproval
    <2> QED
      BY <1>11, <2>1, <1>0 DEF ResolveApproval
  <1>12. CASE RegisterAgent(p)
    <2>1. p \notin Msg
      BY <1>12, Kinds DEF RegisterAgent
    <2> QED
      BY <1>12, <2>1, <1>0 DEF RegisterAgent
  <1>13. CASE SetLaunchProfile(p)
    <2>1. p \notin Msg
      BY <1>13, Kinds DEF SetLaunchProfile
    <2> QED
      BY <1>13, <2>1, <1>0 DEF SetLaunchProfile
  <1>14. CASE Save(p)
    <2>1. CASE p \in Msg
      BY <1>14, <2>1, LettersSave
    <2>2. CASE p \notin Msg
      <3>1. mesh'.messages = snap[p].messages
        <4>1. snap[p] \in MeshState
          BY <1>a DEF Typed, TypeOK
        <4>2. p \notin Reader
          BY <1>14, <1>a, Kinds DEF Save, Typed, TypeOK
        <4> QED
          BY <1>14, <2>2, <4>1, <4>2, MeshProcs DEF Save, Edited, Editor, MeshState
      <3>2. \A m \in Msg : Unsaved(m)' => Unsaved(m)
        BY <1>14, <1>a, <2>2, Kinds, MeshProcs DEF Save, Unsaved, Goto, Typed, TypeOK
      <3>3. draft' = draft /\ snap' = [snap EXCEPT ![p] = EmptyMesh]
        BY <1>14 DEF Save
      <3>4. \A q \in Msg : draft'[q] # None => draft[q] # None /\ Same(draft'[q], draft[q])
        BY <3>3 DEF Same
      <3>5. \A c \in Copies', m \in Msg : c.messages[m] # None =>
            \E d \in Copies : d.messages[m] # None /\ Same(c.messages[m], d.messages[m])
        BY <1>a, <3>1, <3>3, SavedCopies DEF Same
      <3> QED
        BY <3>2, <3>4, <3>5, LettersKept
    <2> QED
      BY <2>1, <2>2
  <1>15. CASE Record(p)
    BY <1>15, <1>a, LettersFinish DEF Record
  <1> QED
    BY <1>1, <1>2, <1>3, <1>4, <1>5, <1>6, <1>7, <1>8, <1>9, <1>10, <1>11, <1>12, <1>13, <1>14, <1>15 DEF Edit

LEMMA LettersStep == Typed /\ Typed' /\ Letters /\ [Next]_vars => Letters'
  <1> SUFFICES ASSUME Typed, Typed', Letters, [Next]_vars PROVE Letters'
    OBVIOUS
  <1>1. CASE UNCHANGED vars
    <2>1. mesh' = mesh /\ snap' = snap /\ draft' = draft /\ pc' = pc
      BY <1>1 DEF vars
    <2> QED
      BY <2>1 DEF Letters, Copies, Unsaved, Answers
  <1>2. ASSUME NEW p \in Proc, Crash(p) PROVE Letters'
    BY <1>2, LettersFinish DEF Crash, Ended
  <1>3. ASSUME NEW w \in Waking, Notify(w) PROVE Letters'
    <2>1. /\ w \in Proc /\ w \notin Msg /\ mesh' = mesh /\ UNCHANGED local
          /\ \E l \in Label(w) : Goto(w, l)
      BY <1>3, Kinds DEF Notify, Poll, Wake, DecideLaunch, Launch, local
    <2>2. PICK l \in Label(w) : Goto(w, l)
      BY <2>1
    <2> QED
      BY <2>1, <2>2, LettersLocal DEF local, Typed, TypeOK
  <1> QED
    BY <1>1, <1>2, <1>3, LettersEdit DEF Next, Proc

\* Whatever commands overwrite of each other, a reply on the board is from the agent its
\* original was for, to the agent that wrote it.  (mesh/service.py:245)
THEOREM RepliesReturnHolds == Spec => []RepliesReturn
  <1>1. Typed /\ Letters => RepliesReturn
    <2> SUFFICES ASSUME Letters, NEW m \in Msg, Stored(m),
                        mesh.messages[m].reply # None, Stored(mesh.messages[m].reply)
                 PROVE  Back(mesh.messages[m], mesh.messages[mesh.messages[m].reply])
      BY DEF RepliesReturn, Back
    <2>1. mesh \in Copies /\ Answers(mesh.messages[m])
      BY DEF Copies, Letters, Stored
    <2> QED
      BY <2>1 DEF Answers, Stored
  <1> QED
    BY <1>1, TypedInit, TypedStep, LettersInit, LettersStep, PTL DEF Spec
-----------------------------------------------------------------------------
(* Without overlap the mesh implements the board.                          *)

\* One command is between its load and its save, with a copy that is the board.
Locked ==
    /\ \A p \in Proc : pc[p] \in Window => snap[p] = mesh
    /\ \A p, q \in Proc : pc[p] \in Window /\ pc[q] \in Window => p = q

\* A step that ends outside the window and leaves the board.
LEMMA LockedLeave ==
  ASSUME Typed, Locked, NEW p \in Proc, NEW l, l \notin Window, Goto(p, l), mesh' = mesh,
         \A q \in Proc \ {p} : snap'[q] = snap[q]
  PROVE  Locked'
  BY DEF Typed, TypeOK, Locked, Goto

\* The save of the only command in the window.
LEMMA LockedSave ==
  ASSUME Typed, Locked, NEW p \in Proc, NEW l, l \notin Window, Goto(p, l), pc[p] \in Window
  PROVE  Locked'
  BY DEF Typed, TypeOK, Locked, Goto

LEMMA LockedLoad ==
  ASSUME Typed, ~Overlap, NEW p \in Proc, NEW t, NEW d, NEW l \in Window, Load(p, t, d, l)
  PROVE  Locked'
  BY DEF Typed, TypeOK, Locked, Load, MayLoad, Goto

LEMMA LockedStep == ~Overlap /\ Typed /\ Locked /\ [Next]_vars => Locked'
  <1> SUFFICES ASSUME ~Overlap, Typed, Locked, [Next]_vars PROVE Locked'
    OBVIOUS
  <1>1. CASE UNCHANGED vars
    <2>1. mesh' = mesh /\ snap' = snap /\ pc' = pc
      BY <1>1 DEF vars
    <2> QED
      BY <2>1 DEF Locked
  <1>2. ASSUME NEW p \in Proc, NEW l, l \notin Window, Finish(p, l), mesh' = mesh
        PROVE  Locked'
    <2>1. \A q \in Proc \ {p} : snap'[q] = snap[q]
      BY <1>2 DEF Finish, Typed, TypeOK
    <2> QED
      BY <1>2, <2>1, LockedLeave DEF Finish
  <1>3. ASSUME NEW p \in Proc, Crash(p) PROVE Locked'
    BY <1>2, <1>3 DEF Crash, Window
  <1>4. ASSUME NEW w \in Waking, Notify(w) PROVE Locked'
    <2>1. w \in Proc /\ mesh' = mesh /\ snap' = snap /\ \E l \in Label(w) : Goto(w, l)
      BY <1>4, Kinds DEF Notify, Poll, Wake, DecideLaunch, Launch, local
    <2>2. PICK l \in Label(w) : Goto(w, l)
      BY <2>1
    <2>3. l \notin Window
      BY <2>2, Kinds DEF Window
    <2> QED
      BY <2>1, <2>2, <2>3, LockedLeave
  <1>5. ASSUME NEW p \in Editor, Edit(p) PROVE Locked'
    <2>a. p \in Proc
      BY DEF Proc
    <2>1. ASSUME NEW t, NEW d, NEW l \in Window, Load(p, t, d, l) PROVE Locked'
      BY <2>a, <2>1, LockedLoad
    <2>2. CASE Send(p) \/ ReadNew(p) \/ SendReply(p) \/ RequestApproval(p)
               \/ ResolveApproval(p) \/ RegisterAgent(p) \/ SetLaunchProfile(p)
      BY <2>1, <2>2 DEF Send, ReadNew, SendReply, RequestApproval, ResolveApproval,
                        RegisterAgent, SetLaunchProfile, Window
    <2>3. CASE Deny(p) \/ Refuse(p) \/ Record(p)
      BY <1>2, <2>a, <2>3 DEF Deny, Refuse, Record, Window
    <2>4. CASE ReadAgain(p) \/ RecordRead(p) \/ FindThread(p)
      <3>1. CASE Finish(p, "done") /\ mesh' = mesh
        BY <1>2, <2>a, <3>1 DEF Window
      <3>2. CASE (Goto(p, "reply") \/ Goto(p, "load")) /\ mesh' = mesh /\ snap' = snap
        BY <2>a, <3>2, LockedLeave DEF Window
      <3> QED
        BY <2>4, <3>1, <3>2 DEF ReadAgain, RecordRead, FindThread, local
    <2>5. CASE SaveRead(p) \/ Save(p)
      BY <2>a, <2>5, LockedSave DEF SaveRead, Save, Window
    <2> QED
      BY <1>5, <2>2, <2>3, <2>4, <2>5 DEF Edit
  <1> QED
    BY <1>1, <1>3, <1>4, <1>5 DEF Next, Proc

First(m, from, to) == [from |-> from, to |-> to, thread |-> m, reply |-> None, read |-> FALSE]
AnswerIn(m, t) == [from |-> mesh.messages[m].to, to |-> mesh.messages[m].from, thread |-> t,
                   reply |-> m, read |-> FALSE]
\* What a command has found out still holds when it saves.
Ready(p) ==
    /\ p \in Msg /\ Unsaved(p) => ~Stored(p)
    /\ p \in Sender /\ pc[p] = "save" => \E from, to \in Agent : draft[p] = First(p, from, to)
    /\ p \in Requester /\ pc[p] \in {"start", "save"} => mesh.approvals[p] = None
    /\ p \in Resolver /\ pc[p] = "save" => mesh.approvals[target[p]] # None
    /\ p \in Reader \cup Replier /\ pc[p] \in {"saveRead", "recordRead", "reply", "load", "save"} =>
          /\ Stored(target[p])
          /\ mesh.messages[target[p]].read <=> pc[p] # "saveRead"
          /\ p \in Replier => draft[p] = AnswerIn(target[p],
                IF pc[p] \in {"load", "save"} THEN mesh.messages[target[p]].thread ELSE target[p])
Honest == \A p \in Proc : Ready(p)
Board == Typed /\ Locked /\ Honest

LEMMA HonestInit == Init => Locked /\ Honest
  <1> SUFFICES ASSUME Init PROVE Locked /\ Honest
    OBVIOUS
  <1>1. \A p \in Proc : pc[p] \in {"start", "poll", "wake", "launch"}
    <2>1. \A p \in Editor : pc[p] = "start"
      BY MeshProcs DEF Init, Proc, Waking
    <2>2. \A p \in Waking : pc[p] \in {"poll", "wake", "launch"}
      BY MeshProcs DEF Init, Proc, Waking
    <2> QED
      BY <2>1, <2>2 DEF Proc
  <1>2. \A m \in Msg : ~Stored(m)
    BY DEF Init, BoardInit, EmptyMesh, Stored
  <1>3. \A a \in Requester : mesh.approvals[a] = None
    BY MeshProcs DEF Init, BoardInit, EmptyMesh
  <1> QED
    BY <1>1, <1>2, <1>3 DEF Locked, Honest, Ready, Window

\* The save of a message, an approval, a decision, an agent or a profile is that step of the board.
LEMMA SavePosts ==
  ASSUME Board, NEW p \in Sender, Save(p)
  PROVE  Post(p)
  <1>1. snap[p] = mesh /\ Ready(p) /\ Unsaved(p) /\ p \in Msg
    BY Kinds DEF Board, Locked, Honest, Save, Window, Unsaved
  <1>2. mesh' = [mesh EXCEPT !.messages[p] = draft[p]]
    BY <1>1, MeshProcs DEF Save, Edited
  <1>3. ~Stored(p) /\ \E from, to \in Agent : draft[p] = First(p, from, to)
    BY <1>1 DEF Ready, Save
  <1>4. PICK from \in Agent, to \in Agent : draft[p] = First(p, from, to)
    BY <1>3
  <1>5. mesh' = [mesh EXCEPT !.messages[p] =
                   [from |-> from, to |-> to, thread |-> p, reply |-> None, read |-> FALSE]]
    BY <1>2, <1>4 DEF First
  <1> QED
    BY <1>3, <1>5 DEF Post

LEMMA SaveReplies ==
  ASSUME Board, NEW p \in Replier, Save(p)
  PROVE  target[p] \in Msg /\ Reply(p, target[p])
  <1>1. snap[p] = mesh /\ Ready(p) /\ Unsaved(p) /\ p \in Msg /\ target[p] \in Msg
    <2>1. p \in Proc /\ pc[p] = "save"
      BY Kinds DEF Save
    <2>2. HasEntry(p) /\ p \notin Sender \cup Requester
      BY <2>1, MeshProcs DEF Board, Typed, AtHand
    <2> QED
      BY <2>1, <2>2, Kinds DEF Board, Locked, Honest, Window, Unsaved, HasEntry
  <1>2. mesh' = [mesh EXCEPT !.messages[p] = draft[p]]
    BY <1>1, MeshProcs DEF Save, Edited
  <1>3. draft[p] = AnswerIn(target[p], mesh.messages[target[p]].thread)
        /\ Stored(target[p]) /\ mesh.messages[target[p]].read /\ ~Stored(p)
    BY <1>1 DEF Ready, Save
  <1>4. draft[p] = [from |-> mesh.messages[target[p]].to, to |-> mesh.messages[target[p]].from,
                    thread |-> mesh.messages[target[p]].thread, reply |-> target[p], read |-> FALSE]
    BY <1>3 DEF AnswerIn, Answer
  <1> QED
    BY <1>1, <1>2, <1>3, <1>4 DEF Reply

LEMMA SaveRequests ==
  ASSUME Board, NEW p \in Requester, Save(p)
  PROVE  Request(p)
  <1>1. snap[p] = mesh /\ Ready(p) /\ HasEntry(p) /\ Draft(p) = {"pending"}
    BY Kinds DEF Board, Locked, Honest, Save, Window, Typed, AtHand
  <1>2. mesh' = [mesh EXCEPT !.approvals[p] = draft[p]]
    BY <1>1, MeshProcs DEF Save, Edited
  <1> QED
    BY <1>1, <1>2 DEF Ready, Request, Save, HasEntry

LEMMA SaveDecides ==
  ASSUME Board, NEW p \in Resolver, Save(p)
  PROVE  target[p] \in Approval /\ Decide(target[p])
  <1>1. /\ snap[p] = mesh /\ Ready(p) /\ HasEntry(p) /\ p \notin Sender \cup Requester
        /\ Draft(p) = Decision /\ Target(p) = Approval
    BY Kinds, MeshProcs DEF Board, Locked, Honest, Save, Window, Typed, AtHand
  <1>2. mesh' = [mesh EXCEPT !.approvals[target[p]] = draft[p]]
    BY <1>1, MeshProcs DEF Save, Edited
  <1> QED
    BY <1>1, <1>2 DEF Ready, Decide, Save, HasEntry

LEMMA SaveSets ==
  ASSUME Board, NEW p \in Registrar \cup Configurer, Save(p)
  PROVE  target[p] \in Agent /\ (Enlist(target[p]) \/ Configure(target[p]))
  <1>1. /\ snap[p] = mesh /\ HasEntry(p) /\ p \notin Sender \cup Requester /\ Target(p) = Agent
        /\ p \in Registrar => Draft(p) = Team
        /\ p \in Configurer => Draft(p) = WakeMode
    BY Kinds, MeshProcs DEF Board, Locked, Save, Window, Typed, AtHand
  <1>2. CASE p \in Registrar
    <2>1. mesh' = [mesh EXCEPT !.agents[target[p]] = draft[p]]
      BY <1>1, <1>2, MeshProcs DEF Save, Edited
    <2> QED
      BY <1>1, <1>2, <2>1 DEF Enlist, HasEntry
  <1>3. CASE p \in Configurer
    <2>1. mesh' = [mesh EXCEPT !.launch_profiles[target[p]] = draft[p]]
      BY <1>1, <1>3, MeshProcs DEF Save, Edited
    <2> QED
      BY <1>1, <1>3, <2>1 DEF Configure, HasEntry
  <1> QED
    BY <1>2, <1>3

LEMMA SaveAcknowledges ==
  ASSUME Board, NEW p \in Proc, SaveRead(p)
  PROVE  target[p] \in Msg /\ Acknowledge(target[p])
  <1>1. p \in Reader \cup Replier
    BY Kinds, MeshProcs DEF Board, Typed, TypeOK, SaveRead, Proc, Editor
  <1>2. snap[p] = mesh /\ Ready(p) /\ target[p] \in Msg
    BY DEF Board, Locked, Honest, SaveRead, Window, Typed, AtHand
  <1> QED
    BY <1>1, <1>2 DEF Ready, Acknowledge, SaveRead

\* Every step of the mesh is a step of the board, or leaves it alone.
LEMMA BoardStep == Board /\ [Next]_vars => [BoardNext]_mesh
  <1> SUFFICES ASSUME Board, [Next]_vars, mesh' # mesh PROVE BoardNext
    OBVIOUS
  <1>1. PICK p \in Editor : Save(p) \/ SaveRead(p)
    BY DEF Next, vars, Crash, Notify, Poll, Wake, DecideLaunch, Launch, Edit, Load, Send, Deny,
           ReadNew, ReadAgain, Refuse, RecordRead, FindThread, SendReply, RequestApproval,
           ResolveApproval, RegisterAgent, SetLaunchProfile, Record
  <1>2. p \in Proc /\ Approval = Requester
    BY MeshProcs DEF Proc
  <1>3. CASE SaveRead(p)
    BY <1>2, <1>3, SaveAcknowledges DEF BoardNext
  <1>4. CASE Save(p)
    <2>1. p \notin Reader
      BY <1>2, <1>4, Kinds DEF Save, Board, Typed, TypeOK
    <2>2. CASE p \in Sender
      BY <1>4, <2>2, Kinds, SavePosts DEF BoardNext
    <2>3. CASE p \in Replier
      BY <1>4, <2>3, Kinds, SaveReplies DEF BoardNext
    <2>4. CASE p \in Requester
      BY <1>2, <1>4, <2>4, SaveRequests DEF BoardNext
    <2>5. CASE p \in Resolver
      BY <1>4, <2>5, SaveDecides DEF BoardNext
    <2>6. CASE p \in Registrar \cup Configurer
      BY <1>4, <2>6, SaveSets DEF BoardNext
    <2> QED
      BY <2>1, <2>2, <2>3, <2>4, <2>5, <2>6 DEF Editor
  <1> QED
    BY <1>1, <1>3, <1>4

\* Of the entries that do not exist a command creates its own only.
LEMMA OnlyOwn ==
  ASSUME Board, NEW p \in Editor, Save(p) \/ SaveRead(p)
  PROVE  /\ \A m \in Msg \ {p} : ~Stored(m) => ~Stored(m)'
         /\ \A a \in Approval \ {p} : mesh.approvals[a] = None => mesh'.approvals[a] = None
  <1>a. BoardOK /\ p \in Proc /\ Approval = Requester
    BY MeshProcs DEF Board, Typed, TypeOK, Proc
  <1>b. Save(p) => p \notin Reader
    BY <1>a, Kinds DEF Save, Board, Typed, TypeOK
  <1> USE DEF BoardOK, MeshState, Stored
  <1>1. CASE SaveRead(p)
    BY <1>1, <1>a, SaveAcknowledges DEF Acknowledge
  <1>2. CASE Save(p)
    <2>1. p \notin Reader
      BY <1>b, <1>2
    <2>2. CASE p \in Sender
      BY <1>a, <1>2, <2>2, SavePosts DEF Post
    <2>3. CASE p \in Replier
      BY <1>a, <1>2, <2>3, SaveReplies DEF Reply
    <2>4. CASE p \in Requester
      BY <1>a, <1>2, <2>4, SaveRequests DEF Request
    <2>5. CASE p \in Resolver
      BY <1>a, <1>2, <2>5, SaveDecides DEF Decide
    <2>6. CASE p \in Registrar \cup Configurer
      BY <1>a, <1>2, <2>6, SaveSets DEF Enlist, Configure
    <2> QED
      BY <2>1, <2>2, <2>3, <2>4, <2>5, <2>6 DEF Editor
  <1> QED
    BY <1>1, <1>2

\* What a command has found out outlives the save of another.
LEMMA ReadyKept ==
  ASSUME Board, [BoardNext]_mesh, NEW q \in Proc,
         pc'[q] = pc[q], target'[q] = target[q], draft'[q] = draft[q],
         pc[q] = "saveRead" => mesh' = mesh,
         q \in Msg /\ ~Stored(q) => ~Stored(q)',
         q \in Requester /\ mesh.approvals[q] = None => mesh'.approvals[q] = None
  PROVE  Ready(q)'
  <1>1. /\ BoardOK /\ Ready(q)
        /\ pc[q] \in {"saveRead", "recordRead", "reply", "load"} => target[q] \in Msg
        /\ pc[q] = "save" /\ q \in Reader \cup Replier => target[q] \in Msg
        /\ pc[q] = "save" /\ q \in Resolver => target[q] \in Approval
    BY Kinds, MeshProcs DEF Board, Typed, TypeOK, AtHand, HasEntry, Honest
  <1>2. Unsaved(q)' = Unsaved(q)
    BY DEF Unsaved
  <1>3. CASE q \in Reader \cup Replier
               /\ pc[q] \in {"saveRead", "recordRead", "reply", "load", "save"}
    <2>1. target[q] \in Msg /\ Stored(target[q])
      BY <1>1, <1>3 DEF Ready
    <2>2. Stored(target[q])' /\ AnswerIn(target[q], target[q])' = AnswerIn(target[q], target[q])
          /\ mesh'.messages[target[q]].thread = mesh.messages[target[q]].thread
          /\ AnswerIn(target[q], mesh.messages[target[q]].thread)'
                = AnswerIn(target[q], mesh.messages[target[q]].thread)
          /\ (mesh.messages[target[q]].read => mesh'.messages[target[q]].read)
      BY <1>1, <2>1, BoardKeeps DEF AnswerIn, Answer
    <2>3. q \notin Sender \cup Requester \cup Resolver
      BY <1>3, MeshProcs
    <2>4. (mesh.messages[target[q]].read <=> pc[q] # "saveRead")
          /\ (q \in Replier => draft[q] = AnswerIn(target[q],
                IF pc[q] \in {"load", "save"} THEN mesh.messages[target[q]].thread ELSE target[q]))
      BY <1>1, <1>3 DEF Ready
    <2>5. mesh'.messages[target[q]].read <=> pc[q] # "saveRead"
      BY <2>2, <2>4
    <2> QED
      BY <1>1, <1>2, <1>3, <2>2, <2>3, <2>4, <2>5 DEF Ready
  <1>4. CASE ~(q \in Reader \cup Replier
               /\ pc[q] \in {"saveRead", "recordRead", "reply", "load", "save"})
    BY <1>1, <1>2, <1>4, BoardKeeps DEF Ready
  <1> QED
    BY <1>3, <1>4

\* A step that leaves the board needs only its own command looked at.
LEMMA HonestQuiet ==
  ASSUME Board, NEW p \in Proc, NEW l, Goto(p, l), mesh' = mesh,
         \A q \in Proc \ {p} : target'[q] = target[q] /\ draft'[q] = draft[q],
         Ready(p)'
  PROVE  Honest'
  <1> SUFFICES ASSUME NEW q \in Proc, q # p PROVE Ready(q)'
    BY DEF Honest
  <1>1. pc'[q] = pc[q]
    BY DEF Goto, Board, Typed, TypeOK
  <1>2. Stored(q)' = Stored(q)
    BY DEF Stored
  <1> QED
    BY <1>1, <1>2, ReadyKept

LEMMA HonestFinish ==
  ASSUME Board, NEW p \in Proc, NEW l \in Ended, Finish(p, l), mesh' = mesh
  PROVE  Honest'
  <1>1. pc'[p] = l /\ \A q \in Proc \ {p} : target'[q] = target[q] /\ draft'[q] = draft[q]
    BY DEF Finish, Goto, Board, Typed, TypeOK
  <1>2. Ready(p)'
    BY <1>1 DEF Ready, Unsaved, Ended
  <1> QED
    BY <1>1, <1>2, HonestQuiet DEF Finish

LEMMA HonestLoad ==
  ASSUME Board, NEW p \in Proc, NEW t, NEW d, NEW l, Load(p, t, d, l),
         pc'[p] = l /\ target'[p] = t /\ draft'[p] = d => Ready(p)'
  PROVE  Honest'
  <1>1. /\ pc'[p] = l /\ target'[p] = t /\ draft'[p] = d /\ mesh' = mesh /\ Goto(p, l)
        /\ \A q \in Proc \ {p} : target'[q] = target[q] /\ draft'[q] = draft[q]
    BY DEF Load, Goto, Board, Typed, TypeOK
  <1> QED
    BY <1>1, HonestQuiet

LEMMA HonestSave ==
  ASSUME Board, NEW p \in Editor, Save(p) \/ SaveRead(p), [BoardNext]_mesh
  PROVE  Honest'
  <1>1. p \in Proc /\ pc[p] \in Window /\ target' = target /\ draft' = draft
        /\ \A q \in Proc \ {p} : pc'[q] = pc[q] /\ pc[q] \notin Window
    BY DEF Save, SaveRead, Goto, Window, Proc, Board, Locked, Typed, TypeOK
  <1>2. ASSUME NEW q \in Proc \ {p} PROVE Ready(q)'
    BY <1>1, OnlyOwn, ReadyKept, MeshProcs DEF Window
  <1>3. Ready(p)'
    <2>1. CASE Save(p)
      <3>1. pc'[p] = "record"
        BY <1>1, <2>1 DEF Save, Goto, Board, Typed, TypeOK
      <3> QED
        BY <3>1 DEF Ready, Unsaved
    <2>2. CASE SaveRead(p)
      <3>1. pc[p] = "saveRead" /\ pc'[p] = "recordRead" /\ p \in Reader \cup Replier /\ p \notin Sender \cup Requester \cup Resolver
        BY <1>1, <2>2, Kinds, MeshProcs DEF SaveRead, Goto, Board, Typed, TypeOK, Editor
      <3>2. target[p] \in Msg /\ Acknowledge(target[p]) /\ BoardOK /\ Ready(p)
        BY <1>1, <2>2, SaveAcknowledges DEF Board, Typed, TypeOK, Honest
      <3>3. /\ Stored(target[p])' /\ mesh'.messages[target[p]].read
            /\ AnswerIn(target[p], target[p])' = AnswerIn(target[p], target[p])
        <4>1. mesh.messages[target[p]] \in Message
          BY <3>2 DEF Acknowledge, Stored, BoardOK, MeshState
        <4>2. mesh'.messages[target[p]] = [mesh.messages[target[p]] EXCEPT !.read = TRUE]
          BY <3>2 DEF Acknowledge, BoardOK, MeshState
        <4>3. mesh'.messages[target[p]].read
          BY <4>1, <4>2 DEF Message
        <4> QED
          <5>1. Stored(target[p])' /\ target' = target
            BY <1>1, <3>2, BoardKeeps DEF Acknowledge
          <5>2. /\ mesh'.messages[target[p]].from = mesh.messages[target[p]].from
                /\ mesh'.messages[target[p]].to = mesh.messages[target[p]].to
            BY <4>1, <4>2 DEF Message
          <5> QED
            BY <4>3, <5>1, <5>2 DEF AnswerIn
      <3>4. p \in Msg => ~Stored(p) /\ Unsaved(p) /\ p # target[p]
        BY <3>1, <3>2 DEF Ready, Unsaved, Acknowledge
      <3>5. p \in Msg => ~Stored(p)'
        BY <3>2, <3>4 DEF Acknowledge, Stored, BoardOK, MeshState
      <3>6. p \in Replier => draft[p] = AnswerIn(target[p], target[p])
        BY <3>1, <3>2 DEF Ready
      <3> QED
        BY <1>1, <3>1, <3>3, <3>5, <3>6 DEF Ready
    <2> QED
      BY <2>1, <2>2
  <1> QED
    BY <1>2, <1>3 DEF Honest

LEMMA HonestEdit ==
  ASSUME Board, NEW p \in Editor, Edit(p), [BoardNext]_mesh
  PROVE  Honest'
  <1> USE DEF Ended
  <1>a. p \in Proc /\ Ready(p)
    BY DEF Proc, Board, Honest
  <1>1. CASE Send(p)
    <2> PICK from \in Agent, to \in Agent : Load(p, None, First(p, from, to), "save")
      BY <1>1 DEF Send, First
    <2>1. p \in Sender /\ ~Stored(p) /\ mesh' = mesh
      BY <1>1, <1>a, Kinds DEF Send, Ready, Unsaved, Load
    <2>2. p \notin Replier \cup Reader \cup Requester \cup Resolver
      BY <2>1, MeshProcs
    <2>3. pc'[p] = "save" /\ draft'[p] = First(p, from, to) => Ready(p)'
      BY <2>1, <2>2 DEF Ready, Stored, First
    <2> QED
      BY <1>a, <2>3, HonestLoad
  <1>2. CASE Deny(p)
    BY <1>2, <1>a, HonestFinish DEF Deny
  <1>3. CASE ReadNew(p)
    <2> PICK m \in Msg : /\ Stored(m) /\ ~mesh.messages[m].read
                         /\ Load(p, m, DraftOfReader(p, m), "saveRead")
      BY <1>3 DEF ReadNew
    <2>1. /\ p \in Reader \cup Replier /\ p \notin Sender \cup Requester \cup Resolver /\ mesh' = mesh
          /\ p \in Msg => ~Stored(p)
      BY <1>3, <1>a, MeshProcs DEF ReadNew, Ready, Unsaved, Load
    <2>2. p \in Replier => DraftOfReader(p, m) = AnswerIn(m, m)
      BY DEF DraftOfReader, AnswerIn, Answer
    <2>3. AnswerIn(m, m)' = AnswerIn(m, m)
      BY <2>1 DEF AnswerIn, Answer
    <2>4. pc'[p] = "saveRead" /\ target'[p] = m /\ draft'[p] = DraftOfReader(p, m) => Ready(p)'
      BY <2>1, <2>2, <2>3 DEF Ready, Stored
    <2> QED
      BY <1>a, <2>4, HonestLoad
  <1>4. CASE ReadAgain(p)
    <2>1. CASE p \in Reader /\ Finish(p, "done")
      BY <1>4, <2>1, <1>a, HonestFinish DEF ReadAgain
    <2>2. ASSUME NEW m \in Msg, Stored(m), mesh.messages[m].read, p \in Replier, Goto(p, "reply"),
                 target' = [target EXCEPT ![p] = m], draft' = [draft EXCEPT ![p] = Answer(m)]
          PROVE  Honest'
      <3>1. /\ \A q \in Proc \ {p} : target'[q] = target[q] /\ draft'[q] = draft[q]
            /\ target'[p] = m /\ draft'[p] = Answer(m) /\ pc'[p] = "reply" /\ mesh' = mesh
        BY <1>4, <2>2, <1>a DEF ReadAgain, Goto, Board, Typed, TypeOK
      <3>2. p \notin Sender \cup Requester \cup Resolver /\ p \in Msg /\ ~Stored(p)
        BY <1>4, <1>a, <2>2, MeshProcs DEF ReadAgain, Ready, Unsaved
      <3>3. Answer(m) = AnswerIn(m, m) /\ AnswerIn(m, m)' = AnswerIn(m, m)
        BY <3>1 DEF AnswerIn, Answer
      <3>4. Ready(p)'
        BY <2>2, <3>1, <3>2, <3>3 DEF Ready, Stored
      <3> QED
        BY <1>a, <2>2, <3>1, <3>4, HonestQuiet
    <2> QED
      BY <1>4, <2>1, <2>2 DEF ReadAgain
  <1>5. CASE Refuse(p)
    BY <1>5, <1>a, HonestFinish DEF Refuse
  <1>6. CASE SaveRead(p) \/ Save(p)
    BY <1>6, HonestSave
  <1>7. CASE RecordRead(p)
    <2>1. CASE p \in Reader /\ Finish(p, "done")
      BY <1>7, <2>1, <1>a, HonestFinish DEF RecordRead
    <2>2. CASE p \in Replier /\ Goto(p, "reply") /\ UNCHANGED local
      <3>1. /\ target' = target /\ draft' = draft /\ mesh' = mesh /\ pc[p] = "recordRead"
            /\ pc'[p] = "reply" /\ p \notin Sender \cup Requester \cup Resolver
        BY <1>7, <2>2, <1>a, MeshProcs DEF RecordRead, local, Goto, Board, Typed, TypeOK
      <3>2. AnswerIn(target[p], target[p])' = AnswerIn(target[p], target[p])
        BY <3>1 DEF AnswerIn, Answer
      <3>3. Ready(p)'
        BY <1>a, <2>2, <3>1, <3>2 DEF Ready, Stored, Unsaved
      <3> QED
        BY <1>a, <2>2, <3>1, <3>3, HonestQuiet
    <2> QED
      BY <1>7, <2>1, <2>2 DEF RecordRead
  <1>8. CASE FindThread(p)
    <2>1. /\ p \in Replier /\ p \notin Sender \cup Requester \cup Resolver
          /\ pc[p] = "reply" /\ Goto(p, "load") /\ pc'[p] = "load"
          /\ target' = target /\ mesh' = mesh
      BY <1>8, <1>a, MeshProcs DEF FindThread, Goto, Board, Typed, TypeOK
    <2>2. /\ Stored(target[p]) /\ mesh.messages[target[p]].read
          /\ draft[p] = AnswerIn(target[p], target[p])
          /\ p \in Msg => ~Stored(p)
      BY <1>a, <2>1 DEF Ready, Unsaved
    <2>3. draft' = [draft EXCEPT ![p].thread = mesh.messages[target[p]].thread]
      BY <1>8, <2>2 DEF FindThread
    <2>4. /\ \A q \in Proc \ {p} : draft'[q] = draft[q]
          /\ draft'[p] = [draft[p] EXCEPT !.thread = mesh.messages[target[p]].thread]
      BY <1>a, <2>3 DEF Board, Typed, TypeOK
    <2>5. draft'[p] = AnswerIn(target[p], mesh.messages[target[p]].thread)
      <3>1. draft[p] \in Message /\ mesh.messages[target[p]] \in Message /\ target[p] \in Msg
        BY <1>a, <2>1, <2>2, AnswerTyped DEF Board, Typed, AtHand
      <3>2. mesh.messages[target[p]].thread \in Msg
        BY <3>1 DEF Message
      <3>3. draft'[p] \in Message /\ AnswerIn(target[p], mesh.messages[target[p]].thread) \in Message
        BY <2>4, <3>1, <3>2 DEF Message, AnswerIn
      <3>4. ASSUME NEW x \in Message, NEW y \in Message, Same(x, y), x.thread = y.thread, x.read = y.read
            PROVE  x = y
        BY <3>4 DEF Message, Same
      <3>5. Same(draft'[p], draft[p]) /\ draft'[p].read = draft[p].read
            /\ draft'[p].thread = mesh.messages[target[p]].thread
        BY <2>4, <3>1 DEF Same, Message
      <3>6. /\ Same(draft[p], AnswerIn(target[p], mesh.messages[target[p]].thread))
            /\ draft[p].read = FALSE
            /\ AnswerIn(target[p], mesh.messages[target[p]].thread).read = FALSE
            /\ AnswerIn(target[p], mesh.messages[target[p]].thread).thread
                  = mesh.messages[target[p]].thread
        BY <2>2 DEF AnswerIn, Same
      <3>7. Same(draft'[p], AnswerIn(target[p], mesh.messages[target[p]].thread))
        BY <3>5, <3>6 DEF Same
      <3> QED
        BY <3>3, <3>4, <3>5, <3>6, <3>7
    <2>6. AnswerIn(target[p], mesh.messages[target[p]].thread)'
             = AnswerIn(target[p], mesh.messages[target[p]].thread)
      BY <2>1 DEF AnswerIn, Answer
    <2>7. Ready(p)'
      BY <2>1, <2>2, <2>5, <2>6 DEF Ready, Stored
    <2> QED
      BY <1>a, <2>1, <2>4, <2>7, HonestQuiet
  <1>9. CASE SendReply(p)
    <2>1. /\ p \in Replier /\ p \notin Sender \cup Requester \cup Resolver
          /\ pc[p] = "load" /\ Load(p, target[p], draft[p], "save") /\ mesh' = mesh
      BY <1>9, MeshProcs DEF SendReply, Load
    <2>2. AnswerIn(target[p], mesh.messages[target[p]].thread)'
             = AnswerIn(target[p], mesh.messages[target[p]].thread)
          \/ target'[p] # target[p]
      BY <2>1 DEF AnswerIn, Answer
    <2>3. pc'[p] = "save" /\ target'[p] = target[p] /\ draft'[p] = draft[p] => Ready(p)'
      BY <1>a, <2>1, <2>2 DEF Ready, Stored, Unsaved, AnswerIn, Answer
    <2> QED
      BY <1>a, <2>1, <2>3, HonestLoad
  <1>10. CASE RequestApproval(p)
    <2>1. /\ p \in Requester /\ p \notin Msg \cup Sender \cup Reader \cup Replier \cup Resolver
          /\ Load(p, None, "pending", "save") /\ mesh' = mesh /\ mesh.approvals[p] = None
      BY <1>10, <1>a, MeshProcs DEF RequestApproval, Load, Ready
    <2>2. Ready(p)'
      BY <2>1 DEF Ready
    <2> QED
      BY <1>a, <2>1, <2>2, HonestLoad
  <1>11. CASE ResolveApproval(p)
    <2> PICK a \in Approval, d \in Decision : mesh.approvals[a] # None /\ Load(p, a, d, "save")
      BY <1>11 DEF ResolveApproval
    <2>1. /\ p \in Resolver /\ p \notin Msg \cup Sender \cup Reader \cup Replier \cup Requester
          /\ mesh' = mesh
      BY <1>11, MeshProcs DEF ResolveApproval, Load
    <2>2. target'[p] = a => Ready(p)'
      BY <2>1 DEF Ready
    <2> QED
      BY <1>a, <2>2, HonestLoad
  <1>12. CASE RegisterAgent(p) \/ SetLaunchProfile(p)
    <2>1. /\ p \notin Msg \cup Sender \cup Reader \cup Replier \cup Requester \cup Resolver
          /\ \E t, d : Load(p, t, d, "save")
      BY <1>12, MeshProcs DEF RegisterAgent, SetLaunchProfile
    <2>2. Ready(p)'
      BY <2>1 DEF Ready
    <2> QED
      BY <1>a, <2>1, <2>2, HonestLoad
  <1>13. CASE Record(p)
    BY <1>13, <1>a, HonestFinish DEF Record
  <1> QED
    BY <1>1, <1>2, <1>3, <1>4, <1>5, <1>6, <1>7, <1>8, <1>9, <1>10, <1>11, <1>12, <1>13 DEF Edit

LEMMA HonestStep == Board /\ [Next]_vars => Honest'
  <1> SUFFICES ASSUME Board, [Next]_vars PROVE Honest'
    OBVIOUS
  <1>0. [BoardNext]_mesh
    BY BoardStep
  <1>1. CASE UNCHANGED vars
    <2>1. /\ mesh' = mesh /\ target' = target /\ draft' = draft /\ pc' = pc
      BY <1>1 DEF vars
    <2>2. \A m : Stored(m)' = Stored(m)
      BY <2>1 DEF Stored
    <2> QED
      BY <1>0, <2>1, <2>2, ReadyKept DEF Honest
  <1>2. ASSUME NEW p \in Proc, Crash(p) PROVE Honest'
    BY <1>2, HonestFinish DEF Crash, Ended
  <1>3. ASSUME NEW w \in Waking, Notify(w) PROVE Honest'
    <2>1. /\ w \in Proc /\ w \notin Msg \cup Sender \cup Reader \cup Replier \cup Requester \cup Resolver
          /\ mesh' = mesh /\ target' = target /\ draft' = draft /\ \E l \in Label(w) : Goto(w, l)
      BY <1>3, Kinds, MeshProcs DEF Notify, Poll, Wake, DecideLaunch, Launch, local, Editor
    <2>2. PICK l \in Label(w) : Goto(w, l)
      BY <2>1
    <2>3. Ready(w)'
      BY <2>1 DEF Ready
    <2> QED
      BY <2>1, <2>2, <2>3, HonestQuiet
  <1> QED
    BY <1>0, <1>1, <1>2, <1>3, HonestEdit DEF Next, Proc

LEMMA BoardHolds == ~Overlap => (Spec => []Board)
  <1> SUFFICES ASSUME ~Overlap PROVE Spec => []Board
    OBVIOUS
  <1>1. Board /\ [Next]_vars => Board'
    BY TypedStep, LockedStep, HonestStep DEF Board
  <1>2. Init => Board
    BY TypedInit, HonestInit DEF Board
  <1> QED
    BY <1>1, <1>2, PTL DEF Spec

\* When no two commands are between their load and their save at once, the mesh
\* implements the board: every command acts at once.  (mesh/store.py:33)
THEOREM BoardImplemented == ~Overlap => (Spec => BoardSpec)
  <1>1. Init => BoardInit
    BY DEF Init
  <1>2. Board /\ [Next]_vars => [BoardNext]_mesh
    BY BoardStep
  <1> QED
    BY <1>1, <1>2, BoardHolds, PTL DEF Spec, BoardSpec

\* Hence threads are rooted and replies answer what was read.  (mesh/service.py:280)
THEOREM ThreadsRootedHolds == ~Overlap => (Spec => []ThreadsRooted)
  BY BoardImplemented, ThreadsAreRooted, PTL
=============================================================================
