-------------------------------- MODULE Mesh --------------------------------
(***************************************************************************)
(* The local agent mesh: agentsecure/mesh/service.py over mesh/store.py.   *)
(*                                                                         *)
(* Every `agentsecure mesh ...` command and every mesh tool call of the    *)
(* MCP server builds its own MeshService; a process here is one such call. *)
(* LocalMeshStore.load reads the whole of mesh.json, save replaces it      *)
(* atomically, and nothing locks the file in between: a command that       *)
(* edits the board is Load, then Save of its copy with one entry changed,  *)
(* then a line appended to the audit log.  Other commands run between any  *)
(* two of these and a command may be killed after any of them.             *)
(*                                                                         *)
(* Ids are uuids, so the message or approval a command creates is named    *)
(* by the command itself.                                                  *)
(***************************************************************************)
EXTENDS MeshBoard

CONSTANTS
    Sender,       \* send-message
    Replier,      \* reply-message
    Reader,       \* read-message
    Requester,    \* request-approval
    Resolver,     \* resolve-approval, approvals approve | reject | comment
    Registrar,    \* register-agent
    Configurer,   \* launch-profile set
    Watcher,      \* watch
    Waker,        \* wake
    Launcher,     \* launch-agent
    AgentOf,      \* the agent a watch, wake or launch-agent is for
    Once,         \* watches started with --once
    ForceLaunch,  \* watches and wakes started with --launch
    Denied,       \* pairs <<from, to>> the local policy stops (get_policy_hint)
    Overlap       \* may two commands be between the load and the save at once?

Waking == Watcher \cup Waker \cup Launcher
Editor == Sender \cup Replier \cup Reader \cup Requester \cup Resolver \cup Registrar \cup Configurer
Proc == Editor \cup Waking

ASSUME MeshProcs ==
    /\ Msg = Sender \cup Replier /\ Approval = Requester
    /\ Sender \cap (Replier \cup Reader \cup Requester \cup Resolver \cup Registrar \cup Configurer) = {}
    /\ Replier \cap (Reader \cup Requester \cup Resolver \cup Registrar \cup Configurer) = {}
    /\ Reader \cap (Requester \cup Resolver \cup Registrar \cup Configurer) = {}
    /\ Requester \cap (Resolver \cup Registrar \cup Configurer) = {}
    /\ Resolver \cap (Registrar \cup Configurer) = {}
    /\ Registrar \cap Configurer = {}
    /\ Editor \cap Waking = {} /\ Watcher \cap (Waker \cup Launcher) = {} /\ Waker \cap Launcher = {}
    /\ None \notin Proc /\ None \notin Agent /\ None \notin Team
ASSUME MeshParameters ==
    /\ AgentOf \in [Waking -> Agent]
    /\ Once \subseteq Watcher /\ ForceLaunch \subseteq Watcher \cup Waker
    /\ Denied \subseteq Agent \X Agent
    /\ Overlap \in BOOLEAN

VARIABLES
    pc,       \* where each process is
    target,   \* the message, approval or agent the command is about
    draft,    \* the entry the command will store
    snap,     \* the copy of mesh.json the command has loaded
    audit     \* the mesh events in the audit log, as <<event, process>>

vars == <<mesh, pc, target, draft, snap, audit>>
local == <<target, draft, snap>>

Ended == {"done", "failed", "denied", "idle", "nothing", "notified",
          "launched", "launchFailed", "unconfigured", "dead"}
Window == {"save", "saveRead"}
MayLoad == Overlap \/ \A q \in Proc : pc[q] \notin Window

Init ==
    /\ BoardInit
    /\ pc = [p \in Proc |-> CASE p \in Editor -> "start" [] p \in Watcher -> "poll"
                              [] p \in Waker -> "wake" [] p \in Launcher -> "launch"]
    /\ target = [p \in Proc |-> None]
    /\ draft = [p \in Proc |-> None]
    /\ snap = [p \in Proc |-> EmptyMesh]
    /\ audit = {}

(***************************************************************************)
(* The steps of every command that edits the board.                        *)
(***************************************************************************)
Goto(p, label) == pc' = [pc EXCEPT ![p] = label]
\* The process ends, and its memory with it.
Finish(p, label) ==
    /\ Goto(p, label)
    /\ target' = [target EXCEPT ![p] = None]
    /\ draft' = [draft EXCEPT ![p] = None]
    /\ snap' = [snap EXCEPT ![p] = EmptyMesh]
\* _record: one line appended to the audit log.
Log(event, x) == audit' = audit \cup {<<event, x>>}

\* LocalMeshStore.load of a command about entry t that will store d.
Load(p, t, d, label) ==
    /\ MayLoad
    /\ snap' = [snap EXCEPT ![p] = mesh]
    /\ target' = [target EXCEPT ![p] = t]
    /\ draft' = [draft EXCEPT ![p] = d]
    /\ Goto(p, label)
    /\ UNCHANGED <<mesh, audit>>

\* Mutant: a message stored under its thread id.
EditedByThread(p) ==
    CASE p \in Msg -> [snap[p] EXCEPT !.messages[draft[p].thread] = draft[p]]
      [] p \in Requester -> [snap[p] EXCEPT !.approvals[p] = draft[p]]
      [] p \in Resolver -> [snap[p] EXCEPT !.approvals[target[p]] = draft[p]]
      [] p \in Registrar -> [snap[p] EXCEPT !.agents[target[p]] = draft[p]]
      [] p \in Configurer -> [snap[p] EXCEPT !.launch_profiles[target[p]] = draft[p]]
\* The loaded copy with the one entry of the command set.
Edited(p) ==
    CASE p \in Msg -> [snap[p] EXCEPT !.messages[p] = draft[p]]
      [] p \in Requester -> [snap[p] EXCEPT !.approvals[p] = draft[p]]
      [] p \in Resolver -> [snap[p] EXCEPT !.approvals[target[p]] = draft[p]]
      [] p \in Registrar -> [snap[p] EXCEPT !.agents[target[p]] = draft[p]]
      [] p \in Configurer -> [snap[p] EXCEPT !.launch_profiles[target[p]] = draft[p]]

Save(p) ==
    /\ pc[p] = "save"
    /\ mesh' = Edited(p)
    /\ snap' = [snap EXCEPT ![p] = EmptyMesh]
    /\ Goto(p, "record")
    /\ UNCHANGED <<target, draft, audit>>

Event(p) ==
    CASE p \in Msg -> "message_sent" [] p \in Requester -> "approval_requested"
      [] p \in Resolver -> "approval_decided" [] p \in Registrar -> "agent_registered"
      [] p \in Configurer -> "launch_profile_saved"

Record(p) ==
    /\ pc[p] = "record"
    /\ Log(Event(p), p)
    /\ Finish(p, "done")
    /\ UNCHANGED mesh

\* The process is killed; what it has saved or logged stays.
Crash(p) ==
    /\ pc[p] \notin Ended \cup {"start"}
    /\ Finish(p, "dead")
    /\ UNCHANGED <<mesh, audit>>

(***************************************************************************)
(* send_message                                                            *)
(***************************************************************************)
Blocked(from, to) == <<from, to>> \in Denied

Send(p) ==
    /\ p \in Sender /\ pc[p] = "start"
    /\ \E from, to \in Agent :
          /\ ~Blocked(from, to)
          /\ Load(p, None, [from |-> from, to |-> to, thread |-> p, reply |-> None,
                            read |-> FALSE], "save")

\* _policy_denial, for a message the local policy stops.
Deny(p) ==
    /\ \/ p \in Sender /\ pc[p] = "start" /\ Denied /= {}
       \/ /\ p \in Replier /\ pc[p] = "reply"
          /\ Blocked(draft[p].from, draft[p].to)
    /\ Log("policy_denied", p)
    /\ Finish(p, "denied")
    /\ UNCHANGED mesh

(***************************************************************************)
(* read_message and reply_message                                          *)
(***************************************************************************)
\* Mutant: an answer without a thread.
AnswerNoThread(m) ==
    [from |-> mesh.messages[m].to, to |-> mesh.messages[m].from, thread |-> None,
     reply |-> m, read |-> FALSE]
\* Mutant: the answer goes to the agent that gives it.
AnswerToSelf(m) ==
    [from |-> mesh.messages[m].to, to |-> mesh.messages[m].to, thread |-> m,
     reply |-> m, read |-> FALSE]
\* What read_message returns: the answer to m, thread still to be looked up.
Answer(m) ==
    [from |-> mesh.messages[m].to, to |-> mesh.messages[m].from, thread |-> m,
     reply |-> m, read |-> FALSE]
DraftOfReader(p, m) == IF p \in Replier THEN Answer(m) ELSE None

ReadNew(p) ==
    /\ p \in Reader \cup Replier /\ pc[p] = "start"
    /\ \E m \in Msg :
          /\ Stored(m) /\ ~mesh.messages[m].read
          /\ Load(p, m, DraftOfReader(p, m), "saveRead")

\* Already read: returned without a save.
ReadAgain(p) ==
    /\ p \in Reader \cup Replier /\ pc[p] = "start"
    /\ \E m \in Msg :
          /\ Stored(m) /\ mesh.messages[m].read
          /\ \/ p \in Reader /\ Finish(p, "done")
             \/ /\ p \in Replier
                /\ target' = [target EXCEPT ![p] = m]
                /\ draft' = [draft EXCEPT ![p] = Answer(m)]
                /\ Goto(p, "reply")
                /\ UNCHANGED snap
    /\ UNCHANGED <<mesh, audit>>

\* An id that is not stored, or a message of another agent.
Refuse(p) ==
    /\ p \in Reader \cup Replier \cup Resolver /\ pc[p] = "start"
    /\ Finish(p, "failed")
    /\ UNCHANGED <<mesh, audit>>

SaveRead(p) ==
    /\ pc[p] = "saveRead"
    /\ mesh' = [snap[p] EXCEPT !.messages[target[p]].read = TRUE]
    /\ snap' = [snap EXCEPT ![p] = EmptyMesh]
    /\ Goto(p, "recordRead")
    /\ UNCHANGED <<target, draft, audit>>

RecordRead(p) ==
    /\ pc[p] = "recordRead"
    /\ Log("message_read", target[p])
    /\ \/ p \in Reader /\ Finish(p, "done")
       \/ p \in Replier /\ Goto(p, "reply") /\ UNCHANGED local
    /\ UNCHANGED mesh

\* Mutant: the thread of a reply is the message replied to.
FindThreadOfReply(p) ==
    /\ p \in Replier /\ pc[p] = "reply"
    /\ ~Blocked(draft[p].from, draft[p].to)
    /\ Goto(p, "load")
    /\ UNCHANGED <<mesh, local, audit>>
\* The thread comes from a load of its own; a message that has gone since
\* leaves the id replied to.
FindThread(p) ==
    /\ p \in Replier /\ pc[p] = "reply"
    /\ ~Blocked(draft[p].from, draft[p].to)
    /\ draft' = IF Stored(target[p])
                 THEN [draft EXCEPT ![p].thread = mesh.messages[target[p]].thread]
                 ELSE draft
    /\ Goto(p, "load")
    /\ UNCHANGED <<mesh, target, snap, audit>>

SendReply(p) ==
    /\ p \in Replier /\ pc[p] = "load"
    /\ Load(p, target[p], draft[p], "save")

(***************************************************************************)
(* Approvals, agents and launch profiles                                   *)
(***************************************************************************)
RequestApproval(p) ==
    /\ p \in Requester /\ pc[p] = "start"
    /\ Load(p, None, "pending", "save")

\* Mutant: a decision on an approval nobody asked for creates it.
ResolveUnknown(p) ==
    /\ p \in Resolver /\ pc[p] = "start"
    /\ \E a \in Approval, d \in Decision : Load(p, a, d, "save")
\* Whoever calls may decide, and a decided approval may be decided again.
ResolveApproval(p) ==
    /\ p \in Resolver /\ pc[p] = "start"
    /\ \E a \in Approval, d \in Decision :
          /\ mesh.approvals[a] /= None
          /\ Load(p, a, d, "save")

RegisterAgent(p) ==
    /\ p \in Registrar /\ pc[p] = "start"
    /\ \E g \in Agent, t \in Team : Load(p, g, t, "save")

SetLaunchProfile(p) ==
    /\ p \in Configurer /\ pc[p] = "start"
    /\ \E g \in Agent, w \in WakeMode : Load(p, g, w, "save")

(***************************************************************************)
(* watch, wake and launch-agent                                            *)
(***************************************************************************)
\* Mutant: the messages an agent has sent.
UnreadSent(g) == {m \in Msg : Stored(m) /\ mesh.messages[m].from = g /\ ~mesh.messages[m].read}
\* list_messages(include_read=False).
Unread(g) == {m \in Msg : Stored(m) /\ mesh.messages[m].to = g /\ ~mesh.messages[m].read}

\* One turn of the loop; without --once a turn that finds nothing sleeps.
Poll(w) ==
    /\ w \in Watcher /\ pc[w] = "poll"
    /\ \/ Unread(AgentOf[w]) /= {} /\ Goto(w, "wake")
       \/ Unread(AgentOf[w]) = {} /\ w \in Once /\ Goto(w, "idle")
    /\ UNCHANGED <<mesh, local, audit>>

\* wake checks again, and somebody may have read the message meanwhile.
Wake(w) ==
    /\ pc[w] = "wake"
    /\ Log("wake_requested", w)
    /\ Goto(w, IF Unread(AgentOf[w]) = {} THEN "nothing" ELSE "profile")
    /\ UNCHANGED <<mesh, local>>

Profile(w) == mesh.launch_profiles[AgentOf[w]]
ShouldLaunch(w) == /\ w \in ForceLaunch \/ Profile(w) = "launch"
                   /\ Profile(w) /= None

DecideLaunch(w) ==
    /\ pc[w] = "profile"
    /\ Log("wake_allowed", w)
    /\ Goto(w, IF ShouldLaunch(w) THEN "launch" ELSE "notified")
    /\ UNCHANGED <<mesh, local>>

\* launch_agent reads the profile once more; Popen may fail.
Launch(w) ==
    /\ pc[w] = "launch"
    /\ \/ Profile(w) = None /\ Goto(w, "unconfigured") /\ UNCHANGED audit
       \/ /\ Profile(w) /= None
          /\ \/ Goto(w, "launched") /\ Log("agent_launched", w)
             \/ Goto(w, "launchFailed") /\ Log("agent_launch_failed", w)
    /\ UNCHANGED <<mesh, local>>

Edit(p) ==
    \/ Send(p) \/ Deny(p) \/ ReadNew(p) \/ ReadAgain(p) \/ Refuse(p) \/ SaveRead(p)
    \/ RecordRead(p) \/ FindThread(p) \/ SendReply(p) \/ RequestApproval(p)
    \/ ResolveApproval(p) \/ RegisterAgent(p) \/ SetLaunchProfile(p) \/ Save(p) \/ Record(p)
Notify(w) == Poll(w) \/ Wake(w) \/ DecideLaunch(w) \/ Launch(w)

Next ==
    \/ \E p \in Editor : Edit(p) \/ Crash(p)
    \/ \E w \in Waking : Notify(w) \/ Crash(w)

Spec == Init /\ [][Next]_vars
\* A watch keeps polling: its loop sleeps at most interval_seconds, and nothing
\* it does waits for another command.
FairSpec == Spec /\ \A w \in Waking : WF_vars(Notify(w))

(***************************************************************************)
(* Properties                                                              *)
(***************************************************************************)
Label(p) ==
    CASE p \in Sender -> {"start", "save", "record", "done", "denied", "dead"}
      [] p \in Replier -> {"start", "saveRead", "recordRead", "reply", "load", "save",
                          "record", "done", "failed", "denied", "dead"}
      [] p \in Reader -> {"start", "saveRead", "recordRead", "done", "failed", "dead"}
      [] p \in Resolver -> {"start", "save", "record", "done", "failed", "dead"}
      [] p \in Requester \cup Registrar \cup Configurer ->
            {"start", "save", "record", "done", "dead"}
      [] p \in Waking -> {"poll", "idle", "wake", "nothing", "profile", "notified",
                         "launch", "launched", "launchFailed", "unconfigured", "dead"}
Target(p) ==
    CASE p \in Reader \cup Replier -> Msg
      [] p \in Resolver -> Approval
      [] p \in Registrar \cup Configurer -> Agent
      [] OTHER -> {}
Draft(p) ==
    CASE p \in Msg -> Message
      [] p \in Requester -> {"pending"}
      [] p \in Resolver -> Decision
      [] p \in Registrar -> Team
      [] p \in Configurer -> WakeMode
      [] OTHER -> {}

\* Every variable has its type; a command is where its kind of command can be.
TypeOK ==
    /\ BoardOK
    /\ DOMAIN pc = Proc /\ \A p \in Proc : pc[p] \in Label(p)
    /\ DOMAIN target = Proc /\ \A p \in Proc : target[p] \in Target(p) \cup {None}
    /\ DOMAIN draft = Proc /\ \A p \in Proc : draft[p] = None \/ draft[p] \in Draft(p)
    /\ snap \in [Proc -> MeshState]

\* A message the audit log reports as sent is on the board, and one it reports
\* as read is marked read: save comes before _record, in every command.
SentIsStored ==
    /\ \A m \in Msg : <<"message_sent", m>> \in audit => Stored(m)
    /\ \A m \in Msg : <<"message_read", m>> \in audit => Stored(m) /\ mesh.messages[m].read

\* Whatever the commands overwrite of each other, a reply on the board is from
\* the agent its original was for, to the agent that wrote it.
RepliesReturn ==
    \A m \in Msg : Stored(m) =>
        LET re == mesh.messages[m].reply IN
        re /= None /\ Stored(re) =>
            /\ mesh.messages[m].from = mesh.messages[re].to
            /\ mesh.messages[m].to = mesh.messages[re].from

\* While a watch for an agent runs, an unread message for it ends the watch,
\* with the agent notified or launched, unless the message is read first or is
\* lost to an overlapping save.
Waits(m, g) == Stored(m) /\ mesh.messages[m].to = g /\ ~mesh.messages[m].read
Woken == {"notified", "launched", "launchFailed", "unconfigured", "dead"}
MessageWakes ==
    \A w \in Watcher : \A m \in Msg :
        pc[w] = "poll" /\ Waits(m, AgentOf[w])
            ~> pc[w] \in Woken \/ ~Waits(m, AgentOf[w])

=============================================================================
