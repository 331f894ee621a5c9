------------------------------ MODULE MeshBoard ------------------------------
(***************************************************************************)
(* What the local agent mesh promises: a board shared by the agents of a   *)
(* project.  Messages are posted once, stay, and are read once; a reply    *)
(* answers a message that was read, in its thread, back to its sender; an  *)
(* approval starts pending and is decided, perhaps again; agents and       *)
(* launch profiles are set, never taken back.  Every command acts at once. *)
(*                                                                         *)
(* Module Mesh extends this one with the reads and writes of mesh.json, on *)
(* the same variable, and implements BoardSpec when no two commands are    *)
(* between their read and their write at the same time.                    *)
(***************************************************************************)
CONSTANTS
    Agent,      \* agent ids
    Team,       \* teams of agents
    Msg,        \* message ids
    Approval,   \* approval ids
    None        \* no such entry

VARIABLE
    mesh        \* the content of .agentsecure/mesh.json

Message == [from : Agent, to : Agent, thread : Msg, reply : Msg \cup {None}, read : BOOLEAN]

Decision == {"approved", "denied", "needs_info"}
WakeMode == {"notify", "launch"}

ASSUME NoneAssumption == None \notin Msg \cup Message \cup {"pending"} \cup Decision

EmptyMesh == [messages |-> [m \in Msg |-> None],
              approvals |-> [a \in Approval |-> None],
              agents |-> [g \in Agent |-> None],
              launch_profiles |-> [g \in Agent |-> None]]
MeshState == [messages : [Msg -> Message \cup {None}],
         approvals : [Approval -> {"pending"} \cup Decision \cup {None}],
         agents : [Agent -> Team \cup {None}],
         launch_profiles : [Agent -> WakeMode \cup {None}]]

BoardInit == mesh = EmptyMesh

Stored(m) == mesh.messages[m] /= None

Post(m) ==
    /\ ~Stored(m)
    /\ \E from, to \in Agent :
          mesh' = [mesh EXCEPT !.messages[m] =
                      [from |-> from, to |-> to, thread |-> m, reply |-> None, read |-> FALSE]]

Acknowledge(m) ==
    /\ Stored(m) /\ ~mesh.messages[m].read
    /\ mesh' = [mesh EXCEPT !.messages[m].read = TRUE]

Reply(m, re) ==
    /\ ~Stored(m)
    /\ Stored(re) /\ mesh.messages[re].read
    /\ mesh' = [mesh EXCEPT !.messages[m] =
                   [from |-> mesh.messages[re].to, to |-> mesh.messages[re].from,
                    thread |-> mesh.messages[re].thread, reply |-> re, read |-> FALSE]]

Request(a) ==
    /\ mesh.approvals[a] = None
    /\ mesh' = [mesh EXCEPT !.approvals[a] = "pending"]

Decide(a) ==
    /\ mesh.approvals[a] /= None
    /\ \E d \in Decision : mesh' = [mesh EXCEPT !.approvals[a] = d]

Enlist(g) == \E t \in Team : mesh' = [mesh EXCEPT !.agents[g] = t]

Configure(g) == \E w \in WakeMode : mesh' = [mesh EXCEPT !.launch_profiles[g] = w]

BoardNext ==
    \/ \E m \in Msg : Post(m) \/ Acknowledge(m) \/ (\E re \in Msg : Reply(m, re))
    \/ \E a \in Approval : Request(a) \/ Decide(a)
    \/ \E g \in Agent : Enlist(g) \/ Configure(g)

BoardSpec == BoardInit /\ [][BoardNext]_mesh

\* The board has the shape of mesh.json.
BoardOK == mesh \in MeshState

\* A stored message belongs to a thread whose first message is stored too, and
\* a reply's original is stored, was read and is in the same thread, with the
\* two agents swapped.  Threads are what send_message's thread_id is for.
ThreadsRooted ==
    \A m \in Msg : Stored(m) =>
        LET new == mesh.messages[m] IN
        /\ Stored(new.thread) /\ mesh.messages[new.thread].thread = new.thread
        /\ mesh.messages[new.thread].reply = None
        /\ new.reply /= None =>
              /\ Stored(new.reply)
              /\ LET orig == mesh.messages[new.reply] IN
                 /\ orig.read /\ orig.thread = new.thread
                 /\ orig.to = new.from /\ orig.from = new.to
=============================================================================
