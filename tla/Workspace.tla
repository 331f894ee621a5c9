------------------------------ MODULE Workspace ------------------------------
(***************************************************************************)
(* Agent workspaces: agentsecure/workspace/ and its callers.               *)
(*                                                                         *)
(* `agentsecure run` gathers the secret values it knows, then builds a     *)
(* second tree file by file: dotenv files are rewritten without those      *)
(* values, write-protected files are copied, the rest is copied or linked  *)
(* to the project.  The agent works in that tree; the tree is removed when *)
(* the run ends, or kept for `agentsecure apply`, which plans a set of     *)
(* files and copies them back one by one.                                  *)
(*                                                                         *)
(* The user edits the project all the time, several runs and applies may   *)
(* be under way at once, and a command may be killed between any two       *)
(* files.  A file is its content: a text, a dotenv line that gives a name  *)
(* a real secret, or that line replaced or taken out (Hidden).             *)
(***************************************************************************)
EXTENDS Naturals

CONSTANTS
    Path,         \* relative paths of files
    Dotenv,       \* .env, .env.local, .env.development and *.env in any directory
    Scanned,      \* the dotenv files at the root, which discovery reads
    ProtectWrite, \* files.protect_write of agentsecure.json
    ByDefault,    \* DEFAULT_PROTECTED_PATHS of apply
    Pruned,       \* under dist or build: no part of a workspace, but seen by apply
    Text,         \* contents without a secret
    Name, Value,  \* of the secrets
    Bound,        \* the <<name, value>> pairs agentsecure.json and the vault hold
    Denied,       \* the names whose env_policy is deny
    Hidden,       \* the content of a rewritten dotenv file
    Link,         \* a link to the file of the project
    None,         \* no file
    CopyRun,      \* runs with --workspace-mode copy
    LinkRun,      \* runs with --workspace-mode symlink
    Keep,         \* runs with --workspace-keep
    Apply,        \* `agentsecure apply` commands
    Project,      \* the projects a behaviour may start with
    MaxEdits      \* bound on the user's edits

Run == CopyRun \cup LinkRun
Secret == Name \X Value
Content == Text \cup Secret \cup {Hidden}
Protected == ProtectWrite \cup ByDefault

ASSUME PathAssumption ==
    /\ Dotenv \cup ProtectWrite \cup ByDefault \cup Pruned \subseteq Path
    /\ Scanned \subseteq Dotenv
ASSUME ContentAssumption ==
    /\ Bound \subseteq Secret /\ Denied \subseteq Name
    /\ Text \cap Secret = {} /\ Hidden \notin Text \cup Secret
    /\ Link \notin Content /\ None \notin Content /\ Link /= None
ASSUME RunAssumption ==
    /\ CopyRun \cap LinkRun = {} /\ Keep \subseteq Run /\ Run \cap Apply = {}
    /\ MaxEdits \in Nat
ASSUME ProjectAssumption ==
    Project \subseteq {s \in [Path -> Text \cup Secret \cup {None}] :
                          \A p \in Path : s[p] \in Secret => p \in Dotenv}

VARIABLES
    source,  \* [Path -> content or None]: the project
    tree,    \* [Run -> [Path -> content, Link or None]]: the workspaces
    pc,      \* where each command is
    known,   \* run: its replacements, the <<name, value>> pairs it hides
    todo,    \* run: files still to materialise; apply: files still to copy
    from,    \* apply: the run whose workspace it applies
    edits    \* number of edits the user made

vars == <<source, tree, pc, known, todo, from, edits>>

Ended == {"done", "failed", "dead"}
NoFiles == [p \in Path |-> None]
\* The workspace directory is there: it has been made and not removed.
Exists(r) == pc[r] \in {"fill", "up", "kept", "failed", "dead"} /\ tree[r] /= NoFiles

Init ==
    /\ source \in Project
    /\ tree = [r \in Run |-> NoFiles]
    /\ pc = [c \in Run \cup Apply |-> "start"]
    /\ known = [r \in Run |-> {}]
    /\ todo = [c \in Run \cup Apply |-> {}]
    /\ from = [a \in Apply |-> None]
    /\ edits = 0

Goto(c, label) == pc' = [pc EXCEPT ![c] = label]

(***************************************************************************)
(* A run                                                                   *)
(***************************************************************************)
\* Mutant: the value of a line is taken for its name.
FoundSwapped == {<<c[2], c[1]>> : c \in {source[p] : p \in Scanned} \cap Secret}
\* What discovery finds.
Found == {source[p] : p \in Scanned} \cap Secret

NamesOf(set) == {c[1] : c \in set}

\* protect_secrets: names under a deny policy are taken, the user selects among the
\* others.  _configured_secret_replacements adds the bindings of other names, as far
\* as their token resolves.
Discover(r) ==
    /\ r \in Run /\ pc[r] = "start"
    /\ \E k \in SUBSET Found :
          /\ {c \in Found : c[1] \in Denied} \subseteq k
          /\ \E more \in SUBSET {c \in Bound : c[1] \notin NamesOf(k)} :
                known' = [known EXCEPT ![r] = k \cup more]
    /\ Goto(r, "ready")
    /\ UNCHANGED <<source, tree, todo, from, edits>>

\* --no-workspace, the command-guard runtime, or nothing to hide or protect: the
\* agent runs in the project.
NoWorkspace(r) ==
    /\ r \in Run /\ pc[r] = "ready"
    /\ Goto(r, "done")
    /\ UNCHANGED <<source, tree, known, todo, from, edits>>

\* create_workspace walks the project as it is now.
Create(r) ==
    /\ r \in Run /\ pc[r] = "ready"
    /\ known[r] /= {} \/ ProtectWrite /= {}
    /\ todo' = [todo EXCEPT ![r] = {p \in Path \ Pruned : source[p] /= None}]
    /\ Goto(r, "fill")
    /\ UNCHANGED <<source, tree, known, from, edits>>

\* Dotenv and write-protected files are copied in either mode.
MustCopy(r, p) == r \in CopyRun \/ p \in ProtectWrite \cup Dotenv

\* A line goes for its name under a deny policy; a value is replaced wherever it is.
Replaced(r, c) ==
    \E q \in known[r] : IF q[1] \in Denied THEN c[1] = q[1] ELSE c[2] = q[2]
\* Mutant: only the dotenv files discovery reads are rewritten.
RewrittenScanned(r, p) ==
    IF p \in Scanned /\ source[p] \in Secret /\ Replaced(r, source[p]) THEN Hidden ELSE source[p]
\* rewrite_file.
Rewritten(r, p) ==
    IF p \in Dotenv /\ source[p] \in Secret /\ Replaced(r, source[p]) THEN Hidden ELSE source[p]

\* One file of the walk.  A link does not look at its target.
Materialise(r, p) ==
    /\ pc[r] = "fill" /\ p \in todo[r]
    /\ MustCopy(r, p) => source[p] /= None
    /\ tree' = [tree EXCEPT ![r][p] = IF MustCopy(r, p) THEN Rewritten(r, p) ELSE Link]
    /\ todo' = [todo EXCEPT ![r] = @ \ {p}]
    /\ UNCHANGED <<source, pc, known, from, edits>>

\* The file to copy has gone since the walk listed it: OSError, and run_agent
\* returns before the finally clause that would remove the workspace.
MaterialiseFails(r, p) ==
    /\ pc[r] = "fill" /\ p \in todo[r]
    /\ MustCopy(r, p) /\ source[p] = None
    /\ Goto(r, "failed")
    /\ todo' = [todo EXCEPT ![r] = {}]
    /\ UNCHANGED <<source, tree, known, from, edits>>

Launch(r) ==
    /\ pc[r] = "fill" /\ todo[r] = {}
    /\ Goto(r, "up")
    /\ UNCHANGED <<source, tree, known, todo, from, edits>>

\* A blocked command, no gateway, no guidance file: run_agent returns before its
\* finally clause, and the workspace stays.
LaunchFails(r) ==
    /\ pc[r] = "fill" /\ todo[r] = {}
    /\ Goto(r, "failed")
    /\ UNCHANGED <<source, tree, known, todo, from, edits>>

\* The agent, a program of the user's, writes a file in place: through the link where it
\* is one.  Copies of protected files are read-only (protect_write_paths).
AgentWrite(r, p) ==
    /\ pc[r] = "up" /\ tree[r][p] /= None
    /\ \E t \in Text :
          \/ /\ tree[r][p] = Link
             /\ source' = [source EXCEPT ![p] = t]
             /\ UNCHANGED tree
          \/ /\ tree[r][p] /= Link /\ p \notin ProtectWrite
             /\ tree' = [tree EXCEPT ![r][p] = t]
             /\ UNCHANGED source
    /\ UNCHANGED <<pc, known, todo, from, edits>>

\* The agent puts another file in its place, or a new one: the directory is writable.
AgentReplace(r, p) ==
    /\ pc[r] = "up"
    /\ \E t \in Text : tree' = [tree EXCEPT ![r][p] = t]
    /\ UNCHANGED <<source, pc, known, todo, from, edits>>

AgentDelete(r, p) ==
    /\ pc[r] = "up" /\ tree[r][p] /= None
    /\ tree' = [tree EXCEPT ![r][p] = None]
    /\ UNCHANGED <<source, pc, known, todo, from, edits>>

\* The agent exits; the finally clause removes the tree, links and all.
Finish(r) ==
    /\ pc[r] = "up"
    /\ IF r \in Keep
       THEN Goto(r, "kept") /\ UNCHANGED tree
       ELSE Goto(r, "done") /\ tree' = [tree EXCEPT ![r] = NoFiles]
    /\ UNCHANGED <<source, known, todo, from, edits>>

(***************************************************************************)
(* apply                                                                   *)
(***************************************************************************)
IsFile(r, p) == tree[r][p] \in Content

\* Mutant: the plan forgets what is protected.
PlanAll(r) == {p \in Path : IsFile(r, p) /\ tree[r][p] /= source[p]}
\* WorkspaceApplyPlanner.plan, the files with action "copy".
Plan(r) == {p \in Path \ Protected : IsFile(r, p) /\ tree[r][p] /= source[p]}

\* --workspace PATH, or the newest of those that are there.
StartApply(a, r) ==
    /\ a \in Apply /\ pc[a] = "start" /\ Exists(r)
    /\ from' = [from EXCEPT ![a] = r]
    /\ todo' = [todo EXCEPT ![a] = Plan(r)]
    /\ Goto(a, "copy")
    /\ UNCHANGED <<source, tree, known, edits>>

NoWorkspaceFound(a) ==
    /\ a \in Apply /\ pc[a] = "start" /\ \A r \in Run : ~Exists(r)
    /\ Goto(a, "failed")
    /\ UNCHANGED <<source, tree, known, todo, from, edits>>

\* _copy_file, of what the workspace holds by now.
CopyBack(a, p) ==
    /\ pc[a] = "copy" /\ p \in todo[a] /\ IsFile(from[a], p)
    /\ source' = [source EXCEPT ![p] = tree[from[a]][p]]
    /\ todo' = [todo EXCEPT ![a] = @ \ {p}]
    /\ UNCHANGED <<tree, pc, known, from, edits>>

\* It is gone, or a link to the very file it would replace: copy2 raises, and the
\* files copied before stay.
CopyFails(a, p) ==
    /\ pc[a] = "copy" /\ p \in todo[a] /\ ~IsFile(from[a], p)
    /\ Goto(a, "failed")
    /\ todo' = [todo EXCEPT ![a] = {}]
    /\ UNCHANGED <<source, tree, known, from, edits>>

EndApply(a) ==
    /\ pc[a] = "copy" /\ todo[a] = {}
    /\ Goto(a, "done")
    /\ UNCHANGED <<source, tree, known, todo, from, edits>>

(***************************************************************************)
(* The environment                                                         *)
(***************************************************************************)
\* The user changes, adds or removes a file of the project.
Edit(p) ==
    /\ edits < MaxEdits /\ edits' = edits + 1
    /\ \E c \in Text \cup Secret \cup {None} :
          /\ c \in Secret => p \in Dotenv
          /\ source' = [source EXCEPT ![p] = c]
    /\ UNCHANGED <<tree, pc, known, todo, from>>

Crash(c) ==
    /\ pc[c] \notin Ended \cup {"start", "kept"}
    /\ Goto(c, "dead")
    /\ todo' = [todo EXCEPT ![c] = {}]
    /\ UNCHANGED <<source, tree, known, from, edits>>

RunStep(r) ==
    \/ Discover(r) \/ NoWorkspace(r) \/ Create(r) \/ Launch(r) \/ LaunchFails(r) \/ Finish(r)
    \/ \E p \in Path : \/ Materialise(r, p) \/ MaterialiseFails(r, p)
                       \/ AgentWrite(r, p) \/ AgentReplace(r, p) \/ AgentDelete(r, p)
ApplyStep(a) ==
    \/ NoWorkspaceFound(a) \/ EndApply(a)
    \/ \E r \in Run : StartApply(a, r)
    \/ \E p \in Path : CopyBack(a, p) \/ CopyFails(a, p)

Next ==
    \/ \E r \in Run : RunStep(r) \/ Crash(r)
    \/ \E a \in Apply : ApplyStep(a) \/ Crash(a)
    \/ \E p \in Path : Edit(p)

Spec == Init /\ [][Next]_vars

(***************************************************************************)
(* Properties                                                              *)
(***************************************************************************)
TypeOK ==
    /\ source \in [Path -> Content \cup {None}]
    /\ tree \in [Run -> [Path -> Content \cup {Link, None}]]
    /\ pc \in [Run \cup Apply -> Ended \cup {"start", "ready", "fill", "up", "kept", "copy"}]
    /\ known \in [Run -> SUBSET Secret]
    /\ todo \in [Run \cup Apply -> SUBSET Path]
    /\ from \in [Apply -> Run \cup {None}]
    /\ edits \in Nat

\* What an agent reads at a path.
Sees(r, p) == IF tree[r][p] = Link THEN source[p] ELSE tree[r][p]

\* No dotenv file of a workspace shows a value its run replaces, or a name its run
\* removes, in either mode, whatever the user, other runs and applies do to the project.
\* What a run replaces is what it knew when it began: of a value the user puts into the
\* project after that the property says nothing, and the agent may see it.
SecretsHidden ==
    \A r \in Run, p \in Dotenv : Sees(r, p) \in Secret =>
        \A q \in known[r] :
            IF q[1] \in Denied THEN Sees(r, p)[1] /= q[1] ELSE Sees(r, p)[2] /= q[2]

\* A file under files.protect_write, and a dotenv file apply protects, changes by the
\* user's own hand only: no agent's edit reaches it through a link and no apply
\* through a plan.
ProtectedKept ==
    [][\A p \in ProtectWrite \cup (Dotenv \cap ByDefault) :
          source'[p] /= source[p] => Edit(p)]_vars

\* docs/advanced-runtime.md: dotenv files are "excluded from normal apply behavior",
\* so an apply never replaces a real secret of the project by a virtual one.
RealKept ==
    [][\A p \in Path : source[p] \in Secret => source'[p] /= Hidden]_vars
=============================================================================
