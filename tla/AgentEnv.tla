------------------------------ MODULE AgentEnv ------------------------------
(***************************************************************************)
(* The environment `agentsecure run` gives an agent, and what guarded      *)
(* commands show it, while agentsecure.json is edited.                     *)
(*                                                                         *)
(* A run reads the file again and again: to sort what discovery found into *)
(* names a rule covers and names it may offer to virtualise; at each key   *)
(* it creates, which it adds to the file; after the key of a brokered      *)
(* name, for its URL; for the Container its gateway and the environment    *)
(* are made from; and once more for the sanitizer of the agent's output.   *)
(* Each guarded command of the agent reads it again.  Editing commands     *)
(* load the whole file and replace it later.  Runs race for the ports      *)
(* their gateways listen on.                                               *)
(*                                                                         *)
(* Secrets behind the keys, and grants, are module SecretGrants.           *)
(***************************************************************************)
EXTENDS Policy

CONSTANTS
    Real, Virtual, Absent, \* values of a variable: the shell's, a token, unset
    Found,       \* the names of the shell that discovery takes for secrets
    Run,         \* `agentsecure run` commands
    NoDiscover,  \* those with --no-discover
    MaxEdits,    \* bound on the editing commands that run
    Overlap,     \* may two commands be between load and save of the file?
    GatewayPort, \* the ports _available_gateway_port tries, the preferred one lowest
    World,       \* holds the ports other programs listen on
    Busy         \* sets of ports it may hold

\* Editing commands, each run at most once.
Editor == [op : {"apply"}, payload : Payload] \cup [op : {"setup"}, setup : Setups]

ASSUME AgentAssumption ==
    /\ Found \subseteq Name /\ NoDiscover \subseteq Run /\ Overlap \in BOOLEAN /\ MaxEdits \in Nat
    /\ GatewayPort \subseteq Nat /\ GatewayPort # {} /\ Busy \subseteq SUBSET GatewayPort
    /\ Real \notin {Virtual, Absent} \cup Nat
    /\ Run \cap Editor = {} /\ World \notin Run \cup {None} /\ None \notin Run
    /\ None \notin GatewayPort

VARIABLES
    config,   \* agentsecure.json
    copy,     \* what a command between load and save has loaded
    epc, pc,  \* where editors and runs are
    todo,     \* keys a run has yet to create, and whether for a brokered name
    plan,     \* the brokered name whose URL it is about to work out
    kept,     \* history: keys it has created
    denied,   \* names it has told the user it denies
    conf,     \* the configuration of its Container
    port,     \* the port it has picked for its gateway
    listener, \* who listens on each port
    env,      \* the environment it has built
    shield    \* the configuration of its output sanitizer

runVars == <<pc, todo, plan, kept, denied, conf, port, listener, env, shield>>
vars == <<config, copy, epc, runVars>>

NoEnv == [n \in Name |-> Absent]

Init ==
    /\ config \in Initial
    /\ copy = [x \in Editor \cup Run |-> None]
    /\ epc = [e \in Editor |-> "start"]
    /\ pc = [r \in Run |-> "start"]
    /\ todo = [r \in Run |-> {}] /\ kept = [r \in Run |-> {}] /\ denied = [r \in Run |-> {}]
    /\ plan = [r \in Run |-> None]
    /\ conf = [r \in Run |-> None] /\ shield = [r \in Run |-> None]
    /\ port = [r \in Run |-> None]
    /\ \E B \in Busy : listener = [q \in GatewayPort |-> IF q \in B THEN World ELSE None]
    /\ env = [r \in Run |-> NoEnv]

MayLoad ==
    Overlap \/ (/\ \A e \in Editor : epc[e] # "loaded"
                /\ \A r \in Run : pc[r] # "save")
Goto(r, label) == pc' = [pc EXCEPT ![r] = label]
-----------------------------------------------------------------------------
(* Editing commands.                                                       *)

Edited(c, e) ==
    IF e.op = "apply" THEN Built(c, e.payload) ELSE WithProvider(c, e.setup[1], e.setup[2])

EditLoad(e) ==
    /\ epc[e] = "start" /\ MayLoad
    /\ Cardinality({f \in Editor : epc[f] # "start"}) < MaxEdits
    /\ copy' = [copy EXCEPT ![e] = config]
    /\ epc' = [epc EXCEPT ![e] = "loaded"]
    /\ UNCHANGED <<config, runVars>>

\* JsonConfigWriter.save replaces the file.  A payload is saved if what it makes loads and
\* differs from what it was made of; a setup is saved as it is.
EditSave(e) ==
    /\ epc[e] = "loaded"
    /\ e.op = "apply" => Accepted(copy[e], e.payload) /\ Edited(copy[e], e) # copy[e]
    /\ config' = Edited(copy[e], e)
    /\ copy' = [copy EXCEPT ![e] = None]
    /\ epc' = [epc EXCEPT ![e] = "done"]
    /\ UNCHANGED runVars

\* ValueError or ConfigError, nothing to change, or the command is killed.
EditFails(e) ==
    /\ epc[e] = "loaded"
    /\ copy' = [copy EXCEPT ![e] = None]
    /\ epc' = [epc EXCEPT ![e] = "done"]
    /\ UNCHANGED <<config, runVars>>
-----------------------------------------------------------------------------
(* protect_secrets.  A load of a file the loader refuses ends the run.     *)

\* Names under a rule are denied or get a key; the user selects among the others, and
\* may expose one under another name.
Discover(r) ==
    /\ pc[r] = "start" /\ r \notin NoDiscover
    /\ Found # {} => Loads(config)
    /\ LET ruled == Found \cap DOMAIN config.rules
           deny == {n \in ruled : ModeOf(config, n) = "deny"}
       IN /\ denied' = [denied EXCEPT ![r] = deny]
          /\ \E chosen \in Partial(Found \ ruled, Name) :
                todo' = [todo EXCEPT ![r] =
                    {[key |-> <<n, n>>, broker |-> ModeOf(config, n) = "broker"] : n \in ruled \ deny}
                    \cup {[key |-> <<chosen[n], n>>, broker |-> FALSE] : n \in DOMAIN chosen}]
    /\ Goto(r, "protect")
    /\ UNCHANGED <<config, copy, epc, plan, kept, conf, port, listener, env, shield>>

\* create_key, once the secret and its grant are stored; it reads the file as JSON only.
KeyLoad(r) ==
    /\ pc[r] = "protect" /\ todo[r] # {} /\ MayLoad
    /\ copy' = [copy EXCEPT ![r] = config]
    /\ Goto(r, "save")
    /\ UNCHANGED <<config, epc, todo, plan, kept, denied, conf, port, listener, env, shield>>

KeySave(r, job) ==
    /\ pc[r] = "save" /\ job \in todo[r]
    /\ config' = WithKey(copy[r], job.key)
    /\ copy' = [copy EXCEPT ![r] = None]
    /\ todo' = [todo EXCEPT ![r] = @ \ {job}]
    /\ kept' = [kept EXCEPT ![r] = @ \cup {job.key}]
    /\ plan' = [plan EXCEPT ![r] = IF job.broker THEN job.key[1] ELSE None]
    /\ Goto(r, IF job.broker THEN "plan" ELSE "protect")
    /\ UNCHANGED <<epc, denied, conf, port, listener, env, shield>>

\* _create_broker_secret_replacement loads the file once more; BrokerPlanningError, as when
\* the name is no longer brokered, ends the run.
PlanUrl(r) ==
    /\ pc[r] = "plan" /\ Loads(config) /\ Plannable(config, plan[r])
    /\ Goto(r, "protect")
    /\ plan' = [plan EXCEPT ![r] = None]
    /\ UNCHANGED <<config, copy, epc, todo, kept, denied, conf, port, listener, env, shield>>
-----------------------------------------------------------------------------
(* The gateway and the environment.                                        *)

\* Container.from_config_path.
Prepare(r) ==
    /\ IF r \in NoDiscover THEN pc[r] = "start" ELSE pc[r] = "protect" /\ todo[r] = {}
    /\ Loads(config)
    /\ conf' = [conf EXCEPT ![r] = config]
    /\ Goto(r, "ready")
    /\ UNCHANGED <<config, copy, epc, todo, plan, kept, denied, port, listener, env, shield>>

FreeGatewayPorts == {q \in GatewayPort : listener[q] = None}
\* Mutant: with every port taken, one that was not tried.
CandidatesBeyond == IF FreeGatewayPorts = {} THEN {Cardinality(GatewayPort) + 1} ELSE FreeGatewayPorts
\* _available_gateway_port takes the first it can bind, or the preferred one after all.
Candidates == IF FreeGatewayPorts = {} THEN GatewayPort ELSE FreeGatewayPorts

Probe(r) ==
    /\ pc[r] = "ready"
    /\ \E q \in Candidates : /\ \A other \in Candidates : q <= other
                            /\ port' = [port EXCEPT ![r] = q]
    /\ Goto(r, "probed")
    /\ UNCHANGED <<config, copy, epc, todo, plan, kept, denied, conf, listener, env, shield>>

\* Mutant: the thread is started and its failure to bind is not waited for.
ListenUnchecked(r) ==
    /\ pc[r] = "probed"
    /\ listener' = [listener EXCEPT ![port[r]] = IF @ = None THEN r ELSE @]
    /\ Goto(r, "listening")
    /\ UNCHANGED <<config, copy, epc, todo, plan, kept, denied, conf, port, env, shield>>
\* _start_local_gateway_thread: by now another may listen on the port, and the run ends.
Listen(r) ==
    /\ pc[r] = "probed" /\ listener[port[r]] = None
    /\ listener' = [listener EXCEPT ![port[r]] = r]
    /\ Goto(r, "listening")
    /\ UNCHANGED <<config, copy, epc, todo, plan, kept, denied, conf, port, env, shield>>

\* Mutant: only names that have a key are taken out of the shell's environment.
ValueKeyed(c, n) ==
    IF ~Keyed(c, n) THEN IF n \in Found THEN Real ELSE Absent
    ELSE CASE ModeOf(c, n) = "deny" -> Absent
           [] ModeOf(c, n) = "broker" -> BrokerUrl(c, n)
           [] ModeOf(c, n) = "virtualize" -> Virtual
\* The shell's value, unless a rule takes it away; over it what
\* ConfiguredVirtualEnvironmentProvider.build_environment has for the keys.
ValueOf(c, n) ==
    IF ~Keyed(c, n) THEN IF n \in Found \ DOMAIN c.rules THEN Real ELSE Absent
    ELSE CASE ModeOf(c, n) = "deny" -> Absent
           [] ModeOf(c, n) = "broker" -> BrokerUrl(c, n)
           [] ModeOf(c, n) = "virtualize" -> Virtual

BuildEnv(r) ==
    /\ pc[r] = "listening"
    /\ env' = [env EXCEPT ![r] = [n \in Name |-> ValueOf(conf[r], n)]]
    /\ Goto(r, "built")
    /\ UNCHANGED <<config, copy, epc, todo, plan, kept, denied, conf, port, listener, shield>>

\* SecretOutputSanitizer.from_config_path, and the agent's process.
Launch(r) ==
    /\ pc[r] = "built" /\ Loads(config)
    /\ shield' = [shield EXCEPT ![r] = config]
    /\ Goto(r, "up")
    /\ UNCHANGED <<config, copy, epc, todo, plan, kept, denied, conf, port, listener, env>>

\* _should_preserve_interactive_tty: an interactive agent gets the terminal to itself, and
\* no sanitizer sees its output.
LaunchInteractive(r) ==
    /\ pc[r] = "built" /\ Loads(config)
    /\ Goto(r, "tty")
    /\ UNCHANGED <<config, copy, epc, todo, plan, kept, denied, conf, port, listener, env, shield>>

\* The agent exits, run_agent returns early, or it is killed: its gateway and all it
\* held go with it.
Forget(r) ==
    /\ Goto(r, "ended")
    /\ copy' = [copy EXCEPT ![r] = None]
    /\ todo' = [todo EXCEPT ![r] = {}] /\ plan' = [plan EXCEPT ![r] = None]
    /\ kept' = [kept EXCEPT ![r] = {}] /\ denied' = [denied EXCEPT ![r] = {}]
    /\ conf' = [conf EXCEPT ![r] = None] /\ shield' = [shield EXCEPT ![r] = None]
    /\ port' = [port EXCEPT ![r] = None] /\ env' = [env EXCEPT ![r] = NoEnv]
    /\ listener' = [q \in GatewayPort |-> IF listener[q] = r THEN None ELSE listener[q]]
    /\ UNCHANGED <<config, epc>>

End(r) == pc[r] \notin {"start", "ended"} /\ Forget(r)

EditStep(e) == EditLoad(e) \/ EditSave(e) \/ EditFails(e)
RunStep(r) ==
    \/ Discover(r) \/ KeyLoad(r) \/ PlanUrl(r)
    \/ \E job \in todo[r] : KeySave(r, job)
    \/ Prepare(r) \/ Probe(r) \/ Listen(r) \/ BuildEnv(r)
    \/ Launch(r) \/ LaunchInteractive(r) \/ End(r)

Next ==
    \/ \E e \in Editor : EditStep(e)
    \/ \E r \in Run : RunStep(r)

Spec == Init /\ [][Next]_vars
-----------------------------------------------------------------------------
Label == {"start", "protect", "save", "plan", "ready", "probed", "listening", "built", "up", "tty", "ended"}
Job == [key : Key, broker : BOOLEAN]

TypeOK ==
    /\ IsConfig(config)
    /\ copy = [x \in Editor \cup Run |-> copy[x]]
    /\ conf = [r \in Run |-> conf[r]] /\ shield = [r \in Run |-> shield[r]]
    /\ \A x \in Editor \cup Run : copy[x] # None => IsConfig(copy[x])
    /\ epc \in [Editor -> {"start", "loaded", "done"}]
    /\ pc \in [Run -> Label]
    /\ todo \in [Run -> SUBSET Job] /\ plan \in [Run -> Name \cup {None}]
    /\ kept \in [Run -> SUBSET Key] /\ denied \in [Run -> SUBSET Name]
    /\ \A r \in Run : /\ conf[r] # None => IsConfig(conf[r])
                     /\ shield[r] # None => IsConfig(shield[r])
    /\ port \in [Run -> GatewayPort \cup {None}]
    /\ listener \in [GatewayPort -> Run \cup {World, None}]
    /\ env \in [Run -> [Name -> {Real, Virtual, Absent} \cup Nat]]

\* The setups that may have been saved.
Ran == {e.setup : e \in {f \in Editor : f.op = "setup" /\ epc[f] = "done"}}
\* Two providers that may not be in one file, or one the loader refuses by itself.
Clash(c, p, q) ==
    IF p = q THEN ~c.providers[p].sound ELSE IsPrefix(c.providers[p].path, c.providers[q].path)
\* Every fault of the providers is owed to one of these setups.
Owed(c, setups) == \A p, q \in DOMAIN c.providers :
    Clash(c, p, q) => <<p, c.providers[p]>> \in setups \/ <<q, c.providers[q]>> \in setups
\* Whatever commands overlap, only `proxy setup`, which saves without loading, can leave a
\* file that no command loads: its rules and services always pass the loader, a payload on
\* a broken file included, and a provider that does not was put there by a setup, or
\* clashes with one a setup put there.  (core/policy_mutation.py:54, cli/proxy.py:190)
Loadable ==
    /\ RulesLoad(config) /\ CapsLoad(config)
    /\ \A p \in DOMAIN config.providers : config.providers[p].path # <<>>
    /\ Owed(config, Ran)

\* A port is stable: once a capability has one, in the file or from the allocator, only
\* a payload that names its port changes it.  (core/policy_ports.py:7)
Names(e, x) ==
    /\ e.op = "apply" /\ x \in DOMAIN e.payload.caps
    /\ "port" \in DOMAIN e.payload.caps[x]
PortsStable ==
    [][\A x \in DOMAIN config.caps : config.caps[x].port # 0 =>
          /\ x \in DOMAIN config'.caps
          /\ \/ config'.caps[x].port = config.caps[x].port
             \/ \E e \in Editor : EditSave(e) /\ Names(e, x)]_config

\* A port the allocator gives is nobody else's in that version of the file, whoever
\* declared theirs.  (core/policy_ports.py:18)
PortsApart ==
    [][\A e \in Editor : EditSave(e) =>
          \A x \in DOMAIN config'.caps :
              LET given == ~Names(e, x) /\ config'.caps[x].port # 0
                              /\ (x \in DOMAIN copy[e].caps => copy[e].caps[x].port = 0)
              IN given => \A y \in DOMAIN config'.caps \ {x} :
                            config'.caps[y].port # config'.caps[x].port]_config

\* Applying a payload again changes nothing.  (tests/test_policy_mutation.py:13)
Settled ==
    [][\A e \in Editor : EditSave(e) /\ e.op = "apply" =>
          Accepted(config', e.payload) /\ Built(config', e.payload) = config']_config

\* The port in an agent's proxy and base URLs is the one its own gateway listens on,
\* though between the probe and the bind any other may take it.  (cli/main.py:1299)
OwnGateway == \A r \in Run : pc[r] \in {"listening", "built", "up", "tty"} => listener[port[r]] = r

\* A name the run said it denied, or keeps under its own name, does not have its real
\* value in the agent's environment, whatever edits come between discovery and the load of
\* the Container, as long as none of them overlaps another: an edit that loaded the file
\* before the key was saved takes the key out again, and the real value may go through.
\* (cli/main.py:577, implementations/secrets.py:163)
EnvVirtual == \A r \in Run : pc[r] \in {"built", "up", "tty"} =>
    \A n \in Name : (n \in denied[r] \/ <<n, n>> \in kept[r]) => env[r][n] # Real

\* Does the line n=value come through the sanitizer with its value?  There is none to come
\* through if the file does not load.
ComesThrough(c, n) == Loads(c) /\ ModeOf(c, n) # "deny" /\ ~\E k \in c.keys : k[2] = n
\* What a run has created a key for is hidden in its agent's output, unless that agent is
\* interactive and has the terminal to itself, and in the output of any agent's guarded
\* commands, which load the file when the command has ended; edits may come in between,
\* but not overlap.  (cli/main.py:670, guard/command.py:52)
OutputHides == \A r \in Run : \A k \in kept[r] :
    /\ pc[r] = "up" => ~ComesThrough(shield[r], k[2])
    /\ pc[r] \in {"up", "tty"} => ~ComesThrough(config, k[2])

\* The base URL an agent gets for a provider is routed to that provider, and to a path
\* its gateway allows, unless the first allowed path holds what none may or begins with a
\* second slash, which is left out of the URL and asked for by the gateway.
\* (cli/main.py:1469, gateway/proxy.py:371)
BaseUrlServed == \A r \in Run : pc[r] \in {"built", "up", "tty"} =>
    \A p \in DOMAIN conf[r].providers :
        LET s == conf[r].providers[p]
            clean == \/ s.allow = <<>>
                     \/ /\ Stripped(s.allow[1]) = s.allow[1]
                        /\ \A i \in DOMAIN s.allow[1] : s.allow[1][i] \notin Unsafe
        IN RouteTo(conf[r], BasePath(s), p) /\ (clean => PathAllowed(s, Rest(s, BasePath(s))))
=============================================================================
