-------------------------------- MODULE Policy --------------------------------
(***************************************************************************)
(* What the fields of agentsecure.json that decide about environment       *)
(* variables and local services mean, and how they are edited: pure        *)
(* operators, used by AgentEnv.                                            *)
(*                                                                         *)
(* Capabilities are numbered in the order of their names, which is the     *)
(* order ports are handed out in.  A rule or capability that is absent is  *)
(* outside the domain of its function, and a payload of `policy            *)
(* apply-local` gives any fields of any of them.                           *)
(***************************************************************************)
EXTENDS Naturals, Sequences, FiniteSets, SequencesExt

CONSTANTS
    Name,      \* environment variable names
    CapCount,  \* number of capability names
    BasePort,  \* BROKER_BASE_PORT
    MaxPort,   \* 65535
    Provider,  \* names of proxied providers
    Segment,   \* segments of URL paths, as they are written
    Unsafe,    \* those that decode to a dot segment or to one with a slash
    Empty,     \* the segment between two slashes
    None,      \* no capability, key, configuration, run or port
    Initial,   \* configurations agentsecure.json may hold when the behaviour starts
    Payload,   \* payloads of `policy apply-local`
    Setups     \* <<provider, setup>> of `proxy setup`

Capability == 1 .. CapCount

ASSUME PolicyAssumption ==
    /\ CapCount \in Nat /\ BasePort \in 1 .. MaxPort /\ MaxPort \in Nat
    /\ Unsafe \cup {Empty} \subseteq Segment /\ Empty \notin Unsafe
    /\ None \notin Capability

Mode == {"virtualize", "deny", "broker"}
Rule == [mode : Mode, cap : Capability \cup {None}]
\* `sound`: type, target host, target port and local host pass the loader.
Cap == [sound : BOOLEAN, port : 0 .. MaxPort]
\* `path` is local_path; `sound`: the loader takes the port of the upstream.  Paths are
\* without the slashes at their end, and the one they begin with: an allowed path <<>> is "/".
Setup == [env : Name, path : Seq(Segment), allow : Seq(Seq(Segment)), sound : BOOLEAN]
\* A key under `secrets`: the name it is exposed as, the name its value was found under.
Key == Name \X Name

Partial(S, T) == UNION {[D -> T] : D \in SUBSET S}
\* The same, as a test that enumerates nothing.
IsPartial(f, S, T) == DOMAIN f \subseteq S /\ f \in [DOMAIN f -> T]
IsConfig(c) ==
    /\ c = [rules |-> c.rules, caps |-> c.caps, keys |-> c.keys, providers |-> c.providers]
    /\ IsPartial(c.rules, Name, Rule) /\ IsPartial(c.caps, Capability, Cap)
    /\ c.keys \subseteq Key /\ IsPartial(c.providers, Provider, Setup)

\* A payload gives fields of rules and capabilities; `clean`: and nothing else, no raw
\* secret among them.
ASSUME PayloadAssumption == \A p \in Payload :
    /\ DOMAIN p.rules \subseteq Name /\ DOMAIN p.caps \subseteq Capability
    /\ \A n \in DOMAIN p.rules :
          /\ "mode" \in DOMAIN p.rules[n] => p.rules[n].mode \in Mode
          /\ "cap" \in DOMAIN p.rules[n] => p.rules[n].cap \in Capability \cup {None}
    /\ \A x \in DOMAIN p.caps :
          /\ "sound" \in DOMAIN p.caps[x] => p.caps[x].sound \in BOOLEAN
          /\ "port" \in DOMAIN p.caps[x] => p.caps[x].port \in Nat

EmptyRule == [mode |-> "virtualize", cap |-> None]
EmptyCap == [sound |-> FALSE, port |-> 0]

\* EnvPolicy.rule_for.
ModeOf(c, n) == IF n \in DOMAIN c.rules THEN c.rules[n].mode ELSE "virtualize"
Keyed(c, n) == \E k \in c.keys : k[1] = n
-----------------------------------------------------------------------------
(* The loader.                                                             *)

\* No local_path begins with another (_validate_provider_proxy_paths).
PathsApart(c) == \A p, q \in DOMAIN c.providers :
    p # q => ~IsPrefix(c.providers[p].path, c.providers[q].path)

RulesLoad(c) ==
    \A n \in DOMAIN c.rules : c.rules[n].mode = "broker" => c.rules[n].cap \in DOMAIN c.caps
CapsLoad(c) == \A x \in DOMAIN c.caps : c.caps[x].sound /\ c.caps[x].port \in 0 .. MaxPort
\* JsonConfigLoader.load_data does not raise.
Loads(c) ==
    /\ RulesLoad(c) /\ CapsLoad(c)
    /\ \A p \in DOMAIN c.providers : c.providers[p].path # <<>> /\ c.providers[p].sound
    /\ PathsApart(c)
-----------------------------------------------------------------------------
(* policy apply-local.                                                     *)

Updated(old, fields) == [f \in DOMAIN old |-> IF f \in DOMAIN fields THEN fields[f] ELSE old[f]]
\* Mutant: an entry is replaced by the fields given.
ReplacedAll(entries, updates, empty) ==
    [x \in DOMAIN entries \cup DOMAIN updates |->
        IF x \in DOMAIN updates THEN Updated(empty, updates[x]) ELSE entries[x]]
\* _merge_env_policy and _merge_capabilities: the fields given, over the entry as it was.
MergedAll(entries, updates, empty) ==
    [x \in DOMAIN entries \cup DOMAIN updates |->
        IF x \in DOMAIN updates
        THEN Updated(IF x \in DOMAIN entries THEN entries[x] ELSE empty, updates[x])
        ELSE entries[x]]

Referenced(c) ==
    {c.rules[n].cap : n \in {m \in DOMAIN c.rules : c.rules[m].mode = "broker"}} \ {None}
\* Mutant: capabilities that have a port already get another.
NeedyAll(c, p) == (Referenced(c) \cup DOMAIN p.caps) \cap DOMAIN c.caps
\* Those the allocator gives a port to.
Needy(c, p) == {x \in (Referenced(c) \cup DOMAIN p.caps) \cap DOMAIN c.caps : c.caps[x].port = 0}
\* Mutant: only the ports of capabilities some rule uses are taken.
UsedReferenced(c) == {c.caps[x].port : x \in DOMAIN c.caps \cap Referenced(c)} \ {0}
Used(c) == {c.caps[x].port : x \in DOMAIN c.caps} \ {0}
\* Enough of them for every capability, beyond MaxPort if need be.
FreePorts(c) == (BasePort .. BasePort + 2 * CapCount) \ Used(c)

Before(S, x) == Cardinality({y \in S : y < x})
\* The first needy name gets the first free port, and so on.
Given(free, needy, x) == CHOOSE q \in free : Before(free, q) = Before(needy, x)
\* BrokerPortAllocator.assign.
Allocated(c, p) ==
    [c EXCEPT !.caps = [x \in DOMAIN c.caps |->
        IF x \in Needy(c, p)
        THEN [c.caps[x] EXCEPT !.port = Given(FreePorts(c), Needy(c, p), x)]
        ELSE c.caps[x]]]

Built(c, p) ==
    Allocated([rules |-> MergedAll(c.rules, p.rules, EmptyRule),
               caps |-> MergedAll(c.caps, p.caps, EmptyCap),
               keys |-> c.keys, providers |-> c.providers], p)

\* Mutant: what is built is not loaded before it is saved.
AcceptedUnloaded(c, p) ==
    /\ p.clean
    /\ \A x \in DOMAIN p.caps : "port" \in DOMAIN p.caps[x] => p.caps[x].port \in 0 .. MaxPort
\* No unknown field, raw secret or bad port in the payload, and the loader takes the
\* result.
Accepted(c, p) ==
    /\ p.clean
    /\ \A x \in DOMAIN p.caps : "port" \in DOMAIN p.caps[x] => p.caps[x].port \in 0 .. MaxPort
    /\ Loads(Built(c, p))
-----------------------------------------------------------------------------
(* The other edits.                                                        *)

\* Mutant: a key takes the place of one of the same name.
WithKeyOne(c, k) == [c EXCEPT !.keys = {j \in @ : j[1] # k[1]} \cup {k}]
\* create_key appends a key.
WithKey(c, k) == [c EXCEPT !.keys = @ \cup {k}]

\* _activate_provider: the rule of its name keeps its mode.  Nothing is loaded before it is
\* saved.
WithProvider(c, p, s) ==
    [rules |-> [n \in DOMAIN c.rules \cup {s.env} |->
                   IF n \in DOMAIN c.rules THEN c.rules[n] ELSE EmptyRule],
     caps |-> c.caps, keys |-> c.keys,
     providers |-> [q \in DOMAIN c.providers \cup {p} |-> IF q = p THEN s ELSE c.providers[q]]]
\* _validate_provider refuses a local_path of "/", and nothing else the loader looks at
\* here: an upstream with port 0 and a local_path within another's pass.
ASSUME FileAssumption ==
    /\ Setups \subseteq Provider \X Setup
    /\ \A s \in Setups : s[2].path # <<>>
    /\ \A c \in Initial : IsConfig(c) /\ Loads(c)
-----------------------------------------------------------------------------
(* Broker URLs; a URL is its local port.                                   *)

\* assigned_local_port: by the position among the names there are.
FallbackPort(c, x) == BasePort + Before(DOMAIN c.caps, x)
\* broker_endpoint_plan does not raise.
Plannable(c, n) == ModeOf(c, n) = "broker" /\ c.rules[n].cap \in DOMAIN c.caps
BrokerUrl(c, n) ==
    LET x == c.rules[n].cap IN IF c.caps[x].port # 0 THEN c.caps[x].port ELSE FallbackPort(c, x)
-----------------------------------------------------------------------------
(* Provider paths of the gateway.                                          *)

\* path.lstrip("/").
Stripped(path) ==
    LET at == {i \in DOMAIN path : path[i] # Empty} IN
    IF at = {} THEN <<>>
    ELSE SubSeq(path, CHOOSE i \in at : \A j \in at : i <= j, Len(path))

\* provider_base_local_path: the base URL goes on to the first allowed path.
BasePath(s) == IF s.allow = <<>> THEN s.path ELSE s.path \o Stripped(s.allow[1])

\* _provider_for_path, the longest local_path first.
RouteTo(c, path, p) ==
    /\ p \in DOMAIN c.providers /\ IsPrefix(c.providers[p].path, path)
    /\ \A q \in DOMAIN c.providers :
          IsPrefix(c.providers[q].path, path) => Len(c.providers[q].path) <= Len(c.providers[p].path)
\* What is left of the path, without the slashes it begins with.
Rest(s, path) == Stripped(SubSeq(path, Len(s.path) + 1, Len(path)))

\* Mutant: an allowed path is not allowed itself.
PathAllowedBelow(s, path) ==
    /\ \A i \in DOMAIN path : path[i] \notin Unsafe
    /\ s.allow = <<>> \/ \E i \in DOMAIN s.allow :
          s.allow[i] = <<>> \/ IsStrictPrefix(s.allow[i], path)
\* _provider_path_allowed.
PathAllowed(s, path) ==
    /\ \A i \in DOMAIN path : path[i] \notin Unsafe
    /\ s.allow = <<>> \/ \E i \in DOMAIN s.allow : IsPrefix(s.allow[i], path)
=============================================================================
