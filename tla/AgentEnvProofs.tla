---------------------------- MODULE AgentEnvProofs ----------------------------
(***************************************************************************)
(* Proofs about AgentEnv, for any names, payloads, setups, runs and ports. *)
(***************************************************************************)
EXTENDS AgentEnv, FiniteSetTheorems, FunctionTheorems, SequenceTheorems, TLAPS

USE DEF Editor, Label
-----------------------------------------------------------------------------
(* The gateway of a run, with or without overlapping edits.                *)

PortInv ==
    /\ pc \in [Run -> Label]
    /\ port \in [Run -> GatewayPort \cup {None}]
    /\ listener \in [GatewayPort -> Run \cup {World, None}]
    /\ \A r \in Run : pc[r] \in {"probed", "listening", "built", "up", "tty"} => port[r] \in GatewayPort
    /\ OwnGateway

\* Steps that touch neither ports nor listeners.
LEMMA PortsUntouched ==
  ASSUME PortInv, UNCHANGED <<port, listener>>, NEW r \in Run, NEW l \in
            {"protect", "save", "plan", "ready", "built", "up", "tty"},
         pc' = [pc EXCEPT ![r] = l],
         l \in {"built", "up", "tty"} => pc[r] \in {"listening", "built", "up", "tty"}
  PROVE  PortInv'
  BY DEF PortInv, OwnGateway

LEMMA PortStep ==
  ASSUME PortInv, [Next]_vars
  PROVE  PortInv'
  <1>1. CASE UNCHANGED vars
    BY <1>1 DEF vars, runVars, PortInv, OwnGateway
  <1>2. ASSUME NEW e \in Editor, EditStep(e) PROVE PortInv'
    BY <1>2 DEF EditStep, EditLoad, EditSave, EditFails, runVars, PortInv, OwnGateway
  <1>3. ASSUME NEW r \in Run, RunStep(r) PROVE PortInv'
    <2>1. CASE Discover(r)
      BY <2>1, PortsUntouched DEF Discover, Goto
    <2>2. CASE KeyLoad(r)
      BY <2>2, PortsUntouched DEF KeyLoad, Goto
    <2>3. ASSUME NEW job \in todo[r], KeySave(r, job) PROVE PortInv'
      <3>1. pc' = [pc EXCEPT ![r] = IF job.broker THEN "plan" ELSE "protect"]
        BY <2>3 DEF KeySave, Goto
      <3>2. UNCHANGED <<port, listener>>
        BY <2>3 DEF KeySave
      <3> QED
        BY <3>1, <3>2, PortsUntouched
    <2>4. CASE PlanUrl(r)
      BY <2>4, PortsUntouched DEF PlanUrl, Goto
    <2>5. CASE Prepare(r)
      BY <2>5, PortsUntouched DEF Prepare, Goto
    <2>6. CASE Probe(r)
      BY <2>6 DEF Probe, Goto, Candidates, FreeGatewayPorts, PortInv, OwnGateway
    <2>7. CASE Listen(r)
      BY <2>7, AgentAssumption DEF Listen, Goto, PortInv, OwnGateway
    <2>8. CASE BuildEnv(r)
      BY <2>8, PortsUntouched DEF BuildEnv, Goto
    <2>9. CASE Launch(r) \/ LaunchInteractive(r)
      BY <2>9, PortsUntouched DEF Launch, LaunchInteractive, Goto
    <2>10. CASE End(r)
      BY <2>10, AgentAssumption DEF End, Forget, Goto, PortInv, OwnGateway
    <2> QED
      BY <1>3, <2>1, <2>2, <2>3, <2>4, <2>5, <2>6, <2>7, <2>8, <2>9, <2>10 DEF RunStep
  <1> QED
    BY <1>1, <1>2, <1>3 DEF Next

\* The gateway an agent is told to use is its own run's: a port is bound only when
\* nobody listens there, and freed only by the run that holds it.
\* (cli/main.py:1259 and :1299)
THEOREM OwnGatewayHolds == Spec => []OwnGateway
  <1>1. Init => PortInv
    BY AgentAssumption DEF Init, PortInv, OwnGateway
  <1>2. PortInv /\ [Next]_vars => PortInv'
    BY PortStep
  <1>3. PortInv => OwnGateway
    BY DEF PortInv
  <1> QED
    BY <1>1, <1>2, <1>3, PTL DEF Spec
-----------------------------------------------------------------------------
(* Without overlap, no edit is made to an old version of the file.         *)

\* Between its load and its save, what a command holds is the file.
LockInv ==
    /\ copy = [x \in Editor \cup Run |-> copy[x]]
    /\ epc \in [Editor -> {"start", "loaded", "done"}]
    /\ pc \in [Run -> Label]
    /\ todo \in [Run -> SUBSET Job]
    /\ \A e \in Editor : epc[e] = "loaded" => copy[e] = config
    /\ \A r \in Run : pc[r] = "save" => copy[r] = config
    /\ \A e, f \in Editor : epc[e] = "loaded" /\ epc[f] = "loaded" => e = f
    /\ \A r, s \in Run : pc[r] = "save" /\ pc[s] = "save" => r = s
    /\ \A e \in Editor, r \in Run : ~(epc[e] = "loaded" /\ pc[r] = "save")

LEMMA LockInit == Init => LockInv
  BY DEF Init, LockInv

\* A step of a run that neither loads for a save nor saves.
LEMMA LockUntouched ==
  ASSUME LockInv, UNCHANGED <<config, copy, epc>>, NEW r \in Run, pc[r] # "save",
         NEW l \in {"protect", "plan", "ready", "probed", "listening", "built", "up", "tty"},
         pc' = [pc EXCEPT ![r] = l], todo' \in [Run -> SUBSET Job]
  PROVE  LockInv'
  BY DEF LockInv

LEMMA DiscoverJobs ==
  ASSUME NEW r \in Run, todo \in [Run -> SUBSET Job], Discover(r)
  PROVE  todo' \in [Run -> SUBSET Job]
  <1>1. PICK chosen \in Partial(Found \ DOMAIN config.rules, Name) :
           todo'[r] = {[key |-> <<n, n>>, broker |-> ModeOf(config, n) = "broker"] :
                          n \in {m \in Found \cap DOMAIN config.rules : ModeOf(config, m) # "deny"}}
                      \cup {[key |-> <<chosen[n], n>>, broker |-> FALSE] : n \in DOMAIN chosen}
    BY DEF Discover, Partial
  <1>2. \A n \in DOMAIN chosen : n \in Name /\ chosen[n] \in Name
    BY AgentAssumption DEF Partial
  <1>3. todo'[r] \subseteq Job
    <2> SUFFICES ASSUME NEW j \in todo'[r] PROVE j \in Job
      OBVIOUS
    <2>1. CASE \E n \in Name, b \in BOOLEAN : j = [key |-> <<n, n>>, broker |-> b]
      BY <2>1 DEF Job, Key
    <2>2. CASE \E n \in DOMAIN chosen : j = [key |-> <<chosen[n], n>>, broker |-> FALSE]
      BY <2>2, <1>2 DEF Job, Key
    <2> QED
      <3>1. CASE \E n \in Found : j = [key |-> <<n, n>>, broker |-> ModeOf(config, n) = "broker"]
        <4>1. PICK n \in Found : j = [key |-> <<n, n>>, broker |-> ModeOf(config, n) = "broker"]
          BY <3>1
        <4>2. n \in Name /\ (ModeOf(config, n) = "broker") \in BOOLEAN
          BY AgentAssumption
        <4> QED
          BY <4>1, <4>2, <2>1
      <3> QED
        BY <1>1, <2>2, <3>1
  <1> QED
    BY <1>3 DEF Discover

LEMMA LockStep ==
  ASSUME ~Overlap, LockInv, [Next]_vars
  PROVE  LockInv'
  <1>1. CASE UNCHANGED vars
    BY <1>1 DEF vars, runVars, LockInv
  <1>2. ASSUME NEW e \in Editor, EditLoad(e) PROVE LockInv'
    BY <1>2, AgentAssumption DEF EditLoad, MayLoad, runVars, LockInv
  <1>3. ASSUME NEW e \in Editor, EditSave(e) PROVE LockInv'
    BY <1>3, AgentAssumption DEF EditSave, runVars, LockInv
  <1>4. ASSUME NEW e \in Editor, EditFails(e) PROVE LockInv'
    BY <1>4, AgentAssumption DEF EditFails, runVars, LockInv
  <1>5. ASSUME NEW r \in Run, RunStep(r) PROVE LockInv'
    <2>1. CASE Discover(r)
      <3>4. todo' \in [Run -> SUBSET Job]
        BY <2>1, DiscoverJobs DEF LockInv
      <3> QED
        BY <2>1, <3>4, LockUntouched DEF Discover, Goto
    <2>2. CASE KeyLoad(r)
      BY <2>2, AgentAssumption DEF KeyLoad, MayLoad, Goto, LockInv
    <2>3. ASSUME NEW job \in todo[r], KeySave(r, job) PROVE LockInv'
      BY <2>3, AgentAssumption DEF KeySave, Goto, LockInv
    <2>4. CASE PlanUrl(r)
      BY <2>4, LockUntouched DEF PlanUrl, Goto, LockInv
    <2>5. CASE Prepare(r)
      <3>1. pc[r] # "save"
        BY <2>5 DEF Prepare
      <3> QED
        BY <2>5, <3>1, LockUntouched DEF Prepare, Goto, LockInv
    <2>6. CASE Probe(r)
      BY <2>6, LockUntouched DEF Probe, Goto, LockInv
    <2>7. CASE Listen(r)
      BY <2>7, LockUntouched DEF Listen, Goto, LockInv
    <2>8. CASE BuildEnv(r)
      BY <2>8, LockUntouched DEF BuildEnv, Goto, LockInv
    <2>9. CASE Launch(r) \/ LaunchInteractive(r)
      BY <2>9, LockUntouched DEF Launch, LaunchInteractive, Goto, LockInv
    <2>10. CASE End(r)
      <3>1. UNCHANGED <<config, epc>> /\ pc' = [pc EXCEPT ![r] = "ended"]
            /\ todo' = [todo EXCEPT ![r] = {}] /\ copy' = [copy EXCEPT ![r] = None]
        BY <2>10 DEF End, Forget, Goto
      <3>2. todo' \in [Run -> SUBSET Job]
        BY <3>1 DEF LockInv
      <3>3. \A e \in Editor : copy'[e] = copy[e]
        BY <3>1, AgentAssumption DEF LockInv
      <3>4. \A s \in Run : pc'[s] = "save" => pc[s] = "save" /\ copy'[s] = copy[s]
        BY <3>1 DEF LockInv
      <3>5. copy' = [x \in Editor \cup Run |-> copy'[x]]
        BY <3>1 DEF LockInv
      <3>6. pc' \in [Run -> Label]
        BY <3>1 DEF LockInv
      <3>7. epc' \in [Editor -> {"start", "loaded", "done"}]
        BY <3>1 DEF LockInv
      <3>8. \A e \in Editor : epc'[e] = "loaded" => copy'[e] = config'
        BY <3>1, <3>3 DEF LockInv
      <3>9. \A s \in Run : pc'[s] = "save" => copy'[s] = config'
        BY <3>1, <3>4 DEF LockInv
      <3>10. \A e, f \in Editor : epc'[e] = "loaded" /\ epc'[f] = "loaded" => e = f
        BY <3>1 DEF LockInv
      <3>11. \A q, s \in Run : pc'[q] = "save" /\ pc'[s] = "save" => q = s
        BY <3>4 DEF LockInv
      <3>12. \A e \in Editor, s \in Run : ~(epc'[e] = "loaded" /\ pc'[s] = "save")
        BY <3>1, <3>4 DEF LockInv
      <3> QED
        BY <3>2, <3>5, <3>6, <3>7, <3>8, <3>9, <3>10, <3>11, <3>12 DEF LockInv
    <2> QED
      BY <1>5, <2>1, <2>2, <2>3, <2>4, <2>5, <2>6, <2>7, <2>8, <2>9, <2>10 DEF RunStep
  <1> QED
    BY <1>1, <1>2, <1>3, <1>4, <1>5 DEF Next, EditStep
-----------------------------------------------------------------------------
(* What edits do to the file, overlapping or not.                          *)

\* All the loader asks, but for the upstreams of providers and for their paths being apart.
Good(c) ==
    /\ IsConfig(c) /\ RulesLoad(c) /\ CapsLoad(c)
    /\ \A p \in DOMAIN c.providers : c.providers[p].path # <<>>
\* A version some command has loaded with the loader.
Loaded(c) == Good(c) /\ Loads(c)

LEMMA InitialGood ==
  ASSUME NEW c \in Initial
  PROVE  Good(c) /\ \A setups : Owed(c, setups)
  <1>1. IsConfig(c) /\ Loads(c)
    BY FileAssumption
  <1>2. \A p, q \in DOMAIN c.providers : ~Clash(c, p, q)
    BY <1>1 DEF Loads, PathsApart, Clash
  <1> QED
    BY <1>1, <1>2 DEF Good, Loads, Owed

LEMMA ProviderGood ==
  ASSUME NEW c, Good(c), NEW s \in Setups
  PROVE  Good(WithProvider(c, s[1], s[2]))
  <1> DEFINE d == WithProvider(c, s[1], s[2])
  <1>1. IsConfig(c) /\ s[1] \in Provider /\ s[2] \in Setup /\ s[2].path # <<>>
    BY FileAssumption DEF Good
  <1>2. /\ d.caps = c.caps /\ d.keys = c.keys
        /\ d.providers = [q \in DOMAIN c.providers \cup {s[1]} |-> IF q = s[1] THEN s[2] ELSE c.providers[q]]
        /\ d.rules = [n \in DOMAIN c.rules \cup {s[2].env} |->
                          IF n \in DOMAIN c.rules THEN c.rules[n] ELSE EmptyRule]
        /\ d = [rules |-> d.rules, caps |-> d.caps, keys |-> d.keys, providers |-> d.providers]
    BY DEF WithProvider
  <1> HIDE DEF d
  <1>3. IsConfig(d)
    <2>1. IsPartial(d.rules, Name, Rule)
      <3>1. EmptyRule \in Rule
        BY DEF EmptyRule, Rule, Mode
      <3>2. s[2].env \in Name
        BY <1>1 DEF Setup
      <3> QED
        BY <1>1, <1>2, <3>1, <3>2 DEF IsConfig, IsPartial
    <2>2. IsPartial(d.providers, Provider, Setup)
      BY <1>1, <1>2 DEF IsConfig, IsPartial
    <2> QED
      BY <1>1, <1>2, <2>1, <2>2 DEF IsConfig
  <1>4. RulesLoad(d) /\ CapsLoad(d)
    BY <1>2 DEF Good, RulesLoad, CapsLoad, EmptyRule
  <1>5. \A p \in DOMAIN d.providers : d.providers[p].path # <<>>
    BY <1>1, <1>2 DEF Good
  <1> QED
    BY <1>3, <1>4, <1>5 DEF Good, d

LEMMA KeyGood ==
  ASSUME NEW c, Good(c), NEW k \in Key
  PROVE  /\ Good(WithKey(c, k)) /\ WithKey(c, k).rules = c.rules /\ WithKey(c, k).keys = c.keys \cup {k}
         /\ WithKey(c, k).providers = c.providers
  <1> DEFINE d == WithKey(c, k)
  <1>0. IsConfig(c)
    BY DEF Good
  <1>1. /\ d.rules = c.rules /\ d.caps = c.caps /\ d.providers = c.providers
        /\ d.keys = c.keys \cup {k}
        /\ d = [rules |-> d.rules, caps |-> d.caps, keys |-> d.keys, providers |-> d.providers]
    BY <1>0 DEF WithKey, IsConfig
  <1> HIDE DEF d
  <1>2. IsConfig(d)
    BY <1>0, <1>1 DEF IsConfig
  <1>3. Good(d)
    BY <1>1, <1>2 DEF Good, RulesLoad, CapsLoad
  <1> QED
    BY <1>1, <1>3 DEF d

LEMMA MergedRules ==
  ASSUME NEW c, IsConfig(c), NEW p \in Payload
  PROVE  IsPartial(MergedAll(c.rules, p.rules, EmptyRule), Name, Rule)
  <1> DEFINE rules == MergedAll(c.rules, p.rules, EmptyRule)
  <1>1. DOMAIN rules = DOMAIN c.rules \cup DOMAIN p.rules /\ DOMAIN rules \subseteq Name
    BY PayloadAssumption DEF MergedAll, IsConfig, IsPartial
  <1>2. ASSUME NEW n \in DOMAIN rules PROVE rules[n] \in Rule
    <2> DEFINE old == IF n \in DOMAIN c.rules THEN c.rules[n] ELSE EmptyRule
    <2>1. old \in Rule
      BY DEF IsConfig, IsPartial, EmptyRule, Rule, Mode
    <2>2. CASE n \in DOMAIN p.rules
      <3>1. rules[n] = Updated(old, p.rules[n])
        BY <1>1, <2>2 DEF MergedAll
      <3>2. /\ "mode" \in DOMAIN p.rules[n] => p.rules[n].mode \in Mode
            /\ "cap" \in DOMAIN p.rules[n] => p.rules[n].cap \in Capability \cup {None}
        BY <2>2, PayloadAssumption
      <3> HIDE DEF old, rules
      <3>3. DOMAIN old = {"mode", "cap"} /\ old.mode \in Mode /\ old.cap \in Capability \cup {None}
        BY <2>1 DEF Rule
      <3> QED
        BY <3>1, <3>2, <3>3 DEF Updated, Rule
    <2>3. CASE n \notin DOMAIN p.rules
      BY <1>1, <2>1, <2>3 DEF MergedAll
    <2> QED
      BY <2>2, <2>3
  <1>3. rules = [n \in DOMAIN rules |-> rules[n]]
    BY DEF MergedAll
  <1> QED
    BY <1>1, <1>2, <1>3 DEF IsPartial

LEMMA MergedCaps ==
  ASSUME NEW c, IsConfig(c), NEW p \in Payload
  PROVE  LET caps == MergedAll(c.caps, p.caps, EmptyCap)
         IN /\ DOMAIN caps \subseteq Capability
            /\ \A x \in DOMAIN caps : caps[x] = [sound |-> caps[x].sound, port |-> caps[x].port]
                                     /\ caps[x].sound \in BOOLEAN
  <1> DEFINE caps == MergedAll(c.caps, p.caps, EmptyCap)
  <1>1. DOMAIN caps = DOMAIN c.caps \cup DOMAIN p.caps /\ DOMAIN caps \subseteq Capability
    BY PayloadAssumption DEF MergedAll, IsConfig, IsPartial
  <1>2. ASSUME NEW x \in DOMAIN caps
        PROVE  caps[x] = [sound |-> caps[x].sound, port |-> caps[x].port] /\ caps[x].sound \in BOOLEAN
    <2> DEFINE old == IF x \in DOMAIN c.caps THEN c.caps[x] ELSE EmptyCap
    <2>1. old = [sound |-> old.sound, port |-> old.port] /\ old.sound \in BOOLEAN
      BY DEF IsConfig, IsPartial, EmptyCap, Cap
    <2>2. CASE x \in DOMAIN p.caps
      <3>1. caps[x] = Updated(old, p.caps[x])
        BY <1>1, <2>2 DEF MergedAll
      <3>2. "sound" \in DOMAIN p.caps[x] => p.caps[x].sound \in BOOLEAN
        BY <2>2, PayloadAssumption
      <3> HIDE DEF old, caps
      <3>3. DOMAIN old = {"sound", "port"}
        BY <2>1
      <3> QED
        BY <2>1, <3>1, <3>2, <3>3 DEF Updated
    <2>3. CASE x \notin DOMAIN p.caps
      BY <1>1, <2>1, <2>3 DEF MergedAll
    <2> QED
      BY <2>2, <2>3
  <1> QED
    BY <1>1, <1>2

LEMMA BuiltGood ==
  ASSUME NEW c, Good(c), NEW p \in Payload, Accepted(c, p)
  PROVE  /\ Good(Built(c, p)) /\ Built(c, p).keys = c.keys
         /\ DOMAIN c.rules \subseteq DOMAIN Built(c, p).rules
         /\ Built(c, p).providers = c.providers
  <1> DEFINE rules == MergedAll(c.rules, p.rules, EmptyRule)
             caps == MergedAll(c.caps, p.caps, EmptyCap)
             m == [rules |-> rules, caps |-> caps, keys |-> c.keys, providers |-> c.providers]
             given(x) == Given(FreePorts(m), Needy(m, p), x)
             d == Built(c, p)
  <1>1. d = [rules |-> rules,
             caps |-> [x \in DOMAIN caps |->
                IF x \in Needy(m, p) THEN [caps[x] EXCEPT !.port = given(x)] ELSE caps[x]],
             keys |-> c.keys, providers |-> c.providers]
    BY DEF Built, Allocated
  <1>2. Loads(d)
    BY DEF Accepted
  <1>3. IsPartial(rules, Name, Rule)
    BY MergedRules DEF Good
  <1>4. /\ DOMAIN caps \subseteq Capability
        /\ \A x \in DOMAIN caps : caps[x] = [sound |-> caps[x].sound, port |-> caps[x].port]
                                 /\ caps[x].sound \in BOOLEAN
    BY MergedCaps DEF Good
  <1>5. DOMAIN c.rules \subseteq DOMAIN rules
    BY DEF MergedAll
  <1> HIDE DEF rules, caps, m, given, d
  <1>6. IsPartial(d.caps, Capability, Cap)
    <2>1. ASSUME NEW x \in DOMAIN d.caps PROVE d.caps[x] \in Cap
      <3>1. x \in DOMAIN caps /\ d.caps[x].port \in 0 .. MaxPort
        BY <1>1, <1>2 DEF Loads, CapsLoad
      <3>2. d.caps[x] = [sound |-> caps[x].sound, port |-> d.caps[x].port]
        BY <1>1, <1>4, <3>1
      <3> QED
        BY <1>4, <3>1, <3>2 DEF Cap
    <2>2. d.caps = [x \in DOMAIN d.caps |-> d.caps[x]] /\ DOMAIN d.caps \subseteq Capability
      BY <1>1, <1>4
    <2> QED
      BY <2>1, <2>2 DEF IsPartial
  <1>7. IsConfig(d)
    BY <1>1, <1>3, <1>6 DEF Good, IsConfig
  <1>8. Good(d)
    BY <1>2, <1>7 DEF Good, Loads
  <1> QED
    BY <1>1, <1>5, <1>8 DEF d
-----------------------------------------------------------------------------
(* Types, and what can make the file fail to load, overlapping or not.     *)

Configs ==
    /\ Good(config)
    /\ copy = [x \in Editor \cup Run |-> copy[x]]
    /\ conf = [r \in Run |-> conf[r]] /\ shield = [r \in Run |-> shield[r]]
    /\ \A x \in Editor \cup Run : copy[x] # None => Good(copy[x])
    /\ \A r \in Run : conf[r] # None => Loaded(conf[r])
    /\ \A r \in Run : shield[r] # None => Loaded(shield[r])
    /\ \A e \in Editor : epc[e] = "loaded" => Good(copy[e])
    /\ \A r \in Run : pc[r] = "save" => Good(copy[r])
    /\ \A r \in Run : pc[r] \in {"ready", "probed", "listening", "built", "up", "tty"} => Loaded(conf[r])
Places ==
    /\ epc \in [Editor -> {"start", "loaded", "done"}]
    /\ pc \in [Run -> Label]
    /\ todo \in [Run -> SUBSET Job]
Kept ==
    /\ plan \in [Run -> Name \cup {None}]
    /\ kept \in [Run -> SUBSET Key] /\ denied \in [Run -> SUBSET Name]

LEMMA PlacesStep ==
  ASSUME Places, [Next]_vars
  PROVE  Places'
  <1>1. CASE UNCHANGED vars
    BY <1>1 DEF vars, runVars, Places
  <1>2. ASSUME NEW e \in Editor, EditStep(e) PROVE Places'
    BY <1>2 DEF EditStep, EditLoad, EditSave, EditFails, runVars, Places
  <1>3. ASSUME NEW r \in Run, RunStep(r) PROVE Places'
    <2>1. CASE Discover(r)
      <3>1. todo' \in [Run -> SUBSET Job]
        BY <2>1, DiscoverJobs DEF Places
      <3> QED
        BY <2>1, <3>1 DEF Discover, Goto, Places
    <2>2. ASSUME NEW job \in todo[r], KeySave(r, job) PROVE Places'
      BY <2>2 DEF KeySave, Goto, Places
    <2>3. CASE KeyLoad(r) \/ PlanUrl(r) \/ Prepare(r) \/ Probe(r)
      BY <2>3 DEF KeyLoad, PlanUrl, Prepare, Probe, Goto, Places
    <2>4. CASE Listen(r) \/ BuildEnv(r) \/ Launch(r) \/ LaunchInteractive(r)
      BY <2>4 DEF Listen, BuildEnv, Launch, LaunchInteractive, Goto, Places
    <2>5. CASE End(r)
      BY <2>5 DEF End, Forget, Goto, Places
    <2> QED
      BY <1>3, <2>1, <2>2, <2>3, <2>4, <2>5 DEF RunStep
  <1> QED
    BY <1>1, <1>2, <1>3 DEF Next

\* What a command holds between load and save is good; what a run works with has loaded.
Holds(x) ==
    /\ copy[x] # None => Good(copy[x])
    /\ x \in Editor /\ epc[x] = "loaded" => Good(copy[x])
    /\ x \in Run => /\ conf[x] # None => Loaded(conf[x])
                    /\ shield[x] # None => Loaded(shield[x])
                    /\ pc[x] = "save" => Good(copy[x])
                    /\ pc[x] \in {"ready", "probed", "listening", "built", "up", "tty"} => Loaded(conf[x])
\* All but x keep what they hold.
Alone(x) ==
    /\ copy' = [y \in Editor \cup Run |-> copy'[y]]
    /\ conf' = [r \in Run |-> conf'[r]] /\ shield' = [r \in Run |-> shield'[r]]
    /\ \A y \in Editor \cup Run : y # x => copy'[y] = copy[y]
    /\ \A e \in Editor : e # x => epc'[e] = epc[e]
    /\ \A r \in Run : r # x => pc'[r] = pc[r] /\ conf'[r] = conf[r] /\ shield'[r] = shield[r]

LEMMA ConfigsHold ==
  ASSUME Configs
  PROVE  \A x \in Editor \cup Run : Holds(x)
  BY DEF Configs, Holds

LEMMA ConfigsAlone ==
  ASSUME Configs, NEW x \in Editor \cup Run, Good(config'), Alone(x), Holds(x)'
  PROVE  Configs'
  <1>2. ASSUME NEW y \in Editor \cup Run PROVE Holds(y)'
    <2>1. CASE y # x
      <3>1. Holds(y)
        BY ConfigsHold
      <3>2. copy'[y] = copy[y] /\ (y \in Editor => epc'[y] = epc[y])
            /\ (y \in Run => pc'[y] = pc[y] /\ conf'[y] = conf[y] /\ shield'[y] = shield[y])
        BY <2>1 DEF Alone
      <3> QED
        BY <3>1, <3>2 DEF Holds
    <2> QED
      BY <2>1
  <1>3. \A y \in Editor \cup Run : copy'[y] # None => Good(copy'[y])
    BY <1>2 DEF Holds
  <1>4. \A e \in Editor : epc'[e] = "loaded" => Good(copy'[e])
    BY <1>2 DEF Holds
  <1>5. \A r \in Run : /\ conf'[r] # None => Loaded(conf'[r])
                       /\ shield'[r] # None => Loaded(shield'[r])
    BY <1>2 DEF Holds
  <1>6. \A r \in Run : /\ pc'[r] = "save" => Good(copy'[r])
                       /\ pc'[r] \in {"ready", "probed", "listening", "built", "up", "tty"} => Loaded(conf'[r])
    BY <1>2 DEF Holds
  <1>7. /\ copy' = [y \in Editor \cup Run |-> copy'[y]]
        /\ conf' = [r \in Run |-> conf'[r]] /\ shield' = [r \in Run |-> shield'[r]]
    BY DEF Alone
  <1> QED
    BY <1>3, <1>4, <1>5, <1>6, <1>7 DEF Configs

LEMMA ConfigsStep ==
  ASSUME Places, Configs, [Next]_vars
  PROVE  Configs'
  <1>a. /\ copy = [x \in Editor \cup Run |-> copy[x]]
        /\ conf = [r \in Run |-> conf[r]] /\ shield = [r \in Run |-> shield[r]]
        /\ Good(config)
    BY DEF Configs
  <1>b. /\ epc \in [Editor -> {"start", "loaded", "done"}] /\ pc \in [Run -> Label]
        /\ \A r \in Run : r \notin Editor
    BY AgentAssumption DEF Places
  <1>1. CASE UNCHANGED vars
    BY <1>1 DEF vars, runVars, Configs
  <1>2. ASSUME NEW e \in Editor, EditStep(e) PROVE Configs'
    <2>1. Holds(e)
      BY ConfigsHold
    <2>2. /\ UNCHANGED <<pc, conf, shield>>
          /\ \E l : epc' = [epc EXCEPT ![e] = l]
          /\ \E c : copy' = [copy EXCEPT ![e] = c]
      BY <1>2 DEF EditStep, EditLoad, EditSave, EditFails, runVars
    <2>3. Alone(e)
      BY <1>a, <1>b, <2>2 DEF Alone
    <2>4. CASE EditLoad(e)
      <3>1. copy'[e] = config /\ config' = config
        BY <1>a, <2>4 DEF EditLoad
      <3> QED
        BY <1>a, <1>b, <2>3, <3>1, ConfigsAlone DEF Holds
    <2>5. CASE EditFails(e)
      <3>1. copy'[e] = None /\ epc'[e] = "done" /\ config' = config
        BY <1>a, <1>b, <2>5 DEF EditFails
      <3> QED
        BY <1>a, <1>b, <2>3, <3>1, ConfigsAlone DEF Holds
    <2>6. CASE EditSave(e)
      <3>1. Good(copy[e])
        BY <2>1, <2>6 DEF EditSave, Holds
      <3>2. Good(config')
        <4>1. config' = Edited(copy[e], e) /\ (e.op = "apply" => Accepted(copy[e], e.payload))
          BY <2>6 DEF EditSave
        <4>2. CASE e \in [op : {"apply"}, payload : Payload]
          <5>1. e.op = "apply" /\ e.payload \in Payload
            BY <4>2
          <5> QED
            BY <3>1, <4>1, <5>1, BuiltGood DEF Edited
        <4>3. CASE e \in [op : {"setup"}, setup : Setups]
          <5>1. e.op = "setup" /\ e.setup \in Setups
            BY <4>3
          <5> QED
            BY <3>1, <4>1, <5>1, ProviderGood DEF Edited
        <4> QED
          BY <4>2, <4>3
      <3>3. copy'[e] = None /\ epc'[e] = "done"
        BY <1>a, <1>b, <2>6 DEF EditSave
      <3> QED
        BY <1>b, <2>3, <3>2, <3>3, ConfigsAlone DEF Holds
    <2> QED
      BY <1>2, <2>4, <2>5, <2>6 DEF EditStep
  <1>3. ASSUME NEW r \in Run, RunStep(r) PROVE Configs'
    <2>1. Holds(r) /\ r \notin Editor
      BY <1>b, ConfigsHold
    <2>2. /\ epc' = epc
          /\ \E l : pc' = [pc EXCEPT ![r] = l]
          /\ copy' = copy \/ \E c : copy' = [copy EXCEPT ![r] = c]
          /\ conf' = conf \/ \E c : conf' = [conf EXCEPT ![r] = c]
          /\ shield' = shield \/ \E c : shield' = [shield EXCEPT ![r] = c]
      BY <1>3 DEF RunStep, Discover, KeyLoad, KeySave, PlanUrl, Prepare, Probe, Listen, BuildEnv,
                  Launch, LaunchInteractive, End, Forget, Goto
    <2>3. Alone(r)
      BY <1>a, <1>b, <2>2 DEF Alone
    <2>4. CASE Discover(r) \/ PlanUrl(r)
      <3>1. pc'[r] = "protect" /\ UNCHANGED <<config, copy, conf, shield>>
        BY <1>b, <2>4 DEF Discover, PlanUrl, Goto
      <3> QED
        BY <1>a, <2>1, <2>3, <3>1, ConfigsAlone DEF Holds
    <2>5. CASE KeyLoad(r)
      <3>1. pc'[r] = "save" /\ copy'[r] = config /\ UNCHANGED <<config, conf, shield>>
        BY <1>a, <1>b, <2>5 DEF KeyLoad, Goto
      <3> QED
        BY <1>a, <2>1, <2>3, <3>1, ConfigsAlone DEF Holds
    <2>6. ASSUME NEW job \in todo[r], KeySave(r, job) PROVE Configs'
      <3>1. job.key \in Key
        BY <2>6 DEF Places, Job
      <3>2. Good(copy[r]) /\ config' = WithKey(copy[r], job.key)
        BY <2>1, <2>6 DEF KeySave, Holds
      <3>3. Good(config')
        BY <3>1, <3>2, KeyGood
      <3>4. pc'[r] \in {"plan", "protect"} /\ copy'[r] = None /\ UNCHANGED <<conf, shield>>
        BY <1>a, <1>b, <2>6 DEF KeySave, Goto
      <3> QED
        BY <2>1, <2>3, <3>3, <3>4, ConfigsAlone DEF Holds
    <2>7. CASE Prepare(r)
      <3>1. /\ pc'[r] = "ready" /\ conf'[r] = config /\ Loads(config)
            /\ UNCHANGED <<config, copy, shield>>
        BY <1>a, <1>b, <2>7 DEF Prepare, Goto
      <3> QED
        BY <1>a, <2>1, <2>3, <3>1, ConfigsAlone DEF Holds, Loaded
    <2>8. CASE Probe(r) \/ Listen(r) \/ BuildEnv(r) \/ LaunchInteractive(r)
      <3>1. /\ pc[r] \in {"ready", "probed", "listening", "built"}
            /\ pc'[r] \in {"probed", "listening", "built", "tty"}
            /\ UNCHANGED <<config, copy, conf, shield>>
        BY <1>b, <2>8 DEF Probe, Listen, BuildEnv, LaunchInteractive, Goto
      <3> QED
        BY <1>a, <2>1, <2>3, <3>1, ConfigsAlone DEF Holds
    <2>9. CASE Launch(r)
      <3>1. /\ pc[r] = "built" /\ pc'[r] = "up" /\ shield'[r] = config /\ Loads(config)
            /\ UNCHANGED <<config, copy, conf>>
        BY <1>a, <1>b, <2>9 DEF Launch, Goto
      <3> QED
        BY <1>a, <2>1, <2>3, <3>1, ConfigsAlone DEF Holds, Loaded
    <2>10. CASE End(r)
      <3>1. pc'[r] = "ended" /\ copy'[r] = None /\ conf'[r] = None /\ shield'[r] = None /\ config' = config
        BY <1>a, <1>b, <2>10 DEF End, Forget, Goto
      <3> QED
        BY <1>a, <2>1, <2>3, <3>1, ConfigsAlone DEF Holds
    <2> QED
      BY <1>3, <2>4, <2>5, <2>6, <2>7, <2>8, <2>9, <2>10 DEF RunStep
  <1> QED
    BY <1>1, <1>2, <1>3 DEF Next

LEMMA ConfigsInit == Init => Places /\ Configs
  <1> SUFFICES ASSUME Init PROVE Places /\ Configs
    OBVIOUS
  <1>1. Good(config)
    BY InitialGood DEF Init
  <1>2. Places
    BY DEF Init, Places
  <1> QED
    BY <1>1, <1>2 DEF Init, Configs

\* Faults stay owed when more setups have run.
LEMMA OwedMore ==
  ASSUME NEW c, NEW S, NEW T, S \subseteq T, Owed(c, S)
  PROVE  Owed(c, T)
  BY DEF Owed

\* An edit that leaves the providers alone adds no fault.
LEMMA OwedSame ==
  ASSUME NEW c, NEW d, NEW S, d.providers = c.providers, Owed(c, S)
  PROVE  Owed(d, S)
  BY DEF Owed, Clash

\* The faults a setup adds involve its own provider.
LEMMA OwedSetup ==
  ASSUME NEW c, NEW S, NEW s \in S, s \in Setups, Owed(c, S)
  PROVE  Owed(WithProvider(c, s[1], s[2]), S)
  <1> DEFINE d == WithProvider(c, s[1], s[2])
  <1>1. d.providers = [q \in DOMAIN c.providers \cup {s[1]} |-> IF q = s[1] THEN s[2] ELSE c.providers[q]]
    BY DEF WithProvider
  <1>2. s = <<s[1], s[2]>>
    BY FileAssumption
  <1> HIDE DEF d
  <1>3. ASSUME NEW p \in DOMAIN d.providers, NEW q \in DOMAIN d.providers, Clash(d, p, q)
        PROVE  <<p, d.providers[p]>> \in S \/ <<q, d.providers[q]>> \in S
    <2>1. CASE p = s[1] \/ q = s[1]
      BY <1>1, <1>2, <2>1
    <2>2. CASE p # s[1] /\ q # s[1]
      <3>1. /\ p \in DOMAIN c.providers /\ d.providers[p] = c.providers[p]
            /\ q \in DOMAIN c.providers /\ d.providers[q] = c.providers[q]
        BY <1>1, <2>2
      <3>2. Clash(c, p, q)
        BY <1>3, <3>1 DEF Clash
      <3> QED
        BY <3>1, <3>2 DEF Owed
    <2> QED
      BY <2>1, <2>2
  <1> QED
    BY <1>3 DEF Owed, d

\* The faults of the file, and of every version of it that may yet be saved, are owed to
\* setups that have run.
Debts ==
    /\ Owed(config, Ran)
    /\ \A e \in Editor : epc[e] = "loaded" => Owed(copy[e], Ran)
    /\ \A r \in Run : pc[r] = "save" => Owed(copy[r], Ran)

\* A step that saves nothing, and after which one command at most holds the file as it is.
LEMMA DebtsUnsaved ==
  ASSUME Debts, config' = config, Ran \subseteq Ran',
         \A e \in Editor : epc'[e] = "loaded" =>
            copy'[e] = config \/ (epc[e] = "loaded" /\ copy'[e] = copy[e]),
         \A r \in Run : pc'[r] = "save" =>
            copy'[r] = config \/ (pc[r] = "save" /\ copy'[r] = copy[r])
  PROVE  Debts'
  <1>1. Owed(config', Ran')
    BY OwedMore DEF Debts
  <1>2. ASSUME NEW e \in Editor, epc'[e] = "loaded" PROVE Owed(copy'[e], Ran')
    BY <1>2, OwedMore DEF Debts
  <1>3. ASSUME NEW r \in Run, pc'[r] = "save" PROVE Owed(copy'[r], Ran')
    BY <1>3, OwedMore DEF Debts
  <1> QED
    BY <1>1, <1>2, <1>3 DEF Debts

\* The save of a good version; other commands hold what they held.
LEMMA DebtsSaved ==
  ASSUME Debts, Owed(config', Ran'), Ran \subseteq Ran',
         \A e \in Editor : epc'[e] = "loaded" => epc[e] = "loaded" /\ copy'[e] = copy[e],
         \A r \in Run : pc'[r] = "save" => pc[r] = "save" /\ copy'[r] = copy[r]
  PROVE  Debts'
  <1>1. ASSUME NEW e \in Editor, epc'[e] = "loaded" PROVE Owed(copy'[e], Ran')
    BY <1>1, OwedMore DEF Debts
  <1>2. ASSUME NEW r \in Run, pc'[r] = "save" PROVE Owed(copy'[r], Ran')
    BY <1>2, OwedMore DEF Debts
  <1> QED
    BY <1>1, <1>2 DEF Debts

LEMMA DebtsStep ==
  ASSUME Places, Configs, Debts, [Next]_vars
  PROVE  Debts'
  <1>a. copy = [x \in Editor \cup Run |-> copy[x]] /\ \A r \in Run : r \notin Editor
    BY AgentAssumption DEF Configs
  <1>1. CASE UNCHANGED vars
    BY <1>1 DEF vars, runVars, Debts, Ran
  <1>2. ASSUME NEW e \in Editor, EditStep(e) PROVE Debts'
    <2>1. Ran \subseteq Ran'
      BY <1>2 DEF EditStep, EditLoad, EditSave, EditFails, Ran, Places
    <2>2. CASE EditLoad(e) \/ EditFails(e)
      <3>1. config' = config /\ pc' = pc /\ \A r \in Run : copy'[r] = copy[r]
        BY <1>a, <2>2 DEF EditLoad, EditFails, runVars
      <3>2. ASSUME NEW f \in Editor, epc'[f] = "loaded"
            PROVE  copy'[f] = config \/ (epc[f] = "loaded" /\ copy'[f] = copy[f])
        BY <1>a, <2>2, <3>2 DEF EditLoad, EditFails, Places
      <3> QED
        BY <2>1, <3>1, <3>2, DebtsUnsaved
    <2>3. CASE EditSave(e)
      <3>1. /\ epc[e] = "loaded" /\ epc' = [epc EXCEPT ![e] = "done"]
            /\ copy' = [copy EXCEPT ![e] = None] /\ pc' = pc
            /\ config' = Edited(copy[e], e) /\ (e.op = "apply" => Accepted(copy[e], e.payload))
        BY <2>3 DEF EditSave, runVars
      <3>2. Owed(copy[e], Ran') /\ Good(copy[e])
        BY <2>1, <3>1, OwedMore DEF Debts, Configs
      <3>3. Owed(config', Ran')
        <4>1. CASE e \in [op : {"apply"}, payload : Payload]
          <5>1. e.op = "apply" /\ e.payload \in Payload
            BY <4>1
          <5>2. config' = Built(copy[e], e.payload) /\ Accepted(copy[e], e.payload)
            BY <3>1, <5>1 DEF Edited
          <5>3. config'.providers = copy[e].providers
            BY <3>2, <5>1, <5>2, BuiltGood
          <5> QED
            BY <3>2, <5>3, OwedSame
        <4>2. CASE e \in [op : {"setup"}, setup : Setups]
          <5>1. e.op = "setup" /\ e.setup \in Setups
            BY <4>2
          <5>2. e.setup \in Ran'
            BY <3>1, <5>1 DEF Ran, Places
          <5> QED
            BY <3>1, <3>2, <5>1, <5>2, OwedSetup DEF Edited
        <4> QED
          BY <4>1, <4>2
      <3>4. \A f \in Editor : epc'[f] = "loaded" => epc[f] = "loaded" /\ copy'[f] = copy[f]
        BY <1>a, <3>1 DEF Places
      <3>5. \A r \in Run : copy'[r] = copy[r]
        BY <1>a, <3>1
      <3> QED
        BY <2>1, <3>1, <3>3, <3>4, <3>5, DebtsSaved
    <2> QED
      BY <1>2, <2>2, <2>3 DEF EditStep
  <1>3. ASSUME NEW r \in Run, RunStep(r) PROVE Debts'
    <2>1. epc' = epc /\ Ran' = Ran
      BY <1>3 DEF RunStep, Discover, KeyLoad, KeySave, PlanUrl, Prepare, Probe, Listen, BuildEnv,
                  Launch, LaunchInteractive, End, Forget, Ran
    <2>2. ASSUME NEW job \in todo[r], KeySave(r, job) PROVE Debts'
      <3>1. /\ pc[r] = "save" /\ config' = WithKey(copy[r], job.key)
            /\ copy' = [copy EXCEPT ![r] = None]
            /\ pc' = [pc EXCEPT ![r] = IF job.broker THEN "plan" ELSE "protect"]
        BY <2>2 DEF KeySave, Goto
      <3>2. job.key \in Key /\ Good(copy[r]) /\ Owed(copy[r], Ran)
        BY <2>2, <3>1 DEF Places, Job, Configs, Debts
      <3>3. Owed(config', Ran')
        BY <2>1, <3>1, <3>2, KeyGood, OwedSame
      <3>4. \A e \in Editor : copy'[e] = copy[e]
        BY <1>a, <3>1
      <3>5. \A s \in Run : pc'[s] = "save" => pc[s] = "save" /\ copy'[s] = copy[s]
        BY <1>a, <3>1 DEF Places
      <3> QED
        BY <2>1, <3>3, <3>4, <3>5, DebtsSaved
    <2>3. CASE ~\E job \in todo[r] : KeySave(r, job)
      <3>1. /\ config' = config
            /\ \E l : pc' = [pc EXCEPT ![r] = l] /\ (l = "save" => KeyLoad(r))
            /\ copy' = copy \/ (\E c : copy' = [copy EXCEPT ![r] = c])
        BY <1>3, <2>3 DEF RunStep, Discover, KeyLoad, PlanUrl, Prepare, Probe, Listen, BuildEnv,
                          Launch, LaunchInteractive, End, Forget, Goto
      <3>2. \A e \in Editor : copy'[e] = copy[e]
        BY <1>a, <3>1
      <3>3. ASSUME NEW s \in Run, pc'[s] = "save"
            PROVE  copy'[s] = config \/ (pc[s] = "save" /\ copy'[s] = copy[s])
        <4>1. CASE s = r
          <5>1. KeyLoad(r)
            BY <3>1, <3>3, <4>1 DEF Places
          <5> QED
            BY <1>a, <4>1, <5>1 DEF KeyLoad
        <4>2. CASE s # r
          BY <1>a, <3>1, <3>3, <4>2 DEF Places
        <4> QED
          BY <4>1, <4>2
      <3> QED
        BY <2>1, <3>1, <3>2, <3>3, DebtsUnsaved
    <2> QED
      BY <2>2, <2>3
  <1> QED
    BY <1>1, <1>2, <1>3 DEF Next

\* Whatever commands overlap, a file that does not load owes it to a provider that `proxy
\* setup` put there; no payload, key or run makes it so.
\* (core/policy_mutation.py:54, cli/proxy.py:190)
THEOREM LoadableHolds == Spec => []Loadable
  <1>1. Init => Places /\ Configs /\ Debts
    <2>1. Init => Debts
      BY InitialGood DEF Init, Debts
    <2> QED
      BY <2>1, ConfigsInit
  <1>2. Places /\ Configs /\ Debts /\ [Next]_vars => Places' /\ Configs' /\ Debts'
    BY PlacesStep, ConfigsStep, DebtsStep
  <1>3. Configs /\ Debts => Loadable
    BY DEF Configs, Good, Debts, Loadable
  <1> QED
    BY <1>1, <1>2, <1>3, PTL DEF Spec
-----------------------------------------------------------------------------
(* What runs keep, and their environments.                                 *)

LEMMA KeptStep ==
  ASSUME Places, Kept, [Next]_vars
  PROVE  Kept'
  <1>1. CASE UNCHANGED vars
    BY <1>1 DEF vars, runVars, Kept
  <1>2. ASSUME NEW e \in Editor, EditStep(e) PROVE Kept'
    BY <1>2 DEF EditStep, EditLoad, EditSave, EditFails, runVars, Kept
  <1>3. ASSUME NEW r \in Run, RunStep(r) PROVE Kept'
    <2>1. CASE Discover(r)
      BY <2>1, AgentAssumption DEF Discover, Kept
    <2>2. ASSUME NEW job \in todo[r], KeySave(r, job) PROVE Kept'
      <3>1. job \in Job
        BY <2>2 DEF Places
      <3>2. job.key \in Key /\ job.key[1] \in Name
        BY <3>1 DEF Job, Key
      <3>3. plan' \in [Run -> Name \cup {None}]
        BY <2>2, <3>2 DEF KeySave, Kept
      <3> QED
        BY <2>2, <3>2, <3>3 DEF KeySave, Kept
    <2>3. CASE KeyLoad(r) \/ Prepare(r) \/ Probe(r)
      BY <2>3 DEF KeyLoad, Prepare, Probe, Kept
    <2>4. CASE PlanUrl(r) \/ End(r)
      BY <2>4 DEF PlanUrl, End, Forget, Kept
    <2>5. CASE Listen(r) \/ BuildEnv(r) \/ Launch(r) \/ LaunchInteractive(r)
      BY <2>5 DEF Listen, BuildEnv, Launch, LaunchInteractive, Kept
    <2> QED
      BY <1>3, <2>1, <2>2, <2>3, <2>4, <2>5 DEF RunStep
  <1> QED
    BY <1>1, <1>2, <1>3 DEF Next

LEMMA UrlIsPort ==
  ASSUME NEW c, Good(c), NEW n \in Name, ModeOf(c, n) = "broker"
  PROVE  BrokerUrl(c, n) \in Nat
  <1> DEFINE x == c.rules[n].cap
  <1>1. n \in DOMAIN c.rules /\ c.rules[n].mode = "broker"
    BY DEF ModeOf
  <1>2. x \in DOMAIN c.caps /\ x \in 1 .. CapCount /\ c.caps[x].port \in 0 .. MaxPort
    BY <1>1 DEF Good, Loads, RulesLoad, CapsLoad, IsConfig, IsPartial, Capability
  <1>3. FallbackPort(c, x) \in Nat
    <2> DEFINE S == {y \in DOMAIN c.caps : y < x}
    <2>1. S \subseteq 1 .. CapCount
      BY DEF Good, IsConfig, IsPartial, Capability
    <2>2. IsFiniteSet(1 .. CapCount)
      BY PolicyAssumption, FS_Interval
    <2>3. Cardinality(S) \in Nat
      BY <2>1, <2>2, FS_Subset, FS_CardinalityType
    <2>4. BasePort \in Nat
      BY PolicyAssumption
    <2> QED
      BY <2>3, <2>4 DEF FallbackPort, Before
  <1> QED
    BY <1>2, <1>3, PolicyAssumption DEF BrokerUrl

LEMMA ValueTypes ==
  ASSUME NEW c, Good(c), NEW n \in Name
  PROVE  /\ ValueOf(c, n) \in {Real, Virtual, Absent} \cup Nat
         /\ Keyed(c, n) \/ n \in DOMAIN c.rules => ValueOf(c, n) # Real
  <1>1. ModeOf(c, n) \in {"deny", "broker", "virtualize"}
    BY DEF Good, IsConfig, IsPartial, ModeOf, Rule, Mode
  <1>2. CASE ~Keyed(c, n)
    BY <1>2, AgentAssumption DEF ValueOf
  <1>3. CASE Keyed(c, n) /\ ModeOf(c, n) = "broker"
    BY <1>3, UrlIsPort, AgentAssumption DEF ValueOf
  <1>4. CASE Keyed(c, n) /\ ModeOf(c, n) # "broker"
    BY <1>1, <1>4, AgentAssumption DEF ValueOf
  <1> QED
    BY <1>2, <1>3, <1>4

EnvTyped ==
    /\ env \in [Run -> [Name -> {Real, Virtual, Absent} \cup Nat]]
    /\ \A r \in Run : pc[r] \in {"built", "up", "tty"} => env[r] = [n \in Name |-> ValueOf(conf[r], n)]

LEMMA EnvStep ==
  ASSUME Places, Configs, EnvTyped, [Next]_vars
  PROVE  EnvTyped'
  <1>1. CASE UNCHANGED vars
    BY <1>1 DEF vars, runVars, EnvTyped
  <1>2. ASSUME NEW e \in Editor, EditStep(e) PROVE EnvTyped'
    BY <1>2 DEF EditStep, EditLoad, EditSave, EditFails, runVars, EnvTyped
  <1>3. ASSUME NEW r \in Run, RunStep(r) PROVE EnvTyped'
    <2>1. CASE \/ Discover(r) \/ KeyLoad(r) \/ PlanUrl(r) \/ Probe(r) \/ Listen(r)
               \/ Launch(r) \/ LaunchInteractive(r)
      BY <2>1 DEF Discover, KeyLoad, PlanUrl, Probe, Listen, Launch, LaunchInteractive, Goto,
                  EnvTyped, Places
    <2>2. ASSUME NEW job \in todo[r], KeySave(r, job) PROVE EnvTyped'
      <3>1. pc' = [pc EXCEPT ![r] = IF job.broker THEN "plan" ELSE "protect"]
        BY <2>2 DEF KeySave, Goto
      <3> QED
        BY <2>2, <3>1 DEF KeySave, EnvTyped, Places
    <2>3. CASE Prepare(r)
      BY <2>3 DEF Prepare, Goto, EnvTyped, Places, Configs
    <2>4. CASE BuildEnv(r)
      <3>1. Good(conf[r])
        BY <2>4 DEF BuildEnv, Configs, Loaded
      <3>2. [n \in Name |-> ValueOf(conf[r], n)] \in [Name -> {Real, Virtual, Absent} \cup Nat]
        BY <3>1, ValueTypes
      <3>3. /\ env' = [env EXCEPT ![r] = [n \in Name |-> ValueOf(conf[r], n)]]
            /\ pc' = [pc EXCEPT ![r] = "built"] /\ UNCHANGED conf
        BY <2>4 DEF BuildEnv, Goto
      <3>4. env' \in [Run -> [Name -> {Real, Virtual, Absent} \cup Nat]]
        BY <3>2, <3>3 DEF EnvTyped
      <3>5. ASSUME NEW s \in Run, pc'[s] \in {"built", "up", "tty"}
            PROVE  env'[s] = [n \in Name |-> ValueOf(conf[s], n)]
        BY <3>3, <3>5 DEF EnvTyped, Places
      <3> QED
        BY <3>3, <3>4, <3>5 DEF EnvTyped
    <2>5. CASE End(r)
      <3>1. NoEnv \in [Name -> {Real, Virtual, Absent} \cup Nat]
        BY DEF NoEnv
      <3>2. /\ env' = [env EXCEPT ![r] = NoEnv] /\ conf' = [conf EXCEPT ![r] = None]
            /\ pc' = [pc EXCEPT ![r] = "ended"]
        BY <2>5 DEF End, Forget, Goto
      <3> QED
        BY <3>1, <3>2 DEF EnvTyped, Places, Configs
    <2> QED
      BY <1>3, <2>1, <2>2, <2>3, <2>4, <2>5 DEF RunStep
  <1> QED
    BY <1>1, <1>2, <1>3 DEF Next

LEMMA EnvInit == Init => Kept /\ EnvTyped
  BY DEF Init, Kept, EnvTyped, NoEnv

\* Every variable keeps its type, overlapping edits included.
THEOREM TypeCorrect == Spec => []TypeOK
  <1> DEFINE Inv == PortInv /\ Places /\ Configs /\ Kept /\ EnvTyped
  <1>1. Init => Inv
    <2>1. Init => PortInv
      BY AgentAssumption DEF Init, PortInv, OwnGateway
    <2> QED
      BY <2>1, ConfigsInit, EnvInit
  <1>2. Inv /\ [Next]_vars => Inv'
    BY PortStep, PlacesStep, ConfigsStep, KeptStep, EnvStep
  <1>3. Inv => TypeOK
    BY DEF PortInv, Places, Configs, Kept, EnvTyped, TypeOK, Good, Loaded
  <1> QED
    BY <1>1, <1>2, <1>3, PTL DEF Spec
-----------------------------------------------------------------------------
(* Without overlap, what a run has denied or keyed stays in the file.      *)

Held ==
    /\ \A r \in Run : denied[r] \subseteq DOMAIN config.rules /\ kept[r] \subseteq config.keys
    /\ \A r \in Run : pc[r] \in {"ready", "probed", "listening", "built", "up", "tty"} =>
          denied[r] \subseteq DOMAIN conf[r].rules /\ kept[r] \subseteq conf[r].keys
    /\ \A r \in Run : pc[r] = "up" => kept[r] \subseteq shield[r].keys

\* No command takes a rule or a key out of the file.
LEMMA Grows ==
  ASSUME LockInv, Places, Configs, [Next]_vars
  PROVE  DOMAIN config.rules \subseteq DOMAIN config'.rules /\ config.keys \subseteq config'.keys
  <1> DEFINE Goal == DOMAIN config.rules \subseteq DOMAIN config'.rules /\ config.keys \subseteq config'.keys
  <1> SUFFICES Goal
    OBVIOUS
  <1>1. CASE config' = config
    BY <1>1
  <1>2. ASSUME NEW e \in Editor, EditSave(e) PROVE Goal
    <2>1. copy[e] = config /\ Good(config)
      BY <1>2 DEF EditSave, LockInv, Configs
    <2>2. CASE e \in [op : {"apply"}, payload : Payload]
      BY <1>2, <2>1, <2>2, BuiltGood DEF EditSave, Edited
    <2>3. CASE e \in [op : {"setup"}, setup : Setups]
      BY <1>2, <2>1, <2>3 DEF EditSave, Edited, WithProvider
    <2> QED
      BY <2>2, <2>3
  <1>3. ASSUME NEW r \in Run, NEW job \in todo[r], KeySave(r, job) PROVE Goal
    <2>1. copy[r] = config /\ Good(config) /\ job.key \in Key
      BY <1>3 DEF KeySave, LockInv, Configs, Job
    <2> QED
      BY <1>3, <2>1, KeyGood DEF KeySave
  <1> QED
    BY <1>1, <1>2, <1>3 DEF Next, vars, EditStep, EditLoad, EditFails, RunStep, Discover, KeyLoad, PlanUrl,
       Prepare, Probe, Listen, BuildEnv, Launch, LaunchInteractive, End, Forget

\* Steps that change neither what a run holds nor what it has loaded.
LEMMA HeldUntouched ==
  ASSUME Held, DOMAIN config.rules \subseteq DOMAIN config'.rules, config.keys \subseteq config'.keys,
         UNCHANGED <<denied, kept, conf, shield>>,
         \A r \in Run : /\ pc'[r] = "up" => pc[r] = "up"
                        /\ pc'[r] \in {"ready", "probed", "listening", "built", "up", "tty"} =>
                              pc[r] \in {"ready", "probed", "listening", "built", "up", "tty"}
  PROVE  Held'
  BY DEF Held

LEMMA HeldStep ==
  ASSUME LockInv, Places, Configs, Kept, Held, [Next]_vars
  PROVE  Held'
  <1>1. DOMAIN config.rules \subseteq DOMAIN config'.rules /\ config.keys \subseteq config'.keys
    BY Grows
  <1>2. CASE UNCHANGED vars
    BY <1>1, <1>2, HeldUntouched DEF vars, runVars
  <1>3. ASSUME NEW e \in Editor, EditStep(e) PROVE Held'
    BY <1>1, <1>3, HeldUntouched DEF EditStep, EditLoad, EditSave, EditFails, runVars
  <1>4. ASSUME NEW r \in Run, RunStep(r) PROVE Held'
    <2>1. CASE Discover(r)
      <3>1. /\ UNCHANGED <<config, kept, conf, shield>> /\ pc' = [pc EXCEPT ![r] = "protect"]
            /\ denied' = [denied EXCEPT ![r] =
                            {n \in Found \cap DOMAIN config.rules : ModeOf(config, n) = "deny"}]
        BY <2>1 DEF Discover, Goto
      <3> QED
        BY <3>1 DEF Held, Kept, Places
    <2>2. ASSUME NEW job \in todo[r], KeySave(r, job) PROVE Held'
      <3>1. copy[r] = config /\ Good(config) /\ job.key \in Key
        BY <2>2 DEF KeySave, LockInv, Configs, Job
      <3>2. config'.keys = config.keys \cup {job.key}
        BY <2>2, <3>1, KeyGood DEF KeySave
      <3>3. pc' = [pc EXCEPT ![r] = IF job.broker THEN "plan" ELSE "protect"]
        BY <2>2 DEF KeySave, Goto
      <3>4. UNCHANGED <<denied, conf, shield>> /\ kept' = [kept EXCEPT ![r] = @ \cup {job.key}]
        BY <2>2 DEF KeySave
      <3>5. \A s \in Run : denied'[s] \subseteq DOMAIN config'.rules /\ kept'[s] \subseteq config'.keys
        BY <1>1, <3>2, <3>4 DEF Held, Kept
      <3>6. ASSUME NEW s \in Run, pc'[s] \in {"ready", "probed", "listening", "built", "up", "tty"}
            PROVE  pc'[s] = pc[s] /\ kept'[s] = kept[s]
        BY <3>3, <3>4, <3>6 DEF Kept, Places
      <3> QED
        BY <3>4, <3>5, <3>6 DEF Held
    <2>3. CASE KeyLoad(r) \/ PlanUrl(r)
      BY <1>1, <2>3, HeldUntouched DEF KeyLoad, PlanUrl, Goto, Places
    <2>4. CASE Prepare(r)
      <3>1. /\ UNCHANGED <<config, denied, kept, shield>> /\ pc' = [pc EXCEPT ![r] = "ready"]
            /\ conf' = [conf EXCEPT ![r] = config]
        BY <2>4 DEF Prepare, Goto
      <3> QED
        BY <3>1 DEF Held, Configs, Places
    <2>5. CASE Probe(r) \/ Listen(r) \/ BuildEnv(r) \/ LaunchInteractive(r)
      BY <1>1, <2>5, HeldUntouched DEF Probe, Listen, BuildEnv, LaunchInteractive, Goto, Places
    <2>6. CASE Launch(r)
      <3>1. /\ UNCHANGED <<config, denied, kept, conf>> /\ pc' = [pc EXCEPT ![r] = "up"]
            /\ shield' = [shield EXCEPT ![r] = config] /\ pc[r] = "built"
        BY <2>6 DEF Launch, Goto
      <3> QED
        BY <3>1 DEF Held, Configs, Places
    <2>7. CASE End(r)
      <3>1. /\ UNCHANGED config /\ pc' = [pc EXCEPT ![r] = "ended"]
            /\ denied' = [denied EXCEPT ![r] = {}] /\ kept' = [kept EXCEPT ![r] = {}]
            /\ conf' = [conf EXCEPT ![r] = None] /\ shield' = [shield EXCEPT ![r] = None]
        BY <2>7 DEF End, Forget, Goto
      <3> QED
        BY <3>1 DEF Held, Kept, Configs, Places
    <2> QED
      BY <1>4, <2>1, <2>2, <2>3, <2>4, <2>5, <2>6, <2>7 DEF RunStep
  <1> QED
    BY <1>2, <1>3, <1>4 DEF Next

LEMMA HeldInit == Init => Held
  BY DEF Init, Held

HInv == LockInv /\ Places /\ Configs /\ Kept /\ EnvTyped /\ Held
LEMMA HInvHolds == ~Overlap => (Spec => []HInv)
  <1> SUFFICES ASSUME ~Overlap PROVE Spec => []HInv
    OBVIOUS
  <1>1. Init => HInv
    BY LockInit, ConfigsInit, EnvInit, HeldInit DEF HInv
  <1>2. HInv /\ [Next]_vars => HInv'
    BY LockStep, PlacesStep, ConfigsStep, KeptStep, EnvStep, HeldStep DEF HInv
  <1> QED
    BY <1>1, <1>2, PTL DEF Spec

\* What a run has denied, or keeps under its own name, its agent does not find in the
\* environment, whatever edits come between the loads.  (cli/main.py:577)
THEOREM EnvVirtualHolds == ~Overlap => (Spec => []EnvVirtual)
  <1>1. HInv => EnvVirtual
    <2> SUFFICES ASSUME HInv, NEW r \in Run, pc[r] \in {"built", "up", "tty"}, NEW n \in Name,
                        n \in denied[r] \/ <<n, n>> \in kept[r]
                 PROVE  env[r][n] # Real
      BY DEF EnvVirtual
    <2>1. Good(conf[r]) /\ denied[r] \subseteq DOMAIN conf[r].rules /\ kept[r] \subseteq conf[r].keys
      BY DEF HInv, Configs, Held, Loaded
    <2>2. env[r][n] = ValueOf(conf[r], n)
      BY DEF HInv, EnvTyped
    <2>3. Keyed(conf[r], n) \/ n \in DOMAIN conf[r].rules
      BY <2>1 DEF Keyed
    <2> QED
      BY <2>1, <2>2, <2>3, ValueTypes
  <1> QED
    BY <1>1, HInvHolds, PTL

\* What a run has created a key for is hidden in the output of its agent, unless that is
\* interactive and has the terminal to itself, and in that of every agent's guarded commands,
\* whenever they load the file.  (cli/main.py:670, guard/sanitizer.py:35)
THEOREM OutputHidesHolds == ~Overlap => (Spec => []OutputHides)
  <1>1. HInv => OutputHides
    BY DEF HInv, Held, OutputHides, ComesThrough
  <1> QED
    BY <1>1, HInvHolds, PTL

\* A port that is set stays set, and changes only where the payload names it.
LEMMA BuiltKeepsPorts ==
  ASSUME NEW c, Good(c), NEW p \in Payload, NEW x \in DOMAIN c.caps, c.caps[x].port # 0
  PROVE  /\ x \in DOMAIN Built(c, p).caps
         /\ Built(c, p).caps[x].port = c.caps[x].port
               \/ (x \in DOMAIN p.caps /\ "port" \in DOMAIN p.caps[x])
  <1> DEFINE caps == MergedAll(c.caps, p.caps, EmptyCap)
             m == [rules |-> MergedAll(c.rules, p.rules, EmptyRule), caps |-> caps,
                   keys |-> c.keys, providers |-> c.providers]
             given(y) == Given(FreePorts(m), Needy(m, p), y)
  <1>1. Built(c, p).caps = [y \in DOMAIN caps |->
            IF y \in Needy(m, p) THEN [caps[y] EXCEPT !.port = given(y)] ELSE caps[y]]
    BY DEF Built, Allocated
  <1>2. x \in DOMAIN caps
    BY DEF MergedAll
  <1>3. ASSUME ~(x \in DOMAIN p.caps /\ "port" \in DOMAIN p.caps[x]) PROVE caps[x].port = c.caps[x].port
    <2>1. DOMAIN c.caps[x] = {"sound", "port"}
      BY DEF Good, IsConfig, IsPartial, Cap
    <2> QED
      BY <1>3, <2>1 DEF MergedAll, Updated
  <1>4. m.caps = caps
    OBVIOUS
  <1> HIDE DEF caps, m, given
  <1>5. caps[x].port # 0 => x \notin Needy(m, p)
    BY <1>4 DEF Needy
  <1> QED
    BY <1>1, <1>2, <1>3, <1>5

\* A port once declared or given moves only when a payload names it.  (core/policy_ports.py:20)
THEOREM PortsStableHolds == ~Overlap => (Spec => PortsStable)
  <1> DEFINE Stable(x) ==
        /\ x \in DOMAIN config'.caps
        /\ \/ config'.caps[x].port = config.caps[x].port
           \/ \E e \in Editor : EditSave(e) /\ Names(e, x)
  <1>1. ASSUME HInv, [Next]_vars
        PROVE  [\A x \in DOMAIN config.caps : config.caps[x].port # 0 => Stable(x)]_config
    <2> SUFFICES ASSUME config' # config, NEW x \in DOMAIN config.caps, config.caps[x].port # 0
                 PROVE  Stable(x)
      OBVIOUS
    <2>1. ASSUME NEW e \in Editor, EditSave(e) PROVE Stable(x)
      <3>1. copy[e] = config /\ Good(config)
        BY <1>1, <2>1 DEF EditSave, HInv, LockInv, Configs
      <3>2. CASE e \in [op : {"apply"}, payload : Payload]
        <4>1. e.op = "apply" /\ e.payload \in Payload /\ config' = Built(config, e.payload)
          BY <2>1, <3>1, <3>2 DEF EditSave, Edited
        <4> QED
          BY <2>1, <3>1, <4>1, BuiltKeepsPorts DEF Names
      <3>3. CASE e \in [op : {"setup"}, setup : Setups]
        BY <2>1, <3>1, <3>3 DEF EditSave, Edited, WithProvider
      <3> QED
        BY <3>2, <3>3
    <2>2. ASSUME NEW r \in Run, NEW job \in todo[r], KeySave(r, job) PROVE Stable(x)
      <3>1. config' = WithKey(config, job.key) /\ IsConfig(config)
        BY <1>1, <2>2 DEF KeySave, HInv, LockInv, Configs, Good
      <3> QED
        BY <3>1 DEF WithKey, IsConfig
    <2> QED
      BY <1>1, <2>1, <2>2 DEF Next, vars, EditStep, EditLoad, EditFails, RunStep, Discover, KeyLoad, PlanUrl,
         Prepare, Probe, Listen, BuildEnv, Launch, LaunchInteractive, End, Forget
  <1> QED
    BY <1>1, HInvHolds, PTL DEF Spec, PortsStable
-----------------------------------------------------------------------------
(* Positions in sets of numbers, which ports are handed out by.            *)

(* A set of numbers has a least one. *)
LEMMA Least ==
  ASSUME NEW S \in SUBSET Nat, S # {}
  PROVE  \E m \in S : \A k \in S : m <= k
  <1> DEFINE Less == {p \in Nat \X Nat : p[1] < p[2]}
  <1>1. IsWellFoundedOn(Less, Nat)
    BY NatLessThanWellFounded DEF OpToRel
  <1> HIDE DEF Less
  <1>2. PICK m \in S : \A k \in S : ~(<<k, m>> \in Less)
    BY <1>1, WFMin
  <1>3. ASSUME NEW k \in S PROVE m <= k
    <2>1. <<k, m>> \in Nat \X Nat /\ ~(<<k, m>>[1] < <<k, m>>[2])
      BY <1>2 DEF Less
    <2> QED
      BY <2>1
  <1> QED
    BY <1>3

LEMMA BeforeGrows ==
  ASSUME NEW S \in SUBSET Nat, IsFiniteSet(S), NEW i \in S, NEW j \in Nat, i < j
  PROVE  /\ Before(S, i) \in Nat /\ Before(S, j) \in Nat
         /\ Before(S, i) < Before(S, j) /\ Before(S, j) <= Cardinality(S)
  <1> DEFINE lo == {y \in S : y < i}
             hi == {y \in S : y < j}
  <1>1. i \in Nat /\ ~(i < i) /\ \A y \in S : y \in Nat /\ (y < i => y < j)
    OBVIOUS
  <1>2. lo \subseteq hi /\ i \in hi /\ i \notin lo /\ hi \subseteq S
    <2>1. i \in hi /\ i \notin lo
      BY <1>1
    <2>2. lo \subseteq hi /\ hi \subseteq S
      BY <1>1
    <2> QED
      BY <2>1, <2>2
  <1> HIDE DEF lo, hi
  <1>3. IsFiniteSet(hi) /\ Cardinality(hi) <= Cardinality(S)
    BY <1>2, FS_Subset
  <1>4. IsFiniteSet(lo) /\ Cardinality(lo) <= Cardinality(hi) /\ Cardinality(lo) # Cardinality(hi)
    BY <1>2, <1>3, FS_Subset
  <1>5. Cardinality(lo) \in Nat /\ Cardinality(hi) \in Nat
    BY <1>3, <1>4, FS_CardinalityType
  <1>6. Before(S, i) = Cardinality(lo) /\ Before(S, j) = Cardinality(hi)
    BY DEF Before, lo, hi
  <1> QED
    BY <1>3, <1>4, <1>5, <1>6

LEMMA RankedOnce ==
  ASSUME NEW S \in SUBSET Nat, IsFiniteSet(S), NEW q \in S, NEW r \in S, Before(S, q) = Before(S, r)
  PROVE  q = r
  <1>1. q \in Nat /\ r \in Nat
    OBVIOUS
  <1>2. ~(q < r)
    BY <1>1, BeforeGrows
  <1>3. ~(r < q)
    BY <1>1, BeforeGrows
  <1> QED
    BY <1>1, <1>2, <1>3

\* Numbers whose positions are all below n are n at most.
LEMMA RankedFew ==
  ASSUME NEW S \in SUBSET Nat, IsFiniteSet(S), NEW n \in Nat, NEW T \in SUBSET S,
         \A q \in T : Before(S, q) \in 0 .. n - 1
  PROVE  Cardinality(T) <= n
  <1> DEFINE f == [q \in T |-> Before(S, q)]
  <1>1. f \in [T -> 0 .. n - 1]
    OBVIOUS
  <1>2. \A q, r \in T : f[q] = f[r] => q = r
    BY RankedOnce
  <1> HIDE DEF f
  <1>3. f \in Injection(T, 0 .. n - 1)
    BY <1>1, <1>2, Fun_IsInj
  <1>4. IsFiniteSet(0 .. n - 1) /\ Cardinality(0 .. n - 1) = n
    BY FS_Interval
  <1> QED
    BY <1>3, <1>4, FS_Injection

\* A set of numbers has one at every position below its size.
LEMMA Ranked ==
  ASSUME NEW S \in SUBSET Nat, IsFiniteSet(S), NEW n \in Nat, n < Cardinality(S)
  PROVE  \E q \in S : Before(S, q) = n
  <1> DEFINE high == {q \in S : ~(Before(S, q) < n)}
  <1>1. \A q \in S : Before(S, q) \in Nat
    <2> TAKE q \in S
    <2>1. q \in Nat /\ q < q + 1 /\ q + 1 \in Nat
      OBVIOUS
    <2> QED
      BY <2>1, BeforeGrows
  <1>2. Cardinality(S) \in Nat
    BY FS_CardinalityType
  <1>3. high # {}
    <2> SUFFICES ASSUME \A q \in S : Before(S, q) < n PROVE FALSE
      OBVIOUS
    <2>1. \A q \in S : Before(S, q) \in 0 .. n - 1
      BY <1>1
    <2>2. Cardinality(S) <= n
      BY <2>1, RankedFew
    <2> QED
      BY <1>2, <2>2
  <1>4. PICK q \in high : \A r \in high : q <= r
    BY <1>3, Least
  <1>5. q \in S /\ q \in Nat /\ Before(S, q) \in Nat /\ ~(Before(S, q) < n)
    BY <1>1, <1>4
  <1>6. Before(S, q) <= n
    <2> DEFINE T == {r \in S : r < q}
    <2>1. \A r \in T : Before(S, r) < n
      BY <1>4, <1>5
    <2>2. \A r \in T : Before(S, r) \in 0 .. n - 1
      BY <1>1, <2>1
    <2>3. Cardinality(T) <= n
      <3> HIDE DEF T
      <3>1. T \in SUBSET S
        BY DEF T
      <3> QED
        BY <2>2, <3>1, RankedFew
    <2> QED
      BY <2>3 DEF Before
  <1> QED
    BY <1>5, <1>6
-----------------------------------------------------------------------------
(* The ports the allocator gives.                                          *)

\* What the allocator works on: a file with a payload merged in.
Merged(c) == DOMAIN c.caps \subseteq Capability /\ \A x \in DOMAIN c.caps : c.caps[x].port \in Nat

LEMMA Spare ==
  ASSUME NEW c, Merged(c)
  PROVE  /\ FreePorts(c) \in SUBSET Nat /\ IsFiniteSet(FreePorts(c))
         /\ CapCount < Cardinality(FreePorts(c)) /\ 0 \notin FreePorts(c)
         /\ IsFiniteSet(DOMAIN c.caps) /\ Cardinality(DOMAIN c.caps) <= CapCount
  <1> DEFINE all == BasePort .. BasePort + 2 * CapCount
             ports == {c.caps[x].port : x \in DOMAIN c.caps}
             f == [x \in DOMAIN c.caps |-> c.caps[x].port]
  <1>0. BasePort \in Nat /\ BasePort > 0 /\ CapCount \in Nat
    BY PolicyAssumption
  <1>1. IsFiniteSet(1 .. CapCount) /\ Cardinality(1 .. CapCount) = CapCount
    BY <1>0, FS_Interval
  <1>2. IsFiniteSet(DOMAIN c.caps) /\ Cardinality(DOMAIN c.caps) <= CapCount
    BY <1>1, FS_Subset DEF Merged, Capability
  <1>3. f \in Surjection(DOMAIN c.caps, ports)
    <2>1. f \in [DOMAIN c.caps -> ports] /\ \A t \in ports : \E s \in DOMAIN c.caps : f[s] = t
      OBVIOUS
    <2> HIDE DEF f, ports
    <2> QED
      BY <2>1, Fun_IsSurj
  <1>4. IsFiniteSet(ports) /\ Cardinality(ports) <= Cardinality(DOMAIN c.caps)
    <2> HIDE DEF f, ports
    <2> QED
      BY <1>2, <1>3, FS_Surjection
  <1>5. IsFiniteSet(all) /\ Cardinality(all) = 2 * CapCount + 1
    <2> DEFINE top == BasePort + 2 * CapCount
    <2>1. BasePort \in Int /\ top \in Int /\ ~(BasePort > top) /\ top - BasePort + 1 = 2 * CapCount + 1
      BY <1>0
    <2> HIDE DEF top
    <2>2. IsFiniteSet(BasePort .. top) /\ Cardinality(BasePort .. top) = 2 * CapCount + 1
      BY <2>1, FS_Interval
    <2> QED
      BY <2>2 DEF top
  <1>6. IsFiniteSet(Used(c)) /\ Cardinality(Used(c)) <= CapCount
    <2>1. Used(c) \in SUBSET ports
      BY DEF Used
    <2>2. IsFiniteSet(Used(c)) /\ Cardinality(Used(c)) <= Cardinality(ports)
      <3> HIDE DEF ports
      <3> QED
        BY <1>4, <2>1, FS_Subset
    <2>3. Cardinality(Used(c)) \in Nat /\ Cardinality(ports) \in Nat /\ Cardinality(DOMAIN c.caps) \in Nat
      BY <1>2, <1>4, <2>2, FS_CardinalityType
    <2> QED
      BY <1>0, <1>2, <1>4, <2>2, <2>3
  <1>7. /\ IsFiniteSet(all \ Used(c))
        /\ Cardinality(all \ Used(c)) = Cardinality(all) - Cardinality(all \cap Used(c))
    BY <1>5, FS_Difference
  <1>8. IsFiniteSet(all \cap Used(c)) /\ Cardinality(all \cap Used(c)) <= Cardinality(Used(c))
    BY <1>6, FS_Intersection
  <1>9. Cardinality(all \cap Used(c)) \in Nat /\ Cardinality(Used(c)) \in Nat
    BY <1>6, <1>8, FS_CardinalityType
  <1>10. FreePorts(c) = all \ Used(c)
    BY DEF FreePorts
  <1>11. FreePorts(c) \in SUBSET Nat /\ 0 \notin FreePorts(c)
    BY <1>0 DEF FreePorts
  <1>12. CapCount < Cardinality(FreePorts(c))
    BY <1>0, <1>5, <1>6, <1>7, <1>8, <1>9, <1>10
  <1> QED
    BY <1>2, <1>7, <1>10, <1>11, <1>12

\* The k-th needy name gets the k-th free port: there is one.
LEMMA GivenFree ==
  ASSUME NEW c, Merged(c), NEW N \in SUBSET DOMAIN c.caps, NEW x \in N
  PROVE  /\ Given(FreePorts(c), N, x) \in FreePorts(c)
         /\ Before(FreePorts(c), Given(FreePorts(c), N, x)) = Before(N, x)
  <1>1. N \in SUBSET Nat /\ x \in Nat
    BY DEF Merged, Capability
  <1>2. IsFiniteSet(N) /\ Cardinality(N) <= CapCount /\ Cardinality(N) \in Nat
    <2>1. IsFiniteSet(N) /\ Cardinality(N) <= Cardinality(DOMAIN c.caps)
      BY Spare, FS_Subset
    <2>2. Cardinality(N) \in Nat /\ Cardinality(DOMAIN c.caps) \in Nat
      BY <2>1, Spare, FS_CardinalityType
    <2> QED
      BY <2>1, <2>2, Spare, PolicyAssumption
  <1>3. Before(N, x) \in Nat /\ Before(N, x) < Cardinality(N)
    <2>1. x + 1 \in Nat /\ x < x + 1
      BY <1>1
    <2>2. /\ Before(N, x) \in Nat /\ Before(N, x + 1) \in Nat
          /\ Before(N, x) < Before(N, x + 1) /\ Before(N, x + 1) <= Cardinality(N)
      BY <1>1, <1>2, <2>1, BeforeGrows
    <2> QED
      BY <1>2, <2>2
  <1>4. Cardinality(FreePorts(c)) \in Nat
    BY Spare, FS_CardinalityType
  <1>5. Before(N, x) < Cardinality(FreePorts(c))
    BY <1>2, <1>3, <1>4, Spare, PolicyAssumption
  <1>6. \E q \in FreePorts(c) : Before(FreePorts(c), q) = Before(N, x)
    BY <1>3, <1>5, Spare, Ranked
  <1> QED
    BY <1>6 DEF Given

\* No two names get the same.
LEMMA GivenOnce ==
  ASSUME NEW c, Merged(c), NEW N \in SUBSET DOMAIN c.caps, NEW x \in N, NEW y \in N,
         Given(FreePorts(c), N, x) = Given(FreePorts(c), N, y)
  PROVE  x = y
  <1>1. Before(N, x) = Before(N, y)
    BY GivenFree
  <1>2. N \in SUBSET Nat
    BY DEF Merged, Capability
  <1>3. IsFiniteSet(N)
    BY Spare, FS_Subset
  <1> QED
    BY <1>1, <1>2, <1>3, RankedOnce

\* Names that keep their port may be left out: the others are given the same again.
LEMMA GivenAgain ==
  ASSUME NEW c, Merged(c), NEW d, Merged(d), NEW N \in SUBSET DOMAIN c.caps,
         NEW M \in SUBSET N, M \subseteq DOMAIN d.caps, NEW x \in M,
         \A q : q \in FreePorts(d) <=>
                  q \in FreePorts(c) /\ ~\E y \in N \ M : q = Given(FreePorts(c), N, y)
  PROVE  Given(FreePorts(d), M, x) = Given(FreePorts(c), N, x)
  <1> DEFINE F == FreePorts(c)
             g == [y \in N |-> Given(F, N, y)]
             before == {y \in M : y < x}
             below == {q \in FreePorts(d) : q < g[x]}
  <1>1. N \in SUBSET Nat /\ IsFiniteSet(N) /\ F \in SUBSET Nat /\ IsFiniteSet(F)
    BY Spare, FS_Subset DEF Merged, Capability
  <1>2. \A y \in N : g[y] \in F /\ g[y] \in Nat /\ Before(F, g[y]) = Before(N, y)
    BY <1>1, GivenFree
  <1>3. \A y, z \in N : g[y] = g[z] => y = z
    BY GivenOnce
  <1>4. \A q : q \in FreePorts(d) <=> q \in F /\ ~\E y \in N \ M : q = g[y]
    OBVIOUS
  <1> HIDE DEF F, g
  <1>5. \A y \in N : y \in Nat /\ Before(N, y) \in Nat
    <2> TAKE y \in N
    <2>1. y \in Nat /\ y + 1 \in Nat /\ y < y + 1
      BY <1>1
    <2> QED
      BY <1>1, <2>1, BeforeGrows
  <1>6. ASSUME NEW y \in N, NEW z \in N, y < z PROVE g[y] < g[z]
    <2>1. Before(F, g[y]) < Before(F, g[z])
      BY <1>1, <1>2, <1>5, <1>6, BeforeGrows
    <2>2. g[z] < g[y] => Before(F, g[z]) < Before(F, g[y])
      BY <1>1, <1>2, BeforeGrows
    <2> QED
      BY <1>2, <1>5, <2>1, <2>2
  <1>7. \A y \in M : g[y] \in FreePorts(d)
    BY <1>2, <1>3, <1>4
  <1>8. ASSUME NEW q \in FreePorts(d), q < g[x] PROVE \E y \in before : g[y] = q
    <2>1. q \in F /\ q \in Nat
      BY <1>1, <1>4
    <2>2. /\ Before(F, q) \in Nat /\ Before(F, q) < Before(N, x)
      BY <1>1, <1>2, <1>8, <2>1, BeforeGrows
    <2>3. Before(N, x) <= Cardinality(N) /\ Cardinality(N) \in Nat
      <3>1. x \in Nat /\ x + 1 \in Nat /\ x < x + 1
        BY <1>5
      <3>2. Before(N, x) < Before(N, x + 1) /\ Before(N, x + 1) <= Cardinality(N)
            /\ Before(N, x + 1) \in Nat
        BY <1>1, <3>1, BeforeGrows
      <3>3. Cardinality(N) \in Nat
        BY <1>1, FS_CardinalityType
      <3> QED
        BY <1>5, <3>2, <3>3
    <2>4. Before(F, q) < Cardinality(N)
      BY <1>5, <2>2, <2>3
    <2>5. PICK y \in N : Before(N, y) = Before(F, q)
      BY <1>1, <2>2, <2>4, Ranked
    <2>6. g[y] = q
      BY <1>1, <1>2, <2>1, <2>5, RankedOnce
    <2>7. y \in M
      BY <1>4, <2>6
    <2>8. y < x
      BY <1>2, <1>5, <1>6, <1>8, <2>6
    <2> QED
      BY <2>6, <2>7, <2>8
  <1>9. Before(FreePorts(d), g[x]) = Before(M, x)
    <2> DEFINE h == [y \in before |-> g[y]]
    <2>1. \A y \in before : g[y] \in below
      BY <1>5, <1>6, <1>7
    <2>2. h \in [before -> below] /\ (\A y, z \in before : h[y] = h[z] => y = z)
          /\ \A q \in below : \E y \in before : h[y] = q
      BY <1>3, <1>8, <2>1
    <2>3. IsFiniteSet(before)
      BY <1>1, FS_Subset
    <2> HIDE DEF before, below, h
    <2>4. h \in Bijection(before, below)
      BY <2>2, Fun_IsBij
    <2>5. ExistsBijection(before, below)
      BY <2>4, Fun_ExistsBij
    <2>6. Cardinality(below) = Cardinality(before)
      BY <2>3, <2>5, FS_Bijection
    <2> QED
      BY <2>6 DEF Before, before, below
  <1>10. /\ Given(FreePorts(d), M, x) \in FreePorts(d)
         /\ Before(FreePorts(d), Given(FreePorts(d), M, x)) = Before(M, x)
    BY GivenFree
  <1>11. Given(FreePorts(d), M, x) = g[x]
    <2>1. FreePorts(d) \in SUBSET Nat /\ IsFiniteSet(FreePorts(d))
      BY Spare
    <2>2. g[x] \in FreePorts(d)
      BY <1>7
    <2> DEFINE G == FreePorts(d)
               a == Given(G, M, x)
    <2>3. a \in G /\ g[x] \in G /\ Before(G, a) = Before(G, g[x])
      BY <1>9, <1>10, <2>2
    <2> HIDE DEF G, a
    <2>4. a = g[x]
      BY <2>1, <2>3, RankedOnce DEF G
    <2> QED
      BY <2>4 DEF a, G
  <1> QED
    BY <1>11 DEF g, F

\* The file with a payload merged in, before ports are given.
Draft(c, p) ==
    [rules |-> MergedAll(c.rules, p.rules, EmptyRule), caps |-> MergedAll(c.caps, p.caps, EmptyCap),
     keys |-> c.keys, providers |-> c.providers]
NamesPort(p, x) == x \in DOMAIN p.caps /\ "port" \in DOMAIN p.caps[x]

SoundOf(c, x) == IF x \in DOMAIN c.caps THEN c.caps[x].sound ELSE FALSE
PortOf(c, x) == IF x \in DOMAIN c.caps THEN c.caps[x].port ELSE 0

(* The draft m of c and p at x. *)
DraftAt(m, c, p, x) ==
    /\ m.caps[x] = [sound |-> m.caps[x].sound, port |-> m.caps[x].port]
    /\ m.caps[x].sound \in BOOLEAN /\ m.caps[x].port \in Nat
    /\ NamesPort(p, x) => m.caps[x].port = p.caps[x].port
    /\ ~NamesPort(p, x) => m.caps[x].port = PortOf(c, x)
    /\ m.caps[x].sound = IF x \in DOMAIN p.caps /\ "sound" \in DOMAIN p.caps[x]
                         THEN p.caps[x].sound ELSE SoundOf(c, x)

LEMMA DraftCaps ==
  ASSUME NEW c, IsConfig(c), NEW p \in Payload, NEW m, m = Draft(c, p)
  PROVE  /\ Merged(m) /\ DOMAIN m.caps = DOMAIN c.caps \cup DOMAIN p.caps
         /\ \A x \in DOMAIN m.caps : DraftAt(m, c, p, x)
  <1> DEFINE caps == MergedAll(c.caps, p.caps, EmptyCap)
             old(x) == IF x \in DOMAIN c.caps THEN c.caps[x] ELSE EmptyCap
  <1>1. m.caps = caps
    BY DEF Draft
  <1>2. /\ DOMAIN caps = DOMAIN c.caps \cup DOMAIN p.caps /\ DOMAIN caps \subseteq Capability
        /\ \A x \in DOMAIN caps : caps[x] = IF x \in DOMAIN p.caps THEN Updated(old(x), p.caps[x]) ELSE old(x)
    BY PayloadAssumption DEF MergedAll, IsConfig, IsPartial
  <1> HIDE DEF caps
  <1>3. ASSUME NEW x \in DOMAIN caps
        PROVE  /\ caps[x] = [sound |-> caps[x].sound, port |-> caps[x].port]
               /\ caps[x].port = IF NamesPort(p, x) THEN p.caps[x].port ELSE old(x).port
               /\ caps[x].sound = IF x \in DOMAIN p.caps /\ "sound" \in DOMAIN p.caps[x]
                                  THEN p.caps[x].sound ELSE old(x).sound
    <2>1. old(x) = [sound |-> old(x).sound, port |-> old(x).port]
      BY DEF EmptyCap, Cap, IsConfig, IsPartial
    <2> HIDE DEF old
    <2>2. DOMAIN old(x) = {"sound", "port"}
      BY <2>1
    <2> QED
      BY <1>2, <2>1, <2>2 DEF Updated, NamesPort
  <1>4. \A x \in DOMAIN caps : old(x).port \in Nat /\ old(x).port = PortOf(c, x)
    BY PolicyAssumption DEF EmptyCap, Cap, IsConfig, IsPartial, PortOf
  <1>5. \A x \in DOMAIN caps : old(x).sound = SoundOf(c, x) /\ old(x).sound \in BOOLEAN
    BY DEF EmptyCap, Cap, IsConfig, IsPartial, SoundOf
  <1>7. \A x \in DOMAIN caps : x \in DOMAIN p.caps /\ "sound" \in DOMAIN p.caps[x] => p.caps[x].sound \in BOOLEAN
    BY PayloadAssumption
  <1>6. \A x \in DOMAIN caps : NamesPort(p, x) => p.caps[x].port \in Nat
    BY PayloadAssumption DEF NamesPort
  <1> HIDE DEF old
  <1> QED
    <2>1. ASSUME NEW x \in DOMAIN m.caps PROVE DraftAt(m, c, p, x)
      BY <1>1, <1>3, <1>4, <1>5, <1>6, <1>7 DEF DraftAt
    <2>2. Merged(m)
      BY <1>1, <1>2, <2>1 DEF Merged, DraftAt
    <2> QED
      BY <1>1, <1>2, <2>1, <2>2

LEMMA BuiltPorts ==
  ASSUME NEW c, NEW p, NEW m, m = Draft(c, p), NEW N, N = Needy(m, p)
  PROVE     /\ N \subseteq DOMAIN m.caps
            /\ Built(c, p) = [rules |-> m.rules, keys |-> c.keys, providers |-> c.providers,
                  caps |-> [x \in DOMAIN m.caps |->
                     IF x \in N THEN [m.caps[x] EXCEPT !.port = Given(FreePorts(m), N, x)] ELSE m.caps[x]]]
            /\ m = [rules |-> m.rules, caps |-> m.caps, keys |-> c.keys, providers |-> c.providers]
  <1>1. m = [rules |-> m.rules, caps |-> m.caps, keys |-> c.keys, providers |-> c.providers]
    BY DEF Draft
  <1>2. Built(c, p) = Allocated(m, p)
    BY DEF Draft, Built
  <1>3. N \subseteq DOMAIN m.caps
    BY DEF Needy
  <1>4. Allocated(m, p) = [m EXCEPT !.caps = [x \in DOMAIN m.caps |->
            IF x \in N THEN [m.caps[x] EXCEPT !.port = Given(FreePorts(m), N, x)] ELSE m.caps[x]]]
    BY DEF Allocated
  <1> QED
    BY <1>1, <1>2, <1>3, <1>4

\* A port that is given is in use nowhere else in the file it is saved with.
LEMMA GivenApart ==
  ASSUME NEW c, IsConfig(c), NEW p \in Payload, Accepted(c, p), NEW x, NEW y,
         x \in DOMAIN Built(c, p).caps, y \in DOMAIN Built(c, p).caps, x # y,
         ~NamesPort(p, x), PortOf(c, x) = 0,
         Built(c, p).caps[x].port # 0
  PROVE  Built(c, p).caps[y].port # Built(c, p).caps[x].port
  <1> DEFINE m == Draft(c, p)
             N == Needy(m, p)
             given(z) == Given(FreePorts(m), N, z)
             d == Built(c, p)
  <1>0. m = Draft(c, p) /\ N = Needy(m, p) /\ d = Built(c, p)
    OBVIOUS
  <1> HIDE DEF m, N, d
  <1>1. /\ N \subseteq DOMAIN m.caps /\ DOMAIN d.caps = DOMAIN m.caps
        /\ \A z \in DOMAIN m.caps :
              d.caps[z] = IF z \in N THEN [m.caps[z] EXCEPT !.port = given(z)] ELSE m.caps[z]
    BY <1>0, BuiltPorts
  <1>2. Merged(m) /\ m.caps[x].port = 0 /\ \A z \in DOMAIN m.caps : DraftAt(m, c, p, z)
    <2>1. Merged(m) /\ \A z \in DOMAIN m.caps : DraftAt(m, c, p, z)
      BY <1>0, DraftCaps
    <2>2. x \in DOMAIN m.caps
      BY <1>0, <1>1
    <2> QED
      BY <2>1, <2>2 DEF DraftAt
  <1>3. \A z \in DOMAIN m.caps : d.caps[z].port = IF z \in N THEN given(z) ELSE m.caps[z].port
    BY <1>1, <1>2 DEF DraftAt
  <1>4. x \in N /\ d.caps[x].port = given(x)
    BY <1>0, <1>1, <1>2, <1>3
  <1>5. given(x) \in FreePorts(m)
    BY <1>1, <1>2, <1>4, GivenFree
  <1>6. CASE y \in N
    <2>1. given(x) # given(y)
      BY <1>1, <1>2, <1>4, <1>6, GivenOnce
    <2> QED
      BY <1>1, <1>3, <1>4, <1>6, <2>1 DEF d
  <1>7. CASE y \notin N
    <2>1. y \in DOMAIN m.caps /\ d.caps[y].port = m.caps[y].port
      BY <1>1, <1>3, <1>7 DEF d
    <2>2. m.caps[y].port = 0 \/ m.caps[y].port \in Used(m)
      BY <2>1 DEF Used
    <2>3. given(x) \notin Used(m) /\ given(x) # 0
      BY <1>2, <1>5, Spare DEF FreePorts
    <2> QED
      BY <1>4, <2>1, <2>2, <2>3 DEF d
  <1> QED
    BY <1>6, <1>7

\* A port the allocator gives is nobody else's in the file that is saved, whoever
\* declared theirs and whatever the other edits.  (core/policy_ports.py:18)
THEOREM PortsApartHolds == Spec => PortsApart
  <1> DEFINE Apart(e) == \A x \in DOMAIN config'.caps :
              LET given == ~Names(e, x) /\ config'.caps[x].port # 0
                              /\ (x \in DOMAIN copy[e].caps => copy[e].caps[x].port = 0)
              IN given => \A y \in DOMAIN config'.caps \ {x} :
                            config'.caps[y].port # config'.caps[x].port
  <1>1. Places /\ Configs /\ [Next]_vars => Places' /\ Configs'
    BY PlacesStep, ConfigsStep
  <1>2. Configs => [\A e \in Editor : EditSave(e) => Apart(e)]_config
    <2> SUFFICES ASSUME Configs, NEW e \in Editor, EditSave(e) PROVE Apart(e)
      OBVIOUS
    <2>1. IsConfig(copy[e])
      BY DEF EditSave, Configs, Good
    <2>2. CASE e \in [op : {"apply"}, payload : Payload]
      <3>1. /\ e.payload \in Payload /\ Accepted(copy[e], e.payload)
            /\ config' = Built(copy[e], e.payload) /\ e.op = "apply"
        BY <2>2 DEF EditSave, Edited
      <3>2. \A x : Names(e, x) <=> NamesPort(e.payload, x)
        BY <3>1 DEF Names, NamesPort
      <3>3. \A x : PortOf(copy[e], x) = 0 <=> (x \in DOMAIN copy[e].caps => copy[e].caps[x].port = 0)
        BY DEF PortOf
      <3> QED
        BY <2>1, <3>1, <3>2, <3>3, GivenApart
    <2>3. CASE e \in [op : {"setup"}, setup : Setups]
      BY <2>3 DEF EditSave, Edited, WithProvider
    <2> QED
      BY <2>2, <2>3
  <1> QED
    BY <1>1, <1>2, ConfigsInit, PTL DEF Spec, PortsApart

LEMMA UpdatedTwice ==
  \A old, fields : Updated(Updated(old, fields), fields) = Updated(old, fields)
  BY DEF Updated

LEMMA RulesTwice ==
  ASSUME NEW c, NEW p, NEW d, d.rules = Draft(c, p).rules
  PROVE  Draft(d, p).rules = d.rules
  <1> DEFINE rules == MergedAll(c.rules, p.rules, EmptyRule)
             again == MergedAll(rules, p.rules, EmptyRule)
             old(n) == IF n \in DOMAIN c.rules THEN c.rules[n] ELSE EmptyRule
  <1>1. d.rules = rules /\ Draft(d, p).rules = again
    BY DEF Draft
  <1>2. /\ rules = [n \in DOMAIN c.rules \cup DOMAIN p.rules |->
                        IF n \in DOMAIN p.rules THEN Updated(old(n), p.rules[n]) ELSE c.rules[n]]
        /\ again = [n \in DOMAIN rules \cup DOMAIN p.rules |->
                        IF n \in DOMAIN p.rules
                        THEN Updated(IF n \in DOMAIN rules THEN rules[n] ELSE EmptyRule, p.rules[n])
                        ELSE rules[n]]
    BY DEF MergedAll
  <1> HIDE DEF rules, again, old
  <1>3. DOMAIN again = DOMAIN rules /\ DOMAIN p.rules \subseteq DOMAIN rules
    BY <1>2
  <1>4. ASSUME NEW n \in DOMAIN rules PROVE again[n] = rules[n]
    <2>1. CASE n \in DOMAIN p.rules
      <3>1. again[n] = Updated(rules[n], p.rules[n]) /\ rules[n] = Updated(old(n), p.rules[n])
        BY <1>2, <1>4, <2>1
      <3> QED
        BY <3>1, UpdatedTwice
    <2>2. CASE n \notin DOMAIN p.rules
      BY <1>2, <1>4, <2>2
    <2> QED
      BY <2>1, <2>2
  <1>5. rules = [n \in DOMAIN rules |-> rules[n]] /\ again = [n \in DOMAIN again |-> again[n]]
    BY <1>2
  <1> QED
    BY <1>1, <1>3, <1>4, <1>5

\* Only names that were needy are needy again, and those that are not keep their port:
\* so the same ports are given again.
LEMMA BuiltTwice ==
  ASSUME NEW c, Good(c), NEW p \in Payload, Accepted(c, p), NEW d, d = Built(c, p)
  PROVE  Accepted(d, p) /\ Built(d, p) = d
  <1> DEFINE m == Draft(c, p)
             N == Needy(m, p)
             k == Draft(d, p)
             M == Needy(k, p)
             given(z) == Given(FreePorts(m), N, z)
  <1>0. m = Draft(c, p) /\ N = Needy(m, p) /\ k = Draft(d, p) /\ M = Needy(k, p)
    OBVIOUS
  <1>1. IsConfig(c) /\ IsConfig(d) /\ d.keys = c.keys
    BY BuiltGood DEF Good
  <1>2. /\ N \subseteq DOMAIN m.caps
        /\ d = [rules |-> m.rules, keys |-> c.keys, providers |-> c.providers,
                caps |-> [x \in DOMAIN m.caps |->
                   IF x \in N THEN [m.caps[x] EXCEPT !.port = given(x)] ELSE m.caps[x]]]
    BY BuiltPorts
  <1>3. /\ M \subseteq DOMAIN k.caps
        /\ Built(d, p) = [rules |-> k.rules, keys |-> d.keys, providers |-> d.providers,
                caps |-> [x \in DOMAIN k.caps |->
                   IF x \in M THEN [k.caps[x] EXCEPT !.port = Given(FreePorts(k), M, x)] ELSE k.caps[x]]]
    BY BuiltPorts
  <1>4. d.rules = m.rules /\ k.rules = m.rules
    BY <1>2, RulesTwice
  <1> HIDE DEF m, k, N, M
  <1>5. Merged(m) /\ DOMAIN m.caps = DOMAIN c.caps \cup DOMAIN p.caps
        /\ \A x \in DOMAIN m.caps : DraftAt(m, c, p, x)
    BY <1>0, <1>1, DraftCaps
  <1>6. Merged(k) /\ DOMAIN k.caps = DOMAIN d.caps \cup DOMAIN p.caps
        /\ \A x \in DOMAIN k.caps : DraftAt(k, d, p, x)
    BY <1>0, <1>1, DraftCaps
  <1>7. DOMAIN d.caps = DOMAIN m.caps /\ DOMAIN k.caps = DOMAIN m.caps
    BY <1>2, <1>5, <1>6
  <1>8. \A x \in DOMAIN m.caps :
          /\ d.caps[x] = [sound |-> d.caps[x].sound, port |-> d.caps[x].port]
          /\ d.caps[x].sound = m.caps[x].sound
          /\ x \in N => d.caps[x].port = given(x)
          /\ x \notin N => d.caps[x].port = m.caps[x].port
    <2> TAKE x \in DOMAIN m.caps
    <2>1. DraftAt(m, c, p, x)
      BY <1>5
    <2>2. d.caps[x] = IF x \in N THEN [m.caps[x] EXCEPT !.port = given(x)] ELSE m.caps[x]
      BY <1>2
    <2> HIDE DEF given
    <2> QED
      BY <2>1, <2>2 DEF DraftAt
  <1> HIDE DEF given
  <1>9. \A x \in DOMAIN m.caps :
          /\ k.caps[x] = [sound |-> k.caps[x].sound, port |-> k.caps[x].port]
          /\ k.caps[x].sound = m.caps[x].sound
          /\ NamesPort(p, x) => k.caps[x].port = m.caps[x].port
          /\ ~NamesPort(p, x) => k.caps[x].port = d.caps[x].port
    <2> TAKE x \in DOMAIN m.caps
    <2>1. DraftAt(m, c, p, x) /\ DraftAt(k, d, p, x)
      BY <1>5, <1>6, <1>7
    <2>2. SoundOf(d, x) = m.caps[x].sound /\ PortOf(d, x) = d.caps[x].port
      <3>1. x \in DOMAIN d.caps /\ d.caps[x].sound = m.caps[x].sound
        BY <1>7, <1>8
      <3> QED
        BY <3>1 DEF SoundOf, PortOf
    <2>3. k.caps[x].sound = m.caps[x].sound
      BY <2>1, <2>2 DEF DraftAt
    <2> QED
      BY <2>1, <2>2, <2>3 DEF DraftAt
  <1>10. /\ N = {x \in (Referenced(m) \cup DOMAIN p.caps) \cap DOMAIN m.caps : m.caps[x].port = 0}
         /\ M = {x \in (Referenced(m) \cup DOMAIN p.caps) \cap DOMAIN m.caps : k.caps[x].port = 0}
    BY <1>0, <1>4, <1>7 DEF Needy, Referenced
  <1>11. \A x \in N : given(x) \in FreePorts(m) /\ given(x) # 0
    BY <1>2, <1>5, GivenFree, Spare DEF given
  <1>12. /\ M \subseteq N
         /\ \A x \in DOMAIN m.caps :
               /\ (x \in M) => k.caps[x].port = 0
               /\ (x \in N \ M) => k.caps[x].port = given(x)
               /\ (x \notin N) => k.caps[x].port = m.caps[x].port
    <2>1. ASSUME NEW x \in DOMAIN m.caps
          PROVE  /\ x \in M => x \in N /\ k.caps[x].port = 0
                 /\ x \in N \ M => k.caps[x].port = given(x)
                 /\ x \notin N => k.caps[x].port = m.caps[x].port
      <3>1. /\ x \in N => d.caps[x].port = given(x)
            /\ x \notin N => d.caps[x].port = m.caps[x].port
            /\ NamesPort(p, x) => k.caps[x].port = m.caps[x].port
            /\ ~NamesPort(p, x) => k.caps[x].port = d.caps[x].port
        BY <1>8, <1>9, <2>1
      <3>2. /\ x \in N => m.caps[x].port = 0
            /\ x \in M <=> x \in Referenced(m) \cup DOMAIN p.caps /\ k.caps[x].port = 0
            /\ x \in Referenced(m) \cup DOMAIN p.caps /\ m.caps[x].port = 0 => x \in N
            /\ x \in N => x \in Referenced(m) \cup DOMAIN p.caps
        BY <1>10, <2>1
      <3> QED
        BY <3>1, <3>2
    <2> QED
      BY <1>10, <2>1
  <1>14. \A q : q \in FreePorts(k) <=> q \in FreePorts(m) /\ ~\E y \in N \ M : q = given(y)
    <2>1. \A x \in N : m.caps[x].port = 0
      BY <1>10
    <2>2. ASSUME NEW q PROVE q \in Used(k) <=> q \in Used(m) \/ \E y \in N \ M : q = given(y)
      <3>1. q \in Used(k) <=> q # 0 /\ \E x \in DOMAIN m.caps : q = k.caps[x].port
        BY <1>7 DEF Used
      <3>2. q \in Used(m) <=> q # 0 /\ \E x \in DOMAIN m.caps : q = m.caps[x].port
        BY DEF Used
      <3>3. ASSUME q # 0, NEW x \in DOMAIN m.caps, q = k.caps[x].port
            PROVE  q \in Used(m) \/ \E y \in N \ M : q = given(y)
        <4>1. CASE x \in N
          <5>1. x \in N \ M
            BY <1>12, <3>3, <4>1
          <5>2. k.caps[x].port = given(x)
            BY <1>12, <5>1
          <5> QED
            BY <3>3, <5>1, <5>2
        <4>2. CASE x \notin N
          <5>1. k.caps[x].port = m.caps[x].port
            BY <1>12, <4>2
          <5> QED
            BY <3>2, <3>3, <5>1
        <4> QED
          BY <4>1, <4>2
      <3>4. ASSUME q # 0, NEW x \in DOMAIN m.caps, q = m.caps[x].port PROVE q \in Used(k)
        <4>1. x \notin N
          BY <2>1, <3>4
        <4>2. k.caps[x].port = m.caps[x].port
          BY <1>12, <4>1
        <4> QED
          BY <3>1, <3>4, <4>2
      <3>5. ASSUME NEW y \in N \ M, q = given(y) PROVE q \in Used(k)
        <4>1. y \in DOMAIN m.caps /\ given(y) # 0
          BY <1>2, <1>11
        <4>2. k.caps[y].port = given(y)
          BY <1>12, <4>1
        <4> QED
          BY <3>1, <3>5, <4>1, <4>2
      <3> QED
        BY <3>1, <3>2, <3>3, <3>4, <3>5
    <2> QED
      BY <2>2 DEF FreePorts
  <1>15. \A x \in M : Given(FreePorts(k), M, x) = given(x)
    <2>1. ASSUME NEW x \in M PROVE Given(FreePorts(k), M, x) = given(x)
      <3>1. N \in SUBSET DOMAIN m.caps /\ M \in SUBSET N /\ M \subseteq DOMAIN k.caps
        BY <1>2, <1>7, <1>12
      <3>2. \A q : q \in FreePorts(k) <=>
                q \in FreePorts(m) /\ ~\E y \in N \ M : q = Given(FreePorts(m), N, y)
        BY <1>14 DEF given
      <3>3. Merged(m) /\ Merged(k)
        BY <1>5, <1>6
      <3>4. Given(FreePorts(k), M, x) = Given(FreePorts(m), N, x)
        BY <3>1, <3>2, <3>3, GivenAgain
      <3> QED
        BY <3>4 DEF given
    <2> QED
      BY <2>1
  <1>16. Built(d, p).caps = d.caps
    <2>1. ASSUME NEW x \in DOMAIN m.caps PROVE Built(d, p).caps[x] = d.caps[x]
      <3>1. Built(d, p).caps[x] = IF x \in M THEN [k.caps[x] EXCEPT !.port = given(x)] ELSE k.caps[x]
        BY <1>3, <1>7, <1>15, <2>1
      <3>2. /\ d.caps[x] = [sound |-> m.caps[x].sound, port |-> d.caps[x].port]
            /\ k.caps[x] = [sound |-> m.caps[x].sound, port |-> k.caps[x].port]
        BY <1>8, <1>9, <2>1
      <3>3. x \in M => d.caps[x].port = given(x)
        BY <1>8, <1>12, <2>1
      <3>4. x \notin M => d.caps[x].port = k.caps[x].port
        <4>1. CASE x \in N
          BY <1>8, <1>12, <2>1, <4>1
        <4>2. CASE x \notin N
          BY <1>8, <1>12, <2>1, <4>2
        <4> QED
          BY <4>1, <4>2
      <3> QED
        BY <3>1, <3>2, <3>3, <3>4
    <2>2. DOMAIN Built(d, p).caps = DOMAIN m.caps /\ Built(d, p).caps = [x \in DOMAIN m.caps |-> Built(d, p).caps[x]]
      BY <1>3, <1>7
    <2>3. d.caps = [x \in DOMAIN m.caps |-> d.caps[x]]
      BY <1>2
    <2> QED
      BY <2>1, <2>2, <2>3
  <1>17. Built(d, p) = d
    <2>1. Built(d, p) = [rules |-> Built(d, p).rules, keys |-> Built(d, p).keys,
                         providers |-> Built(d, p).providers, caps |-> Built(d, p).caps]
      BY <1>3
    <2>2. d = [rules |-> d.rules, keys |-> d.keys, providers |-> d.providers, caps |-> d.caps]
      BY <1>2
    <2>3. Built(d, p).rules = d.rules /\ Built(d, p).keys = d.keys /\ Built(d, p).providers = d.providers
      BY <1>3, <1>4
    <2> QED
      BY <1>16, <2>1, <2>2, <2>3
  <1> QED
    BY <1>17 DEF Accepted

\* Applying a payload again is accepted and changes nothing: only names whose port the
\* payload takes back are needy again, and each is given the port it had.
\* (tests/test_policy_mutation.py:13)
THEOREM SettledHolds == Spec => Settled
  <1>1. Places /\ Configs /\ [Next]_vars => Places' /\ Configs'
    BY PlacesStep, ConfigsStep
  <1>2. Configs => [\A e \in Editor : EditSave(e) /\ e.op = "apply" =>
                        Accepted(config', e.payload) /\ Built(config', e.payload) = config']_config
    <2> SUFFICES ASSUME Configs, NEW e \in Editor, EditSave(e), e.op = "apply"
                 PROVE  Accepted(config', e.payload) /\ Built(config', e.payload) = config'
      OBVIOUS
    <2>1. e.payload \in Payload
      OBVIOUS
    <2>2. /\ Good(copy[e]) /\ Accepted(copy[e], e.payload) /\ config' = Built(copy[e], e.payload)
      BY DEF EditSave, Edited, Configs
    <2> QED
      BY <2>1, <2>2, BuiltTwice
  <1> QED
    BY <1>1, <1>2, ConfigsInit, PTL DEF Spec, Settled
-----------------------------------------------------------------------------
(* Base URLs.                                                              *)

LEMMA PrefixAt ==
  ASSUME NEW s \in Seq(Segment), NEW t \in Seq(Segment)
  PROVE  IsPrefix(s, t) <=> Len(s) <= Len(t) /\ \A i \in 1 .. Len(s) : s[i] = t[i]
  <1>1. SubSeq(s, 1, Len(s)) = s
    OBVIOUS
  <1>2. ASSUME Len(s) <= Len(t)
        PROVE  /\ SubSeq(t, 1, Len(s)) \in Seq(Segment) /\ Len(SubSeq(t, 1, Len(s))) = Len(s)
               /\ \A i \in 1 .. Len(s) : SubSeq(t, 1, Len(s))[i] = t[i]
    BY <1>2, SubSeqProperties
  <1>3. ASSUME Len(s) <= Len(t), \A i \in 1 .. Len(s) : s[i] = t[i]
        PROVE  SubSeq(t, 1, Len(s)) = s
    BY <1>2, <1>3, SeqEqual
  <1> QED
    BY <1>1, <1>2, <1>3 DEF IsPrefix

\* What is left of a path when its slashes are taken off is a path, and the path itself
\* if it begins with no slash.
LEMMA StrippedPath ==
  ASSUME NEW t \in Seq(Segment)
  PROVE  Stripped(t) \in Seq(Segment) /\ (t # <<>> /\ t[1] # Empty => Stripped(t) = t)
  <1> DEFINE at == {i \in DOMAIN t : t[i] # Empty}
             first == CHOOSE i \in at : \A j \in at : i <= j
  <1>1. CASE at # {}
    <2>1. at \in SUBSET Nat
      OBVIOUS
    <2>2. first \in at /\ \A j \in at : first <= j
      BY <1>1, <2>1, Least DEF first
    <2>3. Stripped(t) = SubSeq(t, first, Len(t))
      BY <1>1 DEF Stripped
    <2>4. first \in 1 .. Len(t)
      BY <2>2 DEF at
    <2>5. Stripped(t) \in Seq(Segment)
      <3>1. \A i \in first .. Len(t) : t[i] \in Segment
        BY <2>4
      <3> HIDE DEF first
      <3>2. SubSeq(t, first, Len(t)) \in Seq(Segment)
        BY <2>4, <3>1, SubSeqProperties
      <3> QED
        BY <2>3, <3>2
    <2>6. ASSUME t # <<>>, t[1] # Empty PROVE first = 1
      BY <2>2, <2>4, <2>6 DEF at
    <2> QED
      BY <2>3, <2>5, <2>6, SubSeqFull
  <1>2. CASE at = {}
    BY <1>2 DEF Stripped
  <1> QED
    BY <1>1, <1>2

LEMMA BasePaths ==
  ASSUME NEW c, Good(c), NEW p \in DOMAIN c.providers
  PROVE  /\ c.providers[p].path \in Seq(Segment) /\ c.providers[p].allow \in Seq(Seq(Segment))
         /\ LET s == c.providers[p]
                 tail == IF s.allow = <<>> THEN <<>> ELSE Stripped(s.allow[1])
            IN tail \in Seq(Segment) /\ BasePath(s) = s.path \o tail
  <1> DEFINE s == c.providers[p]
  <1>1. s \in Setup
    BY DEF Good, IsConfig, IsPartial
  <1> HIDE DEF s
  <1>2. s.path \in Seq(Segment) /\ s.allow \in Seq(Seq(Segment))
    BY <1>1 DEF Setup
  <1>3. CASE s.allow = <<>>
    BY <1>2, <1>3, ConcatEmptySeq DEF BasePath, s
  <1>4. CASE s.allow # <<>>
    <2>1. s.allow[1] \in Seq(Segment)
      BY <1>2, <1>4
    <2> QED
      BY <1>2, <1>4, <2>1, StrippedPath DEF BasePath, s
  <1> QED
    BY <1>3, <1>4

\* No other provider's path begins the base path of one, since none begins another.
LEMMA BaseRouted ==
  ASSUME NEW c, Loaded(c), NEW p \in DOMAIN c.providers
  PROVE  RouteTo(c, BasePath(c.providers[p]), p)
  <1> DEFINE own == c.providers[p].path
             base == BasePath(c.providers[p])
  <1>0. Good(c)
    BY DEF Loaded
  <1>1. PICK tail \in Seq(Segment) : base = own \o tail
    BY <1>0, BasePaths
  <1>2. own \in Seq(Segment) /\ base \in Seq(Segment)
    <2>1. own \in Seq(Segment)
      BY <1>0, BasePaths
    <2> QED
      BY <1>1, <2>1, ConcatProperties
  <1> HIDE DEF base
  <1>3. Len(own) <= Len(base) /\ \A i \in 1 .. Len(own) : own[i] = base[i]
    BY <1>1, <1>2
  <1>4. IsPrefix(own, base)
    BY <1>2, <1>3, PrefixAt
  <1>5. ASSUME NEW q \in DOMAIN c.providers, IsPrefix(c.providers[q].path, base)
        PROVE  Len(c.providers[q].path) <= Len(own)
    <2> DEFINE other == c.providers[q].path
    <2>1. other \in Seq(Segment)
      BY <1>0, BasePaths
    <2> HIDE DEF own, other
    <2> SUFFICES ASSUME Len(own) < Len(other) PROVE FALSE
      BY <1>2, <2>1 DEF other
    <2>2. Len(other) <= Len(base) /\ \A i \in 1 .. Len(other) : other[i] = base[i]
      BY <1>2, <1>5, <2>1, PrefixAt DEF other
    <2>3. IsPrefix(own, other)
      BY <1>2, <1>3, <2>1, <2>2, PrefixAt
    <2>4. p # q
      BY DEF own, other
    <2> QED
      BY <2>3, <2>4 DEF Loaded, Loads, PathsApart, own, other
  <1> QED
    BY <1>4, <1>5 DEF RouteTo, base

\* After its local path, the base path of a provider has its first allowed path.
LEMMA BaseAllowed ==
  ASSUME NEW c, Good(c), NEW p \in DOMAIN c.providers, NEW s, s = c.providers[p],
         \/ s.allow = <<>>
         \/ Stripped(s.allow[1]) = s.allow[1] /\ \A i \in DOMAIN s.allow[1] : s.allow[1][i] \notin Unsafe
  PROVE  PathAllowed(s, Rest(s, BasePath(s)))
  <1> DEFINE tail == IF s.allow = <<>> THEN <<>> ELSE Stripped(s.allow[1])
  <1>1. /\ s.path \in Seq(Segment) /\ s.allow \in Seq(Seq(Segment))
        /\ tail \in Seq(Segment) /\ BasePath(s) = s.path \o tail
    BY BasePaths
  <1>2. ASSUME s.allow # <<>> PROVE tail = s.allow[1] /\ 1 \in DOMAIN s.allow
    <2>1. s.allow \in Seq(Seq(Segment))
      BY <1>1
    <2>2. 1 \in DOMAIN s.allow
      BY <1>2, <2>1
    <2>3. Stripped(s.allow[1]) = s.allow[1]
      BY <1>2
    <2> QED
      BY <1>2, <2>2, <2>3
  <1>3. \A i \in DOMAIN tail : tail[i] \notin Unsafe
    BY <1>2
  <1>4. Stripped(tail) = tail
    <2>1. {i \in DOMAIN <<>> : <<>>[i] # Empty} = {}
      OBVIOUS
    <2>2. Stripped(<<>>) = <<>>
      BY <2>1 DEF Stripped
    <2>3. s.allow = <<>> => tail = <<>>
      OBVIOUS
    <2> QED
      BY <1>2, <2>2, <2>3
  <1> HIDE DEF tail
  <1>5. SubSeq(BasePath(s), Len(s.path) + 1, Len(BasePath(s))) = tail
    <2> DEFINE base == s.path \o tail
               rest == SubSeq(base, Len(s.path) + 1, Len(base))
    <2>1. /\ base \in Seq(Segment) /\ Len(base) = Len(s.path) + Len(tail)
          /\ \A i \in 1 .. Len(tail) : base[Len(s.path) + i] = tail[i]
      BY <1>1, ConcatProperties
    <2> HIDE DEF base
    <2>2. \A i \in Len(s.path) + 1 .. Len(base) : base[i] \in Segment
      BY <1>1, <2>1
    <2>3. Len(s.path) \in Nat /\ Len(tail) \in Nat
      BY <1>1
    <2>4. /\ rest \in Seq(Segment) /\ Len(rest) = Len(tail)
          /\ \A i \in 1 .. Len(tail) : rest[i] = base[Len(s.path) + i]
      BY <2>1, <2>2, <2>3, SubSeqProperties
    <2> HIDE DEF rest
    <2>5. rest = tail
      BY <1>1, <2>1, <2>4, SeqEqual
    <2> QED
      BY <1>1, <2>5 DEF rest, base
  <1>6. Rest(s, BasePath(s)) = tail
    BY <1>4, <1>5 DEF Rest
  <1>7. IsPrefix(tail, tail)
    BY <1>1, PrefixAt
  <1> QED
    BY <1>2, <1>3, <1>6, <1>7 DEF PathAllowed

\* The base URL an agent is given reaches its provider and is not refused by the gateway,
\* overlapping edits included: the file an agent's gateway is made from has loaded.
\* (gateway/proxy.py:371)
THEOREM BaseUrlServedHolds == Spec => []BaseUrlServed
  <1>1. Places /\ Configs /\ [Next]_vars => Places' /\ Configs'
    BY PlacesStep, ConfigsStep
  <1>2. Configs => BaseUrlServed
    BY BaseRouted, BaseAllowed DEF Configs, Loaded, BaseUrlServed
  <1> QED
    BY <1>1, <1>2, ConfigsInit, PTL DEF Spec
=============================================================================
