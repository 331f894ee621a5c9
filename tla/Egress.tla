------------------------------- MODULE Egress -------------------------------
(***************************************************************************)
(* Where real secrets may leave to.  Commands edit agentsecure.json, each  *)
(* loading the whole file and later replacing it, with no lock; servers    *)
(* decide by the copy they loaded when they started.  A server is          *)
(*   - the gateway of an `agentsecure run`, for the life of the run, or    *)
(*   - one agentsecure.http.request of the MCP server.                     *)
(* A server loads the file twice: to bind the aliases assigned to the      *)
(* project, and once more to build its Container.  Its requests name a     *)
(* virtual token or a ${NAME}; the destination is checked first and the    *)
(* token is resolved later, against the grants as they are by then.        *)
(*                                                                         *)
(* How grants are stored and raced for is module SecretGrants; here a      *)
(* token is live or not.  A secret is named by its key or alias.           *)
(***************************************************************************)
EXTENDS Naturals, Sequences, FiniteSets

CONSTANTS
    Host, Port,
    Forbidden,     \* hosts in deny_domains and IP literals
    Private,       \* hosts that resolve to private addresses, or not at all
    Name,          \* environment variable names
    Alias, Key,    \* vault aliases; keys of the project
    NameOf,        \* [Alias \cup Key -> Name]: env_name
    Fits,          \* aliases and keys whose env_name and provider are the proxied provider's
    InitialConfig, \* agentsecure.json when the behaviour starts
    InitialHosts,  \* [Alias -> SUBSET Host]: approved_hosts in aliases.json by then
    Editor,        \* the editing commands that may run, each once and in any order
    Gateway,       \* gateways
    McpRequest,    \* agentsecure.http.request calls
    Overlap,       \* may two editors be between load and save?
    MaxRequests,   \* bound on the requests of one gateway
    MaxEdits,      \* bound on the commands that run
    None           \* no key, token, host, port, alias list or configuration

Server == Gateway \cup McpRequest
Mode == {"virtualize", "broker", "deny"}
Secret == Alias \cup Key
\* virt_... tokens: <<server, alias>> of a run, <<None, key>> of the project.
Token == (Server \X Alias) \cup ({None} \X Key)

\* The fields of agentsecure.json that decide about secrets.
Config == [allow : SUBSET Host, ports : SUBSET Port,     \* network
           mode : [Name -> Mode], rule : [Name -> SUBSET Host], \* env_policy, its approved_hosts
           hosts : [Alias -> {None} \cup SUBSET Host], \* approved_hosts under secret_aliases
           keys : Seq(Key),                              \* secrets
           upstream : {None} \cup (Host \X Port)]       \* provider_proxy

Command == [op : {"allow"}, host : Host, port : {None} \cup Port]
    \cup [op : {"remove"}, host : Host]
    \cup [op : {"use"}, alias : Alias]
    \cup [op : {"add"}, alias : Alias, hosts : SUBSET Host]
    \cup [op : {"policy"}, name : Name, mode : Mode, hosts : SUBSET Host]
    \cup [op : {"key"}, key : Key]
    \cup [op : {"proxy"}, name : Name, host : Host, port : Port]

ASSUME EgressAssumption ==
    /\ Gateway \cap McpRequest = {} /\ None \notin Server \cup Secret \cup Host \cup Port
    /\ Alias \cap Key = {} /\ NameOf \in [Secret -> Name] /\ Fits \subseteq Secret
    /\ InitialConfig \in Config /\ InitialHosts \in [Alias -> SUBSET Host]
    /\ Editor \subseteq Command
    /\ Overlap \in BOOLEAN /\ MaxRequests \in Nat /\ MaxEdits \in Nat
    /\ \A H \in SUBSET Host : H # None

VARIABLES
    config,   \* agentsecure.json
    stored,   \* approved_hosts of each alias in aliases.json
    live,     \* tokens whose grant is active and has not expired
    epc,      \* where each editor is
    copy,     \* what an editor loaded
    spc,      \* where each server is
    bound,    \* the aliases a server bound, with the hosts approved for them
    conf,     \* the configuration of a server's Container
    req,      \* the request a server is at
    count,    \* requests a gateway took
    sent,     \* history: secrets that left, and where to
    shown,    \* history: secrets seen in the answers given to agents
    removed,  \* history: hosts whose removal no later command took back
    gone      \* history: `removed` when the server loaded its configuration

edits == <<config, stored, epc, copy, removed>>
vars == <<config, stored, live, epc, copy, spc, bound, conf, req, count, sent, shown, removed, gone>>

Unbound == [a \in Alias |-> None]
\* Where a proxied request carries a credential; "elsewhere" is its body or URL.
Place == {"authorization", "header", "elsewhere"}

\* A request as a server holds it once it has passed the destination check.
\* A proxied request carries at most one token; an MCP request asks for names,
\* has `left` to resolve and holds what it resolved in `got`.
ProxyRequest == [kind : {"http"}, host : Host, port : Port,
                 token : {None} \cup Token, place : Place]
ProviderRequest == [kind : {"provider"}, host : Host, port : Port]
Asking == [kind : {"mcp"}, host : Host, port : Port,
           asked : SUBSET Name, left : SUBSET Name, got : SUBSET Token]
Request == ProxyRequest \cup ProviderRequest \cup Asking

Sent == [server : Server, tokens : SUBSET Token, asked : SUBSET Name, host : Host, port : Port]
Shown == [server : Server, own : SUBSET Secret, secrets : SUBSET Secret]

Init ==
    /\ config = InitialConfig
    /\ stored = InitialHosts
    /\ live = {<<None, InitialConfig.keys[i]>> : i \in DOMAIN InitialConfig.keys}
    /\ epc = [e \in Editor |-> "start"]
    /\ copy = [e \in Editor |-> None]
    /\ spc = [s \in Server |-> "off"]
    /\ bound = [s \in Server |-> Unbound]
    /\ conf = [s \in Server |-> None]
    /\ req = [s \in Server |-> None]
    /\ count = [g \in Gateway |-> 0]
    /\ sent = {} /\ shown = {} /\ removed = {}
    /\ gone = [s \in Server |-> {}]
-----------------------------------------------------------------------------
(* Edits.                                                                  *)

HostAllowed(c, cmd) ==
    [c EXCEPT !.allow = @ \cup {cmd.host},
              !.ports = IF cmd.port = None THEN @ ELSE @ \cup {cmd.port}]
HostRemoved(c, cmd) == [c EXCEPT !.allow = @ \ {cmd.host}]
\* Mutant: merging what the rule of the name held as well.
AssignedMerging(c, cmd) ==
    LET new == stored[cmd.alias] \cup c.rule[NameOf[cmd.alias]] IN
    [c EXCEPT !.hosts[cmd.alias] = stored[cmd.alias],
              !.rule[NameOf[cmd.alias]] = IF new = {} THEN @ ELSE new,
              !.allow = @ \cup new]
\* The list in the rule of its name is replaced, unless the alias has none.
Assigned(c, cmd) ==
    LET new == stored[cmd.alias] IN
    [c EXCEPT !.hosts[cmd.alias] = new,
              !.rule[NameOf[cmd.alias]] = IF new = {} THEN @ ELSE new,
              !.allow = @ \cup new]
RuleSet(c, cmd) == [c EXCEPT !.mode[cmd.name] = cmd.mode, !.rule[cmd.name] = cmd.hosts]
KeyListed(c, cmd) == [c EXCEPT !.keys = Append(@, cmd.key)]
\* Mutant: the upstream kept without its port.
ProviderActivatedBare(c, cmd) ==
    [c EXCEPT !.upstream = cmd.host, !.rule[cmd.name] = {cmd.host}, !.allow = @ \cup {cmd.host}]
ProviderActivated(c, cmd) ==
    [c EXCEPT !.upstream = <<cmd.host, cmd.port>>, !.rule[cmd.name] = {cmd.host}, !.allow = @ \cup {cmd.host}]

Edited(c, cmd) ==
    CASE cmd.op = "allow" -> HostAllowed(c, cmd)
      [] cmd.op = "remove" -> HostRemoved(c, cmd)
      [] cmd.op = "use" -> Assigned(c, cmd)
      [] cmd.op = "policy" -> RuleSet(c, cmd)
      [] cmd.op = "key" -> KeyListed(c, cmd)
      [] cmd.op = "proxy" -> ProviderActivated(c, cmd)

\* The hosts a command puts on the allowlist.
Allows(cmd) ==
    CASE cmd.op \in {"allow", "proxy"} -> {cmd.host}
      [] cmd.op = "use" -> stored[cmd.alias]
      [] OTHER -> {}

MayStart == Cardinality({e \in Editor : epc[e] # "start"}) < MaxEdits
\* KeyManagementService.create_key puts its grant before it loads the file.
GrantKey(e) ==
    /\ epc[e] = "start" /\ MayStart /\ e.op = "key"
    /\ live' = live \cup {<<None, e.key>>}
    /\ epc' = [epc EXCEPT ![e] = "granted"]
    /\ UNCHANGED <<config, stored, copy, removed, spc, bound, conf, req, count, sent, shown, gone>>

MayLoad == Overlap \/ \A f \in Editor : epc[f] # "loaded"

Load(e) ==
    /\ e.op # "add"
    /\ IF e.op = "key" THEN epc[e] = "granted" ELSE epc[e] = "start" /\ MayStart
    /\ MayLoad
    /\ copy' = [copy EXCEPT ![e] = config]
    /\ epc' = [epc EXCEPT ![e] = "loaded"]
    /\ UNCHANGED <<config, stored, removed, live, spc, bound, conf, req, count, sent, shown, gone>>

\* JsonConfigWriter.save: the whole file is replaced by the edited copy.
Save(e) ==
    /\ epc[e] = "loaded"
    /\ config' = Edited(copy[e], e)
    /\ removed' = IF e.op = "remove" THEN removed \cup {e.host}
                  ELSE removed \ Allows(e)
    /\ epc' = [epc EXCEPT ![e] = "done"]
    /\ copy' = [copy EXCEPT ![e] = None]
    /\ UNCHANGED <<stored, live, spc, bound, conf, req, count, sent, shown, gone>>

\* `secrets add` of an existing alias: other hosts in aliases.json, while the
\* project's assignment keeps its own list (SecretGrants has the rest of it).
AddAlias(e) ==
    /\ epc[e] = "start" /\ MayStart /\ e.op = "add"
    /\ stored' = [stored EXCEPT ![e.alias] = e.hosts]
    /\ epc' = [epc EXCEPT ![e] = "done"]
    /\ UNCHANGED <<config, copy, removed, live, spc, bound, conf, req, count, sent, shown, gone>>

\* A grant expires, or is revoked from elsewhere.
Lapse(t) ==
    /\ t \in live
    /\ live' = live \ {t}
    /\ UNCHANGED <<edits, spc, bound, conf, req, count, sent, shown, gone>>
-----------------------------------------------------------------------------
(* A server starts and stops.                                              *)

\* prepare_run_bindings on the first load: a list that is empty in the
\* project falls back to the alias's own.
Bind(s) ==
    /\ spc[s] = "off"
    /\ bound' = [bound EXCEPT ![s] = [a \in Alias |->
          IF config.hosts[a] = {} THEN stored[a] ELSE config.hosts[a]]]
    /\ live' = live \cup {<<s, a>> : a \in {b \in Alias : config.hosts[b] # None}}
    /\ spc' = [spc EXCEPT ![s] = "bound"]
    /\ UNCHANGED <<edits, conf, req, count, sent, shown, gone>>

\* Container.from_config_path: the second load.
Open(s) ==
    /\ spc[s] = "bound"
    /\ conf' = [conf EXCEPT ![s] = config]
    /\ gone' = [gone EXCEPT ![s] = removed]
    /\ spc' = [spc EXCEPT ![s] = "up"]
    /\ UNCHANGED <<edits, live, bound, req, count, sent, shown>>

\* The finally clause of run_agent revokes first and stops the gateway after.
Revoke(g) ==
    /\ spc[g] = "up"
    /\ live' = live \ ({g} \X Alias)
    /\ spc' = [spc EXCEPT ![g] = "closing"]
    /\ UNCHANGED <<edits, bound, conf, req, count, sent, shown, gone>>

Shutdown(g) ==
    /\ spc[g] = "closing"
    /\ spc' = [spc EXCEPT ![g] = "down"]
    /\ req' = [req EXCEPT ![g] = None]
    /\ UNCHANGED <<edits, live, bound, conf, count, sent, shown, gone>>

\* The finally clause of perform_http_request.
EndMcp(m) ==
    /\ spc' = [spc EXCEPT ![m] = "down"]
    /\ req' = [req EXCEPT ![m] = None]
    /\ live' = live \ ({m} \X Alias)
    /\ UNCHANGED <<edits, bound, conf, count, gone>>
-----------------------------------------------------------------------------
(* Decisions.                                                              *)

\* StrictDestinationValidator.validate.
Allowed(c, host, port, credentials) ==
    /\ port \in c.ports
    /\ host \notin Forbidden
    /\ IF host \in c.allow THEN host \notin Private ELSE ~credentials

\* Mutant: credentials looked for in the Authorization header only.
VisibleAuth(r) == r.place = "authorization"
\* _has_visible_credentials: an Authorization header, or a virt_ token anywhere.
Visible(r) == r.place = "authorization" \/ r.token # None

Listed(c) == {c.keys[i] : i \in DOMAIN c.keys}
SecretOf(t) == t[2]
\* The bindings of a server: the tokens its Container knows.
Known(s, t) ==
    \/ t[1] = s /\ bound[s][t[2]] # None
    \/ t[1] = None /\ t[2] \in Listed(conf[s])

Approved(s, t) ==
    IF bound[s][t[2]] = {} THEN conf[s].rule[NameOf[t[2]]] ELSE bound[s][t[2]]

\* Mutant: a name that is denied keeps its grants.
PolicyPermitsAnyMode(s, t, host) ==
    Known(s, t) /\ t[1] # None /\ Approved(s, t) # {} => host \in Approved(s, t)
\* PolicyAwareTokenResolver.resolve; `host` is None for a provider request.
PolicyPermits(s, t, host) == Known(s, t) =>
    /\ conf[s].mode[NameOf[t[2]]] = "virtualize"
    /\ t[1] # None /\ Approved(s, t) # {} => host \in Approved(s, t)

\* GrantAwareTokenResolver.resolve: a run's token resolves in its own server.
Resolves(s, t, host) ==
    /\ t \in live /\ t[1] \in {None, s}
    /\ PolicyPermits(s, t, host)

\* A remote host may answer with any secret it has received.
Received(log, host) == UNION {{SecretOf(t) : t \in r.tokens} : r \in {q \in log : q.host = host}}
-----------------------------------------------------------------------------
(* The gateway.  Its handlers run on threads of their own that share the   *)
(* immutable Container only, so one request at a time loses nothing.       *)

Serving(g) == spc[g] \in {"up", "closing"} /\ req[g] = None /\ count[g] < MaxRequests
Take(g, r) ==
    /\ req' = [req EXCEPT ![g] = r]
    /\ count' = [count EXCEPT ![g] = @ + 1]
    /\ UNCHANGED <<edits, live, spc, bound, conf, sent, shown, gone>>

\* _proxy_http up to the decision.  What the policy refuses, a https URL (501)
\* and a CONNECT tunnel, where nothing is injected, leave no request behind.
\* Agents know the tokens of their own run and of the project.
Proxy(g, r) ==
    /\ IF r.token = None THEN r.place # "header" ELSE r.token[1] \in {None, g}
    /\ Allowed(conf[g], r.host, r.port, Visible(r))
    /\ Take(g, r)

Answer(s, own, hidden, host) == \E echo \in SUBSET Received(sent', host) :
    shown' = shown \cup {[server |-> s, own |-> own, secrets |-> echo \ hidden]}

\* The header value is replaced; a token in the body or the URL stays as it is.
Forward(g) ==
    LET r == req[g]
        injected == r.token # None /\ r.place \in {"authorization", "header"}
                       /\ Resolves(g, r.token, r.host)
    IN /\ r # None /\ r.kind = "http"
       /\ sent' = IF injected
                  THEN sent \cup {[server |-> g, tokens |-> {r.token}, asked |-> {},
                                   host |-> r.host, port |-> r.port]}
                  ELSE sent
       /\ req' = [req EXCEPT ![g] = None]
       /\ UNCHANGED <<edits, live, spc, bound, conf, count, shown, gone>>

\* _proxy_provider_http up to the decision, on a path that is allowed.
Provider(g) ==
    /\ Serving(g) /\ conf[g].upstream # None
    /\ LET host == conf[g].upstream[1]
           port == conf[g].upstream[2]
       IN /\ Allowed(conf[g], host, port, TRUE)
          /\ Take(g, [kind |-> "provider", host |-> host, port |-> port])

\* The bindings of the provider: listed keys in order, the run's after them.
Candidates(g) == {t \in Token : Known(g, t) /\ t[2] \in Fits}
First(g, t) ==
    /\ t \in Candidates(g)
    /\ IF \E u \in Candidates(g) : u[1] = None
       THEN \E i \in DOMAIN conf[g].keys :
               /\ t = <<None, conf[g].keys[i]>>
               /\ \A j \in 1 .. i - 1 : conf[g].keys[j] \notin Fits
       ELSE TRUE

ProviderForward(g) == \E t \in Token :
    /\ req[g] # None /\ req[g].kind = "provider"
    /\ First(g, t) /\ Resolves(g, t, None)
    /\ sent' = sent \cup {[server |-> g, tokens |-> {t}, asked |-> {},
                           host |-> req[g].host, port |-> req[g].port]}
    /\ Answer(g, {SecretOf(t)}, {SecretOf(t)}, req[g].host)
    /\ req' = [req EXCEPT ![g] = None]
    /\ UNCHANGED <<edits, live, spc, bound, conf, count, gone>>

\* "no active local secret binding for provider"
NoBinding(g) ==
    /\ req[g] # None /\ req[g].kind = "provider"
    /\ \A t \in Token : First(g, t) => ~Resolves(g, t, None)
    /\ req' = [req EXCEPT ![g] = None]
    /\ UNCHANGED <<edits, live, spc, bound, conf, count, sent, shown, gone>>

\* The connection to the host fails before anything is sent.
Drop(g) ==
    /\ req[g] # None
    /\ req' = [req EXCEPT ![g] = None]
    /\ UNCHANGED <<edits, live, spc, bound, conf, count, sent, shown, gone>>
-----------------------------------------------------------------------------
(* One agentsecure.http.request.                                           *)

Refused(m) == EndMcp(m) /\ UNCHANGED <<sent, shown>>

Idle(m) == spc[m] = "up" /\ req[m] = None

Ask(m, names, host, port) ==
    /\ names # {}
    /\ IF Allowed(conf[m], host, port, TRUE)
       THEN /\ req' = [req EXCEPT ![m] = [kind |-> "mcp", host |-> host, port |-> port,
                                          asked |-> names, left |-> names, got |-> {}]]
            /\ UNCHANGED <<edits, live, spc, bound, conf, count, sent, shown, gone>>
       ELSE Refused(m)

\* env_token_map: the last binding of a name.
Last(m, n, t) ==
    /\ Known(m, t) /\ NameOf[t[2]] = n
    /\ IF t[1] = None
       THEN /\ \A a \in Alias : bound[m][a] # None => NameOf[a] # n
            /\ \E i \in DOMAIN conf[m].keys :
                  /\ conf[m].keys[i] = t[2]
                  /\ \A j \in i + 1 .. Len(conf[m].keys) : NameOf[conf[m].keys[j]] # n
       ELSE TRUE

\* resolve_env, name by name: one that does not resolve ends the request.
Resolved(m, n) == \E t \in Token :
    /\ Last(m, n, t) /\ Resolves(m, t, req[m].host)
    /\ req' = [req EXCEPT ![m].left = @ \ {n}, ![m].got = @ \cup {t}]
    /\ UNCHANGED <<edits, live, spc, bound, conf, count, sent, shown, gone>>
Unresolved(m, n) ==
    /\ \A t \in Token : Last(m, n, t) => ~Resolves(m, t, req[m].host)
    /\ Refused(m)
\* Mutant: a name that does not resolve is left in the text.
ResolveOrSkip(m) ==
    /\ req[m] # None
    /\ \E n \in req[m].left : Resolved(m, n) \/
        /\ \A t \in Token : Last(m, n, t) => ~Resolves(m, t, req[m].host)
        /\ req' = [req EXCEPT ![m].left = @ \ {n}]
        /\ UNCHANGED <<edits, live, spc, bound, conf, count, sent, shown, gone>>
Resolve(m) ==
    /\ req[m] # None
    /\ \E n \in req[m].left : Resolved(m, n) \/ Unresolved(m, n)

\* Mutant: the answer is cleaned of the request's own secrets only.
HiddenOwn(m) == {SecretOf(t) : t \in req[m].got}
\* _sanitize_response: the keys of the file as it is now, and what was resolved.
Hidden(m) == {SecretOf(t) : t \in req[m].got} \cup Listed(config)

SendFails(m) == req[m] # None /\ req[m].left = {} /\ Refused(m)

Send(m) ==
    /\ req[m] # None /\ req[m].left = {}
    /\ sent' = sent \cup {[server |-> m, tokens |-> req[m].got, asked |-> req[m].asked,
                           host |-> req[m].host, port |-> req[m].port]}
    /\ Answer(m, {SecretOf(t) : t \in req[m].got}, Hidden(m), req[m].host)
    /\ EndMcp(m)
-----------------------------------------------------------------------------
GatewayStep(g) ==
    \/ Bind(g) \/ Open(g) \/ Revoke(g) \/ Shutdown(g)
    \/ Serving(g) /\ \E r \in ProxyRequest : Proxy(g, r)
    \/ Forward(g)
    \/ Provider(g)
    \/ ProviderForward(g) \/ NoBinding(g) \/ Drop(g)
McpStep(m) ==
    \/ Bind(m) \/ Open(m)
    \/ Idle(m) /\ \E names \in SUBSET Name, h \in Host, p \in Port : Ask(m, names, h, p)
    \/ Resolve(m) \/ Send(m) \/ SendFails(m)
EditStep(e) == GrantKey(e) \/ Load(e) \/ Save(e) \/ AddAlias(e)

Next ==
    \/ \E e \in Editor : EditStep(e)
    \/ \E t \in Token : Lapse(t)
    \/ \E g \in Gateway : GatewayStep(g)
    \/ \E m \in McpRequest : McpStep(m)

Spec == Init /\ [][Next]_vars
-----------------------------------------------------------------------------
TypeOK ==
    /\ config \in Config
    /\ stored \in [Alias -> SUBSET Host]
    /\ live \subseteq Token
    /\ epc \in [Editor -> {"start", "granted", "loaded", "done"}]
    /\ copy \in [Editor -> {None} \cup Config]
    /\ spc \in [Server -> {"off", "bound", "up", "closing", "down"}]
    /\ bound \in [Server -> [Alias -> {None} \cup SUBSET Host]]
    /\ conf \in [Server -> {None} \cup Config]
    /\ req \in [Server -> {None} \cup Request]
    /\ count \in [Gateway -> 0 .. MaxRequests]
    /\ sent \subseteq Sent /\ shown \subseteq Shown
    /\ removed \subseteq Host /\ gone \in [Server -> SUBSET Host]

\* A secret leaves only to a host and a port its server's policy allows for
\* credentials, and an alias or key the server knows only in mode virtualize
\* and, for an alias with approved hosts, to one of them.  (gateway/proxy.py:89,
\* where the check precedes the injection; docs/network-policy.md:48)
SecretsWhereAllowed == \A r \in sent :
    LET c == conf[r.server] IN
    /\ r.tokens # {} => /\ r.host \in c.allow \ (Forbidden \cup Private)
                        /\ r.port \in c.ports
    /\ \A t \in r.tokens : Known(r.server, t) =>
          /\ c.mode[NameOf[t[2]]] = "virtualize"
          /\ t[1] # None /\ Approved(r.server, t) # {} => r.host \in Approved(r.server, t)

\* An answer shows neither the secrets its request carried nor, for an MCP
\* request, any key its server had loaded: the file is loaded a third time to
\* clean the answer, and it never loses a key.  (mcp/http_request.py:98)
AnswersClean == \A a \in shown :
    /\ a.secrets \cap a.own = {}
    /\ a.server \in McpRequest => a.secrets \cap Listed(conf[a.server]) = {}

\* Once `network remove` is done and no later command allows the host again, a
\* server that starts sends it no secret.  (cli/common.py:117; docs/network-policy.md:33)
RemovalHolds == \A r \in sent : r.tokens # {} => r.host \notin gone[r.server]

\* An MCP request leaves with every secret it names or not at all, though the
\* grants may lapse between two of its resolutions.  (mcp/http_request.py:81)
AllOrNothing == \A r \in sent : r.server \in McpRequest =>
    {NameOf[t[2]] : t \in r.tokens} = r.asked
=============================================================================
