---------------------------- MODULE EgressProofs ----------------------------
(***************************************************************************)
(* Proofs about Egress, for any hosts, names, commands, gateways and       *)
(* requests.  SecretsWhereAllowed holds because a configuration, once a    *)
(* server is up, stays what the request at hand was allowed by.            *)
(***************************************************************************)
EXTENDS Egress, TLAPS

LEMMA AssignmentConfig ==
  ASSUME NEW c \in Config, NEW H \in [Alias -> {None} \cup SUBSET Host],
         NEW R \in [Name -> SUBSET Host], NEW A \in SUBSET Host
  PROVE  [c EXCEPT !.hosts = H, !.rule = R, !.allow = A] \in Config
  BY DEF Config

LEMMA EditedConfig ==
  ASSUME NEW c \in Config, NEW e \in Editor, e.op # "add", stored \in [Alias -> SUBSET Host]
  PROVE  Edited(c, e) \in Config
  <1> USE EgressAssumption
  <1>1. e \in Command
    OBVIOUS
  <1>2. /\ c.allow \in SUBSET Host /\ c.ports \in SUBSET Port /\ c.mode \in [Name -> Mode]
        /\ c.rule \in [Name -> SUBSET Host] /\ c.hosts \in [Alias -> {None} \cup SUBSET Host]
        /\ c.keys \in Seq(Key) /\ c.upstream \in {None} \cup (Host \X Port)
    BY DEF Config
  <1>3. CASE e.op = "allow"
    <2>1. e.host \in Host /\ e.port \in {None} \cup Port
      BY <1>1, <1>3 DEF Command
    <2> QED
      BY <1>3, <2>1 DEF Edited, HostAllowed, Config
  <1>4. CASE e.op = "remove"
    BY <1>4 DEF Edited, HostRemoved, Config
  <1>5. CASE e.op = "use"
    <2>1. e.alias \in Alias /\ NameOf[e.alias] \in Name
      BY <1>1, <1>5 DEF Command, Secret
    <2>2. stored[e.alias] \in SUBSET Host
      BY <2>1
    <2>3. Edited(c, e) = Assigned(c, e)
      BY <1>5 DEF Edited
    <2>5. \A H \in SUBSET Host : [c.rule EXCEPT ![NameOf[e.alias]] = H] \in [Name -> SUBSET Host]
      BY <1>2
    <2>6. c.rule[NameOf[e.alias]] \in SUBSET Host
      BY <1>2, <2>1
    <2> DEFINE hosts == [c.hosts EXCEPT ![e.alias] = stored[e.alias]]
               rule == [c.rule EXCEPT ![NameOf[e.alias]] =
                          IF stored[e.alias] = {} THEN c.rule[NameOf[e.alias]] ELSE stored[e.alias]]
               allow == c.allow \cup stored[e.alias]
    <2>7. Assigned(c, e) = [c EXCEPT !.hosts = hosts, !.rule = rule, !.allow = allow]
      BY <2>1 DEF Assigned, Config
    <2>8. rule \in [Name -> SUBSET Host] /\ allow \in SUBSET Host
      BY <1>2, <2>2, <2>5, <2>6
    <2>9. hosts \in [Alias -> {None} \cup SUBSET Host]
      BY <1>2, <2>2
    <2> HIDE DEF hosts, rule, allow
    <2>10. [c EXCEPT !.hosts = hosts, !.rule = rule, !.allow = allow] \in Config
      BY <2>8, <2>9, AssignmentConfig
    <2> QED
      BY <2>3, <2>7, <2>10
  <1>6. CASE e.op = "policy"
    <2>1. e.name \in Name /\ e.mode \in Mode /\ e.hosts \in SUBSET Host
      BY <1>1, <1>6 DEF Command
    <2> QED
      BY <1>2, <1>6, <2>1 DEF Edited, RuleSet, Config
  <1>7. CASE e.op = "key"
    <2>1. e.key \in Key
      BY <1>1, <1>7 DEF Command
    <2>2. Append(c.keys, e.key) \in Seq(Key)
      BY <1>2, <2>1
    <2> QED
      BY <1>7, <2>2 DEF Edited, KeyListed, Config
  <1>8. CASE e.op = "proxy"
    <2>1. e.name \in Name /\ e.host \in Host /\ e.port \in Port
      BY <1>1, <1>8 DEF Command
    <2>2. <<e.host, e.port>> \in Host \X Port /\ {e.host} \in SUBSET Host
      BY <2>1
    <2>3. [c EXCEPT !.upstream = <<e.host, e.port>>, !.rule[e.name] = {e.host}, !.allow = c.allow \cup {e.host}]
            \in Config
      BY <1>2, <2>1, <2>2 DEF Config
    <2> QED
      BY <1>8, <2>3 DEF Edited, ProviderActivated
  <1> QED
    BY <1>1, <1>3, <1>4, <1>5, <1>6, <1>7, <1>8 DEF Command

LEMMA AllowsHosts ==
  ASSUME NEW e \in Editor, stored \in [Alias -> SUBSET Host]
  PROVE  Allows(e) \subseteq Host
  BY EgressAssumption DEF Allows, Command

LEMMA InitTypeOK == Init => TypeOK
  <1> SUFFICES ASSUME Init PROVE TypeOK
    OBVIOUS
  <1> USE EgressAssumption DEF Init
  <1>1. InitialConfig.keys \in Seq(Key)
    BY DEF Config
  <1>2. live \subseteq Token
    BY <1>1 DEF Token
  <1>3. bound \in [Server -> [Alias -> {None} \cup SUBSET Host]]
    BY DEF Unbound
  <1> QED
    BY <1>2, <1>3 DEF TypeOK

\* An editor about to save holds a configuration; so does a server that is up.
Loaded == \A e \in Editor : epc[e] = "loaded" => copy[e] \in Config /\ e.op # "add"
Opened == \A s \in Server : spc[s] \notin {"off", "bound"} => conf[s] \in Config
\* Only a server that is up holds a request, a gateway another kind than a call.
Busy == \A s \in Server : req[s] # None =>
    /\ spc[s] \in {"up", "closing"}
    /\ s \in McpRequest <=> req[s].kind = "mcp"
TInv == TypeOK /\ Loaded /\ Opened /\ Busy

LEMMA SecretOfToken == \A t \in Token : SecretOf(t) \in Secret
  BY DEF Token, SecretOf, Secret

LEMMA ReceivedSecrets ==
  ASSUME NEW log, log \subseteq Sent, NEW host
  PROVE  Received(log, host) \subseteq Secret
  BY SecretOfToken DEF Received, Sent

\* The actions of a server, once its kind of request is known.
LEMMA RequestTypes ==
  ASSUME TypeOK, NEW s \in Server, req[s] # None
  PROVE  /\ req[s].kind = "http" => req[s] \in ProxyRequest
         /\ req[s].kind = "provider" => req[s] \in ProviderRequest
         /\ req[s].kind = "mcp" => req[s] \in Asking
         /\ req[s].host \in Host /\ req[s].port \in Port
  <1>1. req[s] \in Request
    BY DEF TypeOK
  <1>2. CASE req[s] \in ProxyRequest
    BY <1>2 DEF ProxyRequest
  <1>3. CASE req[s] \in ProviderRequest
    BY <1>3 DEF ProviderRequest
  <1>4. CASE req[s] \in Asking
    BY <1>4 DEF Asking
  <1> QED
    BY <1>1, <1>2, <1>3, <1>4 DEF Request

LEMMA NextTypeOK == TInv /\ [Next]_vars => TypeOK'
  <1> SUFFICES ASSUME TInv, [Next]_vars PROVE TypeOK'
    OBVIOUS
  <1> TypeOK
    BY DEF TInv
  <1> USE EgressAssumption DEF TypeOK
  <1>1. ASSUME NEW e \in Editor, GrantKey(e) PROVE TypeOK'
    <2>1. e.key \in Key
      BY <1>1 DEF GrantKey, Command
    <2> QED
      BY <1>1, <2>1 DEF GrantKey, Token
  <1>2. ASSUME NEW e \in Editor, Load(e) PROVE TypeOK'
    BY <1>2 DEF Load
  <1>3. ASSUME NEW e \in Editor, Save(e) PROVE TypeOK'
    <2>0. copy[e] \in Config /\ e.op # "add"
      BY <1>3 DEF TInv, Loaded, Save
    <2>1. config' \in Config
      BY <1>3, <2>0, EditedConfig DEF Save
    <2>2. removed' \subseteq Host
      BY <1>3, AllowsHosts DEF Save, Command
    <2> QED
      BY <1>3, <2>1, <2>2 DEF Save
  <1>4. ASSUME NEW e \in Editor, AddAlias(e) PROVE TypeOK'
    <2>1. e.alias \in Alias /\ e.hosts \in SUBSET Host
      BY <1>4 DEF AddAlias, Command
    <2> QED
      BY <1>4, <2>1 DEF AddAlias
  <1>5. ASSUME NEW t \in Token, Lapse(t) PROVE TypeOK'
    BY <1>5 DEF Lapse, edits
  <1>6. ASSUME NEW s \in Server, Bind(s) PROVE TypeOK'
    <2>1. config.hosts \in [Alias -> {None} \cup SUBSET Host]
      BY DEF Config
    <2>2. bound' \in [Server -> [Alias -> {None} \cup SUBSET Host]]
      BY <1>6, <2>1 DEF Bind
    <2>3. live' \subseteq Token
      BY <1>6 DEF Bind, Token
    <2> QED
      BY <1>6, <2>2, <2>3 DEF Bind, edits
  <1>7. ASSUME NEW s \in Server, Open(s) PROVE TypeOK'
    BY <1>7 DEF Open, edits
  <1>8. ASSUME NEW g \in Gateway, Revoke(g) \/ Shutdown(g) \/ Forward(g) \/ NoBinding(g) \/ Drop(g)
        PROVE  TypeOK'
    <2>1. g \in Server
      BY DEF Server
    <2>2. CASE Revoke(g)
      BY <2>1, <2>2 DEF Revoke, edits
    <2>3. CASE Shutdown(g)
      BY <2>1, <2>3 DEF Shutdown, edits
    <2>4. CASE NoBinding(g) \/ Drop(g)
      BY <2>1, <2>4 DEF NoBinding, Drop, edits
    <2>5. CASE Forward(g)
      <3>1. req[g] \in ProxyRequest
        BY <2>1, <2>5 DEF Forward, Request, ProviderRequest, Asking
      <3>2. req[g].host \in Host /\ req[g].port \in Port /\ req[g].token \in {None} \cup Token
        BY <3>1 DEF ProxyRequest
      <3>3. sent' \subseteq Sent
        BY <2>1, <2>5, <3>2 DEF Forward, Sent
      <3> QED
        BY <2>1, <2>5, <3>3 DEF Forward, edits
    <2> QED
      BY <1>8, <2>2, <2>3, <2>4, <2>5
  <1>9. ASSUME NEW g \in Gateway, NEW r \in Request, Take(g, r), Serving(g) PROVE TypeOK'
    <2>1. req' \in [Server -> {None} \cup Request]
      BY <1>9 DEF Take, Server
    <2>2. count' \in [Gateway -> 0 .. MaxRequests]
      BY <1>9 DEF Take, Serving
    <2> QED
      BY <1>9, <2>1, <2>2 DEF Take, edits
  <1>10. ASSUME NEW g \in Gateway, Serving(g), Provider(g) PROVE TypeOK'
    <2>1. conf[g] \in Config
      BY <1>10 DEF TInv, Opened, Serving, Server
    <2>2. conf[g].upstream \in Host \X Port
      BY <1>10, <2>1 DEF Provider, Config
    <2>3. [kind |-> "provider", host |-> conf[g].upstream[1], port |-> conf[g].upstream[2]] \in Request
      BY <2>2 DEF Request, ProviderRequest
    <2> QED
      BY <1>9, <1>10, <2>3 DEF Provider
  <1>11. ASSUME NEW s \in Server, NEW toks \in SUBSET Token, NEW names \in SUBSET Name, req[s] # None,
                sent' = sent \cup {[server |-> s, tokens |-> toks, asked |-> names,
                                    host |-> req[s].host, port |-> req[s].port]}
         PROVE  sent' \subseteq Sent
    BY <1>11, RequestTypes DEF Sent
  <1>12. ASSUME NEW s \in Server, NEW own \in SUBSET Secret, NEW hidden, NEW host, sent' \subseteq Sent,
                Answer(s, own, hidden, host)
         PROVE  shown' \subseteq Shown
    BY <1>12, ReceivedSecrets DEF Answer, Shown
  <1>13. ASSUME NEW g \in Gateway, ProviderForward(g) PROVE TypeOK'
    <2>1. PICK t \in Token : ProviderForward(g)!(t)
      BY <1>13 DEF ProviderForward
    <2>2. g \in Server
      BY DEF Server
    <2>3. sent' \subseteq Sent
      <3>1. {t} \in SUBSET Token /\ {} \in SUBSET Name /\ req[g] # None
        BY <2>1
      <3>2. sent' = sent \cup {[server |-> g, tokens |-> {t}, asked |-> {},
                                host |-> req[g].host, port |-> req[g].port]}
        BY <2>1
      <3> QED
        BY <2>2, <3>1, <3>2, <1>11
    <2>4. shown' \subseteq Shown
      BY <2>1, <2>2, <2>3, <1>12, SecretOfToken
    <2> QED
      BY <2>1, <2>2, <2>3, <2>4 DEF edits
  <1>14. ASSUME NEW m \in McpRequest, EndMcp(m), sent' \subseteq Sent, shown' \subseteq Shown PROVE TypeOK'
    BY <1>14 DEF EndMcp, edits, Server
  <1>15. ASSUME NEW m \in McpRequest, NEW names \in SUBSET Name, NEW h \in Host, NEW p \in Port,
                Ask(m, names, h, p)
         PROVE  TypeOK'
    <2>1. CASE Refused(m)
      BY <2>1, <1>14 DEF Refused
    <2>2. CASE ~Refused(m)
      <3>1. [kind |-> "mcp", host |-> h, port |-> p, asked |-> names, left |-> names, got |-> {}] \in Request
        BY DEF Request, Asking
      <3>2. /\ req' = [req EXCEPT ![m] = [kind |-> "mcp", host |-> h, port |-> p,
                                          asked |-> names, left |-> names, got |-> {}]]
            /\ UNCHANGED <<edits, live, spc, bound, conf, count, sent, shown, gone>>
        BY <1>15, <2>2 DEF Ask
      <3>3. req' \in [Server -> {None} \cup Request]
        BY <3>1, <3>2
      <3> QED
        BY <3>2, <3>3 DEF edits
    <2> QED
      BY <2>1, <2>2
  <1>16. ASSUME NEW m \in McpRequest, Resolve(m) PROVE TypeOK'
    <2>1. req[m] # None /\ m \in Server
      BY <1>16 DEF Resolve, Server
    <2>2. req[m] \in Asking
      BY <2>1, RequestTypes DEF TInv, Busy
    <2>3. ASSUME NEW n \in req[m].left, Resolved(m, n) PROVE TypeOK'
      <3>1. PICK t \in Token : Resolved(m, n)!(t)
        BY <2>3 DEF Resolved
      <3>2. req'[m] \in Asking
        BY <2>1, <2>2, <3>1 DEF Asking
      <3>3. req' \in [Server -> {None} \cup Request]
        BY <2>1, <3>1, <3>2 DEF Request
      <3> QED
        BY <3>1, <3>3 DEF edits
    <2>4. ASSUME NEW n \in req[m].left, Unresolved(m, n) PROVE TypeOK'
      BY <2>4, <1>14 DEF Unresolved, Refused
    <2> QED
      BY <1>16, <2>3, <2>4 DEF Resolve
  <1>17. ASSUME NEW m \in McpRequest, Send(m) PROVE TypeOK'
    <2>1. req[m] # None /\ m \in Server
      BY <1>17 DEF Send, Server
    <2>2. req[m] \in Asking
      BY <2>1, RequestTypes DEF TInv, Busy
    <2>3. req[m].got \in SUBSET Token /\ req[m].asked \in SUBSET Name
      BY <2>2 DEF Asking
    <2>4. sent' \subseteq Sent
      BY <1>17, <2>1, <2>3, <1>11 DEF Send
    <2>5. {SecretOf(t) : t \in req[m].got} \in SUBSET Secret
      BY <2>3, SecretOfToken
    <2>6. shown' \subseteq Shown
      BY <1>17, <2>1, <2>4, <2>5, <1>12 DEF Send
    <2> QED
      BY <1>17, <2>4, <2>6, <1>14 DEF Send
  <1>18. ASSUME NEW m \in McpRequest, SendFails(m) PROVE TypeOK'
    BY <1>18, <1>14 DEF SendFails, Refused
  <1>19. ASSUME NEW g \in Gateway, GatewayStep(g) PROVE TypeOK'
    <2>1. g \in Server
      BY DEF Server
    <2>2. ASSUME Serving(g), NEW r \in ProxyRequest, Proxy(g, r) PROVE TypeOK'
      BY <2>2, <1>9 DEF Proxy, Request
    <2>3. Provider(g) => Serving(g)
      BY DEF Provider
    <2> QED
      BY <1>19, <2>1, <2>2, <2>3, <1>6, <1>7, <1>8, <1>10, <1>13 DEF GatewayStep
  <1>20. ASSUME NEW m \in McpRequest, McpStep(m) PROVE TypeOK'
    <2>1. m \in Server
      BY DEF Server
    <2> QED
      BY <1>20, <2>1, <1>6, <1>7, <1>15, <1>16, <1>17, <1>18 DEF McpStep
  <1>21. ASSUME UNCHANGED vars PROVE TypeOK'
    BY <1>21 DEF vars
  <1> QED
    BY <1>1, <1>2, <1>3, <1>4, <1>5, <1>19, <1>20, <1>21 DEF Next, EditStep

\* Only the commands touch what they edit.
LEMMA EditsOnly ==
  ASSUME [Next]_vars
  PROVE  UNCHANGED edits \/ \E e \in Editor : EditStep(e)
  <1>1. ASSUME NEW t \in Token, Lapse(t) PROVE UNCHANGED edits
    BY <1>1 DEF Lapse
  <1>2. ASSUME NEW g \in Gateway, GatewayStep(g) PROVE UNCHANGED edits
    BY <1>2 DEF GatewayStep, Bind, Open, Revoke, Shutdown, Proxy, Take, Forward, Provider, ProviderForward,
                NoBinding, Drop
  <1>3. ASSUME NEW m \in McpRequest, McpStep(m) PROVE UNCHANGED edits
    BY <1>3 DEF McpStep, Bind, Open, Ask, Refused, Resolve, Resolved, Unresolved, Send, SendFails, EndMcp
  <1>4. CASE UNCHANGED vars
    BY <1>4 DEF vars, edits
  <1> QED
    BY <1>1, <1>2, <1>3, <1>4 DEF Next

LEMMA NextLoaded == TInv /\ [Next]_vars => Loaded'
  <1> SUFFICES ASSUME TInv, [Next]_vars, NEW e \in Editor, epc'[e] = "loaded"
               PROVE  copy'[e] \in Config /\ e.op # "add"
    BY DEF Loaded
  <1> TypeOK /\ Loaded
    BY DEF TInv
  <1>1. ASSUME NEW f \in Editor, EditStep(f) PROVE copy'[e] \in Config /\ e.op # "add"
    BY <1>1 DEF EditStep, GrantKey, Load, Save, AddAlias, Loaded, TypeOK
  <1>2. CASE UNCHANGED edits
    BY <1>2 DEF edits, Loaded
  <1> QED
    BY <1>1, <1>2, EditsOnly

LEMMA NextOpened == TInv /\ [Next]_vars => Opened'
  <1> SUFFICES ASSUME TInv, [Next]_vars, NEW s \in Server, spc'[s] \notin {"off", "bound"}
               PROVE  conf'[s] \in Config
    BY DEF Opened
  <1> TypeOK /\ Opened /\ Busy
    BY DEF TInv
  <1> USE DEF TypeOK, Opened
  <1>1. ASSUME NEW u \in Server, Open(u) PROVE conf'[s] \in Config
    BY <1>1 DEF Open
  <1>2. ASSUME NEW u \in Server, Bind(u) PROVE conf'[s] \in Config
    BY <1>2 DEF Bind
  <1>3. ASSUME NEW g \in Gateway, Revoke(g) \/ Shutdown(g) PROVE conf'[s] \in Config
    BY <1>3 DEF Revoke, Shutdown, Server
  <1>4. ASSUME NEW m \in McpRequest, EndMcp(m), spc[m] \notin {"off", "bound"} PROVE conf'[s] \in Config
    BY <1>4 DEF EndMcp, Server
  <1>5. CASE UNCHANGED <<spc, conf>>
    BY <1>5
  <1>6. ASSUME NEW m \in McpRequest, McpStep(m) PROVE conf'[s] \in Config
    <2>1. m \in Server
      BY DEF Server
    <2>2. CASE Idle(m) /\ \E names \in SUBSET Name, h \in Host, p \in Port : Ask(m, names, h, p)
      BY <2>2, <1>4, <1>5 DEF Ask, Refused, Idle
    <2>3. CASE Resolve(m)
      BY <2>1, <2>3, <1>4, <1>5 DEF Resolve, Resolved, Unresolved, Refused, Busy
    <2>4. CASE Send(m) \/ SendFails(m)
      BY <2>1, <2>4, <1>4 DEF Send, SendFails, Refused, Busy
    <2> QED
      BY <1>6, <2>1, <2>2, <2>3, <2>4, <1>1, <1>2 DEF McpStep
  <1>7. ASSUME NEW g \in Gateway, GatewayStep(g) PROVE conf'[s] \in Config
    BY <1>7, <1>1, <1>2, <1>3, <1>5 DEF GatewayStep, Proxy, Take, Forward, Provider, ProviderForward, NoBinding, Drop, Server
  <1> QED
    BY <1>5, <1>6, <1>7 DEF Next, vars, EditStep, GrantKey, Load, Save, AddAlias, Lapse

LEMMA NextBusy == TInv /\ [Next]_vars => Busy'
  <1> SUFFICES ASSUME TInv, [Next]_vars, NEW s \in Server, req'[s] # None
               PROVE  /\ spc'[s] \in {"up", "closing"}
                      /\ s \in McpRequest <=> req'[s].kind = "mcp"
    BY DEF Busy
  <1> DEFINE Goal == /\ spc'[s] \in {"up", "closing"}
                     /\ s \in McpRequest <=> req'[s].kind = "mcp"
  <1> TypeOK /\ Busy
    BY DEF TInv
  <1> USE EgressAssumption DEF TypeOK, Busy, Server
  <1>1. CASE UNCHANGED <<spc, req>>
    BY <1>1
  <1>2. ASSUME NEW u \in Server, Bind(u) \/ Open(u) PROVE Goal
    BY <1>2 DEF Bind, Open
  <1>3. ASSUME NEW g \in Gateway, Revoke(g) \/ Shutdown(g) PROVE Goal
    BY <1>3 DEF Revoke, Shutdown
  <1>4. ASSUME NEW m \in McpRequest, EndMcp(m) PROVE Goal
    BY <1>4 DEF EndMcp
  <1>5. ASSUME NEW g \in Gateway, NEW r, r.kind \in {"http", "provider"}, Serving(g), Take(g, r) PROVE Goal
    BY <1>5 DEF Serving, Take
  <1>6. ASSUME NEW g \in Gateway, GatewayStep(g) PROVE Goal
    <2>1. ASSUME Serving(g), NEW r \in ProxyRequest, Proxy(g, r) PROVE Goal
      BY <2>1, <1>5 DEF Proxy, ProxyRequest
    <2>2. CASE Provider(g)
      BY <2>2, <1>5 DEF Provider
    <2>3. CASE Forward(g) \/ NoBinding(g) \/ Drop(g)
      BY <2>3 DEF Forward, NoBinding, Drop
    <2>4. CASE ProviderForward(g)
      BY <2>4 DEF ProviderForward
    <2> QED
      BY <1>6, <2>1, <2>2, <2>3, <2>4, <1>2, <1>3 DEF GatewayStep
  <1>7. ASSUME NEW m \in McpRequest, McpStep(m) PROVE Goal
    <2>1. ASSUME Idle(m), NEW names, NEW h, NEW p, Ask(m, names, h, p) PROVE Goal
      <3>1. CASE Refused(m)
        BY <3>1, <1>4 DEF Refused
      <3>2. CASE ~Refused(m)
        <4>1. /\ req' = [req EXCEPT ![m] = [kind |-> "mcp", host |-> h, port |-> p,
                                            asked |-> names, left |-> names, got |-> {}]]
              /\ spc' = spc
          BY <2>1, <3>2 DEF Ask
        <4> QED
          BY <2>1, <4>1 DEF Idle
      <3> QED
        BY <3>1, <3>2
    <2>2. CASE Resolve(m)
      <3>1. req[m] \in Asking
        BY <2>2, RequestTypes DEF Resolve
      <3>2. ASSUME NEW n, Resolved(m, n) PROVE Goal
        <4>1. PICK t \in Token : Resolved(m, n)!(t)
          BY <3>2 DEF Resolved
        <4>2. req'[m].kind = "mcp" /\ \A u \in Server \ {m} : req'[u] = req[u]
          BY <3>1, <4>1 DEF Asking
        <4>3. spc' = spc /\ req[m] # None
          BY <2>2, <4>1 DEF Resolve
        <4> QED
          BY <4>2, <4>3
      <3> QED
        BY <2>2, <3>2, <1>4 DEF Resolve, Unresolved, Refused
    <2>3. CASE Send(m) \/ SendFails(m)
      BY <2>3, <1>4 DEF Send, SendFails, Refused
    <2> QED
      BY <1>7, <2>1, <2>2, <2>3, <1>2 DEF McpStep
  <1> QED
    BY <1>1, <1>6, <1>7 DEF Next, vars, EditStep, GrantKey, Load, Save, AddAlias, Lapse

\* Every variable keeps its type: what the editors write is a configuration,
\* what the servers hold are requests they took.  (core/config.py:316)
THEOREM TypeCorrect == Spec => []TypeOK
  <1>1. Init => TInv
    BY InitTypeOK DEF Init, TInv, Loaded, Opened, Busy
  <1>2. TInv /\ [Next]_vars => TInv'
    BY NextTypeOK, NextLoaded, NextOpened, NextBusy DEF TInv
  <1>3. TInv => TypeOK
    BY DEF TInv
  <1> QED
    BY <1>1, <1>2, <1>3, PTL DEF Spec
-----------------------------------------------------------------------------
\* What a server that is up decides by stays as it is.
Up(s) == spc[s] \notin {"off", "bound"}

LEMMA Frozen ==
  ASSUME TInv, [Next]_vars, NEW s \in Server, Up(s)
  PROVE  Up(s)' /\ conf'[s] = conf[s] /\ bound'[s] = bound[s]
  <1> DEFINE Goal == Up(s)' /\ conf'[s] = conf[s] /\ bound'[s] = bound[s]
  <1> TypeOK
    BY DEF TInv
  <1> USE EgressAssumption DEF TypeOK, Up, Server
  <1>1. CASE UNCHANGED <<spc, bound, conf>>
    BY <1>1
  <1>2. ASSUME NEW u \in Server, Bind(u) \/ Open(u) PROVE Goal
    BY <1>2 DEF Bind, Open
  <1>3. ASSUME NEW g \in Gateway, Revoke(g) \/ Shutdown(g) PROVE Goal
    BY <1>3 DEF Revoke, Shutdown
  <1>4. ASSUME NEW m \in McpRequest, EndMcp(m) PROVE Goal
    BY <1>4 DEF EndMcp
  <1>5. ASSUME NEW g \in Gateway, GatewayStep(g) PROVE Goal
    BY <1>1, <1>2, <1>3, <1>5 DEF GatewayStep, Proxy, Take, Forward, Provider, ProviderForward, NoBinding, Drop
  <1>6. ASSUME NEW m \in McpRequest, McpStep(m) PROVE Goal
    BY <1>1, <1>2, <1>4, <1>6 DEF McpStep, Ask, Resolve, Resolved, Unresolved, Refused, Send, SendFails
  <1> QED
    BY <1>1, <1>5, <1>6 DEF Next, vars, EditStep, GrantKey, Load, Save, AddAlias, Lapse

\* The clauses of SecretsWhereAllowed, for one record.
SafeTo(s, host, port) ==
    host \in conf[s].allow \ (Forbidden \cup Private) /\ port \in conf[s].ports
SafeFor(s, t, host) == Known(s, t) =>
    /\ conf[s].mode[NameOf[t[2]]] = "virtualize"
    /\ t[1] # None /\ Approved(s, t) # {} => host \in Approved(s, t)
SafeSend(r) ==
    /\ r.tokens # {} => SafeTo(r.server, r.host, r.port)
    /\ \A t \in r.tokens : SafeFor(r.server, t, r.host)

\* A request at hand has passed the check, with credentials unless it shows none.
ReqSafe == \A s \in Server : req[s] # None =>
    /\ req[s].kind # "http" \/ Visible(req[s]) => SafeTo(s, req[s].host, req[s].port)
    /\ req[s].kind = "mcp" => \A t \in req[s].got : SafeFor(s, t, req[s].host)
SentSafe == \A r \in sent : Up(r.server) /\ SafeSend(r)
WInv == TInv /\ ReqSafe /\ SentSafe

LEMMA AllowedSafe ==
  ASSUME NEW s, NEW host, NEW port, Allowed(conf[s], host, port, TRUE)
  PROVE  SafeTo(s, host, port)
  BY DEF Allowed, SafeTo

LEMMA PermitsSafe ==
  ASSUME NEW s, NEW t, NEW host, Resolves(s, t, host)
  PROVE  SafeFor(s, t, host)
  BY DEF Resolves, PolicyPermits, SafeFor

\* An alias with approved hosts never resolves for a provider request.
LEMMA PermitsSafeNone ==
  ASSUME TInv, NEW s \in Server, Up(s), NEW t \in Token, NEW host, Resolves(s, t, None)
  PROVE  SafeFor(s, t, host)
  <1> SUFFICES ASSUME Known(s, t), t[1] # None, Approved(s, t) # {} PROVE FALSE
    BY PermitsSafe DEF SafeFor
  <1>1. t[2] \in Alias /\ NameOf[t[2]] \in Name
    BY EgressAssumption DEF Token, Secret
  <1>2. bound[s][t[2]] \in SUBSET Host
    BY <1>1 DEF TInv, TypeOK, Known
  <1>3. conf[s].rule[NameOf[t[2]]] \in SUBSET Host
    BY <1>1 DEF TInv, Opened, Up, Config
  <1>4. Approved(s, t) \subseteq Host
    BY <1>2, <1>3 DEF Approved
  <1> QED
    BY <1>4, EgressAssumption DEF Resolves, PolicyPermits

LEMMA FrozenSafe ==
  ASSUME TInv, [Next]_vars, NEW s \in Server, Up(s), NEW host, NEW port, NEW t
  PROVE  SafeTo(s, host, port)' = SafeTo(s, host, port) /\ SafeFor(s, t, host)' = SafeFor(s, t, host)
  <1>1. conf'[s] = conf[s] /\ bound'[s] = bound[s]
    BY Frozen
  <1> QED
    BY <1>1 DEF SafeTo, SafeFor, Known, Approved, Listed

\* What ReqSafe says of a request r that server s holds.
SafeReq(s, r) ==
    /\ r.kind # "http" \/ Visible(r) => SafeTo(s, r.host, r.port)
    /\ r.kind = "mcp" => \A t \in r.got : SafeFor(s, t, r.host)

LEMMA FrozenReq ==
  ASSUME WInv, [Next]_vars, NEW s \in Server, Up(s), NEW r, SafeReq(s, r)
  PROVE  SafeReq(s, r)'
  BY FrozenSafe DEF WInv, SafeReq, Visible

LEMMA NextReqSafe == WInv /\ [Next]_vars => ReqSafe'
  <1> SUFFICES ASSUME WInv, [Next]_vars, NEW s \in Server, NEW r, r = req'[s], r # None PROVE SafeReq(s, r)'
    BY DEF ReqSafe, SafeReq, Visible
  <1> TInv /\ TypeOK /\ ReqSafe
    BY DEF WInv, TInv
  <1> USE EgressAssumption DEF Server
  <1>1. CASE req'[s] = req[s]
    <2>1. Up(s) /\ SafeReq(s, req[s])
      BY <1>1 DEF TInv, Busy, Up, ReqSafe, SafeReq
    <2> QED
      BY <1>1, <2>1, FrozenReq
  <1>2. ASSUME Up(s), SafeReq(s, r) PROVE SafeReq(s, r)'
    BY <1>2, FrozenReq
  <1>3. CASE s \in Gateway /\ Serving(s) /\ \E q \in ProxyRequest : Proxy(s, q)
    <2>1. PICK q \in ProxyRequest : Proxy(s, q)
      BY <1>3
    <2>2. req'[s] = q /\ q.kind = "http" /\ Up(s)
      BY <1>3, <2>1 DEF Proxy, Take, Serving, Up, TypeOK, ProxyRequest
    <2>3. Visible(q) => SafeTo(s, q.host, q.port)
      BY <2>1, AllowedSafe DEF Proxy, Allowed, Visible
    <2> QED
      BY <1>2, <2>2, <2>3 DEF SafeReq
  <1>4. CASE s \in Gateway /\ Provider(s)
    <2> DEFINE host == conf[s].upstream[1]
               port == conf[s].upstream[2]
    <2>1. req'[s] = [kind |-> "provider", host |-> host, port |-> port] /\ Up(s)
      BY <1>4 DEF Provider, Take, Serving, Up, TypeOK
    <2>2. SafeTo(s, host, port)
      BY <1>4, AllowedSafe DEF Provider
    <2> QED
      BY <1>2, <2>1, <2>2 DEF SafeReq
  <1>5. ASSUME s \in McpRequest, Idle(s), NEW names, NEW h, NEW p, Ask(s, names, h, p)
        PROVE  SafeReq(s, r)'
    <2>1. ~Refused(s)
      BY DEF Refused, EndMcp, TypeOK
    <2>2. /\ Allowed(conf[s], h, p, TRUE)
          /\ req' = [req EXCEPT ![s] = [kind |-> "mcp", host |-> h, port |-> p,
                                        asked |-> names, left |-> names, got |-> {}]]
      BY <1>5, <2>1 DEF Ask
    <2>3. /\ req'[s].kind = "mcp" /\ req'[s].host = h /\ req'[s].port = p /\ req'[s].got = {}
          /\ Up(s)
      BY <1>5, <2>2 DEF Idle, Up, TypeOK
    <2> QED
      BY <1>2, <2>2, <2>3, AllowedSafe DEF SafeReq
  <1>6. ASSUME s \in McpRequest, Resolve(s), NEW n \in Name, Resolved(s, n) PROVE SafeReq(s, r)'
    <2>1. PICK t \in Token : Resolved(s, n)!(t)
      BY <1>6 DEF Resolved
    <2>2. req[s] # None /\ req[s].kind = "mcp" /\ Up(s) /\ req[s] \in Asking
      BY <1>6, RequestTypes DEF Resolve, TInv, Busy, Up
    <2>3. /\ req'[s].kind = "mcp" /\ req'[s].host = req[s].host /\ req'[s].port = req[s].port
          /\ req'[s].got = req[s].got \cup {t}
      BY <2>1, <2>2 DEF Asking, TypeOK
    <2>4. SafeFor(s, t, req[s].host)
      BY <2>1, PermitsSafe
    <2>5. SafeReq(s, req[s])
      BY <2>2 DEF ReqSafe, SafeReq
    <2> QED
      BY <1>2, <2>2, <2>3, <2>4, <2>5 DEF SafeReq
  <1>7. ASSUME NEW g \in Gateway, GatewayStep(g), req'[s] # req[s]
        PROVE  s = g /\ ((Serving(s) /\ \E q \in ProxyRequest : Proxy(s, q)) \/ Provider(s))
    BY <1>7 DEF GatewayStep, Bind, Open, Revoke, Shutdown, Proxy, Take, Forward, Provider, ProviderForward,
                NoBinding, Drop, TypeOK
  <1>8. ASSUME NEW m \in McpRequest, McpStep(m), req'[s] # req[s] PROVE SafeReq(s, r)'
    <2>1. s = m /\ ~Refused(m)
      BY <1>8 DEF McpStep, Bind, Open, Ask, Resolve, Resolved, Unresolved, Refused, Send, SendFails, EndMcp, TypeOK
    <2>2. CASE Idle(m) /\ \E names \in SUBSET Name, h \in Host, p \in Port : Ask(m, names, h, p)
      BY <2>1, <2>2, <1>5
    <2>3. CASE Resolve(m)
      <3>1. req[m] \in Asking
        BY <2>3, RequestTypes DEF Resolve, TInv, Busy
      <3>2. PICK n \in req[m].left : Resolved(m, n)
        BY <2>1, <2>3 DEF Resolve, Unresolved
      <3> QED
        BY <2>1, <2>3, <3>1, <3>2, <1>6 DEF Asking
    <2>4. ~Bind(m) /\ ~Open(m) /\ ~Send(m) /\ ~SendFails(m)
      BY <1>8, <2>1 DEF Bind, Open, Send, SendFails, EndMcp, Refused, TypeOK
    <2> QED
      BY <1>8, <2>2, <2>3, <2>4 DEF McpStep
  <1> QED
    BY <1>1, <1>3, <1>4, <1>7, <1>8 DEF Next, vars, EditStep, GrantKey, Load, Save, AddAlias, Lapse

LEMMA NextSentSafe == WInv /\ [Next]_vars => SentSafe'
  <1> SUFFICES ASSUME WInv, [Next]_vars, NEW r, r \in sent' PROVE Up(r.server)' /\ SafeSend(r)'
    BY DEF SentSafe
  <1> TInv /\ TypeOK /\ ReqSafe /\ SentSafe
    BY DEF WInv, TInv
  <1> USE EgressAssumption DEF Server
  <1>1. ASSUME r.server \in Server, Up(r.server), SafeSend(r) PROVE Up(r.server)' /\ SafeSend(r)'
    BY <1>1, Frozen, FrozenSafe DEF SafeSend
  <1>2. CASE r \in sent
    <2>1. r.server \in Server
      BY <1>2 DEF TypeOK, Sent
    <2> QED
      BY <1>1, <1>2, <2>1 DEF SentSafe
  <1>3. ASSUME NEW s \in Server, req[s] # None PROVE Up(s) /\ SafeReq(s, req[s])
    BY <1>3 DEF TInv, Busy, Up, ReqSafe, SafeReq
  <1>4. ASSUME NEW g \in Gateway, Forward(g), r \notin sent PROVE Up(r.server)' /\ SafeSend(r)'
    <2>1. /\ req[g] # None /\ req[g].kind = "http" /\ req[g].token # None
          /\ Resolves(g, req[g].token, req[g].host)
          /\ r = [server |-> g, tokens |-> {req[g].token}, asked |-> {},
                  host |-> req[g].host, port |-> req[g].port]
      BY <1>4 DEF Forward
    <2>2. SafeTo(g, req[g].host, req[g].port)
      BY <2>1, <1>3 DEF SafeReq, Visible
    <2>3. SafeFor(g, req[g].token, req[g].host)
      BY <2>1, PermitsSafe
    <2> QED
      BY <2>1, <2>2, <2>3, <1>1, <1>3 DEF SafeSend
  <1>5. ASSUME NEW g \in Gateway, ProviderForward(g), r \notin sent PROVE Up(r.server)' /\ SafeSend(r)'
    <2>1. PICK t \in Token : ProviderForward(g)!(t)
      BY <1>5 DEF ProviderForward
    <2>2. /\ req[g] # None /\ req[g].kind = "provider" /\ Resolves(g, t, None)
          /\ r = [server |-> g, tokens |-> {t}, asked |-> {}, host |-> req[g].host, port |-> req[g].port]
      BY <1>5, <2>1
    <2>3. SafeTo(g, req[g].host, req[g].port) /\ Up(g)
      BY <2>2, <1>3 DEF SafeReq
    <2>4. SafeFor(g, t, req[g].host)
      BY <2>2, <2>3, PermitsSafeNone
    <2> QED
      BY <2>2, <2>3, <2>4, <1>1 DEF SafeSend
  <1>6. ASSUME NEW m \in McpRequest, Send(m), r \notin sent PROVE Up(r.server)' /\ SafeSend(r)'
    <2>1. /\ req[m] # None
          /\ r = [server |-> m, tokens |-> req[m].got, asked |-> req[m].asked,
                  host |-> req[m].host, port |-> req[m].port]
      BY <1>6 DEF Send
    <2>2. req[m].kind = "mcp"
      BY <2>1 DEF TInv, Busy
    <2>3. /\ SafeTo(m, req[m].host, req[m].port)
          /\ \A t \in req[m].got : SafeFor(m, t, req[m].host)
      BY <2>1, <2>2, <1>3 DEF SafeReq
    <2> QED
      BY <2>1, <2>3, <1>1, <1>3 DEF SafeSend
  <1>7. ASSUME NEW g \in Gateway, GatewayStep(g), sent' # sent PROVE Forward(g) \/ ProviderForward(g)
    BY <1>7 DEF GatewayStep, Bind, Open, Revoke, Shutdown, Proxy, Take, Provider, NoBinding, Drop
  <1>8. ASSUME NEW m \in McpRequest, McpStep(m), sent' # sent PROVE Send(m)
    BY <1>8 DEF McpStep, Bind, Open, Ask, Resolve, Resolved, Unresolved, Refused, SendFails
  <1> QED
    BY <1>2, <1>4, <1>5, <1>6, <1>7, <1>8 DEF Next, vars, EditStep, GrantKey, Load, Save, AddAlias, Lapse

\* A secret leaves only where the configuration of its server allows, whatever
\* the commands write and the grants do between the check of the destination
\* and the injection.  (gateway/proxy.py:89; implementations/secrets.py:122)
THEOREM SecretsWhereAllowedHolds == Spec => []SecretsWhereAllowed
  <1>1. Init => WInv
    <2> SUFFICES ASSUME Init PROVE WInv
      OBVIOUS
    <2>1. TypeOK
      BY InitTypeOK
    <2> QED
      BY <2>1 DEF Init, WInv, TInv, Loaded, Opened, Busy, ReqSafe, SentSafe
  <1>2. WInv /\ [Next]_vars => WInv'
    BY NextTypeOK, NextLoaded, NextOpened, NextBusy, NextReqSafe, NextSentSafe DEF WInv, TInv
  <1>3. WInv => SecretsWhereAllowed
    BY DEF WInv, SentSafe, SafeSend, SafeTo, SafeFor, SecretsWhereAllowed
  <1> QED
    BY <1>1, <1>2, <1>3, PTL DEF Spec
-----------------------------------------------------------------------------
(* A request of the MCP server leaves with all it asks for.                *)

NamesOf(T) == {NameOf[t[2]] : t \in T}
\* What a call has still to resolve is what it asks for and does not hold.
Pending == \A m \in McpRequest : req[m] # None =>
    req[m].left \subseteq req[m].asked /\ NamesOf(req[m].got) = req[m].asked \ req[m].left
WholeSent == \A r \in sent : r.server \in McpRequest => NamesOf(r.tokens) = r.asked
AInv == TInv /\ Pending /\ WholeSent

LEMMA NextPending == AInv /\ [Next]_vars => Pending'
  <1> SUFFICES ASSUME AInv, [Next]_vars, NEW s \in McpRequest, req'[s] # None
               PROVE  /\ req'[s].left \subseteq req'[s].asked
                      /\ NamesOf(req'[s].got) = req'[s].asked \ req'[s].left
    BY DEF Pending
  <1> DEFINE Goal == /\ req'[s].left \subseteq req'[s].asked
                     /\ NamesOf(req'[s].got) = req'[s].asked \ req'[s].left
  <1> TInv /\ TypeOK /\ Pending
    BY DEF AInv, TInv
  <1> USE EgressAssumption DEF Server
  <1>1. CASE req'[s] = req[s]
    BY <1>1 DEF Pending
  <1>2. ASSUME NEW names, NEW h, NEW p, Ask(s, names, h, p) PROVE Goal
    <2>1. ~Refused(s)
      BY DEF Refused, EndMcp, TypeOK
    <2>2. req' = [req EXCEPT ![s] = [kind |-> "mcp", host |-> h, port |-> p,
                                     asked |-> names, left |-> names, got |-> {}]]
      BY <1>2, <2>1 DEF Ask
    <2>3. req'[s].asked = names /\ req'[s].left = names /\ req'[s].got = {}
      BY <2>2 DEF TypeOK
    <2> QED
      BY <2>3 DEF NamesOf
  <1>3. ASSUME Resolve(s), NEW n \in req[s].left, Resolved(s, n) PROVE Goal
    <2>1. PICK t \in Token : Resolved(s, n)!(t)
      BY <1>3 DEF Resolved
    <2>2. req[s] # None /\ req[s] \in Asking
      BY <1>3, RequestTypes DEF Resolve, TInv, Busy
    <2>3. /\ req'[s].asked = req[s].asked /\ req'[s].left = req[s].left \ {n}
          /\ req'[s].got = req[s].got \cup {t}
      BY <2>1, <2>2 DEF Asking, TypeOK
    <2>4. NameOf[t[2]] = n
      BY <2>1 DEF Last
    <2>5. NamesOf(req[s].got \cup {t}) = NamesOf(req[s].got) \cup {n}
      BY <2>4 DEF NamesOf
    <2>6. req[s].left \subseteq req[s].asked /\ NamesOf(req[s].got) = req[s].asked \ req[s].left
      BY <2>2 DEF Pending
    <2>7. n \in req[s].left
      BY <1>3
    <2>8. NamesOf(req'[s].got) = NamesOf(req[s].got) \cup {n}
      BY <2>3, <2>5
    <2>9. (req[s].asked \ req[s].left) \cup {n} = req[s].asked \ (req[s].left \ {n})
      BY <2>6, <2>7
    <2> QED
      BY <2>3, <2>6, <2>8, <2>9
  <1>4. ASSUME NEW g \in Gateway, GatewayStep(g) PROVE req'[s] = req[s]
    BY <1>4 DEF GatewayStep, Bind, Open, Revoke, Shutdown, Proxy, Take, Forward, Provider, ProviderForward,
                NoBinding, Drop, TypeOK
  <1>5. ASSUME NEW m \in McpRequest, McpStep(m), req'[s] # req[s] PROVE Goal
    <2>1. s = m /\ ~Refused(m)
      BY <1>5 DEF McpStep, Bind, Open, Ask, Resolve, Resolved, Unresolved, Refused, Send, SendFails, EndMcp, TypeOK
    <2>2. CASE Idle(m) /\ \E names \in SUBSET Name, h \in Host, p \in Port : Ask(m, names, h, p)
      BY <2>1, <2>2, <1>2
    <2>3. CASE Resolve(m)
      <3>1. PICK n \in req[m].left : Resolved(m, n)
        BY <2>1, <2>3 DEF Resolve, Unresolved
      <3> QED
        BY <2>1, <2>3, <3>1, <1>3
    <2>4. ~Bind(m) /\ ~Open(m) /\ ~Send(m) /\ ~SendFails(m)
      BY <1>5, <2>1 DEF Bind, Open, Send, SendFails, EndMcp, Refused, TypeOK
    <2> QED
      BY <1>5, <2>2, <2>3, <2>4 DEF McpStep
  <1> QED
    BY <1>1, <1>4, <1>5 DEF Next, vars, EditStep, GrantKey, Load, Save, AddAlias, Lapse

\* Only these steps send anything.
LEMMA Senders ==
  ASSUME [Next]_vars, sent' # sent
  PROVE  (\E g \in Gateway : Forward(g) \/ ProviderForward(g)) \/ \E m \in McpRequest : Send(m)
  <1>1. ASSUME NEW g \in Gateway, GatewayStep(g) PROVE Forward(g) \/ ProviderForward(g)
    BY <1>1 DEF GatewayStep, Bind, Open, Revoke, Shutdown, Proxy, Take, Provider, NoBinding, Drop
  <1>2. ASSUME NEW m \in McpRequest, McpStep(m) PROVE Send(m)
    BY <1>2 DEF McpStep, Bind, Open, Ask, Resolve, Resolved, Unresolved, Refused, SendFails
  <1> QED
    BY <1>1, <1>2 DEF Next, vars, EditStep, GrantKey, Load, Save, AddAlias, Lapse

LEMMA NextWholeSent == AInv /\ [Next]_vars => WholeSent'
  <1> SUFFICES ASSUME AInv, [Next]_vars, NEW r \in sent', r.server \in McpRequest
               PROVE  NamesOf(r.tokens) = r.asked
    BY DEF WholeSent
  <1> TInv /\ Pending /\ WholeSent
    BY DEF AInv
  <1>1. CASE r \in sent
    BY <1>1 DEF WholeSent
  <1>2. ASSUME NEW g \in Gateway, Forward(g) \/ ProviderForward(g), r \notin sent PROVE FALSE
    <2>1. ASSUME r.server = g PROVE FALSE
      BY <2>1, EgressAssumption
    <2>2. CASE Forward(g)
      BY <1>2, <2>1, <2>2 DEF Forward
    <2>3. CASE ProviderForward(g)
      <3>1. PICK t \in Token : ProviderForward(g)!(t)
        BY <2>3 DEF ProviderForward
      <3> QED
        BY <1>2, <2>1, <3>1
    <2> QED
      BY <1>2, <2>2, <2>3
  <1>3. ASSUME NEW m \in McpRequest, Send(m), r \notin sent PROVE NamesOf(r.tokens) = r.asked
    <2>1. /\ req[m] # None /\ req[m].left = {}
          /\ r.tokens = req[m].got /\ r.asked = req[m].asked
      BY <1>3 DEF Send
    <2> QED
      BY <2>1 DEF Pending
  <1> QED
    BY <1>1, <1>2, <1>3, Senders

\* An MCP request leaves with every secret it names or not at all, though grants lapse
\* between two of its resolutions.  (mcp/http_request.py:81)
THEOREM AllOrNothingHolds == Spec => []AllOrNothing
  <1>1. Init => AInv
    <2> SUFFICES ASSUME Init PROVE AInv
      OBVIOUS
    <2>1. TypeOK
      BY InitTypeOK
    <2> QED
      BY <2>1 DEF Init, AInv, TInv, Loaded, Opened, Busy, Pending, WholeSent, Server
  <1>2. AInv /\ [Next]_vars => AInv'
    BY NextTypeOK, NextLoaded, NextOpened, NextBusy, NextPending, NextWholeSent DEF AInv, TInv
  <1>3. AInv => AllOrNothing
    BY DEF AInv, WholeSent, NamesOf, AllOrNothing
  <1> QED
    BY <1>1, <1>2, <1>3, PTL DEF Spec
-----------------------------------------------------------------------------
(* Edits that do not overlap: keys stay listed, removed hosts stay out.    *)

Locked ==
    /\ \A e \in Editor : epc[e] = "loaded" => copy[e] = config
    /\ \A e, f \in Editor : epc[e] = "loaded" /\ epc[f] = "loaded" => e = f
\* A server's keys are still in the file; what was removed before it loaded is not
\* in what it loaded, nor in the file what was removed since.
Fresh ==
    /\ removed \cap config.allow = {}
    /\ \A s \in Server : Up(s) =>
          /\ Listed(conf[s]) \subseteq Listed(config)
          /\ gone[s] \cap conf[s].allow = {}
Cleaned == \A a \in shown :
    /\ Up(a.server) /\ a.secrets \cap a.own = {}
    /\ a.server \in McpRequest => a.secrets \cap Listed(conf[a.server]) = {}
LInv == WInv /\ Locked /\ Fresh /\ Cleaned

LEMMA NextLocked ==
  ASSUME ~Overlap, LInv, [Next]_vars
  PROVE  Locked'
  <1> TypeOK /\ Locked
    BY DEF LInv, WInv, TInv
  <1>1. CASE UNCHANGED edits
    BY <1>1 DEF edits, Locked
  <1>2. ASSUME NEW e \in Editor, GrantKey(e) \/ AddAlias(e) PROVE Locked'
    <2>1. /\ UNCHANGED <<config, copy>>
          /\ epc' = [epc EXCEPT ![e] = "granted"] \/ epc' = [epc EXCEPT ![e] = "done"]
      BY <1>2 DEF GrantKey, AddAlias
    <2>2. \A f \in Editor : epc'[f] = "loaded" => epc[f] = "loaded"
      BY <2>1 DEF TypeOK
    <2> QED
      BY <2>1, <2>2 DEF Locked
  <1>3. ASSUME NEW e \in Editor, Load(e) PROVE Locked'
    BY <1>3 DEF Load, MayLoad, Locked, TypeOK
  <1>4. ASSUME NEW e \in Editor, Save(e) PROVE Locked'
    BY <1>4 DEF Save, Locked, TypeOK
  <1> QED
    BY <1>1, <1>2, <1>3, <1>4, EditsOnly DEF EditStep

\* What an edit of the file does to its keys and its allowlist.
LEMMA EditedLists ==
  ASSUME NEW c \in Config, NEW e \in Editor, e.op # "add", stored \in [Alias -> SUBSET Host]
  PROVE  /\ Listed(c) \subseteq Listed(Edited(c, e))
         /\ Edited(c, e).allow = IF e.op = "remove" THEN c.allow \ {e.host} ELSE c.allow \cup Allows(e)
  <1> DEFINE d == Edited(c, e)
  <1>1. e \in Command /\ c.keys \in Seq(Key)
    BY EgressAssumption DEF Config
  <1>2. CASE e.op = "key"
    <2>1. d.keys = Append(c.keys, e.key) /\ d.allow = c.allow /\ Allows(e) = {}
      BY <1>2 DEF Edited, KeyListed, Allows, Config
    <2>2. Listed(c) \subseteq Listed(d)
      <3> HIDE DEF d
      <3> SUFFICES ASSUME NEW i \in DOMAIN c.keys PROVE i \in DOMAIN d.keys /\ d.keys[i] = c.keys[i]
        BY DEF Listed
      <3> QED
        BY <1>1, <2>1
    <2> QED
      BY <1>2, <2>1, <2>2
  <1>3. CASE e.op = "allow"
    <2>1. d.keys = c.keys /\ d.allow = c.allow \cup {e.host}
      BY <1>3 DEF Edited, HostAllowed, Config
    <2> QED
      BY <1>3, <2>1 DEF Listed, Allows
  <1>4. CASE e.op = "remove"
    <2>1. d.keys = c.keys /\ d.allow = c.allow \ {e.host}
      BY <1>4 DEF Edited, HostRemoved, Config
    <2> QED
      BY <1>4, <2>1 DEF Listed
  <1>5. CASE e.op = "use"
    <2>1. Edited(c, e) = Assigned(c, e)
      BY <1>5 DEF Edited
    <2>2. d.keys = c.keys /\ d.allow = c.allow \cup stored[e.alias]
      BY <2>1 DEF Assigned, Config
    <2> QED
      BY <1>5, <2>2 DEF Listed, Allows
  <1>6. CASE e.op = "policy"
    <2>1. d.keys = c.keys /\ d.allow = c.allow
      BY <1>6 DEF Edited, RuleSet, Config
    <2> QED
      BY <1>6, <2>1 DEF Listed, Allows
  <1>7. CASE e.op = "proxy"
    <2>1. d.keys = c.keys /\ d.allow = c.allow \cup {e.host}
      BY <1>7 DEF Edited, ProviderActivated, Config
    <2> QED
      BY <1>7, <2>1 DEF Listed, Allows
  <1> QED
    BY <1>1, <1>2, <1>3, <1>4, <1>5, <1>6, <1>7 DEF Command

LEMMA NextFile ==
  ASSUME LInv, [Next]_vars
  PROVE  Listed(config) \subseteq Listed(config') /\ removed' \cap config'.allow = {}
  <1> TypeOK /\ Locked /\ Fresh /\ Loaded
    BY DEF LInv, WInv, TInv
  <1>1. CASE UNCHANGED <<config, removed>>
    BY <1>1 DEF Fresh, Listed
  <1>2. ASSUME NEW e \in Editor, Save(e)
        PROVE  Listed(config) \subseteq Listed(config') /\ removed' \cap config'.allow = {}
    <2>1. /\ config \in Config /\ e.op # "add" /\ config' = Edited(config, e)
          /\ removed' = IF e.op = "remove" THEN removed \cup {e.host} ELSE removed \ Allows(e)
      BY <1>2 DEF Save, Locked, Loaded, TypeOK
    <2>2. /\ Listed(config) \subseteq Listed(config')
          /\ config'.allow = IF e.op = "remove" THEN config.allow \ {e.host} ELSE config.allow \cup Allows(e)
      BY <2>1, EditedLists DEF TypeOK
    <2> QED
      BY <2>1, <2>2 DEF Fresh
  <1> QED
    BY <1>1, <1>2, EditsOnly DEF EditStep, edits, GrantKey, Load, AddAlias

\* A server comes up by Open alone, and then notes what is gone.
LEMMA Opens ==
  ASSUME TInv, [Next]_vars, NEW s \in Server, ~Open(s)
  PROVE  (Up(s)' => Up(s)) /\ gone'[s] = gone[s]
  <1> DEFINE Goal == (Up(s)' => Up(s)) /\ gone'[s] = gone[s]
  <1> TypeOK /\ Busy
    BY DEF TInv
  <1> USE EgressAssumption DEF TypeOK, Up, Server
  <1>1. CASE UNCHANGED <<spc, gone>>
    BY <1>1
  <1>2. ASSUME NEW u \in Server, Bind(u) \/ Open(u) PROVE Goal
    BY <1>2 DEF Bind, Open
  <1>3. ASSUME NEW g \in Gateway, Revoke(g) \/ Shutdown(g) PROVE Goal
    BY <1>3 DEF Revoke, Shutdown
  <1>4. ASSUME NEW m \in McpRequest, EndMcp(m), Up(m) PROVE Goal
    BY <1>4 DEF EndMcp
  <1>5. ASSUME NEW g \in Gateway, GatewayStep(g) PROVE Goal
    BY <1>1, <1>2, <1>3, <1>5 DEF GatewayStep, Proxy, Take, Forward, Provider, ProviderForward, NoBinding, Drop
  <1>6. ASSUME NEW m \in McpRequest, McpStep(m) PROVE Goal
    <2>1. CASE UNCHANGED <<spc, gone>>
      BY <1>1, <2>1
    <2>2. CASE Bind(m) \/ Open(m)
      BY <1>2, <2>2
    <2>3. CASE EndMcp(m) /\ (Idle(m) \/ req[m] # None)
      <3>1. Up(m)
        BY <2>3 DEF Idle, Busy
      <3> QED
        BY <1>4, <2>3, <3>1
    <2> QED
      BY <1>6, <2>1, <2>2, <2>3 DEF McpStep, Ask, Resolve, Resolved, Unresolved, Refused, Send, SendFails
  <1> QED
    BY <1>1, <1>5, <1>6 DEF Next, vars, EditStep, GrantKey, Load, Save, AddAlias, Lapse

LEMMA NextFresh ==
  ASSUME LInv, [Next]_vars
  PROVE  Fresh'
  <1> TInv /\ TypeOK /\ Fresh
    BY DEF LInv, WInv, TInv
  <1>1. Listed(config) \subseteq Listed(config') /\ removed' \cap config'.allow = {}
    BY NextFile
  <1>2. ASSUME NEW s \in Server, Up(s)'
        PROVE  Listed(conf'[s]) \subseteq Listed(config') /\ gone'[s] \cap conf'[s].allow = {}
    <2>1. CASE Open(s)
      <3>1. conf'[s] = config /\ gone'[s] = removed
        BY <2>1 DEF Open, TypeOK
      <3> QED
        BY <1>1, <3>1 DEF Fresh
    <2>2. CASE ~Open(s)
      <3>1. Up(s)
        BY <1>2, <2>2, Opens
      <3>2. conf'[s] = conf[s]
        BY <3>1, Frozen
      <3>3. gone'[s] = gone[s]
        BY <2>2, Opens
      <3> QED
        BY <1>1, <3>1, <3>2, <3>3 DEF Fresh
    <2> QED
      BY <2>1, <2>2
  <1> QED
    BY <1>1, <1>2 DEF Fresh

LEMMA NextCleaned ==
  ASSUME LInv, [Next]_vars
  PROVE  Cleaned'
  <1> SUFFICES ASSUME NEW a \in shown'
               PROVE  /\ Up(a.server)' /\ a.secrets \cap a.own = {}
                      /\ a.server \in McpRequest => a.secrets \cap Listed(conf'[a.server]) = {}
    BY DEF Cleaned
  <1> TInv /\ TypeOK /\ Fresh /\ Cleaned
    BY DEF LInv, WInv, TInv
  <1>1. ASSUME a.server \in Server, Up(a.server) PROVE Up(a.server)' /\ conf'[a.server] = conf[a.server]
    BY <1>1, Frozen
  <1>2. CASE a \in shown
    <2>1. a.server \in Server /\ Up(a.server)
      BY <1>2 DEF TypeOK, Shown, Cleaned
    <2> QED
      BY <1>1, <1>2, <2>1 DEF Cleaned
  <1>3. ASSUME NEW g \in Gateway, ProviderForward(g), a \notin shown
        PROVE  Up(a.server)' /\ a.server = g /\ a.secrets \cap a.own = {}
    <2>1. PICK t \in Token : ProviderForward(g)!(t)
      BY <1>3 DEF ProviderForward
    <2>2. PICK echo : a = [server |-> g, own |-> {SecretOf(t)}, secrets |-> echo \ {SecretOf(t)}]
      BY <1>3, <2>1 DEF Answer
    <2>3. Up(g) /\ g \in Server
      BY <2>1 DEF TInv, Busy, Up, Server
    <2> QED
      BY <1>1, <2>2, <2>3
  <1>4. ASSUME NEW m \in McpRequest, Send(m), a \notin shown
        PROVE  /\ Up(a.server)' /\ a.secrets \cap a.own = {}
               /\ a.secrets \cap Listed(conf'[a.server]) = {}
    <2>1. PICK echo : a = [server |-> m, own |-> {SecretOf(t) : t \in req[m].got}, secrets |-> echo \ Hidden(m)]
      BY <1>4 DEF Send, Answer
    <2>2. Up(m) /\ m \in Server
      BY <1>4 DEF Send, TInv, Busy, Up, Server
    <2>3. Listed(conf[m]) \subseteq Hidden(m) /\ {SecretOf(t) : t \in req[m].got} \subseteq Hidden(m)
      BY <2>2 DEF Fresh, Hidden
    <2> QED
      BY <1>1, <2>1, <2>2, <2>3
  <1>5. ASSUME NEW g \in Gateway, GatewayStep(g), shown' # shown PROVE ProviderForward(g)
    BY <1>5 DEF GatewayStep, Bind, Open, Revoke, Shutdown, Proxy, Take, Forward, Provider, NoBinding, Drop
  <1>6. ASSUME NEW m \in McpRequest, McpStep(m), shown' # shown PROVE Send(m)
    BY <1>6 DEF McpStep, Bind, Open, Ask, Resolve, Resolved, Unresolved, Refused, SendFails
  <1> QED
    BY <1>2, <1>3, <1>4, <1>5, <1>6, EgressAssumption
       DEF Next, vars, EditStep, GrantKey, Load, Save, AddAlias, Lapse

LEMMA LInvHolds == ~Overlap => (Spec => []LInv)
  <1> SUFFICES ASSUME ~Overlap PROVE Spec => []LInv
    OBVIOUS
  <1>1. Init => LInv
    <2> SUFFICES ASSUME Init PROVE LInv
      OBVIOUS
    <2>1. TypeOK
      BY InitTypeOK
    <2> QED
      BY <2>1 DEF Init, LInv, WInv, TInv, Loaded, Opened, Busy, ReqSafe, SentSafe, Locked, Fresh, Cleaned, Up
  <1>2. LInv /\ [Next]_vars => LInv'
    BY NextTypeOK, NextLoaded, NextOpened, NextBusy, NextReqSafe, NextSentSafe, NextLocked, NextFresh, NextCleaned
       DEF LInv, WInv, TInv
  <1> QED
    BY <1>1, <1>2, PTL DEF Spec

\* As long as no two commands are between load and save, an answer shows neither the
\* secrets its request carried nor, for an MCP request, any key its server had loaded:
\* a file that loses no key hides at the third load what was listed at the second.
\* (mcp/http_request.py:98)
THEOREM AnswersCleanHolds == ~Overlap => (Spec => []AnswersClean)
  <1>1. LInv => AnswersClean
    BY DEF LInv, Cleaned, AnswersClean
  <1> QED
    BY <1>1, LInvHolds, PTL

\* As long as no two commands are between load and save, a host whose removal no later
\* command took back gets no secret from a server that starts after.  (cli/common.py:117)
THEOREM RemovedStayOut == ~Overlap => (Spec => []RemovalHolds)
  <1>1. LInv => RemovalHolds
    <2> SUFFICES ASSUME LInv, NEW r \in sent, r.tokens # {} PROVE r.host \notin gone[r.server]
      BY DEF RemovalHolds
    <2>1. Up(r.server) /\ r.server \in Server /\ r.host \in conf[r.server].allow
      BY DEF LInv, WInv, TInv, TypeOK, Sent, SentSafe, SafeSend, SafeTo
    <2> QED
      BY <2>1 DEF LInv, Fresh
  <1> QED
    BY <1>1, LInvHolds, PTL
=============================================================================
