---------------------------- MODULE SecretGrants ----------------------------
(***************************************************************************)
(* The secret stores of AgentSecure and the commands that race on them.    *)
(*                                                                         *)
(* Four JSON files are shared by every AgentSecure process of a user:      *)
(*   - ~/.agentsecure/vault/secrets.enc.json     store["vault"]            *)
(*   - <project>/.agentsecure/secrets.enc.json   store["project"]          *)
(*   - ~/.agentsecure/vault/aliases.json         aliases                   *)
(*   - <project>/.agentsecure/grants.json        grants                    *)
(* and the "secrets" list of agentsecure.json    config.                   *)
(* Each store class reads the whole file, changes its copy and replaces    *)
(* the file atomically (os.replace).  Nothing locks the file in between,   *)
(* so a read step and a write step are two actions here and other          *)
(* processes run between them.  A process may be killed between any two    *)
(* steps.                                                                  *)
(*                                                                         *)
(* A process is one command: every process runs once.  The secret id it    *)
(* generates (secrets.token_urlsafe) is unique, so it is named by the      *)
(* process itself.                                                         *)
(***************************************************************************)
EXTENDS Naturals

CONSTANTS
    Alias,       \* alias ids
    Assigned,    \* aliases listed under secret_aliases in agentsecure.json
    Required,    \* those of them with required = true
    Rotation,    \* `secrets add` / `secrets import` : SecretAliasService.add_alias
    Elsewhere,   \* rotations started from another project (another grants.json)
    Initial,     \* rotations that completed before the behaviour starts
    AliasOf,     \* the alias a rotation adds
    CliRun,      \* `agentsecure run` processes
    McpRequest,  \* agentsecure.http.request calls
    Gateway,     \* `agentsecure gateway` processes: a container without run id
    KeyCreate,   \* KeyManagementService.create_key
    KeyRevoke,   \* `keys revoke`
    NoId,        \* no secret id
    NoAlias,     \* the empty alias_id of a project key
    Mortal,      \* the processes that may be killed
    Overlap,     \* may two processes be between the read and the write of one file?
    Ttl,         \* lifetime of a grant, in clock ticks
    MaxClock     \* bound on the clock

Run == CliRun \cup McpRequest
Proc == Rotation \cup Run \cup Gateway \cup KeyCreate \cup KeyRevoke
SecretId == Rotation \cup KeyCreate

\* virt_... tokens: <<run, alias>> for a run binding, <<key, NoAlias>> for a project key.
Token == (Run \X Alias) \cup (KeyCreate \X {NoAlias})
NoToken == <<NoId, NoAlias>>

ASSUME ProcsAssumption ==
    /\ Rotation \cap (Run \cup Gateway \cup KeyCreate \cup KeyRevoke) = {}
    /\ KeyCreate \cap (Run \cup Gateway \cup KeyRevoke) = {}
    /\ CliRun \cap (McpRequest \cup Gateway \cup KeyRevoke) = {}
    /\ McpRequest \cap (Gateway \cup KeyRevoke) = {}
    /\ Gateway \cap KeyRevoke = {}
    /\ NoId \notin Proc /\ NoAlias \notin Alias
ASSUME AliasAssumption ==
    /\ Assigned \subseteq Alias /\ Required \subseteq Assigned
    /\ AliasOf \in [Rotation -> Alias]
    /\ Elsewhere \subseteq Rotation
    /\ Initial \subseteq Rotation
    /\ \A c, d \in Initial : AliasOf[c] = AliasOf[d] => c = d
ASSUME BoundsAssumption == Ttl \in Nat \ {0} /\ MaxClock \in Nat /\ Overlap \in BOOLEAN

VARIABLES
    store,     \* [{"vault", "project"} -> SUBSET SecretId]: the ids with a ciphertext
    aliases,   \* [Alias -> secret id or NoId]: secret_ref of each alias
    grants,    \* [Token -> Grant]
    config,    \* the keys listed under "secrets" in agentsecure.json
    clock,     \* wall clock in ticks
    pc,        \* where each process is
    todo,      \* run: aliases still to bind
    bound,     \* run: its bindings; rotation and revoke: grants still to revoke
    cur,       \* the token at hand in a put or a revoke
    held,      \* the grant record about to be put
    old,       \* rotation: secret_ref of the alias it found at its start
    fsnap,     \* the copy of the secret store or of config a process has read
    asnap,     \* the copy of aliases.json a process has read
    gsnap,     \* the copy of grants.json a process has read
    look,      \* a resolution under way: the grant passed, the secret not read yet
    injected   \* history: which process obtained which secret for which token

files == <<store, aliases, grants, config>>
snaps == <<fsnap, asnap, gsnap>>
vars == <<store, aliases, grants, config, clock, pc, todo, bound, cur, held, old,
          fsnap, asnap, gsnap, look, injected>>

Status == {"absent", "active", "revoked"}
Grant == [status : Status, ref : SecretId \cup {NoId}, expires : Nat]
NoGrant == [status |-> "absent", ref |-> NoId, expires |-> 0]
NoGrants == [t \in Token |-> NoGrant]
NoAliases == [a \in Alias |-> NoId]
NoLookup == [token |-> NoToken, ref |-> NoId]
Lookup == [token : Token, ref : SecretId \cup {NoId}] \cup {NoLookup}

StoreOf(p) == IF p \in Rotation THEN "vault" ELSE "project"

\* The stretches between the read and the write of a file, by file.
GrantWindow == {"putWrite", "revWrite"}
StoreWindow == {"vputWrite", "vdelWrite"}
AliasWindow == {"aputWrite"}
ConfigWindow == {"cfgWrite"}
MayOpen(window) == Overlap \/ \A q \in Proc : pc[q] \notin window

\* "failed": a run that left before its try block.
Ended == {"done", "failed", "dead"}
Active(t) == grants[t].status = "active"
\* Mutant: a status no reader knows.
NewGrantBadStatus(id) == [status |-> "new", ref |-> id, expires |-> clock + Ttl]
NewGrant(id) == [status |-> "active", ref |-> id, expires |-> clock + Ttl]

Init ==
    /\ store = [s \in {"vault", "project"} |-> IF s = "vault" THEN Initial ELSE {}]
    /\ aliases = [a \in Alias |->
          IF \E c \in Initial : AliasOf[c] = a
          THEN CHOOSE c \in Initial : AliasOf[c] = a ELSE NoId]
    /\ grants = NoGrants
    /\ config = {}
    /\ clock = 0
    /\ pc = [p \in Proc |-> IF p \in Initial THEN "done"
                            ELSE IF p \in Gateway THEN "up" ELSE "start"]
    /\ todo = [p \in Proc |-> {}]
    /\ bound = [p \in Proc |-> {}]
    /\ cur = [p \in Proc |-> NoToken]
    /\ held = [p \in Proc |-> NoGrant]
    /\ old = [p \in Proc |-> NoId]
    /\ fsnap = [p \in Proc |-> {}]
    /\ asnap = [p \in Proc |-> NoAliases]
    /\ gsnap = [p \in Proc |-> NoGrants]
    /\ look = [p \in Proc |-> NoLookup]
    /\ injected = {}

Goto(p, label) == pc' = [pc EXCEPT ![p] = label]
-----------------------------------------------------------------------------
(* A run binds its aliases: SecretAliasService.prepare_run_bindings.       *)

OpenRun(r) ==
    /\ pc[r] = "start"
    /\ todo' = [todo EXCEPT ![r] = Assigned]
    /\ Goto(r, "prep")
    /\ UNCHANGED <<files, clock, bound, cur, held, old, snaps, look, injected>>

\* A missing alias that is not required is skipped.
SkipAlias(r, a) ==
    /\ pc[r] = "prep" /\ a \in todo[r] \ Required /\ aliases[a] = NoId
    /\ todo' = [todo EXCEPT ![r] = @ \ {a}]
    /\ UNCHANGED <<files, clock, pc, bound, cur, held, old, snaps, look, injected>>

\* A missing required alias raises SecretAliasError, which leaves the command
\* before its try block: the grants already put are not revoked.
MissingAlias(r, a) ==
    /\ pc[r] = "prep" /\ a \in todo[r] \cap Required /\ aliases[a] = NoId
    /\ Goto(r, "failed")
    /\ UNCHANGED <<files, clock, todo, bound, cur, held, old, snaps, look, injected>>

\* The alias record is read and the grant computed from it and from the clock.
PrepareAlias(r, a) ==
    /\ pc[r] = "prep" /\ a \in todo[r] /\ aliases[a] # NoId
    /\ clock + Ttl <= MaxClock
    /\ held' = [held EXCEPT ![r] = NewGrant(aliases[a])]
    /\ cur' = [cur EXCEPT ![r] = <<r, a>>]
    /\ Goto(r, "putRead")
    /\ UNCHANGED <<files, clock, todo, bound, old, snaps, look, injected>>

\* LocalJsonGrantStore.put, its read ...
GrantPutRead(p) ==
    /\ pc[p] = "putRead" /\ MayOpen(GrantWindow)
    /\ gsnap' = [gsnap EXCEPT ![p] = grants]
    /\ Goto(p, "putWrite")
    /\ UNCHANGED <<files, clock, todo, bound, cur, held, old, fsnap, asnap, look, injected>>

\* Mutant: the loop comes back to an alias it has bound.
RemainingAgain(r) == todo[r]
Remaining(r) == todo[r] \ {cur[r][2]}

\* ... and its write.  A run adds the binding to its list; a key goes on to the config.
GrantPutWrite(p) ==
    /\ pc[p] = "putWrite"
    /\ grants' = [gsnap[p] EXCEPT ![cur[p]] = held[p]]
    /\ gsnap' = [gsnap EXCEPT ![p] = NoGrants]
    /\ cur' = [cur EXCEPT ![p] = NoToken]
    /\ held' = [held EXCEPT ![p] = NoGrant]
    /\ \/ /\ p \in Run
          /\ todo' = [todo EXCEPT ![p] = Remaining(p)]
          /\ bound' = [bound EXCEPT ![p] = @ \cup {cur[p]}]
          /\ Goto(p, "prep")
       \/ /\ p \in KeyCreate
          /\ Goto(p, "cfgRead")
          /\ UNCHANGED <<todo, bound>>
    /\ UNCHANGED <<store, aliases, config, clock, old, fsnap, asnap, look, injected>>

\* All aliases are bound and the container is built from the config.  A CLI run
\* still has the workspace, the process policy, the gateway and the guidance
\* file to pass.
Prepared(r) ==
    /\ pc[r] = "prep" /\ todo[r] = {}
    /\ fsnap' = [fsnap EXCEPT ![r] = config]
    /\ Goto(r, IF r \in CliRun THEN "built" ELSE "up")
    /\ UNCHANGED <<files, clock, todo, bound, cur, held, old, asnap, gsnap, look, injected>>

LaunchAgent(r) ==
    /\ pc[r] = "built"
    /\ Goto(r, "up")
    /\ UNCHANGED <<files, clock, todo, bound, cur, held, old, snaps, look, injected>>

\* The command leaves between the bindings and its try block.  Of a run or a
\* request: the config, loaded again for the container, does not load.  Of a
\* run: workspace not created, process blocked, gateway not started, guidance
\* not written, bad proxy flag.  The finally clause that revokes the bindings
\* is not reached.
EarlyReturn(r) ==
    /\ pc[r] = "built" \/ (pc[r] = "prep" /\ todo[r] = {})
    /\ Goto(r, "failed")
    /\ look' = [look EXCEPT ![r] = NoLookup]
    /\ fsnap' = [fsnap EXCEPT ![r] = {}]
    /\ UNCHANGED <<files, clock, todo, bound, cur, held, old, asnap, gsnap, injected>>

\* The agent exits, or the HTTP exchange is over or failed: the finally clause.
\* An MCP request resolves in its own thread, so none is under way then.
FinishRun(r) ==
    /\ pc[r] = "up"
    /\ r \in McpRequest => look[r] = NoLookup
    /\ fsnap' = [fsnap EXCEPT ![r] = {}]
    /\ Goto(r, "revoke")
    /\ UNCHANGED <<files, clock, todo, bound, cur, held, old, asnap, gsnap, look, injected>>

\* The rest of a CLI run's finally clause: the gateway stops, the process ends.
StopGateway(r) ==
    /\ pc[r] = "closing"
    /\ Goto(r, "done")
    /\ look' = [look EXCEPT ![r] = NoLookup]
    /\ UNCHANGED <<files, clock, todo, bound, cur, held, old, snaps, injected>>
-----------------------------------------------------------------------------
(* Resolution: GrantAwareTokenResolver.resolve, called by the gateway of a *)
(* run, by the foreground gateway and by an MCP request.  A refusal        *)
(* changes nothing; the host check of PolicyAwareTokenResolver, made       *)
(* before, can only refuse and is left out.  A CLI run's gateway thread    *)
(* works until the process ends, its revocations included.                 *)

Resolves(p) ==
    \/ p \in CliRun /\ pc[p] \in {"built", "up", "revoke", "revWrite", "closing"}
    \/ p \in McpRequest \cup Gateway /\ pc[p] = "up"

\* A gateway is handed any token by its clients; an MCP request maps the
\* placeholders of its project's bindings.
Presents(p, t) == p \in McpRequest => t \in bound[p] \/ t[1] \in fsnap[p]

\* Mutant: the expiry of the grant is not compared.
AdmitsExpired(p, t) ==
    /\ Active(t)
    /\ t[1] \in Run => t[1] = p
\* Mutant: the run of the grant is not compared.
AdmitsAnyRun(p, t) == Active(t) /\ grants[t].expires > clock
Admits(p, t) ==
    /\ Active(t)
    /\ t[1] \in Run => t[1] = p
    /\ grants[t].expires > clock

ResolveGrant(p, t) ==
    /\ Resolves(p) /\ look[p] = NoLookup /\ Presents(p, t)
    /\ Admits(p, t)
    /\ look' = [look EXCEPT ![p] = [token |-> t, ref |-> grants[t].ref]]
    /\ UNCHANGED <<files, clock, pc, todo, bound, cur, held, old, snaps, injected>>

\* The secret of a run token is read from the vault, of a key from the project store.
ResolveSecret(p) ==
    /\ Resolves(p) /\ look[p] # NoLookup
    /\ injected' =
         IF look[p].ref \in store[IF look[p].token[1] \in Run THEN "vault" ELSE "project"]
         THEN injected \cup {[by |-> p, token |-> look[p].token, secret |-> look[p].ref]}
         ELSE injected
    /\ look' = [look EXCEPT ![p] = NoLookup]
    /\ UNCHANGED <<files, clock, pc, todo, bound, cur, held, old, snaps>>
-----------------------------------------------------------------------------
(* Revoking a list of grants: revoke_run_bindings, _revoke_runtime_bindings, *)
(* _revoke_alias_grants and `keys revoke`.                                   *)

\* `keys revoke` takes any token that `keys list` shows.
StartKeyRevoke(v, t) ==
    /\ pc[v] = "start" /\ v \in KeyRevoke /\ grants[t].status # "absent"
    /\ bound' = [bound EXCEPT ![v] = {t}]
    /\ Goto(v, "revoke")
    /\ UNCHANGED <<files, clock, todo, cur, held, old, snaps, look, injected>>

\* Mutant: a token that is not found is tried again.
RevokeMissingRetry(p, t) ==
    /\ pc[p] = "revoke" /\ t \in bound[p] /\ grants[t].status = "absent"
    /\ UNCHANGED vars
\* LocalJsonGrantStore.revoke of a token the file does not hold returns False.
RevokeMissing(p, t) ==
    /\ pc[p] = "revoke" /\ t \in bound[p] /\ grants[t].status = "absent"
    /\ bound' = [bound EXCEPT ![p] = @ \ {t}]
    /\ UNCHANGED <<files, clock, pc, todo, cur, held, old, snaps, look, injected>>

RevokeRead(p, t) ==
    /\ pc[p] = "revoke" /\ t \in bound[p] /\ grants[t].status # "absent"
    /\ MayOpen(GrantWindow)
    /\ gsnap' = [gsnap EXCEPT ![p] = grants]
    /\ cur' = [cur EXCEPT ![p] = t]
    /\ Goto(p, "revWrite")
    /\ UNCHANGED <<files, clock, todo, bound, held, old, fsnap, asnap, look, injected>>

RevokeWrite(p) ==
    /\ pc[p] = "revWrite"
    /\ grants' = [gsnap[p] EXCEPT ![cur[p]].status = "revoked"]
    /\ gsnap' = [gsnap EXCEPT ![p] = NoGrants]
    /\ bound' = [bound EXCEPT ![p] = @ \ {cur[p]}]
    /\ cur' = [cur EXCEPT ![p] = NoToken]
    /\ Goto(p, "revoke")
    /\ UNCHANGED <<store, aliases, config, clock, todo, held, old, fsnap, asnap, look, injected>>

AfterRevoke(p) ==
    IF p \in Rotation THEN "vdelRead" ELSE IF p \in CliRun THEN "closing" ELSE "done"

\* Mutant: the loop stops with one grant left.
RevokeDoneEarly(p) ==
    /\ pc[p] = "revoke" /\ \A t, u \in bound[p] : t = u
    /\ bound' = [bound EXCEPT ![p] = {}]
    /\ Goto(p, AfterRevoke(p))
    /\ UNCHANGED <<files, clock, todo, cur, held, old, snaps, look, injected>>
RevokeDone(p) ==
    /\ pc[p] = "revoke" /\ bound[p] = {}
    /\ Goto(p, AfterRevoke(p))
    /\ UNCHANGED <<files, clock, todo, bound, cur, held, old, snaps, look, injected>>
-----------------------------------------------------------------------------
(* SecretAliasService.add_alias: store the new secret, point the alias at  *)
(* it, then revoke the grants of the alias and delete the old secret.      *)

LookUpAlias(c) ==
    /\ pc[c] = "start" /\ c \in Rotation
    /\ old' = [old EXCEPT ![c] = aliases[AliasOf[c]]]
    /\ Goto(c, "vputRead")
    /\ UNCHANGED <<files, clock, todo, bound, cur, held, snaps, look, injected>>

\* create_key fixes the token and the expiry before it stores anything.
StartKeyCreate(k) ==
    /\ pc[k] = "start" /\ k \in KeyCreate
    /\ clock + Ttl <= MaxClock
    /\ held' = [held EXCEPT ![k] = NewGrant(k)]
    /\ cur' = [cur EXCEPT ![k] = <<k, NoAlias>>]
    /\ Goto(k, "vputRead")
    /\ UNCHANGED <<files, clock, todo, bound, old, snaps, look, injected>>

MayOpenStore(p) ==
    Overlap \/ \A q \in Proc : pc[q] \in StoreWindow => StoreOf(q) # StoreOf(p)

\* EncryptedLocalSecretStore.put
StorePutRead(p) ==
    /\ pc[p] = "vputRead" /\ MayOpenStore(p)
    /\ fsnap' = [fsnap EXCEPT ![p] = store[StoreOf(p)]]
    /\ Goto(p, "vputWrite")
    /\ UNCHANGED <<files, clock, todo, bound, cur, held, old, asnap, gsnap, look, injected>>

\* Mutant: create_key writes the config entry and no grant.
AfterStorePutNoGrant(p) == IF p \in Rotation THEN "aputRead" ELSE "cfgRead"
AfterStorePut(p) == IF p \in Rotation THEN "aputRead" ELSE "putRead"

StorePutWrite(p) ==
    /\ pc[p] = "vputWrite"
    /\ store' = [store EXCEPT ![StoreOf(p)] = fsnap[p] \cup {p}]
    /\ fsnap' = [fsnap EXCEPT ![p] = {}]
    /\ Goto(p, AfterStorePut(p))
    /\ UNCHANGED <<aliases, grants, config, clock, todo, bound, cur, held, old,
                   asnap, gsnap, look, injected>>

\* LocalSecretAliasStore.put
AliasPutRead(c) ==
    /\ pc[c] = "aputRead" /\ MayOpen(AliasWindow)
    /\ asnap' = [asnap EXCEPT ![c] = aliases]
    /\ Goto(c, "aputWrite")
    /\ UNCHANGED <<files, clock, todo, bound, cur, held, old, fsnap, gsnap, look, injected>>

\* Mutant: a rotation with nothing to revoke leaves the old secret in the vault.
AfterAliasPutKeep(c) == IF old[c] = NoId \/ c \in Elsewhere THEN "done" ELSE "list"
AfterAliasPut(c) ==
    IF old[c] = NoId THEN "done" ELSE IF c \in Elsewhere THEN "vdelRead" ELSE "list"

AliasPutWrite(c) ==
    /\ pc[c] = "aputWrite"
    /\ aliases' = [asnap[c] EXCEPT ![AliasOf[c]] = c]
    /\ asnap' = [asnap EXCEPT ![c] = NoAliases]
    /\ Goto(c, AfterAliasPut(c))
    /\ UNCHANGED <<store, grants, config, clock, todo, bound, cur, held, old,
                   fsnap, gsnap, look, injected>>

\* The grants to revoke are those the file shows active for the alias at this moment.
ListGrants(c) ==
    /\ pc[c] = "list"
    /\ bound' = [bound EXCEPT ![c] = {t \in Token : Active(t) /\ t[2] = AliasOf[c]}]
    /\ Goto(c, "revoke")
    /\ UNCHANGED <<files, clock, todo, cur, held, old, snaps, look, injected>>

\* Mutant: the alias is read again after the put.
DoomedReread(c) == aliases[AliasOf[c]]
Doomed(c) == old[c]

\* EncryptedLocalSecretStore.delete
StoreDeleteMissing(c) ==
    /\ pc[c] = "vdelRead" /\ Doomed(c) \notin store["vault"]
    /\ Goto(c, "done")
    /\ UNCHANGED <<files, clock, todo, bound, cur, held, old, snaps, look, injected>>

StoreDeleteRead(c) ==
    /\ pc[c] = "vdelRead" /\ Doomed(c) \in store["vault"] /\ MayOpenStore(c)
    /\ fsnap' = [fsnap EXCEPT ![c] = store["vault"]]
    /\ Goto(c, "vdelWrite")
    /\ UNCHANGED <<files, clock, todo, bound, cur, held, old, asnap, gsnap, look, injected>>

StoreDeleteWrite(c) ==
    /\ pc[c] = "vdelWrite"
    /\ store' = [store EXCEPT !["vault"] = fsnap[c] \ {Doomed(c)}]
    /\ fsnap' = [fsnap EXCEPT ![c] = {}]
    /\ Goto(c, "done")
    /\ UNCHANGED <<aliases, grants, config, clock, todo, bound, cur, held, old,
                   asnap, gsnap, look, injected>>
-----------------------------------------------------------------------------
(* The last step of create_key: read agentsecure.json, append, save.       *)

ConfigRead(k) ==
    /\ pc[k] = "cfgRead" /\ MayOpen(ConfigWindow)
    /\ fsnap' = [fsnap EXCEPT ![k] = config]
    /\ Goto(k, "cfgWrite")
    /\ UNCHANGED <<files, clock, todo, bound, cur, held, old, asnap, gsnap, look, injected>>

ConfigWrite(k) ==
    /\ pc[k] = "cfgWrite"
    /\ config' = fsnap[k] \cup {k}
    /\ fsnap' = [fsnap EXCEPT ![k] = {}]
    /\ Goto(k, "done")
    /\ UNCHANGED <<store, aliases, grants, clock, todo, bound, cur, held, old,
                   asnap, gsnap, look, injected>>
-----------------------------------------------------------------------------
\* The process is killed: its memory is gone, the files stay as they are.
Crash(p) ==
    /\ p \in Mortal
    /\ pc[p] \notin Ended \cup {"start"}
    /\ Goto(p, "dead")
    /\ todo' = [todo EXCEPT ![p] = {}]
    /\ bound' = [bound EXCEPT ![p] = {}]
    /\ cur' = [cur EXCEPT ![p] = NoToken]
    /\ held' = [held EXCEPT ![p] = NoGrant]
    /\ fsnap' = [fsnap EXCEPT ![p] = {}]
    /\ asnap' = [asnap EXCEPT ![p] = NoAliases]
    /\ gsnap' = [gsnap EXCEPT ![p] = NoGrants]
    /\ look' = [look EXCEPT ![p] = NoLookup]
    /\ UNCHANGED <<files, clock, old, injected>>

Tick ==
    /\ clock < MaxClock
    /\ clock' = clock + 1
    /\ UNCHANGED <<files, pc, todo, bound, cur, held, old, snaps, look, injected>>

RunStep(r) ==
    \/ OpenRun(r) \/ Prepared(r) \/ LaunchAgent(r) \/ EarlyReturn(r) \/ FinishRun(r)
    \/ StopGateway(r)
    \/ \E a \in Alias : SkipAlias(r, a) \/ MissingAlias(r, a) \/ PrepareAlias(r, a)

RotationStep(c) ==
    \/ LookUpAlias(c) \/ AliasPutRead(c) \/ AliasPutWrite(c) \/ ListGrants(c)
    \/ StoreDeleteMissing(c) \/ StoreDeleteRead(c) \/ StoreDeleteWrite(c)

KeyCreateStep(k) == StartKeyCreate(k) \/ ConfigRead(k) \/ ConfigWrite(k)

StoreStep(p) == StorePutRead(p) \/ StorePutWrite(p) \/ GrantPutRead(p) \/ GrantPutWrite(p)

RevokeStep(p) ==
    \/ RevokeWrite(p) \/ RevokeDone(p)
    \/ \E t \in Token : RevokeMissing(p, t) \/ RevokeRead(p, t)

ResolveStep(p) == ResolveSecret(p) \/ \E t \in Token : ResolveGrant(p, t)

Next ==
    \/ \E r \in Run : RunStep(r)
    \/ \E c \in Rotation : RotationStep(c)
    \/ \E k \in KeyCreate : KeyCreateStep(k)
    \/ \E v \in KeyRevoke, t \in Token : StartKeyRevoke(v, t)
    \/ \E p \in Proc : StoreStep(p) \/ RevokeStep(p) \/ ResolveStep(p) \/ Crash(p)
    \/ Tick

Spec == Init /\ [][Next]_vars

\* A process that runs a revocation loop is scheduled.  Nothing makes an agent
\* exit or a user type a command.
FairSpec == Spec /\ \A p \in Proc : WF_vars(RevokeStep(p))
-----------------------------------------------------------------------------
Label == {"start", "up", "prep", "putRead", "putWrite", "built", "revoke", "revWrite",
          "closing", "vputRead", "vputWrite", "aputRead", "aputWrite", "list",
          "vdelRead", "vdelWrite", "cfgRead", "cfgWrite"} \cup Ended

\* Every variable has its type.
TypeOK ==
    /\ store \in [{"vault", "project"} -> SUBSET SecretId]
    /\ aliases \in [Alias -> SecretId \cup {NoId}]
    /\ grants \in [Token -> Grant]
    /\ config \in SUBSET SecretId
    /\ clock \in Nat
    /\ pc \in [Proc -> Label]
    /\ todo \in [Proc -> SUBSET Alias]
    /\ bound \in [Proc -> SUBSET Token]
    /\ cur \in [Proc -> Token \cup {NoToken}]
    /\ held \in [Proc -> Grant]
    /\ old \in [Proc -> SecretId \cup {NoId}]
    /\ fsnap \in [Proc -> SUBSET SecretId]
    /\ asnap \in [Proc -> [Alias -> SecretId \cup {NoId}]]
    /\ gsnap \in [Proc -> [Token -> Grant]]
    /\ look \in [Proc -> Lookup]
    /\ injected \in SUBSET [by : Proc, token : Token, secret : SecretId]

\* What a step needs to know of its process to keep the types: only a command
\* with a new secret is in a store put, and a token is at hand in a put.
AtPut(p) == \/ pc[p] \in {"putRead", "putWrite"}
            \/ pc[p] \in {"vputRead", "vputWrite"} /\ p \in KeyCreate
AtHand == \A p \in Proc : /\ pc[p] \in {"vputRead", "vputWrite"} => p \in SecretId
                          /\ AtPut(p) => cur[p] \in Token
TypeInv == TypeOK /\ AtHand

\* However the processes interleave, and whatever updates are lost, a run
\* token only ever yields a value of the alias it was issued for, inside the
\* run it was issued to; a project key only yields its own secret.
OwnSecretOnly ==
    \A i \in injected :
       IF i.token[1] \in Run
       THEN /\ i.by = i.token[1]
            /\ i.secret \in Rotation /\ AliasOf[i.secret] = i.token[2]
       ELSE i.secret = i.token[1]

\* Commands that do not overlap on a file: an alias never points at a secret
\* the vault does not hold, even when rotations of it interleave or die.
AliasBacked == \A a \in Alias : aliases[a] # NoId => aliases[a] \in store["vault"]

\* Once add_alias has returned, the value the alias had when it began is gone
\* from the vault, so no grant, active or not, yields it again.  (A value a
\* concurrent rotation put in the meantime, and this one replaced, is nobody's
\* old one: it stays in the vault.)
RotatedAway ==
    \A c \in Rotation : pc[c] = "done" => old[c] \notin store["vault"]

\* Commands that do not overlap on grants.json keep its promise: each of their writes
\* issues one token or revokes one, and no secret is obtained but after its own check,
\* though tokens, checks and reads of secrets come from processes that interleave and
\* die.  (implementations/grant_store.py:18, implementations/secrets.py:51)
Promise == INSTANCE Custody WITH
    Holder <- Proc,
    Fitting <- [t \in Token |-> IF t[1] \in Run THEN {c \in Rotation : AliasOf[c] = t[2]} ELSE {t[1]}],
    Presenter <- [t \in Token |-> IF t[1] \in Run THEN {t[1]} ELSE Proc]
CustodySpec == Promise!Spec

\* A run or request that got through its finally clause leaves no active grant.
\* (One that failed before its try block may: see McpGrantsRevoked.)
RunRevoked == \A r \in Run, a \in Alias : pc[r] = "done" => ~Active(<<r, a>>)

\* When create_key has returned, the secret, the grant and the config entry are
\* all there, and stay there.
CreatedKeyKept ==
    \A k \in KeyCreate : pc[k] = "done" =>
       /\ k \in store["project"] /\ k \in config
       /\ grants[<<k, NoAlias>>].ref = k

\* Whatever updates are lost, brought back or repeated, and however a run races
\* the rotations of its aliases, nothing renews a grant: two versions of
\* grants.json in a row never give one token two secrets or two lifetimes.
NeverRenewed ==
    [][\A t \in Token : grants[t].status # "absent" /\ grants'[t].status # "absent"
          => grants'[t].ref = grants[t].ref /\ grants'[t].expires = grants[t].expires]_vars

\* The revocation loops end.
RevocationEnds == \A p \in Proc : pc[p] = "revoke" ~> pc[p] # "revoke" /\ bound[p] = {}

\* docs/security-model.md: grants of an MCP request "are revoked after the
\* request", also of a request that failed on a missing required alias.
McpGrantsRevoked ==
    \A r \in McpRequest, a \in Alias : pc[r] \in {"done", "failed"} => ~Active(<<r, a>>)
=============================================================================
