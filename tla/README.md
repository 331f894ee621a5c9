# AgentSecure Community: a TLA+ development of its local state

AgentSecure keeps real secrets away from coding agents. A secret lives in an
encrypted vault; a project names it by an alias; an agent is started with virtual
tokens (`virt_...`) and placeholders; a gateway, or the MCP server, puts the real
value into a request after a host policy has allowed its destination. Nearly all of
it is done by short-lived commands that share a handful of JSON files and take no
lock between reading one and writing it back.

These modules model that shared state: who reads and writes what, in which order,
what happens when commands interleave, are killed, fail half way or are repeated,
and what each of them promises. TLC checks the modules on small instances; TLAPS
proves the invariants and action properties that the runs check (all but one), and the two
refinements, for every value of the constants; section 4 names what each theorem assumes.

Contents: [1 inventory](#1-inventory), [2 modules](#2-modules-and-code),
[3 runs](#3-what-is-checked), [4 theorems](#4-what-is-proved),
[5 disagreements](#5-where-code-and-documents-disagree),
[6 limits](#6-what-is-not-modelled), [7 plan](#7-plan). Paths below are relative to
`src/`; `PROJECT.json` maps every definition that models code to its lines.

To run: `tlc -workers 2 -config egress.cfg MCEgress`, `tlapm SecretGrantsProofs.tla`.

## 1 Inventory

### 1.1 Shared state

| File | Written by | Module |
| --- | --- | --- |
| `~/.agentsecure/vault/secrets.enc.json` | `secrets add`, `secrets import` (rotation: put, later delete) | `SecretGrants.store["vault"]` |
| `~/.agentsecure/vault/aliases.json` | `secrets add`, `secrets import` | `SecretGrants.aliases`, `Egress.stored` |
| `~/.agentsecure/vault/device.key` | the first command that needs a vault; removed by `cleanup` | `VaultKey.keyfile` |
| `<project>/.agentsecure/secrets.enc.json` | `keys create`; removed by `cleanup` | `SecretGrants.store["project"]`, `VaultKey.data` |
| `<project>/.agentsecure/grants.json` | runs, MCP requests, `keys create`, `keys revoke`, rotations | `SecretGrants.grants`, `Egress.live` |
| `agentsecure.json` | `init`, `network`, `policy`, `secrets use`, `keys create`, `policy apply-local`, `proxy setup`, runs that discover secrets, `config`, imports | `AgentEnv.config`, `Egress.config`, `SecretGrants.config`, `Dotenv.assigned` |
| `.agentsecure/mesh.json`, audit log | every mesh command and mesh tool | `MeshBoard.mesh`, `Mesh.audit` |
| the project's dotenv files, `.agentsecure/backups` | `secrets import`, `secrets restore`, `uninstall`, the user | `Dotenv` |
| a run's workspace | `agentsecure run`, the agent, `apply` | `Workspace.tree` |

Every store class (`implementations/*_store.py`, `mesh/store.py`, `cli/common.py`)
reads the whole file, changes its copy and replaces the file with `os.replace`: a
single read and a single write are atomic, the pair is not.

### 1.2 Components

**Secret aliases** (`core/secret_aliases.py`). State: vault, alias file, and through
them the grants. Operations: `add_alias` (put the new secret, point the alias at it,
revoke grants of the old one, delete the old one), `assign_to_project`,
`prepare_run_bindings` (for each assigned alias read it, put a grant),
`revoke_grants`. Hard: a rotation is up to seven file updates, with runs, other
rotations and kills between any two. Correct if an alias always has a value, a
finished rotation has removed the old one, and no token yields another alias' value.

**Grants and token resolution** (`implementations/grant_store.py`,
`implementations/secrets.py`). State: `grants.json`.
Operations: put, revoke, get, and resolve in two reads (the grant, then the secret).
Hard: the check and the read are apart; an update lost to an overlapping one, which also
brings revoked grants back. Correct if a token is worth one secret for one lifetime, whatever is
lost, and if without such a loss a finished run leaves no grant.

**Project keys** (`core/key_service.py`). `create_key` puts a secret, a grant and a
configuration entry; `keys revoke` revokes the grant. Correct if a created key is
whole.

**Agent run** (`cli/main.py: run_agent`). Binds aliases, builds the workspace, starts
a gateway, launches the agent, and in a `finally` clause removes the workspace and
revokes. With discovery it creates a key for each name it takes away from the agent,
works out a broker URL for some, picks a port for its gateway, and gives the agent an
environment of tokens, URLs and what is left of the shell's. Hard: several returns lie
between the binding and the `try`; the run loads `agentsecure.json` once per key and three
more times, and others edit it in between; a port that was free may be taken. Correct if
no value the run took away is in the agent's environment or shows in its output, and the
agent talks to its own gateway.

**MCP requests** (`mcp/http_request.py`). One process' worth of bind, decide,
resolve name by name, send, clean, revoke. Hard: a name that stops resolving half
way, a configuration that is loaded three times.

**Gateway** (`gateway/proxy.py`). Absolute-URL requests and provider requests: decide
by host, substitute a token or pick a binding, forward, scrub the answer. Hard: its
configuration is as old as the run, its grants as new as the request.

**Network policy and configuration edits** (`implementations/policy.py`,
`cli/common.py`, `core/policy_mutation.py`, `core/policy_ports.py`, `core/config.py`).
State: `agentsecure.json`. Operations: network allow and remove, policy set, secrets use,
keys create, proxy setup, `policy apply-local`, which merges a payload of rules and local
services and gives services ports. Hard: approvals are kept in four places (alias file,
assignment, environment policy, allowed domains) and joined; a payload is merged field by
field and validated as a whole; ports must stay where brokers listen. Correct if a secret
leaves only to hosts that all the places allow, a removal holds, no command but `proxy
setup`, which does not check, leaves a file that does not load, and a service keeps its port, one
no other was given.

**Agent mesh** (`mesh/`). State: `mesh.json` and the audit log. Operations:
send, read, reply, approvals, register, launch profiles, watch, wake, launch. Hard:
reply is three loads and two saves; watch decides by one load and acts on another.
Correct if the service behaves as a board on which each command acts at once, a
reply goes back where its original came from, and a waiting message wakes its agent.

**Dotenv import, backup, restore, uninstall** (`cli/main.py`,
`core/dotenv_backups.py`, `discovery/dotenv_scanner.py`). State: a dotenv file, its backups, the
values behind its aliases. Hard: the file is read three times at three moments, copies
are made in place, backups are ordered by a copied modification time, and each name an import
adds is up to three updates of the vault's files, none of them locked. Correct if a value the user
gave is somewhere and a placeholder resolves, and if what two imports can do to each other stays
within the aliases they overlap on.

**Device key and cipher** (`crypto/`). State: `device.key`. Hard: exclusive creation
followed by a write; two first commands; `cleanup`, which removes the key and the store
one after the other under commands that hold either. Correct if commands that start after
the last removal, and not in the moment when the file is still empty, agree with the file on one
key, and what they stored stays readable whatever the others write.

**Workspace** (`workspace/`). State: a second tree per run. Operations: discover,
materialise (copy, link or rewrite file by file), diff, apply. Hard: links let the
agent's and the user's edits reach each other; apply plans first and copies later.
Correct if no dotenv file in a workspace shows a value its run knew to replace, and protected
files change by the user's hand only.

**Not modelled**: discovery and guided start (reads and prompts), scanner (read-only
pattern matching), command guard wrappers, the MCP server loop (stateless between
lines), cloud, daemon and API stubs, receipts, demo, argument parsing. The reasons
are in `PROJECT.json` and in section 6.

### 1.3 How the components meet

```
 secrets add/import ──put──> vault, aliases.json <──read── run / MCP request
        │                                                      │ put grants
        └── revoke, delete ──> grants.json <───────────────────┘
 keys create ──> project store, grants.json, agentsecure.json        │
 network/policy/use/proxy ──edit──> agentsecure.json ──load──> gateway / MCP request
 secrets import ──rewrite──> .env ──materialise──> workspace ──apply──> project
 mesh commands ──load/save──> mesh.json <──poll── watch ──> notify or launch
```

`SecretGrants` follows the secret and its grants through the files. `Egress` takes
grants as live or lapsed and follows the configuration and the request instead. `Dotenv` has the
steps of `add_alias` and `assign_to_project` that touch the vault and the list of assigned
aliases, and leaves the grants to `SecretGrants`. `AgentEnv` takes
secrets and grants for granted and follows the rules, keys and services of the
configuration into an agent's environment; with `Policy` it owns the fields `Egress` leaves
out. `VaultKey` is what stands under every vault access of the others. `Mesh` extends `MeshBoard`.

### 1.4 Hazards

`PROJECT.json` lists forty, each at its line with the property that would see it go wrong, or a
note on what no property covers. They fall into few families: an update lost between a read and a
write; a check and its use apart (grants, configuration, plans, scans); a command that ends
between two of its writes; an early return past a `finally`; order taken from a clock or from a
list; repeated commands; and what must eventually happen although nobody makes it happen (the
revocation loop, the watch).

## 2 Modules and code

All modules follow one pattern. A process is one command and runs once; a process
that must run twice is two processes. `pc[p]` is where it stands. A handler that
reads and then writes a file is two actions, `...Read` and `...Write` (or `Load` and
`Save`), the copy it holds in between is a variable (`fsnap`, `gsnap`, `copy`, `snap`),
and whatever the code does between its own file accesses belongs to the action before.
Generated ids (`secrets.token_urlsafe`, uuids) are unique, so a thing is named by the
command that makes it. Ciphertexts, tokens and messages are members of small sets.
Comments that begin with `Mutant:` mark a plausible wrong version of the definition
below it; no specification uses them, they show that the properties can fail.
`XProofs` extends module `X` with theorems about it; `MCX` gives its constants values.

Constants that say what the environment may do:

| Constant | Meaning |
| --- | --- |
| `Overlap` | may two commands be between the read and the write of the same file? FALSE is what the promises "nothing is lost" need; TRUE is what the code permits, and what `Dotenv` always allows |
| `Mortal` | the processes of `SecretGrants` a `Crash` may end; in `Mesh`, `Dotenv`, `VaultKey` and `Workspace` any command may die |
| `MaxEdits`, `MaxKills`, `MaxRequests`, `MaxClock`, `Ttl`, `MaxSecond` | bounds on edits, commands killed in `Dotenv`, requests of one gateway, ticks, the life of a grant, seconds |

### `SecretGrants`: vault, aliases, grants, keys

State: `store`, `aliases`, `grants`, `config` are the four shared files; `todo`,
`bound`, `cur`, `held`, `old`, the three snapshots and `look` are locals of processes;
`injected` is a history of what resolved to what.

| Code | Actions |
| --- | --- |
| `prepare_run_bindings` | `OpenRun`, `SkipAlias`, `MissingAlias`, `PrepareAlias`, `GrantPutRead`, `GrantPutWrite`, `Prepared` |
| `run_agent`, `perform_http_request` | `LaunchAgent`, `EarlyReturn` (after the bindings and before the `try`; of a request, if the load of the Container raises), `FinishRun` |
| `revoke_grants`, `JsonGrantStore.revoke` | `RevokeRead`, `RevokeMissing`, `RevokeWrite`, `RevokeDone` |
| `add_alias` | `LookUpAlias`, `StorePutRead/Write`, `AliasPutRead/Write`, `ListGrants`, the revocations, `StoreDelete...` |
| `create_key`, `keys revoke` | `StartKeyCreate`, `ConfigRead`, `ConfigWrite`; `StartKeyRevoke` |
| token resolution | `ResolveGrant`, then `ResolveSecret` |

`Assigned` are the assigned aliases in mode `virtualize`, the only ones that are bound.
A gateway is a container without a run id, as in the code: the foreground gateway.

### `Custody`: what `grants.json` promises

The abstract specification of grants and resolution, without commands, copies of the file
or other stores: `Issue` a token once, for a secret that fits it and for at most `Ttl` from
now; `Revoke` it; `Check` a token somebody may present, active and in time; `Answer` by a read
of the secret that uses the check up; `Tick`. `SecretGrants!CustodySpec` is this
specification on the variables of `SecretGrants` itself (`grants`, `clock`, `look`,
`injected`); a secret fits a run token if a rotation of its alias made it, and
a key token if the key did. The write of a put is an `Issue`, the write of a revocation a
`Revoke`, `ResolveGrant` a `Check`; `ResolveSecret` and whatever ends a resolution half way
(an early return, the end of a gateway, a kill) are `Answer`; all else is hidden.
A revocation between check and read comes too late for that one answer: the code permits
it, so does `Custody`.

### `MeshBoard` and `Mesh`: the agent mesh

`MeshBoard` is the abstract specification: messages are posted once, read once and
answered after they were read; approvals start pending and are decided, perhaps again;
registrations and profiles are set. Each command is one step on `mesh`. `Mesh` extends
it on the same variable with the loads, saves and log lines of `mesh/service.py`.
A replier reads (`ReadNew` or `ReadAgain`, `SaveRead`, `RecordRead`), checks the policy,
loads again for the thread (`FindThread`), loads once more and saves (`SendReply`,
`Save`). `Poll`, `Wake`, `DecideLaunch` and `Launch` are the three looks of a watch;
`wake` and `launch-agent` enter the same chain at a later label.

### `Dotenv`: import, backup, restore, uninstall

The file is a function from names to values. `Scan` finds the names. For each of them
`add_alias` is `LookAlias`, `LoadSecrets` and `StoreSecret`, `LoadAliases` and `NameSecret`, and,
if the alias was there, `LoadOld` and `DropOld`; then `LoadConfig`, an `AssignAlias` per name and
`SaveConfig` are `assign_to_project`; `Backup`, `ReadLines`, `Replace` end the import. `held` are
its copies of the three files, and nothing keeps two imports from holding copies at once. A secret
is an entry named by the import, the name and the value, as its id is random. `LookLatest` or
`Choose` and `CopyBack` are restore and uninstall, with the user's answer in between; `mtime` is
copied into a backup by `shutil.copy2`, and `Latest` is the maximum over those, as in
`latest_dotenv_backup`. Backups carry the second in their name, so two of one second overwrite
each other. `BackupKilled` and `CopyKilled` leave a truncated copy.

Four histories say what the user is owed: `meant` is the real value last given to a name, `taken`
the content of the last backup. `exposed` are names given a value while a running import had
already read the line they are on, or whose line a killed copy took from the file before a second
backup of one second overwrote the first (`Dropped`). `spoiled` are aliases that an import named a
placeholder, or with an entry written by another after the copy was loaded that is now saved over
it.

### `VaultKey`: the device key

`Open`, `Create`, `Fill` (or `FillFails`): test for the file, `O_CREAT | O_EXCL`, write.
A command that opens the file between creation and write reads an empty key and goes on.
`CleanStart`, `RemoveKey`, `RemoveStore`, `CleanEnd` are `cleanup`, which removes one file at
a time; `FillGone` writes the key into a file that was removed meanwhile. `fresh` are the
commands that began after the last file was removed (those before it hold what is gone) and did
not find `device.key` created and still empty: `OneKey` is about them. The others write ciphertexts
nobody can read, which the model keeps in the store, where they must do the fresh ones no harm.
Encryption is ideal: a ciphertext stands for the key that made it.

### `Workspace`: a run's second tree

`Discover` gathers the replacements, `Create` lists the files, `Materialise` makes one
file: a rewritten copy, a copy, or a link. `AgentWrite` goes through a link,
`AgentReplace` puts a file in its place, `AgentDelete` removes it. `Finish` removes the
tree, or keeps it. `Plan` is what apply will copy; an apply plans once (`StartApply`) and copies
one file per step (`CopyBack`) of what the workspace holds by then. `diff` is a read and not
modelled; it is not a promise about apply either, see section 5.

### `Egress`: where secrets go

Seven editing commands, each a `Load` and a `Save` of the fields of `agentsecure.json`
that decide about secrets (`Config`). A server (the gateway of a run, or one MCP
request) loads it twice, `Bind` for its aliases and `Open` for its container. `Proxy`
and `Provider` take a request and check its destination; `Forward` and `ProviderForward`
resolve and send; `Ask`, `Resolve` (one name per step), `Send` are an MCP request;
`Answer` returns what the scrubbing leaves; `Lapse` ends a grant at any moment. An
ordering detail of the code that matters is kept: which load each test uses. Host
patterns are sets of hosts and DNS is the constant `Private`. `sent` and `shown` are
histories; `removed` and `gone` remember removals nobody took back.

### `Policy` and `AgentEnv`: what an agent is given

`Policy` has no state. It says what the rules, services (capabilities), keys and provider
setups of `agentsecure.json` mean and how they are edited: the loader's tests (`Loads`), the
merge, validation and port allocation of `policy apply-local` (`Built`, `Accepted`,
`Allocated`), `create_key` and `proxy setup` as edits (`WithKey`, `WithProvider`), broker URLs,
and the routing of provider paths (`BasePath`, `RouteTo`, `PathAllowed`). A URL is its port, a
path its segments. `sound` of a provider setup says whether the loader takes its upstream: `proxy
setup` saves what it makes without loading it, so a setup may be unsound, or have a path within
another's, and every action that loads the file then fails. `AgentEnv` has the commands that share
the file.

| Code | Actions |
| --- | --- |
| `policy apply-local`, `proxy setup` | `EditLoad`, then `EditSave` or `EditFails` |
| `protect_secrets` | `Discover` (rules split the names found; the user picks among the rest), per key `KeyLoad`, `KeySave`, and `PlanUrl` for brokered names |
| `run_agent` | `Prepare` (the Container), `Probe` and `Listen` (`_available_gateway_port`, the bind), `BuildEnv`, `Launch` (the sanitizer's load) or `LaunchInteractive` (an interactive agent has the terminal to itself, and its output is not processed), `End` at any point |

`config` is the file, `copy` what a command between load and save holds, `conf` and `shield`
what a run keeps of two later loads, `listener` who holds each port, `env` what the agent sees:
the shell's value, a token, a port or nothing. `kept` and `denied` remember what the run
promised its user.

## 3 What is checked

| Run | Instance | Distinct states, depth | Shows |
| --- | --- | --- | --- |
| `grants_serial` | MCP request, `keys create`, `keys revoke`, two rotations of one alias (one from another project) on top of an existing value; no overlap; two may die | 1.56 M, 43 | `AliasBacked`, `RotatedAway`, `RunRevoked`, `CreatedKeyKept`, and that `SecretGrants` implements `Custody` (`CustodySpec`) |
| `grants_overlap` | a run with a required alias, rotations of two aliases, a foreground gateway, two ticks; free overlap; the run may die; fair | 271 k, 39 | `TypeOK`, `OwnSecretOnly`, `NeverRenewed`, `RevocationEnds` |
| `mesh_serial` | sender, two repliers, requester, resolver, `watch --once`; no overlap | 675 k, 27 | `TypeOK`, `SentIsStored`, `ThreadsRooted`, and that `Mesh` implements `BoardSpec` |
| `mesh_wakes` | sender, replier, registrar, configurer, endless watch, a policy that denies one pair; free overlap; fair | 947 k, 21 | `RepliesReturn`, `MessageWakes` |
| `dotenv` | two imports with any options and free overlap, a process that restores or uninstalls, an edit and a kill at any moment, a second boundary, a name with a secret marker and one without; symmetric in imports and values | 3.95 M, 45 | `TypeOK`, `NoValueLost`, `PlaceholderBacked`, `RestoresTaken` |
| `vault_key` | three writers, a reader and a cleanup, free overlap | 1.06 M, 20 | `TypeOK`, `OneKey` |
| `workspace` | a kept copy run, a symlink run, an apply, an edit; a root dotenv file, a nested one and a source file | 5.07 M, 27 | `TypeOK`, `SecretsHidden`, `ProtectedKept` |
| `egress` | any two of seven edits, a gateway, an MCP request; three hosts, two ports, an alias and two keys | 2.35 M, 20 | `TypeOK`, `SecretsWhereAllowed`, `AnswersClean`, `RemovalHolds`, `AllOrNothing` |
| `agent_env` | two runs, one with `--no-discover`; up to two of six edits (four payloads, two setups, one of which the loader refuses); two ports, one of which another program may hold; two files to begin with; no overlap | 1.83 M, 21 | `TypeOK`, `Loadable`, `OwnGateway`, `EnvVirtual`, `OutputHides`, `BaseUrlServed`, `PortsStable`, `PortsApart`, `Settled` |
| `mcp_unrevoked`, `dotenv_reimport`, `apply_secrets` | the smallest instance that shows it | | one documented statement each that the code does not keep, section 5 |

Each run ends within three minutes on two workers. Only `dotenv` uses symmetry, in its
imports and its real values, which are told apart nowhere; elsewhere the constants play
different roles. `CHECK_DEADLOCK FALSE` is set everywhere because commands end:
when all have, and all bounds are used up, nothing is left to do.

**Why these bounds suffice.** The hazards are between two writers of one file, or one writer and
one reader, so a hazard that a property covers has two of them in some run, and a third where it
needs one (`keys revoke` with a request and a rotation on `grants.json`). Two rotations of one
alias plus an existing value is the least at which a rotation can delete a value that another has
put. `Ttl = 1` and `MaxClock = 1` let every grant be fresh and then expired; `grants_overlap` has
a second tick, at which a renewal would show. Two repliers give a reply to a reply. Three device
key writers give a winner, a loser that has seen the file and one that has not. In `egress` the
two edits are any two of the seven in either order, which is what it takes to remove something and
bring it back by another route; three hosts are an allowed one, one to be allowed, and one whose
address is private. One user edit per run is enough for a plan, a scan or a list of replacements
to be out of date. In `agent_env` the payloads are one that brokers a name by a new service, one
whose rule is refused unless the file has its service, one that declares the port the allocator
would give next, and one that denies; any two of them in either order, before, between or after
the loads of a run. Two ports for two runs and a third program give a free one, a taken one and
none.

**Overlap.** Nothing in the code stops two commands from overlapping on a file. The
properties that survive it are checked with `Overlap = TRUE`; the ones that say no
update is lost are checked, and proved, for commands that interleave at every other
point. Section 5 lists what overlapping updates do lose.

**What the dotenv run leaves to accidents.** `NoValueLost` and `PlaceholderBacked` are not true
as a reader might first put them, and both say for whom they fail. What is given to a name a running
import had found, or between its last read and its write, is overwritten, as no document denies. If
a copy back was killed before it reached a line, and an import then backs the file up in the second
of the only backup with that line, its value is gone (it takes two edits, one more than the run
allows; the inductive invariant of the proof showed it). Two names with one alias id keep the value
of one. An import that is run again takes the placeholder of a marker name for its secret. And an
import that saves `secrets.enc.json`, `aliases.json` or `agentsecure.json` from a copy older than
another's entry takes that entry out: a placeholder may then resolve to nothing, and its value be
nowhere. What the properties claim is that each accident ends with the name or the alias it befalls,
however many imports, restores, uninstalls and kills there are: all other values are somewhere, all
other placeholders resolve. One kill and one edit meet any state of the two imports and of the
restore; the theorems have no bound.

**Values chosen to keep a run about its own question.** `egress` has `Overlap = FALSE`, for
`RemovalHolds` and `AnswersClean`; the theorems on `SecretsWhereAllowed` and `AllOrNothing` cover
overlapping edits. `Forbidden = {}` because `Private` exercises the same test. `agent_env` has
`Overlap = FALSE`, for `EnvVirtual`, `OutputHides` and `PortsStable`; the theorems on its other
properties cover overlapping edits. `mesh_serial` leaves out the registrar and the configurer,
which edit entries of their own in one load and one save, as the requester does.

**Fairness.** Safety runs assume none. `SecretGrants!FairSpec` assumes only that a process inside
a revocation loop is scheduled: the loop waits for nobody and a crash remains possible; no
fairness makes an agent exit or a user type a command. `Mesh!FairSpec` assumes that a watch polls:
it sleeps for at most `interval_seconds` and then loads the file whatever others do. Nothing is
assumed of senders and repliers.

**What the runs say, property by property.** `OwnSecretOnly`: a run token yields only values of
its alias, in its own run, whatever is lost and rotated between check and read. `NeverRenewed`:
lost updates bring revoked grants back, but no command ever gives an issued token another secret
or another end. `RevocationEnds`: the loop ends even on tokens that a lost update took out of the
file. `AliasBacked` and `RotatedAway`: a rotation deletes what the alias held when it *began*;
interleaved or dying rotations still never delete the value in use, and a completed one has
removed what the alias held when it began (a value another rotation put in meanwhile is nobody's
old one, and stays). `RunRevoked`, `CreatedKeyKept`: a run that finishes leaves no active grant, a
key whose creation returned stays whole (a run that fails is `mcp_unrevoked`). `CustodySpec`:
without overlap, a write of the whole file issues or revokes one token and no other, one issued
before is never issued again nor revived, and every secret obtained answers a check of its own,
passed in time, by one who may present the token. `BoardSpec`: load and save behave as one step.
`RepliesReturn`: even with lost saves a reply is never misdirected. `MessageWakes`: a waiting
message ends the watch. `NoValueLost`, `PlaceholderBacked`: see above. `RestoresTaken`: the order
of copied modification times is that of the backups. `OneKey`: a command begun since the last
removal holds the key in the file, and what it encrypts stays readable, though those that met an
empty file or were overtaken by a cleanup go on writing. `SecretsHidden`: no dotenv file of a
workspace shows what its run knew to replace when it started, at any step of its construction and
whatever edits of the user reach it later. `ProtectedKept`: apply with a stale plan never touches
protected files. `SecretsWhereAllowed`: the destination check and the later resolution together
never send a secret to a host that the configuration held by the server does not allow, or its
alias does not approve. `AnswersClean`: the third load never knows less than the first two.
`RemovalHolds`: a removed host receives nothing from a server that starts later, unless a later
command allows it. `AllOrNothing`: a request whose second name lapses is not sent with the first.
`Loadable`: a file no command can load owes it to a setup that was saved; payloads and keys do not
make one, and rules and services always pass the loader, on a broken file too. `EnvVirtual`,
`OutputHides`: the names a run denied or keyed at one load stay taken away at the loads its
environment, sanitizer and guarded commands are made from, while no edits overlap; the output of
an interactive agent is its own. `OwnGateway`: the agent is never pointed at a port somebody else
holds. `PortsStable`, `PortsApart`, `Settled`: the allocator moves no port, gives none twice, and
has nothing left to do when a payload is applied again. `BaseUrlServed`: the URL one function
composes is taken apart by two others into the provider it was made for and a path they allow.

## 4 What is proved

TLAPS checks these for all values of the constants, under the named assumptions of each
module, which TLC evaluates in the runs: process sets are disjoint, null values are outside
the sets they extend, bounds are naturals.

| Theorem | Statement | Assumes |
| --- | --- | --- |
| `SecretGrantsProofs!TypeCorrect`, `OwnSecret` | `TypeOK`, `OwnSecretOnly` | |
| `SecretGrantsProofs!AliasesBacked`, `OldSecretGone` | `AliasBacked`, `RotatedAway` | `~Overlap` |
| `SecretGrantsProofs!NeverRenewedHolds` | `NeverRenewed` | |
| `SecretGrantsProofs!RunsRevoked`, `CreatedKeysKept` | `RunRevoked`, `CreatedKeyKept` | `~Overlap` |
| `SecretGrantsProofs!CustodyImplemented` | `SecretGrants` implements `Custody` (`CustodySpec`) | `~Overlap` |
| `MeshBoardProofs!BoardTyped`, `ThreadsAreRooted` | `BoardOK`, `ThreadsRooted` of the board | |
| `MeshProofs!TypeCorrect`, `RepliesReturnHolds` | `TypeOK`, `RepliesReturn` | |
| `MeshProofs!BoardImplemented` | `Mesh` implements `MeshBoard` (`BoardSpec`) | `~Overlap` |
| `MeshProofs!ThreadsRootedHolds` | `ThreadsRooted` | `~Overlap` |
| `DotenvProofs!TypeCorrect`, `RestoresTakenHolds` | `TypeOK`, `RestoresTaken` | |
| `DotenvProofs!PlaceholdersBacked`, `NoValueLostHolds` | `PlaceholderBacked`, `NoValueLost` | |
| `VaultKeyProofs!VaultTyped`, `SingleKey` | `TypeOK`, `OneKey` | |
| `WorkspaceProofs!TypeCorrect` | `TypeOK` | |
| `WorkspaceProofs!NoSecretShown`, `ProtectedFilesKept` | `SecretsHidden`, `ProtectedKept` | |
| `EgressProofs!TypeCorrect`, `SecretsWhereAllowedHolds`, `AllOrNothingHolds` | `TypeOK`, `SecretsWhereAllowed`, `AllOrNothing` | |
| `EgressProofs!AnswersCleanHolds`, `RemovedStayOut` | `AnswersClean`, `RemovalHolds` | `~Overlap` |
| `AgentEnvProofs!TypeCorrect`, `LoadableHolds`, `OwnGatewayHolds` | `TypeOK`, `Loadable`, `OwnGateway` | |
| `AgentEnvProofs!PortsApartHolds`, `SettledHolds`, `BaseUrlServedHolds` | `PortsApart`, `Settled`, `BaseUrlServed` | |
| `AgentEnvProofs!EnvVirtualHolds`, `OutputHidesHolds`, `PortsStableHolds` | `EnvVirtual`, `OutputHides`, `PortsStable` | `~Overlap` |

The arguments:

- **`SecretGrants`.** Types need `AtHand`: a process in a grant put has a token in hand.
  `OwnSecretOnly` is not inductive, since a wrong reference could sit in a stale copy or
  in a grant about to be put; `OwnInv` says that *every* reference, in the files, in
  every copy, in hand and half resolved, fits its alias. Stale copies then do no harm, so
  overlap is allowed. `IssueInv` is the same for `NeverRenewed`: a token at hand is in no version of
  the file until its own command puts it, and any two versions about, the file and every copy, agree
  on the secret and the end of each token both have, so a stale copy can bring back but not renew
  (`VersionsDescend`). `VaultInv` is about losing nothing: at most one process is between
  read and write of each file and its copy equals the file (this is where `~Overlap` is
  used), a new secret is stored before the alias points at it, aliases refer only to
  rotations past their store put, and a secret to be deleted is one that no alias refers
  to any more and none will again. `GrantInv` is the same for `grants.json`, plus: every active
  token of a run is in `bound`.
  `KeyInv` follows a key through its three writes, secret, grant, entry: what a creation has
  got past is in the file it wrote, and in every copy of that file somebody is about to write.
  The refinement of `Custody` puts these together: by `GrantInv` the copy written is the
  file, by `IssueInv` the token at hand was never issued (`PutIsFirst`), by `OwnInv` the grant fits it, and by
  `HeldFresh` its lifetime was counted from a moment already past. `OthersHidden` lists the
  steps that show, `PutIssues`, `RevokeRevokes`, `ResolveChecks` and `EndAnswers` map them.
- **`MeshBoard`.** `ThreadsRooted` is inductive with the types: messages are never
  removed or changed except to become read, and a reply copies its thread from a stored
  message. `BoardKeeps` says what any step of the board preserves of a message.
- **`Mesh`.** `AtHand` types what a command holds by its place. `RepliesReturn` is a fact
  about letters: each reply anywhere, on the board or in a copy, names a sender and
  a recipient fixed by the command that wrote it and the message it answers (`Letters`), so
  a lost save loses letters and misdirects none. The refinement needs `Locked` (the copy of
  the one command between load and save is the board) and `Honest` (a command past its
  checks still satisfies the guard of the board's operation, since letters and read marks
  are never taken back): then each save is that operation and every other step a stutter.
  `ThreadsRooted` is carried over from the board.
- **`Dotenv`.** `LatestExists`: among backups there is one with the greatest time and, of
  these, the greatest name. `Ordered` for `RestoresTaken`: no backup is newer than the file
  or from the future. A write makes the file newer than all, and putting the latest backup
  back leaves it as new as all; so a backup taken next is the newest again, by name if not by
  time. `VInv` follows the vault: the
  entries of an alias are made for it by imports that have named it (`Entries`), what `add_alias`
  takes for the old secret is not the one in use when it deletes (`OldGone`), what it has stored is
  still there when it names it (`Stored`), and an alias with a secret resolves to a real value
  (`Named`), all of this for aliases that are not spoiled; `VaultStep` is what a step of any
  import, stale copies included, does to the others'. `PInv` for the placeholders: an import that may
  rewrite has added and assigned every alias it will write, and a placeholder in the file, in lines
  read or in a backup is the one of its line and is backed; backing is never lost but by spoiling, as
  an uninstall that empties the list ends by it. `HInv` for the values: for a name no accident has
  befallen, the line in the file and the line an import has read both stand for the value; where the
  file has lost the line, so have all lines that are about to be written, and a backup or the vault
  has the value; an import that found the name found that value, and once it has added the alias the
  vault has it.
- **`VaultKey`.** Once a real key is in the file it stays until a removal, and then nobody
  is fresh. Only one process is at `fill`, and while it is there the file holds the empty key;
  a creator whose file was removed is not fresh, nor is a command that read the empty key. No copy of the store about to be written back
  holds, for a fresh command, a key other than the file's: that is what keeps the writes of
  overtaken commands harmless.
- **`Workspace`.** `Unbuilt` (no tree before it is made), `Copied` (dotenv and protected
  files are never links), `Covered` (no dotenv copy shows a replacement of its run, though
  the agent may edit it: it does not know the values), `PlansSafe` (no plan contains a
  protected file).
- **`Egress`.** `Loaded`, `Opened`, `Busy` type the copies and requests. Then `Frozen`: the
  configuration and bindings of a server do not change once it is up, so a request that
  passed the check is still allowed when it is sent (`ReqSafe`), and what was sent stays
  justified (`SentSafe`). `Pending`: what a call holds is what it asked for less what is left.
  Without overlap (`Locked`), `Fresh` says that keys a server loaded are still listed, that
  hosts removed before it loaded are not in what it loaded, and that none removed is in
  the file; from which what is cleaned from an answer covers both (`Cleaned`).
- **`AgentEnv`.** `PortInv`: whoever is past the probe has a port, and past the bind the port
  has it; only its own end gives it up. `Configs`: every copy of the file that a command holds
  is `Good` (typed, its rules and services pass the loader, its paths are not empty), what the Container of a run
  was made from also loads, and each kind of edit keeps a good file good. `Debts` says of the
  file and of every copy that each fault of its providers is owed to a setup that was saved
  (`OwedSetup`: one provider is replaced; `OwedMore`: what was owed stays owed), so overlap does no
  harm to `Loadable`. Without overlap, `LockInv` says that what a command holds between load and
  save *is* the file; and `Held`, that rules and keys only accumulate, so what a run denied
  or keyed at an early load is still there at its later ones.
  The allocator gives the k-th name without a port the k-th free port. `Ranked` and `RankedFew`
  (there are at least as many free ports as such names, since every taken port has a
  capability of its own) show that each gets one, `RankedOnce` that no two get the same, which
  is `PortsApart`. For `Settled`, a second application makes some names needy again, those
  the payload gives no port, and frees exactly their ports; `GivenAgain` counts that the
  order in which they are given is the one of the first time. `BaseUrlServed`: the path a base URL begins
  with is matched by its own provider and by no longer one (`BaseRouted`, from the Container's
  load having succeeded), and what is left of it is the first allowed path (`BaseAllowed`).

Only model-checked: liveness (`RevocationEnds`, `MessageWakes`) and
anything with ENABLED, which the installed provers do not handle, and `SentIsStored`: without
overlapping saves it is the order of save and log line, which the run shows. A property proved
under `~Overlap` claims nothing of overlapping edits; section 5 lists what those lose. No
module declares a RECURSIVE operator.

## 5 Where code and documents disagree

Each of these is a run that must end in a violation:

- `mcp_unrevoked`: `docs/security-model.md:37` says that the grants of an MCP request are
  revoked after it. When a later required alias is missing, `prepare_run_bindings` raises
  after it has put grants for the earlier ones and before the caller's `try`.
- `dotenv_reimport`: `docs/vault-and-backups.md:18` says the vault stores real secrets. A
  second import of a file takes the placeholder of a name with a secret marker for a
  value and stores it.
- `apply_secrets`: `docs/advanced-runtime.md:77` says that files such as `.env` are
  excluded from apply. The rewriter treats dotenv files in all directories, apply
  protects those at the root, so a rewritten nested file is copied over the real one.

Met while modelling, and not runs because they are further cases of overlapping updates, or small:

- two `secrets add` or `secrets import` at once lose a value of the vault
  (`docs/secret-management.md:19`), two imports also an alias or its assignment, with the placeholder
  already in the file: `spoiled` in `Dotenv`;
- overlapping updates of `grants.json` lose a revocation
  (`implementations/grant_store.py:29`, `docs/cli-reference.md:73`);
- overlapping mesh commands lose a message that was logged as sent (`mesh/service.py:310`);
- overlapping edits of `agentsecure.json` bring a removed host back
  (`docs/network-policy.md:33`);
- a rotation revokes the grants it listed and misses one put after the listing
  (`core/secret_aliases.py:348`, `docs/secret-management.md:72`); it cannot be resolved,
  since its value is deleted, but stays active until it expires;
- a command that opens `device.key` between creation and write encrypts under the empty
  key, and its ciphertext is unreadable afterwards (`crypto/key_provider.py:29`); `OneKey` is about
  the commands that do not;
- the backup of an already imported file holds placeholders
  (`docs/secret-management.md:97`);
- `API_KEY` and `api_key` get one alias id (`cli/main.py:1881`);
- apply overwrites an edit the user made after the workspace was built
  (`workspace/apply.py:54`);
- the gateway tries the first binding of a provider only, and reports that none is active
  when a later one is (`gateway/proxy.py:434`, `:160`; `NoBinding` in `Egress`);
- an edit of a line between an import's scan and its rewrite is in no file afterwards
  (`cli/main.py:1928`), and a second backup in the same second replaces the only copy of one
  that the first backup had caught;
- `proxy setup custom` takes an upstream with port 0 (`cli/proxy.py:129`), and a local path that
  begins with another provider's; the loader refuses both (`core/config.py:202`, `:268`), so no
  command that loads the file gets any further; `agent_env` has such a setup, and `Loadable` names
  it as the only way there;
- an edit of `agentsecure.json` that overlaps a run's `create_key` may take the key out again, and
  the real value of a variable the run has offered to hide then reaches the agent
  (`core/key_service.py:81`); `EnvVirtual` and `OutputHides` are about edits that do not overlap;
- the output of an interactive agent (`claude`, `codex` and the like without arguments, on a
  terminal) is not processed, as the program itself says (`cli/main.py:673`), while the output of its
  guarded commands is;
- `diff` compares lines and `apply` compares bytes: a new empty file, and a change of line ends or of
  the end of the last line, are copied and never shown (`workspace/diff.py:82`, `:110`); nor is a
  binary file;
- a value put into a dotenv file after a run has gathered its replacements (`cli/main.py:496`) is
  unknown to it, and comes through into the workspace;
- a key exposed under another name than its own leaves the original variable, with its real
  value, in the agent's environment (`cli/secrets.py:207`, `docs/advanced-runtime.md:38`);
  `EnvVirtual` speaks of names kept under their own name;
- the values of brokered, denied or expired keys are not replaced in the workspace of a
  `--no-discover` run (`cli/main.py:1490`);
- the fallback port of a service moves when services are added, and may be another's declared
  port, until `policy apply-local` allocates one (`core/capabilities.py:64`);
- a base URL whose first allowed path holds a dot segment, or begins with a second slash, is
  composed but never served (`gateway/proxy.py:402`, `core/provider_proxy.py:19`);
- a backup overwrites the one of the same second, `core/dotenv_backups.py:14`, though it may
  be the only place with a line a killed restore has lost;
- a creator of `device.key` whose file a cleanup removed, and whose write then fails, removes
  the key file another command has made since (`crypto/key_provider.py:35`).

## 6 What is not modelled

- **Text.** Redaction patterns, parsing of dotenv lines, substitution inside strings,
  fuzzy name matching and the scanner are functions on text without shared state. Where
  one decides something (is this line a secret, does the answer contain it) it is a set.
- **Tests that only refuse.** `guard/network.py` and the process allowlist narrow what the
  modelled checks allow. The host check of `PolicyAwareTokenResolver` is part of `Egress`
  and left out of `SecretGrants`.
- **Gateway.** `CONNECT` tunnels (nothing is injected) and `proxy doctor`.
  A gateway takes one request at a time: its handler threads share only the immutable
  container. Answers to plain HTTP requests pass uncleaned in the code: they are not in
  `shown`, and `AnswersClean` claims nothing of them. Several run
  aliases of one provider are tried in any order.
- **Workspace.** Directories, and `--read-only-workspace` and `--no-new-files`, which take
  actions from the agent.
- **Agent environment.** The branch of `run_agent` for a running daemon, since the daemon is a
  stub; the environment of agents that a mesh launch starts; `init`, and the default
  configuration commands fall back to when the file is missing.
- **Legacy `real_secret_env` bindings**, the unencrypted `local_secret_store`, and
  configuration profiles, which only normalise answers of the disabled cloud.
- **A crash of an editor of `agentsecure.json`** between load and save is an editor that
  never saves, which `Egress` already allows.
- **Corrupt files.** Reads of unparsable JSON raise or fall back; no code path writes one,
  since files are replaced atomically.

## 7 Plan

Order of writing, most important first; all are done.

1. `SecretGrants`, its two passing runs, one violation and its theorems.
2. `MeshBoard`, `Mesh`, the refinement checked, the board's theorems.
3. `Dotenv`. 4. `VaultKey` and theorems. 5. `Workspace` and theorems.
6. `Egress`, type correctness and `SecretsWhereAllowed` proved.
7. `Policy`, `AgentEnv` and theorems; `cleanup` in `VaultKey`; edits during an import in
   `Dotenv`.
8. `MeshProofs`: `Mesh` implements `MeshBoard`, and with overlap replies return.
9. `EgressProofs` extended: `AnswersClean`, `AllOrNothing`, `RemovalHolds`.
10. `DotenvProofs`: the order of backups, placeholders, where values are.
11. `PortsApart`, `Settled` and `BaseUrlServed` in `AgentEnvProofs`.
12. `Custody`, what `grants.json` promises; that `SecretGrants` implements it, checked
    and proved.
13. Overlapping imports in `Dotenv`, step by step, and their theorems; setups the loader refuses
    and interactive agents in `AgentEnv`; `NeverRenewed`.
