----------------------------- MODULE MCAgentEnv -----------------------------
(* Small instances of AgentEnv for TLC.  Written is a file edited by hand: a  *)
(* brokered service without a port, another with a port of its own.          *)
EXTENDS AgentEnv, TLC

CONSTANTS db, api, openai, local, llm, v1, dots

Fresh == [rules |-> <<>>, caps |-> <<>>, keys |-> {}, providers |-> <<>>]
Written == [rules |-> db :> [mode |-> "broker", cap |-> 2],
            caps |-> (1 :> [sound |-> TRUE, port |-> BasePort + 1]) @@ (2 :> [sound |-> TRUE, port |-> 0]),
            keys |-> {}, providers |-> <<>>]
Files == {Fresh, Written}

Of(rules, caps) == [rules |-> rules, caps |-> caps, clean |-> TRUE]
\* db brokered by a new service; a rule that is refused unless the file has its
\* service; a service with a port; db denied and a service no rule uses.
Broker == Of(db :> [mode |-> "broker", cap |-> 1], 1 :> [sound |-> TRUE])
Dangling == Of(api :> [mode |-> "broker", cap |-> 2], <<>>)
Declare == Of(<<>>, 2 :> [sound |-> TRUE, port |-> BasePort])
Deny == Of(db :> [mode |-> "deny"], 1 :> [sound |-> TRUE])
Payloads == {Broker, Dangling, Declare, Deny}
MCBusy == {{}, {2}}
\* A setup with an upstream the loader refuses, and one it takes, whose local path the
\* other's lies within.
SetupsOf == {<<openai, [env |-> api, path |-> <<llm, openai>>, allow |-> <<<<v1>>>>, sound |-> FALSE]>>,
             <<local, [env |-> db, path |-> <<llm>>, allow |-> <<<<v1>>>>, sound |-> TRUE]>>}
=============================================================================
