----------------------------- MODULE MCWorkspace -----------------------------
(* Small instances of Workspace for TLC: every constant is a model value or a  *)
(* set of them.                                                                *)
EXTENDS Workspace

CONSTANTS env, nested, code, key, url, v

\* Both dotenv files give the secret, under two names; the vault knows the second.
MCProject == {[p \in Path |-> CASE p = env -> <<key, v>> [] p = nested -> <<url, v>>
                                [] p = code -> CHOOSE t \in Text : TRUE]}
MCBound == {<<url, v>>}
=============================================================================
