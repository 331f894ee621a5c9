------------------------------ MODULE MCEgress ------------------------------
(* Small instances of Egress for TLC.  Alias a and key k1 share a name, which *)
(* the proxied provider wants; key k2 has one of its own.  Host old starts   *)
(* out allowed, inner is private.                                            *)
EXTENDS Egress, TLC

CONSTANTS api, old, inner, std, alt, NAME, SPARE, a, k1, k2

Names == (a :> NAME) @@ (k1 :> NAME) @@ (k2 :> SPARE)
Start == [allow |-> {old, inner}, ports |-> {std},
          mode |-> [n \in Name |-> "virtualize"], rule |-> (NAME :> {old}) @@ (SPARE :> {}),
          hosts |-> [x \in Alias |-> {old}], keys |-> <<k1>>, upstream |-> None]
StoredHosts == [x \in Alias |-> {api}]

Allow == [op |-> "allow", host |-> api, port |-> alt]
Remove == [op |-> "remove", host |-> old]
Use == [op |-> "use", alias |-> a]
Add == [op |-> "add", alias |-> a, hosts |-> {}]
Deny == [op |-> "policy", name |-> NAME, mode |-> "deny", hosts |-> {}]
NewKey == [op |-> "key", key |-> k2]
Setup == [op |-> "proxy", name |-> NAME, host |-> api, port |-> std]

Commands == {Allow, Remove, Use, Add, Deny, NewKey, Setup}
=============================================================================
