------------------------------- MODULE Custody -------------------------------
(***************************************************************************)
(* What grants.json promises those whose secrets it guards, with neither   *)
(* commands nor copies of files: a token is issued once, for a secret that *)
(* fits it and for no longer than Ttl from then; once revoked it stays so; *)
(* and whoever obtains a secret has passed one check of its own, of a      *)
(* token it may present, active and in time.  The secret is read after the *)
(* check, so a revocation in between comes too late for that one answer.   *)
(***************************************************************************)
EXTENDS Naturals

CONSTANTS
    Token,
    Holder,     \* who may resolve a token
    Fitting,    \* [Token -> sets of secrets]
    Presenter,  \* [Token -> SUBSET Holder]
    NoGrants,   \* no token issued
    NoLookup,   \* no check passed
    Ttl

VARIABLES grants, clock, look, injected

Init ==
    /\ grants = NoGrants /\ clock = 0
    /\ look = [p \in Holder |-> NoLookup]
    /\ injected = {}

Issue(t) ==
    /\ grants[t].status = "absent"
    /\ \E s \in Fitting[t], end \in 0 .. clock + Ttl :
          grants' = [grants EXCEPT ![t] = [status |-> "active", ref |-> s, expires |-> end]]
    /\ UNCHANGED <<clock, look, injected>>

Revoke(t) ==
    /\ grants[t].status # "absent"
    /\ grants' = [grants EXCEPT ![t].status = "revoked"]
    /\ UNCHANGED <<clock, look, injected>>

Check(p, t) ==
    /\ look[p] = NoLookup /\ p \in Presenter[t]
    /\ grants[t].status = "active" /\ grants[t].expires > clock
    /\ look' = [look EXCEPT ![p] = [token |-> t, ref |-> grants[t].ref]]
    /\ UNCHANGED <<grants, clock, injected>>

\* Used up by one read of the secret, which may be gone, or by the holder's end.
Answer(p) ==
    /\ look[p] # NoLookup
    /\ injected' \in {injected,
          injected \cup {[by |-> p, token |-> look[p].token, secret |-> look[p].ref]}}
    /\ look' = [look EXCEPT ![p] = NoLookup]
    /\ UNCHANGED <<grants, clock>>

Tick == clock' = clock + 1 /\ UNCHANGED <<grants, look, injected>>

Next ==
    \/ \E t \in Token : Issue(t) \/ Revoke(t)
    \/ \E p \in Holder : Answer(p) \/ \E t \in Token : Check(p, t)
    \/ Tick

Spec == Init /\ [][Next]_<<grants, clock, look, injected>>
=============================================================================
