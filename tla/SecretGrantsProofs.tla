------------------------ MODULE SecretGrantsProofs ------------------------
(* What holds of SecretGrants for every set of processes and aliases.  Each   *)
(* safety property has an inductive strengthening; with TypeInv they are      *)
(*   OwnInv    for OwnSecretOnly: every copy of a reference fits its alias    *)
(*   VaultInv  for AliasBacked and RotatedAway: one writer per file, and a    *)
(*             secret to delete is one no alias refers to any more            *)
(*   IssueInv  for NeverRenewed: a token is put once, and every version of    *)
(*             grants.json, the file and the copies read of it, agrees on it  *)
(*   GrantInv  for RunRevoked: one writer of grants.json at a time, and an    *)
(*             active grant of a run is on the list it will revoke            *)
(*   KeyInv    for CreatedKeyKept: each save of create_key keeps the others'  *)
(*   HeldFresh, with the three above, for CustodySpec: a grant about to be    *)
(*             put was computed from a time already past                      *)
(* All but OwnInv and IssueInv are inductive only when no two processes       *)
(* overlap on a file (~Overlap): overlapping saves of one do lose each other. *)
EXTENDS SecretGrants, TLAPS

\* The empty values have the types of the values they stand for.
LEMMA Nulls ==
    /\ NoGrant \in Grant /\ NoGrants \in [Token -> Grant]
    /\ NoAliases \in [Alias -> SecretId \cup {NoId}]
    /\ NoLookup \in Lookup
BY DEF NoGrant, NoGrants, NoAliases, NoLookup, Grant, Status, Lookup

\* A grant made from any secret id at any time is a grant.
LEMMA NewGrantType ==
    ASSUME clock \in Nat, NEW id \in SecretId \cup {NoId}
    PROVE  NewGrant(id) \in Grant
BY BoundsAssumption DEF NewGrant, Grant, Status

\* Type correctness holds at the start.
LEMMA TypeInvInit == Init => TypeInv
BY ProcsAssumption, AliasAssumption
   DEF Init, TypeInv, TypeOK, AtHand, AtPut, NoGrants, NoAliases, NoGrant, Grant, Status, Token,
       NoToken, Lookup, NoLookup, SecretId, Label, Ended, Proc, Run

\* A process about to write a grant has a token at hand.
LEMMA AtHandToken ==
    ASSUME AtHand, NEW p \in Proc, pc[p] = "putWrite"
    PROVE  cur[p] \in Token
BY DEF AtHand, AtPut

\* Every command carries its token from the moment it fixes it to the put.
LEMMA AtHandStep == TypeInv /\ [Next]_vars => AtHand'
<1> SUFFICES ASSUME TypeInv, [Next]_vars PROVE AtHand'
  OBVIOUS
<1> USE ProcsAssumption, AliasAssumption
    DEF TypeInv, TypeOK, AtHand, AtPut, Goto, files, snaps, Remaining, AfterStorePut, Doomed,
        Proc, Run, SecretId
<1>1. ASSUME NEW r \in Run, OpenRun(r) PROVE AtHand'
  BY <1>1 DEF OpenRun
<1>2. ASSUME NEW r \in Run, Prepared(r) PROVE AtHand'
  BY <1>2 DEF Prepared
<1>3. ASSUME NEW r \in Run, LaunchAgent(r) PROVE AtHand'
  BY <1>3 DEF LaunchAgent
<1>4. ASSUME NEW r \in Run, EarlyReturn(r) PROVE AtHand'
  BY <1>4 DEF EarlyReturn
<1>5. ASSUME NEW r \in Run, FinishRun(r) PROVE AtHand'
  BY <1>5 DEF FinishRun
<1>6. ASSUME NEW r \in Run, StopGateway(r) PROVE AtHand'
  BY <1>6 DEF StopGateway
<1>7. ASSUME NEW r \in Run, NEW a \in Alias, SkipAlias(r, a) PROVE AtHand'
  BY <1>7 DEF SkipAlias
<1>8. ASSUME NEW r \in Run, NEW a \in Alias, MissingAlias(r, a) PROVE AtHand'
  BY <1>8 DEF MissingAlias
<1>9. ASSUME NEW r \in Run, NEW a \in Alias, PrepareAlias(r, a) PROVE AtHand'
  BY <1>9 DEF PrepareAlias, Token
<1>10. ASSUME NEW c \in Rotation, LookUpAlias(c) PROVE AtHand'
  BY <1>10 DEF LookUpAlias
<1>11. ASSUME NEW c \in Rotation, AliasPutRead(c) PROVE AtHand'
  BY <1>11 DEF AliasPutRead
<1>12. ASSUME NEW c \in Rotation, AliasPutWrite(c) PROVE AtHand'
  BY <1>12 DEF AliasPutWrite, AfterAliasPut
<1>13. ASSUME NEW c \in Rotation, ListGrants(c) PROVE AtHand'
  BY <1>13 DEF ListGrants
<1>14. ASSUME NEW c \in Rotation, StoreDeleteMissing(c) PROVE AtHand'
  BY <1>14 DEF StoreDeleteMissing
<1>15. ASSUME NEW c \in Rotation, StoreDeleteRead(c) PROVE AtHand'
  BY <1>15 DEF StoreDeleteRead
<1>16. ASSUME NEW c \in Rotation, StoreDeleteWrite(c) PROVE AtHand'
  BY <1>16 DEF StoreDeleteWrite
<1>17. ASSUME NEW k \in KeyCreate, StartKeyCreate(k) PROVE AtHand'
  BY <1>17 DEF StartKeyCreate, Token
<1>18. ASSUME NEW k \in KeyCreate, ConfigRead(k) PROVE AtHand'
  BY <1>18 DEF ConfigRead
<1>19. ASSUME NEW k \in KeyCreate, ConfigWrite(k) PROVE AtHand'
  BY <1>19 DEF ConfigWrite
<1>20. ASSUME NEW v \in KeyRevoke, NEW t \in Token, StartKeyRevoke(v, t) PROVE AtHand'
  BY <1>20 DEF StartKeyRevoke
<1>21. ASSUME NEW p \in Proc, StorePutRead(p) PROVE AtHand'
  BY <1>21 DEF StorePutRead
<1>22. ASSUME NEW p \in Proc, StorePutWrite(p) PROVE AtHand'
  BY <1>22 DEF StorePutWrite
<1>23. ASSUME NEW p \in Proc, GrantPutRead(p) PROVE AtHand'
  BY <1>23 DEF GrantPutRead
<1>24. ASSUME NEW p \in Proc, GrantPutWrite(p) PROVE AtHand'
  BY <1>24 DEF GrantPutWrite
<1>25. ASSUME NEW p \in Proc, RevokeWrite(p) PROVE AtHand'
  BY <1>25 DEF RevokeWrite
<1>26. ASSUME NEW p \in Proc, RevokeDone(p) PROVE AtHand'
  BY <1>26 DEF RevokeDone, AfterRevoke
<1>27. ASSUME NEW p \in Proc, ResolveSecret(p) PROVE AtHand'
  BY <1>27 DEF ResolveSecret
<1>28. ASSUME NEW p \in Proc, Crash(p) PROVE AtHand'
  BY <1>28 DEF Crash
<1>29. ASSUME NEW p \in Proc, NEW t \in Token, RevokeMissing(p, t) PROVE AtHand'
  BY <1>29 DEF RevokeMissing
<1>30. ASSUME NEW p \in Proc, NEW t \in Token, RevokeRead(p, t) PROVE AtHand'
  BY <1>30 DEF RevokeRead
<1>31. ASSUME NEW p \in Proc, NEW t \in Token, ResolveGrant(p, t) PROVE AtHand'
  BY <1>31 DEF ResolveGrant
<1>32. CASE Tick
  BY <1>32 DEF Tick
<1>33. CASE UNCHANGED vars
  BY <1>33 DEF vars
<1> QED
  BY <1>1, <1>2, <1>3, <1>4, <1>5, <1>6, <1>7, <1>8, <1>9, <1>10, <1>11, <1>12, <1>13, <1>14,
     <1>15, <1>16, <1>17, <1>18, <1>19, <1>20, <1>21, <1>22, <1>23, <1>24, <1>25, <1>26, <1>27,
     <1>28, <1>29, <1>30, <1>31, <1>32, <1>33
     DEF Next, RunStep, RotationStep, KeyCreateStep, StoreStep, RevokeStep, ResolveStep

\* Every step keeps the types.
LEMMA TypeOKStep == TypeInv /\ [Next]_vars => TypeOK'
<1> SUFFICES ASSUME TypeInv, [Next]_vars PROVE TypeOK'
  OBVIOUS
<1> USE ProcsAssumption, AliasAssumption
    DEF TypeInv, TypeOK, AtHand, AtPut, Label, Ended, Goto, files, snaps, Remaining,
        AfterStorePut, Doomed, Proc, Run, SecretId
<1>1. ASSUME NEW r \in Run, OpenRun(r) PROVE TypeOK'
  BY <1>1 DEF OpenRun
<1>2. ASSUME NEW r \in Run, Prepared(r) PROVE TypeOK'
  BY <1>2 DEF Prepared
<1>3. ASSUME NEW r \in Run, LaunchAgent(r) PROVE TypeOK'
  BY <1>3 DEF LaunchAgent
<1>4. ASSUME NEW r \in Run, EarlyReturn(r) PROVE TypeOK'
  BY <1>4, Nulls DEF EarlyReturn
<1>5. ASSUME NEW r \in Run, FinishRun(r) PROVE TypeOK'
  BY <1>5 DEF FinishRun
<1>6. ASSUME NEW r \in Run, StopGateway(r) PROVE TypeOK'
  BY <1>6, Nulls DEF StopGateway
<1>7. ASSUME NEW r \in Run, NEW a \in Alias, SkipAlias(r, a) PROVE TypeOK'
  BY <1>7 DEF SkipAlias
<1>8. ASSUME NEW r \in Run, NEW a \in Alias, MissingAlias(r, a) PROVE TypeOK'
  BY <1>8 DEF MissingAlias
<1>9. ASSUME NEW r \in Run, NEW a \in Alias, PrepareAlias(r, a) PROVE TypeOK'
  BY <1>9, NewGrantType DEF PrepareAlias, Token
<1>10. ASSUME NEW c \in Rotation, LookUpAlias(c) PROVE TypeOK'
  BY <1>10 DEF LookUpAlias
<1>11. ASSUME NEW c \in Rotation, AliasPutRead(c) PROVE TypeOK'
  BY <1>11 DEF AliasPutRead
<1>12. ASSUME NEW c \in Rotation, AliasPutWrite(c) PROVE TypeOK'
  BY <1>12, Nulls DEF AliasPutWrite, AfterAliasPut
<1>13. ASSUME NEW c \in Rotation, ListGrants(c) PROVE TypeOK'
  BY <1>13 DEF ListGrants
<1>14. ASSUME NEW c \in Rotation, StoreDeleteMissing(c) PROVE TypeOK'
  BY <1>14 DEF StoreDeleteMissing
<1>15. ASSUME NEW c \in Rotation, StoreDeleteRead(c) PROVE TypeOK'
  BY <1>15 DEF StoreDeleteRead
<1>16. ASSUME NEW c \in Rotation, StoreDeleteWrite(c) PROVE TypeOK'
  BY <1>16 DEF StoreDeleteWrite
<1>17. ASSUME NEW k \in KeyCreate, StartKeyCreate(k) PROVE TypeOK'
  BY <1>17, NewGrantType DEF StartKeyCreate, Token
<1>18. ASSUME NEW k \in KeyCreate, ConfigRead(k) PROVE TypeOK'
  BY <1>18 DEF ConfigRead
<1>19. ASSUME NEW k \in KeyCreate, ConfigWrite(k) PROVE TypeOK'
  BY <1>19 DEF ConfigWrite
<1>20. ASSUME NEW v \in KeyRevoke, NEW t \in Token, StartKeyRevoke(v, t) PROVE TypeOK'
  BY <1>20 DEF StartKeyRevoke
<1>21. ASSUME NEW p \in Proc, StorePutRead(p) PROVE TypeOK'
  BY <1>21 DEF StorePutRead, StoreOf
<1>22. ASSUME NEW p \in Proc, StorePutWrite(p) PROVE TypeOK'
  BY <1>22 DEF StorePutWrite, StoreOf
<1>23. ASSUME NEW p \in Proc, GrantPutRead(p) PROVE TypeOK'
  BY <1>23 DEF GrantPutRead
<1>24. ASSUME NEW p \in Proc, GrantPutWrite(p) PROVE TypeOK'
  <2>1. grants' \in [Token -> Grant] /\ gsnap' \in [Proc -> [Token -> Grant]]
    BY <1>24, Nulls DEF GrantPutWrite
  <2>2. cur' \in [Proc -> Token \cup {NoToken}] /\ held' \in [Proc -> Grant]
    BY <1>24, Nulls DEF GrantPutWrite
  <2>3. todo' \in [Proc -> SUBSET Alias]
    <3>1. todo' = todo \/ todo' = [todo EXCEPT ![p] = @ \ {cur[p][2]}]
      BY <1>24 DEF GrantPutWrite
    <3>2. todo \in [Proc -> SUBSET Alias]
      OBVIOUS
    <3> QED
      BY ONLY <3>1, <3>2
  <2>4. cur[p] \in Token /\ bound[p] \cup {cur[p]} \in SUBSET Token
    <3>1. pc[p] = "putWrite"
      BY <1>24 DEF GrantPutWrite
    <3>2. cur[p] \in Token
      BY <3>1, AtHandToken
    <3> QED
      BY <3>2
  <2>6. bound' \in [Proc -> SUBSET Token]
    <3>1. bound' = bound \/ bound' = [bound EXCEPT ![p] = @ \cup {cur[p]}]
      BY <1>24 DEF GrantPutWrite
    <3>2. bound \in [Proc -> SUBSET Token]
      OBVIOUS
    <3> QED
      BY ONLY <2>4, <3>1, <3>2
  <2>5. pc' \in [Proc -> Label]
    <3>1. pc' = [pc EXCEPT ![p] = "prep"] \/ pc' = [pc EXCEPT ![p] = "cfgRead"]
      BY <1>24 DEF GrantPutWrite
    <3>2. pc \in [Proc -> Label] /\ "prep" \in Label /\ "cfgRead" \in Label
      OBVIOUS
    <3> QED
      BY ONLY <3>1, <3>2
  <2> QED
    BY <1>24, <2>1, <2>2, <2>3, <2>5, <2>6 DEF GrantPutWrite
<1>25. ASSUME NEW p \in Proc, RevokeWrite(p) PROVE TypeOK'
  <2>1. ASSUME NEW g \in Grant PROVE [g EXCEPT !.status = "revoked"] \in Grant
    BY DEF Grant, Status
  <2>2. grants' = [t \in Token |-> IF t = cur[p]
            THEN [gsnap[p][t] EXCEPT !.status = "revoked"] ELSE gsnap[p][t]]
    BY <1>25 DEF RevokeWrite
  <2>4. gsnap[p] \in [Token -> Grant]
    BY <1>25
  <2>5. grants' \in [Token -> Grant]
    BY <2>1, <2>2, <2>4
  <2>6. gsnap' \in [Proc -> [Token -> Grant]]
    BY <1>25, Nulls DEF RevokeWrite
  <2>3. cur' \in [Proc -> Token \cup {NoToken}] /\ bound' \in [Proc -> SUBSET Token]
    BY <1>25 DEF RevokeWrite
  <2> QED
    BY <1>25, <2>3, <2>5, <2>6 DEF RevokeWrite
<1>26. ASSUME NEW p \in Proc, RevokeDone(p) PROVE TypeOK'
  BY <1>26 DEF RevokeDone, AfterRevoke
<1>27. ASSUME NEW p \in Proc, ResolveSecret(p) PROVE TypeOK'
  <2>1. injected' \in SUBSET [by : Proc, token : Token, secret : SecretId]
    BY <1>27 DEF ResolveSecret, Lookup
  <2> QED
    BY <1>27, <2>1, Nulls DEF ResolveSecret
<1>28. ASSUME NEW p \in Proc, Crash(p) PROVE TypeOK'
  BY <1>28, Nulls DEF Crash
<1>29. ASSUME NEW p \in Proc, NEW t \in Token, RevokeMissing(p, t) PROVE TypeOK'
  BY <1>29 DEF RevokeMissing
<1>30. ASSUME NEW p \in Proc, NEW t \in Token, RevokeRead(p, t) PROVE TypeOK'
  BY <1>30 DEF RevokeRead
<1>31. ASSUME NEW p \in Proc, NEW t \in Token, ResolveGrant(p, t) PROVE TypeOK'
  BY <1>31 DEF ResolveGrant, Admits, Lookup, Grant
<1>32. CASE Tick
  BY <1>32 DEF Tick
<1>33. CASE UNCHANGED vars
  BY <1>33 DEF vars
<1> QED
  BY <1>1, <1>2, <1>3, <1>4, <1>5, <1>6, <1>7, <1>8, <1>9, <1>10, <1>11, <1>12, <1>13, <1>14,
     <1>15, <1>16, <1>17, <1>18, <1>19, <1>20, <1>21, <1>22, <1>23, <1>24, <1>25, <1>26, <1>27,
     <1>28, <1>29, <1>30, <1>31, <1>32, <1>33
     DEF Next, RunStep, RotationStep, KeyCreateStep, StoreStep, RevokeStep, ResolveStep

\* The secret id is one the token may yield: of its alias, or of its key.
Fits(t, id) == IF t[1] \in Run THEN id \in Rotation /\ AliasOf[id] = t[2] ELSE id = t[1]

AliasesFit(f) == \A a \in Alias : f[a] # NoId => f[a] \in Rotation /\ AliasOf[f[a]] = a
GrantsFit(g) == \A t \in Token : g[t].status = "active" => Fits(t, g[t].ref)
CopiesFit == \A p \in Proc : AliasesFit(asnap[p]) /\ GrantsFit(gsnap[p])
HeldFits == \A p \in Proc : AtPut(p) => Fits(cur[p], held[p].ref)
LookFits == \A p \in Proc : look[p] # NoLookup =>
    /\ Fits(look[p].token, look[p].ref)
    /\ look[p].token[1] \in Run => look[p].token[1] = p

OwnInv == AliasesFit(aliases) /\ GrantsFit(grants) /\ CopiesFit /\ HeldFits /\ LookFits
          /\ OwnSecretOnly

\* The grant about to be written refers to a secret its token may yield.
LEMMA HeldFitsToken ==
    ASSUME HeldFits, NEW p \in Proc, pc[p] = "putWrite"
    PROVE  Fits(cur[p], held[p].ref)
BY DEF HeldFits, AtPut

\* Nothing is granted or copied at the start; the initial aliases fit.
LEMMA OwnInvInit == Init => OwnInv
BY ProcsAssumption, AliasAssumption
   DEF Init, OwnInv, AliasesFit, GrantsFit, CopiesFit, HeldFits, LookFits, OwnSecretOnly,
       AtPut, NoGrants, NoGrant, NoAliases, Proc

\* References are only ever copied, whole files at a time, so they go on fitting.
LEMMA OwnInvStep == TypeInv /\ OwnInv /\ [Next]_vars => OwnInv'
<1> SUFFICES ASSUME TypeInv, OwnInv, [Next]_vars PROVE OwnInv'
  OBVIOUS
<1> USE ProcsAssumption, AliasAssumption
    DEF TypeInv, TypeOK, AtHand, AtPut, Goto, files, snaps, Remaining, AfterStorePut, Doomed,
        Proc, Run, SecretId, OwnInv, AliasesFit, GrantsFit, CopiesFit, HeldFits, LookFits,
        OwnSecretOnly
<1>1. ASSUME NEW r \in Run, OpenRun(r) PROVE OwnInv'
  BY <1>1 DEF OpenRun
<1>2. ASSUME NEW r \in Run, Prepared(r) PROVE OwnInv'
  BY <1>2 DEF Prepared
<1>3. ASSUME NEW r \in Run, LaunchAgent(r) PROVE OwnInv'
  BY <1>3 DEF LaunchAgent
<1>4. ASSUME NEW r \in Run, EarlyReturn(r) PROVE OwnInv'
  BY <1>4 DEF EarlyReturn
<1>5. ASSUME NEW r \in Run, FinishRun(r) PROVE OwnInv'
  BY <1>5 DEF FinishRun
<1>6. ASSUME NEW r \in Run, StopGateway(r) PROVE OwnInv'
  BY <1>6 DEF StopGateway
<1>7. ASSUME NEW r \in Run, NEW a \in Alias, SkipAlias(r, a) PROVE OwnInv'
  BY <1>7 DEF SkipAlias
<1>8. ASSUME NEW r \in Run, NEW a \in Alias, MissingAlias(r, a) PROVE OwnInv'
  BY <1>8 DEF MissingAlias
<1>9. ASSUME NEW r \in Run, NEW a \in Alias, PrepareAlias(r, a) PROVE OwnInv'
  <2>1. Fits(<<r, a>>, aliases[a])
    BY <1>9 DEF PrepareAlias, Fits
  <2>2. HeldFits'
    BY <1>9, <2>1 DEF PrepareAlias, NewGrant
  <2>3. AliasesFit(aliases') /\ GrantsFit(grants') /\ CopiesFit'
    BY <1>9 DEF PrepareAlias
  <2>4. LookFits' /\ OwnSecretOnly'
    BY <1>9 DEF PrepareAlias
  <2> QED
    BY <2>2, <2>3, <2>4
<1>10. ASSUME NEW c \in Rotation, LookUpAlias(c) PROVE OwnInv'
  BY <1>10 DEF LookUpAlias
<1>11. ASSUME NEW c \in Rotation, AliasPutRead(c) PROVE OwnInv'
  BY <1>11 DEF AliasPutRead
<1>12. ASSUME NEW c \in Rotation, AliasPutWrite(c) PROVE OwnInv'
  <2>1. AliasesFit(aliases') /\ CopiesFit'
    BY <1>12 DEF AliasPutWrite, NoAliases
  <2>2. GrantsFit(grants') /\ LookFits' /\ OwnSecretOnly'
    BY <1>12 DEF AliasPutWrite
  <2>3. HeldFits'
    BY <1>12 DEF AliasPutWrite, AfterAliasPut
  <2> QED
    BY <2>1, <2>2, <2>3
<1>13. ASSUME NEW c \in Rotation, ListGrants(c) PROVE OwnInv'
  BY <1>13 DEF ListGrants
<1>14. ASSUME NEW c \in Rotation, StoreDeleteMissing(c) PROVE OwnInv'
  BY <1>14 DEF StoreDeleteMissing
<1>15. ASSUME NEW c \in Rotation, StoreDeleteRead(c) PROVE OwnInv'
  BY <1>15 DEF StoreDeleteRead
<1>16. ASSUME NEW c \in Rotation, StoreDeleteWrite(c) PROVE OwnInv'
  BY <1>16 DEF StoreDeleteWrite
<1>17. ASSUME NEW k \in KeyCreate, StartKeyCreate(k) PROVE OwnInv'
  <2>1. Fits(<<k, NoAlias>>, k)
    BY DEF Fits
  <2>2. HeldFits'
    BY <1>17, <2>1 DEF StartKeyCreate, NewGrant
  <2>3. AliasesFit(aliases') /\ GrantsFit(grants') /\ CopiesFit'
    BY <1>17 DEF StartKeyCreate
  <2>4. LookFits' /\ OwnSecretOnly'
    BY <1>17 DEF StartKeyCreate
  <2> QED
    BY <2>2, <2>3, <2>4
<1>18. ASSUME NEW k \in KeyCreate, ConfigRead(k) PROVE OwnInv'
  BY <1>18 DEF ConfigRead
<1>19. ASSUME NEW k \in KeyCreate, ConfigWrite(k) PROVE OwnInv'
  BY <1>19 DEF ConfigWrite
<1>20. ASSUME NEW v \in KeyRevoke, NEW t \in Token, StartKeyRevoke(v, t) PROVE OwnInv'
  BY <1>20 DEF StartKeyRevoke
<1>21. ASSUME NEW p \in Proc, StorePutRead(p) PROVE OwnInv'
  BY <1>21 DEF StorePutRead
<1>22. ASSUME NEW p \in Proc, StorePutWrite(p) PROVE OwnInv'
  BY <1>22 DEF StorePutWrite
<1>23. ASSUME NEW p \in Proc, GrantPutRead(p) PROVE OwnInv'
  BY <1>23 DEF GrantPutRead
<1>24. ASSUME NEW p \in Proc, GrantPutWrite(p) PROVE OwnInv'
  <2>7. pc[p] = "putWrite"
    BY <1>24 DEF GrantPutWrite
  <2>1. cur[p] \in Token /\ Fits(cur[p], held[p].ref)
    BY <2>7, AtHandToken, HeldFitsToken
  <2>2. GrantsFit(grants')
    BY <1>24, <2>1 DEF GrantPutWrite
  <2>3. CopiesFit'
    BY <1>24 DEF GrantPutWrite, NoGrants, NoGrant
  <2>4. HeldFits'
    BY <1>24 DEF GrantPutWrite
  <2> QED
    BY <1>24, <2>2, <2>3, <2>4 DEF GrantPutWrite
<1>25. ASSUME NEW p \in Proc, RevokeWrite(p) PROVE OwnInv'
  <2>1. grants' = [t \in Token |-> IF t = cur[p]
            THEN [gsnap[p][t] EXCEPT !.status = "revoked"] ELSE gsnap[p][t]]
    BY <1>25 DEF RevokeWrite
  <2>2. ASSUME NEW g \in Grant PROVE [g EXCEPT !.status = "revoked"].status # "active"
    BY DEF Grant
  <2>3. \A t \in Token : gsnap[p][t] \in Grant
    BY <1>25
  <2>4. GrantsFit(grants')
    BY <1>25, <2>1, <2>2, <2>3
  <2>5. CopiesFit'
    BY <1>25 DEF RevokeWrite, NoGrants, NoGrant
  <2>6. HeldFits'
    BY <1>25 DEF RevokeWrite
  <2> QED
    BY <1>25, <2>4, <2>5, <2>6 DEF RevokeWrite
<1>26. ASSUME NEW p \in Proc, RevokeDone(p) PROVE OwnInv'
  BY <1>26 DEF RevokeDone, AfterRevoke
<1>27. ASSUME NEW p \in Proc, ResolveSecret(p) PROVE OwnInv'
  <2>1. OwnSecretOnly'
    BY <1>27 DEF ResolveSecret, Fits
  <2>2. LookFits'
    BY <1>27 DEF ResolveSecret
  <2>3. UNCHANGED <<aliases, grants, asnap, gsnap, held, cur, pc>>
    BY <1>27 DEF ResolveSecret
  <2>4. AliasesFit(aliases') /\ GrantsFit(grants') /\ CopiesFit' /\ HeldFits'
    BY <2>3
  <2> QED
    BY <2>1, <2>2, <2>4
<1>28. ASSUME NEW p \in Proc, Crash(p) PROVE OwnInv'
  <2>1. /\ asnap' = [asnap EXCEPT ![p] = NoAliases] /\ gsnap' = [gsnap EXCEPT ![p] = NoGrants]
        /\ look' = [look EXCEPT ![p] = NoLookup] /\ pc' = [pc EXCEPT ![p] = "dead"]
        /\ held' = [held EXCEPT ![p] = NoGrant] /\ cur' = [cur EXCEPT ![p] = NoToken]
        /\ UNCHANGED <<aliases, grants, injected>>
    BY <1>28 DEF Crash
  <2>2. CopiesFit'
    BY <2>1 DEF NoAliases, NoGrants, NoGrant
  <2>3. HeldFits' /\ LookFits'
    BY <2>1
  <2>4. AliasesFit(aliases') /\ GrantsFit(grants') /\ OwnSecretOnly'
    BY <2>1
  <2> QED
    BY <2>2, <2>3, <2>4
<1>29. ASSUME NEW p \in Proc, NEW t \in Token, RevokeMissing(p, t) PROVE OwnInv'
  BY <1>29 DEF RevokeMissing
<1>30. ASSUME NEW p \in Proc, NEW t \in Token, RevokeRead(p, t) PROVE OwnInv'
  BY <1>30 DEF RevokeRead
<1>31. ASSUME NEW p \in Proc, NEW t \in Token, ResolveGrant(p, t) PROVE OwnInv'
  <2>1. Fits(t, grants[t].ref)
    BY <1>31 DEF ResolveGrant, Admits, Active
  <2>2. LookFits'
    BY <1>31, <2>1 DEF ResolveGrant, Admits
  <2> QED
    BY <1>31, <2>2 DEF ResolveGrant
<1>32. CASE Tick
  BY <1>32 DEF Tick
<1>33. CASE UNCHANGED vars
  BY <1>33 DEF vars
<1> QED
  BY <1>1, <1>2, <1>3, <1>4, <1>5, <1>6, <1>7, <1>8, <1>9, <1>10, <1>11, <1>12, <1>13, <1>14,
     <1>15, <1>16, <1>17, <1>18, <1>19, <1>20, <1>21, <1>22, <1>23, <1>24, <1>25, <1>26, <1>27,
     <1>28, <1>29, <1>30, <1>31, <1>32, <1>33
     DEF Next, RunStep, RotationStep, KeyCreateStep, StoreStep, RevokeStep, ResolveStep

\* TypeInv is an invariant; the theorems below use it.
LEMMA TypeInvariant == Spec => []TypeInv
<1>1. TypeInv /\ [Next]_vars => TypeInv'
  BY AtHandStep, TypeOKStep DEF TypeInv
<1> QED
  BY <1>1, TypeInvInit, PTL DEF Spec

\* Every variable keeps its type, however the processes interleave.
THEOREM TypeCorrect == Spec => []TypeOK
BY TypeInvariant, PTL DEF TypeInv

\* A token yields only a secret of its own alias, within its own run, whatever
\* updates of the files are lost: GrantAwareTokenResolver.resolve and its writers.
THEOREM OwnSecret == Spec => []OwnSecretOnly
<1>1. OwnInv => OwnSecretOnly
  BY DEF OwnInv
<1> QED
  BY <1>1, OwnInvInit, OwnInvStep, TypeInvariant, PTL DEF Spec

\* Where a rotation is before, and after, its new secret becomes the alias's.
BeforeAlias == {"start", "vputRead", "vputWrite", "aputRead", "aputWrite"}
AfterAlias == {"list", "revoke", "revWrite", "vdelRead", "vdelWrite", "done"}

OneStoreWriter == \A p, q \in Proc :
    pc[p] \in StoreWindow /\ pc[q] \in StoreWindow /\ StoreOf(p) = StoreOf(q) => p = q
StoreCopy == \A p \in Proc : pc[p] \in StoreWindow => fsnap[p] = store[StoreOf(p)]
OneAliasWriter == \A p, q \in Proc : pc[p] \in AliasWindow /\ pc[q] \in AliasWindow => p = q
AliasCopy == \A p \in Proc : pc[p] \in AliasWindow => asnap[p] = aliases
NewStored == \A c \in Rotation : pc[c] \in {"aputRead", "aputWrite"} => c \in store["vault"]
RefsArePast ==
    /\ \A a \in Alias : aliases[a] # NoId =>
          aliases[a] \in Rotation /\ AliasOf[aliases[a]] = a /\ pc[aliases[a]] \notin BeforeAlias
    /\ \A c \in Rotation : old[c] # NoId =>
          old[c] \in Rotation /\ AliasOf[old[c]] = AliasOf[c] /\ pc[old[c]] \notin BeforeAlias
OldIsReplaced == \A c \in Rotation, a \in Alias :
    pc[c] \in AfterAlias /\ old[c] # NoId => aliases[a] # old[c]

VaultInv == OneStoreWriter /\ StoreCopy /\ OneAliasWriter /\ AliasCopy /\ NewStored
            /\ RefsArePast /\ OldIsReplaced /\ AliasBacked /\ RotatedAway

\* The initial rotations are over and each alias refers to one of them.
LEMMA VaultInvInit == Init => VaultInv
<1> SUFFICES ASSUME Init PROVE VaultInv
  OBVIOUS
<1>1. \A a \in Alias : aliases[a] # NoId => aliases[a] \in Initial /\ AliasOf[aliases[a]] = a
  BY ProcsAssumption DEF Init
<1>2. /\ \A c \in Rotation : old[c] = NoId /\ pc[c] \in {"start", "done"}
      /\ \A c \in Initial : pc[c] = "done"
      /\ NoId \notin store["vault"] /\ store["vault"] = Initial
      /\ \A p \in Proc : pc[p] \in {"start", "done", "up"}
  BY ProcsAssumption, AliasAssumption DEF Init, Proc
<1> QED
  BY <1>1, <1>2, AliasAssumption
  DEF VaultInv, OneStoreWriter, StoreCopy, OneAliasWriter, AliasCopy, NewStored,
       RefsArePast, OldIsReplaced, AliasBacked, RotatedAway, BeforeAlias, AfterAlias,
       StoreWindow, AliasWindow, Proc, SecretId

\* The steps that matter are the writes: AliasPutWrite, StorePutWrite and
\* StoreDeleteWrite; the reads only have to find the window free.
LEMMA VaultInvStep == ~Overlap /\ TypeInv /\ VaultInv /\ [Next]_vars => VaultInv'
<1> SUFFICES ASSUME ~Overlap, TypeInv, VaultInv, [Next]_vars PROVE VaultInv'
  OBVIOUS
<1> USE ProcsAssumption, AliasAssumption
    DEF TypeInv, TypeOK, AtHand, AtPut, Goto, files, snaps, Remaining, AfterStorePut, Doomed,
        Proc, Run, SecretId,
        VaultInv, OneStoreWriter, StoreCopy, OneAliasWriter, AliasCopy, NewStored,
        RefsArePast, OldIsReplaced, AliasBacked, RotatedAway, BeforeAlias, AfterAlias,
        StoreWindow, AliasWindow, StoreOf
<1>1. ASSUME NEW r \in Run, OpenRun(r) PROVE VaultInv'
  BY <1>1 DEF OpenRun
<1>2. ASSUME NEW r \in Run, Prepared(r) PROVE VaultInv'
  BY <1>2 DEF Prepared
<1>3. ASSUME NEW r \in Run, LaunchAgent(r) PROVE VaultInv'
  BY <1>3 DEF LaunchAgent
<1>4. ASSUME NEW r \in Run, EarlyReturn(r) PROVE VaultInv'
  BY <1>4 DEF EarlyReturn
<1>5. ASSUME NEW r \in Run, FinishRun(r) PROVE VaultInv'
  BY <1>5 DEF FinishRun
<1>6. ASSUME NEW r \in Run, StopGateway(r) PROVE VaultInv'
  BY <1>6 DEF StopGateway
<1>7. ASSUME NEW r \in Run, NEW a \in Alias, SkipAlias(r, a) PROVE VaultInv'
  BY <1>7 DEF SkipAlias
<1>8. ASSUME NEW r \in Run, NEW a \in Alias, MissingAlias(r, a) PROVE VaultInv'
  BY <1>8 DEF MissingAlias
<1>9. ASSUME NEW r \in Run, NEW a \in Alias, PrepareAlias(r, a) PROVE VaultInv'
  BY <1>9 DEF PrepareAlias
<1>10. ASSUME NEW c \in Rotation, LookUpAlias(c) PROVE VaultInv'
  BY <1>10 DEF LookUpAlias
<1>11. ASSUME NEW c \in Rotation, AliasPutRead(c) PROVE VaultInv'
  BY <1>11 DEF AliasPutRead, MayOpen
<1>12. ASSUME NEW c \in Rotation, AliasPutWrite(c) PROVE VaultInv'
  <2>1. pc[c] = "aputWrite" /\ asnap[c] = aliases
    BY <1>12 DEF AliasPutWrite
  <2>2. aliases' = [aliases EXCEPT ![AliasOf[c]] = c] /\ c \in store["vault"] /\ c # NoId
    BY <1>12, <2>1 DEF AliasPutWrite
  <2>3. pc' = [pc EXCEPT ![c] = AfterAliasPut(c)] /\ AfterAliasPut(c) \in {"done", "vdelRead", "list"}
    BY <1>12 DEF AliasPutWrite, AfterAliasPut
  <2>4. UNCHANGED <<store, old, fsnap>>
    BY <1>12 DEF AliasPutWrite
  <2>5. OneStoreWriter' /\ StoreCopy' /\ OneAliasWriter' /\ NewStored'
    BY <2>1, <2>3, <2>4
  <2>6. AliasCopy'
    BY <1>12, <2>1, <2>3 DEF AliasPutWrite
  <2>7. RefsArePast'
    BY <2>1, <2>2, <2>3, <2>4
  <2>8. AliasBacked'
    BY <2>2, <2>4
  <2>9. RotatedAway'
    <3>1. AfterAliasPut(c) = "done" => old[c] = NoId
      BY DEF AfterAliasPut
    <3>2. NoId \notin store["vault"]
      OBVIOUS
    <3> QED
      BY <2>3, <2>4, <3>1, <3>2
  <2>10. OldIsReplaced'
    <3> SUFFICES ASSUME NEW d \in Rotation, NEW x \in Alias, pc'[d] \in AfterAlias, old[d] # NoId
                 PROVE  aliases'[x] # old[d]
      BY <2>4
    <3>1. CASE x = AliasOf[c]
      <4>1. aliases'[x] = c
        BY <2>2, <3>1
      <4>2. pc[old[d]] \notin BeforeAlias
        OBVIOUS
      <4> QED
        BY <2>1, <4>1, <4>2
    <3>2. CASE x # AliasOf[c]
      <4>1. aliases'[x] = aliases[x]
        BY <2>2, <3>2
      <4>2. CASE d = c
        BY <3>2, <4>1, <4>2
      <4>3. CASE d # c
        BY <2>3, <4>1, <4>3
      <4> QED
        BY <4>2, <4>3
    <3> QED
      BY <3>1, <3>2
  <2> QED
    BY <2>5, <2>6, <2>7, <2>8, <2>9, <2>10
<1>13. ASSUME NEW c \in Rotation, ListGrants(c) PROVE VaultInv'
  BY <1>13 DEF ListGrants
<1>14. ASSUME NEW c \in Rotation, StoreDeleteMissing(c) PROVE VaultInv'
  BY <1>14 DEF StoreDeleteMissing
<1>15. ASSUME NEW c \in Rotation, StoreDeleteRead(c) PROVE VaultInv'
  BY <1>15 DEF StoreDeleteRead, MayOpenStore
<1>16. ASSUME NEW c \in Rotation, StoreDeleteWrite(c) PROVE VaultInv'
  BY <1>16 DEF StoreDeleteWrite
<1>17. ASSUME NEW k \in KeyCreate, StartKeyCreate(k) PROVE VaultInv'
  BY <1>17 DEF StartKeyCreate
<1>18. ASSUME NEW k \in KeyCreate, ConfigRead(k) PROVE VaultInv'
  BY <1>18 DEF ConfigRead
<1>19. ASSUME NEW k \in KeyCreate, ConfigWrite(k) PROVE VaultInv'
  BY <1>19 DEF ConfigWrite
<1>20. ASSUME NEW v \in KeyRevoke, NEW t \in Token, StartKeyRevoke(v, t) PROVE VaultInv'
  BY <1>20 DEF StartKeyRevoke
<1>21. ASSUME NEW p \in Proc, StorePutRead(p) PROVE VaultInv'
  BY <1>21 DEF StorePutRead, MayOpenStore
<1>22. ASSUME NEW p \in Proc, StorePutWrite(p) PROVE VaultInv'
  BY <1>22 DEF StorePutWrite
<1>23. ASSUME NEW p \in Proc, GrantPutRead(p) PROVE VaultInv'
  BY <1>23 DEF GrantPutRead
<1>24. ASSUME NEW p \in Proc, GrantPutWrite(p) PROVE VaultInv'
  <2>1. p \notin Rotation /\ pc[p] = "putWrite"
    BY <1>24 DEF GrantPutWrite
  <2>2. \E l \in {"prep", "cfgRead"} : pc' = [pc EXCEPT ![p] = l]
    BY <1>24 DEF GrantPutWrite
  <2>3. UNCHANGED <<store, aliases, old, fsnap, asnap>>
    BY <1>24 DEF GrantPutWrite
  <2> QED
    BY <2>1, <2>2, <2>3
<1>25. ASSUME NEW p \in Proc, RevokeWrite(p) PROVE VaultInv'
  BY <1>25 DEF RevokeWrite
<1>26. ASSUME NEW p \in Proc, RevokeDone(p) PROVE VaultInv'
  BY <1>26 DEF RevokeDone, AfterRevoke
<1>27. ASSUME NEW p \in Proc, ResolveSecret(p) PROVE VaultInv'
  BY <1>27 DEF ResolveSecret
<1>28. ASSUME NEW p \in Proc, Crash(p) PROVE VaultInv'
  BY <1>28 DEF Crash
<1>29. ASSUME NEW p \in Proc, NEW t \in Token, RevokeMissing(p, t) PROVE VaultInv'
  BY <1>29 DEF RevokeMissing
<1>30. ASSUME NEW p \in Proc, NEW t \in Token, RevokeRead(p, t) PROVE VaultInv'
  BY <1>30 DEF RevokeRead
<1>31. ASSUME NEW p \in Proc, NEW t \in Token, ResolveGrant(p, t) PROVE VaultInv'
  BY <1>31 DEF ResolveGrant
<1>32. CASE Tick
  BY <1>32 DEF Tick
<1>33. CASE UNCHANGED vars
  BY <1>33 DEF vars
<1> QED
  BY <1>1, <1>2, <1>3, <1>4, <1>5, <1>6, <1>7, <1>8, <1>9, <1>10, <1>11, <1>12, <1>13, <1>14,
     <1>15, <1>16, <1>17, <1>18, <1>19, <1>20, <1>21, <1>22, <1>23, <1>24, <1>25, <1>26, <1>27,
     <1>28, <1>29, <1>30, <1>31, <1>32, <1>33
     DEF Next, RunStep, RotationStep, KeyCreateStep, StoreStep, RevokeStep, ResolveStep

\* add_alias never leaves an alias without its secret, wherever it is killed.
THEOREM AliasesBacked == ASSUME ~Overlap PROVE Spec => []AliasBacked
<1>1. VaultInv => AliasBacked
  BY DEF VaultInv
<1>2. VaultInv /\ TypeInv /\ [Next]_vars => VaultInv'
  BY VaultInvStep
<1> QED
  BY <1>1, <1>2, VaultInvInit, TypeInvariant, PTL DEF Spec

\* A finished add_alias has removed the secret it replaced, for good.
THEOREM OldSecretGone == ASSUME ~Overlap PROVE Spec => []RotatedAway
<1>1. VaultInv => RotatedAway
  BY DEF VaultInv
<1>2. VaultInv /\ TypeInv /\ [Next]_vars => VaultInv'
  BY VaultInvStep
<1> QED
  BY <1>1, <1>2, VaultInvInit, TypeInvariant, PTL DEF Spec

\* A token that no version of grants.json holds, neither the file nor a copy.
Nowhere(t) == grants[t].status = "absent" /\ \A q \in Proc : gsnap[q][t].status = "absent"
\* Two versions of a grant are of one issue.
Agree(g, h) == g.status # "absent" /\ h.status # "absent" => h.ref = g.ref /\ h.expires = g.expires

EarlyRun(r, a) == pc[r] = "start" \/ (pc[r] \in {"prep", "putRead", "putWrite"} /\ a \in todo[r])
EarlyKey(k) == pc[k] \in {"start", "vputRead", "vputWrite", "putRead", "putWrite"}
NothingEarly ==
    /\ \A r \in Run, a \in Alias : EarlyRun(r, a) => Nowhere(<<r, a>>)
    /\ \A k \in KeyCreate : EarlyKey(k) => Nowhere(<<k, NoAlias>>)
OwnToken == \A p \in Proc : AtPut(p) =>
    \/ p \in Run /\ \E a \in todo[p] : cur[p] = <<p, a>>
    \/ p \in KeyCreate /\ cur[p] = <<p, NoAlias>>
RevokesIssued == \A p \in Proc : pc[p] = "revWrite" =>
    cur[p] \in Token /\ gsnap[p][cur[p]].status # "absent"
VersionsAgree == \A t \in Token :
    /\ \A p \in Proc : Agree(grants[t], gsnap[p][t])
    /\ \A p, q \in Proc : Agree(gsnap[p][t], gsnap[q][t])

IssueInv == NothingEarly /\ OwnToken /\ RevokesIssued /\ VersionsAgree

\* No token is issued and nothing is bound at the start.
LEMMA IssueInvInit == Init => IssueInv
BY ProcsAssumption, AliasAssumption
   DEF Init, IssueInv, NothingEarly, Nowhere, EarlyRun, EarlyKey, OwnToken, RevokesIssued,
       VersionsAgree, Agree, AtPut, NoGrants, NoGrant, Token, Proc, Run

\* What every step keeps of the processes, whatever the files hold: nobody becomes early,
\* a token at hand is one's own, and a revocation under way has read its token.
Progress ==
    /\ \A r \in Run, a \in Alias : EarlyRun(r, a)' => EarlyRun(r, a)
    /\ \A k \in KeyCreate : EarlyKey(k)' => EarlyKey(k)
    /\ OwnToken'
    /\ \A p \in Proc : pc'[p] = "revWrite" =>
          (pc[p] = "revWrite" /\ cur'[p] = cur[p]) \/ \E t \in Token : RevokeRead(p, t)

LEMMA ProgressStep == TypeInv /\ OwnToken /\ [Next]_vars => Progress
<1> SUFFICES ASSUME TypeInv, OwnToken, [Next]_vars PROVE Progress
  OBVIOUS
<1> USE ProcsAssumption, AliasAssumption
    DEF TypeInv, TypeOK, AtHand, AtPut, Goto, files, snaps, Remaining, AfterStorePut, Doomed,
        Proc, Run, SecretId, Token, OwnToken, EarlyRun, EarlyKey, Progress
<1>1. ASSUME NEW r \in Run, OpenRun(r) PROVE Progress
  BY <1>1 DEF OpenRun
<1>2. ASSUME NEW r \in Run, Prepared(r) PROVE Progress
  BY <1>2 DEF Prepared
<1>3. ASSUME NEW r \in Run, LaunchAgent(r) PROVE Progress
  BY <1>3 DEF LaunchAgent
<1>4. ASSUME NEW r \in Run, EarlyReturn(r) PROVE Progress
  BY <1>4 DEF EarlyReturn
<1>5. ASSUME NEW r \in Run, FinishRun(r) PROVE Progress
  BY <1>5 DEF FinishRun
<1>6. ASSUME NEW r \in Run, StopGateway(r) PROVE Progress
  BY <1>6 DEF StopGateway
<1>7. ASSUME NEW r \in Run, NEW a \in Alias, SkipAlias(r, a) PROVE Progress
  BY <1>7 DEF SkipAlias
<1>8. ASSUME NEW r \in Run, NEW a \in Alias, MissingAlias(r, a) PROVE Progress
  BY <1>8 DEF MissingAlias
<1>9. ASSUME NEW r \in Run, NEW a \in Alias, PrepareAlias(r, a) PROVE Progress
  BY <1>9 DEF PrepareAlias
<1>10. ASSUME NEW c \in Rotation, LookUpAlias(c) PROVE Progress
  BY <1>10 DEF LookUpAlias
<1>11. ASSUME NEW c \in Rotation, AliasPutRead(c) PROVE Progress
  BY <1>11 DEF AliasPutRead
<1>12. ASSUME NEW c \in Rotation, AliasPutWrite(c) PROVE Progress
  BY <1>12 DEF AliasPutWrite, AfterAliasPut
<1>13. ASSUME NEW c \in Rotation, ListGrants(c) PROVE Progress
  BY <1>13 DEF ListGrants
<1>14. ASSUME NEW c \in Rotation, StoreDeleteMissing(c) PROVE Progress
  BY <1>14 DEF StoreDeleteMissing
<1>15. ASSUME NEW c \in Rotation, StoreDeleteRead(c) PROVE Progress
  BY <1>15 DEF StoreDeleteRead
<1>16. ASSUME NEW c \in Rotation, StoreDeleteWrite(c) PROVE Progress
  BY <1>16 DEF StoreDeleteWrite
<1>17. ASSUME NEW k \in KeyCreate, StartKeyCreate(k) PROVE Progress
  BY <1>17 DEF StartKeyCreate
<1>18. ASSUME NEW k \in KeyCreate, ConfigRead(k) PROVE Progress
  BY <1>18 DEF ConfigRead
<1>19. ASSUME NEW k \in KeyCreate, ConfigWrite(k) PROVE Progress
  BY <1>19 DEF ConfigWrite
<1>20. ASSUME NEW v \in KeyRevoke, NEW t \in Token, StartKeyRevoke(v, t) PROVE Progress
  BY <1>20 DEF StartKeyRevoke
<1>21. ASSUME NEW p \in Proc, StorePutRead(p) PROVE Progress
  BY <1>21 DEF StorePutRead
<1>22. ASSUME NEW p \in Proc, StorePutWrite(p) PROVE Progress
  BY <1>22 DEF StorePutWrite
<1>23. ASSUME NEW p \in Proc, GrantPutRead(p) PROVE Progress
  BY <1>23 DEF GrantPutRead
<1>24. ASSUME NEW p \in Proc, GrantPutWrite(p) PROVE Progress
  BY <1>24 DEF GrantPutWrite
<1>25. ASSUME NEW p \in Proc, RevokeWrite(p) PROVE Progress
  BY <1>25 DEF RevokeWrite
<1>26. ASSUME NEW p \in Proc, RevokeDone(p) PROVE Progress
  BY <1>26 DEF RevokeDone, AfterRevoke
<1>27. ASSUME NEW p \in Proc, ResolveSecret(p) PROVE Progress
  BY <1>27 DEF ResolveSecret
<1>28. ASSUME NEW p \in Proc, Crash(p) PROVE Progress
  BY <1>28 DEF Crash
<1>29. ASSUME NEW p \in Proc, NEW t \in Token, RevokeMissing(p, t) PROVE Progress
  BY <1>29 DEF RevokeMissing
<1>30. ASSUME NEW p \in Proc, NEW t \in Token, RevokeRead(p, t) PROVE Progress
  <2>1. OwnToken' /\ pc' = [pc EXCEPT ![p] = "revWrite"]
        /\ cur' = [cur EXCEPT ![p] = t] /\ UNCHANGED todo
    BY <1>30 DEF RevokeRead
  <2> QED
    BY <1>30, <2>1
<1>31. ASSUME NEW p \in Proc, NEW t \in Token, ResolveGrant(p, t) PROVE Progress
  BY <1>31 DEF ResolveGrant
<1>32. CASE Tick
  BY <1>32 DEF Tick
<1>33. CASE UNCHANGED vars
  BY <1>33 DEF vars
<1> QED
  BY <1>1, <1>2, <1>3, <1>4, <1>5, <1>6, <1>7, <1>8, <1>9, <1>10, <1>11, <1>12, <1>13, <1>14,
     <1>15, <1>16, <1>17, <1>18, <1>19, <1>20, <1>21, <1>22, <1>23, <1>24, <1>25, <1>26, <1>27,
     <1>28, <1>29, <1>30, <1>31, <1>32, <1>33
     DEF Next, RunStep, RotationStep, KeyCreateStep, StoreStep, RevokeStep, ResolveStep

\* Only the reads and writes of LocalJsonGrantStore, and a kill, change a version of the file.
LEMMA VersionChanges ==
    [Next]_vars => \/ UNCHANGED <<grants, gsnap>>
                   \/ \E p \in Proc : \/ GrantPutRead(p) \/ GrantPutWrite(p)
                                      \/ RevokeWrite(p) \/ Crash(p)
                                      \/ \E t \in Token : RevokeRead(p, t)
<1> DEFINE Change == \E p \in Proc : \/ GrantPutRead(p) \/ GrantPutWrite(p)
                                     \/ RevokeWrite(p) \/ Crash(p)
                                     \/ \E t \in Token : RevokeRead(p, t)
<1> SUFFICES ASSUME [Next]_vars, ~UNCHANGED <<grants, gsnap>> PROVE Change
  OBVIOUS
<1>1. ASSUME NEW r \in Run PROVE ~RunStep(r)
  BY DEF RunStep, OpenRun, SkipAlias, MissingAlias, PrepareAlias, Prepared, LaunchAgent,
         EarlyReturn, FinishRun, StopGateway, files, snaps
<1>2. ASSUME NEW c \in Rotation PROVE ~RotationStep(c)
  BY DEF RotationStep, LookUpAlias, AliasPutRead, AliasPutWrite, ListGrants,
         StoreDeleteMissing, StoreDeleteRead, StoreDeleteWrite, files, snaps
<1>3. ASSUME NEW k \in KeyCreate PROVE ~KeyCreateStep(k)
  BY DEF KeyCreateStep, StartKeyCreate, ConfigRead, ConfigWrite, files, snaps
<1>4. ASSUME NEW v \in KeyRevoke, NEW t \in Token PROVE ~StartKeyRevoke(v, t)
  BY DEF StartKeyRevoke, files, snaps
<1>5. ASSUME NEW p \in Proc PROVE ~ResolveStep(p)
  BY DEF ResolveStep, ResolveGrant, ResolveSecret, files, snaps
<1>6. ASSUME NEW p \in Proc, StoreStep(p) PROVE Change
  BY <1>6 DEF StoreStep, StorePutRead, StorePutWrite, files
<1>7. ASSUME NEW p \in Proc, RevokeStep(p) PROVE Change
  BY <1>7 DEF RevokeStep, RevokeDone, RevokeMissing, files, snaps
<1>8. ~Tick /\ ~UNCHANGED vars
  BY DEF Tick, vars, files, snaps
<1> QED
  BY <1>1, <1>2, <1>3, <1>4, <1>5, <1>6, <1>7, <1>8 DEF Next

\* The token of a process about to write a grant is in no version of the file.
LEMMA PutIsFirst ==
    ASSUME TypeInv, NothingEarly, OwnToken, NEW p \in Proc, pc[p] = "putWrite"
    PROVE  Nowhere(cur[p])
<1>1. AtPut(p)
  BY DEF AtPut
<1>2. CASE p \in Run
  <2>1. PICK a \in todo[p] : cur[p] = <<p, a>>
    BY <1>1, <1>2, ProcsAssumption DEF OwnToken, Run
  <2> QED
    BY <1>2, <2>1 DEF NothingEarly, EarlyRun, TypeInv, TypeOK
<1>3. CASE p \notin Run
  BY <1>1, <1>3 DEF OwnToken, NothingEarly, EarlyKey
<1> QED
  BY <1>2, <1>3

\* What the next versions of the file and of its copies hold of one token.
Descends(t) ==
    /\ Nowhere(t) => Nowhere(t)' \/ \E p \in Proc : GrantPutWrite(p) /\ cur[p] = t
    /\ \A p \in Proc : Agree(grants'[t], gsnap'[p][t])
    /\ \A p, q \in Proc : Agree(gsnap'[p][t], gsnap'[q][t])
    /\ Agree(grants[t], grants'[t])

\* A copy taken or dropped is a version there was, or the empty one.
LEMMA CopyDescends ==
    ASSUME TypeInv, VersionsAgree, NEW p \in Proc, NEW t \in Token, UNCHANGED grants,
           gsnap' = [gsnap EXCEPT ![p] = grants] \/ gsnap' = [gsnap EXCEPT ![p] = NoGrants]
    PROVE  Descends(t)
<1>1. NoGrants[t].status = "absent"
  BY DEF NoGrants, NoGrant
<1>2. \A q \in Proc : gsnap'[q] = gsnap[q] \/ gsnap'[q] = grants \/ gsnap'[q] = NoGrants
  BY DEF TypeInv, TypeOK
<1>3. /\ \A q \in Proc : Agree(grants[t], gsnap[q][t])
      /\ \A q, r \in Proc : Agree(gsnap[q][t], gsnap[r][t])
  BY DEF VersionsAgree
<1> QED
  BY <1>1, <1>2, <1>3 DEF Descends, Nowhere, Agree

\* The write of a put adds a token no version had, and keeps its copy of the others.
LEMMA PutDescends ==
    ASSUME TypeInv, NothingEarly, OwnToken, VersionsAgree, NEW p \in Proc, NEW t \in Token,
           GrantPutWrite(p)
    PROVE  Descends(t)
<1>1. /\ pc[p] = "putWrite" /\ gsnap' = [gsnap EXCEPT ![p] = NoGrants]
      /\ grants' = [gsnap[p] EXCEPT ![cur[p]] = held[p]]
  BY DEF GrantPutWrite
<1>2. NoGrants[t].status = "absent"
  BY DEF NoGrants, NoGrant
<1>3. \A q \in Proc : gsnap'[q] = gsnap[q] \/ gsnap'[q] = NoGrants
  BY <1>1 DEF TypeInv, TypeOK
<1>4. /\ \A q \in Proc : Agree(grants[t], gsnap[q][t])
      /\ \A q, r \in Proc : Agree(gsnap[q][t], gsnap[r][t])
  BY DEF VersionsAgree
<1>5. CASE t = cur[p]
  <2>1. Nowhere(t)
    BY <1>1, <1>5, PutIsFirst
  <2> QED
    BY <1>2, <1>3, <1>5, <2>1 DEF Descends, Nowhere, Agree
<1>6. CASE t # cur[p]
  <2>1. grants'[t] = gsnap[p][t]
    BY <1>1, <1>6 DEF TypeInv, TypeOK
  <2> QED
    BY <1>2, <1>3, <1>4, <2>1 DEF Descends, Nowhere, Agree
<1> QED
  BY <1>5, <1>6

\* The write of a revocation keeps its copy, but for the status of a token the copy holds.
LEMMA RevokeDescends ==
    ASSUME TypeInv, RevokesIssued, VersionsAgree, NEW p \in Proc, NEW t \in Token,
           RevokeWrite(p)
    PROVE  Descends(t)
<1>1. /\ pc[p] = "revWrite" /\ gsnap' = [gsnap EXCEPT ![p] = NoGrants]
      /\ grants' = [gsnap[p] EXCEPT ![cur[p]].status = "revoked"]
  BY DEF RevokeWrite
<1>2. NoGrants[t].status = "absent"
  BY DEF NoGrants, NoGrant
<1>3. \A q \in Proc : gsnap'[q] = gsnap[q] \/ gsnap'[q] = NoGrants
  BY <1>1 DEF TypeInv, TypeOK
<1>4. /\ \A q \in Proc : Agree(grants[t], gsnap[q][t])
      /\ \A q, r \in Proc : Agree(gsnap[q][t], gsnap[r][t])
  BY DEF VersionsAgree
<1>5. /\ grants'[t].ref = gsnap[p][t].ref /\ grants'[t].expires = gsnap[p][t].expires
      /\ grants'[t].status = "absent" <=> gsnap[p][t].status = "absent"
  <2>1. gsnap[p] \in [Token -> Grant] /\ gsnap[p][cur[p]].status # "absent"
    BY <1>1 DEF TypeInv, TypeOK, RevokesIssued
  <2> QED
    BY <1>1, <2>1 DEF Grant
<1> QED
  BY <1>2, <1>3, <1>4, <1>5 DEF Descends, Nowhere, Agree

\* One of these is every step.
LEMMA VersionsDescend ==
    ASSUME TypeInv, IssueInv, [Next]_vars, NEW t \in Token
    PROVE  Descends(t)
<1>1. CASE UNCHANGED <<grants, gsnap>>
  <2>1. /\ \A q \in Proc : Agree(grants[t], gsnap[q][t])
        /\ \A q, r \in Proc : Agree(gsnap[q][t], gsnap[r][t])
    BY DEF IssueInv, VersionsAgree
  <2> QED
    BY <1>1, <2>1 DEF Descends, Nowhere, Agree
<1>2. ASSUME NEW p \in Proc, GrantPutRead(p) \/ Crash(p) \/ \E u \in Token : RevokeRead(p, u)
      PROVE  Descends(t)
  <2>1. UNCHANGED grants
    BY <1>2 DEF GrantPutRead, RevokeRead, Crash, files
  <2>2. gsnap' = [gsnap EXCEPT ![p] = grants] \/ gsnap' = [gsnap EXCEPT ![p] = NoGrants]
    BY <1>2 DEF GrantPutRead, RevokeRead, Crash
  <2> QED
    BY <2>1, <2>2, CopyDescends DEF IssueInv
<1>3. ASSUME NEW p \in Proc, GrantPutWrite(p) PROVE Descends(t)
  BY <1>3, PutDescends DEF IssueInv
<1>4. ASSUME NEW p \in Proc, RevokeWrite(p) PROVE Descends(t)
  BY <1>4, RevokeDescends DEF IssueInv
<1> QED
  BY <1>1, <1>2, <1>3, <1>4, VersionChanges

\* A put takes its token off the list of the run, or the key past its put.
LEMMA PutEndsEarly ==
    ASSUME TypeInv, OwnToken, NEW p \in Proc, GrantPutWrite(p)
    PROVE  /\ \A r \in Run, a \in Alias : cur[p] = <<r, a>> => ~EarlyRun(r, a)'
           /\ \A k \in KeyCreate : cur[p] = <<k, NoAlias>> => ~EarlyKey(k)'
<1>1. AtPut(p) /\ pc[p] = "putWrite"
  BY DEF AtPut, GrantPutWrite
<1>2. CASE p \in Run
  <2>1. PICK a \in todo[p] : cur[p] = <<p, a>>
    BY <1>1, <1>2, ProcsAssumption DEF OwnToken, Run
  <2>2. todo' = [todo EXCEPT ![p] = @ \ {a}] /\ pc' = [pc EXCEPT ![p] = "prep"]
    BY <1>2, <2>1, ProcsAssumption DEF GrantPutWrite, Remaining, Goto, Run
  <2> QED
    BY <1>2, <2>1, <2>2, ProcsAssumption DEF TypeInv, TypeOK, EarlyRun, EarlyKey, Run
<1>3. CASE p \in KeyCreate
  <2>1. cur[p] = <<p, NoAlias>> /\ pc' = [pc EXCEPT ![p] = "cfgRead"]
    BY <1>1, <1>3, ProcsAssumption DEF OwnToken, GrantPutWrite, Goto, Run
  <2> QED
    BY <1>3, <2>1, ProcsAssumption DEF TypeInv, TypeOK, EarlyRun, EarlyKey
<1> QED
  BY <1>2, <1>3 DEF GrantPutWrite

\* Tokens are put once, and all that is copied and written back is of that put.
LEMMA IssueInvStep == TypeInv /\ IssueInv /\ [Next]_vars => IssueInv'
<1> SUFFICES ASSUME TypeInv, IssueInv, [Next]_vars PROVE IssueInv'
  OBVIOUS
<1>1. Progress
  BY ProgressStep DEF IssueInv
<1>2. \A t \in Token : Descends(t)
  BY VersionsDescend
<1>3. NothingEarly'
  <2>1. ASSUME NEW r \in Run, NEW a \in Alias, EarlyRun(r, a)' PROVE Nowhere(<<r, a>>)'
    <3>1. <<r, a>> \in Token /\ Nowhere(<<r, a>>)
      BY <1>1, <2>1 DEF Progress, IssueInv, NothingEarly, Token
    <3>2. Nowhere(<<r, a>>)' \/ \E p \in Proc : GrantPutWrite(p) /\ cur[p] = <<r, a>>
      BY <1>2, <3>1 DEF Descends
    <3> QED
      BY <2>1, <3>2, PutEndsEarly DEF IssueInv
  <2>2. ASSUME NEW k \in KeyCreate, EarlyKey(k)' PROVE Nowhere(<<k, NoAlias>>)'
    <3>1. <<k, NoAlias>> \in Token /\ Nowhere(<<k, NoAlias>>)
      BY <1>1, <2>2 DEF Progress, IssueInv, NothingEarly, Token
    <3>2. Nowhere(<<k, NoAlias>>)' \/ \E p \in Proc : GrantPutWrite(p) /\ cur[p] = <<k, NoAlias>>
      BY <1>2, <3>1 DEF Descends
    <3> QED
      BY <2>2, <3>2, PutEndsEarly DEF IssueInv
  <2> QED
    BY <2>1, <2>2 DEF NothingEarly
<1>4. VersionsAgree'
  BY <1>2 DEF Descends, VersionsAgree
<1>5. RevokesIssued'
  <2> SUFFICES ASSUME NEW p \in Proc, pc'[p] = "revWrite"
               PROVE  cur'[p] \in Token /\ gsnap'[p][cur'[p]].status # "absent"
    BY DEF RevokesIssued
  <2>1. CASE \E t \in Token : RevokeRead(p, t)
    BY <2>1 DEF RevokeRead, TypeInv, TypeOK
  <2>2. CASE pc[p] = "revWrite" /\ cur'[p] = cur[p]
    <3>1. cur[p] \in Token /\ gsnap[p][cur[p]].status # "absent"
      BY <2>2 DEF IssueInv, RevokesIssued
    <3>2. gsnap'[p] = gsnap[p]
      <4>1. ASSUME NEW q \in Proc, GrantPutRead(q) \/ GrantPutWrite(q) \/ RevokeWrite(q) \/ Crash(q)
                     \/ \E t \in Token : RevokeRead(q, t)
            PROVE  gsnap'[p] = gsnap[p]
        <5>1. q # p
          BY <2>2, <4>1 DEF GrantPutRead, GrantPutWrite, RevokeWrite, Crash, RevokeRead, Goto,
                            TypeInv, TypeOK
        <5>2. \E g : gsnap' = [gsnap EXCEPT ![q] = g]
          BY <4>1 DEF GrantPutRead, GrantPutWrite, RevokeWrite, Crash, RevokeRead
        <5> QED
          BY <5>1, <5>2 DEF TypeInv, TypeOK
      <4> QED
        BY <4>1, VersionChanges
    <3> QED
      BY <2>2, <3>1, <3>2
  <2> QED
    BY <1>1, <2>1, <2>2 DEF Progress
<1> QED
  BY <1>1, <1>3, <1>4, <1>5 DEF IssueInv, Progress

\* A grant is issued once: no lost, stale or repeated update of LocalJsonGrantStore
\* gives a token another secret or another lifetime.
THEOREM NeverRenewedHolds == Spec => NeverRenewed
<1>1. IssueInv /\ TypeInv /\ [Next]_vars => IssueInv'
  BY IssueInvStep
<1>2. TypeInv /\ IssueInv /\ [Next]_vars =>
        [\A t \in Token : grants[t].status # "absent" /\ grants'[t].status # "absent"
            => grants'[t].ref = grants[t].ref /\ grants'[t].expires = grants[t].expires]_vars
  BY VersionsDescend DEF Descends, Agree
<1> QED
  BY <1>1, <1>2, IssueInvInit, TypeInvariant, PTL DEF Spec, NeverRenewed

OneGrantWriter == \A p, q \in Proc : pc[p] \in GrantWindow /\ pc[q] \in GrantWindow => p = q
GrantCopy == \A p \in Proc : pc[p] \in GrantWindow => gsnap[p] = grants
ActiveBound == \A r \in Run, a \in Alias :
    Active(<<r, a>>) => <<r, a>> \in bound[r] \/ pc[r] \in {"failed", "dead"}
ClosedUnbound == \A r \in Run : pc[r] \in {"closing", "done"} => bound[r] = {}

GrantInv == OneGrantWriter /\ GrantCopy /\ ActiveBound /\ ClosedUnbound

\* No token is issued and nothing is bound at the start.
LEMMA GrantInvInit == Init => GrantInv
BY ProcsAssumption, AliasAssumption
   DEF Init, GrantInv, OneGrantWriter, GrantCopy, ActiveBound, ClosedUnbound, GrantWindow,
       Active, NoGrants, NoGrant, Token, Proc, Run

\* One writer at a time, and what a run has bound it revokes in the end.
LEMMA GrantInvStep == ~Overlap /\ TypeInv /\ IssueInv /\ GrantInv /\ [Next]_vars => GrantInv'
<1> SUFFICES ASSUME ~Overlap, TypeInv, IssueInv, GrantInv, [Next]_vars PROVE GrantInv'
  OBVIOUS
<1>a. OwnToken /\ RevokesIssued
  BY DEF IssueInv
<1> USE ProcsAssumption, AliasAssumption
    DEF TypeInv, TypeOK, AtHand, AtPut, Goto, files, snaps, Remaining, AfterStorePut, Doomed,
        Proc, Run, SecretId, Token,
        GrantInv, OneGrantWriter, GrantCopy, ActiveBound, ClosedUnbound, GrantWindow, Active
<1>1. ASSUME NEW r \in Run, OpenRun(r) PROVE GrantInv'
  BY <1>1 DEF OpenRun
<1>2. ASSUME NEW r \in Run, Prepared(r) PROVE GrantInv'
  BY <1>2 DEF Prepared
<1>3. ASSUME NEW r \in Run, LaunchAgent(r) PROVE GrantInv'
  BY <1>3 DEF LaunchAgent
<1>4. ASSUME NEW r \in Run, EarlyReturn(r) PROVE GrantInv'
  BY <1>4 DEF EarlyReturn
<1>5. ASSUME NEW r \in Run, FinishRun(r) PROVE GrantInv'
  BY <1>5 DEF FinishRun
<1>6. ASSUME NEW r \in Run, StopGateway(r) PROVE GrantInv'
  BY <1>6 DEF StopGateway
<1>7. ASSUME NEW r \in Run, NEW a \in Alias, SkipAlias(r, a) PROVE GrantInv'
  BY <1>7 DEF SkipAlias
<1>8. ASSUME NEW r \in Run, NEW a \in Alias, MissingAlias(r, a) PROVE GrantInv'
  BY <1>8 DEF MissingAlias
<1>9. ASSUME NEW r \in Run, NEW a \in Alias, PrepareAlias(r, a) PROVE GrantInv'
  BY <1>9 DEF PrepareAlias
<1>10. ASSUME NEW c \in Rotation, LookUpAlias(c) PROVE GrantInv'
  BY <1>10 DEF LookUpAlias
<1>11. ASSUME NEW c \in Rotation, AliasPutRead(c) PROVE GrantInv'
  BY <1>11 DEF AliasPutRead
<1>12. ASSUME NEW c \in Rotation, AliasPutWrite(c) PROVE GrantInv'
  BY <1>12 DEF AliasPutWrite, AfterAliasPut
<1>13. ASSUME NEW c \in Rotation, ListGrants(c) PROVE GrantInv'
  BY <1>13 DEF ListGrants
<1>14. ASSUME NEW c \in Rotation, StoreDeleteMissing(c) PROVE GrantInv'
  BY <1>14 DEF StoreDeleteMissing
<1>15. ASSUME NEW c \in Rotation, StoreDeleteRead(c) PROVE GrantInv'
  BY <1>15 DEF StoreDeleteRead
<1>16. ASSUME NEW c \in Rotation, StoreDeleteWrite(c) PROVE GrantInv'
  BY <1>16 DEF StoreDeleteWrite
<1>17. ASSUME NEW k \in KeyCreate, StartKeyCreate(k) PROVE GrantInv'
  BY <1>17 DEF StartKeyCreate
<1>18. ASSUME NEW k \in KeyCreate, ConfigRead(k) PROVE GrantInv'
  BY <1>18 DEF ConfigRead
<1>19. ASSUME NEW k \in KeyCreate, ConfigWrite(k) PROVE GrantInv'
  BY <1>19 DEF ConfigWrite
<1>20. ASSUME NEW v \in KeyRevoke, NEW t \in Token, StartKeyRevoke(v, t) PROVE GrantInv'
  BY <1>20 DEF StartKeyRevoke
<1>21. ASSUME NEW p \in Proc, StorePutRead(p) PROVE GrantInv'
  BY <1>21 DEF StorePutRead
<1>22. ASSUME NEW p \in Proc, StorePutWrite(p) PROVE GrantInv'
  BY <1>22 DEF StorePutWrite
<1>23. ASSUME NEW p \in Proc, GrantPutRead(p) PROVE GrantInv'
  <2>1. \A q \in Proc : pc[q] \notin GrantWindow
    BY <1>23 DEF GrantPutRead, MayOpen
  <2>2. OneGrantWriter' /\ GrantCopy'
    BY <1>23, <2>1 DEF GrantPutRead
  <2>4. ActiveBound' /\ ClosedUnbound'
    BY <1>23 DEF GrantPutRead
  <2> QED
    BY <2>2, <2>4
<1>24. ASSUME NEW p \in Proc, GrantPutWrite(p) PROVE GrantInv'
  <2>1. pc[p] = "putWrite" /\ gsnap[p] = grants /\ cur[p] \in Token /\ AtPut(p)
    BY <1>24 DEF GrantPutWrite
  <2>2. grants' = [grants EXCEPT ![cur[p]] = held[p]]
    BY <1>24, <2>1 DEF GrantPutWrite
  <2>3. \A q \in Proc : q # p => pc[q] \notin GrantWindow
    BY <2>1
  <2>4. \E l \in {"prep", "cfgRead"} : pc' = [pc EXCEPT ![p] = l]
    BY <1>24 DEF GrantPutWrite
  <2>5. OneGrantWriter' /\ GrantCopy'
    BY <2>3, <2>4
  <2>6. CASE p \in Run
    <3>1. PICK a \in todo[p] : cur[p] = <<p, a>>
      BY <1>a, <2>1, <2>6 DEF OwnToken
    <3>2. /\ bound' = [bound EXCEPT ![p] = @ \cup {<<p, a>>}] /\ pc' = [pc EXCEPT ![p] = "prep"]
      BY <1>24, <2>6, <3>1 DEF GrantPutWrite
    <3>3. ActiveBound' /\ ClosedUnbound'
      BY <2>1, <2>2, <2>6, <3>1, <3>2
    <3> QED
      BY <2>5, <3>3
  <2>7. CASE p \in KeyCreate
    <3>1. cur[p] = <<p, NoAlias>>
      BY <1>a, <2>1, <2>7 DEF OwnToken
    <3>2. UNCHANGED bound /\ pc' = [pc EXCEPT ![p] = "cfgRead"]
      BY <1>24, <2>7 DEF GrantPutWrite
    <3>3. ActiveBound' /\ ClosedUnbound'
      BY <2>1, <2>2, <2>7, <3>1, <3>2
    <3> QED
      BY <2>5, <3>3
  <2> QED
    BY <1>24, <2>6, <2>7 DEF GrantPutWrite
<1>25. ASSUME NEW p \in Proc, RevokeWrite(p) PROVE GrantInv'
  <2>1. pc[p] = "revWrite" /\ gsnap[p] = grants /\ cur[p] \in Token
    BY <1>25, <1>a DEF RevokeWrite, RevokesIssued
  <2>2. /\ grants' = [grants EXCEPT ![cur[p]].status = "revoked"]
        /\ pc' = [pc EXCEPT ![p] = "revoke"]
        /\ bound' = [bound EXCEPT ![p] = @ \ {cur[p]}]
        /\ gsnap' = [gsnap EXCEPT ![p] = NoGrants]
    BY <1>25, <2>1 DEF RevokeWrite
  <2>3. \A q \in Proc : q # p => pc[q] \notin GrantWindow
    BY <2>1
  <2>4. /\ grants'[cur[p]].status = "revoked"
        /\ \A t \in Token : t # cur[p] => grants'[t] = grants[t]
    BY <2>1, <2>2
  <2>5. OneGrantWriter' /\ GrantCopy'
    BY <2>2, <2>3
  <2>6. ActiveBound' /\ ClosedUnbound'
    BY <2>1, <2>2, <2>4
  <2> QED
    BY <2>5, <2>6
<1>26. ASSUME NEW p \in Proc, RevokeDone(p) PROVE GrantInv'
  BY <1>26 DEF RevokeDone, AfterRevoke
<1>27. ASSUME NEW p \in Proc, ResolveSecret(p) PROVE GrantInv'
  BY <1>27 DEF ResolveSecret
<1>28. ASSUME NEW p \in Proc, Crash(p) PROVE GrantInv'
  <2>1. /\ pc' = [pc EXCEPT ![p] = "dead"] /\ grants' = grants
        /\ todo' = [todo EXCEPT ![p] = {}] /\ bound' = [bound EXCEPT ![p] = {}]
        /\ cur' = [cur EXCEPT ![p] = NoToken] /\ gsnap' = [gsnap EXCEPT ![p] = NoGrants]
    BY <1>28 DEF Crash
  <2>2. OneGrantWriter' /\ GrantCopy'
    BY <2>1
  <2>4. ActiveBound' /\ ClosedUnbound'
    BY <2>1
  <2> QED
    BY <2>2, <2>4
<1>29. ASSUME NEW p \in Proc, NEW t \in Token, RevokeMissing(p, t) PROVE GrantInv'
  BY <1>29 DEF RevokeMissing
<1>30. ASSUME NEW p \in Proc, NEW t \in Token, RevokeRead(p, t) PROVE GrantInv'
  <2>1. \A q \in Proc : pc[q] \notin GrantWindow
    BY <1>30 DEF RevokeRead, MayOpen
  <2>2. OneGrantWriter' /\ GrantCopy'
    BY <1>30, <2>1 DEF RevokeRead
  <2>4. ActiveBound' /\ ClosedUnbound'
    BY <1>30 DEF RevokeRead
  <2> QED
    BY <2>2, <2>4
<1>31. ASSUME NEW p \in Proc, NEW t \in Token, ResolveGrant(p, t) PROVE GrantInv'
  BY <1>31 DEF ResolveGrant
<1>32. CASE Tick
  BY <1>32 DEF Tick
<1>33. CASE UNCHANGED vars
  BY <1>33 DEF vars
<1> QED
  BY <1>1, <1>2, <1>3, <1>4, <1>5, <1>6, <1>7, <1>8, <1>9, <1>10, <1>11, <1>12, <1>13, <1>14,
     <1>15, <1>16, <1>17, <1>18, <1>19, <1>20, <1>21, <1>22, <1>23, <1>24, <1>25, <1>26, <1>27,
     <1>28, <1>29, <1>30, <1>31, <1>32, <1>33
     DEF Next, RunStep, RotationStep, KeyCreateStep, StoreStep, RevokeStep, ResolveStep

\* The finally clause of a run or request leaves none of its grants active.
THEOREM RunsRevoked == ASSUME ~Overlap PROVE Spec => []RunRevoked
<1>1. GrantInv => RunRevoked
  BY DEF GrantInv, ActiveBound, ClosedUnbound, RunRevoked
<1>2. GrantInv /\ IssueInv /\ TypeInv /\ [Next]_vars => GrantInv'
  BY GrantInvStep
<1>3. IssueInv /\ TypeInv /\ [Next]_vars => IssueInv'
  BY IssueInvStep
<1> QED
  BY <1>1, <1>2, <1>3, IssueInvInit, GrantInvInit, TypeInvariant, PTL DEF Spec

\* A grant about to be put ends no later than Ttl from now: it was computed in the past.
HeldFresh == \A p \in Proc : AtPut(p) =>
    held[p].status = "active" /\ held[p].expires \in 0 .. clock + Ttl

\* No grant is about to be put at the start.
LEMMA HeldFreshInit == Init => HeldFresh
BY ProcsAssumption, AliasAssumption DEF Init, HeldFresh, AtPut, Proc

\* A process on its way to a put has just computed its grant, or keeps the one it has.
LEMMA PutEntered ==
    ASSUME TypeInv, [Next]_vars, NEW p \in Proc, AtPut(p)'
    PROVE  \/ AtPut(p) /\ held'[p] = held[p] /\ clock' \in {clock, clock + 1}
           \/ clock' = clock /\ \E id \in SecretId \cup {NoId} : held'[p] = NewGrant(id)
<1> DEFINE Kept == AtPut(p) /\ held'[p] = held[p] /\ clock' \in {clock, clock + 1}
           Made == clock' = clock /\ \E id \in SecretId \cup {NoId} : held'[p] = NewGrant(id)
<1>0. [Next]_vars
  OBVIOUS
<1> USE ProcsAssumption DEF TypeInv, TypeOK, AtPut, Goto, files, snaps, Proc, Run, SecretId
<1>1. ASSUME NEW r \in Run, NEW a \in Alias, PrepareAlias(r, a) PROVE Kept \/ Made
  BY <1>1 DEF PrepareAlias
<1>2. ASSUME NEW r \in Run, NEW a \in Alias, SkipAlias(r, a) \/ MissingAlias(r, a) PROVE Kept
  BY <1>2 DEF SkipAlias, MissingAlias
<1>3. ASSUME NEW r \in Run, OpenRun(r) \/ Prepared(r) \/ LaunchAgent(r) PROVE Kept
  BY <1>3 DEF OpenRun, Prepared, LaunchAgent
<1>4. ASSUME NEW r \in Run, EarlyReturn(r) \/ FinishRun(r) \/ StopGateway(r) PROVE Kept
  BY <1>4 DEF EarlyReturn, FinishRun, StopGateway
<1>5. ASSUME NEW c \in Rotation, LookUpAlias(c) \/ AliasPutRead(c) \/ AliasPutWrite(c)
      PROVE  Kept
  BY <1>5 DEF LookUpAlias, AliasPutRead, AliasPutWrite, AfterAliasPut
<1>6. ASSUME NEW c \in Rotation, ListGrants(c) \/ StoreDeleteMissing(c) PROVE Kept
  BY <1>6 DEF ListGrants, StoreDeleteMissing
<1>7. ASSUME NEW c \in Rotation, StoreDeleteRead(c) \/ StoreDeleteWrite(c) PROVE Kept
  BY <1>7 DEF StoreDeleteRead, StoreDeleteWrite
<1>8. ASSUME NEW k \in KeyCreate, StartKeyCreate(k) PROVE Kept \/ Made
  BY <1>8 DEF StartKeyCreate
<1>9. ASSUME NEW k \in KeyCreate, ConfigRead(k) \/ ConfigWrite(k) PROVE Kept
  BY <1>9 DEF ConfigRead, ConfigWrite
<1>10. ASSUME NEW v \in KeyRevoke, NEW t \in Token, StartKeyRevoke(v, t) PROVE Kept
  BY <1>10 DEF StartKeyRevoke
<1>11. ASSUME NEW q \in Proc, StorePutRead(q) \/ StorePutWrite(q) PROVE Kept
  BY <1>11 DEF StorePutRead, StorePutWrite, AfterStorePut, AtHand
<1>12. ASSUME NEW q \in Proc, GrantPutRead(q) \/ GrantPutWrite(q) PROVE Kept
  BY <1>12 DEF GrantPutRead, GrantPutWrite
<1>13. ASSUME NEW q \in Proc, RevokeWrite(q) \/ RevokeDone(q) PROVE Kept
  BY <1>13 DEF RevokeWrite, RevokeDone, AfterRevoke
<1>14. ASSUME NEW q \in Proc, NEW t \in Token, RevokeMissing(q, t) \/ RevokeRead(q, t)
       PROVE  Kept
  BY <1>14 DEF RevokeMissing, RevokeRead
<1>15. ASSUME NEW q \in Proc, NEW t \in Token, ResolveGrant(q, t) PROVE Kept
  BY <1>15 DEF ResolveGrant
<1>16. ASSUME NEW q \in Proc, ResolveSecret(q) \/ Crash(q) PROVE Kept
  BY <1>16 DEF ResolveSecret, Crash
<1>17. ASSUME Tick \/ UNCHANGED vars PROVE Kept
  BY <1>17 DEF Tick, vars
<1> HIDE DEF Kept, Made
<1>18. ASSUME NEW r \in Run, RunStep(r) PROVE Kept \/ Made
  BY ONLY <1>18, <1>1, <1>2, <1>3, <1>4 DEF RunStep
<1>19. ASSUME NEW c \in Rotation, RotationStep(c) PROVE Kept
  BY ONLY <1>19, <1>5, <1>6, <1>7 DEF RotationStep
<1>20. ASSUME NEW k \in KeyCreate, KeyCreateStep(k) PROVE Kept \/ Made
  BY ONLY <1>20, <1>8, <1>9 DEF KeyCreateStep
<1>21. ASSUME NEW q \in Proc, StoreStep(q) \/ RevokeStep(q) \/ ResolveStep(q) PROVE Kept
  BY ONLY <1>21, <1>11, <1>12, <1>13, <1>14, <1>15, <1>16 DEF StoreStep, RevokeStep, ResolveStep
<1>22. Kept \/ Made
  BY ONLY <1>0, <1>10, <1>16, <1>17, <1>18, <1>19, <1>20, <1>21 DEF Next
<1> QED
  BY <1>22 DEF Kept, Made

\* Time only adds to the past.
LEMMA HeldFreshStep == TypeInv /\ HeldFresh /\ [Next]_vars => HeldFresh'
<1> SUFFICES ASSUME TypeInv, HeldFresh, [Next]_vars, NEW p \in Proc, AtPut(p)'
             PROVE  held'[p].status = "active" /\ held'[p].expires \in 0 .. clock' + Ttl
  BY DEF HeldFresh
<1>1. clock \in Nat /\ Ttl \in Nat
  BY BoundsAssumption DEF TypeInv, TypeOK
<1>2. CASE AtPut(p) /\ held'[p] = held[p] /\ clock' \in {clock, clock + 1}
  <2>1. held[p].status = "active" /\ held[p].expires \in 0 .. clock + Ttl
    BY <1>2 DEF HeldFresh
  <2> QED
    BY <1>1, <1>2, <2>1
<1>3. CASE clock' = clock /\ \E id \in SecretId \cup {NoId} : held'[p] = NewGrant(id)
  BY <1>1, <1>3 DEF NewGrant
<1> QED
  BY <1>2, <1>3, PutEntered

\* The steps that show through to Custody.
Visible ==
    \/ Tick
    \/ \E p \in Proc : \/ GrantPutWrite(p) \/ RevokeWrite(p) \/ ResolveSecret(p)
                       \/ EarlyReturn(p) \/ StopGateway(p) \/ Crash(p)
                       \/ \E t \in Token : ResolveGrant(p, t)

\* Every other step leaves grants.json, the clock and the resolutions as they are.
LEMMA OthersHidden == [Next]_vars => Visible \/ UNCHANGED <<grants, clock, look, injected>>
<1> SUFFICES ASSUME [Next]_vars, ~UNCHANGED <<grants, clock, look, injected>> PROVE Visible
  OBVIOUS
<1>1. ASSUME NEW r \in Run, RunStep(r) PROVE Visible
  <2>1. r \in Proc
    BY DEF Proc
  <2>2. EarlyReturn(r) \/ StopGateway(r)
    BY <1>1 DEF RunStep, OpenRun, SkipAlias, MissingAlias, PrepareAlias, Prepared, LaunchAgent,
                FinishRun, files
  <2> QED
    BY <2>1, <2>2 DEF Visible
<1>2. ASSUME NEW c \in Rotation PROVE ~RotationStep(c)
  BY DEF RotationStep, LookUpAlias, AliasPutRead, AliasPutWrite, ListGrants,
         StoreDeleteMissing, StoreDeleteRead, StoreDeleteWrite, files
<1>3. ASSUME NEW k \in KeyCreate PROVE ~KeyCreateStep(k)
  BY DEF KeyCreateStep, StartKeyCreate, ConfigRead, ConfigWrite, files
<1>4. ASSUME NEW v \in KeyRevoke, NEW t \in Token PROVE ~StartKeyRevoke(v, t)
  BY DEF StartKeyRevoke, files
<1>5. ASSUME NEW p \in Proc, ResolveStep(p) \/ Crash(p) PROVE Visible
  BY <1>5 DEF ResolveStep, Visible
<1>6. ASSUME NEW p \in Proc, StoreStep(p) PROVE Visible
  <2>1. GrantPutWrite(p)
    BY <1>6 DEF StoreStep, StorePutRead, StorePutWrite, GrantPutRead, files
  <2> QED
    BY <2>1 DEF Visible
<1>7. ASSUME NEW p \in Proc, RevokeStep(p) PROVE Visible
  <2>1. RevokeWrite(p)
    BY <1>7 DEF RevokeStep, RevokeDone, RevokeMissing, RevokeRead, files
  <2> QED
    BY <2>1 DEF Visible
<1>8. CASE Tick
  BY <1>8 DEF Visible
<1>9. ~UNCHANGED vars
  BY DEF vars, files
<1> QED
  BY <1>1, <1>2, <1>3, <1>4, <1>5, <1>6, <1>7, <1>8, <1>9 DEF Next

\* The write of a put issues the one token at hand, though it replaces the whole file.
LEMMA PutIssues ==
    ASSUME TypeInv, OwnInv, IssueInv, GrantInv, HeldFresh, NEW p \in Proc, GrantPutWrite(p)
    PROVE  Promise!Issue(cur[p]) /\ cur[p] \in Token
<1>1. /\ pc[p] = "putWrite" /\ grants' = [gsnap[p] EXCEPT ![cur[p]] = held[p]]
      /\ UNCHANGED <<clock, look, injected>>
  BY DEF GrantPutWrite
<1>2. gsnap[p] = grants /\ AtPut(p)
  BY <1>1 DEF GrantInv, GrantCopy, GrantWindow, AtPut
<1>3. cur[p] \in Token /\ grants[cur[p]].status = "absent"
  BY <1>1, PutIsFirst, AtHandToken DEF TypeInv, IssueInv, Nowhere
<1>4. held[p] = [status |-> "active", ref |-> held[p].ref, expires |-> held[p].expires]
  BY <1>2 DEF HeldFresh, TypeInv, TypeOK, Grant
<1>5. held[p].expires \in 0 .. clock + Ttl
  BY <1>2 DEF HeldFresh
<1>6. held[p].ref \in IF cur[p][1] \in Run THEN {c \in Rotation : AliasOf[c] = cur[p][2]}
                      ELSE {cur[p][1]}
  <2>1. Fits(cur[p], held[p].ref)
    BY <1>1, HeldFitsToken DEF OwnInv
  <2> QED
    BY <2>1 DEF Fits
<1> QED
  BY <1>1, <1>2, <1>3, <1>4, <1>5, <1>6 DEF Promise!Issue

\* The write of a revocation revokes one token that was issued.
LEMMA RevokeRevokes ==
    ASSUME IssueInv, GrantInv, NEW p \in Proc, RevokeWrite(p)
    PROVE  Promise!Revoke(cur[p]) /\ cur[p] \in Token
<1>1. /\ pc[p] = "revWrite" /\ grants' = [gsnap[p] EXCEPT ![cur[p]].status = "revoked"]
      /\ UNCHANGED <<clock, look, injected>>
  BY DEF RevokeWrite
<1>2. gsnap[p] = grants /\ cur[p] \in Token /\ grants[cur[p]].status # "absent"
  BY <1>1 DEF GrantInv, GrantCopy, GrantWindow, IssueInv, RevokesIssued
<1> QED
  BY <1>1, <1>2 DEF Promise!Revoke

\* A resolution that passes the resolver is a check of the promise.
LEMMA ResolveChecks ==
    ASSUME NEW p \in Proc, NEW t \in Token, ResolveGrant(p, t)
    PROVE  Promise!Check(p, t)
<1>1. /\ look[p] = NoLookup /\ Active(t) /\ grants[t].expires > clock
      /\ t[1] \in Run => t[1] = p
      /\ look' = [look EXCEPT ![p] = [token |-> t, ref |-> grants[t].ref]]
      /\ UNCHANGED <<grants, clock, injected>>
  BY DEF ResolveGrant, Admits, files
<1>2. p \in IF t[1] \in Run THEN {t[1]} ELSE Proc
  BY <1>1
<1> QED
  BY <1>1, <1>2 DEF Promise!Check, Active

\* The read of the secret, and the end of a gateway or of a process, use a check up.
LEMMA EndAnswers ==
    ASSUME TypeInv, NEW p \in Proc,
           ResolveSecret(p) \/ EarlyReturn(p) \/ StopGateway(p) \/ Crash(p)
    PROVE  Promise!Answer(p) \/ UNCHANGED <<grants, clock, look, injected>>
<1>1. /\ look' = [look EXCEPT ![p] = NoLookup] /\ UNCHANGED <<grants, clock>>
      /\ \/ injected' = injected
         \/ injected' = injected \cup {[by |-> p, token |-> look[p].token, secret |-> look[p].ref]}
  BY DEF ResolveSecret, EarlyReturn, StopGateway, Crash, files
<1>2. CASE look[p] = NoLookup
  <2>1. UNCHANGED injected
    BY <1>2 DEF ResolveSecret, EarlyReturn, StopGateway, Crash
  <2>2. look \in [Proc -> Lookup]
    BY DEF TypeInv, TypeOK
  <2>3. look' = look
    BY <1>1, <1>2, <2>2
  <2> QED
    BY <1>1, <2>1, <2>3
<1>3. CASE look[p] # NoLookup
  BY <1>1, <1>3 DEF Promise!Answer
<1> QED
  BY <1>2, <1>3

\* Every step is a step of Custody or hidden from it.
LEMMA CustodyStep ==
    TypeInv /\ OwnInv /\ IssueInv /\ GrantInv /\ HeldFresh /\ [Next]_vars
        => [Promise!Next]_<<grants, clock, look, injected>>
<1> SUFFICES ASSUME TypeInv, OwnInv, IssueInv, GrantInv, HeldFresh, [Next]_vars,
                    ~UNCHANGED <<grants, clock, look, injected>>
             PROVE  Promise!Next
  OBVIOUS
<1>1. ASSUME NEW p \in Proc, GrantPutWrite(p) PROVE Promise!Next
  BY <1>1, PutIssues DEF Promise!Next
<1>2. ASSUME NEW p \in Proc, RevokeWrite(p) PROVE Promise!Next
  BY <1>2, RevokeRevokes DEF Promise!Next
<1>3. ASSUME NEW p \in Proc, ResolveSecret(p) \/ EarlyReturn(p) \/ StopGateway(p) \/ Crash(p)
      PROVE  Promise!Next
  BY <1>3, EndAnswers DEF Promise!Next
<1>4. ASSUME NEW p \in Proc, NEW t \in Token, ResolveGrant(p, t) PROVE Promise!Next
  BY <1>4, ResolveChecks DEF Promise!Next
<1>5. CASE Tick
  BY <1>5 DEF Tick, files, Promise!Next, Promise!Tick
<1> QED
  BY <1>1, <1>2, <1>3, <1>4, <1>5, OthersHidden DEF Visible

\* Without overlapping updates grants.json, as the commands write it and the
\* resolvers read it, keeps the promise Custody states.
THEOREM CustodyImplemented == ASSUME ~Overlap PROVE Spec => CustodySpec
<1>1. Init => Promise!Init
  BY DEF Init, Promise!Init
<1>2. OwnInv /\ TypeInv /\ [Next]_vars => OwnInv'
  BY OwnInvStep
<1>3. GrantInv /\ IssueInv /\ TypeInv /\ [Next]_vars => GrantInv'
  BY GrantInvStep
<1>4. IssueInv /\ TypeInv /\ [Next]_vars => IssueInv'
  BY IssueInvStep
<1>5. HeldFresh /\ TypeInv /\ [Next]_vars => HeldFresh'
  BY HeldFreshStep
<1> QED
  BY <1>1, <1>2, <1>3, <1>4, <1>5, OwnInvInit, IssueInvInit, GrantInvInit, HeldFreshInit,
     CustodyStep, TypeInvariant,
     PTL DEF Spec, CustodySpec, Promise!Spec

KeyPlace == \A k \in KeyCreate : pc[k] \in {"start", "vputRead", "vputWrite", "putRead",
                                            "putWrite", "cfgRead", "cfgWrite", "done", "dead"}
KeyStored == \A k \in KeyCreate :
    pc[k] \in {"putRead", "putWrite", "cfgRead", "cfgWrite", "done"} => k \in store["project"]
HeldIsOwn == \A k \in KeyCreate :
    pc[k] \in {"vputRead", "vputWrite", "putRead", "putWrite"} => held[k].ref = k
KeyGranted == \A k \in KeyCreate :
    pc[k] \in {"cfgRead", "cfgWrite", "done"} => grants[<<k, NoAlias>>].ref = k
OneConfigWriter == \A k, l \in KeyCreate : pc[k] = "cfgWrite" /\ pc[l] = "cfgWrite" => k = l
ConfigCopy == \A k \in KeyCreate : pc[k] = "cfgWrite" => fsnap[k] = config
KeyListed == \A k \in KeyCreate : pc[k] = "done" => k \in config

KeyInv == KeyPlace /\ KeyStored /\ HeldIsOwn /\ KeyGranted /\ OneConfigWriter /\ ConfigCopy /\ KeyListed

\* No key is under way at the start.
LEMMA KeyInvInit == Init => KeyInv
BY ProcsAssumption, AliasAssumption
   DEF Init, KeyInv, KeyPlace, KeyStored, HeldIsOwn, KeyGranted, OneConfigWriter, ConfigCopy, KeyListed, Proc

\* Each write keeps what others wrote: its copy is the file.
LEMMA KeyInvStep ==
    ~Overlap /\ TypeInv /\ VaultInv /\ IssueInv /\ GrantInv /\ KeyInv /\ [Next]_vars => KeyInv'
<1> SUFFICES ASSUME ~Overlap, TypeInv, VaultInv, IssueInv, GrantInv, KeyInv, [Next]_vars
             PROVE  KeyInv'
  OBVIOUS
<1>a. /\ \A p \in Proc : pc[p] \in StoreWindow => fsnap[p] = store[StoreOf(p)]
      /\ \A p \in Proc : pc[p] \in GrantWindow => gsnap[p] = grants
      /\ \A p \in Proc : AtPut(p) =>
            \/ p \in Run /\ \E a \in todo[p] : cur[p] = <<p, a>>
            \/ p \in KeyCreate /\ cur[p] = <<p, NoAlias>>
  BY DEF VaultInv, StoreCopy, GrantInv, GrantCopy, IssueInv, OwnToken
<1> USE ProcsAssumption, AliasAssumption
    DEF TypeInv, TypeOK, AtHand, Goto, files, snaps, Proc, Run, SecretId, Token, StoreOf,
        StoreWindow, GrantWindow, AtPut,
        KeyInv, KeyPlace, KeyStored, HeldIsOwn, KeyGranted, OneConfigWriter, ConfigCopy, KeyListed
<1>1. ASSUME NEW r \in Run, OpenRun(r) PROVE KeyInv'
  BY <1>1 DEF OpenRun
<1>2. ASSUME NEW r \in Run, Prepared(r) PROVE KeyInv'
  BY <1>2 DEF Prepared
<1>3. ASSUME NEW r \in Run, LaunchAgent(r) PROVE KeyInv'
  BY <1>3 DEF LaunchAgent
<1>4. ASSUME NEW r \in Run, EarlyReturn(r) PROVE KeyInv'
  BY <1>4 DEF EarlyReturn
<1>5. ASSUME NEW r \in Run, FinishRun(r) PROVE KeyInv'
  BY <1>5 DEF FinishRun
<1>6. ASSUME NEW r \in Run, StopGateway(r) PROVE KeyInv'
  BY <1>6 DEF StopGateway
<1>7. ASSUME NEW r \in Run, NEW a \in Alias, SkipAlias(r, a) PROVE KeyInv'
  BY <1>7 DEF SkipAlias
<1>8. ASSUME NEW r \in Run, NEW a \in Alias, MissingAlias(r, a) PROVE KeyInv'
  BY <1>8 DEF MissingAlias
<1>9. ASSUME NEW r \in Run, NEW a \in Alias, PrepareAlias(r, a) PROVE KeyInv'
  BY <1>9 DEF PrepareAlias
<1>10. ASSUME NEW c \in Rotation, LookUpAlias(c) PROVE KeyInv'
  BY <1>10 DEF LookUpAlias
<1>11. ASSUME NEW c \in Rotation, AliasPutRead(c) PROVE KeyInv'
  BY <1>11 DEF AliasPutRead
<1>12. ASSUME NEW c \in Rotation, AliasPutWrite(c) PROVE KeyInv'
  BY <1>12 DEF AliasPutWrite, AfterAliasPut
<1>13. ASSUME NEW c \in Rotation, ListGrants(c) PROVE KeyInv'
  BY <1>13 DEF ListGrants
<1>14. ASSUME NEW c \in Rotation, StoreDeleteMissing(c) PROVE KeyInv'
  BY <1>14 DEF StoreDeleteMissing
<1>15. ASSUME NEW c \in Rotation, StoreDeleteRead(c) PROVE KeyInv'
  BY <1>15 DEF StoreDeleteRead
<1>16. ASSUME NEW c \in Rotation, StoreDeleteWrite(c) PROVE KeyInv'
  BY <1>16 DEF StoreDeleteWrite
<1>17. ASSUME NEW k \in KeyCreate, StartKeyCreate(k) PROVE KeyInv'
  BY <1>17 DEF StartKeyCreate, NewGrant
<1>18. ASSUME NEW k \in KeyCreate, ConfigRead(k) PROVE KeyInv'
  BY <1>18 DEF ConfigRead, MayOpen, ConfigWindow
<1>19. ASSUME NEW k \in KeyCreate, ConfigWrite(k) PROVE KeyInv'
  BY <1>19 DEF ConfigWrite
<1>20. ASSUME NEW v \in KeyRevoke, NEW t \in Token, StartKeyRevoke(v, t) PROVE KeyInv'
  BY <1>20 DEF StartKeyRevoke
<1>21. ASSUME NEW p \in Proc, StorePutRead(p) PROVE KeyInv'
  BY <1>21 DEF StorePutRead
<1>22. ASSUME NEW p \in Proc, StorePutWrite(p) PROVE KeyInv'
  BY <1>22, <1>a DEF StorePutWrite, AfterStorePut
<1>23. ASSUME NEW p \in Proc, GrantPutRead(p) PROVE KeyInv'
  BY <1>23 DEF GrantPutRead
<1>24. ASSUME NEW p \in Proc, GrantPutWrite(p) PROVE KeyInv'
  <2>1. pc[p] = "putWrite" /\ gsnap[p] = grants /\ cur[p] \in Token
        /\ grants' = [grants EXCEPT ![cur[p]] = held[p]]
        /\ UNCHANGED <<store, config, fsnap>>
    BY <1>24, <1>a DEF GrantPutWrite
  <2>2. p \in Run \cup KeyCreate /\ held' = [held EXCEPT ![p] = NoGrant]
        /\ \E l \in {"prep", "cfgRead"} : pc' = [pc EXCEPT ![p] = l] /\ (p \in KeyCreate => l = "cfgRead")
    BY <1>24 DEF GrantPutWrite
  <2>3. KeyPlace' /\ KeyStored' /\ HeldIsOwn' /\ OneConfigWriter' /\ ConfigCopy' /\ KeyListed'
    BY <2>1, <2>2
  <2>4. ASSUME NEW k \in KeyCreate, pc'[k] \in {"cfgRead", "cfgWrite", "done"}
        PROVE  grants'[<<k, NoAlias>>].ref = k
    <3>1. CASE k = p
      <4>1. cur[p] = <<k, NoAlias>> /\ held[p].ref = k
        BY <1>a, <2>1, <3>1
      <4> QED
        BY <2>1, <4>1
    <3>2. CASE k # p
      <4>1. cur[p] # <<k, NoAlias>>
        BY <1>a, <2>1, <3>2
      <4>2. pc[k] \in {"cfgRead", "cfgWrite", "done"}
        BY <2>2, <2>4, <3>2
      <4> QED
        BY <2>1, <4>1, <4>2
    <3> QED
      BY <3>1, <3>2
  <2> QED
    BY <2>3, <2>4
<1>25. ASSUME NEW p \in Proc, RevokeWrite(p) PROVE KeyInv'
  <2>1. /\ pc[p] = "revWrite" /\ gsnap[p] = grants /\ p \notin KeyCreate
        /\ pc' = [pc EXCEPT ![p] = "revoke"]
        /\ grants' = [grants EXCEPT ![cur[p]].status = "revoked"]
        /\ UNCHANGED <<store, config, fsnap, held>>
    BY <1>25, <1>a DEF RevokeWrite
  <2>2. \A t \in Token : grants'[t].ref = grants[t].ref
    BY <2>1 DEF Grant
  <2>3. KeyPlace' /\ KeyStored' /\ HeldIsOwn' /\ OneConfigWriter' /\ ConfigCopy' /\ KeyListed'
    BY <2>1
  <2>4. KeyGranted'
    BY <2>1, <2>2
  <2> QED
    BY <2>3, <2>4
<1>26. ASSUME NEW p \in Proc, RevokeDone(p) PROVE KeyInv'
  BY <1>26 DEF RevokeDone, AfterRevoke
<1>27. ASSUME NEW p \in Proc, ResolveSecret(p) PROVE KeyInv'
  BY <1>27 DEF ResolveSecret
<1>28. ASSUME NEW p \in Proc, Crash(p) PROVE KeyInv'
  BY <1>28 DEF Crash
<1>29. ASSUME NEW p \in Proc, NEW t \in Token, RevokeMissing(p, t) PROVE KeyInv'
  BY <1>29 DEF RevokeMissing
<1>30. ASSUME NEW p \in Proc, NEW t \in Token, RevokeRead(p, t) PROVE KeyInv'
  BY <1>30 DEF RevokeRead
<1>31. ASSUME NEW p \in Proc, NEW t \in Token, ResolveGrant(p, t) PROVE KeyInv'
  BY <1>31 DEF ResolveGrant
<1>32. CASE Tick
  BY <1>32 DEF Tick
<1>33. CASE UNCHANGED vars
  BY <1>33 DEF vars
<1> QED
  BY <1>1, <1>2, <1>3, <1>4, <1>5, <1>6, <1>7, <1>8, <1>9, <1>10, <1>11, <1>12, <1>13, <1>14,
     <1>15, <1>16, <1>17, <1>18, <1>19, <1>20, <1>21, <1>22, <1>23, <1>24, <1>25, <1>26, <1>27, <1>28,
     <1>29, <1>30, <1>31, <1>32, <1>33
     DEF Next, RunStep, RotationStep, KeyCreateStep, StoreStep, RevokeStep, ResolveStep

\* When create_key has returned, the secret, the grant and the config entry are all there,
\* and no later command loses one of them.
THEOREM CreatedKeysKept == ASSUME ~Overlap PROVE Spec => []CreatedKeyKept
<1>1. KeyInv => CreatedKeyKept
  BY DEF KeyInv, KeyStored, KeyGranted, KeyListed, CreatedKeyKept
<1>2. VaultInv /\ TypeInv /\ [Next]_vars => VaultInv'
  BY VaultInvStep
<1>3. GrantInv /\ IssueInv /\ TypeInv /\ [Next]_vars => GrantInv'
  BY GrantInvStep
<1>4. IssueInv /\ TypeInv /\ [Next]_vars => IssueInv'
  BY IssueInvStep
<1>5. KeyInv /\ VaultInv /\ IssueInv /\ GrantInv /\ TypeInv /\ [Next]_vars => KeyInv'
  BY KeyInvStep
<1> QED
  BY <1>1, <1>2, <1>3, <1>4, <1>5, KeyInvInit, VaultInvInit, IssueInvInit, GrantInvInit,
     TypeInvariant, PTL DEF Spec

=============================================================================
