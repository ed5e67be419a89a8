------------------------- MODULE AccessTokens_proofs -------------------------
(***************************************************************************)
(* The safety of access tokens, for any number of tokens, keys, restarts   *)
(* and instants.  What a verifier may accept depends on which keys there   *)
(* have been and on when the router fetched the one it holds; KeyInv says  *)
(* what that was.                                                          *)
(***************************************************************************)
EXTENDS AccessTokens, TLAPS

\* Keys are minted one after the other.
MintedInOrder ==
    /\ \A t \in Token : signedBy[t] # None => signedBy[t] <= key
    /\ cached # None => cached <= key

\* A set that holds a key which is not in use was fetched while it was.
FetchedInUse ==
    /\ cachedAt <= now
    /\ cached # None /\ (cached # key \/ ~up) => cachedAt <= stopped[cached]

\* With a key file there is but one key.
OneKey == keyFile # None => \A t \in Token : signedBy[t] \in {key, None}

KeyInv == TypeOK /\ MintedInOrder /\ FetchedInUse /\ OneKey

-----------------------------------------------------------------------------
\* Dropping the fraction of a second never makes an instant later.
LEMMA WholeSeconds == ASSUME NEW e \in Nat, NEW s \in Nat \ {0}
                      PROVE  (e \div s) * s <= e
  BY Z3

\* The key a process starts with is the last one, or the one after it; with a
\* key file it is the last one.
LEMMA LoadedKey == ASSUME TypeOK, NEW k \in loadSigningKey
                   PROVE  /\ k \in Key
                          /\ k = key \/ k = key + 1
                          /\ keyFile # None => k = key
                          /\ keyFile = None => k = key + 1
  BY DEF loadSigningKey, LoadPrivateKeyFromPEM, GenerateEphemeralKey, TypeOK, Key

-----------------------------------------------------------------------------
LEMMA InitTypeOK == Init => TypeOK
  BY TokenAssumption DEF Init, TypeOK, Key, Time, Form

LEMMA NextTypeOK == TypeOK /\ [Next]_vars => TypeOK'
<1> SUFFICES ASSUME TypeOK, [Next]_vars PROVE TypeOK'
  OBVIOUS
<1> USE DEF TypeOK
<1>1. CASE \E t \in Token : Issue(t)
  BY <1>1 DEF Issue
<1>2. CASE FetchKeySet
  BY <1>2 DEF FetchKeySet
<1>3. CASE Stop
  BY <1>3 DEF Stop
<1>4. CASE Start
  BY <1>4, LoadedKey DEF Start
<1>5. CASE RewriteKeyFile
  BY <1>5 DEF RewriteKeyFile
<1>6. CASE Tick
  BY <1>6, TokenAssumption DEF Tick, Time
<1>7. CASE UNCHANGED vars
  BY <1>7 DEF vars
<1> QED
  BY <1>1, <1>2, <1>3, <1>4, <1>5, <1>6, <1>7 DEF Next

\* Every variable keeps its type: in particular a process that runs has a key.
THEOREM TokenTypes == Spec => []TypeOK
  BY InitTypeOK, NextTypeOK, PTL DEF Spec

-----------------------------------------------------------------------------
LEMMA InitKeyInv == Init => KeyInv
<1> SUFFICES ASSUME Init PROVE KeyInv
  OBVIOUS
<1>1. TypeOK
  BY InitTypeOK
<1>2. MintedInOrder /\ FetchedInUse /\ OneKey
  BY DEF Init, MintedInOrder, FetchedInUse, OneKey
<1> QED
  BY <1>1, <1>2 DEF KeyInv

LEMMA NextMintedInOrder == KeyInv /\ [Next]_vars => MintedInOrder'
<1> SUFFICES ASSUME KeyInv, [Next]_vars PROVE MintedInOrder'
  OBVIOUS
<1> USE DEF KeyInv, MintedInOrder
<1>1. CASE \E t \in Token : Issue(t)
  BY <1>1 DEF Issue, TypeOK, Key
<1>2. CASE FetchKeySet
  BY <1>2 DEF FetchKeySet, TypeOK, Key
<1>3. CASE Start
  <2>1. key' = key \/ key' = key + 1
    BY <1>3, LoadedKey DEF Start
  <2> QED
    BY <1>3, <2>1 DEF Start, TypeOK, Key
<1>4. CASE Stop \/ RewriteKeyFile \/ Tick \/ UNCHANGED vars
  BY <1>4 DEF Stop, RewriteKeyFile, Tick, vars
<1> QED
  BY <1>1, <1>2, <1>3, <1>4 DEF Next

LEMMA NextFetchedInUse == KeyInv /\ [Next]_vars => FetchedInUse'
<1> SUFFICES ASSUME KeyInv, [Next]_vars PROVE FetchedInUse'
  OBVIOUS
<1> USE DEF KeyInv, FetchedInUse
<1>1. CASE FetchKeySet
  BY <1>1 DEF FetchKeySet, TypeOK, Time
<1>2. CASE Stop
  BY <1>2 DEF Stop, TypeOK, Time
<1>3. CASE Start
  \* The process was down, so the set that is held was fetched before it stopped.
  BY <1>3 DEF Start
<1>4. CASE Tick
  BY <1>4, TokenAssumption DEF Tick, TypeOK, Time
<1>5. CASE (\E t \in Token : Issue(t)) \/ RewriteKeyFile \/ UNCHANGED vars
  BY <1>5 DEF Issue, RewriteKeyFile, vars
<1> QED
  BY <1>1, <1>2, <1>3, <1>4, <1>5 DEF Next

LEMMA NextOneKey == KeyInv /\ [Next]_vars => OneKey'
<1> SUFFICES ASSUME KeyInv, [Next]_vars PROVE OneKey'
  OBVIOUS
<1> USE DEF KeyInv, OneKey
<1>1. CASE \E t \in Token : Issue(t)
  BY <1>1 DEF Issue, TypeOK
<1>2. CASE Start
  <2>1. keyFile # None => key' = key
    BY <1>2, LoadedKey DEF Start
  <2> QED
    BY <1>2, <2>1 DEF Start
<1>3. CASE RewriteKeyFile
  BY <1>3 DEF RewriteKeyFile
<1>4. CASE FetchKeySet \/ Stop \/ Tick \/ UNCHANGED vars
  BY <1>4 DEF FetchKeySet, Stop, Tick, vars
<1> QED
  BY <1>1, <1>2, <1>3, <1>4 DEF Next

\* The inductive invariant: keys are minted in order, a key that is cached was in
\* use when it was fetched, and a key file means a single key.
THEOREM TokenInvariance == Spec => []KeyInv
<1>1. KeyInv /\ [Next]_vars => KeyInv'
  BY NextTypeOK, NextMintedInOrder, NextFetchedInUse, NextOneKey DEF KeyInv
<1> QED
  BY InitKeyInv, <1>1, PTL DEF Spec

-----------------------------------------------------------------------------
LEMMA ClaimIsNotLater == ASSUME TypeOK, NEW t \in Token
                         PROVE  /\ ExpClaim(t) \in Nat /\ ExpiresAt(t) \in Nat
                                /\ ExpClaim(t) <= ExpiresAt(t)
<1>1. ExpiresAt(t) \in Nat
  BY TokenAssumption DEF TypeOK, Time, ExpiresAt
<1>2. ExpClaim(t) <= ExpiresAt(t)
  BY <1>1, WholeSeconds, TokenAssumption DEF ExpClaim
<1>3. ExpClaim(t) \in Nat
  BY <1>1, TokenAssumption DEF ExpClaim
<1> QED
  BY <1>1, <1>2, <1>3

\* No verifier accepts a token once the expiry its owner was told has come,
\* whatever the resolution of the clock and the lifetime of a token.
THEOREM ExpiryIsRespected == Spec => []NeverOverstays
<1>1. TypeOK => NeverOverstays
  <2> SUFFICES ASSUME TypeOK, NEW t \in Token, ServiceAccepts(t) \/ EdgeAccepts(t)
               PROVE  now < ExpiresAt(t)
    BY DEF NeverOverstays
  <2>1. now < ExpClaim(t)
    BY DEF ServiceAccepts, EdgeAccepts, Verifies
  <2> QED
    BY <2>1, ClaimIsNotLater DEF TypeOK, Time
<1> QED
  BY <1>1, TokenTypes, PTL

\* The tokens of a key that is no longer in use die with it at the service, and at
\* the router once its set is too old, however often the process has restarted; and
\* no longer than that does a set hide the key in use.
THEOREM OldKeysAreRefused == Spec => []OldKeysDie
<1>1. KeyInv => OldKeysDie
  <2> SUFFICES ASSUME KeyInv, NEW t \in Token
               PROVE  /\ signedBy[t] \notin {key, None} =>
                             /\ ~ServiceAccepts(t)
                             /\ EdgeAccepts(t) => now < stopped[signedBy[t]] + MaxAge
                      /\ signedBy[t] = key /\ now < ExpClaim(t) /\ MayUseCache =>
                             EdgeAccepts(t) \/ now < stopped[cached] + MaxAge
    BY DEF OldKeysDie
  <2>1. signedBy[t] \notin {key, None} => ~ServiceAccepts(t)
    BY DEF ServiceAccepts, Verifies
  <2>2. ASSUME MayUseCache, cached # key PROVE now < stopped[cached] + MaxAge
    <3>1. cached # None /\ now < cachedAt + MaxAge
      BY <2>2 DEF MayUseCache
    <3>2. cachedAt <= stopped[cached]
      BY <2>2, <3>1 DEF KeyInv, FetchedInUse
    <3>3. cached \in Key
      BY <3>1 DEF KeyInv, TypeOK
    <3> QED
      BY <3>1, <3>2, <3>3, TokenAssumption DEF KeyInv, TypeOK, Time
  <2>3. EdgeAccepts(t) => MayUseCache /\ cached = signedBy[t]
    BY DEF EdgeAccepts, Verifies
  <2>4. signedBy[t] = key /\ now < ExpClaim(t) /\ MayUseCache /\ cached = key => EdgeAccepts(t)
    BY DEF EdgeAccepts, Verifies
  <2> QED
    BY <2>1, <2>2, <2>3, <2>4
<1> QED
  BY <1>1, TokenInvariance, PTL

\* With a key file no restart ends a session, in whatever form the file is by then.
THEOREM RestartsKeepTokens == Spec => []RestartKeepsTokens
<1>1. KeyInv => RestartKeepsTokens
  BY DEF KeyInv, OneKey, RestartKeepsTokens, ServiceAccepts, Verifies
<1> QED
  BY <1>1, TokenInvariance, PTL
=============================================================================
