---------------------------- MODULE AccessTokens ----------------------------
(***************************************************************************)
(* Access tokens: the identity service signs them with the key of its      *)
(* process and verifies them with the same key; the router verifies them   *)
(* with the key set it last fetched from the service and may keep for as   *)
(* long as the service says.  The process may stop and start again, with   *)
(* the key of the configured file or with a new one; meanwhile the file    *)
(* may be written anew, in another form or unusable.                       *)
(*                                                                         *)
(* Time is counted in ticks, Second of them to a second: claims are whole  *)
(* seconds, clocks are not.  Signatures are ideal: a token verifies with   *)
(* the key that signed it and with no other.                               *)
(***************************************************************************)
EXTENDS Naturals

CONSTANTS
    Token,      \* the tokens that may be issued
    Second,     \* ticks in a second
    TTL,        \* lifetime of an access token, in ticks
    MaxAge,     \* how long a key set may be cached, in ticks
    MaxTime,    \* bound of the model: the last instant
    MaxKey,     \* bound of the model: the number of keys ever minted
    None

ASSUME TokenAssumption ==
    /\ Second \in Nat \ {0} /\ TTL \in Nat \ {0} /\ MaxAge \in Nat \ {0}
    /\ MaxTime \in Nat /\ MaxKey \in Nat \ {0}
    /\ None \notin 1 .. MaxKey /\ None \notin {"pkcs1", "pkcs8", "otherKey", "noPEM"}

Key == 1 .. MaxKey
Time == 0 .. MaxTime

\* What a file may hold: the RSA private key in one of two forms, a private key
\* of another kind, or nothing that can be read.
Form == {"pkcs1", "pkcs8", "otherKey", "noPEM"}

VARIABLES
    keyFile,    \* what the configured key file holds, None if none is configured
    now,        \* the time
    up,         \* the process runs
    key,        \* its signing key, or that of the last process
    stopped,    \* when the last process that had a key stopped
    signedBy,   \* the key of a token, None if it was not issued
    issuedAt,   \* when it was issued
    cached,     \* the key the router has fetched
    cachedAt    \* when it did

vars == <<keyFile, now, up, key, stopped, signedBy, issuedAt, cached, cachedAt>>

TypeOK ==
    /\ keyFile \in Form \cup {None}
    /\ now \in Time
    /\ up \in BOOLEAN
    /\ key \in Key
    /\ stopped \in [Key -> Time]
    /\ signedBy \in [Token -> Key \cup {None}]
    /\ issuedAt \in [Token -> Time]
    /\ cached \in Key \cup {None}
    /\ cachedAt \in Time

Init ==
    /\ keyFile \in {"pkcs1", "pkcs8", None}
    /\ now = 0
    /\ up = TRUE
    /\ key = 1
    /\ stopped = [k \in Key |-> 0]
    /\ signedBy = [t \in Token |-> None]
    /\ issuedAt = [t \in Token |-> 0]
    /\ cached = None
    /\ cachedAt = 0

-----------------------------------------------------------------------------
\* The instant Issue returns beside the token, and login and refresh pass on.
ExpiresAt(t) == issuedAt[t] + TTL

\* Mutant of ExpClaim: rounded up.
ExpClaimUp(t) == ((ExpiresAt(t) + Second - 1) \div Second) * Second

\* The exp claim of the token: a NumericDate drops the fraction of a second.
ExpClaim(t) == (ExpiresAt(t) \div Second) * Second

\* Issuer and audience are those of the service's own configuration.
Verifies(t, k) == signedBy[t] = k /\ now < ExpClaim(t)

\* What VerifyToken answers, and what the router lets through.  That the roles in the
\* claims parse is part of the signature being the service's: Issue writes those of
\* a user row, which have been parsed by the same function.
ServiceAccepts(t) == up /\ Verifies(t, key)

\* Mutant of MayUseCache: the key set is kept for ever.
MayUseCacheAlways == cached # None

\* The Cache-Control of the key set, honoured by the router.
MayUseCache == cached # None /\ now < cachedAt + MaxAge

EdgeAccepts(t) == MayUseCache /\ Verifies(t, cached)

-----------------------------------------------------------------------------
Issue(t) ==
    /\ up /\ signedBy[t] = None
    /\ signedBy' = [signedBy EXCEPT ![t] = key]
    /\ issuedAt' = [issuedAt EXCEPT ![t] = now]
    /\ UNCHANGED <<keyFile, now, up, key, stopped, cached, cachedAt>>

\* The set was rendered when the process started: it is its key's.
FetchKeySet ==
    /\ up
    /\ cached' = key /\ cachedAt' = now
    /\ UNCHANGED <<keyFile, now, up, key, stopped, signedBy, issuedAt>>

Stop ==
    /\ up
    /\ up' = FALSE
    /\ stopped' = [stopped EXCEPT ![key] = now]
    /\ UNCHANGED <<keyFile, now, key, signedBy, issuedAt, cached, cachedAt>>

LoadPrivateKeyFromPEM(form) == IF form \in {"pkcs1", "pkcs8"} THEN {key} ELSE {}

\* A key for the lifetime of the process.
GenerateEphemeralKey == {k \in Key : k = key + 1}

\* Mutant of loadSigningKey: a file that cannot be used is as good as none.
loadSigningKeyOrMint ==
    IF keyFile # None /\ LoadPrivateKeyFromPEM(keyFile) # {}
    THEN LoadPrivateKeyFromPEM(keyFile) ELSE GenerateEphemeralKey

\* The keys the process may start with: none if the configured file cannot be used.
loadSigningKey ==
    IF keyFile = None THEN GenerateEphemeralKey ELSE LoadPrivateKeyFromPEM(keyFile)

\* Mutant of Start: the error of loadSigningKey is not looked at.
StartUnloaded ==
    /\ ~up
    /\ up' = TRUE
    /\ key' \in loadSigningKey \cup {None}
    /\ UNCHANGED <<keyFile, now, stopped, signedBy, issuedAt, cached, cachedAt>>

Start ==
    /\ ~up
    /\ up' = TRUE
    /\ key' \in loadSigningKey
    /\ UNCHANGED <<keyFile, now, stopped, signedBy, issuedAt, cached, cachedAt>>

\* The operator writes the same key in another form, or something else.
RewriteKeyFile ==
    /\ keyFile # None
    /\ keyFile' \in Form \ {keyFile}
    /\ UNCHANGED <<now, up, key, stopped, signedBy, issuedAt, cached, cachedAt>>

Tick ==
    /\ now < MaxTime
    /\ now' = now + 1
    /\ UNCHANGED <<keyFile, up, key, stopped, signedBy, issuedAt, cached, cachedAt>>

Next ==
    \/ \E t \in Token : Issue(t)
    \/ FetchKeySet \/ Stop \/ Start \/ RewriteKeyFile \/ Tick

Spec == Init /\ [][Next]_vars

-----------------------------------------------------------------------------
\* No verifier accepts a token once the expiry its owner was told has come.
NeverOverstays ==
    \A t \in Token : ServiceAccepts(t) \/ EdgeAccepts(t) => now < ExpiresAt(t)

\* A token of a key that is no longer in use is refused by the service at once,
\* and by the router as soon as its cached set may not be used any more, counted
\* from the last moment the key was in use.  Nor does a set that may be used hide the
\* key in use for longer: past that moment the router lets its tokens through.
OldKeysDie ==
    \A t \in Token :
        /\ signedBy[t] \notin {key, None} =>
               /\ ~ServiceAccepts(t)
               /\ EdgeAccepts(t) => now < stopped[signedBy[t]] + MaxAge
        /\ signedBy[t] = key /\ now < ExpClaim(t) /\ MayUseCache =>
               EdgeAccepts(t) \/ now < stopped[cached] + MaxAge

\* With a configured key, a restart ends no session, in whatever form the key has
\* been written by then: each token the router would have let through, or the
\* service verified, verifies still.
RestartKeepsTokens ==
    keyFile # None => \A t \in Token :
        up /\ signedBy[t] # None /\ now < ExpClaim(t) => ServiceAccepts(t)

\* A token is accepted up to the expiry its owner was told.  (It is not: the
\* claim is up to a second earlier.)
AcceptedUntilExpiry ==
    \A t \in Token : up /\ signedBy[t] = key /\ now < ExpiresAt(t) => ServiceAccepts(t)
=============================================================================
