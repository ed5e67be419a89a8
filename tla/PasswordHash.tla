----------------------------- MODULE PasswordHash -----------------------------
(***************************************************************************)
(* The password hasher.  A stored hash names the algorithm, its version    *)
(* and the parameters it was made with, so that a hash survives a release  *)
(* that changes them.  The key derivation is ideal: keys differ when the   *)
(* password or a parameter does.  The salt is random and never compared.   *)
(***************************************************************************)

\* "current" stands for DefaultParams, "old" for those of an earlier release;
\* "malformed" is text that cannot be read as parameters.
Params == {"old", "current"}
DefaultParams == "current"

Password == {"secret", "other", "short"}

\* The policy for new passwords.
IsValid(plain) == plain # "short"

IDKey(plain, params) == <<plain, params>>

Encoded == [algorithm : {"argon2id", "bcrypt"}, version : {19, 16},
            params : Params \cup {"malformed"}, key : Password \X Params]

Encode(plain, params) ==
    [algorithm |-> "argon2id", version |-> 19, params |-> params, key |-> IDKey(plain, params)]

Hash(plain) == Encode(plain, DefaultParams)

Readable(encoded) ==
    encoded.algorithm = "argon2id" /\ encoded.version = 19 /\ encoded.params \in Params

\* Mutant of Verify: the key is derived with the parameters of this release.
VerifyByDefault(plain, encoded) ==
    IF Readable(encoded) THEN [ok |-> IDKey(plain, DefaultParams) = encoded.key, err |-> <<>>]
    ELSE [ok |-> FALSE, err |-> <<"internal">>]

\* The key is derived with the parameters of the hash.
Verify(plain, encoded) ==
    IF Readable(encoded) THEN [ok |-> IDKey(plain, encoded.params) = encoded.key, err |-> <<>>]
    ELSE [ok |-> FALSE, err |-> <<"internal">>]
=============================================================================
