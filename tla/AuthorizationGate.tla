-------------------------- MODULE AuthorizationGate --------------------------
(***************************************************************************)
(* The signing secret and the tokens of the control channel, across        *)
(* daemon incarnations and runs of the setup and token commands.           *)
(*                                                                         *)
(* pkg/server/authorization_middleware.go: PostConstruct reads             *)
(* "jwt.secret.key"; when it is absent it generates one, prints it,        *)
(* persists it and prints a default admin token.  Authenticate accepts a   *)
(* token that is not in the in-memory revocation set and verifies under    *)
(* the secret.  pkg/cmd/setup_cmd.go prints a new boot token (the store's  *)
(* encryption key for badger), opens the store in-process, reads or        *)
(* generates the secret, and prints an admin token.  pkg/cmd/token_cmd.go  *)
(* signs a token with a secret the operator types in.                      *)
(*                                                                         *)
(* A token is a record of the secret it is signed with and a serial number *)
(* (its distinct claims and expiry); util.VerifyAuthToken, which is not in *)
(* this repository, accepts a token exactly when it is signed with the     *)
(* verifying secret.  Expiry is not modelled.                              *)
(***************************************************************************)
EXTENDS Naturals, FiniteSets

CONSTANTS
    Secrets,     \* values util.GenerateToken may return for jwt.secret.key
    BootKeys,    \* values util.GenerateToken may return for application.boot
    NoValue,     \* an absent property or key
    Encrypted,   \* the store is badger, encrypted with the boot token
    MaxTokens,   \* bound on tokens issued on request (API and CLI)
    MaxStarts,   \* bound on daemon starts
    MaxSetups,   \* bound on runs of the setup command
    Anonymous,   \* the AuthorizedUser Authenticate stores for a refused
                 \* token: Username "", ExpiresAt 0, no Roles
    Missing,     \* a context the middleware did not see: no user value
    StoreReadFails  \* a Get on the store may return an error

ASSUME NoValue \notin Secrets \cup BootKeys

\* No request is in flight.
NoRequest == NoValue
ASSUME Encrypted \in BOOLEAN /\ StoreReadFails \in BOOLEAN
ASSUME {MaxTokens, MaxStarts, MaxSetups} \subseteq Nat

\* Who printed a token: the daemon's PostConstruct, the setup command,
\* GenerateToken on the running daemon, or "token auth".
Issuers == {"daemon", "setup", "api", "cli"}

\* admin: the token's Roles hold "ADMIN".  The daemon's bootstrap token and
\* setup's token carry USER and ADMIN; GenerateToken and token auth carry
\* the roles they are given.
Token == [secret : Secrets, n : Nat, by : Issuers, admin : BOOLEAN]

VARIABLES
    storeKey,        \* the key the badger store was created with
    jwt,             \* "jwt.secret.key" in the store
    bootEnv,         \* application.boot in the operator's environment
    dpc,             \* the daemon: down, boot (store open, PostConstruct
                     \* running), generated, persisted, up
    pending,         \* the secret PostConstruct generated
    secretKey,       \* t.secretKey of the running daemon
    invalid,         \* t.invalidTokens of the running daemon
    spc,             \* the setup command: idle, or inside doInCore
    tokens,          \* (history) every token printed
    printedSecrets,  \* (history) secrets printed by PostConstruct
    req,             \* the request in flight on the daemon, or NoRequest
    starts,
    setups

vars == <<storeKey, jwt, bootEnv, dpc, pending, secretKey, invalid, spc,
          tokens, printedSecrets, starts, setups, req>>

TypeOK ==
    /\ storeKey \in BootKeys \cup {NoValue}
    /\ jwt \in Secrets \cup {NoValue}
    /\ bootEnv \in BootKeys \cup {NoValue}
    /\ dpc \in {"down", "boot", "generated", "persisted", "up"}
    /\ pending \in Secrets \cup {NoValue}
    /\ secretKey \in Secrets \cup {NoValue}
    /\ invalid \subseteq tokens
    /\ spc \in {"idle", "opened"}
    /\ tokens \subseteq Token
    /\ printedSecrets \subseteq Secrets
    /\ starts \in 0..MaxStarts
    /\ setups \in 0..MaxSetups
    /\ req \in {NoRequest} \cup
              [tok : tokens \cup {NoValue}, user : tokens \cup {Anonymous, Missing},
               stage : {"authed", "granted", "denied"}]

\* A fresh installation: no store, no secret, no boot token exported.
Init ==
    /\ storeKey = NoValue
    /\ jwt = NoValue
    /\ bootEnv = NoValue
    /\ dpc = "down"
    /\ pending = NoValue
    /\ secretKey = NoValue
    /\ invalid = {}
    /\ spc = "idle"
    /\ tokens = {}
    /\ printedSecrets = {}
    /\ starts = 0
    /\ setups = 0
    /\ req = NoRequest

\* A new token signed with s, printed by whom.
Issue(s, whom) ==
    \E a \in IF whom \in {"daemon", "setup"} THEN {TRUE} ELSE BOOLEAN :
        tokens' = tokens \cup {[secret |-> s, n |-> Cardinality(tokens) + 1,
                                by |-> whom, admin |-> a]}

\* The badger factory opens the store with the boot token: it needs one,
\* and an existing store opens only with the key it was created with.
\* The bolt store ignores it.
OpensStore(boot) ==
    \/ ~Encrypted
    \/ boot # NoValue /\ storeKey \in {NoValue, boot}

NewStoreKey(boot) == IF Encrypted /\ storeKey = NoValue THEN boot ELSE storeKey

\* What ConfigRepository.GetProperty("jwt.secret.key") gives
\* Properties.GetString: the stored value, or "" (NoValue) when the key is
\* absent or the store's Get returns an error; the error is dropped.
StoredSecret == IF StoreReadFails THEN {jwt, NoValue} ELSE {jwt}

-----------------------------------------------------------------------------
(* The daemon.                                                             *)

\* The run command creates the core context, which opens the store; a
\* failure makes Run return and the process exit.  The setup command holds
\* the store while it is inside doInCore.
DaemonOpen ==
    /\ dpc = "down"
    /\ spc = "idle"
    /\ starts < MaxStarts
    /\ starts' = starts + 1
    /\ IF OpensStore(bootEnv)
         THEN /\ dpc' = "boot"
              /\ storeKey' = NewStoreKey(bootEnv)
         ELSE UNCHANGED <<dpc, storeKey>>
    /\ UNCHANGED <<jwt, bootEnv, pending, secretKey, invalid, spc, tokens,
                   printedSecrets, setups, req>>

\* PostConstruct: GetString("jwt.secret.key", "") gives the secret.
LoadSecret ==
    /\ dpc = "boot"
    /\ \E v \in StoredSecret \ {NoValue} : secretKey' = v
    /\ dpc' = "up"
    /\ UNCHANGED <<storeKey, jwt, bootEnv, pending, invalid, spc, tokens,
                   printedSecrets, starts, setups, req>>

\* PostConstruct: GetString gives "" (the key is absent, or the read
\* failed); util.GenerateToken(); Printf("Generated JWT ...").
GenerateSecret ==
    /\ dpc = "boot"
    /\ NoValue \in StoredSecret
    /\ \E k \in Secrets :
         /\ pending' = k
         /\ printedSecrets' = printedSecrets \cup {k}
    /\ dpc' = "generated"
    /\ UNCHANGED <<storeKey, jwt, bootEnv, secretKey, invalid, spc, tokens,
                   starts, setups, req>>

\* PostConstruct: ConfigRepository.Set("jwt.secret.key", secret); an error
\* fails the core context and the process exits.
PersistSecret ==
    /\ dpc = "generated"
    /\ \/ /\ jwt' = pending
          /\ dpc' = "persisted"
          /\ UNCHANGED pending
       \/ /\ dpc' = "down"
          /\ pending' = NoValue
          /\ UNCHANGED jwt
    /\ UNCHANGED <<storeKey, bootEnv, secretKey, invalid, spc, tokens,
                   printedSecrets, starts, setups, req>>

\* PostConstruct: generateDefaultAuthToken(secret), print it, then
\* t.secretKey = DecodeString(secret).
PrintDefaultToken ==
    /\ dpc = "persisted"
    /\ Issue(pending, "daemon")
    /\ secretKey' = pending
    /\ dpc' = "up"
    /\ UNCHANGED <<storeKey, jwt, bootEnv, pending, invalid, spc,
                   printedSecrets, starts, setups, req>>

\* The process ends at any point (a stop, a crash): everything held in
\* memory, the revocation set included, is lost.
Exit ==
    /\ dpc # "down"
    /\ dpc' = "down"
    /\ pending' = NoValue
    /\ secretKey' = NoValue
    /\ invalid' = {}
    /\ req' = NoRequest
    /\ UNCHANGED <<storeKey, jwt, bootEnv, spc, tokens, printedSecrets,
                   starts, setups>>

\* Seeded bug: GenerateToken is reachable before PostConstruct has set
\* t.secretKey.
GenerateTokenBeforeUp ==
    /\ Cardinality(tokens) < MaxTokens
    /\ Issue(secretKey, "api")
    /\ UNCHANGED <<storeKey, jwt, bootEnv, dpc, pending, secretKey, invalid,
                   spc, printedSecrets, starts, setups, req>>

\* GenerateToken(user) signs with t.secretKey.
GenerateToken ==
    /\ dpc = "up"
    /\ Cardinality(tokens) < MaxTokens
    /\ Issue(secretKey, "api")
    /\ UNCHANGED <<storeKey, jwt, bootEnv, dpc, pending, secretKey, invalid,
                   spc, printedSecrets, starts, setups, req>>

\* InvalidateToken(token): t.invalidTokens.Store(token, true).
InvalidateToken ==
    /\ dpc = "up"
    /\ \E t \in tokens : invalid' = invalid \cup {t}
    /\ UNCHANGED <<storeKey, jwt, bootEnv, dpc, pending, secretKey, spc,
                   tokens, printedSecrets, starts, setups, req>>

\* doAuthenticate: the token is not revoked and VerifyAuthToken accepts it
\* under t.secretKey; otherwise Authenticate gives the anonymous user.
Accepts(t) == t \notin invalid /\ t.secret = secretKey

-----------------------------------------------------------------------------
(* A request on the running daemon: the middleware authenticates it, then  *)
(* the handler asks for the user's role.                                   *)

\* Authenticate(ctx): doAuthenticate on the request's bearer token (none,
\* or one printed so far); a refused token gives the anonymous user.  The
\* user is stored in the context once, for the rest of the request.
Authenticate ==
    /\ dpc = "up"
    /\ req = NoRequest
    /\ \E t \in tokens \cup {NoValue} :
         req' = [tok |-> t, stage |-> "authed",
                 user |-> IF t # NoValue /\ Accepts(t) THEN t ELSE Anonymous]
    /\ UNCHANGED <<storeKey, jwt, bootEnv, dpc, pending, secretKey, invalid,
                   spc, tokens, printedSecrets, starts, setups>>

\* A handler reached without the middleware: its context holds no user.
MissRequest ==
    /\ dpc = "up"
    /\ req = NoRequest
    /\ \E t \in tokens \cup {NoValue} :
         req' = [tok |-> t, stage |-> "authed", user |-> Missing]
    /\ UNCHANGED <<storeKey, jwt, bootEnv, dpc, pending, secretKey, invalid,
                   spc, tokens, printedSecrets, starts, setups>>

\* GetUser(ctx): the stored user, none for the anonymous one; with no
\* stored user ("the middleware could miss the request") doAuthenticate
\* runs now.  NoValue is "not ok".
GetUser(r) ==
    CASE r.user = Missing   -> IF r.tok # NoValue /\ Accepts(r.tok) THEN r.tok ELSE NoValue
      [] r.user = Anonymous -> NoValue
      [] OTHER              -> r.user

\* Seeded bug: HasUserRole answers whether the user has any roles.
HasAdminRoleAnyRole(r) == GetUser(r) # NoValue

\* HasUserRole(ctx, "ADMIN"): GetUser is ok and Roles["ADMIN"] holds.
HasAdminRole(r) == GetUser(r) # NoValue /\ GetUser(r).admin

\* The handler checks the role and answers.
CheckRole ==
    /\ req # NoRequest
    /\ req.stage = "authed"
    /\ req' = [req EXCEPT !.stage = IF HasAdminRole(req) THEN "granted" ELSE "denied"]
    /\ UNCHANGED <<storeKey, jwt, bootEnv, dpc, pending, secretKey, invalid,
                   spc, tokens, printedSecrets, starts, setups>>

\* The handler returns; the context is dropped.
EndRequest ==
    /\ req # NoRequest
    /\ req.stage \in {"granted", "denied"}
    /\ req' = NoRequest
    /\ UNCHANGED <<storeKey, jwt, bootEnv, dpc, pending, secretKey, invalid,
                   spc, tokens, printedSecrets, starts, setups>>

-----------------------------------------------------------------------------
(* The CLI.                                                                *)

\* setup: GenerateToken for application.boot, print the export (the
\* operator uses it from now on), then doInCore opens the store.  A badger
\* store held by the daemon fails after the open timeout; a bolt store
\* waits for it.
SetupOpen ==
    /\ spc = "idle"
    /\ setups < MaxSetups
    /\ dpc = "down" \/ Encrypted
    /\ setups' = setups + 1
    /\ \E b \in BootKeys :
         /\ bootEnv' = b
         /\ IF dpc = "down" /\ OpensStore(b)
              THEN /\ spc' = "opened"
                   /\ storeKey' = NewStoreKey(b)
              ELSE UNCHANGED <<spc, storeKey>>
    /\ UNCHANGED <<jwt, dpc, pending, secretKey, invalid, tokens,
                   printedSecrets, starts, req>>

\* Seeded bug: setup generates and stores a new secret on every run.
SetupSecretRegenerates ==
    /\ spc = "opened"
    /\ spc' = "idle"
    /\ \E k \in Secrets :
         /\ jwt' = k
         /\ Issue(k, "setup")
    /\ UNCHANGED <<storeKey, bootEnv, dpc, pending, secretKey, invalid,
                   printedSecrets, starts, setups, req>>

\* setup, inside doInCore: Get the secret, or generate and Set one; then
\* core.Close, and print an admin token signed with the secret.  An error
\* of the Get or of the Set is returned: nothing is stored or printed.
SetupSecret ==
    /\ spc = "opened"
    /\ spc' = "idle"
    /\ \/ /\ jwt # NoValue
          /\ Issue(jwt, "setup")
          /\ UNCHANGED jwt
       \/ /\ jwt = NoValue
          /\ \E k \in Secrets : jwt' = k /\ Issue(k, "setup")
       \/ /\ jwt = NoValue \/ StoreReadFails
          /\ UNCHANGED <<jwt, tokens>>
    /\ UNCHANGED <<storeKey, bootEnv, dpc, pending, secretKey, invalid,
                   printedSecrets, starts, setups, req>>

\* token auth: sign with a secret the operator types in, one that was
\* printed to them.
TokenAuth ==
    /\ Cardinality(tokens) < MaxTokens
    /\ \E s \in printedSecrets : Issue(s, "cli")
    /\ UNCHANGED <<storeKey, jwt, bootEnv, dpc, pending, secretKey, invalid,
                   spc, printedSecrets, starts, setups, req>>

-----------------------------------------------------------------------------

Next ==
    \/ DaemonOpen \/ LoadSecret \/ GenerateSecret \/ PersistSecret
    \/ PrintDefaultToken \/ Exit \/ GenerateToken \/ InvalidateToken
    \/ SetupOpen \/ SetupSecret \/ TokenAuth
    \/ Authenticate \/ MissRequest \/ CheckRole \/ EndRequest

Spec == Init /\ [][Next]_vars

-----------------------------------------------------------------------------
(* Properties.                                                             *)

\* Every token the framework printed (the daemon's bootstrap token, setup's
\* admin token, GenerateToken) and not revoked is accepted by the running
\* daemon, in every later incarnation and after any number of setup runs:
\* the secret is generated once, persisted before any token signed with it
\* is printed, and read back unchanged (a persistence failure at bootstrap
\* is fatal, spec section 7).
PrintedTokensAccepted ==
    dpc = "up" =>
        \A t \in tokens : (t.by # "cli" /\ t \notin invalid) => Accepts(t)

\* A handler's HasUserRole(ctx, "ADMIN") grants a request only when it
\* carries an ADMIN token signed with the running daemon's secret, whether
\* the user came from Authenticate's snapshot or from GetUser's own
\* doAuthenticate; the anonymous user and a token without the role are
\* refused.  (A token revoked after Authenticate still passes: the user in
\* the context is not checked again.)
AdminOnlyGranted ==
    (req # NoRequest /\ req.stage = "granted") =>
        /\ req.tok # NoValue
        /\ req.tok.admin
        /\ req.tok.secret = secretKey

=============================================================================
