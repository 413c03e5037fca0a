--------------------------- MODULE RegistryAccess ---------------------------
(***************************************************************************)
(* How a sign operation gets at its registry: the settings that            *)
(* ConfigureProvider stores (internal/cosign/provider.go), an operation    *)
(* that reads them while they may be replaced, its identity, and requests  *)
(* that each resolve their credentials and are retried                     *)
(* (internal/cosign/sign.go).  What the requests do is in SignOp.          *)
(*                                                                         *)
(* One operation: others share only the settings and the files, which it   *)
(* sees change anyway.                                                     *)
(*                                                                         *)
(* An operator BUG_... is a plausible mistake in the definition after it;  *)
(* nothing uses it here (see README.md, "Seeded bugs").                    *)
(***************************************************************************)
EXTENDS Keychain, Retry

CONSTANTS
    Settings,           \* settings maps the host configures, as partial records
    Inputs,             \* [ref, retry, identity : {"key", "ambient", "handler"}]
    Disks,              \* what may be on disk
    MaxConfigurations,  \* bound: ConfigureProvider calls
    MaxLogins,          \* bound: changes on disk
    MaxRequests         \* bound: requests of the operation

ASSUME BoundsAssumption == {MaxConfigurations, MaxLogins, MaxRequests} \subseteq Nat
(* The registry that a password is for is the one it is configured with.   *)
ASSUME SettingsAssumption ==
    \A s \in Settings :
        {"registry", "password"} \subseteq DOMAIN s /\ "" \notin {s.registry, s.password}
            => s.password = s.registry
ASSUME InputsAssumption == \A i \in Inputs : i.ref \in Hosts /\ IsRetry(i.retry)

(* In the order ConfigureProvider stores them.                             *)
Fields == <<"registry", "username", "password", "authHandler", "scope", "insecure">>
(* In the order an operation reads them: parseReference, getKeychain.      *)
Reads  == <<"insecure", "registry", "username", "password", "authHandler", "scope">>

FieldNames == {Fields[i] : i \in 1 .. Len(Fields)}
Default(f) == IF f = "insecure" THEN FALSE ELSE ""

VARIABLES
    fields,         \* of the Plugin
    pending,        \* <<>>, or <<s>> while ConfigureProvider stores s
    stored,         \* how many of Fields it has stored
    disk,           \* credential files
    pc, in,         \* of the operation
    got,            \* the fields as it has read them
    again,          \* scope and insecure, which it reads a second time
    signer,         \* where its identity is from
    retry,          \* its retry option
    request,        \* requests it has begun
    credential,     \* of the current one
    left,           \* backoff of the current one
    made, answer,   \* attempts at it, and the last one's outcome
    configurations, logins,
    configured,     \* history: settings of the last complete ConfigureProvider
    began,          \* history: the same when the operation began
    overlapped,     \* history: a ConfigureProvider ran during the operation
    resolved        \* history: disk and broker when credential was resolved

plugin == <<fields, pending, stored, configured, configurations>>
call   == <<pc, in, got, again, signer, retry, request, credential, left, made,
            answer, began, resolved>>
vars   == <<plugin, disk, logins, call, overlapped>>
-----------------------------------------------------------------------------
Init ==
    /\ fields = [f \in FieldNames |-> Default(f)]
    /\ pending = <<>> /\ stored = 0 /\ configurations = 0
    /\ disk \in Disks /\ logins = 0
    /\ pc = "idle" /\ in \in Inputs
    /\ got = <<>> /\ again = [scope |-> {}, insecure |-> {}]
    /\ signer = "none" /\ retry = NoOption
    /\ request = 0 /\ credential = Anonymous /\ left = NoOption
    /\ made = 0 /\ answer = "none"
    /\ configured = fields /\ began = fields
    /\ overlapped = FALSE /\ resolved = <<>>

Running == pc \notin {"idle", "ok", "failed"}

(* Without settings the call returns at once, which is no step here.       *)
ConfigureProvider(s) ==
    /\ pending = <<>> /\ configurations < MaxConfigurations
    /\ pending' = <<s>> /\ stored' = 0
    /\ configurations' = configurations + 1
    /\ overlapped' = (overlapped \/ Running)
    /\ UNCHANGED <<fields, configured, disk, logins, call>>

BUG_Setting(s, f) == IF f \in DOMAIN s THEN s[f] ELSE fields[f]
(* getSettingString, getSettingBool: a value of another type is none.      *)
Setting(s, f) == IF f \in DOMAIN s THEN s[f] ELSE Default(f)

(* One assignment; nothing keeps the operation from reading in between.    *)
StoreField ==
    /\ pending # <<>>
    /\ stored' = stored + 1
    /\ LET f == Fields[stored'] IN
       fields' = [fields EXCEPT ![f] = Setting(pending[1], f)]
    /\ \/ stored' < Len(Fields) /\ UNCHANGED <<pending, configured>>
       \/ stored' = Len(Fields) /\ pending' = <<>>
          /\ configured' = [f \in FieldNames |->
                 IF f \in DOMAIN pending[1] THEN pending[1][f] ELSE Default(f)]
    /\ UNCHANGED <<configurations, disk, logins, call, overlapped>>

(* Someone logs in or out, here or with another tool.                      *)
Login(d) ==
    /\ logins < MaxLogins /\ d # disk
    /\ disk' = d /\ logins' = logins + 1
    /\ UNCHANGED <<plugin, call, overlapped>>
-----------------------------------------------------------------------------
(* parseRetry fails before anything is read.                               *)
ExecuteSign ==
    /\ pc = "idle"
    /\ \/ ParseRetry(in.retry) = {} /\ pc' = "failed" /\ UNCHANGED retry
       \/ retry' \in ParseRetry(in.retry) /\ pc' = "reading"
    /\ began' = configured
    /\ overlapped' = (pending # <<>>)
    /\ UNCHANGED <<plugin, disk, logins, in, got, again, signer, request, credential,
                   left, made, answer, resolved>>

(* parseReference and remoteOptions, one field at a time.                  *)
ReadField ==
    /\ pc = "reading"
    /\ LET f == Reads[Cardinality(DOMAIN got) + 1] IN
       got' = [n \in DOMAIN got \cup {f} |-> IF n = f THEN fields[f] ELSE got[n]]
    /\ pc' = IF DOMAIN got' = FieldNames THEN "signer" ELSE "reading"
    /\ UNCHANGED <<plugin, disk, logins, in, again, signer, retry, request, credential,
                   left, made, answer, began, overlapped, resolved>>

(* buildSigner with a key, or with oidcToken: an ambient provider that     *)
(* gives a token, else the host's broker for oidc_handler, which is asked  *)
(* with the scope as it is now.                                            *)
Ambients == {"disabled", "token", "fails"}
BuildSigner ==
    /\ pc = "signer"
    /\ \/ /\ in.identity = "key"
          /\ signer' = "key" /\ pc' = "resolve" /\ UNCHANGED again
       \/ /\ in.identity = "key"
          /\ pc' = "failed" /\ UNCHANGED <<signer, again>>
       \/ \E ambient \in Ambients, broker \in Brokers :
          /\ in.identity # "key"
          /\ signer' = IF ambient = "token" THEN "ambient"
                       ELSE IF in.identity = "handler" /\ broker = "grants"
                            THEN "handler" ELSE "none"
          /\ pc' = IF signer' = "none" THEN "failed" ELSE "resolve"
          /\ again' = IF in.identity = "handler" /\ ambient # "token" /\ broker # "none"
                      THEN [again EXCEPT !.scope = {fields.scope}] ELSE again
    /\ UNCHANGED <<plugin, disk, logins, in, got, retry, request, credential,
                   left, made, answer, began, overlapped, resolved>>

BUG_RequestBeforeSigner == {"resolve", "signer"}
Requesting == {"resolve"}

(* A request asks the keychain anew.                                       *)
ResolveCredential ==
    /\ pc \in Requesting /\ request < MaxRequests
    /\ \E broker \in Brokers :
         /\ credential' = Resolve(got, disk, in.ref, broker)
         /\ resolved' = [disk |-> disk, broker |-> broker]
    /\ request' = request + 1
    /\ left' = Effective(retry) /\ made' = 0 /\ answer' = "none"
    /\ pc' = IF credential' = Failed THEN "failed" ELSE "attempt"
    /\ UNCHANGED <<plugin, disk, logins, in, got, again, signer, retry, began, overlapped>>

(* The answer ends the request, or is one of those that are retried, also  *)
(* no answer at all.                                                       *)
Attempt ==
    /\ pc = "attempt" /\ left.steps > 0
    /\ made' = made + 1
    /\ \/ answer' = "ok" /\ pc' = "answered" /\ UNCHANGED left
       \/ answer' = "final" /\ pc' = "failed" /\ UNCHANGED left
       \/ /\ answer' = "retryable"
          /\ left' = StepBackoff(left)
          /\ pc' = IF left.steps = 1 \/ left'.steps = 0 THEN "failed" ELSE "attempt"
    /\ UNCHANGED <<plugin, disk, logins, in, got, again, signer, retry, request,
                   credential, began, overlapped, resolved>>

(* After remote.Get the scheme is read again, for the signed entity.       *)
Continue ==
    /\ pc = "answered"
    /\ pc' = IF request = MaxRequests THEN "ok" ELSE "resolve"
    /\ again' = IF request = 1 THEN [again EXCEPT !.insecure = {fields.insecure}] ELSE again
    /\ credential' = Anonymous /\ left' = NoOption /\ made' = 0 /\ answer' = "none"
    /\ resolved' = <<>>
    /\ UNCHANGED <<plugin, disk, logins, in, got, signer, retry, request, began, overlapped>>

Next ==
    \/ \E s \in Settings : ConfigureProvider(s)
    \/ StoreField
    \/ \E d \in Disks : Login(d)
    \/ ExecuteSign \/ ReadField \/ BuildSigner
    \/ ResolveCredential \/ Attempt \/ Continue

Spec == Init /\ [][Next]_vars
-----------------------------------------------------------------------------
HasResolved == resolved # <<>>

(* provider.go:461-478, sign.go:154, 439, 589: unless one runs meanwhile,  *)
(* an operation sees exactly what the last ConfigureProvider with settings *)
(* said, in all that it reads and both times; what that one left out is    *)
(* not inherited from an earlier one.                                      *)
WholeConfiguration ==
    ~overlapped =>
        /\ \A f \in DOMAIN got : got[f] = began[f]
        /\ again.scope \subseteq {began.scope}
        /\ again.insecure \subseteq {began.insecure}

(* auth.go:38-54, 180-271: the credential a request carries is one for its *)
(* registry, under one of its names, or is the host's for the handler of   *)
(* that registry.  While a ConfigureProvider runs, the password of one     *)
(* configuration may come with the registry of another.                    *)
CredentialIsForTheRegistry ==
    LET c == credential  r == in.ref
        names == {AuthKeys(r)[i] : i \in 1 .. Len(AuthKeys(r))} IN
    HasResolved =>
        /\ c.source = "settings" /\ ~overlapped => c.for \in names
        /\ c.source \in {"store", "docker"} => c.for \in names
        /\ c.source = "broker" =>
             \/ c.handler = got.authHandler
             \/ got.authHandler = "" /\ r \in DOMAIN Known /\ c.handler = Known[r]
             \/ got.authHandler = "" /\ r \notin DOMAIN Known
                /\ \/ c.handler = r
                   \/ \E a \in Apps : /\ r \in DOMAIN resolved.disk.config[a]
                                      /\ c.handler = resolved.disk.config[a][r].handler

(* The store has a login for a registry: in the file that registries.json  *)
(* names for it, under Docker's short name if not under its own, or in a   *)
(* container tool's file.                                                  *)
Stored(d, r) ==
    LET entries == RegistriesConfig(d)
        mine    == {n \in DOMAIN entries :
                      n = r \/ (r = Hub /\ r \notin DOMAIN entries /\ n = HubAliases[1])}
        own     == {entries[n].file : n \in mine} \ {""}
    IN \E f \in own \cup {DefaultFiles[i] : i \in 1 .. Len(DefaultFiles)} :
         ReadContainerAuth(d, f, r) # Anonymous
Configured(r) ==
    /\ got.username # "" /\ got.password # ""
    /\ \/ got.registry = r
       \/ r = Hub /\ got.registry = HubAliases[1]

(* README.md:43-49: settings, credential store, docker, host broker and    *)
(* then anonymous; a lower source is used when no higher one has a login,  *)
(* and a failure of the broker, the last, stops no request that another    *)
(* source has a login for.                                                 *)
DocumentedOrder ==
    HasResolved =>
        LET d == resolved.disk  r == in.ref IN
        credential.source \in
            IF Configured(r) THEN {"settings"}
            ELSE IF Stored(d, r) THEN {"store"}
            ELSE IF r \in d.docker THEN {"docker"}
            ELSE {"broker", "anonymous", "failed"}

(* auth.go:112-117: "If the handler or scope were explicitly configured,   *)
(* surface the error": no request goes out anonymously because the broker  *)
(* refused it a configured handler or scope, unless its registry is known  *)
(* to need none.                                                           *)
BrokerFailureSurfaces ==
    /\ HasResolved /\ credential = Anonymous /\ resolved.broker = "refuses"
    /\ got.authHandler # "" \/ got.scope # ""
    => got.authHandler = "" /\ in.ref \in DOMAIN Known /\ Known[in.ref] = ""

(* sign.go:138-139: "Build the signer before touching the registry so a    *)
(* bad key or missing identity fails fast".                                *)
IdentityBeforeRegistry == request > 0 => signer # "none"

(* The attempts and the first wait that an input asks for.                 *)
Count(v) == IF v.kind \in {"int", "float", "text"} /\ v.n > 0 THEN v.n ELSE 3
AskedAttempts ==
    IF in.retry.kind = "map" THEN Count(in.retry.attempts) ELSE Count(in.retry)
AskedWait ==
    IF in.retry.kind # "map" THEN Second
    ELSE LET b == in.retry.backoff IN
         IF b = Absent THEN Second ELSE IF b.kind = "duration" THEN b.ns ELSE b.n * Second
Capped == in.retry.kind = "map" /\ in.retry.maxBackoff # Absent

(* helpers.go:20-27, provider.go:372-374: a request is tried as often as   *)
(* asked, three times when nothing or nothing positive is, as long as the  *)
(* registry asks for it; less often only with a maxBackoff.  It first      *)
(* waits as long as asked, if that many nanoseconds fit.                   *)
RetriesAsAsked ==
    /\ request > 0 => made <= AskedAttempts
    /\ pc = "failed" /\ answer = "retryable" /\ ~Capped /\ AskedAttempts <= MaxInt =>
         made = AskedAttempts
    /\ pc = "attempt" /\ made = 0 /\ retry # NoOption /\ AskedWait \in Ints =>
         left.duration = AskedWait

(* auth.go:212: "Checks both scafctl and cldctl config directories", for   *)
(* the store that "catalog login" of either fills (auth.go:385-388).       *)
StoreCoversBoth ==
    HasResolved /\ ~Configured(in.ref) =>
        \A a \in Apps :
            LET entries == resolved.disk.registries[a] IN
            in.ref \in DOMAIN entries /\ entries[in.ref].file # ""
                /\ ReadContainerAuth(resolved.disk, entries[in.ref].file, in.ref) # Anonymous
            => credential.source = "store"
=============================================================================
