------------------------------ MODULE Keychain ------------------------------
(***************************************************************************)
(* The registry credentials (internal/cosign/auth.go): which one a request *)
(* to a registry gets, from the settings, what is on disk and what the     *)
(* host's auth broker answers.  Definitions only; RegistryAccess has the   *)
(* state.                                                                  *)
(*                                                                         *)
(* A file that is missing, unreadable or malformed is skipped like one     *)
(* without entries, and is modelled as one.  A password is abstracted to   *)
(* where it is from and what registry it is for.                           *)
(*                                                                         *)
(* An operator BUG_... is a plausible mistake in the definition after it.  *)
(***************************************************************************)
EXTENDS Naturals, SequencesExt

CONSTANTS
    Hosts,        \* registries, by the name references carry
    Hub,          \* name.DefaultRegistry, index.docker.io
    HubAliases,   \* docker.io and the URL of Docker's index, in that order
    WithScheme,   \* "https://" in front of a registry
    Known,        \* registryAuthHandlers, with its suffix rule; "" for Hub
    DefaultScope, \* defaultScopeForHandler, on the handlers that have one
    DefaultFiles  \* scafctlAuthFilePaths

ASSUME HostsAssumption ==
    /\ Hub \in Hosts /\ "" \notin Hosts
    /\ Len(HubAliases) = 2 /\ "" \notin {HubAliases[1], HubAliases[2]}
    /\ DOMAIN Known \subseteq Hosts /\ Hub \in DOMAIN Known /\ Known[Hub] = ""
    /\ Len(DefaultFiles) \in Nat

Apps == {"scafctl", "cldctl"}

Anonymous == [source |-> "anonymous"]
Failed    == [source |-> "failed"]   \* Resolve returns an error

(* Settings: a record of strings, "" when not given.  The password carries *)
(* the registry it is for.                                                 *)
Explicit(s) == s.username # "" /\ s.password # ""

BUG_StaticKeychain(s, r) ==
    IF ~Explicit(s) THEN Anonymous ELSE [source |-> "settings", for |-> s.password]

StaticKeychain(s, r) ==
    IF /\ Explicit(s) /\ s.registry # ""
       /\ r = s.registry \/ (r = Hub /\ s.registry = HubAliases[1])
    THEN [source |-> "settings", for |-> s.password]
    ELSE Anonymous

(* The names a container auth file may have a login under, in order.  The  *)
(* first that is there counts, also when its value does not decode.        *)
AuthKeys(r) ==
    IF r = Hub THEN <<r, WithScheme[r], HubAliases[1], HubAliases[2]>>
    ELSE <<r, WithScheme[r]>>
ReadContainerAuth(d, file, r) ==
    LET keys    == AuthKeys(r)
        present == {i \in 1 .. Len(keys) : keys[i] \in DOMAIN d.auths[file]}
        key     == keys[Min(present)]
    IN IF present # {} /\ d.auths[file][key] = "usable"
       THEN [source |-> "store", for |-> key]
       ELSE Anonymous

(* The first registries.json that has an entry, any entry.                 *)
RegistriesConfig(d) ==
    IF DOMAIN d.registries["scafctl"] # {} THEN d.registries["scafctl"]
    ELSE d.registries["cldctl"]

(* The file of the entry for r; Docker's short name counts when there is   *)
(* none under its own.                                                     *)
OwnFile(d, r) ==
    LET entries == RegistriesConfig(d)
        name    == IF r \in DOMAIN entries \/ r # Hub THEN r ELSE HubAliases[1]
    IN IF name \in DOMAIN entries THEN entries[name].file ELSE ""
FirstOf(creds) ==
    LET offered == {i \in 1 .. Len(creds) : creds[i] # Anonymous}
    IN IF offered = {} THEN Anonymous ELSE creds[Min(offered)]

ScafctlKeychain(d, r) ==
    LET own == IF OwnFile(d, r) = "" THEN Anonymous
               ELSE ReadContainerAuth(d, OwnFile(d, r), r)
    IN IF own # Anonymous THEN own
       ELSE FirstOf([i \in 1 .. Len(DefaultFiles) |->
                        ReadContainerAuth(d, DefaultFiles[i], r)])

(* authn.DefaultKeychain: docker's and podman's own configuration.         *)
DockerKeychain(d, r) ==
    IF r \in d.docker THEN [source |-> "docker", for |-> r] ELSE Anonymous
-----------------------------------------------------------------------------
(* lookupRegistryHandler; the order of the applications is the other one.  *)
Mapping(d, r) ==
    IF r \in DOMAIN d.config["cldctl"] THEN d.config["cldctl"][r]
    ELSE IF r \in DOMAIN d.config["scafctl"] THEN d.config["scafctl"][r]
    ELSE [handler |-> "", username |-> ""]

(* "" when r is known to need none.                                        *)
Handler(s, d, r) ==
    IF s.authHandler # "" THEN s.authHandler
    ELSE IF r \in DOMAIN Known THEN Known[r]
    ELSE IF Mapping(d, r).handler # "" THEN Mapping(d, r).handler
    ELSE r

Scope(s, handler) ==
    IF s.scope = "" /\ handler \in DOMAIN DefaultScope THEN DefaultScope[handler]
    ELSE s.scope

(* The setting, the mapping that gave the handler, registries.json under   *)
(* the registry and under the handler.                                     *)
Username(s, d, r, handler) ==
    LET mapped  == IF s.authHandler = "" /\ r \notin DOMAIN Known
                   THEN Mapping(d, r).username ELSE ""
        entries == RegistriesConfig(d)
        Entry(n) == IF n \in DOMAIN entries THEN entries[n].username ELSE ""
        given   == SelectSeq(<<s.username, mapped, Entry(r), Entry(handler)>>,
                             LAMBDA u : u # "")
    IN IF given = <<>> THEN "x-access-token" ELSE given[1]

BUG_MustSurface(s) == s.authHandler # ""
(* tryHandler: an error of the broker is one of the call.                  *)
MustSurface(s) == s.authHandler # "" \/ s.scope # ""

(* What the broker is to this call: not there, refusing, or granting.      *)
Brokers == {"none", "refuses", "grants"}
HostKeychain(s, d, r, broker) ==
    LET h == Handler(s, d, r) IN
    IF broker = "none" \/ h = "" THEN Anonymous
    ELSE IF broker = "grants"
         THEN [source |-> "broker", handler |-> h, scope |-> Scope(s, h),
               username |-> Username(s, d, r, h)]
         ELSE IF MustSurface(s) THEN Failed ELSE Anonymous

BUG_HostBeforeDocker(s, d, r, broker) ==
    FirstOf(<<StaticKeychain(s, r), ScafctlKeychain(d, r),
              HostKeychain(s, d, r, broker), DockerKeychain(d, r)>>)

(* buildKeychain, resolved.                                                *)
Resolve(s, d, r, broker) ==
    FirstOf(<<StaticKeychain(s, r), ScafctlKeychain(d, r),
              DockerKeychain(d, r), HostKeychain(s, d, r, broker)>>)
=============================================================================
