------------------------ MODULE RegistryAccessProofs ------------------------
(***************************************************************************)
(* Theorems about an operation that reads the settings of the plugin while *)
(* the host replaces them, for any settings, inputs and files and any      *)
(* number of calls.                                                        *)
(***************************************************************************)
EXTENDS RegistryAccess, TLAPS, WellFoundedInduction

(* ConfigureProvider has stored the fields up to the last one, and between *)
(* two of its calls the fields are those of the last one.                  *)
StoredSoFar ==
    /\ fields = [f \in FieldNames |-> fields[f]]
    /\ pending = <<>> => fields = configured
    /\ pending # <<>> =>
         /\ stored \in 0 .. Len(Fields) - 1
         /\ \A i \in 1 .. stored : fields[Fields[i]] = Setting(pending[1], Fields[i])

(* An operation that no ConfigureProvider overlapped runs between two, and *)
(* so what it has read and what it will read is the same configuration.    *)
SettingsInv ==
    /\ StoredSoFar
    /\ pc = "idle" => DOMAIN got = {} /\ again = [scope |-> {}, insecure |-> {}]
    /\ Running /\ ~overlapped => pending = <<>> /\ began = configured
    /\ \A f \in DOMAIN got : ~overlapped => got[f] = began[f]
    /\ ~overlapped => again.scope \subseteq {began.scope}
                      /\ again.insecure \subseteq {began.insecure}
    /\ again = [scope |-> again.scope, insecure |-> again.insecure]

LEMMA FieldList ==
    /\ Len(Fields) = 6
    /\ FieldNames = {Fields[1], Fields[2], Fields[3], Fields[4], Fields[5], Fields[6]}
    /\ \A i, j \in 1 .. 6 : Fields[i] = Fields[j] => i = j
<1>1. Len(Fields) = 6
  BY DEF Fields
<1>2. \A i, j \in 1 .. 6 : Fields[i] = Fields[j] => i = j
  BY DEF Fields
<1>3. 1 .. 6 = {1, 2, 3, 4, 5, 6}
  OBVIOUS
<1>4. QED  BY <1>1, <1>2, <1>3 DEF FieldNames

LEMMA StoredSoFarNext == StoredSoFar /\ [Next]_vars => StoredSoFar'
<1> SUFFICES ASSUME StoredSoFar, [Next]_vars PROVE StoredSoFar'
  OBVIOUS
<1>1. ASSUME NEW s \in Settings, ConfigureProvider(s) PROVE StoredSoFar'
  BY <1>1, FieldList DEF ConfigureProvider, StoredSoFar
<1>2. CASE StoreField
  <2> DEFINE f == Fields[stored']
  <2>1. /\ stored \in 0 .. 5 /\ stored' = stored + 1 /\ f \in FieldNames
        /\ fields' = [fields EXCEPT ![f] = Setting(pending[1], f)]
    BY <1>2, FieldList DEF StoreField, StoredSoFar
  <2>2. fields' = [g \in FieldNames |-> fields'[g]]
    BY <2>1 DEF StoredSoFar
  <2>3. ASSUME NEW i \in 1 .. stored' PROVE fields'[Fields[i]] = Setting(pending[1], Fields[i])
    <3>1. i \in 1 .. 6 /\ Fields[i] \in FieldNames
      BY <2>1, FieldList DEF FieldNames
    <3>2. CASE i = stored'
      BY <2>1, <3>1, <3>2 DEF StoredSoFar
    <3>3. CASE i # stored'
      <4>1. i \in 1 .. stored /\ Fields[i] # f
        BY <2>1, <3>1, <3>3, FieldList
      <4>2. fields'[Fields[i]] = fields[Fields[i]]
        BY <2>1, <3>1, <4>1 DEF StoredSoFar
      <4>3. QED  BY <1>2, <4>1, <4>2 DEF StoreField, StoredSoFar
    <3>4. QED  BY <3>2, <3>3
  <2>4. CASE stored' < Len(Fields) /\ UNCHANGED <<pending, configured>>
    <3>1. stored' \in 0 .. Len(Fields) - 1 /\ pending # <<>>
      BY <1>2, <2>1, <2>4, FieldList DEF StoreField
    <3>2. QED  BY <2>2, <2>3, <2>4, <3>1 DEF StoredSoFar, Setting
  <2>5. CASE /\ stored' = Len(Fields) /\ pending' = <<>>
             /\ configured' = [g \in FieldNames |->
                    IF g \in DOMAIN pending[1] THEN pending[1][g] ELSE Default(g)]
    <3>1. ASSUME NEW g \in FieldNames PROVE fields'[g] = Setting(pending[1], g)
      <4>1. PICK i \in 1 .. Len(Fields) : g = Fields[i]
        BY DEF FieldNames
      <4>2. QED  BY <2>3, <2>5, <4>1
    <3>2. fields' = configured'
      BY <2>2, <2>5, <3>1 DEF Setting
    <3>3. QED  BY <2>2, <2>5, <3>2 DEF StoredSoFar
  <2>6. QED  BY <1>2, <2>4, <2>5 DEF StoreField
<1>3. CASE UNCHANGED plugin
  BY <1>3 DEF plugin, StoredSoFar, Setting
<1>4. QED
  BY <1>1, <1>2, <1>3
     DEF Next, Login, ExecuteSign, ReadField, BuildSigner, ResolveCredential, Attempt,
         Continue, vars

LEMMA SettingsInvInit == Init => SettingsInv
<1> SUFFICES ASSUME Init PROVE SettingsInv
  OBVIOUS
<1>1. StoredSoFar
  BY DEF Init, StoredSoFar
<1>2. DOMAIN got = {}
  BY DEF Init
<1>3. QED  BY <1>1, <1>2 DEF Init, SettingsInv, Running

LEMMA SettingsInvNext == SettingsInv /\ [Next]_vars => SettingsInv'
<1> SUFFICES ASSUME SettingsInv, [Next]_vars PROVE SettingsInv'
  OBVIOUS
<1>1. StoredSoFar /\ StoredSoFar'
  BY StoredSoFarNext DEF SettingsInv
<1>2. ASSUME NEW s \in Settings, ConfigureProvider(s) PROVE SettingsInv'
  BY <1>1, <1>2 DEF ConfigureProvider, SettingsInv, Running, call
<1>3. CASE StoreField
  <2>1. pending # <<>> /\ UNCHANGED <<call, overlapped>>
    BY <1>3 DEF StoreField
  <2>2. ~(Running /\ ~overlapped)
    BY <2>1 DEF SettingsInv
  <2>3. QED  BY <1>1, <2>1, <2>2 DEF SettingsInv, Running, call
<1>4. ASSUME NEW d \in Disks, Login(d) PROVE SettingsInv'
  BY <1>1, <1>4 DEF Login, SettingsInv, Running, call, plugin
<1>5. CASE ExecuteSign
  <2>1. /\ pc = "idle" /\ pc' # "idle" /\ began' = configured
        /\ overlapped' = (pending # <<>>) /\ got' = got /\ again' = again
        /\ UNCHANGED plugin
    BY <1>5 DEF ExecuteSign
  <2>2. /\ DOMAIN got = {} /\ again.scope = {} /\ again.insecure = {}
        /\ again = [scope |-> again.scope, insecure |-> again.insecure]
    BY <2>1 DEF SettingsInv
  <2>3. ~overlapped' => pending' = <<>> /\ began' = configured'
    BY <2>1 DEF plugin
  <2>4. QED  BY <1>1, <2>1, <2>2, <2>3 DEF SettingsInv
<1>6. CASE ReadField
  <2>1. Running
    BY <1>6 DEF ReadField, Running
  <2>2. PICK f : got' = [n \in DOMAIN got \cup {f} |-> IF n = f THEN fields[f] ELSE got[n]]
    BY <1>6 DEF ReadField
  <2>3. ASSUME NEW g \in DOMAIN got', ~overlapped PROVE got'[g] = began[g]
    <3>1. fields = began
      BY <1>1, <2>1, <2>3 DEF SettingsInv, StoredSoFar
    <3>2. QED  BY <2>2, <2>3, <3>1 DEF SettingsInv
  <2>4. pc' # "idle"
    BY <1>6 DEF ReadField
  <2>5. QED
    BY <1>1, <1>6, <2>1, <2>3, <2>4 DEF ReadField, SettingsInv, plugin
<1>7. CASE BuildSigner \/ Continue
  <2>1. Running /\ pc' # "idle"
    BY <1>7 DEF BuildSigner, Continue, Running
  <2>2. /\ again'.scope \in {again.scope, {fields.scope}}
        /\ again'.insecure \in {again.insecure, {fields.insecure}}
        /\ again' = [scope |-> again'.scope, insecure |-> again'.insecure]
    BY <1>7 DEF BuildSigner, Continue, SettingsInv
  <2>3. ~overlapped => fields = began
    BY <1>1, <2>1 DEF SettingsInv, StoredSoFar
  <2>4. got' = got /\ began' = began /\ overlapped' = overlapped /\ UNCHANGED plugin
    BY <1>7 DEF BuildSigner, Continue
  <2>5. QED  BY <1>1, <2>1, <2>2, <2>3, <2>4 DEF SettingsInv, plugin
<1>8. CASE ResolveCredential \/ Attempt
  <2>1. Running /\ pc' # "idle"
    BY <1>8 DEF ResolveCredential, Requesting, Attempt, Running
  <2>2. /\ got' = got /\ again' = again /\ began' = began /\ overlapped' = overlapped
        /\ UNCHANGED plugin
    BY <1>8 DEF ResolveCredential, Attempt
  <2>3. QED  BY <1>1, <2>1, <2>2 DEF SettingsInv, plugin
<1>9. CASE UNCHANGED vars
  BY <1>1, <1>9 DEF SettingsInv, Running, vars, plugin, call
<1>10. QED
  BY <1>2, <1>3, <1>4, <1>5, <1>6, <1>7, <1>8, <1>9 DEF Next

(* An operation that no ConfigureProvider overlaps sees the whole of the   *)
(* last configuration, however its reads fall (provider.go:461-478,        *)
(* sign.go:154, 439, 589).                                                 *)
THEOREM AlwaysWholeConfiguration == Spec => []WholeConfiguration
<1>1. SettingsInv => WholeConfiguration
  BY DEF SettingsInv, WholeConfiguration
<1>2. QED  BY <1>1, SettingsInvInit, SettingsInvNext, PTL DEF Spec

-----------------------------------------------------------------------------
(* A call that makes requests has its signer; one that has none made none. *)
IdentityInv ==
    /\ IdentityBeforeRegistry
    /\ pc \in {"idle", "reading", "signer"} => request = 0
    /\ pc \in {"resolve", "attempt", "answered"} => signer # "none"

(* No request is made before the operation has its identity, and for good  *)
(* one that fails to get it makes none (sign.go:138-139).                  *)
THEOREM IdentityAlwaysFirst == Spec => []IdentityBeforeRegistry
<1>1. Init => IdentityInv
  BY DEF Init, IdentityInv, IdentityBeforeRegistry
<1>2. IdentityInv /\ [Next]_vars => IdentityInv'
  <2> SUFFICES ASSUME IdentityInv, [Next]_vars PROVE IdentityInv'
    OBVIOUS
  <2> USE DEF IdentityInv, IdentityBeforeRegistry
  <2>1. CASE ExecuteSign
    BY <2>1 DEF ExecuteSign
  <2>2. CASE ReadField
    BY <2>2 DEF ReadField
  <2>3. CASE BuildSigner
    BY <2>3 DEF BuildSigner
  <2>4. CASE ResolveCredential
    BY <2>4 DEF ResolveCredential, Requesting
  <2>5. CASE Attempt
    BY <2>5 DEF Attempt
  <2>6. CASE Continue
    BY <2>6 DEF Continue
  <2>7. CASE UNCHANGED call
    BY <2>7 DEF call
  <2>8. QED
    BY <2>1, <2>2, <2>3, <2>4, <2>5, <2>6, <2>7
       DEF Next, ConfigureProvider, StoreField, Login, vars
<1>3. IdentityInv => IdentityBeforeRegistry
  BY DEF IdentityInv
<1>4. QED  BY <1>1, <1>2, <1>3, PTL DEF Spec
-----------------------------------------------------------------------------
(* The first of several, as the keychains and the files are asked: a set   *)
(* of numbers has a least one.                                             *)
LEMMA LeastExists ==
    ASSUME NEW S, S \subseteq Nat, S # {}
    PROVE  Min(S) \in S /\ \A y \in S : Min(S) <= y
<1>1. PICK x \in S : \A y \in S : ~(<<y, x>> \in OpToRel(<, Nat))
  BY WFMin, NatLessThanWellFounded
<1>2. ASSUME NEW y \in S PROVE x <= y
  <2>1. <<y, x>> \in Nat \X Nat /\ <<y, x>>[1] = y /\ <<y, x>>[2] = x
    OBVIOUS
  <2>2. ~(<<y, x>>[1] < <<y, x>>[2])
    BY <1>1, <2>1 DEF OpToRel
  <2>3. QED  BY <2>1, <2>2
<1>3. QED  BY <1>2 DEF Min

LEMMA FirstIsOffered ==
    ASSUME NEW creds, Len(creds) \in Nat
    PROVE  \/ /\ FirstOf(creds) = Anonymous
              /\ \A i \in 1 .. Len(creds) : creds[i] = Anonymous
           \/ \E i \in 1 .. Len(creds) :
                /\ FirstOf(creds) = creds[i] /\ creds[i] # Anonymous
                /\ \A j \in 1 .. i - 1 : creds[j] = Anonymous
<1> DEFINE offered == {i \in 1 .. Len(creds) : creds[i] # Anonymous}
<1>1. CASE offered = {}
  BY <1>1 DEF FirstOf
<1>2. CASE offered # {}
  <2>1. Min(offered) \in offered /\ \A i \in offered : Min(offered) <= i
    BY <1>2, LeastExists
  <2>2. FirstOf(creds) = creds[Min(offered)]
    BY <1>2 DEF FirstOf
  <2>3. ASSUME NEW j \in 1 .. Min(offered) - 1 PROVE creds[j] = Anonymous
    BY <2>1
  <2>4. QED  BY <2>1, <2>2, <2>3
<1>3. QED  BY <1>1, <1>2

(* What buildKeychain puts first decides.                                  *)
LEMMA ResolveInOrder ==
    ASSUME NEW s, NEW d, NEW r, NEW broker
    PROVE  Resolve(s, d, r, broker) =
             IF StaticKeychain(s, r) # Anonymous THEN StaticKeychain(s, r)
             ELSE IF ScafctlKeychain(d, r) # Anonymous THEN ScafctlKeychain(d, r)
             ELSE IF DockerKeychain(d, r) # Anonymous THEN DockerKeychain(d, r)
             ELSE HostKeychain(s, d, r, broker)
<1> DEFINE a == StaticKeychain(s, r)
           b == ScafctlKeychain(d, r)
           c == DockerKeychain(d, r)
           h == HostKeychain(s, d, r, broker)
           creds == <<a, b, c, h>>
<1>1. Resolve(s, d, r, broker) = FirstOf(creds)
  BY DEF Resolve
<1> HIDE DEF a, b, c, h
<1>2. Len(creds) = 4 /\ creds[1] = a /\ creds[2] = b /\ creds[3] = c /\ creds[4] = h
  OBVIOUS
<1> HIDE DEF creds
<1>3. ASSUME FirstOf(creds) = Anonymous, \A i \in 1 .. 4 : creds[i] = Anonymous
      PROVE  FirstOf(creds) = IF a # Anonymous THEN a ELSE IF b # Anonymous THEN b
                              ELSE IF c # Anonymous THEN c ELSE h
  BY <1>2, <1>3
<1>4. ASSUME NEW i \in 1 .. 4, FirstOf(creds) = creds[i], creds[i] # Anonymous,
             \A j \in 1 .. i - 1 : creds[j] = Anonymous
      PROVE  FirstOf(creds) = IF a # Anonymous THEN a ELSE IF b # Anonymous THEN b
                              ELSE IF c # Anonymous THEN c ELSE h
  <2>1. i = 1 \/ i = 2 \/ i = 3 \/ i = 4
    OBVIOUS
  <2>2. QED  BY <1>2, <1>4, <2>1
<1>5. FirstOf(creds) = IF a # Anonymous THEN a ELSE IF b # Anonymous THEN b
                       ELSE IF c # Anonymous THEN c ELSE h
  BY <1>2, <1>3, <1>4, FirstIsOffered
<1>6. QED  BY <1>1, <1>5 DEF a, b, c, h

(* A file gives a login that it has under one of the registry's names.     *)
LEMMA AuthKeysAre ==
    ASSUME NEW r
    PROVE  /\ Len(AuthKeys(r)) \in Nat /\ 1 \in 1 .. Len(AuthKeys(r)) /\ AuthKeys(r)[1] = r
           /\ r = Hub => 3 \in 1 .. Len(AuthKeys(r)) /\ AuthKeys(r)[3] = HubAliases[1]
BY DEF AuthKeys

LEMMA FileCredential ==
    ASSUME NEW d, NEW file, NEW r
    PROVE  \/ ReadContainerAuth(d, file, r) = Anonymous
           \/ \E i \in 1 .. Len(AuthKeys(r)) :
                ReadContainerAuth(d, file, r) = [source |-> "store", for |-> AuthKeys(r)[i]]
<1> DEFINE keys    == AuthKeys(r)
           present == {i \in 1 .. Len(keys) : keys[i] \in DOMAIN d.auths[file]}
<1>1. CASE present = {}
  BY <1>1 DEF ReadContainerAuth
<1>2. CASE present # {}
  <2>1. Min(present) \in 1 .. Len(keys)
    <3>1. present \subseteq Nat
      BY AuthKeysAre
    <3>2. QED  BY <1>2, <3>1, LeastExists
  <2>2. QED  BY <2>1 DEF ReadContainerAuth
<1>3. QED  BY <1>1, <1>2

(* The store has a login exactly when it gives one, and it is a file's.    *)
LEMMA StoreCredential ==
    ASSUME NEW d, NEW r
    PROVE  /\ ScafctlKeychain(d, r) # Anonymous <=> Stored(d, r)
           /\ \/ ScafctlKeychain(d, r) = Anonymous
              \/ \E i \in 1 .. Len(AuthKeys(r)) :
                   ScafctlKeychain(d, r) = [source |-> "store", for |-> AuthKeys(r)[i]]
<1> DEFINE file(f) == ReadContainerAuth(d, f, r)
           own     == IF OwnFile(d, r) = "" THEN Anonymous ELSE file(OwnFile(d, r))
           creds   == [i \in 1 .. Len(DefaultFiles) |-> file(DefaultFiles[i])]
           entries == RegistriesConfig(d)
           mine    == {n \in DOMAIN entries :
                         n = r \/ (r = Hub /\ r \notin DOMAIN entries /\ n = HubAliases[1])}
<1>1. Len(creds) = Len(DefaultFiles) /\ Len(creds) \in Nat
  <2> HIDE DEF file
  <2>1. Len(DefaultFiles) \in Nat
    BY HostsAssumption
  <2>2. QED  BY <2>1
<1>2. ScafctlKeychain(d, r) = IF own # Anonymous THEN own ELSE FirstOf(creds)
  BY DEF ScafctlKeychain
<1>3. {OwnFile(d, r)} \ {""} = {entries[n].file : n \in mine} \ {""}
  BY DEF OwnFile
<1>4. Stored(d, r) <=> \/ OwnFile(d, r) # "" /\ file(OwnFile(d, r)) # Anonymous
                       \/ \E i \in 1 .. Len(DefaultFiles) : file(DefaultFiles[i]) # Anonymous
  BY <1>3 DEF Stored
<1>5. CASE own # Anonymous
  BY <1>2, <1>4, <1>5, FileCredential
<1>6. CASE own = Anonymous
  <2>1. ScafctlKeychain(d, r) = FirstOf(creds)
    BY <1>2, <1>6
  <2>2. CASE FirstOf(creds) = Anonymous /\ \A i \in 1 .. Len(creds) : creds[i] = Anonymous
    BY <1>1, <1>4, <1>6, <2>1, <2>2
  <2>3. ASSUME NEW i \in 1 .. Len(creds), FirstOf(creds) = creds[i], creds[i] # Anonymous
        PROVE  /\ ScafctlKeychain(d, r) = file(DefaultFiles[i])
               /\ file(DefaultFiles[i]) # Anonymous /\ Stored(d, r)
    BY <1>1, <1>4, <2>1, <2>3
  <2>4. \/ FirstOf(creds) = Anonymous /\ \A i \in 1 .. Len(creds) : creds[i] = Anonymous
        \/ \E i \in 1 .. Len(creds) : FirstOf(creds) = creds[i] /\ creds[i] # Anonymous
    <3> HIDE DEF creds
    <3> QED  BY <1>1, FirstIsOffered
  <2>5. CASE \E i \in 1 .. Len(creds) : FirstOf(creds) = creds[i] /\ creds[i] # Anonymous
    <3>1. PICK i \in 1 .. Len(creds) : FirstOf(creds) = creds[i] /\ creds[i] # Anonymous
      BY <2>5
    <3>2. /\ ScafctlKeychain(d, r) = file(DefaultFiles[i])
          /\ file(DefaultFiles[i]) # Anonymous /\ Stored(d, r)
      BY <2>3, <3>1
    <3>3. \E k \in 1 .. Len(AuthKeys(r)) :
             file(DefaultFiles[i]) = [source |-> "store", for |-> AuthKeys(r)[k]]
      BY <3>2, FileCredential
    <3>4. QED  BY <3>2, <3>3
  <2>6. QED  BY <2>2, <2>4, <2>5
<1>7. QED  BY <1>5, <1>6

LEMMA SourceOfEach ==
    ASSUME NEW s, NEW d, NEW r, NEW broker
    PROVE  /\ StaticKeychain(s, r) # Anonymous =>
                /\ StaticKeychain(s, r).source = "settings"
                /\ StaticKeychain(s, r).for = s.password
           /\ ScafctlKeychain(d, r) # Anonymous =>
                /\ ScafctlKeychain(d, r).source = "store"
                /\ \E i \in 1 .. Len(AuthKeys(r)) : ScafctlKeychain(d, r).for = AuthKeys(r)[i]
           /\ DockerKeychain(d, r) # Anonymous =>
                /\ DockerKeychain(d, r).source = "docker" /\ DockerKeychain(d, r).for = r
           /\ HostKeychain(s, d, r, broker).source \in {"broker", "anonymous", "failed"}
           /\ HostKeychain(s, d, r, broker).source = "broker" =>
                HostKeychain(s, d, r, broker).handler = Handler(s, d, r)
<1>1. Anonymous.source = "anonymous" /\ Failed.source = "failed"
  BY DEF Anonymous, Failed
<1>2. /\ HostKeychain(s, d, r, broker).source \in {"broker", "anonymous", "failed"}
      /\ HostKeychain(s, d, r, broker).source = "broker" =>
           HostKeychain(s, d, r, broker).handler = Handler(s, d, r)
  BY <1>1 DEF HostKeychain
<1>3. StaticKeychain(s, r) # Anonymous =>
         /\ StaticKeychain(s, r).source = "settings"
         /\ StaticKeychain(s, r).for = s.password
  BY DEF StaticKeychain
<1>4. DockerKeychain(d, r) # Anonymous =>
         DockerKeychain(d, r).source = "docker" /\ DockerKeychain(d, r).for = r
  BY DEF DockerKeychain
<1>5. QED  BY <1>2, <1>3, <1>4, StoreCredential

LEMMA ResolvedIsOne ==
    ASSUME NEW s, NEW d, NEW r, NEW broker
    PROVE  LET c == Resolve(s, d, r, broker) IN
           \/ c = StaticKeychain(s, r) /\ c # Anonymous /\ c.source = "settings"
           \/ c = ScafctlKeychain(d, r) /\ c # Anonymous /\ c.source = "store"
           \/ c = DockerKeychain(d, r) /\ c # Anonymous /\ c.source = "docker"
           \/ c = HostKeychain(s, d, r, broker)
              /\ c.source \in {"broker", "anonymous", "failed"}
<1> DEFINE c == Resolve(s, d, r, broker)
<1>1. CASE c = StaticKeychain(s, r) /\ c # Anonymous
  BY <1>1, SourceOfEach
<1>2. CASE c = ScafctlKeychain(d, r) /\ c # Anonymous
  BY <1>2, SourceOfEach
<1>3. CASE c = DockerKeychain(d, r) /\ c # Anonymous
  BY <1>3, SourceOfEach
<1>4. CASE c = HostKeychain(s, d, r, broker)
  BY <1>4, SourceOfEach
<1>5. QED  BY <1>1, <1>2, <1>3, <1>4, ResolveInOrder

-----------------------------------------------------------------------------
(* The credential of a request is what the keychain made of the settings   *)
(* that were read, all of them, and of the disk and the broker it saw.     *)
CredentialInv ==
    /\ in \in Inputs
    /\ pc \in {"idle", "reading", "signer"} => ~HasResolved
    /\ pc \in {"signer", "resolve", "attempt", "answered"} => DOMAIN got = FieldNames
    /\ HasResolved =>
         /\ DOMAIN got = FieldNames
         /\ credential = Resolve(got, resolved.disk, in.ref, resolved.broker)

LEMMA CredentialInvInit == Init => CredentialInv
BY DEF Init, CredentialInv, HasResolved

LEMMA CredentialInvNext == CredentialInv /\ [Next]_vars => CredentialInv'
<1> SUFFICES ASSUME CredentialInv, [Next]_vars PROVE CredentialInv'
  OBVIOUS
<1> USE DEF CredentialInv, HasResolved
<1>1. CASE ExecuteSign
  BY <1>1 DEF ExecuteSign
<1>2. CASE ReadField
  BY <1>2 DEF ReadField
<1>3. CASE BuildSigner
  BY <1>3 DEF BuildSigner
<1>4. CASE ResolveCredential
  <2>1. PICK broker \in Brokers :
          /\ credential' = Resolve(got, disk, in.ref, broker)
          /\ resolved' = [disk |-> disk, broker |-> broker]
    BY <1>4 DEF ResolveCredential
  <2>2. resolved'.disk = disk /\ resolved'.broker = broker
    BY <2>1
  <2>3. credential' = Resolve(got, resolved'.disk, in.ref, resolved'.broker)
    BY <2>1, <2>2
  <2>4. pc = "resolve" /\ pc' \in {"failed", "attempt"} /\ got' = got /\ in' = in
    BY <1>4 DEF ResolveCredential, Requesting
  <2>5. QED  BY <2>3, <2>4
<1>5. CASE Attempt
  BY <1>5 DEF Attempt
<1>6. CASE Continue
  BY <1>6 DEF Continue
<1>7. CASE UNCHANGED call
  BY <1>7 DEF call
<1>8. QED
  BY <1>1, <1>2, <1>3, <1>4, <1>5, <1>6, <1>7
     DEF Next, ConfigureProvider, StoreField, Login, vars

(* What the host configured as a whole has a password for its registry.    *)
Paired(s) == s.registry # "" /\ s.password # "" => s.password = s.registry
PairedInv ==
    /\ pending # <<>> => pending[1] \in Settings
    /\ Paired(configured) /\ Paired(began)

LEMMA PairedInvInit == Init => PairedInv
<1> SUFFICES ASSUME Init PROVE PairedInv
  OBVIOUS
<1>1. "registry" \in FieldNames
  BY FieldList DEF Fields
<1>2. configured.registry = "" /\ began = configured
  BY <1>1 DEF Init, Default
<1>3. QED  BY <1>2 DEF Init, PairedInv, Paired

LEMMA PairedInvNext == PairedInv /\ [Next]_vars => PairedInv'
<1> SUFFICES ASSUME PairedInv, [Next]_vars PROVE PairedInv'
  OBVIOUS
<1>1. ASSUME NEW s \in Settings, ConfigureProvider(s) PROVE PairedInv'
  BY <1>1 DEF ConfigureProvider, PairedInv, call
<1>2. CASE StoreField
  <2>1. pending # <<>> /\ began' = began
    BY <1>2 DEF StoreField, call
  <2>2. CASE UNCHANGED <<pending, configured>>
    BY <2>1, <2>2 DEF PairedInv
  <2>3. CASE /\ pending' = <<>>
             /\ configured' = [g \in FieldNames |->
                    IF g \in DOMAIN pending[1] THEN pending[1][g] ELSE Default(g)]
    <3>1. "registry" \in FieldNames /\ "password" \in FieldNames
      BY FieldList DEF Fields
    <3>2. pending[1] \in Settings
      BY <2>1 DEF PairedInv
    <3>3. Paired(configured')
      BY <2>3, <3>1, <3>2, SettingsAssumption DEF Paired, Default
    <3>4. QED  BY <2>1, <2>3, <3>3 DEF PairedInv
  <2>4. QED  BY <1>2, <2>2, <2>3 DEF StoreField
<1>3. CASE ExecuteSign
  BY <1>3 DEF ExecuteSign, PairedInv, plugin
<1>4. CASE UNCHANGED <<pending, configured, began>>
  BY <1>4 DEF PairedInv
<1>5. QED
  BY <1>1, <1>2, <1>3, <1>4
     DEF Next, Login, ReadField, BuildSigner, ResolveCredential, Attempt, Continue,
         vars, plugin, call

LEMMA AlwaysSettings == Spec => [](SettingsInv /\ CredentialInv /\ PairedInv)
BY SettingsInvInit, SettingsInvNext, CredentialInvInit, CredentialInvNext,
   PairedInvInit, PairedInvNext, PTL DEF Spec

LEMMA AuthKeyNames ==
    ASSUME NEW r
    PROVE  LET names == {AuthKeys(r)[i] : i \in 1 .. Len(AuthKeys(r))} IN
           r \in names /\ (r = Hub => HubAliases[1] \in names)
BY AuthKeysAre

(* The handler that the broker is asked for is the one configured, the one *)
(* the registry is known by or mapped to, or the registry itself.          *)
LEMMA HandlerIs ==
    ASSUME NEW s, NEW d, NEW r
    PROVE  \/ Handler(s, d, r) = s.authHandler
           \/ s.authHandler = "" /\ r \in DOMAIN Known /\ Handler(s, d, r) = Known[r]
           \/ s.authHandler = "" /\ r \notin DOMAIN Known
              /\ \/ Handler(s, d, r) = r
                 \/ \E a \in Apps : /\ r \in DOMAIN d.config[a]
                                    /\ Handler(s, d, r) = d.config[a][r].handler
<1>1. CASE s.authHandler # "" \/ r \in DOMAIN Known
  BY <1>1 DEF Handler
<1>2. CASE s.authHandler = "" /\ r \notin DOMAIN Known
  <2>1. Handler(s, d, r) = IF Mapping(d, r).handler # "" THEN Mapping(d, r).handler ELSE r
    BY <1>2 DEF Handler
  <2>2. \/ Mapping(d, r).handler = ""
        \/ \E a \in Apps : r \in DOMAIN d.config[a]
                           /\ Mapping(d, r).handler = d.config[a][r].handler
    BY DEF Mapping, Apps
  <2>3. QED  BY <1>2, <2>1, <2>2
<1>3. QED  BY <1>1, <1>2

(* A request carries a login for its registry, or a token of the handler   *)
(* that goes with it (auth.go:38-54, 180-271), whatever is on disk and     *)
(* whoever changes it.                                                     *)
THEOREM CredentialIsAlwaysForTheRegistry == Spec => []CredentialIsForTheRegistry
<1>1. SettingsInv /\ CredentialInv /\ PairedInv => CredentialIsForTheRegistry
  <2> SUFFICES ASSUME SettingsInv, CredentialInv, PairedInv, HasResolved
               PROVE  CredentialIsForTheRegistry
    BY DEF CredentialIsForTheRegistry
  <2> DEFINE c == credential
             r == in.ref
             d == resolved.disk
             names == {AuthKeys(r)[i] : i \in 1 .. Len(AuthKeys(r))}
  <2>1. c = Resolve(got, d, r, resolved.broker) /\ DOMAIN got = FieldNames
    BY DEF CredentialInv
  <2>2. ASSUME c.source = "settings", ~overlapped PROVE c.for \in names
    <3>1. StaticKeychain(got, r) # Anonymous /\ c = StaticKeychain(got, r)
      BY <2>1, <2>2, ResolvedIsOne
    <3>2. /\ c.for = got.password /\ got.password # "" /\ got.registry # ""
          /\ r = got.registry \/ (r = Hub /\ got.registry = HubAliases[1])
      BY <3>1, SourceOfEach DEF StaticKeychain, Explicit
    <3>3. "registry" \in FieldNames /\ "password" \in FieldNames
      BY FieldList DEF Fields
    <3>4. got.password = got.registry
      BY <2>1, <2>2, <3>2, <3>3 DEF SettingsInv, PairedInv, Paired
    <3>5. QED  BY <3>2, <3>4, AuthKeyNames
  <2>3. ASSUME c.source \in {"store", "docker"} PROVE c.for \in names
    <3>1. \/ ScafctlKeychain(d, r) # Anonymous /\ c = ScafctlKeychain(d, r)
          \/ DockerKeychain(d, r) # Anonymous /\ c = DockerKeychain(d, r)
      BY <2>1, <2>3, ResolvedIsOne
    <3>2. c.for = r \/ \E i \in 1 .. Len(AuthKeys(r)) : c.for = AuthKeys(r)[i]
      BY <3>1, SourceOfEach
    <3>3. QED  BY <3>2, AuthKeyNames
  <2>4. ASSUME c.source = "broker" PROVE c.handler = Handler(got, d, r)
    <3>1. c = HostKeychain(got, d, r, resolved.broker)
      BY <2>1, <2>4, ResolvedIsOne
    <3>2. QED  BY <2>4, <3>1, SourceOfEach
  <2>5. ASSUME c.source = "broker"
        PROVE  \/ c.handler = got.authHandler
               \/ got.authHandler = "" /\ r \in DOMAIN Known /\ c.handler = Known[r]
               \/ got.authHandler = "" /\ r \notin DOMAIN Known
                  /\ \/ c.handler = r
                     \/ \E a \in Apps : /\ r \in DOMAIN d.config[a]
                                        /\ c.handler = d.config[a][r].handler
    <3> DEFINE h == Handler(got, d, r)
    <3>1. c.handler = h
      BY <2>4, <2>5
    <3>2. CASE h = got.authHandler
      BY <3>1, <3>2
    <3>3. CASE got.authHandler = "" /\ r \in DOMAIN Known /\ h = Known[r]
      BY <3>1, <3>3
    <3>4. ASSUME got.authHandler = "", r \notin DOMAIN Known,
                 \/ h = r
                 \/ \E a \in Apps : r \in DOMAIN d.config[a] /\ h = d.config[a][r].handler
          PROVE  \/ c.handler = r
                 \/ \E a \in Apps : /\ r \in DOMAIN d.config[a]
                                    /\ c.handler = d.config[a][r].handler
      <4> HIDE DEF h
      <4> QED  BY <3>1, <3>4
    <3>5. \/ h = got.authHandler
          \/ got.authHandler = "" /\ r \in DOMAIN Known /\ h = Known[r]
          \/ got.authHandler = "" /\ r \notin DOMAIN Known
             /\ \/ h = r
                \/ \E a \in Apps : r \in DOMAIN d.config[a] /\ h = d.config[a][r].handler
      <4> HIDE DEF r, d
      <4> QED  BY HandlerIs
    <3>6. QED  BY <3>2, <3>3, <3>4, <3>5
  <2>6. QED  BY <2>2, <2>3, <2>5 DEF CredentialIsForTheRegistry
<1>2. QED  BY <1>1, AlwaysSettings, PTL

(* The sources are asked in the documented order, and the failure of the   *)
(* last stops no request that another has a login for (README.md:43-49).   *)
THEOREM AlwaysDocumentedOrder == Spec => []DocumentedOrder
<1>1. CredentialInv => DocumentedOrder
  <2> SUFFICES ASSUME CredentialInv, HasResolved PROVE DocumentedOrder
    BY DEF DocumentedOrder
  <2> DEFINE r == in.ref
             d == resolved.disk
  <2>1. credential = Resolve(got, d, r, resolved.broker) /\ r # ""
    BY InputsAssumption, HostsAssumption DEF CredentialInv
  <2>2. StaticKeychain(got, r) # Anonymous <=> Configured(r)
    BY <2>1, HostsAssumption DEF StaticKeychain, Explicit, Configured, Anonymous
  <2>3. DockerKeychain(d, r) # Anonymous <=> r \in d.docker
    BY DEF DockerKeychain, Anonymous
  <2>4. ScafctlKeychain(d, r) # Anonymous <=> Stored(d, r)
    BY StoreCredential
  <2>5. CASE Configured(r)
    <3>1. credential = StaticKeychain(got, r) /\ StaticKeychain(got, r) # Anonymous
      BY <2>1, <2>2, <2>5, ResolveInOrder
    <3>2. credential.source = "settings"
      BY <3>1 DEF StaticKeychain
    <3>3. QED  BY <2>5, <3>2 DEF DocumentedOrder
  <2>6. CASE ~Configured(r) /\ Stored(d, r)
    <3>1. credential = ScafctlKeychain(d, r) /\ ScafctlKeychain(d, r) # Anonymous
      BY <2>1, <2>2, <2>4, <2>6, ResolveInOrder
    <3>2. credential.source = "store"
      BY <3>1, SourceOfEach
    <3>3. QED  BY <2>6, <3>2 DEF DocumentedOrder
  <2>7. CASE ~Configured(r) /\ ~Stored(d, r) /\ r \in d.docker
    <3>1. credential = DockerKeychain(d, r) /\ DockerKeychain(d, r) # Anonymous
      BY <2>1, <2>2, <2>3, <2>4, <2>7, ResolveInOrder
    <3>2. credential.source = "docker"
      BY <3>1, SourceOfEach
    <3>3. QED  BY <2>7, <3>2 DEF DocumentedOrder
  <2>8. CASE ~Configured(r) /\ ~Stored(d, r) /\ r \notin d.docker
    <3>1. credential.source \in {"broker", "anonymous", "failed"}
      BY <2>1, <2>2, <2>3, <2>4, <2>8, ResolveInOrder, SourceOfEach
    <3>2. QED  BY <2>8, <3>1 DEF DocumentedOrder
  <2>9. QED  BY <2>5, <2>6, <2>7, <2>8
<1>2. QED  BY <1>1, AlwaysSettings, PTL

(* Where a handler or a scope is configured, a refusal of the broker is no *)
(* reason to go on anonymously (auth.go:112-117).                          *)
THEOREM BrokerFailureAlwaysSurfaces == Spec => []BrokerFailureSurfaces
<1>1. CredentialInv => BrokerFailureSurfaces
  <2> SUFFICES ASSUME CredentialInv, HasResolved, credential = Anonymous,
                      resolved.broker = "refuses", got.authHandler # "" \/ got.scope # ""
               PROVE  got.authHandler = "" /\ in.ref \in DOMAIN Known /\ Known[in.ref] = ""
    BY DEF BrokerFailureSurfaces
  <2> DEFINE r == in.ref
             d == resolved.disk
  <2>1. credential = Resolve(got, d, r, resolved.broker)
    BY DEF CredentialInv
  <2>2. HostKeychain(got, d, r, resolved.broker) = Anonymous
    BY <2>1, ResolveInOrder
  <2>3. Handler(got, d, r) = ""
    BY <2>2 DEF HostKeychain, MustSurface, Anonymous, Failed
  <2>4. r # ""
    BY InputsAssumption, HostsAssumption DEF CredentialInv
  <2>5. QED  BY <2>3, <2>4 DEF Handler
<1>2. QED  BY <1>1, AlwaysSettings, PTL

-----------------------------------------------------------------------------
(* What an input asks for, of any input.                                   *)
Asked(raw) == IF raw.kind = "map" THEN Count(raw.attempts) ELSE Count(raw)
Wait(raw) ==
    IF raw.kind # "map" THEN Second
    ELSE LET b == raw.backoff IN
         IF b = Absent THEN Second ELSE IF b.kind = "duration" THEN b.ns ELSE b.n * Second
HasCap(raw) == raw.kind = "map" /\ raw.maxBackoff # Absent

LEMMA IntBounds ==
    /\ MaxInt \in Nat /\ MaxInt >= 3 /\ MinInt \in Int /\ MinInt <= 0 /\ Ints \subseteq Int
    /\ \A n \in Int : n \in Ints <=> MinInt <= n /\ n <= MaxInt
    /\ Second \in Nat /\ Second > 0
BY IntsAssumption DEF Ints, MinInt

(* Arithmetic wraps to an int, and leaves an int as it is.                 *)
LEMMA WrapIsInt ==
    ASSUME NEW n \in Int
    PROVE  Wrap(n) \in Ints /\ (n \in Ints => Wrap(n) = n)
<1> DEFINE x == n - MinInt
           K == MaxInt - MinInt + 1
<1>1. x \in Int /\ K \in Nat /\ K > 0 /\ K = MaxInt - MinInt + 1 /\ n = x + MinInt
  BY IntBounds
<1>2. n \in Ints => x \in Nat /\ x < K
  BY IntBounds
<1>3. Wrap(n) = (x % K) + MinInt
  BY DEF Wrap
<1> HIDE DEF x, K
<1>4. x % K \in 0 .. K - 1
  BY <1>1
<1>5. x \in Nat /\ x < K => x % K = x
  BY <1>1
<1>6. QED  BY <1>1, <1>2, <1>3, <1>4, <1>5, IntBounds

(* The attempts that an option of a attempts comes to.                     *)
Steps(a) == IF a <= 0 THEN 3 ELSE a

(* A conversion to an int gives as many attempts as the value asks for, or *)
(* fewer where that is more than an int holds.                             *)
LEMMA ToIntCount ==
    ASSUME NEW v, IsValue(v), NEW a \in ToInt(v)
    PROVE  /\ a \in Int /\ Count(v) \in Nat /\ Steps(a) <= Count(v)
           /\ Count(v) <= MaxInt => Steps(a) = Count(v)
<1>1. v.kind \in {"int", "text"} \/ (v.kind = "float" /\ v.whole)
  BY DEF ToInt
<1>2. v.n \in Int
  <2>1. Absent.kind = "absent"
    BY DEF Absent
  <2>2. QED  BY <1>1, <2>1 DEF IsValue
<1>3. Count(v) = IF v.n > 0 THEN v.n ELSE 3
  BY <1>1 DEF Count
<1>4. \/ a = v.n /\ v.n \in Ints
      \/ v.n = MaxInt + 1 /\ a \in {MinInt, MaxInt}
  BY <1>1 DEF ToInt
<1>5. QED  BY <1>2, <1>3, <1>4, IntBounds DEF Steps

LEMMA ToDurationWait ==
    ASSUME NEW v, IsValue(v), v # Absent, NEW b \in ToDuration(v)
    PROVE  LET w == IF v.kind = "duration" THEN v.ns ELSE v.n * Second IN
           b \in Int /\ (w \in Ints => b = w)
<1>1. CASE v.kind = "duration"
  BY <1>1, IntBounds DEF ToDuration, IsValue
<1>2. CASE v.kind = "int"
  <2>1. v.n \in Int /\ v.n * Second \in Int
    BY <1>2, IntBounds DEF IsValue
  <2>2. b = Wrap(v.n * Second)
    BY <1>2 DEF ToDuration
  <2>3. QED  BY <1>2, <2>1, <2>2, WrapIsInt, IntBounds
<1>3. CASE v.kind = "float"
  <2>1. v.n * Second \in Int
    <3>1. Absent.kind = "absent"
      BY DEF Absent
    <3>2. v.n \in Int
      BY <1>3, <3>1 DEF IsValue
    <3>3. QED  BY <3>2, IntBounds
  <2>2. ToDuration(v) = IF v.n * Second \in Ints THEN {v.n * Second} ELSE {MinInt, MaxInt}
    BY <1>3 DEF ToDuration
  <2>3. QED  BY <1>3, <2>1, <2>2, IntBounds
<1>4. QED  BY <1>1, <1>2, <1>3 DEF ToDuration

(* A backoff with attempts left. *)
Backoffs == [steps : Nat \ {0}, duration : Int, cap : Int]

LEMMA OptionEffective ==
    ASSUME NEW a \in Int, NEW b \in Int, NEW m \in Int
    PROVE  LET o == Option(a, b, m)  e == Effective(o) IN
           /\ e \in Backoffs /\ e.steps = Steps(a)
           /\ o # NoOption => e.duration = b /\ e.cap = m
<1>1. CASE a <= 0
  BY <1>1, IntBounds DEF Option, Effective, Steps, Backoffs
<1>2. CASE a > 0
  <2>1. Option(a, b, m) = [steps |-> a, duration |-> b, cap |-> m]
    BY <1>2 DEF Option
  <2>2. Option(a, b, m) # NoOption
    BY <1>2, <2>1 DEF NoOption
  <2>3. QED  BY <1>2, <2>1, <2>2 DEF Effective, Steps, Backoffs
<1>3. QED  BY <1>1, <1>2

(* Every option that parseRetry makes of an input asks for what the input  *)
(* asks for, and is capped only if that is.                                *)
AsAsked(raw, o) ==
    LET e == Effective(o) IN
    /\ e \in Backoffs
    /\ Asked(raw) \in Nat /\ e.steps <= Asked(raw)
    /\ Asked(raw) <= MaxInt => e.steps = Asked(raw)
    /\ ~HasCap(raw) => e.cap = 0
    /\ o # NoOption /\ Wait(raw) \in Ints => e.duration = Wait(raw)

LEMMA ParsedAsAsked ==
    ASSUME NEW raw, IsRetry(raw), NEW o \in ParseRetry(raw)
    PROVE  AsAsked(raw, o)
<1>1. Absent.kind = "absent" /\ Count(Absent) = 3
  BY DEF Absent, Count
<1>2. ASSUME NEW a \in Int, NEW b \in Int, NEW m \in Int, o = Option(a, b, m),
             Asked(raw) \in Nat, Steps(a) <= Asked(raw),
             Asked(raw) <= MaxInt => Steps(a) = Asked(raw),
             ~HasCap(raw) => m = 0, Wait(raw) \in Ints => b = Wait(raw)
      PROVE  AsAsked(raw, o)
  <2>1. Effective(o).steps = Steps(a) /\ Effective(o) \in Backoffs
    BY <1>2, OptionEffective
  <2>2. CASE o # NoOption
    <3>1. Effective(o).duration = b /\ Effective(o).cap = m
      BY <1>2, <2>2, OptionEffective
    <3>2. QED  BY <1>2, <2>1, <3>1 DEF AsAsked
  <2>3. CASE o = NoOption
    <3>1. Effective(o).duration = Second /\ Effective(o).cap = 0
      BY <2>3 DEF Effective
    <3>2. QED  BY <1>2, <2>1, <2>3, <3>1, IntBounds DEF AsAsked
  <2>4. QED  BY <2>2, <2>3
<1>3. Option(0, Second, 0) = NoOption
  BY DEF Option
<1>4. CASE raw = Absent \/ raw.kind = "bool"
  <2>1. Asked(raw) = 3 /\ ~HasCap(raw) /\ Wait(raw) = Second /\ raw.kind # "map"
    BY <1>1, <1>4 DEF Asked, HasCap, Wait, Count
  <2>2. o = Option(0, Second, 0) \/ o = Option(3, Second, 0)
    BY <1>3, <1>4 DEF ParseRetry
  <2>3. PICK a \in {0, 3} : o = Option(a, Second, 0)
    BY <2>2
  <2>4. Steps(a) = 3
    BY DEF Steps
  <2>5. QED  BY <1>2, <2>1, <2>3, <2>4, IntBounds
<1>5. CASE raw # Absent /\ raw.kind \notin {"bool", "map"}
  <2>1. PICK a \in ToInt(raw) : o = Option(a, Second, 0)
    BY <1>5 DEF ParseRetry
  <2>2. Asked(raw) = Count(raw) /\ ~HasCap(raw) /\ Wait(raw) = Second
    BY <1>5 DEF Asked, HasCap, Wait
  <2>3. QED  BY <1>2, <2>1, <2>2, ToIntCount, IntBounds DEF IsRetry
<1>6. CASE raw # Absent /\ raw.kind = "map"
  <2>1. IsValue(raw.attempts) /\ IsValue(raw.backoff) /\ IsValue(raw.maxBackoff)
    BY <1>6 DEF IsRetry
  <2>2. PICK a \in IF raw.attempts = Absent THEN {3} ELSE ToInt(raw.attempts),
             b \in IF raw.backoff = Absent THEN {Second} ELSE ToDuration(raw.backoff),
             m \in IF raw.maxBackoff = Absent THEN {0} ELSE ToDuration(raw.maxBackoff) :
             o = Option(a, b, m)
    BY <1>6 DEF ParseRetry
  <2>3. /\ a \in Int /\ Count(raw.attempts) \in Nat /\ Steps(a) <= Count(raw.attempts)
        /\ Count(raw.attempts) <= MaxInt => Steps(a) = Count(raw.attempts)
    <3>1. CASE raw.attempts = Absent
      BY <1>1, <2>2, <3>1 DEF Steps
    <3>2. CASE raw.attempts # Absent
      BY <2>1, <2>2, <3>2, ToIntCount
    <3>3. QED  BY <3>1, <3>2
  <2>4. b \in Int /\ (Wait(raw) \in Ints => b = Wait(raw))
    <3>1. CASE raw.backoff = Absent
      BY <1>6, <2>2, <3>1, IntBounds DEF Wait
    <3>2. CASE raw.backoff # Absent
      BY <1>6, <2>1, <2>2, <3>2, ToDurationWait DEF Wait
    <3>3. QED  BY <3>1, <3>2
  <2>5. m \in Int /\ (~HasCap(raw) => m = 0)
    <3>1. CASE raw.maxBackoff = Absent
      BY <2>2, <3>1
    <3>2. CASE raw.maxBackoff # Absent
      BY <1>6, <2>1, <2>2, <3>2, ToDurationWait DEF HasCap
    <3>3. QED  BY <3>1, <3>2
  <2>6. Asked(raw) = Count(raw.attempts)
    BY <1>6 DEF Asked
  <2>7. QED  BY <1>2, <2>2, <2>3, <2>4, <2>5, <2>6
<1>7. QED  BY <1>4, <1>5, <1>6

(* A request stays within the attempts of its option; those made and those *)
(* left are all of them unless a cap ends it early.                        *)
RetryInv ==
    /\ in \in Inputs /\ request \in Nat /\ made \in Nat
    /\ pc \notin {"idle", "failed"} \/ request > 0 => retry \in ParseRetry(in.retry)
    /\ retry = NoOption \/ retry \in ParseRetry(in.retry)
    /\ pc \in {"idle", "reading", "signer", "resolve"} => made = 0 /\ answer = "none"
    /\ pc \in {"attempt", "answered"} \/ answer = "retryable" => request > 0
    /\ made <= Effective(retry).steps
    /\ pc = "attempt" =>
         /\ left \in Backoffs /\ left.cap = Effective(retry).cap
         /\ made + left.steps <= Effective(retry).steps
         /\ Effective(retry).cap = 0 => made + left.steps = Effective(retry).steps
         /\ made = 0 => left = Effective(retry)
    /\ pc = "failed" /\ answer = "retryable" /\ Effective(retry).cap = 0 =>
         made = Effective(retry).steps

LEMMA RetryInvInit == Init => RetryInv
BY DEF Init, RetryInv, NoOption, Effective

LEMMA RetryInvNext == RetryInv /\ [Next]_vars => RetryInv'
<1> SUFFICES ASSUME RetryInv, [Next]_vars PROVE RetryInv'
  OBVIOUS
<1> DEFINE e == Effective(retry)
<1>1. /\ in \in Inputs /\ request \in Nat /\ made \in Nat /\ made <= e.steps
  BY DEF RetryInv
<1>2. ASSUME NEW o, o = NoOption \/ o \in ParseRetry(in.retry)
      PROVE  Effective(o) \in Backoffs
  <2>1. CASE o = NoOption
    BY <2>1, IntBounds DEF Effective, Backoffs
  <2>2. CASE o \in ParseRetry(in.retry)
    BY <1>1, <2>2, ParsedAsAsked, InputsAssumption DEF AsAsked
  <2>3. QED  BY <1>2, <2>1, <2>2
<1>3. e \in Backoffs /\ e.steps \in Nat \ {0} /\ e.cap \in Int
  <2>1. e \in Backoffs
    BY <1>2 DEF RetryInv
  <2>2. QED  BY <2>1 DEF Backoffs
<1>4. CASE ExecuteSign
  <2>1. /\ pc = "idle" /\ made = 0 /\ answer = "none" /\ UNCHANGED <<in, request, made, answer>>
        /\ \/ pc' = "failed" /\ retry' = retry
           \/ pc' = "reading" /\ retry' \in ParseRetry(in.retry)
    BY <1>4 DEF ExecuteSign, RetryInv
  <2>2. Effective(retry').steps \in Nat
    BY <1>2, <1>3, <2>1 DEF Backoffs
  <2>3. QED  BY <1>1, <2>1, <2>2 DEF RetryInv
<1>5. CASE ReadField \/ BuildSigner
  <2>1. /\ pc \in {"reading", "signer"} /\ pc' \in {"reading", "signer", "resolve", "failed"}
        /\ UNCHANGED <<in, request, made, answer, retry>>
    BY <1>5 DEF ReadField, BuildSigner
  <2>2. QED  BY <2>1 DEF RetryInv
<1>6. CASE ResolveCredential
  <2>1. /\ pc = "resolve" /\ pc' \in {"failed", "attempt"} /\ request' = request + 1
        /\ left' = e /\ made' = 0 /\ answer' = "none" /\ UNCHANGED <<in, retry>>
    BY <1>6 DEF ResolveCredential, Requesting
  <2>2. QED  BY <1>1, <1>3, <2>1 DEF RetryInv
<1>7. CASE Attempt
  <2>1. /\ pc = "attempt" /\ made' = made + 1 /\ UNCHANGED <<in, retry, request>>
        /\ left \in Backoffs /\ left.cap = e.cap
        /\ made + left.steps <= e.steps /\ (e.cap = 0 => made + left.steps = e.steps)
        /\ left.steps \in Nat \ {0} /\ left.duration \in Int
        /\ left = [steps |-> left.steps, duration |-> left.duration, cap |-> left.cap]
    BY <1>7 DEF Attempt, RetryInv, Backoffs
  <2>2. made' \in Nat /\ made' <= e.steps
    BY <1>1, <1>3, <2>1
  <2>3. CASE pc' \in {"answered", "failed"} /\ answer' # "retryable"
    BY <2>1, <2>2, <2>3 DEF RetryInv
  <2>4. CASE /\ answer' = "retryable" /\ left' = StepBackoff(left)
             /\ pc' = IF left.steps = 1 \/ left'.steps = 0 THEN "failed" ELSE "attempt"
    <3>1. CASE left.cap > 0 /\ 2 * left.duration > left.cap
      <4>1. left' = [left EXCEPT !.steps = 0, !.duration = left.cap]
        BY <2>4, <3>1 DEF StepBackoff
      <4>2. e.cap # 0
        BY <1>3, <2>1, <3>1
      <4>3. pc' = "failed"
        <5>1. left'.steps = 0
          BY <2>1, <4>1
        <5>2. QED  BY <2>4, <5>1
      <4>4. QED  BY <2>1, <2>2, <2>4, <4>2, <4>3 DEF RetryInv
    <3>2. CASE ~(left.cap > 0 /\ 2 * left.duration > left.cap)
      <4>1. left' = [left EXCEPT !.steps = left.steps - 1, !.duration = 2 * left.duration]
        BY <2>4, <3>2 DEF StepBackoff
      <4>2. CASE left.steps = 1
        <5>1. pc' = "failed" /\ (e.cap = 0 => made' = e.steps)
          BY <1>1, <1>3, <2>1, <2>4, <4>2
        <5>2. QED  BY <2>1, <2>2, <2>4, <5>1 DEF RetryInv
      <4>3. CASE left.steps # 1
        <5>1. left' = [steps |-> left.steps - 1, duration |-> 2 * left.duration,
                       cap |-> left.cap]
          BY <2>1, <4>1
        <5>2. pc' = "attempt"
          BY <2>1, <2>4, <4>3, <5>1
        <5>3. left' \in Backoffs
          BY <2>1, <4>3, <5>1 DEF Backoffs
        <5>4. /\ made' + left'.steps = made + left.steps /\ made' # 0
          BY <1>1, <2>1, <5>1
        <5>5. QED  BY <2>1, <2>2, <2>4, <5>1, <5>2, <5>3, <5>4 DEF RetryInv
      <4>4. QED  BY <4>2, <4>3
    <3>3. QED  BY <3>1, <3>2
  <2>5. QED  BY <1>7, <2>3, <2>4 DEF Attempt
<1>8. CASE Continue
  <2>1. /\ pc = "answered" /\ pc' \in {"ok", "resolve"} /\ made' = 0 /\ answer' = "none"
        /\ UNCHANGED <<in, retry, request>>
    BY <1>8 DEF Continue
  <2>2. QED  BY <1>3, <2>1 DEF RetryInv
<1>9. CASE UNCHANGED call
  BY <1>9 DEF call, RetryInv
<1>10. QED
  BY <1>4, <1>5, <1>6, <1>7, <1>8, <1>9 DEF Next, ConfigureProvider, StoreField, Login, vars

(* A request is tried as often as the input asks, less often only with a   *)
(* maxBackoff, and first waits as long as asked (helpers.go:20-27), for    *)
(* any width of an integer that holds the default.                         *)
THEOREM AlwaysRetriesAsAsked == Spec => []RetriesAsAsked
<1>1. RetryInv => RetriesAsAsked
  <2> SUFFICES ASSUME RetryInv PROVE RetriesAsAsked
    OBVIOUS
  <2> DEFINE e == Effective(retry)
  <2>1. /\ AskedAttempts = Asked(in.retry) /\ AskedWait = Wait(in.retry)
        /\ Capped <=> HasCap(in.retry)
    BY DEF AskedAttempts, Asked, AskedWait, Wait, Capped, HasCap
  <2>2. request > 0 => AsAsked(in.retry, retry)
    BY ParsedAsAsked, InputsAssumption DEF RetryInv
  <2>3. made \in Nat /\ made <= e.steps
    BY DEF RetryInv
  <2>4. request > 0 => made <= AskedAttempts
    BY <2>1, <2>2, <2>3 DEF AsAsked, Backoffs
  <2>5. ASSUME pc = "failed", answer = "retryable", ~Capped, AskedAttempts <= MaxInt
        PROVE  made = AskedAttempts
    BY <2>1, <2>2, <2>5 DEF RetryInv, AsAsked
  <2>6. ASSUME pc = "attempt", made = 0, retry # NoOption, AskedWait \in Ints
        PROVE  left.duration = AskedWait
    BY <2>1, <2>2, <2>6 DEF RetryInv, AsAsked
  <2>7. QED  BY <2>4, <2>5, <2>6 DEF RetriesAsAsked
<1>2. QED  BY <1>1, RetryInvInit, RetryInvNext, PTL DEF Spec
=============================================================================
