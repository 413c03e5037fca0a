# A verification project for scafctl-plugin-cosign

The plugin signs OCI artifacts (`sign`), signs files (`sign-blob`) and verifies
file signatures (`verify-blob`) in-process, with the sigstore libraries. This
directory holds TLA+ models of it, the TLC runs that check them on small
instances, and proofs that TLAPS checks for all instances.

## 1. Inventory

| Component | Code | State it keeps | Operations | Interacts with |
|---|---|---|---|---|
| sign | `sign.go` | none of its own; writes the registry and Rekor | `executeSign`, `signOne`, the two lookups | registry, Rekor, Fulcio, OIDC, keychain |
| sign / sign-blob inputs | `sign.go:456-569`, `signblob.go:240-280`, `kms.go` | none | `parseSignIdentity`, `parseSignConfig`, `parseSignBlobConfig`, `validateKeyRef` | read by sign, sign-blob and the dry run |
| dry run | `provider.go:117-296` | none | `DescribeWhatIf` | reads the same input as the parsers |
| sign-blob | `signblob.go` | output files, Rekor | `executeSignBlob`, `writeBlobBundle` | file system, Rekor, Fulcio |
| verify-blob | `verifyblob.go` | one temporary file per call | `executeVerifyBlob` and its loaders | file system, Rekor, TUF |
| OIDC token | `sign.go:375-454` | none | `buildSigner`, `oidcToken` | ambient provider, host broker, Fulcio |
| credentials | `auth.go` | none (reads config files, asks the host) | `buildKeychain`, the three keychains | docker and scafctl config, host broker |
| configuration | `provider.go:36-49, 461-478` | registry, username, password, authHandler, scope, insecure | `ConfigureProvider`, `StopProvider` | read by every operation |
| retry, coercion | `helpers.go:25-85, 147-243` | none | `parseRetry`, `toInt`, `toDuration`, `toBool` | options of every registry request |
| error hints | `helpers.go:89-145` | none | `mapRegistryError` | words errors |

The host calls operations concurrently; the code has no lock and shares nothing
between calls but the configuration, so calls meet in what they write: the
registry, the log and the file system, and in the configuration. What is hard
here:

* **sign** is a chain of requests to three services without a transaction. It
  resolves the reference twice; in legacy mode it reads the `.sig` image, adds a
  layer and puts the image back; it recognises its artifact afterwards by the
  payload; requests are retried; a recursive call can fail half way.
  *Correct means*: success implies a stored signature for every reported digest;
  the log entry comes before the signature is visible; a failed call leaves a
  prefix; signing again with one key does not stack; the output describes what
  was signed.
* **sign-blob** writes up to three files after logging, none atomically.
  *Correct means*: the files are complete and of one signature on success, a
  prefix on failure, and the digest is that of the signed bytes.
* **inputs and dry run** are two independent readings of one map.
  *Correct means*: they agree, nothing is published unannounced, no key
  reference reaches an external program, and a verification without a key pins
  both an identity and an issuer.
* **verify-blob** reads the blob, the certificate, the signature and the bundle
  one after the other, while signing calls may be truncating and replacing them.
  *Correct means*: what is accepted has been signed by the pinned signer and,
  unless `ignore_tlog` is set, logged; what sign-blob wrote is accepted; the
  temporary copy of an inline blob does not stay.
* **credentials** come from four sources and from files with several names.
  *Correct means*: the documented order, no credential of another registry, and
  an error of a configured broker is an error.
* **configuration** is stored field by field, without a lock. *Correct means*: an
  operation that no reconfiguration overlaps sees one configuration, whole.
* **retry** turns untyped numbers into attempts and nanoseconds. *Correct means*:
  as many attempts as asked, at the limits of the integers too.

`PROJECT.json` lists each hazard at its line.

## 2. Modules

| Module | What it is |
|---|---|
| `SignOp` | the sign operation: calls, registry, log, tags |
| `SignProperties` | its type invariant, safety, action and liveness properties |
| `MCSignOp` | instances for TLC |
| `Attestation` | the abstract specification of signing |
| `SignRefinement`, `MCSignRefinement` | the refinement mapping from SignOp, and its instance |
| `SignProofs` | types, success, no stacking, log first |
| `SignOrderProofs` | prefix of the walk, log entries, results |
| `SignSerialProofs` | the legacy mode of a host that runs one call at a time |
| `SignRefinementProofs` | SignOp implements Attestation |
| `SignInput`, `MCSignInput`, `SignInputProofs` | parsers and dry run of all three operations |
| `BlobFiles` | what sign-blob leaves and verify-blob finds: signatures, files, entries |
| `SignBlob`, `SignBlobProofs` | the sign-blob operation with its file system and log |
| `VerifyBlob` | the verify-blob operation, over the same |
| `BlobPipeline`, `MCBlobPipeline`, `BlobPipelineProofs` | both together |
| `Keychain`, `Retry` | the credential of a request, the `retry` input (definitions) |
| `RegistryAccess`, `MCRegistryAccess`, `RegistryAccessProofs` | configuration, identity, credentials and attempts of an operation |

### SignOp

`pc[c]` is the place of call `c` in `executeSign`:

```
idle -ExecuteSign-> parsed -BuildSigner-> signer -Resolve-> resolved -FetchEntity-> walking
walking -UploadToRekor-> logged -ReadSignatures-> based        (with tlogUpload)
walking -ReadSignatures-> based                                (without)
based -WriteSignatures | WriteReferrer-> written -LookupSignature-> walking
walking -Return-> ok         any place -Fail-> failed
```

| Variable | In the code |
|---|---|
| `cfg[c]` | `signConfig`; `key = Keyless` is an ephemeral key with a Fulcio certificate |
| `desc[c]` | the descriptor of `remote.Get` (148), reported as `digest` |
| `subjects[c]` | the manifests `walk.SignedEntity` will visit, from the second request (161) |
| `results[c]` | `results`, one `signResult` per signed manifest |
| `entry[c]`, `base[c]`, `attempt[c]` | log index, signatures read by the lazy `Signatures()`, attempts of the write |
| `tags`, `sigTag`, `referrers` | the registry: tags, `.sig` images, signature manifests by subject |
| `tlog` | the entries of Rekor, in order |

Abstractions. Digests are contents: two artifacts have one digest iff they are
equal. A signature carries its key, its payload, its bytes (by the call and the
ordinal of the subject, because ECDSA signing is randomised) and its log index.
A certificate is part of the key, an ephemeral key belongs to one call. The
signing itself is local and part of the exchange that follows it; a KMS that
refuses is `Fail`. The listing of referrers is unordered and any of its entries
may be unreadable, so the lookup may answer with any referrer that carries the
payload, or fail. A request that is lost is retried or fails the call, before or
after it took effect. The registry supports the referrers API and deletes
nothing. What the libraries do (the dupe detector, the walk, reading the `.sig`
image at the time of the write, the repetition of a write in `AfterPut`) is
external to this repository and modelled as the code, its comments and its tests
rely on it. An entry that Rekor returns has an index and a verification, as its
API promises: that `sign.go:259-274` carries on without the one that is missing is
not modelled, nor that sign-blob does.

### SignInput

One state per input; `DescribeWhatIf` and `ExecuteProvider` happen in any order.
Fields are abstracted to the cases the code distinguishes (absent, true, false
or not a boolean; empty or not; the scheme classes of `validateKeyRef`, against
what sigstore does with each, `Resolver`; modes before normalisation). That
sigstore probes for a program of the scheme of an `env://` or `http(s)://`
reference before it falls back to its own loader is a residual `kms.go:42-49`
accepts; `NeverShellsOut` leaves it out. `files` holds what a call writes and, in
the dry run, what it announces: all but `output_certificate`
(`provider.go:190-201`), the exception that `WhatIfAgrees` names (`Unannounced`).

### SignBlob

`os.WriteFile` is `OpenOutput` (truncates) then `WriteOutput`: a write over what
another call has put into the file meanwhile may leave a mixture (`Torn`). A
failed write leaves `Torn` or `Empty` behind. `left[c]` holds the outputs still
to be written, in the order of the code. A call that dies is a call that fails:
only files and log survive either.

### VerifyBlob and BlobPipeline

`vpc[v]` (`pc` in `VerifyBlob`) is the place of a verification in
`executeVerifyBlob`; every file is read by an action of its own:

```
idle -ExecuteVerifyBlob-> parsed [-WriteTempBlob-> copied] -ReadBlob-> read
read -LoadVerifier-> verifier                   (certificate file, keys, roots)
verifier -LoadSignature-> signature -LoadLegacyBundle-> loaded         (legacy)
verifier -LoadSigstoreBundle-> loaded                                (sigstore)
loaded -VerifyBlobSignature | VerifyNewBundle-> returning -Return-> done
any place -Fail-> returning     any place -Killed-> killed
```

`Accepts` is the decision: certificate (the bundle's before the given one),
trust anchor (one set of `setLegacyVerifyTrust` replaces the next), the timestamp
of a CT log embedded in the certificate, identity, signature over the digest, log
entry (from the bundle, else asked of Rekor). On the legacy path the keys for the
timestamp and for the entry are those the TUF client has, whatever the anchor
(`verifyblob.go:120-126, 276-281`): `Distributed` is the set of authorities whose
CT log, with `Rekor` if its key, is among them (`KeysAtHand`). A trusted root has, with
its authority, the keys of that authority's CT log and of the log. The
code reports one kind of error; the model tells `rejected`, which files, log and
input decide, from `failed`, a fault of the environment, so that a property can
say when a verification must not be rejected. Certificates live ten minutes;
without a log entry to date the signature they are compared with the clock, which
makes a rejection possible (`MayHaveExpired`).

`BlobPipeline` runs both operations over one file system and one log. `Begin`
starts a verification; an inline signature is one that an earlier call returned,
or is wrong. `began` remembers which signing calls had succeeded then.

Abstractions. A torn file parses as nothing. Reading a file is atomic, as files
are small; a reader between truncating and writing sees the empty file.
`os.Remove` of the temporary copy succeeds. A signature made outside the two
operations is not in the model; `Garbage` stands for what is nobody's: inline it
may not be base64, which `LoadSignature` refuses, or decode, and then the decision
refuses it. There is one log, `Rekor`. The environment variables by which the
sigstore clients take keys from a file instead of TUF are part of what
`Distributed` stands for.

### Keychain, Retry and RegistryAccess

`RegistryAccess` follows one operation from `parseRetry` through `ReadField` (six
reads), `BuildSigner` and a number of requests, each of which resolves its
credential (`Keychain`, from the settings, the files as they are then, and the
broker's answer) and is attempted (`Attempt`) as `Retry` says. Meanwhile
`ConfigureProvider` stores its six fields in six steps (`StoreField`) and somebody
logs in or out (`Login`). `configured`, `began`, `overlapped` and `resolved` are
history, for the properties.

A password is abstracted to the registry it is for, so that "the wrong one is
sent" can be said. The resolution of one credential is atomic. Unreadable files
are empty; so is a malformed `~/.docker/config.json`, with which
`authn.DefaultKeychain` would fail the request rather than send it without that
source. The host completes one `ConfigureProvider` before the next. In
`Retry`, an `int` and a `time.Duration` hold what lies between `MinInt` and
`MaxInt` and wrap around; where Go leaves a conversion to the platform, an
operator returns the set of results platforms have. The retry loop and the
backoff are go-containerregistry's.

### Seeded bugs

An operator `BUG_...` stands before the definition it corrupts. No specification
uses it. Each property of a passing run is violated when the definition is
replaced by one of them (`mutants` in `PROJECT.json`), which shows that the
property depends on that code.

## 3. Runs

| Run | Instance | Shows |
|---|---|---|
| `sign_refines` | 2 calls, default mode | `SuccessIsSigned`, `LoggedBeforeStored`, `SignedInOrder`, `LoggedIsStored`, `ReportedIsReferrer`, `TypeOK`, and that SignOp implements Attestation |
| `sign_mixed` | 2 calls, both modes, fair | oci-1-1 promises survive legacy calls; `NoStackedSignatures`; `EveryCallReturns` |
| `sign_legacy_serial` | 2 calls one after the other, legacy | nothing is lost, the read-back is the call's own |
| `sign_inputs` | nearly all inputs of the three operations (`MCInputs`) | the parsers and the dry run agree, nothing runs unpinned or shells out |
| `blob_pipeline` | 2 signing calls, 1 verification, 4 files | outputs complete, in order, logged, of one digest; only what the pinned signer signed and logged is accepted; what was written verifies, if the keys are at hand; no temporary file stays |
| `registry_access` | 1 operation, 2 reconfigurations, 1 login | whole configuration, credentials, order, errors, identity first, attempts |

Bounds. *Signing*: an index with one image below it, one tag, two keys and the
ephemeral ones, two annotation values, two attempts. Two calls are enough for
what is checked: each property relates one call to what the others do to shared
state, and each way to disturb it (overwrite between read and write, answer of
another key, entry in between, moved tag) takes one other call. One image below
the index gives the walk a first, a second and a last element.

*Pipeline*: two contents, one blob, one key and two ephemeral keys, two
authorities; signing inputs with files of their own and with files they share.
Of the pairs of inputs only those are explored that have to do with each other
(`Related`), and no state after the end of the verification
(`VerificationAhead`): what signing does then it can also do before the
verification begins. The contents are symmetric. Both signers are certified by the
public authority, so that only the identity tells them apart; a signer of the
private one, whose keys are not distributed, is in `private_anchors`, and in the
theorem.

*Access*: integers of 4 bits (`MaxInt = 7`) and a second of 2 ns reach every limit and overflow
of `Retry`; three registries (one unknown, one with a known handler, Docker's);
four disks that put a login into each place and under each name; two settings
maps besides the empty one, two requests. Retry inputs are told apart only
without configuration and logins (`RetriesAlone`), identities only with empty
files (`IdentitiesAlone`); they do not depend on each other.

Between them the runs fire each action, and each way it can end. TLC reports no
deadlock in signing as tags and blobs may always be moved; that calls do not wait
for each other is `EveryCallReturns`. The runs of `SignInput` and
`RegistryAccess` do stop, when the operation has returned and the bounds are
reached, and say `CHECK_DEADLOCK FALSE`.

Fairness (`FairSpec`): weak fairness of each started call's steps. The transport
and the host's context bound each exchange, and Go schedules every goroutine; the
attempts are bounded by `MaxAttempts`. Nothing makes the host call, or anyone
push.

### Disagreements

Runs that are expected to violate one property, which a comment or a document
claims:

* `sign_digest_moves`: `sign.go:146-147` says the digest resolved there is what
  gets signed. The reference is resolved again at 161; if the tag moves between,
  the output's `digest` was not signed. A digest reference is not affected.
* `sign_readback_key`: `sign.go:322-323` says matching on the payload is correct
  with additional keys. The payload does not depend on the key: the second key's
  call may report the first key's referrer. No concurrency is needed.
* `sign_readback_lost`: `sign.go:346-347` says the lookup verifies that our layer
  is present. Of two overlapping legacy calls with different keys one signature
  is lost, and both calls succeed.
* `bundle_verified`: `provider.go:437` says the output tells whether the log's
  bundle was verified; on the sigstore path it is true on every success, also
  with `ignore_tlog` and no entry (`verifyblob.go:212`).
* `private_anchors`: `README.md:199` tells private deployments to pass `ca_roots`
  or `certificate_chain` instead of sigstore's public trust material, and the
  error at `verifyblob.go:268` repeats it. They replace the roots only; the CT log
  keys are always the TUF client's (276-281), and nothing like
  `fulcio_insecure_skip_verify` exists for verification. The certificate of an
  authority whose CT log is not in the public root, which `provider.go:370` has in
  mind, passes the roots and is refused for its timestamp.
* `store_shadow`: `auth.go:212, 387` speak of the credential stores of both
  scafctl and cldctl; the first `registries.json` with any entry hides the other
  (`auth.go:227`).

Met while modelling, and part of the models, without a run:

* `.github/instructions/scafctl-provider.instructions.md:65` wants the dry run to
  describe what the execution would do. It announces an upload whenever
  `rekor_url` is set (`provider.go:153-155, 202-204`), also with
  `tlog_upload: false`, and never announces `output_certificate`
  (`provider.go:190-201`). The other directions are `UploadsWereAnnounced` and
  `WhatIfAgrees`.
* Without `ignore_tlog` the legacy path takes Rekor's keys from the TUF client, too
  (`verifyblob.go:120-126`): the entry of a private log is refused, also with a
  key (`ServicesKnown`).
* `provider.go:260-261` promises the errors of the execution; the dry run of sign
  does not look at `tlog_upload`, nor any at the Fulcio flag (`WhatIfErrorsAgree`
  leaves these out).
* On the sigstore path a separate `certificate` or `signature` is not used and
  not refused; the dry run of verify-blob announces the check of `rekor_url`,
  which that path does not make.
* `username` and `password` without `registry` are ignored.
* `loadRegistriesConfig` prefers scafctl, `lookupRegistryHandler` prefers cldctl.
* `oidcToken` passes `scope` without the handler's default, and the setting also
  affects sign-blob (`README.md:27` says sign only).
* `retry: 0` and `retry: false` leave the default of three attempts in force.
  `helpers_test.go:25` calls that "disables", which holds for the option only.
* 2^63 as a float, and long durations, overflow in `toInt` and `toDuration`.
* `maxBackoff` makes the library give up the attempts that are left.
* A reconfiguration during an operation can pair the password of one
  configuration with the registry of another.

## 4. Proofs

**Signing.** From the constant assumptions in `SignOp` alone: the walk of a
manifest starts with the manifest, inputs are validated, at least one attempt, an
ephemeral key is nobody else's.

* `SignProofs!TypeCorrect`. `TypeOK` is not inductive: a call writes for
  `subjects[c][n]`, which exists only because a call in `logged`, `based` or
  `written` has a manifest pending. `Progress` says so.
* `SuccessIsSignedAlways`. Strengthened to `SignedSoFar`: every manifest before
  the current one is signed, and the current one is, once written. It is kept
  because referrers only grow (`ReferrersGrow`), hence a signed manifest stays
  signed (`SignedStays`), and because what is written always holds a signature
  by the key, new or repeated (`AttachedIsSigned`).
* `NeverStacked`. A write replaces the image by a version read earlier, so the
  invariant has to cover every version a call holds in `base`, too.
* `AlwaysLoggedFirst`. Covers the signatures in the registry, in `base` and the
  one about to be written; the log only grows (`LoggedStays`).
* `AlwaysSignedInOrder`. `Placed`: the ordinal in a stored signature is that of a
  manifest its call has reached, and the signature is stored there. With
  `SignedSoFar`, the manifests before that one are signed.
* `LoggedIsAlwaysStored`. `UploadedBy`: the entry of the current manifest is the
  one the call holds, and it is stored before the call moves on, as a new
  signature or, since an entry is of one signature only (`LogInv`), as the equal
  one that was read.
* `ReportedIsAlwaysReferrer`. Referrers only grow.
* `LegacyTagAlwaysGrows`, `LegacySuccessIsSignedAlways`, `LegacyReadBackIsOwn`,
  for calls that do not overlap. `SerialInv`: what is in the image of the manifest
  that a call has read is in what it will put there, as nobody else writes in
  between (`OthersWait`). The last one also assumes that all inputs are legacy.
* `SignImplementsAttestation` (default mode, `ReferrersOnly`): each step makes a
  claim in the order of the walk, commits, begins, ends or is invisible.

**Files.** From `NamesAssumption`, `KeysAssumption`, `InputsAssumption`, and for
verification `VerifyInputsAssumption` and `AuthoritiesAssumption`.

* `SignBlobProofs`: types, `DigestIsAlwaysOfSignedBytes`,
  `AlwaysLoggedBeforeWritten`. The invariant `Inv` says that all that is visible
  outside a call, in a file or in the log, is of a signature that is `Made` and
  will not be made again, and that the log only grows.
* `SuccessIsAlwaysComplete`, `FailureAlwaysLeavesPrefix`. `Kept`, of a call whose
  files are its own: what it has written is there, precedes what it has not, and
  the latter's paths hold nothing, an empty or a torn file.
* `BlobPipelineProofs`: the composition implements `SignBlob` (`PipelineSigns`),
  so `Inv` holds of it. What a verification has loaded is of a signature somebody
  made, at any later time; hence what it accepts is `Justified`
  (`AcceptedWasAlwaysSigned`, `AcceptedWasAlwaysLogged`). `OwnInv` is about the
  call alone (`GivenCertificateDecides`, `TempsAreAlwaysRemoved`).
* `SignedAlwaysVerifies`, the other direction. A call that has returned success
  has ended (`EndedStays`), so by `Kept` its files hold its outputs at every later
  reading (`ReturnedOutputs`). `OutputInv`: a verification that began after it and
  reads only those files has, stage by stage, exactly its certificate, signature
  and entry (`Gathered`), no reading turns it away (`OutputRead`), and the decision
  is yes if the blob is the one signed (`OutputIsAccepted`). `ServicesKnown` is the
  one condition beyond that: on the legacy path the keys of the CT log and of Rekor
  have to be `Distributed`. It cannot be dropped: the run `private_anchors` refutes
  the statement without it. The invariant says
  nothing of an inline signature before a bundle replaces it: that one is the
  input's, and is the call's if it says so, since it is `Held`.

**Inputs.** From `InputsAssumption`: an input has the fields of its operation, each
in one of the cases the code distinguishes. The run leaves out combinations that
would be too many (the flags that only one operation reads, the kinds of keys
treated alike, an absent reference or path); the theorems hold for all of them.
`InputInv` says that what was parsed and described is `Outcome` and `DryRun` of
the input; the rest is about these functions, one lemma for each operation.

* `NoOperationShellsOut`, by what `validateKeyRef` lets through;
  `EveryUploadWasAnnounced`; `DryRunsAgree`, with the certificate file as the named
  exception; `DryRunErrorsAgree`;
  `EveryVerifierIsPinned`, on which the pipeline's `VerifyInputsAssumption` rests.

**Access.**

* `AlwaysWholeConfiguration`. `StoredSoFar`: the fields up to the last one stored
  are those of the pending settings, so between two `ConfigureProvider` they are
  the last one's; an operation that none overlapped runs between two.
* `IdentityAlwaysFirst`. No request before, or after failing to get, a signer.
* `CredentialIsAlwaysForTheRegistry`, `AlwaysDocumentedOrder`,
  `BrokerFailureAlwaysSurfaces`. `CredentialInv`: the credential of a request is
  what `Resolve` makes of the settings read and of `resolved`, the files and the
  broker at that moment, which are not those of now. That the keychain returns the
  first credential there is (`FirstIsOffered`, `ResolveInOrder`) rests on
  `LeastExists`, that a set of positions has a least one, by the well-foundedness
  of the naturals. `PairedInv` carries `SettingsAssumption` from the input to the
  fields.
* `AlwaysRetriesAsAsked`. `ParsedAsAsked` is about `parseRetry` alone: whatever the
  platform does, the attempts are those asked for or, beyond `MaxInt`, fewer, and
  a wait that fits is not altered by wrapping (`WrapIsInt`, `ToDurationWait`).
  `RetryInv` adds that the attempts made and those left are together the attempts
  of the option, unless a `maxBackoff` drops some.

What they assume: `HostsAssumption` (the names of Docker's hub are two, it needs
no handler, file lists are finite), `SettingsAssumption` (a password is of the
registry it is configured with, which gives "for" its meaning: the code stores it
unseen), `InputsAssumption` (a reference names a registry, a `retry` value is of
the types that decoding gives), `IntsAssumption` (the default of three is an
`int`). None is about settings being read in one piece, or files not changing.

Each invariant that a passing run checks is a theorem. Only model-checked:
`EveryCallReturns`, as liveness is, like `ENABLED`, out of the prover's reach; that
the disagreements of section 3 happen; and that the `BUG_` operators are caught.

## 5. Not modelled

* Schemas and descriptor are data, `mapRegistryError` and its hints are wording.
* `ExtractDependencies` is a function of the input that nothing here reads;
  `StopProvider` and streaming do nothing.
* `coerceStringMap`, beyond whether it accepts the annotations: their values are
  only compared.
* A registry without the referrers API, where the client keeps a fallback tag up
  to date: that code is the library's.
* Fulcio, TUF and KMS other than as a step that succeeds or fails; the
  cryptography.

What is left to do: `began` and `Exclusive` make `SignedAlwaysVerifies` one about
calls in sequence and files of one's own; nothing is stated of a verification that
overlaps the signing of its own input beyond `AcceptedWasSigned`. The `.sig`
images of overlapping legacy calls have theorems for the serial host only. No
property covers an ambient identity whose error is lost when the configured
handler takes over (`sign.go:424`).
