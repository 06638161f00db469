# goauthy in TLA+

goauthy is an OAuth 2.0 / OpenID Connect provider whose whole state lives in a
replicated SQL store (rhiza). Every node serves every request; there are no
locks across nodes. What keeps the system correct is therefore in the
statements: conditional `UPDATE`s, guards repeated inside a batch, idempotent
request IDs, leases, and the order of statements within a batch. This directory
models that part of the program, checks it with TLC and proves most of its
safety properties with TLAPS.

## 1. Inventory

| Part | State | Operations | What is hard |
|---|---|---|---|
| OAuth grant storage (`internal/oauth/grant_storage.go`) | codes, PKCE rows, access tokens (two tables), refresh tokens, request IDs | issue, exchange, rotate, revoke, reuse detection | a call reads, computes claims, then commits a batch: everything may have changed; answers are lost |
| Browser sessions (`internal/browser`) | `browser_sessions` | create, reauthenticate, revoke, expire, sweep | a session ends while codes are being issued from it |
| Logout (`internal/rbac`, `internal/identity/login_revoke.go`, `internal/oauth/upstream_logout.go`, `internal/identity/account_expiry.go`) | session/client and user/client associations, deliveries | RP logout, session delete, forced, global, upstream logout, login revocation, account expiry | deliveries must be selected before what they are selected from is deleted |
| Accounts and clients (`internal/identity`, `internal/clients`) | enabled flag, principal revision; client state, generation, revision | update, delete, password reset; update, secret rotation, delete | tokens computed under an old policy |
| Back-channel worker (`internal/backchannel`) | delivery rows with attempts, lease and outcome | claim, post, complete | several workers, crashes, overrun leases, lost answers |
| Device grant (`internal/device`, `internal/oauth/device_grant.go`) | `oauth_device_grants` | create, approve, deny, poll/claim, issue, release, owner revocation | claim taken over while the old claimant's batch is in flight |
| Backup schedule (`internal/backupschedule`) | lease key, completion watermark | pick, acquire, run, mark, renew, release | cooperative lease, paused holders, ambiguous writes |
| Signing in (`internal/login`, `internal/browser`, `internal/passkey`, `internal/recovery/otp.go`) | interactions, init sessions, one-time codes and their bindings, passkey ceremonies, credential generations | password, mailed code, passkey and upstream login; review by a fresh login; change of credentials | a login is several requests and many batches; password, policy and parent session change in between |
| SCIM outbox (`internal/scim`, `internal/identity/scim.go`, `cmd/goauthy/scim.go`) | outbox rows, tombstones, remote-id mappings | list, queue, claim, reconcile, acknowledge, dead-letter, sweep | a pass queues what it listed earlier; a user changes or is deleted during an attempt |
| SaaS credentials (`internal/saas`, `internal/authcollection`) | connection, credential with generation and claim, authorization requests, use grants, handoffs | connect, refresh, revoke, reconnect, consent, deliver | refresh tokens are single use at a provider whose answer may be lost |
| Master keys (`internal/storage/master_key_retirement.go`, `cmd/goauthy`) | barrier, attestations, generations, envelopes, cookie retention | prepare, fence, attest, ready, abort, rewrap, remove | a key is deleted for ever; writers and browsers may still hold envelopes under it |
| Signing keys (`internal/oidc`) | `oidc_signing_keys` | publish, activate, retire, clean up, sign | passes work with the time they read at the start; verifiers cache key sets |
| DPoP replay, upstream transactions, lockouts, mail outbox, DCR, roles and API keys, notifications | own tables | see `PROJECT.json` | not modelled, see section 6 |
| Pages, branding, API documentation, metrics, archives, command line | none of the above | | presentation and I/O, not modelled |

The parts meet in the tables: a logout writes the tables the token endpoint's
batches are guarded by, and enqueues the rows the worker reads. `storage.Execute`
(`internal/storage/migrate.go`) is the only way to write: a batch is atomic, a
failed row-count precondition rolls it back, a repeated request ID is not
executed again, and the caller may not learn whether it was committed.

`PROJECT.json` lists the hazards with their lines and the properties that watch
them.

## 2. Modules

| Module | Role |
|---|---|
| `OAuthGrants` | sessions, users, clients, grants and token-endpoint calls |
| `GrantLifecycle` | abstract promise of one grant: issued, redeemed once, handed from attempt to attempt, dead for ever |
| `OAuthGrantsProofs` | theorems about `OAuthGrants`, and that it implements `GrantLifecycle` |
| `BackchannelWorker` | workers over the delivery table |
| `DeviceGrant`, `DeviceGrantProofs` | device codes, claims and device issuance, and theorems |
| `BackupSchedule` | backup lease and watermark |
| `LeaseProofs` | theorems about `BackupSchedule` and `BackchannelWorker` |
| `SignIn`, `SignInProofs` | HTTP requests that prove factors, consume interactions and create or replace sessions, and theorems |
| `ScimOutbox`, `ScimOutboxProofs` | reconciliation of a user and a group with a SCIM provider, and theorems |
| `SaasCredential`, `SaasCredentialProofs` | the credential of one connection and the consents to use it, and theorems |
| `MasterKeys`, `MasterKeysProofs` | retirement of master keys against writers, rewraps, cookies and restarts, and theorems |
| `SigningKeys`, `SigningKeysProofs` | rotation of the token signing key, and theorems |
| `MC*` | instances for TLC |

### OAuthGrants

A *grant* is an authorization code together with everything that descends from
it (one fosite request ID). An *attempt* is one call of the token or revocation
endpoint; the tokens it writes carry its name, so a token is identified by the
call that minted it. State: `sess`, `user`, `client`; per grant `code`, `pkce`,
`used` (`used_attempt`); per token `access` (`oauth_access_tokens`), `tokenReq`
(`oauth_token_requests`), `refresh`, `rotated` (`rotated_attempt`);
associations and deliveries; `receipts` (request IDs of fixed name that have
been executed); per call its program counter and what it has read. `ended`,
`announced` and `minted` are history variables used by properties only.

Each batch is one action. A call is split exactly where the code leaves the
store: `BeginCode`/`BeginRefresh` (read, claims), `CommitCode`/`CommitRefresh`
(batch), `VerifyCommit` (the query after the batch), `Respond`. Reuse detection
and the revocation endpoint are two separate mutations each in fosite, and so
they are here (marked external in the map). A batch has three outcomes: rolled
back, committed, committed with the answer lost.

Abstractions: time is a set of things that have expired; secrets, scopes,
claims and DPoP are left out, and of audiences all but that a change of them
moves the client's generation; operator authority is assumed; a
principal's revision stands for its roles and groups. The barrier that keeps a
last administrator enabled is not modelled: the model allows more updates than
the code.

### BackchannelWorker

A *step* is one execution of `Worker.Step`: candidate read (possibly stale),
conditional claim, linearizable read of the winner, POST, conditional outcome.
A step can crash anywhere, its lease can lapse under it, and each answer can be
lost, up to `MaxWorkerFaults` times. HTTP is the choice of `ok`, `retry`,
`permanent`.

### DeviceGrant

A *call* is one poll; it stands for its random claim token. `LoadApproved`,
`Claim`, `ReadClaim` are `Poll` and the checks of the grant handler,
`ReadPrincipal`/`Reject` the token handler before issuance, `SendBatch` the
moment `Commit` reads its clock, `Commit` the batch. The clock is read before
the batch is applied, so a claim may lapse and be taken over in between: only
the comparison of the claim token protects the grant then. Expiry and leases
are the sets `expired` and `lapsed`. Polls of grants that are not approved only
move the polling interval, which is not modelled; nor are the quota and the
page. `LogoutAllSessions` keeps decided grants, as the code's comment says.
Access and refresh tokens of a device are one `family`.

### BackupSchedule

A node's name stands for its current lease token, `Stale` for a token nobody
uses any more. `Overrun` is the time to live passing under a paused holder,
`Cancel` a renewal not proved successful or the attempt's deadline. The next
slot of the cron expression is the next tick of `clock`.

### SignIn

A *call* is one HTTP request; the session, mailed code or ceremony it creates is
named after it. A call reads and commits in the steps of the handlers, and one
that never takes its next step has crashed. A login is several calls: the
password form leaves a one-time code and its binding (one per init session) or
a passkey ceremony, which another call answers. Every local path meets in
`FinishAuthentication` (the request is resolved again and the MFA policy applied), then
`ConsumeInteraction`, then one of three ways to create the session. `scenario`
is chosen once: two authorization requests of a client in one or two init
sessions, or two reviews of the session `Parent`. `account` holds the password
generation, the generation of the authentication mode and the version of the
one passkey. The code marks a session that was replaced like one that was
logged out; the model keeps the two apart (`replaced`, `revoked`) as history of
what ended the session first, and `Retire` writes only to a live row, as the
`UPDATE` does.

Reads that are made again later are merged: `LoginPassword` loads the
interaction, the request and the passkeys at once, because
`FinishAuthentication` resolves the request again. An upstream login without an
OIDC session leaves no binding and answers no review.

Abstractions: the freshness of `auth_time` in a review is left out, so the
model admits more answers than the code; accounts stay enabled (disabling and deleting are in
`OAuthGrants` and `DeviceGrant`); nothing expires; lockouts, rate limits other
than that of mailed codes, the peer address, passkey registration and code
issue are left out; what a code or an assertion proves is a choice of TLC's.
A passkey of a password account is usable without a password only with the
passwordless cookie, which the model grants to everybody.

### ScimOutbox

One provider, one user, one group, two replicas. A pass lists users, tombstones
and groups one after the other, queues what it saw, drains the queue and
sweeps; an attempt claims, reads back, looks up, changes and records, each a
step. The provider is a remote user with an id of its own and a group. Retry
delays are left out, retention may have passed for any finished row, and a
lease lapses only after its attempt is over or dead, because `Outbox.valid`
demands a request timeout below the lease. The drain's limit of 64 jobs is above
the two rows of the model. The look-up of a member's mapping is merged with the
batch that queues the group.

An acknowledged row says what the provider holds: the content of the group, the
user's projection with a mapping to it, or, for a delete, no remote user and no
mapping. The tombstone of a deleted user outlives the remote user even when the
delete was given up, because the sweep asks for a delete that succeeded.

### SaasCredential

Callbacks, refreshes and deliveries are processes with one step per statement
or exchange. The provider replaces its refresh token at each refresh and
accepts an authorization code once. An exchange can fail, succeed, or succeed with the answer
lost; a completion can be applied late (`LateCompletion`, a batch that
`storage.Execute` gave up on). Administration (definition, provider, consumer,
owner) moves generations under the running calls.

### MasterKeys

Stored secrets are rows with a sealing key and a content revision; the envelope
families differ only in their tables, and one rewrap statement
(`signingKeyRewrapMutation`) stands for those of all families. Browsers hold cookies until they expire.
Nodes restart with other key files and other cookie lifetimes. `keyring` is
what a node can open; the removal takes the key from it at once. The worker of a
member inspects and attests again on every tick; preparing, fencing and
completing use the handler's time, which may be `Lag` old when the batch commits.

### SigningKeys

Time is a counter. A pass works with the time it read when it began, and its
batches commit at most `MaxDelay` later; a signer signs at most `MaxDelay` after
it loaded the key. Verifiers may use a key set for `CacheAge`.

## 3. Runs

| Run | Instance | Distinct states | Checks |
|---|---|---|---|
| `oauth_races` | 1 session, 1 client, 1 grant, 3 calls | 332 k | LogoutIsFinal, RevocationIsFinal, OneChain, SingleUse, ImplementsLifecycle |
| `oauth_sessions` | 2 sessions and clients, 2 grants, 2 calls, one expiry | 897 k | TokenTablesAgree, EveryRPNotified |
| `oauth_policy` | 1 grant, 2 calls, 2 revisions | 1.54 M | TypeOK, MintUnderCurrentPolicy |
| `backchannel` | 1 delivery, 3 steps, 3 attempts, 4 faults | 248 k | OneEventAtLimit, DeliveredWasReceived, OutcomeIsFinal, EventuallySettled |
| `device_grant` | 1 device, 2 approvers (one with MFA), 2 polls, 1 revision | 1.59 M | MintOnce, LogoutStopsDevices, TokenNamesApprover |
| `backup` | 2 nodes, 3 slots, 3 faults | 263 k | LeaseProtectsRunner, SuccessOnce, MarkWasBackedUp, WatermarkMonotone, LeaseReturns |
| `scim_outbox` | 2 replicas, 1 user, 1 group, 1 fault | 1.28 M | NoOrphanGroup, AcknowledgedIsApplied, TombstoneIsSettled, DeleteSparesRecreated, ProviderConverges |
| `scim_late_sync` | 2 replicas, 1 new user, no faults | violated | DeletedUserIsDeletedRemotely |
| `saas_credential` | 2 calls, 2 requests, 2 accounts, 1 grant | 1.07 M | NoSecretReuse, ReadyTokenIsLive, DeliveredAccountIsConsented, RevokedStaysRevoked |
| `master_keys` | 1 and 3 members, 2 and 3 keys, 1 row, 2 calls | 5.09 M | StoredSecretsOpen, CookiesOpenUntilExpiry, RewrapKeepsContent |
| `signing_keys` | 3 keys, 2 workers, 1 signer, 9 ticks | 2.59 M | TokensVerifiable, OneActiveKey, PublishedBeforeUse |
| `sign_in` | 2 users, 3 calls, 2 interactions, 1 upstream session, 1 change | 2.04 M | FactorsAreCurrent, OneSessionPerProof, ForcedMFA, LogoutFollowsReplacement |

`scim_late_sync` is expected to be violated; section 5 tells what it shows.

Bounds. Three calls on a grant are an exchange and two calls that race after it
(a rotation against a reuse, a revocation or another rotation). Two sessions
and two clients are needed for a logout that must reach one association and
spare the other. Two revisions let a policy change twice around one call, so
that it could come back to the value that was read if revisions were reused.
Two polls suffice for the take-over of a claim. Three faults let a holder
overrun, a successor crash and a write be lost in one behaviour. Two replicas
are enough for a late attempt of one and a complete pass of the other; a user
and a group that change at most twice include delete and re-creation. Two calls
on a credential are the smallest race; three versions let it be refreshed,
revoked and connected again. Master keys: the scenarios are one member with two
epochs over three keys (chains, aborts, a key that returns), one member with
changing cookie lifetimes, and three members with one epoch; three members are
the only other cluster the code admits. Signing: three keys and nine ticks hold
two activations and the removal of the first key. Signing in: three calls are a
first factor, the request that completes it and a competitor, on two
interactions in one or two browsers; one change falls anywhere between them. A
review is answered by either user, an authorization request by the first alone
(`Signers`), so a mailed code's binding is never replaced by another user's.
Symmetry is used for interchangeable calls, steps, workers and keys in runs
without liveness properties.

Deadlock is checked in the SCIM runs, whose replicas pass for ever. Elsewhere
every call and node has a finite budget, so the models may stop.

Fairness. `BackchannelWorker`: `Run` loops on a ticker until the context ends,
each POST and store call has a timeout, and retry and lease deadlines pass by
the clock; weak fairness on steps and on time is what that gives. Faults are
bounded, so the property says that finitely many faults cannot strand a
delivery. `BackupSchedule`: every attempt has a deadline, every lease mutation
a timeout of a third of the lease, and the store expires keys. `ScimOutbox`:
`scimRuntime.Run` passes on a ticker and each request has a timeout; a lease
ends by the clock. No fairness is assumed elsewhere.

Every property has a mutant of the code, listed in `PROJECT.json`, that breaks
it: a dropped guard, a swapped order, an off-by-one.

## 4. Proofs

Every theorem is about the specification that the runs check, for all values of
the constants that satisfy the `ASSUME` of the module. The inductive invariants
were checked by TLC on the instances of section 3 before they were proved.

| Theorem | Property of a run |
|---|---|
| `OAuthGrantsProofs`: `LogoutSafety`, `RevocationSafety`, `RotationSafety`, `TablesSafety`, `SingleUseSafety`, `NoticeSafety`, `TypeCorrect` | LogoutIsFinal, RevocationIsFinal, OneChain, TokenTablesAgree, SingleUse, EveryRPNotified, TypeOK |
| `OAuthGrantsProofs`: `PolicySafety`, `LifecycleRefinement` | MintUnderCurrentPolicy (action property), ImplementsLifecycle (refinement) |
| `LeaseProofs`: `OneEvent`, `DeliveredReceived`, `FinalOutcome` | OneEventAtLimit, DeliveredWasReceived, OutcomeIsFinal (action property) |
| `DeviceGrantProofs`: `OneMint`, `LogoutReachesDevices`, `MintNamesApprover` | MintOnce, LogoutStopsDevices, TokenNamesApprover |
| `LeaseProofs`: `LeaseSafety`, `ReportSafety`, `MarkSafety`, `WatermarkNeverMovesBack` | LeaseProtectsRunner, SuccessOnce, MarkWasBackedUp, WatermarkMonotone (action property) |
| `SignInProofs`: `CurrentFactors`, `ProofsAreSpentOnce`, `MFAIsForced`, `LogoutReachesReplacements` | FactorsAreCurrent, OneSessionPerProof, ForcedMFA, LogoutFollowsReplacement |
| `SaasCredentialProofs`: `SecretsArePresentedOnce`, `ReadyCredentialWorks`, `DeliveriesAreConsented`, `RevocationIsFinal` | NoSecretReuse, ReadyTokenIsLive, DeliveredAccountIsConsented, RevokedStaysRevoked (action property) |
| `MasterKeysProofs`: `SecretsStayReadable`, `CookiesStayReadable`, `RewrapsKeepContent` | StoredSecretsOpen, CookiesOpenUntilExpiry, RewrapKeepsContent (action property) |
| `ScimOutboxProofs`: `NoGroupIsOrphaned`, `AcknowledgementIsTrue`, `TombstoneOutlivesItsWork`, `RecreatedUserIsSpared` | NoOrphanGroup, AcknowledgedIsApplied, TombstoneIsSettled, DeleteSparesRecreated (action property) |
| `SigningKeysProofs`: `VerificationSafety`, `ActiveKeySafety`, `PublicationSafety` | TokensVerifiable, OneActiveKey, PublishedBeforeUse |

**OAuthGrants**, from `ConstantsAssumption`. None of the safety invariants is
inductive. A commit is harmless only because of what its call knew: the call's
own name is unused until it commits (`FreshCalls`), a stored token implies a
consumed code (`TokensFollowCode`), a call past its read presents a token of its
own grant (`CallsKnow`), an ended session authorizes no code
(`EndedStaysEnded`), and a reuse receipt names an issued token
(`ReceiptsNameTokens`). `IInv` is their conjunction with the type invariant and
four of the properties. `EveryStep` shows that it is kept and that every step is
of one of four kinds: it only takes rights away (`Loses`), writes the tokens of
one call (`Mints`), issues a code, or reads for a new call. The other results
argue over these kinds:

* `SingleUse` from `UseInv`: the mark on a consumed row is never overwritten and
  names a call that wrote its tokens for as long as the row exists. The last
  clause is needed because a rotation whose presented row has expired deletes
  that row and writes no refresh token; its query then finds nothing.
* `EveryRPNotified` from `NotifyInv`: until a revocation batch runs for its
  session, a client that redeemed a code is recorded for the session *and* for
  the user, so whichever table the first batch reads names it. One lemma covers
  the logouts that read the session's clients (`SidNoticeStep`), one those that
  read the user's (`SubNoticeStep`).
* `ImplementsLifecycle`: under `OneChain` a grant has at most one holder, so a
  step of the first kind keeps the holder or ends the grant (`LosingRefines`),
  and a minting step hands the grant to a call that is not yet spent
  (`MintRefines`).

**BackchannelWorker**, in `LeaseProofs` together with `BackupSchedule` (no state in
common; its names carry the prefix `Worker` so that one module can extend both),
from `WorkerAssumption`. A lease is held by a step that works on the
row, only on a pending row below the retry limit (`LeaseInv`); the attempt
counter a step carries is the row's as long as it holds the lease (`StepInv`).
Without the second fact a late completion could skip or repeat the limit.

**DeviceGrant**, from `DeviceAssumption`. A poll that wrote tokens still owns the
claim of its redeemed row (`MintInv`); a claim column names one poll, so there
is one such poll per row. What a poll read with its claim agrees with the row
only while the claim is its own (`CallInv`), which is what the batch compares.

**SignIn**, from `SignInAssumption`. An interaction names the one call that consumed it
(`CallInv`, `SessionInv`), and the mailed code or ceremony of a call that has
passed it is spent, on that call alone (`PassedInv`): the two halves of
`OneSessionPerProof`. `FactorsAreCurrent` needs that generations are never
reused (`AccountInv`). `LogoutFollowsReplacement` needs both halves of the batch that
replaces a session: it wins only while the parent is live, so a parent that a
logout ended stays without replacement, and the new row has the binding of the
old one (`SessionInv`), so a later upstream logout finds it. The assumption that names of init sessions, calls and the
parent are different says that session digests are not reused.

**SaasCredential**, from `SaasAssumption`. `token_version` moves with every
token, so a call that finds the version it read also finds the token it read;
a token is carried by one call at a time, and the stored copy of a carried
token is claimed by that call or out of use (`CarriedOK`, `ApartInv`); a
generation has one account, which every consent of it names (`ConsentInv`).

**MasterKeys**, from `MasterKeysAssumption`: members number one or three, as the
code demands, every member starts with the keys of the scenario, and
`Lag <= Overlap`. A node deletes only retired keys, so it suffices that no row
(`EnvInv`) and no unexpired cookie (`CookieInv`) is under one. For rows: what a
scan saw under the new key stays under it while the epoch is fenced, because
writers are fenced and a rewrap changes only the row it read (`CallInv`,
`AttestInv`). For cookies: those of the old key expire within the recorded
lifetime after the real moment of the fence, which is at most `Lag` after the
recorded one; scans wait for the lifetime and the removal for `Overlap` more.
That is where `Lag <= Overlap` is used; the code does not state it, it holds
when a handler takes no longer than the overlap of the configuration.

**BackupSchedule**, in `LeaseProofs`, from `BackupAssumption`. `SuccessOnce` needs that a slot reported, or about to be, is
at or below the watermark, and that an attempt past its read is for a slot above
the watermark it read: then the compare-and-set can succeed for one attempt of a
slot only.

**SigningKeys**, from `SigningKeysAssumption`. The inductive invariant relates
four clocks: what a pass knows is at most `MaxDelay` old (`PassInv`), at most one
key is pending and, once a node has started, exactly one is active (`RowInv`), a
loaded key was active when it was loaded and is still served (`SignerInv`),
tokens expire before the retirement of their key does (`TokenInv`), and a
pending key was published when its activation time says, up to `MaxDelay`
(`PendingInv`). The margin the proof needs is `2 * MaxDelay <= CacheAge`: one
delay for the pass that retires a key with an old time, one for the signer that
still holds it.

**ScimOutbox**, from `ScimAssumption`: any number of replicas, projections,
attempts, changes and faults. None of the four properties is inductive, because
what an outcome may record depends on what the attempt knew when it was claimed:

* what it carries (`CarryInv`): as long as the lease is its own, the row has the
  request it carries or a higher revision, so the revision that `finishSuccess`
  compares decides whether the row may be called succeeded;
* its lease (`LeaseInv`): an attempt on the group, and one that deletes the user,
  owns its row until the exchange is over, the second under a standing
  tombstone. An attempt that syncs the user does not: deleting the user takes the
  row away from it. That asymmetry is the race of `scim_late_sync`;
* what it found (`FoundInv`): the remote user that a delete looked up is still
  the one it removes, and at the end the provider holds what was sent.

Around them, `GroupInv` says that the row of a deleted group never asks for a
sync and exists while the provider may have the group, `TombInv` that a delete not
yet done belongs to the standing tombstone, and `UserInv` that succeeded rows, the
mapping and the tombstone agree with the provider as long as no sync was
overtaken. Most steps concern one replica; two predicates say what they may do
to another one's attempt: `Undisturbed` (its row is as it was, has a newer request,
or is lost) and `Unsurprised` (the provider and mapping it relies on are unchanged).
One lemma, `UndisturbedAttempt`, then covers every attempt that is not the
actor's. Two results have no run of their own: `OneExchange`, at most one replica
talks to the provider about the group and at most one deletes the user, and
`MappingIsTrue`.

Only model-checked: liveness (EventuallySettled, LeaseReturns,
ProviderConverges), which is out of the proof system's reach, and the finding of
`scim_late_sync`, which is a counterexample. Every other property of a run has a
theorem.

## 5. What the models show of the code

* A committed exchange can be reported as a failure (the answer or the
  verification query is lost); the reverse does not happen.
* Revocations by request ID have fixed request IDs and execute once. This is
  safe because no token of a grant can be written after the first revocation
  (`RevocationIsFinal`).
* Reauthentication and a change of e-mail address revoke session rows without
  touching tokens or associations. A later RP logout of such a session finds it
  revoked and enqueues nothing; an upstream logout still does. `EveryRPNotified`
  is therefore stated for the logouts that end a session.
* A device claim that is never answered is not given back; the grant then waits
  for its 30 second lease, or is already consumed.
* When a backup holder overruns its lease, the slot may end up marked while
  every attempt reports an error; the opposite (two successes) is impossible.

* SCIM, a disagreement with the documentation (`scim_late_sync`):
  `identity/store.go:732` and the README say that a deleted user is deleted at
  the provider. A sync claimed before the deletion may reach the provider after
  another replica has reconciled the deletion there; the remote user is then
  created again and nothing is left that would delete it. Other properties of
  `ScimOutbox` hold up to this race, which they name (`overtaken`).
* Master keys: the scan that a member attests to and the rewrap workers cover
  the same families. `scim/config_store.go` seals bearer tokens under the master
  key too and is covered by neither, although `oidc/key_status.go:44` speaks of
  every durable envelope family; its writer `PutClientConfig` has no caller, so
  the model has no such row. That a handler's time may be older than its batch
  (`Lag`) is absorbed only by the overlap period.
* Signing keys: `rotation.go:217` is true up to the duration of the pass that
  published the key, and the margin above is a property of the deployment, not
  something the code enforces.
* Sign-in: the policy is applied when the request is resolved again, before the
  interaction is consumed; a client that demands MFA from then on may still get
  one session without it. A ceremony begun after a password step carries no
  password generation, so a password change does not stop it (a conversion
  deletes it). An upstream login that is in progress when its upstream logout
  arrives creates a session that logout does not reach. Relying parties of a
  replaced session stay associated with the old session; an upstream logout
  still tells them, because the binding of a replaced session is kept.

## 6. Plan and what is not modelled

Next, in this order:

1. Token exchange and the password grant in `OAuthGrants`; its deliveries
   composed with `BackchannelWorker`.
2. Account disabling and passkey registration in `SignIn`.

Not modelled, with the reason:

* Rendering, parsing and cryptography (pages, cron expressions, JOSE, WebAuthn
  assertions, archive formats): pure functions or I/O.
* Schema migrations and the rhiza store itself: its atomic batches, failed
  preconditions and lost answers are assumed.
* Roles and API keys: operator authority is evaluated inside each batch and the
  models let an authorized operator do everything.
* Dynamic registration: a second table of clients, which the grant store treats
  as it treats managed ones.
* DPoP nonces and replay markers: rows read back by a random attempt, the
  mechanism `MarkedBy` and `VerifyCommit` model for the grants.
* Login lockouts and the device quota: counters per fixed window; the repository
  states no bound across windows that a model could be held to.
* Upstream login transactions and the mail outbox: single-use rows around claim
  verification, and mail transport.
* Notifications, backups' contents, metrics: best effort by design, or I/O.
