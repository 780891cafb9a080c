# Developer CA: a TLA+ model of the service

The repository is a Cloudflare Worker written in Rust (`src/src/`), a D1
(SQLite) schema (`src/migrations/`), a trust crate shared with downloaders
(`src/crates/trust/`) and an offline Root tool
(`src/tools/developer-ca-root/`). This directory holds TLA+ modules translated
from that source, the TLC runs that check them on small instances, and theorems
about them that TLAPS proves for every value of the constants.
`PROJECT.json` gives, for every definition that models code, the lines it stands
for.

## 1. The system

A request is handled by one Worker isolate. It awaits D1 several times and may
be interleaved with any other request at each await. **There is no transaction
across awaits**: what is atomic is a single statement and a `db.batch`, which is
undone as a whole when one of its statements fails. An isolate may be killed, or
an awaited call may fail, at any await; nothing runs afterwards to clean up. A
clock (`now()`) read early in a request is used later for what it writes. Most
of what the service has to get right follows from these facts.

| Component | State it keeps | Operations | What is hard | What makes it correct |
|---|---|---|---|---|
| Revocation and the signed list | `certificates.status`, `certificate_suspensions`, `revocations`, `revocation_snapshots` | revoke, rebuild, cron refresh, suspend, restore | a list is put together from three reads, signed, then published by a batch that re-reads none of them; it expires in an hour | the current list is exactly the revocations; it can always be renewed; each list succeeds the one before; a revocation is final |
| Trust snapshots and issuer registry | `trust_snapshots`, `issuers` | register a snapshot, activate, retire or revoke an issuer, use an issuer | registration and status changes validate against stale reads; two tables say the same thing | the registry is never older than a snapshot; a revoked issuer is refused; a validated registration takes effect |
| Certificate issuance | `certificate_issue_idempotency`, `certificate_issuance_attempts`, `certificate_serial_sequence`, `certificates` | one request with some ten awaited steps | repeated and concurrent requests, claims that expire or are left by a dead request, clocks out of order | no content issued twice in a window; a replay gets what was asked; limits hold; serials are unique; nobody ineligible is issued to |
| Developer members | `developer_members` | add, patch, delete | roles read before the write decide about it | an active owner remains; only owners make owners |
| Admin authentication | `authentication_replay_cache` | verify, look up the account, consume the jti | expiry is checked on arrival, consumption comes later and purges first | a jti is consumed once while it is valid |
| Enrollment and review | `developer_enrollments`, its account guard, events, messages, `developers` | create, submit, correct, message, begin, ask, reject, approve | batches recognise their own UPDATE by a time in seconds | decisions are final; one developer for each approval; the log and the messages explain the state; what is audited and notified is what happened |
| Developer status, verification | `developers.status`, verification columns | suspend, restore, verify | they change while a certificate is being issued | see issuance |
| Public certificate status | none | one read-only answer from one to five reads | no transaction around the reads | nothing that speaks against a certificate all along is overlooked; a good one is not refused |
| Snapshot and version downloads | none | read one current row | nothing | - |
| Certificate format, signatures | none | encoding, Ed25519 | byte-level | - |
| Offline Root tool | files | sign a snapshot or an issuer certificate | compares nothing with what was signed before | - |
| Accounts sessions, CLI tokens, introspection | none (external service) | verify | may answer either way | - |
| Notifications | notification rows | sent best-effort after a commit, marked as read | sent after another read of the state; failures are ignored | they agree with the state |
| Router, CORS, health, rate-limit binding, display names | none that matters | - | - | - |

How they interact:

* Revocation and issuance call the issuer check of TrustRegistry before they
  sign; every administrative operation consumes a jti through AdminReplay.
  The composition is by outcome: the calling module lets the check succeed or
  fail at the await where the code makes it, and the callee's module says what
  its outcomes mean. Caller and callee write different tables, so nothing is lost
  by looking at them separately except the correlation of outcomes, and each
  caller's properties hold for every combination of them.
* Issuance inserts the certificates that Revocation later suspends and revokes;
  neither reads a certificate the other is about to write.
* Membership and developer status reach issuance only through "is this account
  now eligible", which Issuance lets change at any moment.
* Enrollment creates developers with one active owner, the initial state of
  Membership.
* The status answer reads what Revocation, the developer's administrators and
  TrustRegistry write. CertificateStatus is composed with all of them: it has
  TrustRegistry as an instance whose actions are steps of its own, and the
  batches of the others by what they write to the one certificate and its
  developer.

## 2. Modules

| Module | Models | Notes |
|---|---|---|
| `RevocationList` | what downloaders are promised | abstract: a sequence of lists, each an acceptable successor of all before |
| `Revocation` | revoke, rebuild, refresh, suspend, restore, and their batches | implements `RevocationList` |
| `Revocation_proofs` | theorems about `Revocation` | |
| `SnapshotRefresh` | the cron trigger against the lifetime of the list | has fairness; ages instead of times |
| `SnapshotRefresh_proofs` | theorems about `SnapshotRefresh` | |
| `TrustRegistry` | trust snapshots, issuer registry, issuer use | parameterised by what the Root may have signed |
| `TrustRegistry_proofs` | theorems about `TrustRegistry` | |
| `CertificateLedger` | what issuance promises | abstract: a certificate appears in one step |
| `Issuance` | `issue_certificate` from claim to commit or abandonment | implements `CertificateLedger` |
| `Issuance_proofs` | theorems about `Issuance` | |
| `CertificateStatus` | `certificate_status`, read by read, while everything it reads changes | has an instance of `TrustRegistry` |
| `CertificateStatus_proofs` | theorems about `CertificateStatus` | has an instance of `TrustRegistry_proofs` |
| `Membership` | members of one developer and the trigger | |
| `Membership_proofs` | theorems about `Membership` | |
| `AdminReplay` | one use of each jti | |
| `AdminReplay_proofs` | theorems about `AdminReplay` | |
| `EnrollmentReview` | what the enrollment desk promises | abstract: the diagram of states, one enrollment for an account, one developer for an approval |
| `Enrollment` | the life of an enrollment, to the audit row and the notification | implements `EnrollmentReview` |
| `Enrollment_proofs` | theorems about `Enrollment` | |
| `MC*` | instances for TLC: symmetry, constant functions, the sets of signed snapshots | no model code |

### Conventions

* Every module has `Workers`, the requests that can be in flight, and a
  function `request` from workers to a record: `pc` names the await the request
  stands at, the other fields are the local variables it holds across awaits.
  An idle worker starts a new request; so "two workers" means two concurrent
  requests, any number one after the other.
* One action is what happens between two awaits: the result of one database
  call and the code up to the next. A batch is one action that either writes
  everything or nothing.
* `End` or `Crash` ends a request at any await: an isolate killed, an awaited
  call that fails, an error answer. The rows it wrote stay.
* Early returns are `Finish(w)` in the branch where the code returns.
* Operators whose names carry an underscore after an ordinary name
  (`VersionTaken_Never`, `Collides_KeyOnly`) are *mutated forms*: a plausible
  bug in the definition that follows. Nothing uses them; they document what
  each property would catch, and `PROJECT.json` pairs them with properties.

### Revocation

`status`, `suspended`, `revocations` are the tables' columns; `current` is the
row with `is_current = 1` and `versions` the primary keys of
`revocation_snapshots`. `auditLog` keeps the rows of the two audit tables that
concern revocation. A revocation list is the set of its entries: their order is
fixed by the serial number and the canonical form, and is not modelled.

A revoke request goes `StartRevoke` -> `CheckIssuer` -> `ReadCurrent` ->
`ReadRevocations` (which also builds, validates and signs: no await in between)
-> `ConsumeJti` -> `RevokeCertificate` or `RefuseSave` -> `RecordAdminAudit`.
A rebuild and a cron refresh take the same path and end in `SaveSnapshot`; the
cron first looks whether the list needs a refresh and consumes no jti.
`Accepted` is the conjunction of the code's refusals: `REVOCATION_CONFLICT`,
duplicate serials, `validate_revocation_successor`, and the size limit.

The limit is on the bytes of the list's JSON. `Fits` compares `MaxBytes`
(`MAX_SNAPSHOT_BYTES`, less what every list holds) with the two parts of a list
that change length: `EntryBytes` for each entry, and the digits of
`snapshot_version`, which is written in decimal. `DigitSteps` are the versions
one digit longer than the one before (10, 100, ...). That entries are equally
long is an abstraction; the rest of a list is as long as it was: key ids are 64
hexadecimal characters, a signature has a fixed length, and times in seconds keep
their ten digits. `MAX_REVOCATIONS`, the limit of 100 000 entries in the trust
crate, is left out: an entry takes more than the 42 bytes that 4 MiB leave for
each, so the bytes run out first. `RenewalIsAccepted` says that a renewal is
refused for its size in one situation only, `Outgrown`: the list is full to the
last byte and its version gains a digit (or the revocations made before there
were lists never fitted on one).

`Init` lets any set of certificates be revoked already with no list published:
migration 0001 has the `revocations` table, lists came with 0002.

### SnapshotRefresh

The same three kinds of publication (cron, rebuild, revoke) as in Revocation,
but all that is kept of a list is its age, and all that is kept of a time is how
long ago it was: `request[w].age` is the age of the `now()` a request read,
`age` that of the current list's `generated_at`. A `Tick` adds one to every age,
so the state is finite while the clock runs for ever, which is what liveness
needs. Instead of a version a request has `overtaken`: its base is no longer the
current list, so the version it would take is taken. That this is the same
condition is the theorem about Revocation that versions are contiguous and a
base of the current version is the current list. The check of the issuer, the
signature and the database are one flag, `outage`, which decides whether the
cron's refresh can fail. The requests of `Workers` may fail at any await. A list
that can no longer be renewed for its size (`Outgrown` in Revocation) is an outage
here, one that does not end.

### TrustRegistry

`signed` is what the Root has signed, chosen once from `SignedSets`; the Root
tool compares nothing with earlier versions, so a model that assumed a
well-behaved Root would assume too much. `Disciplined(signed)` says that the
versions are successors of each other, and the properties that need it say so.
`KeepsActiveIndex(AfterUpserts(s, last))` for every `last` is the unique partial
index on the active issuer, which SQLite checks after every statement of the
batch: a batch that would be fine at its end may fail in the middle, depending
on the order of the keys. `UndoneByKeyOrder` says that, with one administrative
request at a time, this order is the only reason for which a registration that
passed both validations is undone: it activates an issuer whose key sorts before
that of the active one it retires. That at most one issuer is active is that
index itself and no property here; it is part of the inductive invariant.
`knownRevoked` is an observation, not a variable of
the program: what was already revoked by a registered snapshot when a use began.

### Issuance

The five minutes of a claim are `Window`, the hour of the rate limit
`RateWindow`, the day an attempt is kept `Retention`. `MaxLifetime` bounds how
long after its `issued_at` a request can still act. The assumption
`MaxLifetime < Window` (a Worker request does not live for 300 seconds) is what
`ClaimIsExclusive` rests on: the code has no other protection against a claim
expiring under a request that is still signing. `Retention >= RateWindow +
MaxLifetime` holds with a wide margin (86400 against 3600 and some seconds).
`attempts` is the table of attempts, as the set of the ids left in it; `recorded`
has every row ever inserted, deleted ones too, and is an observation: the code
reads only the rows in `attempts`. `RateLimitHolds` speaks of all of `recorded`,
so a row deleted too early breaks it, if a request that should have counted the
row does not.

`DeadClaimBlocksOneWindow` is what remains of the promise finding 2 refutes: a
request is told "pending" only by a claim less than a window older than itself.
`CertificateLedger` is the contract with the certificates table alone: account
eligible *when the row appears*, serial fresh, and content apart by
`Window - MaxLifetime` from every other certificate for it, since a request with
an older clock may take a claim that a newer one expired.

### CertificateStatus

One certificate, its developer and its issuer. `certificate` holds the status
column and whether there are rows of suspension and revocation; a read of the
certificate sees "revoked" before "suspended", and the revocation row is read
once more. The source of the certificate decides whether the request ends after
the developer (Root-signed legacy certificates) or goes on to the trust snapshot
and the issuer's row. The clock is read once, after the first read.

`history` is an observation: for each request, the *grounds* against the
certificate that have held at every moment since it began, and whether it was
`good`: there was never any ground, the two trust tables agreed on the issuer
when the request read the snapshot, and neither changed before it read the
issuer. Trust batches may commit at every other moment. Grounds are what the
code refuses for, computed from the tables of one moment and from the time the
request took for now: the clock is read once, so a snapshot that expires before
it is read is not held against the certificate.

That the issuer's row *differs* from the current snapshot is not a ground,
although the code refuses for it: the code compares the row with the snapshot it
read an await earlier, and a registration that rolls back together with a status
change can make the row agree with that snapshot while the two tables disagreed
all along. A row that is absent, future or revoked is a ground, and so is a
revocation of the issuer in any registered snapshot.

* `ValidOnlyIfOnceGood`: VALID means that no single ground held all along. This
  needs the version comparison in the last read: a request whose snapshot is
  older than the issuer's row must not pass on an equal status. It is the
  strongest claim that is true of the code: *different* grounds can hold one
  after the other. If the developer is suspended while the certificate's row is
  read, then the certificate suspended and the developer restored before the
  developer's row is read, the answer is VALID although the certificate was at
  no moment good. No document promises more.
* `GoodIsValid`: nothing good is refused, whatever registrations, status
  changes, suspensions and verifications commit beside the request. The two
  exceptions in `history.good` are real: a trust batch that commits between the
  reads of the snapshot and of the issuer makes the versions disagree, and a good
  certificate METADATA_MISMATCH for that one answer; and two tables that disagree
  (which takes a rollback, or a status change on a stale read) do so for every
  answer while they last.

### Membership

One developer. An invitation that does not exist is a row with status
`"absent"`. `TriggerAborts` is `prevent_last_owner_removal`; it is the only
thing checked in the same step as the write.

### AdminReplay

`Issued` and `Expiry` are the times a delegated token was signed with;
`ValidClaims` is `validate_claims` on them: not too long, not too far ahead, not
expired. An action id of the admin service has no times of its own: each arrival
gives it 300 seconds more. `uses` is an observation: the consumptions in their
order. `UsedOnceWhileValid` includes eviction: the cache forgets a jti before its
time only when it is full of others that expire no sooner. The three statements
of `consume_authentication_jti` (purge, evict, insert) are three steps: the code
runs them one after the other, not in a batch.

### Enrollment

Of the personal data only a revision number is kept. A reviewer's handler does
not end with its batch: rejection and request for information read the state
again (`Reread`), approval looks for the developer under the id it generated
(`Created`), writes the administrative audit row (`RecordAdminAudit`), and all
three then notify the applicant (`SendNotification`). `StartRepeated` is the
rejection of what is rejected already: the code runs no batch and notifies
again. A decision's clock is an argument of the store function and so older than
the read it starts with: `now` is any time up to the clock.

What the model shows beyond its properties: an applicant who answers between a
request for information and the second read makes the reviewer's request end in
409 without a notification, and the loser of two rejections sends its own reason,
which is stored nowhere. No document says otherwise.

Each batch is one action
that repeats the statements' guards: the UPDATE's `WHERE state = ...`, and the
`WHERE state = ... AND updated_at = ...` by which the INSERTs recognise it.

## 3. Runs

| Run | Instance | States | Shows |
|---|---|---|---|
| `revocation` | 3 certificates, 2 requests, room for 2 on lists 1 and 2 and for 1 from version 3 on, clock to 2, up to version 2 before the last rebuilds | 821 k | the list is complete, final, and renewable unless its version outgrows it; reported revocations are on it; `RevocationList` is implemented |
| `snapshot_refresh` | cron and 2 publishers, deployed lifetime, window and period in units of 300 s | 90 k | renewal in time, expiry never moves back, recovery (liveness) |
| `trust_concurrent` | 2 issuers, every disciplined chain of 3 versions, 2 requests | 656 k | the registry is not behind, revoked issuers refused |
| `trust_serial` | 2 issuers, *any* signed snapshots of 3 versions, 2 requests of which one at most is administrative | 1.0 M | no rollback, the registry is the current snapshot, only the order of the keys undoes a registration |
| `trust_rollback` | 1 issuer, 3 versions, 2 requests | violation | finding 1 |
| `issuance` | 1 account, 2 keys, 2 contents with one subject key, 2 requests, 2 serials, clock to 2 | 5.3 M | claims, duplicates, replays, dead claims, serials, limits; `CertificateLedger` is implemented |
| `issuance_pending` | the same | violation | finding 2 |
| `membership` | 3 accounts, 2 requests | 141 k | an owner remains; owners come from owners |
| `admin_replay` | 3 tokens, 1 action id, a cache of 1, 2 requests, 3 uses, clock to 3 | 721 k | single use while valid and remembered |
| `admin_replay_reuse` | 1 token, 1 action id | violation | finding 3 |
| `enrollment` | 2 enrollments of one account, 2 requests, 1 correction, clock to 1 | 575 k | decisions, developers, log, answers, audit, notifications; `EnrollmentReview` is implemented |
| `certificate_status` | 1 certificate of either source, 1 issuer with every chain of 2 versions that retires or revokes it, 2 trust requests, 1 status request at a time, clock to 1 | 3.1 M | no ground overlooked, nothing good refused |

### Why these bounds

* **Two requests in flight.** Every check in the code is one read (or a chain of
  reads) followed by one write. A violation needs one writer between another
  request's read and its write; that is two requests, and a third only repeats
  the second's role, since a worker that has finished starts again. The modules
  with theorems are proved for any number of them.
* **Revocation**: three certificates with room for two on the list means that
  the list fills up, that a legacy revocation, a revocation on the list and one
  refused for lack of room occur together. From version 3 on the version takes
  one byte more, so that a full list is renewed up to version 2 and refused then. `MaxVersion` stops rebuilds and
  refreshes, not revocations, so revocations that collide on a version occur at
  every list length. With `Ttl = 2`, `RefreshWindow = 1` and a clock to 2 a
  list is fresh, due for refresh and expired.
* **SnapshotRefresh**: 12, 6 and 3 units are 3600, 1800 and 900 seconds; a
  request may take a whole unit, far more than a Worker is given. Failures are
  counted up to 3, one more than the lifetime of a list has room for. The proofs
  cover every other granularity.
* **Trust**: a rollback takes three versions (current, higher, lower); a
  rotation takes two issuers. `trust_serial` runs `SerialSpec`, the specification
  restricted to one administrative request at a time: uses of issuers overlap
  with it, and administrative requests die and begin again.
* **Issuance**: a clock to 2 with a window of 2 lets a claim expire exactly at
  the boundary, requests act with a clock one second old, and both content
  and key be used again after expiry. `Retention = 2 = RateWindow +
  MaxLifetime` is the tightest value the assumption allows. The limit is 2 for
  account, developer and subject key, so that the third attempt is refused. A
  second account with the same content goes down the same path as a second key
  (the claim has a unique key on the content alone); the state space with
  both is out of reach in minutes.
* **AdminReplay**: one token is issued ahead of the clock, one is signed for too
  long; a cache of one row (`Capacity` stands for 9999) evicts at the third use,
  and also has room for the row being inserted, as the code's has.
* **Enrollment**: a clock to 1 gives batches in the same second, in the next,
  and with an older clock than the row they update. The code compares two times
  at once, for equality or order, never a third. The two enrollments compete for
  one account; apart from that they do not interact.
* **CertificateStatus**: one issuer, active in the first version and retired or
  revoked in the second, goes through every status the answer tells apart. Two
  trust requests give registrations that race and roll back. Requests do not
  change what others read, so one at a time is all there is to see. The
  certificate and the first snapshot expire at 1.

Symmetry is used on certificates, workers and, elsewhere, on tokens, keys and
contents that no constant distinguishes. Only safety properties are checked
under it.

Deadlock is checked where the system cannot stop (`membership`,
`snapshot_refresh`, `certificate_status`, the `trust_*` runs). In the others the bounds on the clock, the versions, the serials or the
uses run out and the model rests; the configurations say `CHECK_DEADLOCK FALSE`.

### Fairness

Only `SnapshotRefresh` states fairness, because only there does the code itself
schedule something: `wrangler.toml` has a cron trigger every 15 minutes. Weak
fairness of `Tick` says that time passes; of `Trigger`, that the platform fires
what is due (`Tick` also waits for it, so that no trigger is missed: a missed
one is a failed one); of `RefreshCheck` and each `Step(w)`, that a request that
has started is run on. Nothing is assumed of `Start`: nobody need ever revoke or
rebuild. Nothing is assumed of `ChangeOutage` either: `ListRecovers` has the end
of the outage as its hypothesis (`<>[](~ outage)`).

Everywhere else progress happens if somebody asks, and no liveness is claimed.

## 4. Findings

1. **`trust_rollback`: an older trust snapshot can become current.**
   `admin_register_trust_snapshot` validates against the current snapshot it
   reads (`src/src/lib.rs:1340`) and commits later (`src/src/store.rs:1061`)
   guarded only by the key on the version. Two registrations, of versions 2 and
   3, both validated against version 1, may commit 3 first and 2 second.
   `src/docs/trust-model.md:5` says that a rollback is refused. What remains
   true, and is proved: nothing short of two overlapping registrations does it
   (`NoRollback`); the registry does not roll back with it
   (`RegistryNotBehind`), so the issuers whose rows are newer no longer agree
   with the current snapshot and are refused; a revoked issuer stays refused
   (`RevokedIssuerIsRefused`).
2. **`issuance_pending`: an identical simultaneous request is refused.**
   `src/docs/policy.md:14` says that the same content, simultaneously or within
   five minutes, gets the existing certificate. The code answers 409
   `CERTIFICATE_ISSUANCE_PENDING` while the first is at work, and for the rest
   of the five minutes if the first died.
3. **`admin_replay_reuse`: a jti passes twice around its expiry.**
   `src/docs/deployment.md:52` says that a jti can be used only once. Expiry is
   checked on arrival and the jti is consumed later, after expired rows have
   been purged (`src/src/store.rs:48`).

## 5. Proofs

Each `*_proofs` module follows one pattern: an inductive invariant `IInv`, a
lemma for each action that preserves it, the theorem `Invariance == Spec =>
[]IInv`, and from it one theorem for each property.

**Revocation.** Assumes `RevocationAssumption` (the constants are naturals, the
time to live is positive, the marker for "no row" is not a row). The stated
invariants alone are not inductive: nothing in them says why a draft signed from
old reads may be published. `IInv` adds, for each request in flight:

* its base is no newer than the current list, and if it has the current
  version it *is* the current list (`BaseInv`);
* the versions in the table are 1 to the current one, without gaps
  (`VersionsAreContiguous`), so a draft whose version is not taken is built on
  the current list;
* a draft whose version is the current one plus one holds every committed
  revocation and is a valid successor (`DraftInv`).

It also says that the current list fits (`CurrentFits`). A renewal takes its
entries from the table, which are the current list's, and a version that is at
most the next one; so only a further digit of that version can make it too long.
That is `RenewalAcceptance`.

The primary key on the version thus does the work of a compare-and-swap. From
`IInv`: `TypeCorrectness`, `ListCompleteness`, `ReportedIsListed`,
`RenewalAcceptance`, `RevocationFinality`, and `Refinement`: every step of
Revocation is a step of `RevocationList` or leaves the current list alone.

**SnapshotRefresh.** Assumes `RefreshAssumption`: a request ends before the next
trigger, a trigger and a request fit into the refresh window, and the window and
a request into the lifetime. `RenewedInTime` is not inductive: it must say where
in the period the bound is tight. `YoungEnough` does: after this period's trigger
has been dealt with, the list is younger than the deadline for the failures so
far plus the phase; before, or while its request runs, up to a period older.
`CronInStep` adds that the cron's clock is the phase, and that a list which
overtook the cron's draft is itself fresh, so that losing the version is as good
as winning it. From it `TypeCorrectness`, `Renewal`, `HealthyListIsValid` (while
no trigger fails the list never expires) and `ExpiryMonotone`. With the
deployed numbers `Renewal` also shows how thin the margin is: `Period` is half of
`RefreshWindow`, so after *one* failed trigger the bound is `Ttl + MaxLifetime`,
and the list may be expired until the next refresh has published.

**TrustRegistry.** Assumes `TrustAssumption` (issuers are numbered in the order
of their keys, the Root signs snapshots). The key to `RevocationOfIssuers` is
that an accepted use compares not only statuses but *versions*: a registered
snapshot that revokes the issuer has pushed the registry's row to its own
version or beyond (`RegistryNotBehind`), so the snapshot the use has read is at
least as recent, and under a disciplined Root a successor of a snapshot that
revokes revokes too. No assumption is made on how registrations and status
changes interleave.

The two properties that finding 1 is about do not hold of every behaviour, so
their theorems name what they need. `NoRollback` needs that registrations do not
overlap (`OneRegistration`): what one has validated then is still a valid
successor of the current snapshot when its batch runs (`SuccessorInv`); status changes, which write the registry only, uses and
crashes may interleave as they like. `RegistryInStep` needs that no status change
overlaps with a registration or another status change either
(`OneAdministrator`); with registrations alone kept apart TLC finds a status
change that writes a status the snapshot it read has lost since. Its invariant
`MatchInv` adds that the status a status change is about to write is the one
the current snapshot gives. `SerialIsSpec` shows that the behaviours of
`SerialSpec`, which the run checks, satisfy both premises; `SerialIsSound` states
both properties of it. `KeyOrderUndoes` needs `OneAdministrator` too: the
registry is then the current snapshot's, so the one active issuer of the snapshot
and the one active row are all that a statement of the batch can collide on.

**Membership.** Assumes `MembershipAssumption`. `IInv` adds that a request about
to write the role "owner" began as an owner's; that is decided before the read
of the target, so it cannot go stale.

**Issuance.** Assumes `IssuanceAssumption`, of which one line does the work:
`MaxLifetime < Window`. A live request that has claimed its content still has its
row (`ClaimIsKept`), because a row expires only a window after the clock its
request was given. Hence nobody else can hold the content, a commit always
completes a row, and that row keeps the content taken until the certificate is a
window old (`ContentIsTaken`). Who inserts a claim after that has a clock at most
a life older (`HoldersAreLate`); that is where the `MaxLifetime` in
`NoDuplicateIssue` comes from. `RowsAreFresh` says that a request that looks for a row finds none that has
expired for it, even if a slower request with an older clock inserts one
meanwhile. From these: `ExclusiveClaims`, `NoDuplicates`, `FreshSerials`,
`FaithfulReplays`, `DeadClaims`, and `Refinement` of `CertificateLedger`, in
which a commit is the step `Issue` and every other step a stutter or a change of
eligibility.

The rate limit has an invariant of its own, `AttemptInv`. A bound on what is
recorded does not carry itself: the statement that inserts counts only the rows
left, and it counts for its own clock, which may be older than that of the request
that purged. `CountedRowsAreKept` closes the gap: a row missing from the table is
too old to be counted with the clock of any request still alive. A purge keeps it
because its clock is read no later than now and a live request's no more than
`MaxLifetime` earlier; this is where `Retention >= RateWindow + MaxLifetime`
is used. Then what a request counts includes every attempt in any hour that its
own row would join (rows with later clocks are counted too), so the row is the
one that was missing to the limit at most (`RecordStep`). From these
`TypeCorrectness` and `RateLimits`.

**AdminReplay.** Assumes `ReplayAssumption`, in it that an action id is not
remembered for longer than a token may live. `UsedOnceWhileValid` is not
inductive, as it says nothing of the cache. `UsesAreRemembered` does: a use has
its row, or has expired, or `Capacity` other jtis that outlast it have been used.
The eviction keeps the rows that expire last, so a row it removes leaves
`Capacity` such jtis behind. The theorem `UsedOnce` has no bound on the clock or
on the uses and holds in whatever order the three statements of concurrent
requests run.

**Enrollment.** Assumes `EnrollmentAssumption`. The stated invariants say nothing
of a handler that is past its batch. `IInv` adds what such a handler relies on
and no other can take back: an approval that is about to be audited has a
developer of its own that no audit row names yet (`AuditInv`), and whoever is
about to notify has the grounds for it in the tables (`NoticeInv`). `LogInv` ties
the log to the rows: a request for information has its message, an answer its
event. `OneDeveloper` says that a row of `developers` belongs to an approved
enrollment, and `FinalState` that it stays one whatever other handlers do.
From `IInv`: `TypeCorrectness`, `OneDeveloperEach`, `ExplainedStates`,
`TrueNotifications`, `AuditedApprovals`, `FinalDecisions`, `AnswersOnRecord`, and
`Refinement` of `EnrollmentReview`.

**CertificateStatus.** Assumes `StatusAssumption`, in it what TrustRegistry
assumes. The theorems about TrustRegistry are used through an instance of
`TrustRegistry_proofs`, so its invariant is part of this one; `TrustSteps` shows
that a step of the one is a step of the other. `ReaderInv` says what the reads
so far have shown: a read that lets a request go on finds its grounds absent at
that moment, so they did not hold all along. What is left at the last read is a
revocation of the issuer by the Root that the snapshot read earlier does not
know of. `AgreementExcludesRevoked` excludes it: the row is not behind any
registered snapshot (`RegistryNotBehind`), the snapshot read has the row's
version, and a successor does not take a revocation back. `GoodInv` carries the
other direction. From these: `TypeCorrectness`, `ValidIsGrounded`,
`GoodIsAnsweredValid`. No bound on the clock, on the versions or on the requests
is left, which matters here: counting a snapshot that expires during the request,
or a difference of the two tables, as a ground gives formulas that hold on the
instance TLC checks but not with a longer clock or with more versions and trust
requests.

Only model-checked: `ListRecovers`, since liveness under fairness is beyond the
prover. `TrustNeverRollsBack` and `RegistryMatchesCurrent` are proved under the
premises above, and not otherwise, since they are false then. The three claims of
documents that section 4 refutes have no theorem.

## 6. Not modelled

* Signatures, hashes, canonical JSON, certificate encoding: pure functions of
  external libraries. A good signature is a guard; a hash is its preimage.
* Wording, logging, headers, ETags, CORS, routing.
* Accounts, the CLI token verifier, the rate-limit binding, webhooks: external
  services, each a nondeterministic outcome at the await where it is called, or
  absent where nothing depends on it.
* Validity periods, key usages and generation times of issuers: they only add
  reasons to refuse.
* Audit rows of status and verification changes: nothing reads them, and their
  times are those of clocks read earlier.
* Marking notifications as read, and certificate display names: one statement on
  one row, read by nothing else.
* Snapshot and version downloads and every other list or view: one read, no
  state.
* Migration of a live database, and two deployments running at once.
* The retired developer creation handlers, which no route reaches.

## 7. Plan

Done: the modules of section 2, in the order Revocation, TrustRegistry,
Issuance, Membership, AdminReplay, Enrollment, SnapshotRefresh,
CertificateStatus, from what hurts most when it goes wrong to what hurts least,
then the abstract specifications EnrollmentReview and CertificateLedger, and the
proofs about all of them.

Left: whether an approval is of the revision the reviewer read, which
`Enrollment` records as `named_after`. The code does not ensure it and no document
states it, so there is nothing yet to check it against.
