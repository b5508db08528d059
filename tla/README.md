# MEOVV Mail in TLA+

Models, checks and proofs of MEOVV Mail (`src/`, Go). Of its server: what it promises to
the clients of its REST API, to the receivers of its webhooks, to its browser users and to
the reader of its database, when requests overlap, clients give up, the mail server answers
late and the process dies. Of `mailctl`: what its commands leave behind when they fail, are
killed or meet.

## 1. The system

| part | source | state | operations |
|---|---|---|---|
| message submission | `internal/httpapi/server.go` `authAPI`, `sendMessage`; `internal/store/store.go` `InsertMessage` | `messages`, `message_recipients`, `idempotency_keys`; a request's local variables | look up the key, refuse, store in one transaction, `Send`, write the status, announce, answer |
| MIME builder, SMTP client | `internal/mailer` | none | `Build` (random boundaries and Message-ID), `Send` |
| delivery status | `server.go` `internalEvents`, `normalizeEvent`; `store.go` `UpdateRecipient`, `recalculate`, `UpdateMessageStatus` | `messages.status`, `message_recipients.status` | record an event, count, roll up |
| outgoing webhooks | `store.go` `EnqueueEvent` ... `CompleteWebhook`; `internal/webhook/dispatcher.go` | `webhook_endpoints`, `webhook_deliveries`; the dispatcher's batch | fan out, post what is due, write down the outcome, back off, give up |
| retention cleanup | `cmd/meovv-mail/main.go`, `store.go` `Cleanup` | all tables | one transaction a day |
| API keys | `server.go`, `store.go` | `api_keys` | create, authenticate, revoke |
| rate limiter | `server.go` `limiter` | a map under a mutex | `Allow` |
| message listing | `server.go` `messages`; `store.go` `ListMessages`, `GetMessage` | none of its own | query a page, take the cursor, read the messages |
| browser sessions | `server.go` `sessionExchange`, `session`, `logout`; `internal/stalwart` `Refresh`; `internal/config` `SessionKey` | `sessions`; the session key | exchange a code, refresh a token, delete |
| setup | `server.go` `setupComplete`; `stalwart` `Bootstrap` | `settings`; the mail server's configuration | configure the mail server, write it down |
| administration, JMAP proxy | `server.go`, `store.go` | none of their own | reads; byte copying |
| `mailctl` init, harden, reset-password, configure-tls | `cmd/mailctl/main.go` | `.env`, `.env.tmp`, `secrets/`, the certificate's record; containers; the mail server's certificates | write files a step at a time, recreate containers, register a certificate |
| `mailctl` backup, restore, upgrade | `cmd/mailctl/main.go` | volumes, configuration, the directories of copies | stop, archive, checksum, replace, start |
| installation scripts | `scripts/`, `deploy/` | files, DNS, certificates | install, finalize, uninstall |
| web application | `app/page.tsx` | the browser's | a client of the API |

How they meet: everything the server keeps is in one SQLite database, whose pool holds
one connection (`store.go:87`). So **a statement, or a transaction, is one atomic step,
and between two statements of one request those of any other may run**; that is the grain
of every module here. A request's statements run under its own context: once the client
has closed the connection each of them fails, and most of those errors are dropped
(`_ =`). The mail server is another process with a queue of its own. It reports on
messages by signed HTTP requests, which it may repeat, delay and reorder. The dispatcher
and the cleanup are goroutines of `main`. Nothing in memory survives the process, and
nothing resumes at its start what it was doing when it died.

`mailctl` is a process for each command. Several may run at once: there is no lock. They
meet the server in three places: the containers they stop and recreate, the volumes they
replace, and the recovery credential in `.env`, with which the containers are started and
which both the setup and `configure-tls` use. There the grain is a file operation, a call of
docker, or a call of the mail server's.

What is hard, and what makes each part correct:

- *Submission.* The message is stored, sent and acknowledged in separate steps. A 202 must
  mean that the mail server has it; a token must send once whatever is retried; row,
  receipt and announcement must agree with what happened.
- *Delivery status.* Three unprotected statements per event, `sendMessage` writing the same
  row, events in any order. A status must have evidence behind it.
- *Webhooks.* At least once, duplicates only when the answer was in doubt, nobody left out,
  nobody starved, every delivery ended.
- *Sessions.* A refresh token may be good for one use only and every request may try to use
  it. Nobody is to be signed out for no reason, and a sign-out is final.
- *Limits and lists.* A count that starts again with the minute; pages of a table that changes
  between them, and even between the steps of one page.
- *Copies.* Containers that run again while a copy is made, archives that come out torn, a
  restore that stops half way. A copy must be of one moment, and replaced data not a mixture
  that passes for whole.
- *Installation.* Files written in an order that a stop can cut anywhere, one temporary name
  for all commands, and a credential in two places. What is installed stays whole, what was
  closed stays closed, what is served is what is recorded.

`PROJECT.json` lists the components, and under `hazards` the places in the code where this
bites.

## 2. The modules

### Rollup

`recalculate`'s switch over the counts of recipient states (`Recalculate`), and a reference
definition without counting and without an order of cases (`Covers`): each status names
the sets of recipient states it stands for. `RollupIsCovering` says that the switch gives
the one status that covers a table; `CoveringStatus` is that of the tables `DeliveryStatus`
reaches, and is checked there. Writing `Covers` down shows what one would not ask of the switch: recipients
that bounced *and* failed, some of each and all final, are "processing" and stay so.

### DeliveryStatus

One message's rows and everybody who writes them. No statement but the cleanup touches the
rows of two messages, so one message is enough.

| TLA+ | code |
|---|---|
| `row`, `rcpt` | `messages.status`, `message_recipients.status` by address |
| `submit`, `sendResult` | where `sendMessage` is, and the error of `Send` |
| `handler[h]` | an `internalEvents` request: the event it is at, and between recalculate's SELECT and UPDATE the verdict it carries |
| `Take`, `SendReturns`, `Mark` | the mail server takes the message; `Send` returns, with an error that may be that of QUIT (`smtp.go:76`); the status write |
| `Receive`, `ApplyWhole`, `ApplyRecipient`, `CountStates`, `WriteRollup` | one event, statement by statement |
| `Abandon`, `Mark(TRUE)` | a statement fails and its error is dropped |
| `Cleanup`, `Crash` | the row is deleted; the process dies |

`reported`, `overlapped` and `cut` are history: the events received, whether writers
overlapped, whether something was cut short. Events are any of the five statuses of
`normalizeEvent` for a recipient, for an address the message was not sent to, or for the
message as a whole, and come in any order and any number of times once the mail server
has the message.

### Receipts and Submission

`Receipts` is what `POST /api/v1/messages` promises, with no statuses, records or contexts in
it: a message goes to the mail server once, after it was written down and before its client
is answered; it is written down only while no other message holds its token; a token is let
go only when it is due; a receipt is of a message that was sent, or of an earlier one with the
same token and content; what is announced was sent.

`Submission` is how the code does it: `sendMessage` over `InsertMessage`, for any number of requests at once. A request draws its
message id itself (`server.go:588`), so a request and its message have one name. `pc` is
where the handler is; `answer` is what the client got, "lost" when it got nothing;
`accepted` is the mail server's queue. Four of the code's decisions shape the model:

- *The digest is of the MIME message*, which contains the request's own id and random
  parts. `Digest` is a constant, `Digest[r][b]`, so both readings can be given to it: the
  code's, where no two requests share one (`FreshDigest`), and that of the store's test,
  where a repeated request has the digest of the first (`StableDigest`).
- *The lookup passes over expired records and the insert does not*: `Live` is what the
  SELECT finds, `SameKey` what the primary key sees.
- *The contexts*: every statement fails once the client is gone (`gone`); `SendReturns` does
  not look at it, because `Send` uses the context for dialling only.
- *The database*: any statement may fail with the client connected, too (`Dropped`). The code
  takes an error of the lookup for an unknown key (401), any error of `InsertMessage` for a
  conflict (409), and drops those of the status write and of `EnqueueEvent`
  (`server.go:626,631,633`): such a request is answered 502 or 202 with its row still "queued",
  or 202 with nothing announced. `faulty` is history: the requests this happened to.

`Report` is the other writer of the row, `internalEvents`; what it writes is `DeliveryStatus`'s
business, and "reported" stands for all of it. `Revocable` bounds the keys that are revoked.

Times are ticks. The code compares times as RFC 3339 text with trailing zeros of the
fraction cut off, which is not the order of times within one second; a tick is coarser
than that.

`ReceiptsArePromised` is that `Submission` implements `Receipts`, with this mapping: a message is
stored when it was inserted, whether its row is there still or not; it holds its token while
an idempotency record names it; its hold is due to end when the record has expired or the row
is past its retention; it is sent when the mail server has it; a request is over when its
client has an answer or can no longer get one; and the receipts are the 202s. A receipt does not
promise an announcement, since the code drops that error: `Announce` and `Acknowledge` are steps
of their own, and an announcement is of a message that was sent and whose client has no answer
yet.

### Notices and Webhooks

`Notices` is what an endpoint is promised, whatever the dispatcher does: it is sent what was
written down for it until it is known to have processed it and no longer, and what it has
processed only again when there is doubt. That it is sent everything is a matter of fairness
and left to the liveness properties.

In `Webhooks` an event and an endpoint have at most one delivery (`store.go:465`), so a delivery is a
pair. `status`, `attempt`, `wait` and `age` are its row; `fan[e]` is the `EnqueueEvent` of an
event with the endpoints still to insert; `batch` holds the dispatcher's copies and `stage`
where it is with the first. `next_attempt_at` and `created_at` are kept relative to the
present. Of overdue deliveries only the order matters (`ORDER BY next_attempt_at`), so `Later`
counts them instead of subtracting for ever; with that, and with ages that stop at the
last one that makes a difference, the state space is finite without a bound on time, and
liveness can be checked.

A request's outcome is one of three: processed and answered 2xx; processed, and the
dispatcher sees an error; not processed. A URL that is not public and a secret that cannot
be decrypted are the third. `Fault` is the database failing a statement: the lookup of the
endpoint, after which the dispatcher passes the item over, or the write of the outcome.
`taken`, `again`, `unsure`, `made` and `renewed` are history.

`NoticesArePromised` is that `Webhooks` implements `Notices`: owed are the rows that are pending
(those put off for a year too), settled those that are delivered; in doubt are the pairs of
which an answer, a process or a write was lost, or that were deleted and made again. The
dispatcher posts from copies that may be older than any step of anybody else, so that it
posts nothing settled has to be shown of the copies.

### Sessions

The row of a session with its two encrypted tokens, and every browser request that goes
through `session()`.

| TLA+ | code |
|---|---|
| `live`, `row`, `aged` | the `sessions` table; `session_expires_at` has passed |
| `row[s].due` | `expires_at` is less than a minute away (`server.go:226`) |
| `key`, `keyFile` | the key the process started with, from the secret or from `session.key` of the data directory, which may have been left empty |
| `req[r].pc` | asking the mail server, answered by it, failed, or serving the proxied call |
| `Grant`, `Refuse`, `Outage`, `Revoke` | external: the mail server may rotate the refresh token or not, honour the old one or not, and answer or not |
| `DropSession` | any error of `Refresh` deletes the row (`server.go:233-235`) |
| `StoreTokens`, `StoreFails` | `UpdateSessionTokens`, by id |

`usable` is what the mail server honours; `troubled` is history: sessions of which a renewal
was lost, refused or overlapped by another.

### Copies and Backup

`Copies` is what `backup` and `restore` promise, with no files, containers or commands in it: a
kept copy is a state the data had while the copy was being made, and the data are what the
appliance made of them, or a kept copy laid over what was there, or known to be mixed. "Laid
over" means that an `Optional` part which the copy does not have stays what it was (`Over`);
every other part is the copy's.

`Backup` is how `mailctl` does it. The content of a part of the data, of a volume or of the
configuration, is the number of the write that made it; 0 is something torn.

| TLA+ | code |
|---|---|
| `running`, `data` | containers; named volumes, and the configuration |
| `Configuration`, `Extra` | `.env`, `compose.yaml` and the secrets of `init`; what came into `secrets/` later (`tls/`, `certificate_id`) |
| `files`, `sealed`, `manifest`, `digest` | the archives in a directory, its `configuration.tgz`, its manifest and the checksums in it |
| `cmd[c]` | a process: where it is, the parts still to do, whether a step has failed |
| `Stop`, `CopyVolume`, `CopyConfiguration`, `WriteManifest`, `Up` | `backup`, with the deferred `up` |
| `Preflight`, `Upgrade`, `PullFails` | `upgrade` around `backup` |
| `BeginRestore`, `Swap`, `SwapFails`, `StartRestored` | `restore` |
| `Overlay`, `SwapConfiguration`, `SwapConfigurationFails` | `restoreConfiguration`, which writes over the files its archive names, in place, and removes none |
| `SetEnv`, `Recreate` | `harden`, `reset-password`, `configure-tls` and the certificate hook: what they do to a copy being made. `Recreate` is of the containers they name: both, the mail server's, or none when the hook finds it stopped |
| `Kill` | the process dies at any point; deferred calls do not run |

Containers write to their volumes whenever they run, several volumes in one write. `alone`,
`harmed`, `whole` and `good` are history. Every step has its failure, except where the code
does not look: `archiveConfiguration` does not check what closing its archive flushes, so a
torn file goes on as a good one (`main.go:663`).

`CopiesArePromised` is that `Backup` implements `Copies`, with this mapping: `live` is the data
while they are whole and nothing otherwise; `held[d]` are the archives of a command that has
made them all, alone, of whole data; `kept[d]` the checksums of the directories in `good`. A
stopped container cannot write, so the archives, made one by one, are of one moment: that is
the content of the refinement, and it is lost when any other command starts a container
meanwhile.

### Bundle

The directory the appliance is run from, and what was started from it.

| TLA+ | code |
|---|---|
| `env`, `tmp`, `secrets`, `record` | `.env`, `.env.tmp`, `secrets/`, the certificate's id; each is there or not, and complete or not |
| `armed` | the recovery credential each container was started with |
| `certs`, `default`, `core` | the mail server: certificates, the one it serves, the installation it has |
| `setting`, `accepted` | MEOVV: the setting, and setup requests between their two writes |
| `WriteSecret`, `TearSecret`, `CreateEnv`, `Write` | `init`, with `writeExclusive` |
| `ReadEnv`, `OpenTmp`, `Write`, `Rename`, `ReadByCompose`, `Recreate` | `harden`, `reset-password`: `setEnv`, then docker compose |
| `ReadCredential`, `ReadRecord`, `Register`, `UpdateCertificate`, `CreateRecord`, `FillRecord`, `Select` | `configure-tls` |
| `Bootstrap`, `SaveSetting`, `SetupFails` | `setupComplete` |
| `Backup` | one step: its own steps are those of the module `Backup` |
| `Restore`, `LaidSecrets`, `LaidRecord` | a restore that comes to its end; its last `up` may fail with any container stopped |
| `RestoreHalts`, `RestoreVolumesEnds`, `RestoreFilesEnds` | one that fails or is killed: before the first volume; with each volume old, empty or the copy's; with `.env` torn, or new and every later file old, torn or new |

`at` says which file the handle of a command is of by now: a rename by another command turns
`.env.tmp` into `.env` under it. A command can stop at any point (`Stops`). `crossed`
(two commands at one file), `mixed` (a restore was not finished, or of a copy of such data),
`outdated`, `installed` and `hardened` are history. A restore does not overlap another command
here; that is `Backup`'s.

### RateLimiter and Listing

`RateLimiter` is `limiter.Allow` with the clock: time passes, is set back, and a restart
forgets the counts. `log` is history, the times of the calls that passed.

`Listing` extends it with `GET /api/v1/messages` and clients that follow the cursors. A page
is `Allow` with the query (`Query`), the reading of the last message for its time
(`TakeCursor`), of each message for the answer (`Read`), and `Answer`; between them messages
are stored, change status and are deleted. `at[m]` is the place of the submission time in the
order of *texts* in which the database compares them, so `Store` may give a later message a
lower place. `steady` is history: the messages that were there, and selected, all along.

Definitions whose comment begins with "Mistaken" are used by no specification: each is
what the definition after it would be with a plausible mistake, and shows that the
properties can tell.

## 3. The runs

| run | expects | what it shows |
|---|---|---|
| `delivery` | pass | evidence behind every status, nothing left queued, the status the one that covers the table, the roll-up exact when nobody interferes, deleted messages stay deleted |
| `delivery_race` | violation | `MixedIsPartial`: section 5 |
| `submission` | pass | 202 only after acceptance, one send per token, records, rows and answers consistent, revoked keys; with a database that may fail any statement |
| `submission_replay` | pass | with digests that repeat, receipts are the caller's own; `Submission` implements `Receipts` |
| `submission_repeat` | violation | `RepeatIsReplayed`: section 5 |
| `submission_expired` | violation | `ExpiredTokenIsFree`: section 5 |
| `webhooks` | pass | duplicates explained, nobody left out, given up only after the window; `Webhooks` implements `Notices` |
| `webhooks_live` | pass | no starvation, every delivery comes to an end |
| `sessions` | pass | the refresh token kept is honoured, sign-outs have a reason, deleted sessions stay deleted, no request is served with the token it found expiring |
| `backup` | pass | `Backup` implements `Copies`, overlay and failures in place included; what a restore starts is what the checksums are of; the service is back when the commands have ended |
| `bundle` | pass | what is installed stays whole, what is hardened stays closed, the certificate served is the recorded one, and only an unfinished restore breaks the first and the last |
| `listing` | pass | a walk over the pages misses nothing and repeats nothing; at most twice the rate in any window as long as a minute |

Bounds, and why they are enough:

- *delivery*: two recipients (the statuses with one recipient, with all and with some are
  all there, and "partial" needs two), one stranger, two overlapping handlers (an order of
  two writers is what goes wrong; a third adds nothing the first two cannot do), and three
  different events, each repeated at will.
- *submission*: two requests, which can repeat each other, of two keys and one token, one
  of the keys revocable. Both lives are one tick and the clock stops at two, so that a record
  and a row go out of date under a request in progress and before another one. Every property
  relates two requests at most; more of them are the proofs' business. `submission_replay` has
  calls that meet in the records (one key with two contents, another key with one), a life of
  one tick for a record and of less than one for a message, no revocation and a clock that stops
  at one: enough for a message to be deleted before a request that found its record answers,
  and for the token to be used again. `submission_repeat` and `submission_expired` need a record
  to expire and its message to outlive it: lives of one tick and two, a clock that stops at
  three.
- *webhooks*: one event announced twice (the second announcement after a disturbed first
  one, and after the cleanup), two endpoints, batches of two, a delay of one tick and then
  two, the window at age two, deletion after age three, a year of five ticks; two faults,
  each a death of the process or a lost write.
- *webhooks_live*: the same with a batch of one for two deliveries, so that there is never
  room for all that is due, one announcement and one fault.
- *sessions*: one session, since no statement touches the rows of two; three requests, so
  that two can disturb a third; three pairs of tokens, the first and two renewals, so that
  a late answer can meet one that was already replaced.
- *backup*: two volumes with a writer of their own, so that one may run and the other not;
  two processes; one directory, which both may use when they start in the same second; and
  one write after the first, enough to tell "before" from "after". `WriteManifest` of one
  command over the archives of another is among the cases. What came into `secrets/` later is
  not there at first, so a copy may lack it or have it.
- *bundle*: two secrets (one made, one not), two credentials (old and new), one
  installation, two certificates. Two commands run at a time and up to four one after the
  other, restores counted: init, one that makes the state interesting, and two that meet in it.
- *listing*: three messages on pages of one, so that there is a page before, one at and one
  after whatever changes; as many places as messages, so that times coincide or not; one
  call in a minute of two ticks and two minutes to run, so that the end of a minute is met
  with the call just before it and just after.

Where requests, handlers, commands, messages or the like are interchangeable, a run of safety
properties takes them as a symmetry (`SYMMETRY` in its configuration).

`CHECK_DEADLOCK FALSE` is given where everything may end: all requests answered and the
clock at its bound, the message deleted, all deliveries gone, no command left to be started.
No safety run assumes fairness. `webhooks_live` assumes weak fairness of three things: the
dispatcher's loop (its ticker runs while the process does, and each request of it ends after
10 seconds at the latest), the loop of `EnqueueEvent`, and the passing of time. It assumes
nothing of the endpoints, of the mail server, or of the cleanup. Faults are bounded: a
database that never again takes a write, or a process that dies before every write, starves
everybody, as TLC readily shows. Nothing is assumed of `mailctl`: nobody has to run a
command, or to finish it.

## 4. What is proved

`tlapm` proves the following for every value of the constants that the assumptions allow.

- `RollupTheorems`: `RecalculateCovers`, for every finite table. `SwitchTests` turns each
  comparison of counts into a statement about the set of states, from what the library
  proves of cardinalities.
- `DeliveryStatusTheorems`: `TypeCorrect`, and `DeliveredOnEvidenceCorrect`,
  `PartialOnEvidenceCorrect`, `FailureOnEvidenceCorrect`. None of the three is inductive: a
  handler may carry a verdict counted long before, and the row is overwritten from it.
  `EvidenceInv` says the same of everything that can still reach the row: each recipient's
  state was reported of it, each verdict in a handler's hands is backed by what has been
  reported, each event at hand has been received, and "failed" by `sendMessage` has its
  error. Reports are never forgotten, so what is backed stays backed; `RecalculateCovers`
  gives the step in which a verdict is made. `CoveringStatusCorrect` is the same theorem, of
  the tables of every reachable state.
  `NotLeftQueuedCorrect`: unless an event is to blame, only a message that `sendMessage` has yet
  to write is "queued", and no handler has a roll-up "queued" in hand, for from a handler's
  UPDATE on some recipient has moved and cannot move back (`QueuedIsExcused`, `Moved`). Events
  of the whole message count as a cut from their receipt on (`WholeCuts`).
  `RollupExactAloneCorrect`: as long as no event came upon another writer, at most one handler
  is at work, `sendMessage` is done, a verdict at hand is of the rows as they are, and when
  nobody is at work the row is that roll-up (`AloneAtWork`). `MixedIsPartialAlone` follows: the
  claim of the store's test that `delivery_race` refutes holds when events do not overlap.
  `GoneStaysGoneCorrect`: with the row go the recipients (`NoRecipientsLeft`).
- `SubmissionTheorems`: `TypeCorrect`; `OncePerTokenCorrect`, `RecordsCorrect`,
  `RowAgreesCorrect`, `RevokedKeyCorrect`, `AnnouncedCorrect` from `SubmissionInv`; and
  `AckedIsAcceptedCorrect` and `ReceiptIsOwnCorrect` from two small invariants beside it.
  `SubmissionInv` needs three things. `Progress`: where a handler is tells what it has done
  (before the insert nothing is stored, at the mark the outcome is known, ...).
  `RecordsFaithful`: a record is that of an inserted message with the message's own call,
  digest and time. `TokensHeld`: an inserted message's record is there unless it is due to
  be forgotten. The last is what makes a second insert under a token harmless:
  `InsertFresh` needs that no record of the token is left, live or expired, so the first
  use must be due to be forgotten by then.
  `AckedIsAcceptedCorrect` has the hypothesis `DigestsFresh`, and needs it: a request that
  finds an earlier one's record answers 202 with its receipt whatever became of it
  (`server.go:614-622`), also when it failed or is still being sent. It is true of the code
  because its digests never repeat, which is also why no receipt is ever replayed
  (`NeverReplayed`). `OncePerTokenCorrect` holds for any digests. What the database fails
  enters `RowAgreesCorrect` alone, by `faulty`: the others hold whatever errors are dropped.
  `ReceiptsKept` is the refinement, for digests of any kind. A step that stores, answers or lets
  go is shown to be the step of `Receipts` of that name (`StoreMapped`, `EndMapped`,
  `CleanupMapped`, `CrashMapped`, `TickMapped`); the others change nothing `Receipts` speaks of.
  It rests on `SubmissionInv` and `ExistingIsOwn`. `PromiseMeansOnce` is proved of `Receipts`
  alone: whatever keeps that promise sends once per token.

- `WebhooksTheorems`: `TypeCorrect`, `DeliveredIsTakenCorrect`, `DuplicateIsExplainedCorrect`,
  `NothingDeliveredInHandCorrect` (the dispatcher has no delivery in hand that is known to be
  delivered, for a batch of any size), `FanoutCompleteCorrect` and the action property
  `GivenUpAfterWindowCorrect`, from `WebhooksInv`. First it is said once what a step can do to
  the batch (`BatchStep`, `ItemStep`), to a row (`StatusStep`, `AgeStep`) and to the histories
  (`PostStep`, `MadeStep`); the invariant follows from these without the actions. `Distinct`
  (no batch names a delivery twice) is what lets the dispatcher trust old copies; `TakenOK`
  says where a delivery can be that its endpoint has processed: written down and not in hand,
  about to be, or one of which the database may not know; `FanOK` that in an undisturbed
  `EnqueueEvent` the endpoints left to do still exist, so none of its inserts can abort it;
  `AgesOK` that a copy is as old as its row unless that was made again. The number of wanted
  pairs has to be finite, the longest retry delay shorter than the year of a delivery given up.
  `NoticesKept` is the refinement: a post is of a pair that was made, that is not delivered,
  since nothing in hand is, and that was processed before only in doubt; a row becomes
  delivered only while it is pending and processed. `PromiseMeansInDoubt` is proved of
  `Notices` alone.

- `SessionsTheorems`: `TypeCorrect`, `RefreshUsable`, `SignOutExplained`, `Renewal` and the
  action property `DeletedForGood`. The invariant adds two parts. `Issued`: whatever token a row
  or a request holds has been issued, and an answer in hand is newer than the row it was
  asked for. `Kept`: of a session without trouble (`Calm`) at most one request renews, and the
  row or that request holds a token that is honoured; "no trouble" has to be said of the
  requests in progress, not only of the row.

- `BackupTheorems`: `TypeCorrect`, `RestoreVerified`, `ServiceBack`, `UpgradeCopied`, and
  `CopiesKept`, the refinement. The invariant has a part for each way in which commands rely
  on each other's absence: `Alone` (two commands are never both alone), `Stopped` (while a
  command that is alone copies or replaces, no container runs), `Todo` and `Copied` (what is
  not to be done any more holds the data as they are), `Sealers`, `Restoring` (a volume that
  was replaced holds what the checksums are of), `Pending` (whoever left containers stopped
  is there to start them, or there is a reason), `Completed`. Then every action is shown to be
  a step of `Copies` or to change nothing there; the last step of a restore is its `Restore`,
  with what was in `secrets/` as the data the copy is laid over.

- `BundleTheorems`: `TypeCorrect`, `InstallationWhole`, `HardenedStays`, `ClosedHardened`,
  `CertificateRecorded`. `Hardening` and `Hardened` follow the empty credential from the text of
  a harden that is alone through `.env.tmp`, `.env` and compose's reading into the containers,
  and say that after it no command in progress carries a credential; `ClosedHardened` needs in
  addition that no setup request is between its writes. `Certificates` has that at most one
  command fills the record (`OneFills`), which `writeExclusive` gives, and what each command
  knows of the certificate it is about to select. `EnvWhole` says which file is complete or
  about to be, for as long as no two commands were at one and no restore is unfinished
  (`Complete`, of the file, of `.env.tmp`, of what a command carries and of the copy);
  `SecretsKept`, that where there is an `.env` there are all the secrets, in the copy too. Each
  part excuses `mixed`, and is said of the copies as well, so that a restore from one that was
  made of whole data brings it back (`RestoreLeaves`).

- `ListingTheorems`: `TypeCorrect`, `LimitedTwice`, `WalkExact`. `Counted`: the calls of the
  counted minute are the last ones of the log, and any two calls `Rate` apart are in different
  minutes. `Walking`: what was shown, what the page holds and what the cursor leaves cover
  what was there all along, in the order of the places (`InOrder`, `Cursors`, `Covered`). That
  the rows a query leaves out are older than those it finds (`RowsFound`) needs the table to be
  finite.

So every invariant, action property and refinement that a passing run checks is also proved.
Only model-checked are the two liveness properties, `DueIsTakenUp` and `PendingIsSettled`,
which are out of the prover's reach.

## 5. Where the code and its documents disagree

- **Overlapping reports** (`delivery_race`). `store_test.go:64-73` has one copy delivered
  and another bounced and wants "partial". When the two reports come in overlapping
  requests, one can count before the other's update and write after it; the message then
  says "processing" for good. The "processing" of `sendMessage` can bury a roll-up in the
  same way.
- **Repeated requests** (`submission_repeat`). `api/openapi.yaml:135` promises the original
  receipt for 24 hours; the code answers 409, because the digest is never the same.
- **Expired tokens** (`submission_expired`). `docs/architecture.md:34` has records expire
  after 24 hours; an expired record still blocks its token until the daily cleanup.

Seen on the way and covered by the models as they are: a recipient named twice is answered
409 `idempotency_conflict`; an error of QUIT is answered 502 although the message is sent;
a client that leaves early, a crash, or an error of the database that the code drops leaves the
row "queued" for good, whatever was answered, and the last may leave a 202 unannounced; any error
of the database in `InsertMessage` is answered 409 `idempotency_conflict`; an endpoint
deleted while an event is fanned out costs the endpoints after it the event; a delivery
deleted and made again while the dispatcher holds the old copy is put off for a year
(`GivenUpAfterWindow` names the exception).

Of the later modules, likewise:

- any error of a token refresh, a timeout too, deletes the session; two overlapping renewals
  sign the user out when the mail server rotates refresh tokens, and so do a lost answer and
  a failed update. A start without the secret makes a key of its own, and the rows of the
  other key are unreadable until the process starts with that one again; a start killed
  while it writes `session.key` leaves an empty one, and no later start without the secret
  succeeds.
- A key can make twice its calls within moments of the end of a minute; messages of one
  submission time can be left out at the end of a page; an error in the rows of a page, or
  in reading its last message, ends the list without a sign.
- `init` stopped half way cannot be run again, because it refuses every file that exists.
  Two commands at `.env` write one `.env.tmp` and can leave either torn text or nothing for
  the other. A `configure-tls` stopped between making its record and writing it leaves an
  empty one, which every later run refuses after having made one more certificate. A restore
  of an older copy brings its recovery credential back, and leaves a record the mail server
  no longer has a certificate for. One that is stopped after its first volume can leave a torn
  `.env`, or a served certificate that is not the recorded one, until a restore is finished.
- A copy made while another command starts containers can be of several moments and has a
  valid manifest all the same. A configuration archive can be torn with a valid checksum.
  `restore` verifies before it stops anything but does not hold on to what it verified. A
  failure in the middle of a restore leaves the containers stopped; `backup` does so only when
  stopping them fails, when it is killed, or when its own `up` does.

## 6. What is not modelled, and what remains to do

Not modelled:

- `mailctl doctor` and `create-api-key`: the first only looks, and its use by upgrade is
  `Preflight`; the second inserts one row under a random id.
- The JMAP proxy's and event stream's copying, administration's reads and the audit rows:
  nothing decides by them. That a proxied call is made with the token `session()` returned is
  `Serve`.
- The cipher and the signatures, the text of MIME messages, forms and configuration: bytes,
  with no order of steps. That a row is readable only with the key it was written with is
  part of `Sessions`.
- The installation scripts: one order, of the many `Bundle` allows, of the commands it has,
  with questions to the operator in between.
- The web application: a client.

- In `Bundle`: `compose.yaml`, which a restore rewrites with the rest, and a restore that
  overlaps another command. In `Backup` the configuration has two parts, and each is changed as
  a whole.
- An error in the rows of `recalculate`'s SELECT (`store.go:298`), which is not asked for: the
  SELECT is one grouped query over one connection, and a context that ends it ends the UPDATE
  after it as well, which is `Abandon`.

Where the code does what a hazard describes, the property named with it in `PROJECT.json`
delimits the damage, and the hazard's note says so. A history variable in a property
(`troubled`, `calm`, `cut`, `crossed`, `mixed`, `outdated`, `alone`, `faulty`) names
exactly what is excused.

Hazards that no property covers: the time a mail server can hold a request after the
connection is made (`smtp.go:27`), which relates to no state of the program; an event that is
announced by `sendMessage` and reported by the mail server under another id
(`server.go:633`), which nothing in the program's state says are one; a late event that puts a
recipient back (`server.go:702`), which nothing in the program's state tells from a new one.

To do: a run of `Bundle` with two installations; the interplay of a restore with requests in
progress, which needs one module over the tables of several of these.
