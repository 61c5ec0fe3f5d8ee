# Formal models of Signara

Signara is a multi-tenant electronic signature platform: a NestJS API
(`src/apps/api`) over PostgreSQL (Prisma), Redis queues (BullMQ), an object
store (MinIO or Onyx) and a search index (Meilisearch), with a web console
(`src/apps/web`). This directory holds TLA+ models of its logic, the TLC runs
that check them on small instances, and TLAPS proofs.

The recurring difficulty of this code is that its handlers are sequences of
awaited database and queue calls with (almost) no transaction around them: a
handler reads a row, decides, and writes several awaits later, while any other
handler, on any API replica, may run in between, or the process may stop. The
models therefore have one step per await that changes or reads shared state. The
console has the same shape from the other side: a page sends a call, goes on
taking input, and applies whatever answer arrives to the state it has by then.

Paths are relative to `src/apps/api/src` (API), `src/apps/web/src` (console) or
`src` (`docs/`, `scripts/`).

## 1. Inventory

| Component | State | Operations | What is hard, and what makes it correct |
|---|---|---|---|
| Signing request (`modules/signatures`) | `SigningRequest`, `Signer`, `Signature`, `SignatureEvent`, `Document.status`, mail jobs | create, public session, sign, decline, cancel, in-person hand-over, lazy expiry, advance | Decisions on stale reads, unconditional status writes, crashes between four related writes. Signatures in order; complete only when all signed; terminal statuses final; someone can always act |
| Reminders (`signatures.service`, `jobs/reminder-scheduler`) | reminder events and counts, the repeatable job | manual reminder, due sweep | throttle and cap are read before they are written; the overshoot stays bounded by the calls in flight |
| Signing mail and notifications (`jobs`, `modules/notifications`, `mailer`) | jobs, `Notification.status` | invite, remind, completion, notice, mark read | at-least-once jobs, a transport that refuses, is absent, or takes a mail without its answer arriving; one mail, an observable status |
| Webhooks (`modules/webhooks`, `jobs/webhook*`) | `WebhookEndpoint`, `WebhookDelivery`, queue jobs, notifications | create, enable/disable, remove, ping, emit, deliver, health sweep | POST and its record are two steps; retries; a sweep that decides on reads. The log agrees with the queue and the subscriber; a live endpoint is not disabled |
| Documents (`modules/documents`, `storage`, `admin.reindexSearch`) | `Document`, `DocumentVersion`, objects, index entries | upload, add version, edit, delete, reindex, download | three stores and no common transaction; a key derived from a read. Versions immutable; pointer = latest; index catches up |
| Object-store migration (`scripts/migrate-object-store.mjs`, `storage/minio.service`) | two buckets, the configured one | copy, verify, dry run, cut over, roll back | a run copies a list while documents arrive; nothing is lost |
| Templates and fields (`modules/templates`, placement, capture and evidence in `signatures`) | template fields, placements, field values | save, remove, place, self-sign, fill, report | a save races with a send; values are written after the signature |
| Certificates (`modules/certificates`) | `Certificate`, DNS records, orders | import, provision (ACME, Cerulean, script), revoke, sign with | checked before, used after; rows keyed by serial number and written over, deletions nobody looks back at |
| Demo room (`ensureDemoSession`) | one demo document, request, token | reset by any visitor | resets delete each other's rows |
| Sessions (`modules/auth`, `guards/jwt-auth`, `lib/api.ts`) | `Session`, user status, the browser's cookie | login, refresh, logout, logout everywhere, suspend | parallel fetches refresh one cookie; rotation must not fork nor lose the login |
| Tenancy (`guards`, `users`, `organizations`) | memberships, roles, statuses | resolve the principal, invite, change role, remove, create | a role read before the row it protects is deleted |
| Billing (`modules/billing`) | accounts, subscriptions, coupons, invoices | account, subscribe, apply coupon | a coupon's limit is read before it is counted |
| Template editor, send wizard, signing room (console) | React state, `localStorage`, timers | edit, autosave, save; recipients, submit; sign, decline | an answer meets a state that moved on |
| Document, webhook and team pages (console) | what the last load answered | the page's calls and reloads | answers out of order |
| Audit, branding, queues, metrics, landing pages, deployment | independent rows, gauges, none | single reads and writes | – |

How they interact: controllers call the services; `SignaturesService` appends
every event through `recordEvent`, which also calls `WebhooksService.emit`, and
queues mail jobs; workers of the same process (one per replica) take jobs and
call the services back; the health sweep creates notifications;
`SignaturesService` reads `Document.fileKey` and the stored bytes, and writes
`Document.status`; certificates are consulted inside `sign`; template fields are
copied onto a request by `createRequest`; each page of the console calls the
API's services through `lib/api.ts`, whose silent refresh calls the sessions.

`PROJECT.json` has the same list with a status for each part, and the hazards
this code is exposed to, at the line where each bites.

## 2. Modules

```
Envelope            what createRequest fixes         (constants, no state)
  SignatureLedger   abstract: an ordered ledger of signatures
  SigningRequest    the request, its handlers        MCSigningRequest
    SigningRequestProofs
Webhooks            endpoints, deliveries, sweep     MCWebhooks
  WebhooksProofs
VersionHistory      abstract: an append-only history of versions
  Documents         versions, objects, index         MCDocuments
    DocumentsProofs
Faults              calls that fail              (one constant, one variable)
  Transport         what the next two share
    Reminders       throttle, cap, the sweep         \
      RemindersProofs                                 | MCMail
    MailWorker      jobs, retries, notifications      |
      MailWorkerProofs                               /
  Sessions          tokens, parallel refreshes       \
  Tenancy           members, roles, guards            | MCAccounts
  Billing           subscriptions, coupons            |
    AccountsProofs                                   /
  Fields            templates to evidence            \
  Certificates      issuing, importing, signing       |
  DemoSession       the demo room                     | MCEvidence
  StoreMigration    from one store to another         |
    EvidenceProofs                                   /
TemplateEditor      drafts, timers, saves            \
SendWizard          recipients, submit                |
SigningRoom         two tabs on one link              |
ConsolePages        pages that load again             | MCConsole
  DocumentDetail, WebhookPanel, TeamSettings          |
    ConsoleProofs                                    /
```

The modules of one MC module share no written variable but the number of faults;
a behaviour of the MC module is a behaviour of one of them, chosen by `part` (or
`screen`) in the initial state. Each is so checked on its own, and its state
space adds to the others'. An MC module extends its components, as the module
of proofs beside it does, so that the runs check the very definitions that the
theorems are about; names are therefore distinct between them (`MailSpec`,
`TenancySpec`, `PanelNext`). The proofs of modules that are run together are in
one module.

A definition commented `Slip:` is the definition that follows it with a plausible
bug. It is used by no specification: the mutants of `PROJECT.json` put it in
place of the real one to show that a property can fail.

### SigningRequest

One request, its document's status, and the calls in flight. A call is a slot
with a `pc` naming the await it stands before.

| TLA+ | Code |
|---|---|
| `Init`, `Create*` | `createRequest` from its insert on (the insert is one nested write); the validation before it is `Envelope`'s `EnvelopeType` |
| `OpenSession`, `Promote`, `View`, `RecordViewed` | `publicSession` |
| `Sign`, `CheckTurn`, `RejectSignature`, `CollectSignature`, `MarkSigned`, `RecordSigned` | `sign`; `CheckTurn` is `canSignerAct`'s read |
| `AdvanceWorkflow`, `InviteNext`, `EnqueueInvite`, `CompleteRequest`, … | `advanceWorkflow` |
| `Decline` … `PauseRequest`; `Cancel` … `RecordCancelled`; `HandOver` … | `decline`, `cancel`, `inPersonSession` |
| `ExpireRequest`, `RecordExpired` | `markRequestExpired`, reached only from a call |
| `DeadlinePasses`, `Fail` | the clock, and a call that dies before its next await |

### Webhooks

The endpoints of one organization, their delivery rows and jobs, the enqueue
loop (`fanout`), the workers, and the repeatable sweep job. `accepted` counts
the 2xx answers that arrived, `lost` those that did not, or came after the
timeout: what the subscriber accepted is both, and the code sees neither after a
crash. `endpoint.status` splits the code's `active = false` into `off` (an
operator) and `swept` (the sweep), for the properties only. `StartDelivery` is
the read of `deliver`; `Post` its four outcomes (accepted, accepted with the
answer lost, refused, no answer); `Record*` the three updates with the control
flow of the try/catch around them (a failed DELIVERED update lands in the catch
and is written as FAILED); `Settle` is the queue's retry policy; `Sweep*` the
loop of `sweepUnhealthyEndpoints`, one await each, of which `SweepNotify` may
find nobody to notify.

### Documents

One document. `call` holds the handlers, `requests` the index requests they sent
without waiting (`void this.meili…`): a handler that has sent one goes on, and may
send the next, while any number are under way; each arrives later, in any
order, or is refused. `changes` numbers the changes of the row, and a request
and the index carry the number they were made at, for `IndexCurrent` only.
`InsertVersion` is the transaction up to its commit, `CommitVersion` the commit;
the row lock is `Locked`. A key is the pair of version number and extension, as
`addVersion` builds it.

`VersionHistory` is what a document promises whoever signs, downloads or audits it: a
sequence of files that is only appended to, read in one step. `Documents` refines it
with the files of the rows 1 to `document.version` as `history` and `served` as
`reads`: `CreateDocument` and `CommitVersion` append, `GetObject` reads, all other
steps stutter.

### Reminders and MailWorker

`Reminders` has the two callers of `dispatchReminders`: `Remind` (the handler)
and `StartSweep` (the due job), with `ReadSigners` and `ReadEvents` the two reads of
`eligibleReminderTargets`, then per signer `QueueReminder`, `CountReminder` and
`RecordReminder`. A handler is one of `Calls`, the `remind()` requests under way
at once on whatever replica, of which one process serves any number between its
awaits, or one of `Workers`, the due job of each replica, of which it runs one.
`queued` counts the jobs of each signer, the automatic ones and those of the
present tick, which is what the throttle and the cap are about. `MailWorker` has
one job of each kind: read the rows (`StartSigning`, `StartCompletion`,
`StartNotice`), `Send` with its outcomes (taken; taken, but `sendMail` threw, as
after a timeout behind DATA; refused; no transport), the notification's
`Record*` before and after, and `Settle`, the queue's attempts. `mails` counts
what the transport confirmed, `doubtful` what it took without saying so.
`Stalls` gives the job to another worker.

### Sessions, Tenancy and Billing

`Sessions` is one user in one browser: `StartFetch`, the guard's `Accepted`, the
wrapper's `Answer` with one silent `refresh` (`FindSession`, `RevokeOld`,
`CreateNew`, `Retry`). A session is named by its refresh token. `Tenancy` resolves
a principal (`Start…`) once per call and acts on it over the following awaits.
`Billing` has one step per await of `createSubscription` and `applyCoupon`.

### Fields, Certificates, DemoSession, StoreMigration

`Fields` follows a template's fields through `createRequest`
(`placeTemplateFields`) or `selfSign` to the values captured by `sign` and the
entries of `evidenceReport`. `Certificates` has `importCertificate`, `provision`
by each provider (ACME sets and clears a TXT record around its order, Cerulean
polls), `persistIssued` with its upsert by serial number, `revoke`, and the
certificate's part of `sign`. A signature keeps the serial number and the key it
was made with, as `sign` does; the certificate that it is verified against is
the one the row holds by then, and `replaced` marks the signatures whose row has
taken another since. `DeleteTxtRecord` is one DELETE of the loop that clears a
challenge; the DNS may refuse it, which the code does not look at, and the record
is then `stranded`. `DemoSession` is `ensureDemoSession`, one delete or
create at a time. `StoreMigration` is the script's loop (stat, read, write, read
back and compare), the uploads that go on, and the operator's `Cutover`, taken only
after a run that reported no failure.

### The console

`TemplateEditor` has the effects React runs after each change as part of the
action that makes the change; the timer of the autosave is a step of its own
(`WriteDraft`), and so is the answer to a save, which may find another template open.
`SendWizard` numbers recipients as the code does after each change, and
keeps what the server was sent. `SigningRoom` is two tabs on one token together
with the API's side of their calls, await by await: `FindSigner` reads the status,
`AskTurn` asks `canSignerAct`, and then `sign` inserts the row, captures the fields
and marks the signer (`InsertSignature`, `CaptureFields`, `MarkSigned`), `decline`
marks it (`MarkDeclined`), and `publicSession` marks a view and reads the fields
(`AskView`, `MarkViewed`, `ReadFields`). Nothing is compared when a status is
written, so a sign, a decline and a view that are past their checks together all
succeed (`raced`). `DocumentDetail`, `WebhookPanel` and `TeamSettings` give each
call of a visit a slot (asked, written or refused, answered, followed by a load),
so that answers may arrive in any order; `undone`, `unlisted` and `dropped` are the
changes that an older answer, or a failed one, keeps off the page. The team page
lists the oldest `Limit` members (`elders`), as `/users?limit=50` does.

## 3. Runs

| Run | Instance | Shows |
|---|---|---|
| `request_serial` | 3 recipients, any roles after a first signer, one call, no faults, all operations | what the documentation promises of an undisturbed request: `NeverStalls`, `ExpiredMeansUnsigned`, `DeclineStopsRouting`, `CancelledNotReopened` |
| `request_races` | 3 recipients (in sequence and invited they all must act; in parallel the last is a copy, and nobody is mailed), 2 concurrent calls that open, sign, decline or, in parallel, cancel, one crash | what survives races: `InOrder`, `ReleasedInOrder` (whichever of `advanceWorkflow` and `publicSession` releases), `CompleteMeansAllSigned`, and the ledger as abstract specification |
| `request_routing` | 3 recipients of every mix of signer, approver and copy after the first, 2 calls that sign or hand over, fair | `LastSignatureCompletes`: the last signature reports completion |
| `webhooks` | 1 endpoint, 1 row, 2 workers, 2 tries, window 1, two ticks, one fault, fair | the delivery log against the subscriber and the queue (`DeliveredMeansAccepted`, `AcceptedOnce`, `EveryAttemptRecorded`, `LogAgreesWithQueue`); `SweepOnlyDead` while the other worker delivers; `Resolves` |
| `document_versions` | 1 writer, 1 reader, 4 versions, 4 changes, 3 files of 2 types, one fault | the version history as abstract specification |
| `document_races` | 2 writers, 3 versions, 3 changes, 3 index requests under way, 2 files of one type, one fault | `PointerIsLatest`, `NoDanglingKey`, `VersionsImmutable` but for a rival, `IndexCurrent` |
| `mail_jobs` | 2 signers, 2 replicas, 2 `remind()` calls, cap 1, 2 days; 2 workers, 2 tries; one fault | `TrailBacked`: no event claims a mail never queued; `ThrottleOvershoot`, `CapOvershoot`: by how much racing handlers pass the limits; `MailedOnce`: one mail, one more per fault, and no more than the tries; `NoticeAgrees`: a finished notice has a true, final status |
| `accounts` | 2 parallel fetches and 4 sessions; 2 users, 2 organizations, 2 calls; 3 payers and a coupon for one | `NoFork`, `BrowserHoldsLive`: rotation; `OwnerLostOnlyByDemotion`: removals alone leave an owner; `BillingAgrees`: the coupon's count and its redemptions, and an account's plan, subscriptions and invoices |
| `evidence` | 3 drafts of a template, 1 send, 2 rooms; 2 certificates with one serial number, 2 operations, a DNS that may refuse a deletion; 2 visitors; 2 stores and 2 documents; one fault | `PlacedWhole`, `EvidenceWhole`, `SignatureVerifies`, `DnsClean`, `DemoHeals`, `NothingLost` |
| `console` | 2 templates, 1 field, 2 pages; 3 recipients; 2 tabs, 2 calls in the API, 1 field; 4 calls per visit; 2 members of whom the page lists 2 | `DraftFollowsEditor`, `RequestsRoutable`, `ThanksForTheRecord`, `PagesCurrent` |
| `viewing_loses_completion` | expected violation | a page view overwrites SIGNED, the request never completes |
| `fields_dropped` | expected violation | recipients numbered 0 and 2: the second one's fields are bound to nobody |

The properties of `request_serial` are checked with one call at a time, because
the unconditional writes of section 5 break them under races; `request_races`
holds what survives, and `ClosedForGood` (section 4) what remains of "closed"
under any of them.

**Bounds.** *Calls*, *Workers*, *Ops*, *Slots* bound the calls in flight or of
one visit. Where slots are reused (everything but the pages) two suffice for every
race between a read and a write of a pair of handlers. *NumSigners* = 3 is the
least number with an earlier, a next and a later recipient. In `request_races` a
sequential request is not cancelled, since a cancellation releases nobody and takes
no signature; the parallel one is, against its completion. *MaxFaults* = 1: one
crash, refused write or lost answer at any await; every property is checked
against a fault at every point. An answer lost after the other side acted is no
fault in `Webhooks`, `MailWorker` and the console: it may happen at every try.
*Webhooks*: two tries give a retry and a give-up; one row, two workers and two
ticks let a delivery succeed between the sweep's reads and its write, and a
window, a failure count and a clock of one tick give both sides of each
comparison. *Documents*: two files of one type share a key, one of another does
not; four versions let a version be recorded, superseded, and read as an old one;
three requests let a newer one arrive between two older ones. One writer has at
most one request under way in `document_versions`, which says nothing of the
index. *mail_jobs* runs `Reminders` twice: as `pair`, any request, at most two of
the four handlers at once and three reminders, and as `crowd`, the first signer of
a sequential request, who does not sign, with all four handlers at once and five
reminders, so that each passes the throttle and one comes too late; two ticks are
a day and the next. *accounts*: four sessions are a login, its rotation, the next
login and a rotation of that; three payers with a coupon for one let two calls
race for it and a third come late. *evidence*: the templates are one for one
recipient with an optional field, one for two, and one that cannot be sent; two
certificates with one serial number are what makes the upsert interesting; two
documents let one be copied and one be late; three demo sessions are one, the
next once it has ended, and one that another visitor makes meanwhile. *console*:
one field moves between two pages of two templates; two calls in the API are a
sign and a decline, or either and a view, past their checks together; four calls
are a change, its reload, and another of each; somebody invited is the third
member of a list cut off at two. Models of symmetric sets are declared symmetric
in runs that check no temporal property; `request_races` checks the ledger, a
safety property, under the symmetry of its calls, which the refinement mapping
does not distinguish.

**Fairness.** `SigningRequest.FairSpec` has weak fairness on the next await of
each running call (the event loop runs it) and none on clients, so nobody is
obliged to sign, open or cancel. `Webhooks.FairSpec` has weak fairness on the
enqueue loop and on each worker, and strong fairness on starting each waiting
job: the queue is first in, first out, so a job is not passed over for ever by
sweeps. The other modules have no liveness property and no fairness.

**Deadlock** is not checked where the system really stops: a request that has
ended and whose calls are done, rows, clock, sessions or calls of a visit used up, a
page that was left. `Documents` is checked for it.

## 4. Proofs

Every theorem is about the module's specification for all values of its constants; the
runs check the same formulas on small instances. "Fault" is a crash or a refused
write, as in the module. Few of the properties are inductive: each handler acts
on a read made awaits ago, so each module's invariant `IInv` says what a call,
worker or script may still rely on at each of its awaits. They are
stated in the modules of proofs.

| Module | Theorem (property) | Assumes |
|---|---|---|
| `SigningRequestProofs` | `TypeCorrect`, `SequentialOrder` (`InOrder`), `CompletionIsEarned` (`CompleteMeansAllSigned`), `RoutingOrder` (`ReleasedInOrder`), `SignedIsBacked` (`SignedHasRow`), `RequestImplementsLedger` (`ImplementsLedger`) | the named assumptions of `Envelope` and `SigningRequest` |
| | `ClosedForGood` | the same |
| | `DeclineIsFinal` (`DeclineStopsRouting`) | and `OneAtATime` |
| `DocumentsProofs` | `TypeCorrect`, `LatestVersion` (`PointerIsLatest`), `ObjectStored` (`NoDanglingKey`), `ImmutableButForRivals` (`VersionsImmutable`), `LastRequestIndexes` (`IndexCurrent`) | `DocumentAssumption` |
| | `OneWriterKeepsHistory` (`ImplementsHistory`) | and `OneWriter` |
| `WebhooksProofs` | `TypeCorrect`, `DeliveredIsAccepted` (`DeliveredMeansAccepted`), `AcceptedAtMostOnce` (`AcceptedOnce`), `AttemptsAreRecorded` (`EveryAttemptRecorded`), `LogIsTheQueues` (`LogAgreesWithQueue`), `SweptIsDead` (`SweepOnlyDead`) | `WebhookAssumption` |
| `MailWorkerProofs` | `SentAtMostOnce` (`MailedOnce`), `NoticeIsTrue` (`NoticeAgrees`) | `MailWorkerAssumption` |
| `RemindersProofs` | `EventsAreBacked` (`TrailBacked`), `ThrottleBound` (`ThrottleOvershoot`), `CapBound` (`CapOvershoot`) | `ReminderAssumption` |
| `AccountsProofs` | `RotationsNeverFork` (`NoFork`), `LoginIsKept` (`BrowserHoldsLive`) | – |
| | `OwnersRemain` (`OwnerLostOnlyByDemotion`), `MembersOfWhatExists` | – |
| | `BillingBooksAgree` (`BillingAgrees`) | `BillingAssumption` |
| `EvidenceProofs` | `TemplatePlacedWhole` (`PlacedWhole`), `EvidenceIsWhole` (`EvidenceWhole`) | `FieldsAssumption` |
| | `SignaturesVerify` (`SignatureVerifies`), `DnsIsCleaned` (`DnsClean`) | – |
| | `DemoRoomHeals` (`DemoHeals`) | – |
| | `NoDocumentLost` (`NothingLost`), `SuccessIsComplete` | `MigrationAssumption` |
| `ConsoleProofs` | `DraftIsTheEditors` (`DraftFollowsEditor`) | `EditorAssumption` |
| | `RequestsAreRoutable` (`RequestsRoutable`) | – |
| | `ThanksAreTrue` (`ThanksForTheRecord`) | `RoomAssumption` |
| | `PagesAreCurrent` (`PagesCurrent`) | `TeamAssumption` |

The assumptions are the constants' types, and two that restrict the program:
`OneAtATime` and `OneWriter` say that only one call or one writer is there, as the
runs of these two properties do, since races break them (section 5). They do not
exclude crashes, and readers may race with the one writer. Of the others,
`FieldsAssumption` has recipients to send to and `"none"` for no room,
`BillingAssumption` finitely many calls at once, `ReminderAssumption` finitely many
handlers, `TeamAssumption` finitely many people, the owner among them, and that
somebody invited is not a member already (the API refuses to invite one twice),
and `EditorAssumption`, `BillingAssumption` and `RoomAssumption` that the tokens for
no template, no plan and no call are not themselves one.

**SigningRequest.** `RowInv`: a SIGNED status has its row; a signed recipient is
required, all earlier ones signed, and its status never returns to PENDING.
`CallInv(c)`: what a call may rely on at each await. Statuses can be overwritten,
but signature rows only grow, so "all earlier recipients have *signed*" survives any
interleaving although "all earlier statuses are SIGNED" does not. `Grows` names
the monotone facts the step lemmas share. The refinement maps `collected` to the
signature rows and `completed` to the completion event; `CollectSignature` is
`Collect`, `RecordCompleted` is `Close`, all else stutters.

Statuses of the request are another matter: each handler writes them without
comparing. What `ClosedForGood` proves, for any number of calls, is that only a
call already in flight when the request closes can reopen it, release somebody or
announce anything but a cancellation: `Settled`, closed and with nothing but cancellations
under way, is inductive, since every other handler refuses at its first read.

`DeclineIsFinal` needs one call at a time: the recipient's status is then as the
call read it (`ReaderInv`), so after a recorded decline the recipients before it
stay SIGNED, and `canSignerAct` lets nobody through to an await that releases
anybody (`DeclineInv`).

**Documents.** A version is numbered at most one above the document's, hence exactly
one above once the unique index has let it in, and one transaction is open at a
time. A key carries its version's number (`KeyInv`), for any number of writers;
so nobody stores under a recorded version's key but whoever is about to be refused
its number, which is all that `VersionsImmutable` excepts. With one writer, an
object has the file its row names (`WInv`), on which `OneWriterKeepsHistory` rests:
what a read gets, awaits after it read the key, is what the history has under its
number. `RequestInv`: an index request made after the last change shows the document,
or the version being committed; whichever order they arrive in, the index is one
of them.

**Webhooks.** A job is held by one worker at a time (`HoldInv`, `QueueInv`). From
this follows what its holder knows at each await: that the subscriber accepted
(`AcceptInv`), that nobody will post the event again (`OnceInv`, with a term for each
fault), that with the answers it never saw no more was posted than the queue tried
(`SentInv`), how many attempts the row has (`CountInv`) and what it says (`LogInv`).
`DeadInv` is what the sweep's reads are worth while other workers deliver: a row
tried after the success it read stays so, as a failure or as a newer success
(`TriedAfter`), so without a newer success there are still enough failures.

**MailWorker.** The same shape: `HoldInv`; `OnceInv`, what is left to do with a job
whose mail was confirmed; `SentInv`, one mail for each try, confirmed or not;
`NoticeInv`, what the row says at each await.

**Reminders.** `BackedInv` orders the three writes. The bounds are counting
arguments: the reminders of a signer in a tick are bounded by the handlers that stand
between two writes for it (`Senders`, `Recorders`), those that still have it on a
list they made before (`Coming`), and the faults; and the automatic ones likewise,
of the workers alone, against the cap.

**Sessions.** `ChainInv`: a token has one successor, and none while it is live; a
login has one live session. `RotationInv`: the fetch whose revoke counted finds the
login without a live session, the old token without a successor, and is alone
between its two writes. `AnswerInv`: the token of an answered rotation stays live
unless the login is ended, because nobody else names it yet. `HoldInv`: the cookie's
token is live, or some fetch is about to bring the next.

**Tenancy.** That an organization has an owner is not inductive: a removal deletes
whoever it read as a member, who may have become the owner since. `OwnerInv` is that
one of the owners is not about to be removed. It needs `CallInv`: a call works in an
organization that exists, so none is waiting for the founder of a new one.

**StoreMigration.** `RunInv`: what a run has achieved for the objects it passed.
`VerifiedInv`: what a run that reported success vouches for while the API goes on
storing; a cutover relies on that alone.

**Billing.** An accounting argument for the coupon: a redemption that is not counted
is about to be, or was lost to a fault, and a call that is about to redeem has read
a count below the limit, so the calls at once bound by how much the limit is passed
(`CouponInv`). The books are another: what is owed is invoiced or about to be
(`OwedInv`), and the plan is that of a subscription, or of one that a call is about
to set (`PlanInv`).

**Fields.** `createRequest` places what it read awaits ago: what it holds is a version
that was saved, whole (`SendInv`). `sign` writes the values it checked before the
signature: they still pass when it writes them, unless the room was opened before the
fields were placed (`RoomInv`), and only the call whose signature stands writes
any (`SignatureInv`, `EvidenceOf`).

**Certificates.** `RowInv`: a row holds the key of its certificate, or none, unless it
is one that `reissued` marks (section 5); a signature names a row (`NamesRow`).
`TxtInv`: a record in the DNS, unless it is stranded, belongs to an order that is
still to delete it, and has listed it once it deletes; an order holds its name
until then (`AcmeInv`).

**DemoSession.** Resets delete one another's rows, so no call by itself is sure to leave
a room. `TokenInv`: while nobody has the token, some call is past the deletion
of others and its own rows stand (`Viable`); `PlaceInv` is the same for the fields.

**TemplateEditor.** `TimerInv`: at most one timer waits, and it has the fields that are
on the screen. **SendWizard.** `WizardInv`: the list is numbered from 0 without a gap
after every change, so each row is in its place (`NumberedOrder`). **SigningRoom.**
`WaitInv`: a tab waits for a call of its own, and its form does not change under
it. `RowInv`: only one call gets the signature row, and what it sent is what is
recorded, whatever statuses are written meanwhile. `StatusInv`: as long as no calls
of two kinds were past their checks at once, those that are past them, and the
status they will find, are of one kind.

**The pages.** Each has the same argument: a change that the page does not show is on
its way to it, in a load that has read it or is still to read or in a call that
will load (`Brings`, `Brought`, `Carried`), or was hidden by an older answer or a
failed one (`undone`, `unlisted`, `dropped`), or else the page shows an error. A
list that was read is what the changes it knows of have made (`Right`, `Lists`),
and of the members it leaves out only those before whom `Limit` others had joined
(`LeftOut`). `Outcome` computes the team from the set of changes, in whatever order,
because nobody is removed before they were invited or invited twice.

Only model-checked: liveness (`LastSignatureCompletes`, `Resolves`), which is out
of the prover's reach, and three of the properties of `request_serial`
(`NeverStalls`, `ExpiredMeansUnsigned`, `CancelledNotReopened`), which say what one
call at a time keeps and no more: the code does not serialise calls, and section
5 has what races make of them. The expected violations are TLC's as well. Every
other property of a passing run is a theorem.

## 5. Known divergences

What the code does that its documentation, or a reader, would not expect, met
while modelling. Two are runs that end in a violation (`viewing_loses_completion`,
`fields_dropped`; `PROJECT.json` quotes the sentence of the code or docs that
each contradicts). The others are excepted, by name, in the property that would
otherwise fail, or excluded by the instance of its run, which the table says.

| Where | What happens | How the models treat it |
|---|---|---|
| `signatures.service.ts:587` | a decline that read the request before a cancel (or an expiry, or a completion) writes IN_PROGRESS over it | `CancelledNotReopened` is checked one call at a time; `ClosedForGood` proves that a call not yet in flight cannot |
| `signatures.service.ts:627`, `:1266` | cancel and the completion each write their status unconditionally, and overwrite each other | the same |
| `signatures.service.ts:1294` | expiry is lazy: an untouched request is never marked EXPIRED, though `docs/UserGuide.md:140` says that it is | modelled as it is; no property claims it |
| `signatures.service.ts:1295` | the expiry is written from a deadline read before; a last signature that passed its check before the deadline may complete the request in between, or after | `ExpiredMeansUnsigned` is checked one call at a time |
| `signatures.service.ts:417-593` | `sign` and `decline` of two tabs both pass their status check before either writes, and both answer success; the status is that of the last to write | excepted in `ThanksForTheRecord` (`raced`) for the status; the signature and its values are on record even so |
| `signatures.service.ts:193` | a carbon copy at index 0 of a sequential request is "invited" and nobody may act | `NeverStalls` is checked for routes whose first recipient signs |
| `webhooks.service.ts:443` | the sweep disables an endpoint on which another replica records a success between its read of the last one and its write | excepted in `SweepOnlyDead`, with nothing else |
| `webhooks.service.ts:447` | a sweep that dies after disabling never notifies, and where nobody may be notified (508-512) it tells nobody, though `docs/Webhooks.md` promises a notification | both are modelled; no property claims it |
| `webhooks.service.ts:600-617`, `:648` | a POST whose 2xx is lost, or comes after the timeout, is recorded as a failure and tried again: the subscriber accepts the event twice, and the log may end FAILED | `AcceptedOnce` bounds the deliveries by the tries; `LogAgreesWithQueue` is about answers that arrived |
| `mailer.service.ts:151` | `sendMail` may throw after the transport took the mail; the retry sends another | `MailedOnce` bounds both kinds by the tries |
| `notification.processor.ts:60-61` | the comment says that without SMTP the row says SENT and not DELIVERED; `send` returns quietly and the code writes DELIVERED. SENT itself is written before the transport has seen the mail | modelled as the code does it; `NoticeAgrees` claims DELIVERED only where there is a transport |
| `documents.service.ts:97`, `:207`, `:264` | index requests are not awaited: one that is overtaken leaves the index at an older state until the next change or `reindexSearch` | `IndexCurrent` is about an index whose last request to arrive was made after the last change |
| `documents.service.ts:239` | two uploads of one version number share a key: the refused one replaces the bytes of the recorded one | excepted in `VersionsImmutable` (a rival, which will be refused), for any number of writers; `ImplementsHistory` holds for one writer at a time |
| `template-editor-client.tsx:145` | the answer to a save replaces edits made since, and removes the one draft key, even when it holds the draft of another template | excepted in `DraftFollowsEditor` (`wiped`) |
| `send-wizard-client.tsx:125` | after a lost answer the second try sends a second request | `RequestsRoutable` is about each request |
| `certificates.service.ts:198` | a certificate issued without a key over a row with its serial number keeps the key of the certificate that was there | excepted in `SignatureVerifies` (`keptKey`) |
| `certificates.service.ts:155-157`, `:222-224` | a signature keeps the row's id and serial number; a later import or issue with that number puts another certificate into the row, against which the signature no longer verifies | excepted in `SignatureVerifies` (`replaced`) |
| `acme.provider.ts:158-163` | the answers to the DELETEs of a challenge's records are not looked at: a refused one leaves its record while the order goes on | excepted in `DnsClean` (`stranded`) |
| the console's pages | an answer asked for earlier that arrives last hides the changes shown before it, until the next answer | excepted in `PagesCurrent` (`undone`, `unlisted`, `dropped`), which says exactly which rows are then missing |
| `settings-client.tsx:108` | the page asks for 50 members and has no next page: of a larger team the newest are not listed | `PagesCurrent` is about those before whom fewer than `Limit` had joined |
| `scripts/migrate-object-store.mjs:117` | documents stored after the run listed the bucket stay behind, and the run reports success | excepted in `NothingLost` (`late`, `dropped`) |
| `users.service.ts` | nothing refuses to give the last owner a lesser role | excepted in `OwnerLostOnlyByDemotion` (`demoted`) |

## 6. Not modelled, and why

Within the modelled components: contents of fields, mails, payloads and evidence;
cryptography; file and URL validation and the other pure string functions; PDF
rendering; the webhook that each request event also queues (`Webhooks` takes any
sequence of events); two requests on one document; certificates' `verify()` and
the scores of identity assurance, which only read; rows of workspaces, teams and
API keys; the identity provider's protocol. `faults` are crashes and refused
writes, and in `Sessions` and `StoreMigration` also lost answers; in `Webhooks`,
`MailWorker` and the console answers are lost without being counted.

Audit and branding are single reads and writes of independent rows. Queues'
retry policy is a constant of the modules that use one; metrics only observe.
Translations, the dashboard, the list of documents, the landing page, the
browser-only demo page, and the profile and organization forms show one answer of
the API or only local state. Deployment files and the generated API description
hold no behaviour.

## 7. What comes next

An abstract specification worth stating is a delivery as at-least-once hand-over for
`Webhooks`. Two requests
on one document, and the webhook events of a request against its trail, would
compose the components further.
