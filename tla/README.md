# Verification of the LFX member service

This directory models the parts of `lfx-v2-member-service` in which state is
shared, messages are in flight, or a failure between two steps matters. The
models are checked with TLC on small instances, and the invariants that matter
most are proved with TLAPS for every value of the constants. Source paths below
are relative to the repository root.

## The system

The service puts an HTTP API and a change-event consumer between Salesforce
(Accounts, membership Assets, `Project_Role__c` key contacts) and two
read sides: the search index (indexer-service) and the authorization model
(fga-sync). Everything it tells those two goes through NATS. State of its own is
in NATS key-value buckets.

```
 Salesforce --Pub/Sub events--> subscriber --channel--> CDCConsumer.Run --+
      ^                         (cursor in pubsub-state)                  |
      |                                                                   v
      +--- reads (quota, cache) ----------------------------------> NATS: index,
                                                                    fga messages
 HTTP API (several pods) --- org-settings, org-workspaces, ------------>  ^
                             key-contact-grants, read cache buckets       |
 /admin/reindex runs ------- cdc-repair, backfill-lock buckets ---------> |
 invite_accepted events ---- org-settings ------------------------------> |
```

### Components

| Component | State it keeps | Operations | What makes it correct | Module |
|---|---|---|---|---|
| CDC consumer, Account and Asset events (`internal/service/cdc_consumer.go`) | position, handler progress; cursor; recovery markers | take, delete, upsert, absent, restore, quota skip, commit | no purge is lost, every removal is confirmed or queued, restores are complete before the cursor moves, no event stalls the channel | `CdcConsumer` |
| Key-contact grants (`key_contact_grant.go`), as used by the `Project_Role__c` handler and the key-contact writer | one entry per contact, with a revision: the pair granted last and a pending removal | put, record, sibling scan, remove, recheck, settle, claim, drain | every tuple keeps an address, a pair several contacts justify survives the loss of one | `KeyContactGrant` |
| Pub/Sub stream and cursor (`salesforce/pubsub/`) | committed cursor, stream, channel | subscribe, forward, keepalive, reset, save | at-least-once, a reset never overwrites a newer cursor, the stream catches up | `PubSubStream` |
| Repair queue (`nats/cdc_repair.go`, `backfill_runner.go` `RunRepair`) | markers with revisions | put, select a page, reindex, conditional delete | no marker is dropped unread, a drained queue means an index that is up to date | `RepairQueue` |
| Full-run lock (`nats/backfill_lock.go`) | one key per type | create, inspect, force, release, expire | one holder; a dead holder does not block the type | `BackfillLock` |
| Backfill runs (`backfill_runner.go`, `backfill_request.go`, `salesforce/soql_pager.go`) | page position; nothing that outlives a run | full, windowed and targeted runs, with a start gate and quota stops | every record in scope is published or named | `BackfillRun`; also `RepairQueue`, `BackfillLock` |
| Org settings (`org_settings_writer.go`, `nats/b2b_org_settings.go`) | one document per organization, with a revision | add, change role, remove, bulk update, publish | every change is one whole operation, the last admin stays, tuples follow the document | `OrgSettings`, `SettingsRecord` |
| Invite acceptance (`invite_accepted.go`) | none; three optimistic attempts on the document | promote a pending entry | the right entry is promoted | `OrgSettings` |
| Workspaces (`workspace_writer.go`, `nats/workspace.go`, `nats/workspace_projects.go`) | a registry per organization and a projects document per workspace, each with a revision | create, rename, delete with cascade, add one or several projects, remove | names and slugs unique, no lost update, a deleted workspace leaves nothing | `Workspaces` |
| Read cache (`nats/storage.go`, `nats/cache.go`, `salesforce/member_reader.go`) | entries with an age and a revision | read, refresh in the background, conditional write back, evict | an eviction holds, a write back never replaces newer data | `ReadCache` |
| Outbound messages (`messaging.go`, `nats/publisher.go`) | connection buffer | publish, flush | what is confirmed was received | inside `CdcConsumer`, `KeyContactGrant` |
| B2B org writer and logo upload (`b2b_org_writer.go`, `logo_uploader.go`, `objectstore/client.go`) | the Account in Salesforce; one shared object and scratch objects per organization | check, PATCH, re-fetch, publish; store, commit, copy if newer, arbitrate, roll back | a conditional update replaces what its client saw; the shared key serves the logo that the last commit of an upload left in the record; bytes that a record points at are never lost | `OrgUpdates` |
| Organization links (the Account path of `cdc_consumer.go`, `reindexItem` and its helpers in `backfill_runner.go`, `b2b_org_builder.go`) | none of its own: parent and child tuples in fga-sync, `is_parent` in the index, `b2b_org` markers | handle an Account event read by read, refresh the parents, drain a marker | a link to a former parent is withdrawn or queued; tuples and `is_parent` agree with Salesforce when nothing fails, for every organization an event told of | `OrgHierarchy` |
| Quota gauge and guard (`salesforce/quota_gauge.go`, `rate_limit.go`, `cdc_consumer.go`) | the last reading and its age; the last attempt to refresh it | observe a response, refresh, decide on an event | the guard follows the usage, and leaves a pause again | `QuotaGauge` |
| HTTP transport, authentication, resolvers, e-mail lookups | none shared | | | not modelled |

### Where it is hard

* *Partial failure.* A handler publishes several messages and writes markers; any
  call may fail, and the cursor still moves or is held. A purge is special: once
  the record is deleted nothing re-emits it.
* *Crash and redelivery.* The cursor is committed per event, asynchronously to
  what the subscriber has already read ahead; publishes are buffered until a
  flush.
* *Interleaving.* API pods, the consumer and drains change one document or one
  marker at the same time; only the bucket's revision check orders them, and the
  publish that follows a write is not ordered by it.
* *Stale reads.* A drain selects a marker, reads Salesforce, publishes, and then
  deletes the marker; a request looks an account up, sends an invitation and then
  writes.
* *Shared justification.* Several key contacts may give one user one tuple: whoever
  removes it has to look at the others, which change meanwhile.
* *Time.* A lock goes stale after two hours, retained events expire after 72, a reading
  of the quota after the refresh window.

`PROJECT.json` lists each hazard with its line and the property that covers it.

## The modules

### `CdcConsumer`

One record is a model value with a Salesforce state (`sf`), a document in `index`
and two groups of tuples in `fga`: *team* is what every ordinary upsert writes,
*user* is what only a restore or another component writes. `log` is Salesforce's
event sequence, `saved` the committed cursor, `at` the event being handled and
`wire` the messages in the connection's buffer. `stage` is the handler's place in
the code:

| Stage / action | Code |
|---|---|
| `Take`, `Save`, `Keepalive` | `CDCConsumer.Run` |
| `PublishDelete`, `ConfirmDelete` | `handleAccountDelete`, `confirmDeleteAccessDelivery` |
| `RecordFailedPurge`, `QueueUnconfirmedDelete`, `FinishDelete` | `recordFailedDeleteAccess`, `queueUnconfirmedIndexDeletes`, `processWithAuthorizationRetry` |
| `SkipForQuota`, `FetchFails`, `Fetch` | `quotaExceeded`, `logBatchFetchError`, `handle*UpsertBatch` |
| `PublishAbsent`, `AbsentPublished`, `ConfirmAbsent`, `QueueAbsent` | `handleAccountAbsent`, `removeAbsentFromIndex` |
| `PublishUpsert`, `PublishRestore`, `FinishPublish`, `ConfirmRestore` | `publishB2BOrgUpsertEvents`, `publishRestoredProjectMembership`, `restoreOrgAccess` |
| `Crash`, `Reconnect` | the process dies; `Client.Subscribe` reloads the committed cursor while the channel still holds later events |

`again` is a history variable: the records whose delete was handed out once more from at
or before the committed cursor, and whose last restore has not been completed since.

### `RepairQueue`

An account and the membership it may own share a model value, so that a first
membership makes its owner eligible without an Account event. A document is the
version of the record it was made from; `markers` holds the revision of each
marker. A drain goes through `Select`, `Snapshot`, `Fetch`, `QueueOwner`,
`Project`, `Clear`, `Finish` (or `Retain` and `Abandon` on errors and quota stops).
`readAt`, `covered` and `skipped` are history variables that say which data a
projection was made from.

### `PubSubStream`

The subscriber goroutine, the bounded channel and the consumer's commits, with
events numbered in Salesforce's order. `Connect` starts at LATEST without a
cursor, at EARLIEST after a reset, else after the cursor; a cursor below
`retained` is rejected and leads to `ResetRead` and `ResetWrite`, between which the
consumer may save a newer one.

### `BackfillLock`

`AcquireFullRunLock` step by step: create, inspect, the unconditional delete of a
stale key, create again. Runs may die anywhere, calls may fail before or after
they took effect, and a run may outlast its lock.

### `SettingsData`, `SettingsRecord`, `OrgSettings`

`SettingsData` has the document (two lists, each from people to entries) and the
pure helpers of the code (`countFunctionalAdmins`, `mostLivePrincipal`,
`removePrincipalByEmail`, ...). `SettingsRecord` is the abstract specification: one
variable, five atomic operations, each touching one person's entries or, for a
bulk update, the lists given. `OrgSettings` is the code: a request reads the
document and its revision (`Read`), computes (`ReadForAdd`, `ReadForChange`,
`ReadForRemove`, `ReadForUpdate`), may look up an account (`Lookup`), writes if the
revision is still the same (`Write`), and publishes in two steps
(`PublishAccess`, `PublishIndex`). `Snapshot` and `Conflict` are the promotion's loop
of three attempts. `Record == INSTANCE SettingsRecord WITH record <- doc` is the
refinement. `MCOrgSettings` has two kinds of behaviours in one instance: operations
beside each other, and operations one after another, for what the code provides only
then: these start from documents where nobody is pending beside a live entry, and their
bulk updates list nobody as pending (the code stores such lists as they are given).

### `KeyContactGrant`

A *pair* is a membership and a username; `tuples` are the pairs fga-sync holds.
`grants` is the bucket: the pair granted last for a contact, a marker for a pair whose
removal is not confirmed, and the revision. The consumer and the other writers (API
requests, backfills) run *programs*: the sequence of calls still to make, each
replaced by the calls that follow from what it finds. A program starts with `Take` (an
event of the consumer), `Create`, `Update`, `Delete` (the API) or `Republish` (a backfill)
and goes through the functions of `key_contact_grant.go`:

| Calls | Code |
|---|---|
| `snapshot`, `lookup`, `save`, `delete`, `publish`, `record`, `write` | the handlers, `publishKeyContactFGA`, `putKeyContactGrant` |
| `scan`, `flush`, `recheck`, `verify`, `settle`, `reassert` | `revokeKeyContactPairIfUnjustified` and the put that undoes a remove |
| `own`, `justify`, `claim`, `claimed`, `regranted`, `compare` | `keyContactPairJustified`, the transfer of a pair to a sibling's entry |
| `clearMarker`, `expire`, `clear`, `erase`, `settleStale` | `clearPendingRevoke`, `revokeKeyContactGrantIfNoLongerLive`, the conditional deletes |
| `catch`, `stop`, `keepMarker`, `recover` | what a caller does with an error |

`wire` is each worker's connection, so that a put and a remove of two workers arrive
in any order, and those of one worker in theirs. `Excused` names the pairs the code
knows it cannot address: an error that is only logged, or a message that was lost.

### `Workspaces`

A request reads the registry and perhaps the projects document, each with its
revision, computes, writes if the revision is still the one read, and publishes one
index message per workspace or association. `DeleteWorkspace` is the long one: guard,
read the projects for their tombstones, delete the document, write the registry,
publish. Revision 0 stands for an absent document *and* for a delete marker, as in
`updateDocWithRevision`. `WholeCall` is the abstract specification as an action
property: a stored document changes only by one call applied to the document
replaced.

### `ReadCache`

One cached record: `version` is Salesforce's, `entry` and `seq` the bucket's. A reader
looks up (`Get`), serves what is fresh, serves what is stale and refreshes it in the
background, or fetches (`Fetch`) and writes back conditionally (`WriteBack`). `Under`
is the revision a lookup remembers, `History` the one of a delete marker after an
eviction. `evicted` remembers what was evicted while a fetch was in flight.

### `OrgUpdates`

One Account with a logo, one other field, a date and Salesforce's clock. A logo *is*
the upload it comes from: the version token names the scratch key and the committed URL
alike. `job` holds each request's place and the copies it carries: `cur` is the record
found at first, `upd` the one committed, `gen` the generation it will stamp, `url` what
an update writes. Uploads carry an If-Match, which their API requires; an update
(`UpdateB2bOrg`) may leave it out, and may carry a `logo_url`: the one its client has
read, one that was served before, another site's or a scratch object's (`Sendable`). So an
update may point the record at other bytes than the shared key holds. `by` is a history
variable: it says whether the record's URL is the one an upload committed last, or one
that an update, or the rollback of an upload that was not its owner, put there after that.

| Actions | Code |
|---|---|
| `ValidatePrecondition`, `Check`, `Patch`, `Refetch`, `PublishOrg` | `b2bOrgWriterOrchestrator.update`, `B2BOrgWriter.UpdateB2BOrg`, `publishEvents` |
| `Store`, `Reread` | the scratch object, and the reconciliation of a failed commit, in `UploadB2BOrgLogo` |
| `HeadObject`, `CopyObject` | `Client.CopyIfNewer`, called by `promote` |
| `Arbiter` | the three rounds in which the record decides whose bytes belong to the key |
| `Undo`, `UndoPatch`, `Restored` | `rollback`, a conditional update with the ETag of the committed record; a scratch URL is not put back |

Every call to Salesforce or the object store may fail, a write after it took effect.
`PerSecond` is how many dates `LastModifiedDate` tells apart in a second: the
generations of `CopyIfNewer` use all of it, `If-Unmodified-Since` only the second.

### `OrgHierarchy`

Two levels of Accounts: *heads* have children, *children* may have a head as parent.
`account` is Salesforce, `lists` the child tuples of every head, `above` the parent tuples
of every child, `shown` the documents of heads, reduced to `is_parent`. One event of one
Account is handled read by read, and `work` holds what was read, because Salesforce and
fga-sync move on between the reads:

| Actions | Code |
|---|---|
| `TakeAccount`, `SkipAccount` | `handleAccountUpsertBatch` up to the read of the previous record; quota |
| `ReadAccounts`, `AccountsUnread` | the batch read; an Account outside the query leaves the index |
| `ReadLinks` | `staleChildLinks`, which asks fga-sync for the parents that list the organization |
| `ReadChildren`, `ChildrenUnread` | `parentsToRefresh`, `fetchChildrenByParent` |
| `PublishOrg` | `Reparenting` (`BuildB2BOrgReparentingMessages`), `Linking` (`publishB2BOrgParentFGA`, `restoreOrgAccess`), `Withdrawal` (`withdrawStaleChildLinks`) |
| `RefreshParents` | `refreshParentIndex` |
| `DeleteAccount` | `handleAccountDelete`, `refreshParentsOfDeleted` |
| `DrainSelect`, `DrainLinks`, `DrainPublish` | `reindexItem` for one `b2b_org` marker |

Messages travel in groups, one per call that publishes them; the consumers on the other
side take a group in any order. `overlooked` is a history variable: it names the children
whose old link the code cannot find any more, because their event found them outside the
query, because the list was still under way when the links were read, or because a marker
could not be written. The API never changes a parent, so its updates do not appear.

Not every change of what the query returns brings an event of the Account. The owner of a
membership is re-checked only when the membership is created (`cdc_consumer.go:1483`); one
that is restored, moved to the Account or becomes a membership by its product family
makes the Account eligible without any (`Qualify`), and one that is lost makes it
ineligible without any (`Disqualify`). `told` is a history variable: the consumer has had
an event since the Account became eligible.

### `QuotaGauge`

The guard that stops the consumer from spending the last Salesforce calls. A response
brings the usage into `reading`; an event that the guard skips makes no request, so
nothing would replace a high reading unless the guard asked for one itself. Usage and
readings are only told apart by their side of the threshold, and ages are ticks, up to
`StaleAfter`.

| Actions | Code |
|---|---|
| `Guard`, `AttemptRefresh` | `quotaGuardExceeded` up to the refresh, `shouldAttemptQuotaRefresh` |
| `Refresh` | `APIUsageGauge.Refresh`: succeeds, fails without a reading, or fails with one |
| `Decide` | the verdict, and the request of an event that is let through (`quotaExceeded`) |
| `Passive`, `Observe` | responses to other requests, through `rateLimitTransport.RoundTrip` and `recordQuotaObservation` |
| `UsageMoves`, `Tick` | Salesforce's rolling day; time |

### `BackfillRun`

An operator's plan of requests for memberships, carried out beside a consumer that goes on
handling changes. `asset` is Salesforce, `shown` the version in the search index, `granted`
the tuples; the feed once skipped a change of every record, which is what the plan is to
repair. A plan is a full run, two windows of the day of the last modification in either
order, or a list; a request is repeated until its run completes.

| Actions | Code |
|---|---|
| `StartGate`, `Start`, `Refuse` | `GateBackfillStart` and `checkQuotaGate`, in the handler and in `Runner.Run` |
| `NextPage`, `InWindow` | `IterPages` with its stop at the threshold; `lastModifiedWindowClause`. A page holds each record as it was at the query or as it is now |
| `FetchItems` | the one query of `runTargetedMemberships` |
| `PublishAsset`, `MissAsset` | the loop over a page, `removeAbsentMemberships`; a record that fails is logged and passed over |
| `End`, `PageDone` | a failed query or a pod that dies; the next page, or completion |
| `Edit`, `NextDay`, `Handle` | Salesforce's changes, and the consumer, which handles one as a whole |

`missed` are the records the log names, `overtaken` is a history variable: records whose
last publish came from a read older than a change the consumer had handled already.

### `MCBuckets`, `MCCdcRecords`, `MCCdcStream`, `MCRepairQueue`

`MCBuckets` explores `BackfillLock`, `Workspaces`, `ReadCache` and `OrgUpdates` each on
its own in one instance, the part being chosen in the initial state: they share nothing,
so a product would add states and no behaviour. `MCCdcRecords` does the same for
`CdcConsumer` and `OrgHierarchy`, `MCCdcStream` for `CdcConsumer`, `PubSubStream` and
`QuotaGauge`, and `MCRepairQueue` for `BackfillRun` and `RepairQueue`: one drain beside a
consumer that only queues, or two drains beside one that also publishes.

## Runs

Sizes are for the configurations as they stand; each run takes less than four
minutes on two cores.

| Run | Question | Bounds, and why they suffice |
|---|---|---|
| `cdc_records` | records: `PurgeAddressed`, `RemovalQueued`, `RestoredTuples`, `WithdrawnOnlyByDelete`: does a committed cursor leave anything behind? Links: `StrayQueued`, `LinksExact`, `ParentsShown`; `TypesOK` of both | records: one Account, one Asset, three changes, three faults: delete, undelete and a further change of one record, each step failing once, with a crash; no event read ahead: redelivery is left to the proof, which allows any number (`RestoresRebuild`), and to `cdc_redelivery`. Links: two children, two heads, at first at most one outside the query, two changes and two failures, three together: a move with a sibling's move or its own return, a failed read and the marker that fails after it |
| `cdc_stream` | consumer: `CatchesUp`, also with two records in one event and reconnects that redeliver. Stream: `AtLeastOnce`, `ResetKeepsNewer`, `CursorCatchesUp`, started with or without a cursor. Guard: `GuardFollows`: does it end a pause, and keep one, whatever readings fail to arrive? | two Accounts, two changes, three faults, two events read ahead: a batch in which one id fails and the other does not; four events, a channel of two, two faults: an expired cursor while the channel still holds items; a reading stale after two ticks, so that it can be stale while the last refresh is not, and two responses without one, so that a refresh fails and is tried again |
| `cdc_redelivery` | *violated:* is redelivery safe, as the documentation says? | a delete and an undelete of one Account, two faults |
| `repair_drained` | `ConvergesAlone`: does a drained queue leave an index that is up to date? `NoMarkerLost` beside a second drain and a consumer that publishes. `ReindexExact`: does a reindex beside the consumer leave every record in its scope as it is? | one account with its membership, pages of one; alone three changes and two faults: a second change while the drain works on the first; shared two drains, two changes, one fault. Reindex: two memberships on pages of one, two days, two changes, one call that fails or pod that dies: the second page is read after a change of its record, a record moves from one window into the other between their runs, and a run is repeated |
| `repair_concurrent` | *violated:* are concurrent drains of one type safe? | two drains, three changes, no fault |
| `buckets` | `ExclusiveUntilLoss`, `Takeover`; `Unique`, `WholeCalls`, `CascadedAlone`, `IndexedAlone`; `EvictionHolds`, `NeverOlder`; `LogoServed`, `OwnersKept`, `ConditionsHeld`, `ShownAlone`, `RecoverableAlone`, `EtagUsable` | lock: three requests, two losses: one run that leaves the lock behind and one that loses the race for it; workspaces: two names, two slugs, one failure, three requests one after another or two beside each other: a rename, an addition and a removal meet, a delete has a history; cache: two readers, two versions, four writes: a fetch that spans an eviction and another reader's write; organizations: three uploads and an update, one after another with two failures, which an ambiguous commit takes, or two beside each other with one, over three dates of two seconds, or any three of them of one date without a failure, so that only the arbiter can tell the uploads apart and an update can write the first one's URL back between the others |
| `settings_atomic` | `Atomic` (refinement), `LastAdmin`, `ListsBounded` with every kind of operation; `PublishedAlone`, `PendingAlone` when they follow one another | three people, two entries a list, two requests, one fault: a third person reaches the cap, and a conflict needs two requests |
| `settings_reordered` | *violated:* does a removed person's access stay revoked? | two people, two concurrent requests |
| `key_contact_grants` | `CalmNoDangling`, `CalmWithdrawn`, `CalmGranted`, `CalmAddressKept` with failures and crashes, one call or change after another (`pace` "calm"); `OvertakenSettled`: no tuple dangles, is kept or is missing when records change inside a running call ("overtaken"); types also when calls run beside one another ("interleaved") | two contacts, three pairs, the consumer and one writer, three changes: calm with one fault, so that a pair is granted, replaced and replaced again with a failure between; overtaken, so that a sibling appears between a scan and its remove and is gone again before the put; interleaved with two |
| `key_contact_inactive` | *violated:* does an inactive contact lose its tuple? | one contact, one pair, two changes, no fault |
| `logo_recoverable` | *violated:* do the bytes of the logo a record points at exist somewhere? | two uploads, three dates, one failure |
| `former_parent` | *violated:* is the former parent of a moved organization refreshed? | one child, two heads, one move, no failure |

The type invariants of `BackfillLock`, `Workspaces`, `ReadCache`, `OrgUpdates`,
`RepairQueue`, `PubSubStream`, `OrgSettings` and `BackfillRun` are theorems and not
evaluated again by the runs. Those of `KeyContactGrant` and `QuotaGauge` say what shape
the state has; they are left out of the configurations for their time.

Deadlock checking is off in every run, because the bounds on changes, requests and
faults end every behaviour. `SYMMETRY` is used on the requests of `OrgSettings` and on the
contacts and pairs of `KeyContactGrant`, the children and heads of `OrgHierarchy` and the
memberships of `BackfillRun`, where nothing tells them apart and no liveness is checked.

### What the violated runs show

* `cdc_redelivery`: `docs/cdc-consumer.md` calls redelivery safe because all messages
  are idempotent upserts. A DELETE is not: delivered again behind the UNDELETE of
  its record, it purges what the restore rebuilt, and a crash right after leaves the
  cursor past the UNDELETE.
* `repair_concurrent`: the conditional delete protects the marker and not the
  document. A slow drain publishes the older document after a fast one has
  published the newer one and removed its marker.
* `settings_reordered`: the revision orders the writes of two requests, nothing
  orders their publishes. A role change that publishes after a later removal puts
  the removed person's tuple back.
* `key_contact_inactive`: `key_contact_grant.go` and `docs/` say that a contact that is
  not active holds no tuple. A create request writes its index entry while the
  consumer works on the contact's deactivation; the consumer's claim conflicts and it
  leaves the revoke to the writer that moved the entry, whose put is only on its way.
* `logo_recoverable`: `docs/indexer-contract.md` says that a scratch object is deleted
  only once the outcome is unambiguous, being superseded among them. Being superseded is
  not final. The client of a second upload reads the record after the first one's commit
  and uploads with that ETag; the first sees the second's URL and deletes its own bytes;
  and the second, when its promotion fails, rolls back to the URL it found, which is the
  first one's.
* `former_parent`: `docs/cdc-consumer.md` says that the previous parent, from the record
  read before the cache is invalidated, is refreshed too. That read never answers from the
  cache: it sends a conditional GET, and Salesforce answers with the record as it is after
  the change. The former parent gets its child list, because fga-sync is asked for it, but no
  new document: without any child left it keeps `is_parent`.

### What the code does not promise

The models have these behaviours; no property claims otherwise.

* `client.go:183-187` says more than the code does: of the uploads that committed on one
  date the first to be promoted wins, every other one "is safely dropped", and a newer
  commit may "be left pointed at its own scratch object". `CopyIfNewer` refuses the second
  copy, but its only caller then asks Salesforce, and an upload whose URL the record still
  holds copies its bytes above the stamp it found (`logo_uploader.go:261`, `:280`). The
  comment describes the copy without this arbitration. `LogoServed` passes on exactly that
  case, two commits of one date, because of it.
* Before a first cursor is committed every connection starts at LATEST, so
  `AtLeastOnce` speaks of the events after the last such start.
* An invitation is sent before its entry is written: an acceptance handled in between
  leaves the entry pending (`PendingAlone` is about operations one after another).
* Ordinary upserts are not flushed before their cursor is saved, a failed ordinary
  Asset batch is only logged, and an event that cannot be decoded is skipped
  (`cdc_consumer.go:274`, `:1412`, `pubsub_client.go:302`): a full reindex repairs all
  three. A purge marker survives the UNDELETE of its record (`:713`).
* A drain and the consumer may publish one record from different reads
  (`backfill_runner.go:1378`); `Converges` is about a consumer that only queues.
* A crash between a key contact's put and the write of its entry, be it before the record
  or while the marker's earlier pair is drained, leaves a tuple without an entry
  (`key_contact_grant.go:277`; `lost` excuses it); a marker is cleared by its value and not by its revision
  (`:1105`), and the put after a remove is not verified again (`:951`).
* `pairDurablyOwned` writes a justified pair into the sibling's entry and carries the entry's
  old pair on as a marker that, says the comment at `:1031`, "the marker-drain paths
  clear". If the sibling loses its account before its own event is handled, that event
  revokes the pair, rewrites the entry with the marker alone, and `publishKeyContactFGA`
  returns at the empty username (`:260`) before it drains anything: the old pair's tuple
  stays, nothing is logged as failed and no event is left that would visit it, until the record has
  an account again, is deactivated or deleted. It takes two contacts and four changes one
  after another. So `Withdrawn` excuses what the entry of an active record carries as a
  marker (`Carried`); nothing else stays behind.
* Two revokes of one pair side by side can hand it to each other: each finds the pair in
  the other's entry, which `pairDurablyOwned` (`:1011`) reads and does not touch, and both
  clear their own. Then nothing names a tuple that is still there, which the comment at
  `:1007` excludes for one revoke. Both contacts need to lose, regain and lose the user in
  turn, four interleaved changes; `MaxInterleaved` is 2. Nor are the others kept by calls
  beside each other: one's put and the other's remove of a pair can reach fga-sync in the
  other order than the records changed. So the properties of key contacts are about calls
  one after another; Salesforce may change in the middle of one (`OvertakenSettled`).
* An addition that read the registry before a concurrent `DeleteWorkspace` creates the
  deleted projects document again (`workspace_writer.go:395`): its revision 0 matches the
  delete marker, and no workspace owns the document.
* Projects that could not be read, or that a retried delete no longer finds, keep
  their index documents (`workspace_writer.go:296`); no backfill type visits workspaces.
* An update may write any `logo_url` (`membership_service.go:739`). With that of an earlier
  upload the record names that upload's version while the shared key holds, or is about to
  get, the bytes of a later one; nothing compares them, and no call has to fail. So
  `LogoServed` and `OwnersKept` speak of the record while its URL is the one an upload
  committed last (`by`): an update before that commit changes nothing, one after it takes
  the logo out of their scope until the next upload.
* A client may read a URL while its upload is under way and write it back after that upload
  rolled back, and then the record points at bytes that are nowhere. `RecoverableAlone`
  leaves that out: its clients read between requests (`Sendable`).
* A record that points at a scratch object is not sent to the index
  (`messaging.go:609`); `ShownAlone` is about the others.
* Updates of one organization side by side may publish in another order than they
  committed (`b2b_org_writer.go:182`), and an edit or a change event may publish a logo
  URL whose promotion is still pending. Without If-Match an update is unconditional; with
  it, a record changed twice in one second passes the PATCH's condition (`:170`), also
  when a rollback replaces another upload's commit.
* `UpdateB2bOrg` and `CreateB2bOrg` return the ETag of the record in which
  `publishEvents` has set `IsParent` (`membership_service.go:166`). No read sets it, so
  for an organization with children that ETag fails the client's next If-Match. The
  upload's handler clears the flag for this reason, which `EtagUsable` checks.
* A promotion's copy that landed and was reported as failed, followed by a rollback,
  leaves the new bytes under the old URL.
* Two requests may find the same stale lock; the delete is unconditional, and the second
  one's removes the lock the first has just taken (`backfill_lock.go:66`).
  `ExclusiveUntilLoss` speaks of the time before anything was lost.
* The links of an organization are read from fga-sync, which may not have processed an
  earlier list yet; the owner re-check reads none (`cdc_consumer.go:986`); and the parent
  tuple of an organization that has no parent any more is cleared only together with a
  former parent's list (`:1140`), while the drain always clears it. `overlooked` names
  these.
* After a failed read of the children an organization that is a parent is published with
  `is_parent` false and is not queued (`:1016`); a parent whose child loses its
  last membership hears of it with no event. `ParentsShown` is about behaviours without a
  failure, and about parents that do have children.
* An Account that becomes eligible because a membership was restored, moved to it or
  changed its product family gets no event, since the owner is re-checked for a created
  membership alone (`cdc_consumer.go:1483`): its links stay missing, and its parent
  without `is_parent`, until an event of the Account, a reindex or a marker. `LinksExact`
  and `ParentsShown` speak of the organizations an event told of.
* A reindex publishes what it read a page ago. A change that the consumer handles in
  between is published first and the older read after it; `ReindexExact` excuses these
  records. The next change of the record or another run repairs its document, but the grants
  of a record that was deleted in between are restored, and even a targeted run removes only
  its index document (`removeAbsentMemberships`).
* The settings backfill publishes settings that it read earlier
  (`backfill_runner.go:565`), and an avatar that was stored while its publish failed is
  not published by a later run that enriches.
* `docs/backfill-reindex.md:491` says that the runner does not write the repair bucket; a
  drain puts markers for owners and parents there (`QueueOwner` of `RepairQueue`).
* A bulk settings update may remove the last admin (`org_settings_writer.go:225`) and
  store an `invited_as` that is not its list's role (`:422`).

## Fairness

* `CdcConsumer`: weak fairness of the goroutine's own steps, of delivery by the
  broker and of keepalives, which Salesforce sends at least every 270 seconds. Faults, changes,
  crashes and reconnects are never forced. Every failing call spends one of
  `MaxFaults`: an event that is held is retried until a dependency answers, so
  without a bound "eventually" would only say that it never does.
* `PubSubStream`: weak fairness of the subscriber and the consumer, which are loops
  without another exit, and of the end of a stream that retention has overtaken.
* `BackfillLock`: weak fairness of each request's goroutine and of time. `MCBuckets`
  asks for it only in the behaviours of the lock.
* `QuotaGauge`: only time passes by itself. That events keep coming is the antecedent of
  `GuardFollows`, and readings that fail to arrive are bounded by `MaxUnread`: if every
  refresh failed, nothing could tell the guard that usage fell.
* The other modules state safety only. In the combined instances a fairness condition
  applies to the behaviours of its own part.

## Proofs

All proofs are checked by `tlapm` to the last leaf, for all constants that satisfy
the named assumptions in the modules. Each proof module treats one component, or
those that share an MC module.

* `CdcConsumer_proofs` — `TypeCorrect`, `PurgesAreAddressed`, `WithdrawalsFollowDeletes`,
  `RemovalsAreQueued`, `RestoresRebuild` and `UnbufferedRestoresRebuild`. `PurgeAddressed`
  says nothing of events in progress, so it is not inductive. `IInv` adds: the last
  event of a deleted record is its delete (`DeletedLast`); a record read as
  qualifying and deleted since has its delete ahead (`FetchedLive`), so an upsert in
  progress cannot grant behind a committed delete; what each stage of a delete has
  established (`Looping`, `Flushing`, `Marked`); and that a deleted record that has
  been dealt with is *safe*: nothing on the wire grants it anything after the last
  purge, or a marker names it (`PurgeInv`). `WithdrawnOnlyByDelete` needs `Withdrawing`:
  the stages of a delete work on a delete event's records (`Deleting`), and every purge
  on the wire is of a record that was deleted (`PurgesFollow`). For `RemovalQueued` the
  invariant `RInv` follows a removal from the read that does not return the record
  (`Reading`; one that did return it has an event ahead, `FetchedStays`) over the drop
  on the wire (`Dropping`) to its flush (`Confirmed`): a record that is gone and has been
  dealt with is out of the index or named (`RemovalInv`).
  `RestoredTuples` needs no hypothesis on what the subscription hands out. `Restores`
  follows a restore from its read (`RestoredRead`) to messages that all went out
  (`RestoredSent`) and their confirmation (`RestoredSaving`): a restore that was handled,
  or whose event is committed, has left its record whole (`RestoredWhole`). Only a delete
  of that record could spoil it, and its last event is the restore; so the delete came
  again from before it, either when the restore is still ahead too, or from at or before
  the cursor, and then the record is in `again` (`Repeating`). That exception is needed:
  `cdc_redelivery` shows a delete from the channel withdraw what a later restore rebuilt,
  for good when a crash then starts from the cursor behind the restore. Without a buffer
  `again` is always empty (`UnbufferedRestoresRebuild`).
* `RepairQueue_proofs` — `TypeCorrect`, `MarkersAreHonoured` and `DrainedIndexShows`. `IInv`
  adds that a marker present is the last one written (`LastWritten`), that a drain selected
  its markers before it read the data for them (`Selected`), and that the projection of
  the marker in hand is confirmed when it is about to be removed (`Held`). The
  revision check of the delete then does the rest. `ConvergesAlone`, about one drain
  beside a consumer that only queues, needs `AloneInv`: a record's last change is in the
  index, or is due (`Shown`); the document in hand is the last version, or the record
  comes again (`ItemCurrent`); an Account that became eligible after the drain listed the
  eligible ones has its membership still to come (`SnapshotCurrent`), and a published
  membership has queued its owner (`OwnerQueued`), which is what repairs an Account that
  the drain took for ineligible.
  Of the runs (`BackfillRun`), `ReindexTypeCorrect` and `ReindexIsExact`, for any
  number of records, changes, failures and page sizes. `ReindexExact` says nothing before
  the plan is done; `BInv` says what each part of it has achieved so far. A changed record
  is exact unless the feed, the log or an overtaken read names it (`Repaired`); only an
  overtaken read grants a deleted record anything (`Withdrawn`). A record that did not
  change was repaired by every completed request that has it in its scope (`Past`), and by
  the one in progress or is still in its reads (`Present`), which are never ahead of
  Salesforce (`RunReads`). What a plan promises is in the scope of one of its requests
  (`PlanCovers`): two windows that share their day leave no gap.
* `OrgSettings_proofs` — `TypeCorrect`, `OperationsAreAtomic` (the refinement),
  `LastAdminKept` and `ListsStayBounded`. `IInv` says of every request that, *if the
  document is still the one it read*, what it computed is a whole operation on it
  (`Current`). Another request's write raises the revision and makes that vacuous;
  the request's own write requires it. A promotion carries a document from an
  earlier read, so for it `Current` ties the document to the revision its `If-Match`
  names; `Unwritten` excludes revision 0, which would match anything. The last admin
  and the cap then follow from the abstract operations alone. `AloneIsPublished` and
  `AloneIsPromoted` are about operations one after another without failures, for any
  people, documents, bulk updates that list nobody as pending, and number of operations
  (`Solo`). What the operation under way has read is the stored document (`Own`); until its
  write the lists it does not pass on keep their accepted entries, and from then on their
  tuples are right, so nothing is left when it ends. Who is pending in what it is about to
  write has an event on its way if it has an account (`Expected`), and who is pending in the
  document has one or is being promoted (`Announced`); a promotion leaves its person pending
  nowhere because nobody is pending twice (`OnePending`), and it cannot fail on the cap,
  because that counts members and `ListsBounded` holds of the document.
* `KeyContactGrant_proofs` — `TypeCorrect`, for any number of
  contacts, pairs, writers and failed calls. A worker's program rewrites itself: a call is
  replaced by the calls that follow from what it found, and some of those go by an entry
  read earlier. So types are not inductive; `Sound` says that a write or a claim waits only
  behind calls that leave the entry read alone, and that that entry names a pair. Its
  lemmas on revisions (`Numbered`, `Current`) and on addresses serve the next module.
* `KeyContactCalm_proofs` — `AddressesAreKept`, `NothingDangles`, `JustifiedStay` and
  `NothingIsKept`.
  `AddressesAreKept` is about `MCSpec`, calls and changes one after another with failures
  and crashes. A call that drops an address does so because of what an earlier call of its
  own program did, and the programs are composed of one another, so the invariant speaks of
  every program left (`Guard`): a pair its `i`-th call relies on (`Relies`) is settled — its
  remove was made, or another record's entry names it — or calls before the `i`-th settle
  it: a flush of the remove on the wire, the hand-over to the sibling found, or a scan
  followed by its hand-over, with no other scan between (`Covered`). A call that relies on a
  pair never waits behind one that brings in new work (`Fenced`), so that what the program
  is replaced by can be judged at its head; a failure behind the pair's own revoke finds
  the pair settled (`Stopped`). `Orderly` keeps the other workers idle, for what is settled
  for one call another could undo, and `Zero` says that revision 0 is the absent entry.
  The proof has one lemma per call, and lemmas on how a guarded program goes on
  (`GuardedTo`, `Line`) that all of them cite.

  `NothingDangles` is about the same behaviours. Its invariant `Traced` holds at every
  step, not only when nothing is in progress: a pair that is out (`Out`: granted, or its put
  on the wire) is named by an entry, told to the operator, lost, or promised
  (`Promised`): the record or the write that will name it is among the calls left. What
  takes a promise away keeps it (`RecordPromise`, `KeepsPromise`), what puts a pair has one
  (`RevokePuts`, `RunPuts`: a revoke puts back only a pair it found justified or whose own
  entry names it), and an address goes only after the remove (`Freed`). For this the
  programs have to fit each other more closely than `Guard` says: `Fitting` adds to it which
  calls may follow which, that a delete, a withdraw or a claim goes by what it read (`Sure`), and that a program
  ends before it could put back a pair it no longer has (`Closed`, `Halted`); `Sees` says that the
  snapshot of the batch agrees with Salesforce on the siblings.

  `JustifiedStay` is `CalmGranted`, and its invariant `ServedInv` also holds at every step. A
  pair that a record justifies (`Serves`) has its tuple, or its put on the wire with no
  remove behind it (`Stays`), or it is excused, or an event of that record is still to be
  consumed, or the consumer is about to publish the record. A program takes nothing that is
  justified: the pair of the record it is about is spared by construction of each program,
  since it removes only a pair that record has left or when that record is inactive or
  deleted, and a sibling that justifies the pair is found by the scan (`SeesSiblings`),
  because between the scan and the remove only this worker acts.

  `NothingIsKept` is `CalmWithdrawn`: without failures nothing that lost its last record
  keeps its tuple. With `Traced`, a tuple that is out is named by an entry, so it remains to
  show what becomes of what entries name. At every step the pair of an entry is none,
  excused, or that of its own active record (`Serves`); or the record has an event that is
  still to be handled (`Due`) or held; or the consumer is at work on the record and has a
  call ahead that takes the pair away, claims it or writes another in its place (`Lead`,
  `PairOk`). The marker is either that of an active record, or somebody is on the way to it
  (`Free`, `MarkOk`). One lemma per call (`BothKept`) shows that a call which leads to the
  pair is replaced by one that does, so that the last one takes it. Two facts about the
  programs carry this: what a call writes for its own record is what Salesforce has, or the
  record has an event to come that will correct it (`Apt`), and a hand-over names a sibling
  only after a look that found the sibling's record justifying that very pair, with nothing
  between that would start another look (`Aimed`).
* `PubSubStream_proofs` — `TypeCorrect`, `DeliveredAtLeastOnce` and `ResetsKeepNewer`.
  `AtLeastOnce` speaks of the committed cursor alone and is not inductive: a cursor is
  saved from what was in the consumer's hand, and that came through the channel. `IInv`
  says the same of each of them: the cursors (`CursorsDealt`), what is in hand
  (`WorkingDealt`), each item of the channel, behind which everything is dealt with or
  further ahead in the channel (`ChannelInOrder`), and the position the stream will
  forward next (`StreamInOrder`); nobody is beyond the log (`WithinLog`). `ResetFresh`
  says a reset about to write found the rejected cursor in the bucket and nothing was
  saved since.
* `Buckets_proofs` — of the workspaces, `WorkspacesTypeCorrect`, `CallsAreWhole`,
  `NamesAndSlugsUnique`, `DeletedLeavesNothing` and `IndexFollows`. A
  request works on copies; `WorkspacesInv` says that a copy whose revision is still the
  stored one *is* the stored document, that revision 0 means an empty document, and that
  what a request is about to write is its call applied to its copy. So a write that is
  accepted is a whole call, and since a call keeps names and slugs apart in whatever it
  is applied to, `Unique` follows for any number of requests. The last two are about
  requests that come one after another, however many (`AloneInv`): what the one under way
  has read is what is stored (`Latest`), and what the index lacks or shows too much is
  exactly what it has left to publish (`Due`); between two requests that is nothing
  (`Synced`). Of the lock, `LockTypeCorrect` and `LockIsExclusive`: until something is
  lost the entry is exactly the holder's and never stale (`Owned`), so the forced
  delete is unreachable. Of the read cache,
  `CacheTypeCorrect`, `EvictionsHold` and `WritesNeverOlder`. `CacheInv`: a
  reader's copy is not newer than its record; if the revision it fetched under is
  still current, nothing was evicted and nothing newer was stored since; the bucket's
  history is dropped only while nobody reads.
* `OrgHierarchy_proofs` — `HierarchyTypeCorrect`, `HalvesTypeCorrect` (it and
  `CdcConsumer_proofs`' type invariant together, as run `cdc_records` checks them),
  `StraysAreQueued`, `LinksBecomeExact` and `ParentsBecomeShown`. `StrayQueued` says
  nothing until everything is handled. `Strays` says where a stray link is accounted for
  before that: every child that a head will list once the messages under way are processed
  (`KeptBy`), in whatever order those of a group are, and whose parent is another, is in a
  marker, overlooked, named by an event still to come (`Coming`), or on a list that the
  consumer is about to correct (`Caught`). That correction works because what was read of
  the Account and of its parent's children is still so, or another event says otherwise
  (`ParentFresh`, `KidsFresh`). A drain may remove its marker because it found every such
  list (`DrainCatches`) or an event came after its read (`DrainFresh`).
  `LinksExact` and `ParentsShown` hold while nothing has failed, of the organizations that
  an event has told of since they became eligible (`Told`), and `Exact` is what holds
  until then. Of what the messages under way will leave (`Missing`, `Differs`, `Hidden`)
  nothing is wrong unless an event that will have the Account read is still to come
  (`Awaits`) or the consumer is about to publish it: of a child and its parent's list
  (`Joined`), of one without a parent and its tuple (`Parentless`), of a parent and its flag
  (`Flagged`). What the consumer publishes is right because the children and the old parent
  it read are as they were, or their own events follow (`ReadNow`, `KnownNow`); a purge
  spoils nothing because a restore is behind it (`Undone`). A parentless Account whose
  head has dropped it is the case `ReadLinks` has to notice, so there the history variable
  `overlooked` is part of the statement.
* `Buckets_proofs` also has the updates of an organization: `UpdatesTypeCorrect`, `ConditionsAlwaysHeld`, `EtagAlwaysUsable`,
  `OwnersAlwaysKept`, `LogoAlwaysServed`, `ShownIsLast` and `LogoNeverLost`. The first two
  conditions need only `Dated`: no date a request compares with is younger than the
  record's. The two about the shared object hold while nothing has failed, and `Quiet` says
  so: then the uploads stand as `Smooth` describes them. Part of it holds whatever updates
  write: what is at the shared key is the bytes of an upload that is through (`Standing`),
  an upload stamps its copies with the date of a commit or one above a stamp it found
  (`Stamped`), and no bytes come back once others replaced them (`Unseen`). The rest is
  about the owner, the upload whose URL the record holds, and says nothing unless that URL
  is the one an upload committed last (`by = "upload"`): the owner does not roll back, and
  its bytes are at the shared key when it is done (`Standing`); the stamps of the others are
  ordered before the owner's, or equal to them and settled by the arbiter (`Ordered`,
  `Settling`, `First`). A URL that an update writes ends that, and the next commit of an
  upload begins it again from the unconditional part (`CommitStep`), so updates between
  uploads cost nothing. In each round of the arbiter the others' generations of the object
  are compared with the owner's (`InRound`), which is why three rounds are enough for any
  number of uploads. `ShownIsLast` and `LogoNeverLost` are about requests one after another,
  any number of them and, for the logo, whatever fails: a URL that was written has its bytes
  in a scratch object or at the shared key, also the URL that a rollback would put back or
  an update carries (`Safe`); and the search index was sent the record as it is, or the
  request under way holds exactly that record to send (`Followed`, with `Smooth` for why it
  never rolls back).

Only model-checked: all liveness (`CatchesUp`, `CursorCatchesUp`, `Takeover`, `GuardFollows`),
which the prover does not reach.

## Left out

* Message contents beyond put, drop, grant and purge; e-mails, invitations, avatars.
* In `OrgHierarchy`: events that name a parent together with its child, more than two
  levels, the publishing of a full reindex, and a drain beside the consumer.
* UNDELETE in `RepairQueue`; the owner re-check in `CdcConsumer`.
* Several entries of one person in one settings list (a bulk update may store them).
* Events that cannot be decoded; an ERROR's suggested reindex window.
* In `BackfillRun`: the settings backfill with its avatars; dry runs, which publish nothing;
  runs of organizations and key contacts, which share the loop over pages and whose records
  are in `OrgHierarchy` and `KeyContactGrant`. A drain beside a reindex.
* Time, except as nondeterministic expiry of locks and retained events and the ticks of
  `QuotaGauge`.
* In `OrgUpdates`: the five attempts of one `CopyIfNewer`, whose end is one of the
  failures of `CopyObject`; a PATCH that lands after the request gave up on it;
  creation and find-or-create; images and SVG.
* Most of the repository's lines: `gen/` and the protobuf package are generated
  transport, and `design/`, SOQL text, payload and document conversion, logging and
  configuration keep no state. They are why the mapped share of all lines is small.

## Plan

1. Publishing in `OrgSettings` as messages with an order, shared with the settings
   backfill and its avatars.
2. The project resolver's cache, which every publish of a membership goes through.
