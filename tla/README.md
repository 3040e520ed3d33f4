# Formal models of the file manager backend

TLA+ models of `src/app`, a FastAPI service that keeps users' files and folders
in MongoDB (through Beanie), mirrors them in Backblaze B2, and sells storage
plans through the Cashfree payment gateway. TLC checks the models on small
instances, TLAPS proves what it can for every instance.

## How the program runs, and what that makes hard

One process runs one asyncio event loop. A handler runs undisturbed between two
`await`s and at each of them any other handler may run. Each call of Beanie
(`find_one`, `insert`, `save`) is atomic in the database; nothing spans two of
them, no transaction is used anywhere, and `save()` writes the *whole* document
back as the handler read it. So:

* a document read before an `await` and saved after it undoes what others wrote
  in between;
* a handler that raises or dies between two writes leaves the first one;
* the gateway delivers webhooks more than once, late and in any order, and again
  when the answer is not a success;
* a background worker runs beside the requests.

The models cut every handler at exactly these points: one action per `await`
that reads or writes state another handler can see.

## Inventory

| part | code | state | operations |
|---|---|---|---|
| Subscription lifecycle | `billing_service.py`, `subscription_routes.py`, worker loop of `main.py` | `subscriptions`, `entitlements`, billing fields of `users` | create, resume, cancel, read current; success, failure and cancellation webhooks; expiry worker |
| Webhook log and transactions | `billing_service.py` 524-684, 733-791, 932-979 | `webhook_events`, `payment_transactions` | deduplicate, claim, book, answer |
| One-time checkout | `payment_routes.py` | `payment_records`, `users` | create order, verify payment, order webhook |
| Cashfree client | `cashfree_client.py` | none (mandates live at the gateway) | create, cancel, fetch a mandate; verify a signature |
| Calendar arithmetic | `billing_plans.py` | none | add a month or a year |
| File tree | `crud.py`, `routes.py`, `workspace_routes.py` | `file_system_items` | create, rename, move, star, bin, restore, empty, duplicate, delete |
| Storage quota, chunked upload | `routes.py` 756-1093, `crud.py` 202-365, `codespace_sync.py` 240-266 | sizes of items, chunk files, upload locks | upload, upload a chunk, duplicate, copy back, replace content |
| Storage partitions | `partition_routes.py` | `storage_partitions` | create, resize, format, delete, lock |
| Object store mirror | `b2.py` | B2 bucket | put, copy, rename, move, purge, synchronise a user |
| Codespaces | `codespace_sync.py`, `terminal_routes.py`, `code_runner.py` | directories on disk | populate, run, copy back |
| Sharing, locks, hidden items | `security_helpers.py`, `routes.py` | fields of items | share, revoke, lock, unlock, hide |
| Roles and administration | `admin_routes.py` | `roles`, `users` | limits, roles, deletion, cancellation |
| Migration and seed | `migrations/`, `seed.py`, `database.py` | all billing collections, their indexes, the plans | migrate, seed at start |
| Authentication | `auth.py`, `auth_routes.py` | `users` | register, log in, change the profile |
| Mail, analytics, preview | the rest | none shared | I/O |

How they interact: the payment webhook, the checkout and the worker write the
`Entitlement` and, in a second write, the `User`; uploads check
`Entitlement.can_upload` and the quota held in the `User`. Handlers of the tree
write the database first and the object store after; the codespace copies the
tree to disk and back. Nothing is called back and no queue exists: parts meet in
the documents they share.

What makes each part correct:

* *lifecycle*: the entitlement says what the subscription that paid for it has
  come to; nothing ended is charged; nobody is blocked early; what has lapsed is
  settled;
* *webhooks*: a payment is booked once, an event is handled until it has been,
  and is answered with success only then;
* *tree*: no cycle, no orphan that cannot be reached, the bin holds whole
  subtrees, names in a folder differ, copies are complete;
* *quota*: the used storage exceeds the limit by no more than what concurrent
  uploads and the requests without a check can add, partitions fit, an upload in
  chunks becomes one whole file, a block is respected;
* *mirror, codespaces*: objects and disk agree with the tree once nothing is
  running, and no content is lost on the way;
* *accounts*: somebody administers, a role that is in use exists, a deleted
  account leaves nothing;
* *migration*: success means that everything is there, failure has a reason;
* *access*: what is shared or locked at an ancestor holds below it.

`PROJECT.json` lists the hazards with their lines and the properties that catch
each; a hazard without one says why.

## Modules

| module | models | checked by |
|---|---|---|
| `BillingLifecycle` | the subscriptions, the entitlement and the user document of one user, the gateway, the clock | `MCBillingLifecycle`, four configurations |
| `BillingLifecycle_proofs` | its types; through overlaps: no early block, no mandate survives its subscription | TLAPS |
| `BillingSerial_proofs` | without overlaps: its five serial properties | TLAPS |
| `PaymentLedger` | what the transactions promise, abstractly | through `WebhookPipeline` |
| `WebhookPipeline` | the webhook log and the transactions of one subscription | `MCWebhookPipeline`, three configurations |
| `WebhookPipeline_proofs` | its types, unique payments, single handling, honest answers; without overlaps: payments booked, the refinement of `PaymentLedger` | TLAPS |
| `FileTree` | the files and folders of one user and the handlers that change them | `MCFileTree`, three configurations |
| `FileTree_proofs` | its types, exact walks, no folder queried twice; one request at a time: tree, bin, orphans, partitions, names, copies | TLAPS |
| `StorageQuota` | limit, partitions, uploads in one piece and in chunks, duplicates, copies back, saves and moves of one user | `MCServices`, two configurations |
| `StorageQuota_proofs` | its types, the bound on the overshoot, partitions that fit, the block, chunks booked once and merged whole | TLAPS |
| `ObjectMirror` | the bucket, the disk of a codespace, and the tree they follow | `MCServices` |
| `ObjectMirror_proofs` | its types and its three properties | TLAPS |
| `Accounts` | users, roles, the handlers of administrators | `MCServices` |
| `Accounts_proofs` | its types and its three properties | TLAPS |
| `BillingMigration` | the migration script and the start of the program over one database | `MCServices` |
| `BillingMigration_proofs` | its types and its two properties | TLAPS |

### BillingLifecycle

`sub`, `ent` and `user` are the documents, with the fields the handlers test:
status, end of the period, end of the grace period; plan, status and permission
to upload. `gateway` is the state of each mandate at Cashfree and `events` the
webhooks it has sent and not had a success for: a set, so they arrive in any
order. `task` has a record per handler in flight and one for the worker, with
what the handler has read (`doc`, `usr`, `found`, `todo`), what it will write
(`grant`) and where it is (`pc`). Every query selects by `user_id`, so one user
is the general case.

A handler begins with the action that reads (`StartPaid`, `StartFailed`,
`StartCancelled`, `StartOrderPaid`, `StartCancel`, `StartResume`, `StartCreate`,
`StartCurrent`, `StartVerify`, `StartExpiry`) and goes on through the shared
steps: `SaveSub`; `FindEnt`, `SaveEnt`, `MirrorUser` for
`sync_user_entitlement`; `ListPrior`, `Supersede`, `StopMandate` for the
superseding of prior subscriptions; `Poll*`, `CreateMandate`, `InsertSub`,
`SaveCustomer` for a new subscription; `PickExpired`, `ListEnding`, `EndExpiry`
for the worker. `Abort`, `MirrorFails`, `StopFails` and `PollFails` are the
failures the code meets. `Authorise`, `Charge`, `Revoke` and `PayOrder` are the
gateway and its customer, `Tick` the clock.

Two spellings are kept: `"cancelled"` is a pending subscription that was
abandoned, `"canceled"` one that has ended. A document that a handler does not
find is status `"none"`.

Simplifications: the plan of a subscription never changes (it is a constant
`OfferOf`); payment times are those of the event; the read and the save of the
user document in the dual write are one step, as nothing but its customer id is
kept of the rest; handlers do not span a clock tick, which stands for days; what
the audit log, the cancellation records and the legacy payment records hold is
left out, no handler of the lifecycle decides by it.

### WebhookPipeline

`log` is `webhook_events`, `tx` is `payment_transactions` by idempotency key,
`task` the deliveries in progress, `acked` the events that got a success.
The events, what they report and which payment they name are constants; an
activation names none. `Deliver`, `AnswerDuplicate`, `Record`, `RecordRefused`,
`RecordLost` and `Claim` are the deduplication; `FindInit`, `SaveInit`,
`FindByPayment`, `FindByKey`, `InsertTx` the booking, where `Insertable` and the
guard of `SaveInit` are the two unique indexes; `Finish`, `Raise`, `Fail`, `Die`
the ways out. What the handler does to the subscription is one step, `Apply`,
and whatever else may raise is `Raise`. The history variables say what each
event has lived through and no guard reads them.

`PaymentLedger` is what the transactions promise: a payment is booked once, with
what became of it, and never again; the opening payment is settled once.

### FileTree

`doc` holds the `FileSystemItem` of each id, with the fields the tree is made
of: `parent_id`, `partition_id`, `is_deleted` (status `live` or `bin`; `fresh`
is an id not given out, `purged` one whose document is gone) and the name. A
name is its part before a ` copy` suffix and the number of the suffix, case
folded as `check_duplicate_name` compares it. `req` has a record per handler:
the item, the target, the document as the handler holds it, and the work list of
a walk or a duplication. `requests` counts them, for the bound.

| actions | code |
|---|---|
| `BeginCreate`, `CheckCreate`, `Insert` | `create_folder`, `upload_file`, the merge of `upload_chunk`, the creations of the workspace routes; an upload in one piece checks no name, only the workspace routes ask for a parent that is a folder |
| `BeginRename`, `CheckRename`, `Save` | the two renames; that of the workspace also finds the item itself |
| `BeginTouch`, `Save` | star, lock, hide, share, content: all save the whole document |
| `BeginMove`, `CheckTarget`, `Place`, `Save`, walk | `move_item`, which reads the target twice and then updates the partition of all below |
| `BeginDelete`, `BeginRestore`, `Expand`, `Update` | bin, purge, restore: `_collect_descendant_ids`, one query per folder, then one `update_many` or `delete` |
| `BeginWorkspaceDelete`, `Reread`, `Save` | `delete_workspace_item` |
| `BeginEmptyBin`, `EmptyBin`; `BeginFormat`, `Format` | `empty_bin`, `format_partition` |
| `BeginDuplicate`, `DuplicateTarget`, `CountCopies`, `Put`, `ListChildren`, `Respond` | `duplicate_item` |
| `Refuse` | what ends a request before its first write and is not modelled: locks, shares, quota, entitlement, a failed store of new content |

`save()` of Beanie inserts a document that is not there any more; so does
`Save`. A walk's queue and the calls a duplication has left are sets: the model
allows every order, the code takes one of them.

`lapses` is a history variable no guard reads: which accepted requests have bent
the tree. The code refuses few things - a folder may be moved below itself, a
file may be taken for a parent, an item may be put into a folder in the bin or
restored out of one, the workspace delete bins a folder alone - and a property
of the tree says that *nothing else* breaks it, by naming the lapses it excludes.
`walk.calm` says whether another handler has changed the shape of the tree under
a walk.

The bucket is left out here: every call of `b2.py` in these handlers returns
false or is caught when it fails, except that content is saved only after its
upload. `ObjectMirror` is about it.

### StorageQuota

`file` and `part` are the documents: a file with its size, its partition, its
name and whether it is in the bin. `limit` and `canUpload` are the two fields of
user and entitlement that uploads ask for, `dir` the directory of each upload in
chunks with the state of each chunk file; `lockGen` counts how often the lock of
an upload was dropped from `upload_locks` - so it names the lock, and who took an
earlier one waits for another than who comes now. `job` is a handler.

| actions | code |
|---|---|
| `BeginUpload`, `CheckQuota`, `BookFile` | `upload_file`, and `create_workspace_file`, which alone asks for the name: the check, and the insert some awaits later |
| `BeginChunk`, `CheckFirstChunk`, `MakeDirectory`, `OpenChunk`, `WriteChunk`, `EnterLock`, `CheckMergedName`, `MergeChunks`, `CheckQuota`, `BookFile`, `FinishChunks` | `upload_chunk` from await to await; `CleanUp` is its `finally` and its early returns |
| `BeginCopy`, `CopyFile`, `EndCopy` | `duplicate_item` and `sync_disk_to_workspace_db`: one file after another, without a look at entitlement, limit or partition; a failure may end them anywhere |
| `BeginContent`, `BeginRename`, `BeginMove`, `SaveItem`, `FailSave` | the handlers that read a document and save the whole of it later: content, rename and star, move. Only a rename asks for the name, none for room |
| `BeginCreatePart`, `BeginResizePart`, `CheckFit`, `CheckSum`, `PutPart`, `BeginPurgePart`, `PurgePart`, `DropPart` | the partitions |
| `SetLimit`, `SetCanUpload`, `ChangeState`, `RestartProcess` | what the rest of the program does meanwhile: administrator, billing, bin and restore and purge, a restart |

A name is the upload that wanted it, in the folder it went to; any other name or
folder is `NoPart`. So a file that is renamed or moved frees the name, a copy or a
workspace file may take it, and `NameOfUploadTaken` asks, as
`check_duplicate_name` does, for the name a file has now and not for its origin.
`of`, the origin, is history. A chunk has size 1, and a chunk that is torn or
being written adds nothing to the merged size, which is how the merge shows that
it lost something; a write that fails after the open (`routes.py` 975) leaves
such a chunk, and so does a restart. The three queries of a check are one step:
each reads a value that can only be out of date by the time of the insert, and
the insert is a step of its own.

Two history variables no guard reads. `unchecked` adds up what was booked without
any check - duplicates, copies back, saved content that grew - so the properties
can say that nothing *else* exceeds a limit. `slips` names what the properties
except besides: overlaps, two chunks of one upload on their way, a lock dropped
under a waiter, a file restored, moved or renamed, a limit lowered.

### ObjectMirror

`entry` are the documents - name, parent, bin - with the content the user gave
each file; `first` the first name, which begins every key; `bucket` the objects
as a function from keys to contents; `disk` the files of the codespace;
`syncing` the set `_active_syncs`; `strays` the uploads that
`asyncio.create_task` started; `call` a handler or a background task. A key is
the sequence of the names on the path (`PathOf`, from `get_item_path`), and
`BeginsWith` is what `Prefix=` of B2 means for it: the last name may be the
beginning of a longer one.

| actions | code |
|---|---|
| `UploadFile`, `ResolvePath`, `PutObject` | the upload after its checks, which ask for no name: document, key, object |
| `BeginSaveContent`, `SaveEntry` | content: object, then document |
| `RenameItem`, `MoveItem`, `ListObjects`, `CopyObject`, `PurgeObject` | `handle_b2_rename`, `handle_b2_move`: list the prefix, then a copy and a purge of each object |
| `RenameWorkspaceFolder` | the rename of a folder in a workspace, which moves no object |
| `SetBinned`, `BeginErase`, `BeginEmpty`, `EraseObjects`, `ForgetEntries` | bin and restore; delete and empty the bin: objects first, then documents |
| `BeginLogin`, `CheckRoot`, `PutRoot`, `PutPlaceholder`, `ChangeName` | `check_and_sync_user`, and the name it depends on |
| `BeginPopulate`, `FetchFile`, `RunProgram`, `BeginSync`, `InsertFromDisk`, `PutStray`, `EndSync` | the codespace |
| `RestartServer` | handlers and tasks are gone |

Every call of B2 takes `ok`: FALSE is a failure, which the code logs and passes
over. `mishaps` names what parts the objects from the tree - a key purged with
another that begins with it or with itself, items that share a path, a changed
prefix, a failed call - and `MirrorMatchesTree` says that nothing else does. The
contents in a folder are objects of one level; `.keep` objects hold nothing and
are left out but for that of the root, which decides whether the synchronisation
at login runs. What `FileTree` models in steps is one step here.

### Accounts

`user` has `user_type` and `is_admin`, `role` the documents of custom roles,
`owned` what is stored for an account, `errand` a handler with the document it
read. `Register`, `SeedUserData`; `BeginStore`, `Store`; `BeginSave`,
`BeginSetRole`, `CheckRole`, `SaveUser` (the whole document, inserted again if
it is gone); `BeginDeleteUser`, `Purge`, `DropUser`; `BeginCreateRole`,
`BeginUpdateRole`, `PutRole`, `BeginDeleteRole`, `CountAssigned`, `RemoveRole`
are the handlers; `LoseErrands` is a process that dies. `clashes` names the
overlaps that undo a check: nothing in the code prevents them. Other handlers'
saves of a user (billing, profile) are `BeginSave`. Two registrations with one
address are not told apart: `email` has an index that is not unique.

### BillingMigration

One database - `made`, `index` (with its maker), `plans` (how many documents of
each), `doubled` and `unpaid` (what a unique index would refuse), `legacy` - and
two programs that prepare it. `script` is a run of `run_billing_migration` with what it
listed at its beginning; `start` is `init_db` and `seed_billing_plans`. A run
may be stopped anywhere (`StopRun`), run again, and two may run at once.
`Differing` are the indexes that script and program define differently: that on
payment ids is sparse in the script and partial in `models.py`, under one name.
`alone` says that nobody else has touched the database since the run began.

## Runs

| run | instance | what it shows |
|---|---|---|
| `BillingHandlers` | 2 subscriptions, period and grace of 1 tick, clock to 1, no failures; 1 request at a time and 2 charges, or 2 requests, 1 overlap and no charge | with handlers one after another and in any order: the entitlement follows its payer, the user document mirrors it, a chargeable mandate is a known one, one subscription is active, grace is not extended; through an overlap no ended or superseded subscription keeps a chargeable mandate |
| `BillingFaults` | 1 subscription, 1 order, 1 charge, 1 overlap, 1 fault | no early block; the worker settles what has lapsed |
| `BillingUpgrade` | 2 subscriptions, no charges | finding: an upgrade ends its own entitlement |
| `BillingCancel` | 1 subscription, period of 2 ticks | finding: a cancellation takes effect before the period is over |
| `WebhookSerial` | 4 events, 2 payments, 1 delivery at a time, 1 raise, 1 loss | the transactions implement the ledger; what was processed is booked |
| `WebhookOverlap` | 3 events (two of one payment), 2 deliveries, 2 overlaps, 1 raise | unique payments, single handling, honest answers, progress |
| `WebhookRetry` | 1 event, 1 raise | finding: a retried event is booked twice |
| `TreeSerial` | 2 requests one after another, from each of the 281 trees of 2 folders and a file with bin and partition, ids for 2 more | only the named lapses make a cycle, break the bin, orphan an item, mix partitions or repeat a name; a copy is complete, or is one into itself and never ends |
| `TreeOverlap` | 2 folders, a file to create, 2 requests that interleave | undisturbed walks are exact; requests end, also on a cycle |
| `Services` | per component, see below | quota, mirror, accounts and migration, each on its own |
| `QuotaBin` | the instance of `Services` | finding: what is in the bin counts against the limit |
| `TreeWorkspaceDelete` | the trees of `TreeSerial`, 1 request | finding: the workspace delete leaves what is in the folder |

`Services` checks four components in one run. They share no variable in the
models, so a behaviour of all of them is an interleaving of one of each, and
every property speaks of one: `MCServices` gives each behaviour to one component
(`turn`) and lets the others stay where they begin, which loses nothing and
avoids the product. The instances: for the quota two handlers, three requests, one
upload of two chunks, two files, two partitions, limits 1 and 3, one event (a
restart, a changed limit or block, a file into the bin or out of it); for the mirror a workspace folder and
two files, two names of which one begins the other, two first names, two
handlers, three requests and one failure; for the accounts three users of whom
one administers, two custom roles with one key, two handlers, four requests; for
the migration two collections, three indexes of which one differs, one plan, two
scripts, two runs, one start. They are as large as a property needs to be
violated by each fault the models were tried with; larger ones (four mirror
requests, three clerks and five errands, two plans) were explored once, 2 to 4
million states each, without an error. The run declares files, partitions and
quota handlers symmetric (`QuotaSymmetry`): `StorageQuota` compares them for
equality only and no constant of the instance tells one from another, and the
properties of the run are safety.

`BillingHandlers` has a next-state relation of its own (`SplitNext`): that of the
module, with charges and an overlap kept out of one another's histories. The
properties that need charges are about handlers that do not overlap, and the
one about overlaps needs none; `BillingFaults` has both. Its symmetry exchanges the
idle tasks, and the two subscriptions together with their offers: the module asks of
an offer only whether it is the free one or that of another subscription.

The bounds. Two subscriptions are what superseding, abandoning and the stale
save need; a third would only be superseded again. One overlap lets one handler
run at any point of another, twice in the webhook pipeline so that a retry also
meets a second delivery. A period and a grace period of one tick let both end
within the clock's range. `MaxOverlaps` counts the handlers that begin while
another is running, so `0` is a serial execution, and `MaxFaults`, `MaxRaises`
and `MaxLosses` count failures. The tree runs start from
every proper tree, so one request already meets each shape a longer history
could build, and the second meets what the lapses of the first have left; two
ids are enough for a copied folder with one item in it. The runs do not check
deadlock in the tree and the billing models: with the requests, the clock, the charges and the subscriptions bounded, their
behaviours end. In the webhook runs it is checked.

Several properties are conditional, and the condition is part of what they say.
`EntitlementFollowsPayer`, `UserMirrorsEntitlement`, `ChargedMandateIsKnown`,
`OneActiveSubscription` and `ProcessedIsBooked` fail when handlers overlap or
fail: the code takes no precaution. `NoChargeableMandateLeft` survives overlaps
and not a failed call to the gateway, whose result is ignored. `NoEarlyBlock`,
`UniquePayment` and `AppliedOnce` hold through overlaps and failures.
The properties of the four services are conditional in the same way: each names
the slips, mishaps or clashes that break it, which the code does not prevent,
and holds through everything else, overlaps and failures included -
`OvershootIsBounded`, `BlockStopsGrowth`, `SuccessIsComplete` and
`FailureIsExplained` through any interleaving.
The quota's exceptions are: for `OvershootIsBounded` a lowered limit, and what was
booked unchecked is added to the bound; for `BlockStopsGrowth` what is booked
unchecked meanwhile; for `PartitionsFit` overlaps, and for the files in a
partition anything booked unchecked, moved or restored, since none of that looks
at the room there, even one at a time; for `UploadBookedOnce` a lock dropped under
a waiter and a file that was renamed, moved to another folder or restored, after
which chunks sent again find the name free; for `MergedFileIsWhole` chunks sent in
parallel, and it counts the torn ones as what is missing.
The properties of the tree but `WalkCollectsSubtree` and `RequestsEnd` are about
requests that do not overlap: a stale `save()` can undo any other change.

## Fairness

`LapsedIsSettled` assumes that the event loop runs every handler on (`WF` of
`Step` and `WorkerStep`) and that the worker begins another pass (`SF` of
`StartExpiry`): `_billing_expiry_worker_loop` runs for ever and catches what a
pass raises. Strong fairness is needed only because the bound `MaxOverlaps`
disables the start of the worker while a request runs; in the code nothing does.
`EventuallyProcessed` assumes the same of handlers and that the gateway goes on
delivering an event until it has had a success for it, which is what a 500 asks
for. Nothing is assumed of users, of the clock or of charges. `RequestsEnd` assumes
`WF` of the steps of each handler: a database call returns and the event loop
resumes its handler. Creations and duplications are not in it: the model may run
out of ids, and a folder duplicated into a folder below it copies its own copies
for ever, in the code too (`RunawayCopyGoesOn`), until Python's limit on recursion,
which is not modelled, ends the request. The specifications of the four services state no
fairness: their properties are safety.

## Proofs

All for arbitrary constants, from the named assumptions of the modules
(`LifecycleAssumption`, `UnsetAssumption`, `PipelineAssumption`,
`AgreementAssumption`, `TreeAssumption`, `QuotaAssumption`, `MirrorAssumption`,
`AccountsAssumption`, `MigrationAssumption`). They ask for finite sets, for bounds
that are numbers, for names that are not taken for one another; `QuotaAssumption`
also for one handler at least, without which there would be nothing to bound.

* `BillingLifecycle_proofs!TypeCorrect`: `TypeOK` is inductive.
* `BillingLifecycle_proofs!NoBlockIsEarly`: blocked uploads mean a decline a grace
  period ago. Not inductive by itself: a handler carries a stale document and a
  pending block through its steps. The strengthening says that every grace
  period found in a document, a snapshot or a handler comes from a declined
  charge of that subscription; that an upload block on its way is one whose
  grace was over when it was listed; and that the clock does not run backwards.
* `BillingLifecycle_proofs!NoMandateSurvives`: `NoChargeableMandateLeft` speaks of a
  moment when no handler runs, so it is not inductive. Between the save that ends
  a subscription and the call that ends its mandate, the invariant points at the
  handler about to make the call; it follows the ended documents the worker and
  the webhooks carry from a query to a save (`EndInv`). That the call finds its
  mandate is a second part (`KnownInv`): a document is inserted after its mandate
  was created, no two requests create the same one, a mandate that has ended stays
  so. `StopIsNext` says that only a fault takes a handler away from its call; the
  code then forgets it, which is why the property is stated for no faults.
* `BillingSerial_proofs`: `SoloInv` says that without overlaps one handler at most
  is at work, so what it has read is still stored when it saves.
  `GraceNeverExtended` needs no more than that and `DueInv`: a decline about to be
  saved was computed outside of a grace period. `PayerDecidesEntitlement`,
  `UserFollowsEntitlement`, `OnlyOneIsActive` and `NoChargeIsUnknown` come from one
  invariant, `SerialInv`, which is about the rests between handlers and about the
  one handler at work: at each of its stops it says how far the documents, the
  entitlement, the user and the mandates are behind one another, and that what
  the handler holds makes up for it. Single steps break each of the four: a
  payment is saved before the entitlement follows, the entitlement before the
  user, the new subscription is active before the old one is superseded.
* `WebhookPipeline_proofs!TypeCorrect`, `PaymentsAreUnique` (the index on the
  payment guards the only two writes that name one), `HandlersRunOnce` (a
  second handler of an event can only begin from a failed log entry, and only a
  handler that raised leaves one), `AnswersAreEarned`. Without overlaps (`Solo`):
  `ProcessedPaymentsAreBooked`, as a transaction that names a payment or has an
  outcome is the booking of an event (`Shaped`), so the lookup by payment that
  makes a handler skip its insert finds what it would have inserted; and
  `TransactionsImplementTheLedger`, the refinement: every step on the log and the
  transactions maps to a step of `PaymentLedger` or to a stutter, because the
  initial transaction a handler is about to settle is pending still (`Opening`).

* `FileTree_proofs!TypeCorrect`; `WalksCollectSubtrees`: a walk that nobody
  disturbed has collected exactly the item and all below it, on any tree, cycles
  included. "Below" is defined as the least set closed under the edges of the
  tree, so no induction over paths is needed: the invariant says that what a walk
  has collected lies below the item, that its queue is part of it, and that the
  children of each collected folder not in the queue are collected too. When the
  queue is empty the collected set is closed, hence contains everything below.
  For one request at a time (`OneAtATime`, `Reqs` has one member, which may send
  any number of requests one after the other): `FoldersStayATree`,
  `BinStaysWhole`, `NoOrphans`, `PartitionFollowsFolder`, `SiblingsDiffer`, from one
  invariant, `SerialInv`. Its first part is about the tree and holds at every step
  (`Tree`); its second part says that the handler at work finds the tree as it has
  read it (`Serial`). A move in progress is the hard case: while its walk runs the
  items below the folder are accounted to the old partition (`PartsKept`), and the
  walk's list, which `WalksCollectSubtrees` shows to be exact, puts them right. That
  no cycle is closed by a move to a place outside of what lies below the item is
  proved on sets: in a set closed under parents that holds the item, what does not
  lie below it would have been closed before the move. Formatting orphans nothing
  as a folder whose partition differs from that of its content has none.
  `WalksNeverGoBack`, the safety half of `RequestsEnd`, for any number of requests in
  flight (`NoFolderQueriedTwice`, which no run checks besides): what a walk has still to query it has found (`QueueFound`), so what it
  finds anew is neither waiting nor done with. As there are finitely many items, this is why a walk ends; that it
  goes on at all is the fairness that stays with TLC.
  `CopiesAreComplete` and `RunawayCopyNeverAnswers`, for one request at a time: a
  duplication at work is of one of two kinds (`Duplicates`). Either one of its
  calls, or the folder it is about to list, runs away (`RunsAway`): the place of the
  copy lies in what is copied, or what is copied lies below itself. Then so does a
  call after the next step, since what lies below a folder lies below a child of it
  (`RunsOn`) - which replaces an induction along the path - and it never comes to
  answer. Or it is clean (`Clean`): no copy lies in what is copied, every item is
  copied once or waits to be, the children of every listed folder are among them,
  and copies lie as their items do. A copy that is put elsewhere leaves what lies
  below the item as it was (`StaysBelow`). When no call is left, the items copied
  are closed under children, hence all of them.

* `StorageQuota_proofs`: `QuotaTyped`. `OvershootStaysBounded`: what is booked plus
  what has passed the check and is still to be booked (`Promised`) is inductive where
  the storage used alone is not: a booking moves a size from one sum to the other,
  and a check that passes leaves at most one largest file for each *other* handler
  (`WithinSlack`); what is booked unchecked is added on both sides. The lemmas on
  sums over a set of documents or handlers are proved by induction on subsets of a
  finite set. `BlockHolds` is an action property from the same sums: while
  `can_upload` is false no check passes, a booking moves a size from one sum to the
  other, and everything else that adds a size adds it to `unchecked`.
  `PartitionsStayFitting`: with one handler at work (`Alone`) what it has read of
  the partitions still holds when it writes, so the allocated sizes stay within the
  limit (`Budget`) and each partition holds its files and the one about to be
  booked (`Filling`). That proof showed a state the program cannot be in: a chunk
  for a partition that has not been created yet. `BeginChunk` now asks for a
  partition whose id has been given out, as no client can name another.
  `ChunksBookOnce` needs that a lock held or waited for is the current one of its
  upload (`LocksCurrent`, true until one is dropped under a waiter), so one handler
  at most is inside; that handler found the name free, the live files of an upload
  still have its name (`NamesKept`), and nothing but itself can book one while it is
  there (`BookedOnce`). `ChunksMakeWholeFile`: one handler per upload
  (`OneForEach`), so a chunk that exists and is not being written by it is whole or
  torn (`NoneOpen`), and a merge that began after all exist lacks the torn ones and
  no other (`MergedAll`).
* `ObjectMirror_proofs`: `MirrorTyped`, which also says that the tree stays as flat
  as the model has it: a file lies at the top level or in a folder that does. The
  recursion of `PathOf` then ends after two names, and its two equations
  (`PathForm`, `KeyForm`) are all that the other proofs use of it.
  `CopyBackInsertsOnce`: while a copy back runs, a name on its list is in nobody's
  document but one that was uploaded for it (`SyncInv`). `PurgesLoseNothing`: with
  one handler at work (`Alone`) what is about to be purged lies under its new key
  as well, a different one (`PurgeInv`). `ObjectsFollowTheTree`:
  `MirrorMatchesTree` holds between requests only, so the invariant (`MatchInv`) says
  at each stop of the handler at work how far the objects are behind the tree: an
  upload misses one, a saved content is one ahead of its document, a rename has
  some objects under the old keys and one under both, a delete has lost those of
  the targets it is through with (`StoringKnows`, `MoveKnows`, `EraseKnows`). The
  old keys of a rename stay apart from all new ones, since no two items share a
  path before it or after it (`KeysApart`); a folder's prefix hits the objects in
  that folder and no other (`FolderHolds`, `ErasesItsOwn`).
* `Accounts_proofs`: `AccountsTyped`. `SomebodyIsLeft`: an account that is being
  demoted or deleted is never the last administrator, as the one who does it is
  another and is safe himself while no clash is recorded (`SafeAdministrator`).
  `RolesExist`: a role about to be removed is held by nobody and about to be
  given to nobody (`RolesSettled`). `DeletionIsFinal`: while an account is being
  deleted no other handler is at work on it (`DeletionIsAlone`).
* `BillingMigration_proofs`: `MigrationTyped`. `SuccessMeansComplete`: each run
  has done what lies behind it - the collections and indexes not on its list, the
  plans not on its list (`Progress`) -, nothing is ever taken away (`Grown`), and
  a plan is there twice only without its unique index (`PlansUnique`).
  `FailureHasAReason`: what an undisturbed run has read is still so
  (`Undisturbed`), so each of its failing branches has its cause in the documents.

Only model-checked: the three liveness properties, as TLAPS cannot reason about
fairness (`LapsedIsSettled`, `EventuallyProcessed`, `RequestsEnd`); and
`ServicesTypeOK`, the conjunction of the type invariants of four modules, each of
which is a theorem of its own (`QuotaTyped`, `MirrorTyped`, `AccountsTyped`,
`MigrationTyped`). That the five findings are violated is TLC's to show too.

## Findings

1. `UpgradeHasNoDowntime` (`BillingUpgrade`): the new payment supersedes the old
   subscription and cancels its mandate; the webhook that reports it writes
   `canceled` into the entitlement of the upgraded user
   (`billing_service.py` 1008-1026).
2. `CancelsAtPeriodEnd` (`BillingCancel`): the mandate is cancelled at once and
   the webhook that reports it ends the subscription and the entitlement.
3. `OneBookingPerEvent` (`WebhookRetry`): an event without a payment id that
   settled the initial transaction and then raised is booked again by its retry.
4. `WorkspaceDeleteTakesDescendants` (`TreeWorkspaceDelete`): the comment says
   "Soft delete item and its descendants"; the children are fetched and left as
   they are (`workspace_routes.py` 310-316).
5. `BinIsNotCounted` (`QuotaBin`): `docs/billing-v2-database-plan.md` 28 says that
   the storage aggregation is that of the files with `is_deleted == False`;
   `get_user_storage_size` does not look at `is_deleted` (`crud.py` 337), so an
   upload is refused although the files outside the bin leave room for it.

## Plan

Modelled, in this order: `BillingLifecycle`, `WebhookPipeline`, `FileTree`,
`StorageQuota`, `ObjectMirror`, `Accounts`, `BillingMigration`. Every safety
property of the runs is proved. What could be added: access to an item through its
ancestors; folders of several levels in `ObjectMirror`; the objects of a
duplication.

## Not modelled

Authentication tokens, e-mail, analytics, contact forms, previews, the processes
of runner and terminal are I/O without shared state. Signature verification and
the parsing of payloads select which event the models start from. Admin
statistics only read. Sharing, passwords of items and partitions and hidden items
decide who may ask for something, not what happens then. `add_calendar_interval`
is a pure function of a date: it maps the last day of a month to the last day of
the next, so a period that starts on 28 February ends at the end of every month
after (`billing_plans.py` 80); no other state depends on it. `sync_b2_to_mongodb`
(`b2.py` 482), which would insert documents for objects, is called from nowhere.

Seen while modelling and outside the properties: `register` looks for the address
and inserts later, and `email` has no unique index (`auth_routes.py` 113);
`delete_user` leaves the subscription, the entitlement and the mandate of the
account, which goes on being charged (`admin_routes.py` 1437); `seed_database` pops
`parent_name` out of module-level lists that `seed_user_data` reads later, so
after a first start on an empty database registrations fail in that process until
it is started again (`seed.py` 279); the migration reports a loss of data when
somebody registers while it runs (`migrate_billing_v2.py` 514); a failed download
leaves an empty file in the codespace that is never fetched again
(`codespace_sync.py` 102); `verify_payment` ignores the status of the order
(`payment_routes.py` 471); an event without an id of its own gets one made of
type, subscription and payment, and later renewals that name no payment get the
same (`billing_service.py` 587).
