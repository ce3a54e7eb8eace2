# Verification of provider-exoscale

provider-exoscale is a Crossplane provider: users write Kubernetes resources
(`IAMKey`, `Bucket`, `PostgreSQL`, `MySQL`, `Kafka`, `OpenSearch`, `Redis`), and the
operator makes Exoscale look like them. This directory holds TLA+ modules of its
controllers and webhooks, TLC configurations that check them on small instances, and
TLAPS proofs about the IAMKey, the Bucket and the five database controllers for instances
of any size.

## 1. The system

### Parts, their state and their operations

| Part | State | Operations |
|---|---|---|
| `operator/iamkeycontroller` | status IDs, two annotations, the credentials secret; keys and roles in Exoscale | Connect, Observe, Create (role, key, secret), Update, Delete (key, role), admission |
| `operator/bucketcontroller` | lock annotation, status name, conditions; buckets in Exoscale | Connect (or NoopClient), Observe, Create, Delete (objects, bucket), admission |
| `operator/{postgresql,mysql,kafka,opensearch,redis}controller` | status version, conditions; services in Exoscale, found by zone and name | Observe, Create, Update, Delete, admission |
| `operator/mapper`, `operator/webhook`, `internal/settings` | none | versions, backup times, address sets, defaults of settings |
| `operator/pipelineutil` | none | client from ProviderConfig and secret |
| `operator/configcontroller`, `main.go`, `flags.go`, ... | none of their own | registration and start-up |

All controllers are driven by the managed reconciler of crossplane-runtime, which reads
a resource from an informer cache, calls Observe, adds a finalizer, stores the
annotation *create pending*, calls Create, stores the outcome over whatever is stored by
then, and ends with an update of the status; Update and Delete are called instead when
Observe found a difference or the resource is being deleted. It is not part of the
repository and is modelled from how the controllers are called by it.

### What is hard

* **Copies.** A reconcile works on a copy that may be outdated when it is read. Writes
  with an outdated copy are refused by the API server; calls to Exoscale are not.
* **Two processes.** Leader election is off by default (`flags.go`), so a rolling update
  runs two operators.
* **No transactions.** Creating an IAMKey takes a role, a key, a secret and annotations.
  Every call can fail before or after it took effect, and the process can die in between.
* **Memory in annotations and conditions.** Create may not write the status, so IDs travel
  in annotations; the Bucket controller infers from conditions that a bucket is gone.
* **Admission against the status.** Webhooks compare with the stored status, which lags.
* **Round trips.** Update is repeated until what Exoscale reports equals the spec.

### What makes the parts correct

* IAMKey: one confirmed key per resource, never forgotten; key, role and credentials
  belong together and open the buckets of the spec; deletion releases the key; provisioning and deletion end.
* Bucket: two resources never manage one bucket; a resource never goes while its bucket
  stays; nothing is deleted that nobody asked to delete; provisioning and deletion end.
* DBaaS: no service is left behind; admitted specs reach Exoscale and then updates stop;
  the version is never raised above what runs; Ready is true; deletion ends. Defaults
  complete the settings and change nothing the user gave.

`PROJECT.json` lists the hazards at their lines, and the properties that cover them.

## 2. Modules

| Module | Models |
|---|---|
| `IAMKey` | one IAMKey, several workers with caches, secret, Exoscale keys and roles, users |
| `IAMKeyInv` | the two inductive invariants of `IAMKey` |
| `IAMKeyProofs` | theorems of `IAMKey`: one key, one creator |
| `IAMKeyGrantProofs` | theorems of `IAMKey`: key, role, secret and buckets belong together |
| `IAMKeyLifecycleProofs` | `IAMKey` implements `Lifecycle` |
| `IAMPolicy` | the rules `createRole` writes, and how Exoscale evaluates rules |
| `IAMKeyGrants` | composes `IAMKey` and `IAMPolicy`: what the key of a resource opens |
| `IAMKeyAccessProofs` | theorem of `IAMKeyGrants` |
| `Bucket` | several Buckets that may ask for one name, several workers, objects, users |
| `BucketInv` | the two inductive invariants of `Bucket` |
| `BucketProofs` | theorems of `Bucket` |
| `BucketLifecycleProofs` | `Bucket` implements `Lifecycle` |
| `DBaaSMapper` | versions, backup times, address sets, defaults |
| `PostgreSQL`, `MySQL`, `Kafka`, `OpenSearch`, `Redis` | what each kind admits, sends, compares and reports |
| `DBaaS` | the life of one service resource of any kind; composes the modules of the kinds |
| `DBaaSInv` | the inductive invariant of `DBaaS` |
| `DBaaSProofs` | theorems of `DBaaS`: types, deletion, versions, comparison and requests |
| `DBaaSLifecycleProofs` | `DBaaS` implements `Lifecycle` |
| `Settings` | JSON settings as trees: admission, defaults of nested schemas, comparison |
| `Lifecycle` | abstract: what every controller promises about a resource and the thing it stands for |
| `MCIAMKey`, `MCBucket`, `MCDBaaS`, `MCSettings` | instances for TLC |

### How state and actions correspond to the code

A resource is a record with the fields the properties tell apart. `cr` is the stored
one, `mem` the copy a reconcile works on, `cache` what the informer holds. Instead of
resource versions, `fresh` and `synced` say whether the stored resource changed since a
copy was taken; an update with a copy that is not fresh is the conflict of the API server.
Storing what is stored already makes no new version. An update of the resource takes the
metadata of the copy, an update of the status only the status.

`create` stands for crossplane-runtime's annotations *pending*, *succeeded* and *failed*.
A resource whose stored annotation is *pending* is refused by every reconcile.

`pc` is the next call of a reconcile. In `IAMKey` and `Bucket` every call that leaves the
process is an action of its own; what the code does between two calls belongs to the
action of the call before. In `DBaaS` the requests of Observe are one action, since
they only read. A call that fails is the action's own alternative with `Fault`: the request
may or may not have had its effect. `CallFails` stands for failures without effect,
`Crash` for the death of the process between any two calls.

* **IAMKey.** `Resolved` is the resolution of role and key ID in Observe, including the
  early return when no role is known; `GetAPIKeyFailed` the branch that takes any error
  for "gone" during deletion; `CheckSecret` the rest of Observe, in which
  `isRoleUptodate` returns at once since nothing sets the annotation it asks for;
  `CreateRole`, `CreateKey` and `CreateSecret` are the pipeline of Create, with `MaxTries`
  for the ten attempts of its loop; `Panic` is the nil pointer after `createIAMKey`
  returned neither key nor error. The initial resource is new, or one of an older release
  whose key has no role. `issued` and `blind` are history variables.
* **Bucket.** `maker` is the resource whose MakeBucket made the bucket that exists under
  a name; the code does not know it. `MakeBucket` and `RecheckBucket` are
  `createS3Bucket`; `DeleteObjects` and `RemoveBucket` are Delete; `NoopClient` is the
  client Connect returns for a resource whose conditions say that the bucket is gone.
  `creds` says whether provider config, secret and credentials are there
  (`OpenExoscaleClient`); `UserCredentials` removes and restores them. Connect looks at
  the conditions before it opens a client, so a resource whose bucket is gone needs none.
  `UserEdit` is a user who edits the bucketName, while `ValidateUpdate` admits it, or the
  bucketDeletionPolicy, which the webhook does not compare: it changes at any time, also
  during the deletion, and copies may hold another policy than the stored one. `purge` is a
  history variable: the resources that asked for DeleteAll at some time in their deletion.
* **DBaaS.** A service has addresses, a setting (for the plan, the maintenance window and
  the JSON settings, which are all sent and compared alike), protection, a backup schedule,
  a version, and whether it is up. Exoscale returns addresses in the order they were sent.
  A time of day keeps how it is written: the schedule drops the seconds and the width of
  the hour, `ToBackupSpec` writes them in one way. Kafka compares addresses in their order,
  OpenSearch compares no protection, Redis has no version, PostgreSQL creates and
  updates under another name than it observes: these are differences of the source.
  `CacheSync` is the only way a stored version gets into the cache, so that a
  reconcile can start from what was stored before the operator's own last writes.
* **IAMPolicy, IAMKeyGrants.** A rule denies or allows, and tests the operation, the bucket or
  nothing; `createRole` has them in the order of `util.go`. That the first rule that matches
  decides is external, and what the comment in `util.go` about the order relies on.
  A role of `IAMKey` remembers the list it was made from, and `IAMKeyGrants` asks what the policy
  made from that list opens.
* **Settings.** A RawExtension is a tree, or has no bytes, or bytes that cannot be parsed.
  `setDefaults` is the recursion of `schema.go`, with the set of maps `submap` empty where
  the code goes on with the next key. `CompareSettings` gives the set of outcomes of a loop over a Go
  map, whose order is not known: *same*, *differs*, or a panic when two objects meet at `!=`.
  The SDK's structs drop keys they do not know (`Fits`), and a service reports what it was
  given and its defaults for the rest (`Effective`); both are external. An edit falls
  between two reconciles here; `DBaaS` has it at any step.

### What every controller promises

`Lifecycle` has three variables: the claim (declared, being deleted, gone), the thing in
Exoscale (none, held, or untracked where the controller gave up its promise) and whether the
resource says ready. A thing is made only while the resource exists, taken away only
during its deletion, and gone before it is; a resource not in deletion becomes ready only while its
thing is there; nothing comes back. `IAMKey`, `Bucket` and `DBaaS` each end with the mapping
(`Claim`, `Thing`) and the property `ImplementsLifecycle`, which TLC checks step by step. *Untracked* is
where the exceptions below live: keys of an older release that no annotation names and keys
left by an error during deletion, buckets that may be renamed or share their name, services
whose kind does not fix zone and name.

## 3. Runs

Passing runs:

| Run | Instance | Shows |
|---|---|---|
| `iamkey_two_workers` | 2 workers, 3 keys and roles, 1 fault, no edits | one creator, one key, never forgotten; `Lifecycle` is implemented |
| `iamkey_life` | 1 worker, 3 keys and roles, lists of up to two buckets, 2 faults, 1 edit, fair | the two inductive invariants; role, key and secret belong together; the key opens what the policy of its role should; deletion releases the key; provisioning and deletion end |
| `bucket_shared_name` | 1 worker, 2 resources, 1 name, both policies, 2 faults, 1 edit of the policy | one manager of a bucket |
| `bucket_delete` | 2 workers, 1 resource, DeleteAll, 2 faults, 1 upload | the inductive invariant; deletion removes what it should and nothing else; `Lifecycle` is implemented |
| `bucket_liveness` | 1 worker, 2 names, both policies, 1 fault, 1 edit of name or policy, 1 upload, credentials lost once, fair | Delete and Observe mean the same bucket although the spec may be renamed; objects go only where a deletion asked for it, although the policy may be edited; provisioning and deletion end, the latter without credentials once the bucket is gone |
| `dbaas_safety` | all kinds, 1 worker with a lagging cache, 2 zones, 2 names, 2 versions, 2 faults, 1 edit, 1 upgrade | the inductive invariant; no service left, version never asked for in vain, Ready is true; `Lifecycle` is implemented by every kind |
| `dbaas_liveness` | all kinds, 1 worker with a lagging cache, edits of every parameter, 1 fault, fair | a service reported up to date has the parameters of the spec; a request leaves nothing to compare; convergence, end of updates, deletion |
| `settings` | 2 flat and 2 nested schemas, 86 settings, one edit, one unread schema, fair | defaults path by path; up to date means the same; updates end |

Runs that show where a comment, a message or a document says something else than the
code does (the quotations are in `PROJECT.json` under "findings"):

| Run | Behaviour of the code |
|---|---|
| `iamkey_key_left` | a failing GetAPIKey ends a deletion and leaves the key |
| `iamkey_two_buckets` | with two buckets in the list the rule of each denies the other, and the key opens neither |
| `bucket_reused_name` | a lost answer to RemoveBucket leaves a lock on a name another resource takes |
| `dbaas_backup_seconds` | a backup time with seconds causes updates without end |

### What the properties except

Several properties hold only with an exception. Each exception is a named
operator or a conjunct with a comment, and stands for something the code does:

* `BucketsGranted`: the webhook compares buckets with the status, so they can be edited
  (and the list emptied) between Create and the first status; the role then does not
  grant what the status says (`iamkeycontroller/webhook.go:41`).
* `KeyOpensListed` speaks of resources that were not edited and whose key has a role, and
  requires that the key opens its bucket only for lists of one (`util.go:32`).
* `OneManager` is checked with one process, and proved for one until a user deletes a resource or
  changes a name. MakeBucket fails for a bucket that exists, and
  `createS3Bucket` then asks whether it exists: two processes can both take the lock
  (`bucketcontroller/create.go:41`).
* `NoBucketLeft` and `DeletedConditionsTrue` speak of `Owned(r)` buckets: a name changed
  between MakeBucket and the status abandons the bucket that was made
  (`bucketcontroller/webhook.go:36`).
* `ObjectsKept` speaks of a resource that asked for DeleteAll *at some time since its deletion
  began* (`purge`). The policy may be edited at any time (`bucketcontroller/webhook.go:36`
  does not compare it), and Delete goes by its copy (`bucketcontroller/delete.go:28`): a
  user who changes DeleteAll to DeleteIfEmpty during the deletion may come too late, as an
  outdated copy still empties the bucket. A policy changed before the deletion holds,
  however old the copies are: no version that is being deleted has the former one.
* `ObjectsKept` and `BucketsKept` are checked and proved where names are not changed or
  there is one resource (`OneClaim`). With both, a copy that was read before a change of the
  name deletes under the old name: the lock annotation says that it is held, not for which
  name (`bucketcontroller/observe.go:40`), so the bucket of another resource goes.
* `Settles` excepts an upgrade of the major version by Exoscale, after which PostgreSQL
  and MySQL are never up to date again (`postgresqlcontroller/observe.go:155`), and backup
  times with seconds.
* `Converges` and `CurrentMeansApplied` except the protection of OpenSearch, which is not compared
  (`opensearchcontroller/observe.go:105`).
* `RequestsSuffice` excepts backup times with seconds or an hour of one digit, which the schedule
  does not give back, and a service of another major version, which no request changes.
* `NoServiceLeft` and `DesiredNotAhead` except Redis and OpenSearch before they have a Ready
  condition: their webhooks compare nothing until then (`rediscontroller/webhook.go:81`,
  `opensearchcontroller/webhook.go:137`). `NoServiceLeft` also excepts a PostgreSQL whose
  external name is not its own name (`SameNames`).
* `GoesWithoutCredentials` excepts a call that fails after the bucket is recorded as gone: a
  failed update of the finalizer rewrites the condition Synced, and the next reconcile needs
  credentials again (`bucketcontroller/connector.go:78`). `ProvisioningEnds` and `DeletionEnds` of
  `Bucket` except credentials that are lost for good.
* `SettingsSettle` speaks of `Regular` settings. A schema with objects makes the comparison panic or
  differ for ever (`mapper/dbaas.go:48`), a key the SDK does not know or a schema that is
  not published makes it differ for ever. `UpToDateMeansSame` speaks of settings the
  webhook's validation admits; those of Kafka's REST proxy are not validated.
* PostgreSQL with an external name of its own is *untracked* for `Lifecycle`: Create and Update
  address the name of the resource, Observe and Delete the external one
  (`postgresqlcontroller/create.go:32`).
* Versions other than the observed one are admitted as long as they are not newer
  (`webhook/validate.go:50`), so no property says that the spec has the observed one.

### Bounds

`MaxFaults`, `MaxEdits`, `MaxUpgrades`, `MaxRenames`, `MaxDeletes`, `MaxUploads` and `MaxLosses` bound how
often the environment acts, never the controllers: reconciles go on without bound. `MaxEdits` counts
the edits of a spec, `MaxRenames` those edits of a Bucket that change its name. `bucket_delete` has the
policy DeleteAll only and no edits; `bucket_liveness` has both policies and an edit of either field. Two
workers are what a rolling update has. Two faults allow an attempt at Create that fails
after its effect, and a retry that fails in another place or a crash. Keys and roles are
as many as attempts can use up. Unused IDs are interchangeable, so `Issue` may offer any one
of them: the instances take `OneOf`, the proofs assume only that `Issue(S)` is a subset of `S`.
`DBaaS` has a set of workers. With five kinds, two zones and lagging caches two workers
are out of TLC's reach: the runs have one and show what outdated copies do to it, and the
proofs of the same invariants are for any number. `Depth` is 3, the depth of the nested schema of
`schema_test.go`. `MaxTries` is 2 instead of 10: what matters is that an
attempt is or is not the last. Symmetry is used only in runs without liveness.
Deadlock is not checked where a system whose resource is gone stops; in `settings` it is.

### Fairness

A reconcile that was started takes its next step, the watch delivers what was stored, and
a queued resource is reconciled: watch events, requeues after errors and the poll
interval (an hour for IAMKey and Bucket, a minute for the services) put every resource into the
work queue again. With several Buckets the queue serves each in turn, hence strong fairness of
`StartReconcile`. Exoscale finishes what it started (`Provisioned`). Faults are finite
in a behaviour, so the last attempts succeed. Users are not fair; credentials that were lost
need not come back. In `Settings` the fair action is the reconcile, Observe or Update.

The liveness properties name the states the code does not leave: an attempt to create that never
stored its outcome (crossplane-runtime asks for a human), a name taken by another
resource, objects the policy keeps, lost credentials, a protected service.

## 4. Proofs

All theorems hold for every set of workers, keys, roles, bucket lists, resources, names, specs
and versions and for every bound. They rest on named assumptions, which TLC evaluates in the
runs of their component:

* `IAMKey`, `IAMKeyGrants`: *no ID* is not an ID (`IDsAssumption`), bounds are natural numbers
  (`BoundsAssumption`), `Issue` offers unused IDs (`IssueAssumption`), `BucketsAssumption`,
  `ListsAssumption`;
* `Bucket`: *no name* is not a name (`NamesAssumption`), policies are the two of the CRD
  (`PolicyAssumption`), `BoundsAssumption`;
* `DBaaS`: the kinds are the five (`KindsAssumption`), a resource may have its own name as external
  name (`NamesAssumption`), a version has a major and a minor number (`VersionsAssumption`), specs
  have times the CRD's pattern lets through (`SpecsAssumption`), *none* is no time, no schedule and
  no service (`TimesAssumption`, `ServiceAssumption`), nor the default of a setting
  (`DefaultAssumption`), `BoundsAssumption`.

| Module | Theorem | States |
|---|---|---|
| `IAMKeyProofs` | `Invariance` | `IInv` |
| | `TypeCorrect`, `AtMostOneKey`, `NoKeyForgotten` | `TypeOK`, `OneKey`, `KeyRecorded` |
| | `CreatorsExclude`, `RoleMatchesKey` | `OneCreator`, `RoleOfKeyRecorded` |
| `IAMKeyGrantProofs` | `GrantInvariance` | `GrantInv` |
| | `SecretMatchesKey`, `KeyReleasedBeforeGone` | `SecretOfKey`, `DeletedMeansReleased` |
| | `ReadyHasKey`, `StatusShowsBuckets` | `ReadyMeansUsable`, `BucketsGranted` |
| `IAMKeyAccessProofs` | `OpensOnlyListed` | `KeyOpensListed` |
| `IAMKeyLifecycleProofs` | `KeepsPromise` | `ImplementsLifecycle` |
| `BucketProofs` | `BucketInvariance` | `BInv` |
| | `BucketTypes`, `StatusIsOfSpec` | `TypeOK`, `StatusNamesBucket` |
| | `DeletedIsDeleted`, `BucketGoneFirst` | `DeletedConditionsTrue`, `NoBucketLeft` |
| | `ObjectsStay`, `BucketsStay` | `ObjectsKept`, `BucketsKept`, assuming `OneClaim` |
| | `LocksTruthful` | `ManagerInv` |
| | `ManagersExclude` | `OneManager` until a deletion or a change of name, assuming `OneProcess` |
| `BucketLifecycleProofs` | `BucketKeepsPromise` | `ImplementsLifecycle`, if there is a resource |
| `DBaaSProofs` | `DBaaSInvariance` | `DInv` |
| | `DBaaSTyping`, `ServicesDeleted` | `TypeOK`, `NoServiceLeft` |
| | `SpecNotAhead`, `RunningIsUp` | `DesiredNotAhead`, `ReadyMeansUp` |
| | `CurrentIsApplied`, `RequestsAreEnough` | `CurrentMeansApplied`, `RequestsSuffice` |
| `DBaaSLifecycleProofs` | `DatabaseKeepsPromise` | `ImplementsLifecycle` |

### IAMKey: who creates

No property is inductive. That a second worker creates no key depends on what it knows: it
has read the resource either before the annotation *pending* was stored, and then its
own update is refused, or after, and then it stops. `IInv` says this step by step:

* `StoredInv`: the two annotations come in pairs, the status repeats them, and a resource
  without finalizer has neither;
* `CacheInv`, `FreshInv`: a copy whose update would be accepted has the stored IDs (or the
  annotations, moved to the status by Observe), and if Observe reported nothing, nothing is
  stored;
* `StepInv`: what a worker knows at each step, whatever others did;
* `CreationInv`: a worker between *pending* and the stored outcome has the resource to
  itself, and holds the only key that may have been issued;
* `OneCreator`, `KeyRecorded`, `OneKey`.

The proof has one lemma for each action that stores a version or creates a key
(`AddFinalizerStep`, `SetPendingStep`, `CreateKeyStep`, `CriticalStep`,
`RemoveFinalizerStep`, `WriteStatusStep`, `UserStep`) and one for the actions that leave stored
state and creation alone (`QuietActions`, by `QuietStep`).

### IAMKey: what belongs together

`GrantInv` is inductive relative to `IInv`. Its part `Truthful` is about every version of the
resource, stored, cached or copied, and however old: the keys it names were issued, the
roles it names exist until the resource is deleted, and a version that is being deleted
means that the resource is. So an outdated copy can do no harm that the
properties would see: what it deletes is being deleted, and what it stores was true.
`GrantStepInv` adds what a worker knows of its new role, and that it reaches the removal of
the finalizer only after it found no key or lost sight of it (`blind`).

`KeyOpensListed` follows with lemmas about the policy: `RulesOfRole` and `PermitsOfRole` compute what
`Permits(createRole(list), op, b)` is for a list of any length: every rule but the last denies, so that what no
rule denies is permitted.

### Bucket

`BInv` has a `Version` predicate of the same kind, true of every version of a resource whatever its age:
the status names the bucket of the spec, the conditions of a deletion belong to a resource that is
being deleted, and a version that is being deleted with the policy DeleteAll means that the
resource asked for it in its deletion (`purge`), whatever its policy is now; `ObjectsStay` rests on
that. `FreshInv` is about copies whose next update is accepted: one on its way to remove the
finalizer, or to store the conditions of a removed bucket, belongs to a resource without
a bucket and without a pending attempt to create. `CreationInv` and `OneCreator` say that a
worker in an attempt to create has the resource for itself, so that no bucket is made behind the
back of such a copy; `StoredInv` that a resource without finalizer has made nothing.

`StepPreserves` reduces a step to what it changes (`Frame`, `StoreMoves`, `OthersStay`); from it
come `QuietStep` and `MoveStep` for steps that store nothing, and `StoringStep` with
`WorkerStores`, `EndStores` and `UserStores` for those that store a version. Every action has its lemma.

`ManagerInv` is inductive relative to `BInv`, and is about one process, while no name was changed and
nothing deleted. `Holds` says of every version, however old, that a lock was taken by the resource
whose MakeBucket made the bucket. To keep that, `CopyInv` follows the worker from *Observe found the
name free* to *createS3Bucket found the bucket there*: nobody else makes the bucket in between, so
that one which exists after a failed MakeBucket was made by that call. With two processes that is
where the argument breaks, after a deletion where a lock outlives its bucket. `LocksStay` is about steps that
make and store nothing, `LocksEdit` about a user who changes
the policy alone, `LocksRest` and `LocksContinue` about the others, `Counted` about deletions and renames
themselves. `OneManager` follows, since a bucket has one maker.

### DBaaS

The properties relate the spec, or what the status says of it, to a service that another process, an upgrade or an old
copy may have changed since. `DInv` again has a predicate that every version satisfies whatever
its age, `VersionInv`: a version of the service in the status is not later than the one that runs, because
Exoscale only upgrades, and the service that had it is there until the deletion; one that says Running
has a service that is up; one that is being deleted means that the resource is. What an
outdated copy stores is therefore true, and the webhook, which compares with the stored
status, admits no version the service has not reached. Only a deletion ends this: `Ending` says
that it has begun and nobody creates any more, and from then on a service that is gone stays gone.

`FreshInv` is about copies whose next update is accepted: the service they did not find is still not
there, since nobody creates. `CreationInv` and `OneCreator` give a worker in an attempt to create the resource
for itself, together with the version it asks for. `StoreInv` says that services were made by
Create, and where.

The kinds enter through lemmas about the modules of their mappers, each proved by cases over
the five: `FoundIsPlace` and `CallPlaces` (which zone and name a call addresses),
`BodyTyping` and `UpdateBodyTyping` (what is sent is what a service can have), `UpdatesAdmitted` (what the
webhooks let through), `Comparison` (what it means that Observe sees no difference), `CurrentApplied`,
`RoundTrip` (a time survives the schedule exactly if it is canonical), `Requested` and `RequestMakes` (what a request
leaves). `CurrentIsApplied` and `RequestsAreEnough` are the two halves of why updates stop:
what is reported up to date has the parameters of the spec, and a request leaves nothing
that would be compared as different. The liveness built on them stays with TLC.

The rest has the layout of `Bucket`: `NextTyping` for types, `StepPreserves` for what a step changes, `QuietStep`,
`MoveStep`, `StoringStep` and `AcceptedStep` for the ways it changes it, and a lemma for each action.

### The refinements

`KeepsPromise`, `BucketKeepsPromise` and `DatabaseKeepsPromise` show that the initial states are initial states of `Lifecycle`, and
that every step is one of its steps or leaves its variables alone. The key (or the bucket, the service) is
made in `Provision`, goes in `Release`, Ready is stored in `Report` or `Withdraw`, and the
resource goes in `Forget`; that these are enabled where they happen follows from the invariants.
`Bucket`'s mapping is about one resource, hence the hypothesis that there is one. Updates, upgrades and
edits of a database change nothing `Lifecycle` sees (`ChangesUnseen`, `UpdatesUnseen`); an edit that moves a
resource to another zone is admitted only where the resource is untracked (`UserSteps`).

### Only model-checked

Liveness, of all modules: fairness and ENABLED are outside the prover's reach. `OneManager`
beyond the case proved fails: with two processes, and after a lost answer to RemoveBucket
(`bucket_reused_name`). `DefaultsByPath` and `UpToDateMeansSame` of `Settings`: what
`setDefaults` computes is a recursion over JSON trees of any depth, which needs induction over
data, and the module declares RECURSIVE operators.

## 5. Not modelled

* ProviderConfig: its controller is crossplane-runtime's. In `IAMKey` and `DBaaS` the connector is
  a step that can fail; only `Bucket` tells lost credentials apart, since only its
  controller reacts to them.
* Node states, notifications, connection strings: copied from answers of Exoscale into status
  and secret, and read by nobody.
* JSON arrays in settings, and zero values that the SDK's structs may leave out.
* `spec.deletionPolicy: Orphan`, zones of Buckets, a change of the secret reference.
* Services that existed before their resource; states of a service other than running and
  rebuilding.
* Command line, logging, generated code, samples.

## 6. Plan

Done: `IAMKey`, `IAMPolicy`, `Bucket`, `DBaaS` with its kinds and caches, `Settings`, and
`Lifecycle` with its three refinements; the proofs of all safety properties of `IAMKey`, `Bucket`
(`OneManager` in part) and `DBaaS`, and of the refinements.

Left, if the code moves on: a lock in `Bucket` that says for which name and bucket it is held would make
`OneManager` provable without its exceptions; recursion on trees of a fixed depth, unfolded,
would bring `Settings` within the prover's reach.
