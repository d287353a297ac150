# CloudDav: specification, model checking and proofs

CloudDav is a WebDAV server in Go that keeps its files in a local directory, an
S3 bucket, a Google Cloud Storage bucket or an Azure container, behind a chain of
middlewares that authenticates users and checks folder permissions. This
directory holds TLA+ modules of that program, the configurations that
model-check them with TLC, and theorems whose proofs TLAPS checks.

    tlc -config MCS3.cfg MCStorage.tla   # one run
    tlapm StorageProofs.tla              # one module of proofs

`PROJECT.json` lists the components, the runs, the mutants (small errors in a
definition that a run must notice: the operators commented as mutants, which no
specification uses), the source lines each definition stands for,
the findings, the hazards and the theorems.

## 1. Inventory

| Component | Source | State | Operations | What is hard | What makes it correct |
|---|---|---|---|---|---|
| S3 file system | `storage/s3.go` | none of its own; the bucket, and per call a listing position, keys to delete, an upload buffer | Mkdir, OpenFile, Read/Write/Readdir/Close, RemoveAll, Rename, Stat | each call is many API requests, without a lock; any of them may fail or be the last before the process ends | no data lost by a rename, nothing outside the named subtree touched, complete removals and listings, every call returns |
| GCS, Azure file systems | `storage/gcs.go`, `storage/azure.go` | same | same | deletes object by object while listing | same |
| Local file system | `storage/local.go` | the disk | `webdav.Dir` | `os.Mkdir` creates no parents | external; only what the start asks of it |
| Storage selection | `storage/filesystem.go` | – | New | – | all backends make the same promises |
| Permission manager | `permissions/manager.go` | sorted rules | New, Check, RequiresAuth, Realm | unstable sort, prefix matching, order of the tests | longest prefix wins, no login prompt where a login cannot help |
| Configuration | `config/config.go` | the Config value | Load, parseFolderPermissions | – | malformed rules fail the start |
| Authentication | `auth/*.go` | OIDC: provider, verifier, oauth2 | Chain, Basic, LDAP, OIDC | OIDC's lazy initialisation by concurrent requests; providers that are down | a request is answered; an outage does not stick |
| Middleware chain | `server/middleware.go`, `server/server.go` | per request: path, user | health, CORS, browser block, auth and permissions | order of the middlewares | preflights answered, 401 only for a login |
| Directory listing | `server/dirlist.go` | – | GET/HEAD of a directory | asks Stat twice, then OpenFile, then Readdir, while others change the tree | an existing directory is listed, a 404 means absence |
| WebDAV handler, lock system | `golang.org/x/net/webdav`, put together in `server/server.go` | locks in the memory of one process | PUT, DELETE, MKCOL, MOVE, temporary locks | MOVE is Stat, RemoveAll, Rename; a Stat that failed looks like absence; a client repeats a MOVE that failed half way | what an answer says is true; contents disappear only where a client asked for it; no lock outlives its request |
| Start and shutdown | `cmd/server/main.go`, `server/server.go` | context, HTTP server, the listener's goroutine | Load, New (storage, ensureFolders, auth), Start, Shutdown | two replicas start at once, while clients store and remove; starts fail half way, some at every try; signals race the listener, requests outlast the 10 s | serves only what is configured; ends when told; exit code 0 means everything was answered |
| Error pages | `server/errors.go` | – | renderError | – | layout |

**How they interact.** `main` loads the configuration, `server.New` builds the file
system, the permission manager, the authenticator, the WebDAV handler and the
listing handler and wraps them into the middleware chain. `net/http` runs each
request in its own goroutine: the chain decides, then a handler makes a few calls
of `webdav.FileSystem`. A call of a cloud file system is a sequence of requests
to the storage service; what two calls share is the bucket, and what two requests
share is the bucket and the locks. Replicas share the bucket only.

The hazards, each at its line, are in `PROJECT.json`.

## 2. Modules

| Module | Models |
|---|---|
| `ObjectStore` | keys, listing order, listing pages, the bucket as a map; `keyFor`, `dirKeyFor` |
| `FileSystemCalls` | goroutines and their calls (`pc`, `call`, `loc`, `ret`), `Begin`/`Goto`/`Return`, one operator per API request with its faults, `Crash` |
| `FileSystemOps` | Mkdir, Stat, Readdir, Write and Close, which the three backends implement alike |
| `S3FileSystem` | OpenFile, RemoveAll, Rename of `s3.go`, and the steps of its calls |
| `BlobFileSystem`, `GCSFileSystem`, `AzureFileSystem` | what `gcs.go` and `azure.go` share and where they differ |
| `Backends` | the three together: `STORAGE_TYPE` chooses one |
| `FileSystemProperties` | the properties of all backends |
| `CloudFileSystem` | a backend on its own, called freely, in different subtrees, and fairly |
| `FileTree` | the abstract specification: a tree on which a call takes effect at one moment, when it returns |
| `TreeRefinement` | the mapping under which a backend implements `FileTree` |
| `DAVHandler` | `ServeHTTP` of `dirlist.go` and webdav's GET, PUT, DELETE, MKCOL, MOVE as clients of the file system; temporary locks; restarts |
| `DAVServer` | composition: handlers, locks and one of the three backends, chosen by `STORAGE_TYPE` |
| `Lifecycle` | `main`, `config.Load`, `server.New` with `ensureFolders`, `Start` and its shutdown, for several replicas over one storage |
| `Permissions` | rule parsing, sorting, matching and the decision |
| `RequestPipeline` | start and middleware chain of one request, on top of `Permissions` |
| `OIDCLazyInit` | `OIDCAuth.init` and `Authenticate` by concurrent goroutines |
| `FileSystemProofs`, `BackendProofs`, `RenameProofs` | lemmas on keys, pages and API requests; on the operations of each backend; on Rename |
| `StorageProofs`, `DAVProofs`, `PipelineProofs`, `LifecycleProofs`, `OIDCProofs` | theorems |
| `MCCalls`, `MCStorage`, `MCDAV`, `MCPipeline`, `MCLifecycle` | the small sets TLC uses |

**State and code.** A path is a sequence of names, a name a positive number; a
key is a path that may end with `Slash`. Name by name comparison is then the
order of the key strings as long as no name is a prefix of another, and "starts
with `dirKey`" is a prefix of sequences. Clients spell paths also with empty, `.` and
`..` names (`Sent`); every method of a file system begins with `keyFor` or `dirKeyFor` of
its paths, which `path.Clean` them, and so does a call of the model (`Clean`, `Calls`). The
locks of webdav's memory lock system clean theirs, too, which is why paths in `DAVHandler`
are clean. The permission manager does not: it compares the path as it was sent
(`Matches`), and `LongestPrefixWins` is a statement about that spelling. An object
carries the number of the upload it comes from and the number of chunks of it that were
stored, which tells a broken-off upload from a complete one. Sizes, times and content
types are left out.

`pc[p]` names the next API request of the call goroutine `p` runs. An action is
one API request and all local code up to the next one, which no other goroutine
can observe. `loc[p]` holds the locals of the Go method under their names
(`toDelete`, the page, the continuation token, `HasMorePages`, the first
request's error). A failed request may have taken effect: `PutObject`,
`CopyObject`, `DeleteObjects` and `DeleteObject` say so; `DeleteObjects` may also
succeed and leave keys, as the service's answer can list per-key errors. `Crash`
ends all goroutines and keeps the bucket. `before` is a history variable, the
bucket as it was when the call began; no action reads it.

Listings continue from a token: a page holds the first keys after it in the
bucket as it is when the page is fetched, so deletions and uploads between two
pages show as they do in the services.

In `DAVHandler` a request is a short program of file system calls: `stage[p]` names
the call whose answer its handler waits for, and an action is the handler's code from
one answer to the next call (`Ask`) or to the response (`Respond`). The file system
underneath is the module of the backend, so every API request, fault and crash of it
is there. A request that changes something holds a lock on its path, and MOVE one on
its destination, as webdav's `confirmLocks` makes for a client without an `If`
header: with depth 0, for this path only, in the memory of one process. `arrived` and
`alone` are history variables: the bucket when the request had its locks, and whether
another request has worked above or below its paths. A PUT with an empty body and HEAD
(a GET without a body) are left out.

In `Lifecycle` a deployment is one configuration, what its storage holds before, and
the replicas that share it. `phase[r]` is where `main` is, `listener[r]` the goroutine of
`ListenAndServe`, `todo[r]` the paths `ensureFolders` has not come to. A supervisor
launches a replica again unless it was told to stop (`restart: unless-stopped`,
docker-compose.yml:21). What `Load` accepts and a later step refuses, at every start, is a
`flaw` of the deployment: credentials the storage client cannot be built from
(`NewStorage`), a storage that answers nothing (`MkdirFolder`), a password bcrypt refuses,
at which `auth.New` panics (`NewAuth`), and a port nobody can listen on (`Listen`). Such a
replica starts over and over. The storage holds files as well as folders, as `Stat` does
not ask which it has found, and clients of the replicas that serve store and remove both
(`ClientStores`, `ClientRemoves`) while others start. `removed[r]` is a history variable: the
configured paths clients have emptied since the process of `r` began.

In `RequestPipeline` an action is one middleware. The username is what the chain
of authenticators returns; any subset of OIDC and LDAP may be down for a request.
Logging, security and download middlewares change only headers and are left out.
In `OIDCLazyInit` a field assigned by `init` becomes visible to other goroutines
at a moment of its own (`Publish`), as Go's memory model allows for
unsynchronised writes.

## 3. Runs

| Run | Instance | Shows |
|---|---|---|
| `MCS3.cfg` | 2 goroutines, 2 calls out of 14, 3 buckets, pages of one key, 2 faults | the file system properties below hold for isolated calls, and S3 implements `FileTree` |
| `MCBlob.cfg` | the same, for GCS (with the pinned client library) and Azure | the same, but for `FaultFreeSucceeds` |
| `MCDAV.cfg` | 2 goroutines, 2 requests out of 10, 2 buckets, 3 backends, 1 fault | what the answers to clients mean, with locks and without isolation |
| `MCLifecycle.cfg` | 20 deployments, 2 replicas, a request in flight at each, 2 faults | start, folders, clients, shutdown and exit codes |
| `MCPipeline.cfg` | 8 rule lists, 4 authenticator sets, 384 requests | the decisions and answers of the chain |
| `OIDCLazyInit.cfg` | 2 goroutines, outages | initialisation completes and recovers |

The runs that end in a violation show the findings of section 4, each on the smallest
instance that has it:

| Run | Instance | Shows |
|---|---|---|
| `MCS3Racing.cfg` | a rename and an upload into the directory | the upload is deleted although it was not copied |
| `MCS3Removing.cfg` | one RemoveAll, one fault | success reported over remaining objects |
| `MCS3Large.cfg` | batch limit 2, no fault | a rename of more objects fails after copying them |
| `MCS3Escaped.cfg` | names `a%20b` and `a b`, no fault | a rename copies the one and deletes the other |
| `MCGCSDirectory.cfg` | one Rename of a directory on GCS, no fault | it fails |
| `OIDCLazyInitRace.cfg` | 2 goroutines | a request panics on a nil verifier |

**File system properties** (`FileSystemProperties`):

- `StaysInside`: a step changes only keys below the paths of a call in flight.
- `RenameKeepsData`: after each step of a Rename, also a failed one or a crash,
  every object of the tree is at its old or its new key with its content.
- `RenameDeletesCopied`: what a Rename deletes is at its new key.
- `FaultFreeSucceeds`: without faults no call reports an error (on S3, with directories that
  fit into a batch). On GCS and Azure `ImplementsTree` says the same, but for GCS's
  directories (finding 5).
- `ReaddirExact`: a listing has each child once.
- `ImplementsTree`: the backend implements `FileTree`. The abstract tree changes when
  a call returns, and then by the whole effect of the call; while a call works,
  the tree shows its footprint as it was when the call began (`before`). So without a
  failed request a success is a complete one, over however many pages, and every
  answer is the one the tree gives. Once a request has failed (`healthy` is false) a
  call may leave a part of its effect, inside its own paths and without losing an
  object of a Rename, and a success of Mkdir, Close and Rename still means what it
  says (`Assured`); a success of RemoveAll does not (finding 2). Where absence is not told
  from failure (`detects` is FALSE, as on GCS with the pinned client library), the tree
  is one whose Rename of a directory, or of nothing, and whose read of an absent file
  answer an error and change nothing (`Undetected`); this is then all that differs.
- `CallsReturn`: every call returns.
- `RemoveOkRemoves`: a success of RemoveAll leaves nothing. One failed request refutes
  it (finding 2).

**Server properties** (`DAVServer`), for any interleaving of requests the locks allow:

- `AcknowledgedUploads`: a PUT answered 201 is stored completely at that moment,
  whatever else was sent for the same name.
- `MoveKeepsSource`: a MOVE never loses an object of its source, wherever it fails.
- `MoveReplaces`: a MOVE that succeeds leaves the source tree, and nothing else, at
  its destination.
- `PreconditionHonoured`: without a fault a MOVE with `Overwrite: F` onto something
  that exists answers 412 and changes nothing.
- `NothingLostUnasked`: contents disappear only below a deleted path, at an uploaded
  one, at the marker of a directory that is created or at the destination of an
  overwriting MOVE. The property names the two other ways there are: a Stat that took
  a failed request for absence (`Misjudged`), and a MOVE that is not quiet. What
  follows is that a MOVE with `Overwrite: F` may be repeated after any failure.
- `NotFoundMeansAbsent`, `DirectoriesListed`: what 404, 405 and 500 mean for a GET; the
  second excludes names that are a file and a directory at once, of which the handler
  may see the one and then open the other, and S3's directories without a marker, which
  Stat finds and OpenFile does not.
- `RequestsAnswered`: every request is answered or lost in a restart; nobody waits
  for a lock, as MOVE gives its source back at once when its destination is locked.
- `TypeOK` also says that a path has one lock holder and that only running requests
  hold locks.

`QuietMove` leaves out MOVEs between nested paths and those with another request
above or below: the handler refuses neither, and then destroys what it was asked to.

**Lifecycle properties** (`Lifecycle`):

- `ServesConfigured`: a replica that accepts connections has a configuration that loads
  and none of the flaws that end a start, and there is something at every configured
  path but those that clients have emptied since its process began, whatever failed
  before and whatever the other replica and its clients did. "Something" may be a file:
  ensureFolders asks only whether Stat returns an error (`server.go:121`).
- `CleanExitAnswersAll`: exit code 0 means that every accepted request was answered.
- `StartsOnlyAdd`: a start adds configured folders and changes nothing else, though clients
  of the other replica do; with a configuration that does not load it adds nothing.
- `StopsWhenTold`: after a signal a replica ends, though its requests may never do.
- `ServesInTheEnd`: with a valid configuration without flaws, whose folders can be created, a
  replica serves in the end unless told to stop, over any number of failed starts and
  whatever an earlier start or clients have left. That the folders can be created
  (`Creatable`) is asked when a start begins: no path configured before its parent, and no
  file where a folder is needed, which on local storage `os.Mkdir` refuses.

**Isolation.** The file system properties hold when calls in flight at the same time work in
disjoint subtrees (`IsolatedSpec`, `IsolatedBegin`). Nothing in the code ensures this.
WebDAV locks are advisory, live in memory and, for an unlocked client, last for
one request of one server process. `MCS3Racing` shows what happens without it; GCS
and Azure have the same window, between the copy and the delete of one object.
`StaysInside` does not need isolation, and is proved without it. `MCDAV` does not
assume isolation either: what the locks do not exclude is excluded, by name, in the
properties.

**Bounds.** Two calls are enough for a call to meet the result of an earlier one
(rename back and forth, Mkdir over a file, then list) and for two calls to
interleave. Pages of one key make the listings of the trees
span several pages, which matters because GCS and Azure delete between pages. Two
faults cover a failing request whose effect took place, followed by another
failure or a crash. In `MCDAV` two requests are enough for a failed MOVE and its
repetition, for two that meet in a lock, and for a listing that a deletion overtakes;
one fault is enough for a request that fails after its effect or a restart between
two calls; a request makes at most three calls, so `MaxCalls` 6 never binds. In
`MCLifecycle` two faults allow a failed start after a failed start, two replicas the
race for one folder and the clients of the one while the other starts; the deployments
are complete and incomplete configurations of each storage type, one for each flaw,
folders that exist already, nested ones in either order, and files at or beside a
configured path. Clients store under the names of the deployment (`names`) and remove
anything. One request in flight per replica is enough for one that outlasts the shutdown;
a client's steps need one, and a second would take the same steps. Local
storage has one replica, as two "never share the volume" (docs/kubernetes.md:38).
`MaxKeyLen` 4 never binds in these instances: no call
deepens the tree. `MaxCalls`, `MaxFaults`, `PageSize`, `DeleteLimit`,
`MaxKeyLen`, `Chunks`, `MaxRequests` and `MaxInFlight` are all the bounds there are. The
middlewares share no state, so `MCPipeline` lets one request follow the start.
`CHECK_DEADLOCK FALSE` stands where the bounds on calls and requests, or a start
that failed, end a behaviour.

**Fairness.** `FairSpec` gives each goroutine weak fairness on its own step: the
Go scheduler runs it, the API clients answer or give up, and the server's
`ReadTimeout` ends a request body that stalls. Nothing is assumed about clients or
about faults. `DAVServer` adds weak fairness on the handler's own code. In `Lifecycle`
the supervisor launches, `main` and the listener's goroutine run, and the 10 s of the
shutdown pass; requests need not end and nobody need send a signal. In `OIDCLazyInit`
memory writes also arrive (`Publish`), and
`RecoversAfterOutage` states in its premise that the provider stays up and
requests keep coming.

**Backend details taken from outside the code.** `gcs.go:208` takes a name for a directory,
and `gcs.go:141` a file for absent, only if the client library returns
`storage.ErrObjectNotExist` itself. `go.mod:6` pins version 1.62.1 of that library, which
returns an error that wraps it. The library is not part of the repository: `ExactSentinel`
is FALSE in every run, and the theorems hold of either value. S3 decodes the percent
escapes of a copy's source: `Escapes` maps a name with an escape to the name it
decodes to (`CopySource`); it is empty but in `MCS3Escaped`. Azure's
`StartCopyFromURL` counts as finished when it returns, as `docs/cloud-azure.md`
says of copies within an account. Deleting an absent key succeeds on S3 and fails
on the other two. bcrypt refuses passwords of more than 72 bytes.

## 4. Findings

1. **Lost upload** (`s3.go:261`, `s3_racing`). Rename deletes at the end what it
   copied earlier, whatever the keys hold by then.
2. **Incomplete removal reported as success** (`s3.go:200`, `s3_removing`).
3. **Large directories cannot be renamed** (`s3.go:261`, `s3_large`): more than
   1000 keys go into one `DeleteObjects`. RemoveAll has the same limit.
4. **Panic during OIDC initialisation** (`oidc.go:31`, `oidc_race`).
5. **No directory can be renamed on GCS** with the pinned client library (`gcs.go:208`,
   `gcs_directory`): its error wraps the one the code compares with. `gcs.go:141` has the
   same comparison, so reading an absent file is not `os.ErrNotExist` there.
6. **Percent escapes in names** (`s3.go:223`, `s3_escaped`): `CopySource` is not
   URL-encoded, so a rename of `a%20b` copies `a b` and deletes `a%20b`.

The models show more, which has no run of its own, because the properties and premises
above name it as an exception:

- Without a prefix the root lists as empty: `s3.go:379` asks for the keys that start with
  `/`, and so do `gcs.go:327` and `azure.go:361` (`ListedRoots`).
- A success of Rename does not mean that the old file is gone: `s3.go:226` drops the error
  of the delete (`Assured`).
- Failure is taken for absence. S3's OpenFile looks at the marker's HEAD only for success
  (`s3.go:122`), so when it fails an upload is stored under the name of a directory;
  without a failed request it never is (`Outcomes`). Stat answers `os.ErrNotExist`
  whatever went wrong (`s3.go:313`, and GCS and Azure): a MOVE with `Overwrite: F` then
  writes over its destination, and a DELETE answers 404 for what is there (`Misjudged`).
- On S3 a GET of a directory without a marker answers 500 (`dirlist.go:86`), as
  Stat finds it and OpenFile does not (`DirectoriesListed`).
- `AUTO_CREATE_FOLDERS` is documented as "Create configured folders at startup"
  (docs/configuration.md:56) and "/team/docs" as a path (docs/configuration.md:64), but the
  local Mkdir creates no parents (`server.go:124`): with that folder alone the server
  exits with 1 at every start. The cloud backends create it (`Creatable`).
- `Load` accepts a password that bcrypt refuses, and every start ends in a panic after
  the folders were created (`basic.go:25`); docs/configuration.md:101 names no limit. An
  unusable port or storage client fails every start, too (`Flaws`).
- With a file at a configured path the server starts and serves without the folder
  (`server.go:121`, `ServesConfigured`).

Seen while modelling: the comment "allow everyone (guest mode)"
(`authenticator.go:55`) against the 401 that non-public folders answer to the
empty name; a method listed in `RO_METHODS` but not in `RW_METHODS` is allowed in
`rw` folders, too, where `docs/configuration.md:90` lets `RW_METHODS` define them;
on Azure renaming a name that does not exist reports success, and GCS's RemoveAll
ignores the error of the file's own delete (`gcs.go:177`).

Seen in the handlers: a MOVE whose source does not exist, with `Overwrite: T`, removes
the destination before it fails; a repeated MOVE with `Overwrite: T` after a partial
failure on Azure removes the half that was already moved; a MOVE into the source's own subtree or onto
an ancestor is not refused; a signal that meets a failing listener may end with exit
code 0.

## 5. Proofs

TLAPS checks these for all values of the constants that satisfy the `ASSUME`s of
`ObjectStore`, `FileSystemCalls`, `S3FileSystem`, `Backends`, `DAVHandler`, `DAVServer`, `Lifecycle` and
`RequestPipeline` (types of the constants, webdav's own rule that a MOVE has different
ends, paths are sequences, the calls considered contain those of the requests, only
the empty user name has no second spelling). Theorems with a further hypothesis name it.

- **Types and `StaysInside`** (`StorageProofs`: `TypeCorrect`, `CallsStayInside`), on
  each backend, for every interleaving, fault
  and crash (`Spec`, not `IsolatedSpec`). Neither is inductive: a step deletes what an
  earlier step listed. The invariant `CallsInv` of `FileSystemProofs` adds that
  the label of a goroutine belongs to the operation it runs and that the keys in
  `page` and `toDelete` lie below the call's name. One lemma per action (`MkdirFine`,
  `RemoveListFine`, ...) shows that the action is `Fine`: it keeps the goroutine's own
  part, stays inside its footprint and leaves the other goroutines alone, whose parts
  do not mention the bucket. `BackendProofs` collects them to `StepFine`, and adds which
  label a call of an operation can have and what a Stat or an OpenFile can answer.
- **Rename** (`StorageProofs`: `RenamesKeepData`, `RenamesDeleteCopied`), under
  `IsolatedSpec`,
  `SeparateRenames` (no directory is moved into itself or onto a parent) and `NoEscapes` (S3
  copies the object it is asked to, because no name holds a percent escape: the case
  left out is finding 6). The
  invariant `RInv` says of every Rename in flight that each key of
  the old tree is as it was when the call began, or gone and copied, and that what the
  call is going to delete, in its list, as the file it copied or as the page's
  foremost key, it has copied. It is needed because the batch of S3 deletes what
  many earlier requests copied, and other calls take steps in between. The argument
  (`RenameProofs`) has three parts: the new keys of a tree are distinct and lie in the
  new tree (`RebaseInjective`, `RebaseTree`), which has no key in common with the old one
  (`TreesApart`), so a copy overwrites neither the old tree nor an earlier copy
  (`CopySafe`) and a delete takes no copy away (`DeleteSafe`); a call that is apart
  touches neither tree (`ApartFootprint`, `OthersKeep`); and on GCS and Azure the
  object deleted is the one just copied, because the listing order has one foremost
  key (`OneForemost`). Without isolation the theorem is false: `MCS3Racing`.
- **Listings** (`StorageProofs`: `ListingsAreExact`), under `IsolatedSpec` and
  `ListedRoots` (a prefix is configured, or nobody lists the root: the case left out
  lists as empty). The order of keys is total (`PrecedesTransitive`, `PrecedesTotal`), a finite
  set of keys has a last one (`LastIsLast`) and a page holds what precedes the keys it
  holds (`PageIsClosed`), so an entry that comes after the token is in the next page or
  comes after the next token (`PageAdvances`). The invariant `ReadInv` says that what the
  call lists is as it was when it began and that each entry is still to come or has its
  name among those found (`Sighted`). The last page leaves nothing to come. One order of
  files and common prefixes within a page is as good as the other (`NewEntriesFacts`).
  This is why `IsBucket` says that a bucket is finite: an infinite one has no last key.
- **Server** (`DAVProofs`), for any requests, interleavings, faults and restarts, and
  without isolation. `DAVInv` (`ServerInvariance`) says that a handler's stage belongs to
  its request's method, that the call it waits for is the one of the stage, that it holds
  the locks of the stage and nobody else does, and that `alone` is true only of requests
  whose paths no running request works above or below (`TrulyAlone`); it contains
  `CallsInv`. Types follow (`ServerTypeCorrect`). What one request does to another's
  trees then follows from locks and `alone` together (`OthersOut`): the lock keeps
  out the same name, `alone` the names above and below. On top of it stands one
  invariant per property, each about the trees of one request; those about MOVE, and
  `NothingLostUnasked`, also have the hypothesis `NoEscapes`:
  - `UploadInv`, for `AcknowledgedUploads` (`UploadsAcknowledged`): a PUT whose Close
    returned without an error is stored. Other requests cannot undo it before the answer.
  - `MoveInv`, for `MoveKeepsSource` (`MovesKeepTheirSource`): until Rename begins a
    quiet MOVE's source is as it was at its arrival; from then on `RenameInv` holds of the
    call, and afterwards each object is at its old or its new key. It is `RInv`
    with the isolation that locks and `alone` give instead of an assumed one.
  - `SeesTruth`, for `NotFoundMeansAbsent` and `DirectoriesListed` (`NotFoundIsAbsent`,
    `DirectoriesAreListed`): without a fault the trees of a request that looks are as they
    were (`Undisturbed`), and each request to the service has ruled out what the call
    has passed by: a Stat that asks for the marker has found no file (`StatInv`,
    `GetInv`, `ListInv`).
    `PreconditionHonoured` needs it of the Stat of the destination (`PreconditionsHonoured`).
  - `FreshInv`, for `NothingLostUnasked` (`NothingIsLostUnasked`): the destination of a
    quiet MOVE that may not overwrite, and whose Stat did not misjudge, holds only
    copies of the source (`OnlyCopies`). So a Rename overwrites nothing but its own
    copies, and what it deletes is elsewhere (`RenameKeepsContents`); all other steps that
    destroy contents are the named ones, by the footprint of the stage's call.
  - `ReplaceInv`, for `MoveReplaces` (`MovesReplace`): while the destination is removed
    and the source renamed, nothing that is listed has been passed over (`SweepInv`, below),
    and without a fault the destination is empty when the Rename begins, because Stat or
    RemoveAll said so, and holds only copies from then on. What `MoveInv` says of an
    object that is gone from the source then gives the other inclusion.
- **RemoveAll and Rename leave nothing** (`BackendProofs`: `RemoveStep`; `RenameProofs`:
  `RenameStepSweeps`). `SweepInv` says that each key below the name is still to come in
  the listing, on the page, or on the list to be deleted (`Swept`), and, while no request has
  failed, that there is no file of the name, unless a Rename on S3 failed to copy one:
  it goes on as if the name were a directory. Deleting what has been listed while the
  listing is still being read (GCS, Azure) passes over nothing, because the token is a
  key and not a position (`PageAdvances`); a Rename adds nothing to the tree it
  lists, because its copies lie in the other one (`CopyBelow`). `Plain` is needed of a
  Rename: of a name that is a file and a directory at once it moves the file only.
- **Lifecycle** (`LifecycleProofs`: `LifecycleTypeCorrect`, `ServingConfigured`,
  `CleanExits`, `OnlyAdd`). The invariant `IInv` adds to the types what a replica may rely
  on at each place of its main (`ReplicaInv`): past `Load` the configuration is valid, past
  `NewStorage` the storage client could be built, past `NewAuth` no password was refused,
  and behind the listener the port works. `Covered` is its part about the folders: at each
  configured path there is something, or clients have removed it since the process began,
  or it is still in `todo`. A step of another replica keeps it, because a start only adds
  (`Grows`) and what clients take away is entered in `removed` for every process that
  runs (`Accounted`); nothing is assumed about what clients do.
- **OIDC** (`OIDCProofs`: `OIDCTypeCorrect`, `PanicsOnlyThen`). The invariant says that
  whoever sees a provider sees a verifier, or some goroutine has assigned one that
  is not visible yet.
- **Pipeline** (`PipelineProofs`: `Prompts`, `LongestWins`, `Preflights`,
  `SpellingIsFree`, `PipelineTypeCorrect`).
  `LongestWins` rests on `MostSpecific` (of the matching rules the first in a
  sorted list has a longest path, by a least-index argument, `Least`) and
  `SortingFacts` (a sorting has the rules of the configuration, no others).
  The invariant adds that the sorted rules are those of the configuration and
  that a 401 was decided for the current request. `Preflights` has an invariant of its
  own, `Preflighted`: a preflight is before or at the CORS middleware, or answered by
  it. `SpellingIsFree` is a fact about `Check` of any rules and two spellings of a name.

Only model-checked:

- the liveness properties `CallsReturn`, `RequestsAnswered`, `StopsWhenTold`,
  `ServesInTheEnd`, `RecoversAfterOutage`, as the prover does not reason about `ENABLED`;
- `ImplementsTree`, of which the theorems about `Spec` and `IsolatedSpec` prove the parts
  that matter most: what a Rename, an upload and a listing promise, and that a call
  stays in its subtree. Planned below;
- `FaultFreeSucceeds`, which on S3 holds only of instances whose directories fit into
  one batch (finding 3), so there is nothing to prove for all buckets.

## 6. Not modelled

File sizes, modification times, MIME types, ETags; COPY, PROPFIND, PROPPATCH, LOCK,
UNLOCK and `If` headers of `golang.org/x/net/webdav`, which is external; the local file
system beyond the Stat and Mkdir of the start; LDAP's dialogue and password hashes
beyond accepted or refused; the logging, security header and download middlewares,
error pages and templates, which hold no state; the `--healthcheck` client of `main`;
the read, write and idle timeouts of `net/http`; the spelling and defaults of
environment variables; the TLS, container and Kubernetes set-up; multipart uploads,
which the code does not use.

## 7. Plan

Done: the object store and the three cloud file systems, the abstract tree they
implement, the handlers on top of them, the request pipeline, the OIDC
initialisation, start and shutdown, and the theorems above. Next, in this order:

1. `ImplementsTree`, step by step: initial states, the steps of each operation, the
   crash.
