# A TLA+ model of scaipproxy

scaipproxy is a SIP proxy for SCAIP alarm devices: a fork of Routr, written in
JavaScript (`mod/`), run on GraalVM by a Kotlin launcher
(`src/main/kotlin/io/routr/core/`). Devices register with it and send it
MESSAGE requests, which it routes to other devices. It keeps its accounts and
the location of the devices in Redis, which several replicas share (the Helm
chart starts as many as it is told to).

This directory holds TLA+ modules that model it, the TLC configurations that
check them, and proofs that TLAPS checks. Source paths below are those of the
repository.

## 1. The system

A launcher process holds two JavaScript contexts, each with its own module
instances, data source connections and caches, and each running one thread at
a time: *server* (SIP) and *rest* (the REST API). A gRPC server in the same
process passes the commands of the REST context to the server context.

```
 devices --SIP--> Processor -> RequestProcessor -> RegisterHandler -> Registrar -+-> AgentsAPI, PeersAPI --> Redis
                                   |   \-> SynthRegistrar --\                    +-> digest service (gRPC)   ^  ^
                                   |                         +--> Locator ------------------- HSET, HGET ----+  |
                                   \-> RequestHandler ------/                                                   |
 admins --HTTP--> rest.js -> resources_service -> AgentsAPI, PeersAPI, DomainsAPI, ... ----- SET, SADD, DEL ----+
                         \-> GRPCClient -> GRPCServer -> server.stop / stopIfReady / locator.evictAll
```

| Component | State | Operations | What makes it correct |
|---|---|---|---|
| Request handling (`core/processor/processor.js`, `request_processor.js`, `register_handler.js`) | the request being handled; one at a time per replica | dispatch by method and kind of device; authenticate, register, unregister, route, reply | what a device is told is what was done; nothing is registered without the login it needs; no handler blocks its replica |
| Registrars (`registrar/`) | two APIs with a cache each, per Registrar | `isAuthorized`, `register` | a verdict is one that the recent past of the account justifies |
| Digest service (`auth_util.js`, `AuthClient.kt`) | none here | a blocking gRPC call | an error is a no |
| Proxy routing (`request_handler.js`, `request_utils.js`, `response_processor.js`) | none | choose the key, find the route, rewrite the headers, relay the responses | a message goes where its key was bound; a response goes back the way its request came |
| Location service (`location/`) | one Redis hash: address of record to route | add, find, remove, evict all | a registered device is found, an unregistered one is not |
| Redis data source (`data_api/redis_datasource.js`) | a string key per entity, a set of references per collection | insert, update, remove, get, find, set | keys and references agree, crash or not |
| Data API (`data_api/*_api.js`) | a cache per API | create, update, delete with uniqueness and dependency checks, lookups | no duplicate entity, no dangling dependency, no cache answer too old |
| REST service (`rest/`) | none | one handler per resource and verb; tokens | a status that tells what was done |
| Files data source and store (`files_datasource.js`, `files_store.js`) | parsed files, cached for an hour | find, get; static validation | only a consistent set of files is served |
| Life cycle (`Launcher.kt`, `GRPCServer.kt`, `server.js`, `context_storage.js`, script `scaipproxy`) | timers, exit code | stop, restart, now or when idle; evict all | a command that is acknowledged happens |
| Configuration (`core/config_util.js`, `core/config/`) | the merged configuration, the salt | merge defaults, Redis, file and environment; retry Redis | the modules of a process agree; start-up ends |
| Registry (`registry/`) | registrations with upstream gateways | register, refresh, give up | bundled, but the launcher never runs it |
| ACL, RouteInfo, route loader (`core/acl/`, `route_info.js`, `route_loader.js`) | none | pure functions | the running server no longer calls them |

What is hard here: handlers of different replicas interleave at every command
to Redis; an entity is two Redis keys written by two commands; a lookup is many
commands; the caches of the SIP context hear nothing of what the REST context
does; every exception in a SIP handler is swallowed and leaves the request
without an answer; devices repeat requests, and the network loses and reorders
them. The `hazards` of `PROJECT.json` list where each of these bites.

## 2. The modules

| Module | Models | Built on |
|---|---|---|
| `Directory` | what `Registrar.isAuthorized` promises: an abstract specification | |
| `EntityStore` | the Redis data source as REST contexts write it, two commands a call: what the SIP side may take for granted of the REST side | |
| `Accounts` | `isAuthorized` down to the Redis commands, with the REST contexts writing between any two of them | an instance of `EntityStore`; implements `Directory` |
| `SipMessages` | what the server reads of a request, and the keys it stores and looks up locations by | |
| `LocationService` | what the server promises its devices: an abstract specification | `SipMessages` |
| `SipServer` | the SIP handlers of the replicas over the shared location store | `SipMessages`, an instance of `Directory`; implements `LocationService` |
| `Resources` | what the REST API promises an administrator: an abstract specification | |
| `DataApi` | create, update and delete of the entities by the REST contexts of the replicas, command by command | implements `EntityStore`; with one context, `Resources` |
| `ProxyRouting` | the headers a request and its response are routed by, through any proxies: Via, Route, Record-Route, Max-Forwards | |
| `Configuration` | how a context loads: the data source's defaults, the merge of the configuration, the retries, the salt | |
| `Lifecycle` | the script, the launcher, the commands, and what they do to the loading of the contexts | `Configuration` |
| `FilesDataSource` | the data source of resource files: validation, cache, and the files changing meanwhile | |
| `MCAccounts`, `MCSipServer`, `MCDataApi`, `MCProxyRouting`, `MCLifecycle`, `MCFilesDataSource` | the instances TLC checks | |
| `MCDataApiConsistency`, `MCProxyRoutingPaths` | two of these instances, with the invariants of the proofs and the assumptions their theorems make of the constants | |
| `AccountsProofs`, `DirectoryProofs`, `SipServerProofs`, `ProxyRoutingProofs`, `LifecycleProofs`, `FilesDataSourceProofs`, `DataApiProofs`, `DataApiConsistency` | theorems and their proofs | |

The modules compose by refinement: `DataApi` implements `EntityStore`, which
`Accounts` runs its lookups over; `Accounts` implements `Directory`, which
`SipServer` asks; `SipServer` implements `LocationService`. Each of these is a
theorem (section 4), from the commands the REST contexts send to Redis up to
what a device is promised. What joins them is read, not proved: that the two
instances of `EntityStore` are views of one store, `Accounts` of its agents and
peers, whose user, domains and secret `DataApi` abstracts to a key; and that
clients keep to `OwnRefs`, which `DataApi` needs for this step. In the code,
each replica has two Registrars with caches of their own (one for REGISTER, one
for MESSAGE). `Directory` justifies each call by the
history of the login alone, not by the answer of an earlier call, so it is
sound for a replica whose calls alternate between two Registrars.

### Accounts

* `strings` and `sets` are the Redis keys, and `EntityStore` says how they change.
  `Insert` and `Remove` are the first command of `RedisDataSource.insert` (SET)
  and `remove` (DEL); `pending[w]` is the second that writer `w` has still to
  send, and `Finish` sends it. A PUT is `Read` and, with other writers between
  them, `Update`, one SET of a key that may be gone by then. `Lose` is a second
  command that never comes, `Half` a first one whose answer is lost.
  `Rest` and `Interrupt` are these actions with the clocks of `Accounts`.
* What may be stored under a ref and which collection it belongs to are
  parameters of `EntityStore`, `Fits` and `Home`: `Accounts` needs a user, a
  secret and domains of an entity, `DataApi` its key and what it depends on.
* `registrar[s]` is where an `isAuthorized` call is: searching the agents, then
  the peers (`StartLookup`, `GetEntity` once per reference in any order,
  `ConcludeAgents`, `ConcludePeers`), or its verdict. *failed* is an exception:
  `getAgentByDomain` and `deepSearch` trip over the null that `find` returns for
  a reference whose key is gone. As in the code, an agent matched before the
  null stays cached; an agent that is not found is not cached, a peer that is
  not found is.
* `FindFails` is a Redis failure in `find`, which answers status 500 and no data.
* Time is `Tick`: cache entries live `TTL` ticks (5 minutes in the code), a
  lookup at most `MaxLookup` (the code has a Jedis timeout per command).
* `gone[l]` and `steady[l]` are history variables: the ticks since some entity
  last held login `l`, and the ticks for which no lookup could have missed it.
  They count up to `Window` = `TTL - 1 + MaxLookup`.
* A login is `Unmissable` while some supplier of it is stored and listed, all of
  them have its secret, no collection lists a key that is gone (`Dangling`), and
  no remove waits for its second command (`Removing`). The last is not implied
  by the one before: a key that was deleted and written again dangles nowhere
  until the SREM of its remove is sent; from then on the collection no longer
  lists it, a second delete of it leaves nothing dangling either, and yet it
  trips a lookup that had listed the collection before.

Of the checks a REST call makes before it writes nothing is assumed here: any
entity that fits may be written at any moment. That is not too little, as
several replicas check and write concurrently, and not too much: `DataApi` does
nothing else (`ImplementsEntityStore`).

### SipServer

* `handler[s]` is the one request replica `s` handles and where it is.
  `Deliver` takes any request at any time a replica is free: this is the
  network that loses, repeats and reorders. `FirstStep` is the dispatch of
  `RequestProcessor.process` and `RegisterHandler.doProcess`.
* One action per call that reaches outside: `AskDirectory`, `AwaitDirectory`,
  `TakeVerdict` (the data source), `CheckAuthorization` (the digest service),
  `AddEndpoint`, `RemoveEndpoint`, `FindEndpoint` (the store), `Forward`,
  `SendOk`. `Fail` is any failure outside, or a restart: the request is dropped
  and the store keeps what it has.
* `location` maps keys to routes: one route per key, since `addEndpoint` is one
  HSET. `left` counts down to the expiry of the route, which nothing reads.
* `promised` is a history variable: the keys that a 200 OK has announced.

Abstracted: a URI is user, host and one flag for everything else it carries; a
contact is a value, and `Unusable` holds those that `aorAsObj` cannot take
apart; a digest is the login it was computed from; the kind of device stands
for the branch and tag tests.

### DataApi

* `strings` and `sets` are the Redis keys, `cache[x]` the caches of REST context
  `x`, one per collection (that of agents is left out: it is written under the
  ref and read under another key, so it is never asked).
* `handler[x]` is the one call `x` handles and the command it is at, or its last
  reply. A call is `Post`, `Put` or `Delete` and then a command at a time:
  `find` is `ListMembers` and a `GetMember` per reference, shared by the three
  searches (`CountDomains`, `SearchDuplicates`, `SearchDependents`); `insert` is
  `SetKey` and `AddMember`, `remove` is `DelKey` and `RemoveMember`. What a
  handler does between two commands, the cache included, belongs to the first
  of them.
* An entity is its kind, its key (what duplicates are told by) and what it
  needs: an agent its domains by URI, a domain its number and a number its
  gateway by ref. All other fields are left out; bodies are taken to satisfy
  their JSON schema, and gateways to have a port.
* `FindFails`, `GetFails` and `WriteFails` are Redis failures, a write before
  or after Redis has carried it out; `Restart` loses the caches and the call.
* `Known` is an assumption on clients: nobody names a ref that is still being
  generated.

* `Resources` is what this amounts to for one context whose Redis does not fail:
  a call that succeeds does what it is for at one moment, of an entity of the
  kind it was sent to, and at that moment its key was free, what it needs was
  there, and what it removed was needed by nothing; a call that is refused did
  nothing. The moment is the SET or the DEL: `Outcome` calls the call *made*
  from there on, and a call that is made must not be refused. `Calls` keeps of a
  handler only its verb, its collection and its outcome.

* `EntityStore` is what it amounts to for any number of contexts, failing or not:
  `Seconds` keeps of each handler the second command it has still to send. As
  long as nothing fails, no second command is lost and no first one is left
  without its second (`Unbroken`).

### ProxyRouting

* `network` holds the messages on their way. `Forwarded` is what
  `RequestHandler.processRoute` makes of a request, header by header in its
  order; `Refuse`, `Exhaust` and `Relay` are its outcomes (480, an exception
  because no forwards are left, sent on). `ProcessResponse` is
  `ResponseProcessor.process`: `Dropped` says which responses go no further.
* The agents and the SIP stack are external, and do what RFC 3261 asks: the
  stack sends a request to its first Route, a response to its first Via, and
  puts a Record-Route that `addHeader` gives it on top of those there are; an
  agent copies the Vias and Record-Routes into its response and follows the
  Record-Routes in the dialog, the caller in reverse. Whether the client
  transaction of a response still lives is a choice made when it arrives.
* The branch of a Via is the number of forwards left where it was added, which
  no two Vias of a request share.
* Which requests are let in and what the locator holds is `SipServer`'s
  matter: here `Bound` is any function, loops included.
* Taken as given: `spec.externAddr` has no port of its own; `Public` classes a
  host once and for all; the only method relayed is MESSAGE (the dispatch lets
  no other through, so the branch for ACK is not reached).

### Configuration and Lifecycle

* In a context many modules call `config_util` as they load, and `DSSelector`
  builds a data source of its own: `Agenda` is that list. One call goes through
  `FindUsers`, `CreateDefaultUser`, `CheckConfig`, `CreateDefaultConfig` (the
  constructor of `RedisDataSource`), `GetConfig` or `Retry`, and `Salt`. A
  failed find is an empty list, a failed get is not an absent configuration,
  as in the code.
* `Merge` is deepmerge with arrays overwritten: a preference is one value. An
  environment variable of a Boolean option that is not `true` counts as unset.
* The default user is an object of the module, so it keeps the reference its
  first insert gives it: `loader[p].ref`.
* `phase[p]` is where `Launcher.kt` is: loading the server context, then the
  REST context, starting the controller, serving. `Exit` is any end of the
  process with its code; the script runs it again after 123 only, and `Start`
  is somebody starting the script, with another file or environment perhaps.
* `CallFails`, `Schedule` and `StopNow` are the outcomes of a REST command;
  `Fire` is the timer task of a graceful one. A GraalJS context refuses a second
  thread: `CallFails` covers a command that arrives while a SIP handler runs.
* `seen` and `salts` are history: what the modules of a process got. `changed`
  is too: which options others have stored anew since the first of them read.
* A salt that is generated names its module, so no two are the same.
* Taken as given: the configuration file can be read (`config_from_file` exits
  otherwise) and is edited only between two runs; the environment variable
  `SALT` is not set; Redis is empty at first; the two commands that create the default
  user are not interleaved with a find of another process.

### FilesDataSource

* `Construction` is the constructor as a list of tasks: validate each file,
  check references (`List`, then `Resolve`), compare each collection for
  duplicates. `todo` is what is left; `Validate` reads the disk, the others go
  through `find` and so through `Cache`.
* `Save` is somebody saving a file at any moment, `Missing` and `Broken`
  included. `Tick` is time; an entry lives `TTL` ticks from when it was written.
* An entity is its reference, the factor a reference is generated from, and
  what it needs. `Book(valid, ...)` says whether its file passes the schemas.
* `torn` and `aged` are history: a find met a file that was not there or could
  not be parsed; an entry expired.

## 3. What is checked

| Run | Shows |
|---|---|
| `accounts` | `GrantsAreRecent`: no login is accepted later than `Window` after the last entity that held it. `RefusalsAreRecent`: a login that could not be missed for longer than `Window` is not turned away. `ImplementsDirectory`: both, and the protocol of a call, as refinement. `Evidence` and `Presence`: the invariants behind them, of the logins a lookup found and of those it must find. |
| `accounts_admission` | `Admission`: an account that stays is granted again and again, whatever the negative cache, failed finds and races did before. `LookupsConclude`: every lookup ends. |
| `sip_server` | `ImplementsLocationService` and `PromisesKept` for two replicas with one failure. |
| `sip_server_live` | `HandlersFinish`, `Registered`, and the refinement for the requests no well-made device sends: without a Contact, a login or forwards left, of another method, with a contact that cannot be routed to. |
| `data_api` | `ReferencesHold`, `KeysAreUnique`, `ListsMatchKeys` between the calls of one context, in any order, with its caches expiring at any time. `ImplementsResources`: its calls are those of `Resources`, each at one moment. `Consistency`: the invariant behind these, of what is stored, of what is cached, and of what the call under way has found out. |
| `data_api_replicas` | `DanglingIsTransient`: a reference to nothing, which makes lookups throw, exists only while some delete is between its commands, two replicas or not. `RefusalsHaveCause`: no cache refuses a free key for good. `ImplementsEntityStore`: the two write what `EntityStore` allows, and break nothing off unless a command fails or a replica restarts. |
| `proxy_routing` | `AnswersComeHome`: the Vias of every message lead back to the agent that sent the request, through proxies only. `AnswersArrive`: an answer reaches it, unless something is lost, transactions alive or not. `AnswersSurvive`: no host drops an answer on its way, its transaction alive or not, but the agent that asked. `TrafficCeases`: nothing goes round for ever, even when a locator binds a name to the proxy itself. `TrafficRunsDown`: why; a host makes of a message only messages with fewer hosts left to come by. `StaysInPath`: with an external address on each proxy, a dialog passes every proxy that recorded itself. `Paths`: the invariant behind it. |
| `lifecycle` | `ModulesAgree`: the modules of a process, which read the configuration one after the other, have the same value of an option, unless neither file nor environment gives it and somebody else changed it in Redis meanwhile. `OneDefaultUserPerContext`: failures make a context create its default user again, never a second one. `AddressIsOwn`: a replica never adopts another's default address from Redis: what it binds is its host's own or something somebody configured. `SaltIsStable`: one salt across modules, restarts and crashes. `StartsOnceRedisReturns`: the launcher of a process that may retry for ever comes to its end, whether or not the SIP port could be bound. |
| `files_data_source` | `ReadyIsConsistent`: what a new data source serves has references that hold and no duplicates, whatever was saved while it was built (not that it passes the schemas: they are checked on a reading of their own). `EditsAreSeen`: a saved file is served in the end, however busy the server. |
| three `violation` runs | where the code does not do what the repository says; see section 6. |

Bounds. `Accounts`: one server, since servers share nothing but Redis, and
whatever another server could do to Redis the REST actions do; two secrets, so
that a password can change and a lookup can be wrong; one agent and one peer,
so that a login may be held by either, both or neither; in the second run two
realms, since the agent cache is per realm and the peer cache is not. That one
collection may hold an entity beside the one looked for matters to
`RefusalsAreRecent` only, and is left to its proof (section 4). Two writers are
what it takes to write a key again before the SREM of its remove; the second
run, about liveness, has one. One mishap is enough for each hazard listed, and
the history variables saturate, so every age that matters occurs. `SipServer`:
two replicas are what a race needs; one login; the requests of `MCSipServer`
are one per path through the dispatch; `Window` is 0 because the ages only
matter as *within* or *beyond*. `MaxMishaps` is 1: a failure ends a handler and
leaves the state a restart would, and the next handler starts from there.
`DataApi`: a chain of one
entity per kind, two refs for agents and peers so that duplicates can be
stored, and a domain and a peer that are updated. The PUTs of the passing run
are those the code does not get wrong; section 6 says what the others
do. `RequestedAssumption` has TLC confirm that the requests of the instance are
those the theorems assume. Two replicas share domains and one agent: a race needs two,
a domain is the kind that is cached, searched and depended on, and two kinds
are what a ref can be put in the wrong collection of. `Quiet`
limits `ReferencesHold`, `KeysAreUnique` and `ListsMatchKeys` to states between calls and without failures:
within a call, and after a lost command, the code does not promise them.
`ProxyRouting`: two proxies are what a Route or a Via can be taken from by the
wrong one; two requests are one that opens a dialog and one that follows it;
three forwards let a loop turn and end; one loss or repetition.
`Lifecycle`: two replicas, one that retries for ever and starts twice (a
restart), one that retries once; one mishap, an outage, a failed SADD or a
crash; a PUT of an option that the file sets and of one that it leaves to the
default; two modules per context are
one of each kind that `Agenda` tells apart, and the second context doubles
them. `FilesDataSource`: one entity per kind, since every check is about one
entity and what it needs; two edits are needed to change a file between the
first reading and the second and then something it depends on; two ticks tell
*after write* from *after access*.
`SYMMETRY` is used only where no temporal property with fairness is checked,
and only on values no definition names.

Deadlock checking is off in `ProxyRouting.cfg` and `StaysInPath.cfg` (the agents
may have sent all they will and the network be empty), `Lifecycle.cfg` and
`GracefulStop.cfg` (a process that has exited and is not started again has
stopped) and `FilesDataSource.cfg` (the constructor may end the process).

Fairness. `Accounts!Fairness`: a lookup that began goes on (Jedis answers or
throws within its timeout), time passes, and a device repeats its login.
`SipServer!Progress`: a handler goes on, including the gRPC call of the digest
service, which has no deadline in the code: that it answers is an assumption
on the service. `Settle` says that a question to the data source ends, which
`LookupsConclude` shows. `Resent` is strong fairness on `Deliver`: a device
repeats a request until it is answered, and its request is not passed over
forever when the replica is free again and again. `DataApi!Fairness`: a call
that began goes on, and the entries of a cache expire (five minutes). `ProxyRouting`: a host takes
what arrives, as the listener catches every exception. `Lifecycle`: the launcher
goes on, a timer fires, and an outage of Redis ends. `FilesDataSource`: the
constructor goes on, time passes, and each collection is looked up again and
again: a busy server, the case in which a cache that counted from the last
access would never expire. Nothing is assumed of
administrators, failures, or expiry.

## 4. What is proved

All for every value of the constants, under the assumptions named in the
modules (`RefsAssumption`, `TimeAssumption`, ...; the configuration flags are
booleans, the value `None` is no contact, user, login or route).

* `AccountsProofs`. `TypeCorrect`; `EvidenceHolds`; `GrantsRecent`.
  `GrantsAreRecent` is a property of steps and not inductive by itself: a grant
  from the cache needs to know that the entry is no older than it says.
  `Evidence` is that invariant: a stored login has `gone = 0` (`HeldNow`), a
  lookup only reads references of its own collection (`OwnRefs`), a secret it
  has read was held within the age of the lookup (`ReadRecently`), a cached one
  within the age of its entry plus one lookup (`CachedRecently`). The proof that
  each action preserves it goes action by action.
* `DirectoryProofs`. `PresenceHolds`; `RefusalsRecent`; `DirectoryImplemented`.
  A refusal is right when something was missed, so the invariant runs the other
  way than `Evidence`: a login that has been steady for a while cannot be missed
  now (`SteadyNow`), a lookup that began within that while has met a supplier of
  it or still has one to read, and is not broken (`LookupsMeet`), and a cache
  entry that would refuse it is at least as old as the login is steady, give or
  take one lookup (`CachesTell`). A first attempt at
  the proof failed at `Finish`, the SREM of another entity, and was right
  to: without `Removing` (section 2) the property is false of two peers, which
  an instance with one entity per collection cannot show. The refinement maps a
  lookup to a question of `Directory`, and its verdict to the answer the two
  invariants allow.
* `SipServerProofs`. `TypeCorrect`; `PromisesHold`; `LocationServiceImplemented`.
  The invariant is `TypeOK /\ PromisesKept` with three facts per replica: a
  handler at a step is there with a request that leads to it (`OnTrack`), a
  question to the directory is about the login of the request being handled
  (`AskedByHandler`), and a handler about to say 200 OK to a REGISTER has
  something stored under its key (`AboutToPromise`). The last is what makes
  `PromisesKept` inductive; it holds only because nothing in the code removes a
  stored route. The refinement maps steps to stages (`StageOf`), routes to
  their contacts, and proves each action a step of `LocationService` or a
  stutter.

* `ProxyRoutingProofs`. `TypeCorrect`; `ResponsesRetrace`; `AnswersNotDropped`;
  `PathsHold`; `DialogStaysInPath`; `TrafficRuns`. The first two are not inductive
  alone: a response that takes off a Via must leave one, and the last is the
  sender's. The invariant says of every message that it is well formed and
  leads home (`Sound` in the lemmas), and of every dialog that it is one;
  the lemmas go one header operation at a time (`ViaAdded`, `ViaRemoved`,
  `RecordRouteType`, `ForwardedSound`, `ShiftedSound`), and each step of a host
  replaces one sound message by sound ones (`ExchangeSound`). From there,
  `AnswersNotDropped`: a response at a proxy has a Via left when the proxy has
  taken its own off (`ViaLeft`), and one at an agent is at home (`AtHome`).
  `DialogStaysInPath` assumes `TwoAddresses`: every recording proxy has an
  external address and faces public hosts, the case in which it records itself
  twice (section 6 shows the other). Both Record-Routes go on top, so the list
  is made of pairs of one proxy each, and is so from either end (`Paired`, kept
  by `PairedInFront` and `PairedReverse`). Every stop takes two Routes off, a
  pair, so a request stops at the first of each (`PairedStops`, `StopTaken`).
  `Paths` says that a request of a dialog has passed each recorded proxy or is
  still to stop there; `DialogStaysInPath` is what it says of a request that
  has arrived. `TrafficRuns` is the step property behind `TrafficCeases`, whatever
  the locators bind. `HostsLeft` counts a request's Vias and, twice, its
  forwards left, and a response's Vias: sending a request on costs it a forward
  and adds a Via (`ForwardRuns`), an answer keeps only the Vias (`ReplyRuns`),
  and every proxy on its way back takes one off (`ShiftRuns`). So a step other than
  a new request or a repetition by the network takes a message and puts at most
  messages with fewer hosts left in its place. That the traffic then ceases
  takes only that hosts take what arrives; that much is left to TLC.
* `LifecycleProofs`. `TypeCorrect`; `ModulesAlike`; `SaltStable`;
  `DefaultUserUnique`; `AddressOwned`. Every step loads configuration in one
  process, launches one, unloads one, moves one to its next context, or leaves
  all loaders alone (`StepKinds`); each invariant is shown once per kind.
  `ModulesAgree` compares two modules; the invariant compares each with what the
  process would read now (`AlikeAt`). It needs that a process stores only while
  it has read nothing but its own defaults, file and environment (`Bare`), so
  that what it stores adds nothing to them (`StoringOwn`); what others store it
  takes note of (`AlikeNoted`).
  `SaltIsStable` needs that a process only uses the salt in its file
  (`SaltInFile`). `OneDefaultUserPerContext` needs to know where a context is:
  one that has not yet written its user owns none, one that repeats a failed
  SADD owns the one it repeats, and a restarted process is a new owner
  (`UsersByContext`). `AddressIsOwn` needs that a context that has read Redis
  reads what is there, and that an address nobody configured is only ever
  loaded after something was stored (`AddressKnown`).
* `FilesDataSourceProofs`. `TypeCorrect`; `ServesWhatItChecked`. The invariant
  `Checked` follows the constructor: before task `k` of eighteen, `Kept(k)` is
  what its reads have shown so far about the files that are cached. It survives
  any edit since a cached file is found as it is cached (`FoundStays`); a check
  of references stays true only because the file it asked is cached by then,
  or nothing was asked (`LinkedStays`).
* `DataApiProofs`. `TypeCorrect`; `DanglingEnds`; `ListsMatch`;
  `StoreImplemented`. All but the first assume what the runs do too, `OwnRefs`:
  clients let `insert` generate the refs, delete an entity as what it is, and
  no ref is generated for two collections. The invariant `Orderly`: every ref a
  call will write, that is stored or that is listed was generated for that
  collection (`Owned`); nobody else has a call for a ref being generated
  (`Alone`), so that what SET stored is there at SADD (`Written`); and what is
  listed but not stored is about to be removed (`Backed`). `ListsMatch`
  is for one replica or for any number of them without PUTs (`Calm`): nothing
  happens then at the ref of a call but what the call does, except that two
  deletes may meet (`Tracked`). With PUTs and two replicas TLC finds it false:
  a PUT that has read an entity before another replica's DELETE of it is
  complete writes the key again, and no collection lists it. For
  `StoreImplemented`, any number of replicas, PUTs and failures included, `Owned`
  alone is the invariant: the ref a call is about was generated for the
  collection it writes to, so that SADD and SREM go to the `Home` of the ref
  and what is SET `Fits` it. Each command is then matched with one action of
  `EntityStore` (`KeyDrives`, `MemberDrives`) or with a change of `Seconds`
  alone (`MovesDrive`): GET of a PUT with `Read`, a failure with `Half`, `Lose`
  or nothing, and only a failure with those (`Drives`, `Breaks`).
* `DataApiConsistency`. `ConsistencyHolds`; `KeysUnique`; `ReferencesKept`;
  `ResourcesImplemented`.
  For one context (`SoleContext`) and any requests that satisfy `Requested`. Its
  parts are what the code does not check and a counterexample of TLC shows to
  be needed: `OwnRefs`; `FitPosts`, a body names entities of the kind its schema
  says; `GentlePuts`, a PUT changes nothing of what an entity needs, and takes a
  key that nobody else asks for. The invariant is `Consistency`: what is stored
  is consistent and was posted (`Kept`), a cache that says a key is free is
  right, unless the context is inserting it just now (`Remembered`), and what the
  call under way has found out is still so (`Checked`: for a create, that its
  dependencies are met and its key is free; for an update, that it may
  overwrite what it read; for a delete, that nothing depends on the entity).
  `KeysUnique` and `ReferencesKept` are what `Kept` says between calls. For the
  refinement, which takes that no command fails, only SET, DEL and the one write
  of a PUT change what `Resources` sees stored (`PromiseSetKey`, `PromiseWrite`,
  `PromiseDelKey`), and `Checked` gives each the guard of its abstract action;
  that a call which is made is not refused needs that a DEL found its key and
  that the SREM after it finds the reference (`Leaving`).

Only model-checked: liveness (`Admission`, `LookupsConclude`, `HandlersFinish`,
`Registered`, `RefusalsHaveCause`, `AnswersArrive`, `TrafficCeases`,
`StartsOnceRedisReturns`, `EditsAreSeen`), which is beyond this prover; and what
the three `violation` runs refute. Every invariant, every property of steps and
every refinement that a passing run checks is proved.

## 5. What is not modelled

* `registry/`, `route_loader.js`: `Launcher.kt` evaluates the bundles of the
  server and of REST, never those two, and no module of theirs calls into them.
  `core/acl/` and `route_info.js` are called by nothing that runs: the dispatch
  of this fork no longer consults them. There is no behaviour of the program
  that a model of them would be faithful to.
* In `SipServer`, contacts of synthetic registrations are taken as given (the
  code builds `sip:user@null:-1` when the Via has neither *received* nor
  *rport*); wildcard contacts. In `ProxyRouting`, the headers that routing does
  not depend on; the authentication of a gateway's challenge, reached only with
  a header that nothing adds.
* In `DataApi`, users, uploads of several entities in one file, and validation by
  schema; listings, tokens and filters of the REST service.
* `files_store.js` (a map in memory, one per context), the choice between the
  two data sources, and the parsing of `DATA_SOURCE_PARAMETERS`, where a
  malformed string ends the process.
* In `Configuration`, the variable `SALT`, which is used as the salt as it is
  (`salt.js:11`), and a `SALT_FILE` that names another file from run to run.
* Logging, telemetry and file access: no state a property is about.

## 6. Where the code and the repository disagree

* `UnregisterRemoves`. The test *Add/remove local endpoint* expects a removed
  endpoint not to be found. `addEndpoint` stores one route; `removeEndpoint`
  calls `filter` on what it parses, which throws. An unregister of a registered
  device removes nothing and is not answered.
* `StaysInPath`. `recordRoute` is to *stay within the signaling path*. A proxy
  takes two Routes off when the first is its own. That is right for a proxy with
  an external address facing a public host, which records itself twice; one
  without records itself once and takes the Route of the next proxy too, so that
  the requests of the dialog skip it. (The rest of the definition is right: in
  the passing run every proxy records itself twice.)
* `GracefulCommandsHappen`. *Waiting for N transactions before shutdown*:
  `stopIfReady` asks for the size of a storage that no line sets, the exception
  ends the timer thread, and a stop or restart that was answered with 200 never
  happens, with no transaction open.

Met while modelling, and visible in one definition each, so without a run:

* `FindEndpoint`: the locator *stores information on sip devices currently
  registered*; it also returns routes that have expired.
* `StorageKey`: NOTE #1 of the locator says devices are located *regardless of
  any additional parameters*; Registrar passes the From URI as a string, and
  `aorAsString` leaves strings as they are, so a device that registers with a
  parameter in its From URI is told it is registered and is not found.
* `Invalidate`: `deletePeer` invalidates the cache by ref, but peers are cached by
  user name: for five minutes the API answers *Entity already exist* for a peer
  that is gone.
* `DelKey`, `RemoveMember`: `remove` deletes the key before it looks at the
  collection. A DELETE of a peer, or a gateway, with the ref of an agent deletes
  the agent's key, leaves its reference, and answers *Not found*.
* `SearchDependents`: a failed search for dependents answers an empty list, and
  the delete goes through.
* `AddEndpoint`: a second contact replaces the first (the test *Add multiple
  endpoints per aor* of `location/test.js` expects both).
* `Write`: a PUT checks no dependency, so it can give a domain a number that
  does not exist (`domains.unit.test.js`: *should have an existing number or no
  number at all*).
* `Rewritable`: `validateRO` never complains of an array, so a PUT changes the
  domains of an agent, which the schema says are read-only.
* `SearchDuplicates` and `SetKey` are separate commands: two replicas can create
  the same domain (*should not allow duplicates*); likewise a domain can be
  deleted while an agent is being created in it.
* `ReadOld`, `Write`: a PUT that has read an entity writes it again after another
  replica has deleted it: its ref answers, and no listing shows it.
* `AdvertisedAddr`: the comment of `getAdvertisedAddr` warns that the request URI
  of the first request is of a local domain; it is the one that is looked at.
* `Effective`: the comment *The preferences found in database takes priority over
  the file config* (`config_from_redis.js:29`) is the opposite of
  `config_util.js:22` and of the code.
* `FromEnv`: *Environment -> File*, but the environment cannot turn off a Boolean
  option that the file turns on: a variable that is not `true` counts as unset.
* `CreateDefaultConfig`: the file and environment of the first replica are stored,
  so an option removed from both lingers. When that write fails, `DSSelector`
  may store the merged configuration, with the address of one host, which the
  others then adopt (`AddressIsOwn` is stated for a Redis that has not failed).
  Nor is it one command with the look before it (`CheckConfig`): a replica that
  found no configuration stores its own over that of another that was faster,
  and over a PUT to that other, which was answered with 200.
* `CreateDefaultUser`: a failed find creates another default user beside those
  there are, one per context at most; replicas that start at once on an empty
  Redis create one each.
* `DelKey`: a replica that ends between the DEL and the SREM of a DELETE leaves a
  reference to nothing; a second DELETE finds no key and does not get to the
  SREM, and every lookup that lists the collection throws from then on.
* `Crash`: a process killed while it writes the salt leaves an empty file, and an
  empty salt is used from then on.
* `CallFails`: `evict-all` calls a member that the server object does not have,
  and `sendCmd` logs the failure and answers *Evicted All!*; every other command
  that fails is answered with 200 as well.
* `Validate`: an entity that breaks its schema, saved after the schemas were
  checked and before the file is read again, is cached and served.
* `Validate`: for a file that is no YAML, the handler reads `RESOURCES[CNT]`,
  which does not exist: the context throws instead of ending the process, which
  lives on without SIP.

Because unregistering never removes a route, `PromisesKept` is stronger than
one might expect: a repaired `removeEndpoint` has to be shown not to remove the
route of a registration that overtakes it (the mutant `RemoveEndpointBlindly`
is such a repair, and breaks it).

## 7. What could follow

1. `DataApi`: client-chosen refs, agents of two domains (`doesDomainExist`
   compares counts only), users; a weaker `Resources` that says
   what several replicas still promise of keys and dependencies.
2. The safety halves of the liveness properties, as `AnswersNotDropped` is one of
   `AnswersArrive` and `TrafficRuns` of `TrafficCeases`: that a handler always has
   a step to take, that each command of a call brings it nearer its reply.
3. `Lifecycle` and `SipServer` composed: which requests a restart loses.
