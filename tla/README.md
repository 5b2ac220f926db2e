# A verification of skupper-docker

This directory holds a TLA+ development of the program in `src/`: `skupper-docker`
(the command `cmd/skupper-exp`) and the service controller it installs next to a
router on a docker or podman host.  Modules are checked with TLC on small
instances and the main safety results are proved with TLAPS for every instance.

## 1. The system

A *site* is a host with a router container, a service controller container and a
directory of files (`$SKUPPER_TMPDIR/skupper`, `/var/tmp/skupper` unless told
otherwise; called the host's skupper directory here).  Sites are linked through connectors between
their routers.  Each site has a file `skupper-services` that maps a service
address to a definition; definitions travel between sites so that a service
exposed at one site can be used at all of them.

| Part | Source | State it keeps | Operations |
|---|---|---|---|
| Service definition commands | `client/serviceinterface_*.go`, `cmd/skupper-exp/main.go` | the file `skupper-services` | create, bind, unbind, expose, unexpose, delete, inspect, list |
| Service synchronisation | `cmd/service-controller/service_sync.go`, `controller.go` | `byOrigin`, `byName`, `localServices`, `heardFrom`, the AMQP session, the same file | receive an update, send (every 5 s), age (every 30 s, after 60 s of silence), dial |
| Definition watcher and bindings | `controller.go`, `bridges.go` | `bindings`, containers attached to `skupper-network`, and the maps of service sync | first pass, pass at every Write event |
| Controller process | `cmd/service-controller/main.go` | none that survives it | start, stop |
| Site creation and removal | `client/router_create.go`, `router_remove.go`, `client.go` | directories, certificates, network, containers | init, delete |
| Site status | `client/router_inspect.go`, `serviceinterface_list.go` | none; a call in the router's container | status, version |
| Site configuration | `client/site_config_*.go` | `sites/skupper0.json` | create, inspect |
| Connectors | `client/connector_create.go`, `connector_remove.go`, `connector_token_create.go` | `connections/<name>/`, `qdrouterd.json` | connect, disconnect, token |
| Connector lists | `client/connector_list.go`, `connector_inspect.go`, `main.go` | none; a call in the router's container | list-connectors, check-connection |
| Container engine drivers | `driver/*.go`, copies in `plug-ins/` | containers, images, networks of the engine | create, start, stop, recreate, pull, exec, ... |
| Router configuration | `pkg/qdr/*.go` | a `RouterConfig` in memory, its JSON on disk | add and remove entities, parse, print, query the router |
| Legacy docker support | `pkg/docker/**` | - | not used but for `FindEnvVar` |
| Utilities, types | `pkg/utils`, `pkg/service`, `api/types` | - | - |

How they interact: the commands and the controller share nothing but the files
of that directory and the container engine.  The controller sees a changed
file through an fsnotify Write event.  Controllers of different sites talk over
the multicast address `mc/$skupper-service-sync`; there is no acknowledgement
and no request, only repetition.  Inside the controller three goroutines
(receiver, sender with the age ticker, watcher) share four maps without a lock.

What is hard here: two processes and three goroutines that rewrite one file;
views of that file that lag behind it; updates lost, repeated, or older than the
state they meet (a site even hears its own); a controller that is killed and
restarted whenever a connector is added (`connector_create.go:129`); ageing that
races an update; two sites that define one address; queries that ask the engine and the router about
a site that another command is changing; an image pull whose reporter cancels it;
a container that is made again from what the engine tells of it.

What makes each part correct:

* *Synchronisation.* Sites agree once commands and faults stop; nothing is
  imported that its origin never offered; an update or ageing never touches what
  this site defines; a withdrawal or the loss of a site always reaches the import.
* *Watcher and bindings.* No change of the file is missed; its views are those of the
  file once no event waits, and so are the bindings, which are changed in place, in the
  fields they are compared in; the targets of local services are on the network, and
  no container of the user is taken for a proxy.
* *Controller process.* A stream of pull messages ends if the registry falls silent, and
  only then is it given up; a start leads to a controller that has taken in the file,
  unless its process ends or the file cannot be watched.
* *Queries.* What is reported was so at some moment of the query; the answer is
  whole, it reaches the terminal, and the query ends.
* *Router configuration.* A file that is written, decoded and written again keeps what
  it had; each TLS profile in it leads to credentials.
* *Commands.* A command's effect is on the file when it has reported success, whole, and
  what it undoes of others is no more than what they did since it read the file.
* *Site creation and removal.* A failed step leaves something the next init or
  delete can deal with; "removed" means removed.
* *Connectors.* A generated name is new; directory, configuration and routers
  agree on which connectors exist.
* *Drivers.* A recreated container is equivalent to the one it replaces, and a
  failure does not lose it.

## 2. Modules

| Module | Models |
|---|---|
| `ServiceDefs` | definitions and the pure functions on them: the copy that is exchanged, `equivalentServiceDefinition`, what an update changes and deletes, `pareByOrigin`, the commands' edits |
| `ServiceSync` | the network of sites: commands, watcher, exchange, ageing, faults; one handler is one step |
| `MCServiceSync` | symmetry sets, a started network, and parts of `Next` for TLC |
| `ServiceSyncProofs` | proofs of the six invariants that need no assumption on the operator, and that each site's watcher implements `ServiceWatch` |
| `ServiceOwnershipProofs` | proofs of the three properties that assume a careful operator |
| `ServiceFile` | one site at the grain of its file accesses: commands and the controller's goroutines read, truncate and write `skupper-services` in any order and may be killed in between |
| `ServiceStore` | the abstract store that file is: a writer takes a snapshot and later replaces the store by that with one change; the store may become illegible |
| `MCServiceFile` | symmetry for TLC |
| `ServiceFileProofs` | proofs of the refinement and of the watcher's invariant |
| `ServiceDefsProofs` | types of what the operators of `ServiceDefs` return, for the other proof modules |
| `ContainerEngine` | the engine of one host as a site uses it: two containers, one network, what it refuses |
| `SiteState` | the files of a site, where the running command is, how a command begins and ends |
| `SiteLifecycle` | `init` and `delete` |
| `Connectors` | `connect`, `disconnect`, `connection-token`, `RecreateContainer` |
| `SiteCommands` | composes the three: any sequence of commands, failures and kills in any of them, and the controller and the user beside them |
| `MCSiteCommands` | symmetry for TLC |
| `SiteCommandsProofs` | proofs of the types, of `Provisioned`, `OneSite` and `Effective`, and about generated names |
| `ContainerSpecs` | what a container is made of: as asked for, as the engine makes it, as it is inspected, as it is created again |
| `RouterConfiguration` | the router's configuration in memory, as a list of elements in `qdrouterd.json`, and the edits of it |
| `RouterSpecs` | `GetRouterSpecFromOpts`: first configuration, certificates, the two containers |
| `SiteDetails` | `SiteCommands` with that data: options, elements of the file, what each container was made of, two engines |
| `ContainerExec` | `ContainerExec` of both drivers, podman's with its pipe |
| `SiteQueries` | `status`, `version`, `list-connectors`, `check-connection`, beside any command of `SiteDetails` and a router whose connections come and go |
| `MCSiteQueries` | images, options and engines for TLC |
| `SiteDetailsProofs` | proofs about the functions of `RouterConfiguration` and `ContainerSpecs`, of the three properties of `SiteDetails`, and that it behaves like `SiteCommands` |
| `SiteQueriesProofs` | proofs of the four invariants of `SiteQueries`, and that queries leave `SiteDetails` as it is |
| `ImagePull` | docker's `ImagesPull` with its progress reporter |
| `ServiceBindings` | bindings, and `updateServiceBindings` |
| `ControllerRun` | composes the two: the controller's process from start to end, its passes over the file and over the host's containers |
| `ServiceWatch` | the abstract watch that `ControllerRun` implements, and each site of `ServiceSync` |
| `MCControllerRun` | contents of the file for TLC |
| `ControllerRunProofs` | proofs of its safety properties and of the refinement |

### ServiceDefs and ServiceSync against the code

* `file[s]` is `skupper-services`; `NoDef` stands for an absent key.  `byOrigin`,
  `byName`, `localServices`, `heardFrom` and `bindings` are the controller's maps
  of the same names.  An origin without a key in `byOrigin` and one with an empty
  map behave alike, so both are the empty set.  `heardFrom` holds the age of the
  latest update, in units of which `AgeLimit` make the 60 s of
  `service_sync.go:188`; `Never` is a missing key.
* `pending[s]`: an fsnotify Write event waits.  Events set it, `HandleWriteEvent`
  clears it before it reads the file.  The first pass (`InitialProcess`) leaves it
  alone, as the code does: an event that came between `watcher.Add` and the first
  pass is handled again, harmlessly.
* `watcher[s]` is `deaf` when `watcher.Add` failed: the goroutine has returned for good
  (`AddWatchFails`), the process lives on, receives, sends an empty list and ages.
* `sync[s]` is where `runServiceSync` and `syncSender` are: `dialing`; `up`;
  `lost` after a Receive error, when the receiver has returned but the sender
  goes on ticking; `failed` after a dial error, when nothing is restarted;
  `stopped` with the process.
* `inbox[s]` is the receiver link: one FIFO, as the code has one receiver.  A
  full link loses the message (pre-settled multicast), `LoseUpdate` the others.
* One member of `Port` stands for protocol, port and headless settings (they are
  compared and copied together); one member of `Option` for event channel and
  aggregate, which are compared (`equivalentServiceDefinition`) but not copied
  (`service_sync.go:38-45`): `Strip`.
* Commands are `Create`, `Bind` (`bind`, and `expose` of a defined address),
  `Expose`, `Remove`, `Unbind` (`unbind` and `unexpose`); each reads, changes and
  writes the file, then stamps a local origin when the code does.
* `ProcessServiceDefs` is the whole of `processServiceDefs`, `updateProxies`
  included: the three maps, the bindings, and which targets were attached to the
  network (each attachment may be refused by the engine).  The proxies themselves
  are commented out in the code.  A Go map is walked in any order, so which origin
  `pareByOrigin` finds first is a choice (`Picks`).
* `Elapse` lets a unit of time pass only when the site's watcher has caught up, or never
  will: a unit is tens of seconds, the watcher takes milliseconds.
* `bindings` stands for the fields of a binding that follow the definition
  (`ServiceBindings!Followed`); `ServiceBindings` has the others.
* `SiteWatch(s)` is the abstract watch of one site, with the three maps as its view
  (`WatchesFile`).
* `everLocal` and `events` are not in the code: the first is the history that
  `Provenance` speaks about, the second bounds commands and faults.

Constants `CarefulOperator` and `TimelyUpdates` are assumptions a run or theorem
may make.  A careful operator issues a command when the controller has caught up
with the last one and does not `service delete` imported definitions.  Timely
updates say that within a unit of time (half of the ageing time or less) one of
the several updates each connected site sends arrives.

### ServiceFile against the code

`ServiceSync` takes each read-change-write of the file as one step.  `ServiceFile`
says what happens without that.

* A *writer* is a command, the receiver or the age ticker.  `step[w]` says where it
  is: `read` (about to `ReadFile`), `open` (about to open the file with truncation
  in `ioutil.WriteFile`), `write` (about to write the text), then `forget` (the
  goroutines' work on `byOrigin` after the write), `done` or `failed` (a command
  that ended), `dead` (the sender goroutine that returned).  `base[w]` is the map it
  decoded, `edit[w]` what it is going to change.
* `disk` is the file: a map, `Empty` after a truncation, or `Garbled` when a shorter
  text was written over a longer one that another writer had put there since both
  truncated it.  Neither decodes.
* The receiver computes what an update changes from its maps (`Receive`), then
  accesses the file, then forgets the withdrawn names whether that worked or not
  (`ForgetWithdrawn`, `service_sync.go:131-138`).  The age ticker does the same for
  the silent sites one after the other (`Tick`) and forgets them together
  (`ForgetAged`); an error makes it return.
* The watcher's pass is `TakeEvent` (or `AddWatch`), `ReadDefinitions`, `Process`.
  Opening and writing each raise a Write event; `pending` is set while one waits.
* `offered` and `present` are the other sites as this one sees them; a site that is
  not present is silent and may be aged out at any time after.
* A command may be killed between any two accesses, the controller at any time.

`AddWatchFails` is as in `ServiceSync`: a deaf controller goes on writing the file.

`Paced` assumes that the watcher has finished with one update before the next comes, five
seconds later; `ImplementsStore` is checked and proved without it.

The refinement mapping takes `last`, the latest text written to its end (history), for the
store, "the file can be decoded" for `legible`, and what each writer read (`base`) for its
snapshot.  A command's effect is seen when its text is written; what was lost by then
is what the snapshot did not have.

### The site commands against the code

A command is a sequence of accesses to files and of calls of the engine: one step
each.  `at` says what comes next, `on` the container it concerns, `cmd` what the
command has read and will use (the program's locals).  One command runs at a time.

* `siteConfig` is `sites/skupper0.json`: the site's UID.  `config` is
  `qdrouterd.json`: the UID in its metadata, its mode, and for each connector the
  site whose token it was made from.  Connector and TLS profile are added and removed
  together.  `dirs[n]` is `connections/<n>`: absent, `Partial`, or the whole token of
  a site.  `Torn` is a file whose write was cut short.  `ca` says that the authority
  for tokens exists, `defined` that `skupper-services` has a service.
* The generated name `connN` is the number N, and `GeneratedName` is what the regular
  expression of `connector_create.go:18` yields: it looks at the last digit only.
* `containers` are the router and the controller, each with the UID in its
  environment.  `loaded` is the configuration the router read when it started.
* `Fault` is a failure that does not follow from the state.  Where the code returns an
  error it is an `Abort`, which is also what a kill is; the file or directory of the
  step may be left half-way (`CutShort`).  Where the code goes on, the fault is in the
  action: the error of `RemoveAll` in `init` (`WipeHost`), those of the certificates
  (`MakeCertificates`), each step of `delete` (inspect errors skip a container
  silently; others are listed).  A call that took effect although it failed or timed
  out is the failure of the next step.
* Refusals that follow from the state are in the actions: a network or a container
  that exists, a directory that exists, a configuration that cannot be decoded, a
  network with running containers on it, a container whose network is gone.
* `RestartProxies` restarts a container named like each service.  Nothing makes such
  containers any more, so with a service defined a command usually ends with an error
  here, after everything was done.
* `attached` is what the controller does to user containers that are targets
  (`controller.go:142-168`), at any time; the user may stop them at any time.
* The removal of proxies in `delete` finds nothing, since nothing carries that label.
* A UID is used again in the model only when nothing remembers it; `NewUUID` never
  repeats one.
* `leaving` and `installed` are history: what `Provisioned` excuses, and what `OneSite`
  speaks about.

The runs of `SiteCommands` are of interior sites (`Modes = {FALSE}`): the mode decides
whether tokens can be given out and which file of a token is read for the address.
Which engine is used does not matter to its actions.  Where it does, `SiteDetails`
says what it makes of them.

### The data of a site and the queries against the code

* A setup is an engine with the options of `init` (`types.SiteConfigSpec`): mode,
  authentication, the two consoles, tracing, mapping to the host, the directory.  They
  are those of every `init` in a behaviour.
* `json` is `qdrouterd.json` as the list of its elements, each with its type, name
  and value.  `MarshalRouterConfig` goes through Go maps, whose order is any; the model
  takes one, and `Marshalled` is what all of them have in common (the proofs use that).
  `UnmarshalRouterConfig` keeps the last of several elements with one name, and drops
  types that its switch does not know.  `SiteCommands` knows the same file as
  `config`; `FileAgrees` relates the two.
* `made[d]` is what container `d` was made of, after the engine added what its image
  brings along; `held` what `RecreateContainer` took from the inspection.  Docker's
  inspection leaves out the command and variables with an empty value; podman's has
  no more than name, networks and the like, so podman refuses to make the container
  again: with podman, a `connect` or `disconnect` that reaches this point has taken a
  container down and ends with an error.  Values of variables, labels and mounts are
  themselves where a property tells them apart, and their names otherwise.
* `table` is what the router is connected to: connections to sites that its loaded
  configuration has a connector for, `active` once the AMQP open has been exchanged.
  They come and go at any time; none survives a stop of the router.
* A query is a sequence of looks, each of one file or one container, so the other
  command may do anything between two of them.  A call of the engine that fails is
  what a missing container is.  `q.at = "crashed"` is the panic of
  `router_inspect.go:36` with podman, whose inspection has no `State`.  A decode of
  the service list may fail at any time (`CountServices`): another writer may have it
  truncated.
* `check-connection` makes one round a second, until all that are listed are active or
  `--wait` is over; `status` asks the router up to six times.  `q.tries` counts both.
* `exec` is a running `qdmanage`: create, attach, copy, inspect, return, in either
  driver.  Its output comes in up to `MaxOutput` blocks.  Podman's driver replaces the
  process's standard output by a pipe of `PipeCapacity` blocks and reads only after the
  command has ended: `Jammed` when that has more to say than fits.  The router may be
  stopped at any stage (`ExecCut`); a stream that was cut does not decode.
* `live` is history: the sites the router was actively connected to since the query
  began.

### The controller process against the code

* `ImagePull`: `elapsed` is `time.Since` the timestamp in the progress, `timer` the
  ticker, `canceled` the context.  `Interval` and `Deadline` are counted in a unit of time; both
  are 10 s in the code (`docker.go:40`, `docker.go:254`).  Time stops at a tick that is due and at a
  cancelation, which take no time compared with a unit.  At the deadline itself
  `time.Since` may be found above it or not (`Overdue`): the first timestamp is taken just
  before the ticker starts, so the first silent tick may cancel.  Podman's pull is one
  call.  That, and the call with which docker's begins (`docker.go:249`), have no
  deadline, so time is not modelled there and `PullBounded` says nothing of them.
* A `Definition` has port, option (protocol, event channel, aggregation), headless
  settings, origin, and for each target a port, a selector and a service.  A `Binding`
  has these and an ingress port.  `newServiceBindings` copies all of them.
  `updateServiceBindings` changes bindings that are there in place (`Changed`): port,
  option, origin, the set of targets and their ports follow the definition; ingress
  port, headless settings, and selector and service of a target that stays do not,
  and a target added later (`addTarget`) is not told of the service.  `Followed` is what
  does follow, and what `Implements` speaks of; after a change of port the ingress
  port is the old one, in the model as in the code, where nothing reads it yet.
* `OfKind`: the commands put a colon into the name of a host service, and none is in a
  container's, so a name tells the selector.  `TargetsAttached` needs that of the file,
  since the selector of a target that stays is not followed.
* A pass is `getServiceDefinitions`, `Bind`, `EnsureProxies`, `RemoveProxies`; the
  file, the host and the user move between them.  Writes raise an event for the
  truncation and one for the text, which the model joins while neither was taken.
  `Torn` is a file that cannot be decoded: the pass is given up and the next event
  does it again.
* What `ensureProxyFor` would start, and `updateProxies` stop, are commented out in the
  code but for the attachment of targets and the removal of containers that a list
  yields.  Docker lists the containers with the label `skuper.io/application`, which
  nothing in the repository sets but any container may carry (`labelled`).  Podman's
  driver ignores the filter, asks for the one container that was made last (`made`), and
  then leaves the controller out (`podman.go:165-190`).  What is listed and has not
  the name of a service is stopped and removed (`RemoveProxies`), each call of which
  may fail.  So with podman a container that was made after the controller is lost;
  `OlderContainersKept` says that no other is, unless it has the label.
* `AddWatch` may fail (`AddWatchFails`): the goroutine returns, `at = "deaf"`.  `Fails` is
  any other end of the process: `log.Fatal` at the start or in `syncSender`, a file watcher
  that is nil because the error of `NewWatcher` is dropped, two goroutines in one map.
* `Restart` is the `RecreateContainer` of `connect` and `disconnect`: new process, new
  maps, the file and the host as they were.
* A pull that fails ends the controller, and nothing starts it again but a `connect` or
  `disconnect` (`at = "dead"`).
* `networked` are the user's containers on `skupper-network`; `excused` is history, what
  `TargetsAttached` cannot ask for: the engine refused, or the container was made after
  the pass.

## 3. Runs

| Run | Question | Bounds |
|---|---|---|
| `SyncTwo` | `TypeOK`, `Provenance`, `NoSelfImport`, `Tracked`, `Ageable`, `CoherentCaches`, `WatchesFile` under any command and any fault | 2 sites, 1 address, 2 settings, 1 target, 3 commands or faults, 1 update per link |
| `SyncThree` | `TrackedOnce` and `KnownLocalPreserved` when sites compete | 3 connected sites of which one imports (`ImportingSpec`), 1 target, 4 commands, crashes, lost connections or failed watches, careful operator, no timely updates |
| `SyncLive` | `Convergence` and `DisconnectedForgets` after create, delete, redefine, a lost connection, lost updates, a restart | 2 connected sites of which one offers (`OfferingSpec`), 2 settings, 3 commands, crashes or lost connections, any lost updates |
| `SyncAgedOut` | violation: `AgedOutOwn` | 3 sites, 3 commands |
| `FileWriters` | `ImplementsStore` in any order of accesses | 1 command beside receiver and ager, 2 addresses, 1 target, 2 changes at the other site, 2 processes killed or watches failed |
| `FileRaces` | `ViewsCurrent` and `Quiet` (the controller does not chase its own writes) in any order of accesses | 1 command, 2 settings, 2 changes, 1 process killed or watch failed, `Paced` |
| `FileReconcile` | violation: `Reconciled` | `Paced` |
| `SiteCommands` | `TypeOK`, `Provisioned`, `OneSite` under any sequence of commands | 4 UIDs, 1 other site, 2 generated and 1 given name, 1 fault, 1 token of one's own |
| `SiteRecover` | `Effective`, `Recoverable` | 4 UIDs, 1 other site, 1 generated name, 2 faults |
| `SiteRetry` | violation: `DeleteFinishes` | 3 UIDs, 1 fault |
| `Queries` | `QueriesTypeOK`, `ReportedActive`, `OutputWhole`, `Shown`, `QueryEnds` of queries beside commands; `FileAgrees`, `TlsProvisioned`, `RecreatedAlike` of those commands | docker, interior, with console, and podman, edge, without; 1 UID, 1 other site, 1 name, 2 blocks of output, a pipe of 1, 1 second to wait, 2 attempts |
| `ControllerRun` | `ControllerTypeOK`, `PullBounded`, `ProgressKept`, `TargetsAttached`, `OlderContainersKept`, `Implements`, `CatchesUp` | docker and podman, 2 addresses, 2 containers and a host service as targets, 4 contents of the file, 2 writes, 1 restart, 2 steps of the user, any failures, tick and deadline of 2 units, 1 message |

Why the bounds are enough: an address is handled independently of every other
(no operator of the module compares two addresses), so one suffices; two sites
show every exchange of one definition, the third is needed for competition;
three events let a definition be created, change owner or settings, and vanish;
an update that waits in a link while its sender and receiver change lets an old one
meet a newer state.  `Option` has one member in the runs: event channel and aggregate
are lost in the copy that is exchanged (`Strip`), which is listed as a hazard.  The invariants
are proved for any bounds; the runs are what says the properties are not vacuous
(each has a mutated definition that violates it, in the module just before the
definition it replaces).

Two runs take a part of `Next` to make room for more events.  In `SyncThree` two sites
define, delete and bind, and only the third receives, restarts and loses its
connection: what the two would import and make their own they can also create, so the
third meets the same updates.  Four events are needed there: two definitions, a withdrawal
or restart, and a command at the third site.  The bound reaches the failing case: with
`CarefulOperator = FALSE` `KnownLocalPreserved` is violated in this very instance, by
an import deleted, taken up from the other site, bound, and the first site's silence.
In `SyncLive` one site creates, deletes and redefines, the other at most deletes:
whatever each of them is to the other, a definition goes one way.

For the site commands, the number of commands is not bounded at all, only that of
faults: two let a command fail on what another failure left behind.  UIDs are enough
for every place that can remember one, or `init` would have none left and TLC would
report a deadlock.  One connector is enough for `Effective` and `Recoverable`;
`Provisioned` is about names, and three of them, two generated and one given, let one be
reused while the others stay.  One fault is enough in that run to cut short any one
command; the proofs are for any number.

In `Queries` every command can be stopped by another only where it looks, so one query
beside one unbounded sequence of commands shows each stage of the one at each stage of
the other.  One name is enough: a query handles its connectors one at a time, and what
is reported of one does not depend on another.  It has to be created, removed and
created again, which the run allows without limit.  A pipe smaller than the output shows
the jam, one block of output a whole answer; a second attempt and a second round are all
that a repetition adds.  No fault is needed: `disconnect` and `connect` stop and replace
the router, `delete` and `init` everything.  The two setups take every branch that
depends on an option or the engine at least once in each direction but for internal
authentication with podman, which no operator distinguishes.

`FileWriters` has the three writers once each; each overlaps with each, at every access,
and with a second write of its own.  Two addresses let a lost change be of another
address than one's own, two kills let a command and the controller die.  Without an
order between accesses the instance is the largest that TLC finishes in a minute; the
theorem is for any number of commands.

In `ControllerRun` the four contents define a service here and elsewhere, change
origin, port, headless settings and targets in place, and take it out.  Two writes meet
a pass at two of its steps, and a restart lets the file change while nobody watches.  Two
steps of the user make a container before or after the controller is made again.
Failures are not counted.  One message in a stream lets progress come before or after a
tick; the deadline is as long as the interval, as in the code.

### Fairness

`Fairness` asks for the watcher goroutine, the dial, the passage of time and the
age tick weakly: they are goroutines and tickers of a running process.  Sending is
strong in "there is room at s", and so is reception of *an* update from each
origin: the sender repeats every five seconds for ever, and `LoseUpdate` cannot
lose all of infinitely many.  No fairness is asked of commands, faults or restarts:
a controller that stopped may stay stopped.  A fault is an action of its own, beside the
fair action it fails (`AddWatch` and `AddWatchFails`): fairness promises that one of the
two is not put off for ever, never which one it is.

In `ServiceFile` every writer that has begun goes on, the age ticker and the watcher
run weakly fair, and reception is strong per site: a site that can be heard sends
again and again, and an update waits while the receiver is busy.  Commands and
changes at other sites have no fairness.

In `SiteCommands` a running command goes on (weak fairness of its steps): it is a
process, and a kill is a fault, of which there are finitely many.  The operator
repeats `delete` (`RetrySpec`), and also `init` (`FairSpec`): strong fairness of a
command that is possible again and again.  That is an assumption about a person, which
both liveness properties make explicitly, together with user containers that leave
the network in the end; no fairness is asked of connecting, disconnecting or services.

In `SiteQueries` a query goes on (weak fairness of `QueryStep`): it is a process.  No
fairness is asked of the other command or of the router.  In `ControllerRun` the
controller's goroutine, the engine's answers and the clock go on, and a command that
truncated the file writes it: what happens when it is killed in between is the
subject of `ServiceFile`.  Failures and restarts have no fairness.

### What the liveness properties except

`CatchesUp`: a controller whose process has ended (`dead`) or whose watch could not be
added (`deaf`).  `Quiet` and `DisconnectedForgets`: a deaf one, which writes each update
again, since it never learns what it has written, and never forgets what it imported,
since it never learnt that.  `Convergence` speaks of sites that are connected and
watch.  `QueryEnds`: `Jammed`.  `Recoverable`: it is the operator's repetition that
recovers.  `TimelyUpdates` in `SyncLive` leaves out that a connected origin ages out
because all of its updates of a minute were lost; nothing would then hold for ever.

### What the violated properties say

* `AgedOutOwn`: `byOrigin` never forgets an address that disappeared from the
  file by an operator's `service delete`.  When the address is then imported from
  another site, ageing of the first origin deletes the second's definition
  (`service_sync.go:190-195`), while the log names the first.  The definition comes
  back with the next update of the second site: an outage.  If the operator has bound the
  second definition in the meantime it is a local one, and its loss is for good:
  `KnownLocalPreserved` fails in the same way, by a `delete`, a `bind` and the age
  tick, as `pareByOrigin` (`service_sync.go:21-28`) stops at the first origin that has the
  address.  So it is stated, in `SyncThree` and as a theorem, for a careful operator,
  who does not delete imports.
* `Reconciled`: an update that arrives while a command has the file truncated fails to
  write, but the names it withdraws are deleted from `byOrigin`
  (`service_sync.go:131-138`).  Usually the watcher's next pass brings them back.  If
  that pass comes between the failed write and the deletion, nothing tracks the
  definition any more and it stays although its site withdrew it.
* `DeleteFinishes`: `delete` goes on after an error and removes the host files last.
  Without the site configuration no later `delete` starts (`router_remove.go:17-20`),
  so a container that could not be stopped, or the network a user's container is on,
  stays.  `init` helps (`Recoverable`): it fails on what it finds, but leaves a
  site configuration with which `delete` works again.

A file left empty by a command that was killed, or garbled by two, is not repaired by
anybody who comes later: every read fails, and only a writer that had read before
makes it legible again.  `ServiceStore` says so (`BecomeIllegible`, `TakeSnapshot`); no
statement of the repository asks for more.

Some behaviours of the code show in the models and contradict no statement of the
repository: before the first pass of a restarted watcher the receiver's `byName` is
empty, so an update may overwrite a local definition of the same address (hence
`KnownLocalPreserved` speaks of definitions the controller has seen); and the
sender may multicast an empty list then, so that peers withdraw everything this
site offers until its next update; a controller whose first dial fails never takes
part (`runServiceSync` is called once and its error is dropped, and the wait for the
router that preceded it is commented out); and of two writers whose accesses overlap
one is lost, a `bind` that reported success included (`ServiceStore` says exactly what is lost).  An age tick that meets a
truncated file ends the sender goroutine for good.

So do these, of the site commands.  An `init` over a running site removes its files
before it fails on its network.  A failed `connect` leaves its directory, so its name
is taken, and a `disconnect` of that name reports a removal but leaves it.  An
interrupted `disconnect` leaves a connector without its directory.  Once `conn10`
exists generated names are refused.  A `connect` whose only failure is the restart of
proxies has connected, and a second one adds a second connector to the same site.

And these, each of which a property of the last two runs has to leave out.  With
podman, `qdmanage` that prints more than a pipe holds makes a query hang (`Jammed`), an
exec that fails leaves standard output redirected (`q.broke`), `status` panics, no
container can be made again, and the controller removes the container that was made
last, if that is after its own.  A controller whose pull fails stays down, and one whose
`watcher.Add` fails stays deaf.  Event channel and aggregate do
not reach the other sites.

The following were met while reading and are too small for a property.  In
`driver/docker.go`: an image without a digest panics (336), so do a variable without
`=` (461) and a container without a health check (485); exec (674) and the call that
begins a pull (249) have no timeout.  `driver/podman.go:267` takes the first of a list of
networks that may be empty.  `router_create.go`: `QDROUTERD_MAGE` is misspelt (90), a
router console is asked for but left out without authentication (136), errors of
certificates are dropped (531).  A container that is created again loses a command that was given
to it (`driver/driver.go`); the image that `Dockerfile` builds for the controller runs
the same one, that of `Dockerfile.docker` another.

## 4. Proofs

`ServiceSyncProofs` (no assumption but those on the constants):

* `TypeCorrect`: `Spec => []TypeOK`.
* `NoSelfImportHolds`: each step either leaves the origins in the file alone,
  makes one local, or stamps the sender of an update that is not this site.
* `ProvenanceHolds`: `Provenance` alone is not inductive, a definition passes
  through three places before it is imported.  `ProvenanceInv` adds that what is in
  the file as local (`OffersKnown`), what is in `localServices` (`SentKnown`) and
  what is in any link (`InFlightKnown`) was local at its site.
* `CoherentCachesHolds`: inductive with types, since every write while the watch
  is on sets `pending`.
* `TrackedHolds`: follows from coherence: a write by the receiver or the ager
  leaves `pending`, and `TrackedAfter` adds whatever the file holds.
* `AgeableHolds`: `AgeInv` adds that an import in the file of a site that watches
  has a clock (`ImportsHaveClock`), that what is aged is tracked and that a site
  never tracks itself.

* `WatchesFileHolds` and `ImplementsWatch`: for every site, each step of the network is
  a step of `ServiceWatch` or changes nothing it knows of.  Only the watcher's own passes
  change its view (the receiver and the age tick change `byOrigin` and the clocks), and
  every write, whoever makes it, leaves a pass to come.  `ControllerRun` implements the
  same watch, which is what allows `ServiceSync` to have passes of one step.

`ServiceOwnershipProofs`, under `CarefulOperator`: `Bare` (definitions on the way
carry neither targets nor options), `TrackedAsSeen` (an address is tracked under o
only if `byName` says it came from o, or it is being withdrawn) and `TrackedInFile`
form `OwnershipInv`, from which `TrackedOnceHolds`, `KnownLocalPreservedHolds` and
`AgedOutOwnHolds` follow.  The assumption is needed: `SyncAgedOut` is the counterexample
to `AgedOutOwn` without it.

`ServiceFileProofs`:

* `ViewsCurrentHolds` needs one more fact, `SeenCurrent`: what the watcher has read and
  not processed yet is the file, unless an event waits.  No assumption on the order of
  accesses is made.
* `ImplementsStoreHolds`, with no assumption on order or kills.  `LastRead` says that the
  file, while it can be decoded, is the latest text that was written to its end, so that
  whoever reads takes a snapshot of the store; `EditsInv` that a command's edit concerns
  one address and leaves a local definition or none, and that the controller's edits
  carry one origin.  `StepKinds` sorts the steps into kinds, and each lemma goes through
  those.  An overlap is not assumed away: the store is replaced by a snapshot with one
  change, and what came between is gone.
* `TypeCorrect`, the module's type invariant.

`SiteCommandsProofs`, without assumptions but those on the constants, any number of
faults, sites and names:

* `TypeCorrect` proves `TypeInv`: `TypeOK` with `Prepared`, which says of each place a
  command can be at what it has read by then (the UID of the container it is going to
  create again, the name and origin of a connector, a configuration that could be
  decoded).  Without it the types of what is written cannot be shown.
* `ProvisionedHolds`: `ProvisionedInv` adds that the directory is `Partial` while the
  token is written and whole when the connector is added.  The heart is
  `NoConnectorYet`: where a directory is new or incomplete the configuration has no
  connector.
* `OneSiteHolds`: `OneSiteInv` adds `InitSoFar` (what `init` has set up at each of its
  places, so that its end establishes the property) and, for an installed site, that
  no command at work is `init` or `delete`, that what `RecreateContainer` read was this
  site's, and that a token being used is not.
* `EffectiveHolds`: `StartedInv` says that from the start of the router on, a
  command leaves router and file alone, and that a command in progress has no
  outcome yet.
* `GeneratedNameIsNew` and `GeneratedNameIsTaken` are about any directory: while every
  generated name is below `conn10` the next is greater than all of them; with `conn9` and
  `conn10` there it is `conn10`, and `connect` without a name is refused.  No run
  has that many connectors.

`SiteDetailsProofs`, first about functions, for all of their arguments:

* `RoundTrip`: any list that `Marshalled` allows is decoded into the configuration it
  was made of.  The only fact needed besides is that a finite set of positions has
  a greatest one.
* `Written`: the list that `MarshalRouterConfig` makes is one of those.
* `DisconnectUndoesConnect`: encode, decode, `Connected`, encode in another order, decode,
  `Disconnected`: the configuration is the first one, if the name was not in use.
* `RecreatedKeeps`: docker's inspection and creation, composed, keep every field but the
  command and variables with an empty value, also after any number of times (the
  statement is about one time and a result that has the same form).

Then about every behaviour of `DetailsSpec`, with any setups, sites, names and faults:

* `DetailsImplementCommands`: with their data the commands take the steps of
  `SiteCommands`, or podman refuses to make a container (`EngineRefuses`), which the
  command reports.  `SiteCommands` does not have that refusal, so `PromisesKept` shows
  its invariants once more with it: `CommandsInv` is inductive for either step.
* `FileAgreesHolds`: `FileInv` says that `json`, decoded, is a configuration whose mode,
  site, listeners and connectors are those `config` and the options ask for
  (`Faithful`), and that encoding it yields `json` again.  `FileAgrees` speaks of the
  step that writes, `FileInv` of all states: `connect` decodes what some earlier command
  encoded.  `RoundTrip` and `Written` carry it over each write.
* `TlsProvisionedHolds` follows from `FileInv`, which keeps with each connector its
  profile, and `ProvisionedInv`, which knows the token in its directory.
* `RecreatedAlikeHolds`: `MadeInv` joins `ContainersInv` (each container that exists is
  like the one `init` would make for its site, and on docker has the form that
  `RecreatedKeeps` asks for) and `HeldInv` (what `RecreateContainer` took from the
  inspection makes such a container again or, with podman, none).

They rest on one assumption besides those of `SiteCommands`: `ImageAssumption`, that no
UID is the empty text and that the controller's image does not set `SKUPPER_TMPDIR`.
That variable is the one `init` may set to nothing (`main.go:764`): docker's inspection
would tell the image's value of it, and the second container would differ from the
first.  No Dockerfile of the repository sets a variable.

`SiteQueriesProofs`, without assumptions but those on the constants, any commands beside
the query.  The inductive invariant `Inv` has four parts: `ExecInv` (of the blocks written
none is lost between pipe and buffer, and the pipe is empty when the call is done),
`ShownInv` (where standard output goes at each stage of the call, and what was saved),
`ActiveInv` (an answer that is being returned was true within the query: `live` has its
active hosts, and those found before) and `QueryInv` (types, and that `exec` runs only
while the query asks).  From it follow `QueriesTypesHold`, `ReportedActiveHolds`,
`OutputWholeHolds` and `ShownHolds`.  `NoJamBelowCapacity` says when the exception that
`QueryEnds` makes cannot happen: if no command prints more than a pipe holds.
`QueriesImplementDetails` shows that queries leave alone what the commands work on, so
that `FileAgrees`, `TlsProvisioned` and `RecreatedAlike` hold beside them
(`QueriesKeepPromises`).

`ControllerRunProofs`, for any contents, times and bounds:

* `ControllerTypesHold`.
* `PullBoundedHolds`: `SilenceInv` adds `Timed`, the relation of ticker, timestamp and
  silence: the time since the timestamp is the silence, and what is left to the next tick
  still fits into the bound.  `ProgressKeptHolds` follows from
  the same.
* `TargetsAttachedHolds`: `Fresh` says at each step of a pass whether what was read is
  the file unless an event waits; `Attached` what the pass has done to the targets;
  `KindInv` that names tell selectors in all that was read or bound, without which a
  target that stays could keep an old selector.
* `ImplementsWatch`: the step that reads the file is the abstract pass.  It needs
  that bindings changed in place amount to what is in the definitions in the fields that
  are followed (`BoundFollowed`), which is proved for every pair of bindings and
  definition.  Failures are steps of the abstract watch (`Stop`) or none.
* `OlderContainersKeptHolds`: `ListedIsNewer`, of either engine's list.

Only model-checked: the liveness properties (`Convergence`, `DisconnectedForgets`, `Quiet`,
`Recoverable`, `QueryEnds`, `CatchesUp`), since temporal proofs with fairness and ENABLED
are outside what the prover does.  Every invariant and every action property of a passing
run is stated by a theorem.  `TrackedOnce` and `KnownLocalPreserved` are checked and proved under
`CarefulOperator` only; without it both fail.

## 5. Not modelled, and the plan

Not modelled:

* Printing, completion and the parsing and validation of arguments: no state.
* The configuration of proxies (`GetRouterConfigForProxy`, `qdr.go:462`):
  its only caller is commented out, so nothing makes a proxy.
* Operations of the drivers that nothing calls: `ContainerWait`, `ImageInspect`,
  `ImagesList`, `NetworkDisconnect`, and podman's `ContainerExecKeeper`, which
  `ContainerExec` replaced.
* The driver plug-ins (copies of the drivers, which are compiled in instead) and the
  legacy `pkg/docker`, of which one function is used (`FindEnvVar`).
* TLS itself, and the routers: external, modelled as a multicast that may lose
  messages and as connections that come and go.
* Two site commands at once.  No lock keeps two of them apart, and the loss of a change
  to `qdrouterd.json` is listed as a hazard; the models have one command and a query.
* The split of a session's goroutines in `service_sync.go` into their reads and writes of
  the shared maps: `ServiceFile` interleaves their steps, but a Go map that is written
  while it is read ends the program, of which nothing more can be said.

The plan, in order of importance:

1. `ServiceDefs`, `ServiceSync` and proofs (done).
2. `ServiceFile`: one site at the grain of read, truncate, write, with the commands
   and the three goroutines interleaved, lost updates, unreadable files and
   processes killed half-way; and the store of snapshots it implements whatever the
   order, as a refinement, with a proof (done).
3. `Connectors`, `SiteLifecycle` and `SiteCommands`: names, directories, `qdrouterd.json`
   and recreation of the two containers; init and delete, repeated, with a failure
   between any two steps; proofs (done).
4. `ServiceBindings` and `ControllerRun`: target ports and origins in `bridges.go`, changed
   in place, inside the controller's process; the watch it implements (done).
5. `ImagePull`, `ContainerExec`, `ContainerSpecs`: pull with its progress reporter and the
   cancelation it races, exec with podman's pipe, recreation with both drivers (done).
6. `RouterConfiguration`, `RouterSpecs`, `SiteDetails`, `SiteQueries`: marshalling of
   `qdrouterd.json` and back, what `init` makes of its options, and queries (done).
7. Proofs of what the functions of 5 and 6 return, of the properties of `SiteDetails` by
   them, of `SiteDetails` against `SiteCommands`, `SiteQueries` against `SiteDetails`, and
   of the network against `ServiceWatch` (done).  Left: where imports come from and
   whether they are tracked at the grain of file accesses, as properties of `ServiceFile`
   with proofs; now only the atomic steps of `ServiceSync` have them.
