# Verification of openwrt-uci

TLA+ models of the programs in this repository, the TLC runs that check them,
and TLAPS proofs about what matters most in them.

The repository drives OpenWrt routers: a Terraform provider
(`provider/terraform/main.go`) talks HTTP to an adapter on the router
(`crates/ubus-http`), the adapter talks the ubus protocol to the router's
daemon (`crates/ubus-proto`), and the daemon's `uci` object stages and commits
configuration sections. Beside that path, `uci-inventory` surveys a router,
names its anonymous sections, emits Terraform values and imports, and compares
fleets; `openwrt-uci` parses and renders UCI files, `openwrt-uci-transport`
runs commands over ssh, and `ubus-facade` generates the OpenAPI document the
adapter and the provider share.

## Inventory

| Component | State | Operations | Hard behaviour | What makes it correct |
|---|---|---|---|---|
| Terraform provider, `provider/terraform/main.go` | Terraform's state per resource; the device's delta and flash | Create, Read, Update, Delete, ImportState; `call`, `commit` | several resources of one package at once; a call that fails, or loses its reply, between staging and commit; restarts; other tools | what succeeded is on flash; nothing is forgotten but on the device's word; nothing it does not own is touched; runs converge |
| ubus client, `crates/ubus-proto/src/client.rs` | stream, peer id, 16-bit `seq` | `new`, `lookup`, `invoke`, `call` | replies of failed calls still queued; wrap-around; objects leaving between two requests | a call returns its own reply; it runs the object at exactly the path asked for; it returns |
| HTTP adapter, `crates/ubus-http` | none between requests; the listen backlog | `read_request`, `handle`, `serve_one`, accept loop | one thread for all; silent and malformed clients; ubus away | everybody is answered, truthfully |
| Renaming, `crates/uci-inventory/src/rename.rs` | the batch, the touched packages | `propose`, `propose_all`, `apply` | colliding names; positional labels that go stale; a device that answers ok and does nothing; a batch that fails in the middle | names are unique, stay with their section, are published; repeating the command finishes |
| Survey, `uci-inventory/src/{inventory,disposition,adapter}.rs` | the answers read so far | `packages`, `package`, `survey`, `parse_package`, `agreements` | package by package, while others edit; secrets; positional addresses | complete or refused; an address denotes its section |
| Emission and capture, `emit.rs`, `capture.rs` | none | values, imports, report, fixture | a secret in a field whose name says nothing, or in a list; addresses that move | no secret leaves; stable addresses stay right; a fixture is surveyed as the router was |
| Readiness, `readiness.rs`, `ready` | none | the checks and the verdict | evidence that is missing | fit is said exactly of what was seen to be fit |
| Fleet, `rendered.rs`, `fleet.rs` | the pin file | `parse`, `compare`, `pin_file`, `read_pin`, `breaches` | a pin that is older than the renders, reviewed by hand | a gate that holds means every router says it; every departure is named |
| UCI documents, `crates/openwrt-uci` | none | `parse`, `render` | quoting; damaged text | what is rendered is parsed to the same document, or refused |
| ssh transport, `crates/openwrt-uci-transport` | the known_hosts file | `exec`, `materialize_pin`, `export`, `export_package` | read then append in two writes, by several callers; crashes; exit code 255 | the right pin is accepted; the file repairs itself; failures are told apart |
| Wire encoding, `ubus-proto/src/{lib,encode}.rs` | none | encode, decode | lengths, padding, truncated attributes, unknown types | the device reads what was meant, the client what was answered |
| Facade, `crates/ubus-facade`, `ubus-http/src/{route,bridge}.rs` | the document, the route table | catalog to OpenAPI, JSON both ways, routes, conversions | JSON numbers, escapes; values without a wire type; fields without a type | every method is published and routed to; plain arguments arrive as written |

They interact by calls only: Terraform → provider → HTTP → adapter → ubus
socket → daemon → object. The shared state is the device: its delta (per
package), its flash, and the daemon's registry of objects. The tools of
`uci-inventory` work from an inventory they read through the adapter, or from
files; the ssh transport reads the same store by another way.

## Modules

| Module | Models | Notes |
|---|---|---|
| `UciDevice` | the uci store (external) | `staged` is what `uci get` answers, `published` what survives a restart; `Publish` commits a whole package, whoever staged it |
| `UciSectionResource` | `provider/terraform/main.go` | one action per facade call of a handler; extends `UciDevice` |
| `UciSectionResource_proofs` | | the theorems about it |
| `UbusDaemon` | ubusd's registry (external) | ids are not used twice |
| `UbusCall` | what `Connection::call` promises | abstract: a call ends in one step with an outcome that was justified while it was pending |
| `UbusConnection` | `client.rs`, message by message | refines `UbusCall` |
| `UbusConnection_proofs` | | the theorems about it, the refinement among them |
| `UbusHttp` | `http.rs`, `bridge.rs`, `route.rs`, the accept loop | uses `UbusCall` for the call |
| `UbusHttp_proofs` | | the theorems about it |
| `SectionNames` | `rename.rs`, `propose` | pure |
| `SectionRenames` | `rename.rs`, `apply`, and the command around it | instantiates `UciDevice` |
| `SectionRenames_proofs` | | what `Propose` gives for any files, and the theorems about the command |
| `Dispositions` | `disposition.rs` | the catalog, name by name, and which option names are secret; pure |
| `Inventory` | `inventory.rs`, `emit.rs`, `readiness.rs`, `capture.rs` | pure; extends `Dispositions` |
| `InventorySurvey` | `adapter.rs` and the commands of `main.rs` that survey | a router that others edit while it is read; extends `Inventory` |
| `InventorySurvey_proofs` | | the theorems about it |
| `Fleet` | `rendered.rs`, `fleet.rs` | pure |
| `FleetPins` | `run_fleet` | over renders, pins and reviews; extends `Fleet` |
| `FleetPins_proofs` | | the theorems about it |
| `UciDocument` | `openwrt-uci`, `parse.rs`, `render.rs` | symbol by symbol; pure |
| `UciDocument_proofs` | | the round trip, and that damage is refused |
| `DeviceReader` | `openwrt-uci-transport` | callers, one file, ssh; extends `UciDocument` |
| `DeviceReader_proofs` | | the theorems about its file and its answers |
| `Characters` | | symbols and their codes, for the three below |
| `BlobWire` | `ubus-proto/src/{lib,encode}.rs` and the decoding in `client.rs` | byte by byte; pure |
| `Json` | `ubus-facade/src/json.rs` | renderer and parser; pure |
| `UbusFacade` | `catalog.rs`, `openapi.rs`, `route.rs`, `bridge.rs` | pure; extends `Json` |
| `CallPath` | the composition of the three, with `handle` and `Connection::call` | from the device's catalog to the bytes of a call and back |
| `MC*` | | instances for TLC |

`CallPath` is what goes through a call, `UbusConnection` what may happen
between its messages, `UbusHttp` who waits for whom: the three views of the
same path share the source and no state.

### The provider

A resource is identified with its address. `config` is the declared block,
`state` Terraform's state, `pc` where the resource stands in the current run.
A run reads every resource in state (`StartRun`, `ReadFound`, `ReadError`,
`ReadNothing`), plans (`Plan`, or `Abort` when a refresh failed), and lets the
handlers run concurrently. `CreateAdd`/`CreateCommit`,
`UpdateDelete`/`UpdateSet`/`UpdateCommit` and `DeleteSection`/`DeleteCommit`
are one facade call each. Between the calls of one handler other resources, a
restart of the router and other tools may act. A call may fail before it takes
effect or after. An option value is a scalar or a list, as `splitOptions`
tells them apart. `stale` is a history variable: somebody other than the
provider touched the section since it was last read.

The errors a Read can meet keep what the code looks at: from where, the HTTP
status, the message. "Status 4" is said of a section that is not there, and of
any section while the `uci` object is away from the bus (`AnsweredNotFound`,
bounded by `Limit["away"]`): `UbusHttp` shows how the adapter comes to say it
(run `statusfour`). `ForgottenOnlyOnNotFound` states what follows: no error
makes the provider forget a section but that one, and with it the provider
forgets a section that is there. `main.go:68-69` means to exclude that, and does
not. While the block stays declared the next run adopts the section again
(`StagedConverges`); a block removed in the meantime leaves it behind.

`uci add` with a name that exists merges into the section (this is libuci's
behaviour, external); a new one starts empty.

### The connection, the call, the adapter

`UbusConnection` has the queue of requests and the queue of messages. The
daemon answers a request in one step, with every reply the protocol allows: a
LOOKUP with one DATA per matching object, other objects among them, in any
order, or status 4; an INVOKE with or without DATA, with any status. Reads and
writes may fail, messages may be of another type, DATA may not decode. After a
failed call the caller may go on using the connection, so stale replies are
real; `Patience` says how far behind it may be before the caller drops it. The
assumption `Patience + 2 < SeqSize` is what makes a 16-bit counter enough; the
code enforces no such bound, but its only user, the adapter, opens a
connection per request.

`UbusCall` states what is promised: the outcome is a value or a status of an
object that was registered under exactly the path during the call, or the
daemon's word that none was, at a moment when none was, or a failure. That
`UbusConnection` implements it is checked, and proved, with a refinement mapping
(`pending` is the path while `pc` is not idle, `outcome` is `answer`; `seen`
and `vacancy` are history variables in both).

`UbusHttp` is the sequential server: accept, read, connect to ubus, handle,
answer. It extends `UbusCall`; what it adds is the queue of clients, what they
send (a call, an unrouted path, a GET, a body that does not convert, garbage,
too many headers, nothing), and the response. `section` is the section every
call asks for.

### Renaming

A name is the sequence of its words. `Propose` gives every anonymous section,
in file order, the first of: type and first naming option; that with a further
option that is new and free; that with the least number that makes it free.
What is taken is what sections are called and what those before it in the file
were proposed (`Taken`). `SectionRenames` is the command: `Survey` proposes and
orders, `IssueRename` and `Verify` treat one section each, the one with the
highest index first (`IsNext`: what is to do is a set), `Commit` one package
each. The label a rename is issued against is a position in the file and goes
stale when another tool rewrites the file. The device may answer ok and do
nothing. After a failure the command is run again. `disturbed` is a history
variable: another tool edited, or the router restarted.

### The survey

The router is `conf`, per package its sections in file order. The command gets
the names, then one package after another (`List`, `Get`), while `Insert`,
`Delete`, `Assign` and `Commit` go on; `Conclude` is everything the code
computes afterwards, by the operators of `Inventory`, and `Judge` the one more
question of `ready`. `Longest` bounds a file. The command and its scope are
arguments of the process that nothing before `Conclude` looks at, so they are
chosen there. A section carries an `id` that no operator reads: the properties
use it to say which section an address means. Option names are strings, because
`option_is_secret` looks into them, and so are section names that uci made up
(`cfg0...`). An answer may lack `values` (it has no body then), or not come at
all. An adapter of an older build does not decode `.anonymous`, and then the
name decides.

### Fleet and pins

A manifest is a sequence of documents, the inline block of a document a
sequence of lines that are deeper than its key, not deeper, or blank, each with
a resource or with something that is not JSON. `Settings` is what is compared:
triples of config, section and option; of what several resources say the last
counts. A resource that is no object, has no string for its config or its
section, or has values that are no object says nothing (`Named`, `Said`), and a
value that is no string is left out. A pin is a sequence of entries; a review takes an entry out, repeats one
with another value above or below the rest, or damages one. Every command of
`run_fleet` is an action: refused, compared, `--emit-pin`, `--pin`. `source` is
a history variable: the routers the pin was taken from, as long as none is
rendered again and the review only takes entries out.

`GateIsSound` speaks of every entry of the pin, and has to make one exception:
an entry that a later one for the same setting overrules is not compared at all
(`Overruled`). The gate passes without it, although `fleet.rs:416-417` says that
a pin file never loses entries silently. `NoBreachIsInvented` is the other
direction, a gate that cries wolf: a pin nobody changed holds of the routers it
was taken from, in any number and order.

### The reader

Text is a sequence of symbols; keywords are single ones, with the blank after
them, and a value in which the word occurs has it spelled. A document is any
sequence of packages whose names, types and keys are words of `Letters` and
whose values and section names are any symbols on one line, quotes, backslashes
and blanks among them (`APackage`). What a router has is such a document, with
a package once, since uci keeps a file for each (`DocumentsAssumption`); the
parser has to do with whatever it is sent. The known_hosts file
is a sequence of lines, each a sequence of entries, so that two entries on one
line are a torn write, and an entry on the last line is one without its line
break. `Check`, `WriteLine` and `WriteBreak` are the read and the two writes of
`materialize_pin`; other callers write between them, a caller may crash after
any of them, a write may fail. ssh reads the file as its manual says
(external), and under accept-new adds the key of a host it did not know, which
may fall between the two writes of a caller that pins one. Every line torn that
way, by a caller or by ssh, is counted in `spent["tear"]`. Routers are
reconfigured and replaced meanwhile, pins recorded anew.

What a text parses to is computed once per text that may be sent (`Parsing`,
`Trimmed`). `TextsAreRead` is the round trip: what a router has is read back
from what uci prints of it, and a text with a damaged line is refused. A
damaged line is one whose keyword became a letter, with which no rule begins
(`Damaged`, `NoiseAssumption`).

### The call path

The device prints its catalog, `Publish` is `ubus-facade` (which may read a
damaged capture), `Start` the adapter reading the document, `Ask` a request up
to the bytes of the INVOKE, `Reply` the device's bytes and the response. What
the device writes and reads is modelled apart from the code
(`Spelled`, `Run`, `Reads`), from the captures in `PROTOCOL.md`, so that an
error of the encoder is not repeated by the decoder that judges it. Symbols
have codes; 64-bit JSON numbers keep their digits; `MaxName` stands for the
65535 of the length field. The 24 bits of an attribute's length cannot be
exceeded, since a request body is at most 1 MiB.

In three places the code does not keep what its comments promise, and the
properties say what it does keep:

- `DeliveredAsSent`: the device reads what the client wrote exactly when no text
  has a NUL and no name is longer than `MaxName`. Such bodies are sent and read
  as something else, where `bridge.rs:5-9` has them refused.
- `RepliesAreFaithful`: a whole answer is told as it is. Of one with a malformed
  attribute nothing is told that the device did not say, but what is told is a
  shorter table under status 200, the "partial view that looks complete" of
  `lib.rs:325-327`, `client.rs:399-401` and `tests/decode.rs:187-190`. The
  property would hold of a refusal too.
- `PublishedIsComplete`: every operation is published once, with its object, its
  method and a schema of its own. Its id and the name of its schema are nobody
  else's unless another method is spelled alike, letter for letter, when what
  is neither letter nor digit is taken out and capitals are ignored
  (`Spelling`). One catalog of the run has such a pair, `a.b` and `a_b`:
  both get one id and one name for two schemas, against `openapi.rs:267-273`.

## Runs

| Run | Instance | Shows |
|---|---|---|
| `pair` | 2 resources of one package, 5 blocks (a clashing one and one with empty `lists` among them), 1 fault, 1 restart, 1 edit, 1 change of the configuration, 1 read without a `uci` object | 1,106,186 states: `TypeOK`, `AppliedIsPublished`, `StagedConverges`, `ForgottenOnlyOnNotFound`, `OnlyOwnedOptionsTouched` |
| `uncommitted`, `key` | the smallest instances that do it | findings |
| `connection` | 2 paths, 2 ids, 5 sequence numbers, 6 requests, 2 failures | `TypeOK`, `OnlyOwnReplies`, `NothingLeftBehind`, `ImplementsCall`, `CallsReturn` |
| `http` | 2 clients, 2 ids, every kind of request | `TypeOK`, `NobodyIsLost`, `RepliesAreTruthful`, `EveryoneIsAnswered` |
| `statusfour` | 1 client | a finding |
| `renames` | 2 packages, 6 sections, 2 faults, 1 restart, 1 edit | `TypeOK`, `NamesAreUnique`, `NamedAfterOwnContent`, `ReportedIsDone`, `AppliedIsPublished`, `EverySectionNamed` |
| `partial` | the same, 1 fault | a finding |
| `inventory` | 7 packages and one nobody knows, 2 edits, 1 commit, 1 fault | 250,804 states: `TypeOK`, `EverythingAccountedFor`, `MaterialLeavesInListsOnly`, `ImportsResolve`, `StableAddressesStayPut`, `FitMeansFit`, `FixtureStandsForRouter` |
| `fleet` | 2 routers, 12 manifests (4 of them damaged), command lines of up to 2 paths, 3 renders or reviews | 88,127 states: `TypeOK`, `GateIsSound`, `BreachesAreExact`, `PinsAreUniversal`, `NoBreachIsInvented` |
| `reader` | 2 callers, 2 hosts, 2 keys, 5 assignments of targets (one pins; the other pins too, trusts on first use, of one host or of two; or asks for no key), one mishap of each kind and 2 in all, one answer each | 89,926 states: `TextsAreRead`, `AnswersAreTheRouters`, `RightPinIsAccepted`, `FileStaysSmall`, `EveryoneIsAnswered` |
| `callpath` | 3 catalogs (one with two methods that share their id), 14 bodies, 3 answers and each of their attributes malformed, 2 changes of the device | 10,892 states: `DeliveredAsSent`, `RepliesAreFaithful`, `PublishedIsComplete` |

Why the bounds are enough. Two resources are what it takes for one commit to
publish another's delta, and no handler looks at more than its own section.
Two options and two scalars make every case of `Removed`, `Merge` and
`splitOptions` happen (kept, changed, removed, left alone), one list value
every case of `lists`. Six requests are three calls, and with five sequence
numbers the counter wraps while the replies of two failed calls may still be
queued. Two ids are a restart of the object. Two clients are a queue. The six
sections of `renames` contain every way `propose` resolves a collision and the
fallback to a position. Two edits are what it takes to move a positional
section past another between its being listed and its being read, or to divide
two bands and then reunite one with a guest network; the packages of
`inventory` are one or more of every disposition. The manifests of `fleet`
agree, differ, drop a setting, split it over two resources, hold resources that
are skipped, hold nothing, and fail in each of the four ways. Two callers are enough for a torn line, since a
third could only tear it again, and two mishaps for a mishap that meets the
repair of another. The bodies of `callpath` hold every JSON kind, every escape,
both 32-bit limits, names at and beyond the longest, and text that is none;
the answers every type on the wire and one nobody measured.

`connection`, `renames`, `partial`, `inventory`, `reader` and `callpath` do not
check deadlock: the first stops when its requests are used up, the two next
when nothing is left to rename, `inventory` when the command is done, `reader`
when every caller has its answer, `callpath` when the changes are used up and
no request is under way. All other runs check it.

## Fairness

- Provider: weak fairness of `Progress`, the runs and handlers together. The
  operator keeps running Terraform, and Terraform finishes what it began. No
  fairness is assumed of restarts, edits and faults.
- Connection: weak fairness of the client's reads and of the daemon. A blocking
  read returns once there is something to read; the daemon answers.
- Adapter: weak fairness of the server's steps, and of a silent client hanging
  up. The second is an assumption about the environment the code does not
  provide for: there is no read timeout, and without it one silent client
  blocks all others.
- Renaming: weak fairness of the command. The operator repeats it until no
  proposals are left.
- Reader: weak fairness of every caller's steps, each of which calls again
  until it has an answer. Tears, crashes and failures are bounded: two callers
  that tore each other's lines for ever would never be answered, and nothing
  in the code but chance prevents that.

## Findings

1. `uncommitted`: what a handler staged and did not commit is never committed,
   because Read answers from the delta and the next plan is empty. In the run an
   add takes effect and its reply is lost; the section is imported, and no
   later run finds anything to do.
2. `key`: the first apply of an adopted section removes the options it does not
   declare, although the inventory promises they stay.
3. `statusfour`: the daemon's "no such object" reaches the provider as the
   section's "not found", which removes the resource from state.
4. `partial`: a partial batch of renames is reported as applied and is not
   committed.

Also seen while modelling. No run is made of these; where a property would
otherwise claim what the code does not keep, it names the exception:

- A failed update leaves its delete staged, and the commit of another resource
  of the package publishes it (`main.go:425`). A changed section type is
  planned for ever and never sent (`main.go:438`).
- `ready` asks for the uncommitted changes of `system` only, and a router whose
  answer does not come is not unfit for that.
- Of duplicate pin entries the later counts (`fleet.rs:444`) and the earlier is
  lost without a word, although "a pin file that loses entries silently would
  shrink the gate's coverage while still passing" (`fleet.rs:416-417`); see
  `GateIsSound`. Naming one router twice satisfies `TooFewRouters`. Lists are
  never compared.
- The JSON values contain the structural part of secret-bearing packages, the
  imports and the YAML values do not.
- With positional addresses included, `rule[0]` and a section named `rule_0`
  share a terraform address.
- A fixture keeps the items of lists (`capture.rs:115-126`), although "every
  value in a secret-bearing package is replaced unless its field is named in
  STRUCTURAL" (`capture.rs:19-20`): the secrets the router of the run has in
  lists leave in its fixture; see `MaterialLeavesInListsOnly`.
- Values with a line break make an export that the parser refuses (`render.rs:64`).
- A truncated table decodes as a shorter one, ids of operations are not unique,
  and a NUL or a name longer than 65535 bytes reaches the device as something
  else: see the call path above.
- A pin that is recorded anew leaves the old key in known_hosts, and ssh goes
  on accepting it.

## Proofs

### The provider

`UciSectionResource_proofs` proves, for every set of resources, packages,
types, options, values, declarations, for every bound on the mishaps, and from
the assumptions `OptionValues`, `Sentinels` and `Bounds` only:

- `Invariance`: `Spec => []IInv`
- `TypeCorrect`: `Spec => []TypeOK`
- `OperationsArePublished`: `Spec => []AppliedIsPublished`
- `OnlyNotFoundForgets`: `Spec => ForgottenOnlyOnNotFound`
- `OwnershipRespected`: `Spec => OnlyOwnedOptionsTouched`

`AppliedIsPublished` speaks of the moment an operation reports success, and is
not inductive: whether a commit makes it true depends on what the calls before
it staged. `IInv` therefore adds to `TypeOK` what an operation in progress
presupposes of configuration and state (`ControlInv`), and, per resource and
per stage of its handler, what is staged (`StagedInv`): after the refresh the
staged section reads as the state; after the delete it has none of the options
to be removed; after the set it holds exactly what is declared; a settled
success is staged and published. Every clause is about sections nobody else
touched since the refresh. The proof splits a step into the handler's own
resource, where the clause moves to that of the next stage, and all other
resources, whose staged sections the step does not change and whose published
ones it can only bring up to date (`Undisturbed`, `AttemptOthers`,
`CommitOthers`). The two action properties follow from `IInv` and a case split
over the steps.

### The adapter

`UbusHttp_proofs` proves, for every set of clients and object ids and any
number of requests, from `Routing`, `AdapterCodes` (the status "not found" is
none of the other two) and `AdapterNames`:

- `Invariance`: `Spec => []IInv`
- `TypeCorrect`: `Spec => []TypeOK`
- `NobodyLost`: `Spec => []NobodyIsLost`
- `RepliesTruthful`: `Spec => RepliesAreTruthful`

`NobodyIsLost` counts the places of a connection in the backlog, which no step
can be followed through; `IInv` says the same without counting (`Places`): the
connection being served is open and not in the backlog, the backlog holds open
connections, each once, and an open one is in one of the two. `Stage` adds that
somebody is being served exactly when the server is not accepting, and which
requests can get past reading. `RepliesTruthful` then comes down to
`Response`: the outcome of a call is justified when it ends (`UbusCall`), and
no outcome is turned into a response that says more.

### Fleet and pins

`FleetPins_proofs` proves, for every set of routers and manifests, command
lines of any length and any number of renders and reviews, from
`PathsAssumption`, `EditsAssumption`, `RendersAssumption`, `FiniteAssumption`
(a render that can be read has finitely many settings) and
`MalformedAssumption` (a damaged entry is none that `pin_file` writes):

- `Invariance`: `Spec => []IInv`
- `TypeCorrect`: `Spec => []TypeOK`
- `GateSound`: `Spec => []GateIsSound`
- `BreachesReported`: `Spec => []BreachesAreExact`
- `PinsUniversal`: `Spec => []PinsAreUniversal`
- `NothingInvented`: `Spec => []NoBreachIsInvented`

`IInv` is the four properties, with the types and with the pin being a sequence
of entries, which is what makes a pin that is not refused assert something. A
result speaks of the files as they are, and the step that changes a file takes
the result with it, so a property of results is established by the command that
writes one. There the lemmas do the work: what is compared stands where its path
stands (`ComparedIs`), a comparison that is not refused has a first router that
can be read (`ComparedWell`), the breach of a setting is "none" exactly when
every router says what is pinned (`NoBreach`), and otherwise what happened to it
(`BreachIsExact`, which counts the values the routers give it). An entry that no
later one overrules is the one that counts (`CountsUnlessOverruled`), which
takes a last entry for every pinned setting (`Largest`, `LastEntryCounts`).

`NothingInvented` speaks of a pin and a command line that may be several commands
apart. `SourceInv` carries what ties them: while nobody renders again and
nothing is added, every entry is whole and still what each router the pin was
taken from says. So an entry that is compared with routers of that list only is
said by all of them, and `NoBreach` applies.

### The connection

`UbusConnection_proofs` proves, for every set of paths and ids, any number of
sequence numbers, requests and failures, and from `SequenceNumbers`
(`Patience + 2 < SeqSize`), `StatusCodes`, `Idleness`, `FiniteIds` and
`RegistryNames`:

- `Invariance`: `Spec => []IInv`
- `TypeCorrect`: `Spec => []TypeOK`
- `NothingLeft`: `Spec => []NothingLeftBehind`
- `RepliesAreOwn`: `Spec => OnlyOwnReplies`
- `CallImplemented`: `Spec => ImplementsCall`

The code tells replies apart by their sequence number, the properties by the
request they answer; `IInv` is what makes the one enough for the other.
`Numbered`: whatever is queued belongs to one of the last `Patience + 2`
requests, and the counter is as many steps past its number as requests were
sent since. As there are more numbers than that, an equal number is the same
request. `Own`: what the current exchange collected is its own. `Told` says
what the messages of the current exchange establish: a DATA of the path names
an object that was seen there, a refusal was one (`Sound`), and a LOOKUP that
succeeds has named an object of the path, or spoilt the exchange, or there was
none (`Complete`). `Watched` relates the history variables to the registry,
which has one object at a path (`OnePerPath`). `Clean` is the queue before
anything failed: the request, or its reply, or nothing. The refinement follows:
a step that ends a call maps to `End`, with an outcome `Told` and `Watched`
justify, `StartCall` to `Begin`, arrivals and departures of objects to
themselves, and all others stutter.

### Renaming

`SectionRenames_proofs` proves of `Propose`, for every finite set of sections in
any packages and files, with any types and naming options, from
`SectionsAssumption`, `FilesHoldSections` (a package's file has its sections,
each once) and `NumeralsDiffer` (as many numerals as could be needed are
different words):

- `ProposalsAreNew`: what is proposed is a name no section of the package has
- `ProposalsDiffer`: no two anonymous sections of a package are proposed one
- `ProposalsAreStable`: carrying out any of the proposals changes none of those
  that are left

`Taken` runs through the file, so what it holds after a section is an induction
over positions. The library's induction theorems cannot be instantiated here;
the lemmas take a least counterexample of a set of numbers instead (`WFMin`
with the order of the naturals). That a numbered name is always free is a
pigeonhole: there are more numerals than sections. The third theorem is what
makes repeating an interrupted batch harmless: a section that was renamed takes
the name it had been proposed, so the sections after it see the same names
taken as before, whether it comes before them or not.

And of the command, with `RenamesAssumption` (no two sections of a
package are called the same at first) and for any number of faults, restarts
and edits:

- `SectionRenamesTyped`: `Spec => []TypeOK`
- `SectionNamesAreUnique`: `Spec => []NamesAreUnique`
- `NamesAreOwnContent`: `Spec => []NamedAfterOwnContent`
- `ReportedRenamesAreDone`: `Spec => []ReportedIsDone`
- `AppliedRenamesArePublished`: `Spec => []AppliedIsPublished`

`RenameInv` adds to the types what a proposal is made of and that there is
something to commit until the last package is. `UniqueInv` is inductive because
no name of the batch is had by a section, or proposed twice, until it is issued
(`BatchIsNew`), and because what is staged and not on flash is a name for a
section without one, so that a restart takes names away and gives none
(`OnlyNamesPending`). `ContentInv` is about a device nobody else touched: every
section is called what it was or what it was first proposed, what is left to do
is what `Propose` gives now, by `ProposalsAreStable`, and what is done is
pending in its package or on flash.

### The survey

`InventorySurvey_proofs` proves, for any router, any number of edits while it
is read, and every command and scope:

- `SurveyInvariant`: `Spec => []SurveyInv`
- `SurveyTyped`: `Spec => []TypeOK`
- `NothingIsLost`: `Spec => []EverythingAccountedFor`
- `SecretsStay`: `Spec => []MaterialLeavesInListsOnly`
- `ImportsFindTheirSections`: `Spec => []ImportsResolve`
- `StableAddressesKept`: `Spec => []StableAddressesStayPut`
- `VerdictIsDeserved`: `Spec => []FitMeansFit`
- `FixtureStandsIn`: `Spec => []FixtureStandsForRouter`

The assumptions say what a router is, and TLC evaluates them on the instance:
its files are sequences of known sections, each once (`RouterAssumption`); the
names uci makes up for anonymous sections are recognised, differ, and are
nobody's (`GeneratedNames`); the joined words of named sections differ
(`AddressesDiffer`: `a` with `b_c` and `a_b` with `c` would share a terraform
address, and nothing in the code prevents that); a secret is where the
classification looks for one (`SecretsAreWhereClassified`: that is what the
classification claims, and a secret elsewhere does leave; the assumption covers
the items of lists as well); placeholders are no
secrets and differ (`PlaceholdersDiffer`); no option a readiness check reads is
taken for a secret (`ReadinessOptionsAreOpen`); markers are not values
(`Sentinels`).

The properties speak of what a command concluded, after a router that has been
edited since. `SurveyInv` ties the two together: the files are files
(`RouterInv`), every answer is one of them as it stood when it was read, a
package answered at most once (`AnswersInv`), a conclusion is what the
operators compute from the answers (`OutputInv`), and what was emitted as
stable is the name of a section (`EmittedInv`). Each theorem is then a
statement about those operators over any answers. A body is a set that is put
in order by its indices (`IndexedBody`), which is counting: the section with
index `i` has `i` before it. So is a positional address, which uci resolves by
counting sections of a type. An address emitted as stable is a name, which no
edit gives to another section. A fixture replaces equal secrets by equal
placeholders and different ones by different ones, so that it is surveyed
section for section as the router was, the agreement of secrets within a
network included.

### The reader

`UciDocument_proofs` proves of the renderer and the parser, for every document
(any number of packages, sections and entries) and from `LettersAssumption`
only (letters are not keywords, blanks, breaks or quotes):

- `RoundTrip`: the text of a document, indented with a tab or a blank, parses to
  that document, without an error
- `DamageIsRefused`: with a letter in the place of any of its keywords the text
  is an error, and it is not a blank one

Both sides are recursive functions. The lemmas first turn them into equations
(what a concatenation renders to, what `After` has read when a symbol is
appended); the inductions are over sets of sequences, of those for which the
claim holds, once for the symbols of a line, once for the entries of a section,
for the sections of a package and for the packages. Quoting is inverted by
induction on the value from its end: what a quote was written as is an escape,
and no other symbol begins one (`QuoteIs`). A line that is trimmed, cut at
its first blank and unquoted gives back key and value, whatever blanks the
value begins or ends with. For damage the same structure is followed with one
symbol changed (`Fragile`): what comes before is read as it was, the line with
the letter is an error in whatever document came before it, and an error stays.

`DeviceReader_proofs` proves, for every finite set of callers, all hosts, keys
and documents, any number of calls and mishaps, and from `CallersAssumption`,
`TargetsAssumption`, `KeysAssumption`, `DocumentsAssumption`, `NoiseAssumption`
and `LettersAssumption`:

- `Invariance`: `Spec => []IInv`
- `RightPins`: `Spec => []RightPinIsAccepted`
- `FileSmall`: `Spec => []FileStaysSmall` (from `Accounts`: `Spec => []Bounded`)
- `AnswersJustified`: `Spec => []Told`
- `TextsRead`: `Spec => []TextsAreRead`
- `AnswersTrue`: `Spec => []AnswersAreTheRouters`

`IInv` is about the file until something goes wrong: one caller at most is
between its two writes, the last line is what it wrote or empty, and a caller
that gets to ssh has its pin on a line of its own. `Bounded` keeps accounts,
and holds whatever goes wrong. A line of two entries or more is paid for by a
mishap, and a last line that nobody is about to end by one that was not used
yet. Callers about to write an entry found none of it; once one line has it,
nobody joins them. So the lines of an entry and the callers waiting to write it
are never more than the callers together.

`Told` is about the answers: the result of a call is justified by what ended
it, and what it says of the router is what the router held then. What it rests
on is that a document is read back from its text, and so is the one package of
it that was asked for (`PackageNamedIs`, `HeldIs`: the router has it once, so a
text of it alone is a document again), that no text of a package is blank
(`LaidNotBlank`), and that a damaged one is an error: `RoundTrip` and
`DamageIsRefused`. Given those, no mixture of exit codes, messages, empty and
damaged texts makes `exec`, `export` and `export_package` say anything else of
the router than what it held at the time.

### Only model-checked

Everything temporal with fairness (`StagedConverges`, `CallsReturn`, both
`EveryoneIsAnswered`, `EverySectionNamed`): the prover does not do liveness
under fairness. The pure modules of the wire and the facade (`Json`,
`BlobWire`, `UbusFacade`), which use RECURSIVE operators, are out of its reach,
and with them their composition `CallPath` (`DeliveredAsSent`,
`RepliesAreFaithful`, `PublishedIsComplete`).

## Not modelled

- Wording: HTTP's bytes, HCL, reports, the descriptions in the OpenAPI
  document, errors except where the code compares their text. JSON is written
  without indentation.
- `slug` and `ends_with` on letters: names are compared word by word.
- Changing the address of a resource in place (`config` and `section` are not
  RequiresReplace in the schema).
- Of `uci-inventory`'s command line: the parsing of flags, `cr`, which wraps
  the values of a saved survey, the long form of the fleet report, and the
  printed list of renames.
- The accessors of `openwrt-uci/src/lib.rs`, the transport's test double, the
  probe for an ssh binary, build files.
- Values with a line break in a UCI document: they are refused, see above.
- Time: the provider's HTTP client and the adapter have no timeouts; that
  calls return is `CallsReturn` and `EveryoneIsAnswered`, under the assumptions
  stated there.

## Plan

Done, in this order: the provider with its proofs, the connection with its
abstract call, the adapter with its proofs, renaming; then fleet and pins with
their proofs, the survey, the reader, the wire and the facade; then the proofs
of the connection, of its refinement and of the reader's file; then those of
renaming, of the survey, of a pin and its source, of what the reader is told, and of the round trip of documents. What could follow:

1. A survey whose router restarts between two packages, and a saved survey
   (`cr`).
2. The provider's requests in place of `config` and `section`, once the schema
   says what should happen.

## Running

    tlc -workers 2 -config MCUciSectionResource_pair.cfg MCUciSectionResource.tla
    tlapm UciSectionResource_proofs.tla
    tlapm UbusHttp_proofs.tla
    tlapm UbusConnection_proofs.tla
    tlapm UciDocument_proofs.tla
    tlapm DeviceReader_proofs.tla
    tlapm SectionRenames_proofs.tla
    tlapm InventorySurvey_proofs.tla
    tlapm FleetPins_proofs.tla

`PROJECT.json` lists the runs with their configurations, the source lines each
definition stands for, the mutations each property is known to reject, the
hazards and the findings.
