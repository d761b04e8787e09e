# Specifications of gowebfilter

TLA+ modules of the web filter in this repository, TLC configurations that
check them on small instances, and TLAPS proofs of what matters most for every
value of the parameters. `PROJECT.json` is the machine-readable index: which
definition models which lines, what each run checks, which hazards the
properties are for.

    tlc -config settings_split.cfg MCSettingsReload     # a run
    tlapm Connection_proofs.tla                         # a proof

## 1. The system

`webfilter` is a filtering proxy. Clients reach it as an HTTP proxy, over
SOCKS4/5, transparently (redirected packets) or over ICAP; it splices or
intercepts their TLS, runs every request through a fixed chain of addons, and
serves a management API on the same files. The same engine runs as `webfilter
run` (proxy and management in one process), as two processes (`proxy`, `mgmt`),
as a Windows service and inside an Android VPN app.

| Part | State it keeps | Operations | Talks to |
|---|---|---|---|
| Settings (`settingsvc`, `config/store.go`, `mgmtapi/routes_settings.go`, `state.go`) | `settings.json`; the management server's cache; the runtime's snapshot; what stores were configured with | PUT, atomic save, ApplySettings, ReloadSettings, watch loop, load at start | file system events, `OnSettingsSaved` hook, category and adblock stores |
| Policies (`config/policystore.go`, `state.go`, `mobile/policiesapi.go`) | one file per policy; loaded list; MITM exclude list; generation | Create, Update (rename), Delete, List, ReloadPolicies | watch loop, Android bridge |
| Connections (`proxy/engine.go`, `handler.go`, `socks*.go`, `transparent.go`, `addons/proxy_auth.go`) | goroutine per connection; `authedConns` | accept, handshakes, AuthorizeConnect/Socks, tunnel decision, request loop | settings and policy snapshots, pipeline, upstream |
| Filter pipeline (`proxy/pipeline.go`, `addons/*`) | `FlowContext` of one request | HandleRequest, HandleResponse, HandleError of each addon | lists, resolvers, classifiers, log store |
| SOCKS5 UDP relay (`socks5_udp.go`) | session table, destination sockets, reader and DNS goroutines | associate, read, forward, evict, expire, close | DNS upstream, destinations |
| Policy matching (`state/policy_match.go`, `models/schedule.go`) | none | MatchPolicy, IsActiveAt | neighbour table |
| ICAP (`internal/icap`, `proxy/icap.go`) | a connection's transaction | OPTIONS, REQMOD, RESPMOD, preview, 204 | pipeline |
| Adblock lists (`internal/adblock`) | list files, index, compiled engines per list set, wanted lists | Engine, EngineSync, Run, Download, Delete, Configure | network, policies |
| Categories (`internal/categories`) | directories of domain lists, index, mtime cache | download, update, delete, match, Configure | settings |
| Log store (`internal/logstore`) | SQLite tables | insert, prune, read, close | all addons |
| Certificates (`internal/certs`) | CA files, CA in memory, leaf cache | create, import, issue, Clear | management API, tunnels |
| Gateway (`internal/gateway`) | nftables table, saved sysctls | Start, Shutdown, Cleanup | kernel |
| tun2socks (`internal/tun2socks`) | child process, routes, status | Start, supervise, teardown, Shutdown | kernel, child |
| Managed configuration (`settingsvc/managed.go`) | `managed.json` | apply, clear, lock | settings, policies |
| Process life cycles (`cmd/webfilter`, `internal/app`, `mobile`) | goroutines, contexts, the Android controller | run, Start, Stop | all of the above |
| Management sessions (`mgmtapi/auth.go`, `middleware.go`) | sessions | login, gates | settings |

What is hard here, and where the properties below aim:

- several views of one file, brought up to date by goroutines that share no
  lock (settings, policies, exclude list);
- a reload between any two reads of one connection's handling: authentication
  is looked at when a SOCKS method is chosen, again when the credentials arrive
  and again per request; a splice is decided from an exclude list and a policy
  published at different moments;
- addons that all run, also after one of them has answered, so that a later
  one may undo an answer, overwrite what is logged, or touch an exempt flow;
- tables at their limit while timeouts, evictions and late goroutines
  remove entries that may already belong to a successor;
- teardown that waits for goroutines that wait on sockets;
- documents whose meaning depends on the schema they were written in, and
  matching whose result depends on lists, schedules and devices that move;
- several processes and goroutines that write, rename and replace files which
  others read (lists, categories, CA, managed documents, an executable), any of
  which may be killed between two of its writes.

What makes each part correct: the live settings belong together and to what
runs, and the last save takes effect; the proxy enforces the directory's
policies and never loses one; the most specific active policy wins; a document
means the same after it was migrated; nothing a policy blocks is reached and
nothing goes upstream for a client that should have authenticated; exempt
flows are untouched and the log says what happened; filters, DNS verdicts and
censoring do what lists, resolvers and languages say; an ICAP transaction is
judged once; the UDP table, its sockets and its goroutines agree, answers go to
the client, and it ends; an engine serves the lists on disk; leaves are signed
by the CA clients have installed; whatever fails, the host's routing and
firewall are given back; a managed document is applied in full or applied again;
nobody changes anything but on grounds; the executable that runs is whole.

## 2. Modules

| Module | Models | Proofs |
|---|---|---|
| `Follower` | abstract: what follows a file | |
| `SettingsReload` (implements `Follower`) | `settings.json` and its four in-memory views | `SettingsReload_proofs` |
| `PolicyStore` | the policies directory and its reloads | `Stores_proofs` |
| `AdblockStore`, `CategoryStore` | the two list directories and what is read from them | `Stores_proofs` |
| `UdpRelay` | one SOCKS5 UDP association | `UdpRelay_proofs` |
| `Flow` | the pipeline as operators on a flow record | `Connection_proofs` |
| `Connection` (extends `Flow`) | connections of every mode under reloads | `Connection_proofs` |
| `HostSetup` | gateway, capture routing and tun2socks of successive processes on one host | `HostSetup_proofs` |
| `PolicyMatch` | which policy a request gets; schedules; the neighbour cache | `PolicyMatch_proofs` |
| `Documents` | what stored sections mean, schema by schema | `Standalone_proofs` |
| `AdblockGlob`, `AdblockRules` | how one filter is matched; what a set of them does | `Filters_proofs` |
| `TextCensor` | which words of a page are masked | `Filters_proofs` |
| `Filters` | composes the three | `Filters_proofs` |
| `DohCache` | the DNS filter's verdicts and their cache | `Standalone_proofs` |
| `Icap` | one ICAP connection | `Standalone_proofs` |
| `Device` | the Android app: provisioning, life cycle, managed documents, edits | `Standalone_proofs` |
| `Certs` | the CA's files and who signs with it | `Standalone_proofs` |
| `Sessions` | the management API's gates, sessions and password | `Standalone_proofs` |
| `TunBinary` | the download and use of the tun2socks executable | `Standalone_proofs` |
| `Standalone` | composes the seven modules from `Documents` down that are proved about in `Standalone_proofs` | |
| `MC...` | the instances TLC checks | |

`MCStores`, `Filters` and `Standalone` put several modules that share no state into one
specification: `which` (in `Filters`, `matcher`) chooses a module at the start, only its variables move, the
others are parked at one value. A property of theirs speaks of its own module, so
a run checks each module as a run of its own would, and a theorem is about each
module's whole specification. `MCRules` adds to `Standalone` `Filters` and `PolicyMatch`, the
constants of the instances, and for the run alone the reductions `MatchNext`, `CensorReduced`, `DeviceReduced`, `CertsReduced`,
`DoorStart` and `DoorReduced`, which the proofs do without.

Definitions named `Bug...` are defects a plausible change could bring in: each
stands before the definition it would replace, and the property it is listed
with in `PROJECT.json` notices it.

### SettingsReload

`disk`, `cache`, `live`, `catDir`, `adCfg` are the file, `Server.settings`,
`Runtime.settings`, the category store's base directory and the adblock
store's configuration. A field's value is the number of the save that last set
it, so a document shows which saves it contains; four fields stand for the four
ways the code consumes one (read per request, pushed when changed, pushed
always, bound at start). A PUT handler is five steps (`BeginPut` merges over
the cache; `CreateTemp`; `RenameIntoPlace`; `StoreCache`; then
`ApplyRead`/`ApplyStore`/`ApplyCategories`/`ApplyAdblock` when the hook is
installed). The watch loop receives events, debounces and reloads; a process
may die at any step, in one process also with PUTs in any state, and an editor may
leave the file unparsable for a while. The file is never missing: no part of the program removes it (were an
editor to move it away, a reload would take the defaults, `config/store.go:71`).

Two parameters state assumptions about time. `Prompt`: no handler takes longer than the debounce
interval (300 ms) from its rename to its end, otherwise the watcher may be overtaken by the hook of the same
save. As every event starts the timer anew, it fires beside a handler that has renamed only while a later event still
waits. `QuietStart`: nobody saves between the load at start and the registration of the watch, so a
proxy in a process of its own restarts only while the other process is not in the middle of a PUT (section 6 says
what happens otherwise).

`FollowsFile` says what the proxy's side amounts to: with `history` the documents the
file has held and `seen` the hot fields in effect, `SettingsReload` is a `Follower`. It
adopts documents the file has held, moves only to later ones, and gets to
the newest again and again. That this is so needs the order of `ReloadSettings` (one
goroutine, after the events of all it has not read), not only that each reload
reads something valid.

### PolicyStore

`files` is the directory; a policy is the number of the operation that created
it and of the one that wrote it last. `BeginCreate`/`BeginUpdate` are the
existence checks, `WriteFile` the temp-and-rename, `RemoveOld` the second half
of a rename, `Delete` a removal. A reloader (`"watch"`, `"bridge"`) lists the
directory, reads file after file in name order, gives up if one vanished, and
then publishes `policies` and `bypass` in two steps. The bridge serialises its
own calls (`calls`), as `ctl.mu` does.

### UdpRelay

One association: `pc` is its loop's step, `sessions`/`older` the table with the
order `lastUsed` induces, `sock`/`peer`/`reader` the destination sockets and
their goroutines, `dns` the resolutions in flight (at most `MaxDNS`). Each
critical section under `a.mu` is a step; dialling, closing evicted sockets and
sending happen outside, as in the code. The idle timeout may strike whenever
the loop or a reader blocks in a read.

### Flow and Connection

`Flow` is the pipeline: each addon an operator from flow to flow, in the order
of `BuildProxyEngine`. A policy is what it makes of each host; what depends
on lists, resolvers, classifiers or page content is a verdict chosen freely,
after the addon's own guards. In the record, `edited` is a rewrite the request
log shows and `trimmed` one it does not (hidden ads, stripped comments, Alt-Svc).

`Connection` is the engine: `Accept` picks mode and client, the handshakes lead
to a tunnel decision (`Capture`, `DoTGate`, `CheckBypass`, `HostGate`, the
splices) or to the request loop (`ReadRequest`, `AuthGate`, `Challenge`,
`Filter`, `ForwardWebSocket`, `Fetch`, `Respond`). Every read of the runtime is
a step of its own, and `ApplySettings`, `StorePolicies`, `StoreBypass` may come
between any two. `since[c]` is a history variable: the settings, policies and
exclude lists that were in force at some time since the connection or
request began. It is what can fairly be asked of a proxy that reloads: a
contact must be permitted by something that was in force meanwhile.

All clients of an instance have the same policy; other clients' policies appear
only through the exclude list, which the code shares among all clients
(`foreign`).

### HostSetup

`sysctl`, `table` and `rules` are the host and outlive the process: the two or
three sysctls, the process whose port the nftables table redirects to, and how
often each piece of the capture routing (device, default route, bypass routes,
egress rule, capture rule; on Windows route and DNS servers) is installed. One
external command is one step. `pc` walks `runEngineWithTun` and what it calls:
`gateway.Manager.Start` and `Shutdown`, `Supervisor.Start`, `teardown`,
`Shutdown`, `Serve`, and the deferred calls in their order (`deferred`). `sup` is
the goroutine of `supervise`, `child` the tun2socks process, `mgmt` the other half
of `run`. `Signal` cancels the context at any step, every command may fail (with or without having
taken effect), `Crash` ends the process at any step, and
`AfterProcess` is either the unit's `ExecStopPost` or nothing. `found` is a
history variable: the host as the process found it.

Simplified: cleanup commands and teardown succeed on what is there (they are best effort and nobody
looks at their result), except for DNS servers of a Windows adapter that is
gone; the child of a killed process is not followed further, what it routes is part of
the host; `rt.Start` and the closing of logs touch no host state.

### AdblockStore and CategoryStore

Both follow files that change under their readers by looking at modification
times at intervals. `AdblockStore` is one combination of lists: `Look`, `Stat` (list by
list), `Want`, `Wake`, `Need` are `Store.Engine`; `Compile`/`Compiled` the
background build, filed under the times seen before it; `StartRound` to `Refresh`
the loop of `Run` with its one-slot wake channel; `Install`,
`Delete`, `Configure` change what is there. `CategoryStore` splits a lookup into
its two stats, the open and the store of the entry, against a download
(remove, rename, index under `indexMu`), a deletion, and the tarball update,
which is another process and does not know the mutex. A rename needs a free place, so of two downloads of one
category one may find the other's list there and fail (`InTheWay`). `EntriesKept` excuses what the
tarball's index, written without the lock, does not list, and the one locked cycle which that overtakes.

### PolicyMatch and Documents

`MatchPolicy` is the code's four tiers as one operator; `RightPolicy` compares
it with a ranking written from the comment on the function, at every minute of a
week and for every address. Beside it a clock, devices that move between addresses,
and the neighbour cache with its refresh and fallbacks.

`Documents` decodes, migrates and encodes the sections that have had more than one
schema (URL categories, safe search, listeners), the windows of schedules, and the remaining keys one by
one, by what becomes of a missing, null, blank or meaningless value. A document is
written in any schema, loaded, saved and edited in turns; `Meaning` reads it by the
documentation, `Enforced` is what the decoded value makes the addons do.

### AdblockGlob, AdblockRules, TextCensor, DohCache

`AdblockGlob` is the matcher of one pattern step by step (offsets, the loop with
its one point to resume from) and the token it is indexed under, against the
set of positions a match may end at. `AdblockRules` is what is made of
parsed lines: the indexes and their order, exceptions, `$important`, page-level
exemptions, cosmetic rules, and the addon that asks. `TextCensor` is
the tokenizer by script, the longest match at each place behind the one before (by tokens for phrases,
by characters for entries of scripts without spaces), the mask, and the tag stack of a page with its
languages. Of the words that overlap, the first is masked: so the property asks that every occurrence begin in
one that is masked whole, but for its spaces and punctuation. `DohCache` is two lookups per request, their classification and a
cache that concurrent requests for one host fill without a lock around the lookup.
Flow takes the verdicts of all four as free choices, so what holds there holds
for whatever these decide.

### Icap

One connection: a client proxy (`Send`, `Continues`, `Receive`, `Hangup`) and the
server's loop, with `txn` as the handler's state between preview and body. `wire` is
what has been sent and not read: heads, chunks and zero chunks, so that a
server that lost its place would read a chunk as a head. A chunk is a slice `(from, to]` of
the body, so what the handler has collected is the body only if the slices follow
one another from its first byte. A client sends a body with REQMOD and RESPMOD only;
what happens otherwise is in section 6.

### Device, Certs, Sessions, TunBinary

`Device` is package `mobile`: every exported function provisions first
(`Stat` to `BootstrapRuntimeFiles`), `Start`/`Stop` hold `ctl.mu`, `ApplyManagedConfig`
reads, merges, validates and then writes settings, policy and `managed.json` one
by one, and an edit checks the lock some time before it writes. The bridge's edits
ask for `ctl.mu`, those of a serving API do not. One `app` and one `edit` stand for all
callers, and what an edit reads, merges and writes is one step (`SettingsReload` and `PolicyStore` have them apart). `Crash` ends
the process between any two steps; `halfway`, `overtaken` and `disturbed` are
history variables for the windows named in section 6.

`Certs` has a process with both parts or one each: `ReadCert`, `ReadKey`,
`WriteCert`, `WriteKey` are `LoadOrCreateCA`, `Upload` to `Clear` an import, `Issue`
and `Cache` the proxy's leaf issuer, which signs outside its lock. Nothing keeps imports apart: each of
`Importers` is a request of its own, their writes and swaps come in any order, and either write may fail
(`ImportFails`). History variables say who may be behind: `outdated`, whom
somebody else has replaced a file that they read or wrote; `imported` and `mixed`, that an import,
or one that met another, happened in the life of the proxy or the management server; `spoilt`, that the pair was torn by a
kill, a failed write or a second writer, was replaced under a reader, or has expired. `RootSound` says: if not `spoilt`,
no restart makes another root; whoever is up and not `outdated` signs with the pair on disk, whatever befell it
earlier; if not `spoilt`, only the proxy after an import, and the management server during an import or after
two that overlapped, are `outdated`; and no leaf outlives its issuer.

`Sessions` reads settings, web UI switch and lock once per gate, as the
middleware does; a token is what it was made from. A PUT is read, merge and save.
`let`, `barred`, `shown` and `free` of a request record what was true at some moment since it
came, the most that can be asked of gates that read one after the other.

`TunBinary` is `Download` (lock, staging directory, size and checksum checks,
extraction, the two renames) by two callers of one process and one of another,
with kills, and a running file that cannot be replaced.

## 3. What the runs check

| Run | Instance | Shows |
|---|---|---|
| `settings_colocated` | `webfilter run`: two concurrent PUTs, watcher, one crash in any state of both, 2 saves, 2 kinds of page, no manual edits | the snapshot is never torn, startup-bound fields stay frozen, an idle process has applied the file, and saved hot fields take effect for good |
| `settings_split` | two processes, one handler, a manual edit that leaves the file unparsable, one crash of either, 2 saves | the proxy implements `Follower`; the category store follows and cache = file; no lost update while nobody edits by hand |
| `settings_categories` (violation) | `settings_colocated` without crashes | two overlapping ApplySettings leave the category store at the older directory |
| `udp_relay` | 3 source addresses (one a stranger), 3 destinations, table of 2, 4 sockets, 1 resolution | table, sockets and readers agree, answers go to the pinned client, and whatever happens it ends with nothing left running |
| `udp_socket_leak` (violation) | 1 source, 2 destinations, table of 1 | an expired reader's socket is never closed |
| `connection_policies` | one connection, all modes, 4 hosts, 4 policies, foreign excludes, 2 reloads, 1 request | nothing blocked is reached, splices only of excluded hosts, verdicts kept to the end of the pipeline, one row per request |
| `connection_auth` | one connection, all modes, 2 passwords, authentication off, on and unset, 1 reload, 2 requests | nobody is remembered or served upstream without grounds; everything a client sends is answered |
| `host_setup` | Linux or Windows, 2 sysctls, 2 processes one after the other, a crash, cancellation or failure at any step of each | no stacked rules, capture never without its exceptions nor with an unmarked engine, what is served is in force, a process that ends has given the host back, and it ends |
| `stores` | policies: 3 names, 3 operations, through the API beside the watch loop or through the bridge; ad-block: 1 list, 2 directories, one download, deletion or switch; categories: 2, of which 1 used, 2 directories, 2 threads that download or delete at once and the tarball, 2 lists staged | policies in force exist and none is lost; what passes for current is; nothing is waited for in vain; index entries survive; in the end what is on disk is in force |
| `rules` | the instances in `MCRules`, one module at a time | the ten statements at the end of `MCRules`: right policy, meaning kept, filters and censoring as written, transactions, devices, roots, DNS verdicts, sessions and the installed executable sound |
| `icap_uploads` (violation) | one upload of 2 to 5 bytes under a limit of 3 | a rewritten upload over the limit is handed back cut off |
| `certs_import` (violation) | one bundle | management HTTPS keeps the replaced CA until a restart |

Why the bounds are enough. Connections share nothing but `authedConns`, keyed
by connection, and the snapshots, so one connection under reloads shows what
any number does; the proofs confirm it for any number. Two handlers are the
least that overlap, and a third adds no new pair of steps. Two saves
give a writer to lose and one that overwrites it. Three UDP destinations exceed a table of
two, and four sockets allow an eviction and a successor for the same
destination while the evicted reader is still ending. Three policy operations allow a
create, a rename and a rename back or delete around a reload. The four policies differ in every field the code tests
(`MCConnection`). Two processes give `HostSetup` one that leaves a
mess of any kind and one that starts on it, and two sysctls a restore that is half done. `udp_relay` lets the client's second port only open sessions (`Second`): which destinations it picks makes no difference.
A deletion and a change of directory each end what a compilation was made for, so
one of them per behaviour is enough for one list. The inputs of
`MCRules` are enumerated to exceed each limit by one: addresses of 2 bits with
prefixes of every length, weeks of 3 days of 3 minutes with windows over midnight
and over the end of the week, patterns of up to 4 characters against URLs of up to 5,
three filter lines of ten kinds, pages of 3 nodes, bodies of 0 to 4 bytes under a limit
of 3, answers that live shorter and longer than the limits, two CAs generated beside those uploaded by
two imports at once, one new password and one flip of switch and lock under a request, three installers
of four assets. `MatchNext`, `CensorReduced`, `DeviceReduced`, `CertsReduced`, `DoorReduced`, `AdblockNext`, `LookupsNext` and
`IndexNext` leave out combinations of what does not meet, as commented at each; `InTurn`, in
`settings_colocated`, those where the two handlers have merely changed names, and a
crash before the first PUT, which leaves a process that has just started. Every bound is a named constant in a guard; the proofs need
none of them.

Deadlock is checked except in the settings runs, where the bounded writers stop
and everything has been applied, and in `rules` and its two violation runs, where a match, a page or a
document comes to an end: nothing is left to do. The other modules
have an explicit `Terminated` stutter or clients that may always close.

Fairness is weak and only on what the code's own goroutines do: a goroutine
that can take its next step takes it, timers fire, queued file system events are
delivered, and external calls the code bounds with a timeout (dial, DNS,
fetch) end. Nobody has to send a request, save a setting or change a policy,
no socket has to become idle, no list has to be downloaded; an editor that truncated the file finishes. Strong fairness is asked of two things only: a compilation of a list and a lookup of a category,
which other events may interrupt again and again, and which are retried at
every request. In
`HostSetup` the child need not die nor supervision end: `Stops` holds because
`Shutdown` stops waiting after `teardownTimeout`.

## 4. What is proved

For any sets of handlers, writers, connections, hosts, policies, destinations,
and any bounds:

- `SettingsReload_proofs`: `TypeOK`, `LiveMatchesRunning`, `SnapshotIsOneDocument`,
  together `SnapshotSound`; and `FollowsFileSafely`: in the split deployment every step
  is a step of `Follower` or leaves its variables alone, so what is in effect is
  something the file has held and never steps back.
  The invariant is that every document held anywhere (file, a goroutine's
  `next`) is one the file has held or is about to hold, and that every goroutine's `old` agrees with
  what runs in the startup-bound field. `MergeHot` then takes its hot fields
  from one held document and the rest from one that agrees with `boot`. The
  properties alone are not inductive: a stale `old` could bring in anything.
  `QuietMeansApplied`, under the instance's own `Prompt` and `QuietStart`, needs to know
  for every unapplied save what brings it in: an event that waits, the timer, a reload
  that still reads, or an editor that has not closed the file (`QInv`: `Catching`,
  `LateNoticed`). `NoLostUpdate` and `CachesFollow` hold with at most one PUT at a time
  (`OnePut`; `CachesFollow` in the split deployment): between PUTs cache and file agree
  (`FileCached`), so what a PUT merges over is the file (`WInv`). With two PUTs both fail,
  as section 6 and `settings_categories` say.
- `Stores_proofs`, about `PolicyStore` alone: `TypeOK`, and with the watch loop as only
  reloader (`Bridge = {}`) `QuietMeansCurrent` and `BypassOfLoadedPolicies`, for any number
  of writers: `UpToDate` says what a reload under way has already got right as long as no
  change is pending. Without `Bridge = {}` that is false in general (two overlapping
  reloads, section 6). About the deployments of `MCStores`, where the bridge is used by
  one writer, who waits for its own reload (`OneWriter`): `QuietMeansCurrent`,
  `BypassBelongs` and `NeverUnloaded`, the last because the first policy is always in the
  directory, in what a reload has read or is still to read, and in what is in force (`Kept`).
  About the lists: `NothingStale` and `EntriesKept`. An ad-block engine filed under a
  time holds the file's content as long as the file has that time, since times only
  grow and are noted before the compilation reads (`NotedTimes`, `CompiledAfter`,
  `OneDirectory`). A category's time belongs to one list and is never put in place
  twice (`TimesUnique`, `CacheBelongs`, `LookupsBelong`); the index is written by whoever
  read it under the mutex (`IndexHeld`), but for the tarball.
- `UdpRelay_proofs`: `TypeOK`, `TableCapped`, `RegisteredIsServed`,
  `NoStrayReader` (together `TableSound`), `AnswersOnlyToClient`, `NothingRunsAfterDone`. The
  strengthening adds what is pending outside the table (`ToCloseInv`), what
  close has already done (`ClosingInv`), where `clientAddr` has gone
  (`ClientInv`). `TableCapped` needs a counting argument of its own (`CapInv`: below the cap
  whenever the loop is about to insert).
- `Connection_proofs`: `TypeOK`, `AuthReleased`, `AuthedOnGrounds`,
  `UpstreamAuthenticated`, `BlockedNeverReached`, `SplicedOnlyIfExcluded`,
  `ExemptUntouched` and `OkMeansUnedited` (together `VerdictsKept`), `OneRowPerRequest`, and
  `OnlyAuthenticated`, which joins the first of them. Every operator of the pipeline
  keeps a flow `Sound` (an exempt flow untouched, "ok" means unedited, one to be forwarded
  without a block row), for any policy and any verdict. The invariant is a
  statement about one connection at a time: what is in force now is in
  `since`; a connection past its handshake carries the grounds on which it
  got there, although settings may have changed meanwhile; a request past a
  filter carries the reason it may be forwarded. A step of another connection
  changes none of it, and a reload only adds to `since`.
- `HostSetup_proofs`: `TypeOK`, `NoStackedRules`, `CaptureNeverBare`,
  `CaptureIsMarked` (together `CaptureSound`), `ServingMeansInForce`, `GivenBack`. What a process leaves
  behind depends on how far a list of commands has got, so `RoutingInv` says for
  each list which pieces are gone (`Cleared(n)`) or there once (`Installed(n)`,
  `Absent(n)`) before its n-th command: pre-cleaning ends with no rule for
  `ip rule add` to double, and a teardown, joined by the supervision goroutine's
  or not, ends with nothing left. `GatewayInv` says that what the saver holds is
  what the process found; `StepInv` and `SuperviseInv` tie `launched`, the mark
  and the supervision goroutine to the step of `runEngineWithTun`.

- `PolicyMatch_proofs`: `PolicySound`. Schedule windows, with their turn over midnight and
  the end of the week, are minutes counted round the week; the tiers of
  `MatchPolicy` return the best-ranked policy (`RightPolicyHolds`), for any pool, since each tier looks only
  when the ones before found nothing. A row of the cached table was true when it was read, and
  the entry's age bounds the time since (`MatchInv`).
- `Filters_proofs`: `FiltersApplied`, for any lists, patterns and URLs. About the lists: a rule that fits stands in
  a bucket that is visited (`FitsInBucket`), so the first found exists and is one that fits
  (`FoundIsWhatFits`), an important one if there is any (`FindFinds`); neither the order of the lines nor that
  of the buckets is left in the verdict. About the loop: a match is a sequence of places where each character of the
  pattern ends (`Way`), and where the characters up to the next `*` fit first leaves
  most to what follows (`Segment`). So one place to resume from is enough: as long as the URL can still match, the
  current attempt or a later offset can (`Alive`, `Trying`), and only offsets where the literal start occurs
  need trying (`OffsetsEnough`). The positions the property computes (`Reach`) are those that such
  sequences end at (`MatchesFromStart`). The token of a rule is cut from a run that nothing can extend where the
  rule matches, so it is a token of the URL (`TokenIndexed`). Induction over a pattern goes by
  the least position at which a claim fails, which exists since the natural numbers are well ordered (`Least`).
  The third matcher: `CensoredAsWritten`, for any page, word lists and languages. A recursion along a
  sequence computes the one function that its steps determine (`Recursion`, `Upward`). So tokens come in the
  order of the text (`TokensIncrease`), the longest entries found one behind the other cover every place where
  an entry begins (`LongestCovers`), and what is masked are occurrences that between them hold the beginnings of all
  (`FindFacts`, `MaskFacts`). About pages: each element on the stack was opened by one of the nodes that are
  open, in their order (`Opening`), so what the innermost one says is what they all come to (`InnermostFits`);
  a start tag adds the node it was read from, an end tag closes the last element of its name and those in it
  (`StartPushes`, `EndPops`), and what holds of earlier nodes looks only at nodes before them (`EarlierKept`).
- `Standalone_proofs`, one part for each of seven modules:
  - `InstallSound`: whoever has passed the lock is alone with the staging
    directory (`Passed`), what is checked is not touched again before it is installed, and the
    record is written for what was installed (`Recorded`).
  - `RootSound`, for any number of imports at once: who has had nothing replaced behind its back holds
    what is on disk (`PartsHold`, `ImportsHold`), since every write makes all others outdated; while
    nothing was spoilt, one actor at most is between its two writes, nobody is while another reads, and otherwise
    there is no pair yet or a usable one (`Paired`), so a start that finds one makes none; an import that finds itself
    outdated has met another (`Behind`); leaves in the cache were issued by the CA in memory (`Chained`).
  - `VerdictOnGrounds`: every cache entry that is fresh is covered by something the resolver said
    and that may be kept at least as long; the shortest of an answer's lifetimes
    exists because the natural numbers are well ordered.
  - `SessionSound`: each request carries what was true at some moment since it came, and its step says
    which of these it has read (`Noted`, `Cleared`, `Saving`); sessions are signed over the stored hash, and salts
    never repeat (`TokensUnique`, `Salted`, `Signed`, `Newest`), so replacing a password ends them.
  - `TransactionSound`: at each of the handler's steps (`AtHead`, `AtBody`, `AtPreview`,
    `AtModify`) the slices on the wire follow on from what has been collected, and what the client waits for is
    on its way.
  - `DeviceSound`: for each step of provisioning, start, stop, applying a document and editing, what it
    has found, planned, written and unlocked so far (`Found`, `Seeded`, `Planned`, `Written`, `Unlocked`), with the
    windows of section 6 as the only exceptions.
  - `MeaningKept`: what the program writes is a document of the current schema that means what is
    in force; decoding gives, for every document that may stand in the file,
    what the documentation says it means, and reading back what was written
    changes nothing.

All of this rests on the named `ASSUME`s, which TLC evaluates in the runs. They say of what
kind the constants are, that placeholders for what is missing differ from everything that can be
there, and of inputs what their producers guarantee: a message without a body has no
bytes (`IcapAssumption`), no document asks for the policy that filters nothing
(`DeviceAssumption`), nothing a document may say is a placeholder
(`DocumentsAssumption`), and the asterisk and nothing, which masked characters become, are no
letters, marks, digits or symbols (`TextsAssumption`). `PowersOfTwo` is arithmetic for which the provers have no
axioms. The hypotheses of theorems (`Prompt`, `QuietStart`, `OnePut`, `CoLocated = FALSE`,
`Bridge = {}`) are those of the runs of the same properties.

Only model-checked:

- liveness, which rests on fairness and `ENABLED`: `EventuallyApplied`, `CatchesUp`, `TornDown`,
  `AnswersEventually`, `Stops`, `InstalledIsUsed`, and the liveness of `FollowsFile`.

## 5. Findings

The four violation runs, each with the documented claim it contradicts, are
under "findings" in `PROJECT.json`.

- `settings_categories`: two overlapping `ApplySettings` leave the category store at
  a directory the settings no longer name, for good (`state.go:147`).
- `udp_socket_leak`: the socket of a reader that expired is dropped from the table and never closed
  (`socks5_udp.go:426`).
- `icap_uploads`: an upload over `max_body_bytes` whose request was rewritten, which
  is every browser's by default, goes on truncated (`proxy/icap.go:150`).
- `certs_import`: after an import, management HTTPS keeps presenting leaves of the CA
  that was replaced, until a restart (`app/engine.go:246`).

## 6. Known deviations outside the runs

Further statements of a comment or the documentation that the code does not
meet, found while modelling. Those with a definition keep it at the end of their module; to see the
counterexample, name it alone in a configuration derived from the run given.

With a definition:

- `NoDrift` with two handlers (`settings_colocated`): `SaveSettings` writes the
  file and then the cache, and two PUTs may do so in opposite orders
  (`mgmtapi/server.go:159`; :24 promises they never drift). With two handlers `NoLostUpdate` and `CachesFollow`
  fail as well (a PUT merges over a cache that lacks the other's save); the run checks all of them with one, where they hold.
- `PendingIsReported` (one handler, 2 saves): `restart_required` compares with
  the document saved last, not with what runs, so the PUT after a PUT of
  `mgmt_port` answers `[]` (`routes_settings.go:47`).
- `EventuallyApplied` with `QuietStart = FALSE`: a save between `Runtime.New` and
  `Runtime.Start` is not noticed (`state.go:183`).
- `NoPolicyOverwritten` (`stores`, two writers): two creates or renames to one name replace a
  policy silently. `QuietMeansCurrent` with both a handler and the bridge: two
  overlapping reloads leave the older policies in force (`state.go:204`).
- `DeletedIsForgotten` (`stores`): an engine whose only list is deleted stays in use.
- `SwappedAtomically`, `IndexTellsInstalled` (`stores`): a category that is replaced is gone
  for a moment (`categories/download.go:97`; :41 says atomically), and may be
  installed but not in the index.
- `EveryRequestLogged`: a WebSocket upgrade leaves the loop before the response
  phase and has no request row (`handler.go:358`). `TunnelAuthenticated`: transparent
  mode reaches `handleTunnel` without a gate (`transparent.go:61`).
- `BlockedRowSaysBlocked` (`connection_policies`): SafeSearch does not look at
  the response, so it rewrites a request a filter has blocked and logs it as
  "modified" (`safesearch.go:315`; `flow.go:53` calls it the final decision).
- `RestartRecovers` (`host_setup`): on Windows a restarted tun2socks creates a new
  adapter, and only the first launch is followed by `configurePlatform`
  (`supervisor.go:164`; :90 says a failure "recovers without user action").
- `DnsGivenBack`: on Windows cancellation kills the child before teardown runs,
  the adapter is gone, and the command that would reset its DNS servers fails
  (`platform_windows.go:94`; :85 names the dead resolver as what it must not leave).
- `CancelledFirst`: when `Serve` fails, `Supervisor.Shutdown` runs under a live
  context, waits its full 10 s and tears down beside a child that runs
  (`runners.go:173`; `supervisor.go:187` says callers must cancel first).
- `RedirectIsServed`: `Serve` closes the listeners before the deferred
  `gw.Shutdown` deletes the redirect (`runners.go:140`; `app/engine.go:121` says
  the rules never name a port nothing is serving).

Without one, by component:

- Relay and connections: an association's idle deadline only counts the client's
  datagrams, so one that only receives is torn down after 60 s
  (`socks5_udp.go:178`; :25 says "no traffic"); a splice waits for both directions, so a
  half-closed peer that never closes keeps its goroutine (`handler.go:292`).
- Life cycles: `ServeMgmt` returns as soon as `httpSrv.Shutdown` is
  called, so nothing waits for requests in flight (`app/engine.go:184`). After a crash the saved
  sysctl values are gone, and the next start takes the changed ones for the
  original (`gateway.go:232`).
- Ad-block: `Delete` writes `index.json` after releasing `indexMu` (`adblock/store.go:363`); a
  directory switched away and back during a compilation gives an engine of mixed lines;
  a skipped `@@` line blocks what it would have let through (`parse.go` says a skipped rule can only
  let an ad through); cosmetic exceptions and domain exclusions are keyed by the selector
  alone, so one rule's exclusion also keeps another rule's element visible.
- Matching: a policy with only `source_macs`, or only sources that do not parse, is
  a catch-all as well; the exclude list includes inactive policies' sites; the simulator
  knows neither ad-block nor user agent rules and reads policies from disk.
- Censoring is not idempotent; a text threshold of `null` means 0.
- ICAP: a message handed back unmodified after its preview is the preview only; OPTIONS or an
  unknown method with a body loses the framing; ISTag is stamped when the reply is
  written and only moves with ReloadPolicies; a connection keeps the configuration it was accepted with.
- Managed devices: an edit that had passed the lock check overwrites managed values, and the
  hash short-circuit never applies them again; nor does it when a document was cut
  short and the manager then goes back to the recorded one; two first
  provisionings may leave the plain default policy or overwrite managed settings; `category_actions: null`
  keeps the stored `categories`; a failed `Start` does not close the tunnel's descriptor.
- Certificates: `ImportBundle` "atomically replaces" two files one by one; a kill between them, a second write that
  fails, a part that starts meanwhile or an overlapping import leaves a pair that does not match, and the
  next start silently makes another root. Of two imports that overlap, the later pair may be whole on disk while `s.CA`,
  what management offers for download, stays the earlier one's until a restart (`routes_certs.go:70`, `mixed`). An
  expired CA is accepted and replaced at the next start. `leaf.go:84` and `runners.go:49` say an import takes effect without a
  restart, but the proxy's issuer keeps the CA it was built with.
- DNS: when one of the two lookups fails, an unblocked verdict of the other is cached in
  full; a lookup that fails late overwrites a block; records that live for 0 s do not bound.
- Sessions: "invalidating all sessions automatically" (`auth.go:24`) is undone by a PUT that had
  read the settings before the password was saved and is saved after. `/metrics` with cookie and bearer
  may be refused although one of them was valid at every moment.
- tun2socks download: `downloadMu` is the process's, although its comment names the API button
  and the command line; their renames may cross, and the record then names another
  executable, as it does after a kill between the renames or where a running file cannot be
  replaced. An executable over the cap is cut silently (`download.go:260`), and its archive's own checksum, which is
  compared at the end, is then not looked at: without a published one it may be garbled as well. A
  killed process leaves its staging directory.
- Logs: the engine is called the sole writer, though the management server's store prunes as well.

## 7. Not modelled, and why

- Pure data: lexing of lists, DNS and ICAP messages, HTML and YouTube's JSON,
  image networks and the Bayes score, certificate encoding, the text of firewall rules. Where
  a decision comes out of it, the model chooses freely.
- The log store: single SQL statements that SQLite's transactions order, and
  queries. What is logged, and how often, is in `Flow` and `Connection`.
- The validation of a PUT beyond what decoding does, the policy simulator, and routes that only read.
- The Windows service's control loop, Android's packet pump, the listeners of ICAP: they wrap what
  `HostSetup`, `Device` and `Icap` model in calls of the system.
- Metrics, the tray, the Android screens, build scripts, statics: no state that
  anything reads back.
- Upstream dialling and `SO_ORIGINAL_DST`: one external step that may fail.

`PROJECT.json` lists each component with its status.

## 8. Plan

Built, in the order of what goes wrong most quietly: `SettingsReload`, `PolicyStore`, `UdpRelay`,
`Flow`, `Connection`, `HostSetup`, then `AdblockStore`, `CategoryStore`, `PolicyMatch`, `Documents`, the
matchers, `Icap`, `Device`, `Certs`, `DohCache`, `Sessions`, `TunBinary`. What would come next:

1. `PolicyMatch` composed with `Connection`, in place of the policy in force, and `DohCache`
   in place of its free verdict; their theorems carry over to the instances.
2. `PolicyStore` as a second `Follower`, and a "captured or given back" machine refined by `HostSetup`.
