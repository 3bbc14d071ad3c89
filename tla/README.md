# proxy-z in TLA+

proxy-z is a proxy in two programs. A **server** (`main.go`, `servercontroll/`,
`connections/`) keeps *tunnels*, listening sockets that speak tls, kcp or quic, and
hands them out through an HTTPS API. A **client** (`cmds/z-client`, `deploy/`,
`clientcontroll/`) asks that API for a tunnel, keeps a pool of sessions to it and
serves SOCKS5 to local programs. This directory models the parts of both that have
state worth arguing about, checks the models with TLC on small instances, and proves
every invariant the passing runs check, and two refinements, with TLAPS for all instances.

## Inventory

| component | state | operations | hard part | correct when |
|---|---|---|---|---|
| tunnel registry, `servercontroll/proxy_release.go`, `all_servers.go` | `Tunnels`, `ErrTypeCount`, `lastUse`, `lock`, `GLOCK`; per tunnel `On`, `ZeroToDel` | proxy-get, proxy-err, proxy-new, proxy-del, \_\_close-all, z11-update; `AddProxy`, `DelProxy`, `GetProxy` | every handler is a goroutine, two locks guard the same list, a server goroutine's deferred function deletes its tunnel | no tunnel twice, no update lost, a tunnel handed out is started, a deleted one stops |
| transports, `connections/pro{tls,kcp,quic}` | listener, `ZeroToDel` | bind, accept loop, `TryClose` | closing flag read between connections; bind failures | as above |
| stream server, `connections/base/proxytunnel.go`, `prosmux`, `proquic` | `alive`, `cons`, wait group, streams and dialled connections | `AccpetStream`, `accpeStream`, `HandleConnAsync`, `TcpNormal`, `Pipe` | two goroutines per stream that end in any order, lost sessions | nothing left open, nothing closed early, counters exact |
| relay of bytes, `controll.go:607-705`, `base.go:25-67`, `quic_base.go` | what each copier holds, what each hop buffers, deadlines | `Pipe`, `Copy`, `copyBuffer` on both sides, `QuicConn.Close` | either direction closes both connections under the other | a receiver reads what was sent, in order, to the end, or there was a reason |
| SOCKS5 framing, `connections/prosocks5/socks5.go` | bytes read | handshake, local request, server request, confirmation | messages split anywhere, lengths at their limit | the server finds host and port of what was asked |
| client session pool, `clientcontroll/controll.go` | `SmuxClients`, `nowconf`, `lastUse`, `lock`, `ErrCount`, `AliveCount` | `InitializationTunnels`, `RebuildSmux`, `GetSession`, `ChangeProxyType`, `ReportErrorProxy` | forty goroutines fill a slice nobody locks, requests rebuild it meanwhile | sessions kept or closed, requests answered |
| client route, `controll.go`, `deploy/httpcontroll.go` | `globalClient.ClientConf`, `Addr`, `nowconf`, `closeFlag`, `closed`, the listener | switch, change, check; `ChangeRoute`, `GetAviableProxy`, `Socks5Listen` | a goroutine polls flags two others write, no lock; answers are entered late | one loop at a time, the flags mean what the pollers take them for, the server used is the one switched to |
| route list, `deploy/httpcontroll.go`, `deploy/dev_server.go` | `globalClient.Routes`, the directory `repot-sync-tmp` | login, connect, `GitGetAccount`, `SyncToGit`, `TestRoutes`, the ten-minute timer | one directory for all, a list sorted in place, a slow test that overwrites a newer list | the list is that of the last login, sorted; a sync stores its list |
| self-update and deployment, `update/update.go`, `main.go`, `servercontroll/server.go`, `deploy/dev_server.go` | `/tmp/repo_update`, the processes, port 55443 | z11-update, `Update`, `Daemon`, `main`, `HTTP3Server`, `DepOneHost` | updates and deployments share directories and end each other's processes | the machine keeps a server, and it is the new one |
| upload and logs, `server_upload.go`, `all_servers.go:31-32, 137-164`, `base.go:16-20`, `update.go:78-105` | files, `/tmp/z.log` and each process's offset in it | upload, download, z-log, c-log, `ErrToFile`, `Daemon` | errors that are dropped; copy and truncate are two steps, two kinds of writers, each new daemon truncates | what was stored with success is whole, a download is one upload; by what a line can be lost |
| the rest | - | address parsing, HTTP clients, VPS listing, certificates, command lines | input and output | not modelled (below) |

How they interact: the client's pool and listener call the server's API (an answer or
none); the API's handlers work on the registry and start server goroutines; a server
goroutine hands each connection to the stream server, which reads a request in the
SOCKS5 framing and relays bytes with the client's `Pipe`; the client's page posts login,
switch and change to the client's own API. The hazards of each part, with the line where
each bites and the properties aimed at it, are listed in `PROJECT.json`.

## Modules

Every module has the name of a part, comes with an `MC` module that names the instance's
values, and with a `_proofs` module (the abstract `Registry` and `Stream` are proved about in
`TunnelRegistry_proofs` and `Relay_proofs`; `RouteList` and
`ServerFiles`, the two that are about shared files, share `SharedFiles_proofs`, which is why
the second calls its specification `FilesSpec`). `pc[p]` is the step goroutine `p` is
about to take; a step touches the unguarded shared state once, so that what the code
leaves to the scheduler interleaves in the model. Operators commented *(Mutant: ...)* are
plausible wrong forms of the operator after them; they are used only to confirm that a
property notices.

**TunnelRegistry** (server). Request `h` is a process, the tunnel it makes is named `h`,
the server goroutine it starts is `ServerOf(h)`. Kept: the round-robin with its unlocked
reads, `AddProxy`'s append under `lock`, `DelProxy`'s scan, store and tally under
`GLOCK`, the second start of a tunnel, ports and firewall, the accept loop whose
`break` only leaves the `select`, the deferred deletion, and panics inside a critical
section (the handler is recovered by net/http, the lock is not released). Abstracted:
the pointer, length and capacity of the slice change as one value; a `DelProxy`'s two
statements under `GLOCK` are one step. `CloseAll` also stands for the deletion with
which z11-update begins.

**Registry** is what the list of tunnels promises the API while its updates do not overlap:
`RMake`, `RAdd`, `RGive` and `RDelete` each happen at one moment, and `RDelete` counts the tunnel in
the tally that picks the next transport. After `ROverlap` it promises nothing.

**StreamServer** (server). Sessions and streams, over a tunnel that is tls or kcp (with smux)
or quic; `AcceptStream`/`AcceptFails`/`CloseMux` are the accepting goroutine, `Request`,
`Count`, `Dial`, `Confirm`, `Down`, `Shut`, `Join`, `Uncount`, `Release` the handler, `Up...` its second
goroutine. Clients open, end and lose, remotes end. The two closes with which a direction
ends are one step, a section under the tunnel's lock is one step, and what a client will
ask is drawn when it opens its stream. quic has neither wait group nor a multiplexer to
close. A remote always takes what is written to it here: one that does not is a matter of
bytes, which Relay studies.

**Stream** and **Relay**. `Stream` is the promise to a program and a remote host: in each
direction what was sent is read in order, without gaps, until an end for which there is a
reason. `Relay` is how the code keeps it: `Pipe` in the client and in the server, a copier
for each direction in both, three hops each way (tcp, the multiplexed stream, tcp) that
hold `Capacity` chunks. `Read`, `Write` and `Shut` are the loop of `copyBuffer` and the two closes
after it; a read can bring the last chunk together with the end; `Expire` is the
thirty-minute deadline, once for the answer (`controll.go:359`) and for each read of what
the program sends; `WriteWaits` is quic, whose `Close` ends only the sending half, so that a
waiting `Write` is never woken; `Reset` is what tcp does with a closed end that had input
unread. Chunks are numbers: what matters of a byte here is its place.

**SessionPool** (client). Worker `i` fills slot `i`, requests draw sessions. `append` is a load
and a store, because other goroutines store in between; what `AppendStore` leaves depends
on whether the slices share memory, so it has both outcomes. A session the network lost
is found out by smux's keep-alive, never by quic. `before[q]` is the list that change `q`
found; each change has its own, because another that empties the list meanwhile would
otherwise decide what the first has to have closed. One change fills the pool at a time;
the instance that does not study the filling starts from a filled pool (`InitFilled`, both
shapes of it that filling in either order leaves).

**SocksRequest** (client and server). Bytes are counted: a message is its type and length, the
network delivers it in pieces, and each `ReadAtLeast`/`ReadFull` is the step it completes.

**ClientRoute** (client). A request of the page is a process, the `ClientControl` it makes
bears its name, and so does the `Socks5Listen` its goroutine runs. `Switch`, `New`, `Start` are the
handler's three uses of the global; `ChangeRoute` and `Poll` the waiting goroutine; `Listen`,
`CheckErr`, `Report`, `CheckFlag`, `Accept` the loop. Go closes a listener nobody refers to when it
collects it (`Finalize`), at any time or never. An address is a host with or without a port and
a scheme, as it was posted: the page posts neither, and only `NewClientControll` adds them.
Who finds no configuration posts to the address of the moment (`Ask`), and what is answered
(`Answers`: `GetAviableProxy` needs the port, `ReportErrorProxy` the scheme too) is entered
whatever was entered meanwhile (`Answer`, `Report`).

**RouteList** (client). A list is named by the request that fetched it. `RemoveDir`, `BeginClone`,
`EndClone`, `Read`, `Leave` are `GitGetAccount`, `WriteFile`, `Commit`, `Push` what `SyncToGit` does after its
clone, all on one directory that names who cloned it; `Store` puts the list on the page and
`Tick`, `TestOne`, `BeginSort`, `EndSort` are `TestRoutes`, run by the timer and by each login. What
a sort leaves is nondeterministic where the code races: any order when another test
changes what it compares, any routes when two sorts swap entries of one list.

**SelfUpdate** (server). Updates are goroutines of a process and share the clone `pz`; a new process
bears the name of its update or deployment. `Wake` happens after the update that started
the process has slept: the code waits three seconds for the one and seven for the other.
A deployment is the shell script of `DepOneHost`, `Tools`, `Kill`, `Fetch`, `Make`, `Run`, `Clean`, at any
step of the updates: a script goes on after a command that failed.

**ServerFiles** (server). A file is known by the upload that made it and has two pieces; `Fill`
writes one, `FallShort` is an error of `ReadAll` or `Write`, after which the handler goes on, and
`Rename` gives the file its name, or fails. The log is a sequence of line numbers; `ErrToFile`
appends, `Daemon` truncates the log and opens it for the process it starts, `PrintLine` writes at
the offset of that descriptor, over a line or past a hole. `Defer`, `CopyLog`, `BreakOff` and
`EmptyLog` are c-log: the emptying is deferred before the log is opened, so it follows a failed
open and a broken copy too. z-log copies in the same way and changes nothing; it is left out.

## Runs

Every bound is a constant of the module; deadlock is not checked, because requests are
bounded and several of these programs may end or lose their lock, as the code does.
Distinct states in brackets.

| run | instance | what it shows |
|---|---|---|
| `registry` (49 thousand) | 2 requests at a time, 2 ports, 2 socket failures, fairness | lock owner, no duplicates, exact list without overlap, list and tally implement `Registry`, tunnels handed out are started and `On` has a goroutine behind it, ports of listed tunnels open; requests and deferred functions finish, or the process, the lock or the ports are gone |
| `registry_stop` | 2 requests, clients keep connecting | *violated*: a deleted tunnel never stops (below) |
| `streams` (474 thousand) | 1 session over smux or quic, 2 streams, fairness | the multiplexer is closed after its handlers, no remote is left, what stays open, exact counter, confirmation first; a lost session drains |
| `relay` (538 thousand) | smux or quic, hops of 1 chunk, 2 chunks, fairness | the four copiers implement `Stream`; an answer is heard to its end; the copiers end |
| `pool` (3.6 million) | filled pool of 2, 2 requests, 1 change, tls and quic | where the lock stays, when slots are nil, why the process may panic, old sessions end closed after a change |
| `pool_fill` (287 thousand) | 2 workers, 2 requests of 1 try, tls, fairness | no session lost, at least half the pool, every request answered |
| `socks` (21 thousand) | 4 types of request, names of 0 to 255 bytes | the port is found, names of up to 250 bytes are served |
| `socks_all` | the same | *violated*: names of 251 to 255 bytes and IPv6 requests are never confirmed (below) |
| `route` (647 thousand) | 3 requests, 2 hosts, one posted bare, one with its port, with or without a scheme | `closed` is true to its readers, at most one connection more, when the process ends |
| `routes` (3.9 million) | 2 logins or connects, a sync, the timer, 2 routes | the page's list is the last one fetched unless a test overtook it; its order; a login that meets nobody is served; a sync that reports its push stored its list |
| `update` (5 thousand) | 2 updates, 1 deployment, fairness | when the machine is left without a server, what the new process runs, that it serves |
| `files` (1.6 million) | 3 uploads and 2 downloads of a name, or 3 lines, 2 c-log requests and 2 daemons | a download is all that one upload stored and of no other; by what a line of the log can be lost |

`OneAtATime` constrains the last run: uploaded files and the log share nothing, so a behaviour
works on the one or the other. Two more configurations are kept as reproductions, each a
property that fails (below): `MCClientRouteSwitch.cfg` (`ShownIsUsed`) and
`MCServerFilesShort.cfg` (`StoredWhole`).

Why these are enough: each hazard needs two actors and one shared thing - two requests
and one list, two streams and one session, two copiers and one connection, two workers
and one slice, two switches and one loop, two clones and one directory, an update and a
deployment on one machine - and a third actor where something has to happen in between
(a third switch that finds a listener left by the first, a change between two switches, a
third upload stored while a first is read, a deployment between two updates). A hop of one
chunk is full as soon as it holds anything, so both the empty and the full buffer occur; a
second chunk is what can be lost behind, swapped with or doubled after the first. The limits
of the code that only change when something happens, not what (40 sessions, 3 tries, 7
errors), are small here.
`SocksRequest` keeps the code's own limits, and the lengths around each of them. Sessions
share only the counter `alive`, which has no part in what a handler does: one is enough.
For the invariants listed under *Proofs* the bounds are lifted anyway.

Fairness: weak fairness of goroutines, since Go's scheduler runs what can run and its
mutexes do not starve a waiter; dials and commands end, sleeps expire. Nothing is
assumed of clients, remotes and local programs - none has to send, read or end, and
deadlines need not pass - except in `registry_stop`, whose question is about clients that
keep connecting, and in `SocksRequest`, where what was sent arrives. So `Ends` excuses an
application that does not read what waits for it, and `Drains` speaks of lost sessions only: a
client that opens a stream and says nothing keeps its handler. `ClientRoute` states no
liveness: a switch waits for a connection that may never come.

## Refinement

`TunnelRegistry!Atomic` is `Registry!RSpec` with `listed <- Listed`, `gone <- deleted`, `handed <- given`,
`overlapped <- Clash` (two updates between their read and their write, or one stored while
another was) and `tally <- Settled`. The code writes the tally before the list, in two critical
sections, so the mapping takes a count back that is written while its list is not
(`CountedEarly`): the deletion happens when `DelStore` installs the list. Everything else `DelProxy`
does is a stutter, as is the deletion of a tunnel that is not listed. Its content is that a
copy of the list is never stale and a count never doubled, unless two updates overlap, and that a
tunnel once deleted does not come back.

`Relay!Implements` is `Stream!SSpec` with `cut <- (lost \/ expired)` and the other variables
mapped to themselves: the chunks in the hops and in the copiers' hands are what the
abstract stream hides, a copier's steps are stutters, the applications' steps are the
stream's. Its content is in `SGet` (the chunk read is the next one of those sent) and in
`STell` (an end has a reason).

## Proofs

All theorems are about the module's `Spec`, from its `Init` (the pool's from an empty list:
that `InitFilled` is a start of its own concerns only the `pool` run), for every value of the
constants that satisfies the module's assumption (`RegistryAssumption`, `StreamAssumption`,
`RelayAssumption`, `PoolAssumption`, `RequestAssumption`, `RouteAssumption`, `UpdateAssumption`,
`RouteListAssumption`, `ServerFilesAssumption`). These say that bounds are numbers, that names of different things
are different, and, where the code counts, that sets are finite; nothing else. Each proof
module defines an inductive invariant, shows one step per action and under it one per
conjunct the action disturbs, and draws the properties from it. TLC found each inductive
invariant true of the runs' instances before it was proved.

- **TunnelRegistry_proofs**: `TypeOK`, `NoDuplicate`, `LockOwner`, `ExactWhenSerial`, `Atomic`, `OnHasServer`,
  `ListedPortOpen`, `GivenStarted`, and `TallyExact`, which says between updates what `Atomic` says at
  every moment and is not a property of a run. `TypeOK` is not inductive: `Head(todo[p])` is a
  tunnel only where `todo[p]` is not empty, and a list stays without duplicates only because the tunnel being added was never
  in it. `IInv` adds which control points each kind of process can be at (`PcInv`), what a
  handler holds in its hands there (`HandInv`), what a deletion still has to do (`WorkInv`), which
  tunnel a server goroutine serves (`ServeInv`), that a tunnel is made and added once (`OnceInv`,
  `AddedInv`), and that the list and every copy of it in flight have no duplicates (`ListsInv`: a
  stale copy can be stored later). `SerialInv` says what every copy in flight holds as long as
  nothing overlapped. `TallyInv` follows a tunnel through its deletion: a goroutine alone there writes the tally it read plus one, and until the shorter
  list is stored the tally is one ahead of what is deleted. `PortInv` says that a port that is shut
  behind a tunnel still listed is another tunnel's too, or `DelProxy` is at work on the tunnel;
  it needs no condition on overlaps. `AtomicCorrect` needs `SerialInv` and `TallyInv`, and that two
  updates that met stay recorded (`ClashStays`). What was given is started because what is on has
  a server.
- **Relay_proofs**: `Implementation` (every step of the relay is a step of the stream or a stutter),
  `EndsForReason`, `AnswerArrives`. The invariant counts back from the receiver: as far as nobody closed and
  every copier still moves, a hop holds the chunks that follow those past it (`Ordered`); behind
  a copier that stopped, a chunk can have been lost, but never overtaken (`Numbered`), and
  stopping has a reason (`Caused`). That is why an order of the whole chain would not be
  inductive: it holds only from the receiver up to the first break. `AnswerArrives` needs
  more: nothing of the answer is missing on its way (`Flow`: what was got, is held and is buffered
  adds up to what was sent) and its end stays behind it (`EndFollows`: the server's copier of the
  answer stops first, with nothing left to read, then the client's, and only then the two
  copiers of the request), as long as nothing is disturbed. `Undisturbed` names what could: the
  session, a deadline, the program's own end, and the two closes that find part of the request
  unread and reset the connection. What was disturbed stays so, which makes this inductive.
- **StreamServer_proofs**: `TypeOK`, `ClosedIsQuiet`, `AliveExact`, `NoRemoteLeft`, `LeftOpen`,
  `ConfirmFirst`. The wait group and `alive` are cardinalities of the sets of handlers at certain
  steps (`Waiting`, `AliveExact`), from which it follows that neither falls below zero; `Handled`
  says what is open at each step of a handler, its second goroutine running or not.
- **SessionPool_proofs**: `TypeOK`, `LockHeld`, `NilIsLocked`, `NoneLost`, `HalfFull`, `PanicOnly`,
  `ChangeClosesOld`. As long as
  no append overlapped another update (`raced`), a nil slot and a lock that is taken are the same
  thing (`Locked`), an append finds the list its goroutine saw (`Grows`), and the workers that
  returned without reaching their slot are at most as many as the sessions appended
  (`Enough`), whence half the pool. For a change (`ChangeInv`), the sessions in goroutines' hands are
  all different and none is in a list or an old list (`Distinct`), and each session of the list a
  change found is closed or still in the slot where a worker of that change has yet to come
  (`OldLeft`); this holds for any number of changes under way at once.
- **SocksRequest_proofs**: `TypeOK`, `PortFound`, for every length a byte can say and every split; `Sizes` is the arithmetic of the two sides' offsets.
- **ClientRoute_proofs**: `TypeOK`, `ClosedTruth`, `OneMore`, `EndsOnly`, whatever addresses are posted. At
  most one request listens, and a loop that runs is that one's (`Alone`); who posts or serves has
  a control, and that an address (`Owned`); a control has a configuration unless a change took it
  away (`Configured`).
- **SelfUpdate_proofs**: `LostOnly`, `OwnBuild`. Unless two overlapped, at most one update or deployment
  is at work, and the clone it builds is its own (`Alone`).
- **SharedFiles_proofs**, of `RouteList`: `LastLogin`, `FastestFirst`, `LoginServed`, `SyncStored`. Who met
  nobody in the directory is alone in it and the clone there is its own, ready from the step
  at which it is used (`Alone`, `HasClone`); from this a login knows what it read and a sync what it
  committed (`Served`, `Synced`). A list whose tests never overlapped has one tester at a time and
  was never torn by two sorts (`Apart`), so its last sort saw what the tests found; only stored
  lists are tested, and a test sorts when it has nothing left to do (`Tested`). The timer tests the
  last list or the last came meanwhile (`Shows`). `RouteListAssumption` also says that the value
  for "no directory" is not a directory.
- **SharedFiles_proofs**, of `ServerFiles`: `DownloadOne`, `LogLost`. A name belongs to a stored upload, whose file
  holds the first pieces of that upload and no other's, and changes no more (`Stored`, `Sending`);
  a line that is not in the log was printed over, truncated, or emptied by a c-log that had
  reached it by then, broke off before, or began before the line (`Logged`, `Copying`).

Only model-checked: the liveness properties (`Finishes`, `Drains`, `Ends`, `Answered`, `NamesServed`,
`HandsOver`), because the prover does not handle fairness.

## Findings

- `protls/tlsserver.go:76` (and kcp, quic): `break` inside `select` does not leave the loop, so a
  deleted tunnel that still has clients listens for ever, although `prosmux/smux.go:195-197`
  shows what the flag is for. Run `registry_stop`.
- `prosocks5/socks5.go:277`: the end of the host is computed in a byte and wraps for names of
  251 to 255 bytes, so that the slice panics and ends the client, although lines 442-444, to
  which line 246 refers, count names of 255 bytes. Run `socks_all` ends in this panic.
- `prosocks5/socks5.go:488`: the server expects `idIP0+lenIPv6` bytes of an IPv6 request, but
  `lenIPv6` counts the header already (line 439). The client waits for a confirmation, the
  server for four bytes. Run `socks_all` fails for this too: with line 277 mended (`HostEnd`
  without the modulus) its counterexample is an IPv6 request, and with both mended it passes.

Reproduced outside the runs:

- `clientcontroll/controll.go:185`: after a switch `GetAviableProxy` still returns the
  configuration of the server before, which `ChangeRoute` leaves in place, while check (and the
  page, `route.html:300`) reports the new host as running: `MCClientRouteSwitch.cfg`, two
  switches. (Should a change of type empty `nowconf` afterwards, the new host is asked at port
  443, because only `NewClientControll` adds the API's port.)
- `servercontroll/server_upload.go:68`: an error of `ReadAll` is printed and the result of `Write`
  dropped, and what there is is renamed and answered with `Successfully Uploaded File`:
  `MCServerFilesShort.cfg`.

Facts the passing runs state rather than refute: appends of the pool can lose a session, and
a quic redial that fails keeps the lock (`NoneLost`, `LockHeld`); overlapping updates, a log file that cannot be created,
or a deployment whose build fails can leave a machine without a server (`LostOnly`); the
page's list can go back to an earlier login's (`LastLogin`); a login can fail because
another removed its clone (`LoginServed`); an application that ends only what it sends can
lose the rest of its answer, and a download of more than thirty minutes is cut
(`WholeAnswer`); a quic copier whose stream is not read any more stays for ever (`Ends`);
lines of the log can be overwritten by what a process prints, truncated by a new daemon, or
lost to a c-log that broke off or that they were written behind (`LogLost`).

## Not modelled

- What kcp, tls, quic and smux do inside: external, modelled by what they give the code.
  Dialling (`prokcp`, `protls`, `quic_base.go`) succeeds or fails in SessionPool.
- Texts of addresses, links and configurations (`base_config*.go`), the HTTP clients of the
  API (an answer or none), certificates and pages, command lines, the hosting API's listing and
  the operator's prompt: input and output without state of their own.
- What nothing calls: the UDP association and Shadowsocks requests (`socks5.go:104-226,
  304-420, 580-652`), `ParseUDPSocks5`, `ChangePort`, `SetOutFile` and `CloseWriter`, the HTTPS and HTTP3
  upload and download clients, `GetConfig` of `dev_server.go`, the copy of `Daemon` in `fake.go`;
  and quic's `AcceptConn`, which is counted but never read.
- The registry as the thing the pool asks: the pool takes an answer or none, whatever the
  registry's state. Nothing the pool's properties say depends on which tunnel it is given.
