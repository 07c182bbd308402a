# A TLA+ model of netresolve

netresolve resolves host and service names without blocking its caller. This
directory holds TLA+ specifications of its parts, configurations with which TLC
checks them on small instances, and proofs that TLAPS checks for all instances.
`PROJECT.json` lists components, runs, mutants, hazards and theorems, and maps
every definition to the lines of C it stands for.

    tlc -config query.cfg MCQuery        # one run; the others likewise, see "Runs"
    tlapm QueryProofs.tla                # the proofs of a module, up to twenty minutes

## 1. The system

| Part | Source | State | Operations |
|---|---|---|---|
| query | `lib/query.c` | state, position in the backend list, three timers, response | issue, set_state, timers, dispatch, free |
| backend API | `lib/backend.c` | response; one state object per backend and context | add a path or a name, report, new_priv |
| service list | `lib/service.c` | the services file | search by name, number, port, protocol |
| event interface | `lib/event.c` | watches per query and context | add, remove, dispatch |
| epoll loop, select loop | `lib/epoll.c`, `lib/select.c` | watches, the batch of events | wait, dispatch, add, remove |
| connect | `lib/socket.c` | a socket per path, two timers | connect, next, free, three handlers |
| listen, accept | `lib/socket.c` | a descriptor and a watch per path | listen, accept, free, two handlers |
| DNS backend | `backends/dns.c` | lookups under way, SRV targets, flags | three request types, callbacks, cleanup |
| immediate backends | `backends/{unix,any,loopback,numerichost,hosts,hostname,libc,nss}.c` | none | a setup function per request type |
| waiting backends | `backends/exec.c`, `backends/asyncns.c` | a child, a libasyncns lookup | setup, handler, cleanup |
| asyncns layer | `compat/asyncns.c` | a linked list of queries | issue, wait, next, collect, cancel |
| calls of the C library | `lib/compat.c`, `compat/libc.c`, `compat/nsswitch.c` | two static results | getaddrinfo, getnameinfo, gethostby..., the NSS functions |
| context | `lib/context.c` | list of backends | new, set_backend_string, free |
| the rest | `lib/string.c`, `include/netresolve-{glib,epoll,...}.h`, `tools/` | none | formatting, adapters, output |

How they interact: `netresolve_query` walks the backend list. A backend's setup
function answers at once, or adds watches and returns. The event loop
dispatches a watch to `netresolve_query_dispatch`, the backend's handler adds
paths and reports, and the query goes on to the next backend or calls the
application back. Timers are watches of timer descriptors. Connect, listen,
asyncns and the calls of the C library are clients of the query.

What is hard about it:

- `set_state` calls itself, through setup functions and callbacks, and the
  application may issue, free and ask for more from inside a callback;
- the state object of a backend is one per context, shared by all its queries;
- three timers and a late answer race; the handlers assert what they expect;
- a loop holds events of watches that its callbacks remove, whose memory or
  descriptor number is then used again; loops nest;
- the DNS backend counts lookups that finish, fail and multiply in any order;
- a response is put together by several backends, and its security flag, its
  order and what a call makes of it depend on which of them said what;
- the kernel gives a descriptor number that was closed to the next file, and
  the number may still be on record with somebody else;
- results are laid out in a buffer of the caller whose size is just given.

## 2. Modules

| Module | Models | Size of the model |
|---|---|---|
| `Query` | `lib/query.c`, the state objects of `lib/backend.c`, `lib/context.c` | any queries and backends |
| `QueryProofs` | theorems about `Query` | |
| `IsolationProofs` | what a step of one query does to the others, and how often the callback is called | |
| `Response` | `lib/backend.c`: paths and names; `lib/service.c` | any requests, addresses, services |
| `Backends` | the eight immediate backends, as sequences of calls on `Response` | any files, interfaces, NSS modules |
| `Lookup` | `lib/compat.c`, `compat/libc.c`, `compat/nsswitch.c` over a chain of `Backends` | any chain |
| `Results` | what the calls of `Lookup` return, and its layout in a buffer of the caller | any names and sizes |
| `ResponseLookupProofs` | theorems about `Response` and `Lookup` | |
| `Watches` | abstract: what `lib/event.c` expects of any loop | |
| `EpollLoop` | `lib/epoll.c`; implements `Watches` | any watches, batches, depth |
| `EpollProofs` | theorems about `EpollLoop`, the refinement included | |
| `SelectLoop` | `lib/select.c` | any descriptors |
| `Connect` | `lib/socket.c`: connect | any number of paths |
| `Listen` | `lib/socket.c`: listen and accept; joins them with `Connect` | any number of paths and descriptors |
| `ConnectProofs`, `ListenProofs` | theorems about `Connect` and `Listen` | |
| `Dns` | `backends/dns.c` on libunbound, c-ares and avahi | one query, any number of SRV records |
| `DnsProofs` | theorems about `Dns` | |
| `Asyncns` | `compat/asyncns.c` | any nodes |
| `SelectAsyncnsProofs` | theorems about `SelectLoop` and about `Asyncns` | |
| `MCQuery`, `MCConnect`, `MCResponse`, `MCLookup` | values of the constants for TLC | |

**Query.** A handler runs to its end before the next one starts, so one action
is one handler with everything it calls. Handlers are operators on a *world*
(all variables in one record), composed the way the C functions call each
other: `dispatch_delayed` is `set_state_DONE` followed by `after_dispatch`.
`set_state(SETUP)` is recursive in C through failing backends; the model says
where the recursion ends (`Landing`) and what the visited backends leave behind
(`SetupWorld`). A *plan* gives the outcome of each setup function and is chosen
anew in each step. `fault` records a failed assertion or a use of freed memory,
after which nothing happens.

`netresolve_timeout_add` says whether a timer that is created runs: a timer
descriptor set to zero would not, and `delayed` is set to zero (event.c:125
turns that into one nanosecond). That a timer is created when it is asked for
is an assumption, here and in `Connect`: event.c:127-133 returns NULL when
`timerfd_create` or `timerfd_settime` fails, and no caller looks at that.

The context is a variable of the same module, as freeing it frees the queries:
`netresolve_context_free` is the one call that is split, into one `Free` per
query and `netresolve_context_free_end`; nothing but `Free` happens in between.
A query whose options are refused is created and freed in one step.

**Response.** `netresolve_backend_add_path` computes the paths of one address
(`Services`, `Expansion`), `netresolve_backend_apply_addrinfo` and
`netresolve_backend_apply_addrtuple` those of several, and `add_path` inserts
them one by one. The services file is a constant, a sequence of lines. Two
histories say what was added: `arrived` has the paths in the order of their
arrival, and `order` the place in `arrived` of each path of the list.
`request.sort` is NETRESOLVE_SORT_RESULTS, without which `path_cmp` prefers no
path to another.

**Backends, Lookup.** An immediate backend is the sequence of calls that its
setup function makes on the library (`AddPath`, `SetSecure`, `Finish`, ...); where
it depends on the system (interfaces, what libc or an NSS module says), a set
of such sequences, from which `set_state_SETUP` takes one. `Lookup` extends
`Backends` and `Response`: a call of the C library issues a query in blocking
mode, each backend of `config.chain` in turn makes its calls, one per step, on
the response that `Response` keeps, and `Return` converts the response. Of the
query's states only those remain that a blocking call can tell apart; `Query`
has them all. A backend "remote" stands for those that ask servers and may do
anything of `Remote`. `Results` adds what is said about the results, and their
layout: buffers are lists of parts with offset and size, in the sizes of a
64-bit machine. `getaddrinfo` of the C library (`addrinfo`) gives each address
once for each protocol that the hints allow, and the backends on it add every
one with its socket type, protocol and port 0. A line of the hosts file carries
where a seam of two pieces of the file cuts it (`seam`), whether it fits into the
buffer (`fits`), and the entries that `read_item` may make at the seam of a buffer
that has no end of its own (`torn`): a name that was cut, or names of earlier
lines that are still there. `HostsLists` has all the lists that can be read.

**EpollLoop.** The variable `frames` is the stack of nested calls of
`dispatch_events`; `events` is the one batch they share. An address can be
allocated again (`gen` counts), which is how a stale event would show.

**SelectLoop.** `batch` is the local copy of the sets on which
`netresolve_select_wait` works, with the watch that each event was reported for;
callbacks add and remove any watches, and `stale` has the events of those that
were removed. A failed assertion stops the model (`assertion`).

**Connect.** `enable_sockets`, `connect_start`, `pickup_connected_socket` and
the callback call each other; the only thing that survives a call is the loop
of `enable_sockets`, which is a frame on `stack`. The result of `connect()` is
nondeterministic. A mode says whether paths are tried in sequence, whether there
are datagram sockets, whether the paths are local ones (for which
`connect_start` gets no address, and returns), and whether a mandatory backend
makes `connect_prepare` run again.

**Listen.** `owner` says who has opened each descriptor: the kernel hands out
the lowest free number, to paths, to accepted connections, and to the
application (`Elsewhere`). `fd` is the number the path has on record, which may
be somebody else's; closing goes by number. `SocketNext` runs either the query
of netresolve_connect (`Connect`) or that of netresolve_listen.

**Dns.** The library takes control in `dispatch`, calls back any number of
times, and returns. `watching` has the watches of the descriptors that c-ares asks
for (`ares_fds`: a UDP socket, or a TCP one to read and to write while it
connects). An answer is reduced to its kind, its two security flags
and the number of records that match.

**Asyncns.** The doubly linked list is modelled with its links; `issued` is the
queue it ought to be. A function that goes through the list visits node after
node (`visited`) until it is back at the head. `MaxNodes` bounds the number of
outstanding queries.

## 3. Runs

| Run | Distinct states | Shows |
|---|---|---|
| `query` | 9050 | two overlapping queries, three backends, refused queries, backends loaded anew, the context freed at any time: timers fit states, no query is stranded, state objects are owned, finished queries are quiet, callbacks are counted, results are stable, queries are isolated, every query finishes, a freed context leaves nothing |
| `query_callback_frees` | violation | a callback that frees its query |
| `query_simultaneous` | violation | two queries at one stateful backend |
| `response` | 1802577 | the paths are a stable sort of those that were added, a call adds none twice, ports fit protocols |
| `lookup` | 1396973 | two calls in a row over three chains: local names stay local, a call returns what its own query found, results fit buffers to the byte |
| `epoll_loop` | 127048 | implements `Watches`, no stale event, every ready watch served |
| `select_loop` | 54210 | `nfds` is tight, an event is delivered to its watch if and only if that is still there |
| `connect` | 53156 | connect: order, preference, timers, assertions, one callback, service in sequential mode; listen: every bound socket accepts, all are released, no descriptor of others is closed |
| `connect_unserved` | violation | the connection timer beats the priority timer |
| `dns` | 13797 | the count is right, success is complete, secure means all, c-ares waits for nothing only if it refused the name |
| `dns_partial_answer` | violation | failure reported with paths in place |
| `asyncns` | 2714 | the list is the queue, oldest first, nothing lost or left |

**Bounds, and why they are enough.**
`query`: the handlers of one query touch another one only through a state
object, so two queries show every interference; three backends allow one
before, at and behind the mandatory one. Timeouts only matter as positive or
not (`QueryProofs` shows that a timer runs whatever its time).
`epoll_loop`: three watches exceed a batch of two; one address is used
twice; a nested loop is one level deep. `select_loop`: three descriptors
give a gap below the highest one, each number is used twice;
`SelectAsyncnsProofs` covers the other sizes.
`connect`: five paths, two of either family and one more behind them, as two
SRV targets give them, so that loops of `enable_sockets` nest and come back to
paths that others have attempted meanwhile; three further requests; three listening paths and six descriptors, of which
one is the standard input, so that paths, accepted connections and files of
the application compete for five. Datagram sockets occur in sequential mode
only (see section 5). `dns`: two SRV targets, hence up to four lookups at once
after the first. `response`: three calls with up to three paths each, or the
six of a `getaddrinfo` result; a services file with an alias, two protocols on
two ports, a name that starts with a digit, a line without a known protocol, a
line that is too long, with sorting and without. `lookup`:
two calls, so that the second meets the static results of the first; the
default chain with two servers behind it, hosts, libc and a mandatory nss, and
hosts and libc without sorting;
names of every kind that a backend tells apart; lines of the hosts file with a
seam in the address, in front of the first name and behind it; servers that
answer, vouch, deny, fail, or vouch and fail after they have added a path. `asyncns`: four nodes, so that an
inner node leaves between two others.

**Deadlock** is checked in `epoll_loop` and `asyncns`. The others model one
query, or a bounded number, that is over at some point.

**Fairness.** `query`: while delayed or request timers are armed, one expires
in the end and is dispatched, as a timer descriptor stays readable and the loop
does not return while there are watches; netresolve_context_free, once called,
runs to its end; nothing is assumed of backends. `epoll_loop`: the loop runs
and callbacks return. `connect` and `connect_unserved`: handlers run to their
end and armed timers expire; nothing is assumed of the network, nor of the
clients and the application in `Listen`.

**Mutants.** Definitions named `X_Something` are variants of `X` with a
plausible mistake. Each property is violated by one of them.

## 4. Proofs

`QueryProofs` proves, for any number of queries and backends and any
configuration, `Spec => []P` for `TypeOK`, `TimersMatchState`, `NeverStranded`,
`StateObjectOwned`, `FinishedIsQuiet` and `ContextReleased`. The only assumption
is `ConstantsAssumption` of `Query`, which says what the constants are.

None of them is inductive alone: that a timer fits its state depends on
`cleanup_query` finding the right state object, which depends on who owns it.
The invariant is `IndInv == Good(World)`: the world is typed, each query
*rests* (its timers and position are those of its state), each state object
belongs to a live, unfinished query at that backend, and only such a query has
watches. (A step that ends in a fault changes nothing but `fault`.) A second
invariant, `Closed`, says that a freed context has no live query; the two
together give `ContextReleased`.
In the middle of a handler the handled query does not rest, so lemmas speak of
worlds that are `Held` for one query: all is well but for it. There are two
lemmas per operator: it keeps worlds typed, and it leads from `Held` to `Good`
unless it ends in a fault. One lemma per action (`IssueKeeps`, `FreeKeeps`,
`DelayedKeeps`, ...) joins them, `NextKeeps` puts these together.

`IsolationProofs` proves the two action properties of `Query`, and
`CallbackOnce`, on top of `IndInv`, again with one lemma per operator and per
action:

- `Stability`, `Spec => ResultStable`, in any configuration. A handler of one
  query *spares* the others (`Spares`): it leaves their state and place alone,
  and finished ones entirely. It may still take a state object, with its
  watches, from a query that waits; that this is never a finished one follows
  from `IndInv`. A turn of a finished query can only be the one that frees it,
  as it has no timer or watch left (`FinishedRests`).
- `Isolated`, `Spec => Isolation`, on the condition `Able`: the backends with a
  state object handle every request type, and the first backend has none. The
  condition is needed, see section 5. The invariant adds `Peace`: a live query
  at a backend with state objects owns the one that is there. So a query cleans
  up what is its own, and one that comes to a backend in use ends in the
  assertion of `netresolve_backend_new_priv`.

- `CalledOnce`, `Spec => []CallbackOnce`, in any configuration. The bound on
  early callbacks is the number of mandatory backends that the query has
  passed, so the proof follows the place of the query: `set_state_DONE` calls
  back and goes on to a mandatory backend that lies further down the list
  (`DoneStep`), and the count of those passed goes up with it (`PassedGrows`).

`EpollProofs` proves two theorems about the epoll loop, from `LoopAssumption`
(what the constants are), for any number of watches, batches of any size and
any depth of nested calls:

- `NeverStale`, `Spec => []NoStaleEvent`;
- `Refinement`, `Spec => ImplementsWatches`: an event of the batch is pending in
  `Watches` as long as it is neither disabled nor behind the loop that is at it.

The invariant `LoopInv` adds to `NoStaleEvent` that a watch is in the batch once
at most (`Once`), that all calls but the innermost are in a callback (`Nested`),
and that what lies behind the innermost one has been dispatched or disabled
(`Fresh`). The last is what makes a nested loop harmless: it overwrites the
batch, but leaves nothing in it that the outer loop would dispatch again.
Removing a watch takes it out of the kernel's list and out of the batch; that a
list from which one entry is taken names the others is proved by giving the
positions (`Without`), not by induction.

`ConnectProofs` and `ListenProofs` are about `SocketSpec`, which runs connect or
listen, and hold for any number of paths of either family, any number of
descriptors, and any number of calls of `netresolve_connect_next`. For connect:

- `AttemptedInOrder`, `[]InOrder`. The order alone is not kept: a loop of
  `enable_sockets` goes on from where it was after the loops below it have
  changed the paths. `OrderInv` adds what each loop on the stack has left behind
  (`FrameFits`): paths that are over, or of a family it has met.
- `TimersAlwaysFit`, `AlwaysTimed`, `CalledOnce`, `[]TimersFit`,
  `[]WaitingIsTimed` (the timer runs while a socket is owed and a path is left,
  unless the paths are local), `[]CallbackOnce` (without mandatory backends), and `Preference`, the action property
  `PreferenceKept`, provided that datagram sockets occur in sequential mode only
  (`Modes \subseteq Orderly`; the condition is needed, see section 5).
  `TimerInv` relates timers, watches and loops: the priority timer runs only
  with the connection timer and with a path that is ready, in sequential mode
  nothing is owed twice and every loop but the innermost is at its end. As
  there are two families, no three paths are under way at a time (`NoThree`).

For listen, without any assumption but what the constants are:

- `ServedEverywhere`, `AllReleased`, `OthersStayOpen`: `[]AcceptsEverywhere`,
  `[]ListenReleased`, `[]OthersKept`. The invariant `ListenInv` says in addition
  that each descriptor of a path is known to that path by its number and that
  watches go by that number. The loops of `listen_callback` and
  `netresolve_listen_free` are followed turn by turn (`OpenInv`, `CloseInv`).

`DnsProofs` proves all four properties of `Dns` in its three builds, for answers
with any number of SRV records: `PendingCounts`, `Complete`, `AllVouched` and
`NeverIdle` (`[]PendingIsOutstanding`, `[]CompleteWhenFinished`,
`[]SecureMeansAll`, `[]AresNeverIdle`). The last follows the first lookups through
setup (`SetupIdle`, `FirstLookups`) and the check at the end of `dispatch`
(`EndIdle`). The count goes
wrong if the same lookup is ever under way twice, so `DnsInv` says which lookups
there can be: they belong to entries of the SRV list, and an SRV lookup is the
only one as long as it is under way. So the lookups of a new entry, and those
of the node name after a failed SRV lookup, are new. While an answer is applied
parts of the invariant do not hold: an answer is noted before the flag is
withdrawn, an entry is in the list before it is looked up. That is why it is
divided into `Sound`, `Counted`, `Followed` and `Vouched`.

**Loops.** The C loops over paths and records are recursive functions in the
models. What the proofs need to know of them is `LoopExists` (there is a
function that satisfies the recursion) and `UpTo` (induction, for a set of
numbers). With the invariant of the loop as such a set, no induction
theorem with an operator as its parameter is needed. Both come from the least
element of a set of natural numbers (`LeastNat`); these few lemmas are repeated
where they are used, as the provers take longer over every step of a module the
more that module extends.

`SelectAsyncnsProofs` proves two theorems about the select loop, from
`SelectAssumption` (what the constants are), whatever callbacks do:

- `Tight`, `Spec => []NfdsIsTight`. The invariant adds the types. The work is in
  remove_watch, which has to find the next lower descriptor over gaps:
  `TopUnique` says what characterises it.
- `Delivery`, `Spec => EventsGoHome`. The invariant adds that an event of the
  batch is stale or that of a watch that is there, waits for the same event and
  is below `nfds`; here `Tight` is needed.

It also proves three about the asyncns layer, from `NodeAssumption`, for any set
of nodes and any number of outstanding queries:

- `AsyncnsQueue`, `AsyncnsOrder` and `AsyncnsOwnership`,
  `AsyncnsSpec => []P` for `ListIsQueue`, `OldestFirst` and `NoOrphans`. The
  invariant `QueueInv` says of each place of `issued` where the two links of its
  node lead (`IsRing`), that a node is there once, that the nodes there are those
  with a query, and that a query that has finished has marked its node. `enqueue` and `dequeue` mend links at the places next
  to the one they change, so only a few places have to be looked at. That going
  through the links gives the whole queue then follows once, by induction over
  the number of nodes visited.

`ResponseLookupProofs` proves four theorems. Three are about `Response`, from
`ResponseAssumption` (what the constants are), for any requests, services
files, addresses and any number of calls:

- `ResponseTypes`, `Spec => []TypeOK`;
- `Agreement`, `Spec => []PathsAgree`: each path that a call adds is of an
  address of that call, and has the socket type, the protocol and the port that
  the backend, the request and the services file give it. What has to be shown
  about the search is that each result of `netresolve_service_list_query` comes
  from an entry that matches or from none at all (`ServicesReach`), whichever
  way it took (by number, by name, by port); `ExpansionStands` and `AddStands`
  carry it through `netresolve_backend_add_path`.
- `StableSort`, `Spec => []StablySorted`: the paths are those that arrived, each
  once, in order, equal ones as they came (all of them, if sorting is off). "Preferred to" is a strict order
  although `path_cmp` is not total, so that inserting before the first path the
  new one is preferred to keeps the list in order (`InsertKeepsOrder`). That
  paths of one kind keep the order of their arrival takes more: `add_path` must
  never stop in front of an equal one (`PlaceFacts`). The inductive invariant
  is in two parts, `Recorded` (`order` says where each path came from) and
  `InOrder`.

One is about `Lookup`, for any chain of backends, hosts file, interfaces, NSS
modules, servers, names and any number of calls: `LocalNames`,
`LookupSpec => []LocalStaysLocal`.

It rests on `LookupInv`, which says that all backends before the one whose turn
it is have failed (`Behind`), and how far that one has come: it has failed, or
what is left of its calls ends in a success (`OwnTurn`). The lemma `Turns` looks
at each of the eight backends: its script either fails at once or ends in a
success. `HostItems` and `Claimed` say that loopback, numerichost and hosts do
not fail for a name that is theirs, whatever `read_item` makes of the seams of the
file. The assumptions are `BackendsAssumption` (what the constants are) and
`ConfigsAssumption`: without mandatory backends, those that ask servers come
last, behind loopback, numerichost and hosts, as in the default string. With
a server in front of them a local name would reach it.

The concatenations of `Response` (over the table of protocols, the services
file and the items of a call) are recursive functions; `ConcatLoop` and
`ConcatAll` say what is in them, by the loop lemmas above.

**Only model-checked:** liveness (`EveryQueryFinishes`, the `Served` of
`EpollLoop`, `ServedInSequence` of `Connect`), which is beyond the prover.
`NoPathTwice` of `Response`, which is true of services files, address lists and
tables without repeated entries; the concatenations would have to be shown to be
injective. `AnswerIsFound` and `BufferExact` of `Results`, which
compare what loops compute (filtering a list, adding up sizes) with a reference
definition, that is, need induction over data.

## 5. Where code and documentation part

Four runs are expected to fail; each quotes what it contradicts in
`PROJECT.json`:

- `query_callback_frees`: `README.md` invites the application to free a query
  in its callback; `netresolve_query_dispatch` (query.c:366) then reads it.
- `query_simultaneous`: two queries of one context that are at the same backend
  with a state object at the same time fail the assertion of
  `netresolve_backend_new_priv` (backend.c:365).
- `connect_unserved`: `connect_timeout` (socket.c:175) clears the priority
  timer, and the ready socket that waited for it is never delivered.
- `dns_partial_answer`: `check` (dns.c:424) reports failure when one lookup
  failed though another one added paths.

Others came up while modelling. They are visible in the models, as values of
`fault` or `crash`, by other values of the constants or as a restriction of a
property, but have no run of their own:

- *Query.* With `Supports` such that a stateful backend does not handle a
  request type, a query of that type calls its cleanup with the state object
  of another query, or with NULL (query.c:75); a query that is refused for its
  options does the same at the first backend (277). With `ResultTimeout = 0`,
  adding the first path finishes the query inside the backend's handler
  (query.c:169). `dns_name` of a DNS query is freed twice (query.c:399). After
  a success, a failing mandatory backend leads on to backends that are not
  mandatory (query.c:210), and the query may end as failed, whereas
  README.md:355 speaks of mandatory ones only. RESOLVED creates an eventfd
  which nothing uses or closes (178). The cleanup of `backends/asyncns.c`
  (49-55) leaves its watch in place, so that the assertion in
  `netresolve_query_free` fails.
- *Context.* `netresolve_set_backend_string` with live queries leaves them with
  pointers into the old list; the model's action requires that there are none.
  The separators are "|" and " ", not the comma and colon of README.md:355.
- *SelectLoop.* A callback that removes another watch whose event is in the
  batch, as those of query.c:70-72, dns.c:499-501 and socket.c:267-269 do, makes
  the assertion at select.c:130 (or 146) fail, or, if the number is used again,
  makes a watch run that has no event. `EventsGoHome` says that nothing else
  goes wrong. So the select loop does not implement `Watches`, as the epoll loop
  does. It accepts one watch for each descriptor (41).
- *Connect.* "The callback is called once, with the first successfully
  connected socket" (socket.c:322) is true in sequential mode
  only (`CallbackOnce`). In parallel mode a loop of `enable_sockets` that has
  delivered a socket by way of a failed attempt goes on (223-236): with paths
  of families 6, 6, 4, 4, 6, when `connect_timeout` gives up the first, the
  attempt of the second fails at once and the third is ready and delivered,
  the loop still attempts the fourth, which may be delivered as well. With datagram
  sockets in parallel mode the callback is called twice right away (226). `netresolve_connect_next` does not deliver a path that
  is ready already (225). Freeing the connection while the name is being
  resolved (378), and a name without paths (313), lead through null pointers. A
  local path gets no socket address (154): it is never attempted, the connection
  timer that was set for it is cleared at once (239), and the request is not
  answered. A mandatory backend makes `connect_prepare` run again, which forgets
  the descriptors of the attempts under way (fault "lost_descriptors"), or
  delivers a socket that nobody asked for.
- *Listen.* A path that could not be bound is closed but keeps its number
  (socket.c:419). The next path gets the same number, and
  `netresolve_listen_free` closes it twice: a descriptor of somebody else, or
  the epoll loop aborts because it is to forget a closed one (epoll.c:55). A
  path that is no internet address keeps number 0, the standard input.
  `OthersKept` therefore leaves out queries with such a path (`mislaid`). A
  connection whose flags cannot be set is neither delivered nor closed (440).
  When the application frees the query in its callback,
  `netresolve_query_dispatch` reads it afterwards (crash "freed_query").
  netresolve_listen takes no callback, so that an application in non-blocking
  mode cannot tell when it may call `netresolve_accept`.
- *Dns.* An error status for the last lookup is not reported on libunbound
  (444-448): only the request timer ends the query. `cleanup` frees the SRV
  entries before `ares_destroy` calls back through them (777-796, fault
  "freed_srv"). A reverse lookup on avahi always fails (738-768). The secure
  flag is set before a verdict of failure (411-431) and stays for the next
  backend, together with the paths. A descriptor that c-ares wants to read and to
  write, as a TCP socket while it connects, gets two watches (486-491), which
  neither loop accepts (fault "watched_twice"); a watch for writing alone would
  not be removed (500). If c-ares refuses the name of the request at once nothing
  checks (913), and the query waits for its own timer.
- *Response.* When the socket type is left open, the service list overrides the
  port of an SRV record (backend.c:294-302). A service name that begins with
  a digit, such as 9pfs, is found only if that number is also its port, as the
  search goes by what `strtol` made of it (service.c:227-231, 244). Reading the services file ends at
  a line longer than the buffer.
- *Backends.* The secure flag is never cleared: paths of a mandatory backend
  behind one that vouched count as secure, whereas README.md:54 speaks of
  "well-known and locally configured data", and so do the paths of a backend
  behind a DNS backend that vouched and failed. There is thus no property of
  the flag of a whole response. `LocalStaysLocal` is about chains without a
  mandatory backend. A backend may finish with no path of the family asked for, and the ones behind
  it are not asked. A line of the hosts file on the seam of two pieces loses
  names and may leave entries for parts of names or for stale text (hosts.c:164), and the file ends at a line longer than the buffer. The reverse lookup
  of `backends/libc.c` passes the length of an IPv4 address for IPv6 too.
  `hostname.c` compares four of the sixteen bytes of an IPv6 loopback address.
- *Lookup.* `gethostbyaddr` for IPv6 falls through to the default case
  (compat.c:305) and returns the result of the previous call. Over the libc
  backend `gethostbyname2` gives each address three times, once for each protocol. `gethostbyname2_r` reads through a
  null pointer if nothing is found (fault "null_hostent"), and
  `netresolve_query_getaddrinfo_done` if a path is a local socket
  ("null_sockaddr"). Queries that find nothing are not freed by the
  gethostbyname calls, nor by getnameinfo if the buffer is too small. Pointers
  and tuples are laid out in buffers without regard to alignment. libc.c:37
  calls getaddrinfo "reentrant, threat safe"; all calls share the static
  default context (query.c:256) without a lock.
- *Asyncns.* `asyncns_getnameinfo_done` has its length comparison the wrong
  way round (not modelled, as it is about data).

## 6. Not modelled, and why

- Contents of names, addresses and packets, formatting, logging: data.
- Failure of memory allocation, except where an operation reports it itself, and
  of the creation of timers (event.c:127-133), which leaves a query without one.
- Threads: the library has no locks, and a context belongs to one thread.
- Parsing the backend string and `dlopen` (`lib/context.c`): the list of
  backends is a constant of `Query` and `Lookup`.
- `backends/exec.c`, with the line protocol in `lib/backend.c` (432-485):
  README.md:407-418 calls it "untested and maybe not even functional". Its
  handlers do not keep invariants that one could state: `dispatch_input` frees
  its watch and leaves the pointer, which cleanup frees again; a full buffer
  without a line end aborts; and the rest of a buffer is moved by the length of
  the line that precedes it (exec.c:189).
- `backends/asyncns.c`: a single lookup with one watch; see section 5.
- `query_dns` of `backends/libc.c`, `res_query` and `res_search` pass one answer on.
- Service names and flags of getnameinfo, TTL, priority and weight: fields that
  are copied.
- `lib/string.c` and the tools: text output and options around single calls.
- The glib and libevent connectors: adapters to other loops; `Watches` says
  what they have to provide.
- Nested calls of `netresolve_select_wait`; those of the epoll loop are modelled.

## 7. Plan

Done: `Query` with context, invariants and proofs, the epoll loop against
`Watches` and the select loop with proofs, `Connect`, `Listen` and `Dns` with proofs, `Response`, `Backends`,
`Lookup` and `Asyncns` with proofs, `Results`. Next, in this order:

1. An abstract specification of a query's promise (issued, called back, result
   fixed, freed) that `Query` implements, used in turn by `Connect`, `Listen`
   and `Asyncns`; with it the application of `Listen` need not wait.
2. A composition of `Dns` and `Query`, replacing the plans by a real backend.
3. Proofs: `NoPathTwice` of `Response`, for files without repeated entries.
4. The exec backend, once it is meant to work.
