# TLA+ models of hiredis-vip

hiredis-vip is a C client for Redis and for Redis clusters. Its difficulty is not in what
a function computes but in the order in which things happen: an event loop, callbacks that
call back into the library, a server that closes the connection, slots that migrate while a
command is under way, one of several nodes failing. These modules model that control,
model-check it on small instances and prove nearly all of its safety for all instances.

## Inventory

| Component | State | Operations | Hard behaviour | Correct when |
|---|---|---|---|---|
| Asynchronous connection, `async.c` | flags, error, output buffer, reader, callback lists, subscriptions, event interest | connect, command, (p)subscribe, monitor, disconnect, free, read and write handlers | re-entrant callbacks, deferred free and disconnect, replies matched by position, partial reads and writes | every callback gets its own reply, once, in order; none is lost; nothing is used after free; no wakeup is lost |
| Synchronous cluster context, `hircluster.c` | slot table, nodes, their connections, requests of the pipeline, retry counter | command, append, get reply, reset, route update | redirections, stale routes, failures between the parts of a multi-key command, timeouts | a command is executed at most once, its reply is its own, calls return, no freed node is used |
| Asynchronous cluster context, `hircluster.c` | the above with one asynchronous connection per node, retry counts, update time | command, disconnect, callback with redirections | route updates inside callbacks of connections that are being torn down | every callback runs once, links between nodes and connections stay consistent |
| Slot ranges and routing parsers, `hircluster.c` | dictionaries of nodes, sorted ranges, the table | parse CLUSTER NODES / SLOTS, build the table, swap the connections | overlapping ranges, slaves before masters, shared ownership of nodes | the table is what the ranges say |
| Multi-key fragmentation, `hircluster.c`, `crc16.c` | key positions, sub-commands, their buffers | pre-fragment, post-fragment, key hash slot | keys of one slot out of order, empty hash tags, buffers whose size is computed before they are filled | the caller gets the reply one server would have given |
| Command parser, `command.c` | parser state | `redis_parse_cmd` | argument classes of some hundred commands | every key is found |
| Reply reader, `read.c` | buffer, stack of tasks | feed, get reply | input cut at any byte, nesting limit | the same replies however the input is cut |
| Blocking connection, `hiredis.c`, `net.c` | buffers, descriptor, error | connect with timeout, reconnect, get reply, free | every system call may fail, late replies, descriptors that are given out again | no reply of an earlier connection is returned, an error is sticky until reconnect, no descriptor leaks or is closed for someone else |
| Adapters, `adapters/` | registered events | add and delete read and write interest | one-shot against persistent events | interest is what the library asked for |
| Containers, strings, utilities | | | general purpose | |

The cluster contexts hold one connection for each node and drive it through the interface
of the blocking or the asynchronous connection; the asynchronous connection calls the
adapter, the reader and, through callbacks, the application or the cluster context.
`PROJECT.json` lists the hazards of each, at their lines, with the properties about them.

## Modules

| Module | Models |
|---|---|
| `RedisServer` | a server and a socket as `async.c` meets them (external) |
| `RedisAsync` | the asynchronous connection, with an application that calls it from anywhere |
| `ReplyQueue` | what an asynchronous connection promises: a queue of callbacks (abstract) |
| `AsyncRefinement` | RedisAsync implements ReplyQueue |
| `MCRedisAsync` | RedisAsync and AsyncRefinement for TLC |
| `RedisAsyncProofs` | theorems about RedisAsync: control, wakeups, order; it implements ReplyQueue; subscriptions and MONITOR |
| `RedisCluster` | nodes of a cluster: ownership, migration, gossip, crashes, connections (external) |
| `ClusterContext` | the synchronous cluster API |
| `MCClusterContext` | ClusterContext for TLC |
| `ClusterAsync` | the asynchronous cluster API, on the connections of `async.c` |
| `MCClusterAsync` | ClusterAsync for TLC |
| `Reader` | the reply reader, byte by byte |
| `MCReader` | Reader for TLC, with the encoding of replies as reference |
| `CommandParser` | `redis_parse_cmd`, with the classes of commands |
| `KeySlot` | `keyHashSlot` and `crc16`, with the servers' definition as reference |
| `MultiKey` | a command from its arguments to its reply: parsed, split by slot, executed, reassembled; extends CommandParser and KeySlot |
| `MCMultiKey` | MultiKey for TLC |
| `Routes` | `parse_cluster_nodes`, `parse_cluster_slots`, the route they make and the connections it takes over |
| `MCRoutes` | Routes for TLC, with the clusters the replies describe as reference |
| `Connection` | one `redisContext`: connect, commands, timeouts, reconnect, free |
| `SequenceFacts`, `RedisClusterFacts` | the lemmas about sequences, and about links of RedisCluster, that the proofs share |
| `ConnectionProofs` | theorems about Connection |
| `ClusterContextProofs` | theorems about ClusterContext |
| `ClusterAsyncProofs` | theorems about ClusterAsync |
| `RoutesProofs` | theorems about Routes |
| `ReaderProofs` | theorems about Reader |

`ClusterContext` and `ClusterAsync` extend `RedisCluster`, `RedisAsync` extends `RedisServer`. What ClusterContext abstracts is
modelled by the others: the route update by Routes, the slots of sub-commands and the reassembly by MultiKey, the
links by Connection, the replies by Reader.

### RedisAsync

The variables are the fields of `redisAsyncContext` and of the `redisContext` in it: `flags`,
`err`, `acErr`, `obuf`, `rbuf` and `frag` (what the reader holds), `replies`, `invalid`, `subs`,
`listening` (the adapter's interest). `pc` is where the one thread is; `handler`, `back`, `ret` and
`cb` are the frames of its stack and the one local variable that outlives an iteration. A
callback is named by its command. Every place where the library calls the application is a
value of `pc` at which the application may call the library: from the event loop, from a
reply callback and from the connect callback. Handlers are cut where another actor can be seen: at
the socket calls and at the callbacks. What lies between is one action; the disconnect in
`__redisAsyncDisconnect` is part of each action that reaches it and continues in `"teardown"`,
where `__redisAsyncFree` runs the callbacks one by one. A failed `assert` ends in `"aborted"`,
the use of a freed context in `"undefined"`.

The bytes of a reply are abstracted to "complete replies in the reader" and "the first
bytes of one more"; the bytes of a command to the command. Memory is never exhausted. The
disconnect callback makes no calls.

### ReplyQueue and AsyncRefinement

`ReplyQueue` is the promise of the connection to an application of regular commands: callbacks run in the order of
the commands, each once, each with the reply to its own command, until from some command on all get NULL; no command
is accepted after the first NULL; a connection that is gone has left no callback behind. The first callback may get an
error that the server sends on its own (`maxclients`, `async.c:444`). A command that was issued without a callback
function has its place in the queue all the same; it is in `mute`, and its turn is a `Skip` that runs nothing. The
mapping is: `accepted` is `Len(issued)`, `pending` is `ac->replies`, `mute` are the commands that were issued without a
function, `delivered` is the history of callbacks that ran, with what each was given, and `gone` is a freed context.
Reads, writes, events and the frames of handlers are stuttering steps.

### ClusterContext

A command is the sequence of the slots of its sub-commands. `table`, `nodes`, `requests`,
`needUpdate`, `retryCount` and `ccErr` are the fields of `redisClusterContext`; a link of
`RedisCluster` is the `redisContext` of a node, with its output buffer, the commands on the
wire and the replies not yet read. A node is named by its key in `cc->nodes`: its address,
or, after an ASK to an unknown node, the slot number under which the code files it; `Orphan` stands
for a node that `dictAdd` refused. The library blocks, so the interleavings are those of its
socket calls with what the cluster does in between: migrations begin and end, nodes crash, recover and fail
over, views of the slots lag, connections break unnoticed, replies time out.

Routing information is abstracted to the owners that the node asked has seen; of the slots in `Lost` it may know
none, and then the table has no node for them and a command fails (`RetryFails`, `AppendFails`, `GetSubReply`). A route update
is one step, as nothing of it is visible before it is complete. It may fail at any time: a node that is up may still
refuse the query, or not answer it in time. A cluster in which two
masters claim one slot is left out. The application does not use `redisClusterCommand`
while a pipeline is open; with `Careful` it calls nothing but `redisClusterReset` after an error in a
pipeline. The library's README asks for a reset after a pipeline (`README.md:204`) but not for that; what happens to an application
that goes on is in `MCPipelineStale.cfg`.

### ClusterAsync

`ac` holds what the cluster code depends on of each `redisAsyncContext`: whether it is live, failed or marked
`REDIS_FREEING`, its `data` and the callbacks in its list. `node` holds the `cluster_node`s; one is named by its key in
`cc->nodes`, or, when `dictAdd` refused it, by its only connection. `swap_ctx` moves connections between nodes
of the same address, so an address stands for the old and the new node alike, and a pointer to a node
that was freed becomes `Dangling`. `stack` is the stack of calls: a callback may update the routes, which releases nodes,
which ends connections, which runs callbacks. Cluster and event loop move when it is empty. Any use of
freed memory ends in `undefined`, where nothing more is claimed.

Writing is merged with queueing (what is queued and what is written is lost alike when the connection
breaks), and a reply is an event of its own. A connect fails later, as an event, or at once: then `redisAsyncConnect` returns
a context with an error, which stays the connection of its node although no event will end it (`SubmitFails`; the command is refused by
`CommandRefused`, `ResendFails` or `AskFails`). A route update or
`cluster_config_get` may fail at any time, as nodes may be slow. A callback that `dictRelease` runs and that issues a command
reads the old table; the model calls this `undefined` at once, although some of its nodes may still exist. Every slot has
a node here; slots without one are in ClusterContext. `redisClusterAsyncDisconnect` is not modelled.

### Reader

`buf`, `pos`, `tasks` (`r->rstack` up to `r->ridx`), `reply` and `err` are the fields of `redisReader`. A stream is a
sequence of bytes together with what it says; `Feed` takes any number of its next bytes, `GetReply` may be called at any
time, and every item is a step. A reply is the set of its parts, each with its path, so that what the reader
builds in place can be compared with the encoded tree.

What a stream says is stated without the reader, as a grammar (`StreamsAssumption`): the items of the stream, each with its first byte
and its path. An item follows the one before it (`ItemsFollow`), the items are trees whose arrays have what they announce
(`ItemsNest`), and the parts of a reply are its items (`RepliesNamed`). The last item is the place where the stream ends,
incomplete or empty, or where it breaks the protocol: at a byte that is no type, or an array nested too deep. Each sequence of bytes has exactly one
such description, so the assumption leaves no stream out. In MCReader the descriptions are made
from trees of replies by encoding them, a second definition of the protocol, and TLC evaluates the
assumption on all of them.

### CommandParser, KeySlot and MultiKey

`cmd` holds the bytes that `redisFormatCommandArgv` made, or others. The parser has four states for each bulk argument; one
step takes them together, since they look at nothing else. `Bad` is the disjunction of their `goto error`,
`Follows` the branches behind each bulk, by the class of the command. A command that ends inside an element leaves the loop
with `CMD_PARSE_OK`. `keyHashSlot` is the code's, with the table of `crc16.c`; `ServerSlot` is the cluster's,
by division of polynomials over GF(2), so that all 256 entries of the table are compared with something.

In MultiKey each key joins the sub-command of its slot (`FragmentKey`), then each sub-command is written (`BuildSub`) into a buffer whose
size `clen` was added up before, with `hi_itoa` as it is. A server for each slot decodes the bytes it
gets, refuses keys of other slots and executes MGET, DEL and MSET on `store`, or fails: with an error, with a reply of
another type, with an empty array. `PostFragment` walks the keys backwards as `command_post_fragment` does. An
MSET whose last value is missing makes the code read behind the command (`undefined`). The reference is `Execute` of the whole command
on one server.

### Routes

`reply` is an answer to CLUSTER NODES or CLUSTER SLOTS; a line or region is a record of the fields that are
read, and a step parses one. `heap` holds every `cluster_node` made, `nodes` and `nodesName` are the two dicts, `cc` is what the
context has. Lines that are skipped, lines that end the parser, masters with ranges and open slots, slaves before and
after their masters, regions of known and of new masters are actions. `TakeRoute` is the rest of
`cluster_update_route_by_addr`: sort, fill, swap the connections, free the old nodes; `RefuseRoute` is its error path.
The ranges of a node are a partial function from the places of its parts in the line, so that what is skipped leaves
no trace. A range that meets another is found as the code finds it, by a slot that is taken, and then the order in which
ranges are filled in does not matter: the sorted array (`InOrder`) and the table (`TableOf`) are functions of the set of
ranges. `node_get_by_slot`, a binary search in the sorted array, is left out: nothing calls it.

The reference is the cluster that a reply describes. `DescribedAssumption` says what that means, in terms of the reply
alone: every line or region is complete, no two speak of the same master or slots, a slot is claimed for its owner and a slave named with its
master. TLC evaluates it on all replies of MCRoutes, which are made from clusters; replies that describe none are
parsed as well.

### Connection

A step is a system call with its outcome. `c` has the fields of the context; `owner` says which descriptors of the process are open and
whose they are, as the rest of the application opens and closes files between calls; `sock` is the socket with
the server behind it. A command and a reply are two bytes, so that each can be cut in two by a write, a read, a timeout or a
reconnect. `redisCommand` is AppendCommand and GetReply. Every way to connect is there, but `redisConnectFd`. Any system call may fail, in
a reconnect too; `stale` remembers that the number in `c->fd` is one that `redisReconnect` has closed, and `foreign` with which
value of `stale` the context closed a descriptor of someone else. A server may answer a command with bytes that are not RESP (`sock.bad`).

## Runs

| Run | Question | Bounds |
|---|---|---|
| `async` | callbacks: in order; the connection is a `ReplyQueue`; a clean disconnect answers everything; no use after free; no lost wakeup, on events that stay armed and may fire before `connect(2)` is done; every callback runs, every disconnect completes | 3 commands, 1 push |
| `pubsub` | messages reach their subscriber, both sides agree on what is subscribed, subscribers are told of the end; no lost wakeup, on one-shot events | 2 topics, 3 commands, with and without a callback function, 1 message |
| `cluster_sync` | single commands and pipelines: execution at most once within the bound on redirections, right replies, nothing left behind by a call or a reset, no vain wait, valid routes, every call outside a pipeline returns | 2 nodes, 2 slots, of which one may have no known owner, 2 commands, 2 faults, 2 redirections |
| `cluster_async` | one callback for each command, with its own reply; execution at most once within the bound on redirections; nodes and connections agree | 2 nodes, 2 slots, 3 connections, 3 commands, 1 fault, 1 redirection, with and without `HIRCLUSTER_FLAG_ROUTE_USE_SLOTS` |
| `reader` | the same replies and errors wherever the bytes are cut, none held back, every call returns | 87 streams: all pairs of nine replies, nesting at and beyond the limit, illegal bytes; a stack of 9 tasks as in the code, discarding after 6 bytes for 1024 |
| `multikey` | all keys are found, sub-commands are complete and fill their buffers, the reply and the values are those of the whole command, no failure looks like success | MGET and DEL of every choice of up to 3, MSET of 2 and 3 of the keys empty, `a`, `{a}b`, `{}a`; values that look like the protocol; every class with 0 to 5 arguments; GET of all 256 keys of one byte; 11 byte strings that are no command or are cut; numbers of one digit; 1 failure |
| `routes` | the table, the lists of slaves and the sorted ranges are those of the cluster; no connection is dropped | 4 slots, 2 masters, 2 slaves, all assignments and all orders of lines or regions, 17 wrong replies, 3 sets of flags, with and without an old route |
| `connection` | replies belong to their commands, descriptors to their owners up to the stale number of `stale_fd`, errors last, calls return | 5 descriptors, 2 addresses, 3 commands for each connection, 2 reconnects, 1 signal |

Three commands are enough for a callback list with a first, a middle and a last element, and for
one command issued from each kind of callback. Two nodes allow an owner and an importer, either of
them with a stale view, and two redirections a detour and the way back; the theorems are for any number of nodes. Two slots allow a multi-key command that fails in its second half;
two faults allow one failure in the handling of another. `MaxFaults` counts migrations,
crashes, broken connections, timeouts and refusals.
In `async` every command has a callback function; those without, `Skip` of ReplyQueue, are in `pubsub` and in the theorem `Refinement`.
 In `cluster_async` three commands on one connection are what
it takes for two NULL replies to plan a route update and for the third to make it, and one node without slots at first
makes ASK name an unknown node, twice. There the application makes no call that is refused for
its keys (`"invalid"`): a command that is refused because its connection failed at once leaves `acc->err` the same way. The theorems cover both. In `multikey` three keys are what it takes for two of one slot to enclose one of
another. In `routes` four slots allow two ranges of one master with one of the other between or beside them. In `connection`
two reconnects allow the second to meet what the first has left. Deadlock is not checked: an
application that has made its bounded number of calls, or a context that has been freed, may stop.

The mutants named in `PROJECT.json` change one definition each in the way a slip in the code would
(a callback pushed in front, a buffer kept over a reconnect, a counter reset too early); each makes the
property it is listed with fail.

### Where the code and its documentation disagree

Each of these runs checks one statement of the code or of its documentation and ends with a counterexample.

| Run | Property | Statement | What the code does |
|---|---|---|---|
| `disconnect_pending` | `NoAssertFails` | a clean disconnect has no pending callbacks (`async.c:343`) | it starts as soon as the output buffer is empty; replies still to come fail the assert |
| `node_freed` | `NodeExists` | the connection of a callback has a node (`hircluster.c:4513`) | a route update in the callback has freed it |
| `empty_key` | `SubCommandsWhole` | "Hiredis-vip supports mget/mset/del multi-key commands." (`README.md:169`) | `hi_itoa` writes no end behind "0" (`hiutil.c:208`): an empty key that follows one of ten bytes in its sub-command is announced with a length of two digits, and the sub-command overruns its buffer |
| `stale_fd` | `ClosesItsSocket` | `redisFree` closes the socket of the context (`README.md:184`) | a `redisReconnect` that fails before it has a socket leaves the number it closed in `c->fd` (`hiredis.c:647`), and the next reconnect or free closes it again, whoever has it then |

Seven further configurations are kept beside the runs. Each lifts one condition of a passing run and ends with a
counterexample too (`tlc -config MCConnectFree.cfg MCRedisAsync`).

| Configuration, module | Property | Statement | What the code does |
|---|---|---|---|
| `MCConnectFree.cfg`, MCRedisAsync | `NoUseAfterFree` | a free from a callback is put off (`async.c:324`) | the connect callback runs without `REDIS_IN_CALLBACK`, and its caller goes on with a freed context (`async.c:513`) |
| `MCStaleCallback.cfg`, MCRedisAsync | `RightCallback` | a reply without a callback is ignored (`async.c:484`) | an unsubscribe reply for an unknown topic runs the callback of the reply before it (`async.c:394`) |
| `MCMonitorMixed.cfg`, MCRedisAsync | `RightCallback` | in monitor mode the callback is pushed again (`async.c:431`) | the one pushed is the one that ran last, and behind the commands that are queued (`async.c:433`) |
| `MCLateReply.cfg`, MCRedisAsync | `NoAssertFails` | a reply without a callback finds a context that is subscribed or monitoring (`async.c:466`) | not a reply behind the one that ended the last subscription (`async.c:405`) |
| `MCNotReached.cfg`, MCClusterAsync | `ErrNotReached` | no node has a connection with an error (`hircluster.c:4334`) | a connection that fails at once is kept, and the next command for the node finds it |
| `MCPipelineStale.cfg`, MCClusterContext | `RightReply` | `redisClusterGetReply` receives the subsequent replies (`README.md:197`) | after a failed part it returns a reply to another request |
| `MCResetHang.cfg`, MCClusterContext | `NoVainReset` | an error is returned as `REDIS_ERR` (`README.md:199`) | a write error in `redisClusterReset` is ignored (`hircluster.c:4185`) and the reply awaited for ever |

The passing runs keep to what the code supports, by a constant that names the condition: `async` has no free or
disconnect in the connect callback (`ConnectCalls`), `pubsub` waits for the confirmation of an unsubscribe, unsubscribes from what it
holds and has MONITOR alone on its connection (`Polite`), `cluster_sync` resets after an error in a pipeline (`Careful`), and its
`NoVainWait` and `CallReturns` leave out the reset and the calls of a pipeline. `multikey` has no two-digit number.
So these runs say nothing about the cases of the two tables.

The models show the following as well; they are behaviours of the modelled actions, not runs.

- The error reply to a command issued while subscribed disconnects (`async.c:459`) although the comment
  of `async.c:639` wants it passed to the callback.
- A callback that answers the NULL reply of a failed connection with `redisAsyncFree` turns the status of
  the disconnect callback into `REDIS_OK` (`async.c:309`, against `README.md:246`).
- The error reply of a sub-command that `redisClusterGetReply` returns has been freed with its request (`hircluster.c:4163`,
  `command.c:1687`), and the caller frees it again.
- A command from the NULL callback of a failed connection finds that connection still linked to its node too, passes
  `NOT_REACHED()` (`hircluster.c:4334`, nothing in a default build) and makes a second one, which
  `unlinkAsyncContextAndNode` then unlinks in place of the first. `LinksAgree` is stated up to there.
- `acc->err` is shared: after a call that was refused (a command with keys in several slots, or one for a node whose connection failed at once) the next reply of
  another command is passed on as NULL (`hircluster.c:4658`).
- A node learned from an ASK is filed under the slot number (`hircluster.c:2947`); the second one
  for the same slot is not filed at all and its connection is never closed.
- The parser finds one key of EVAL and of commands such as SDIFF or PFMERGE, whatever the others are (`command.c:1168`, `1150`). `MSET k`, without a value, is
  accepted (`command.c:1161`), and so is a command that is cut behind a whole element (`command.c:1592`).
- With several sub-commands `command_format_by_slot` returns the slot of the last key, not of the last sub-command, as its
  comment says (`hircluster.c:3550`).
- Two masters that claim one slot make `cluster_update_route_by_addr` release its iterators twice (`hircluster.c:1452`); two masters
  of one name make `parse_cluster_nodes` free a master that the dict frees again (`hircluster.c:1060`); a slave whose master is not listed is never freed.
- CLUSTER SLOTS of a cluster without slots is refused, CLUSTER NODES is not (`hircluster.c:801`).
- Each retry of `addrretry` (`net.c:374`) forgets the socket it had. When the last retry or `SO_REUSEADDR` fails, the context
  comes back without an error (`net.c:346`, `372`, against `hiredis.c:671`).
- A unix context whose first connect got no socket has no `connection_type` yet (`net.c:424`), and `redisReconnect` connects it over
  TCP, to no host.
- The socket timeout of `redisSetTimeout` is not set again by `redisReconnect`. Descriptor 0 is never closed (`hiredis.c:619`).

## Fairness

`RedisAsync`: the thread's own steps are weakly fair, as handlers run to completion and callbacks
return. Events that are ready again and again are reported (strong fairness), which is what
level-triggered polling gives, and a socket that is polled as writable again and again is
not full each time. The server answers and `connect(2)` ends. `ClusterContext`: the thread runs
unless it is blocked in a read, and a node serves what it has received. Nothing is assumed of migrations,
failures, recovery or gossip: the bound on redirections has to do without. `Connection`: a call makes its next system call when the last has
returned (weak fairness of `InCall`); a server that never answers is allowed, and only a socket with a timeout has to return. `Reader`: the loop of
`redisReaderGetReply` runs; nothing is assumed of the caller. `ClusterAsync` has safety properties only.

## Proofs

Every theorem holds for all values of the constants that satisfy the named assumptions of its module: any number of
commands, nodes, slots, connections, descriptors, faults and redirections. An inductive invariant is a conjunction of
named parts, and there is one step for each action and each part that it can disturb.

### RedisAsyncProofs

- `TypeCorrect`: `TypeOK`. The type of `pc` depends on the frames a return goes to, so the
  inductive invariant is `TypeOK /\ ControlOK`: a reply callback runs exactly while
  `REDIS_IN_CALLBACK` is set, pending frames exist, and a freed context is left only to the
  event loop or to the connect callback that freed it.
- `UseAfterFreeSafety`: `NoUseAfterFree` whenever `"free"` and `"disconnect"` are not called from the
  connect callback; there the code does use a freed context, see above. The strengthening
  says that a teardown then always returns to the event loop.
- `NoLostWakeup`: `WakeupArmed`, unless events are one-shot and fire before `connect(2)` is done.
  `WakeupInv` extends it from the event loop into the read handler: there and in the
  callbacks it runs, unsent commands have the write interest armed, and while replies are processed the
  read interest is armed already. It also needs that nothing arrives before the connection is made.
- `CallbackOrder`: `InOrder` for applications without subscriptions and MONITOR. `OrderInv`
  says that the callback list is sorted, that everything on it is later than everything that has run
  and that both are bounded by the number of commands issued.

For an application of regular commands (`RegularOnly`: no subscribe, no unsubscribe, no MONITOR; those take their callbacks from
other lists, see below):

- `RepliesMatch`: `RightCallback`. A reply carries no name; it belongs to a callback by its position alone.
- `CleanDisconnectAnswersAll`: `CleanDisconnect`.
- `AssertsHold`: `NoAssertFails`, if the application does not call `redisAsyncDisconnect` either. With it the statement is false:
  that is the finding of `disconnect_pending`.
- `Refinement`: `Spec => ImplementsQueue`, the whole of ReplyQueue: its initial states, and each action of RedisAsync as an
  action of the queue or a stutter.

`QueueInv` counts. The callbacks of `ac->replies` are those of the last commands issued, without gaps, and so are the commands
of `c->obuf`; those at the server come before them. What has come back are the replies to the first callbacks of `ac->replies`,
in order, up to the first byte that is not RESP; while the connection is up the numbers of replies on their way back,
commands at the server and commands unsent add up to the length of `ac->replies`. `InOrder` and `RightCallback` are far from
inductive without it: they say nothing about what is under way. A server that turns the client away sends one error that
answers no command, which is possible only before the first reply.

### RedisAsyncProofs: subscriptions

For an application that subscribes as `async.c` supports it (`Supports`: `Polite`, and every call names at least one topic, each once):

- `SubscriberGetsItsOwn`: `RightCallback`, for messages, confirmations, lines of MONITOR and the replies to regular commands.
- `ServerAgrees`: `SubscriptionsAgree`.
- `SubscribersHear`: `SubscribersTold`.
- `NothingPushedUnexpected`: `NoAssertFails`, if `redisAsyncDisconnect` is not called. A message never meets a context that is
  neither subscribed nor monitoring.

`Polite` is the use of pub/sub that the lists of `async.c` can serve; what it excludes is listed above: a regular command or a subscription before an
unsubscribe is confirmed, unsubscribing from what is not subscribed, MONITOR with other commands. The run `pubsub` has
the same hypothesis. `PubSubInv` (which TLC checks on the instance of `pubsub` too) is about order:

- `Patient`: an unsubscribe that is not confirmed is followed by others only. Hence no topic is registered while it is under way.
- `Registered`, `Lasting`, `Asked`: the entry of a topic is the last command that subscribed to it, and goes with the confirmation.
- `ServerSide`: what the server has subscribed is what the commands it has executed say.
- `Leaving`: each unsubscribe reply under way ends a topic that is still registered, no two end the same one, and the one that
  says 0 is the one with which the client's last topic goes. This is what makes `REDIS_SUBSCRIBED` go at the right moment.
- `Staying`: the other pushes for a topic come before the reply that ends it.
- `Dealt`: the replies that belong to `ac->replies` come first, in its order; `Refusing`: a regular command of a subscriber gets an error.
- `Telling`: a subscriber that was not told of the end is in a dict, also in the middle of `__redisAsyncFree`.

After a disconnect or free has begun (`Released`) only the parts about callbacks are needed.

### ConnectionProofs

- `RepliesInOrder`: `RightReply`. `StreamInv` orders the bytes of all commands since the last connect: those of replies returned, those in the
  reader, on their way back, on their way to the server, in the output buffer. Each of these continues the one before,
  so a reconnect that kept any of them would break it.
- `DescriptorsOwned`: `FdsOwned`. `FdInv` says where `c->fd` is the context's own, where it is -1, and where it is a number that
  `redisReconnect` has closed and no socket has replaced (`stale`): only by that number a descriptor of someone else can be closed, which is
  the finding of `stale_fd`. Every other failure, of any system call of a connect or a reconnect, leaves the context in order.
- `ErrorsAreFinal`: the action property `ErrorIsFinal`.

### ClusterContextProofs

- `RoutesStayValid`: `RoutesValid`, for every use of the API, pipelines included.
- `CommandsGetTheirReplies`, `CommandsAtMostOnce`, `CommandsNeverWaitInVain`, `CommandsLeaveLinksClean`: `RightReply`, `AtMostOnce`,
  `NoVainWait` and `LinksClean`, for an application that uses `redisClusterCommand` only (`CommandOnly`). For pipelines
  `RightReply` is false without `Careful`, see above; with it, pipelines are checked by `cluster_sync`.

`RouteInv` gives types, a slot for every turn of the loop, and a node for every entry of the table that is not empty. `CommandInv` follows one call: every connection in use is empty
but the one that is waited on, and that one carries the one request, or its reply, or was broken (`Alone`); replies so
far and slots left make up the command (`Progress`); a slot that is left was not executed unless the reply that says so is
the next to be read (`Unexecuted`); every sending is paid for by a reply or by `cc->retry_count` (`Budget`).
`AtMostOnce` needs `SplitAssumption`: the sub-commands of a command have different slots, as
`command_pre_fragment` makes one for each slot. MultiKey models how.

### ClusterAsyncProofs

- `CallbacksAccounted`: `Accounted`. Every accepted command has its callback in one place: it has run, it is running, or it is in the list of
  one connection.
- `RepliesAreOwn`: `OwnReply`. `ExecutedAtMostOnce`: `AtMostOnce`. `NodesAndConnectionsAgree`: `LinksAgree`.

None of these has a hypothesis on the application: it may issue commands from any callback, and free the context
from the event loop. They are stated up to a use of freed memory (`undefined`), and `LinksAgree` up to `NOT_REACHED()`, as the code promises nothing
behind either. A connection that failed at once is a node's connection like any other in `LinksAgree`, but for accepting commands. One invariant proves all four, since each part needs others:

- `Shaped`: which calls can be inside which. `__redisAsyncFree` is called by the event loop or by `dictRelease`; it
  calls back on its own connection with NULL; no connection is torn down twice on one stack.
- `Linked`, `Addressed`, `Kept`: `node->acon` and `ac->data` refer to each other, in the middle of calls too, and a connection is to the
  address of its node. Only a connection marked for freeing may have lost its node, as long as
  `NOT_REACHED()` was not passed.
- `Routed`: the nodes that `dictRelease` has still to free are not those of the table, unless the context itself is ending.
- `Doomed`: a connection that failed, or is marked `REDIS_FREEING`, has the call that will free it on the stack; one that failed
  at once has no such call, and no callback either.
- `Aligned`: replies and requests on a connection are those of its callback list, position by position, with an ASKING having a
  callback of its own; what a broken connection loses, it loses from the end. A connection whose teardown
  has begun is exempt, which is why `Doomed` is needed.
- `Placed`, `Owned`: one place for each callback, and the reply in a call is that of its command.
- `Once`, `Paid`: what is on its way, or was redirected and is about to be sent again, was not executed; the number
  of sendings is bounded by the retries of the command.

### RoutesProofs

For every number of slots, every reply of the shape that `RepliesAssumption` gives and every old route:

- `NoConnectionLost`: `ConnectionsCarried`, and `NoneIsDropped`: `NoneDropped`, whether or not the reply describes a cluster.
- `RouteIsRight`: `RouteOfCluster`. `SlavesAreMapped`: `SlavesOfMasters`. For every cluster that a reply describes.
- `RangesAreApart`: `RangesApart`, whether or not the reply describes a cluster.

`NodesInv` says which nodes are whose: those of the old route have the addresses and connections they had, the new ones no
connection, a dict names a node of that address, and no node is in both. `RouteInv` relates the parser to the reply: after `pos` lines or
regions the ranges of the nodes are the claims of those read so far, no more and no fewer (`Told`, `Named`), so the table is that
of all claims when the last is read, and since claims do not overlap `RefuseRoute` is not reached. `SlavesInv` says which
slaves a master has after `pos` lines: its own list, or, while only slaves of it have been read, the list that the first of
them keeps. `RangesInv` says that `cc.slots` and `cc.table` come from one finite set of ranges that are apart.

That `InOrder` sorts is counting: the rank of a range, the number of those that start before it, is an injection into as
many numbers as there are ranges, so there is one range of every rank.

### ReaderProofs

For every stream, every size of `r->rstack` but 0 and every limit for discarding:

- `CutsDoNotMatter`: `RepliesOfStream`, the types included.
- `NothingHeldBack`: `NoneHeldBack`.
- `ErrorsAreOfStream`: `ErrorOfStream`.

`ReaderInv` says that the reader is at one item of the stream (`At`): before its type byte or behind it, with the stack of tasks being the path of
that item (`Stacked`) and the reply being made of the items before it (`PartsOf`); the buffer is a window of the stream (`Buffers`). A step
that finishes an item moves to the next (`Advances`). Two facts carry that. The bytes seen through the window are those of the
stream, so a line, a number and the end of a bulk string are found if and only if they are there (`LineRead`, `EndRead`). And
`moveToNextTask` goes to the next path in preorder: `ChildNext` into an array, `SiblingNext` to the next element of the innermost
array that has one, `RootNext` to the next reply when there is none. These three are about the order of paths alone, and
say that no path of the stream lies between.

`NoneHeldBack` needs the other direction: when `processItem` returns for want of bytes, the item is not there (`NotReadable`), so neither is
the end of any later reply.

### Left to TLC

- Liveness: every callback runs (checked on events that stay armed; for one-shot events there is `NoLostWakeup`), every call returns. The temporal prover has no `ENABLED`.
- The properties of pipelines in ClusterContext, but for `RoutesValid`.
- That MCReader's encoding of trees agrees with the grammar of Reader; it is a recursive operator.
- MultiKey, CommandParser and KeySlot, which compute with recursive functions of the bytes and with the bitwise operators of
  `crc16`, which the provers do not know.

## Not modelled

- `redisClusterAsyncDisconnect`: it marks and unlinks every connection. A command that is then sent to the node makes
  another connection, and the end of the first unlinks that one (`hircluster.c:4308`); a TRYAGAIN or an
  ASK on a connection that is disconnecting is refused by `__redisAsyncCommand` and its callback is lost (`hircluster.c:4690`).
- Connecting to a list of addresses, the option setters and `redisClusterFree` of the synchronous context, which run alone.
- `redisConnectFd`, keepalive, `redisvFormatCommand` and its format strings.
- The adapters beyond the interest they keep; dict, list, array and string, which are general containers used through
  their interface; logging, allocation wrappers, tests and examples; `cluster_update_route_with_nodes_old`, which nothing calls.
- Allocation failures everywhere.

## Plan

1. Proofs: pipelines of ClusterContext under `Careful` (`requests` in step with what is on the links).
2. `redisClusterAsyncDisconnect` in ClusterAsync, and liveness of ClusterAsync: every callback runs.
3. The reader as the specification that `rbuf` and `frag` of RedisAsync abstract, and Connection as that of the links of RedisCluster.
