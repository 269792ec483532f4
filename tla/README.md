# SCAMP-JS in TLA+

SCAMP is a service bus. Services announce by multicast which actions they
offer; a cache manager on every machine collects the announcements in a file;
a program looks an action up in that file, connects to the service over TLS
and sends it requests as messages of the BEEPish protocol. scamp-js is the
JavaScript implementation, for services and for programs that call them.

This directory models its core: the protocol engine, from the bytes that come
in to the body of a message, the calling side, the cache manager, the
directory, the announcer, the service with its connections, subscriptions and
the check of privileges. TLC checks the models on small instances; TLAPS
proves type correctness, the main invariants and the three refinements of all
of them but the input buffer, for every value of the constants. All paths
below are relative to the repository; `lib/...` is short for `src/lib/...`.

## Contents

1. [The system](#the-system)
2. [Modules](#modules)
3. [From the code to the actions](#from-the-code-to-the-actions)
4. [Runs, bounds and what they show](#runs-bounds-and-what-they-show)
5. [Fairness](#fairness)
6. [What the models found](#what-the-models-found)
7. [Proofs](#proofs)
8. [Not modelled](#not-modelled)
9. [What is left](#what-is-left)

To check everything by hand:

    tlc -workers 2 -config conn_streams.cfg MCConnection
    tlapm RpcProofs.tla

## The system

The program is single-threaded JavaScript. An event handler runs to its end,
so there are no data races; what makes the code hard is that handlers call
callbacks, which call back into the code they were called from, and that
timers, losses of connections, replies and changes of a file come in any order.

| component | source | state it keeps | operations |
|---|---|---|---|
| BEEPish connection | `lib/transport/beepish/connection.js`, `lib/handle/Message.js` | messages going out and coming in, with what of them was sent, received and acknowledged; started, closed; timers | sendMessage, packet handlers, pause and resume, start, close, loss |
| Client | `lib/transport/beepish/client.js` | `_pending`, the callbacks of requests that wait; subscriptions | request, reply, timeout, loss; subscribe, event |
| Connection manager | `lib/util/connectionMgr.js` | `_cache`, the client of an address | getClient, 'lost' |
| Requester | `lib/actor/requester.js` | none but `params.retried` | makeRequest, forwardRequest, the retry |
| Service manager, observer | `lib/util/serviceMgr.js`, `lib/discovery/observe.js` | registry by worker, action index, failures; the last mtime | `_loadCache`, registerService, `_index`, findAction, connectFailed |
| Announcer | `lib/discovery/announce.js` | contents of the announcement, packet cache, timers | setWeight and the like, suspend, start, send, `_makePacket` |
| Service, server connections | `lib/actor/service.js`, `lib/transport/beepish/server.js` | active requests of the service and of each connection; subscribers | handleRequest, three kinds of handler, stopService; putSubdata |
| Publish and subscribe | `server.js`, `client.js`, `lib/util/subscription.js` | filters, latest events, back-off | setFilter, notify, onEvent, restart |
| Announcement format | `lib/handle/service.js` | none | parsing, run-length coded action tables |
| Input buffer (part of a connection) | `lib/transport/beepish/connection.js` | `_inBuf`, `_inStart`, `_inEnd` | `_ondata`, `_readPackets` |
| Cache manager | `src/script/cache-manager.js` | announcements with their timeouts, the file with its timers, peers | register, timeout, update, write, touch, peering |
| Ticket and access | `lib/util/ticket.js` | cached table of privileges | verify, check access |
| Message bodies | `lib/util/DripSource.js`, `lib/handle/Message.js` | a position in a buffer, paused or not, calls of `start()` to come | slurp, pause, resume, start |
| Logging, configuration, tools, circular discovery | the rest | | |

How they meet. A `Requester` asks the service manager for an action, the
connection manager for a client of the address it announces, and hands the
client the request. The client has a connection, which carries requests,
replies and events as messages. At the other end a server connection hands
every incoming message to its service and sends what the handler replies. The
loss of a connection is told by the event 'lost', in this order: readers of
what is arriving, the cache, the requests that wait. The announcer of a
service and the cache manager meet only over multicast; the cache manager and
the service manager only through a file.

What is hard, and the property that is about it (PROJECT.json lists every
such place with its line, the ones no property covers yet with the reason):

- **Flow control.** A sender pauses while a window of bytes is not
  acknowledged; a receiver acknowledges unless its consumer has paused. Each
  end must always owe the other what it waits for: `WakeupComing`,
  `SenderWakes`, `PausedIffFull`, `AckChain`.
- **A source that is paused from inside its own loop**, and resumed by a call
  that runs later: `SourceObeys`, `BodyArrives`.
- **Packets cut anywhere by the network, in a buffer that is outgrown** while
  consumers keep slices of it: `ReadsAll`, `HandedIsSent`.
- **Packets that cross.** An acknowledgement may come for a message that has
  ended, and either end drops the connection at a packet it thinks is
  forbidden: `NoProtocolError`. What was buffered behind such a packet is
  handled all the same: `ImplementsStreams`.
- **A loss in the middle.** Nothing that was cut may look complete and nobody
  may be left to wait: `ImplementsStreams`, `EndArrives`,
  `NobodyStranded`, `CountsAgree`.
- **The races to answer a request.** Reply, timeout, loss and retry compete:
  `AnsweredOnce`, `RunsOnce`, `ImplementsCall`, `EventuallyAnswered`.
- **Calls from inside callbacks.** A request made while a loss is being told
  meets a half-changed state: `CacheAlive`, `NobodyStranded`, `SuspectUnused`.
- **Reload by comparison.** The directory changes only what differs between
  two versions of a file that is replaced while it is being read:
  `IndexConsistent`, `LoadKeepsRegistrations`, `ImplementsDirectory`,
  `Converges`.
- **A file that must never be too old, too empty or out of date**, over
  restarts of the manager that writes it and announcements that are lost,
  doubled and late: `FileIsBag`, `FileFresh`, `StaysListed`, `NewestWins`,
  `Follows`.
- **An asynchronous fill of a cache raced by invalidations** (the announcer's
  packets): `CacheCurrent`, `ChangeIsSent`, `SuspendIsAnnounced`.
- **Counters that decide when to stop**: `CountsAgree`, `StopWaits`,
  `StopEnds`, `RequestsKeepOpen`.
- **A copy kept up to date by events, over connections that are lost with or
  without a word**: `Mirror`, `ReadyShown`, `BackoffDoubles`,
  `SubscribersFollow`.
- **What was true before a fetch and is used after it** (tickets, and tables
  of privileges whose fetches overlap): `TicketWasGood`, `WithdrawnInTime`.

## Modules

| module | what it is | extends or instantiates |
|---|---|---|
| `MessageStream` | abstract: what a connection promises the two programs | |
| `Connection` | both ends of a BEEPish connection | instantiates `MessageStream` |
| `MessageBody` | a message fed by a DripSource or by a program | extends `Connection` |
| `Framing` | the input buffer of a connection | |
| `RemoteCall` | abstract: what makeRequest promises its caller | |
| `Rpc` | the calling side: requester, connection cache, clients | instantiates `RemoteCall` |
| `Directory` | abstract: what a reader of the directory sees | |
| `ServiceMgr` | registry, index, reload, observer | instantiates `Directory` |
| `CacheManager` | the cache manager: what it holds, and the file it keeps | |
| `Announcer` | the announcer and its packet cache | |
| `ServiceHost` | a service, its connections' request counts and idle timers, its stop | |
| `PubSub` | what a server publishes, the copies of clients, subscriptions that reconnect | |
| `Access` | tickets and the table of privileges | |
| `MC...` | the instance of each that TLC checks (`Framing` needs none) | extends it |
| `...Proofs` | the theorems about it (not for the abstract ones; `ConnectionProofs` is also about `MessageBody` and `Framing`) | extends it |

Definitions whose names begin with `Mutant` are not part of a specification.
Each stands beside the definition it would replace and is a bug the code could
plausibly have; with it, the property that PROJECT.json names is violated.

Common abstractions. The payload of a message, the contents of a packet and
the text of an announcement are opaque. Time is counted in `Access` and in
`CacheManager`, where the lengths of terms and timeouts are what matters;
elsewhere a timer that is set may fire at any moment. What runs in one turn
of the event loop is one action, unless it calls callbacks between its
assignments; then it is cut where they run, and only what a callback may do
can happen in between.

## From the code to the actions

### Connection

State: `out[e][i]` and `in[e][i]` are the entries of `_outgoing` and
`_incoming` of endpoint e, which the code deletes when a message ends; the
model keeps them with the state "ok" or "err". `sent`, `received`, `acked` are
the fields of those names; `outBuf` is `_outBuf` before `start()`; `net[e]` is
what is on its way to e. A packet is `[cmd, id, lo, hi]`: DATA carries the
bytes from offset lo to hi, ACK the count hi.

| action | code |
|---|---|
| `Start`, `SendMessage`, `Write`, `End` | `start`, `sendMessage` and its 'data' and 'end' listeners |
| `OnHeader`, `OnData`, `OnEof`, `OnTxErr`, `OnAck` | `_onpacket` by command |
| `Malformed`, `ProtocolError` | the branches of these handlers that call `_onerror` |
| `Resume`, `DrainAcks` | the 'drain' listener of an incoming message |
| `Shut`, `Close`, `TransportLost` | `_onerror`, `close`, the socket's events |

A consumer treats a buffer in one of three ways: it takes it (`flow`), pauses
the message until later (`pause`), or pauses and resumes before its callback
returns (`bounce`). The last makes the code acknowledge the same bytes twice,
once from 'drain' and once from the DATA handler; the second count is more
than was sent, and the other end drops the connection. `bounced` remembers
for which messages this happened, and `NoProtocolError` excepts their
acknowledgements and nothing else.

`_readPackets` does not stop when a handler calls `_onerror`: the packets that
were in the buffer behind the refused one are still handled (`Buffered`), by
an end that is closed. `Shut(e, rest)` leaves them in `net[e]`, and from then
on `closed[e]` and a nonempty `net[e]` go together. `MessageStream` therefore
allows a message to open on a lost connection, with nobody to end it, but
only after a program has bounced one (`abused`).

`MessageStream` has no packets, windows or acknowledgements: a message is a
stream that the receiver sees in order and that ends once, cleanly only when
everything has come. The refinement mapping forgets `net`, `outBuf`, `up` and
the counts of flow control.

### MessageBody

The writer of the client's first message is a DripSource (`drip`), or a
program as in `Connection`. `starts` counts the calls of `start()` that
process.nextTick still has to make, `dripping` says that one of them runs:
its loop does not yield, so nothing else happens in that process until it
stops (`Elsewhere`), but the loop calls `Write`, which may pause the message,
whereupon pipe pauses the source.

| action | code |
|---|---|
| `Send` | sendMessage, and slurp with its pipe |
| `StartDrip`, `Give`, `Finish` | `start`, one turn of its loop, its last turn |
| `Drain` | Message.resume, 'drain', and pipe's listener, which resumes the source |

`Connection` takes for granted that nobody writes a paused message.
`SourceObeys` shows it of the writer that the code has. A source that has lost
its connection while it was paused is never resumed and never ends: it holds
its buffer for as long as somebody holds the message. No document promises
otherwise.

### Framing

`mem` is the sequence of all buffers there have been; the last is `_inBuf`.
The code never writes to an older one, but what was handed on (`handed`) may
be part of any, as `slice` does not copy. A byte is a triple: the number of
its packet, the part of it (line, payload, trailer) and its place there.

| action | code |
|---|---|
| `OnBytes` | `_ondata`: `Room` is its first half, which may replace the buffer |
| `ReadPacket`, `Wait`, `Refuse` | one turn of the loop of `_readPackets`: a packet is handed on, return, `_onerror` |
| `StartReading` | `start` |

`begun` and `failed` are `_started` and `_closed`: they are not called
`started` and `closed` because `ConnectionProofs` extends both `Framing` and
`Connection`, where these are the flags of both ends.

The regular expression of a header line is modelled by what it yields: the
line of one of the packets that were sent, or nothing. A line that is cut in
two, or found at a wrong place, is nothing.

### Rpc

A dispatch of request r is an attempt `<<r, 1>>` or, when the connection was
never established, `<<r, 2>>`. `at`, `pending`, `queued` and `sent` say which
client an attempt was handed to, whether its callback is in `_pending`,
whether its message waits for the connection, and whether it left.

| action | code |
|---|---|
| `MakeRequest`, `RefuseRequest` | `makeRequest`, `forwardRequest`: findAction, getClient, `request` |
| `Connect` | the TLS connection is made |
| `OnReply`, `OnReplyEnd`, `Timeout` | the 'message' listener, the end of a reply, `tmout` |
| `Lose`, `LoseReply`, `EmitLost`, `Redispatch`, `FailPending`, `LossHandled` | `_onerror` and the 'lost' listeners, in their order |
| `Execute` | external: the service acts on the request |

While `losing` is not `NoLoss` a loss is being handled, and only its own steps
and calls of `MakeRequest` from callbacks can happen. The model keeps the
order the code has: the callbacks of arriving replies run before the cache is
told, so a request made there is given the closed client. `CacheAlive` states
that this window is the only one, and `NobodyStranded` that such a request is
answered all the same: it goes into the table that the loop, which comes
later, empties.

`RemoteCall` says that a callback runs at most once, an action at most once,
and that a reply means it ran.

### ServiceMgr

`registry`, `service`, `index` and `failed` are `_registry`, a registration's
announcement, `_actionIndex` and `isFailed()`. The load is cut at the reads of
the file and after each announcement, where listeners are told. The cache
manager replaces the file in between. Two things of the file system matter and
are modelled: the observer compares modification times, which it notes before
it loads; and a replacement in the same millisecond as the one before leaves
the time as it was. `Replace` may leave `fresh` alone for that reason.

| action | code |
|---|---|
| `Check` | `check` of the observer |
| `LoadStat`, `LoadRead` | `_loadCache` up to the loop |
| `LoadFails` | an exception of `readFileSync`, which ends in the observer |
| `KeepChunk`, `RegisterChunk`, `SkipChunk` | the loop over announcements, with registerService and `_index` |
| `Deactivate`, `LoadFinish` | the loop over `oldRegs`, the end |
| `ConnectFailed`, `Reactivate` | connectFailed, and the passing of its time |
| `Replace`, `Touch`, `GrowOld` | external: the cache manager and the clock |

What parsing and verifying an announcement yields is given by the constants
`WorkerOf`, `KeysOf` and `Usable`. A read that fails leaves the directory as it
is, and is not tried again before the next new mtime, as the observer has noted
the present one. A `stat` that fails in the observer is left out: the manager
renames a whole file into its place, so that one is always there. `Directory` says that contents are taken
from the file at some moment, and that what a reader sees then changes at once
to what they amount to, whole and with nothing else. `read`, a history
variable, keeps those contents for the refinement mapping.

### CacheManager

`bag[w]`, `seen[w]` and `left[w]` are the announcement in `_bag` of worker w,
`seen_timestamps` and what is left of its timer. `contents`, `hold` and
`touchIn` are `_contents` of the CacheFile, the ten seconds of `_suspended`,
and the timer of the next touch; `file` and `age` are the file and the time
since its mtime. An announcement is a worker and a version, which stands for
its timestamp: the announcer gives every change a new one.

| action | code |
|---|---|
| `Start`, `Crash` | the constructors; the signals, or any end |
| `Receive` | the 'message' listeners, parseText, parseRef, register, `_issue`, update |
| `Expire` | the timer of register |
| `HoldOver`, `Touch` | the end of the ten seconds; `_touch(true)` |
| `Announce`, `Renew`, `Silence`, `Tick` | external: workers and the clock |

As it stands the script stops in the constructor of its Observer:
`cache-manager.js:255` uses a variable `me` that is not declared, in strict
mode. The model reads it as the Observer. The file of authorised services,
which `auth_localhost` asks for, is written by the same CacheFile and is left
out; a peer's packets are the same packets again, later, and `air` gives any
number of copies of everything.

### Announcer

`conf` is the version of everything an announcement says; each setter makes a
new one and empties the cache. `packet[a]` is `_packet[addy]`: a packet,
`Absent` (undefined), or `Pending` (false, in compression). `builds[a]` are
the packets of an address that zlib works on, which finish in any order.

`racing` is history: the addresses whose packet, when it was last asked for,
went into compression while older ones of that address were still there.
`suspend()` and `start()` can do that at any moment, as they empty the cache and
send at once. For a racing address the check of line 214 may take an outdated
packet for the one that was asked for (run `announce_doc`); for every other one
the cache is right (run `announce`, and proved). `leaked` says that `start()`
was called while not suspended: it sets a second interval, and the first, which
nothing can clear any more, fires for ever, in a suspension too.

| action | code |
|---|---|
| `Listening` | a socket is bound |
| `Change` | `setWeight`, `setExtend`, `setClasses`, `addAddress` |
| `Suspend`, `Start` | `suspend`, `start`, each with its `send` |
| `Tick` | `_interval` and `_suspendInterval`, with `send` |
| `Compressed` | the callback of zlib in `_makePacket` |

### ServiceHost

A request is counted by its connection (`count`, which makes it busy) and by
the service (`active`). Handlers are of five kinds: no such action; one that
replies when the request has ended (fullHandler, cookedHandler); one that
replies later (staticJsonHandler); the case in which that one does not
reply at all: it returns an `Error` to nobody when the request is not JSON; and
one that it lets reply twice, by calling `return_handler` and returning a value
as well (`service.js:217-219`), as an async function does. A second reply is
sent and counted off like the first, so that both counts may even fall below
zero; `again` holds the requests for which that has happened. `CountsAgree`
says how far the counts are off, and `StopWaits` and `RequestsKeepOpen` allow
as many unanswered requests as there were second replies.

| action | code |
|---|---|
| `Arrive` | handleRequest, and the HEADER that leads to it |
| `ReceiveEnd`, `ReplyLater`, `ReplyAgain` | the end of a request, a reply, another to the same request, the timer after each |
| `ReplyEnd` | the 'end' listener of sendMessage |
| `Lose`, `IdleLimit` | `_onerror`, the socket's 'timeout' |
| `StopService`, `DelayOver`, `Drained` | stopService |

### PubSub

`subdata` and `registered` are `_subdata` and `_subscribed_connections` of the
server, `sdata` is `_sdata` of the client of the present connection, and
`ready`, `delay`, `closed` are fields of the Subscription. A connection that
died without a word (`link = "dead"`) stays until the heartbeat finds out.

| action | code |
|---|---|
| `Put`, `OnSubscribe` | putSubdata with notify; the 'subscribe' branch with setFilter |
| `Connected`, `Receive` | the TLS connection is made; the 'message' listener of the client with onEvent, and 'subscribe_done' of the subscription |
| `Lose`, `Break`, `HeartbeatExpires` | 'lost' on both sides; external; the interval of setHeartbeat |
| `Reconnect`, `Close` | `_reconnect` at the end of the wait; `close` |

Messages are sent in order, but the end of one that is as long as the window of
flow control waits for an acknowledgement, and what was sent later may be
complete before it. `Long` is the set of contents for which that is so:
`Receive` takes any message behind none but long ones. Nothing numbers the
events, so an older value may be written over a newer one; `stale[s]`, a
history variable, is the set of the items of which a newer message has
overtaken an older one, until a change of the item is sent or the connection
lost. And `subscribe_done` may overtake a long snapshot: the subscription then
says that it is ready while its copy is still empty. `Mirror`, `ReadyShown` and
`SubscribersFollow` except exactly these, and no more.

The subscriptions are only coupled by what is published, so a loss of one
never changes another. Three things the code does are in the model as they
are, since no document says otherwise and none of the properties suffers:

- `setFilter(conn, null)` deletes the entry of `this.id` where `conn.id` is
  meant (`server.js:99`). A server has no id, so nothing is deleted:
  `registered` only grows, and every change is also "sent" to connections that
  are gone.
- `close()` calls a method `close` that Client does not have
  (`subscription.js:75`) and throws after it has set `_closed`. The connection
  stays open and its copy up to date until it is lost; it is not replaced.
- A refused filter is answered by `subscribe_done` with the contents `false`,
  which nobody reads (`client.js:57-61`): the subscription becomes ready and
  shows nothing. A `subscribe_done` that a loss cuts off counts as well, and
  resets the back-off.

### Access

`table` and `authzTime` are `authzTables` and `authzTime`; every request that
finds them too old fetches the table for itself. `lastHad` and `granted` are
history: when the Auth service last had each table, and by how old a table a
request was allowed.

| action | code |
|---|---|
| `RequestEnd` | the call of check_access when a request has arrived: verify, the first part of checkAccess |
| `Fetched`, `FetchFails` | the callback of makeJsonRequest, with the second part |
| `FetchThrows` | the same, for a reply that is `null` |
| `Serve`, `NewTable`, `Tick` | external: the Auth service and the clock |

Whether the directory knows the action at the moment is left open, so that
every decision may be a refusal. When a fetch fails, makeJsonRequest passes a
string and not an `Error`; staticJsonHandler then replies with that string as
with a result, and without an error in the header. This is the phase "text".
When the reply is `null`, `Object.keys` throws (`ticket.js:60`), and nobody is
called back: the phase "thrown". `Needs[t][a]` is a list, as in the code: it is
gone through to the end, and only the last privilege that the ticket lacks is
looked at then. If that one is blank (`null` or the empty string), nothing
counts as missing, whatever else the ticket lacks.

## Runs, bounds and what they show

| run | module | instance | distinct states |
|---|---|---|---|
| `conn_body` | MCMessageBody | one message, from a buffer of 6 bytes or written in pieces of 1 or 3, packets of 2, window of 3 | 9,538 |
| `conn_streams` | MCConnection | two messages, of one end or of both, window of 2, bodies up to 3, all three kinds of consumer | 733,122 |
| `framing` | Framing | up to three packets, lines of 2 or 3 bytes, payloads up to 3 of which 2 are allowed, buffers from 8 | 271,584 |
| `rpc` | MCRpc | three requests, one address, up to six clients | 477,198 |
| `cache` | MCCacheManager | two workers, of which one changes, one crash; intervals of 2 ticks, timeout 5, ten seconds 4, maximal age 10 | 339,575 |
| `dir` | MCServiceMgr | two workers, two keys, four announcements, thirteen files | 102,394 |
| `announce` | MCAnnouncer | two addresses, one change, three calls of suspend and start | 183,262 |
| `announce_doc` | MCAnnouncer | one address, one change, two calls | violation |
| `host` | MCServiceHost | three requests on two connections, all five handlers | 302,914 |
| `host_doc` | MCServiceHost | the same, with the handlers that reply | violation |
| `pubsub` | MCPubSub | two subscriptions, one refused, two items, three changes, two losses each, values longer than the window | 637,780 |
| `access` | MCAccess | three requests, two tables, six moments, term 2, fetches of at most 1 | 1,556,802 |

What they show, and why the bounds are enough:

- `conn_body` is about one message, since no state of the flow control is
  shared by messages. A body of six bytes fills a window of three twice and
  is written in up to six pieces; a write of three bytes is cut into two
  packets and overruns the window from every position in it. A DripSource
  that gives one byte at a time is paused in the middle of its loop, twice.
- `conn_streams` has two messages: two of the client, of which the first can
  end, with acknowledgements still under way, while the second is open; or one
  of each end. The ends run the same code, so it does not matter which end
  sends two or begins (`TwoMessages`). Every packet handler meets every order
  of the other message's packets. Consumers that make the connection break
  are among them: what breaks is the connection and never a stream, and
  nobody is left waiting.
- `framing` cuts the bytes at every place: pieces of one byte alone would, and
  pieces of three and eight end in the middle of a later packet. The first
  buffer holds one packet and a part of the next; a piece of eight bytes
  outgrows it. A header line may be as long as the limit and a payload longer
  than it.
- `rpc` has three requests because the interesting cases need that
  many: one whose reply is being read when the connection is lost, one that
  waits, and one made from the callback of another. Requests differ only in
  their names, so they are made in the order of their numbers (`InOrder`),
  which is sound for the liveness property too, as symmetry is not. One
  address makes all requests meet in one
  client; clients of different addresses share nothing but the code.
- `cache` has times in the proportions of the code: 2 * Interval < Ttl <
  3 * Interval for the factor 2.1, ten seconds longer than an interval, and a
  maximal age of which nine tenths are more than the ten seconds. Two
  versions of one worker are what an older copy needs to arrive late; the
  other worker makes the file change meanwhile. One crash is enough, as a
  process that starts remembers nothing and finds only the file and its age.
- `dir` has all files that hold at most one announcement of each worker, so
  that every pair of old and new file occurs: unchanged, changed with more or
  fewer actions, vanished, suspended (weight 0), in either order, and a file
  replaced in the middle of its load. A worker's announcement that changes
  shares a key with the other worker.
- `announce` has three calls of suspend and start around one change: suspended,
  started and suspended again, or started twice, and started while not
  suspended. With two packets of an address in compression before a tick, and
  more after a call, every overlap of an outdated packet with the one that
  replaces it occurs, on one address while the other has none.
- `host` has two requests on one connection, so that one counts when the
  other is answered, and one on another, so that the two counts differ. Every
  request may be for every handler.
- `pubsub` has two losses because the third delay is the first that the limit
  cuts; three changes make an item appear, change or vanish, and appear again
  while another, of a code that is not asked for, changes too. One value is an
  object: those are published again even when they are the same. The object is
  also longer than the window of flow control: a snapshot or an update that
  holds it may be overtaken, once or by several messages, and the other value
  overtakes it.
- `access` has time for a table to be fetched, to be withdrawn at once, to be
  used to the end of its term and to be fetched again. Both bounds are tight:
  with one moment less, `WithdrawnInTime` and `TicketWasGood` are violated.

Deadlock is checked for `dir` and `cache`, which never stop. The others stop
when their bounds are used up: every message sent, request made or change done.

`MaxBody`, `BodySize`, `Quota`, `Pieces`, `MaxPackets`, `MaxVersion`, `MaxCrash`, `MaxChange`, `MaxSwitch`, `MaxBuild`, `MaxPut`, `MaxLoss`
and `MaxTime` are bounds of the model and not of the code; `MaxSwitch` and
`MaxBuild` limit calls of the program and packets in compression. `MaxFetch`
is an assumption: a request times out, but nothing limits how long the body
of a reply may take. `Reg` and `Client` look like bounds but are not: they have as
many elements as can be in use (`NumberAlwaysFree` in `ServiceMgrProofs`,
`ClientAlwaysLeft` in `RpcProofs`).

## Fairness

Only what the code's own scheduling provides is assumed:

- `Connection`: the event loop handles what has arrived, starts a connection
  that was made and reports the end of its peer; a consumer that paused a
  message resumes it, without which nothing can be said. No program is
  assumed to write or to end anything, and no connection to stay up.
- `MessageBody`: also, process.nextTick makes the calls it was asked for, and
  a loop that runs goes on.
- `CacheManager`: time passes, timers fire, workers that are up announce
  themselves, and a network that is given an announcement for ever delivers
  it again and again (strong fairness of `Receive`). No manager is assumed to
  start.
- `Rpc`: timers fire, and a handler that has begun runs to its end. Services
  need not reply, connections need not be made.
- `ServiceMgr`: the event loop runs, and the cache manager touches the file
  (`CacheFile._touch`, every half of the maximal age). Without the touch a
  replacement in the same millisecond would never be seen. A file that is read
  again and again can be read some time (strong fairness of `LoadRead`):
  failures that never stop would leave the directory as it was.
- `Announcer`: timers fire and zlib finishes.
- `ServiceHost`: the timers of a stop fire, and a handler that replies later
  does so, which is an assumption about handlers. Nothing is assumed of peers:
  a request may never end.
- `PubSub`: the event loop runs, timers fire, the heartbeat goes on, and a
  server that is asked for a connection makes one. Losses may go on until
  their bound.

`Framing` and `Access` have no liveness property and assume no fairness. In
particular nothing says that every check of access ends: after a reply that is
`null` it does not.

## What the models found

**A suspended announcer may announce that it is available**
(`lib/discovery/announce.js:214`, run `announce_doc`). A packet that is ready
is dropped unless `_packet[addy]` is still `false`. `suspend()` empties the
cache, but at once calls `send()`, which puts `false` there again for the
negative packet. A positive packet that was in compression passes the check,
is cached and sent; the negative one then finds the cache full and is
discarded in its favour. The whole burst repeats the positive packet. The
comment at line 54 says that suspend sends announcements "to explicitly tell
clients that this node is, at least temporarily, unavailable". The same can
happen to a change when a build and the one that replaces it overlap.

**An idle timer runs while a reply is being sent**
(`lib/transport/beepish/connection.js:314-320`, run `host_doc`). The comment
says that a connection is not dropped "if there are pending requests or
inflight messages". `sendMessage` adds to `_outgoing` without looking at the
timer, and the server says that it is no longer busy just before it: a reply
given after its request has ended leaves with the timer set, and is cut when
its body pauses for longer than that. What does hold is `RequestsKeepOpen`: no
connection with an unanswered request can be dropped for inactivity. The
converse, seen in the same model: the end of a reply does not look at the
timer either, so a connection whose last reply was given at the end of its
request has no timer until its next message.

**A request that is never answered** (`lib/actor/service.js:164`). The model
has it as the handler "mute". `StopEnds` names two things that keep a stop from
ending: such a request, and one whose end never comes. A peer that vanishes in
the middle of a request is noticed by nobody, as the idle timer is off while
something is incoming (`lib/transport/beepish/connection.js:317`).

**A request that is answered twice** (`lib/actor/service.js:219`). Each second
reply is counted off, for good: a stop no longer waits for one of the requests
that are still running, and a connection may be dropped as idle with one.

**An event that is overtaken** (`lib/transport/beepish/client.js:54`,
`server.js:96-97`). A value longer than the window may arrive after the one that
replaced it and stay, until the next change or connection; and a subscription
whose first values are that long may be ready before it has them.

**A blank privilege** (`lib/util/ticket.js:85-91`). A `null` or an empty string
at the end of the list of what an action needs hides every missing privilege
before it.

**A pause and resume in one callback breaks the connection**
(`lib/transport/beepish/connection.js:205`). It is in `Connection` as the
consumer "bounce". When the connection breaks, the packets behind the refused
one are still handled (line 147): an end that has said 'lost' may be given one
more message, which nobody will ever end.

**A cache manager that hears nothing** (`src/script/cache-manager.js:130,
146, 153`). The constructor sets `contents`, everything else uses
`_contents`. A manager that finds a fresh file, waits its ten seconds and
hears nothing in them writes `undefined`: Node up to version 13 writes that
word, a file that lists nobody; from 14 on it throws, and the process ends. A
manager that finds no fresh file writes none until it hears something, and the
old one grows too old. `FileIsBag`, `FileFresh` and `Follows` say exactly what
does hold.

**Packets that are sent and refused** (`lib/transport/beepish/connection.js:
122, 289, 304`). DATA is cut at 131072 bytes, HEADER and TXERR are not: a longer
one is sent, and the other end drops the connection. `ReadsAll` says that this
is the only reason why `_readPackets` refuses what `_sendPacket` has sent. What
`_onpacket` refuses is in `Connection`, but for one branch: a TXERR with the text
'0' (line 229), which nothing in `src/` sends, as `service.js:242` makes its text
of an Error.

## Proofs

TLAPS proves, without a bound on anything, for any finite set of requests,
workers and so on (the named assumptions of the modules, which TLC evaluates
in the runs):

| module | theorem | of which property |
|---|---|---|
| `RpcProofs` | `TypeCorrect` | `TypeOK` |
| | `CallbackOnce` | `AnsweredOnce` |
| | `OneTimer` | `WaitingIsPending`, which no run checks by itself |
| | `AtMostOneRun` | `RunsOnce` |
| | `CacheAlwaysAlive`, `NoneStranded` | `CacheAlive`, `NobodyStranded` |
| | `SuspectNeverUsed` | `SuspectUnused`, an action property |
| | `ClientAlwaysLeft` | `ClientLeft`, stated with the proofs: a request that is made, or made again, never finds the clients used up |
| | `CallImplemented` | `ImplementsCall`: `Rpc` implements `RemoteCall` |
| `ServiceMgrProofs` | `TypeCorrect` | `TypeOK` |
| | `IndexAlwaysConsistent` | `IndexConsistent` |
| | `RegistrationsKept` | `LoadKeepsRegistrations` |
| | `AlwaysUpToDate` | `UpToDate`, stated with the proofs: what `Converges` needs besides fairness, from the first new mtime on, as long as every replacement is noticed and every read succeeds |
| | `NumberAlwaysFree` | that there is always a number for another registration |
| | `DirectoryImplemented` | `ImplementsDirectory`: `ServiceMgr` implements `Directory` |
| `AnnouncerProofs` | `TypeCorrect` | `TypeOK` |
| | `CacheAlwaysCurrent` | `CacheCurrent` |
| | `AlwaysSendsCurrent` | an action property of its own: what an address sends is true when it is sent, unless the address is racing |
| | `ChangeAlwaysGoesOn` | `ChangeGoesOn`, stated with the proofs: what `ChangeIsSent` needs besides fairness |
| `ServiceHostProofs` | `TypeCorrect` | `TypeOK` |
| | `CountsRight` | `CountsAgree` |
| | `NotDroppedWithRequests` | `RequestsKeepOpen` |
| | `StopWaitsForEarly` | `StopWaits` |
| | `StopAlwaysGoesOn` | `StopGoesOn`, stated with the proofs: what `StopEnds` needs besides fairness |
| `AccessProofs` | `TypeCorrect` | `TypeOK` |
| | `AlwaysWithdrawnInTime` | `WithdrawnInTime` |
| | `TicketAlwaysWasGood` | `TicketWasGood` |
| `CacheManagerProofs` | `TypeCorrect` | `TypeOK` |
| | `FileAlwaysBag`, `FileAlwaysFresh`, `HeardStaysListed` | `FileIsBag`, `FileFresh`, `StaysListed` |
| | `NewestAlwaysWins` | `NewestWins`, an action property |
| | `ListingAlwaysGoesOn` | `ListingGoesOn`, stated with the proofs: what `Follows` needs besides fairness |
| `ConnectionProofs` | `TypeCorrect` | `TypeOK` |
| | `AlwaysPausedIffFull` | `PausedIffFull` |
| | `EndsOnce` | an action property of its own: no message ends twice or opens again |
| | `AlwaysNoProtocolError`, `AlwaysAckChain`, `AlwaysWakeupComing` | `NoProtocolError`, `AckChain`, `WakeupComing` |
| | `StreamsImplemented` | `ImplementsStreams`: `Connection` implements `MessageStream` |
| | `SourceAlwaysObeys` | `SourceObeys`, of `MessageBody` |
| | `BodyIsConnection` | every behaviour of `MessageBody` is one of `Connection` |
| | `BodyFlowControlled` | the flow control of `Connection`, in `MessageBody` |
| | `AlwaysEndedAsSent` | `EndedAsSent`, stated with the proofs: no message ends but as its sender ended it |
| | `AlwaysEndComing` | `EndComing`, stated with the proofs: what `EndArrives` needs besides fairness |
| | `BodyAlwaysGoesOn` | `BodyGoesOn`, stated with the proofs: the same for `BodyArrives`, of a body that a source writes |
| | `AlwaysHandedIsSent`, `AlwaysReadsAll` | `HandedIsSent`, `ReadsAll`, of `Framing` |
| `PubSubProofs` | `TypeCorrect` | `TypeOK` |
| | `AlwaysBackoffDoubles` | `BackoffDoubles` |
| | `AlwaysMirror`, `AlwaysReadyShown` | `Mirror`, `ReadyShown`, whichever events are longer than the window |
| | `AlwaysGoesOn` | `NeverStuck`, stated with the proofs: a subscription never stops half way |
| | `AlwaysSettled` | `Settled`, stated with the proofs: what `SubscribersFollow` needs besides fairness |

No run checks the properties that are stated with the proofs. `TypeOK` of these eight modules is proved and no run checks it.

Each module has an inductive invariant `IInv` (`Framing` has `FramingInv`), a
lemma that `Init` implies it, one lemma per action that it is preserved, and a theorem `Invariance`.
None of the properties is inductive by itself. What the strengthening says:

- **Rpc.** That an action runs once depends on where the first attempt was:
  it is only dispatched again after its client failed without ever having
  been open (`SecondAttempt`), and what is sent went over a client that opened
  (`Carried`); the two exclude each other for one attempt. That nobody is
  stranded depends on the order in which a loss is told: while it is,
  `losing` names a closed client (`LosingClosed`), and that client is in the
  cache only until 'lost' has been emitted (`CacheAlive`). `SuspectEvicted`
  (a client on which a request timed out is in no cache) gives the action
  property. The refinement needs nothing more: an action runs for a caller who
  has called because what is sent was dispatched, and it never runs twice
  because of `RunsOnce`. That `Client` has enough elements is an argument about
  numbers: each client that is used was made for an attempt (`Spent`), and the
  one that is about to be made has none.
- **ServiceMgr.** That the index follows the registry needs that a
  registration is filed under the worker of the announcement it carries
  (`Owned`); that registrations survive a reload needs that only registered
  ones are on the list of old ones (`OldRegistered`), and that none leaves
  before the whole file was looked at (`KeptSoFar`). The refinement has to know
  what the last step of a load amounts to, and so what every step before it
  has done (`LoadInv`): the chunks to come are the end of the file that was
  read (`Remaining`); every registration is still on the list of old ones or
  carries an announcement already looked at (`Accounted`); every usable
  announcement already looked at is registered, and safe from the deactivation
  at the end (`Settled`); and what the load noted before it began, which
  registration carries which announcement, is still right for every chunk to
  come (`Noted`), although registrations are replaced meanwhile. `Settled`
  needs that a file names a worker once, which is `FilesAssumption`. That an
  idle observer is up to date needs what a load in progress knows when no new
  mtime has been seen: that the contents it read are those of the file
  (`Following`). Two things break it, a replacement within the millisecond of the
  one before and a read that fails; that neither happens is the hypothesis of
  `AlwaysUpToDate`, and the next touch repairs both.
- **Announcer.** A packet that is ready enters the cache if the address
  waits; it is the right one because all that the address has in compression
  is current, unless it is racing (`Waiting`): the first of them went in when
  nothing else was there, and a change would have emptied the cache and ended
  the wait. That the truth is told in the end rests on `Underway`: what is in
  the cache has been sent already, and a suspension is told, or its packet is in
  compression, from the first send on, so that for an address that is not
  racing the burst only repeats it.
- **ServiceHost.** The counts are differences of cardinalities: the requests
  not answered, less those answered twice. The loss
  of a connection answers several at once, all of them its own (`Owned`). A
  stop waits for early requests, all but as many as were answered twice, because
  the counts are right and `EarlyArrived` excludes requests that have yet to
  come. `StopGoesOn` says that a request that is not answered can hold the stop,
  or has a handler that replies later; it needs that a connection that closes ends what it was receiving (`ClosedEmpty`)
  and that a handler that replies at the end of its request still has that end
  to come (`Handled`).
- **Access.** The answer of a fetch is a table that the Auth service had after
  the fetch began (`AnswerYoung`), and no fetch is older than `MaxFetch`
  (`FetchShort`); so the table that is kept is never used later than its term
  and one fetch after the Auth service last had it (`TableYoung`), although a
  late reply may put an older table in the place of a newer one.
- **CacheManager.** That a worker stays in the file is an argument about time:
  the timer of an announcement and the time since the worker last announced
  itself run down together, so that the timer cannot end before a third
  announcement is due (`Elapsed`). That the file is fresh: the age of the file
  and the timer of the next touch, or what is left of the ten seconds,
  together stay below the maximal age (`AgeKept`). That a wrong listing never
  stays for want of something to correct it needs that no process has accepted
  anything newer than a worker's current announcement (`NothingNewer`), so that
  this one is never refused, and that a manager which has heard nothing has
  written nothing but an empty file (`UnheardEmpty`).
- **Connection**, one end. An acknowledgement that is accepted only narrows what is in
  flight, and a write only widens it, so that the pause flag needs no history.
  That an end is final needs that an end has counted the header of every
  message it knows (`KnownCounted`), and so never opens one again.
- **Connection**, both ends. What an end accepts depends on everything the
  other has sent and it has not read, in the output buffer or in the net
  (`Wire`). `PipeInv` describes one direction of the wire at a time, by what a
  packet means where it stands: the headers in it open the messages that are
  still to be opened, in their order; the body packets of a message continue
  its bytes from where the receiver is, up to what was sent; the end of a
  message is behind all of them, and nothing of a message is in front of its
  header or behind its end; the acknowledgements of a message rise from what
  its sender has heard to what its receiver has said. Each of these is a chain
  over the packets of one kind, and a step that reads a packet or adds some
  keeps it by one lemma about `Tail` and one about `\o`. That the last
  acknowledgement in a wire counts everything its receiver acknowledged
  (`LastAck`) is what wakes a paused sender. A bounced message breaks the
  chain of its acknowledgements and no other, which is why `bounced` appears
  in `AcksOf` alone. `WiresKept` says when an end that is closed may still
  have packets to read. The refinement follows from `PipeInv`: what a receiver
  is given next is what the stream of `MessageStream` holds next. `AllEndsKept`
  adds what becomes of the end of a message: it stays in the wire until its
  receiver has read it, and a receiver that ended a message otherwise has shut
  down.
- **MessageBody.** The source counts what it has written as the connection
  does, its pause flag is the message's, and it is spent exactly when the
  message has ended (`InStep`). `Write` and `End` of `Connection` are guarded
  by the message being open and not paused; the code of the source asks for
  neither, and `SourceObeys` says that when it gets there both hold anyway.
  `BodyIsConnection` makes every theorem about `Connection` one about
  `MessageBody`, fairness included: what the source writes is of a size that
  `Connection` knows, and `Drain` only listens. That a body goes on
  (`BodyGoesOn`) needs one thing more of `InStep`: a source whose message is
  open and not paused has a call of its own to come.
- **Framing.** The invariant (`FramingInv`) says what the buffer is: the bytes
  between `inStart` and `inEnd` are those of the stream that follow the packets
  handed on, as far as they have come in (`UnreadIsNext`), and every slice that
  was handed on lies within its buffer and, in the last one, before `inEnd`,
  where `_ondata` writes (`KeptSlice`). Its first part decides what the loop
  finds: a newline within the limit is the end of the next packet's line, the
  line is that of no other packet, and the trailer is where it should be
  (`CutsAre`, `ReadIs`). So what is not handed on yet is cut off by the first
  packet that is too long or not there as a whole (`AcceptedAre`). Where a
  packet stands in the stream is proved by induction over the number of
  packets. The provers cannot use an induction theorem about a predicate, but
  they can use one about a set (`Induction`, from the fact that `<` on `Nat` is
  well-founded), and that is enough to unfold the recursive function in
  `FlattenSeq` (`FlattenExists`, `FlattenUnique`, `FlattenGrows`).
- **PubSub.** What a connection goes through (`Linked`): nothing is on its way
  to a client before the server has handled its subscribe message, and a new
  connection has a number that no earlier one had. From then on the answer
  was sent first, the snapshot before its 'subscribe_done', and a subscription
  that is ready has nothing of it to come but a long snapshot (`Ordered`): the
  empty contents of 'subscribe_done' are never overtaken. `Mirror` follows the last message about an item through the queue: a change
  puts a new last one there, and a message that is handled moves its value
  from the queue to the copy, unless it overtakes an older one, which puts the
  item into `stale`. For `BackoffDoubles` the provers, who know
  nothing of powers, are shown that 2^(n+1) is twice 2^n by counting the
  subsets of `1 .. n + 1`. That a subscription never stops half way is an
  invariant of its own (`AllAwaited`), which does not need the order of
  messages: without a connection the wait for the next one is under way, and
  from the answer to the subscribe message until 'subscribe_done' has arrived
  it is in the queue.

Every invariant that a passing run checks is proved. Only model-checked are the
liveness properties (`EndArrives`, `SenderWakes`, `BodyArrives`,
`EventuallyAnswered`, `Converges`, `ChangeIsSent`, `StopEnds`,
`SubscribersFollow`, `Follows`), which are beyond this prover. Of all of them the
part that needs no fairness is proved, that nothing stops while something is
left to do (`EndComing`, `WakeupComing`, `BodyGoesOn`, `WaitingIsPending`,
`UpToDate`, `ChangeGoesOn`, `StopGoesOn`, `Settled`, `ListingGoesOn`, in the same
order). The refinements of `Connection`, `Rpc` and `ServiceMgr`
are proved for the safety part of their specifications, which is all that the
abstract ones have.

## Not modelled

- What a heartbeat does after it has expired: it sends another PING, to a
  socket that is destroyed. In `Connection` a heartbeat that expires is a
  `Close` at any time, in `PubSub` it finds a connection that has died. The
  timeout of a client that connects: a request that waits for that client has
  a timeout of its own.
- Listening on a port, and the message 'notify' from a client to a server.
- `Peering` of the cache manager: who is known to be a peer and when packets
  are sent again. What it delivers is in `CacheManager`, as further copies.
- The cache manager and its reader in one model: `ServiceMgr` takes any file
  at any moment (`Replace`, `Touch`), which is more than `CacheManager` does.
- The format of announcements and of tickets, and DataSplitter: algorithms
  over text, of which the other parts use only the result.
- The fingerprint of a service, checked when a client connects. The cache of
  clients does not have it in its key.
- Which service findAction chooses at random: `FindAction` gives the set it
  chooses from; `Rpc` lets it be any address.
- Logging, configuration, the command-line tools: output only or stateless.
- Circular discovery: unfinished; it refers to names it never defines.

## What is left

In this order, by what is most likely to be wrong and least likely to be
tested:

1. Requests, registrations and failures together: `Rpc` over `ServiceMgr`,
   with connectFailed on a registration that meanwhile announces something
   else, and listeners inside a load that look an action up.
2. `Peering` between several cache managers.
3. Run-length coded action tables of an announcement against a reference
   definition, and DataSplitter.
