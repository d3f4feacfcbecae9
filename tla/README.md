# PingServer in TLA+

PingServer is a single-threaded HTTP/1.1 server on edge-triggered `epoll`, with
its own memory arena, id lists, hash table and file cache. This directory holds
TLA+ modules of its core, the TLC configurations that check them, and proofs
for TLAPS about every one of its components. Paths below are those of the repository
(`src/net/...`, `include/...`); line numbers refer to it.

Run `tlc -config <run>.cfg <MC module>` for a model check and `tlapm <module>.tla`
for the proofs of a module: `Recursion`, `TcpServerProofs`, `PingArenaProofs`,
`ListProofs`, `StructureProofs`, `HttpProofs`, `MessageProofs`, `ChunkProofs`.

## 1. The system

| Component | State it keeps | Operations |
|---|---|---|
| Event loop (`src/net/event.c`) | kernel: interest set, ready list, timerfds | add, modify, delete a descriptor; one `epoll_wait`, then every event of its batch |
| TCP server (`src/net/tcp_server.c`) | `conn_array`, `event_tcp_array`, `event_timer_array`, two id lists, `stats.current_connections`, `running` | accept loop, `on_read`, `on_write`, `on_error`, timer, close |
| Connection (`src/net/connection.c`) | `conn_st`, `request_count`, two buffers | create, receive, send, send a file, close |
| HTTP (`src/protocol/http.c`) | `HttpContext` of a connection: request, response, `send_st`, `body_off` | read, check, process, write, close |
| Router and file cache (`src/route/router.c`) | `file_cache`, `cache_idx` | route, `get_fd`, string and file responses |
| Id lists (`src/ds/id_list.c`, `linklist.c`) | nodes linked in an array, a count | create, get, add |
| Ping arena (`src/ds/ping_arena.c`, `bitmap.c`) | bitmap, `ref_count`, `ref_len`, `now` | runs of blocks, counted small objects, give back, clean |
| Hash table (`src/ds/hash_table.c`) | entries, `alive_count`, `delete_count` | create, insert, query, delete, rebuild |
| Linked lists (`src/ds/linklist.c`) | `begin`, `end`, `count`, links of the nodes | insert and delete at both ends and in the middle, free |
| Table of primes (`src/other/prime.c`) | `prime`, `prime_size` | fill; `hash_create` searches it |
| HTTP parser (`src/protocol/picohttpparser.c`) | none; the decoder of chunked bodies has a state | parse a request, a response, headers; decode a piece of a body |
| Clock (`src/other/global_time.c`) | `g_time` | set, read |

The rest is listed in `PROJECT.json` and in section 8.

**How they interact.** `tcp_server_run` calls `event_loop_run` in a loop. That
takes up to 1024 events from the kernel and calls, through function pointers in
the structure behind each event, the handlers of `tcp_server.c`. An accept takes
one id from each of two id lists, one for the connection, one for its timer, and
creates the connection, whose two buffers come from the arena. `on_read` fills
the read buffer, lets the HTTP module parse and process it, and asks `epoll` for
`EPOLLOUT`; `on_write` then sends what the HTTP module has prepared, a string
from the send buffer or a descriptor of the file cache. Every way to end a
connection goes through `tcpserver_tcp_on_error` and
`tcpserver_delete_tcp_and_timer`, which give all of this back.

**What is hard.** There are no threads, but the order of things is not the
program's:

- a batch of events is fetched before the first is handled, so an event can be
  about a connection that another event of the batch has closed, or whose slot
  was given to a new client;
- edge-triggered `epoll` reports arrivals once: data that is not read, and
  clients that are not accepted, are forgotten unless something else happens;
- the peer sends, closes and stops reading between any two steps, timers expire
  between any two steps, and sends and `sendfile` take less than was asked for;
- every system call and every allocation in the accept loop can fail, and each
  failure must put back exactly what this round has taken;
- slots, request budgets, buffers, arena, descriptors and the file cache all
  have limits, some of them tested with `==`;
- slot numbers, arena blocks and descriptors are reused at once, so that a
  stale one is not an error but somebody else's.

What makes each component correct:

- *Server*: a slot is free or in use, never both, never neither; a connection
  and its timer belong together; the counter that steers accepting and closing
  is right; no handler acts on a connection other than the one its event is
  about; no data, response or client is forgotten.
- *Id lists*: a pool of numbers, none given out twice.
- *Arena*: what it hands out is apart from everything in use, and its
  bookkeeping agrees with what is in use.
- *Hash table*: a key that was inserted is found, with the value that was accepted
  first, until it is deleted.
- *File cache and responses*: a cached name leads to its file, no descriptor
  is lost, the client gets the bytes of a body in order and no more than its
  `Content-Length`.
- *Paths*: only files below `static/` are opened.
- *HTTP*: the parser takes exactly the messages of its grammar, however they
  are cut into pieces, and refuses only what nothing can complete; each request
  of a connection is answered once, with its own answer.
- *Clock*: the age of a connection is right.

## 2. Modules

| Module | Models | State and actions |
|---|---|---|
| `TcpServer` | event loop, server, connections, HTTP by outcomes | see section 3 |
| `TcpServerProofs` | theorems about `TcpServer`: slots, links, events; data, responses, owners of slots | |
| `IdPool` | what `id_list.h` promises: a pool of numbers | `free`, `out`; `Take`, `Put` |
| `IdLinks` | `id_list.c` and the part of `linklist.c` it uses | operators on a list record: `begin`, `end`, `next`, `count` |
| `SlotPool` | both id lists as `tcp_server.c` uses them | `tcp`, `timer`, `pair`, `current`, `last`; implements `IdPool` twice |
| `Allocator` | what `ping_arena.h` promises: regions apart from each other | `live`; `Alloc`, `Free`, `Clear` |
| `PingArena` | `ping_arena.c`, with `bitmap.c` as a set | one variable per field, one action per function; implements `Allocator` |
| `PingArenaProofs` | theorems about `PingArena` and `ArenaBits` | |
| `ConnBuffers` | the two buffers of a connection in the arena: `connection_create`, `connection_recv`, `connection_close` | the runs of every connection, `read_buf->len`, the length in front of each run |
| `ArenaBits` | `bitmap.c` and the macros of `bitmap.h` under the arena | the actions of `PingArena` with the bytes of the bitmap beside the set |
| `LinkList` | every operation of `linklist.c` | two lists over the same nodes, with `prev` and `next`, and the orders they stand for as history |
| `HashTable` | `hash_table.c` | the table and its counters, with the values that were accepted for each key as history |
| `Primes` | `prime.c` and the beginning of `hash_create` | the table of primes; the size that was asked for |
| `Clock` | `global_time.c` and the age that the timer handler computes | the clock of the system, `g_time`, `last_activity` |
| `Responses` | file cache, fields of a response, `connection_send_fd` | descriptors, cache, responses; an action per outcome of process and write |
| `HttpPath` | `is_safe_path`, the route table, name and content type of a static file | all paths up to a length |
| `HttpParse` | the parsers of `picohttpparser.c` | operators from a buffer to a result, one for each function |
| `HttpMessages` | what a message is by its lines | all texts behind some beginnings |
| `HttpRead` | `http_protocol_read`, `on_read` and `on_write` for one connection | `read_buf`, `last_len`, `send_st`, what was sent and what was answered |
| `HttpCheck` | `http_protcol_check`, `find_header`, `parse_content_length` | all requests of up to three headers |
| `ChunkDecoder` | `phr_decode_chunked` | the decoder, the data it gave, the bytes it was given |
| `Recursion` | theorems: induction, and the existence of recursive functions | |
| `ListProofs`, `StructureProofs`, `HttpProofs`, `MessageProofs`, `ChunkProofs` | theorems about `SlotPool` and `LinkList`; `Primes`, `HashTable` and `Clock`; `HttpPath`, `HttpCheck` and `Responses`; `HttpParse`, `HttpMessages` and `HttpRead`; `ChunkDecoder` | |
| `MC...` | instances for TLC | `MCStructures` and `MCHttp` put several modules side by side, of which one works at a time |

`SlotPool` composes two instances of `IdLinks` with the accept loop, the branch for a
full server and the closing of `tcp_server.c`. `TcpServer` has the same two lists as
sequences, which is what they are until a full server puts an id back that is in use:
then the links become cyclic. `TcpServer` stops there (`pc = "corrupt"`), and
`SlotPool`, which has the links, goes on from there. `ConnBuffers` puts connections on
top of `PingArena`, whose users are taken there to stay inside what they got, and shows
that `connection_recv` does not. `Responses` takes from `TcpServer` that connections
come and go at any time, and adds the descriptors that `TcpServer` abstracts from.
`HttpRead` is the view of one connection that `TcpServer` leaves open: there a read has
an outcome, here it has the bytes that lead to it, through the parser, and
`is_close_connection` decides with the same counter. `ArenaBits` extends `PingArena`,
action by action, and `HashTable` takes a size such as `Primes` finds.

**Bytes.** A byte in `HttpParse` is a kind of byte, as many as the parser tells apart;
the seven bytes `HTTP/1.` are one symbol, whose length of seven is kept where the parser
counts (`Width`). Three things of the parser that look odd are in the model as they are
in the code: `GET / H` with a blank line behind it is undecided, not refused, because a
version is only looked at when nine bytes are there; `last_len` is unsigned, so that the
-2 which `http_protocol_read` puts in it leads `is_complete` back in front of the
buffer, into its own header (`ResumeAt`); and `phr_parse_headers`, called again without
any header so far, never completes (the server does not call it).

## 3. The event loop (`TcpServer`)

**State.** `pc` is where the thread is: in `epoll_wait`, between two events, in
one of the handlers, or ended (`Ended` names the ways). `conn` is `conn_array`,
reduced to the fields the control depends on; `timeEvent` and `timerTcp` are the
pointers between a connection and its timer; `tcpIds` and `timerIds` the free
lists; `current` and `refs` the counters. The kernel is `interest` (the epoll
registration), `ready` (its ready list), `timers`, `backlog` (the listen queue)
and `sock` (unread data, peer closed, room to send).

**Steps.** A step is what the thread does between two points where others can
act: `epoll_wait`, the choice of the next event, one handler, and one round of
the accept loop. The kernel and the clients act between any two steps. Handlers
are modelled by their outcomes, one action for each: `ReadRefused`,
`ReadNoContext`, `ReadParseError`, `ReadNeedMore`, `ReadCheckFails` and
`ReadRequest` are the returns of `tcpserver_tcp_on_read`. `epoll_wait` takes any
subset of the ready list of the size that fits, and the batch is handled in any
order; the code has the kernel's order, which is one of these.

**Close** is `tcpserver_delete_tcp_and_timer` with `http_protocol_close` under
it. Its retry loop ends only when `connection_send` answers done or error; a
connection that has used up its requests gets `ERROR_CONN_FULL` for ever, and
the thread stays there (`pc = "spin"`).

**Outcomes the models contain.** The actions follow the code into each of
these; where no document promises otherwise they are described here and have
no run:

- a 404 aborts the debug build: the string response has `body_fd = -1`, so its
  length is 0 (`http.c:235`), and `connection_send` asserts that there is
  something to send (`connection.c:110`); the release build sends nothing;
- running out of arena memory for a new connection ends the server: -1 at
  `tcp_server.c:226` reaches `tcpserver_listen_on_error`. The arena has 4096
  blocks and a connection takes 6, so this limit is met at 682 connections, far
  below the 4096 slots;
- a refused request gives its `HttpContext` back twice (`tcp_server.c:442` and
  the close after it);
- an event with both `EPOLLIN` and `EPOLLOUT` whose read closes the connection
  goes on to a handler that is NULL (`event.c:117`);
- a client that is not kept, one of HTTP/1.0 say, never gets the response that was
  prepared for it, `Connection: close` and all (`http.c:162`, `255`):
  `is_close_connection` is asked between `on_process` and `on_write`, and closes
  what is not kept (`tcp_server.c:450`). What it gets is the empty 200 of
  `http_protocol_close` (run `tcp_short`);
- a timerfd is read with one byte, which fails, so each timer expires once;
- a write to a peer that has reset raises SIGPIPE, which nothing handles;
- an insertion into the hash table of a key that is there with another value returns
  TRUE and stores nothing (`hash_table.c:37-41`), although `hash_table.h:2` says
  that equal keys can be stored and `hash_table.c:25` that the value is copied in. `QueryExact`
  therefore speaks of the first value that was accepted for a key, and is no
  claim that the last one is found. No code in `src/` uses the table yet;
- a chunked body whose encoding costs too much is refused when it comes in pieces and
  taken when it comes whole: the limit (`picohttpparser.c:692-695`) is only looked at when
  a call ends in need of more. `CutsHidden` says that this is all that a cut changes.

Once the thread has ended nothing is asked of the model any more, except by
the invariants about slots and links, which hold there as well.

## 4. Runs

| Run | Instance | What it shows |
|---|---|---|
| `tcp_deep` | 2 slots of which memory allows 1, 2 clients one after the other, 7 calls of `recv` and `send`, batches of everything, failing system calls, release build | no data and no response without an event that leads to it; `on_write` never without a response; under fairness a processed response is tried, and a peer that closes has its slot freed, also when it has been answered before |
| `tcp_wide` | 3 slots of which memory allows 2, 2 clients, 2 calls each, batches of everything, debug build | slots, pairs, counter and events agree in every order of a batch; under fairness the listen queue is drained |
| `tcp_full` | 2 slots, memory for both, 3 clients | a full server puts back the ids of a live connection; a further client then gets the slot that was freed, and the live one is left alone; the types |
| `structures` | id lists of 4 slots; 2 linked lists over 4 nodes; primes up to 120; 7 entries, 4 keys of which 3 collide, 2 values; a clock of three seconds; an arena of 5 blocks of 3 bytes, runs of 2 and 4, objects of 1 and 2 bytes, counts up to 2, bytes of 2 bits | the id lists remain pools when their links have become cyclic; linked lists are exact in both directions; the table of primes is whole and the size found in it the smallest; the hash table finds what was inserted first and has room for what it was created for; ages are exact; the arena implements `Allocator`, with exact bitmap, bytes and counts |
| `http` | paths of up to 6 symbols with a limit of 5; 18 beginnings with up to 3 bytes behind them; 4 pieces in a buffer of 20 bytes; 3 headers; bodies of up to 11 bytes in pieces of 1 and 2; 2 cache entries, 2 files of 1 byte and one of 3, 5 descriptors, 2 connections | exactly the safe paths are safe and only files below `static/` are opened; the parsers take exactly the messages, fields and all; no request is missed for being cut; a refusal is final; chunked bodies are complete, wrong or in need of more as the grammar says, in every cut; the cache is never wrong, no descriptor is lost, bodies are sent in order |
| `tcp_timer` | 1 connection | **violated**: a timer event is handled after its connection was closed |
| `tcp_timeout` | 1 connection | **violated**: the timer handler does not close an idle connection |
| `tcp_short` | 1 connection | **violated**: a client that is not kept is closed before its response is written |
| `tcp_first` | 1 connection | **violated**: the first file that is sent to a client that is kept closes its connection |
| `response_whole` | 1 connection | **violated**: `CONN_SEND_DONE` although a part of the file was skipped |
| `keep_alive` | 1 connection, 4 pieces | **violated**: what follows the first request is answered with its answer |
| `buffer_full` | 2 connections, buffers of 2 blocks in an arena of 8 | **violated**: a full buffer overwrites the length of the run behind |

`structures` and `http` check modules that share nothing. `part` says which one
works; the others stay in one initial state, so that the states add up and are
not multiplied.

**Why the bounds are enough.** Events, slots and timers interact in pairs: two
connections over three slots have a slot that is reused while the other one is in use,
one that is never used, and a batch that holds the listen event, sockets and timers.
Seven calls pass every comparison with `request_count`, which are with 2 and with the
limit, and leave room for a read, a header and a body before the last three, in which
`PeerCloseNoticed` asks for nothing (see fairness). With three clients for two slots
`tcp_full` meets the full server with a client still waiting, puts live ids back, closes
one connection and accepts the third client; `TcpServer` ends when the links become
cyclic, which takes one more close. `SlotPool` has no bound on clients, and bounds
instead how often a full server puts back what it had not taken (`MaxDrift` 4, which is
once for each slot). The arena of 5 blocks has searches that start in the middle, wrap
and fail, and runs inside a byte of its bitmap, over a border and over whole bytes; a
`Marker` of 2 lets the 8-bit count reach the value that marks a run, 255 in the code,
and lets it wrap. Seven entries are the smallest prime table for 3 elements; the keys 0,
7 and 14 share all their probes, and the key 1 meets them at the second. `MaxCount` 4
bounds `alive_count`, which deletes do not lower, and is past the value at which the
rebuild happens. `Wrap` is 2^32 in the code; the instance has the least power of two
above the square of the last probe's step, 6. Five descriptors are two sockets, the two
files of the cache and one that is being opened; with three files the descriptor of a
prepared response can be closed by the cache and given to a longer file. Six symbols
hold an escape within a path, or `/static/` with a name behind it and a query, and are
one more than the limit of `is_safe_path`, 2048 in the code (`MaxPath`). No name of the
instance is as long as the limit of names (`MaxName`, 5; 256 in the code). The
beginnings of the texts lie in every part of a request and of a response, so that three
bytes behind each reach every branch of the parser and the next part; four pieces are a
first one, one that is too short again, one that completes the request and one behind
it; a buffer of 20 bytes holds the longest first request and is filled by what follows.
`MaxReq` 6 is reached, so that reads are refused. Four nodes are a first, a last and two
in the middle, or two in each list. A table of primes up to 120 with one of three has
enough entries for every path of the binary search. The seconds of the clock have nine
nanoseconds, so that each difference of both parts occurs.

`CHECK_DEADLOCK FALSE` is set where the program may stop: in `TcpServer` when
the thread has ended or no client is left, in `SlotPool` when `id_list_get`
follows what `malloc` left in the last node, or the drift bound is reached, in
the modules of `http` at the longest text, and in `ConnBuffers` when a length is overwritten.

**The violations.** They are disagreements of the code with itself or with
its comments.

- `tcp_timer`: the assertion at `tcp_server.c:463` says that a connection and
  its timer exist together. The timer event of a connection may lie in the batch
  behind the event that closes it; `tcpserver_time_on_read` then follows NULL.
- `tcp_timeout`: the comment at `tcp_server.c:547` says that a connection that has
  timed out is reported to `on_error`. The condition at line 558 also asks for
  `CONN_ST_CLOSING`, which only `connection_close` sets, when the timer is
  being deleted anyway.
- `tcp_first`: the comment in `is_close_connection` is lenient with a connection the
  first time (`tcp_server.c:115`), and `def.h:48` lets a part wait for `EPOLLOUT`. The
  code closes a connection that is idle with at most two calls counted, which is every
  one of HTTP/1.1 whose request came in one piece and whose response is a file, as soon
  as the first `on_write` has sent the header: `connection_send_fd` counts nothing and
  leaves `conn_st` alone. A file larger than the room in the socket is cut there. Later
  responses do not close.
- `tcp_short`: the comment at `tcp_server.c:430` hands a processed request on to `on_write`, and
  `http_protocol_write` has a `Connection: close` for the client that is not kept
  (`http.c:255`). `is_close_connection` is asked in between and closes exactly that
  client, on a server with room too.
- `keep_alive`: `on_write` empties `read_buf` only in the state `HTTP_SEND_DONE`, which
  nothing sets, so on a connection that was kept every later read finds the
  first request again, and answers it again. (A connection outlives its first response
  when more than two calls were counted until then: the request came in pieces, or the
  response is a string, whose body is sent with a call of its own. The requests of
  the trace pass `http_protcol_check`, `MayPass`.)
- `buffer_full`: `buffer.h:7` calls `cap` the total capacity, and `buffer_create`
  allocates it on top of the header (`buffer.c:11`). `connection_create` stores the size of the
  whole run in it (`connection.c:33`, `39`), so the last twelve bytes that
  `connection_recv` may write lie behind the run: over the length in front of the next
  one and the first of its bytes. `arena_recycle` reads that length. With `cap` less the header
  the property holds: then the run behind is not reached.
- `response_whole`: `sendfile` advances the offset it is given and
  `connection.c:176` advances it again. A short `sendfile` makes the loop skip
  as many bytes as it sent. `body_off` is also not reset between two responses
  of one connection (`http.c:163`).

**Fairness.** `FairSpec` is `Spec` with `WF_vars(EventLoop)`: the one thread keeps
taking steps when it can. There is no fairness for the choice inside a batch,
none for clients, none for timers, and no signal has to interrupt `epoll_wait`
(`EpollWaitFails` is a step that is never forced). That is the weakest assumption under
which anything happens, and a process that the system schedules satisfies it.
In the runs of liveness `BatchMax` is at least the number of event sources, so
that no event stays in the ready list when a batch is fetched: the kernel's list
is a queue, the model's is a set, and with smaller batches the model could pass
an event over for ever, which the kernel cannot. `tcp_deep` has failing system calls;
`tcp_wide` has not, because a listen queue that is left behind when descriptors run out is
announced again only with the next client, which nothing forces.

`PeerCloseNoticed` does not take the thread's end in `http_protocol_close` (`"spin"`) for
noticing a peer. It leaves out connections within three calls of their budget, which are what
one event can use, because those do spin when they are closed, and with them everybody
else stands still. That a connection which has been served before is freed is therefore
shown, and that one at its limit is not is said in section 3.

**Refinement.** `SlotPool` implements `IdPool` twice, with `free` mapped to the
nodes in front of each list, as many as there are free slots, and `out` to the
slots and timers of live connections. `PingArena` implements `Allocator`: a run
or a small object that is handed out is inside the arena and apart from every
other region. The properties `ListsArePools` and `IsAllocator` say so step by step.

## 5. What is proved

A theorem holds for every value of the constants that the assumptions of its module
allow; the runs show the same formula on one instance. Of the 38 properties
that the passing runs check, the 35 invariants, action
properties and refinements are theorems; the three
properties of liveness are not.

### The event loop

`TcpServerProofs` proves, for every number of slots, clients, requests and
batches, for both builds, and with failing system calls:

| Theorem | Property |
|---|---|
| `TypeCorrect` | `TypeOK` |
| `SlotsSafe` | `SlotsConserved`: no id twice in a list, none both free and in use, none lost while the server runs |
| `PairSafe` | `PairLinked`: a connection and its timer point at each other, a free timer cannot expire |
| `FreeIdSafe` | `FreeIdForFreeSlot`: while a slot is free, both lists have an id |
| `FreshSafe` | `TcpEventsFresh`: a socket event is always about the connection that holds the slot |
| `CountSafe` | `CountExact`: the counter is the number of open connections |

**Assumptions.** `ConstantsAssumption` (the constants have their types) and
`ArenaConns < MaxConn`: memory for connections runs out before the slots do. That
is so in the program (682 and 4096). It is needed, because at a full server
the ids of a live connection are put back and `SlotsConserved` fails; that case
is left to `SlotPool`, which shows that it does no harm. Nothing is assumed of the
environment: clients, kernel and timers may do everything their actions
allow.

**Argument.** None of the properties is inductive. `FreeIdForFreeSlot` needs that the
lengths of the lists follow the counter, `PairLinked` that the two lists run in step,
which makes the timer of a slot have the slot's own number, and `TcpEventsFresh` that
each slot has at most one event in a batch, and none while its connection is being
handled; otherwise the close in one handler could leave an event behind. `SlotInv` and
`EventInv` state these facts, conjunct by conjunct. Their conjunction with `TypeOK`,
`Inv` in the proofs, is inductive: one lemma for each handler shows that it is
preserved, the many ways to close a connection share one lemma about `Close`, and the
accept paths one about taking an id. The properties follow from it. (`SlotInv`,
`EventInv`, `FreeIdForFreeSlot` and, of the arena, `TypeOK` and `RegionsApart` are
proved, and no run repeats them.)

### What the server owes its clients

The second half of `TcpServerProofs` proves, under the same assumptions:

| Theorem | Property |
|---|---|
| `NoDataStranded` | `NoStrandedData`: unread data has an event or a handler ahead that will look at it, as long as the buffer has room |
| `ResponseStaysArmed` | `ResponseArmed`: a response that can be sent has an event that leads to `on_write` |
| `ResponseForWrite` | `WriteHasResponse`: `on_write` has a context and a response |
| `OwnerSafe` | `SlotKept`: a connection keeps its slot until it is closed (an action property) |

**Argument.** `epoll` reports an arrival once, so that these are promises about
events that no step may lose. The invariant is `ResponseInv`, `DataInv` and `ResponseArmed`,
on the ground of `Inv`. `ResponseInv` says that a response is prepared exactly while
the registration asks for `EPOLLOUT`, so an event for writing, wherever it is in a
batch, is about a response. `DataInv` is `NoStrandedData` with a smaller set of
events: one that was fetched for `EPOLLOUT` alone announces no data, since `on_read`
is not called for it. A step either leaves all connections alone, or handles one of them,
or changes what the kernel has; one lemma for each of these shapes does the work of all
handlers. `SlotKept` needs `Inv` only: the id that an accept takes is none that a
connection has.

### The arena

`PingArenaProofs` proves, for every number and size of blocks, every width of the
counter and all sizes that are asked for:

| Theorem | Property |
|---|---|
| `ArenaTypeCorrect` | `TypeOK` |
| `BitmapSafe` | `BitmapExact`: exactly the blocks of the regions in use have their bit set |
| `CountsSafe` | `CountsExact`: a count is the number of objects in its block, or marks a run |
| `RegionsSafe` | `RegionsApart`: the regions in use are inside the arena and apart |
| `ArenaImplements` | `IsAllocator`: `PingArena` implements `Allocator` |

**Assumptions.** `ArenaAssumption`: nobody asks for nothing, for more than a block
as a small object, or for more than the arena as a run; and, in the model, users
stay inside what they have been given, and give it back once. The server keeps to neither:
`connection_recv` can write over the length of the run behind (run `buffer_full`, module
`ConnBuffers`) and `tcp_server.c:442` gives a context back twice. The theorems say what the arena
does for users who do keep to it; that the length in front of a run is intact is
a lemma under this assumption, and is not claimed of the server.

**Argument.** The invariant is the conjunction `AInv` of the five invariants; none of
them is inductive alone. That a bit is cleared only when nobody uses the block
needs that the counts are exact; that a count is exact after it was lowered needs
that the block is none of a run, which follows from the regions being apart; that a
new object is apart from the old ones needs that they end before `ref_len`; that
`ref_len` may be taken as 0 in a free block needs that it is 0 in the blocks of a
run, which `arena_recycle` leaves alone; and that a run is cleared as it was
taken needs the length in front of it. Four lemmas about `%` say when indexes
and counters go round; the count of objects rests on the theorems about
cardinality. There is one lemma for each function of the arena, which also shows
that the step is one of `Allocator`, so that `ArenaImplements` follows from the
invariant and these.

The second part of the module goes below the arena:

| Theorem | Property |
|---|---|
| `ScanSafe` | `ScanFindsChosen`: the loop of `arena_alloc_block` finds the run of blocks that the specification chooses, and fails only when there is none |
| `BitsImplement` | the arena with a bitmap of bytes (`BitsSpec`) takes only steps of the arena with a set of blocks (`Spec`) |
| `BitsSafe` | `BitsExact`: the bits that are set in the bytes are those of the blocks in use |

The loop is a recursive function of the position and the length found so far; the proof
follows it from the start around the end to the last position where a run can begin.
`BitsInv` is `AInv` with the bits: a range inside a byte, over a border and over
whole bytes are the cases of one lemma about the masks, for any width of a byte
(`WidthAssumption`).

### Loops, and why they can be proved about

The library states induction for an operator, which the provers cannot use here.
`Recursion` states it for a set (`Least`, `Induction`, `RankInduction`), derived from the
well-founded order of the numbers, and proves `RecursiveFunctionExists`: a recursive
definition, given as a function `G` of an argument and of the function that is
defined, has a solution when `G` looks only at arguments of a lower rank. TLA+
defines a recursive function by `CHOOSE`, which says nothing until a solution is
known to exist; with this theorem each loop of the models can be unfolded (`...Unfolds`,
one lemma for each) and reasoned about by induction. That is what the
following sections rest on.

### Cache and responses

The second half of `HttpProofs` proves, for every size of the cache, number of descriptors and of
connections, and for all files:

| Theorem | Property |
|---|---|
| `CacheSafe` | `CacheTruth`: a name in the cache leads to the descriptor of its file |
| `DescriptorsKept` | `NoFdLost`: the files that are open are the ones in the cache |
| `SentSafe` | `SentInOrder`: a client is sent bytes of a body in ascending order, not more than `Content-Length` |

**Assumptions.** `ResponsesAssumption`: the cache and the descriptors are at least one
each, a file has a length (0 is one); `FilesAssumption`: a file is none of the markers of
the model.

**Argument.** `DescriptorInv` adds that connections have different sockets and that a cache
entry without a file has no descriptor: then closing one descriptor never touches
another's, although numbers are reused at once. `SendInv` adds that what a client has got
lies below `body_off`. The loop of `connection_send_fd` only raises
`body_off`, and by at least as much as it sends, which is also why a short `sendfile` skips
bytes (run `response_whole`) but never repeats any.

### Lists

`ListProofs` proves, for any number of slots and of nodes:

| Theorem | Property |
|---|---|
| `FreeInFrontSafe` | `FreeInFront`: what an id list gives out next is free, also when the links have become cyclic |
| `ListsImplement` | `ListsArePools`: both id lists implement `IdPool` |
| `ListsSafe` | `ListsExact`: forwards and backwards a linked list has its nodes, and nobody else's |
| `ListsTell` | `RetExact`: an operation returns TRUE exactly when it has changed the lists (an action property) |

**Assumptions.** `SizeAssumption` (at least two slots, as `id_list_create` needs),
`MaxDriftAssumption` and `NodesAssumption` (the nodes are finitely many addresses, and
neither NULL nor what `malloc` left).

**Argument.** `PoolInv` says of each id list that its first `Size - current` nodes are the free
ids, each once, whatever the links do behind them. Putting an id back makes it the first
or the last node; a full server, which puts back what it has not taken, does so behind
the free nodes, of which there are none then. `ListInv` says that the links of a
list are its nodes in their order, that no node is twice in a list or in two of
them, and that a node outside has no links. A walk along the links is unfolded as above.

### Primes, hash table and clock

`StructureProofs` proves, for every range of primes, capacity, key and resolution:

| Theorem | Property |
|---|---|
| `TableSafe` | `TableSound`: the table is filled to its counted end with the primes, ascending |
| `SizeSafe` | `SizeExact`: the search finds the smallest prime that leaves the table half empty, or none when there is none |
| `HashTableSafe` | `QueryExact`: a key that was inserted and not deleted is found with the first value accepted for it, and no other key is found |
| `HashTableRoom` | `RoomForNew`: there is an entry for each new key up to the capacity |
| `AgeSafe` | `AgeExact`: the age is the time since the last activity to less than two milliseconds |

**Assumptions.** `PrimeAssumption` (the table keeps one prime in at least three; in the
code it is one in a hundred; below three the loop that counts and the loop that fills,
which begin two numbers apart, would not fit together), `HashAssumption` (there is a
table of primes, with a size for the capacity, and that size is below 65536, so that the
32-bit square in `hash_delete` does not wrap), `ClockAssumption` (the 64-bit difference
is wider than the clock runs).

**Argument.** `PrimesInv`: the table is absent or complete; the sieve, its count and its
second pass are recursive functions whose values are proved. `HashInv` rests on
`Represents`: each key of the mapping is alive in exactly one entry, and no entry before
it on its path of probes is empty. A tombstone keeps such paths, a rebuild makes them
anew. That there is room needs number theory: the size is a prime `p` (Euclid's lemma is
proved, from the least counterexample), so the first half of the quadratic probes of a
key are different entries (`ProbesApart`), and they are more than the keys that are
stored. `ClockInv` keeps the beginning that both times are counted from.

### Paths and checks

The first half of `HttpProofs` proves, for paths and requests of any length:

| Theorem | Property |
|---|---|
| `PathsExact` | `SafePathExact`: `is_safe_path` accepts exactly the safe paths within its limit, whatever the limit |
| `FilesConfined` | `StaticConfined`: a file that is opened lies below `static/`, and its query is neither in its name nor in its type |
| `RefusalsStay` | `RefusalStays`: no further header makes a refused request right, except a `Host` that was missing (an action property) |

**Assumptions.** `PathAssumption` and `CheckAssumption` give the bounds their types.

**Argument.** `SafePathExact` is a statement about the loop alone: what the rest of the path
decides, in each state of the loop, is proved from the end of the path backwards.

### The parser, and requests in pieces

`MessageProofs` proves, for texts of any bytes and any length:

| Theorem | Property |
|---|---|
| `ParsersExact` | `MessagesExact`: a request, a response and bare headers are found exactly where their lines say there is one, with its last byte and without any byte behind it |
| `FieldsAreExact` | `FieldsExact`: method and path are the first two words of the request line, each whole, and name and value of each header are what stands in the lines |
| `RefusalForEver`, `RefusalIsRight` | `RefusedForGood`: what is refused is the beginning of no request, whatever comes after it; the second is the invariant, with the endings of the run |
| `RequestsFound` | `NoRequestMissed`: a request that comes in pieces is found with its last piece |

**Assumptions.** `MessagesAssumption`: a text begins as some sequence of bytes, and at least
one header is allowed; `ReadAssumption`: the types of the bounds, and that what arrives is bytes.

**Argument.** The parser walks from position to position, its grammar counts lines. The
bridge is `FeedAt`, the place of the n-th line feed: `LinesOf` is unfolded to the text
between two of them, and the loop of `parse_headers`, a recursive function of the position
and the headers so far, is followed from one to the next by `RankInduction`
(`HeadersExact`). A step of that loop takes a line exactly when it is a header of the grammar,
and what it takes as name and value are that header's. The request line and the status line are
described by the positions of their parts. `RequestExact`, `ResponseExact` and
`OnlyHeadersExact` say for each prefix of a buffer that it is a message just when the parser
ends behind it; the rest of the buffer has no part in that.

`RefusalForEver` compares two buffers, one the beginning of the other (`Grown`). Each part
of the parser keeps what it has found and what it has refused when bytes arrive; only "more"
may change (`Kept`). `KeptOn` joins the parts, so that it holds for the whole (`RequestKept`)
and for `is_complete` (`CompleteKept`).

Both this and `NoRequestMissed` need that what `phr_parse_request` can parse has a blank
line where `is_complete` looks for one (`RequestEnds`). Between two line ends the search
forgets what it has counted (`PlainSkips`), each part of the request line and each header is text
without line ends, and behind the last header the search is one line end from its goal.

### Chunked bodies

`ChunkProofs` proves, for bodies of any length:

| Theorem | Property |
|---|---|
| `CutsSafe` | `CutsHidden`: a chunked body gives in every cut what one run of the loop over all its bytes gives; a cut can only add the refusal of a costly encoding |
| `BodiesExact` | `ChunksExact`: a body is complete, in need of more or wrong, and has the data and the rest, as the grammar says; need of more is a refusal when the encoding is too costly |

**Assumptions.** `ChunkAssumption`: the bounds are numbers; any digits may be the limit of
a size, any number the limit of the overhead.

**Argument.** `CutsHidden` compares the calls so far with one run of the loop. The
decoder counts what it has read and its overhead per call, so the two do not run through the same
states: they run through states that differ in these costs (`Shifted`), and each byte
keeps the difference. The limit on the overhead is only looked at behind the loop, where
the cost is a number of bytes read and put out (`Costly`), the same for every cut. For
`ChunksExact` the loop over the whole stream is followed
from part to part of the grammar: through the digits of a size (`SizeRun`), its extension
(`ExtRun`), the data (`DataRun`) and the trailer (`TrailerRun`), each with a lemma that says
what the loop has put out, what it still expects, and where it is when the part
ends, is refused, or the stream ends in it. `Body`, a recursive function over the position,
is unfolded chunk by chunk (`BodyUnfolds`), and `BodyRun` joins the parts by induction on
what is left of the stream. The stream that arrived in pieces is then the
one run that `CutsSafe` compares it with.

### Only model-checked

- Liveness (`AcceptDrains`, `PeerCloseNoticed`, `ResponseAttempted`): fairness and
  ENABLED are outside what the prover can do.
- The properties that are violated have a counterexample and no proof.

## 6. Mutants

Each property is listed in `PROJECT.json` with a mutant that violates it: a
definition of the model replaced by the one beside it, `X_Something`, which is
what a plausible mistake in that place of the code would do (a forgotten
`event_loop_mod`, ids that are not put back, a timer left armed, a search that
runs over the end of the arena, a tombstone that ends the probing).

## 7. Plan

The order was: first the event loop, which everything else hangs on; its type
and slot invariants; then the id lists, because the loop corrupts them; then the
arena, which gives out the memory of all connections; then responses with their
descriptors, the hash table and the paths; then what stands in front of them, the
parser, the reading in pieces and the checks, and what lies under them, the
bitmap, the links, the primes and the clock; last the buffers of the connections in
the arena. Of the properties that can be proved
none is left. The next step would be to extend the model: `body_off` and the arena's
counts composed with `TcpServer`'s order of events, with the double release of
`tcp_server.c:442` against the arena; start-up and its failures (`tcp_server_start`).

## 8. Not modelled

- *Wording*: the header of a response, the text of a content type, reason phrases, logging.
- *Strings, debug output*: no state that an order of events could bring
  into disorder; strings are not used by the server. Of buffers `ConnBuffers` has size and
  place, `HttpRead` the bytes, and `TcpServer` whether one is full; the functions of
  `buffer.c` that create and free them by themselves have no caller.
- *The vector instructions of `findchar_fast`*: it is modelled by what it finds.
- *The decoder of chunked bodies and the parser of responses* are modelled, but
  have no caller in the server.
- *`global_time_init`* has no caller either: the clock of the server starts with
  that of the machine, which no comparison notices.
- *Start-up*: `tcp_server_start` and its failures end the process before the
  first event; one of them calls `tcp_server_destroy` with an `epoll_fd` that was
  never set (`tcp_server.c:161`).
- *`connection_send_file`, `connection_free`*: no callers.
- *Hash tables of 65536 entries and more*: `i * i` is a 32-bit number in `hash_delete`
  and wraps there, so that it looks in other places than insert and query. The wrap is in the
  model (`DeleteProbe`, `Wrap`), and `HashAssumption` excludes it: what such a table
  answers is not claimed. `MAX_PRIME_NUMBER` (500000) allows one; `hash_create` has no caller in
  `src/`.
- *Tests, examples, build script, `tools/makeheaders.c`.*
