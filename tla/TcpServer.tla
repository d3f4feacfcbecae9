------------------------------ MODULE TcpServer ------------------------------
(***************************************************************************)
(* The event loop of PingServer: net/event.c dispatches edge-triggered     *)
(* epoll events to the handlers of net/tcp_server.c, which accept          *)
(* connections into numbered slots, run the HTTP protocol on them and      *)
(* close them.  One thread runs everything; what makes it hard is that a   *)
(* whole batch of events is fetched before the first of them is handled,   *)
(* and that the clients, the timers and the kernel act between any two     *)
(* steps.                                                                  *)
(*                                                                         *)
(* What a request is and what a response holds is abstracted to the        *)
(* outcomes the server branches on; the control around it is exact.        *)
(***************************************************************************)
EXTENDS Integers, Sequences, FiniteSets

CONSTANTS
  MaxConn,     \* TCP_SERVER_CONNECTION_COUNT, the number of slots
  HighWater,   \* (max_connections / 10) * 9, the "almost full" mark
  ArenaConns,  \* connections whose two buffers fit in the memory arena
  MaxReq,      \* CONNECTION_REQUEST_COUNT, receives and sends per connection
  BatchMax,    \* events fetched by one epoll_wait (1024)
  Debug,       \* built with PINGNET_DEBUG_ENABLE: a failed ASSERT exits
  SysFails,    \* accept, timerfd_create, epoll_ctl and epoll_wait may fail
  Clients      \* bound: clients that ever connect

ASSUME ConstantsAssumption ==
  /\ MaxConn \in Nat \ {0} /\ HighWater \in Nat /\ ArenaConns \in Nat
  /\ MaxReq \in Nat \ {0} /\ BatchMax \in Nat \ {0} /\ Clients \in Nat
  /\ Debug \in BOOLEAN /\ SysFails \in BOOLEAN

VARIABLES
  \* the process
  running,     \* tcpServer.running
  pc,          \* where the thread is: "wait", "dispatch", a handler, or how it ended
  cur,         \* the event being handled
  last,        \* new_idx and new_idx2 as the previous round of the accept loop left them
  batch,       \* events fetched by epoll_wait and not handled yet
  current,     \* stats.current_connections
  nextId,      \* connection_id, the next conn_id
  refs,        \* references to HttpContexts the arena counts
  tcpIds,      \* the free list tcp_id_list, first to be given out first
  timerIds,    \* the free list timer_id_list
  conn,        \* conn_array
  timeEvent,   \* EventTcpContext.time_event of every slot
  timerTcp,    \* EventTimerContext.tcp_event of every slot
  \* the kernel
  interest,    \* what epoll watches on the socket of every slot
  timers,      \* slots whose timerfd is armed and has not expired
  ready,       \* epoll's ready list
  backlog,     \* clients in the listen queue
  clients,     \* clients that have connected so far
  sock         \* socket of every slot: unread data, peer closed, room to send

server == <<running, pc, cur, last, batch, current, nextId, refs, tcpIds,
            timerIds, conn, timeEvent, timerTcp>>
kernel == <<interest, timers, ready, backlog, clients, sock>>
vars == <<server, kernel>>

Ids == 0 .. MaxConn - 1
None == -1                               \* NULL, and "no index yet"

Key(kind, i) == [kind |-> kind, id |-> i]
Listen == Key("listen", 0)
Keys == [kind : {"tcp", "timer"}, id : Ids] \union {Listen}

\* An event as epoll_wait reports it.  gen is the conn_id of the connection
\* the slot held then; late is what a timer handler reads from the clock.
Event == [kind : {"listen", "tcp", "timer"}, id : Ids, gen : Nat \union {None},
          in : BOOLEAN, out : BOOLEAN, hup : BOOLEAN, late : BOOLEAN]
NoEvent == [kind |-> "listen", id |-> 0, gen |-> None,
            in |-> FALSE, out |-> FALSE, hup |-> FALSE, late |-> FALSE]

Connection ==
  [open : BOOLEAN,                       \* the handler is set, the fd is open
   st : {"idle", "reading", "closing"},  \* conn_st between two steps
   ctx : BOOLEAN,                        \* protocol_ctx is allocated
   keep : BOOLEAN,                       \* is_keep_alive
   parsed : BOOLEAN,                     \* read_buf starts with a whole request
   reqs : Nat,                           \* request_count
   send : {"none", "wait", "body"},      \* send_st of the response
   file : BOOLEAN,                       \* the response is a file, not a string
   full : BOOLEAN,                       \* read_buf has no room left
   id : Nat \union {None}]               \* conn_id

NewConn(n) ==
  [open |-> TRUE, st |-> "idle", ctx |-> FALSE, keep |-> FALSE,
   parsed |-> FALSE, reqs |-> 0, send |-> "none", file |-> FALSE,
   full |-> FALSE, id |-> n]

\* The fields of a closed connection are not read again before
\* connection_create sets them; they are given fixed values here.
ClosedConn ==
  [open |-> FALSE, st |-> "closing", ctx |-> FALSE, keep |-> FALSE,
   parsed |-> FALSE, reqs |-> 0, send |-> "none", file |-> FALSE,
   full |-> FALSE, id |-> None]

NewSock == [data |-> FALSE, fin |-> FALSE, wr |-> TRUE]

NoIndexes == [tcp |-> None, timer |-> None]

Ended == {"exited", "abort", "segv", "spin", "sigpipe", "corrupt"}
Handlers == {"accept", "read", "write", "hup", "timer"}

TypeOK ==
  /\ running \in BOOLEAN
  /\ pc \in {"wait", "dispatch"} \union Handlers \union Ended
  /\ cur \in Event
  /\ last \in [tcp : Ids \union {None}, timer : Ids \union {None}]
  /\ batch \in SUBSET Event
  /\ current \in Int /\ nextId \in Nat /\ refs \in Int
  /\ tcpIds \in Seq(Ids) /\ timerIds \in Seq(Ids)
  /\ conn \in [Ids -> Connection]
  /\ timeEvent \in [Ids -> Ids \union {None}]
  /\ timerTcp \in [Ids -> Ids \union {None}]
  /\ interest \in [Ids -> {"none", "in", "inout"}]
  /\ timers \in SUBSET Ids
  /\ ready \in SUBSET Keys
  /\ backlog \in Nat /\ clients \in Nat
  /\ sock \in [Ids -> [data : BOOLEAN, fin : BOOLEAN, wr : BOOLEAN]]

\* tcp_server_create and tcp_server_run, up to the first epoll_wait.  The free
\* lists are taken to end where they should: what malloc leaves in their last
\* node is the matter of SlotPool.
Init ==
  /\ running = TRUE /\ pc = "wait" /\ cur = NoEvent
  /\ last = NoIndexes
  /\ batch = {}
  /\ current = 0 /\ nextId = 0 /\ refs = 0
  /\ tcpIds = [k \in 1 .. MaxConn |-> k - 1]
  /\ timerIds = [k \in 1 .. MaxConn |-> k - 1]
  /\ conn = [i \in Ids |-> ClosedConn]
  /\ timeEvent = [i \in Ids |-> None]
  /\ timerTcp = [i \in Ids |-> None]
  /\ interest = [i \in Ids |-> "none"]
  /\ timers = {} /\ ready = {}
  /\ backlog = 0 /\ clients = 0
  /\ sock = [i \in Ids |-> NewSock]
------------------------------------------------------------------------------
(***************************************************************************)
(* The clients and the kernel.                                             *)
(***************************************************************************)
Alive == pc \notin Ended

ClientConnects ==
  /\ Alive /\ clients < Clients
  /\ clients' = clients + 1
  /\ backlog' = backlog + 1
  /\ ready' = ready \union {Listen}
  /\ UNCHANGED <<server, interest, timers, sock>>

\* Edge-triggered: each arrival of data queues the socket again.
PeerSends(i) ==
  /\ Alive /\ interest[i] # "none" /\ ~sock[i].fin
  /\ sock' = [sock EXCEPT ![i].data = TRUE]
  /\ ready' = ready \union {Key("tcp", i)}
  /\ UNCHANGED <<server, interest, timers, backlog, clients>>

\* The peer closes or resets its side.
PeerCloses(i) ==
  /\ Alive /\ interest[i] # "none" /\ ~sock[i].fin
  /\ sock' = [sock EXCEPT ![i].fin = TRUE]
  /\ ready' = ready \union {Key("tcp", i)}
  /\ UNCHANGED <<server, interest, timers, backlog, clients>>

\* The peer has acknowledged enough of what filled the send buffer.
BecomesWritable(i) ==
  /\ Alive /\ interest[i] # "none" /\ ~sock[i].wr
  /\ sock' = [sock EXCEPT ![i].wr = TRUE]
  /\ ready' = IF interest[i] = "inout" THEN ready \union {Key("tcp", i)} ELSE ready
  /\ UNCHANGED <<server, interest, timers, backlog, clients>>

\* A periodic timerfd is armed again when its 8-byte counter is read; the
\* server reads one byte, which fails, so every timerfd expires only once.
TimerFires(j) ==
  /\ Alive /\ j \in timers
  /\ timers' = timers \ {j}
  /\ ready' = ready \union {Key("timer", j)}
  /\ UNCHANGED <<server, interest, backlog, clients, sock>>

Environment ==
  \/ ClientConnects
  \/ \E i \in Ids : PeerSends(i) \/ PeerCloses(i) \/ BecomesWritable(i) \/ TimerFires(i)
------------------------------------------------------------------------------
(***************************************************************************)
(* event_loop_run: one epoll_wait, then every event it returned.           *)
(***************************************************************************)
Occurs(k) ==
  [kind |-> k.kind, id |-> k.id,
   gen |-> IF k.kind = "tcp" THEN conn[k.id].id ELSE None,
   in |-> IF k.kind = "tcp" THEN sock[k.id].data ELSE TRUE,
   out |-> k.kind = "tcp" /\ interest[k.id] = "inout" /\ sock[k.id].wr,
   hup |-> k.kind = "tcp" /\ sock[k.id].fin,
   late |-> FALSE]

\* What epoll_wait may take from the ready list: as much as fits.
Fetch == {K \in SUBSET ready :
            K = ready \/ (K \subseteq ready /\ Cardinality(K) = BatchMax)}

EpollWait ==
  /\ pc = "wait" /\ ready # {}
  /\ \E K \in Fetch :
       /\ Cardinality(K) <= BatchMax
       /\ batch' = {e \in {Occurs(k) : k \in K} : e.in \/ e.out \/ e.hup}
       /\ ready' = ready \ K
  /\ pc' = "dispatch"
  /\ UNCHANGED <<running, cur, last, current, nextId, refs, tcpIds, timerIds, conn,
                 timeEvent, timerTcp, interest, timers, backlog, clients, sock>>

\* epoll_wait returns -1 (a signal arrived): the loop of tcp_server_run ends.
EpollWaitFails ==
  /\ pc = "wait" /\ SysFails
  /\ running' = FALSE /\ pc' = "exited"
  /\ UNCHANGED <<cur, last, batch, current, nextId, refs, tcpIds, timerIds, conn,
                 timeEvent, timerTcp, kernel>>

\* The thread leaves a handler, or goes on to the second one of an event.
GoTo(p) == pc' = p /\ cur' = IF p = "write" THEN cur ELSE NoEvent

\* Mutant: a hang-up is not told from readiness.
HandlerOf_NoHup(e) ==
  CASE e.kind = "listen" -> "accept"
    [] e.kind = "timer"  -> "timer"
    [] e.kind = "tcp"    -> IF e.in THEN "read" ELSE "write"

HandlerOf(e) ==
  CASE e.kind = "listen" -> "accept"
    [] e.kind = "timer"  -> "timer"
    [] e.kind = "tcp"    -> IF e.hup THEN "hup" ELSE IF e.in THEN "read" ELSE "write"

\* A listen event of a server that is no longer running is skipped.
Dispatch ==
  /\ pc = "dispatch"
  /\ \E e \in batch : \E late \in BOOLEAN :
       /\ late => e.kind = "timer"
       /\ cur' = [e EXCEPT !.late = late]
       /\ batch' = batch \ {e}
       /\ pc' = IF e.kind = "listen" /\ ~running THEN "dispatch" ELSE HandlerOf(e)
  /\ last' = NoIndexes
  /\ UNCHANGED <<running, current, nextId, refs, tcpIds, timerIds, conn,
                 timeEvent, timerTcp, kernel>>

BatchDone ==
  /\ pc = "dispatch" /\ batch = {}
  /\ pc' = IF running THEN "wait" ELSE "exited"
  /\ last' = NoIndexes
  /\ UNCHANGED <<running, cur, batch, current, nextId, refs, tcpIds,
                 timerIds, conn, timeEvent, timerTcp, kernel>>
------------------------------------------------------------------------------
(***************************************************************************)
(* tcpserver_listen_on_read: each action is one round of its loop.         *)
(***************************************************************************)
InList(i, ids) == \E k \in DOMAIN ids : ids[k] = i

\* id_list_add.  Mutant: the index is not tested before it is put back.
PutBack_Unchecked(i, ids) == <<i>> \o ids
PutBack(i, ids) == IF i = None THEN ids ELSE <<i>> \o ids

\* id_list_get takes the first id.  Mutant: it is read and not removed.
PopId_Keeps(ids) == ids
PopId(ids) == Tail(ids)

\* No slot is free: whatever indexes the previous round left are put back.
AcceptFull ==
  /\ pc = "accept" /\ current = MaxConn
  /\ tcpIds' = PutBack(last.tcp, tcpIds)
  /\ timerIds' = PutBack(last.timer, timerIds)
  /\ GoTo("dispatch")
  /\ UNCHANGED <<running, last, batch, current, nextId, refs, conn,
                 timeEvent, timerTcp, kernel>>

\* accept4 fails, because the queue is empty or no descriptor is left.
\* Mutant: the indexes taken for the client are not put back.
AcceptNone_LosesIds ==
  /\ pc = "accept" /\ current # MaxConn
  /\ backlog = 0 \/ SysFails
  /\ tcpIds' = PopId(tcpIds) /\ timerIds' = PopId(timerIds)
  /\ GoTo("dispatch")
  /\ UNCHANGED <<running, last, batch, current, nextId, refs, conn,
                 timeEvent, timerTcp, kernel>>

AcceptNone ==
  /\ pc = "accept" /\ current # MaxConn
  /\ backlog = 0 \/ SysFails
  /\ GoTo("dispatch")
  /\ UNCHANGED <<running, last, batch, current, nextId, refs, tcpIds,
                 timerIds, conn, timeEvent, timerTcp, kernel>>

\* timerfd_create fails: the client is dropped and the loop is left.
AcceptNoTimer ==
  /\ pc = "accept" /\ current # MaxConn
  /\ backlog > 0 /\ SysFails
  /\ backlog' = backlog - 1
  /\ GoTo("dispatch")
  /\ UNCHANGED <<running, last, batch, current, nextId, refs, tcpIds,
                 timerIds, conn, timeEvent, timerTcp, interest, timers, ready,
                 clients, sock>>

\* event_tcp_add registers EPOLLIN.  Mutant: EPOLLOUT from the start.
FirstInterest_InOut == "inout"
FirstInterest == "in"

\* The two indexes are taken and not put back, on_error stops the server.
StopServer ==
  /\ backlog' = backlog - 1
  /\ tcpIds' = PopId(tcpIds) /\ timerIds' = PopId(timerIds)
  /\ running' = FALSE /\ GoTo("dispatch")
  /\ UNCHANGED <<last, batch, current, refs, timers, ready, clients>>

\* connection_create finds no memory; its ERROR_MEM_FULL is returned as -1.
AcceptMemFull ==
  /\ pc = "accept" /\ current # MaxConn
  /\ backlog > 0 /\ current >= ArenaConns
  /\ StopServer
  /\ UNCHANGED <<nextId, conn, timeEvent, timerTcp, interest, sock>>

\* epoll_ctl fails for the socket or, once that is added, for the timer.
AcceptEpollFails ==
  /\ pc = "accept" /\ current # MaxConn
  /\ backlog > 0 /\ current < ArenaConns /\ SysFails
  /\ StopServer
  /\ LET i == Head(tcpIds)
         j == Head(timerIds)
     IN  /\ conn' = [conn EXCEPT ![i] = NewConn(nextId)]
         /\ timeEvent' = [timeEvent EXCEPT ![i] = j]
         /\ sock' = [sock EXCEPT ![i] = NewSock]
         /\ \/ UNCHANGED <<interest, timerTcp>>
            \/ /\ interest' = [interest EXCEPT ![i] = FirstInterest]
               /\ timerTcp' = [timerTcp EXCEPT ![j] = i]
  /\ nextId' = nextId + 1

\* The loop goes on until accept4 has no client left.  Mutant: one per event.
AcceptNext_Once == GoTo("dispatch")
AcceptNext == UNCHANGED <<pc, cur>>

AcceptOk ==
  /\ pc = "accept" /\ current # MaxConn
  /\ backlog > 0 /\ current < ArenaConns
  /\ backlog' = backlog - 1
  /\ LET i == Head(tcpIds)
         j == Head(timerIds)
     IN  /\ last' = [tcp |-> i, timer |-> j]
         /\ conn' = [conn EXCEPT ![i] = NewConn(nextId)]
         /\ timeEvent' = [timeEvent EXCEPT ![i] = j]
         /\ timerTcp' = [timerTcp EXCEPT ![j] = i]
         /\ interest' = [interest EXCEPT ![i] = FirstInterest]
         /\ sock' = [sock EXCEPT ![i] = NewSock]
         /\ timers' = timers \union {j}
  /\ tcpIds' = PopId(tcpIds) /\ timerIds' = PopId(timerIds)
  /\ nextId' = nextId + 1
  /\ current' = current + 1
  /\ AcceptNext
  /\ UNCHANGED <<running, batch, refs, ready, clients>>

Accept ==
  \/ AcceptFull \/ AcceptNone \/ AcceptNoTimer
  \/ AcceptMemFull \/ AcceptEpollFails \/ AcceptOk
------------------------------------------------------------------------------
(***************************************************************************)
(* Closing a connection: tcpserver_tcp_on_error, which deletes the socket  *)
(* and its timer, and under it http_protocol_close, which sends a last     *)
(* response and retries until connection_send says done or error.          *)
(***************************************************************************)
\* stats.current_connections--.  Mutant: it is forgotten.
CountClosed_Not == UNCHANGED current
CountClosed == current' = current - 1

\* The timer half of tcpserver_delete_tcp_and_timer.  Mutant: the timerfd stays
\* armed and in epoll.
DropTimer_StaysArmed(i, t) ==
  /\ timers' = timers
  /\ ready' = ready \ {Key("tcp", i)}
  /\ timerTcp' = [timerTcp EXCEPT ![t] = None]
DropTimer(i, t) ==
  /\ timers' = timers \ {t}
  /\ ready' = ready \ {Key("tcp", i), Key("timer", t)}
  /\ timerTcp' = [timerTcp EXCEPT ![t] = None]

\* c is the connection when it is closed, r the references then held.  What it
\* sends last can raise SIGPIPE when the peer has reset.  An id that is in its
\* list already makes the links a cycle, which a sequence cannot show: the model
\* stops there ("corrupt"), SlotPool has the links and goes on.
Close(i, c, r, next) ==
  LET t == timeEvent[i] IN
  IF c.ctx /\ c.reqs = MaxReq
  THEN /\ GoTo("spin")                \* connection_send refuses for ever
       /\ UNCHANGED <<current, refs, tcpIds, timerIds, conn, timeEvent, timerTcp,
                      interest, timers, ready, sock>>
  ELSE /\ \/ GoTo(IF InList(i, tcpIds) \/ InList(t, timerIds) THEN "corrupt" ELSE next)
          \/ sock[i].fin /\ GoTo("sigpipe")
       /\ CountClosed
       /\ refs' = IF c.ctx THEN r - 1 ELSE r
       /\ tcpIds' = <<i>> \o tcpIds
       /\ timerIds' = <<t>> \o timerIds
       /\ conn' = [conn EXCEPT ![i] = ClosedConn]
       /\ timeEvent' = [timeEvent EXCEPT ![i] = None]
       /\ DropTimer(i, t)
       /\ interest' = [interest EXCEPT ![i] = "none"]
       /\ sock' = [sock EXCEPT ![i] = NewSock]

\* EPOLLERR, EPOLLHUP or EPOLLRDHUP: on_error, whatever else is pending.
TcpHup ==
  /\ pc = "hup"
  /\ Close(cur.id, conn[cur.id], refs, "dispatch")
  /\ UNCHANGED <<running, last, batch, nextId, backlog, clients>>

\* is_close_connection
IsClose(c) ==
  \/ current >= HighWater
  \/ c.st = "closing"
  \/ ~c.keep
  \/ c.reqs <= 2 /\ c.st = "idle"
------------------------------------------------------------------------------
(***************************************************************************)
(* tcpserver_tcp_on_read.                                                  *)
(***************************************************************************)
AfterRead == IF cur.out THEN "write" ELSE "dispatch"

\* connection_recv has no room: the count or the buffer is exhausted.
ReadRefused ==
  /\ pc = "read"
  /\ LET i == cur.id
         c == conn[i]
     IN  /\ c.open /\ (c.reqs = MaxReq \/ c.full)
         /\ Close(i, IF c.reqs = MaxReq THEN c ELSE [c EXCEPT !.reqs = @ + 1],
                  refs, AfterRead)
  /\ UNCHANGED <<running, last, batch, nextId, backlog, clients>>

\* connection_recv reads until the socket is empty or read_buf is full
\* (fill); only then can data stay behind (rest).  Mutant: it reads once.
MayRemain_OneRead(fill, rest) == TRUE
MayRemain(fill, rest) == rest => fill

Recv(c, fill) == [c EXCEPT !.st = "reading", !.reqs = @ + 1, !.full = fill]
CanRecv(i) == conn[i].open /\ conn[i].reqs # MaxReq /\ ~conn[i].full

\* http_init finds no memory for the HttpContext.
ReadNoContext ==
  /\ pc = "read" /\ CanRecv(cur.id) /\ ~conn[cur.id].ctx
  /\ Close(cur.id, Recv(conn[cur.id], FALSE), refs, AfterRead)
  /\ UNCHANGED <<running, last, batch, nextId, backlog, clients>>

\* The connection and the references after http_init.
WithCtx(c) == [c EXCEPT !.ctx = TRUE]
RefsWith(c) == IF c.ctx THEN refs ELSE refs + 1

\* The first bytes of read_buf are no request.
ReadParseError ==
  /\ pc = "read" /\ CanRecv(cur.id) /\ ~conn[cur.id].parsed
  /\ Close(cur.id, WithCtx(Recv(conn[cur.id], FALSE)), RefsWith(conn[cur.id]), AfterRead)
  /\ UNCHANGED <<running, last, batch, nextId, backlog, clients>>

ReadNeedMore ==
  /\ pc = "read" /\ CanRecv(cur.id) /\ ~conn[cur.id].parsed
  /\ \E fill, rest \in BOOLEAN :
       /\ MayRemain(fill, rest)
       /\ conn' = [conn EXCEPT ![cur.id] = WithCtx(Recv(@, fill))]
       /\ sock' = [sock EXCEPT ![cur.id].data = rest]
  /\ refs' = RefsWith(conn[cur.id])
  /\ GoTo(AfterRead)
  /\ UNCHANGED <<running, last, batch, current, nextId, tcpIds, timerIds,
                 timeEvent, timerTcp, interest, timers, ready, backlog, clients>>

\* http_protcol_check refuses the request: TCP_PROTO_CLOSE makes on_read call
\* on_close, and closing the connection calls it again.
ReadCheckFails ==
  /\ pc = "read" /\ CanRecv(cur.id) /\ ~conn[cur.id].parsed
  /\ LET c == WithCtx(Recv(conn[cur.id], FALSE)) IN
       Close(cur.id, IF c.reqs = MaxReq THEN c ELSE [c EXCEPT !.reqs = @ + 1],
             RefsWith(conn[cur.id]) - 1, AfterRead)
  /\ UNCHANGED <<running, last, batch, nextId, backlog, clients>>

\* event_loop_mod to EPOLLIN | EPOLLOUT: what holds already is queued again.
\* Mutant: the call is forgotten.
Rearm_Missing(i, s) == UNCHANGED <<interest, ready>>
Rearm(i, s) ==
  /\ interest' = [interest EXCEPT ![i] = "inout"]
  /\ ready' = IF s.data \/ s.fin \/ s.wr THEN ready \union {Key("tcp", i)} ELSE ready

\* on_process has chosen a response, a file or a string.
Answered(c, keep, file) ==
  [c EXCEPT !.parsed = TRUE, !.keep = keep, !.file = file, !.send = "wait"]

\* The end of on_read: on_write is asked for, or the connection is closed.
Processed(i, c, s) ==
  \/ /\ IsClose(c)
     /\ Close(i, c, RefsWith(conn[i]), AfterRead)
  \/ /\ ~IsClose(c)
     /\ conn' = [conn EXCEPT ![i] = c]
     /\ sock' = [sock EXCEPT ![i] = s]
     /\ refs' = RefsWith(conn[i])
     /\ Rearm(i, s)
     /\ GoTo(AfterRead)
     /\ UNCHANGED <<current, tcpIds, timerIds, timeEvent, timerTcp, timers>>

\* read_buf is never cleaned, so once a request is complete every later read
\* finds that same request, and with it the same keep.
ReadRequest ==
  /\ pc = "read" /\ CanRecv(cur.id)
  /\ \E fill, rest, keep, file \in BOOLEAN :
       /\ MayRemain(fill, rest)
       /\ conn[cur.id].parsed => keep = conn[cur.id].keep
       /\ Processed(cur.id, Answered(WithCtx(Recv(conn[cur.id], fill)), keep, file),
                    [sock[cur.id] EXCEPT !.data = rest])
  /\ UNCHANGED <<running, last, batch, nextId, backlog, clients>>

TcpRead ==
  \/ ReadRequest \/ ReadNeedMore
  \/ ReadRefused \/ ReadNoContext \/ ReadParseError \/ ReadCheckFails
------------------------------------------------------------------------------
(***************************************************************************)
(* tcpserver_tcp_on_write and http_protocol_write.                         *)
(***************************************************************************)
\* The read part of the same event closed the connection: its handler is NULL.
WriteClosed ==
  /\ pc = "write" /\ ~conn[cur.id].open
  /\ GoTo("segv")
  /\ UNCHANGED <<running, last, batch, current, nextId, refs, tcpIds,
                 timerIds, conn, timeEvent, timerTcp, kernel>>

\* connection_send that reports no error; at the limit it sends nothing, and
\* its ERROR_CONN_FULL is no error for http_protocol_write.
Sent(c) == IF c.reqs = MaxReq THEN c ELSE [c EXCEPT !.st = "idle", !.reqs = @ + 1]

\* The header, when the response starts.
HeadSent(c) == IF c.send = "wait" THEN [Sent(c) EXCEPT !.send = "body"] ELSE c

\* The end of on_write: res->send_st is never HTTP_SEND_DONE, so EPOLLOUT
\* stays armed and the buffers are not cleaned.
Written(i, c, s) ==
  \/ /\ IsClose(c)
     /\ Close(i, c, refs, "dispatch")
  \/ /\ ~IsClose(c)
     /\ conn' = [conn EXCEPT ![i] = c]
     /\ sock' = [sock EXCEPT ![i] = s]
     /\ GoTo("dispatch")
     /\ UNCHANGED <<current, refs, tcpIds, timerIds, timeEvent, timerTcp,
                    interest, timers, ready>>

\* A file: sendfile ends, or fills the socket and waits for EPOLLOUT.
WriteFile ==
  /\ pc = "write" /\ conn[cur.id].open /\ conn[cur.id].file
  /\ \E wr \in BOOLEAN :
       Written(cur.id, HeadSent(conn[cur.id]), [sock[cur.id] EXCEPT !.wr = wr])
  /\ UNCHANGED <<running, last, batch, nextId, backlog, clients>>

\* A string: body_fd is -1, which fstat rejects, so its length is 0.  An
\* empty connection_send fails an ASSERT of the debug build.
WriteString ==
  /\ pc = "write" /\ conn[cur.id].open /\ ~conn[cur.id].file
  /\ LET c == HeadSent(conn[cur.id]) IN
       \/ /\ Debug /\ c.reqs # MaxReq
          /\ GoTo("abort")
          /\ UNCHANGED <<current, refs, tcpIds, timerIds, conn, timeEvent, timerTcp,
                         interest, timers, ready, sock>>
       \/ /\ ~Debug \/ c.reqs = MaxReq
          /\ Written(cur.id, Sent(c), sock[cur.id])
  /\ UNCHANGED <<running, last, batch, nextId, backlog, clients>>

\* send of the header fails, or takes only a part of it (its -1 is compared
\* with EAGAIN, so that is an error too): send_st is ERROR and on_error closes.
\* An empty body is sent too, in the release build, and can fail the same way.
WriteFails ==
  /\ pc = "write" /\ conn[cur.id].open
  /\ \E c \in {conn[cur.id], HeadSent(conn[cur.id])} :
       /\ c.reqs # MaxReq
       /\ c.send = "wait" \/ (c.send = "body" /\ ~c.file /\ ~Debug)
       /\ Close(cur.id, Sent(c), refs, "dispatch")
  /\ UNCHANGED <<running, last, batch, nextId, backlog, clients>>

\* A send to a peer that has reset raises SIGPIPE, which nothing handles.
WriteSigpipe ==
  /\ pc = "write" /\ conn[cur.id].open /\ sock[cur.id].fin
  /\ GoTo("sigpipe")
  /\ UNCHANGED <<running, last, batch, current, nextId, refs, tcpIds,
                 timerIds, conn, timeEvent, timerTcp, kernel>>

TcpWrite == WriteClosed \/ WriteFile \/ WriteString \/ WriteFails \/ WriteSigpipe
------------------------------------------------------------------------------
(***************************************************************************)
(* tcpserver_time_on_read.                                                 *)
(***************************************************************************)
\* The connection was closed earlier in this batch: tcp_event is NULL.
TimerUnlinked ==
  /\ pc = "timer" /\ timerTcp[cur.id] = None
  /\ GoTo("segv")
  /\ UNCHANGED <<running, last, batch, current, nextId, refs, tcpIds,
                 timerIds, conn, timeEvent, timerTcp, kernel>>

\* The connection is closed if it is CLOSING already and has been idle too long.
\* Mutant: idle too long is enough.
TimedOut_Any(c) == cur.late
TimedOut(c) == c.st = "closing" /\ cur.late

TimerRead ==
  /\ pc = "timer" /\ timerTcp[cur.id] # None
  /\ LET i == timerTcp[cur.id] IN
       IF TimedOut(conn[i])
       THEN Close(i, conn[i], refs, "dispatch")
       ELSE /\ GoTo("dispatch")
            /\ UNCHANGED <<current, refs, tcpIds, timerIds, conn, timeEvent,
                           timerTcp, interest, timers, ready, sock>>
  /\ UNCHANGED <<running, last, batch, nextId, backlog, clients>>

TimerEvent == TimerUnlinked \/ TimerRead
------------------------------------------------------------------------------
\* One step of event_loop_run as long as epoll_wait works.
EventLoop ==
  \/ EpollWait \/ Dispatch \/ BatchDone
  \/ Accept \/ TcpHup \/ TcpRead \/ TcpWrite \/ TimerEvent

Server == EventLoop \/ EpollWaitFails

Next == Environment \/ Server

Spec == Init /\ [][Next]_vars

\* The thread keeps running: nothing is assumed of clients or timers, and no signal
\* has to interrupt epoll_wait.
FairSpec == Spec /\ WF_vars(EventLoop)
------------------------------------------------------------------------------
(***************************************************************************)
(* Properties.                                                             *)
(***************************************************************************)
NoDup(s) == \A k, l \in DOMAIN s : s[k] = s[l] => k = l

\* No id is in a free list twice, none is both free and in use, and while the
\* server runs none is lost: id_list_get, id_list_add and the error paths of
\* tcpserver_listen_on_read together neither leak nor double a slot.
SlotsConserved ==
  /\ NoDup(tcpIds) /\ NoDup(timerIds)
  /\ \A i \in Ids : ~(InList(i, tcpIds) /\ conn[i].open)
  /\ running => \A i \in Ids : InList(i, tcpIds) \/ conn[i].open

\* A connection and its timer point at each other until
\* tcpserver_delete_tcp_and_timer takes both, and a free timer slot can expire
\* no more.
PairLinked ==
  /\ running => \A i \in Ids : conn[i].open =>
       timeEvent[i] # None /\ timerTcp[timeEvent[i]] = i
  /\ \A j \in Ids : InList(j, timerIds) =>
       timerTcp[j] = None /\ j \notin timers /\ Key("timer", j) \notin ready

\* While a slot is free both lists have an id to give: the branch of the accept
\* loop for an empty list is never taken.
FreeIdForFreeSlot ==
  running /\ current < MaxConn => tcpIds # << >> /\ timerIds # << >>

\* What makes the two invariants above inductive while the arena is full
\* before the slots are: the two lists run in step, so that the timer of a
\* slot has the slot's own number, and an event, queued or fetched, is only
\* there for a slot in use, one for each.
SlotInv ==
  /\ timerIds = tcpIds
  /\ NoDup(tcpIds)
  /\ \A i \in Ids : conn[i].open => timeEvent[i] = i /\ ~InList(i, tcpIds)
  /\ \A i \in Ids : ~conn[i].open => timerTcp[i] = None /\ interest[i] = "none"
  /\ \A i \in Ids : timerTcp[i] \in {None, i}
  /\ running => \A i \in Ids : conn[i].open => timerTcp[i] = i
  /\ running => \A i \in Ids : InList(i, tcpIds) \/ conn[i].open
  /\ running => Len(tcpIds) = MaxConn - current
  /\ current <= ArenaConns

EventInv ==
  /\ \A i \in timers : conn[i].open
  /\ \A k \in ready : k # Listen => conn[k.id].open
  /\ \A e \in batch : e.kind = "tcp" => conn[e.id].open /\ conn[e.id].id = e.gen
  /\ \A e, f \in batch : e.kind = "tcp" /\ f.kind = "tcp" /\ e.id = f.id => e = f
  /\ pc \in {"read", "hup", "write"} =>
       \A e \in batch : e.kind = "tcp" => e.id # cur.id
  /\ pc \in {"read", "hup"} => conn[cur.id].open /\ conn[cur.id].id = cur.gen
  /\ pc = "accept" => running
  /\ \A i \in Ids : conn[i].open => conn[i].st # "closing"

\* stats.current_connections, which decides between accepting, refusing and
\* closing, is the number of open connections.
CountExact == running => current = Cardinality({i \in Ids : conn[i].open})

\* A socket event that waits in the batch, or is handled, belongs to the
\* connection that holds the slot now: no handler ever frees a connection
\* whose own event is still to come.
TcpEventsFresh ==
  /\ \A e \in batch : e.kind = "tcp" => conn[e.id].open /\ conn[e.id].id = e.gen
  /\ pc \in {"read", "hup"} => conn[cur.id].open /\ conn[cur.id].id = cur.gen

\* Edge-triggered epoll reports data once: data that on_read has not taken is
\* always announced by an event still to be handled.
Announced(i) ==
  \/ Key("tcp", i) \in ready
  \/ \E e \in batch : e.kind = "tcp" /\ e.id = i
  \/ pc \in {"read", "hup"} /\ cur.id = i
NoStrandedData ==
  Alive => \A i \in Ids : interest[i] # "none" /\ sock[i].data /\ ~conn[i].full => Announced(i)

\* A response that on_process has prepared is sent: unless the socket is
\* full, an event that leads to on_write is under way.
ResponseArmed ==
  Alive => \A i \in Ids : conn[i].send = "wait" /\ sock[i].wr =>
    Announced(i) \/ (pc = "write" /\ cur.id = i)

\* What makes the three invariants around it inductive: a response is prepared for a
\* complete request of a client that is kept, EPOLLOUT is asked for with it and for
\* nothing else, and so whatever leads to on_write is about a response; and every
\* event that was fetched is handled before the next ones are.
ResponseInv ==
  /\ pc = "wait" => batch = {}
  /\ \A i \in Ids :
       /\ conn[i].send # "none" <=> conn[i].parsed
       /\ conn[i].send # "none" <=> interest[i] = "inout"
       /\ conn[i].send # "none" => conn[i].ctx /\ conn[i].keep
  /\ \A e \in batch : e.kind = "tcp" =>
       (e.in \/ e.out \/ e.hup) /\ (e.out => conn[e.id].send # "none")
  /\ pc = "read" /\ cur.out => conn[cur.id].send # "none"
  /\ pc = "write" /\ conn[cur.id].open => conn[cur.id].send # "none"

\* NoStrandedData with the event that announces the data being one that on_read or
\* on_error is called for: an event that was fetched for EPOLLOUT alone is none.
DataAnnounced(i) ==
  \/ Key("tcp", i) \in ready
  \/ \E e \in batch : e.kind = "tcp" /\ e.id = i /\ (e.in \/ e.hup)
  \/ pc \in {"read", "hup"} /\ cur.id = i
DataInv ==
  Alive => \A i \in Ids :
    interest[i] # "none" /\ sock[i].data /\ ~conn[i].full => DataAnnounced(i)

\* on_write uses protocol_ctx unchecked: it only runs on an open connection
\* when a request has been processed.
WriteHasResponse ==
  pc = "write" /\ conn[cur.id].open => conn[cur.id].ctx /\ conn[cur.id].send # "none"

\* A connection keeps its slot until it is closed: no accept overwrites it.
SlotKept ==
  [][\A i \in Ids : conn[i].open /\ conn'[i].open => conn'[i].id = conn[i].id]_vars

\* Under FairSpec.  When accept does not fail for lack of descriptors, every
\* client in the listen queue is taken out of it: one edge announces several
\* clients, and tcpserver_listen_on_read loops until accept has none left.
AcceptDrains == backlog > 0 ~> (backlog = 0 \/ ~Alive \/ ~running)

\* Under FairSpec.  A peer that has closed is noticed and its slot is freed, also
\* of a connection that has been answered before: event_loop_run and
\* http_protocol_close lead there.  The calls of recv and send a connection may make
\* are numbered; one that is at the end of its number (three calls are left out: what
\* one event can use) is closed by no one, see "spin" in Close, and stops the thread
\* for all others too.
PeerCloseNoticed ==
  \A i \in Ids :
    (conn[i].open /\ sock[i].fin /\ conn[i].reqs + 3 < MaxReq) ~>
      (\/ ~sock[i].fin \/ ~running \/ pc \in Ended \ {"spin"}
       \/ \E j \in Ids \ {i} : conn[j].reqs + 3 >= MaxReq)

\* Under FairSpec.  A processed request gets its response, unless the peer
\* does not read: on_write runs while there is room in the socket.
ResponseAttempted ==
  \A i \in Ids : (conn[i].send = "wait") ~>
     (conn[i].send # "wait" \/ ~sock[i].wr \/ ~Alive \/ ~running)

\* on_process prepares a response for every client, with "Connection: close" for the
\* one that is not kept (http.c:162 and 255), and TCP_PROTO_SEND hands it to on_write
\* (tcp_server.c:430): on a server with room the connection is there until then.
ProcessedWaits ==
  [][ReadRequest /\ current < HighWater => conn'[cur.id].open]_vars

\* tcp_server.c:463 asserts that a connection and its timer exist together; a
\* timer event is handled with the connection still there.
TimerHasTcp == pc = "timer" => timerTcp[cur.id] # None

\* tcp_server.c:547 says the timer handler looks whether the connection has
\* timed out and reports it to on_error, which deletes both.
TimeoutCloses ==
  [][\A i \in Ids :
        pc = "timer" /\ pc' # "timer" /\ cur.late /\ timerTcp[cur.id] = i
          => ~conn'[i].open]_vars

\* tcp_server.c:115 promises to be lenient the first time, and def.h:48 that the
\* rest of a part that was sent waits for EPOLLOUT: on a server with room, sending
\* a file to a client that is kept does not close the connection.
FirstKept ==
  [][WriteFile /\ conn[cur.id].keep /\ current < HighWater => conn'[cur.id].open]_vars

==============================================================================
