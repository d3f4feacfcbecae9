------------------------------ MODULE HttpRead ------------------------------
(***************************************************************************)
(* One connection as protocol/http.c reads it: the bytes of the client     *)
(* arrive in pieces, connection_recv puts them behind those in read_buf,   *)
(* and http_protocol_read has the whole buffer parsed again.  A request    *)
(* that is complete is checked and answered, and its connection kept.      *)
(***************************************************************************)
EXTENDS HttpMessages

Sequence == INSTANCE SequencesExt

CONSTANTS
  Firsts,      \* bound: what may arrive first
  Pieces,      \* bound: what may arrive later
  MaxPieces,   \* bound: the pieces
  BufferCap,   \* read_buf->cap
  MaxReq       \* CONNECTION_REQUEST_COUNT

ASSUME ReadAssumption ==
  /\ Firsts \union Pieces \subseteq Seq(Bytes) /\ MaxPieces \in Nat \ {0}
  /\ BufferCap \in Nat \ {0} /\ MaxReq \in Nat \ {0}

VARIABLES
  read_buf,    \* the bytes of the buffer of that name
  last_len,    \* of the request: 0, or what phr_parse_request returned
  ret,         \* what it returned last, 0 before it was called
  send_st,     \* of the response
  open,        \* the connection
  count,       \* its request_count
  idle,        \* its conn_st is CONN_ST_IDLE
  sent,        \* all the client has sent, in pieces: history
  prepared,    \* the path whose response http_res holds; << >> before the first
  answered     \* the paths whose responses were begun: history

readVars == <<read_buf, last_len, ret, send_st, open, count, idle, sent, prepared, answered>>

ReadInit ==
  /\ sent \in {<<s>> : s \in Firsts}
  /\ read_buf = << >> /\ last_len = 0 /\ ret = 0
  /\ send_st = "wait" /\ open = TRUE /\ prepared = << >> /\ answered = << >>
  /\ count = 0 /\ idle = TRUE

\* last_len is unsigned, so that -2 is a number that leads is_complete back by
\* five bytes in front of the buffer.  They belong to its len and idx and are
\* zero: as good as the beginning.  Mutant: it goes on where the last call
\* stopped.
ResumeAt_Behind(s) == Len(s) + 1
ResumeAt(s) == 1

\* What connection_recv takes of the bytes x.  The rest stays in the socket, and
\* the next call finds the buffer full.
Received(x) ==
  LET room == BufferCap - Len(read_buf) IN IF Len(x) <= room THEN x ELSE SubSeq(x, 1, room)

\* phr_parse_request on the buffer with the bytes x behind it.
Parsed(x) == RequestOrMore(read_buf \o x, MaxHeaders, last_len, ResumeAt(read_buf))

\* http_protocol_read with what was parsed
LastLen(r) == IF r.ret = More THEN More ELSE 0

\* n calls of connection_recv and connection_send count, up to the limit: from
\* there on they are refused.
Counted(n) == IF count + n > MaxReq THEN MaxReq ELSE count + n

\* http_protcol_check (HttpCheck has it in full) lets the request of a client
\* that is kept pass: it has a method of three characters, a Host and no
\* folded line, and a path that begins with a slash.  Each kind of byte
\* stands for some that are right and some that are wrong, so it is only a
\* request that may pass.
MayPass(r) ==
  /\ Len(r.method) = 3
  /\ r.path[1] = "/" /\ \A p \in DOMAIN r.path : r.path[p] # "hi"
  /\ \E h \in DOMAIN r.headers : Len(r.headers[h].name) = 4
  /\ \A h \in DOMAIN r.headers : r.headers[h].name # << >>

\* connection_recv refuses: ERROR_CONN_FULL or ERROR_BUFFER_FULL.
RecvRefuses ==
  /\ count = MaxReq \/ Len(read_buf) = BufferCap
  /\ open' = FALSE
  /\ count' = Counted(1) /\ idle' = (idle /\ count = MaxReq)
  /\ UNCHANGED <<read_buf, last_len, ret, send_st, prepared>>

\* http_init finds no memory for the context of the connection: ERROR_MEM_FULL.
NoMemory(x) ==
  /\ count < MaxReq /\ Len(read_buf) < BufferCap /\ ret = 0
  /\ read_buf' = read_buf \o Received(x)
  /\ open' = FALSE
  /\ count' = Counted(1) /\ idle' = FALSE
  /\ UNCHANGED <<last_len, ret, send_st, prepared>>

\* The buffer is parsed.  A request that was checked is answered when the client
\* is kept; others are closed, and so are all on a server without room.
Handled(x) ==
  LET r == Parsed(x) IN
  /\ count < MaxReq /\ Len(read_buf) < BufferCap
  /\ read_buf' = read_buf \o x
  /\ ret' = r.ret
  /\ last_len' = LastLen(r)
  /\ count' = Counted(1) /\ idle' = FALSE
  /\ IF r.ret > 0
     THEN \/ open' = TRUE /\ MayPass(r) /\ send_st' = "wait" /\ prepared' = r.path
          \/ open' = FALSE /\ UNCHANGED <<send_st, prepared>>
     ELSE open' = (r.ret = More) /\ UNCHANGED <<send_st, prepared>>

\* tcpserver_tcp_on_read
OnRead(x) ==
  /\ open
  /\ RecvRefuses \/ NoMemory(x) \/ Handled(Received(x))
  /\ UNCHANGED answered

\* The first piece is in sent from the beginning.
Arrives ==
  \/ /\ ret = 0
     /\ OnRead(sent[1]) /\ UNCHANGED sent
  \/ /\ ret # 0 /\ Len(sent) < MaxPieces
     /\ \E x \in Pieces : OnRead(x) /\ sent' = Append(sent, x)

\* What http_protocol_write leaves in send_st: never "done".  A part of a header
\* counts as an error (send returns -1, which is compared with EAGAIN).
Written == {"body", "error"}

\* Its calls of connection_send: the header, and a body that is a string.
Sends(st) == IF st = "body" THEN {0, 1} ELSE {1, 2}

\* tcpserver_tcp_on_write, with what is_close_connection adds: a connection that
\* becomes idle with its first two calls is closed.  Others may be, on a server
\* without room.
OnWrite ==
  /\ open /\ prepared # << >>
  /\ send_st' \in Written
  /\ \E n \in Sends(send_st) :
       /\ count' = Counted(n)
       /\ idle' = (idle \/ count' > count)
  /\ read_buf' = IF send_st' = "done" THEN << >> ELSE read_buf
  /\ \/ open' = FALSE
     \/ open' = TRUE /\ send_st' # "error" /\ ~(count' <= 2 /\ idle')
  /\ answered' = IF send_st = "wait" /\ count < MaxReq
                 THEN Append(answered, prepared) ELSE answered
  /\ UNCHANGED <<last_len, ret, sent, prepared>>

ReadNext == Arrives \/ OnWrite

ReadSpec == ReadInit /\ [][ReadNext]_readVars
------------------------------------------------------------------------------
(***************************************************************************)
(* Properties.                                                             *)
(***************************************************************************)
\* A request that comes in pieces is answered with the piece that completes it,
\* as if it had come at once, although after a first try the server only looks
\* for a blank line.
NoRequestMissed ==
  open /\ ret # 0 => (ret > 0 <=> Whole(read_buf).ret > 0) /\ (ret > 0 => ret = Whole(read_buf).ret)

\* The paths of the requests in s, one behind the other.
Paths(s) ==
  LET from[i \in 1 .. Len(s) + 1] ==
        LET r == Whole(SubSeq(s, i, Len(s))) IN
        IF r.ret < 0 THEN << >> ELSE <<r.path>> \o from[i + r.ret - 1]
  IN  from[1]

\* http.c:162: a connection of HTTP/1.1 is kept for further requests; its answers
\* are those to its requests, in their order.
EachAnswered ==
  LET asked == Paths(Sequence!FlattenSeq(sent)) IN
  Len(answered) <= Len(asked) /\ answered = SubSeq(asked, 1, Len(answered))
=============================================================================
