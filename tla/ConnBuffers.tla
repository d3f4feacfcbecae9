---------------------------- MODULE ConnBuffers ----------------------------
(***************************************************************************)
(* The buffers of net/connection.c in the arena: connection_create takes   *)
(* two runs of blocks, connection_recv fills the first, connection_close   *)
(* gives both back.  PingArena takes for granted that its users stay       *)
(* inside what they were given; here it is shown that connection_recv does *)
(* not.  One thread runs: between the two calls of a function no other     *)
(* function is entered.                                                    *)
(***************************************************************************)
EXTENDS PingArena, Sequences

CONSTANTS
  Conns,         \* bound: connections
  BufferBlocks,  \* CONNECTION_BUFFER_BLOCK_SIZE
  HeadBytes,     \* sizeof(uint64_t): the length in front of a run
  BufferBytes    \* sizeof(Buffer): what lies in front of data

VARIABLES
  bufs,          \* first blocks of the runs of a connection: read_buf, send_buf
  len,           \* read_buf->len of every connection
  inside         \* the function of connection.c that has a call to go

connVars == <<vars, bufs, len, inside>>

RunBytes == BufferBlocks * BlockBytes
Size == RunBytes - HeadBytes        \* what arena_alloc_block says it returned

\* connection_create: the header of the Buffer lies in these bytes too, but cap
\* (buffer.h:7: the capacity, which buffer_create allocates on top of the header)
\* is all of them.
BufferCap == Size

ConnInit ==
  /\ Init
  /\ bufs = [c \in Conns |-> << >>]
  /\ len = [c \in Conns |-> 0]
  /\ inside = "none"

\* A run for c, and the block it begins at.
Taken(c) ==
  /\ AllocBlock(BufferBlocks)
  /\ \E s \in Blocks : Chosen(s, BufferBlocks) /\ bufs' = [bufs EXCEPT ![c] = Append(@, s)]

\* buffer_free_from_arena of the buffer at place i.
GivenBack(c, i) == Recycle(RunRegion(bufs[c][i], BufferBlocks))

\* connection_create: read_buf; ERROR_MEM_FULL changes nothing.
CreateRead(c) ==
  /\ inside = "none" /\ bufs[c] = << >>
  /\ Taken(c)
  /\ inside' = "create" /\ UNCHANGED len

\* connection_create: send_buf, or read_buf is given back.
CreateSend(c) ==
  /\ inside = "create" /\ Len(bufs[c]) = 1
  /\ \/ Taken(c) /\ len' = [len EXCEPT ![c] = 0]
     \/ /\ ~\E s \in Blocks : Chosen(s, BufferBlocks)
        /\ GivenBack(c, 1) /\ bufs' = [bufs EXCEPT ![c] = << >>]
        /\ UNCHANGED len
  /\ inside' = "none"

\* Where the byte behind n bytes of data lies, counted from the start of the run.
Reach(n) == HeadBytes + BufferBytes + n

\* Receiving up to n bytes of data writes over the length of the run behind.
WritesOver(old, n) == Reach(old) < RunBytes + HeadBytes /\ Reach(n) > RunBytes

\* connection_recv: n bytes more, up to cap.
Recv(c) ==
  /\ inside = "none" /\ Len(bufs[c]) = 2
  /\ \E n \in len[c] + 1 .. BufferCap :
       LET behind == bufs[c][1] + BufferBlocks IN
       /\ len' = [len EXCEPT ![c] = n]
       /\ head' = IF WritesOver(len[c], n) /\ behind \in Blocks
                  THEN [head EXCEPT ![behind] = UserData] ELSE head
  /\ UNCHANGED <<used, ref_count, ref_len, now, live, bufs, inside>>

\* connection_close: read_buf, then send_buf.  What arena_recycle does with a
\* length that is none is left out: the model stops there.
CloseRead(c) ==
  /\ inside = "none" /\ Len(bufs[c]) = 2 /\ head[bufs[c][1]] # UserData
  /\ GivenBack(c, 1)
  /\ bufs' = [bufs EXCEPT ![c] = Tail(@)] /\ inside' = "close" /\ UNCHANGED len

CloseSend(c) ==
  /\ inside = "close" /\ Len(bufs[c]) = 1 /\ head[bufs[c][1]] # UserData
  /\ GivenBack(c, 1)
  /\ bufs' = [bufs EXCEPT ![c] = << >>] /\ inside' = "none" /\ UNCHANGED len

ConnNext ==
  \E c \in Conns : CreateRead(c) \/ CreateSend(c) \/ Recv(c) \/ CloseRead(c) \/ CloseSend(c)

ConnSpec == ConnInit /\ [][ConnNext]_connVars
=============================================================================
