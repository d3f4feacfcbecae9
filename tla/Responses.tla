----------------------------- MODULE Responses -----------------------------
(***************************************************************************)
(* From a request to the bytes of its response: route/router.c keeps the   *)
(* last files it has opened, http_protocol_process points a response at    *)
(* one of those descriptors, and http_protocol_write sends it with         *)
(* connection_send_fd in as many calls as the socket needs.  Descriptors   *)
(* are numbers the kernel gives out again: the lowest free one each time.  *)
(***************************************************************************)
EXTENDS Integers, Sequences, FiniteSets

CONSTANTS
  CacheSize,   \* MAX_CACHE_COUNT
  MaxFd,       \* the limit of open descriptors
  Files,       \* bound: regular files
  Length,      \* the length of each of them
  Conns        \* bound: connections

ASSUME ResponsesAssumption ==
  /\ CacheSize \in Nat \ {0} /\ MaxFd \in Nat \ {0}
  /\ Length \in [Files -> Nat]

Free == 0              \* what an unused descriptor refers to
Sock == -1             \* what the descriptor of a connection refers to
None == -2             \* no descriptor, no file
Unread == -3           \* no request has been read

\* The four stand for what is no file.
ASSUME FilesAssumption == Files \intersect {Free, Sock, None, Unread} = {}

Fds == 1 .. MaxFd
CacheSlots == 0 .. CacheSize - 1

VARIABLES
  fds,         \* what every descriptor refers to
  cache,       \* file_cache: name and descriptor
  cache_idx,   \* the entry that goes next
  fd,          \* the socket of every connection
  want,        \* the file that the request in read_buf leads to, if it is a file
  res,         \* httpResponse of every connection
  got          \* offsets the client was sent of the current response: history

vars == <<fds, cache, cache_idx, fd, want, res, got>>

\* http_init
NewResponse == [st |-> "none", body_fd |-> None, body_len |-> 0, body_off |-> 0,
                done |-> FALSE]

Init ==
  /\ fds = [x \in Fds |-> Free]
  /\ cache = [s \in CacheSlots |-> [file |-> None, fd |-> None]]
  /\ cache_idx = 0
  /\ fd = [c \in Conns |-> None]
  /\ want = [c \in Conns |-> Unread]
  /\ res = [c \in Conns |-> NewResponse]
  /\ got = [c \in Conns |-> << >>]

FreeFds == {x \in Fds : fds[x] = Free}
LowestFd == CHOOSE x \in FreeFds : \A y \in FreeFds : x <= y

\* accept4 gives the connection a descriptor.
Accept(c) ==
  /\ fd[c] = None /\ FreeFds # {}
  /\ fds' = [fds EXCEPT ![LowestFd] = Sock]
  /\ fd' = [fd EXCEPT ![c] = LowestFd]
  /\ UNCHANGED <<cache, cache_idx, want, res, got>>

\* tcp_server_close_connection, at any time: TcpServer says when.  A header that
\* cannot be sent is one reason.  The next connection gets a cleared HttpContext.
Close(c) ==
  /\ fd[c] # None
  /\ fds' = [fds EXCEPT ![fd[c]] = Free]
  /\ fd' = [fd EXCEPT ![c] = None]
  /\ want' = [want EXCEPT ![c] = Unread]
  /\ res' = [res EXCEPT ![c] = NewResponse]
  /\ got' = [got EXCEPT ![c] = << >>]
  /\ UNCHANGED <<cache, cache_idx>>
------------------------------------------------------------------------------
(***************************************************************************)
(* get_fd and the route functions.                                         *)
(***************************************************************************)
Cached(f) == f # None /\ \E s \in CacheSlots : cache[s].file = f
CachedFd(f) == cache[CHOOSE s \in CacheSlots : cache[s].file = f].fd

\* http_protocol_process prepares a response from descriptor x for a request
\* that leads to f.  read_buf is never cleaned, so every later call finds the first
\* request of the connection again; body_off is not set.
Prepared(c, f, x) ==
  /\ fd[c] # None /\ want[c] \in {Unread, f}
  /\ want' = [want EXCEPT ![c] = f]
  /\ res' = [res EXCEPT ![c].st = "wait", ![c].body_fd = x, ![c].done = FALSE]
  /\ got' = [got EXCEPT ![c] = << >>]
  /\ UNCHANGED fd

ProcessHit(c, f) ==
  /\ Cached(f)
  /\ Prepared(c, f, CachedFd(f))
  /\ UNCHANGED <<fds, cache, cache_idx>>

\* The descriptors after the entry that goes was closed.  Mutant: it is not.
Evicted_LeftOpen(t, s) == t
Evicted(t, s) == IF cache[s].file = None THEN t ELSE [t EXCEPT ![cache[s].fd] = Free]

\* Mutant: the index is advanced before the entry is written.
EntryUsed_Next == (cache_idx + 1) % CacheSize
EntryUsed == cache_idx

NextIdx == (cache_idx + 1) % CacheSize

\* The file is opened before the old entry is closed.
ProcessMiss(c, f) ==
  /\ ~Cached(f) /\ FreeFds # {}
  /\ LET x == LowestFd IN
       /\ fds' = Evicted([fds EXCEPT ![x] = f], cache_idx)
       /\ cache' = [cache EXCEPT ![EntryUsed] = [file |-> f, fd |-> x]]
       /\ Prepared(c, f, x)
  /\ cache_idx' = NextIdx

\* No route leads to a file, or open fails, because the file is gone or no
\* descriptor is left: the response is a string.
ProcessString(c, f) ==
  /\ ~Cached(f)
  /\ Prepared(c, f, None)
  /\ UNCHANGED <<fds, cache, cache_idx>>
------------------------------------------------------------------------------
(***************************************************************************)
(* http_protocol_write.                                                    *)
(***************************************************************************)
\* What fstat says of a descriptor; it fails for one that is not open.
SizeOf(x) == IF x # None /\ fds[x] \in Files THEN Length[fds[x]] ELSE 0

\* connection_send_fd from offset off with remain bytes to go: the offsets it
\* sends, where it leaves the offset and whether it returns CONN_SEND_DONE.
\* sendfile advances the offset itself and the loop advances it again.  Mutant:
\* remain is not lowered by what was sent.
Left_All(remain, n) == remain
Left(remain, n) == remain - n

SendFd(x, start, len) ==
  LET size == SizeOf(x)
      outcome[p \in Nat \X Int] ==
        LET off == p[1]
            remain == p[2]
        IN
        IF remain <= 0 \/ (fds[x] \in Files /\ off >= size)
        THEN {[sent |-> << >>, off |-> off, done |-> TRUE]}
        ELSE IF fds[x] \notin Files
        THEN {[sent |-> << >>, off |-> off, done |-> FALSE]}
        ELSE {[sent |-> << >>, off |-> off, done |-> FALSE]}
             \union UNION {{[o EXCEPT !.sent = [k \in 1 .. n |-> off + k - 1] \o @] :
                              o \in outcome[<<off + 2 * n, Left(remain, n)>>]} :
                           n \in 1 .. IF remain < size - off THEN remain ELSE size - off}
  IN  outcome[<<start, len - start>>]

\* The header has been sent before the body is; body_len is what the header says.
Headed(r) ==
  IF r.st = "wait" THEN [r EXCEPT !.st = "body", !.body_len = SizeOf(r.body_fd)] ELSE r

WriteFile(c) ==
  /\ fd[c] # None /\ res[c].st \in {"wait", "body"} /\ res[c].body_fd # None
  /\ LET r == Headed(res[c]) IN
       \E o \in SendFd(r.body_fd, r.body_off, r.body_len) :
         /\ res' = [res EXCEPT ![c] = [r EXCEPT !.body_off = o.off, !.done = o.done]]
         /\ got' = [got EXCEPT ![c] = @ \o o.sent]
  /\ UNCHANGED <<fds, cache, cache_idx, fd, want>>

\* The string has length 0 (fstat of -1): nothing of it is sent.
WriteString(c) ==
  /\ fd[c] # None /\ res[c].st \in {"wait", "body"} /\ res[c].body_fd = None
  /\ res' = [res EXCEPT ![c] = [Headed(@) EXCEPT !.done = TRUE]]
  /\ UNCHANGED <<fds, cache, cache_idx, fd, want, got>>

Next ==
  \E c \in Conns :
    \/ Accept(c) \/ Close(c)
    \/ \E f \in Files : ProcessHit(c, f) \/ ProcessMiss(c, f) \/ ProcessString(c, f)
    \/ ProcessString(c, None)
    \/ WriteFile(c) \/ WriteString(c)

Spec == Init /\ [][Next]_vars
------------------------------------------------------------------------------
(***************************************************************************)
(* Properties.                                                             *)
(***************************************************************************)
\* A name in the cache always leads to the file it names: no descriptor of the
\* cache was closed, or given to something else, behind its back.
CacheTruth ==
  \A s \in CacheSlots : cache[s].file # None =>
    /\ fds[cache[s].fd] = cache[s].file
    /\ \A t \in CacheSlots \ {s} : cache[t].file # cache[s].file /\ cache[t].fd # cache[s].fd

\* No descriptor is lost: the files that are open are the cached ones.
NoFdLost ==
  {x \in Fds : fds[x] \in Files} =
    {cache[s].fd : s \in {t \in CacheSlots : cache[t].file # None}}

\* What makes the two inductive: beside the cached files only the sockets of the
\* connections are open, one each.
DescriptorInv ==
  /\ fds \in [Fds -> Files \union {Free, Sock}]
  /\ cache \in [CacheSlots -> [file : Files \union {None}, fd : Fds \union {None}]]
  /\ cache_idx \in CacheSlots
  /\ fd \in [Conns -> Fds \union {None}]
  /\ \A c \in Conns : fd[c] # None => fds[fd[c]] = Sock
  /\ \A c, d \in Conns : fd[c] # None /\ fd[c] = fd[d] => c = d
  /\ \A s \in CacheSlots : cache[s].file = None <=> cache[s].fd = None
  /\ CacheTruth /\ NoFdLost

\* The client is never sent a byte twice or out of order, and never more of a
\* body than its Content-Length said, however the sends are cut.
SentInOrder ==
  \A c \in Conns :
    /\ \A k, l \in DOMAIN got[c] : k < l => got[c][k] < got[c][l]
    /\ Len(got[c]) <= res[c].body_len

\* What makes it inductive: all that was sent lies before body_off, which moves by
\* no less than what is sent, and a response starts with nothing sent.
SendInv ==
  /\ res \in [Conns -> [st : {"none", "wait", "body"}, body_fd : Fds \union {None},
                       body_len : Nat, body_off : Nat, done : BOOLEAN]]
  /\ got \in [Conns -> Seq(Nat)]
  /\ \A c \in Conns :
       /\ res[c].st # "body" => got[c] = << >>
       /\ \A k, l \in DOMAIN got[c] : k < l => got[c][k] < got[c][l]
       /\ \A k \in DOMAIN got[c] : got[c][k] < res[c].body_off
       /\ Len(got[c]) <= res[c].body_off /\ Len(got[c]) <= res[c].body_len

\* def.h:47 says CONN_SEND_DONE is all of it sent.
DoneMeansAll ==
  \A c \in Conns : fd[c] # None /\ res[c].done => Len(got[c]) = res[c].body_len
=============================================================================
