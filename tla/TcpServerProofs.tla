--------------------------- MODULE TcpServerProofs ---------------------------
(***************************************************************************)
(* What holds of TcpServer for every value of its constants, as long as    *)
(* the arena fills up before the slots do (the defaults: 682 connections   *)
(* fit in the arena, 4096 have a slot).                                    *)
(***************************************************************************)
EXTENDS TcpServer, FiniteSetTheorems, SequenceTheorems, TLAPS

Inv == TypeOK /\ SlotInv /\ EventInv
------------------------------------------------------------------------------
(***************************************************************************)
(* The free lists.                                                         *)
(***************************************************************************)
\* id_list_get of a list with an id in it.
LEMMA PopKeeps ==
  ASSUME NEW s \in Seq(Ids), s # << >>, NoDup(s)
  PROVE  /\ Head(s) \in Ids /\ InList(Head(s), s)
         /\ PopId(s) \in Seq(Ids) /\ Len(PopId(s)) = Len(s) - 1
         /\ NoDup(PopId(s)) /\ ~InList(Head(s), PopId(s))
         /\ \A k \in Ids : InList(k, s) <=> k = Head(s) \/ InList(k, PopId(s))
<1> DEFINE t == Tail(s)
<1>1. /\ t \in Seq(Ids) /\ Len(t) = Len(s) - 1 /\ Head(s) \in Ids
      /\ \A n \in 1 .. Len(t) : t[n] = s[n + 1]
  BY HeadTailProperties
<1>2. Len(s) \in Nat /\ Len(t) \in Nat /\ DOMAIN s = 1 .. Len(s) /\ DOMAIN t = 1 .. Len(t)
      /\ Len(s) > 0
  BY <1>1, LenProperties, EmptySeq
<1>3. Head(s) = s[1] /\ 1 \in DOMAIN s
  BY <1>2
<1>4. NoDup(t)
  BY <1>1, <1>2 DEF NoDup
<1>5. ~InList(Head(s), t)
  BY <1>1, <1>2, <1>3 DEF NoDup, InList
<1>6. ASSUME NEW k \in Ids, InList(k, s), k # Head(s) PROVE InList(k, t)
  <2>1. PICK n \in DOMAIN s : s[n] = k  BY <1>6 DEF InList
  <2>2. n - 1 \in DOMAIN t /\ t[n - 1] = k  BY <1>1, <1>2, <1>3, <1>6, <2>1
  <2> QED  BY <2>2 DEF InList
<1>7. ASSUME NEW k \in Ids, InList(k, t) PROVE InList(k, s)
  <2>1. PICK n \in DOMAIN t : t[n] = k  BY <1>7 DEF InList
  <2>2. n + 1 \in DOMAIN s /\ s[n + 1] = k  BY <1>1, <1>2, <2>1
  <2> QED  BY <2>2 DEF InList
<1>8. InList(Head(s), s)  BY <1>3 DEF InList
<1> QED  BY <1>1, <1>4, <1>5, <1>6, <1>7, <1>8 DEF PopId

\* id_list_add of an id that is not in the list.
LEMMA PushKeeps ==
  ASSUME NEW s \in Seq(Ids), NoDup(s), NEW i \in Ids, ~InList(i, s)
  PROVE  /\ <<i>> \o s \in Seq(Ids) /\ Len(<<i>> \o s) = Len(s) + 1
         /\ NoDup(<<i>> \o s)
         /\ \A k \in Ids : InList(k, <<i>> \o s) <=> k = i \/ InList(k, s)
<1> DEFINE t == <<i>> \o s
<1>1. /\ <<i>> \in Seq(Ids) /\ Len(<<i>>) = 1 /\ <<i>>[1] = i
  OBVIOUS
<1>2. /\ t \in Seq(Ids) /\ Len(t) = 1 + Len(s)
      /\ \A n \in 1 .. 1 + Len(s) : t[n] = IF n <= 1 THEN <<i>>[n] ELSE s[n - 1]
  <2>1. /\ t \in Seq(Ids) /\ Len(t) = Len(<<i>>) + Len(s)
        /\ \A n \in 1 .. Len(<<i>>) + Len(s) :
             t[n] = IF n <= Len(<<i>>) THEN <<i>>[n] ELSE s[n - Len(<<i>>)]
    BY <1>1, ConcatProperties, Zenon
  <2> QED  BY <1>1, <2>1
<1>3. Len(s) \in Nat /\ DOMAIN s = 1 .. Len(s) /\ DOMAIN t = 1 .. Len(t)
  BY <1>2, LenProperties
<1>4. t[1] = i /\ \A n \in 2 .. Len(s) + 1 : t[n] = s[n - 1] /\ n - 1 \in DOMAIN s
  BY <1>1, <1>2, <1>3
<1> HIDE DEF t
<1>5. NoDup(t)
  <2> SUFFICES ASSUME NEW k \in DOMAIN t, NEW l \in DOMAIN t, t[k] = t[l] PROVE k = l
    BY DEF NoDup
  <2>0. \A n \in DOMAIN t : n # 1 => t[n] # i
    <3> SUFFICES ASSUME NEW n \in DOMAIN t, n # 1 PROVE t[n] # i
      OBVIOUS
    <3>1. n \in 2 .. Len(s) + 1  BY <1>2, <1>3
    <3>2. t[n] = s[n - 1] /\ n - 1 \in DOMAIN s  BY <1>4, <3>1
    <3> QED  BY <3>2 DEF InList
  <2>1. CASE k = 1 /\ l # 1  BY <1>4, <2>0, <2>1
  <2>2. CASE l = 1 /\ k # 1  BY <1>4, <2>0, <2>2
  <2>3. CASE k # 1 /\ l # 1
    <3>1. s[k - 1] = s[l - 1] /\ k - 1 \in DOMAIN s /\ l - 1 \in DOMAIN s
      BY <1>2, <1>3, <1>4, <2>3
    <3>2. k - 1 = l - 1  BY <3>1 DEF NoDup
    <3> QED  BY <3>2, <1>2, <1>3
  <2> QED  BY <2>1, <2>2, <2>3
<1>6. ASSUME NEW k \in Ids, InList(k, s) PROVE InList(k, t)
  <2>1. PICK n \in DOMAIN s : s[n] = k  BY <1>6 DEF InList
  <2>2. n + 1 \in DOMAIN t /\ t[n + 1] = k  BY <1>2, <1>3, <1>4, <2>1
  <2> QED  BY <2>2 DEF InList
<1>7. InList(i, t)  BY <1>2, <1>3, <1>4 DEF InList
<1>8. ASSUME NEW k \in Ids, InList(k, t), k # i PROVE InList(k, s)
  <2>1. PICK n \in DOMAIN t : t[n] = k  BY <1>8 DEF InList
  <2>2. n - 1 \in DOMAIN s /\ s[n - 1] = k  BY <1>2, <1>3, <1>4, <1>8, <2>1
  <2> QED  BY <2>2 DEF InList
<1> QED  BY <1>2, <1>3, <1>5, <1>6, <1>7, <1>8 DEF t
------------------------------------------------------------------------------
(***************************************************************************)
(* Types of what the handlers compute.                                     *)
(***************************************************************************)
LEMMA NewConnType ==
  ASSUME NEW n \in Nat
  PROVE  /\ NewConn(n) \in Connection /\ NewConn(n).open /\ NewConn(n).st = "idle"
         /\ ClosedConn \in Connection /\ ~ClosedConn.open
<1> QED  BY DEF NewConn, ClosedConn, Connection, None

\* Every record a handler makes of a connection keeps its type, its owner and,
\* if it is not closing, that.
LEMMA RecvType ==
  ASSUME NEW c \in Connection, NEW b \in BOOLEAN
  PROVE  /\ Recv(c, b) \in Connection /\ Recv(c, b).open = c.open
         /\ Recv(c, b).st = "reading" /\ Recv(c, b).id = c.id
<1>1. [c EXCEPT !.st = "reading"] \in Connection
  BY DEF Connection
<1>2. c.reqs + 1 \in Nat
  BY DEF Connection
<1> QED  BY <1>1, <1>2 DEF Recv, Connection

LEMMA WithCtxType ==
  ASSUME NEW c \in Connection
  PROVE  /\ WithCtx(c) \in Connection /\ WithCtx(c).open = c.open
         /\ WithCtx(c).st = c.st /\ WithCtx(c).id = c.id
<1> QED  BY DEF WithCtx, Connection

LEMMA CountedType ==
  ASSUME NEW c \in Connection
  PROVE  [c EXCEPT !.reqs = @ + 1] \in Connection
<1>1. c.reqs + 1 \in Nat
  BY DEF Connection
<1> QED  BY <1>1 DEF Connection

LEMMA SentType ==
  ASSUME NEW c \in Connection
  PROVE  /\ Sent(c) \in Connection /\ Sent(c).open = c.open
         /\ Sent(c).st \in {c.st, "idle"} /\ Sent(c).id = c.id
<1>1. c.reqs + 1 \in Nat
  BY DEF Connection
<1> DEFINE d == [c EXCEPT !.st = "idle", !.reqs = @ + 1]
<1>2. d \in Connection
  BY <1>1 DEF Connection
<1>3. d.open = c.open /\ d.st = "idle" /\ d.id = c.id
  BY DEF Connection
<1>4. Sent(c) = c \/ Sent(c) = d
  BY DEF Sent
<1> HIDE DEF d
<1> QED  BY <1>2, <1>3, <1>4

LEMMA HeadSentType ==
  ASSUME NEW c \in Connection
  PROVE  /\ HeadSent(c) \in Connection /\ HeadSent(c).open = c.open
         /\ HeadSent(c).st \in {c.st, "idle"} /\ HeadSent(c).id = c.id
<1>1. Sent(c) \in Connection /\ Sent(c).open = c.open
      /\ Sent(c).st \in {c.st, "idle"} /\ Sent(c).id = c.id
  BY SentType
<1> QED  BY <1>1 DEF HeadSent, Connection

LEMMA OccursType ==
  ASSUME TypeOK, NEW k \in Keys
  PROVE  /\ Occurs(k) \in Event /\ Occurs(k).kind = k.kind /\ Occurs(k).id = k.id
         /\ k.kind = "tcp" => Occurs(k).gen = conn[k.id].id
<1>1. 0 \in Ids  BY ConstantsAssumption DEF Ids
<1>2. k.kind \in {"listen", "tcp", "timer"} /\ k.id \in Ids
  BY <1>1 DEF Keys, Listen, Key
<1>3. CASE k.kind = "tcp"
  <2>1. conn[k.id] \in Connection /\ interest[k.id] \in {"none", "in", "inout"}
        /\ sock[k.id] \in [data : BOOLEAN, fin : BOOLEAN, wr : BOOLEAN]
    BY <1>2 DEF TypeOK
  <2>2. conn[k.id].id \in Nat \union {None}
        /\ sock[k.id].data \in BOOLEAN /\ sock[k.id].fin \in BOOLEAN /\ sock[k.id].wr \in BOOLEAN
    BY <2>1 DEF Connection
  <2> QED  BY <1>2, <1>3, <2>2 DEF Occurs, Event
<1>4. CASE k.kind # "tcp"
  BY <1>2, <1>4 DEF Occurs, Event, None
<1> QED  BY <1>3, <1>4

\* The request a read has completed.
LEMMA AnsweredType ==
  ASSUME NEW c \in Connection, NEW k \in BOOLEAN, NEW f \in BOOLEAN
  PROVE  /\ Answered(c, k, f) \in Connection /\ Answered(c, k, f).open = c.open
         /\ Answered(c, k, f).st = c.st /\ Answered(c, k, f).id = c.id
<1>1. [c EXCEPT !.parsed = TRUE] \in Connection
  BY DEF Connection
<1> QED  BY <1>1, ZenonT(30) DEF Answered, Connection
------------------------------------------------------------------------------
(***************************************************************************)
(* The invariant.                                                          *)
(***************************************************************************)
LEMMA InitInv == Init => Inv
<1> SUFFICES ASSUME Init PROVE Inv  OBVIOUS
<1> USE ConstantsAssumption
<1>1. tcpIds \in Seq(Ids) /\ Len(tcpIds) = MaxConn /\ DOMAIN tcpIds = 1 .. MaxConn
      /\ timerIds = tcpIds
  BY DEF Init, Ids
<1>2. TypeOK
  <2>1. 0 \in Ids  BY DEF Ids
  <2>2. cur \in Event  BY <2>1 DEF Init, NoEvent, Event, None
  <2>3. conn \in [Ids -> Connection]  BY DEF Init, ClosedConn, Connection, None
  <2>4. last \in [tcp : Ids \union {None}, timer : Ids \union {None}]
    BY DEF Init, NoIndexes, None
  <2>5. /\ timeEvent \in [Ids -> Ids \union {None}] /\ timerTcp \in [Ids -> Ids \union {None}]
        /\ interest \in [Ids -> {"none", "in", "inout"}]
        /\ sock \in [Ids -> [data : BOOLEAN, fin : BOOLEAN, wr : BOOLEAN]]
    BY DEF Init, NewSock
  <2> QED  BY <1>1, <2>2, <2>3, <2>4, <2>5 DEF Init, TypeOK
<1>3. NoDup(tcpIds)
  BY <1>1 DEF Init, NoDup
<1>4. \A i \in Ids : InList(i, tcpIds)
  <2> SUFFICES ASSUME NEW i \in Ids PROVE InList(i, tcpIds)  OBVIOUS
  <2>1. i + 1 \in DOMAIN tcpIds /\ tcpIds[i + 1] = i  BY <1>1 DEF Init, Ids
  <2> QED  BY <2>1 DEF InList
<1>5. SlotInv
  BY <1>1, <1>3, <1>4 DEF Init, SlotInv, ClosedConn
<1>6. EventInv
  BY DEF Init, EventInv, ClosedConn
<1> QED  BY <1>2, <1>5, <1>6 DEF Inv

\* Closing an open connection whose events are all handled: its slot and its
\* timer become free together, and nothing is left that refers to them.
LEMMA CloseKeeps ==
  ASSUME Inv, ArenaConns < MaxConn,
         NEW i \in Ids, NEW c \in Connection, NEW r \in Int,
         NEW next \in {"write", "dispatch"},
         conn[i].open, \A e \in batch : e.kind = "tcp" => e.id # i,
         next = "write" => cur.id = i,
         Close(i, c, r, next),
         UNCHANGED <<running, last, batch, nextId, backlog, clients>>
  PROVE  Inv'
<1> USE ConstantsAssumption
<1>1. timeEvent[i] = i /\ timerIds = tcpIds /\ ~InList(i, tcpIds)
  BY DEF Inv, SlotInv
<1>2. /\ cur' \in Event
      /\ pc' \in {"write", "dispatch", "spin", "sigpipe"}
      /\ pc' = "write" => cur'.id = i
  <2>1. NoEvent \in Event  BY DEF NoEvent, Event, Ids, None
  <2> QED  BY <1>1, <2>1 DEF Close, GoTo, Inv, TypeOK
<1>3. CASE c.ctx /\ c.reqs = MaxReq
  <2>1. UNCHANGED <<current, refs, tcpIds, timerIds, conn, timeEvent, timerTcp,
                    interest, timers, ready, sock>> /\ pc' = "spin"
    BY <1>3 DEF Close, GoTo
  <2>2. TypeOK'  BY <1>2, <2>1 DEF Inv, TypeOK, Ended
  <2>3. SlotInv'  BY <2>1 DEF Inv, SlotInv
  <2>4. EventInv'  BY <2>1 DEF Inv, EventInv
  <2> QED  BY <2>2, <2>3, <2>4 DEF Inv
<1>4. CASE ~(c.ctx /\ c.reqs = MaxReq)
  <2>0. /\ CountClosed /\ DropTimer(i, timeEvent[i])
        /\ refs' = (IF c.ctx THEN r - 1 ELSE r)
        /\ tcpIds' = <<i>> \o tcpIds /\ timerIds' = <<timeEvent[i]>> \o timerIds
        /\ conn' = [conn EXCEPT ![i] = ClosedConn]
        /\ timeEvent' = [timeEvent EXCEPT ![i] = None]
        /\ interest' = [interest EXCEPT ![i] = "none"]
        /\ sock' = [sock EXCEPT ![i] = NewSock]
    BY <1>4, Zenon DEF Close
  <2>1. /\ current' = current - 1 /\ refs' \in Int
        /\ tcpIds' = <<i>> \o tcpIds /\ timerIds' = tcpIds'
        /\ conn' = [conn EXCEPT ![i] = ClosedConn]
        /\ timeEvent' = [timeEvent EXCEPT ![i] = None]
        /\ timerTcp' = [timerTcp EXCEPT ![i] = None]
        /\ timers' = timers \ {i}
        /\ ready' = ready \ {Key("tcp", i), Key("timer", i)}
        /\ interest' = [interest EXCEPT ![i] = "none"]
        /\ sock' = [sock EXCEPT ![i] = NewSock]
    BY <1>1, <2>0 DEF CountClosed, DropTimer
  <2>2. /\ tcpIds' \in Seq(Ids) /\ Len(tcpIds') = Len(tcpIds) + 1 /\ NoDup(tcpIds')
        /\ \A k \in Ids : InList(k, tcpIds') <=> k = i \/ InList(k, tcpIds)
    BY <1>1, <2>1, PushKeeps DEF Inv, TypeOK, SlotInv
  <2>3. ClosedConn \in Connection /\ ~ClosedConn.open
    BY NewConnType
  <2>4. conn' \in [Ids -> Connection] /\ \A k \in Ids : conn'[k] = IF k = i THEN ClosedConn ELSE conn[k]
    BY <2>1, <2>3 DEF Inv, TypeOK
  <2>5. TypeOK'
    <3>1. NewSock \in [data : BOOLEAN, fin : BOOLEAN, wr : BOOLEAN]  BY DEF NewSock
    <3>2. /\ timeEvent' \in [Ids -> Ids \union {None}] /\ timerTcp' \in [Ids -> Ids \union {None}]
          /\ interest' \in [Ids -> {"none", "in", "inout"}]
          /\ sock' \in [Ids -> [data : BOOLEAN, fin : BOOLEAN, wr : BOOLEAN]]
      BY <2>1, <3>1 DEF Inv, TypeOK
    <3>3. /\ timers' \in SUBSET Ids /\ ready' \in SUBSET Keys /\ current' \in Int
      BY <2>1 DEF Inv, TypeOK
    <3>4. timerIds' \in Seq(Ids)  BY <2>1, <2>2
    <3> QED  BY <1>2, <2>1, <2>2, <2>4, <3>2, <3>3, <3>4 DEF Inv, TypeOK, Ended, Handlers
  <2>6. SlotInv'
    <3>1. /\ timerIds' = tcpIds' /\ NoDup(tcpIds')  BY <2>1, <2>2
    <3>2. \A k \in Ids : conn'[k].open => timeEvent'[k] = k /\ ~InList(k, tcpIds')
      BY <2>1, <2>2, <2>3, <2>4 DEF Inv, TypeOK, SlotInv
    <3>3. \A k \in Ids : ~conn'[k].open => timerTcp'[k] = None /\ interest'[k] = "none"
      BY <2>1, <2>3, <2>4 DEF Inv, TypeOK, SlotInv
    <3>4. running' => \A k \in Ids : conn'[k].open => timerTcp'[k] = k
      BY <2>1, <2>3, <2>4 DEF Inv, TypeOK, SlotInv
    <3>5. running' => \A k \in Ids : InList(k, tcpIds') \/ conn'[k].open
      BY <2>2, <2>4 DEF Inv, SlotInv
    <3>6. /\ running' => Len(tcpIds') = MaxConn - current'
          /\ current' <= ArenaConns
      BY <2>1, <2>2, LenProperties DEF Inv, TypeOK, SlotInv
    <3>7. \A k \in Ids : timerTcp'[k] \in {None, k}
      BY <2>1 DEF Inv, TypeOK, SlotInv
    <3> QED  BY <3>1, <3>2, <3>3, <3>4, <3>5, <3>6, <3>7 DEF SlotInv, InList, NoDup
  <2>7. EventInv'
    <3>1. \A k \in timers' : conn'[k].open
      BY <2>1, <2>4 DEF Inv, TypeOK, EventInv
    <3>2. \A k \in ready' : k # Listen => conn'[k.id].open
      <4> SUFFICES ASSUME NEW k \in ready', k # Listen PROVE conn'[k.id].open  OBVIOUS
      <4>1. k \in Keys /\ k \in ready /\ k # Key("tcp", i) /\ k # Key("timer", i)
        BY <2>1 DEF Inv, TypeOK
      <4>2. k.id # i /\ k.id \in Ids  BY <4>1 DEF Keys, Key, Listen
      <4> QED  BY <4>1, <4>2, <2>4 DEF Inv, EventInv
    <3>3. \A e \in batch' : e.kind = "tcp" => conn'[e.id].open /\ conn'[e.id].id = e.gen
      BY <2>4 DEF Inv, TypeOK, EventInv, Event
    <3>4. \A k \in Ids : conn'[k].open => conn'[k].st # "closing"
      BY <2>3, <2>4 DEF Inv, EventInv
    <3> QED  BY <1>2, <3>1, <3>2, <3>3, <3>4 DEF Inv, EventInv
  <2> QED  BY <2>5, <2>6, <2>7 DEF Inv
<1> QED  BY <1>3, <1>4

------------------------------------------------------------------------------
(***************************************************************************)
(* One lemma per kind of step.                                             *)
(***************************************************************************)
LEMMA EnvironmentKeeps ==
  ASSUME Inv, Environment PROVE Inv'
<1> USE DEF Inv, server
<1>1. CASE ClientConnects
  <2>1. TypeOK'  BY <1>1 DEF ClientConnects, TypeOK, Keys
  <2>2. SlotInv' /\ EventInv'  BY <1>1 DEF ClientConnects, SlotInv, EventInv
  <2> QED  BY <2>1, <2>2
<1>2. ASSUME NEW i \in Ids, PeerSends(i) \/ PeerCloses(i) \/ BecomesWritable(i) PROVE Inv'
  <2>1. interest[i] # "none" /\ conn[i].open
    BY <1>2 DEF PeerSends, PeerCloses, BecomesWritable, SlotInv
  <2>2. /\ UNCHANGED <<server, interest, timers, backlog, clients>>
        /\ ready' \in {ready, ready \union {Key("tcp", i)}}
    BY <1>2, Zenon DEF PeerSends, PeerCloses, BecomesWritable
  <2>3. sock' \in [Ids -> [data : BOOLEAN, fin : BOOLEAN, wr : BOOLEAN]]
    <3>1. sock[i] \in [data : BOOLEAN, fin : BOOLEAN, wr : BOOLEAN]  BY DEF TypeOK
    <3>2. /\ [sock[i] EXCEPT !.data = TRUE] \in [data : BOOLEAN, fin : BOOLEAN, wr : BOOLEAN]
          /\ [sock[i] EXCEPT !.fin = TRUE] \in [data : BOOLEAN, fin : BOOLEAN, wr : BOOLEAN]
          /\ [sock[i] EXCEPT !.wr = TRUE] \in [data : BOOLEAN, fin : BOOLEAN, wr : BOOLEAN]
      BY <3>1
    <3>3. \E s \in [data : BOOLEAN, fin : BOOLEAN, wr : BOOLEAN] :
            sock' = [sock EXCEPT ![i] = s]
      <4>1. \/ sock' = [sock EXCEPT ![i].data = TRUE]
            \/ sock' = [sock EXCEPT ![i].fin = TRUE]
            \/ sock' = [sock EXCEPT ![i].wr = TRUE]
        BY <1>2, Zenon DEF PeerSends, PeerCloses, BecomesWritable
      <4> QED  BY <3>2, <4>1
    <3>4. sock \in [Ids -> [data : BOOLEAN, fin : BOOLEAN, wr : BOOLEAN]]  BY DEF TypeOK
    <3> HIDE DEF Inv
    <3> QED  BY <3>3, <3>4
  <2>4. Key("tcp", i) \in Keys /\ Key("tcp", i).id = i  BY DEF Key, Keys
  <2>5. TypeOK'  BY <2>2, <2>3, <2>4 DEF TypeOK
  <2>6. SlotInv'  BY <2>2 DEF SlotInv
  <2>7. EventInv'  BY <2>1, <2>2, <2>4 DEF EventInv
  <2> QED  BY <2>5, <2>6, <2>7
<1>3. ASSUME NEW i \in Ids, TimerFires(i) PROVE Inv'
  <2>1. Key("timer", i) \in Keys /\ Key("timer", i).id = i  BY DEF Key, Keys
  <2>2. TypeOK'  BY <1>3, <2>1 DEF TimerFires, TypeOK
  <2>3. SlotInv'  BY <1>3 DEF TimerFires, SlotInv
  <2>4. EventInv'  BY <1>3, <2>1 DEF TimerFires, EventInv
  <2> QED  BY <2>2, <2>3, <2>4
<1> QED  BY <1>1, <1>2, <1>3 DEF Environment

\* epoll_wait turns ready sockets, which are open, into events of their
\* present owners, one for each socket.
LEMMA EpollWaitKeeps ==
  ASSUME Inv, EpollWait PROVE Inv'
<1> USE DEF Inv
<1>1. PICK K \in SUBSET ready :
        /\ batch' = {e \in {Occurs(k) : k \in K} : e.in \/ e.out \/ e.hup}
        /\ ready' = ready \ K
  BY DEF EpollWait, Fetch
<1>2. pc' = "dispatch" /\ UNCHANGED <<running, cur, last, current, nextId, refs, tcpIds,
        timerIds, conn, timeEvent, timerTcp, interest, timers, backlog, clients, sock>>
  BY DEF EpollWait
<1>3. K \subseteq Keys  BY <1>1 DEF TypeOK
<1>4. \A e \in batch' : \E k \in K : e = Occurs(k)
  BY <1>1
<1>5. TypeOK'
  <2>1. batch' \subseteq Event  BY <1>3, <1>4, OccursType
  <2> QED  BY <1>1, <1>2, <2>1 DEF TypeOK
<1>6. SlotInv'  BY <1>2 DEF SlotInv
<1>7. EventInv'
  <2>1. \A e \in batch' : e.kind = "tcp" => conn[e.id].open /\ conn[e.id].id = e.gen
    <3> SUFFICES ASSUME NEW e \in batch', e.kind = "tcp"
                 PROVE conn[e.id].open /\ conn[e.id].id = e.gen  OBVIOUS
    <3>1. PICK k \in K : e = Occurs(k)  BY <1>4
    <3>2. k \in Keys /\ k \in ready  BY <1>3
    <3>3. e.kind = k.kind /\ e.id = k.id /\ e.gen = conn[k.id].id  BY <3>1, <3>2, OccursType
    <3>4. k # Listen  BY <3>3 DEF Listen, Key
    <3> QED  BY <3>2, <3>3, <3>4 DEF EventInv
  <2>2. \A e, f \in batch' : e.kind = "tcp" /\ f.kind = "tcp" /\ e.id = f.id => e = f
    <3> SUFFICES ASSUME NEW e \in batch', NEW f \in batch',
                        e.kind = "tcp", f.kind = "tcp", e.id = f.id
                 PROVE e = f  OBVIOUS
    <3>1. PICK k \in K : e = Occurs(k)  BY <1>4
    <3>2. PICK l \in K : f = Occurs(l)  BY <1>4
    <3>3. k \in Keys /\ l \in Keys  BY <1>3
    <3>4. k.kind = "tcp" /\ l.kind = "tcp" /\ k.id = l.id  BY <3>1, <3>2, <3>3, OccursType
    <3>5. k = l  BY <3>3, <3>4 DEF Keys, Listen, Key
    <3> QED  BY <3>1, <3>2, <3>5
  <2> QED  BY <1>1, <1>2, <2>1, <2>2 DEF EventInv
<1> QED  BY <1>5, <1>6, <1>7

LEMMA LoopKeeps ==
  ASSUME Inv, EpollWaitFails \/ Dispatch \/ BatchDone PROVE Inv'
<1> USE DEF Inv
<1>0. NoIndexes \in [tcp : Ids \union {None}, timer : Ids \union {None}]
  BY DEF NoIndexes
<1>1. CASE EpollWaitFails
  <2>1. TypeOK'  BY <1>1 DEF EpollWaitFails, TypeOK, kernel, Ended
  <2>2. SlotInv' /\ EventInv'  BY <1>1 DEF EpollWaitFails, SlotInv, EventInv, kernel
  <2> QED  BY <2>1, <2>2
<1>2. CASE BatchDone
  <2>1. TypeOK'  BY <1>0, <1>2 DEF BatchDone, TypeOK, kernel, Ended
  <2>2. SlotInv' /\ EventInv'  BY <1>2 DEF BatchDone, SlotInv, EventInv, kernel
  <2> QED  BY <2>1, <2>2
<1>3. CASE Dispatch
  <2>1. PICK e \in batch, late \in BOOLEAN :
          /\ cur' = [e EXCEPT !.late = late]
          /\ batch' = batch \ {e}
          /\ pc' = IF e.kind = "listen" /\ ~running THEN "dispatch" ELSE HandlerOf(e)
    BY <1>3 DEF Dispatch
  <2>2. last' = NoIndexes /\ UNCHANGED <<running, current, nextId, refs, tcpIds, timerIds,
          conn, timeEvent, timerTcp, kernel>>
    BY <1>3 DEF Dispatch
  <2>3. e \in Event  BY DEF TypeOK
  <2>4. cur' \in Event /\ cur'.id = e.id /\ cur'.gen = e.gen  BY <2>1, <2>3 DEF Event
  <2>5. /\ pc' \in {"dispatch", "accept", "timer", "hup", "read", "write"}
        /\ pc' \in {"hup", "read", "write"} => e.kind = "tcp"
        /\ pc' = "accept" => running
    BY <2>1, <2>3 DEF HandlerOf, Event
  <2>6. TypeOK'  BY <1>0, <2>1, <2>2, <2>4, <2>5 DEF TypeOK, kernel, Handlers
  <2>7. SlotInv'  BY <2>2 DEF SlotInv, kernel
  <2>8. EventInv'
    <3>1. \A f \in batch' : f \in batch /\ f # e  BY <2>1
    <3>2. e.kind = "tcp" => conn[e.id].open /\ conn[e.id].id = e.gen
          /\ \A f \in batch' : f.kind = "tcp" => f.id # e.id
      BY <3>1 DEF EventInv
    <3> QED  BY <2>2, <2>4, <2>5, <3>1, <3>2 DEF EventInv, kernel
  <2> QED  BY <2>6, <2>7, <2>8
<1> QED  BY <1>1, <1>2, <1>3

\* While the thread accepts, a slot is free: so is an id, the same in both lists.
LEMMA FreeSlot ==
  ASSUME Inv, ArenaConns < MaxConn, running
  PROVE  /\ current # MaxConn /\ tcpIds # << >> /\ timerIds = tcpIds
         /\ Head(tcpIds) \in Ids /\ ~conn[Head(tcpIds)].open
<1>1. current < MaxConn /\ Len(tcpIds) = MaxConn - current /\ tcpIds \in Seq(Ids)
      /\ timerIds = tcpIds /\ NoDup(tcpIds)
  BY ConstantsAssumption DEF Inv, TypeOK, SlotInv
<1>2. tcpIds # << >>
  BY <1>1, ConstantsAssumption DEF Inv, TypeOK
<1>3. Head(tcpIds) \in Ids /\ InList(Head(tcpIds), tcpIds)
  BY <1>1, <1>2, PopKeeps
<1> QED  BY <1>1, <1>2, <1>3, ConstantsAssumption DEF Inv, TypeOK, SlotInv

LEMMA AcceptKeeps ==
  ASSUME Inv, ArenaConns < MaxConn, Accept PROVE Inv'
<1> USE DEF Inv
<1> DEFINE i == Head(tcpIds)
<1>0. running /\ pc = "accept"
  BY DEF Accept, AcceptFull, AcceptNone, AcceptNoTimer, AcceptMemFull, AcceptEpollFails,
         AcceptOk, EventInv
<1>1. /\ current # MaxConn /\ tcpIds # << >> /\ timerIds = tcpIds
      /\ i \in Ids /\ ~conn[i].open
  BY <1>0, FreeSlot
<1>2. /\ PopId(tcpIds) \in Seq(Ids) /\ Len(PopId(tcpIds)) = Len(tcpIds) - 1
      /\ NoDup(PopId(tcpIds)) /\ ~InList(i, PopId(tcpIds))
      /\ \A k \in Ids : InList(k, tcpIds) <=> k = i \/ InList(k, PopId(tcpIds))
  BY <1>1, PopKeeps DEF TypeOK, SlotInv
<1>3. NoEvent \in Event  BY ConstantsAssumption DEF NoEvent, Event, Ids, None
<1>4. /\ NewConn(nextId) \in Connection /\ NewConn(nextId).open
      /\ NewConn(nextId).st = "idle"
      /\ NewSock \in [data : BOOLEAN, fin : BOOLEAN, wr : BOOLEAN]
  BY NewConnType DEF TypeOK, NewSock
<1> HIDE DEF i
<1>5. CASE AcceptNone \/ AcceptNoTimer
  <2>1. /\ pc' = "dispatch" /\ cur' = NoEvent /\ backlog' \in Nat
        /\ UNCHANGED <<running, last, batch, current, nextId, refs, tcpIds, timerIds, conn,
             timeEvent, timerTcp, interest, timers, ready, clients, sock>>
    BY <1>5 DEF AcceptNone, AcceptNoTimer, GoTo, kernel, TypeOK
  <2>2. TypeOK'  BY <1>3, <2>1 DEF TypeOK
  <2>3. SlotInv' /\ EventInv'  BY <2>1 DEF SlotInv, EventInv
  <2> QED  BY <2>2, <2>3
<1>6. CASE AcceptMemFull
  <2>1. /\ pc' = "dispatch" /\ cur' = NoEvent /\ backlog' \in Nat /\ running' = FALSE
        /\ tcpIds' = PopId(tcpIds) /\ timerIds' = PopId(tcpIds)
        /\ UNCHANGED <<last, batch, current, nextId, refs, conn, timeEvent, timerTcp,
             interest, timers, ready, clients, sock>>
    BY <1>1, <1>6 DEF AcceptMemFull, StopServer, GoTo, TypeOK
  <2>2. TypeOK'  BY <1>2, <1>3, <2>1 DEF TypeOK
  <2>3. SlotInv'  BY <1>2, <2>1 DEF SlotInv, NoDup, InList
  <2>4. EventInv'  BY <2>1 DEF EventInv
  <2> QED  BY <2>2, <2>3, <2>4
<1>7. CASE AcceptEpollFails
  <2>1. /\ pc' = "dispatch" /\ cur' = NoEvent /\ backlog' \in Nat /\ running' = FALSE
        /\ tcpIds' = PopId(tcpIds) /\ timerIds' = PopId(tcpIds)
        /\ nextId' = nextId + 1
        /\ conn' = [conn EXCEPT ![i] = NewConn(nextId)]
        /\ timeEvent' = [timeEvent EXCEPT ![i] = i]
        /\ sock' = [sock EXCEPT ![i] = NewSock]
        /\ interest' \in {interest, [interest EXCEPT ![i] = "in"]}
        /\ timerTcp' \in {timerTcp, [timerTcp EXCEPT ![i] = i]}
        /\ UNCHANGED <<last, batch, current, refs, timers, ready, clients>>
    BY <1>1, <1>7 DEF AcceptEpollFails, StopServer, GoTo, FirstInterest, TypeOK, i
  <2>2. TypeOK'
    <3>1. conn' \in [Ids -> Connection]  BY <1>4, <2>1 DEF TypeOK
    <3>2. timeEvent' \in [Ids -> Ids \union {None}]  BY <1>1, <2>1 DEF TypeOK
    <3>3. timerTcp' \in [Ids -> Ids \union {None}]
      <4>1. [timerTcp EXCEPT ![i] = i] \in [Ids -> Ids \union {None}]  BY <1>1 DEF TypeOK
      <4> QED  BY <2>1, <4>1 DEF TypeOK
    <3>4. interest' \in [Ids -> {"none", "in", "inout"}]
      <4>1. [interest EXCEPT ![i] = "in"] \in [Ids -> {"none", "in", "inout"}]  BY DEF TypeOK
      <4> QED  BY <2>1, <4>1 DEF TypeOK
    <3>5. sock' \in [Ids -> [data : BOOLEAN, fin : BOOLEAN, wr : BOOLEAN]]
      BY <1>4, <2>1 DEF TypeOK
    <3>6. nextId' \in Nat  BY <2>1 DEF TypeOK
    <3> QED  BY <1>2, <1>3, <2>1, <3>1, <3>2, <3>3, <3>4, <3>5, <3>6 DEF TypeOK
  <2>3. \A k \in Ids : conn'[k] = IF k = i THEN NewConn(nextId) ELSE conn[k]
    BY <2>1 DEF TypeOK
  <2>4. SlotInv'
    <3>1. timerIds' = tcpIds' /\ NoDup(tcpIds')  BY <1>2, <2>1
    <3>2. \A k \in Ids : conn'[k].open => timeEvent'[k] = k /\ ~InList(k, tcpIds')
      BY <1>1, <1>2, <1>4, <2>1, <2>3 DEF TypeOK, SlotInv
    <3>3. \A k \in Ids : ~conn'[k].open => timerTcp'[k] = None /\ interest'[k] = "none"
      BY <1>1, <1>4, <2>1, <2>3 DEF TypeOK, SlotInv
    <3>4. \A k \in Ids : timerTcp'[k] \in {None, k}
      BY <2>1 DEF TypeOK, SlotInv
    <3> QED  BY <2>1, <3>1, <3>2, <3>3, <3>4 DEF SlotInv, NoDup, InList
  <2>5. EventInv'
    <3>1. \A k \in timers' : conn'[k].open  BY <1>1, <1>4, <2>1, <2>3 DEF TypeOK, EventInv
    <3>2. \A k \in ready' : k # Listen => conn'[k.id].open
      BY <1>1, <1>4, <2>1, <2>3 DEF TypeOK, EventInv, Keys
    <3>3. \A e \in batch' : e.kind = "tcp" => conn'[e.id].open /\ conn'[e.id].id = e.gen
      BY <1>1, <2>1, <2>3 DEF TypeOK, EventInv, Event
    <3>4. \A k \in Ids : conn'[k].open => conn'[k].st # "closing"
      BY <1>4, <2>3 DEF EventInv
    <3> QED  BY <2>1, <3>1, <3>2, <3>3, <3>4 DEF EventInv
  <2> QED  BY <2>2, <2>4, <2>5
<1>8. CASE AcceptOk
  <2>1. /\ backlog' \in Nat /\ UNCHANGED <<pc, cur>> /\ current < ArenaConns
        /\ last' = [tcp |-> i, timer |-> i]
        /\ tcpIds' = PopId(tcpIds) /\ timerIds' = PopId(tcpIds)
        /\ nextId' = nextId + 1 /\ current' = current + 1
        /\ conn' = [conn EXCEPT ![i] = NewConn(nextId)]
        /\ timeEvent' = [timeEvent EXCEPT ![i] = i]
        /\ timerTcp' = [timerTcp EXCEPT ![i] = i]
        /\ interest' = [interest EXCEPT ![i] = "in"]
        /\ sock' = [sock EXCEPT ![i] = NewSock]
        /\ timers' = timers \union {i}
        /\ UNCHANGED <<running, batch, refs, ready, clients>>
    BY <1>1, <1>8 DEF AcceptOk, AcceptNext, FirstInterest, TypeOK, i
  <2>2. TypeOK'
    <3>1. /\ conn' \in [Ids -> Connection] /\ timeEvent' \in [Ids -> Ids \union {None}]
          /\ timerTcp' \in [Ids -> Ids \union {None}]
          /\ interest' \in [Ids -> {"none", "in", "inout"}]
          /\ sock' \in [Ids -> [data : BOOLEAN, fin : BOOLEAN, wr : BOOLEAN]]
      BY <1>1, <1>4, <2>1 DEF TypeOK
    <3>2. last' \in [tcp : Ids \union {None}, timer : Ids \union {None}]
      BY <1>1, <2>1
    <3> QED  BY <1>1, <1>2, <2>1, <3>1, <3>2 DEF TypeOK
  <2>3. \A k \in Ids : conn'[k] = IF k = i THEN NewConn(nextId) ELSE conn[k]
    BY <2>1 DEF TypeOK
  <2>4. SlotInv'
    <3>1. Len(tcpIds') = MaxConn - current' /\ current' <= ArenaConns
      BY <1>0, <1>2, <2>1, ConstantsAssumption, LenProperties DEF TypeOK, SlotInv
    <3>2. timerIds' = tcpIds' /\ NoDup(tcpIds')  BY <1>2, <2>1
    <3>3. \A k \in Ids : conn'[k].open => timeEvent'[k] = k /\ ~InList(k, tcpIds')
      BY <1>1, <1>2, <1>4, <2>1, <2>3 DEF TypeOK, SlotInv
    <3>4. \A k \in Ids : ~conn'[k].open => timerTcp'[k] = None /\ interest'[k] = "none"
      BY <1>1, <1>4, <2>1, <2>3 DEF TypeOK, SlotInv
    <3>5. \A k \in Ids : conn'[k].open => timerTcp'[k] = k
      BY <1>0, <1>1, <1>4, <2>1, <2>3 DEF TypeOK, SlotInv
    <3>6. \A k \in Ids : InList(k, tcpIds') \/ conn'[k].open
      BY <1>0, <1>2, <1>4, <2>1, <2>3 DEF SlotInv
    <3>7. \A k \in Ids : timerTcp'[k] \in {None, k}
      BY <2>1 DEF TypeOK, SlotInv
    <3> QED  BY <3>1, <3>2, <3>3, <3>4, <3>5, <3>6, <3>7 DEF SlotInv, NoDup, InList
  <2>5. EventInv'
    <3>1. \A k \in timers' : conn'[k].open  BY <1>1, <1>4, <2>1, <2>3 DEF TypeOK, EventInv
    <3>2. \A k \in ready' : k # Listen => conn'[k.id].open
      BY <1>1, <1>4, <2>1, <2>3 DEF TypeOK, EventInv, Keys
    <3>3. \A e \in batch' : e.kind = "tcp" => conn'[e.id].open /\ conn'[e.id].id = e.gen
      BY <1>1, <2>1, <2>3 DEF TypeOK, EventInv, Event
    <3>4. \A k \in Ids : conn'[k].open => conn'[k].st # "closing"
      BY <1>4, <2>3 DEF EventInv
    <3> QED  BY <1>0, <2>1, <3>1, <3>2, <3>3, <3>4 DEF EventInv
  <2> QED  BY <2>2, <2>4, <2>5
<1> QED  BY <1>1, <1>5, <1>6, <1>7, <1>8 DEF Accept, AcceptFull

\* The facts of the connection whose read or hang-up event is handled: it is
\* open, and no other event of it waits.
LEMMA HandledIsOpen ==
  ASSUME Inv, pc \in {"read", "hup"}
  PROVE  /\ cur.id \in Ids /\ conn[cur.id] \in Connection /\ conn[cur.id].open
         /\ \A e \in batch : e.kind = "tcp" => e.id # cur.id
         /\ conn[cur.id].reqs \in Nat
         /\ sock[cur.id] \in [data : BOOLEAN, fin : BOOLEAN, wr : BOOLEAN]
         /\ AfterRead \in {"write", "dispatch"}
<1>1. cur.id \in Ids  BY DEF Inv, TypeOK, Event
<1>2. conn[cur.id] \in Connection /\ sock[cur.id] \in [data : BOOLEAN, fin : BOOLEAN, wr : BOOLEAN]
  BY <1>1 DEF Inv, TypeOK
<1> QED  BY <1>1, <1>2 DEF Inv, EventInv, Connection, AfterRead

LEMMA HupKeeps ==
  ASSUME Inv, ArenaConns < MaxConn, TcpHup PROVE Inv'
<1>1. pc = "hup" /\ Close(cur.id, conn[cur.id], refs, "dispatch")
      /\ UNCHANGED <<running, last, batch, nextId, backlog, clients>>
  BY DEF TcpHup
<1>2. /\ cur.id \in Ids /\ conn[cur.id] \in Connection /\ conn[cur.id].open
      /\ \A e \in batch : e.kind = "tcp" => e.id # cur.id
  BY <1>1, HandledIsOpen
<1>3. refs \in Int  BY DEF Inv, TypeOK
<1> QED  BY <1>1, <1>2, <1>3, CloseKeeps

\* A step that leaves the handler and changes of a connection only what no
\* other part of the state depends on.
LEMMA StayKeeps ==
  ASSUME Inv, NEW i \in Ids, NEW c \in Connection,
         NEW s \in [data : BOOLEAN, fin : BOOLEAN, wr : BOOLEAN],
         NEW next \in {"write", "dispatch"},
         conn[i].open, \A e \in batch : e.kind = "tcp" => e.id # i,
         next = "write" => cur.id = i,
         c.open, c.id = conn[i].id, c.st # "closing",
         conn' = [conn EXCEPT ![i] = c], sock' = [sock EXCEPT ![i] = s],
         refs' \in Int, GoTo(next),
         \/ interest' = interest /\ ready' = ready
         \/ Rearm(i, s),
         UNCHANGED <<running, last, batch, current, nextId, tcpIds, timerIds,
                     timeEvent, timerTcp, timers, backlog, clients>>
  PROVE  Inv'
<1> USE DEF Inv
<1>1. pc' = next /\ cur' \in Event /\ (pc' = "write" => cur'.id = i)
  <2>1. NoEvent \in Event  BY ConstantsAssumption DEF NoEvent, Event, Ids, None
  <2> QED  BY <2>1 DEF GoTo, TypeOK
<1>2. /\ interest' \in {interest, [interest EXCEPT ![i] = "inout"]}
      /\ ready' \in {ready, ready \union {Key("tcp", i)}}
  BY DEF Rearm
<1>3. Key("tcp", i) \in Keys /\ Key("tcp", i).id = i  BY DEF Key, Keys
<1>4. \A k \in Ids : conn'[k] = IF k = i THEN c ELSE conn[k]
  BY DEF TypeOK
<1>5. \A k \in Ids : k # i => interest'[k] = interest[k]
  BY <1>2 DEF TypeOK
<1>6. TypeOK'
  <2>1. conn' \in [Ids -> Connection]  BY DEF TypeOK
  <2>2. sock' \in [Ids -> [data : BOOLEAN, fin : BOOLEAN, wr : BOOLEAN]]  BY DEF TypeOK
  <2>3. interest' \in [Ids -> {"none", "in", "inout"}]
    <3>1. [interest EXCEPT ![i] = "inout"] \in [Ids -> {"none", "in", "inout"}]  BY DEF TypeOK
    <3> QED  BY <1>2, <3>1 DEF TypeOK
  <2>4. ready' \in SUBSET Keys  BY <1>2, <1>3 DEF TypeOK
  <2> QED  BY <1>1, <2>1, <2>2, <2>3, <2>4 DEF TypeOK, Handlers
<1>7. SlotInv'
  <2>1. \A k \in Ids : conn'[k].open <=> conn[k].open  BY <1>4
  <2> QED  BY <1>5, <2>1 DEF SlotInv, InList, NoDup
<1>8. EventInv'
  <2>1. \A k \in Ids : conn'[k].open = conn[k].open  BY <1>4, Zenon DEF TypeOK
  <2> QED  BY <1>1, <1>2, <1>3, <1>4 DEF EventInv, TypeOK, Event
<1> QED  BY <1>6, <1>7, <1>8

LEMMA ReadKeeps ==
  ASSUME Inv, ArenaConns < MaxConn, TcpRead PROVE Inv'
<1> DEFINE i == cur.id
<1>0. pc = "read"
  BY DEF TcpRead, ReadRefused, ReadNoContext, ReadParseError, ReadNeedMore,
         ReadCheckFails, ReadRequest
<1>1. /\ i \in Ids /\ conn[i] \in Connection /\ conn[i].open
      /\ \A e \in batch : e.kind = "tcp" => e.id # i
      /\ sock[i] \in [data : BOOLEAN, fin : BOOLEAN, wr : BOOLEAN]
      /\ AfterRead \in {"write", "dispatch"}
  BY <1>0, HandledIsOpen
<1>2. refs \in Int /\ RefsWith(conn[i]) \in Int /\ RefsWith(conn[i]) - 1 \in Int
  BY DEF Inv, TypeOK, RefsWith
<1>3. \A b \in BOOLEAN :
        /\ Recv(conn[i], b) \in Connection
        /\ WithCtx(Recv(conn[i], b)) \in Connection
        /\ WithCtx(Recv(conn[i], b)).open /\ WithCtx(Recv(conn[i], b)).id = conn[i].id
        /\ WithCtx(Recv(conn[i], b)).st = "reading"
  <2> TAKE b \in BOOLEAN
  <2> HIDE DEF i
  <2>1. /\ Recv(conn[i], b) \in Connection /\ Recv(conn[i], b).open
        /\ Recv(conn[i], b).st = "reading" /\ Recv(conn[i], b).id = conn[i].id
    BY <1>1, RecvType
  <2> QED  BY <2>1, WithCtxType
<1>4. ASSUME NEW c \in Connection, NEW r \in Int, Close(i, c, r, AfterRead),
             UNCHANGED <<running, last, batch, nextId, backlog, clients>>
      PROVE  Inv'
  BY <1>1, <1>4, CloseKeeps
<1> HIDE DEF i
<1>5. CASE ReadRefused
  <2>1. PICK c \in {conn[i], [conn[i] EXCEPT !.reqs = @ + 1]} :
          /\ Close(i, c, refs, AfterRead)
          /\ UNCHANGED <<running, last, batch, nextId, backlog, clients>>
    BY <1>5 DEF ReadRefused, i
  <2>2. c \in Connection  BY <1>1, <2>1, CountedType
  <2> QED  BY <1>2, <1>4, <2>1, <2>2
<1>6. CASE ReadNoContext
  <2>1. /\ Close(i, Recv(conn[i], FALSE), refs, AfterRead)
        /\ UNCHANGED <<running, last, batch, nextId, backlog, clients>>
    BY <1>6 DEF ReadNoContext, i
  <2> QED  BY <1>2, <1>3, <1>4, <2>1
<1>7. CASE ReadParseError
  <2>1. /\ Close(i, WithCtx(Recv(conn[i], FALSE)), RefsWith(conn[i]), AfterRead)
        /\ UNCHANGED <<running, last, batch, nextId, backlog, clients>>
    BY <1>7 DEF ReadParseError, i
  <2> QED  BY <1>2, <1>3, <1>4, <2>1
<1>8. CASE ReadCheckFails
  <2> DEFINE d == WithCtx(Recv(conn[i], FALSE))
  <2>1. PICK c \in {d, [d EXCEPT !.reqs = @ + 1]} :
          /\ Close(i, c, RefsWith(conn[i]) - 1, AfterRead)
          /\ UNCHANGED <<running, last, batch, nextId, backlog, clients>>
    BY <1>8 DEF ReadCheckFails, i
  <2>2. c \in Connection  BY <1>3, <2>1, CountedType
  <2> QED  BY <1>2, <1>4, <2>1, <2>2
<1>9. CASE ReadNeedMore
  <2>1. PICK fill \in BOOLEAN, rest \in BOOLEAN :
          /\ conn' = [conn EXCEPT ![i] = WithCtx(Recv(conn[i], fill))]
          /\ sock' = [sock EXCEPT ![i] = [sock[i] EXCEPT !.data = rest]]
    BY <1>1, <1>9 DEF ReadNeedMore, i, Inv, TypeOK
  <2>2. /\ refs' = RefsWith(conn[i]) /\ GoTo(AfterRead)
        /\ UNCHANGED <<running, last, batch, nextId, backlog, clients, current, tcpIds,
                       timerIds, timeEvent, timerTcp, interest, timers, ready>>
    BY <1>9 DEF ReadNeedMore, i
  <2>3. [sock[i] EXCEPT !.data = rest] \in [data : BOOLEAN, fin : BOOLEAN, wr : BOOLEAN]
    BY <1>1
  <2>4. AfterRead = "write" => cur.id = i  BY DEF i
  <2> DEFINE c == WithCtx(Recv(conn[i], fill))
             s == [sock[i] EXCEPT !.data = rest]
  <2>5. c \in Connection /\ c.open /\ c.id = conn[i].id /\ c.st # "closing"
    BY <1>3
  <2>6. conn' = [conn EXCEPT ![i] = c] /\ sock' = [sock EXCEPT ![i] = s]
    BY <2>1
  <2>7. s \in [data : BOOLEAN, fin : BOOLEAN, wr : BOOLEAN]  BY <2>3
  <2> HIDE DEF c, s
  <2>8. refs' \in Int  BY <1>2, <2>2
  <2> QED  BY <1>1, <2>2, <2>4, <2>5, <2>6, <2>7, <2>8, StayKeeps
<1>10. CASE ReadRequest
  <2>1. PICK fill \in BOOLEAN, rest \in BOOLEAN, keep \in BOOLEAN, file \in BOOLEAN :
          Processed(i, Answered(WithCtx(Recv(conn[i], fill)), keep, file),
                    [sock[i] EXCEPT !.data = rest])
    BY <1>10 DEF ReadRequest, i
  <2>2. UNCHANGED <<running, last, batch, nextId, backlog, clients>>
    BY <1>10 DEF ReadRequest
  <2> DEFINE c == Answered(WithCtx(Recv(conn[i], fill)), keep, file)
             s == [sock[i] EXCEPT !.data = rest]
  <2>3. c \in Connection /\ c.open /\ c.id = conn[i].id /\ c.st # "closing"
    <3> DEFINE d == WithCtx(Recv(conn[i], fill))
    <3>1. d \in Connection /\ d.open /\ d.id = conn[i].id /\ d.st = "reading"
      BY <1>3
    <3> HIDE DEF d
    <3>2. /\ Answered(d, keep, file) \in Connection /\ Answered(d, keep, file).open = d.open
          /\ Answered(d, keep, file).st = d.st /\ Answered(d, keep, file).id = d.id
      <4>1. d \in Connection /\ keep \in BOOLEAN /\ file \in BOOLEAN  BY <3>1
      <4> QED  BY <4>1, AnsweredType
    <3>3. Answered(d, keep, file).st # "closing"  BY <3>1, <3>2
    <3> QED  BY <3>1, <3>2, <3>3, Zenon DEF d
  <2>4. s \in [data : BOOLEAN, fin : BOOLEAN, wr : BOOLEAN]
    BY <1>1
  <2>5. AfterRead = "write" => cur.id = i  BY DEF i
  <2>6. Processed(i, c, s)  BY <2>1
  <2> HIDE DEF c, s
  <2>7. CASE Close(i, c, RefsWith(conn[i]), AfterRead)
    BY <1>2, <1>4, <2>2, <2>3, <2>7
  <2>8. CASE /\ conn' = [conn EXCEPT ![i] = c]
             /\ sock' = [sock EXCEPT ![i] = s]
             /\ refs' = RefsWith(conn[i])
             /\ Rearm(i, s)
             /\ GoTo(AfterRead)
             /\ UNCHANGED <<current, tcpIds, timerIds, timeEvent, timerTcp, timers>>
    BY <1>1, <1>2, <2>2, <2>3, <2>4, <2>5, <2>8, StayKeeps
  <2> QED  BY <2>6, <2>7, <2>8 DEF Processed
<1> QED  BY <1>5, <1>6, <1>7, <1>8, <1>9, <1>10 DEF TcpRead

LEMMA WriteKeeps ==
  ASSUME Inv, ArenaConns < MaxConn, TcpWrite PROVE Inv'
<1> DEFINE i == cur.id
<1>0. pc = "write"
  BY DEF TcpWrite, WriteClosed, WriteFile, WriteString, WriteFails, WriteSigpipe
<1>1. /\ i \in Ids /\ conn[i] \in Connection /\ refs \in Int
      /\ sock[i] \in [data : BOOLEAN, fin : BOOLEAN, wr : BOOLEAN]
      /\ \A e \in batch : e.kind = "tcp" => e.id # i
  <2>1. i \in Ids  BY DEF Inv, TypeOK, Event
  <2> QED  BY <1>0, <2>1 DEF Inv, TypeOK, EventInv
<1>2. NoEvent \in Event  BY ConstantsAssumption DEF NoEvent, Event, Ids, None
<1>3. ASSUME NEW p \in {"segv", "abort", "sigpipe"}, GoTo(p),
             UNCHANGED <<running, last, batch, current, nextId, refs, tcpIds, timerIds, conn,
                         timeEvent, timerTcp, interest, timers, ready, backlog, clients, sock>>
      PROVE  Inv'
  <2>1. pc' = p /\ cur' = NoEvent  BY <1>3 DEF GoTo
  <2>2. TypeOK'  BY <1>2, <1>3, <2>1 DEF Inv, TypeOK, Ended
  <2>3. SlotInv' /\ EventInv'  BY <1>3, <2>1 DEF Inv, SlotInv, EventInv
  <2> QED  BY <2>2, <2>3 DEF Inv
<1>4. ASSUME NEW c \in Connection, conn[i].open, Close(i, c, refs, "dispatch"),
             UNCHANGED <<running, last, batch, nextId, backlog, clients>>
      PROVE  Inv'
  BY <1>1, <1>4, CloseKeeps
<1>5. ASSUME NEW c \in Connection, NEW s \in [data : BOOLEAN, fin : BOOLEAN, wr : BOOLEAN],
             conn[i].open, c.open, c.id = conn[i].id, c.st # "closing", Written(i, c, s),
             UNCHANGED <<running, last, batch, nextId, backlog, clients>>
      PROVE  Inv'
  <2>1. CASE Close(i, c, refs, "dispatch")
    BY <1>4, <1>5, <2>1
  <2>2. CASE /\ conn' = [conn EXCEPT ![i] = c] /\ sock' = [sock EXCEPT ![i] = s]
             /\ GoTo("dispatch")
             /\ UNCHANGED <<current, refs, tcpIds, timerIds, timeEvent, timerTcp,
                            interest, timers, ready>>
    BY <1>1, <1>5, <2>2, StayKeeps
  <2> QED  BY <1>5, <2>1, <2>2 DEF Written
<1>6. conn[i].open => conn[i].st # "closing"  BY <1>1 DEF Inv, EventInv
<1>7. conn[i].open =>
        /\ HeadSent(conn[i]) \in Connection /\ HeadSent(conn[i]).open
        /\ HeadSent(conn[i]).id = conn[i].id /\ HeadSent(conn[i]).st # "closing"
        /\ Sent(HeadSent(conn[i])) \in Connection /\ Sent(HeadSent(conn[i])).open
        /\ Sent(HeadSent(conn[i])).id = conn[i].id
        /\ Sent(HeadSent(conn[i])).st # "closing"
        /\ Sent(conn[i]) \in Connection
  BY <1>1, <1>6, HeadSentType, SentType
<1> HIDE DEF i
<1>8. CASE WriteClosed \/ WriteSigpipe
  <2>1. /\ GoTo("segv") \/ GoTo("sigpipe")
        /\ UNCHANGED <<running, last, batch, current, nextId, refs, tcpIds, timerIds, conn,
                       timeEvent, timerTcp, interest, timers, ready, backlog, clients, sock>>
    BY <1>8 DEF WriteClosed, WriteSigpipe, kernel
  <2> QED  BY <1>3, <2>1
<1>9. CASE WriteFile
  <2>1. PICK wr \in BOOLEAN : Written(i, HeadSent(conn[i]), [sock[i] EXCEPT !.wr = wr])
    BY <1>9 DEF WriteFile, i
  <2>2. conn[i].open /\ UNCHANGED <<running, last, batch, nextId, backlog, clients>>
    BY <1>9 DEF WriteFile, i
  <2>3. [sock[i] EXCEPT !.wr = wr] \in [data : BOOLEAN, fin : BOOLEAN, wr : BOOLEAN]
    BY <1>1
  <2> QED  BY <1>5, <1>7, <2>1, <2>2, <2>3
<1>10. CASE WriteString
  <2>1. conn[i].open /\ UNCHANGED <<running, last, batch, nextId, backlog, clients>>
    BY <1>10 DEF WriteString, i
  <2>2. CASE /\ GoTo("abort")
             /\ UNCHANGED <<current, refs, tcpIds, timerIds, conn, timeEvent, timerTcp,
                            interest, timers, ready, sock>>
    BY <1>3, <2>1, <2>2
  <2>3. CASE Written(i, Sent(HeadSent(conn[i])), sock[i])
    BY <1>1, <1>5, <1>7, <2>1, <2>3
  <2> QED  BY <1>10, <2>2, <2>3 DEF WriteString, i
<1>11. CASE WriteFails
  <2>1. /\ conn[i].open /\ UNCHANGED <<running, last, batch, nextId, backlog, clients>>
        /\ \E c \in {conn[i], HeadSent(conn[i])} : Close(i, Sent(c), refs, "dispatch")
    BY <1>11 DEF WriteFails, i
  <2> QED  BY <1>4, <1>7, <2>1
<1> QED  BY <1>8, <1>9, <1>10, <1>11 DEF TcpWrite

\* A connection is never left in CONN_ST_CLOSING, so no timer closes one.
LEMMA TimerKeeps ==
  ASSUME Inv, TimerEvent PROVE Inv'
<1> USE DEF Inv
<1>1. NoEvent \in Event  BY ConstantsAssumption DEF NoEvent, Event, Ids, None
<1>2. cur.id \in Ids  BY DEF TypeOK, Event
<1>3. timerTcp[cur.id] # None => timerTcp[cur.id] = cur.id /\ conn[cur.id].open
  BY <1>2 DEF SlotInv
<1>4. timerTcp[cur.id] # None => ~TimedOut(conn[timerTcp[cur.id]])
  BY <1>2, <1>3 DEF EventInv, TimedOut
<1>5. /\ pc' \in {"segv", "dispatch"} /\ cur' = NoEvent
      /\ UNCHANGED <<running, last, batch, current, nextId, refs, tcpIds, timerIds, conn,
                     timeEvent, timerTcp, interest, timers, ready, backlog, clients, sock>>
  BY <1>4 DEF TimerEvent, TimerUnlinked, TimerRead, GoTo, kernel
<1>6. TypeOK'  BY <1>1, <1>5 DEF TypeOK, Ended
<1>7. SlotInv' /\ EventInv'  BY <1>5 DEF SlotInv, EventInv
<1> QED  BY <1>6, <1>7

LEMMA NextKeeps ==
  ASSUME ArenaConns < MaxConn, Inv, [Next]_vars PROVE Inv'
<1>1. CASE UNCHANGED vars
  <2>1. TypeOK' /\ SlotInv' /\ EventInv'
    BY <1>1 DEF vars, server, kernel, Inv, TypeOK, SlotInv, EventInv
  <2> QED  BY <2>1 DEF Inv
<1>2. CASE Next
  BY <1>2, EnvironmentKeeps, EpollWaitKeeps, LoopKeeps, AcceptKeeps, HupKeeps, ReadKeeps,
     WriteKeeps, TimerKeeps DEF Next, Server, EventLoop
<1> QED  BY <1>1, <1>2

LEMMA Invariance ==
  ASSUME ArenaConns < MaxConn PROVE Spec => []Inv
<1>1. Init => Inv  BY InitInv
<1>2. Inv /\ [Next]_vars => Inv'  BY NextKeeps
<1> QED  BY <1>1, <1>2, PTL DEF Spec

------------------------------------------------------------------------------
(***************************************************************************)
(* The properties.                                                         *)
(***************************************************************************)
\* While the arena fills up before the slots do, every variable keeps its type.
THEOREM TypeCorrect ==
  ASSUME ArenaConns < MaxConn PROVE Spec => []TypeOK
<1>1. Inv => TypeOK  BY DEF Inv
<1> QED  BY <1>1, Invariance, PTL

\* The error paths of the accept loop and the closing of connections neither
\* leak an id nor put one into a free list twice.
THEOREM SlotsSafe ==
  ASSUME ArenaConns < MaxConn PROVE Spec => []SlotsConserved
<1>1. Inv => SlotsConserved  BY DEF Inv, SlotInv, SlotsConserved
<1> QED  BY <1>1, Invariance, PTL

\* A connection and its timer are linked to each other as long as either lives.
THEOREM PairSafe ==
  ASSUME ArenaConns < MaxConn PROVE Spec => []PairLinked
<1>1. Inv => PairLinked
  <2> SUFFICES ASSUME Inv PROVE PairLinked  OBVIOUS
  <2>1. running => \A i \in Ids : conn[i].open =>
          timeEvent[i] # None /\ timerTcp[timeEvent[i]] = i
    BY DEF Inv, SlotInv, Ids, None
  <2>2. ASSUME NEW j \in Ids, InList(j, timerIds)
        PROVE  timerTcp[j] = None /\ j \notin timers /\ Key("timer", j) \notin ready
    <3>1. ~conn[j].open  BY <2>2 DEF Inv, SlotInv
    <3>2. Key("timer", j) # Listen /\ Key("timer", j).id = j  BY DEF Key, Listen
    <3> QED  BY <3>1, <3>2 DEF Inv, SlotInv, EventInv
  <2> QED  BY <2>1, <2>2 DEF PairLinked
<1> QED  BY <1>1, Invariance, PTL

\* While a slot is free, so is an id in both lists.
THEOREM FreeIdSafe ==
  ASSUME ArenaConns < MaxConn PROVE Spec => []FreeIdForFreeSlot
<1>1. ASSUME Inv PROVE FreeIdForFreeSlot
  BY <1>1, FreeSlot DEF FreeIdForFreeSlot, Inv, SlotInv
<1> QED  BY <1>1, Invariance, PTL

\* No handler is called for a connection other than the one its event is for.
THEOREM FreshSafe ==
  ASSUME ArenaConns < MaxConn PROVE Spec => []TcpEventsFresh
<1>1. Inv => TcpEventsFresh  BY DEF Inv, EventInv, TcpEventsFresh
<1> QED  BY <1>1, Invariance, PTL

\* The number of ids in a list without repetition.
LEMMA ListCount ==
  ASSUME NEW s \in Seq(Ids), NoDup(s)
  PROVE  Cardinality({i \in Ids : InList(i, s)}) = Len(s)
<1> DEFINE T == {i \in Ids : InList(i, s)}
<1>1. Len(s) \in Nat /\ DOMAIN s = 1 .. Len(s) /\ \A n \in DOMAIN s : s[n] \in Ids
  BY LenProperties, ElementOfSeq
<1>2. s \in Bijection(1 .. Len(s), T)
  <2>1. s \in [1 .. Len(s) -> T]
    <3>1. s = [n \in 1 .. Len(s) |-> s[n]]  BY <1>1
    <3>2. \A n \in 1 .. Len(s) : s[n] \in T  BY <1>1 DEF InList
    <3> QED  BY <3>1, <3>2
  <2>2. \A t \in T : \E n \in 1 .. Len(s) : s[n] = t  BY <1>1 DEF InList
  <2> QED  BY <1>1, <2>1, <2>2 DEF NoDup, Bijection, Injection, Surjection, IsInjective
<1>3. ExistsBijection(1 .. Len(s), T)  BY <1>2 DEF ExistsBijection
<1> QED  BY <1>1, <1>3, FS_CountingElements

\* The count that decides between accepting, refusing and closing is exact.
THEOREM CountSafe ==
  ASSUME ArenaConns < MaxConn PROVE Spec => []CountExact
<1>1. ASSUME Inv PROVE CountExact
  <2> SUFFICES ASSUME running PROVE current = Cardinality({i \in Ids : conn[i].open})
    BY DEF CountExact
  <2> DEFINE free == {i \in Ids : InList(i, tcpIds)}
             used == {i \in Ids : conn[i].open}
  <2>1. used = Ids \ free /\ Ids \cap free = free
    BY <1>1 DEF Inv, SlotInv
  <2>2. 0 \in Int /\ MaxConn - 1 \in Int /\ ~(0 > MaxConn - 1) /\ MaxConn - 1 - 0 + 1 = MaxConn
    BY ConstantsAssumption
  <2>3. IsFiniteSet(Ids) /\ Cardinality(Ids) = MaxConn
    BY <2>2, FS_Interval DEF Ids
  <2>4. Cardinality(free) = Len(tcpIds) /\ Len(tcpIds) = MaxConn - current
    BY <1>1, ListCount DEF Inv, TypeOK, SlotInv
  <2> HIDE DEF free, used
  <2>5. Cardinality(Ids \ free) = Cardinality(Ids) - Cardinality(Ids \cap free)
    BY <2>3, FS_Difference
  <2>6. Cardinality(used) = MaxConn - (MaxConn - current)
    BY <2>1, <2>3, <2>4, <2>5
  <2>7. MaxConn - (MaxConn - current) = current
    BY <1>1, ConstantsAssumption DEF Inv, TypeOK
  <2> QED  BY <2>6, <2>7 DEF used
<1> QED  BY <1>1, Invariance, PTL

------------------------------------------------------------------------------
(***************************************************************************)
(* What TcpServer owes its clients, under the same condition: no data is   *)
(* left unread and no response unsent for want of an event, on_write has a *)
(* response to write, and a connection keeps its slot.  The invariant      *)
(* above, about slots and events, is the ground it stands on.              *)
(***************************************************************************)
DeliveryInv == ResponseInv /\ DataInv /\ ResponseArmed

Socket == [data : BOOLEAN, fin : BOOLEAN, wr : BOOLEAN]
Handling == {"read", "hup", "write"}
------------------------------------------------------------------------------
(***************************************************************************)
(* What a step does to a connection, in four shapes.                       *)
(***************************************************************************)
\* Nothing happens to connections and sockets, and no handler of one goes on.
Quiet ==
  /\ Alive /\ UNCHANGED <<conn, interest, sock, ready, batch>>
  /\ pc' \notin Handling /\ (pc \notin Handling \/ pc' \in Ended)
  /\ pc' = "wait" => batch = {}

\* The connection of slot i is closed by the handler of its event.
Freed(i, next) ==
  /\ pc' \in {next, "sigpipe"} /\ (pc' = "write" => cur' = cur)
  /\ conn' = [conn EXCEPT ![i] = ClosedConn]
  /\ interest' = [interest EXCEPT ![i] = "none"]
  /\ sock' = [sock EXCEPT ![i] = NewSock]
  /\ ready' = ready \ {Key("tcp", i), Key("timer", i)}

\* It stays open and changes to c, its socket to s.
Kept(i, c, s, next) ==
  /\ pc' = next /\ (next = "write" => cur' = cur)
  /\ conn' = [conn EXCEPT ![i] = c]
  /\ sock' = [sock EXCEPT ![i] = s]

\* The free slot i gets a new connection.
Opened(i) ==
  /\ pc \notin Handling /\ pc' \in {"accept", "dispatch"}
  /\ conn' = [conn EXCEPT ![i] = NewConn(nextId)]
  /\ sock' = [sock EXCEPT ![i] = NewSock]
  /\ interest' \in {interest, [interest EXCEPT ![i] = "in"]}
  /\ UNCHANGED <<ready, batch>>

\* What closing a connection changes.
LEMMA CloseShape ==
  ASSUME Inv, NEW i \in Ids, NEW c \in Connection, NEW r \in Int,
         NEW next \in {"write", "dispatch"}, conn[i].open, Close(i, c, r, next)
  PROVE  \/ pc' = "spin" /\ UNCHANGED <<conn, interest, sock, ready>>
         \/ Freed(i, next)
<1>1. timeEvent[i] = i /\ timerIds = tcpIds /\ ~InList(i, tcpIds)
  BY DEF Inv, SlotInv
<1>2. CASE c.ctx /\ c.reqs = MaxReq
  BY <1>2 DEF Close, GoTo
<1>3. CASE ~(c.ctx /\ c.reqs = MaxReq)
  <2>1. /\ \/ GoTo(IF InList(i, tcpIds) \/ InList(timeEvent[i], timerIds) THEN "corrupt" ELSE next)
           \/ sock[i].fin /\ GoTo("sigpipe")
        /\ DropTimer(i, timeEvent[i])
        /\ conn' = [conn EXCEPT ![i] = ClosedConn]
        /\ interest' = [interest EXCEPT ![i] = "none"]
        /\ sock' = [sock EXCEPT ![i] = NewSock]
    BY <1>3, Zenon DEF Close
  <2>2. GoTo(next) \/ GoTo("sigpipe")
    BY <1>1, <2>1
  <2>3. pc' \in {next, "sigpipe"} /\ (pc' = "write" => cur' = cur)
    BY <2>2 DEF GoTo
  <2>4. ready' = ready \ {Key("tcp", i), Key("timer", i)}
    BY <1>1, <2>1 DEF DropTimer
  <2> QED  BY <2>1, <2>3, <2>4 DEF Freed
<1> QED  BY <1>2, <1>3

\* The facts about handled events that the lemmas below share.
LEMMA Typed ==
  ASSUME Inv
  PROVE  /\ conn \in [Ids -> Connection] /\ interest \in [Ids -> {"none", "in", "inout"}]
         /\ sock \in [Ids -> Socket] /\ ready \in SUBSET Keys
         /\ cur \in Event /\ cur.id \in Ids /\ batch \in SUBSET Event
         /\ \A i \in Ids : ~conn[i].open => interest[i] = "none"
         /\ \A e \in Event : e.id \in Ids
<1> QED  BY DEF Inv, TypeOK, SlotInv, Socket, Event

\* The events of other slots are not touched by a step that keeps batch and takes
\* nothing but what belongs to slot i out of ready.
LEMMA KeysApart ==
  ASSUME NEW i \in Ids, NEW k \in Ids, k # i
  PROVE  Key("tcp", k) \notin {Key("tcp", i), Key("timer", i)}
<1> QED  BY DEF Key
------------------------------------------------------------------------------
(***************************************************************************)
(* Each shape preserves the invariant.                                     *)
(***************************************************************************)
LEMMA QuietDelivers ==
  ASSUME DeliveryInv, Quiet PROVE DeliveryInv'
<1>1. ResponseInv'
  BY DEF DeliveryInv, Quiet, Handling, ResponseInv
<1>2. DataInv'
  BY DEF DeliveryInv, Quiet, Handling, DataInv, DataAnnounced, Alive
<1>3. ResponseArmed'
  BY DEF DeliveryInv, Quiet, Handling, ResponseArmed, Announced, Alive
<1> QED  BY <1>1, <1>2, <1>3 DEF DeliveryInv

\* A closed connection leaves the others deliverable.
LEMMA FreedDelivers ==
  ASSUME Inv, DeliveryInv, Alive, pc \in Handling,
         NEW next \in {"write", "dispatch"}, Freed(cur.id, next),
         batch' = batch, \A e \in batch : e.kind = "tcp" => e.id # cur.id
  PROVE  DeliveryInv'
<1> DEFINE i == cur.id
<1>1. /\ i \in Ids /\ conn \in [Ids -> Connection] /\ sock \in [Ids -> Socket]
      /\ interest \in [Ids -> {"none", "in", "inout"}] /\ \A e \in batch : e.id \in Ids
  BY Typed
<1>2. /\ \A k \in Ids : conn'[k] = IF k = i THEN ClosedConn ELSE conn[k]
      /\ \A k \in Ids : interest'[k] = IF k = i THEN "none" ELSE interest[k]
      /\ \A k \in Ids : k # i => sock'[k] = sock[k]
  BY <1>1 DEF Freed
<1>3. ~ClosedConn.open /\ ClosedConn.send = "none" /\ ~ClosedConn.parsed
  BY DEF ClosedConn
<1>4. \A k \in Ids : k # i /\ Key("tcp", k) \in ready => Key("tcp", k) \in ready'
  BY <1>1, KeysApart DEF Freed
<1>5. /\ pc' \notin {"read", "hup", "wait"} /\ (pc' = "write" => cur'.id = i)
  BY DEF Freed
<1> HIDE DEF i
<1>6. ResponseInv'
  <2>1. \A k \in Ids :
          /\ conn'[k].send # "none" <=> conn'[k].parsed
          /\ conn'[k].send # "none" <=> interest'[k] = "inout"
          /\ conn'[k].send # "none" => conn'[k].ctx /\ conn'[k].keep
    BY <1>2, <1>3 DEF DeliveryInv, ResponseInv
  <2>2. \A e \in batch' : e.kind = "tcp" =>
          (e.in \/ e.out \/ e.hup) /\ (e.out => conn'[e.id].send # "none")
    BY <1>1, <1>2 DEF DeliveryInv, ResponseInv, i
  <2>3. pc' = "write" => ~conn'[cur'.id].open
    BY <1>1, <1>2, <1>3, <1>5
  <2> QED  BY <1>5, <2>1, <2>2, <2>3 DEF ResponseInv
<1>7. DataInv'
  <2> SUFFICES ASSUME NEW k \in Ids, interest'[k] # "none", sock'[k].data, ~conn'[k].full
               PROVE  DataAnnounced(k)'
    BY DEF DataInv
  <2>1. k # i /\ interest[k] # "none" /\ sock[k].data /\ ~conn[k].full
    BY <1>2
  <2>2. DataAnnounced(k)
    BY <2>1 DEF DeliveryInv, DataInv
  <2> QED  BY <1>4, <2>1, <2>2 DEF DataAnnounced, i
<1>8. ResponseArmed'
  <2> SUFFICES ASSUME NEW k \in Ids, conn'[k].send = "wait", sock'[k].wr
               PROVE  Announced(k)'
    BY DEF ResponseArmed
  <2>1. k # i /\ conn[k].send = "wait" /\ sock[k].wr
    BY <1>2, <1>3
  <2>2. Announced(k)
    BY <2>1 DEF DeliveryInv, ResponseArmed, i
  <2> QED  BY <1>4, <2>1, <2>2 DEF Announced, i
<1> QED  BY <1>6, <1>7, <1>8 DEF DeliveryInv

\* What a connection must look like that a handler leaves open: it has a response if
\* it is complete, and on_write is then waited for; what was not read fills the buffer.
LEMMA KeptDelivers ==
  ASSUME Inv, DeliveryInv, Alive, pc \in {"read", "write"}, conn[cur.id].open,
         NEW c \in Connection, NEW s \in Socket, NEW next \in {"write", "dispatch"},
         Kept(cur.id, c, s, next),
         batch' = batch, \A e \in batch : e.kind = "tcp" => e.id # cur.id,
         c.send # "none" <=> c.parsed,
         c.send # "none" => c.ctx /\ c.keep,
         next = "write" => c.send # "none",
         s.data => c.full \/ (pc = "write" /\ sock[cur.id].data /\ c.full = conn[cur.id].full),
         \/ /\ UNCHANGED <<interest, ready>>
            /\ c.send # "none" <=> conn[cur.id].send # "none"
            /\ c.send # "wait"
         \/ Rearm(cur.id, s) /\ c.send # "none"
  PROVE  DeliveryInv'
<1> DEFINE i == cur.id
<1>1. /\ i \in Ids /\ conn \in [Ids -> Connection] /\ sock \in [Ids -> Socket]
      /\ interest \in [Ids -> {"none", "in", "inout"}] /\ \A e \in batch : e.id \in Ids
  BY Typed
<1>2. /\ \A k \in Ids : conn'[k] = IF k = i THEN c ELSE conn[k]
      /\ \A k \in Ids : sock'[k] = IF k = i THEN s ELSE sock[k]
  BY <1>1 DEF Kept
<1>3. /\ \A k \in Ids : k # i => interest'[k] = interest[k]
      /\ c.send # "none" <=> interest'[i] = "inout"
  <2>1. conn[i].send # "none" <=> interest[i] = "inout"
    BY <1>1 DEF DeliveryInv, ResponseInv
  <2> QED  BY <1>1, <2>1 DEF Rearm
<1>4. ready \subseteq ready'
  BY DEF Rearm
<1>5. c.send = "wait" /\ s.wr => Key("tcp", i) \in ready'
  BY DEF Rearm
<1>6. pc' = next /\ (pc' = "write" => cur'.id = i)
  BY DEF Kept
<1>7. s.data => c.full \/ (pc = "write" /\ sock[i].data /\ c.full = conn[i].full)
  OBVIOUS
<1> HIDE DEF i
<1>8. ResponseInv'
  <2>1. \A k \in Ids :
          /\ conn'[k].send # "none" <=> conn'[k].parsed
          /\ conn'[k].send # "none" <=> interest'[k] = "inout"
          /\ conn'[k].send # "none" => conn'[k].ctx /\ conn'[k].keep
    BY <1>2, <1>3 DEF DeliveryInv, ResponseInv
  <2>2. \A e \in batch' : e.kind = "tcp" =>
          (e.in \/ e.out \/ e.hup) /\ (e.out => conn'[e.id].send # "none")
    BY <1>1, <1>2 DEF DeliveryInv, ResponseInv, i
  <2>3. pc' = "write" => conn'[cur'.id].send # "none"
    BY <1>1, <1>2, <1>6
  <2> QED  BY <1>6, <2>1, <2>2, <2>3 DEF ResponseInv
<1>9. DataInv'
  <2> SUFFICES ASSUME NEW k \in Ids, interest'[k] # "none", sock'[k].data, ~conn'[k].full
               PROVE  DataAnnounced(k)'
    BY DEF DataInv
  <2>1. CASE k = i
    <3>1. pc = "write" /\ sock[i].data /\ ~conn[i].full
      BY <1>2, <1>7, <2>1
    <3>2. interest[i] = "inout"
      BY <1>1, <3>1 DEF i, DeliveryInv, ResponseInv
    <3>3. DataAnnounced(i)
      BY <1>1, <3>1, <3>2 DEF DeliveryInv, DataInv
    <3> QED  BY <1>4, <2>1, <3>1, <3>3 DEF DataAnnounced
  <2>2. CASE k # i
    <3>1. interest[k] # "none" /\ sock[k].data /\ ~conn[k].full
      BY <1>2, <1>3, <2>2
    <3>2. DataAnnounced(k)
      BY <3>1 DEF DeliveryInv, DataInv
    <3> QED  BY <1>4, <2>2, <3>2 DEF DataAnnounced, i
  <2> QED  BY <2>1, <2>2
<1>10. ResponseArmed'
  <2> SUFFICES ASSUME NEW k \in Ids, conn'[k].send = "wait", sock'[k].wr
               PROVE  Announced(k)'
    BY DEF ResponseArmed
  <2>1. CASE k = i
    BY <1>2, <1>5, <2>1 DEF Announced
  <2>2. CASE k # i
    <3>1. conn[k].send = "wait" /\ sock[k].wr
      BY <1>2, <2>2
    <3>2. Announced(k)
      BY <2>2, <3>1 DEF DeliveryInv, ResponseArmed, i
    <3> QED  BY <1>4, <2>2, <3>2 DEF Announced, i
  <2> QED  BY <2>1, <2>2
<1> QED  BY <1>8, <1>9, <1>10 DEF DeliveryInv

\* So does a new one.
LEMMA OpenedDelivers ==
  ASSUME Inv, DeliveryInv, Alive, NEW i \in Ids, ~conn[i].open, Opened(i)
  PROVE  DeliveryInv'
<1>1. /\ conn \in [Ids -> Connection] /\ sock \in [Ids -> Socket]
      /\ interest \in [Ids -> {"none", "in", "inout"}] /\ \A e \in batch : e.id \in Ids
      /\ interest[i] = "none"
  BY Typed
<1>2. /\ \A k \in Ids : conn'[k] = IF k = i THEN NewConn(nextId) ELSE conn[k]
      /\ \A k \in Ids : sock'[k] = IF k = i THEN NewSock ELSE sock[k]
      /\ \A k \in Ids : k # i => interest'[k] = interest[k]
      /\ interest'[i] # "inout"
  BY <1>1 DEF Opened
<1>3. /\ NewConn(nextId).send = "none" /\ ~NewConn(nextId).parsed /\ ~NewSock.data
  BY DEF NewConn, NewSock
<1>4. \A e \in batch : e.kind = "tcp" => e.id # i
  BY DEF Inv, EventInv
<1>5. ResponseInv'
  <2>1. \A k \in Ids :
          /\ conn'[k].send # "none" <=> conn'[k].parsed
          /\ conn'[k].send # "none" <=> interest'[k] = "inout"
          /\ conn'[k].send # "none" => conn'[k].ctx /\ conn'[k].keep
    BY <1>2, <1>3 DEF DeliveryInv, ResponseInv
  <2>2. \A e \in batch' : e.kind = "tcp" =>
          (e.in \/ e.out \/ e.hup) /\ (e.out => conn'[e.id].send # "none")
    BY <1>1, <1>2, <1>4 DEF DeliveryInv, ResponseInv, Opened
  <2> QED  BY <2>1, <2>2 DEF ResponseInv, Opened, Handling
<1>6. DataInv'
  <2> SUFFICES ASSUME NEW k \in Ids, interest'[k] # "none", sock'[k].data, ~conn'[k].full
               PROVE  DataAnnounced(k)'
    BY DEF DataInv
  <2>1. k # i /\ interest[k] # "none" /\ sock[k].data /\ ~conn[k].full
    BY <1>2, <1>3
  <2>2. DataAnnounced(k)
    BY <2>1 DEF DeliveryInv, DataInv
  <2> QED  BY <2>2 DEF DataAnnounced, Opened, Handling
<1>7. ResponseArmed'
  <2> SUFFICES ASSUME NEW k \in Ids, conn'[k].send = "wait", sock'[k].wr
               PROVE  Announced(k)'
    BY DEF ResponseArmed
  <2>1. conn[k].send = "wait" /\ sock[k].wr
    BY <1>2, <1>3
  <2>2. Announced(k)
    BY <2>1 DEF DeliveryInv, ResponseArmed, Opened, Handling
  <2> QED  BY <2>2 DEF Announced, Opened, Handling
<1> QED  BY <1>5, <1>6, <1>7 DEF DeliveryInv
------------------------------------------------------------------------------
(***************************************************************************)
(* The clients, the kernel and the loop.                                   *)
(***************************************************************************)
LEMMA EnvironmentDelivers ==
  ASSUME Inv, DeliveryInv, Environment PROVE DeliveryInv'
<1>1. /\ conn \in [Ids -> Connection] /\ sock \in [Ids -> Socket]
  BY Typed
<1>2. /\ UNCHANGED <<pc, cur, batch, conn, interest>> /\ ready \subseteq ready'
  BY Zenon DEF Environment, ClientConnects, PeerSends, PeerCloses, BecomesWritable, TimerFires,
         server
<1>3. \A k \in Ids : sock'[k].data => sock[k].data \/ Key("tcp", k) \in ready'
  BY <1>1 DEF Environment, ClientConnects, PeerSends, PeerCloses, BecomesWritable, TimerFires,
              Socket
<1>4. \A k \in Ids : sock'[k].wr =>
        sock[k].wr \/ Key("tcp", k) \in ready' \/ interest[k] # "inout"
  BY <1>1 DEF Environment, ClientConnects, PeerSends, PeerCloses, BecomesWritable, TimerFires,
              Socket
<1>5. ResponseInv'
  BY <1>2 DEF DeliveryInv, ResponseInv
<1>6. DataInv'
  BY <1>2, <1>3 DEF DeliveryInv, DataInv, DataAnnounced, Alive
<1>7. ResponseArmed'
  BY <1>2, <1>4 DEF DeliveryInv, ResponseInv, ResponseArmed, Announced, Alive
<1> QED  BY <1>5, <1>6, <1>7 DEF DeliveryInv

\* epoll_wait reports what it takes from the ready list as long as it still holds.
LEMMA EpollWaitDelivers ==
  ASSUME Inv, DeliveryInv, EpollWait PROVE DeliveryInv'
<1>1. PICK K \in SUBSET ready :
        /\ batch' = {e \in {Occurs(k) : k \in K} : e.in \/ e.out \/ e.hup}
        /\ ready' = ready \ K
  BY DEF EpollWait, Fetch
<1>2. /\ pc = "wait" /\ pc' = "dispatch" /\ UNCHANGED <<cur, conn, interest, sock>>
  BY DEF EpollWait
<1>3. K \subseteq Keys
  BY <1>1, Typed
<1>4. ASSUME NEW k \in Ids, Key("tcp", k) \in K
      PROVE  LET e == Occurs(Key("tcp", k)) IN
               /\ e.kind = "tcp" /\ e.id = k /\ e.in = sock[k].data
               /\ e.out = (interest[k] = "inout" /\ sock[k].wr)
               /\ e.in \/ e.out => e \in batch'
  <2> DEFINE e == Occurs(Key("tcp", k))
  <2>1. /\ e.kind = "tcp" /\ e.id = k /\ e.in = sock[k].data
        /\ e.out = (interest[k] = "inout" /\ sock[k].wr)
    BY DEF Occurs, Key
  <2>2. e.in \/ e.out => e \in batch'
    BY <1>1, <1>4
  <2> QED  BY <2>1, <2>2
<1>5. ResponseInv'
  <2>1. \A e \in batch' : e.kind = "tcp" =>
          (e.in \/ e.out \/ e.hup) /\ (e.out => conn[e.id].send # "none")
    <3> SUFFICES ASSUME NEW e \in batch', e.kind = "tcp", e.out PROVE conn[e.id].send # "none"
      BY <1>1
    <3>1. PICK k \in K : e = Occurs(k)
      BY <1>1
    <3>2. e.id = k.id /\ e.id \in Ids /\ interest[k.id] = "inout"
      <4>1. Occurs(k).id = k.id /\ Occurs(k).id \in Ids
        BY <1>3, OccursType, Typed DEF Inv, TypeOK, Event
      <4>2. Occurs(k).out => interest[k.id] = "inout"
        BY DEF Occurs
      <4> QED  BY <3>1, <4>1, <4>2
    <3> QED  BY <3>2 DEF DeliveryInv, ResponseInv
  <2> QED  BY <1>1, <1>2, <2>1 DEF DeliveryInv, ResponseInv
<1>6. DataInv'
  <2> SUFFICES ASSUME NEW k \in Ids, interest[k] # "none", sock[k].data, ~conn[k].full
               PROVE  DataAnnounced(k)'
    BY <1>2 DEF DataInv
  <2>1. Key("tcp", k) \in ready \/ \E e \in batch : e.kind = "tcp" /\ e.id = k
    BY <1>2 DEF DeliveryInv, DataInv, DataAnnounced, Alive, Ended
  <2>2. Key("tcp", k) \in ready
    BY <1>2, <2>1 DEF DeliveryInv, ResponseInv
  <2> QED  BY <1>1, <1>4, <2>2 DEF DataAnnounced
<1>7. ResponseArmed'
  <2> SUFFICES ASSUME NEW k \in Ids, conn[k].send = "wait", sock[k].wr
               PROVE  Announced(k)'
    BY <1>2 DEF ResponseArmed
  <2>1. interest[k] = "inout" /\ batch = {}
    BY <1>2 DEF DeliveryInv, ResponseInv
  <2>2. Key("tcp", k) \in ready
    BY <1>2, <2>1 DEF DeliveryInv, ResponseArmed, Announced, Alive, Ended
  <2> QED  BY <1>1, <1>4, <2>1, <2>2 DEF Announced
<1> QED  BY <1>5, <1>6, <1>7 DEF DeliveryInv

\* The event that is taken out of the batch announces its socket until its handler has
\* run: on_read or on_error if there is data, else on_write.
LEMMA DispatchDelivers ==
  ASSUME Inv, DeliveryInv, Dispatch PROVE DeliveryInv'
<1>1. PICK e \in batch, late \in BOOLEAN :
        /\ cur' = [e EXCEPT !.late = late]
        /\ batch' = batch \ {e}
        /\ pc' = IF e.kind = "listen" /\ ~running THEN "dispatch" ELSE HandlerOf(e)
  BY DEF Dispatch
<1>2. pc = "dispatch" /\ UNCHANGED <<conn, interest, sock, ready>>
  BY DEF Dispatch, kernel
<1>3. e \in Event /\ cur'.id = e.id /\ cur'.out = e.out
  BY <1>1, Typed DEF Event
<1>4. /\ pc' \in {"dispatch", "accept", "timer"} \union Handling
      /\ pc' \in Handling => e.kind = "tcp"
      /\ e.kind = "tcp" => pc' = IF e.hup THEN "hup" ELSE IF e.in THEN "read" ELSE "write"
  BY <1>1, <1>3 DEF HandlerOf, Event, Handling
<1>5. \A f \in batch : f = e \/ f \in batch'
  BY <1>1
<1>6. ResponseInv'
  <2>1. e.kind = "tcp" => (e.in \/ e.out \/ e.hup) /\ (e.out => conn[e.id].send # "none")
    BY DEF DeliveryInv, ResponseInv
  <2> QED  BY <1>1, <1>2, <1>3, <1>4, <2>1 DEF DeliveryInv, ResponseInv, Handling
<1>7. DataInv'
  <2> SUFFICES ASSUME NEW k \in Ids, interest[k] # "none", sock[k].data, ~conn[k].full
               PROVE  DataAnnounced(k)'
    BY <1>2 DEF DataInv
  <2>1. DataAnnounced(k)
    BY <1>2 DEF DeliveryInv, DataInv, Alive, Ended
  <2> QED  BY <1>2, <1>3, <1>4, <1>5, <2>1 DEF DataAnnounced
<1>8. ResponseArmed'
  <2> SUFFICES ASSUME NEW k \in Ids, conn[k].send = "wait", sock[k].wr
               PROVE  Announced(k)' \/ (pc' = "write" /\ cur'.id = k)
    BY <1>2 DEF ResponseArmed
  <2>1. Announced(k)
    BY <1>2 DEF DeliveryInv, ResponseArmed, Alive, Ended
  <2> QED  BY <1>2, <1>3, <1>4, <1>5, <2>1 DEF Announced
<1> QED  BY <1>6, <1>7, <1>8 DEF DeliveryInv

\* A signal ends the loop, or a batch is done.
LEMMA LoopDelivers ==
  ASSUME DeliveryInv, EpollWaitFails \/ BatchDone PROVE DeliveryInv'
<1>1. Quiet
  BY DEF EpollWaitFails, BatchDone, Quiet, Handling, Alive, Ended, kernel, DeliveryInv,
         ResponseInv
<1> QED  BY <1>1, QuietDelivers
------------------------------------------------------------------------------
(***************************************************************************)
(* The handlers.                                                           *)
(***************************************************************************)
LEMMA AcceptDelivers ==
  ASSUME Inv, ArenaConns < MaxConn, DeliveryInv, Accept PROVE DeliveryInv'
<1> DEFINE i == Head(tcpIds)
<1>1. running /\ pc = "accept"
  BY DEF Accept, AcceptFull, AcceptNone, AcceptNoTimer, AcceptMemFull, AcceptEpollFails,
         AcceptOk, Inv, EventInv
<1>2. current # MaxConn /\ i \in Ids /\ ~conn[i].open
  BY <1>1, FreeSlot
<1>3. Alive
  BY <1>1 DEF Alive, Ended
<1> HIDE DEF i
<1>4. CASE AcceptNone \/ AcceptNoTimer \/ AcceptMemFull
  <2>1. Quiet
    BY <1>1, <1>3, <1>4 DEF AcceptNone, AcceptNoTimer, AcceptMemFull, StopServer, GoTo, Quiet,
                            Handling, kernel
  <2> QED  BY <2>1, QuietDelivers
<1>5. CASE AcceptEpollFails \/ AcceptOk
  <2>1. Opened(i)
    BY <1>1, <1>5 DEF AcceptEpollFails, AcceptOk, AcceptNext, StopServer, GoTo, Opened,
                      Handling, FirstInterest, i
  <2> QED  BY <1>2, <1>3, <2>1, OpenedDelivers
<1> QED  BY <1>2, <1>4, <1>5 DEF Accept, AcceptFull

\* A handler that closes the connection of its event.
LEMMA CloseDelivers ==
  ASSUME Inv, DeliveryInv, pc \in Handling, conn[cur.id].open,
         \A e \in batch : e.kind = "tcp" => e.id # cur.id,
         NEW c \in Connection, NEW r \in Int, NEW next \in {"write", "dispatch"},
         Close(cur.id, c, r, next), batch' = batch
  PROVE  DeliveryInv'
<1>1. cur.id \in Ids /\ Alive
  BY Typed DEF Handling, Alive, Ended
<1>2. CASE pc' = "spin" /\ UNCHANGED <<conn, interest, sock, ready>>
  <2>1. Quiet  BY <1>1, <1>2 DEF Quiet, Handling, Ended
  <2> QED  BY <2>1, QuietDelivers
<1>3. CASE Freed(cur.id, next)
  BY <1>1, <1>3, FreedDelivers
<1> QED  BY <1>1, <1>2, <1>3, CloseShape

\* A hang-up keeps the invariant.
LEMMA HupDelivers ==
  ASSUME Inv, DeliveryInv, TcpHup PROVE DeliveryInv'
<1>1. pc = "hup" /\ Close(cur.id, conn[cur.id], refs, "dispatch") /\ batch' = batch
  BY DEF TcpHup
<1>2. /\ conn[cur.id] \in Connection /\ conn[cur.id].open
      /\ \A e \in batch : e.kind = "tcp" => e.id # cur.id
  BY <1>1, HandledIsOpen
<1>3. refs \in Int /\ pc \in Handling  BY <1>1 DEF Inv, TypeOK, Handling
<1> QED  BY <1>1, <1>2, <1>3, CloseDelivers

\* No timer closes a connection.
LEMMA TimerDelivers ==
  ASSUME Inv, DeliveryInv, TimerEvent PROVE DeliveryInv'
<1>1. cur.id \in Ids
  BY Typed
<1>2. timerTcp[cur.id] # None => timerTcp[cur.id] = cur.id /\ conn[cur.id].open
  BY <1>1 DEF Inv, SlotInv
<1>3. timerTcp[cur.id] # None => ~TimedOut(conn[timerTcp[cur.id]])
  BY <1>1, <1>2 DEF Inv, EventInv, TimedOut
<1>4. /\ pc = "timer" /\ pc' \in {"segv", "dispatch"}
      /\ UNCHANGED <<conn, interest, sock, ready, batch>>
  BY <1>3 DEF TimerEvent, TimerUnlinked, TimerRead, GoTo, kernel
<1>5. Quiet
  BY <1>4 DEF Quiet, Handling, Alive, Ended
<1> QED  BY <1>5, QuietDelivers

\* What a receive, the context and the answer make of the fields the invariant is about.
LEMMA ReadFields ==
  ASSUME NEW c \in Connection, NEW fill \in BOOLEAN
  PROVE  LET d == WithCtx(Recv(c, fill)) IN
         /\ Recv(c, fill) \in Connection /\ d \in Connection
         /\ d.ctx /\ d.full = fill /\ d.send = c.send /\ d.parsed = c.parsed
         /\ \A keep, file \in BOOLEAN :
              LET a == Answered(d, keep, file) IN
              /\ a \in Connection
              /\ a.ctx /\ a.full = fill /\ a.send = "wait" /\ a.parsed /\ a.keep = keep
<1> DEFINE d == WithCtx(Recv(c, fill))
<1>1. Recv(c, fill) \in Connection
  BY RecvType
<1>2. d \in Connection
  BY <1>1, WithCtxType
<1>3. d.ctx /\ d.full = fill /\ d.send = c.send /\ d.parsed = c.parsed
  BY <1>1 DEF WithCtx, Recv, Connection
<1> HIDE DEF d
<1>4. ASSUME NEW keep \in BOOLEAN, NEW file \in BOOLEAN
      PROVE  LET a == Answered(d, keep, file) IN
             /\ a \in Connection
             /\ a.ctx /\ a.full = fill /\ a.send = "wait" /\ a.parsed /\ a.keep = keep
  <2>1. Answered(d, keep, file) \in Connection
    BY <1>2, AnsweredType
  <2> QED  BY <1>2, <1>3, <2>1 DEF Answered, Connection
<1> QED  BY <1>1, <1>2, <1>3, <1>4 DEF d

\* on_read keeps it.
LEMMA ReadDelivers ==
  ASSUME Inv, DeliveryInv, TcpRead PROVE DeliveryInv'
<1> DEFINE i == cur.id
<1>0. pc = "read" /\ batch' = batch
  BY DEF TcpRead, ReadRefused, ReadNoContext, ReadParseError, ReadNeedMore,
         ReadCheckFails, ReadRequest
<1>1. /\ i \in Ids /\ conn[i] \in Connection /\ conn[i].open
      /\ \A e \in batch : e.kind = "tcp" => e.id # i
      /\ sock[i] \in Socket
      /\ AfterRead \in {"write", "dispatch"}
  BY <1>0, HandledIsOpen DEF Socket
<1>2. refs \in Int /\ RefsWith(conn[i]) \in Int /\ RefsWith(conn[i]) - 1 \in Int
  BY DEF Inv, TypeOK, RefsWith
<1>3. Alive /\ pc \in Handling
  BY <1>0 DEF Alive, Ended, Handling
<1>4. ASSUME NEW c \in Connection, NEW r \in Int, Close(i, c, r, AfterRead)
      PROVE  DeliveryInv'
  BY <1>0, <1>1, <1>3, <1>4, CloseDelivers
<1>5. AfterRead = "write" => conn[i].send # "none"
  BY <1>0 DEF AfterRead, DeliveryInv, ResponseInv
<1>6. conn[i].send # "none" <=> conn[i].parsed
  BY <1>1 DEF DeliveryInv, ResponseInv
<1>7. \A rest \in BOOLEAN :
        [sock[i] EXCEPT !.data = rest] \in Socket /\ [sock[i] EXCEPT !.data = rest].data = rest
  BY <1>1 DEF Socket
<1> HIDE DEF i
<1>8. ASSUME NEW fill \in BOOLEAN
      PROVE  LET d == WithCtx(Recv(conn[i], fill)) IN
             /\ Recv(conn[i], fill) \in Connection /\ d \in Connection
             /\ d.full = fill /\ d.send = conn[i].send /\ d.parsed = conn[i].parsed
             /\ \A keep, file \in BOOLEAN :
                  LET a == Answered(d, keep, file) IN
                  /\ a \in Connection
                  /\ a.ctx /\ a.full = fill /\ a.send = "wait" /\ a.parsed /\ a.keep = keep
  <2>1. conn[i] \in Connection  BY <1>1
  <2> QED  BY <2>1, ReadFields, ZenonT(60)
<1>9. CASE ReadRefused \/ ReadNoContext \/ ReadParseError \/ ReadCheckFails
  <2>1. PICK c \in {conn[i], Recv(conn[i], FALSE), WithCtx(Recv(conn[i], FALSE))},
             r \in {refs, RefsWith(conn[i]), RefsWith(conn[i]) - 1} :
          Close(i, c, r, AfterRead) \/ Close(i, [c EXCEPT !.reqs = @ + 1], r, AfterRead)
    BY <1>9 DEF ReadRefused, ReadNoContext, ReadParseError, ReadCheckFails, i
  <2>2. c \in Connection /\ [c EXCEPT !.reqs = @ + 1] \in Connection /\ r \in Int
    <3>1. c \in Connection  BY <1>1, <1>8
    <3> QED  BY <1>2, <3>1, CountedType
  <2> QED  BY <1>4, <2>1, <2>2
<1>10. CASE ReadNeedMore
  <2>1. PICK fill \in BOOLEAN, rest \in BOOLEAN :
          /\ rest => fill
          /\ conn' = [conn EXCEPT ![i] = WithCtx(Recv(conn[i], fill))]
          /\ sock' = [sock EXCEPT ![i] = [sock[i] EXCEPT !.data = rest]]
    BY <1>10, Typed DEF ReadNeedMore, MayRemain, i
  <2>2. GoTo(AfterRead) /\ ~conn[i].parsed /\ UNCHANGED <<interest, ready>>
    BY <1>10 DEF ReadNeedMore, i
  <2>3. AfterRead = "dispatch"
    BY <1>1, <1>5, <1>6, <2>2
  <2> DEFINE c == WithCtx(Recv(conn[i], fill))
             s == [sock[i] EXCEPT !.data = rest]
  <2>4. c \in Connection /\ c.full = fill /\ c.send = "none" /\ ~c.parsed
    <3>1. /\ c \in Connection /\ c.full = fill /\ c.send = conn[i].send
          /\ c.parsed = conn[i].parsed
      BY <1>8
    <3> QED  BY <1>6, <2>2, <3>1
  <2>5. s \in Socket /\ s.data = rest
    BY <1>7
  <2>6. conn' = [conn EXCEPT ![i] = c] /\ sock' = [sock EXCEPT ![i] = s]
    BY <2>1
  <2> HIDE DEF c, s
  <2>7. Kept(i, c, s, "dispatch")
    BY <2>2, <2>3, <2>6 DEF Kept, GoTo
  <2> QED  BY <1>0, <1>1, <1>3, <1>6, <2>1, <2>2, <2>4, <2>5, <2>7, KeptDelivers DEF i
<1>11. CASE ReadRequest
  <2>1. PICK fill \in BOOLEAN, rest \in BOOLEAN, keep \in BOOLEAN, file \in BOOLEAN :
          /\ rest => fill
          /\ Processed(i, Answered(WithCtx(Recv(conn[i], fill)), keep, file),
                       [sock[i] EXCEPT !.data = rest])
    BY <1>11 DEF ReadRequest, MayRemain, i
  <2> DEFINE c == Answered(WithCtx(Recv(conn[i], fill)), keep, file)
             s == [sock[i] EXCEPT !.data = rest]
  <2>2. /\ c \in Connection /\ c.ctx /\ c.full = fill /\ c.send = "wait" /\ c.parsed
        /\ c.keep = keep
    BY <1>8
  <2>3. s \in Socket /\ s.data = rest
    BY <1>7
  <2>4. Processed(i, c, s)
    BY <2>1
  <2> HIDE DEF c, s
  <2>5. CASE Close(i, c, RefsWith(conn[i]), AfterRead)
    BY <1>2, <1>4, <2>2, <2>5
  <2>6. CASE /\ ~IsClose(c)
             /\ conn' = [conn EXCEPT ![i] = c]
             /\ sock' = [sock EXCEPT ![i] = s]
             /\ Rearm(i, s)
             /\ GoTo(AfterRead)
    <3>1. c.keep  BY <2>6 DEF IsClose
    <3>2. Kept(i, c, s, AfterRead)  BY <1>1, <2>6 DEF Kept, GoTo
    <3> QED  BY <1>0, <1>1, <1>3, <2>1, <2>2, <2>3, <2>6, <3>1, <3>2, KeptDelivers DEF i
  <2> QED  BY <2>4, <2>5, <2>6 DEF Processed
<1> QED  BY <1>9, <1>10, <1>11 DEF TcpRead

\* A send, of the header or after it, leaves what the invariant is about.
LEMMA SentFields ==
  ASSUME NEW c \in Connection
  PROVE  /\ Sent(c) \in Connection /\ Sent(c).send = c.send /\ Sent(c).parsed = c.parsed
         /\ Sent(c).ctx = c.ctx /\ Sent(c).keep = c.keep /\ Sent(c).full = c.full
<1> QED  BY SentType DEF Sent, Connection

\* What sending the head of the response leaves.
LEMMA HeadSentFields ==
  ASSUME NEW c \in Connection, c.send # "none"
  PROVE  /\ HeadSent(c) \in Connection /\ HeadSent(c).send = "body"
         /\ HeadSent(c).parsed = c.parsed
         /\ HeadSent(c).ctx = c.ctx /\ HeadSent(c).keep = c.keep /\ HeadSent(c).full = c.full
<1>1. c.send \in {"wait", "body"}
  BY DEF Connection
<1> DEFINE d == Sent(c)
<1>2. /\ d \in Connection /\ d.parsed = c.parsed
      /\ d.ctx = c.ctx /\ d.keep = c.keep /\ d.full = c.full
  BY SentFields
<1> HIDE DEF d
<1>3. /\ [d EXCEPT !.send = "body"] \in Connection
      /\ HeadSent(c) = IF c.send = "wait" THEN [d EXCEPT !.send = "body"] ELSE c
  BY <1>2 DEF HeadSent, Connection, d
<1> QED  BY <1>1, <1>2, <1>3 DEF Connection

\* on_write keeps it.
LEMMA WriteDelivers ==
  ASSUME Inv, DeliveryInv, TcpWrite PROVE DeliveryInv'
<1> DEFINE i == cur.id
<1>0. pc = "write" /\ batch' = batch
  BY DEF TcpWrite, WriteClosed, WriteFile, WriteString, WriteFails, WriteSigpipe
<1>1. /\ i \in Ids /\ conn[i] \in Connection /\ refs \in Int /\ sock[i] \in Socket
      /\ \A e \in batch : e.kind = "tcp" => e.id # i
  BY <1>0, Typed DEF Inv, TypeOK, EventInv
<1>2. Alive /\ pc \in Handling
  BY <1>0 DEF Alive, Ended, Handling
<1>3. ASSUME NEW c \in Connection, conn[i].open, Close(i, c, refs, "dispatch")
      PROVE  DeliveryInv'
  BY <1>0, <1>1, <1>2, <1>3, CloseDelivers
<1>4. conn[i].open => conn[i].send # "none" /\ conn[i].parsed /\ conn[i].ctx /\ conn[i].keep
  BY <1>0, <1>1 DEF DeliveryInv, ResponseInv
<1> HIDE DEF i
<1> DEFINE d == HeadSent(conn[i])
           e == Sent(d)
<1>5. ASSUME conn[i].open
      PROVE  /\ d \in Connection /\ d.send = "body" /\ d.parsed /\ d.ctx /\ d.keep
             /\ d.full = conn[i].full
  BY <1>1, <1>4, <1>5, HeadSentFields
<1>6. ASSUME conn[i].open
      PROVE  /\ e \in Connection /\ e.send = "body" /\ e.parsed /\ e.ctx /\ e.keep
             /\ e.full = conn[i].full
  <2> HIDE DEF d
  <2> QED  BY <1>5, <1>6, SentFields
<1>7. ASSUME NEW c \in {d, e}, NEW s \in Socket, s.data = sock[i].data,
             conn[i].open, Written(i, c, s)
      PROVE  DeliveryInv'
  <2> HIDE DEF d, e
  <2>1. /\ c \in Connection /\ c.send = "body" /\ c.parsed /\ c.ctx /\ c.keep
        /\ c.full = conn[i].full
    BY <1>5, <1>6, <1>7
  <2>2. CASE Close(i, c, refs, "dispatch")
    BY <1>3, <1>7, <2>1, <2>2
  <2>3. CASE /\ conn' = [conn EXCEPT ![i] = c] /\ sock' = [sock EXCEPT ![i] = s]
             /\ GoTo("dispatch") /\ UNCHANGED <<interest, ready>>
    <3>1. Kept(i, c, s, "dispatch")  BY <2>3 DEF Kept, GoTo
    <3> QED  BY <1>0, <1>1, <1>2, <1>4, <1>7, <2>1, <2>3, <3>1, KeptDelivers DEF i
  <2> QED  BY <1>7, <2>2, <2>3 DEF Written
<1>8. ASSUME pc' \in Ended, UNCHANGED <<conn, interest, sock, ready>>
      PROVE  DeliveryInv'
  <2>1. Quiet  BY <1>0, <1>2, <1>8 DEF Quiet, Handling, Ended
  <2> QED  BY <2>1, QuietDelivers
<1>9. CASE WriteClosed \/ WriteSigpipe
  BY <1>8, <1>9 DEF WriteClosed, WriteSigpipe, GoTo, Ended, kernel
<1>10. CASE WriteFile
  <2>1. PICK wr \in BOOLEAN : Written(i, d, [sock[i] EXCEPT !.wr = wr])
    BY <1>10 DEF WriteFile, i
  <2>2. /\ [sock[i] EXCEPT !.wr = wr] \in Socket
        /\ [sock[i] EXCEPT !.wr = wr].data = sock[i].data
    BY <1>1 DEF Socket
  <2>3. conn[i].open  BY <1>10 DEF WriteFile, i
  <2> QED  BY <1>7, <2>1, <2>2, <2>3
<1>11. CASE WriteString
  <2>1. CASE GoTo("abort") /\ UNCHANGED <<conn, interest, sock, ready>>
    BY <1>8, <2>1 DEF GoTo, Ended
  <2>2. CASE Written(i, e, sock[i])
    BY <1>1, <1>7, <1>11, <2>2 DEF WriteString, i
  <2> QED  BY <1>11, <2>1, <2>2 DEF WriteString, i
<1>12. CASE WriteFails
  <2>1. conn[i].open /\ (Close(i, Sent(conn[i]), refs, "dispatch") \/ Close(i, e, refs, "dispatch"))
    BY <1>12 DEF WriteFails, i
  <2>2. Sent(conn[i]) \in Connection /\ e \in Connection
    BY <1>1, <1>6, <2>1, SentFields
  <2> QED  BY <1>3, <2>1, <2>2
<1> QED  BY <1>9, <1>10, <1>11, <1>12 DEF TcpWrite
------------------------------------------------------------------------------
(***************************************************************************)
(* The invariant.                                                          *)
(***************************************************************************)
LEMMA InitDelivers == Init => DeliveryInv
<1> SUFFICES ASSUME Init PROVE DeliveryInv  OBVIOUS
<1>1. ResponseInv  BY DEF Init, ResponseInv, ClosedConn
<1>2. DataInv  BY DEF Init, DataInv
<1>3. ResponseArmed  BY DEF Init, ResponseArmed, ClosedConn
<1> QED  BY <1>1, <1>2, <1>3 DEF DeliveryInv

\* Every step keeps it.
LEMMA NextDelivers ==
  ASSUME ArenaConns < MaxConn, Inv, DeliveryInv, [Next]_vars PROVE DeliveryInv'
<1>1. CASE UNCHANGED vars
  <2>1. ResponseInv'
    BY <1>1 DEF vars, server, kernel, DeliveryInv, ResponseInv
  <2>2. DataInv'
    BY <1>1 DEF vars, server, kernel, DeliveryInv, DataInv, DataAnnounced, Alive
  <2>3. ResponseArmed'
    BY <1>1 DEF vars, server, kernel, DeliveryInv, ResponseArmed, Announced, Alive
  <2> QED  BY <2>1, <2>2, <2>3 DEF DeliveryInv
<1>2. CASE Next
  BY <1>2, EnvironmentDelivers, EpollWaitDelivers, DispatchDelivers, LoopDelivers,
     AcceptDelivers, HupDelivers, ReadDelivers, WriteDelivers, TimerDelivers DEF Next, Server, EventLoop
<1> QED  BY <1>1, <1>2

\* It holds in every reachable state.
LEMMA Delivery ==
  ASSUME ArenaConns < MaxConn PROVE Spec => []DeliveryInv
<1>1. Init => DeliveryInv  BY InitDelivers
<1>2. Inv /\ DeliveryInv /\ [Next]_vars => DeliveryInv'  BY NextDelivers
<1> QED  BY <1>1, <1>2, Invariance, PTL DEF Spec
------------------------------------------------------------------------------
(***************************************************************************)
(* The properties.                                                         *)
(***************************************************************************)
\* Edge-triggered epoll reports data once.  On no path through the handlers is data
\* left in a socket, with room in read_buf, and no event to come that is about it.
THEOREM NoDataStranded ==
  ASSUME ArenaConns < MaxConn PROVE Spec => []NoStrandedData
<1>1. ASSUME DataInv PROVE NoStrandedData
  <2> SUFFICES ASSUME Alive, NEW i \in Ids, interest[i] # "none", sock[i].data, ~conn[i].full
               PROVE  Announced(i)
    BY DEF NoStrandedData
  <2>1. DataAnnounced(i)  BY <1>1 DEF DataInv
  <2> QED  BY <2>1 DEF DataAnnounced, Announced
<1> QED  BY <1>1, Delivery, PTL DEF DeliveryInv

\* A response that on_process has prepared always has an event under way that leads to
\* on_write, as long as there is room in the socket.
THEOREM ResponseStaysArmed ==
  ASSUME ArenaConns < MaxConn PROVE Spec => []ResponseArmed
<1> QED  BY Delivery, PTL DEF DeliveryInv

\* on_write, which uses protocol_ctx and the response unchecked, is called for an open
\* connection only when both are there.
THEOREM ResponseForWrite ==
  ASSUME ArenaConns < MaxConn PROVE Spec => []WriteHasResponse
<1>1. ASSUME Inv, ResponseInv PROVE WriteHasResponse
  BY <1>1, Typed DEF ResponseInv, WriteHasResponse
<1> QED  BY <1>1, Invariance, Delivery, PTL DEF DeliveryInv
------------------------------------------------------------------------------
(***************************************************************************)
(* The owner of a slot.                                                    *)
(***************************************************************************)
\* The only connection a step touches was not open, is no more, or is the same one.
OwnerKept ==
  \E i \in Ids, c \in Connection :
    /\ conn' \in {conn, [conn EXCEPT ![i] = c]}
    /\ conn[i].open /\ c.open => c.id = conn[i].id

\* Closing keeps the owners of slots.
LEMMA CloseOwner ==
  ASSUME Inv, NEW i \in Ids, NEW c \in Connection, NEW r, NEW next, Close(i, c, r, next)
  PROVE  OwnerKept
<1>1. conn' \in {conn, [conn EXCEPT ![i] = ClosedConn]}
  <2>1. CASE c.ctx /\ c.reqs = MaxReq  BY <2>1 DEF Close
  <2>2. CASE ~(c.ctx /\ c.reqs = MaxReq)  BY <2>2, Zenon DEF Close
  <2> QED  BY <2>1, <2>2
<1>2. ClosedConn \in Connection /\ ~ClosedConn.open
  BY DEF ClosedConn, Connection, None
<1> QED  BY <1>1, <1>2 DEF OwnerKept

\* Accepting keeps them.
LEMMA AcceptOwner ==
  ASSUME Inv, ArenaConns < MaxConn, Accept PROVE OwnerKept
<1>1. running
  BY DEF Accept, AcceptFull, AcceptNone, AcceptNoTimer, AcceptMemFull, AcceptEpollFails,
         AcceptOk, Inv, EventInv
<1>2. Head(tcpIds) \in Ids /\ ~conn[Head(tcpIds)].open
  BY <1>1, FreeSlot
<1>3. NewConn(nextId) \in Connection
  BY NewConnType DEF Inv, TypeOK
<1>4. conn' \in {conn, [conn EXCEPT ![Head(tcpIds)] = NewConn(nextId)]}
  BY DEF Accept, AcceptFull, AcceptNone, AcceptNoTimer, AcceptMemFull, AcceptEpollFails,
         AcceptOk
<1> QED  BY <1>2, <1>3, <1>4 DEF OwnerKept

\* Reading keeps them.
LEMMA ReadOwner ==
  ASSUME Inv, TcpRead PROVE OwnerKept
<1> DEFINE i == cur.id
<1>1. i \in Ids /\ conn[i] \in Connection
  BY Typed
<1>2. ASSUME NEW fill \in BOOLEAN
      PROVE  /\ Recv(conn[i], fill) \in Connection
             /\ WithCtx(Recv(conn[i], fill)) \in Connection
             /\ WithCtx(Recv(conn[i], fill)).id = conn[i].id
  <2>1. Recv(conn[i], fill) \in Connection /\ Recv(conn[i], fill).id = conn[i].id
    BY <1>1, RecvType
  <2> QED  BY <2>1, WithCtxType
<1> HIDE DEF i
<1>3. CASE ReadRefused \/ ReadNoContext \/ ReadParseError \/ ReadCheckFails
  <2>1. PICK c \in {conn[i], Recv(conn[i], FALSE), WithCtx(Recv(conn[i], FALSE))} :
          \E r : Close(i, c, r, AfterRead) \/ Close(i, [c EXCEPT !.reqs = @ + 1], r, AfterRead)
    BY <1>3 DEF ReadRefused, ReadNoContext, ReadParseError, ReadCheckFails, i
  <2>2. c \in Connection /\ [c EXCEPT !.reqs = @ + 1] \in Connection
    <3>1. c \in Connection  BY <1>1, <1>2
    <3> QED  BY <3>1, CountedType
  <2> QED  BY <1>1, <2>1, <2>2, CloseOwner
<1>4. CASE ReadNeedMore
  <2>1. PICK fill \in BOOLEAN : conn' = [conn EXCEPT ![i] = WithCtx(Recv(conn[i], fill))]
    BY <1>4, Typed DEF ReadNeedMore, i
  <2> QED  BY <1>1, <1>2, <2>1 DEF OwnerKept
<1>5. CASE ReadRequest
  <2>1. PICK fill \in BOOLEAN, rest \in BOOLEAN, keep \in BOOLEAN, file \in BOOLEAN :
          Processed(i, Answered(WithCtx(Recv(conn[i], fill)), keep, file),
                    [sock[i] EXCEPT !.data = rest])
    BY <1>5 DEF ReadRequest, i
  <2> DEFINE c == Answered(WithCtx(Recv(conn[i], fill)), keep, file)
  <2>2. c \in Connection /\ c.id = conn[i].id
    <3>1. WithCtx(Recv(conn[i], fill)) \in Connection
          /\ WithCtx(Recv(conn[i], fill)).id = conn[i].id
      BY <1>2
    <3> QED  BY <3>1, AnsweredType
  <2> HIDE DEF c
  <2>3. Close(i, c, RefsWith(conn[i]), AfterRead) \/ conn' = [conn EXCEPT ![i] = c]
    BY <2>1 DEF Processed, c
  <2> QED  BY <1>1, <2>2, <2>3, CloseOwner DEF OwnerKept
<1> QED  BY <1>3, <1>4, <1>5 DEF TcpRead

\* Writing keeps them.
LEMMA WriteOwner ==
  ASSUME Inv, TcpWrite PROVE OwnerKept
<1> DEFINE i == cur.id
<1>1. i \in Ids /\ conn[i] \in Connection
  BY Typed
<1> HIDE DEF i
<1> DEFINE C == {conn[i], HeadSent(conn[i]), Sent(conn[i]), Sent(HeadSent(conn[i]))}
<1>2. \A c \in C : c \in Connection /\ c.id = conn[i].id
  <2>1. HeadSent(conn[i]) \in Connection /\ HeadSent(conn[i]).id = conn[i].id
    BY <1>1, HeadSentType
  <2> QED  BY <1>1, <2>1, SentType
<1>3. \/ conn' = conn
      \/ \E c \in C : Close(i, c, refs, "dispatch") \/ conn' = [conn EXCEPT ![i] = c]
  BY DEF TcpWrite, WriteClosed, WriteFile, WriteString, WriteFails, WriteSigpipe, Written, i
<1> HIDE DEF C
<1> QED  BY <1>1, <1>2, <1>3, CloseOwner DEF OwnerKept

\* The timer keeps them.
LEMMA TimerOwner ==
  ASSUME Inv, TimerEvent PROVE OwnerKept
<1>1. cur.id \in Ids
  BY Typed
<1>2. timerTcp[cur.id] # None => timerTcp[cur.id] = cur.id
  BY <1>1 DEF Inv, SlotInv
<1>3. conn' = conn \/ Close(cur.id, conn[cur.id], refs, "dispatch")
  BY <1>2 DEF TimerEvent, TimerUnlinked, TimerRead
<1> QED  BY <1>1, <1>3, CloseOwner, Typed DEF OwnerKept

\* Every step keeps them.
LEMMA NextOwner ==
  ASSUME ArenaConns < MaxConn, Inv, [Next]_vars PROVE OwnerKept
<1>1. cur.id \in Ids /\ conn[cur.id] \in Connection
  BY Typed
<1>2. CASE UNCHANGED vars
  BY <1>1, <1>2 DEF vars, server, OwnerKept
<1>3. CASE Environment
  <2>1. conn' = conn
    BY <1>3, Zenon DEF Environment, ClientConnects, PeerSends, PeerCloses, BecomesWritable,
                       TimerFires, server
  <2> QED  BY <1>1, <2>1 DEF OwnerKept
<1>4. CASE EpollWait \/ EpollWaitFails \/ Dispatch \/ BatchDone
  BY <1>1, <1>4 DEF EpollWait, EpollWaitFails, Dispatch, BatchDone, OwnerKept
<1>5. CASE TcpHup
  BY <1>1, <1>5, CloseOwner DEF TcpHup
<1> QED  BY <1>2, <1>3, <1>4, <1>5, AcceptOwner, ReadOwner, WriteOwner, TimerOwner
         DEF Next, Server, EventLoop

\* No accept overwrites a connection that is still open.
THEOREM OwnerSafe ==
  ASSUME ArenaConns < MaxConn PROVE Spec => SlotKept
<1>1. ASSUME Inv, [Next]_vars
      PROVE  [\A i \in Ids : conn[i].open /\ conn'[i].open => conn'[i].id = conn[i].id]_vars
  <2>1. OwnerKept  BY <1>1, NextOwner
  <2> QED  BY <1>1, <2>1, Typed DEF OwnerKept
<1> QED  BY <1>1, Invariance, PTL DEF Spec, SlotKept

=============================================================================
