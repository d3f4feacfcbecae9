------------------------------ MODULE SlotPool ------------------------------
(***************************************************************************)
(* The two id lists of the server, with their links, as tcp_server.c uses  *)
(* them: the accept loop takes one id from each, closing a connection puts *)
(* both back, and so does the branch of the loop for a full server, where  *)
(* the ids belong to a connection that has just been accepted.  TcpServer  *)
(* stops when that makes a list cyclic; this module goes on from there.    *)
(***************************************************************************)
EXTENDS IdLinks

CONSTANT MaxDrift      \* bound: ids put back that nobody had taken out

ASSUME MaxDriftAssumption == MaxDrift \in Nat

VARIABLES
  tcp,         \* tcp_id_list
  timer,       \* timer_id_list
  pair,        \* time_event of every slot: the timer slot of its connection
  current,     \* stats.current_connections
  accepting,   \* tcpserver_listen_on_read is between two rounds of its loop
  last         \* new_idx and new_idx2 as the previous round left them

poolVars == <<tcp, timer, pair, current, accepting, last>>

Open == {i \in Ids : pair[i] # Null}
NoIndexes == [tcp |-> Null, timer |-> Null]

PoolInit ==
  /\ \E n, k \in Leftover : tcp = IdCreate(n) /\ timer = IdCreate(k)
  /\ pair = [i \in Ids |-> Null]
  /\ current = 0 /\ accepting = FALSE /\ last = NoIndexes

AcceptStart ==
  /\ ~accepting
  /\ accepting' = TRUE /\ last' = NoIndexes
  /\ UNCHANGED <<tcp, timer, pair, current>>

\* clean_idx
PutBack(l, i) == IF i = Null THEN l ELSE Add(l, i)

\* Each time the server becomes full the counts of the lists fall behind.
AcceptFull ==
  /\ accepting /\ current = Size /\ tcp.count > Size - MaxDrift
  /\ tcp' = PutBack(tcp, last.tcp) /\ timer' = PutBack(timer, last.timer)
  /\ accepting' = FALSE
  /\ UNCHANGED <<pair, current, last>>

\* The indexes of a round that finds no client.  Mutant: they are not reset, and
\* those of the round before are put back.
RoundIndexes_Stale == last
RoundIndexes == [tcp |-> tcp.begin, timer |-> timer.begin]

\* accept4 or timerfd_create gives no descriptor: both ids go back.
AcceptNone ==
  /\ accepting /\ current # Size /\ CanGet(tcp) /\ CanGet(timer)
  /\ tcp' = PutBack(Got(tcp), RoundIndexes.tcp)
  /\ timer' = PutBack(Got(timer), RoundIndexes.timer)
  /\ accepting' = FALSE
  /\ UNCHANGED <<pair, current, last>>

AcceptOk ==
  /\ accepting /\ current # Size /\ CanGet(tcp) /\ CanGet(timer)
  /\ tcp' = Got(tcp) /\ timer' = Got(timer)
  /\ pair' = [pair EXCEPT ![tcp.begin] = timer.begin]
  /\ last' = [tcp |-> tcp.begin, timer |-> timer.begin]
  /\ current' = current + 1
  /\ UNCHANGED accepting

\* tcpserver_delete_tcp_and_timer
Close(i) ==
  /\ ~accepting /\ i \in Open
  /\ tcp' = Add(tcp, i) /\ timer' = Add(timer, pair[i])
  /\ pair' = [pair EXCEPT ![i] = Null]
  /\ current' = current - 1
  /\ UNCHANGED <<accepting, last>>

PoolNext ==
  \/ AcceptStart \/ AcceptFull \/ AcceptNone \/ AcceptOk
  \/ \E i \in Ids : Close(i)

PoolSpec == PoolInit /\ [][PoolNext]_poolVars
------------------------------------------------------------------------------
FirstOf(l, n) == {Chain(l)[k] : k \in 0 .. n - 1}

\* What the lists give while a slot is free is right even after a full server
\* has put ids of live connections back and closing those has made the links
\* cyclic: as many nodes as there are free slots lie in front of the rubbish,
\* and they are exactly the free ones.
FreeInFront ==
  /\ FirstOf(tcp, Size - current) = Ids \ Open
  /\ FirstOf(timer, Size - current) = Ids \ {pair[i] : i \in Open}

\* So the two lists are the promised pools step by step: what an accept takes was
\* free, what a close puts back was in use, and nothing else moves.
Slots == INSTANCE IdPool WITH free <- FirstOf(tcp, Size - current), out <- Open
Timers == INSTANCE IdPool WITH free <- FirstOf(timer, Size - current),
                               out <- {pair[i] : i \in Open}
ListsArePools == Slots!Spec /\ Timers!Spec
=============================================================================
