----------------------------- MODULE ListProofs -----------------------------
(***************************************************************************)
(* What holds of the lists of the server for any capacity: the id lists    *)
(* give out what is free, also after a full server has put ids of live     *)
(* connections back, and are the promised pools of numbers; the doubly     *)
(* linked lists hold, forwards and backwards, the nodes that were put into *)
(* them and not taken out, whatever nodes malloc gives.                    *)
(***************************************************************************)
EXTENDS SlotPool, LinkList, Recursion, FiniteSetTheorems, SequenceTheorems
------------------------------------------------------------------------------
(***************************************************************************)
(* The nodes in front of a list.                                           *)
(***************************************************************************)
Links == Ids \union {Null, Wild}

ListType(l) == l \in [begin : Links, end : Links, next : [Ids -> Links], count : Int]

\* Writing a link of a node.
LEMMA UpdateType ==
  ASSUME NEW l, ListType(l), NEW h \in Ids,
         NEW b \in Links, NEW e \in Links, NEW x \in Links, NEW n \in Int
  PROVE  ListType([l EXCEPT !.begin = b, !.next[h] = x, !.count = n, !.end = e])
BY DEF ListType

\* c lists the nodes of F, each once, in the order of the links.
Follows(c, l, F, n) ==
  /\ c \in [0 .. n - 1 -> F] /\ F \subseteq Ids
  /\ \A j, k \in 0 .. n - 1 : c[j] = c[k] => j = k
  /\ \A i \in F : \E k \in 0 .. n - 1 : c[k] = i
  /\ n > 0 => c[0] = l.begin
  /\ \A k \in 0 .. n - 2 : l.next[c[k]] = c[k + 1]

\* The first n nodes of l are the elements of F; what comes behind them is open.
Leading(l, F, n) == \E c : Follows(c, l, F, n)

\* Before the first node there is nothing.
LEMMA NoneLeading == ASSUME NEW l, NEW F PROVE Leading(l, F, 0) <=> F = {}
<1> DEFINE c == [k \in 0 .. 0 - 1 |-> 0]
<1>1. Follows(c, l, {}, 0)  BY DEF Follows
<1>2. \A b : Follows(b, l, F, 0) => F = {}  BY DEF Follows
<1> QED  BY <1>1, <1>2 DEF Leading

\* id_list_get takes the first one.
LEMMA GotLeading ==
  ASSUME NEW l, ListType(l), NEW F, NEW n \in Nat \ {0}, Leading(l, F, n), CanGet(l)
  PROVE  /\ l.begin \in F /\ l.begin \in Ids
         /\ Leading(Got(l), F \ {l.begin}, n - 1) /\ ListType(Got(l))
<1>1. PICK c : Follows(c, l, F, n)  BY DEF Leading
<1> DEFINE h == l.begin
           d == [k \in 0 .. n - 1 - 1 |-> c[k + 1]]
           g == Got(l)
<1>2. h \in F /\ h \in Ids /\ c[0] = h  BY <1>1 DEF Follows
<1>3. g.begin = l.next[h] /\ g.next = [l.next EXCEPT ![h] = Null]
  BY DEF Got, ListType
<1>4. ListType(g)
  <2> DEFINE e == IF l.next[h] = Null THEN Null ELSE l.end
  <2>1. /\ Null \in Links /\ l.next[h] \in Links /\ e \in Links /\ l.count + 1 \in Int
    BY <1>2 DEF ListType, Links
  <2>2. g = [l EXCEPT !.begin = l.next[h], !.next[h] = Null, !.count = l.count + 1, !.end = e]
    BY DEF Got
  <2> HIDE DEF g, h, e
  <2> QED  BY <1>2, <2>1, <2>2, UpdateType
<1>5. Follows(d, g, F \ {h}, n - 1)
  <2>1. \A k \in 0 .. n - 1 - 1 : k + 1 \in 0 .. n - 1 /\ k + 1 # 0  OBVIOUS
  <2>2. \A k \in 0 .. n - 1 - 1 : c[k + 1] \in F \ {h}  BY <1>1, <1>2, <2>1 DEF Follows
  <2>3. d \in [0 .. n - 1 - 1 -> F \ {h}]  BY <2>2
  <2>4. ASSUME NEW j \in 0 .. n - 1 - 1, NEW k \in 0 .. n - 1 - 1, d[j] = d[k] PROVE j = k
    <3>1. c[j + 1] = c[k + 1]  BY <2>4
    <3>2. j + 1 = k + 1  BY <1>1, <2>1, <3>1 DEF Follows
    <3> QED  BY <3>2
  <2>5. ASSUME NEW i \in F \ {h} PROVE \E k \in 0 .. n - 1 - 1 : d[k] = i
    <3>1. PICK k \in 0 .. n - 1 : c[k] = i  BY <1>1 DEF Follows
    <3>2. k # 0  BY <1>2, <2>5, <3>1
    <3>3. k - 1 \in 0 .. n - 1 - 1 /\ k - 1 + 1 = k  BY <3>2
    <3>4. d[k - 1] = i  BY <3>1, <3>3
    <3> QED  BY <3>3, <3>4
  <2>6. n - 1 > 0 => d[0] = g.begin
    <3> SUFFICES ASSUME n - 1 > 0 PROVE d[0] = g.begin  OBVIOUS
    <3>1. 0 \in 0 .. n - 2 /\ 0 \in 0 .. n - 1 - 1  OBVIOUS
    <3>2. l.next[c[0]] = c[0 + 1]  BY <1>1, <3>1 DEF Follows
    <3> QED  BY <1>2, <1>3, <3>1, <3>2
  <2>7. ASSUME NEW k \in 0 .. n - 1 - 2 PROVE g.next[d[k]] = d[k + 1]
    <3>1. /\ k \in 0 .. n - 1 - 1 /\ k + 1 \in 0 .. n - 1 - 1 /\ k + 1 \in 0 .. n - 2
          /\ k + 1 \in 0 .. n - 1
      OBVIOUS
    <3>2. c[k + 1] # h /\ c[k + 1] \in Ids  BY <1>1, <2>2, <3>1 DEF Follows
    <3>3. g.next[c[k + 1]] = l.next[c[k + 1]]  BY <1>3, <3>2 DEF ListType
    <3>4. l.next[c[k + 1]] = c[k + 1 + 1]  BY <1>1, <3>1 DEF Follows
    <3> QED  BY <3>1, <3>3, <3>4
  <2>8. F \ {h} \subseteq Ids  BY <1>1 DEF Follows
  <2> HIDE DEF d, g, h
  <2> QED  BY <2>3, <2>4, <2>5, <2>6, <2>7, <2>8 DEF Follows
<1> QED  BY <1>2, <1>4, <1>5 DEF Leading

\* id_list_add puts the number in front, whatever the links behind it are.
LEMMA AddType ==
  ASSUME NEW l, ListType(l), NEW i \in Ids
  PROVE  /\ ListType(Add(l, i)) /\ Add(l, i).begin = i
         /\ \A j \in Ids : j # i => Add(l, i).next[j] = l.next[j]
         /\ Add(l, i).next[i] = IF l.begin = Null /\ l.end = Null THEN Null ELSE l.begin
<1> DEFINE g == Add(l, i)
<1> DEFINE x == IF l.begin = Null /\ l.end = Null THEN Null ELSE l.begin
<1>1. g.begin = i /\ g.next = [l.next EXCEPT ![i] = x]
  BY DEF Add, IdInsertFront, ListType
<1>2. ListType(g)
  <2> DEFINE e == IF l.begin = Null /\ l.end = Null THEN i ELSE l.end
  <2>1. x \in Links /\ e \in Links /\ i \in Links /\ l.count - 1 \in Int
    BY DEF ListType, Links
  <2>2. g = [l EXCEPT !.begin = i, !.next[i] = x, !.count = l.count - 1, !.end = e]
    BY DEF Add, IdInsertFront, ListType
  <2> HIDE DEF g, x, e
  <2> QED  BY <2>1, <2>2, UpdateType
<1> HIDE DEF g, x
<1>3. \A j \in Ids : g.next[j] = IF j = i THEN x ELSE l.next[j]
  BY <1>1 DEF ListType
<1> QED  BY <1>1, <1>2, <1>3 DEF g, x

\* An id given back in front makes one more leading node.
LEMMA AddLeading ==
  ASSUME NEW l, ListType(l), NEW F, NEW n \in Nat, Leading(l, F, n), NEW i \in Ids, i \notin F
  PROVE  Leading(Add(l, i), F \union {i}, n + 1)
<1>1. PICK c : Follows(c, l, F, n)  BY DEF Leading
<1> DEFINE d == [k \in 0 .. n + 1 - 1 |-> IF k = 0 THEN i ELSE c[k - 1]]
           g == Add(l, i)
<1>2. /\ g.begin = i /\ \A j \in Ids : j # i => g.next[j] = l.next[j]
      /\ g.next[i] = IF l.begin = Null /\ l.end = Null THEN Null ELSE l.begin
  BY AddType
<1> HIDE DEF g
<1>3. \A k \in 0 .. n + 1 - 1 : k # 0 => k - 1 \in 0 .. n - 1  OBVIOUS
<1>4. \A k \in 0 .. n + 1 - 1 : k # 0 => c[k - 1] \in F /\ c[k - 1] # i
  BY <1>1, <1>3 DEF Follows
<1>5. d \in [0 .. n + 1 - 1 -> F \union {i}]  BY <1>4
<1>6. ASSUME NEW j \in 0 .. n + 1 - 1, NEW k \in 0 .. n + 1 - 1, d[j] = d[k] PROVE j = k
  <2>1. CASE j = 0 \/ k = 0  BY <1>4, <1>6, <2>1
  <2>2. CASE j # 0 /\ k # 0
    <3>1. c[j - 1] = c[k - 1]  BY <1>6, <2>2
    <3>2. j - 1 = k - 1  BY <1>1, <1>3, <2>2, <3>1 DEF Follows
    <3> QED  BY <3>2
  <2> QED  BY <2>1, <2>2
<1>7. ASSUME NEW j \in F \union {i} PROVE \E k \in 0 .. n + 1 - 1 : d[k] = j
  <2>1. CASE j = i
    <3>1. 0 \in 0 .. n + 1 - 1 /\ d[0] = i  OBVIOUS
    <3> QED  BY <2>1, <3>1
  <2>2. CASE j \in F
    <3>1. PICK k \in 0 .. n - 1 : c[k] = j  BY <1>1, <2>2 DEF Follows
    <3>2. k + 1 \in 0 .. n + 1 - 1 /\ k + 1 # 0 /\ k + 1 - 1 = k  OBVIOUS
    <3>3. d[k + 1] = j  BY <3>1, <3>2
    <3> QED  BY <3>2, <3>3
  <2> QED  BY <2>1, <2>2
<1>8. ASSUME NEW k \in 0 .. n + 1 - 2 PROVE g.next[d[k]] = d[k + 1]
  <2>1. k \in 0 .. n + 1 - 1 /\ k + 1 \in 0 .. n + 1 - 1 /\ k + 1 # 0 /\ k + 1 - 1 = k  OBVIOUS
  <2>2. d[k + 1] = c[k]  BY <2>1
  <2>3. CASE k = 0
    <3>1. d[k] = i /\ c[0] = l.begin /\ c[0] \in Ids  BY <1>1, <2>1, <2>3 DEF Follows
    <3>2. l.begin # Null  BY <3>1 DEF Ids, Null
    <3> QED  BY <1>2, <2>2, <2>3, <3>1, <3>2
  <2>4. CASE k # 0
    <3>1. k - 1 \in 0 .. n - 2 /\ k - 1 + 1 = k  BY <2>4
    <3>2. d[k] = c[k - 1] /\ c[k - 1] \in Ids /\ c[k - 1] # i
      BY <1>1, <1>4, <2>1, <2>4 DEF Follows
    <3>3. l.next[c[k - 1]] = c[k]  BY <1>1, <3>1 DEF Follows
    <3> QED  BY <1>2, <2>2, <3>2, <3>3
  <2> QED  BY <2>3, <2>4
<1>9. d[0] = g.begin /\ F \union {i} \subseteq Ids  BY <1>1, <1>2 DEF Follows
<1> HIDE DEF d
<1>10. Follows(d, g, F \union {i}, n + 1)
  <2>1. \A j, k \in 0 .. n + 1 - 1 : d[j] = d[k] => j = k  BY <1>6
  <2>2. \A j \in F \union {i} : \E k \in 0 .. n + 1 - 1 : d[k] = j  BY <1>7
  <2>3. \A k \in 0 .. n + 1 - 2 : g.next[d[k]] = d[k + 1]  BY <1>8
  <2> DEFINE N == n + 1
  <2>4. /\ d \in [0 .. N - 1 -> F \union {i}] /\ d[0] = g.begin /\ F \union {i} \subseteq Ids
        /\ \A j, k \in 0 .. N - 1 : d[j] = d[k] => j = k
        /\ \A j \in F \union {i} : \E k \in 0 .. N - 1 : d[k] = j
        /\ \A k \in 0 .. N - 2 : g.next[d[k]] = d[k + 1]
    BY <1>5, <1>9, <2>1, <2>2, <2>3
  <2> HIDE DEF N
  <2>5. Follows(d, g, F \union {i}, N)  BY <2>4 DEF Follows
  <2> QED  BY <2>5 DEF N
<1> QED  BY <1>10 DEF Leading, g

\* id_list_create links all the numbers, whatever it leaves in the last node.
LEMMA CreateLeading ==
  ASSUME NEW n \in Leftover
  PROVE  ListType(IdCreate(n)) /\ Leading(IdCreate(n), Ids, Size)
<1> DEFINE l == IdCreate(n)
           c == [k \in 0 .. Size - 1 |-> k]
<1>0. Size \in Nat /\ Size >= 2  BY SizeAssumption
<1>1. l.begin = 0 /\ l.next = [i \in Ids |-> IF i = Size - 1 THEN n ELSE i + 1]
  BY DEF IdCreate
<1>2. ListType(l)
  BY <1>0 DEF IdCreate, ListType, Links, Leftover, Ids
<1> HIDE DEF l
<1>3. \A k \in 0 .. Size - 2 : l.next[c[k]] = c[k + 1]
  BY <1>0, <1>1 DEF Ids
<1>4. Follows(c, l, Ids, Size)
  <2>1. c \in [0 .. Size - 1 -> Ids]  BY DEF Ids
  <2>2. Size > 0 => c[0] = l.begin  BY <1>0, <1>1
  <2>3. \A i \in Ids : \E k \in 0 .. Size - 1 : c[k] = i  BY DEF Ids
  <2>4. \A j, k \in 0 .. Size - 1 : c[j] = c[k] => j = k  OBVIOUS
  <2> HIDE DEF c
  <2> QED  BY <1>3, <2>1, <2>2, <2>3, <2>4 DEF Follows
<1> QED  BY <1>2, <1>4 DEF Leading, l
------------------------------------------------------------------------------
(***************************************************************************)
(* The id lists of the server.                                             *)
(***************************************************************************)
\* The timer slots that are in use.
Paired == {pair[i] : i \in Open}

PoolInv ==
  /\ ListType(tcp) /\ ListType(timer)
  /\ pair \in [Ids -> Ids \union {Null}] /\ accepting \in BOOLEAN
  /\ last \in [tcp : Ids \union {Null}, timer : Ids \union {Null}]
  /\ current = Cardinality(Open)
  /\ \A i, j \in Open : pair[i] = pair[j] => i = j
  /\ Leading(tcp, Ids \ Open, Size - current)
  /\ Leading(timer, Ids \ Paired, Size - current)

\* The ids are finitely many.
LEMMA IdsFinite == IsFiniteSet(Ids) /\ Cardinality(Ids) = Size /\ Null \notin Ids
<1>1. 0 \in Int /\ Size - 1 \in Int  BY SizeAssumption
<1> QED  BY <1>1, FS_Interval, SizeAssumption DEF Ids, Null

\* So are the open ones.
LEMMA OpenFinite ==
  ASSUME current = Cardinality(Open)
  PROVE  /\ IsFiniteSet(Open) /\ current \in 0 .. Size /\ Size - current \in Nat
         /\ Open = {} => current = 0
         /\ Open # {} => current # 0
         /\ current = Size => Open = Ids
<1>1. Open \subseteq Ids  BY DEF Open
<1>2. IsFiniteSet(Open) /\ current \in Nat /\ current <= Size
  BY <1>1, IdsFinite, FS_Subset, FS_CardinalityType
<1>3. Open = {} <=> current = 0  BY <1>2, FS_EmptySet
<1>4. current = Size => Open = Ids  BY <1>1, <1>2, IdsFinite, FS_Subset
<1> QED  BY <1>2, <1>3, <1>4, SizeAssumption

\* An index that clean_idx may put back.
LEMMA PutBackType ==
  ASSUME NEW l, ListType(l), NEW i \in Ids \union {Null}
  PROVE  ListType(PutBack(l, i))
BY AddType DEF PutBack

\* The accept loop takes a number of a list and puts it back.
LEMMA RoundTrip ==
  ASSUME NEW l, ListType(l), NEW F, NEW n \in Nat \ {0}, Leading(l, F, n), CanGet(l)
  PROVE  ListType(PutBack(Got(l), l.begin)) /\ Leading(PutBack(Got(l), l.begin), F, n)
<1>1. /\ l.begin \in F /\ l.begin \in Ids /\ ListType(Got(l))
      /\ Leading(Got(l), F \ {l.begin}, n - 1)
  BY GotLeading
<1>2. l.begin # Null  BY <1>1, IdsFinite
<1>3. n - 1 \in Nat /\ n - 1 + 1 = n /\ (F \ {l.begin}) \union {l.begin} = F  BY <1>1
<1>4. Leading(Add(Got(l), l.begin), F, n)  BY <1>1, <1>3, AddLeading
<1> QED  BY <1>1, <1>2, <1>4, AddType DEF PutBack

\* The invariant of the pool holds at the start.
LEMMA InitPool == PoolInit => PoolInv
<1> SUFFICES ASSUME PoolInit PROVE PoolInv  OBVIOUS
<1>1. Open = {} /\ Paired = {}  BY DEF PoolInit, Open, Paired
<1>2. Cardinality({}) = 0  BY FS_EmptySet
<1>3. Size - 0 = Size /\ Ids \ {} = Ids  BY SizeAssumption
<1>4. ListType(tcp) /\ ListType(timer) /\ Leading(tcp, Ids, Size) /\ Leading(timer, Ids, Size)
  BY CreateLeading DEF PoolInit
<1> QED  BY <1>1, <1>2, <1>3, <1>4 DEF PoolInit, PoolInv, NoIndexes

\* Taking the first free id keeps it.
LEMMA StartKeeps == ASSUME PoolInv, AcceptStart PROVE PoolInv'
<1>1. Open' = Open /\ Paired' = Paired  BY DEF AcceptStart, Open, Paired
<1> QED  BY <1>1 DEF AcceptStart, PoolInv, NoIndexes

\* With no slot free there is nothing in front of the lists that could be spoilt.
LEMMA FullKeeps == ASSUME PoolInv, AcceptFull PROVE PoolInv'
<1>1. /\ UNCHANGED <<pair, current, last>> /\ accepting' = FALSE /\ current = Size
      /\ tcp' = PutBack(tcp, last.tcp) /\ timer' = PutBack(timer, last.timer)
  BY DEF AcceptFull
<1>2. Open' = Open /\ Paired' = Paired  BY <1>1 DEF Open, Paired
<1>3. Size - current = 0  BY <1>1, SizeAssumption
<1>4. Ids \ Open = {} /\ Ids \ Paired = {}  BY <1>3, NoneLeading DEF PoolInv
<1>5. Leading(tcp', Ids \ Open, 0) /\ Leading(timer', Ids \ Paired, 0)  BY <1>4, NoneLeading
<1>6. ListType(tcp') /\ ListType(timer')  BY <1>1, PutBackType DEF PoolInv
<1> QED  BY <1>1, <1>2, <1>3, <1>5, <1>6 DEF PoolInv

\* So does finding none.
LEMMA NoneKeeps == ASSUME PoolInv, AcceptNone PROVE PoolInv'
<1>1. /\ UNCHANGED <<pair, current, last>> /\ accepting' = FALSE /\ current # Size
      /\ CanGet(tcp) /\ CanGet(timer)
      /\ tcp' = PutBack(Got(tcp), tcp.begin) /\ timer' = PutBack(Got(timer), timer.begin)
  BY DEF AcceptNone, RoundIndexes
<1>2. Open' = Open /\ Paired' = Paired  BY <1>1 DEF Open, Paired
<1>3. Size - current \in Nat \ {0}  BY <1>1, OpenFinite, SizeAssumption DEF PoolInv
<1> DEFINE n == Size - current
<1>4. ListType(tcp) /\ ListType(timer) /\ Leading(tcp, Ids \ Open, n) /\ Leading(timer, Ids \ Paired, n)
  BY DEF PoolInv
<1> HIDE DEF n
<1>5. /\ ListType(tcp') /\ Leading(tcp', Ids \ Open, n)
      /\ ListType(timer') /\ Leading(timer', Ids \ Paired, n)
  BY <1>1, <1>3, <1>4, RoundTrip DEF n
<1> QED  BY <1>1, <1>2, <1>5 DEF PoolInv, n

\* So does an accepted connection.
LEMMA OkKeeps ==
  ASSUME PoolInv, AcceptOk
  PROVE  /\ PoolInv' /\ tcp.begin \in Ids \ Open /\ timer.begin \in Ids \ Paired
         /\ Open' = Open \union {tcp.begin} /\ Paired' = Paired \union {timer.begin}
<1> DEFINE i == tcp.begin
           k == timer.begin
           n == Size - current
<1>1. /\ UNCHANGED accepting /\ current # Size /\ CanGet(tcp) /\ CanGet(timer)
      /\ tcp' = Got(tcp) /\ timer' = Got(timer) /\ current' = current + 1
      /\ pair' = [pair EXCEPT ![i] = k] /\ last' = [tcp |-> i, timer |-> k]
  BY DEF AcceptOk
<1>2. n \in Nat \ {0} /\ current \in Nat  BY <1>1, OpenFinite, SizeAssumption DEF PoolInv
<1>3. ListType(tcp) /\ ListType(timer) /\ Leading(tcp, Ids \ Open, n) /\ Leading(timer, Ids \ Paired, n)
  BY DEF PoolInv
<1> HIDE DEF n
<1>4. /\ i \in Ids \ Open /\ Leading(tcp', (Ids \ Open) \ {i}, n - 1) /\ ListType(tcp')
      /\ k \in Ids \ Paired /\ Leading(timer', (Ids \ Paired) \ {k}, n - 1) /\ ListType(timer')
  BY <1>1, <1>2, <1>3, GotLeading
<1> HIDE DEF i, k
<1>5. \A j \in Ids : pair'[j] = IF j = i THEN k ELSE pair[j]
  BY <1>1 DEF PoolInv
<1>6. k # Null /\ Null \notin Ids  BY <1>4, IdsFinite
<1>7. Open' = Open \union {i}
  BY <1>4, <1>5, <1>6 DEF Open
<1>8. Paired' = Paired \union {k}
  <2>1. \A j \in Open' : pair'[j] = IF j = i THEN k ELSE pair[j]  BY <1>5 DEF Open
  <2>2. \A j \in Open : j # i  BY <1>4
  <2> QED  BY <1>7, <2>1, <2>2 DEF Paired
<1>9. /\ (Ids \ Open) \ {i} = Ids \ Open' /\ (Ids \ Paired) \ {k} = Ids \ Paired'
  BY <1>7, <1>8
<1>10. n - 1 = Size - current'  BY <1>1, <1>2, SizeAssumption DEF n
<1>11. current' = Cardinality(Open')
  BY <1>1, <1>4, <1>7, OpenFinite, FS_AddElement DEF PoolInv
<1>12. \A a, b \in Open' : pair'[a] = pair'[b] => a = b
  <2>1. \A a \in Open : pair[a] \in Paired  BY DEF Paired
  <2>2. \A a \in Open : a \in Ids /\ a # i /\ pair[a] # k  BY <1>4, <2>1 DEF Open
  <2> QED  BY <1>4, <1>5, <1>7, <2>2 DEF PoolInv
<1>13. pair' \in [Ids -> Ids \union {Null}] /\ last' \in [tcp : Ids \union {Null}, timer : Ids \union {Null}]
  BY <1>1, <1>4 DEF PoolInv
<1>14. PoolInv'
  BY <1>1, <1>4, <1>9, <1>10, <1>11, <1>12, <1>13 DEF PoolInv
<1> QED  BY <1>4, <1>7, <1>8, <1>14 DEF i, k

\* So does giving an id back.
LEMMA CloseKeeps ==
  ASSUME PoolInv, NEW i \in Ids, Close(i)
  PROVE  /\ PoolInv' /\ i \in Open /\ pair[i] \in Paired
         /\ Open' = Open \ {i} /\ Paired' = Paired \ {pair[i]}
<1> DEFINE k == pair[i]
           n == Size - current
<1>1. /\ UNCHANGED <<accepting, last>> /\ i \in Open /\ current' = current - 1
      /\ tcp' = Add(tcp, i) /\ timer' = Add(timer, k) /\ pair' = [pair EXCEPT ![i] = Null]
  BY DEF Close
<1>2. k \in Ids /\ k \in Paired  BY <1>1 DEF PoolInv, Open, Paired
<1>3. n \in Nat /\ current \in Nat \ {0}  BY <1>1, OpenFinite DEF PoolInv
<1>4. /\ ListType(tcp) /\ ListType(timer)
      /\ Leading(tcp, Ids \ Open, n) /\ Leading(timer, Ids \ Paired, n)
  BY DEF PoolInv
<1> HIDE DEF n, k
<1>5. /\ Leading(tcp', (Ids \ Open) \union {i}, n + 1) /\ ListType(tcp')
      /\ Leading(timer', (Ids \ Paired) \union {k}, n + 1) /\ ListType(timer')
  BY <1>1, <1>2, <1>3, <1>4, AddLeading, AddType
<1>6. \A j \in Ids : pair'[j] = IF j = i THEN Null ELSE pair[j]
  BY <1>1 DEF PoolInv
<1>7. Open' = Open \ {i}  BY <1>6 DEF Open
<1>8. Paired' = Paired \ {k}
  <2>1. \A j \in Open' : j \in Open /\ pair'[j] = pair[j] /\ pair[j] # k
    BY <1>1, <1>6, <1>7 DEF PoolInv, Open, k
  <2>2. \A j \in Open : pair[j] # k => j \in Open'  BY <1>7 DEF k
  <2> QED  BY <2>1, <2>2 DEF Paired
<1>9. (Ids \ Open) \union {i} = Ids \ Open' /\ (Ids \ Paired) \union {k} = Ids \ Paired'
  BY <1>1, <1>2, <1>7, <1>8
<1>10. n + 1 = Size - current'  BY <1>1, <1>3, SizeAssumption DEF n
<1>11. current' = Cardinality(Open')
  BY <1>1, <1>7, OpenFinite, FS_RemoveElement DEF PoolInv
<1>12. \A a, b \in Open' : pair'[a] = pair'[b] => a = b
  <2>1. \A a \in Open' : a \in Open /\ pair'[a] = pair[a]  BY <1>6, <1>7 DEF Open
  <2> QED  BY <2>1 DEF PoolInv
<1>13. pair' \in [Ids -> Ids \union {Null}]  BY <1>1 DEF PoolInv
<1>14. PoolInv'
  BY <1>1, <1>5, <1>9, <1>10, <1>11, <1>12, <1>13 DEF PoolInv
<1> QED  BY <1>1, <1>2, <1>7, <1>8, <1>14 DEF k

\* Every step keeps the invariant of the pool.
LEMMA PoolKeeps == ASSUME PoolInv, [PoolNext]_poolVars PROVE PoolInv'
<1>1. CASE UNCHANGED poolVars
  <2>1. Open' = Open /\ Paired' = Paired  BY <1>1 DEF poolVars, Open, Paired
  <2> QED  BY <1>1, <2>1 DEF poolVars, PoolInv
<1> QED  BY <1>1, StartKeeps, FullKeeps, NoneKeeps, OkKeeps, CloseKeeps DEF PoolNext
------------------------------------------------------------------------------
(***************************************************************************)
(* What the lists give.                                                    *)
(***************************************************************************)
NodeAt(l, k, f) == IF k = 0 THEN l.begin
                   ELSE IF f[k - 1] \in Ids THEN l.next[f[k - 1]] ELSE f[k - 1]

\* Chain is what its equation says.
LEMMA ChainUnfolds ==
  ASSUME NEW l, ListType(l)
  PROVE  /\ Chain(l)[0] = l.begin
         /\ \A k \in 1 .. Size :
              Chain(l)[k] = IF Chain(l)[k - 1] \in Ids THEN l.next[Chain(l)[k - 1]]
                            ELSE Chain(l)[k - 1]
<1>0. Size \in Nat /\ Size >= 2  BY SizeAssumption
<1> DEFINE A == 0 .. Size
           G == [q \in A \X [A -> Links] |-> NodeAt(l, q[1], q[2])]
           rank == [k \in A |-> k]
<1>1. rank \in [A -> Nat] /\ Links # {}  BY DEF Links
<1>2. G \in [A \X [A -> Links] -> Links]
  <2> SUFFICES ASSUME NEW k \in A, NEW f \in [A -> Links] PROVE NodeAt(l, k, f) \in Links
    OBVIOUS
  <2>1. k # 0 => f[k - 1] \in Links  BY <1>0
  <2> QED  BY <2>1 DEF NodeAt, ListType
<1>3. LooksBelow(G, A, Links, rank)
  <2> SUFFICES ASSUME NEW k \in A, NEW f \in [A -> Links], NEW g \in [A -> Links],
                      AgreeBelow(f, g, A, rank, rank[k])
               PROVE  NodeAt(l, k, f) = NodeAt(l, k, g)
    BY DEF LooksBelow
  <2>1. k # 0 => k - 1 \in A /\ rank[k - 1] < rank[k]  BY <1>0
  <2>2. k # 0 => f[k - 1] = g[k - 1]  BY <2>1 DEF AgreeBelow
  <2> QED  BY <2>2 DEF NodeAt
<1>4. Recursive(G, A, Links, rank)  BY <1>1, <1>2, <1>3 DEF Recursive
<1> HIDE DEF rank, G, A
<1>5. PICK f \in [A -> Links] : \A k \in A : f[k] = G[<<k, f>>]
  BY <1>4, RecursiveFunctionExists
<1>6. f = [k \in A |-> NodeAt(l, k, f)]  BY <1>5 DEF G
<1> DEFINE Eq(at) == at = [k \in A |-> NodeAt(l, k, at)]
           c == CHOOSE at : Eq(at)
<1>7. Eq(c)  BY <1>6
<1>8. Chain(l) = c  BY DEF Chain, NodeAt, A
<1> HIDE DEF c
<1>9. 0 \in A /\ \A k \in 1 .. Size : k \in A /\ k # 0  BY <1>0 DEF A
<1>10. c[0] = NodeAt(l, 0, c) /\ \A k \in 1 .. Size : c[k] = NodeAt(l, k, c)
  BY <1>7, <1>9
<1> QED  BY <1>8, <1>9, <1>10 DEF NodeAt

\* A walk over the links passes the nodes in front.
LEMMA FirstOfLeading ==
  ASSUME NEW l, ListType(l), NEW F, NEW n \in 0 .. Size, Leading(l, F, n)
  PROVE  FirstOf(l, n) = F
<1>1. PICK c : Follows(c, l, F, n)  BY DEF Leading
<1> DEFINE S == {k \in Nat : k < n => Chain(l)[k] = c[k]}
<1>2. 0 \in S  BY <1>1, ChainUnfolds DEF Follows
<1>3. ASSUME NEW k \in Nat, k \in S PROVE k + 1 \in S
  <2> SUFFICES ASSUME k + 1 < n PROVE Chain(l)[k + 1] = c[k + 1]  OBVIOUS
  <2>1. k + 1 \in 1 .. Size /\ k + 1 - 1 = k /\ k \in 0 .. n - 2 /\ k \in 0 .. n - 1 /\ k < n
    BY SizeAssumption
  <2>2. Chain(l)[k] = c[k]  BY <1>3, <2>1
  <2>3. c[k] \in Ids /\ l.next[c[k]] = c[k + 1]  BY <1>1, <2>1 DEF Follows
  <2> QED  BY <2>1, <2>2, <2>3, ChainUnfolds
<1> HIDE DEF S
<1>4. \A k \in Nat : k \in S  BY <1>2, <1>3, Induction
<1>5. \A k \in 0 .. n - 1 : Chain(l)[k] = c[k]  BY <1>4 DEF S
<1>6. FirstOf(l, n) = {c[k] : k \in 0 .. n - 1}  BY <1>5 DEF FirstOf
<1>7. {c[k] : k \in 0 .. n - 1} = F  BY <1>1 DEF Follows
<1> QED  BY <1>6, <1>7

\* What is free is in front of the list.
LEMMA FreeAreFirst == PoolInv => FreeInFront
<1> SUFFICES ASSUME PoolInv PROVE FreeInFront  OBVIOUS
<1>1. Size - current \in 0 .. Size  BY OpenFinite, SizeAssumption DEF PoolInv
<1> QED  BY <1>1, FirstOfLeading DEF PoolInv, FreeInFront, Paired

\* The invariant holds in every reachable state.
LEMMA PoolInvariance == PoolSpec => []PoolInv
BY InitPool, PoolKeeps, PTL DEF PoolSpec

\* For any capacity, and however often a full server has put back ids that live
\* connections use: while slots are free the lists begin with exactly the free ones,
\* each once, and go no other way before they are used up.
THEOREM FreeInFrontSafe == PoolSpec => []FreeInFront
BY FreeAreFirst, PoolInvariance, PTL

\* An accept takes an id of each list, a close puts them back, no other step moves one.
LEMMA PoolMoves ==
  ASSUME PoolInv, [PoolNext]_poolVars
  PROVE  \/ Open' = Open /\ Paired' = Paired
         \/ \E i \in Ids \ Open, k \in Ids \ Paired :
              Open' = Open \union {i} /\ Paired' = Paired \union {k}
         \/ \E i \in Open, k \in Paired : Open' = Open \ {i} /\ Paired' = Paired \ {k}
<1>1. CASE AcceptStart \/ AcceptFull \/ AcceptNone \/ UNCHANGED poolVars
  <2>1. pair' = pair  BY <1>1 DEF AcceptStart, AcceptFull, AcceptNone, poolVars
  <2> QED  BY <2>1 DEF Open, Paired
<1>2. CASE AcceptOk  BY <1>2, OkKeeps
<1>3. ASSUME NEW i \in Ids, Close(i)
      PROVE  \E a \in Open, k \in Paired : Open' = Open \ {a} /\ Paired' = Paired \ {k}
  BY <1>3, CloseKeeps
<1> QED  BY <1>1, <1>2, <1>3 DEF PoolNext

\* Every step of the list is a step of the pool it promises, or none.
LEMMA PoolSteps ==
  ASSUME PoolInv, FreeInFront, FreeInFront', [PoolNext]_poolVars
  PROVE  /\ [Slots!Next]_<<FirstOf(tcp, Size - current), Open>>
         /\ [Timers!Next]_<<FirstOf(timer, Size - current), {pair[i] : i \in Open}>>
<1> DEFINE F == FirstOf(tcp, Size - current)
           T == FirstOf(timer, Size - current)
           O == Open
           P == Paired
<1>1. F = Ids \ O /\ T = Ids \ P /\ F' = Ids \ O' /\ T' = Ids \ P'
  BY DEF FreeInFront, Paired
<1>2. O \subseteq Ids /\ P \subseteq Ids  BY DEF PoolInv, Open, Paired
<1>3. P = {pair[i] : i \in Open}  BY DEF Paired
<1>4. \/ O' = O /\ P' = P
      \/ \E i \in Ids \ O, k \in Ids \ P : O' = O \union {i} /\ P' = P \union {k}
      \/ \E i \in O, k \in P : O' = O \ {i} /\ P' = P \ {k}
  BY PoolMoves
<1> HIDE DEF F, T, O, P
<1>5. \/ F' = F /\ O' = O
      \/ \E i \in F : F' = F \ {i} /\ O' = O \union {i}
      \/ \E i \in O : F' = F \union {i} /\ O' = O \ {i}
  BY <1>1, <1>2, <1>4
<1>6. \/ T' = T /\ P' = P
      \/ \E k \in T : T' = T \ {k} /\ P' = P \union {k}
      \/ \E k \in P : T' = T \union {k} /\ P' = P \ {k}
  BY <1>1, <1>2, <1>4
<1>7. [Slots!Next]_<<F, O>>
  BY <1>5 DEF Slots!Next, Slots!Take, Slots!Put, F, O
<1>8. [Timers!Next]_<<T, P>>
  BY <1>6 DEF Timers!Next, Timers!Take, Timers!Put, T, P, Paired
<1> QED  BY <1>3, <1>7, <1>8 DEF F, T, O, P, Paired

\* The initial states of the list are those of the pool.
LEMMA PoolBegins ==
  ASSUME PoolInit, FreeInFront
  PROVE  Slots!Init /\ Timers!Init
<1>1. Open = {} /\ Paired = {}  BY DEF PoolInit, Open, Paired
<1> QED  BY <1>1 DEF FreeInFront, Paired, Slots!Init, Timers!Init, Slots!Ids, Timers!Ids, Ids

\* The two id lists are what ds/id_list.h promises, pools of numbers of which none is
\* given out twice before it is back, although the links hold more than that.
THEOREM ListsImplement == PoolSpec => ListsArePools
<1>1. PoolInit /\ FreeInFront => Slots!Init /\ Timers!Init
  BY PoolBegins
<1>2. PoolInv /\ FreeInFront /\ FreeInFront' /\ [PoolNext]_poolVars
        => /\ [Slots!Next]_<<FirstOf(tcp, Size - current), Open>>
           /\ [Timers!Next]_<<FirstOf(timer, Size - current), {pair[i] : i \in Open}>>
  BY PoolSteps
<1> QED  BY <1>1, <1>2, PoolInvariance, FreeInFrontSafe, PTL
         DEF PoolSpec, ListsArePools, Slots!Spec, Timers!Spec
------------------------------------------------------------------------------
(***************************************************************************)
(* Linked lists: what the operations do to the links.                      *)
(***************************************************************************)
Ptrs == Nodes \union {Nil, Garbage}
MemType(s) ==
  s \in [begin : [Lists -> Ptrs], end : [Lists -> Ptrs],
         next : [Nodes -> Ptrs], prev : [Nodes -> Ptrs]]

\* A list of nodes, none twice; before its first and behind its last one is Nil.
Distinct(q) == q \in Seq(Nodes) /\ \A j, k \in 1 .. Len(q) : q[j] = q[k] => j = k
At(q, k) == IF k \in 1 .. Len(q) THEN q[k] ELSE Nil

\* The memory holds q as the list l.
Holds(s, l, q) ==
  /\ s.begin[l] = At(q, 1) /\ s.end[l] = At(q, Len(q))
  /\ \A k \in 1 .. Len(q) : s.next[q[k]] = At(q, k + 1) /\ s.prev[q[k]] = At(q, k - 1)

\* t is s with n linked behind the first k nodes of l, and nothing else changed.
LinkedIn(t, s, l, q, k, n) ==
  /\ MemType(t)
  /\ \A x \in Lists : /\ t.begin[x] = IF x = l /\ k = 0 THEN n ELSE s.begin[x]
                      /\ t.end[x] = IF x = l /\ k = Len(q) THEN n ELSE s.end[x]
  /\ \A x \in Nodes :
       /\ t.next[x] = IF x = n THEN At(q, k + 1)
                      ELSE IF x = At(q, k) THEN n ELSE s.next[x]
       /\ t.prev[x] = IF x = n THEN At(q, k)
                      ELSE IF x = At(q, k + 1) THEN n ELSE s.prev[x]

\* t is s with the node at place k taken out of l, and nothing else changed.
TakenOut(t, s, l, q, k) ==
  /\ MemType(t)
  /\ \A x \in Lists : /\ t.begin[x] = IF x = l /\ k = 1 THEN At(q, 2) ELSE s.begin[x]
                      /\ t.end[x] = IF x = l /\ k = Len(q) THEN At(q, Len(q) - 1) ELSE s.end[x]
  /\ \A x \in Nodes :
       /\ t.next[x] = IF x = q[k] THEN Nil
                      ELSE IF x = At(q, k - 1) THEN At(q, k + 1) ELSE s.next[x]
       /\ t.prev[x] = IF x = q[k] THEN Nil
                      ELSE IF x = At(q, k + 1) THEN At(q, k - 1) ELSE s.prev[x]

\* r is q with n behind the first k elements, and q without element k.
Longer(r, q, k, n) ==
  /\ r \in Seq(Nodes) /\ Len(r) = Len(q) + 1
  /\ \A j \in 1 .. Len(q) + 1 :
       r[j] = IF j <= k THEN q[j] ELSE IF j = k + 1 THEN n ELSE q[j - 1]
Shorter(r, q, k) ==
  /\ r \in Seq(Nodes) /\ Len(r) = Len(q) - 1
  /\ \A j \in 1 .. Len(q) - 1 : r[j] = IF j < k THEN q[j] ELSE q[j + 1]

\* Nodes are finitely many, and no pointer.
LEMMA NodeFacts == IsFiniteSet(Nodes) /\ Nil \notin Nodes /\ Garbage \notin Nodes /\ Nil # Garbage
BY NodesAssumption DEF Nil, Garbage

\* Where a node stands in a list.
LEMMA AtFacts ==
  ASSUME NEW q, Distinct(q)
  PROVE  /\ Len(q) \in Nat /\ \A k \in 1 .. Len(q) : q[k] \in Nodes
         /\ \A k \in Int : At(q, k) = IF 1 <= k /\ k <= Len(q) THEN q[k] ELSE Nil
         /\ \A k \in Int : At(q, k) \in Nodes <=> k \in 1 .. Len(q)
         /\ \A j, k \in Int : At(q, j) = At(q, k) /\ At(q, j) \in Nodes => j = k
<1>1. Len(q) \in Nat /\ \A k \in 1 .. Len(q) : q[k] \in Nodes  BY DEF Distinct
<1>2. \A k \in Int : At(q, k) \in Nodes <=> k \in 1 .. Len(q)  BY <1>1, NodeFacts DEF At
<1>3. \A j, k \in Int : At(q, j) = At(q, k) /\ At(q, j) \in Nodes => j = k
  BY <1>1, <1>2 DEF At, Distinct
<1> QED  BY <1>1, <1>2, <1>3 DEF At

\* A node that is not in the list is linked in between two places.
LEMMA LinkIn ==
  ASSUME NEW s, NEW t, NEW l \in Lists, NEW q, Distinct(q), Holds(s, l, q), NEW k \in 0 .. Len(q),
         NEW n \in Nodes, \A j \in 1 .. Len(q) : q[j] # n,
         LinkedIn(t, s, l, q, k, n), NEW r, Longer(r, q, k, n)
  PROVE  Distinct(r) /\ Holds(t, l, r)
<1>0. Len(q) \in Nat /\ k \in Nat /\ k <= Len(q) /\ Len(r) = Len(q) + 1  BY AtFacts DEF Longer
<1>1. \A j \in 1 .. Len(q) + 1 : r[j] = IF j <= k THEN q[j] ELSE IF j = k + 1 THEN n ELSE q[j - 1]
  BY DEF Longer
<1>2. Distinct(r)
  <2> DEFINE p(j) == IF j <= k THEN j ELSE j - 1
  <2>1. \A j \in 1 .. Len(r) : j # k + 1 => p(j) \in 1 .. Len(q) /\ r[j] = q[p(j)]
    BY <1>0, <1>1
  <2>2. \A i, j \in 1 .. Len(r) : i # k + 1 /\ j # k + 1 /\ p(i) = p(j) => i = j
    BY <1>0
  <2>3. r[k + 1] = n  BY <1>0, <1>1
  <2> HIDE DEF p
  <2> SUFFICES ASSUME NEW i \in 1 .. Len(r), NEW j \in 1 .. Len(r), r[i] = r[j] PROVE i = j
    BY DEF Longer, Distinct
  <2>4. CASE i # k + 1 /\ j # k + 1
    <3>1. p(i) \in 1 .. Len(q) /\ p(j) \in 1 .. Len(q) /\ q[p(i)] = q[p(j)]  BY <2>1, <2>4
    <3>2. p(i) = p(j)  BY <3>1 DEF Distinct
    <3> QED  BY <2>2, <2>4, <3>2
  <2> QED  BY <2>1, <2>3, <2>4
<1>3. t.begin[l] = At(r, 1)
  BY <1>0, <1>1 DEF LinkedIn, Holds, At
<1>4. t.end[l] = At(r, Len(r))
  BY <1>0, <1>1 DEF LinkedIn, Holds, At
<1>5. ASSUME NEW j \in 1 .. Len(r) PROVE t.next[r[j]] = At(r, j + 1) /\ t.prev[r[j]] = At(r, j - 1)
  <2>1. CASE j <= k
    <3>1. r[j] = q[j] /\ j \in 1 .. Len(q) /\ q[j] # n /\ q[j] \in Nodes
      BY <1>0, <1>1, <2>1, AtFacts
    <3>2. q[j] = At(q, k) <=> j = k
      BY <1>0, <3>1, AtFacts, NodeFacts DEF At, Distinct
    <3>3. q[j] # At(q, k + 1)
      BY <1>0, <2>1, <3>1, AtFacts, NodeFacts DEF At, Distinct
    <3>4. t.next[q[j]] = IF j = k THEN n ELSE At(q, j + 1)
      BY <3>1, <3>2 DEF LinkedIn, Holds
    <3>5. t.prev[q[j]] = At(q, j - 1)
      BY <3>1, <3>3 DEF LinkedIn, Holds
    <3>6. At(r, j + 1) = IF j = k THEN n ELSE At(q, j + 1)
      BY <1>0, <1>1, <2>1 DEF At
    <3>7. At(r, j - 1) = At(q, j - 1)
      BY <1>0, <1>1, <2>1 DEF At
    <3> QED  BY <3>1, <3>4, <3>5, <3>6, <3>7
  <2>2. CASE j = k + 1
    <3>1. r[j] = n  BY <1>0, <1>1, <2>2
    <3>2. At(r, j + 1) = At(q, k + 1) /\ At(r, j - 1) = At(q, k)
      BY <1>0, <1>1, <2>2 DEF At
    <3> QED  BY <3>1, <3>2 DEF LinkedIn
  <2>3. CASE j > k + 1
    <3>1. r[j] = q[j - 1] /\ j - 1 \in 1 .. Len(q) /\ q[j - 1] # n /\ q[j - 1] \in Nodes
      BY <1>0, <1>1, <2>3, AtFacts
    <3>2. q[j - 1] = At(q, k + 1) <=> j - 1 = k + 1
      BY <1>0, <2>3, <3>1, AtFacts, NodeFacts DEF At, Distinct
    <3>3. q[j - 1] # At(q, k)
      BY <1>0, <2>3, <3>1, AtFacts, NodeFacts DEF At, Distinct
    <3>4. t.next[q[j - 1]] = At(q, j - 1 + 1)
      BY <3>1, <3>3 DEF LinkedIn, Holds
    <3>5. t.prev[q[j - 1]] = IF j - 1 = k + 1 THEN n ELSE At(q, j - 1 - 1)
      BY <3>1, <3>2 DEF LinkedIn, Holds
    <3>6. At(r, j + 1) = At(q, j - 1 + 1)
      <4>1. j - 1 + 1 = j /\ (j + 1 \in 1 .. Len(r) <=> j \in 1 .. Len(q))
        BY <1>0
      <4>2. j \in 1 .. Len(q) => r[j + 1] = q[j]
        <5> SUFFICES ASSUME j \in 1 .. Len(q) PROVE r[j + 1] = q[j]  OBVIOUS
        <5>1. /\ j + 1 \in 1 .. Len(q) + 1 /\ ~ (j + 1 <= k) /\ j + 1 # k + 1
              /\ j + 1 - 1 = j
          BY <1>0, <2>3
        <5> QED  BY <1>1, <5>1
      <4> QED  BY <4>1, <4>2 DEF At
    <3>7. At(r, j - 1) = IF j - 1 = k + 1 THEN n ELSE At(q, j - 1 - 1)
      BY <1>0, <1>1, <2>3 DEF At
    <3> QED  BY <3>1, <3>4, <3>5, <3>6, <3>7
  <2> QED  BY <1>0, <2>1, <2>2, <2>3
<1> QED  BY <1>2, <1>3, <1>4, <1>5 DEF Holds

\* A node of the list is linked out.
LEMMA LinkOut ==
  ASSUME NEW s, NEW t, NEW l \in Lists, NEW q, Distinct(q), Holds(s, l, q), NEW k \in 1 .. Len(q),
         TakenOut(t, s, l, q, k), NEW r, Shorter(r, q, k)
  PROVE  Distinct(r) /\ Holds(t, l, r) /\ \A j \in 1 .. Len(r) : r[j] # q[k]
<1>0. Len(q) \in Nat /\ k \in Nat /\ k >= 1 /\ k <= Len(q) /\ Len(r) = Len(q) - 1
  BY AtFacts DEF Shorter
<1>1. \A j \in 1 .. Len(q) - 1 : r[j] = IF j < k THEN q[j] ELSE q[j + 1]  BY DEF Shorter
<1> DEFINE p(j) == IF j < k THEN j ELSE j + 1
<1>2. \A j \in 1 .. Len(r) : p(j) \in 1 .. Len(q) /\ r[j] = q[p(j)] /\ p(j) # k
  BY <1>0, <1>1
<1>3. \A i, j \in 1 .. Len(r) : p(i) = p(j) => i = j  BY <1>0
<1>4. Distinct(r) /\ \A j \in 1 .. Len(r) : r[j] # q[k]
  <2> HIDE DEF p
  <2>1. \A j \in 1 .. Len(r) : r[j] # q[k]  BY <1>2 DEF Distinct
  <2>2. ASSUME NEW i \in 1 .. Len(r), NEW j \in 1 .. Len(r), r[i] = r[j] PROVE i = j
    <3>1. p(i) = p(j)  BY <1>2, <2>2 DEF Distinct
    <3> QED  BY <1>3, <3>1
  <2> QED  BY <2>1, <2>2 DEF Distinct, Shorter
<1>5. t.begin[l] = At(r, 1)
  BY <1>0, <1>1 DEF TakenOut, Holds, At
<1>6. t.end[l] = At(r, Len(r))
  BY <1>0, <1>1 DEF TakenOut, Holds, At
<1>7. ASSUME NEW j \in 1 .. Len(r) PROVE t.next[r[j]] = At(r, j + 1) /\ t.prev[r[j]] = At(r, j - 1)
  <2> DEFINE i == p(j)
  <2>1. i \in 1 .. Len(q) /\ r[j] = q[i] /\ i # k /\ q[i] \in Nodes /\ q[i] # q[k]
    <3>1. i \in 1 .. Len(q) /\ r[j] = q[i] /\ i # k  BY <1>2
    <3> HIDE DEF i
    <3> QED  BY <3>1, AtFacts DEF Distinct
  <2>2. q[i] = At(q, k - 1) <=> i = k - 1
    <3> HIDE DEF i
    <3> QED  BY <1>0, <2>1, NodeFacts DEF At, Distinct
  <2>3. q[i] = At(q, k + 1) <=> i = k + 1
    <3> HIDE DEF i
    <3> QED  BY <1>0, <2>1, NodeFacts DEF At, Distinct
  <2>4. t.next[q[i]] = IF i = k - 1 THEN At(q, k + 1) ELSE At(q, i + 1)
    <3> HIDE DEF i
    <3> QED  BY <2>1, <2>2 DEF TakenOut, Holds
  <2>5. t.prev[q[i]] = IF i = k + 1 THEN At(q, k - 1) ELSE At(q, i - 1)
    <3> HIDE DEF i
    <3> QED  BY <2>1, <2>3 DEF TakenOut, Holds
  <2>6. At(r, j + 1) = IF i = k - 1 THEN At(q, k + 1) ELSE At(q, i + 1)
    BY <1>0, <1>1 DEF At
  <2>7. At(r, j - 1) = IF i = k + 1 THEN At(q, k - 1) ELSE At(q, i - 1)
    BY <1>0, <1>1 DEF At
  <2> QED  BY <2>1, <2>4, <2>5, <2>6, <2>7
<1> QED  BY <1>4, <1>5, <1>6, <1>7 DEF Holds

\* Another list stays as it was.
LEMMA OthersHold ==
  ASSUME NEW s, NEW t, NEW l, NEW q, Holds(s, l, q),
         t.begin[l] = s.begin[l], t.end[l] = s.end[l],
         \A k \in 1 .. Len(q) : t.next[q[k]] = s.next[q[k]] /\ t.prev[q[k]] = s.prev[q[k]]
  PROVE  Holds(t, l, q)
BY DEF Holds

\* What is known of a list that is held.
LEMMA HeldFacts ==
  ASSUME NEW s, MemType(s), NEW l \in Lists, NEW q, Distinct(q), Holds(s, l, q)
  PROVE  /\ Nil \in Ptrs /\ Nodes \subseteq Ptrs /\ Len(q) \in Nat
         /\ s.begin[l] = Nil <=> Len(q) = 0
         /\ s.end[l] = Nil <=> Len(q) = 0
         /\ Len(q) > 0 => s.begin[l] = q[1] /\ s.end[l] = q[Len(q)]
                          /\ q[1] \in Nodes /\ q[Len(q)] \in Nodes
         /\ s.begin[l] = s.end[l] <=> Len(q) <= 1
<1>1. Len(q) \in Nat /\ s.begin[l] = At(q, 1) /\ s.end[l] = At(q, Len(q))
  BY AtFacts DEF Holds
<1>2. Len(q) > 0 => 1 \in 1 .. Len(q) /\ Len(q) \in 1 .. Len(q)  BY <1>1
<1>3. Len(q) > 0 => q[1] \in Nodes /\ q[Len(q)] \in Nodes  BY <1>2, AtFacts
<1>4. Len(q) > 0 => (q[1] = q[Len(q)] <=> Len(q) = 1)  BY <1>1, <1>2 DEF Distinct
<1> QED  BY <1>1, <1>2, <1>3, <1>4, NodeFacts DEF At, Ptrs

\* The operations that insert link the node in at their place.
LEMMA FrontLinks ==
  ASSUME NEW s, MemType(s), NEW l \in Lists, NEW q, Distinct(q), Holds(s, l, q),
         NEW n \in Nodes, \A j \in 1 .. Len(q) : q[j] # n
  PROVE  LinkedIn(Front(s, l, n), s, l, q, 0, n)
<1> DEFINE t == Front(s, l, n)
<1>0. /\ Nil \in Ptrs /\ n \in Ptrs /\ Len(q) \in Nat
      /\ s.begin[l] = Nil <=> Len(q) = 0
      /\ s.end[l] = Nil <=> Len(q) = 0
      /\ Len(q) > 0 => s.begin[l] = q[1] /\ q[1] \in Nodes
  BY HeldFacts
<1>1. CASE Len(q) = 0
  <2>1. t = [s EXCEPT !.begin[l] = n, !.end[l] = n, !.prev[n] = Nil, !.next[n] = Nil]
    BY <1>0, <1>1 DEF Front
  <2> HIDE DEF t
  <2>2. MemType(t)  BY <1>0, <2>1 DEF MemType
  <2>3. /\ t.begin = [s.begin EXCEPT ![l] = n] /\ t.end = [s.end EXCEPT ![l] = n]
        /\ t.next = [s.next EXCEPT ![n] = Nil] /\ t.prev = [s.prev EXCEPT ![n] = Nil]
    BY <2>1 DEF MemType
  <2>4. At(q, 0) = Nil /\ At(q, 0 + 1) = Nil  BY <1>1 DEF At
  <2> QED  BY <1>1, <2>2, <2>3, <2>4, NodeFacts DEF LinkedIn, MemType, t
<1>2. CASE Len(q) # 0
  <2> DEFINE b == s.begin[l]
  <2>1. t = [s EXCEPT !.begin[l] = n, !.next[n] = b, !.prev[b] = n, !.prev[n] = Nil]
    BY <1>0, <1>2 DEF Front
  <2>2. b \in Nodes /\ b \in Ptrs /\ b = At(q, 1) /\ b # n
    BY <1>0, <1>2 DEF Ptrs, At
  <2> HIDE DEF t, b
  <2>3. MemType(t)  BY <1>0, <2>1, <2>2 DEF MemType
  <2>4. /\ t.begin = [s.begin EXCEPT ![l] = n] /\ t.end = s.end
        /\ t.next = [s.next EXCEPT ![n] = b]
        /\ t.prev = [[s.prev EXCEPT ![b] = n] EXCEPT ![n] = Nil]
    BY <2>1 DEF MemType
  <2>5. At(q, 0) = Nil /\ At(q, 0 + 1) = b /\ 0 # Len(q)  BY <1>0, <1>2, <2>2 DEF At
  <2> QED  BY <2>2, <2>3, <2>4, <2>5, NodeFacts DEF LinkedIn, MemType, t
<1> QED  BY <1>1, <1>2

\* The link back of a node in a sound list.
LEMMA BackLinks ==
  ASSUME NEW s, MemType(s), NEW l \in Lists, NEW q, Distinct(q), Holds(s, l, q),
         NEW n \in Nodes, \A j \in 1 .. Len(q) : q[j] # n
  PROVE  LinkedIn(Back(s, l, n), s, l, q, Len(q), n)
<1> DEFINE t == Back(s, l, n)
<1>0. /\ Nil \in Ptrs /\ n \in Ptrs /\ Len(q) \in Nat
      /\ s.begin[l] = Nil <=> Len(q) = 0
      /\ s.end[l] = Nil <=> Len(q) = 0
      /\ Len(q) > 0 => s.end[l] = q[Len(q)] /\ q[Len(q)] \in Nodes
  BY HeldFacts
<1>1. CASE Len(q) = 0
  <2>1. t = [s EXCEPT !.begin[l] = n, !.end[l] = n, !.prev[n] = Nil, !.next[n] = Nil]
    BY <1>0, <1>1 DEF Back
  <2> HIDE DEF t
  <2>2. MemType(t)  BY <1>0, <2>1 DEF MemType
  <2>3. /\ t.begin = [s.begin EXCEPT ![l] = n] /\ t.end = [s.end EXCEPT ![l] = n]
        /\ t.next = [s.next EXCEPT ![n] = Nil] /\ t.prev = [s.prev EXCEPT ![n] = Nil]
    BY <2>1 DEF MemType
  <2>4. At(q, Len(q)) = Nil /\ At(q, Len(q) + 1) = Nil  BY <1>1 DEF At
  <2> QED  BY <1>1, <2>2, <2>3, <2>4, NodeFacts DEF LinkedIn, MemType, t
<1>2. CASE Len(q) # 0
  <2> DEFINE e == s.end[l]
  <2>1. t = [s EXCEPT !.end[l] = n, !.next[e] = n, !.prev[n] = e, !.next[n] = Nil]
    BY <1>0, <1>2 DEF Back
  <2>2. e \in Nodes /\ e \in Ptrs /\ e = At(q, Len(q)) /\ e # n
    BY <1>0, <1>2 DEF Ptrs, At
  <2> HIDE DEF t, e
  <2>3. MemType(t)  BY <1>0, <2>1, <2>2 DEF MemType
  <2>4. /\ t.begin = s.begin /\ t.end = [s.end EXCEPT ![l] = n]
        /\ t.next = [[s.next EXCEPT ![e] = n] EXCEPT ![n] = Nil]
        /\ t.prev = [s.prev EXCEPT ![n] = e]
    BY <2>1 DEF MemType
  <2>5. At(q, Len(q) + 1) = Nil  BY <1>0 DEF At
  <2> QED  BY <1>2, <2>2, <2>3, <2>4, <2>5, NodeFacts DEF LinkedIn, MemType, t
<1> QED  BY <1>1, <1>2

\* What list_insert_after_imple writes.
LEMMA AfterLinks ==
  ASSUME NEW s, MemType(s), NEW l \in Lists, NEW q, Distinct(q), Holds(s, l, q),
         NEW n \in Nodes, \A j \in 1 .. Len(q) : q[j] # n, NEW k \in 1 .. Len(q)
  PROVE  LinkedIn(After(s, l, n, q[k]), s, l, q, k, n)
<1> DEFINE t == After(s, l, n, q[k])
           i == q[k]
<1>0. /\ Nil \in Ptrs /\ n \in Ptrs /\ Len(q) \in Nat /\ Nodes \subseteq Ptrs
      /\ s.end[l] = q[Len(q)] /\ i \in Nodes
  BY HeldFacts, AtFacts
<1>1. CASE k = Len(q)
  <2>1. t = Back(s, l, n)  BY <1>0, <1>1 DEF After
  <2> QED  BY <1>1, <2>1, BackLinks
<1>2. CASE k # Len(q)
  <2> DEFINE x == s.next[i]
  <2>1. k + 1 \in 1 .. Len(q) /\ i # q[Len(q)] /\ x = q[k + 1] /\ x \in Nodes /\ x # i
    <3>1. k + 1 \in 1 .. Len(q) /\ Len(q) \in 1 .. Len(q) /\ k + 1 # k  BY <1>0, <1>2
    <3>2. x = At(q, k + 1)  BY DEF Holds
    <3>3. x = q[k + 1] /\ q[k + 1] \in Nodes  BY <3>1, <3>2, AtFacts DEF At
    <3> QED  BY <1>2, <3>1, <3>3 DEF Distinct
  <2>2. t = [s EXCEPT !.next[n] = x, !.prev[n] = i, !.prev[x] = n, !.next[i] = n]
    BY <1>0, <2>1 DEF After
  <2>3. i = At(q, k) /\ x = At(q, k + 1) /\ x # n /\ i # n /\ k # 0  BY <2>1 DEF At
  <2> HIDE DEF t, x, i
  <2>4. MemType(t)  BY <1>0, <2>1, <2>2 DEF MemType
  <2>5. /\ t.begin = s.begin /\ t.end = s.end
        /\ t.next = [[s.next EXCEPT ![n] = x] EXCEPT ![i] = n]
        /\ t.prev = [[s.prev EXCEPT ![n] = i] EXCEPT ![x] = n]
    BY <2>2 DEF MemType
  <2> QED  BY <1>0, <1>2, <2>1, <2>3, <2>4, <2>5 DEF LinkedIn, MemType, t
<1> QED  BY <1>1, <1>2

\* What list_insert_before_imple writes.
LEMMA BeforeLinks ==
  ASSUME NEW s, MemType(s), NEW l \in Lists, NEW q, Distinct(q), Holds(s, l, q),
         NEW n \in Nodes, \A j \in 1 .. Len(q) : q[j] # n, NEW k \in 1 .. Len(q)
  PROVE  LinkedIn(Before(s, l, n, q[k]), s, l, q, k - 1, n)
<1> DEFINE t == Before(s, l, n, q[k])
           i == q[k]
<1>0. /\ Nil \in Ptrs /\ n \in Ptrs /\ Len(q) \in Nat /\ Nodes \subseteq Ptrs
      /\ s.begin[l] = q[1] /\ i \in Nodes
  BY HeldFacts, AtFacts
<1>1. CASE k = 1
  <2>1. t = Front(s, l, n) /\ k - 1 = 0  BY <1>0, <1>1 DEF Before
  <2> QED  BY <2>1, FrontLinks
<1>2. CASE k # 1
  <2> DEFINE x == s.prev[i]
  <2>1. k - 1 \in 1 .. Len(q) /\ i # q[1] /\ x = q[k - 1] /\ x \in Nodes /\ x # i
    <3>1. k - 1 \in 1 .. Len(q) /\ 1 \in 1 .. Len(q) /\ k - 1 # k  BY <1>0, <1>2
    <3>2. x = At(q, k - 1)  BY DEF Holds
    <3>3. x = q[k - 1] /\ q[k - 1] \in Nodes  BY <3>1, <3>2, AtFacts DEF At
    <3> QED  BY <1>2, <3>1, <3>3 DEF Distinct
  <2>2. t = [s EXCEPT !.next[n] = i, !.prev[n] = x, !.next[x] = n, !.prev[i] = n]
    BY <1>0, <2>1 DEF Before
  <2>3. /\ i = At(q, k - 1 + 1) /\ x = At(q, k - 1) /\ x # n /\ i # n
        /\ k - 1 # 0 /\ k - 1 # Len(q)
    BY <1>0, <1>2, <2>1 DEF At
  <2> HIDE DEF t, x, i
  <2>4. MemType(t)  BY <1>0, <2>1, <2>2 DEF MemType
  <2>5. /\ t.begin = s.begin /\ t.end = s.end
        /\ t.next = [[s.next EXCEPT ![n] = i] EXCEPT ![x] = n]
        /\ t.prev = [[s.prev EXCEPT ![n] = x] EXCEPT ![i] = n]
    BY <2>2 DEF MemType
  <2> QED  BY <1>0, <2>1, <2>3, <2>4, <2>5 DEF LinkedIn, MemType, t
<1> QED  BY <1>1, <1>2

\* The operations that delete take their node out.
LEMMA EmptiedTakes ==
  ASSUME NEW s, MemType(s), NEW l \in Lists, NEW q, Distinct(q), Holds(s, l, q), Len(q) = 1
  PROVE  TakenOut(Emptied(s, l), s, l, q, 1)
<1> DEFINE t == Emptied(s, l)
           b == s.begin[l]
<1>1. Nil \in Ptrs /\ b = q[1] /\ b \in Nodes  BY HeldFacts
<1>2. t = [s EXCEPT !.next[b] = Nil, !.prev[b] = Nil, !.begin[l] = Nil, !.end[l] = Nil]
  BY DEF Emptied, Cleared
<1> HIDE DEF t, b
<1>3. MemType(t)  BY <1>1, <1>2 DEF MemType
<1>4. /\ t.begin = [s.begin EXCEPT ![l] = Nil] /\ t.end = [s.end EXCEPT ![l] = Nil]
      /\ t.next = [s.next EXCEPT ![b] = Nil] /\ t.prev = [s.prev EXCEPT ![b] = Nil]
  BY <1>2 DEF MemType
<1>5. \A k \in Int : k # 1 => At(q, k) = Nil  BY DEF At
<1>6. At(q, 1 - 1) = Nil /\ At(q, 1 + 1) = Nil /\ At(q, 2) = Nil /\ At(q, Len(q) - 1) = Nil
  BY <1>5
<1> QED  BY <1>1, <1>3, <1>4, <1>6, NodeFacts DEF TakenOut, MemType, t

\* A list has one node or several.
LEMMA OneOrMore == ASSUME NEW n \in Nat, n > 0 PROVE n = 1 \/ n > 1
OBVIOUS

\* The places of a list with several nodes.
LEMMA SeveralPlaces ==
  ASSUME NEW n \in Nat, n > 1
  PROVE  1 \in 1 .. n /\ 2 \in 1 .. n /\ n \in 1 .. n /\ n - 1 \in 1 .. n /\ n # 1 /\ n - 1 # n
         /\ n + 1 \notin 1 .. n
OBVIOUS

\* What list_delete_front returns and writes.
LEMMA FrontTakes ==
  ASSUME NEW s, MemType(s), NEW l \in Lists, NEW q, Distinct(q), Holds(s, l, q), Len(q) # 0
  PROVE  TakenOut(WithoutFront(s, l), s, l, q, 1)
<1> DEFINE t == WithoutFront(s, l)
           b == s.begin[l]
           x == s.next[b]
<1>0. /\ Nil \in Ptrs /\ b = q[1] /\ b \in Nodes /\ Len(q) \in Nat /\ Nodes \subseteq Ptrs
      /\ Len(q) > 0
  BY HeldFacts
<1>a. Len(q) > 1 => ~ Last(s, l)  BY <1>0, HeldFacts DEF Last
<1>b. Len(q) = 1 => Last(s, l)  BY <1>0, HeldFacts DEF Last
<1>c. Len(q) \in Nat /\ Len(q) > 0  BY <1>0
<1>1. CASE Len(q) = 1
  <2>1. t = Emptied(s, l)  BY <1>1, <1>b DEF WithoutFront
  <2> QED  BY <1>1, <2>1, EmptiedTakes
<1>2. CASE Len(q) > 1
  <2>1. 1 \in 1 .. Len(q) /\ 2 \in 1 .. Len(q) /\ 1 # Len(q)
    BY <1>c, <1>2, SeveralPlaces
  <2>2. s.next[q[1]] = At(q, 1 + 1)  BY <2>1 DEF Holds
  <2>3. x = q[2] /\ x \in Nodes /\ x # b  BY <1>0, <2>1, <2>2, AtFacts DEF At, Distinct
  <2>4. At(q, 1 - 1) = Nil /\ At(q, 1 + 1) = x /\ At(q, 2) = x  BY <2>1, <2>3 DEF At
  <2>5. t = [s EXCEPT !.begin[l] = x, !.prev[x] = Nil, !.next[b] = Nil, !.prev[b] = Nil]
    BY <1>2, <1>a DEF WithoutFront, Cleared
  <2> HIDE DEF t, b, x
  <2>6. MemType(t)  BY <1>0, <2>3, <2>5 DEF MemType
  <2>7. /\ t.begin = [s.begin EXCEPT ![l] = x] /\ t.end = s.end
        /\ t.next = [s.next EXCEPT ![b] = Nil]
        /\ t.prev = [[s.prev EXCEPT ![x] = Nil] EXCEPT ![b] = Nil]
    BY <2>5 DEF MemType
  <2> QED  BY <1>0, <2>1, <2>3, <2>4, <2>6, <2>7, NodeFacts DEF TakenOut, MemType, t
<1> QED  BY <1>1, <1>2, <1>c, OneOrMore

\* What list_delete_back returns and writes.
LEMMA BackTakes ==
  ASSUME NEW s, MemType(s), NEW l \in Lists, NEW q, Distinct(q), Holds(s, l, q), Len(q) # 0
  PROVE  TakenOut(WithoutBack(s, l), s, l, q, Len(q))
<1> DEFINE t == WithoutBack(s, l)
           e == s.end[l]
           x == s.prev[e]
<1>0. /\ Nil \in Ptrs /\ e = q[Len(q)] /\ e \in Nodes /\ Len(q) \in Nat /\ Nodes \subseteq Ptrs
      /\ Len(q) > 0
  BY HeldFacts
<1>a. Len(q) > 1 => ~ Last(s, l)  BY <1>0, HeldFacts DEF Last
<1>b. Len(q) = 1 => Last(s, l)  BY <1>0, HeldFacts DEF Last
<1>c. Len(q) \in Nat /\ Len(q) > 0  BY <1>0
<1>1. CASE Len(q) = 1
  <2>1. t = Emptied(s, l)  BY <1>1, <1>b DEF WithoutBack
  <2> QED  BY <1>1, <2>1, EmptiedTakes
<1>2. CASE Len(q) > 1
  <2> DEFINE k == Len(q)
  <2>1. k \in 1 .. Len(q) /\ k - 1 \in 1 .. Len(q) /\ k # 1 /\ k - 1 # k /\ k + 1 \notin 1 .. Len(q)
    BY <1>c, <1>2, SeveralPlaces
  <2>2. s.prev[q[k]] = At(q, k - 1)  BY <2>1 DEF Holds
  <2>3. x = q[k - 1] /\ x \in Nodes /\ x # e  BY <1>0, <2>1, <2>2, AtFacts DEF At, Distinct
  <2>4. At(q, k - 1) = x /\ At(q, k + 1) = Nil  BY <2>1, <2>3 DEF At
  <2>5. t = [s EXCEPT !.next[x] = Nil, !.end[l] = x, !.next[e] = Nil, !.prev[e] = Nil]
    BY <1>2, <1>a DEF WithoutBack, Cleared
  <2> HIDE DEF t, e, x
  <2>6. MemType(t)  BY <1>0, <2>3, <2>5 DEF MemType
  <2>7. /\ t.begin = s.begin /\ t.end = [s.end EXCEPT ![l] = x]
        /\ t.next = [[s.next EXCEPT ![x] = Nil] EXCEPT ![e] = Nil]
        /\ t.prev = [s.prev EXCEPT ![e] = Nil]
    BY <2>5 DEF MemType
  <2> QED  BY <1>0, <2>1, <2>3, <2>4, <2>6, <2>7, NodeFacts DEF TakenOut, MemType, t
<1> QED  BY <1>1, <1>2, <1>c, OneOrMore

\* What taking out a node between two others writes.
LEMMA MiddleTakes ==
  ASSUME NEW s, MemType(s), NEW l \in Lists, NEW q, Distinct(q), Holds(s, l, q),
         NEW k \in 1 .. Len(q), k # 1, k # Len(q)
  PROVE  TakenOut(Unlinked(s, q[k]), s, l, q, k)
<1> DEFINE t == Unlinked(s, q[k])
           i == q[k]
           x == s.next[i]
           y == s.prev[i]
<1>0. /\ Nil \in Ptrs /\ Len(q) \in Nat /\ Nodes \subseteq Ptrs /\ i \in Nodes
      /\ x = At(q, k + 1) /\ y = At(q, k - 1)
  <2>1. i \in Nodes  BY AtFacts
  <2> QED  BY <2>1, HeldFacts DEF Holds
<1>1. k + 1 \in 1 .. Len(q) /\ k - 1 \in 1 .. Len(q) /\ k + 1 # k /\ k - 1 # k /\ k + 1 # k - 1
  BY <1>0
<1>2. x = q[k + 1] /\ y = q[k - 1] /\ x \in Nodes /\ y \in Nodes  BY <1>0, <1>1, AtFacts DEF At
<1>3. x # i /\ y # i /\ x # y  BY <1>1, <1>2 DEF Distinct
<1>4. t = [s EXCEPT !.next[y] = x, !.prev[x] = y, !.next[i] = Nil, !.prev[i] = Nil]
  BY DEF Unlinked, Cleared
<1> HIDE DEF t, x, y, i
<1>5. MemType(t)  BY <1>0, <1>2, <1>4 DEF MemType
<1>6. /\ t.begin = s.begin /\ t.end = s.end
      /\ t.next = [[s.next EXCEPT ![y] = x] EXCEPT ![i] = Nil]
      /\ t.prev = [[s.prev EXCEPT ![x] = y] EXCEPT ![i] = Nil]
  BY <1>4 DEF MemType
<1> QED  BY <1>0, <1>2, <1>3, <1>5, <1>6, NodeFacts DEF TakenOut, MemType, t, i

\* What list_delete_imple returns and writes.
LEMMA DeletedTakes ==
  ASSUME NEW s, MemType(s), NEW l \in Lists, NEW q, Distinct(q), Holds(s, l, q),
         NEW k \in 1 .. Len(q)
  PROVE  TakenOut(Deleted(s, l, q[k]), s, l, q, k)
<1>0. /\ Len(q) \in Nat /\ Len(q) # 0 /\ s.begin[l] = q[1] /\ s.end[l] = q[Len(q)]
      /\ 1 \in 1 .. Len(q) /\ Len(q) \in 1 .. Len(q)
  BY HeldFacts
<1>1. CASE k = 1
  <2>1. Deleted(s, l, q[k]) = WithoutFront(s, l)  BY <1>0, <1>1 DEF Deleted
  <2> QED  BY <1>0, <1>1, <2>1, FrontTakes
<1>2. CASE k # 1 /\ k = Len(q)
  <2>1. q[k] # q[1]  BY <1>0, <1>2 DEF Distinct
  <2>2. Deleted(s, l, q[k]) = WithoutBack(s, l)  BY <1>0, <1>2, <2>1 DEF Deleted
  <2> QED  BY <1>0, <1>2, <2>2, BackTakes
<1>3. CASE k # 1 /\ k # Len(q)
  <2>1. q[k] # q[1] /\ q[k] # q[Len(q)]  BY <1>0, <1>3 DEF Distinct
  <2>2. Deleted(s, l, q[k]) = Unlinked(s, q[k])  BY <1>0, <1>3, <2>1 DEF Deleted
  <2> QED  BY <1>3, <2>2, MiddleTakes
<1> QED  BY <1>1, <1>2, <1>3

\* What link_node_delete_imple returns and writes.
LEMMA NodeDeletedTakes ==
  ASSUME NEW s, MemType(s), NEW l \in Lists, NEW q, Distinct(q), Holds(s, l, q),
         NEW k \in 1 .. Len(q)
  PROVE  TakenOut(NodeDeleted(s, l, q[k]), s, l, q, k)
<1> DEFINE n == q[k]
           t == NodeDeleted(s, l, n)
           x == s.next[n]
           y == s.prev[n]
           b == IF s.begin[l] = n THEN x ELSE s.begin[l]
           e == IF s.end[l] = n THEN y ELSE s.end[l]
           X == Behind(s, n, y)
           Y == InFront(s, n, x)
<1>0. /\ Nil \in Ptrs /\ Len(q) \in Nat /\ Nodes \subseteq Ptrs /\ n \in Nodes
      /\ x = At(q, k + 1) /\ y = At(q, k - 1) /\ x \in Ptrs /\ y \in Ptrs
  <2>1. n \in Nodes  BY AtFacts
  <2> QED  BY <2>1, HeldFacts DEF Holds, MemType
<1>1. /\ s.begin[l] = q[1] /\ s.end[l] = q[Len(q)]
      /\ 1 \in 1 .. Len(q) /\ Len(q) \in 1 .. Len(q)
  BY <1>0, HeldFacts
<1>2. (s.begin[l] = n <=> k = 1) /\ (s.end[l] = n <=> k = Len(q))
  BY <1>1 DEF Distinct
<1>3. x \in Nodes \union {Nil} /\ y \in Nodes \union {Nil} /\ x # n /\ y # n
  <2>1. x \in Nodes <=> k + 1 \in 1 .. Len(q)  BY <1>0, AtFacts
  <2>2. y \in Nodes <=> k - 1 \in 1 .. Len(q)  BY <1>0, AtFacts
  <2>3. n = At(q, k)  BY DEF At
  <2>4. k + 1 # k /\ k - 1 # k /\ k \in Int /\ k + 1 \in Int /\ k - 1 \in Int  BY <1>0
  <2> HIDE DEF n, x, y
  <2> QED  BY <1>0, <2>1, <2>2, <2>3, <2>4, AtFacts DEF At
<1>4. X \in [Nodes -> Ptrs] /\ \A z \in Nodes : X[z] = IF z = x THEN y ELSE s.prev[z]
  BY <1>0, <1>3, NodeFacts DEF Behind, MemType
<1>5. Y \in [Nodes -> Ptrs] /\ \A z \in Nodes : Y[z] = IF z = y THEN x ELSE s.next[z]
  BY <1>0, <1>3, NodeFacts DEF InFront, MemType
<1>6. b \in Ptrs /\ e \in Ptrs  BY <1>0 DEF MemType
<1>7. t = [s EXCEPT !.begin[l] = b, !.end[l] = e, !.prev = X, !.next = Y,
                    !.next[n] = Nil, !.prev[n] = Nil]
  BY DEF NodeDeleted, Cleared
<1>8. (k = 1 => b = At(q, 2)) /\ (k = Len(q) => e = At(q, Len(q) - 1))
  BY <1>0, <1>2
<1> HIDE DEF t, x, y, b, e, X, Y, n
<1>9. MemType(t)  BY <1>0, <1>4, <1>5, <1>6, <1>7 DEF MemType
<1>10. /\ t.begin = [s.begin EXCEPT ![l] = b] /\ t.end = [s.end EXCEPT ![l] = e]
       /\ t.next = [Y EXCEPT ![n] = Nil] /\ t.prev = [X EXCEPT ![n] = Nil]
  BY <1>7 DEF MemType
<1>11. (k # 1 => b = s.begin[l]) /\ (k # Len(q) => e = s.end[l])  BY <1>2 DEF b, e
<1> QED  BY <1>0, <1>4, <1>5, <1>8, <1>9, <1>10, <1>11 DEF TakenOut, MemType, t, n
------------------------------------------------------------------------------
(***************************************************************************)
(* Linked lists: what the history asks for.                                *)
(***************************************************************************)
LEMMA FrontPart ==
  ASSUME NEW q \in Seq(Nodes), NEW k \in 0 .. Len(q)
  PROVE  /\ SubSeq(q, 1, k) \in Seq(Nodes) /\ Len(SubSeq(q, 1, k)) = k
         /\ \A j \in 1 .. k : SubSeq(q, 1, k)[j] = q[j]
<1>1. Len(q) \in Nat /\ k \in Nat /\ k <= Len(q)  BY LenProperties
<1> QED  BY <1>1

\* A sequence with one more member.
LEMMA LongerSeq ==
  ASSUME NEW q \in Seq(Nodes), NEW k \in 0 .. Len(q), NEW n \in Nodes
  PROVE  Longer(SubSeq(q, 1, k) \o <<n>> \o SubSeq(q, k + 1, Len(q)), q, k, n)
<1> DEFINE a == SubSeq(q, 1, k)
           z == SubSeq(q, k + 1, Len(q))
           b == <<n>>
<1>0. Len(q) \in Nat /\ k \in Nat /\ k <= Len(q)  BY LenProperties
<1>1. a \in Seq(Nodes) /\ Len(a) = k /\ \A j \in 1 .. k : a[j] = q[j]
  BY <1>0
<1>2. z \in Seq(Nodes) /\ Len(z) = Len(q) - k /\ \A j \in 1 .. Len(q) - k : z[j] = q[k + j]
  BY <1>0
<1>3. b \in Seq(Nodes) /\ Len(b) = 1 /\ b[1] = n  OBVIOUS
<1> HIDE DEF a, z, b
<1>4. /\ a \o b \in Seq(Nodes) /\ Len(a \o b) = k + 1
      /\ \A j \in 1 .. k : (a \o b)[j] = q[j]
      /\ (a \o b)[k + 1] = n
  <2>1. /\ a \o b \in Seq(Nodes) /\ Len(a \o b) = Len(a) + Len(b)
        /\ \A i \in 1 .. Len(a) + Len(b) :
             (a \o b)[i] = IF i <= Len(a) THEN a[i] ELSE b[i - Len(a)]
    BY <1>1, <1>3, ConcatProperties, Zenon
  <2>2. k + 1 \in 1 .. k + 1 /\ ~ (k + 1 <= k) /\ k + 1 - k = 1
        /\ \A j \in 1 .. k : j \in 1 .. k + 1 /\ j <= k
    BY <1>0
  <2> QED  BY <1>1, <1>3, <2>1, <2>2, SMTT(30)
<1> DEFINE ab == a \o b
<1> HIDE DEF ab
<1>5. /\ ab \in Seq(Nodes) /\ Len(ab) = k + 1 /\ ab[k + 1] = n
      /\ \A j \in 1 .. k : ab[j] = q[j]
  BY <1>4 DEF ab
<1>6. /\ ab \o z \in Seq(Nodes) /\ Len(ab \o z) = Len(q) + 1
      /\ \A j \in 1 .. Len(q) + 1 :
           (ab \o z)[j] = IF j <= k + 1 THEN ab[j] ELSE z[j - (k + 1)]
  BY <1>0, <1>2, <1>5
<1>7. \A j \in 1 .. Len(q) + 1 : j > k + 1 => z[j - (k + 1)] = q[j - 1]
  <2> SUFFICES ASSUME NEW j \in 1 .. Len(q) + 1, j > k + 1 PROVE z[j - (k + 1)] = q[j - 1]
    OBVIOUS
  <2>1. j - (k + 1) \in 1 .. Len(q) - k /\ k + (j - (k + 1)) = j - 1  BY <1>0
  <2> QED  BY <1>2, <2>1
<1>8. Longer(ab \o z, q, k, n)  BY <1>0, <1>5, <1>6, <1>7 DEF Longer
<1> QED  BY <1>8 DEF ab, a, b, z

\* A sequence with one member less.
LEMMA ShorterSeq ==
  ASSUME NEW q \in Seq(Nodes), NEW k \in 1 .. Len(q)
  PROVE  Shorter(SubSeq(q, 1, k - 1) \o SubSeq(q, k + 1, Len(q)), q, k)
<1> DEFINE a == SubSeq(q, 1, k - 1)
           z == SubSeq(q, k + 1, Len(q))
<1>0. Len(q) \in Nat /\ k \in Nat /\ k <= Len(q) /\ k >= 1  BY LenProperties
<1>1. a \in Seq(Nodes) /\ Len(a) = k - 1 /\ \A j \in 1 .. k - 1 : a[j] = q[j]
  BY <1>0
<1>2. z \in Seq(Nodes) /\ Len(z) = Len(q) - k /\ \A j \in 1 .. Len(q) - k : z[j] = q[k + j]
  BY <1>0
<1> HIDE DEF a, z
<1>3. /\ a \o z \in Seq(Nodes) /\ Len(a \o z) = Len(q) - 1
      /\ \A j \in 1 .. Len(q) - 1 :
           (a \o z)[j] = IF j <= k - 1 THEN a[j] ELSE z[j - (k - 1)]
  <2>1. /\ a \o z \in Seq(Nodes) /\ Len(a \o z) = Len(a) + Len(z)
        /\ \A i \in 1 .. Len(a) + Len(z) :
             (a \o z)[i] = IF i <= Len(a) THEN a[i] ELSE z[i - Len(a)]
    BY <1>1, <1>2, ConcatProperties, Zenon
  <2>2. k - 1 + (Len(q) - k) = Len(q) - 1  BY <1>0
  <2> QED  BY <1>1, <1>2, <2>1, <2>2
<1>4. \A j \in 1 .. Len(q) - 1 : j >= k => z[j - (k - 1)] = q[j + 1]
  <2> SUFFICES ASSUME NEW j \in 1 .. Len(q) - 1, j >= k PROVE z[j - (k - 1)] = q[j + 1]
    OBVIOUS
  <2>1. j - (k - 1) \in 1 .. Len(q) - k /\ k + (j - (k - 1)) = j + 1  BY <1>0
  <2> QED  BY <1>2, <2>1
<1>5. Shorter(a \o z, q, k)  BY <1>0, <1>1, <1>3, <1>4 DEF Shorter
<1> QED  BY <1>5 DEF a, z

\* Its ends.
LEMMA ShorterEnds ==
  ASSUME NEW q \in Seq(Nodes), q # << >>
  PROVE  /\ Len(q) \in Nat /\ Len(q) >= 1
         /\ Shorter(Tail(q), q, 1) /\ Shorter(SubSeq(q, 1, Len(q) - 1), q, Len(q))
<1>0. Len(q) \in Nat /\ Len(q) >= 1  BY EmptySeq, LenProperties
<1>1. Tail(q) \in Seq(Nodes) /\ Len(Tail(q)) = Len(q) - 1
      /\ \A j \in 1 .. Len(q) - 1 : Tail(q)[j] = q[j + 1]
  <2>1. /\ Tail(q) \in Seq(Nodes) /\ Len(Tail(q)) = Len(q) - 1
        /\ \A i \in 1 .. Len(Tail(q)) : Tail(q)[i] = q[i + 1]
    BY HeadTailProperties, Zenon
  <2> QED  BY <2>1
<1>2. /\ SubSeq(q, 1, Len(q) - 1) \in Seq(Nodes)
      /\ Len(SubSeq(q, 1, Len(q) - 1)) = Len(q) - 1
      /\ \A j \in 1 .. Len(q) - 1 : SubSeq(q, 1, Len(q) - 1)[j] = q[j]
  <2>1. Len(q) - 1 \in 0 .. Len(q)  BY <1>0
  <2> QED  BY <2>1, FrontPart, Zenon
<1> QED  BY <1>0, <1>1, <1>2 DEF Shorter
------------------------------------------------------------------------------
(***************************************************************************)
(* Linked lists: the inductive invariant.  ListsExact says what the links  *)
(* of a list are; that they stay so needs that no node is in two places.   *)
(***************************************************************************)
Spare(c, n) == \A x \in Lists : \A j \in 1 .. Len(c[x]) : c[x][j] # n

\* The memory s holds the lists of c, which share no node, and nothing else.
Sound(s, c) ==
  /\ MemType(s) /\ c \in [Lists -> Seq(Nodes)]
  /\ \A x \in Lists : Distinct(c[x])
  /\ \A x, y \in Lists : \A j \in 1 .. Len(c[x]), k \in 1 .. Len(c[y]) :
       c[x][j] = c[y][k] => x = y
  /\ \A x \in Lists : IF s.begin[x] = Garbage THEN c[x] = << >> ELSE Holds(s, x, c[x])
  /\ \A n \in Nodes : Spare(c, n) => s.next[n] \in {Nil, Garbage} /\ s.prev[n] = s.next[n]

ListInv == Sound(m, content)

------------------------------------------------------------------------------
(***************************************************************************)
(* Linked lists: walking.  The loop finds a node exactly when the list has *)
(* it, and ends at the node or behind the last one.                        *)
(***************************************************************************)
NextOf(s, l, k, f) == IF k = 0 THEN s.begin[l]
                      ELSE IF f[k - 1] \in Nodes THEN s.next[f[k - 1]] ELSE f[k - 1]

\* The walk along a list, as what a recursive function that exists computes.
LEMMA WalkUnfolds ==
  ASSUME NEW s, MemType(s), NEW l \in Lists
  PROVE  \E at : /\ at[0] = s.begin[l]
                 /\ \A k \in 1 .. Cardinality(Nodes) : at[k] = NextOf(s, l, k, at)
                 /\ \A n : Finds(s, l, n) <=> \E k \in 0 .. Cardinality(Nodes) : at[k] = n
<1> DEFINE N == Cardinality(Nodes)
<1>0. N \in Nat  BY NodeFacts, FS_CardinalityType
<1> DEFINE A == 0 .. N
           G == [q \in A \X [A -> Ptrs] |-> NextOf(s, l, q[1], q[2])]
           rank == [k \in A |-> k]
<1>1. rank \in [A -> Nat] /\ Ptrs # {}  BY DEF Ptrs
<1>2. G \in [A \X [A -> Ptrs] -> Ptrs]
  <2> SUFFICES ASSUME NEW k \in A, NEW f \in [A -> Ptrs] PROVE NextOf(s, l, k, f) \in Ptrs
    OBVIOUS
  <2>1. k # 0 => f[k - 1] \in Ptrs  BY <1>0
  <2> QED  BY <2>1 DEF NextOf, MemType
<1>3. LooksBelow(G, A, Ptrs, rank)
  <2> SUFFICES ASSUME NEW k \in A, NEW f \in [A -> Ptrs], NEW g \in [A -> Ptrs],
                      AgreeBelow(f, g, A, rank, rank[k])
               PROVE  NextOf(s, l, k, f) = NextOf(s, l, k, g)
    BY DEF LooksBelow
  <2>1. k # 0 => k - 1 \in A /\ rank[k - 1] < rank[k]  BY <1>0
  <2>2. k # 0 => f[k - 1] = g[k - 1]  BY <2>1 DEF AgreeBelow
  <2> QED  BY <2>2 DEF NextOf
<1>4. Recursive(G, A, Ptrs, rank)  BY <1>1, <1>2, <1>3 DEF Recursive
<1> HIDE DEF rank, G, A
<1>5. PICK f \in [A -> Ptrs] : \A k \in A : f[k] = G[<<k, f>>]
  BY <1>4, RecursiveFunctionExists
<1>6. f = [k \in A |-> NextOf(s, l, k, f)]  BY <1>5 DEF G
<1> DEFINE Eq(at) == at = [k \in A |-> NextOf(s, l, k, at)]
           c == CHOOSE at : Eq(at)
<1>7. Eq(c)  BY <1>6
<1>8. \A n : Finds(s, l, n) <=> \E k \in A : c[k] = n  BY DEF Finds, NextOf, A
<1> HIDE DEF c
<1>9. 0 \in A /\ \A k \in 1 .. N : k \in A /\ k # 0  BY <1>0 DEF A
<1>10. c[0] = NextOf(s, l, 0, c) /\ \A k \in 1 .. N : c[k] = NextOf(s, l, k, c)
  BY <1>7, <1>9
<1>11. c[0] = s.begin[l]  BY <1>10 DEF NextOf
<1> QED  BY <1>8, <1>10, <1>11 DEF A

\* The bound of the walk is never too small: a list has every node once.
LEMMA ListFits ==
  ASSUME NEW q, Distinct(q)
  PROVE  Len(q) \in Nat /\ Cardinality(Nodes) \in Nat /\ Len(q) <= Cardinality(Nodes)
<1>1. Len(q) \in Nat /\ \A k \in 1 .. Len(q) : q[k] \in Nodes  BY AtFacts
<1> DEFINE f == [k \in 1 .. Len(q) |-> q[k]]
<1>2. f \in Injection(1 .. Len(q), Nodes)  BY <1>1 DEF Injection, IsInjective, Distinct
<1>3. Cardinality(1 .. Len(q)) <= Cardinality(Nodes)  BY <1>2, NodeFacts, FS_Injection
<1>4. Cardinality(1 .. Len(q)) = Len(q)
  <2>1. 1 \in Int /\ Len(q) \in Int /\ Len(q) - 1 + 1 = Len(q)  BY <1>1
  <2>2. Cardinality(1 .. Len(q)) = IF 1 > Len(q) THEN 0 ELSE Len(q) - 1 + 1
    BY <2>1, FS_Interval
  <2> QED  BY <1>1, <2>1, <2>2
<1> QED  BY <1>1, <1>3, <1>4, NodeFacts, FS_CardinalityType

\* It finds a node exactly when the list has it.
LEMMA FindsExact ==
  ASSUME NEW s, MemType(s), NEW l \in Lists, NEW q, Distinct(q), Holds(s, l, q), NEW n \in Nodes
  PROVE  Finds(s, l, n) <=> \E k \in 1 .. Len(q) : q[k] = n
<1> DEFINE N == Cardinality(Nodes)
<1>0. Len(q) \in Nat /\ N \in Nat /\ Len(q) <= N  BY ListFits
<1>1. PICK at : /\ at[0] = s.begin[l]
                /\ \A k \in 1 .. N : at[k] = NextOf(s, l, k, at)
                /\ \A x : Finds(s, l, x) <=> \E k \in 0 .. N : at[k] = x
  BY WalkUnfolds
<1> DEFINE S == {k \in Nat : k <= N => at[k] = At(q, k + 1)}
<1>2. 0 \in S  BY <1>1 DEF Holds
<1>3. ASSUME NEW k \in Nat, k \in S PROVE k + 1 \in S
  <2> SUFFICES ASSUME k + 1 <= N PROVE at[k + 1] = At(q, k + 1 + 1)  OBVIOUS
  <2>1. k + 1 \in 1 .. N /\ k <= N /\ k + 1 - 1 = k /\ k + 1 # 0  BY <1>0
  <2>2. at[k + 1] = IF at[k] \in Nodes THEN s.next[at[k]] ELSE at[k]
    BY <1>1, <2>1 DEF NextOf
  <2>3. at[k] = At(q, k + 1)  BY <1>3, <2>1
  <2>4. CASE k + 1 \in 1 .. Len(q)
    <3>1. at[k] = q[k + 1] /\ at[k] \in Nodes  BY <2>3, <2>4, AtFacts DEF At
    <3> QED  BY <2>2, <2>4, <3>1 DEF Holds
  <2>5. CASE k + 1 \notin 1 .. Len(q)
    <3>1. k + 1 + 1 \notin 1 .. Len(q)  BY <1>0, <2>5
    <3> QED  BY <2>2, <2>3, <2>5, <3>1, NodeFacts DEF At
  <2> QED  BY <2>4, <2>5
<1> HIDE DEF S
<1>4. \A k \in Nat : k \in S  BY <1>2, <1>3, Induction
<1>5. \A k \in 0 .. N : at[k] = At(q, k + 1)  BY <1>0, <1>4 DEF S
<1>6. ASSUME Finds(s, l, n) PROVE \E k \in 1 .. Len(q) : q[k] = n
  <2>1. PICK k \in 0 .. N : At(q, k + 1) = n  BY <1>1, <1>5, <1>6
  <2> QED  BY <2>1, NodeFacts DEF At
<1>7. ASSUME NEW k \in 1 .. Len(q), q[k] = n PROVE Finds(s, l, n)
  <2>1. k - 1 \in 0 .. N /\ k - 1 + 1 = k  BY <1>0
  <2>2. at[k - 1] = n  BY <1>5, <1>7, <2>1 DEF At
  <2> QED  BY <1>1, <2>1, <2>2
<1> QED  BY <1>6, <1>7

------------------------------------------------------------------------------
(***************************************************************************)
(* Linked lists: the steps.                                                *)
(***************************************************************************)
LEMMA SoundFacts ==
  ASSUME NEW s, NEW c, Sound(s, c), NEW l \in Lists, s.begin[l] # Garbage
  PROVE  /\ MemType(s) /\ Distinct(c[l]) /\ Holds(s, l, c[l]) /\ c[l] \in Seq(Nodes)
         /\ Len(c[l]) \in Nat /\ s.begin[l] = Nil <=> Len(c[l]) = 0
         /\ c[l] = << >> <=> Len(c[l]) = 0
<1>1. MemType(s) /\ Distinct(c[l]) /\ Holds(s, l, c[l]) /\ c[l] \in Seq(Nodes)  BY DEF Sound
<1> QED  BY <1>1, HeldFacts

\* Linking a node in keeps the invariant of the lists.
LEMMA InsertKeeps ==
  ASSUME NEW s, NEW c, Sound(s, c), NEW l \in Lists, s.begin[l] # Garbage,
         NEW n \in Nodes, Spare(c, n), NEW k \in 0 .. Len(c[l]),
         NEW t, LinkedIn(t, s, l, c[l], k, n), NEW r, Longer(r, c[l], k, n)
  PROVE  Sound(t, [c EXCEPT ![l] = r]) /\ t # s
<1> DEFINE d == [c EXCEPT ![l] = r]
           q == c[l]
<1>1. MemType(s) /\ Distinct(q) /\ Holds(s, l, q) /\ Len(q) \in Nat  BY SoundFacts
<1>2. \A j \in 1 .. Len(q) : q[j] # n  BY DEF Spare
<1>3. Distinct(r) /\ Holds(t, l, r)
  <2> HIDE DEF q
  <2> QED  BY <1>1, <1>2, LinkIn DEF q
<1>4. /\ r \in Seq(Nodes) /\ Len(r) = Len(q) + 1
      /\ \A j \in 1 .. Len(q) + 1 :
           r[j] = IF j <= k THEN q[j] ELSE IF j = k + 1 THEN n ELSE q[j - 1]
  BY DEF Longer
<1>5. d \in [Lists -> Seq(Nodes)] /\ d[l] = r /\ \A x \in Lists : x # l => d[x] = c[x]
  BY <1>4 DEF Sound
<1>6. \A j \in 1 .. Len(r) : r[j] = n \/ \E i \in 1 .. Len(q) : r[j] = q[i]
  BY <1>1, <1>4
<1>7. /\ \E j \in 1 .. Len(r) : r[j] = n
      /\ \A i \in 1 .. Len(q) : \E j \in 1 .. Len(r) : r[j] = q[i]
  <2>1. k + 1 \in 1 .. Len(r) /\ r[k + 1] = n  BY <1>1, <1>4
  <2>2. ASSUME NEW i \in 1 .. Len(q) PROVE \E j \in 1 .. Len(r) : r[j] = q[i]
    <3>1. CASE i <= k
      <4>1. i \in 1 .. Len(q) + 1 /\ i \in 1 .. Len(r)  BY <1>1, <1>4
      <4>2. r[i] = q[i]  BY <1>4, <3>1, <4>1
      <4> QED  BY <4>1, <4>2
    <3>2. CASE i > k
      <4>1. i + 1 \in 1 .. Len(r) /\ ~ (i + 1 <= k) /\ i + 1 # k + 1 /\ i + 1 - 1 = i
        BY <1>1, <1>4, <3>2
      <4>2. r[i + 1] = q[i]  BY <1>4, <4>1
      <4> QED  BY <4>1, <4>2
    <3> QED  BY <1>1, <3>1, <3>2
  <2> QED  BY <2>1, <2>2
\* What is neither n nor in the list keeps its links.
<1>8. ASSUME NEW x \in Nodes, x # n, \A i \in 1 .. Len(q) : q[i] # x
      PROVE  t.next[x] = s.next[x] /\ t.prev[x] = s.prev[x]
  <2>1. x # At(q, k) /\ x # At(q, k + 1)  BY <1>8, NodeFacts DEF At
  <2> QED  BY <1>8, <2>1 DEF LinkedIn
<1>9. ASSUME NEW x \in Lists PROVE Distinct(d[x])
  BY <1>3, <1>5 DEF Sound
<1> HIDE DEF d, q
<1>10. ASSUME NEW x \in Lists, NEW y \in Lists, NEW i \in 1 .. Len(d[x]),
              NEW j \in 1 .. Len(d[y]), d[x][i] = d[y][j], x = l, y # l
       PROVE  FALSE
  <2>1. r[i] = c[y][j] /\ i \in 1 .. Len(r) /\ j \in 1 .. Len(c[y])  BY <1>5, <1>10
  <2>2. c[y][j] # n  BY <2>1 DEF Spare
  <2>3. \A h \in 1 .. Len(q) : c[y][j] # q[h]  BY <1>10, <2>1 DEF Sound, q
  <2> QED  BY <1>6, <2>1, <2>2, <2>3
<1>11. ASSUME NEW x \in Lists, NEW y \in Lists, NEW i \in 1 .. Len(d[x]),
              NEW j \in 1 .. Len(d[y]), d[x][i] = d[y][j]
       PROVE  x = y
  <2>1. CASE x # l /\ y # l  BY <1>5, <1>11, <2>1 DEF Sound
  <2> QED  BY <1>10, <1>11, <2>1
<1>12. ASSUME NEW x \in Lists
       PROVE  IF t.begin[x] = Garbage THEN d[x] = << >> ELSE Holds(t, x, d[x])
  <2>1. CASE x = l
    <3>1. t.begin[l] \in Nodes \union {Nil}  BY <1>3, AtFacts DEF Holds, At
    <3> QED  BY <1>3, <1>5, <2>1, <3>1, NodeFacts
  <2>2. CASE x # l
    <3>1. t.begin[x] = s.begin[x] /\ t.end[x] = s.end[x] /\ d[x] = c[x]
      BY <1>5, <2>2 DEF LinkedIn
    <3>2. ASSUME NEW j \in 1 .. Len(c[x])
          PROVE  t.next[c[x][j]] = s.next[c[x][j]] /\ t.prev[c[x][j]] = s.prev[c[x][j]]
      <4>1. c[x][j] \in Nodes /\ c[x][j] # n  BY AtFacts DEF Sound, Spare
      <4>2. \A i \in 1 .. Len(q) : q[i] # c[x][j]  BY <2>2 DEF Sound, q
      <4> QED  BY <1>8, <4>1, <4>2
    <3>3. IF s.begin[x] = Garbage THEN c[x] = << >> ELSE Holds(s, x, c[x])  BY DEF Sound
    <3> QED  BY <3>1, <3>2, <3>3, OthersHold
  <2> QED  BY <2>1, <2>2
<1>13. ASSUME NEW x \in Nodes, Spare(d, x)
       PROVE  t.next[x] \in {Nil, Garbage} /\ t.prev[x] = t.next[x]
  <2>1. x # n /\ \A i \in 1 .. Len(q) : q[i] # x  BY <1>5, <1>7, <1>13 DEF Spare
  <2>2. Spare(c, x)  BY <1>5, <1>13, <2>1 DEF Spare, q
  <2> QED  BY <1>8, <2>1, <2>2 DEF Sound
<1>14. t # s
  <2>1. CASE k = 0
    <3>1. t.begin[l] = n  BY <2>1 DEF LinkedIn
    <3>2. s.begin[l] # n  BY <1>1, <1>2, NodeFacts DEF Holds, At
    <3> QED  BY <3>1, <3>2
  <2>2. CASE k # 0
    <3>1. k \in 1 .. Len(q)  BY <1>1, <2>2 DEF q
    <3>2. q[k] \in Nodes /\ q[k] # n /\ At(q, k) = q[k]  BY <1>1, <1>2, <3>1, AtFacts DEF At
    <3>3. t.next[q[k]] = n  BY <3>2 DEF LinkedIn, q
    <3>4. s.next[q[k]] # n  BY <1>1, <1>2, <3>1, NodeFacts DEF Holds, At
    <3> QED  BY <3>3, <3>4
  <2> QED  BY <2>1, <2>2
<1>15. Sound(t, d)  BY <1>5, <1>9, <1>11, <1>12, <1>13 DEF Sound, LinkedIn
<1> QED  BY <1>14, <1>15 DEF d

\* Linking a node out keeps it.
LEMMA TakeKeeps ==
  ASSUME NEW s, NEW c, Sound(s, c), NEW l \in Lists, s.begin[l] # Garbage,
         NEW k \in 1 .. Len(c[l]),
         NEW t, TakenOut(t, s, l, c[l], k), NEW r, Shorter(r, c[l], k)
  PROVE  Sound(t, [c EXCEPT ![l] = r]) /\ t # s
<1> DEFINE d == [c EXCEPT ![l] = r]
           q == c[l]
<1>1. MemType(s) /\ Distinct(q) /\ Holds(s, l, q) /\ Len(q) \in Nat  BY SoundFacts
<1>3. Distinct(r) /\ Holds(t, l, r)
  <2> HIDE DEF q
  <2> QED  BY <1>1, LinkOut DEF q
<1>4. /\ r \in Seq(Nodes) /\ Len(r) = Len(q) - 1
      /\ \A j \in 1 .. Len(q) - 1 : r[j] = IF j < k THEN q[j] ELSE q[j + 1]
  BY DEF Shorter
<1>5. d \in [Lists -> Seq(Nodes)] /\ d[l] = r /\ \A x \in Lists : x # l => d[x] = c[x]
  BY <1>4 DEF Sound
<1>6. \A j \in 1 .. Len(r) : \E i \in 1 .. Len(q) : r[j] = q[i]  BY <1>1, <1>4
<1>7. ASSUME NEW i \in 1 .. Len(q), i # k PROVE \E j \in 1 .. Len(r) : r[j] = q[i]
  <2>1. CASE i < k  BY <1>1, <1>4, <2>1
  <2>2. CASE i > k
    <3>1. i - 1 \in 1 .. Len(r) /\ ~ (i - 1 < k) /\ i - 1 + 1 = i  BY <1>1, <1>4, <2>2
    <3>2. r[i - 1] = q[i]  BY <1>4, <3>1
    <3> QED  BY <3>1, <3>2
  <2> QED  BY <1>1, <1>7, <2>1, <2>2
\* What is not in the list keeps its links.
<1>8. ASSUME NEW x \in Nodes, \A i \in 1 .. Len(q) : q[i] # x
      PROVE  t.next[x] = s.next[x] /\ t.prev[x] = s.prev[x]
  <2>1. x # At(q, k - 1) /\ x # At(q, k + 1) /\ x # q[k]  BY <1>8, NodeFacts DEF At
  <2> QED  BY <2>1 DEF TakenOut
<1>9. ASSUME NEW x \in Lists PROVE Distinct(d[x])
  BY <1>3, <1>5 DEF Sound
<1> HIDE DEF d, q
<1>10. ASSUME NEW x \in Lists, NEW y \in Lists, NEW i \in 1 .. Len(d[x]),
              NEW j \in 1 .. Len(d[y]), d[x][i] = d[y][j], x = l, y # l
       PROVE  FALSE
  <2>1. r[i] = c[y][j] /\ i \in 1 .. Len(r) /\ j \in 1 .. Len(c[y])  BY <1>5, <1>10
  <2>2. \A h \in 1 .. Len(q) : c[y][j] # q[h]  BY <1>10, <2>1 DEF Sound, q
  <2> QED  BY <1>6, <2>1, <2>2
<1>11. ASSUME NEW x \in Lists, NEW y \in Lists, NEW i \in 1 .. Len(d[x]),
              NEW j \in 1 .. Len(d[y]), d[x][i] = d[y][j]
       PROVE  x = y
  <2>1. CASE x # l /\ y # l  BY <1>5, <1>11, <2>1 DEF Sound
  <2> QED  BY <1>10, <1>11, <2>1
<1>12. ASSUME NEW x \in Lists
       PROVE  IF t.begin[x] = Garbage THEN d[x] = << >> ELSE Holds(t, x, d[x])
  <2>1. CASE x = l
    <3>1. t.begin[l] \in Nodes \union {Nil}  BY <1>3, AtFacts DEF Holds, At
    <3> QED  BY <1>3, <1>5, <2>1, <3>1, NodeFacts
  <2>2. CASE x # l
    <3>1. t.begin[x] = s.begin[x] /\ t.end[x] = s.end[x] /\ d[x] = c[x]
      BY <1>5, <2>2 DEF TakenOut
    <3>2. ASSUME NEW j \in 1 .. Len(c[x])
          PROVE  t.next[c[x][j]] = s.next[c[x][j]] /\ t.prev[c[x][j]] = s.prev[c[x][j]]
      <4>1. c[x][j] \in Nodes  BY AtFacts DEF Sound
      <4>2. \A i \in 1 .. Len(q) : q[i] # c[x][j]  BY <2>2 DEF Sound, q
      <4> QED  BY <1>8, <4>1, <4>2
    <3>3. IF s.begin[x] = Garbage THEN c[x] = << >> ELSE Holds(s, x, c[x])  BY DEF Sound
    <3> QED  BY <3>1, <3>2, <3>3, OthersHold
  <2> QED  BY <2>1, <2>2
<1>13. ASSUME NEW x \in Nodes, Spare(d, x)
       PROVE  t.next[x] \in {Nil, Garbage} /\ t.prev[x] = t.next[x]
  <2>1. CASE x = q[k]  BY <2>1 DEF TakenOut, q
  <2>2. CASE x # q[k]
    <3>1. \A i \in 1 .. Len(q) : q[i] # x  BY <1>5, <1>7, <1>13, <2>2 DEF Spare
    <3>2. Spare(c, x)  BY <1>5, <1>13, <3>1 DEF Spare, q
    <3> QED  BY <1>8, <3>1, <3>2 DEF Sound
  <2> QED  BY <2>1, <2>2
<1>14. t # s
  <2>1. CASE k = 1
    <3>1. t.begin[l] = At(q, 2)  BY <2>1 DEF TakenOut, q
    <3>2. s.begin[l] = At(q, 1) /\ At(q, 1) \in Nodes /\ At(q, 2) # At(q, 1)
      <4>1. At(q, 1) \in Nodes  BY <1>1, <2>1, AtFacts DEF q
      <4> QED  BY <1>1, <4>1, AtFacts DEF Holds
    <3> QED  BY <3>1, <3>2
  <2>2. CASE k # 1
    <3>1. k - 1 \in 1 .. Len(q) /\ k \in 1 .. Len(q)  BY <1>1, <2>2 DEF q
    <3>2. q[k - 1] \in Nodes /\ At(q, k - 1) = q[k - 1] /\ q[k - 1] # q[k]
      BY <1>1, <3>1, AtFacts DEF At, Distinct
    <3>3. t.next[q[k - 1]] = At(q, k + 1)  BY <3>2 DEF TakenOut, q
    <3>4. s.next[q[k - 1]] = At(q, k - 1 + 1)  BY <1>1, <3>1 DEF Holds
    <3>5. k - 1 + 1 = k /\ At(q, k) \in Nodes /\ At(q, k + 1) # At(q, k)
      <4>1. At(q, k) \in Nodes  BY <1>1, <3>1, AtFacts
      <4>2. k - 1 + 1 = k /\ k \in Int /\ k + 1 \in Int /\ k + 1 # k  BY <1>1, <3>1
      <4> QED  BY <1>1, <4>1, <4>2, AtFacts
    <3> QED  BY <3>3, <3>4, <3>5
  <2> QED  BY <2>1, <2>2
<1>15. Sound(t, d)  BY <1>5, <1>9, <1>11, <1>12, <1>13 DEF Sound, TakenOut
<1> QED  BY <1>14, <1>15 DEF d

\* The actions, each as what it asks of the lists.  Calls that touch nothing
\* return FALSE, the others TRUE.
Kept == ListInv' /\ (ret' <=> m' # m)

\* It holds at the start.
LEMMA InitLists == ListInit => ListInv
<1> SUFFICES ASSUME ListInit PROVE ListInv  OBVIOUS
<1>1. MemType(m)  BY DEF ListInit, MemType, Ptrs
<1>2. content \in [Lists -> Seq(Nodes)] /\ \A x \in Lists : content[x] = << >> /\ Len(content[x]) = 0
  BY EmptySeq DEF ListInit
<1>3. \A x \in Lists : Distinct(content[x])  BY <1>2 DEF Distinct
<1>4. \A x \in Lists : m.begin[x] = Garbage  BY DEF ListInit
<1>5. \A n \in Nodes : m.next[n] = Garbage /\ m.prev[n] = Garbage  BY DEF ListInit
<1> QED  BY <1>1, <1>2, <1>3, <1>4, <1>5 DEF ListInv, Sound

\* Creating a list keeps it.
LEMMA CreateKeepsLists ==
  ASSUME ListInv, NEW l \in Lists, ListCreate(l)
  PROVE  Kept
<1>1. MemType(m) /\ m.begin[l] = Garbage /\ content[l] = << >> /\ Nil \in Ptrs
  BY DEF ListInv, Sound, ListCreate, Created, Ptrs
<1>2. m' = [m EXCEPT !.begin[l] = Nil, !.end[l] = Nil] /\ content' = content /\ ret' = TRUE
  BY DEF ListCreate
<1>3. MemType(m')  BY <1>1, <1>2 DEF MemType
<1>4. /\ m'.begin = [m.begin EXCEPT ![l] = Nil] /\ m'.end = [m.end EXCEPT ![l] = Nil]
      /\ m'.next = m.next /\ m'.prev = m.prev
  BY <1>1, <1>2 DEF MemType
<1>5. m'.begin[l] = Nil /\ m'.end[l] = Nil  BY <1>1, <1>4 DEF MemType
<1>6. Holds(m', l, content[l])  BY <1>1, <1>5 DEF Holds, At
<1>7. ASSUME NEW x \in Lists
      PROVE  IF m'.begin[x] = Garbage THEN content[x] = << >> ELSE Holds(m', x, content[x])
  <2>1. CASE x = l  BY <1>5, <1>6, <2>1, NodeFacts
  <2>2. CASE x # l
    <3>1. m'.begin[x] = m.begin[x] /\ m'.end[x] = m.end[x]  BY <1>1, <1>4, <2>2 DEF MemType
    <3>2. IF m.begin[x] = Garbage THEN content[x] = << >> ELSE Holds(m, x, content[x])
      BY DEF ListInv, Sound
    <3> QED  BY <1>4, <3>1, <3>2, OthersHold
  <2> QED  BY <2>1, <2>2
<1>8. m' # m  BY <1>1, <1>5, NodeFacts
<1>9. Sound(m', content)  BY <1>3, <1>4, <1>7 DEF ListInv, Sound
<1> QED  BY <1>2, <1>8, <1>9 DEF Kept, ListInv

\* Freeing a list with its nodes keeps it.
LEMMA FreeKeepsLists ==
  ASSUME ListInv, NEW l \in Lists, ListFree(l)
  PROVE  Kept
<1> DEFINE q == content[l]
           F == IF IsEmpty(l) THEN {} ELSE {n \in Nodes : Finds(m, l, n)}
           t == [begin |-> [m.begin EXCEPT ![l] = Garbage], end |-> [m.end EXCEPT ![l] = Garbage],
                 next |-> [n \in Nodes |-> IF n \in F THEN Garbage ELSE m.next[n]],
                 prev |-> [n \in Nodes |-> IF n \in F THEN Garbage ELSE m.prev[n]]]
           d == [content EXCEPT ![l] = << >>]
<1>1. Sound(m, content) /\ m.begin[l] # Garbage  BY DEF ListInv, ListFree, Created
<1>2. MemType(m) /\ Distinct(q) /\ Holds(m, l, q) /\ Len(q) \in Nat /\ (m.begin[l] = Nil <=> Len(q) = 0)
  BY <1>1, SoundFacts
<1>3. m' = t /\ ret' = TRUE /\ content' = d  BY DEF ListFree
<1>4. \A n \in Nodes : n \in F <=> \E k \in 1 .. Len(q) : q[k] = n
  <2> HIDE DEF q
  <2>1. \A n \in Nodes : Finds(m, l, n) <=> \E k \in 1 .. Len(q) : q[k] = n  BY <1>2, FindsExact
  <2> QED  BY <1>2, <2>1 DEF IsEmpty
<1> HIDE DEF F
<1>5. /\ t.begin = [m.begin EXCEPT ![l] = Garbage] /\ t.end = [m.end EXCEPT ![l] = Garbage]
      /\ \A n \in Nodes : /\ t.next[n] = IF n \in F THEN Garbage ELSE m.next[n]
                          /\ t.prev[n] = IF n \in F THEN Garbage ELSE m.prev[n]
  OBVIOUS
<1>6. MemType(t)  BY <1>2 DEF MemType, Ptrs
<1>7. /\ d \in [Lists -> Seq(Nodes)] /\ d[l] = << >> /\ Len(d[l]) = 0
      /\ \A x \in Lists : x # l => d[x] = content[x]
  BY <1>1, EmptySeq DEF Sound
<1> HIDE DEF t, d
<1>8. t.begin[l] = Garbage /\ \A x \in Lists : x # l => t.begin[x] = m.begin[x] /\ t.end[x] = m.end[x]
  BY <1>2, <1>5 DEF MemType
<1>9. ASSUME NEW x \in Lists PROVE Distinct(d[x])
  <2>1. CASE x = l
    <3>1. d[x] \in Seq(Nodes) /\ 1 .. Len(d[x]) = {}  BY <1>7, <2>1
    <3> QED  BY <3>1 DEF Distinct
  <2>2. CASE x # l  BY <1>1, <1>7, <2>2 DEF Sound
  <2> QED  BY <2>1, <2>2
<1>10. ASSUME NEW x \in Lists, NEW y \in Lists, NEW i \in 1 .. Len(d[x]),
              NEW j \in 1 .. Len(d[y]), d[x][i] = d[y][j]
       PROVE  x = y
  <2>1. x # l /\ y # l  BY <1>7
  <2> QED  BY <1>1, <1>7, <1>10, <2>1 DEF Sound
<1>11. ASSUME NEW x \in Lists
       PROVE  IF t.begin[x] = Garbage THEN d[x] = << >> ELSE Holds(t, x, d[x])
  <2>1. CASE x = l  BY <1>7, <1>8, <2>1
  <2>2. CASE x # l
    <3>1. t.begin[x] = m.begin[x] /\ t.end[x] = m.end[x] /\ d[x] = content[x]
      BY <1>7, <1>8, <2>2
    <3>2. ASSUME NEW j \in 1 .. Len(content[x])
          PROVE  /\ t.next[content[x][j]] = m.next[content[x][j]]
                 /\ t.prev[content[x][j]] = m.prev[content[x][j]]
      <4>1. content[x][j] \in Nodes  BY <1>1, AtFacts DEF Sound
      <4>2. \A i \in 1 .. Len(q) : q[i] # content[x][j]  BY <1>1, <2>2 DEF Sound
      <4>3. content[x][j] \notin F  BY <1>4, <4>1, <4>2
      <4> QED  BY <1>5, <4>1, <4>3
    <3>3. IF m.begin[x] = Garbage THEN content[x] = << >> ELSE Holds(m, x, content[x])
      BY <1>1 DEF Sound
    <3> QED  BY <3>1, <3>2, <3>3, OthersHold
  <2> QED  BY <2>1, <2>2
<1>12. ASSUME NEW x \in Nodes, Spare(d, x)
       PROVE  t.next[x] \in {Nil, Garbage} /\ t.prev[x] = t.next[x]
  <2>1. CASE x \in F  BY <1>5, <2>1
  <2>2. CASE x \notin F
    <3>1. Spare(content, x)  BY <1>4, <1>7, <1>12, <2>2 DEF Spare
    <3> QED  BY <1>1, <1>5, <2>2, <3>1 DEF Sound
  <2> QED  BY <2>1, <2>2
<1>13. Sound(t, d)  BY <1>6, <1>7, <1>9, <1>10, <1>11, <1>12 DEF Sound
<1>14. t # m  BY <1>1, <1>8
<1> QED  BY <1>3, <1>13, <1>14 DEF Kept, ListInv

\* The place of a node, and who is in which list.
LEMMA PlaceFacts ==
  ASSUME ListInv, NEW l \in Lists
  PROVE  /\ \A n \in Nodes : InList(l, n) <=> \E k \in 1 .. Len(content[l]) : content[l][k] = n
         /\ \A n \in Nodes : Unused(n) <=> Spare(content, n)
         /\ \A n \in Nodes : InList(l, n) =>
              Place(l, n) \in 1 .. Len(content[l]) /\ content[l][Place(l, n)] = n
         /\ Created(l) => \A n \in Nodes : ~ IsEmpty(l) /\ Finds(m, l, n) <=> InList(l, n)
         /\ Created(l) => (IsEmpty(l) <=> content[l] = << >>)
<1>1. \A x \in Lists : content[x] \in Seq(Nodes) /\ DOMAIN content[x] = 1 .. Len(content[x])
  BY DEF ListInv, Sound
<1>2. \A x \in Lists, n \in Nodes : InList(x, n) <=> \E k \in 1 .. Len(content[x]) : content[x][k] = n
  BY <1>1 DEF InList, Elems
<1>3. \A n \in Nodes : Unused(n) <=> Spare(content, n)  BY <1>2 DEF Unused, Spare
<1>4. ASSUME NEW n \in Nodes, InList(l, n)
      PROVE  Place(l, n) \in 1 .. Len(content[l]) /\ content[l][Place(l, n)] = n
  BY <1>1, <1>2, <1>4 DEF Place
<1>5. ASSUME Created(l)
      PROVE  /\ \A n \in Nodes : ~ IsEmpty(l) /\ Finds(m, l, n) <=> InList(l, n)
             /\ IsEmpty(l) <=> content[l] = << >>
  <2> DEFINE q == content[l]
  <2>1. /\ MemType(m) /\ Distinct(q) /\ Holds(m, l, q) /\ Len(q) \in Nat
        /\ m.begin[l] = Nil <=> Len(q) = 0
        /\ q = << >> <=> Len(q) = 0
    BY <1>5, SoundFacts DEF ListInv, Created
  <2> HIDE DEF q
  <2>2. \A n \in Nodes : Finds(m, l, n) <=> \E k \in 1 .. Len(q) : q[k] = n  BY <2>1, FindsExact
  <2>3. \A n \in Nodes : InList(l, n) <=> \E k \in 1 .. Len(q) : q[k] = n  BY <1>2 DEF q
  <2>4. \A n \in Nodes : ~ IsEmpty(l) /\ Finds(m, l, n) <=> InList(l, n)
    BY <2>1, <2>2, <2>3 DEF IsEmpty
  <2> QED  BY <2>1, <2>4 DEF IsEmpty, q
<1> QED  BY <1>2, <1>3, <1>4, <1>5

\* An operation that links a node in.
LEMMA InsertStep ==
  ASSUME ListInv, NEW l \in Lists, Created(l), NEW n \in Nodes, Unused(n),
         NEW k \in 0 .. Len(content[l]), LinkedIn(m', m, l, content[l], k, n),
         content' = Inserted(l, k, n), ret' = TRUE
  PROVE  Kept
<1> DEFINE q == content[l]
           r == SubSeq(q, 1, k) \o <<n>> \o SubSeq(q, k + 1, Len(q))
<1>1. q \in Seq(Nodes) /\ Spare(content, n) /\ m.begin[l] # Garbage
  BY SoundFacts, PlaceFacts DEF ListInv, Created
<1>2. Longer(r, q, k, n)
  <2> HIDE DEF q
  <2> QED  BY <1>1, LongerSeq DEF q
<1>3. \E u : Longer(u, content[l], k, n) /\ content' = [content EXCEPT ![l] = u]
  BY <1>2 DEF Inserted
<1> HIDE DEF q, r
<1>4. Sound(m', content') /\ m' # m
  <2>1. PICK u : Longer(u, content[l], k, n) /\ content' = [content EXCEPT ![l] = u]  BY <1>3
  <2>2. Sound(m, content)  BY DEF ListInv
  <2>3. Sound(m', [content EXCEPT ![l] = u]) /\ m' # m  BY <1>1, <2>1, <2>2, InsertKeeps, Zenon
  <2> QED  BY <2>1, <2>3
<1> QED  BY <1>4 DEF Kept, ListInv

\* An operation that links a node out.
LEMMA TakeStep ==
  ASSUME ListInv, NEW l \in Lists, Created(l), NEW k \in 1 .. Len(content[l]),
         TakenOut(m', m, l, content[l], k), NEW r, Shorter(r, content[l], k),
         content' = [content EXCEPT ![l] = r], ret' = TRUE
  PROVE  Kept
<1>1. Sound(m', content') /\ m' # m  BY TakeKeeps DEF ListInv, Created
<1> QED  BY <1>1 DEF Kept, ListInv

\* An operation that finds nothing to do.
LEMMA NothingStep ==
  ASSUME ListInv, m' = m, content' = content, ret' = FALSE
  PROVE  Kept
BY DEF Kept, ListInv

\* What an action needs of its list.
LEMMA ListFacts ==
  ASSUME ListInv, NEW l \in Lists, Created(l)
  PROVE  /\ MemType(m) /\ Distinct(content[l]) /\ Holds(m, l, content[l])
         /\ content[l] \in Seq(Nodes) /\ Len(content[l]) \in Nat
         /\ content[l] = << >> <=> Len(content[l]) = 0
         /\ \A n \in Nodes : Unused(n) => \A j \in 1 .. Len(content[l]) : content[l][j] # n
<1>1. \A n \in Nodes : Unused(n) => \A j \in 1 .. Len(content[l]) : content[l][j] # n
  BY PlaceFacts DEF Spare
<1> QED  BY <1>1, SoundFacts DEF ListInv, Created

\* list_insert_front_imple
LEMMA FrontKeeps ==
  ASSUME ListInv, NEW l \in Lists, NEW n \in Nodes, InsertFront(l, n)
  PROVE  Kept
<1>1. Created(l) /\ Unused(n) /\ m' = Front(m, l, n) /\ content' = Inserted(l, 0, n) /\ ret' = TRUE
  BY DEF InsertFront
<1>2. LinkedIn(m', m, l, content[l], 0, n)  BY <1>1, ListFacts, FrontLinks
<1>3. 0 \in 0 .. Len(content[l])  BY <1>1, ListFacts
<1> QED  BY <1>1, <1>2, <1>3, InsertStep

\* list_insert_back_imple
LEMMA BackKeeps ==
  ASSUME ListInv, NEW l \in Lists, NEW n \in Nodes, InsertBack(l, n)
  PROVE  Kept
<1>1. /\ Created(l) /\ Unused(n) /\ m' = Back(m, l, n) /\ ret' = TRUE
      /\ content' = Inserted(l, Len(content[l]), n)
  BY DEF InsertBack
<1>2. LinkedIn(m', m, l, content[l], Len(content[l]), n)  BY <1>1, ListFacts, BackLinks
<1>3. Len(content[l]) \in 0 .. Len(content[l])  BY <1>1, ListFacts
<1> QED  BY <1>1, <1>2, <1>3, InsertStep

\* list_insert_after_imple
LEMMA AfterKeeps ==
  ASSUME ListInv, NEW l \in Lists, NEW n \in Nodes, NEW i \in Nodes, InsertAfter(l, n, i)
  PROVE  Kept
<1>0. Created(l) /\ Unused(n)  BY DEF InsertAfter
<1>1. ~ IsEmpty(l) /\ Finds(m, l, i) <=> InList(l, i)  BY <1>0, PlaceFacts
<1>2. CASE InList(l, i)
  <2> DEFINE k == Place(l, i)
  <2>1. k \in 1 .. Len(content[l]) /\ content[l][k] = i  BY <1>2, PlaceFacts
  <2>2. m' = After(m, l, n, i) /\ ret' = TRUE /\ content' = Inserted(l, k, n)
    BY <1>1, <1>2 DEF InsertAfter
  <2> HIDE DEF k
  <2>3. LinkedIn(m', m, l, content[l], k, n)  BY <1>0, <2>1, <2>2, ListFacts, AfterLinks
  <2>4. k \in 0 .. Len(content[l])  BY <1>0, <2>1, ListFacts
  <2> QED  BY <1>0, <2>2, <2>3, <2>4, InsertStep
<1>3. CASE ~ InList(l, i)
  <2>1. m' = m /\ content' = content /\ ret' = FALSE  BY <1>1, <1>3 DEF InsertAfter
  <2> QED  BY <2>1, NothingStep
<1> QED  BY <1>2, <1>3

\* list_insert_before_imple
LEMMA BeforeKeeps ==
  ASSUME ListInv, NEW l \in Lists, NEW n \in Nodes, NEW i \in Nodes, InsertBefore(l, n, i)
  PROVE  Kept
<1>0. Created(l) /\ Unused(n)  BY DEF InsertBefore
<1>1. ~ IsEmpty(l) /\ Finds(m, l, i) <=> InList(l, i)  BY <1>0, PlaceFacts
<1>2. CASE InList(l, i)
  <2> DEFINE k == Place(l, i)
  <2>1. k \in 1 .. Len(content[l]) /\ content[l][k] = i  BY <1>2, PlaceFacts
  <2>2. m' = Before(m, l, n, i) /\ ret' = TRUE /\ content' = Inserted(l, k - 1, n)
    BY <1>1, <1>2 DEF InsertBefore
  <2> HIDE DEF k
  <2>3. LinkedIn(m', m, l, content[l], k - 1, n)  BY <1>0, <2>1, <2>2, ListFacts, BeforeLinks
  <2>4. k - 1 \in 0 .. Len(content[l])  BY <1>0, <2>1, ListFacts
  <2> QED  BY <1>0, <2>2, <2>3, <2>4, InsertStep
<1>3. CASE ~ InList(l, i)
  <2>1. m' = m /\ content' = content /\ ret' = FALSE  BY <1>1, <1>3 DEF InsertBefore
  <2> QED  BY <2>1, NothingStep
<1> QED  BY <1>2, <1>3

\* list_delete_front
LEMMA DeleteFrontKeeps ==
  ASSUME ListInv, NEW l \in Lists, DeleteFront(l)
  PROVE  Kept
<1>0. Created(l) /\ (IsEmpty(l) <=> content[l] = << >>)  BY PlaceFacts DEF DeleteFront
<1>1. CASE content[l] = << >>
  <2>1. m' = m /\ content' = content /\ ret' = FALSE  BY <1>0, <1>1 DEF DeleteFront
  <2> QED  BY <2>1, NothingStep
<1>2. CASE content[l] # << >>
  <2> DEFINE r == Tail(content[l])
  <2>1. m' = WithoutFront(m, l) /\ content' = [content EXCEPT ![l] = r] /\ ret' = TRUE
    BY <1>0, <1>2 DEF DeleteFront
  <2>2. Shorter(r, content[l], 1) /\ Len(content[l]) >= 1 /\ Len(content[l]) \in Nat
    BY <1>0, <1>2, ListFacts, ShorterEnds
  <2> HIDE DEF r
  <2>3. 1 \in 1 .. Len(content[l]) /\ Len(content[l]) # 0  BY <2>2
  <2>4. TakenOut(m', m, l, content[l], 1)  BY <1>0, <2>1, <2>3, ListFacts, FrontTakes
  <2> QED  BY <1>0, <2>1, <2>2, <2>3, <2>4, TakeStep
<1> QED  BY <1>1, <1>2

\* list_delete_back
LEMMA DeleteBackKeeps ==
  ASSUME ListInv, NEW l \in Lists, DeleteBack(l)
  PROVE  Kept
<1>0. Created(l) /\ (IsEmpty(l) <=> content[l] = << >>)  BY PlaceFacts DEF DeleteBack
<1>1. CASE content[l] = << >>
  <2>1. m' = m /\ content' = content /\ ret' = FALSE  BY <1>0, <1>1 DEF DeleteBack
  <2> QED  BY <2>1, NothingStep
<1>2. CASE content[l] # << >>
  <2> DEFINE r == SubSeq(content[l], 1, Len(content[l]) - 1)
             k == Len(content[l])
  <2>1. m' = WithoutBack(m, l) /\ content' = [content EXCEPT ![l] = r] /\ ret' = TRUE
    BY <1>0, <1>2 DEF DeleteBack
  <2>2. Shorter(r, content[l], k) /\ k >= 1 /\ k \in Nat
    BY <1>0, <1>2, ListFacts, ShorterEnds
  <2> HIDE DEF r
  <2>3. k \in 1 .. k /\ k # 0  BY <2>2
  <2>4. TakenOut(m', m, l, content[l], k)  BY <1>0, <2>1, <2>3, ListFacts, BackTakes
  <2> QED  BY <1>0, <2>1, <2>2, <2>3, <2>4, TakeStep
<1> QED  BY <1>1, <1>2

\* list_delete_imple
LEMMA DeleteKeeps ==
  ASSUME ListInv, NEW l \in Lists, NEW n \in Nodes, ListDelete(l, n)
  PROVE  Kept
<1>0. Created(l)  BY DEF ListDelete
<1>1. ~ IsEmpty(l) /\ Finds(m, l, n) <=> InList(l, n)  BY <1>0, PlaceFacts
<1>2. CASE InList(l, n)
  <2> DEFINE q == content[l]
             k == Place(l, n)
             r == SubSeq(q, 1, k - 1) \o SubSeq(q, k + 1, Len(q))
  <2>1. k \in 1 .. Len(q) /\ q[k] = n  BY <1>2, PlaceFacts
  <2>2. m' = Deleted(m, l, n) /\ ret' = TRUE /\ content' = [content EXCEPT ![l] = r]
    BY <1>1, <1>2 DEF ListDelete, Without
  <2> HIDE DEF k
  <2>3. TakenOut(m', m, l, q, k)  BY <1>0, <2>1, <2>2, ListFacts, DeletedTakes
  <2>4. Shorter(r, q, k)  BY <1>0, <2>1, ListFacts, ShorterSeq
  <2> HIDE DEF r
  <2> QED  BY <1>0, <2>1, <2>2, <2>3, <2>4, TakeStep
<1>3. CASE ~ InList(l, n)
  <2>1. m' = m /\ content' = content /\ ret' = FALSE  BY <1>1, <1>3 DEF ListDelete
  <2> QED  BY <2>1, NothingStep
<1> QED  BY <1>2, <1>3

\* link_node_delete_imple
LEMMA NodeDeleteKeeps ==
  ASSUME ListInv, NEW l \in Lists, NEW n \in Nodes, NodeDelete(l, n)
  PROVE  Kept
<1> DEFINE q == content[l]
           k == Place(l, n)
           r == SubSeq(q, 1, k - 1) \o SubSeq(q, k + 1, Len(q))
<1>0. Created(l) /\ InList(l, n)  BY DEF NodeDelete
<1>1. k \in 1 .. Len(q) /\ q[k] = n  BY <1>0, PlaceFacts
<1>2. m' = NodeDeleted(m, l, n) /\ ret' = TRUE /\ content' = [content EXCEPT ![l] = r]
  BY DEF NodeDelete, Without
<1> HIDE DEF k
<1>3. TakenOut(m', m, l, q, k)  BY <1>0, <1>1, <1>2, ListFacts, NodeDeletedTakes
<1>4. Shorter(r, q, k)  BY <1>0, <1>1, ListFacts, ShorterSeq
<1> HIDE DEF r
<1> QED  BY <1>0, <1>1, <1>2, <1>3, <1>4, TakeStep

\* Every step keeps the lists, and says TRUE when it has changed something.
LEMMA ListsKeep ==
  ASSUME ListInv, [ListNext]_listVars
  PROVE  ListInv' /\ [ret' <=> m' # m]_listVars
<1>1. CASE UNCHANGED listVars  BY <1>1 DEF listVars, ListInv
<1>2. CASE ListNext
  <2>1. PICK l \in Lists :
          \/ ListCreate(l) \/ DeleteFront(l) \/ DeleteBack(l) \/ ListFree(l)
          \/ \E n \in Nodes :
               \/ InsertFront(l, n) \/ InsertBack(l, n) \/ ListDelete(l, n) \/ NodeDelete(l, n)
               \/ \E i \in Nodes : InsertAfter(l, n, i) \/ InsertBefore(l, n, i)
    BY <1>2 DEF ListNext
  <2>2. Kept
    BY <2>1, CreateKeepsLists, FreeKeepsLists, DeleteFrontKeeps, DeleteBackKeeps, FrontKeeps,
       BackKeeps, AfterKeeps, BeforeKeeps, DeleteKeeps, NodeDeleteKeeps
  <2> QED  BY <2>2 DEF Kept
<1> QED  BY <1>1, <1>2

\* Sound lists are exact.
LEMMA InvGivesExact == ListInv => ListsExact
<1> SUFFICES ASSUME ListInv PROVE ListsExact  OBVIOUS
<1>1. ASSUME NEW l \in Lists, Created(l)
      PROVE  LET s == content[l] IN
               /\ m.begin[l] = IF s = << >> THEN Nil ELSE s[1]
               /\ m.end[l] = IF s = << >> THEN Nil ELSE s[Len(s)]
               /\ \A k \in DOMAIN s :
                    /\ m.next[s[k]] = IF k = Len(s) THEN Nil ELSE s[k + 1]
                    /\ m.prev[s[k]] = IF k = 1 THEN Nil ELSE s[k - 1]
  <2> DEFINE q == content[l]
  <2>1. /\ Holds(m, l, q) /\ Len(q) \in Nat /\ (q = << >> <=> Len(q) = 0)
        /\ DOMAIN q = 1 .. Len(q) /\ MemType(m) /\ Distinct(q)
    <3>1. q \in Seq(Nodes)  BY <1>1, ListFacts
    <3> QED  BY <1>1, <3>1, ListFacts
  <2> HIDE DEF q
  <2>0. /\ Len(q) = 0 => m.begin[l] = Nil /\ m.end[l] = Nil
        /\ Len(q) > 0 => m.begin[l] = q[1] /\ m.end[l] = q[Len(q)]
    BY <2>1, HeldFacts
  <2>2. m.begin[l] = IF q = << >> THEN Nil ELSE q[1]  BY <2>0, <2>1
  <2>3. m.end[l] = IF q = << >> THEN Nil ELSE q[Len(q)]  BY <2>0, <2>1
  <2>4. ASSUME NEW k \in 1 .. Len(q)
        PROVE  /\ m.next[q[k]] = IF k = Len(q) THEN Nil ELSE q[k + 1]
               /\ m.prev[q[k]] = IF k = 1 THEN Nil ELSE q[k - 1]
    <3>1. Len(q) \in Nat  BY <2>1
    <3>2. k + 1 \in 1 .. Len(q) <=> k # Len(q)  BY <3>1
    <3>3. k - 1 \in 1 .. Len(q) <=> k # 1  BY <3>1
    <3>4. m.next[q[k]] = At(q, k + 1) /\ m.prev[q[k]] = At(q, k - 1)  BY <2>1 DEF Holds
    <3>5. At(q, k + 1) = IF k = Len(q) THEN Nil ELSE q[k + 1]  BY <3>2 DEF At
    <3>6. At(q, k - 1) = IF k = 1 THEN Nil ELSE q[k - 1]  BY <3>3 DEF At
    <3> QED  BY <3>4, <3>5, <3>6
  <2> QED  BY <2>1, <2>2, <2>3, <2>4 DEF q
<1>2. ASSUME NEW n \in Nodes, Unused(n)
      PROVE  m.next[n] \in {Nil, Garbage} /\ m.prev[n] = m.next[n]
  <2>1. \A l \in Lists : Unused(n) <=> Spare(content, n)  BY PlaceFacts
  <2>2. Lists = {} => Spare(content, n)  BY DEF Spare
  <2>3. Spare(content, n)  BY <1>2, <2>1, <2>2
  <2> QED  BY <2>3 DEF ListInv, Sound
<1> QED  BY <1>1, <1>2 DEF ListsExact

\* linklist.c: whatever inserts and deletes are mixed on any number of lists,
\* forwards and backwards every list has exactly its nodes in the order that was
\* asked for, and a node that has been taken out links to nothing.
THEOREM ListsSafe == ListSpec => []ListsExact
<1>1. ListInv /\ [ListNext]_listVars => ListInv'  BY ListsKeep
<1> QED  BY <1>1, InitLists, InvGivesExact, PTL DEF ListSpec

\* A call on a list returns TRUE exactly when it has changed the lists.
THEOREM ListsTell == ListSpec => RetExact
<1>1. ListInv /\ [ListNext]_listVars => ListInv' /\ [ret' <=> m' # m]_listVars  BY ListsKeep
<1> QED  BY <1>1, InitLists, PTL DEF ListSpec, RetExact
=============================================================================
