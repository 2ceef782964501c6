------------------------ MODULE MatchingEngineProofs ------------------------
(***************************************************************************)
(* Proofs about MatchingEngine, for every set of ids and prices, every     *)
(* MaxQty and every number of requests.                                    *)
(*                                                                         *)
(* The argument.  A request or a match changes one queue, and changes it   *)
(* in one of two ways: it takes orders out and keeps the others in place   *)
(* (cancel, match: Shrunk below), or it appends one (add).  The invariants *)
(* about a queue survive the first because they speak of every pair of its *)
(* orders, and the second because the order appended is in no queue        *)
(* (IndexTracksBook), is younger than every order queued (TimePriority)    *)
(* and does not cross the other side when the loop has ended (LoopDone).   *)
(* A reply tells of every trade of its order because the trades of the     *)
(* order matched are the end of the log.                                   *)
(* The second half shows that the engine implements PriceTimeBook: Init    *)
(* maps to BookInit, and every step to a step of the book or to a stutter, *)
(* given that invariant and that a trade is numbered by its place in the   *)
(* log.                                                                    *)
(***************************************************************************)
EXTENDS MatchingEngineRefinement, SequenceTheorems, TLAPS

-----------------------------------------------------------------------------
(* The queue operators.                                                    *)

\* q2 is q1 with some orders taken out: ids and stamps keep their order.
Shrunk(q2, q1) ==
  \E f \in [DOMAIN q2 -> DOMAIN q1] :
    /\ \A i \in DOMAIN q2 : /\ q2[i].id = q1[f[i]].id
                            /\ q2[i].stamp = q1[f[i]].stamp
    /\ \A i, j \in DOMAIN q2 : i < j => f[i] < f[j]

\* q2 is q1 without the order id, and otherwise the same.
TakenOut(q2, q1, id) ==
  /\ Shrunk(q2, q1)
  /\ \A i \in DOMAIN q2 : q2[i].id # id /\ \E j \in DOMAIN q1 : q2[i] = q1[j]
  /\ \A j \in DOMAIN q1 : q1[j].id # id => \E i \in DOMAIN q2 : q2[i] = q1[j]

UniqueIds(q) == \A i, j \in DOMAIN q : q[i].id = q[j].id => i = j

\* What queue.retain does: the order with that id is gone, the others stay as
\* they were, in their order.
LEMMA RetainProperties ==
  ASSUME NEW q \in Seq(Entry), NEW id \in Id, UniqueIds(q)
  PROVE  /\ Retain(q, id) \in Seq(Entry)
         /\ TakenOut(Retain(q, id), q, id)
<1>0. /\ Len(q) \in Nat
      /\ DOMAIN q = 1..Len(q)
      /\ \A i \in 1..Len(q) : q[i] \in Entry
  BY LenProperties, ElementOfSeq
<1>1. CASE ~Holds(q, id)
  <2>1. Retain(q, id) = q
    BY <1>1 DEF Retain
  <2>2. Shrunk(q, q)
    <3>1. /\ [i \in DOMAIN q |-> i] \in [DOMAIN q -> DOMAIN q]
          /\ \A i \in DOMAIN q : [j \in DOMAIN q |-> j][i] = i
      OBVIOUS
    <3> QED  BY <3>1, Zenon DEF Shrunk
  <2> QED  BY <1>1, <2>1, <2>2 DEF Holds, TakenOut
<1>2. CASE Holds(q, id)
  <2> DEFINE k == CHOOSE i \in DOMAIN q : q[i].id = id
             r == Retain(q, id)
             f == [i \in 1..(Len(q) - 1) |-> IF i < k THEN i ELSE i + 1]
  <2>1. k \in DOMAIN q /\ q[k].id = id
    BY <1>2 DEF Holds
  <2>2. r = [i \in 1..(Len(q) - 1) |-> IF i < k THEN q[i] ELSE q[i + 1]]
    BY <1>2 DEF Retain
  <2> HIDE DEF k
  <2>3. Len(q) - 1 \in Nat
    BY <1>0, <2>1
  <2>4. /\ r \in Seq(Entry)
        /\ DOMAIN r = 1..(Len(q) - 1)
        /\ \A i \in DOMAIN r : r[i] = q[f[i]]
    <3>1. r \in [1..(Len(q) - 1) -> Entry]
      BY <1>0, <2>2, <2>1
    <3>2. r \in Seq(Entry)
      BY <2>3, <3>1, SeqDef
    <3> QED  BY <2>2, <3>1, <3>2
  <2>5. /\ f \in [DOMAIN r -> DOMAIN q]
        /\ \A i, j \in DOMAIN r : i < j => f[i] < f[j]
    BY <1>0, <2>1, <2>4
  <2>6. \A i \in DOMAIN r : f[i] # k
    BY <1>0, <2>1, <2>4
  <2>7. \A j \in DOMAIN q : j # k => \E i \in DOMAIN r : f[i] = j
    <3>1. SUFFICES ASSUME NEW j \in DOMAIN q, j # k
                   PROVE  \E i \in DOMAIN r : f[i] = j
      OBVIOUS
    <3>2. CASE j < k
      <4>1. j \in DOMAIN r /\ f[j] = j
        BY <1>0, <2>1, <2>4, <3>1, <3>2
      <4> QED  BY <4>1
    <3>3. CASE j > k
      <4>1. j - 1 \in DOMAIN r /\ f[j - 1] = j
        BY <1>0, <2>1, <2>4, <3>1, <3>3
      <4> QED  BY <4>1
    <3> QED  BY <1>0, <2>1, <3>1, <3>2, <3>3
  <2> HIDE DEF r, f
  <2>8. Shrunk(r, q)
    BY <2>4, <2>5, Zenon DEF Shrunk
  <2>9. \A i \in DOMAIN r : r[i].id # id /\ \E j \in DOMAIN q : r[i] = q[j]
    BY <2>1, <2>4, <2>5, <2>6 DEF UniqueIds
  <2>10. \A j \in DOMAIN q : q[j].id # id => \E i \in DOMAIN r : r[i] = q[j]
    BY <2>1, <2>4, <2>7
  <2> QED  BY <2>4, <2>8, <2>9, <2>10 DEF r, TakenOut
<1> QED  BY <1>1, <1>2

\* What the loop does to the front of a queue: a part-filled order keeps its
\* place with fewer lots, a filled one is gone, the others stay.
LEMMA RequeueProperties ==
  ASSUME NEW q \in Seq(Entry), q # <<>>, NEW left \in 0..MaxQty,
         NEW front, front = [id |-> q[1].id, qty |-> left, stamp |-> q[1].stamp],
         NEW r, r = Requeue(Tail(q), front)
  PROVE  /\ Head(q) = q[1]
         /\ 1 \in DOMAIN q
         /\ r \in Seq(Entry)
         /\ Shrunk(r, q)
         /\ \A i \in DOMAIN r : \/ left > 0 /\ r[i] = front
                                \/ \E j \in DOMAIN q : j # 1 /\ r[i] = q[j]
         /\ left > 0 => \E i \in DOMAIN r : r[i] = front
         /\ \A j \in DOMAIN q : j # 1 => \E i \in DOMAIN r : r[i] = q[j]
<1>0. /\ Len(q) \in Nat \ {0}
      /\ DOMAIN q = 1..Len(q)
      /\ q[1] \in Entry
      /\ Head(q) = q[1]
  BY LenProperties, ElementOfSeq, EmptySeq
<1>1. /\ Tail(q) \in Seq(Entry)
      /\ Len(Tail(q)) = Len(q) - 1
      /\ DOMAIN Tail(q) = 1..(Len(q) - 1)
      /\ \A i \in 1..(Len(q) - 1) : Tail(q)[i] = q[i + 1]
  BY <1>0, HeadTailProperties, LenProperties
<1>2. front.qty = left /\ front.id = q[1].id /\ front.stamp = q[1].stamp
  OBVIOUS
<1>3. CASE left = 0
  <2> DEFINE f == [i \in 1..(Len(q) - 1) |-> i + 1]
  <2>1. r = Tail(q)
    BY <1>2, <1>3 DEF Requeue
  <2>2. /\ f \in [DOMAIN r -> DOMAIN q]
        /\ \A i, j \in DOMAIN r : i < j => f[i] < f[j]
        /\ \A i \in DOMAIN r : r[i] = q[f[i]] /\ f[i] # 1
    BY <1>0, <1>1, <2>1
  <2>3. \A j \in DOMAIN q : j # 1 => \E i \in DOMAIN r : r[i] = q[j]
    <3>1. ASSUME NEW j \in DOMAIN q, j # 1
          PROVE  j - 1 \in DOMAIN r /\ r[j - 1] = q[j]
      BY <1>0, <1>1, <2>1, <3>1
    <3> QED  BY <3>1
  <2> HIDE DEF f
  <2>4. Shrunk(r, q)
    BY <2>2, Zenon DEF Shrunk
  <2>5. \A i \in DOMAIN r : \E j \in DOMAIN q : j # 1 /\ r[i] = q[j]
    BY <2>2
  <2> QED  BY <1>0, <1>1, <1>3, <2>1, <2>3, <2>4, <2>5
<1>4. CASE left > 0
  <2>1. front \in Entry
    BY <1>0, <1>4, BoundAssumption DEF Entry
  <2>2. r = <<front>> \o Tail(q)
    BY <1>2, <1>4 DEF Requeue
  <2>3. /\ r \in Seq(Entry)
        /\ DOMAIN r = DOMAIN q
        /\ r[1] = front
        /\ \A i \in DOMAIN q : i # 1 => r[i] = q[i]
    <3>1. <<front>> \in Seq(Entry) /\ Len(<<front>>) = 1 /\ <<front>>[1] = front
      BY <2>1
    <3>2. /\ r \in Seq(Entry)
          /\ Len(r) = Len(q)
          /\ \A i \in 1..Len(q) : r[i] = IF i <= 1 THEN <<front>>[i] ELSE Tail(q)[i - 1]
      BY <1>0, <1>1, <2>2, <3>1, ConcatProperties
    <3>3. DOMAIN r = DOMAIN q
      BY <1>0, <3>2, LenProperties
    <3>4. r[1] = front
      BY <1>0, <3>1, <3>2
    <3>5. ASSUME NEW i \in DOMAIN q, i # 1  PROVE r[i] = q[i]
      <4>1. i - 1 \in 1..(Len(q) - 1) /\ r[i] = Tail(q)[i - 1]
        BY <1>0, <3>2, <3>5
      <4> QED  BY <1>0, <1>1, <4>1
    <3> QED  BY <3>2, <3>3, <3>4, <3>5
  <2>4. Shrunk(r, q)
    <3> DEFINE f == [i \in DOMAIN q |-> i]
    <3>1. /\ f \in [DOMAIN r -> DOMAIN q]
          /\ \A i, j \in DOMAIN r : i < j => f[i] < f[j]
          /\ \A i \in DOMAIN r : r[i].id = q[f[i]].id /\ r[i].stamp = q[f[i]].stamp
      BY <1>0, <1>2, <2>3
    <3> HIDE DEF f
    <3> QED  BY <3>1, Zenon DEF Shrunk
  <2>5. \A i \in DOMAIN r : \/ r[i] = front
                            \/ \E j \in DOMAIN q : j # 1 /\ r[i] = q[j]
    BY <2>3
  <2> QED  BY <1>0, <1>4, <2>3, <2>4, <2>5
<1> QED  BY <1>3, <1>4, BoundAssumption
Ordered(q) == \A i, j \in DOMAIN q : i < j => q[i].stamp < q[j].stamp

\* Taking orders out of a queue leaves its ids unique, its stamps in order,
\* and adds no order.
LEMMA ShrunkProperties ==
  ASSUME NEW q1 \in Seq(Entry), NEW q2 \in Seq(Entry), Shrunk(q2, q1)
  PROVE  /\ UniqueIds(q1) => UniqueIds(q2)
         /\ Ordered(q1) => Ordered(q2)
         /\ \A i \in DOMAIN q2 : \E j \in DOMAIN q1 :
              q2[i].id = q1[j].id /\ q2[i].stamp = q1[j].stamp
<1>1. PICK f \in [DOMAIN q2 -> DOMAIN q1] :
        /\ \A i \in DOMAIN q2 : /\ q2[i].id = q1[f[i]].id
                                /\ q2[i].stamp = q1[f[i]].stamp
        /\ \A i, j \in DOMAIN q2 : i < j => f[i] < f[j]
  BY DEF Shrunk
<1>2. /\ \A i \in DOMAIN q2 : i \in Nat
      /\ \A i \in DOMAIN q1 : i \in Nat
  BY LenProperties
<1>3. ASSUME UniqueIds(q1), NEW i \in DOMAIN q2, NEW j \in DOMAIN q2, q2[i].id = q2[j].id
      PROVE  i = j
  <2>1. f[i] = f[j]
    BY <1>1, <1>3 DEF UniqueIds
  <2>2. ~(f[i] < f[j]) /\ ~(f[j] < f[i])
    BY <1>1, <1>2, <2>1
  <2> QED  BY <1>1, <1>2, <2>2
<1>4. ASSUME Ordered(q1)  PROVE Ordered(q2)
  BY <1>1, <1>4 DEF Ordered
<1> QED  BY <1>1, <1>3, <1>4 DEF UniqueIds

\* The queues after a cancel: the order is in none of them, the other orders
\* are where they were.
LEMMA CancelProperties ==
  ASSUME TypeOK, IndexTracksBook, NEW id \in Id
  PROVE  /\ AfterCancel(id) \in [Side -> [Price -> Seq(Entry)]]
         /\ \A s \in Side, p \in Price :
              TakenOut(AfterCancel(id)[s][p], queue[s][p], id)
<1>1. \A s \in Side, p \in Price : /\ queue[s][p] \in Seq(Entry)
                                   /\ UniqueIds(queue[s][p])
                                   /\ Shrunk(queue[s][p], queue[s][p])
  <2>1. ASSUME NEW q \in Seq(Entry)  PROVE Shrunk(q, q)
    <3>1. /\ [i \in DOMAIN q |-> i] \in [DOMAIN q -> DOMAIN q]
          /\ \A i \in DOMAIN q : [j \in DOMAIN q |-> j][i] = i
      OBVIOUS
    <3> QED  BY <3>1, Zenon DEF Shrunk
  <2>2. \A s \in Side, p \in Price : queue[s][p] \in Seq(Entry)
    BY DEF TypeOK
  <2>3. \A s \in Side, p \in Price : UniqueIds(queue[s][p])
    BY DEF IndexTracksBook, UniqueIds
  <2> QED  BY <2>1, <2>2, <2>3
<1>2. \A s \in Side, p \in Price : \A i \in DOMAIN queue[s][p] :
        index[queue[s][p][i].id] = [side |-> s, price |-> p]
  BY DEF IndexTracksBook
<1>3. CASE index[id] = NoPlace
  <2>1. AfterCancel(id) = queue
    BY <1>3 DEF AfterCancel
  <2>2. ASSUME NEW s \in Side, NEW p \in Price, NEW i \in DOMAIN queue[s][p],
               queue[s][p][i].id = id
        PROVE  FALSE
    <3>1. NoPlace = [side |-> s, price |-> p]
      BY <1>2, <1>3, <2>2
    <3> QED  BY <3>1, NoPlaceAssumption DEF Place
  <2>3. queue \in [Side -> [Price -> Seq(Entry)]]
    BY DEF TypeOK
  <2> QED  BY <1>1, <2>1, <2>2, <2>3 DEF TakenOut
<1>4. CASE index[id] # NoPlace
  <2> DEFINE s0 == index[id].side
             p0 == index[id].price
             r  == Retain(queue[s0][p0], id)
  <2>1. s0 \in Side /\ p0 \in Price
    BY <1>4 DEF TypeOK, Place
  <2>2. AfterCancel(id) = [queue EXCEPT ![s0][p0] = r]
    BY <1>4 DEF AfterCancel
  <2>3. r \in Seq(Entry) /\ TakenOut(r, queue[s0][p0], id)
    BY <1>1, <2>1, RetainProperties
  <2>4. ASSUME NEW s \in Side, NEW p \in Price, s # s0 \/ p # p0,
               NEW i \in DOMAIN queue[s][p]
        PROVE  queue[s][p][i].id # id
    <3>1. index[queue[s][p][i].id] = [side |-> s, price |-> p]
      BY <1>2
    <3> QED  BY <2>4, <3>1
  <2> HIDE DEF s0, p0, r
  <2>5. /\ AfterCancel(id) \in [Side -> [Price -> Seq(Entry)]]
        /\ AfterCancel(id)[s0][p0] = r
        /\ \A s \in Side, p \in Price : s # s0 \/ p # p0 => AfterCancel(id)[s][p] = queue[s][p]
    BY <2>1, <2>2, <2>3 DEF TypeOK
  <2>6. ASSUME NEW s \in Side, NEW p \in Price
        PROVE  TakenOut(AfterCancel(id)[s][p], queue[s][p], id)
    <3>1. CASE s = s0 /\ p = p0
      BY <2>3, <2>5, <3>1
    <3>2. CASE s # s0 \/ p # p0
      BY <1>1, <2>4, <2>5, <3>2 DEF TakenOut
    <3> QED  BY <3>1, <3>2
  <2> QED  BY <2>5, <2>6
<1> QED  BY <1>3, <1>4
-----------------------------------------------------------------------------
(* The inductive invariant: the conjunction of the properties.  None of    *)
(* the parts is inductive alone.  IndexTracksBook needs Conservation (an   *)
(* id never submitted is in no queue), Conservation needs IndexTracksBook  *)
(* (a trade changes the balance of one queued order and of the taker).     *)

IInv ==
  /\ TypeOK
  /\ IndexTracksBook
  /\ Uncrossed
  /\ TimePriority
  /\ Conservation
  /\ Whereabouts

\* What the invariant says of one queued order, in forms that are easy to cite.
LEMMA QueuedTyped ==
  ASSUME TypeOK, NEW s \in Side, NEW p \in Price, NEW i \in DOMAIN queue[s][p]
  PROVE  /\ queue[s][p][i] \in Entry
         /\ queue[s][p][i].id \in Id
         /\ queue[s][p][i].qty \in 1..MaxQty
         /\ queue[s][p][i].stamp \in Nat
<1>1. queue[s][p] \in Seq(Entry)
  BY DEF TypeOK
<1>2. queue[s][p][i] \in Entry
  BY <1>1, LenProperties, ElementOfSeq
<1> QED  BY <1>2 DEF Entry

LEMMA QueuedIndexed ==
  ASSUME IndexTracksBook, NEW s \in Side, NEW p \in Price, NEW i \in DOMAIN queue[s][p]
  PROVE  index[queue[s][p][i].id] = [side |-> s, price |-> p] /\ p \in levels[s]
BY DEF IndexTracksBook

LEMMA QueuedAge ==
  ASSUME TimePriority, NEW s \in Side, NEW p \in Price, NEW i \in DOMAIN queue[s][p]
  PROVE  /\ queue[s][p][i].stamp <= clock
         /\ active # NoOrder => queue[s][p][i].stamp < active.stamp
BY DEF TimePriority

LEMMA QueuedBalance ==
  ASSUME Conservation, NEW s \in Side, NEW p \in Price, NEW i \in DOMAIN queue[s][p]
  PROVE  queue[s][p][i].qty + filled[queue[s][p][i].id] = submitted[queue[s][p][i].id]
BY DEF Conservation

LEMMA QueuedSubmitted ==
  ASSUME TypeOK, Conservation,
         NEW s \in Side, NEW p \in Price, NEW i \in DOMAIN queue[s][p]
  PROVE  submitted[queue[s][p][i].id] > 0
<1>1. queue[s][p][i].id \in Id /\ queue[s][p][i].qty \in 1..MaxQty
  BY QueuedTyped
<1>2. queue[s][p][i].qty + filled[queue[s][p][i].id] = submitted[queue[s][p][i].id]
  BY QueuedBalance
<1> QED  BY <1>1, <1>2, BoundAssumption DEF TypeOK

LEMMA QueuedNotGone ==
  ASSUME Whereabouts, NEW s \in Side, NEW p \in Price, NEW i \in DOMAIN queue[s][p]
  PROVE  queue[s][p][i].id \notin gone
BY DEF Whereabouts, Queued

LEMMA QueuedNotMatching ==
  ASSUME IndexTracksBook, active # NoOrder,
         NEW s \in Side, NEW p \in Price, NEW i \in DOMAIN queue[s][p]
  PROVE  queue[s][p][i].id # active.id
BY DEF IndexTracksBook, Matching

LEMMA InitIInv == Init => IInv
<1> SUFFICES ASSUME Init PROVE IInv
  OBVIOUS
<1>1. \A s \in Side, p \in Price : queue[s][p] = <<>> /\ DOMAIN queue[s][p] = {}
  BY DEF Init
<1>2. TypeOK
  <2>1. queue \in [Side -> [Price -> Seq(Entry)]]
    <3>1. <<>> \in Seq(Entry)
      BY EmptySeq
    <3> QED  BY <3>1 DEF Init
  <2>2. log \in Seq(Trade)
    BY EmptySeq DEF Init
  <2>3. /\ submitted \in [Id -> 0..MaxQty] /\ filled \in [Id -> Nat]
        /\ clock \in 0..MaxRequests
    BY BoundAssumption DEF Init
  <2> QED  BY <2>1, <2>2, <2>3 DEF Init, TypeOK
<1>3. IndexTracksBook /\ TimePriority /\ Conservation /\ Uncrossed
  BY <1>1 DEF Init, IndexTracksBook, TimePriority, Conservation, Uncrossed, Side
<1>4. Whereabouts
  BY <1>1 DEF Init, Whereabouts, Queued, Matching
<1> QED  BY <1>2, <1>3, <1>4 DEF IInv

\* A submission with a fresh id.
LEMMA SubmitStep ==
  ASSUME IInv, NEW id \in Id, NEW side \in Side, NEW price \in Price,
         NEW qty \in 0..MaxQty, SubmitOrder(id, side, price, qty)
  PROVE  IInv'
<1> USE DEF IInv
<1>0. /\ TypeOK
      /\ active' = [id |-> id, side |-> side, price |-> price, qty |-> qty,
                    stamp |-> clock + 1, trades |-> <<>>]
      /\ active = NoOrder
      /\ clock \in Nat /\ clock' = clock + 1
      /\ clock' <= MaxRequests
      /\ qty \in 1..MaxQty
      /\ submitted[id] = 0
      /\ submitted' = [submitted EXCEPT ![id] = qty]
      /\ filled' = [filled EXCEPT ![id] = 0]
      /\ gone' = gone \ {id}
      /\ created' = TRUE
      /\ UNCHANGED <<queue, levels, index, sequence, log>>
  BY BoundAssumption DEF IInv, TypeOK, SubmitOrder, Begin, Validate, book
<1>1. active' \in Taker
  <2>1. <<>> \in Seq(Trade)
    BY EmptySeq
  <2> QED  BY <1>0, <2>1 DEF Taker
<1>2. active' # NoOrder
  BY <1>1, NoOrderAssumption
<1>3. TypeOK'
  BY <1>0, <1>1, BoundAssumption DEF TypeOK
<1>4. ASSUME NEW s \in Side, NEW p \in Price, NEW i \in DOMAIN queue[s][p]
      PROVE  queue[s][p][i].id # id
  <2>1. submitted[queue[s][p][i].id] > 0
    BY QueuedSubmitted
  <2> QED  BY <1>0, <2>1
<1>5. IndexTracksBook'
  BY <1>0, <1>4 DEF IInv, IndexTracksBook, Matching
<1>6. Uncrossed'
  BY <1>0 DEF IInv, Uncrossed
<1>7. TimePriority'
  <2>1. \A s \in Side, p \in Price : \A i \in DOMAIN queue[s][p] :
          /\ queue[s][p][i].stamp \in Nat
          /\ queue[s][p][i].stamp <= clock
    BY QueuedTyped, QueuedAge
  <2>2. \A s \in Side, p \in Price : \A i \in DOMAIN queue[s][p] :
          /\ queue[s][p][i].stamp <= clock'
          /\ queue[s][p][i].stamp < active'.stamp
    BY <1>0, <2>1
  <2> QED  BY <1>0, <2>2 DEF IInv, TimePriority
<1>8. Conservation'
  <2>1. ASSUME NEW s \in Side, NEW p \in Price, NEW i \in DOMAIN queue[s][p]
        PROVE  queue[s][p][i].qty + filled'[queue[s][p][i].id] = submitted'[queue[s][p][i].id]
    <3>2. queue[s][p][i].qty + filled[queue[s][p][i].id] = submitted[queue[s][p][i].id]
      BY QueuedBalance
    <3>3. queue[s][p][i].id \in Id \ {id}
      BY <1>4, QueuedTyped
    <3>4. /\ filled'[queue[s][p][i].id] = filled[queue[s][p][i].id]
          /\ submitted'[queue[s][p][i].id] = submitted[queue[s][p][i].id]
      BY <1>0, <3>3 DEF TypeOK
    <3> QED  BY <3>2, <3>4
  <2>2. active'.qty + filled'[active'.id] = submitted'[active'.id]
    BY <1>0 DEF TypeOK
  <2>3. \A x \in Id : filled'[x] <= submitted'[x]
    BY <1>0 DEF IInv, Conservation, TypeOK
  <2> QED  BY <1>0, <2>1, <2>2, <2>3 DEF Conservation
<1>9. Whereabouts'
  <2>1. ASSUME NEW x \in Id, x # id
        PROVE  submitted'[x] = submitted[x] /\ filled'[x] = filled[x]
    BY <1>0, <2>1 DEF TypeOK
  <2>2. \A x \in Id : (Queued(x))' <=> Queued(x)
    BY <1>0 DEF Queued
  <2>3. \A x \in Id : Matching(x)' <=> x = id
    BY <1>0, <1>2 DEF Matching
  <2>4. \A x \in gone : x \in Id
    BY <1>0 DEF TypeOK
  <2>5. \A x \in Id : ~Matching(x)
    BY <1>0 DEF Matching
  <2> QED  BY <1>0, <2>1, <2>2, <2>3, <2>4, <2>5 DEF IInv, Whereabouts
<1> QED  BY <1>3, <1>5, <1>6, <1>7, <1>8, <1>9 DEF IInv
\* What is true of every order still queued once an order was taken out of the
\* book, whatever the step does to the other variables.
LEMMA AfterTakingOut ==
  ASSUME IInv, NEW id \in Id, queue' = AfterCancel(id),
         index' = [index EXCEPT ![id] = NoPlace]
  PROVE  /\ queue' \in [Side -> [Price -> Seq(Entry)]]
         /\ index' \in [Id -> Place \cup {NoPlace}]
         /\ \A s \in Side, p \in Price :
              /\ UniqueIds(queue'[s][p])
              /\ Ordered(queue'[s][p])
         /\ \A s \in Side, p \in Price : \A i \in DOMAIN queue'[s][p] :
              \E j \in DOMAIN queue[s][p] : queue'[s][p][i] = queue[s][p][j]
         /\ \A s \in Side, p \in Price : \A i \in DOMAIN queue'[s][p] :
              queue'[s][p][i].id # id
         /\ \A s \in Side, p \in Price : \A i \in DOMAIN queue'[s][p] :
              index'[queue'[s][p][i].id] = [side |-> s, price |-> p]
         /\ \A x \in Id \ {id} : Queued(x) => Queued(x)'
<1> USE DEF IInv
<1>1. TypeOK /\ IndexTracksBook
  OBVIOUS
<1>2. queue' \in [Side -> [Price -> Seq(Entry)]]
  BY <1>1, CancelProperties
<1>3. \A s \in Side, p \in Price : TakenOut(queue'[s][p], queue[s][p], id)
  BY <1>1, CancelProperties
<1>4. \A s \in Side, p \in Price :
        /\ queue[s][p] \in Seq(Entry)
        /\ queue'[s][p] \in Seq(Entry)
        /\ UniqueIds(queue[s][p])
        /\ Ordered(queue[s][p])
  <2>1. \A s \in Side, p \in Price : queue[s][p] \in Seq(Entry) /\ queue'[s][p] \in Seq(Entry)
    BY <1>1, <1>2 DEF TypeOK
  <2>2. \A s \in Side, p \in Price : UniqueIds(queue[s][p])
    BY DEF IndexTracksBook, UniqueIds
  <2>3. \A s \in Side, p \in Price : Ordered(queue[s][p])
    BY DEF TimePriority, Ordered
  <2> QED  BY <2>1, <2>2, <2>3
<1>5. \A s \in Side, p \in Price : UniqueIds(queue'[s][p]) /\ Ordered(queue'[s][p])
  BY <1>3, <1>4, ShrunkProperties DEF TakenOut
<1>6. /\ \A s \in Side, p \in Price : \A i \in DOMAIN queue'[s][p] :
           \E j \in DOMAIN queue[s][p] : queue'[s][p][i] = queue[s][p][j]
      /\ \A s \in Side, p \in Price : \A i \in DOMAIN queue'[s][p] :
           queue'[s][p][i].id # id
  BY <1>3 DEF TakenOut
<1>8. ASSUME NEW s \in Side, NEW p \in Price, NEW i \in DOMAIN queue'[s][p]
      PROVE  index'[queue'[s][p][i].id] = [side |-> s, price |-> p]
  <2>1. PICK j \in DOMAIN queue[s][p] : queue'[s][p][i] = queue[s][p][j]
    BY <1>6
  <2>2. queue'[s][p][i].id # id
    BY <1>6
  <2>3. queue[s][p][j].id \in Id
    BY QueuedTyped
  <2>4. index[queue[s][p][j].id] = [side |-> s, price |-> p]
    BY QueuedIndexed
  <2> QED  BY <1>1, <2>1, <2>2, <2>3, <2>4 DEF TypeOK
<1>7. ASSUME NEW x \in Id \ {id}, Queued(x)  PROVE Queued(x)'
  <2>1. PICK s \in Side, p \in Price : \E j \in DOMAIN queue[s][p] : queue[s][p][j].id = x
    BY <1>7 DEF Queued
  <2>2. \E i \in DOMAIN queue'[s][p] : queue'[s][p][i].id = x
    BY <1>3, <2>1 DEF TakenOut
  <2> QED  BY <2>2 DEF Queued
<1>9. index' \in [Id -> Place \cup {NoPlace}]
  BY <1>1 DEF TypeOK
<1> QED  BY <1>2, <1>5, <1>6, <1>7, <1>8, <1>9

LEMMA CancelStep ==
  ASSUME IInv, NEW id \in Id, CancelOrder(id)
  PROVE  IInv'
<1> USE DEF IInv
<1>0. /\ TypeOK
      /\ active = NoOrder /\ active' = NoOrder
      /\ queue' = AfterCancel(id)
      /\ index' = [index EXCEPT ![id] = NoPlace]
      /\ gone' = gone \cup {id}
      /\ UNCHANGED <<levels, sequence, created, log, submitted, filled, clock>>
  BY DEF IInv, CancelOrder
<1>1. /\ queue' \in [Side -> [Price -> Seq(Entry)]]
      /\ index' \in [Id -> Place \cup {NoPlace}]
  BY <1>0, AfterTakingOut
<1>2. \A s \in Side, p \in Price : UniqueIds(queue'[s][p]) /\ Ordered(queue'[s][p])
  BY <1>0, AfterTakingOut
<1>3. /\ \A s \in Side, p \in Price : \A i \in DOMAIN queue'[s][p] :
           \E j \in DOMAIN queue[s][p] : queue'[s][p][i] = queue[s][p][j]
      /\ \A s \in Side, p \in Price : \A i \in DOMAIN queue'[s][p] :
           queue'[s][p][i].id # id
  BY <1>0, AfterTakingOut
<1>10. \A s \in Side, p \in Price : \A i \in DOMAIN queue'[s][p] :
         index'[queue'[s][p][i].id] = [side |-> s, price |-> p]
  BY <1>0, AfterTakingOut
<1>4. TypeOK'
  BY <1>0, <1>1 DEF TypeOK
<1>5. IndexTracksBook'
  <2>1. ASSUME NEW s \in Side, NEW p \in Price, NEW i \in DOMAIN queue'[s][p]
        PROVE  p \in levels'[s]
    <3>1. PICK j \in DOMAIN queue[s][p] : queue'[s][p][i] = queue[s][p][j]
      BY <1>3
    <3> QED  BY <1>0, <3>1, QueuedIndexed
  <2> QED  BY <1>0, <1>2, <1>10, <2>1 DEF IndexTracksBook, UniqueIds, Matching
<1>6. Uncrossed'
  BY <1>0 DEF IInv, Uncrossed
<1>7. TimePriority'
  <2>1. ASSUME NEW s \in Side, NEW p \in Price, NEW i \in DOMAIN queue'[s][p]
        PROVE  queue'[s][p][i].stamp <= clock'
    <3>1. PICK j \in DOMAIN queue[s][p] : queue'[s][p][i] = queue[s][p][j]
      BY <1>3
    <3> QED  BY <1>0, <3>1, QueuedAge
  <2> QED  BY <1>0, <1>2, <2>1 DEF TimePriority, Ordered
<1>8. Conservation'
  <2>1. ASSUME NEW s \in Side, NEW p \in Price, NEW i \in DOMAIN queue'[s][p]
        PROVE  queue'[s][p][i].qty + filled'[queue'[s][p][i].id] = submitted'[queue'[s][p][i].id]
    <3>1. PICK j \in DOMAIN queue[s][p] : queue'[s][p][i] = queue[s][p][j]
      BY <1>3
    <3> QED  BY <1>0, <3>1, QueuedBalance
  <2> QED  BY <1>0, <2>1 DEF IInv, Conservation
<1>9. Whereabouts'
  <2>1. \A x \in Id \ {id} : Queued(x) => Queued(x)'
    BY <1>0, AfterTakingOut
  <2>2. \A x \in gone' : ~Queued(x)'
    <3>1. ASSUME NEW x \in gone', Queued(x)'  PROVE FALSE
      <4>1. PICK s \in Side, p \in Price : \E i \in DOMAIN queue'[s][p] : queue'[s][p][i].id = x
        BY <3>1 DEF Queued
      <4>2. PICK i \in DOMAIN queue'[s][p] : queue'[s][p][i].id = x
        BY <4>1
      <4>3. PICK j \in DOMAIN queue[s][p] : queue'[s][p][i] = queue[s][p][j]
        BY <1>3
      <4>4. x # id
        BY <1>3, <4>2
      <4>5. x \notin gone
        BY <4>2, <4>3, QueuedNotGone
      <4> QED  BY <1>0, <3>1, <4>4, <4>5
    <3> QED  BY <3>1
  <2>3. \A x \in Id : ~Matching(x) /\ ~Matching(x)'
    BY <1>0 DEF Matching
  <2>4. \A x \in gone' : x \in Id
    BY <1>4 DEF TypeOK
  <2> QED  BY <1>0, <2>1, <2>2, <2>3, <2>4 DEF IInv, Whereabouts
<1> QED  BY <1>4, <1>5, <1>6, <1>7, <1>8, <1>9 DEF IInv
\* A replacement: the cancel, then a submission under the same id.
LEMMA ReplaceStep ==
  ASSUME IInv, NEW id \in Id, NEW side \in Side, NEW price \in Price,
         NEW qty \in 0..MaxQty, ReplaceOrder(id, side, price, qty)
  PROVE  IInv'
<1> USE DEF IInv
<1>0. /\ TypeOK
      /\ active = NoOrder
      /\ active' = [id |-> id, side |-> side, price |-> price, qty |-> qty,
                    stamp |-> clock + 1, trades |-> <<>>]
      /\ clock \in Nat /\ clock' = clock + 1 /\ clock' <= MaxRequests
      /\ qty \in 1..MaxQty
      /\ queue' = AfterCancel(id)
      /\ index' = [index EXCEPT ![id] = NoPlace]
      /\ submitted' = [submitted EXCEPT ![id] = qty]
      /\ filled' = [filled EXCEPT ![id] = 0]
      /\ gone' = gone \ {id}
      /\ UNCHANGED <<levels, sequence, created, log>>
  BY BoundAssumption DEF TypeOK, ReplaceOrder, Begin, Validate
<1>1. active' \in Taker /\ active' # NoOrder
  <2>1. <<>> \in Seq(Trade)
    BY EmptySeq
  <2>2. active' \in Taker
    BY <1>0, <2>1 DEF Taker
  <2> QED  BY <2>2, NoOrderAssumption
<1>2. \A s \in Side, p \in Price : UniqueIds(queue'[s][p]) /\ Ordered(queue'[s][p])
  BY <1>0, AfterTakingOut
<1>3. /\ \A s \in Side, p \in Price : \A i \in DOMAIN queue'[s][p] :
           \E j \in DOMAIN queue[s][p] : queue'[s][p][i] = queue[s][p][j]
      /\ \A s \in Side, p \in Price : \A i \in DOMAIN queue'[s][p] :
           queue'[s][p][i].id # id
  BY <1>0, AfterTakingOut
<1>4. \A s \in Side, p \in Price : \A i \in DOMAIN queue'[s][p] :
        index'[queue'[s][p][i].id] = [side |-> s, price |-> p]
  BY <1>0, AfterTakingOut
<1>5. TypeOK'
  <2>1. /\ queue' \in [Side -> [Price -> Seq(Entry)]]
        /\ index' \in [Id -> Place \cup {NoPlace}]
    BY <1>0, AfterTakingOut
  <2> QED  BY <1>0, <1>1, <2>1, BoundAssumption DEF TypeOK
<1>6. IndexTracksBook'
  <2>1. ASSUME NEW s \in Side, NEW p \in Price, NEW i \in DOMAIN queue'[s][p]
        PROVE  p \in levels'[s]
    <3>1. PICK j \in DOMAIN queue[s][p] : queue'[s][p][i] = queue[s][p][j]
      BY <1>3
    <3> QED  BY <1>0, <3>1, QueuedIndexed
  <2>2. ASSUME NEW s \in Side, NEW p \in Price, NEW i \in DOMAIN queue'[s][p]
        PROVE  queue'[s][p][i].id # active'.id
    <3>1. active'.id = id
      BY <1>0
    <3> QED  BY <1>3, <3>1
  <2> QED  BY <1>2, <1>4, <2>1, <2>2 DEF IndexTracksBook, UniqueIds, Matching
<1>7. Uncrossed'
  BY <1>0 DEF Uncrossed
<1>8. TimePriority'
  <2>1. ASSUME NEW s \in Side, NEW p \in Price, NEW i \in DOMAIN queue'[s][p]
        PROVE  queue'[s][p][i].stamp <= clock' /\ queue'[s][p][i].stamp < active'.stamp
    <3>1. PICK j \in DOMAIN queue[s][p] : queue'[s][p][i] = queue[s][p][j]
      BY <1>3
    <3>2. queue[s][p][j].stamp <= clock
      BY QueuedAge
    <3>3. queue[s][p][j].stamp \in Nat
      BY QueuedTyped
    <3> QED  BY <1>0, <3>1, <3>2, <3>3
  <2> QED  BY <1>0, <1>2, <2>1 DEF TimePriority, Ordered
<1>9. Conservation'
  <2>1. ASSUME NEW s \in Side, NEW p \in Price, NEW i \in DOMAIN queue'[s][p]
        PROVE  queue'[s][p][i].qty + filled'[queue'[s][p][i].id] = submitted'[queue'[s][p][i].id]
    <3>1. PICK j \in DOMAIN queue[s][p] : queue'[s][p][i] = queue[s][p][j]
      BY <1>3
    <3>2. queue[s][p][j].id # id
      BY <1>3, <3>1
    <3>3. queue[s][p][j].id \in Id
      BY QueuedTyped
    <3>4. /\ filled'[queue[s][p][j].id] = filled[queue[s][p][j].id]
          /\ submitted'[queue[s][p][j].id] = submitted[queue[s][p][j].id]
      BY <1>0, <3>2, <3>3 DEF TypeOK
    <3> QED  BY <3>1, <3>4, QueuedBalance
  <2>2. active'.qty + filled'[active'.id] = submitted'[active'.id]
    BY <1>0 DEF TypeOK
  <2>3. \A x \in Id : filled'[x] <= submitted'[x]
    BY <1>0 DEF Conservation, TypeOK
  <2> QED  BY <2>1, <2>2, <2>3 DEF Conservation
<1>10. Whereabouts'
  <2>1. \A x \in Id \ {id} : Queued(x) => Queued(x)'
    BY <1>0, AfterTakingOut
  <2>2. ASSUME NEW x \in gone', Queued(x)'  PROVE FALSE
    <3>1. PICK s \in Side, p \in Price : \E i \in DOMAIN queue'[s][p] : queue'[s][p][i].id = x
      BY <2>2 DEF Queued
    <3>2. PICK i \in DOMAIN queue'[s][p] : queue'[s][p][i].id = x
      BY <3>1
    <3>3. PICK j \in DOMAIN queue[s][p] : queue'[s][p][i] = queue[s][p][j]
      BY <1>3
    <3>4. x \notin gone
      BY <3>2, <3>3, QueuedNotGone
    <3> QED  BY <1>0, <2>2, <3>4
  <2>3. \A x \in Id : ~Matching(x) /\ (Matching(x)' <=> x = id)
    BY <1>0, <1>1 DEF Matching
  <2>4. \A x \in gone' : x \in Id
    BY <1>5 DEF TypeOK
  <2>5. ASSUME NEW x \in Id, x # id
        PROVE  submitted'[x] = submitted[x] /\ filled'[x] = filled[x]
    BY <1>0, <2>5 DEF TypeOK
  <2> QED  BY <1>0, <2>1, <2>2, <2>3, <2>4, <2>5 DEF Whereabouts
<1> QED  BY <1>5, <1>6, <1>7, <1>8, <1>9, <1>10

\* The panic: the taker goes, the book stays as the loop left it.
LEMMA PanicStep ==
  ASSUME IInv, NEW p \in Price, Panic(p)
  PROVE  IInv'
<1> USE DEF IInv
<1>0. /\ TypeOK
      /\ active # NoOrder /\ active' = NoOrder
      /\ active.id \in Id
      /\ gone' = gone \cup {active.id}
      /\ UNCHANGED <<queue, levels, index, sequence, created,
                     log, submitted, filled, clock>>
  BY DEF Panic, Drop, Matchable, book, TypeOK, Taker
<1>1. TypeOK'
  BY <1>0 DEF TypeOK
<1>2. IndexTracksBook'
  BY <1>0 DEF IndexTracksBook, Matching
<1>3. Uncrossed'
  BY <1>0 DEF Uncrossed
<1>4. TimePriority'
  BY <1>0 DEF TimePriority
<1>5. Conservation'
  BY <1>0 DEF Conservation
<1>6. Whereabouts'
  <2>1. \A x : Queued(x)' <=> Queued(x)
    BY <1>0 DEF Queued
  <2>2. ~Queued(active.id)
    BY <1>0 DEF IndexTracksBook, Queued, Matching
  <2>3. \A x : ~Matching(x)' /\ (Matching(x) <=> x = active.id)
    BY <1>0 DEF Matching
  <2> QED  BY <1>0, <2>1, <2>2, <2>3 DEF Whereabouts
<1> QED  BY <1>1, <1>2, <1>3, <1>4, <1>5, <1>6

\* Both orders of a trade gain its lots, no other order does.
LEMMA BothGain ==
  ASSUME NEW F \in [Id -> Nat], NEW a \in Id, NEW b \in Id, a # b, NEW n \in Nat,
         NEW G, G = [F EXCEPT ![a] = @ + n, ![b] = @ + n]
  PROVE  /\ G \in [Id -> Nat]
         /\ G[a] = F[a] + n
         /\ G[b] = F[b] + n
         /\ \A x \in Id : x # a /\ x # b => G[x] = F[x]
<1>1. F[a] + n \in Nat /\ F[b] + n \in Nat
  OBVIOUS
<1>2. G = [x \in Id |-> IF x = b THEN F[b] + n ELSE IF x = a THEN F[a] + n ELSE F[x]]
  OBVIOUS
<1> QED  BY <1>1, <1>2

\* One iteration of the loop.
LEMMA MatchStep ==
  ASSUME IInv, NEW p \in Price, Match(p)
  PROVE  IInv'
<1> USE DEF IInv
<1> DEFINE side    == Opposite(active.side)
           q       == queue[side][p]
           resting == Head(q)
           fill    == Least(active.qty, resting.qty)
           left    == resting.qty - fill
           front   == [resting EXCEPT !.qty = @ - fill]
           r       == Requeue(Tail(q), front)
           trade   == TradeOf(active, resting, p, fill)
<1>0. /\ TypeOK
      /\ active # NoOrder
      /\ q # <<>>
      /\ active.qty > 0
      /\ queue' = [queue EXCEPT ![side][p] = r]
      /\ active' = [active EXCEPT !.qty = @ - fill, !.trades = Append(@, trade)]
      /\ log' = Append(log, trade)
      /\ filled' = [filled EXCEPT ![active.id] = @ + fill, ![resting.id] = @ + fill]
      /\ sequence' = sequence + 1
      /\ UNCHANGED <<levels, index, created, submitted, gone, clock>>
  BY DEF Match, Matchable
<1>1. /\ active \in Taker
      /\ active.id \in Id /\ active.side \in Side /\ active.qty \in 0..MaxQty
      /\ active.stamp \in Nat /\ active.trades \in Seq(Trade)
      /\ side \in Side
  BY <1>0 DEF TypeOK, Taker, Opposite, Side
<1>2. q \in Seq(Entry)
  BY <1>0, <1>1 DEF TypeOK
<1>3. /\ 1 \in DOMAIN q
      /\ resting = q[1]
      /\ resting \in Entry
      /\ resting.id \in Id /\ resting.qty \in 1..MaxQty /\ resting.stamp \in Nat
  <2>1. Len(q) \in Nat \ {0} /\ DOMAIN q = 1..Len(q) /\ Head(q) = q[1] /\ q[1] \in Entry
    BY <1>0, <1>2, LenProperties, EmptySeq, ElementOfSeq
  <2> QED  BY <2>1 DEF Entry
<1> HIDE DEF resting, q, side
<1>4. /\ fill \in Nat \ {0} /\ fill <= active.qty /\ fill <= resting.qty
      /\ left \in 0..MaxQty
      /\ active.qty - fill \in 0..MaxQty
      /\ left = 0 \/ active.qty - fill = 0
  <2>1. active.qty \in 1..MaxQty
    BY <1>0, <1>1
  <2>2. resting.qty \in 1..MaxQty
    BY <1>3
  <2> QED  BY <2>1, <2>2, BoundAssumption DEF Least
<1> HIDE DEF fill
<1>5. front = [id |-> resting.id, qty |-> left, stamp |-> resting.stamp]
  BY <1>3 DEF Entry
<1>6. resting.id # active.id
  BY <1>0, <1>1, <1>3, QueuedNotMatching DEF q
<1> HIDE DEF left, front, r
<1>7. /\ r \in Seq(Entry)
      /\ Shrunk(r, q)
      /\ \A i \in DOMAIN r : \/ left > 0 /\ r[i] = front
                             \/ \E j \in DOMAIN q : j # 1 /\ r[i] = q[j]
      /\ left > 0 => \E i \in DOMAIN r : r[i] = front
      /\ \A j \in DOMAIN q : j # 1 => \E i \in DOMAIN r : r[i] = q[j]
  <2>1. front = [id |-> q[1].id, qty |-> left, stamp |-> q[1].stamp]
    BY <1>3, <1>5
  <2> QED  BY <1>0, <1>2, <1>4, <2>1, RequeueProperties DEF r
<1>8. /\ queue' \in [Side -> [Price -> Seq(Entry)]]
      /\ queue'[side][p] = r
      /\ queue[side][p] = q
      /\ \A s \in Side, x \in Price : s # side \/ x # p => queue'[s][x] = queue[s][x]
  BY <1>0, <1>1, <1>7 DEF TypeOK, q
<1>9. trade \in Trade
  <2>1. sequence + 1 \in Nat
    BY <1>0 DEF TypeOK
  <2> QED  BY <1>1, <1>3, <1>4, <2>1 DEF TradeOf, Trade
<1> HIDE DEF trade
<1>10. /\ active'.id = active.id /\ active'.stamp = active.stamp
       /\ active'.qty = active.qty - fill
       /\ active' \in Taker /\ active' # NoOrder
  <2>1. Append(active.trades, trade) \in Seq(Trade)
    BY <1>1, <1>9, AppendProperties
  <2>2. active' \in Taker
    BY <1>0, <1>1, <1>4, <2>1 DEF Taker
  <2> QED  BY <1>0, <1>1, <2>2, NoOrderAssumption DEF Taker
<1>11. /\ filled' \in [Id -> Nat]
       /\ filled'[active.id] = filled[active.id] + fill
       /\ filled'[resting.id] = filled[resting.id] + fill
       /\ \A x \in Id : x # active.id /\ x # resting.id => filled'[x] = filled[x]
  <2>1. filled \in [Id -> Nat]
    BY <1>0 DEF TypeOK
  <2>2. filled' = [filled EXCEPT ![active.id] = @ + fill, ![resting.id] = @ + fill]
    BY <1>0
  <2>3. active.id \in Id /\ resting.id \in Id /\ active.id # resting.id /\ fill \in Nat
    BY <1>1, <1>3, <1>4, <1>6
  <2> QED  BY <2>1, <2>2, <2>3, BothGain
<1>12. TypeOK'
  <2>1. log' \in Seq(Trade)
    BY <1>0, <1>9, AppendProperties DEF TypeOK
  <2>2. /\ sequence' = sequence + 1
        /\ UNCHANGED <<levels, index, created, submitted, gone, clock>>
    BY <1>0
  <2>3. queue' \in [Side -> [Price -> Seq(Entry)]] /\ active' \in Taker
    BY <1>8, <1>10
  <2>4. filled' \in [Id -> Nat]
    BY <1>11
  <2> QED  BY <2>1, <2>2, <2>3, <2>4 DEF TypeOK
\* Every order now queued was queued there before, with the same id and age.
<1>13. ASSUME NEW s \in Side, NEW x \in Price
       PROVE  /\ UniqueIds(queue'[s][x])
              /\ Ordered(queue'[s][x])
              /\ \A i \in DOMAIN queue'[s][x] : \E j \in DOMAIN queue[s][x] :
                   /\ queue'[s][x][i].id = queue[s][x][j].id
                   /\ queue'[s][x][i].stamp = queue[s][x][j].stamp
  <2>1. UniqueIds(queue[s][x]) /\ Ordered(queue[s][x])
    BY DEF IndexTracksBook, TimePriority, UniqueIds, Ordered
  <2>2. CASE s = side /\ x = p
    <3>1. UniqueIds(q) /\ Ordered(q)
      BY <1>8, <2>1, <2>2
    <3>2. /\ UniqueIds(r) /\ Ordered(r)
          /\ \A i \in DOMAIN r : \E j \in DOMAIN q :
               r[i].id = q[j].id /\ r[i].stamp = q[j].stamp
      BY <1>2, <1>7, <3>1, ShrunkProperties
    <3>3. queue'[s][x] = r /\ queue[s][x] = q
      BY <1>8, <2>2
    <3> QED  BY <3>2, <3>3
  <2>3. CASE s # side \/ x # p
    BY <1>8, <2>1, <2>3
  <2> QED  BY <2>2, <2>3
<1>14. IndexTracksBook'
  <2>1. ASSUME NEW s \in Side, NEW x \in Price, NEW i \in DOMAIN queue'[s][x]
        PROVE  /\ index'[queue'[s][x][i].id] = [side |-> s, price |-> x]
               /\ x \in levels'[s]
               /\ queue'[s][x][i].id # active'.id
    <3>1. PICK j \in DOMAIN queue[s][x] : queue'[s][x][i].id = queue[s][x][j].id
      BY <1>13
    <3>2. index[queue[s][x][j].id] = [side |-> s, price |-> x] /\ x \in levels[s]
      BY QueuedIndexed
    <3>3. queue[s][x][j].id # active.id
      BY <1>0, QueuedNotMatching
    <3> QED  BY <1>0, <1>10, <3>1, <3>2, <3>3
  <2>2. \A s \in Side, x \in Price : UniqueIds(queue'[s][x])
    BY <1>13
  <2> QED  BY <2>1, <2>2 DEF IndexTracksBook, UniqueIds, Matching
<1>15. Uncrossed'
  BY <1>0 DEF Uncrossed
<1>16. TimePriority'
  <2>1. ASSUME NEW s \in Side, NEW x \in Price, NEW i \in DOMAIN queue'[s][x]
        PROVE  queue'[s][x][i].stamp <= clock' /\ queue'[s][x][i].stamp < active'.stamp
    <3>1. PICK j \in DOMAIN queue[s][x] : queue'[s][x][i].stamp = queue[s][x][j].stamp
      BY <1>13
    <3> QED  BY <1>0, <1>10, <3>1, QueuedAge
  <2>2. \A s \in Side, x \in Price : Ordered(queue'[s][x])
    BY <1>13
  <2>3. active'.stamp <= clock'
    BY <1>0, <1>10 DEF TimePriority
  <2> QED  BY <2>1, <2>2, <2>3 DEF TimePriority, Ordered
<1>17. resting.qty + filled[resting.id] = submitted[resting.id]
  <2>1. q[1].qty + filled[q[1].id] = submitted[q[1].id]
    BY <1>1, <1>3, <1>8, QueuedBalance
  <2> QED  BY <1>3, <2>1
<1>18. left + filled'[resting.id] = submitted[resting.id]
  BY <1>3, <1>4, <1>11, <1>17 DEF TypeOK, left
<1>19. Conservation'
  <2>1. ASSUME NEW s \in Side, NEW x \in Price, NEW i \in DOMAIN queue'[s][x]
        PROVE  queue'[s][x][i].qty + filled'[queue'[s][x][i].id] = submitted'[queue'[s][x][i].id]
    <3>1. ASSUME NEW j \in DOMAIN queue[s][x], queue'[s][x][i] = queue[s][x][j],
                 s = side /\ x = p => j # 1
          PROVE  queue'[s][x][i].qty + filled'[queue'[s][x][i].id] = submitted'[queue'[s][x][i].id]
      <4>1. queue[s][x][j].id \in Id /\ queue[s][x][j].id # active.id
        BY <1>0, QueuedTyped, QueuedNotMatching
      <4>2. queue[s][x][j].id # resting.id
        <5>1. CASE s = side /\ x = p
          <6>1. UniqueIds(q)
            BY <1>1, <1>8 DEF IndexTracksBook, UniqueIds
          <6>2. j \in DOMAIN q /\ j # 1 /\ queue[s][x][j] = q[j]
            BY <1>8, <3>1, <5>1
          <6> QED  BY <1>3, <6>1, <6>2 DEF UniqueIds
        <5>2. CASE s # side \/ x # p
          <6>1. index[queue[s][x][j].id] = [side |-> s, price |-> x]
            BY QueuedIndexed
          <6>2. index[resting.id] = [side |-> side, price |-> p]
            BY <1>1, <1>3, <1>8, QueuedIndexed
          <6> QED  BY <5>2, <6>1, <6>2
        <5> QED  BY <5>1, <5>2
      <4>3. filled'[queue[s][x][j].id] = filled[queue[s][x][j].id]
        BY <1>11, <4>1, <4>2
      <4> QED  BY <1>0, <3>1, <4>3, QueuedBalance
    <3>2. CASE s # side \/ x # p
      BY <1>8, <3>1, <3>2
    <3>3. CASE s = side /\ x = p
      <4>1. CASE queue'[s][x][i] = front
        BY <1>0, <1>5, <1>18, <4>1
      <4>2. CASE \E j \in DOMAIN q : j # 1 /\ r[i] = q[j]
        BY <1>8, <3>1, <3>3, <4>2
      <4> QED  BY <1>7, <1>8, <3>3, <4>1, <4>2
    <3> QED  BY <3>2, <3>3
  <2>2. active'.qty + filled'[active'.id] = submitted'[active'.id]
    <3>1. active.qty + filled[active.id] = submitted[active.id]
      BY <1>0 DEF Conservation
    <3> QED  BY <1>0, <1>1, <1>4, <1>10, <1>11, <3>1 DEF TypeOK
  <2>3. ASSUME NEW x \in Id  PROVE filled'[x] <= submitted'[x]
    <3>1. CASE x = active.id
      <4>1. active'.qty \in Nat /\ active'.id = active.id
        BY <1>1, <1>4, <1>10, BoundAssumption
      <4>2. filled'[x] \in Nat /\ submitted'[x] \in Nat
        BY <1>12, BoundAssumption DEF TypeOK
      <4> QED  BY <2>2, <3>1, <4>1, <4>2
    <3>2. CASE x = resting.id
      BY <1>0, <1>3, <1>4, <1>11, <1>18, <3>2 DEF TypeOK
    <3>3. CASE x # active.id /\ x # resting.id
      BY <1>0, <1>11, <3>3 DEF Conservation
    <3> QED  BY <3>1, <3>2, <3>3
  <2> QED  BY <2>1, <2>2, <2>3 DEF Conservation
<1>20. Whereabouts'
  <2>1. \A x \in Id : Matching(x)' <=> Matching(x)
    BY <1>0, <1>10 DEF Matching
  <2>2. ASSUME NEW x \in Id, Queued(x)'  PROVE Queued(x)
    <3>1. PICK s \in Side, y \in Price : \E i \in DOMAIN queue'[s][y] : queue'[s][y][i].id = x
      BY <2>2 DEF Queued
    <3>2. PICK i \in DOMAIN queue'[s][y] : queue'[s][y][i].id = x
      BY <3>1
    <3>3. PICK j \in DOMAIN queue[s][y] : queue'[s][y][i].id = queue[s][y][j].id
      BY <1>13
    <3> QED  BY <3>2, <3>3 DEF Queued
  <2>3. ASSUME NEW x \in Id, Queued(x), x # resting.id  PROVE Queued(x)'
    <3>1. PICK s \in Side, y \in Price : \E j \in DOMAIN queue[s][y] : queue[s][y][j].id = x
      BY <2>3 DEF Queued
    <3>2. PICK j \in DOMAIN queue[s][y] : queue[s][y][j].id = x
      BY <3>1
    <3>3. CASE s # side \/ y # p
      BY <1>8, <3>2, <3>3 DEF Queued
    <3>4. CASE s = side /\ y = p
      <4>1. j # 1
        BY <1>3, <1>8, <2>3, <3>2, <3>4
      <4>2. \E i \in DOMAIN r : r[i] = q[j]
        BY <1>7, <1>8, <3>4, <4>1
      <4> QED  BY <1>8, <3>2, <3>4, <4>2 DEF Queued
    <3> QED  BY <3>3, <3>4
  <2>4. ASSUME NEW x \in Id, x = resting.id, left > 0  PROVE Queued(x)'
    <3>1. \E i \in DOMAIN r : r[i].id = x
      BY <1>5, <1>7, <2>4
    <3>2. \E i \in DOMAIN queue'[side][p] : queue'[side][p][i].id = x
      BY <1>8, <3>1
    <3> QED  BY <1>1, <3>2 DEF Queued
  <2>5. left = 0 => filled'[resting.id] = submitted'[resting.id]
    BY <1>0, <1>3, <1>11, <1>18 DEF TypeOK
  <2>6. left = 0 \/ left > 0
    BY <1>4, BoundAssumption
  <2>7. ASSUME NEW x \in Id, submitted'[x] > 0
        PROVE  filled'[x] = submitted'[x] \/ Queued(x)' \/ Matching(x)' \/ x \in gone'
    <3>1. CASE x = resting.id
      <4>1. CASE left = 0
        BY <2>5, <3>1, <4>1
      <4>2. CASE left > 0
        BY <2>4, <3>1, <4>2
      <4> QED  BY <2>6, <4>1, <4>2
    <3>2. CASE x = active.id
      BY <1>0, <2>1, <3>2 DEF Matching
    <3>3. CASE x # resting.id /\ x # active.id
      BY <1>0, <1>11, <2>1, <2>3, <2>7, <3>3 DEF Whereabouts
    <3> QED  BY <3>1, <3>2, <3>3
  <2>8. \A x \in gone' : x \in Id
    BY <1>12 DEF TypeOK
  <2>9. \A x \in gone' : ~Queued(x)' /\ ~Matching(x)'
    BY <1>0, <2>1, <2>2, <2>8 DEF Whereabouts
  <2> QED  BY <2>7, <2>9 DEF Whereabouts
<1> QED  BY <1>12, <1>14, <1>15, <1>16, <1>19, <1>20
\* The end of the loop: the empty levels go, and the taker rests or is filled.
LEMMA FinishStep ==
  ASSUME IInv, Finish
  PROVE  IInv'
<1> USE DEF IInv
<1> DEFINE side  == active.side
           price == active.price
           id    == active.id
           rest  == Resting(active)
           q     == queue[side][price]
<1>0. /\ TypeOK
      /\ active # NoOrder /\ active' = NoOrder
      /\ UNCHANGED <<sequence, created, log, submitted, filled, gone, clock>>
  BY DEF Finish, LoopDone
<1>1. /\ id \in Id /\ side \in Side /\ price \in Price
      /\ active.qty \in 0..MaxQty /\ active.stamp \in Nat
      /\ active.trades \in Seq(Trade)
  BY <1>0 DEF TypeOK, Taker
<1>3. \A s \in Side : levels'[s] = NonEmpty(s) \cup
                        (IF active.qty > 0 /\ s = side THEN {price} ELSE {})
  BY DEF Finish
<1>4. levels' \in [Side -> SUBSET Price]
  <2>1. \A s \in Side : levels[s] \subseteq Price
    BY <1>0 DEF TypeOK
  <2>2. levels' = [s \in Side |-> NonEmpty(s) \cup
                     (IF active.qty > 0 /\ s = side THEN {price} ELSE {})]
    BY DEF Finish
  <2> QED  BY <1>1, <2>1, <2>2 DEF NonEmpty
<1>5. \A s \in Side, p \in Price : \A i \in DOMAIN queue[s][p] :
        p \in levels'[s]
  <2>1. ASSUME NEW s \in Side, NEW p \in Price, NEW i \in DOMAIN queue[s][p]
        PROVE  p \in NonEmpty(s)
    <3>1. p \in levels[s]
      BY QueuedIndexed
    <3>2. queue[s][p] # <<>>
      BY EmptySeq
    <3> QED  BY <3>1, <3>2 DEF NonEmpty
  <2> QED  BY <1>3, <2>1
<1>6. ASSUME active.qty = 0  PROVE IInv'
  <2>1. queue' = queue /\ index' = index
    BY <1>6 DEF Finish
  <2>2. TypeOK'
    BY <1>0, <1>4, <2>1 DEF TypeOK
  <2>3. IndexTracksBook'
    BY <1>0, <1>5, <2>1 DEF IndexTracksBook, Matching
  <2>4. Uncrossed'
    <3>1. \A s \in Side : levels'[s] \subseteq levels[s]
      BY <1>3, <1>6 DEF NonEmpty
    <3> QED  BY <3>1 DEF Uncrossed, Side
  <2>5. TimePriority'
    BY <1>0, <2>1 DEF TimePriority
  <2>6. Conservation'
    BY <1>0, <2>1 DEF Conservation
  <2>7. Whereabouts'
    <3>1. \A x : Queued(x)' <=> Queued(x)
      BY <2>1 DEF Queued
    <3>2. \A x \in Id : ~Matching(x)' /\ (Matching(x) => x = id)
      BY <1>0 DEF Matching
    <3>3. filled[id] = submitted[id]
      BY <1>0, <1>1, <1>6 DEF Conservation, TypeOK
    <3>4. \A x \in gone : x \in Id
      BY <1>0 DEF TypeOK
    <3> QED  BY <1>0, <3>1, <3>2, <3>3, <3>4 DEF Whereabouts
  <2> QED  BY <2>2, <2>3, <2>4, <2>5, <2>6, <2>7
<1>7. ASSUME active.qty > 0  PROVE IInv'
  <2>1. /\ rest \in Entry
        /\ rest.id = id /\ rest.qty = active.qty /\ rest.stamp = active.stamp
    BY <1>1, <1>7, BoundAssumption DEF Entry, Resting
  <2>2. q \in Seq(Entry)
    BY <1>0, <1>1 DEF TypeOK
  <2> HIDE DEF rest, q
  <2>3. /\ queue' = [queue EXCEPT ![side][price] = Append(@, rest)]
        /\ index' = [index EXCEPT ![id] = [side |-> side, price |-> price]]
    BY <1>7 DEF Finish, rest
  <2> HIDE DEF side, price, id
  <2>4. /\ Append(q, rest) \in Seq(Entry)
        /\ Len(q) \in Nat
        /\ DOMAIN q = 1..Len(q)
        /\ DOMAIN Append(q, rest) = 1..(Len(q) + 1)
        /\ \A i \in 1..Len(q) : Append(q, rest)[i] = q[i]
        /\ Append(q, rest)[Len(q) + 1] = rest
    BY <2>1, <2>2, AppendProperties, LenProperties
  <2>5. /\ queue' \in [Side -> [Price -> Seq(Entry)]]
        /\ queue'[side][price] = Append(q, rest)
        /\ queue[side][price] = q
        /\ \A s \in Side, p \in Price : s # side \/ p # price => queue'[s][p] = queue[s][p]
    BY <1>0, <1>1, <2>3, <2>4 DEF TypeOK, q
  \* Every order now queued was queued there, or is the taker at its own place.
  <2>6. ASSUME NEW s \in Side, NEW p \in Price, NEW i \in DOMAIN queue'[s][p]
        PROVE  \/ i \in DOMAIN queue[s][p] /\ queue'[s][p][i] = queue[s][p][i]
               \/ /\ s = side /\ p = price
                  /\ i = Len(q) + 1 /\ queue'[s][p][i] = rest
    <3>1. CASE s = side /\ p = price
      <4>1. i \in 1..(Len(q) + 1)
        BY <2>4, <2>5, <3>1
      <4>2. CASE i = Len(q) + 1
        BY <2>4, <2>5, <3>1, <4>2
      <4>3. CASE i # Len(q) + 1
        <5>1. i \in 1..Len(q)
          BY <2>4, <4>1, <4>3
        <5> QED  BY <2>4, <2>5, <3>1, <5>1
      <4> QED  BY <4>2, <4>3
    <3>2. CASE s # side \/ p # price
      BY <2>5, <3>2
    <3> QED  BY <3>1, <3>2
  <2>7. \A s \in Side, p \in Price : \A i \in DOMAIN queue[s][p] :
          i \in DOMAIN queue'[s][p] /\ queue'[s][p][i] = queue[s][p][i]
    <3>1. ASSUME NEW s \in Side, NEW p \in Price, NEW i \in DOMAIN queue[s][p]
          PROVE  i \in DOMAIN queue'[s][p] /\ queue'[s][p][i] = queue[s][p][i]
      <4>1. CASE s = side /\ p = price
        <5>1. i \in 1..Len(q) /\ i \in 1..(Len(q) + 1)
          BY <2>4, <2>5, <4>1
        <5> QED  BY <2>4, <2>5, <4>1, <5>1
      <4>2. CASE s # side \/ p # price
        BY <2>5, <4>2
      <4> QED  BY <4>1, <4>2
    <3> QED  BY <3>1
  <2>8. index' \in [Id -> Place \cup {NoPlace}] /\ index'[id] = [side |-> side, price |-> price]
    BY <1>0, <1>1, <2>3 DEF TypeOK, Place
  <2>9. TypeOK'
    BY <1>0, <1>4, <2>5, <2>8 DEF TypeOK
  <2>10. \A s \in Side, p \in Price : \A i \in DOMAIN queue[s][p] :
           queue[s][p][i].id # id /\ queue[s][p][i].id \in Id
    BY <1>0, QueuedNotMatching, QueuedTyped DEF id
  <2>11. IndexTracksBook'
    <3>1. ASSUME NEW s \in Side, NEW p \in Price, NEW i \in DOMAIN queue'[s][p]
          PROVE  /\ index'[queue'[s][p][i].id] = [side |-> s, price |-> p]
                 /\ p \in levels'[s]
      <4>1. CASE i \in DOMAIN queue[s][p] /\ queue'[s][p][i] = queue[s][p][i]
        <5>1. index[queue[s][p][i].id] = [side |-> s, price |-> p]
          BY <4>1, QueuedIndexed
        <5>2. queue[s][p][i].id # id /\ queue[s][p][i].id \in Id
          BY <2>10, <4>1
        <5> QED  BY <1>0, <1>5, <2>3, <4>1, <5>1, <5>2 DEF TypeOK
      <4>2. CASE s = side /\ p = price /\ queue'[s][p][i] = rest
        BY <1>3, <1>7, <2>1, <2>8, <4>2 DEF side, price
      <4> QED  BY <2>6, <4>1, <4>2
    <3>2. ASSUME NEW s \in Side, NEW p \in Price,
                 NEW i \in DOMAIN queue'[s][p], NEW j \in DOMAIN queue'[s][p],
                 queue'[s][p][i].id = queue'[s][p][j].id
          PROVE  i = j
      <4>1. CASE i \in DOMAIN queue[s][p] /\ queue'[s][p][i] = queue[s][p][i]
        <5>1. queue'[s][p][i].id # id
          BY <2>10, <4>1
        <5>2. j \in DOMAIN queue[s][p] /\ queue'[s][p][j] = queue[s][p][j]
          BY <2>1, <2>6, <3>2, <5>1
        <5>3. UniqueIds(queue[s][p])
          BY DEF IndexTracksBook, UniqueIds
        <5> QED  BY <3>2, <4>1, <5>2, <5>3 DEF UniqueIds
      <4>2. CASE i = Len(q) + 1 /\ queue'[s][p][i] = rest
        <5>1. queue'[s][p][j].id = id
          BY <2>1, <3>2, <4>2
        <5>2. ~(j \in DOMAIN queue[s][p] /\ queue'[s][p][j] = queue[s][p][j])
          BY <2>10, <5>1
        <5> QED  BY <2>6, <4>2, <5>2
      <4> QED  BY <2>6, <4>1, <4>2
    <3> QED  BY <1>0, <3>1, <3>2 DEF IndexTracksBook, Matching
  <2>12. Uncrossed'
    <3>1. \A p \in levels[Opposite(side)] : ~Crosses(active, p)
      BY <1>1, <1>7, BoundAssumption DEF Finish, LoopDone, side
    <3>2. \A s \in Side : \A p \in levels'[s] : p \in levels[s] \/ (s = side /\ p = price)
      BY <1>3 DEF NonEmpty, side, price
    <3>3. \A s \in Side : levels[s] \subseteq Nat
      BY <1>0, PriceAssumption DEF TypeOK
    <3>4. ASSUME NEW bid \in levels'["BUY"], NEW ask \in levels'["SELL"]
          PROVE  bid < ask
      <4>1. /\ bid \in levels["BUY"] \/ (side = "BUY" /\ bid = price)
            /\ ask \in levels["SELL"] \/ (side = "SELL" /\ ask = price)
        BY <3>2 DEF Side
      <4>2. CASE bid \in levels["BUY"] /\ ask \in levels["SELL"]
        BY <4>2 DEF Uncrossed
      <4>3. CASE side = "BUY" /\ bid = price
        <5>1. ask \in levels["SELL"] /\ ask \in Nat /\ price \in Nat
          BY <1>1, <3>3, <4>1, <4>3, PriceAssumption DEF Side
        <5>2. ~(price >= ask)
          BY <3>1, <4>3, <5>1 DEF Opposite, Crosses, side, price
        <5> QED  BY <4>3, <5>1, <5>2
      <4>4. CASE side = "SELL" /\ ask = price
        <5>1. bid \in levels["BUY"] /\ bid \in Nat /\ price \in Nat
          BY <1>1, <3>3, <4>1, <4>4, PriceAssumption DEF Side
        <5>2. ~(price <= bid)
          BY <3>1, <4>4, <5>1 DEF Opposite, Crosses, side, price
        <5> QED  BY <4>4, <5>1, <5>2
      <4> QED  BY <4>1, <4>2, <4>3, <4>4
    <3> QED  BY <3>4 DEF Uncrossed
  <2>13. TimePriority'
    <3>1. active.stamp <= clock
      BY <1>0 DEF TimePriority
    <3>2. ASSUME NEW s \in Side, NEW p \in Price, NEW i \in DOMAIN queue'[s][p]
          PROVE  queue'[s][p][i].stamp <= clock'
      BY <1>0, <2>1, <2>6, <3>1, QueuedAge
    <3>3. ASSUME NEW s \in Side, NEW p \in Price,
                 NEW i \in DOMAIN queue'[s][p], NEW j \in DOMAIN queue'[s][p], i < j
          PROVE  queue'[s][p][i].stamp < queue'[s][p][j].stamp
      <4>1. CASE i \in DOMAIN queue[s][p] /\ queue'[s][p][i] = queue[s][p][i]
        <5>1. CASE j \in DOMAIN queue[s][p] /\ queue'[s][p][j] = queue[s][p][j]
          BY <3>3, <4>1, <5>1 DEF TimePriority
        <5>2. CASE queue'[s][p][j] = rest
          BY <1>0, <2>1, <4>1, <5>2, QueuedAge
        <5> QED  BY <2>6, <5>1, <5>2
      <4>2. CASE s = side /\ p = price /\ i = Len(q) + 1
        BY <2>4, <2>5, <3>3, <4>2
      <4> QED  BY <2>6, <4>1, <4>2
    <3> QED  BY <1>0, <3>2, <3>3 DEF TimePriority
  <2>14. Conservation'
    <3>1. active.qty + filled[id] = submitted[id]
      BY <1>0 DEF Conservation, id
    <3>2. ASSUME NEW s \in Side, NEW p \in Price, NEW i \in DOMAIN queue'[s][p]
          PROVE  queue'[s][p][i].qty + filled'[queue'[s][p][i].id] = submitted'[queue'[s][p][i].id]
      BY <1>0, <2>1, <2>6, <3>1, QueuedBalance
    <3> QED  BY <1>0, <3>2 DEF Conservation
  <2>15. Whereabouts'
    <3>1. ASSUME NEW x \in Id, Queued(x) \/ x = id  PROVE Queued(x)'
      <4>1. CASE Queued(x)
        BY <2>7, <4>1 DEF Queued
      <4>2. CASE x = id
        <5>1. Len(q) + 1 \in DOMAIN queue'[side][price] /\ queue'[side][price][Len(q) + 1].id = x
          BY <2>1, <2>4, <2>5, <4>2
        <5> QED  BY <1>1, <5>1 DEF Queued
      <4> QED  BY <3>1, <4>1, <4>2
    <3>2. ASSUME NEW x \in Id, Queued(x)'  PROVE Queued(x) \/ x = id
      <4>1. PICK s \in Side, p \in Price : \E i \in DOMAIN queue'[s][p] : queue'[s][p][i].id = x
        BY <3>2 DEF Queued
      <4>2. PICK i \in DOMAIN queue'[s][p] : queue'[s][p][i].id = x
        BY <4>1
      <4> QED  BY <2>1, <2>6, <4>2 DEF Queued
    <3>3. \A x \in Id : ~Matching(x)' /\ (Matching(x) <=> x = id)
      BY <1>0 DEF Matching, id
    <3>4. \A x \in gone : x \in Id
      BY <1>0 DEF TypeOK
    <3>5. id \notin gone
      BY <1>1, <3>3 DEF Whereabouts
    <3> QED  BY <1>0, <3>1, <3>2, <3>3, <3>4, <3>5 DEF Whereabouts
  <2> QED  BY <2>9, <2>11, <2>12, <2>13, <2>14, <2>15
<1> QED  BY <1>1, <1>6, <1>7, BoundAssumption
\* Every step keeps the inductive invariant.
LEMMA NextIInv ==
  IInv /\ [Next]_vars => IInv'
<1> SUFFICES ASSUME IInv, [Next]_vars  PROVE IInv'
  OBVIOUS
<1>1. ASSUME NEW id \in Id, CancelOrder(id)  PROVE IInv'
  BY <1>1, CancelStep
<1>2. ASSUME NEW id \in Id, NEW side \in Side, NEW price \in Price, NEW qty \in 0..MaxQty,
             SubmitOrder(id, side, price, qty)
      PROVE  IInv'
  BY <1>2, SubmitStep
<1>3. ASSUME NEW id \in Id, NEW side \in Side, NEW price \in Price, NEW qty \in 0..MaxQty,
             ReplaceOrder(id, side, price, qty)
      PROVE  IInv'
  BY <1>3, ReplaceStep
<1>4. CASE Finish
  BY <1>4, FinishStep
<1>5. ASSUME NEW p \in Price, Match(p)  PROVE IInv'
  BY <1>5, MatchStep
<1>6. ASSUME NEW p \in Price, Panic(p)  PROVE IInv'
  BY <1>6, PanicStep
<1>7. CASE UNCHANGED vars
  <2>1. UNCHANGED <<queue, levels, index, sequence, created, active,
                    log, submitted, filled, gone, clock>>
    BY <1>7 DEF vars, book, history
  <2>2. TypeOK' /\ Uncrossed' /\ TimePriority' /\ Conservation'
    BY <2>1 DEF IInv, TypeOK, Uncrossed, TimePriority, Conservation
  <2>3. IndexTracksBook' /\ Whereabouts'
    BY <2>1 DEF IInv, IndexTracksBook, Whereabouts, Queued, Matching
  <2> QED  BY <2>2, <2>3 DEF IInv
<1> QED  BY <1>1, <1>2, <1>3, <1>4, <1>5, <1>6, <1>7 DEF Next, Request, Work

\* The inductive invariant holds in every reachable state.
THEOREM Invariance == Spec => []IInv
BY InitIInv, NextIInv, PTL DEF Spec

\* Type correctness.
THEOREM TypeCorrect == Spec => []TypeOK
<1>1. IInv => TypeOK
  BY DEF IInv
<1> QED  BY <1>1, Invariance, PTL

\* cancel and replace can rely on the index, whatever happened before.
THEOREM IndexCorrect == Spec => []IndexTracksBook
<1>1. IInv => IndexTracksBook
  BY DEF IInv
<1> QED  BY <1>1, Invariance, PTL

\* The book is never crossed, for any number of price levels.
THEOREM NeverCrossed == Spec => []Uncrossed
<1>1. IInv => Uncrossed
  BY DEF IInv
<1> QED  BY <1>1, Invariance, PTL

\* Queues are in order of arrival, through part-fills, cancels and replaces.
THEOREM FirstComeFirstServed == Spec => []TimePriority
<1>1. IInv => TimePriority
  BY DEF IInv
<1> QED  BY <1>1, Invariance, PTL

\* Matching creates and loses no lot.
THEOREM LotsConserved == Spec => []Conservation
<1>1. IInv => Conservation
  BY DEF IInv
<1> QED  BY <1>1, Invariance, PTL

\* No accepted order vanishes, and none that was cancelled comes back.
THEOREM OrdersAccountedFor == Spec => []Whereabouts
<1>1. IInv => Whereabouts
  BY DEF IInv
<1> QED  BY <1>1, Invariance, PTL

-----------------------------------------------------------------------------
(* Price-time priority of every trade, an action property.                 *)

\* Only a match extends the log; it takes the front order of the best level.
LEMMA MatchPriority ==
  ASSUME IInv, NEW p \in Price, Match(p)
  PROVE  NoTradeThroughStep
<1> DEFINE side    == Opposite(active.side)
           q       == queue[side][p]
           resting == Head(q)
           fill    == Least(active.qty, resting.qty)
           trade   == TradeOf(active, resting, p, fill)
<1>1. /\ TypeOK /\ active # NoOrder
      /\ q # <<>>
      /\ log' = Append(log, trade)
      /\ Best(side, p) /\ Crosses(active, p)
  BY DEF IInv, Match, Matchable
<1>2. active.side \in Side /\ side \in Side /\ active.price \in Price
  BY <1>1 DEF TypeOK, Taker, Opposite, Side
<1>3. q \in Seq(Entry)
  BY <1>1, <1>2 DEF TypeOK
<1>4. 1 \in DOMAIN q /\ resting = q[1]
  BY <1>1, <1>3, LenProperties, EmptySeq
<1>5. log'[Len(log')] = trade
  <2> HIDE DEF trade
  <2>1. log \in Seq(Trade)
    BY <1>1 DEF TypeOK
  <2>2. log \in Seq(Trade \cup {trade}) /\ trade \in Trade \cup {trade}
    BY <2>1, SeqMonotonic
  <2> QED  BY <1>1, <2>2, AppendProperties
<1>6. /\ trade.price = p
      /\ resting.id = IF side = "BUY" THEN trade.buy_order ELSE trade.sell_order
  BY <1>2 DEF TradeOf, Opposite, Side
<1>7. IF side = "SELL" THEN p <= active.price ELSE p >= active.price
  BY <1>1, <1>2, PriceAssumption DEF Crosses, Opposite, Side
<1>8. ASSUME NEW x \in Price, NEW i \in DOMAIN queue[side][x]
      PROVE  \/ IF side = "BUY" THEN x < p ELSE x > p
             \/ x = p /\ resting.stamp <= queue[side][x][i].stamp
  <2>1. x \in levels[side]
    BY <1>2, QueuedIndexed DEF IInv
  <2>2. x = p \/ Better(side, p, x)
    BY <1>1, <2>1 DEF Best
  <2>3. CASE x # p
    BY <2>2, <2>3, PriceAssumption DEF Better
  <2>4. CASE x = p
    <3>1. Ordered(q)
      BY <1>2 DEF IInv, TimePriority, Ordered
    <3>2. i \in DOMAIN q /\ i \in Nat /\ i >= 1
      BY <1>3, <2>4, LenProperties
    <3>3. q[1].stamp \in Nat /\ q[i].stamp \in Nat
      BY <1>1, <1>2, <1>4, <3>2, QueuedTyped
    <3>4. i = 1 \/ q[1].stamp < q[i].stamp
      BY <1>4, <3>1, <3>2 DEF Ordered
    <3> QED  BY <1>4, <2>4, <3>3, <3>4
  <2> QED  BY <2>3, <2>4
<1> QED  BY <1>1, <1>5, <1>6, <1>7, <1>8 DEF NoTradeThroughStep

\* No trade goes through a better or an older order of the book.
THEOREM PriceTimePriority == Spec => NoTradeThrough
<1>1. IInv /\ [Next]_vars => [NoTradeThroughStep]_vars
  <2> SUFFICES ASSUME IInv, [Next]_vars  PROVE [NoTradeThroughStep]_vars
    OBVIOUS
  <2>1. CASE \E p \in Price : Match(p)
    BY <2>1, MatchPriority
  <2>2. CASE log' = log
    BY <2>2 DEF NoTradeThroughStep
  <2>3. (\E p \in Price : Match(p)) \/ log' = log
    BY DEF Next, Request, Work, Finish, Panic, Drop, SubmitOrder, CancelOrder, ReplaceOrder,
           Begin, vars, history
  <2> QED  BY <2>1, <2>2, <2>3
<1> QED  BY <1>1, Invariance, PTL DEF Spec, NoTradeThrough

-----------------------------------------------------------------------------
(* What a reply tells.  ReplyComplete is inductive once the order being    *)
(* matched is known to be no resting order, so that a trade adds its lots  *)
(* to the taker once.                                                      *)

\* A sequence and the end of another grow together.
LEMMA EndGrows ==
  ASSUME NEW S, NEW s \in Seq(S), NEW e \in S, NEW k \in 0..Len(s)
  PROVE  Append(SubSeq(s, k + 1, Len(s)), e) = SubSeq(Append(s, e), k + 1, Len(s) + 1)
<1> DEFINE r == Append(s, e)
           a == SubSeq(s, k + 1, Len(s))
           b == SubSeq(r, k + 1, Len(s) + 1)
<1>1. Len(s) \in Nat /\ k \in Nat /\ k <= Len(s)
  BY LenProperties
<1>2. r \in Seq(S) /\ Len(r) = Len(s) + 1 /\ r[Len(s) + 1] = e
      /\ \A i \in 1..Len(s) : r[i] = s[i]
  BY AppendProperties
<1>3. \A i \in 1..Len(s) : s[i] \in S
  BY ElementOfSeq
<1> HIDE DEF r
<1>4. \A i \in (k + 1)..Len(s) : s[i] \in S
  BY <1>1, <1>3
<1>5. /\ a \in Seq(S) /\ Len(a) = IF k + 1 <= Len(s) THEN Len(s) - (k + 1) + 1 ELSE 0
      /\ \A i \in 1..(Len(s) - (k + 1) + 1) : a[i] = s[k + 1 + i - 1]
  BY <1>1, <1>4, SubSeqProperties
<1>6. \A i \in (k + 1)..(Len(s) + 1) : r[i] \in S
  BY <1>1, <1>2, <1>3
<1>7. /\ b \in Seq(S)
      /\ Len(b) = IF k + 1 <= Len(s) + 1 THEN Len(s) + 1 - (k + 1) + 1 ELSE 0
      /\ \A i \in 1..(Len(s) + 1 - (k + 1) + 1) : b[i] = r[k + 1 + i - 1]
  BY <1>1, <1>6, SubSeqProperties
<1> HIDE DEF a, b
<1>8. Len(a) = Len(s) - k /\ Len(b) = Len(s) - k + 1
  BY <1>1, <1>5, <1>7
<1>9. /\ Append(a, e) \in Seq(S) /\ Len(Append(a, e)) = Len(a) + 1
      /\ \A i \in 1..Len(a) : Append(a, e)[i] = a[i]
      /\ Append(a, e)[Len(a) + 1] = e
  BY <1>5, AppendProperties
<1>10. ASSUME NEW i \in 1..(Len(s) - k + 1)  PROVE Append(a, e)[i] = b[i]
  <2>1. b[i] = r[k + i]
    BY <1>1, <1>7
  <2>2. CASE i = Len(s) - k + 1
    <3>1. Append(a, e)[i] = e
      BY <1>8, <1>9, <2>2
    <3>2. k + i = Len(s) + 1
      BY <1>1, <2>2
    <3> QED  BY <1>2, <2>1, <3>1, <3>2
  <2>3. CASE i # Len(s) - k + 1
    <3>1. i \in 1..(Len(s) - k) /\ k + i \in 1..Len(s)
      BY <1>1, <2>3
    <3>2. Append(a, e)[i] = s[k + i]
      BY <1>1, <1>5, <1>8, <1>9, <3>1
    <3> QED  BY <1>2, <2>1, <3>1, <3>2
  <2> QED  BY <2>2, <2>3
<1>11. Append(a, e) = b
  BY <1>1, <1>7, <1>8, <1>9, <1>10, SeqEqual
<1> QED  BY <1>11 DEF a, b, r

\* total tells what each beginning of the trades t took, up to lots.
Totals(total, t, lots) ==
  /\ total[0] = 0 /\ total[Len(t)] = lots
  /\ \A i \in DOMAIN t : total[i] = total[i - 1] + t[i].quantity

LEMMA TotalsGrow ==
  ASSUME NEW t \in Seq(Trade), NEW e \in Trade, NEW lots \in Nat,
         NEW total \in [0..Len(t) -> 0..lots], Totals(total, t, lots)
  PROVE  \E more \in [0..Len(Append(t, e)) -> 0..(lots + e.quantity)] :
           Totals(more, Append(t, e), lots + e.quantity)
<1> DEFINE n == Len(t)
           r == Append(t, e)
           more == [i \in 0..(n + 1) |-> IF i = n + 1 THEN lots + e.quantity ELSE total[i]]
<1>1. n \in Nat /\ DOMAIN t = 1..n /\ e.quantity \in Nat
  BY LenProperties DEF Trade
<1>2. r \in Seq(Trade) /\ Len(r) = n + 1 /\ r[n + 1] = e /\ \A i \in 1..n : r[i] = t[i]
  BY AppendProperties
<1>3. DOMAIN r = 1..(n + 1)
  BY <1>1, <1>2, LenProperties
<1> HIDE DEF n, r
<1>4. total \in [0..n -> 0..lots] /\ total[0] = 0 /\ total[n] = lots
      /\ \A i \in 1..n : total[i] = total[i - 1] + t[i].quantity
  BY <1>1 DEF Totals, n
<1>5. more \in [0..(n + 1) -> 0..(lots + e.quantity)]
  BY <1>1, <1>4
<1>6. more[0] = 0 /\ more[n + 1] = lots + e.quantity
  BY <1>1, <1>4
<1>7. ASSUME NEW i \in 1..(n + 1)  PROVE more[i] = more[i - 1] + r[i].quantity
  <2>1. CASE i = n + 1
    <3>1. more[i - 1] = lots /\ more[i] = lots + e.quantity /\ r[i] = e
      BY <1>1, <1>2, <1>4, <2>1
    <3> QED  BY <3>1
  <2>2. CASE i # n + 1
    <3>1. i \in 1..n /\ i - 1 \in 0..n
      BY <1>1, <2>2
    <3>2. more[i] = total[i] /\ more[i - 1] = total[i - 1] /\ r[i] = t[i]
      BY <1>1, <1>2, <3>1
    <3> QED  BY <1>4, <3>1, <3>2
  <2> QED  BY <2>1, <2>2
<1> HIDE DEF more
<1>8. Totals(more, r, lots + e.quantity)
  BY <1>2, <1>3, <1>6, <1>7 DEF Totals
<1>9. more \in [0..Len(r) -> 0..(lots + e.quantity)]
  BY <1>2, <1>5
<1>10. \E m \in [0..Len(r) -> 0..(lots + e.quantity)] : Totals(m, r, lots + e.quantity)
  BY <1>8, <1>9
<1> QED  BY <1>10 DEF r

\* ReplyComplete in these words.
ReplyTells ==
  active # NoOrder =>
    /\ \E k \in 0..Len(log) : active.trades = SubSeq(log, k + 1, Len(log))
    /\ \E total \in [0..Len(active.trades) -> 0..filled[active.id]] :
         Totals(total, active.trades, filled[active.id])

\* Nothing is traded when an order arrives.
LEMMA BeginTells ==
  ASSUME IInv, NEW id \in Id, NEW side \in Side, NEW price \in Price,
         NEW qty \in 0..MaxQty, Begin(id, side, price, qty), log' = log
  PROVE  ReplyTells'
<1>1. active'.id = id /\ active'.trades = <<>> /\ filled'[id] = 0
  BY DEF Begin, IInv, TypeOK
<1>2. Len(log) \in Nat /\ SubSeq(log, Len(log) + 1, Len(log)) = <<>>
  <2>1. Len(log) \in Nat
    BY LenProperties DEF IInv, TypeOK
  <2> QED  BY <2>1, SubSeqEmpty
<1>3. \E k \in 0..Len(log') : active'.trades = SubSeq(log', k + 1, Len(log'))
  BY <1>1, <1>2
<1>4. \E total \in [0..Len(<<>>) -> 0..0] : Totals(total, <<>>, 0)
  <2> DEFINE total == [i \in 0..0 |-> 0]
  <2>1. total \in [0..Len(<<>>) -> 0..0] /\ Totals(total, <<>>, 0)
    BY DEF Totals
  <2> QED  BY <2>1
<1> QED  BY <1>1, <1>3, <1>4 DEF ReplyTells

\* A trade joins the reply, the tape and the account of the taker.
LEMMA MatchTells ==
  ASSUME IInv, ReplyTells, NEW p \in Price, Match(p)
  PROVE  ReplyTells'
<1> DEFINE side    == Opposite(active.side)
           q       == queue[side][p]
           resting == Head(q)
           fill    == Least(active.qty, resting.qty)
           trade   == TradeOf(active, resting, p, fill)
<1>0. /\ active # NoOrder /\ q # <<>>
      /\ active' = [active EXCEPT !.qty = @ - fill, !.trades = Append(@, trade)]
      /\ log' = Append(log, trade)
      /\ filled' = [filled EXCEPT ![active.id] = @ + fill, ![resting.id] = @ + fill]
  BY DEF Match, Matchable
<1>1. /\ active \in Taker /\ active.id \in Id /\ active.trades \in Seq(Trade)
      /\ active.qty \in Nat /\ side \in Side /\ log \in Seq(Trade)
      /\ filled \in [Id -> Nat] /\ sequence \in Nat
  BY <1>0, BoundAssumption DEF IInv, TypeOK, Taker, Opposite, Side
<1>2. 1 \in DOMAIN q /\ resting = q[1] /\ resting.id \in Id /\ resting.qty \in Nat
  <2>1. q \in Seq(Entry)
    BY <1>1 DEF IInv, TypeOK
  <2>2. Len(q) \in Nat \ {0} /\ DOMAIN q = 1..Len(q) /\ Head(q) = q[1] /\ q[1] \in Entry
    BY <1>0, <2>1, LenProperties, EmptySeq, ElementOfSeq
  <2> QED  BY <2>2, BoundAssumption DEF Entry
<1>3. resting.id # active.id
  BY <1>0, <1>1, <1>2, QueuedNotMatching DEF IInv
<1> HIDE DEF resting, q, side
<1>4. fill \in Nat
  BY <1>1, <1>2 DEF Least
<1>5. trade \in Trade /\ trade.quantity = fill
  BY <1>1, <1>2, <1>4 DEF TradeOf, Trade
<1> HIDE DEF fill, trade
<1>6. /\ active'.id = active.id /\ active'.trades = Append(active.trades, trade)
      /\ filled'[active.id] = filled[active.id] + trade.quantity
  <2>1. filled'[active.id] = filled[active.id] + fill
    BY <1>0, <1>1, <1>2, <1>3, <1>4, BothGain
  <2> QED  BY <1>0, <1>1, <1>5, <2>1 DEF Taker
<1>7. \E k \in 0..Len(log') : active'.trades = SubSeq(log', k + 1, Len(log'))
  <2>1. PICK k \in 0..Len(log) : active.trades = SubSeq(log, k + 1, Len(log))
    BY <1>0 DEF ReplyTells
  <2>2. Len(log) \in Nat /\ Len(log') = Len(log) + 1
    BY <1>0, <1>1, <1>5, AppendProperties, LenProperties
  <2>3. active'.trades = SubSeq(log', k + 1, Len(log'))
    BY <1>0, <1>1, <1>5, <1>6, <2>1, <2>2, EndGrows
  <2> QED  BY <2>2, <2>3
<1>8. \E total \in [0..Len(active'.trades) -> 0..filled'[active'.id]] :
        Totals(total, active'.trades, filled'[active'.id])
  <2>1. PICK total \in [0..Len(active.trades) -> 0..filled[active.id]] :
          Totals(total, active.trades, filled[active.id])
    BY <1>0 DEF ReplyTells
  <2>2. filled[active.id] \in Nat
    BY <1>1
  <2>3. \E more \in [0..Len(Append(active.trades, trade)) ->
                       0..(filled[active.id] + trade.quantity)] :
          Totals(more, Append(active.trades, trade), filled[active.id] + trade.quantity)
    BY <1>1, <1>5, <2>1, <2>2, TotalsGrow
  <2> QED  BY <1>6, <2>3
<1> QED  BY <1>7, <1>8 DEF ReplyTells

LEMMA NextTells == IInv /\ ReplyTells /\ [Next]_vars => ReplyTells'
<1> SUFFICES ASSUME IInv, ReplyTells, [Next]_vars PROVE ReplyTells'
  OBVIOUS
<1>1. ASSUME NEW id \in Id, NEW side \in Side, NEW price \in Price, NEW qty \in 0..MaxQty,
             SubmitOrder(id, side, price, qty) \/ ReplaceOrder(id, side, price, qty)
      PROVE  ReplyTells'
  BY <1>1, BeginTells DEF SubmitOrder, ReplaceOrder
<1>2. ASSUME NEW p \in Price, Match(p)  PROVE ReplyTells'
  BY <1>2, MatchTells
<1>3. CASE UNCHANGED vars
  BY <1>3 DEF ReplyTells, Totals, vars, history
<1>4. CASE active' = NoOrder
  BY <1>4 DEF ReplyTells
<1>5. CASE Finish \/ (\E p \in Price : Panic(p)) \/ (\E id \in Id : CancelOrder(id))
  BY <1>4, <1>5 DEF Finish, Panic, Drop, CancelOrder
<1> QED  BY <1>1, <1>2, <1>3, <1>5 DEF Next, Request, Work

\* The reply to a submission tells of every trade of its order, and of no other,
\* in the order of the tape (matching.rs:66-76, :107-117, :132), however many.
THEOREM RepliesComplete == Spec => []ReplyComplete
<1>1. Init => ReplyTells
  BY DEF Init, ReplyTells
<1>2. ReplyTells => ReplyComplete
  BY DEF ReplyTells, Totals, ReplyComplete
<1> QED  BY <1>1, <1>2, Invariance, NextTells, PTL DEF Spec

-----------------------------------------------------------------------------
(* The book that the engine implements: the mapped state.                  *)

\* The order that e, in the queue of side s and price p, is mapped to.
Placed(s, p, e) ==
  [id |-> e.id, side |-> s, price |-> p, qty |-> e.qty, stamp |-> e.stamp]

LEMMA OpenIs ==
  /\ \A o : o \in OpenOrders <=>
       \E s \in Side, p \in Price : \E i \in DOMAIN queue[s][p] : o = Placed(s, p, queue[s][p][i])
  /\ \A o : o \in OpenOrders' <=>
       \E s \in Side, p \in Price : \E i \in DOMAIN queue'[s][p] : o = Placed(s, p, queue'[s][p][i])
<1>1. \A s, p, o : /\ o \in OpenAt(s, p) <=>
                        \E i \in DOMAIN queue[s][p] : o = Placed(s, p, queue[s][p][i])
                   /\ o \in OpenAt(s, p)' <=>
                        \E i \in DOMAIN queue'[s][p] : o = Placed(s, p, queue'[s][p][i])
  BY Zenon DEF OpenAt, Placed
<1>2. \A o : /\ o \in OpenOrders <=> \E s \in Side, p \in Price : o \in OpenAt(s, p)
             /\ o \in OpenOrders' <=> \E s \in Side, p \in Price : o \in OpenAt(s, p)'
  BY DEF OpenOrders
<1> QED  BY <1>1, <1>2

\* The taker under the mutex, as the book sees it.
LEMMA TakerIs ==
  ASSUME TypeOK, active # NoOrder
  PROVE  /\ BookTaker # NoOrder /\ BookTaker \in Book!Order
         /\ BookTaker = [id |-> active.id, side |-> active.side, price |-> active.price,
                         qty |-> active.qty, stamp |-> active.stamp]
<1>1. active \in Taker
  BY DEF TypeOK
<1>2. BookTaker = [id |-> active.id, side |-> active.side, price |-> active.price,
                   qty |-> active.qty, stamp |-> active.stamp]
  BY DEF BookTaker
<1>3. BookTaker \in Book!Order
  BY <1>1, <1>2, BoundAssumption DEF Taker, Side, Book!Order
<1> QED  BY <1>2, <1>3, NoTakerAssumption

\* A trade of the log is numbered by its place in it (matching.rs:67, :108).
Numbered == sequence = Len(log)

LEMMA NextNumbered == IInv /\ Numbered /\ [Next]_vars => Numbered'
<1> SUFFICES ASSUME IInv, Numbered, [Next]_vars PROVE Numbered'
  OBVIOUS
<1>1. CASE \E p \in Price : Match(p)
  <2>1. PICK t : log' = Append(log, t) /\ sequence' = sequence + 1
    BY <1>1 DEF Match
  <2>2. log \in Seq(Trade)
    BY DEF IInv, TypeOK
  <2>3. Len(Append(log, t)) = Len(log) + 1
    BY <2>2
  <2> QED  BY <2>1, <2>3 DEF Numbered
<1>2. CASE UNCHANGED <<log, sequence>>
  BY <1>2 DEF Numbered
<1>3. CASE \E p \in Price : Panic(p)
  BY <1>2, <1>3 DEF Panic
<1>4. CASE Finish \/ UNCHANGED vars
  BY <1>2, <1>4 DEF Finish, vars, history
<1>5. CASE Request
  BY <1>2, <1>5 DEF Request, SubmitOrder, CancelOrder, ReplaceOrder
<1> QED  BY <1>1, <1>3, <1>4, <1>5 DEF Next, Work

-----------------------------------------------------------------------------
(* One lemma per action.                                                   *)

\* Taking an id out of every queue takes it out of the open orders.
LEMMA OpenWithout ==
  ASSUME IInv, NEW id \in Id, queue' = AfterCancel(id)
  PROVE  OpenOrders' = Book!Without(id)
<1>1. \A s \in Side, p \in Price : TakenOut(queue'[s][p], queue[s][p], id)
  BY CancelProperties DEF IInv
<1>2. ASSUME NEW o \in OpenOrders' PROVE o \in OpenOrders /\ o.id # id
  <2>1. PICK s \in Side, p \in Price : \E i \in DOMAIN queue'[s][p] :
               o = Placed(s, p, queue'[s][p][i])
    BY <1>2, OpenIs
  <2>2. PICK i \in DOMAIN queue'[s][p] : o = Placed(s, p, queue'[s][p][i])
    BY <2>1
  <2>3. queue'[s][p][i].id # id /\ \E j \in DOMAIN queue[s][p] : queue'[s][p][i] = queue[s][p][j]
    BY <1>1 DEF TakenOut
  <2>4. o.id = queue'[s][p][i].id
    BY <2>2 DEF Placed
  <2> QED  BY <2>2, <2>3, <2>4, OpenIs
<1>3. ASSUME NEW o \in OpenOrders, o.id # id PROVE o \in OpenOrders'
  <2>1. PICK s \in Side, p \in Price : \E j \in DOMAIN queue[s][p] :
               o = Placed(s, p, queue[s][p][j])
    BY OpenIs
  <2>2. PICK j \in DOMAIN queue[s][p] : o = Placed(s, p, queue[s][p][j])
    BY <2>1
  <2>3. queue[s][p][j].id # id
    BY <1>3, <2>2 DEF Placed
  <2>4. \E i \in DOMAIN queue'[s][p] : queue'[s][p][i] = queue[s][p][j]
    BY <1>1, <2>3 DEF TakenOut
  <2> QED  BY <2>2, <2>4, OpenIs
<1> QED  BY <1>2, <1>3 DEF Book!Without

LEMMA CancelImplements ==
  ASSUME IInv, NEW id \in Id, CancelOrder(id)
  PROVE  Book!Withdraw
<1>1. OpenOrders' = Book!Without(id)
  BY OpenWithout DEF CancelOrder
<1>2. BookTaker = NoOrder /\ BookTaker' = BookTaker /\ log' = log
  BY DEF CancelOrder, BookTaker
<1> QED  BY <1>1, <1>2 DEF Book!Withdraw

\* What an arrival is to the book, when the queues are those without its id.
LEMMA ArrivalImplements ==
  ASSUME IInv, NEW id \in Id, NEW side \in Side, NEW price \in Price,
         NEW qty \in 0..MaxQty, active = NoOrder, Validate(qty),
         Begin(id, side, price, qty), OpenOrders' = Book!Without(id), log' = log
  PROVE  Book!Arrive
<1> DEFINE new == [id |-> id, side |-> side, price |-> price, qty |-> qty, stamp |-> clock + 1]
<1>1. active' = [id |-> id, side |-> side, price |-> price, qty |-> qty,
                 stamp |-> clock + 1, trades |-> <<>>]
  BY DEF Begin
<1>2. qty \in 1..MaxQty /\ clock \in Nat
  BY BoundAssumption DEF Validate, IInv, TypeOK
<1>3. active' \in Taker
  <2>1. <<>> \in Seq(Trade)
    BY EmptySeq
  <2> QED  BY <1>1, <1>2, <2>1 DEF Taker
<1>4. BookTaker' = new
  BY <1>1, <1>3, NoOrderAssumption DEF BookTaker
<1>5. new \in Book!Order
  BY <1>2, BoundAssumption DEF Side, Book!Order
<1>6. \A o \in OpenOrders : o.stamp < clock + 1
  <2>1. ASSUME NEW o \in OpenOrders PROVE o.stamp < clock + 1
    <3>1. PICK s \in Side, p \in Price : \E i \in DOMAIN queue[s][p] :
                 o = Placed(s, p, queue[s][p][i])
      BY OpenIs
    <3>2. PICK i \in DOMAIN queue[s][p] : o = Placed(s, p, queue[s][p][i])
      BY <3>1
    <3>3. queue[s][p][i].stamp \in Nat /\ queue[s][p][i].stamp <= clock
      BY QueuedTyped, QueuedAge DEF IInv
    <3> QED  BY <1>2, <3>2, <3>3 DEF Placed
  <2> QED  BY <2>1
<1>7. BookTaker = NoOrder
  BY DEF BookTaker
<1>8. new.id = id /\ new.qty = qty /\ new.stamp = clock + 1
  OBVIOUS
<1> HIDE DEF new
<1> QED  BY <1>2, <1>4, <1>5, <1>6, <1>7, <1>8 DEF Book!Arrive

LEMMA SubmitImplements ==
  ASSUME IInv, NEW id \in Id, NEW side \in Side, NEW price \in Price,
         NEW qty \in 0..MaxQty, SubmitOrder(id, side, price, qty)
  PROVE  Book!Arrive
<1>1. queue' = queue /\ log' = log /\ submitted[id] = 0
  BY DEF SubmitOrder, book
<1>2. OpenOrders' = OpenOrders
  BY <1>1 DEF OpenOrders, OpenAt
<1>3. ASSUME NEW o \in OpenOrders PROVE o.id # id
  <2>1. PICK s \in Side, p \in Price : \E i \in DOMAIN queue[s][p] :
               o = Placed(s, p, queue[s][p][i])
    BY OpenIs
  <2>2. PICK i \in DOMAIN queue[s][p] : o = Placed(s, p, queue[s][p][i])
    BY <2>1
  <2>3. submitted[queue[s][p][i].id] > 0
    BY QueuedSubmitted DEF IInv
  <2> QED  BY <1>1, <2>2, <2>3 DEF Placed
<1>4. OpenOrders' = Book!Without(id)
  BY <1>2, <1>3 DEF Book!Without
<1> QED  BY <1>1, <1>4, ArrivalImplements DEF SubmitOrder

LEMMA ReplaceImplements ==
  ASSUME IInv, NEW id \in Id, NEW side \in Side, NEW price \in Price,
         NEW qty \in 0..MaxQty, ReplaceOrder(id, side, price, qty)
  PROVE  Book!Arrive
<1>1. OpenOrders' = Book!Without(id)
  BY OpenWithout DEF ReplaceOrder
<1> QED  BY <1>1, ArrivalImplements DEF ReplaceOrder

LEMMA PanicImplements ==
  ASSUME IInv, NEW p \in Price, Panic(p)
  PROVE  Book!Abort
<1>1. queue' = queue /\ log' = log /\ active # NoOrder /\ active' = NoOrder
  BY DEF Panic, Matchable, Drop, book
<1>2. OpenOrders' = OpenOrders
  BY <1>1 DEF OpenOrders, OpenAt
<1>3. BookTaker # NoOrder
  BY <1>1, TakerIs DEF IInv
<1>4. BookTaker' = NoOrder
  BY <1>1 DEF BookTaker
<1> QED  BY <1>1, <1>2, <1>3, <1>4 DEF Book!Abort

LEMMA FinishImplements ==
  ASSUME IInv, Finish
  PROVE  Book!Settle
<1> DEFINE rest == [id |-> active.id, side |-> active.side, price |-> active.price,
                    qty |-> active.qty, stamp |-> active.stamp]
<1>1. /\ active # NoOrder /\ active' = NoOrder /\ log' = log
      /\ active.side \in Side /\ active.price \in Price /\ active.qty \in 0..MaxQty
  BY DEF Finish, LoopDone, IInv, TypeOK, Taker
<1>2. BookTaker # NoOrder /\ BookTaker = rest /\ BookTaker' = NoOrder
  BY <1>1, TakerIs DEF BookTaker, IInv
<1>3. BookTaker.qty = active.qty /\ BookTaker.side = active.side /\ BookTaker.price = active.price
  BY <1>2
<1>4. active.qty = 0 \/ Book!Counterparties = {}
  <2>1. SUFFICES ASSUME active.qty # 0, NEW o \in Book!Counterparties PROVE FALSE
    OBVIOUS
  <2>2. o \in OpenOrders /\ o.side # active.side
        /\ IF active.side = "BUY" THEN o.price <= active.price ELSE o.price >= active.price
    BY <1>3 DEF Book!Counterparties
  <2>3. PICK s \in Side, p \in Price : \E i \in DOMAIN queue[s][p] :
               o = Placed(s, p, queue[s][p][i])
    BY <2>2, OpenIs
  <2>4. PICK i \in DOMAIN queue[s][p] : o = Placed(s, p, queue[s][p][i])
    BY <2>3
  <2>5. o.side = s /\ o.price = p
    BY <2>4 DEF Placed
  <2>6. s = Opposite(active.side) /\ p \in levels[s]
    <3>1. s = Opposite(active.side)
      BY <1>1, <2>2, <2>5 DEF Opposite, Side
    <3>2. p \in levels[s]
      BY QueuedIndexed DEF IInv
    <3> QED  BY <3>1, <3>2
  <2>7. Crosses(active, p)
    BY <1>1, <2>2, <2>5, PriceAssumption DEF Crosses
  <2> QED  BY <2>1, <2>6, <2>7 DEF Finish, LoopDone
<1>5. CASE active.qty = 0
  <2>1. OpenOrders' = OpenOrders
    BY <1>5 DEF Finish, OpenOrders, OpenAt
  <2>2. {o \in {BookTaker} : o.qty > 0} = {}
    BY <1>3, <1>5
  <2> QED  BY <1>1, <1>2, <1>4, <2>1, <2>2 DEF Book!Settle
<1>6. CASE active.qty # 0
  <2> DEFINE side == active.side
             price == active.price
             q == queue[side][price]
             e == Resting(active)
  <2>1. queue' = [queue EXCEPT ![side][price] = Append(q, e)] /\ q \in Seq(Entry)
        /\ side \in Side /\ price \in Price
    BY <1>1, <1>6 DEF Finish, IInv, TypeOK
  <2>2. Placed(side, price, e) = BookTaker
    BY <1>2 DEF Placed, Resting
  <2> HIDE DEF e
  <2>3. /\ DOMAIN Append(q, e) = DOMAIN q \cup {Len(q) + 1}
        /\ \A i \in DOMAIN q : Append(q, e)[i] = q[i]
        /\ Append(q, e)[Len(q) + 1] = e
    <3>1. q \in Seq(Entry)
      BY <2>1
    <3> HIDE DEF q
    <3> QED  BY <3>1
  <2>4. /\ queue'[side][price] = Append(q, e)
        /\ \A s \in Side, p \in Price : s # side \/ p # price => queue'[s][p] = queue[s][p]
    BY <2>1 DEF IInv, TypeOK
  <2> HIDE DEF side, price
  <2>5. ASSUME NEW o \in OpenOrders' PROVE o \in OpenOrders \/ o = BookTaker
    <3>1. PICK s \in Side, p \in Price : \E i \in DOMAIN queue'[s][p] :
                 o = Placed(s, p, queue'[s][p][i])
      BY <2>5, OpenIs
    <3>2. PICK i \in DOMAIN queue'[s][p] : o = Placed(s, p, queue'[s][p][i])
      BY <3>1
    <3>3. CASE s = side /\ p = price
      BY <2>2, <2>3, <2>4, <3>2, <3>3, OpenIs
    <3>4. CASE s # side \/ p # price
      BY <2>4, <3>2, <3>4, OpenIs
    <3> QED  BY <3>3, <3>4
  <2>6. ASSUME NEW o \in OpenOrders PROVE o \in OpenOrders'
    <3>1. PICK s \in Side, p \in Price : \E i \in DOMAIN queue[s][p] :
                 o = Placed(s, p, queue[s][p][i])
      BY OpenIs
    <3>2. PICK i \in DOMAIN queue[s][p] : o = Placed(s, p, queue[s][p][i])
      BY <3>1
    <3>3. i \in DOMAIN queue'[s][p] /\ queue'[s][p][i] = queue[s][p][i]
      BY <2>3, <2>4, <3>2
    <3> QED  BY <3>2, <3>3, OpenIs
  <2>7. BookTaker \in OpenOrders'
    <3>1. Len(q) + 1 \in DOMAIN queue'[side][price] /\ queue'[side][price][Len(q) + 1] = e
      BY <2>3, <2>4
    <3> QED  BY <2>1, <2>2, <3>1, OpenIs
  <2>8. {o \in {BookTaker} : o.qty > 0} = {BookTaker}
    BY <1>1, <1>3, <1>6
  <2>9. OpenOrders' = OpenOrders \cup {o \in {BookTaker} : o.qty > 0}
    BY <2>5, <2>6, <2>7, <2>8
  <2> QED  BY <1>1, <1>2, <1>4, <2>9 DEF Book!Settle
<1> QED  BY <1>5, <1>6

\* The front of the best level is served before every other counterparty.
LEMMA FrontIsFirst ==
  ASSUME IInv, NEW p \in Price, Matchable(p),
         NEW side \in Side, side = Opposite(active.side), queue[side][p] # <<>>,
         NEW maker, maker = Placed(side, p, queue[side][p][1])
  PROVE  /\ 1 \in DOMAIN queue[side][p]
         /\ maker \in Book!Counterparties
         /\ \A o \in Book!Counterparties : o = maker \/ Book!Before(maker, o)
<1> DEFINE q == queue[side][p]
<1>1. /\ BookTaker.side = active.side /\ BookTaker.price = active.price
      /\ active.side \in Side /\ active.price \in Price
  <2>1. active # NoOrder
    BY DEF Matchable
  <2>2. BookTaker.side = active.side /\ BookTaker.price = active.price
    BY <2>1, TakerIs DEF IInv
  <2> QED  BY <2>1, <2>2 DEF IInv, TypeOK, Taker
<1>2. q \in Seq(Entry) /\ 1 \in DOMAIN q
  <2>1. q \in Seq(Entry)
    BY DEF IInv, TypeOK
  <2>2. q # <<>>
    OBVIOUS
  <2> HIDE DEF q
  <2> QED  BY <2>1, <2>2
<1>3. /\ maker.side = side /\ maker.price = p
      /\ maker.stamp = q[1].stamp
  BY DEF Placed
<1>4. maker \in Book!Counterparties
  <2>1. maker \in OpenOrders
    BY <1>2, OpenIs
  <2>2. side # active.side
    BY DEF Opposite, Side
  <2>3. IF active.side = "BUY" THEN p <= active.price ELSE p >= active.price
    BY <1>1, PriceAssumption DEF Matchable, Crosses
  <2> QED  BY <1>1, <1>3, <2>1, <2>2, <2>3 DEF Book!Counterparties
<1>5. ASSUME NEW o \in Book!Counterparties, o # maker PROVE Book!Before(maker, o)
  <2>1. o \in OpenOrders /\ o.side # active.side
    BY <1>1 DEF Book!Counterparties
  <2>2. PICK s \in Side, x \in Price : \E i \in DOMAIN queue[s][x] :
               o = Placed(s, x, queue[s][x][i])
    BY <2>1, OpenIs
  <2>3. PICK i \in DOMAIN queue[s][x] : o = Placed(s, x, queue[s][x][i])
    BY <2>2
  <2>4. o.side = s /\ o.price = x /\ o.stamp = queue[s][x][i].stamp
    BY <2>3 DEF Placed
  <2>5. s = side
    BY <1>1, <2>1, <2>4 DEF Opposite, Side
  <2>6. x \in levels[s]
    BY QueuedIndexed DEF IInv
  <2>7. x = p \/ Better(side, p, x)
    BY <2>5, <2>6 DEF Matchable, Best
  <2>8. CASE x # p
    BY <1>3, <2>4, <2>7, <2>8 DEF Better, Book!Before
  <2>9. CASE x = p
    <3>1. i # 1
      BY <1>5, <2>3, <2>5, <2>9
    <3>2. i \in DOMAIN q
      BY <2>5, <2>9
    <3>3. 1 < i
      BY <1>2, <3>1, <3>2
    <3>4. q[1].stamp < q[i].stamp
      BY <1>2, <3>2, <3>3 DEF IInv, TimePriority
    <3> QED  BY <1>3, <2>4, <2>5, <2>9, <3>4 DEF Book!Before
  <2> QED  BY <2>8, <2>9
<1> QED  BY <1>2, <1>4, <1>5

LEMMA MatchImplements ==
  ASSUME IInv, Numbered, NEW p \in Price, Match(p)
  PROVE  Book!Fill
<1> DEFINE side    == Opposite(active.side)
           q       == queue[side][p]
           resting == Head(q)
           fill    == Least(active.qty, resting.qty)
           front   == [resting EXCEPT !.qty = @ - fill]
           r       == Requeue(Tail(q), front)
           trade   == TradeOf(active, resting, p, fill)
           maker   == Placed(side, p, q[1])
           left    == [maker EXCEPT !.qty = @ - fill]
<1>1. /\ active # NoOrder /\ q # <<>> /\ active.qty > 0 /\ Matchable(p)
      /\ queue' = [queue EXCEPT ![side][p] = r]
      /\ active' = [active EXCEPT !.qty = @ - fill, !.trades = Append(@, trade)]
      /\ log' = Append(log, trade)
  BY DEF Match, Matchable
<1>2. active \in Taker /\ side \in Side
  BY <1>1 DEF IInv, TypeOK, Opposite, Side
<1>3. q \in Seq(Entry)
  BY <1>2 DEF IInv, TypeOK
<1>4. resting = q[1] /\ resting \in Entry /\ 1 \in DOMAIN q
  <2> HIDE DEF q
  <2> QED  BY <1>1, <1>3
<1>5. /\ maker \in Book!Counterparties
      /\ \A o \in Book!Counterparties : o = maker \/ Book!Before(maker, o)
  BY <1>1, <1>2, FrontIsFirst
<1>6. /\ maker.id = resting.id /\ maker.qty = resting.qty /\ maker.price = p
      /\ left = Placed(side, p, front) /\ left.qty = front.qty /\ front.qty = resting.qty - fill
      /\ front.id = resting.id /\ front.stamp = resting.stamp
  BY <1>4 DEF Placed, Entry
<1>7. /\ BookTaker # NoOrder
      /\ BookTaker = [id |-> active.id, side |-> active.side, price |-> active.price,
                      qty |-> active.qty, stamp |-> active.stamp]
  BY <1>1, TakerIs DEF IInv
<1>8. BookTaker' = [BookTaker EXCEPT !.qty = @ - fill]
  <2>1. active' # NoOrder
    <3>1. fill \in Nat /\ active.qty - fill \in 0..MaxQty
      <4>1. active.qty \in 0..MaxQty /\ resting.qty \in 1..MaxQty
        BY <1>2, <1>4 DEF Taker, Entry
      <4> QED  BY <4>1, BoundAssumption DEF Least
    <3> HIDE DEF fill, resting, side
    <3>2. trade \in Trade
      <4>1. active.id \in Id /\ resting.id \in Id /\ sequence + 1 \in Nat
        BY <1>2, <1>4 DEF Taker, Entry, IInv, TypeOK
      <4> QED  BY <3>1, <4>1 DEF TradeOf, Trade
    <3> HIDE DEF trade
    <3>3. Append(active.trades, trade) \in Seq(Trade)
      BY <1>2, <3>2, AppendProperties DEF Taker
    <3>4. active' \in Taker
      BY <1>1, <1>2, <3>1, <3>3 DEF Taker
    <3> QED  BY <3>4, NoOrderAssumption
  <2>2. BookTaker' = [id |-> active'.id, side |-> active'.side, price |-> active'.price,
                      qty |-> active'.qty, stamp |-> active'.stamp]
    BY <2>1 DEF BookTaker
  <2> HIDE DEF fill, trade
  <2>3. /\ active'.id = active.id /\ active'.side = active.side /\ active'.price = active.price
        /\ active'.qty = active.qty - fill /\ active'.stamp = active.stamp
    BY <1>1, <1>2 DEF Taker
  <2> QED  BY <1>7, <2>2, <2>3
<1>9. fill = IF BookTaker.qty <= maker.qty THEN BookTaker.qty ELSE maker.qty
  BY <1>6, <1>7 DEF Least
<1>10. trade = [buy_order  |-> IF BookTaker.side = "BUY" THEN BookTaker.id ELSE maker.id,
                sell_order |-> IF BookTaker.side = "BUY" THEN maker.id ELSE BookTaker.id,
                price |-> maker.price, quantity |-> fill, sequence |-> Len(log) + 1]
  BY <1>6, <1>7 DEF TradeOf, Numbered
<1>11. OpenOrders' = (OpenOrders \ {maker}) \cup {o \in {left} : o.qty > 0}
  <2>1. /\ r \in Seq(Entry)
        /\ \A i \in DOMAIN r : \/ front.qty > 0 /\ r[i] = front
                               \/ \E j \in DOMAIN q : j # 1 /\ r[i] = q[j]
        /\ front.qty > 0 => \E i \in DOMAIN r : r[i] = front
        /\ \A j \in DOMAIN q : j # 1 => \E i \in DOMAIN r : r[i] = q[j]
    <3>1. front.qty \in 0..MaxQty
      <4>1. active.qty \in 0..MaxQty /\ resting.qty \in 1..MaxQty
        BY <1>2, <1>4 DEF Taker, Entry
      <4> QED  BY <1>6, <4>1, BoundAssumption DEF Least
    <3>2. front = [id |-> q[1].id, qty |-> front.qty, stamp |-> q[1].stamp]
      BY <1>4 DEF Entry
    <3> HIDE DEF q, front
    <3> QED  BY <1>1, <1>3, <3>1, <3>2, RequeueProperties
  <2>2. /\ queue'[side][p] = r
        /\ \A s \in Side, x \in Price : s # side \/ x # p => queue'[s][x] = queue[s][x]
    BY <1>1, <1>2, <2>1 DEF IInv, TypeOK
  <2>3. \A j \in DOMAIN q : j # 1 => q[j].id # maker.id
    <3>1. \A j \in DOMAIN q : q[1].id = q[j].id => 1 = j
      BY <1>2, <1>4 DEF IInv, IndexTracksBook
    <3>2. maker.id = q[1].id
      BY DEF Placed
    <3> QED  BY <3>1, <3>2
  <2>4. maker.side = side /\ maker.price = p /\ maker = Placed(side, p, q[1])
    BY DEF Placed
  <2>5. \A s, x, e : Placed(s, x, e).id = e.id /\ Placed(s, x, e).side = s /\ Placed(s, x, e).price = x
    BY DEF Placed
  <2> HIDE DEF front, left, maker, r, side
  <2>6. ASSUME NEW o \in OpenOrders'
        PROVE  (o \in OpenOrders /\ o # maker) \/ (o = left /\ o.qty > 0)
    <3>1. PICK s \in Side, x \in Price : \E i \in DOMAIN queue'[s][x] :
                 o = Placed(s, x, queue'[s][x][i])
      BY <2>6, OpenIs
    <3>2. PICK i \in DOMAIN queue'[s][x] : o = Placed(s, x, queue'[s][x][i])
      BY <3>1
    <3>3. CASE s = side /\ x = p
      <4>1. CASE front.qty > 0 /\ r[i] = front
        BY <1>6, <2>2, <3>2, <3>3, <4>1
      <4>2. CASE \E j \in DOMAIN q : j # 1 /\ r[i] = q[j]
        <5>1. PICK j \in DOMAIN q : j # 1 /\ r[i] = q[j]
          BY <4>2
        <5>2. o = Placed(side, p, q[j]) /\ o.id # maker.id
          BY <2>2, <2>3, <2>5, <3>2, <3>3, <5>1
        <5> QED  BY <1>2, <5>1, <5>2, OpenIs
      <4> QED  BY <2>1, <2>2, <3>3, <4>1, <4>2
    <3>4. CASE s # side \/ x # p
      <4>1. i \in DOMAIN queue[s][x] /\ o = Placed(s, x, queue[s][x][i])
        BY <2>2, <3>2, <3>4
      <4>2. o.side = s /\ o.price = x
        BY <2>5, <4>1
      <4> QED  BY <2>4, <3>4, <4>1, <4>2, OpenIs
    <3> QED  BY <3>3, <3>4
  <2>7. ASSUME NEW o \in OpenOrders, o # maker PROVE o \in OpenOrders'
    <3>1. PICK s \in Side, x \in Price : \E i \in DOMAIN queue[s][x] :
                 o = Placed(s, x, queue[s][x][i])
      BY OpenIs
    <3>2. PICK i \in DOMAIN queue[s][x] : o = Placed(s, x, queue[s][x][i])
      BY <3>1
    <3>3. \E k \in DOMAIN queue'[s][x] : queue'[s][x][k] = queue[s][x][i]
      <4>1. CASE s = side /\ x = p
        <5>1. i \in DOMAIN q /\ i # 1
          BY <2>4, <2>7, <3>2, <4>1
        <5> QED  BY <2>1, <2>2, <4>1, <5>1
      <4>2. CASE s # side \/ x # p
        BY <2>2, <4>2
      <4> QED  BY <4>1, <4>2
    <3> QED  BY <3>2, <3>3, OpenIs
  <2>8. left.qty > 0 => left \in OpenOrders'
    <3>1. ASSUME front.qty > 0 PROVE \E i \in DOMAIN queue'[side][p] : queue'[side][p][i] = front
      BY <2>1, <2>2, <3>1
    <3> QED  BY <1>2, <1>6, <3>1, OpenIs
  <2> QED  BY <2>6, <2>7, <2>8
<1>12. left = [maker EXCEPT !.qty = @ - fill] /\ BookTaker.qty > 0
  BY <1>1, <1>7
<1> HIDE DEF fill, maker, left, trade
<1> QED
  BY <1>1, <1>5, <1>7, <1>8, <1>9, <1>10, <1>11, <1>12 DEF Book!Fill

-----------------------------------------------------------------------------
LEMMA NextImplements ==
  IInv /\ Numbered /\ [Next]_vars => [Book!BookNext]_(Book!bookVars)
<1> SUFFICES ASSUME IInv, Numbered, [Next]_vars
             PROVE  Book!BookNext \/ UNCHANGED Book!bookVars
  OBVIOUS
<1>1. CASE Request
  BY <1>1, CancelImplements, SubmitImplements, ReplaceImplements DEF Request, Book!BookNext
<1>2. CASE Work
  BY <1>2, FinishImplements, MatchImplements, PanicImplements DEF Work, Book!BookNext
<1>3. CASE UNCHANGED vars
  BY <1>3 DEF vars, book, history, OpenOrders, OpenAt, BookTaker, Book!bookVars
<1> QED  BY <1>1, <1>2, <1>3 DEF Next

\* The engine is the price-time book, whatever its levels, queues and index do:
\* every trade is the one that a set of orders served by price, then by time,
\* makes next (orderbook.rs, matching.rs).
THEOREM EngineImplementsBook == Spec => ImplementsBook
<1>1. Init => Numbered /\ Book!BookInit
  <2>1. ASSUME Init PROVE OpenOrders = {}
    <3>1. \A s \in Side, p \in Price : queue[s][p] = <<>>
      BY <2>1 DEF Init
    <3>2. \A s \in Side, p \in Price : DOMAIN queue[s][p] = {}
      BY <3>1
    <3> QED  BY <3>2, OpenIs
  <2>2. Init => BookTaker = NoOrder /\ log = <<>> /\ sequence = 0
    BY DEF Init, BookTaker
  <2> QED  BY <2>1, <2>2 DEF Numbered, Book!BookInit
<1> QED
  BY <1>1, NextNumbered, NextImplements, Invariance, PTL
  DEF Spec, ImplementsBook, Book!BookSpec

=============================================================================
