-------------------------- MODULE SendStreamProofs --------------------------
(***************************************************************************)
(* The sender's part of the proof that a stream is transferred: for any    *)
(* snapshot, any sizes of records and queue, and whatever fails, every     *)
(* step of the traversal thread and of the main thread keeps SendInv.      *)
(***************************************************************************)
EXTENDS SendStream, FiniteSetTheorems, TLAPS

\* Time for the provers, in seconds; the second pair is for a slow machine.
USE ZenonT(3), SMTT(30), ZenonT(40), SMTT(120)

-----------------------------------------------------------------------------
(* Counting records.                                                       *)

\* The records among the first k blocks are finitely many.
LEMMA CountNat ==
  ASSUME NEW k \in 0..NBlocks
  PROVE  IsFiniteSet((1..k) \ NoRecord) /\ Count(k) \in Nat
<1>1. IsFiniteSet(1..k)
  BY FS_Interval, SendAssumption
<1>2. IsFiniteSet((1..k) \ NoRecord)
  BY <1>1, FS_Subset
<1> QED BY <1>2, FS_CardinalityType DEF Count

\* One more block is one more record, or none.
LEMMA CountStep ==
  ASSUME NEW k \in 0..(NBlocks - 1)
  PROVE  Count(k + 1) = IF k + 1 \in NoRecord THEN Count(k) ELSE Count(k) + 1
<1>0. NBlocks \in Nat /\ k \in 0..NBlocks /\ k \in Nat
  BY SendAssumption
<1>1. IsFiniteSet((1..k) \ NoRecord)
  BY <1>0, CountNat
<1>2. CASE k + 1 \in NoRecord
  <2>1. (1..(k + 1)) \ NoRecord = (1..k) \ NoRecord
    BY <1>0, <1>2
  <2> QED BY <1>2, <2>1 DEF Count
<1>3. CASE k + 1 \notin NoRecord
  <2>1. (1..(k + 1)) \ NoRecord = ((1..k) \ NoRecord) \cup {k + 1} /\ k + 1 \notin (1..k) \ NoRecord
    BY <1>0, <1>3
  <2>2. Cardinality(((1..k) \ NoRecord) \cup {k + 1}) = Cardinality((1..k) \ NoRecord) + 1
    BY <1>1, <2>1, FS_AddElement
  <2> QED BY <1>3, <2>1, <2>2 DEF Count
<1> QED BY <1>2, <1>3

\* There are no fewer records among more blocks; there are more if the last one has a record.
LEMMA CountGrows ==
  ASSUME NEW j \in 0..NBlocks, NEW k \in 0..NBlocks, j <= k
  PROVE  Count(j) <= Count(k) /\ (j < k /\ k \notin NoRecord => Count(j) < Count(k))
<1>0. NBlocks \in Nat /\ j \in Nat /\ k \in Nat
  BY SendAssumption
<1>1. Count(j) <= Count(k)
  <2>1. (1..j) \ NoRecord \subseteq (1..k) \ NoRecord
    BY <1>0
  <2> QED BY <2>1, CountNat, FS_Subset DEF Count
<1>2. ASSUME j < k, k \notin NoRecord PROVE Count(j) < Count(k)
  <2>1. k - 1 \in 0..NBlocks /\ k - 1 \in 0..(NBlocks - 1) /\ j <= k - 1 /\ k - 1 + 1 = k
    BY <1>0, <1>2
  <2>2. Count(k) = Count(k - 1) + 1
    BY <1>2, <2>1, CountStep
  <2>3. (1..j) \ NoRecord \subseteq (1..(k - 1)) \ NoRecord
    BY <1>0, <2>1
  <2>4. Count(j) <= Count(k - 1)
    BY <2>1, <2>3, CountNat, FS_Subset DEF Count
  <2>5. Count(j) \in Nat /\ Count(k - 1) \in Nat
    BY <2>1, CountNat
  <2> QED BY <2>2, <2>4, <2>5
<1> QED BY <1>1, <1>2

\* A block with a record is the one of that number.
LEMMA NthOf ==
  ASSUME NEW b \in Blocks \ NoRecord
  PROVE  Nth(Count(b)) = b
<1>0. NBlocks \in Nat /\ Blocks \subseteq 0..NBlocks /\ \A x \in Blocks : x \in Nat
  BY SendAssumption DEF Blocks
<1>1. ASSUME NEW x \in Blocks \ NoRecord, Count(x) = Count(b) PROVE x = b
  <2>1. Count(x) \in Nat /\ Count(b) \in Nat
    BY <1>0, CountNat
  <2>2. ~ (x < b)
    BY <1>0, <1>1, <2>1, CountGrows
  <2>3. ~ (b < x)
    BY <1>0, <1>1, <2>1, CountGrows
  <2> QED BY <1>0, <2>2, <2>3
<1> QED BY <1>1 DEF Nth

-----------------------------------------------------------------------------
(* The queue.                                                              *)

\* n is the sum of the sizes f of the items of q, and at most m.
SumOf(f, q, n, m) ==
  \E sum \in [0..Len(q) -> 0..m] :
    /\ sum[0] = 0 /\ n = sum[Len(q)]
    /\ \A i \in 1..Len(q) : sum[i] = sum[i - 1] + f[q[i]]
    /\ \A i, j \in 0..Len(q) : i < j => sum[i] < sum[j]

\* bqueue_enqueue adds the size of the item that it inserts at the tail.
LEMMA SumAppend ==
  ASSUME NEW I, NEW m \in Nat, NEW f \in [I -> Nat \ {0}], NEW q \in Seq(I), NEW n \in 0..m,
         NEW x \in I, SumOf(f, q, n, m), n + f[x] <= m
  PROVE  SumOf(f, Append(q, x), n + f[x], m)
<1>1. PICK sum \in [0..Len(q) -> 0..m] :
        /\ sum[0] = 0 /\ n = sum[Len(q)]
        /\ \A i \in 1..Len(q) : sum[i] = sum[i - 1] + f[q[i]]
        /\ \A i, j \in 0..Len(q) : i < j => sum[i] < sum[j]
  BY DEF SumOf
<1> DEFINE r == Append(q, x)
           s2 == [i \in 0..Len(r) |-> IF i <= Len(q) THEN sum[i] ELSE n + f[x]]
<1>2. Len(q) \in Nat /\ Len(r) = Len(q) + 1 /\ r[Len(r)] = x /\ \A i \in 1..Len(q) : r[i] = q[i]
  OBVIOUS
<1>3. f[x] \in Nat /\ f[x] > 0 /\ n + f[x] \in 0..m
  OBVIOUS
<1>4. /\ s2 \in [0..Len(r) -> 0..m] /\ \A i \in 0..Len(q) : s2[i] = sum[i]
      /\ s2[Len(r)] = n + f[x]
  BY <1>1, <1>2, <1>3
<1>5. s2[0] = 0
  BY <1>1, <1>2, <1>4
<1>6. ASSUME NEW i \in 1..Len(r) PROVE s2[i] = s2[i - 1] + f[r[i]]
  <2>1. CASE i \in 1..Len(q)
    <3>1. i \in 0..Len(q) /\ i - 1 \in 0..Len(q) /\ r[i] = q[i]
      BY <1>2, <2>1
    <3> HIDE DEF s2, r
    <3> QED BY <1>1, <1>4, <2>1, <3>1
  <2>2. CASE i = Len(r)
    <3>1. i - 1 = Len(q) /\ Len(q) \in 0..Len(q)
      BY <1>2, <2>2
    <3>2. s2[i - 1] = n
      BY <1>1, <1>4, <3>1
    <3> HIDE DEF s2, r
    <3> QED BY <1>2, <1>4, <2>2, <3>2
  <2>3. i \in 1..Len(q) \/ i = Len(r)
    BY <1>2
  <2> QED BY <2>1, <2>2, <2>3
<1>7. ASSUME NEW i \in 0..Len(r), NEW j \in 0..Len(r), i < j PROVE s2[i] < s2[j]
  <2> HIDE DEF s2, r
  <2>1. CASE j \in 0..Len(q)
    <3>1. i \in 0..Len(q)
      BY <1>2, <1>7, <2>1
    <3> QED BY <1>1, <1>4, <1>7, <2>1, <3>1
  <2>2. CASE j = Len(r)
    <3>1. i \in 0..Len(q) /\ Len(q) \in 0..Len(q)
      BY <1>2, <1>7, <2>2
    <3>2. sum[i] <= n /\ sum[i] \in Int
      <4>1. i = Len(q) \/ i < Len(q)
        BY <1>2, <3>1
      <4> QED BY <1>1, <3>1, <4>1
    <3> QED BY <1>3, <1>4, <2>2, <3>1, <3>2
  <2>3. j \in 0..Len(q) \/ j = Len(r)
    BY <1>2
  <2> QED BY <2>1, <2>2, <2>3
<1> HIDE DEF s2
<1> QED BY <1>4, <1>5, <1>6, <1>7 DEF SumOf

\* bqueue_dequeue finds an item when bq_size is not 0, and takes off its size.
LEMMA SumTail ==
  ASSUME NEW I, NEW m \in Nat, NEW f \in [I -> Nat \ {0}], NEW q \in Seq(I), NEW n \in 0..m,
         SumOf(f, q, n, m)
  PROVE  /\ n = 0 <=> q = << >>
         /\ n # 0 => SumOf(f, Tail(q), n - f[Head(q)], m) /\ n - f[Head(q)] \in 0..m
<1>1. PICK sum \in [0..Len(q) -> 0..m] :
        /\ sum[0] = 0 /\ n = sum[Len(q)]
        /\ \A i \in 1..Len(q) : sum[i] = sum[i - 1] + f[q[i]]
        /\ \A i, j \in 0..Len(q) : i < j => sum[i] < sum[j]
  BY DEF SumOf
<1>2. Len(q) \in Nat /\ (Len(q) = 0 <=> q = << >>)
  OBVIOUS
<1>3. n = 0 <=> Len(q) = 0
  BY <1>1, <1>2
<1>4. ASSUME n # 0 PROVE SumOf(f, Tail(q), n - f[Head(q)], m) /\ n - f[Head(q)] \in 0..m
  <2> DEFINE r == Tail(q)
             x == f[Head(q)]
             s2 == [i \in 0..Len(r) |-> sum[i + 1] - x]
  <2>1. Len(q) > 0 /\ q # << >> /\ Head(q) = q[1] /\ Head(q) \in I
    BY <1>2, <1>3, <1>4
  <2>2. Len(r) = Len(q) - 1 /\ Len(r) \in Nat /\ \A i \in 1..Len(r) : r[i] = q[i + 1]
    BY <1>2, <2>1
  <2>3. sum[1] = x /\ x \in Nat /\ x > 0
    BY <1>1, <1>2, <2>1
  <2> HIDE DEF r, x
  <2>4. ASSUME NEW i \in 0..Len(r) PROVE i + 1 \in 0..Len(q) /\ sum[i + 1] \in x..m
    <3>1. i + 1 \in 0..Len(q) /\ 1 \in 0..Len(q) /\ i + 1 >= 1
      BY <1>2, <2>1, <2>2
    <3>2. sum[i + 1] \in 0..m /\ (i + 1 = 1 \/ sum[1] < sum[i + 1])
      <4>1. i + 1 = 1 \/ 1 < i + 1
        BY <3>1
      <4> QED BY <1>1, <3>1, <4>1
    <3> QED BY <2>3, <3>1, <3>2
  <2>5. s2 \in [0..Len(r) -> 0..m] /\ \A i \in 0..Len(r) : s2[i] = sum[i + 1] - x
    BY <2>3, <2>4
  <2> HIDE DEF s2
  <2>6. s2[0] = 0 /\ s2[Len(r)] = n - x /\ n - x \in 0..m
    <3>1. 0 \in 0..Len(r) /\ Len(r) \in 0..Len(r) /\ Len(r) + 1 = Len(q)
      BY <1>2, <2>2
    <3> QED BY <1>1, <2>3, <2>5, <3>1
  <2>7. ASSUME NEW i \in 1..Len(r) PROVE s2[i] = s2[i - 1] + f[r[i]]
    <3>1. i \in 0..Len(r) /\ i - 1 \in 0..Len(r) /\ i - 1 + 1 = i /\ i + 1 \in 1..Len(q) /\ i + 1 - 1 = i
      BY <2>2
    <3>2. sum[i + 1] = sum[i] + f[q[i + 1]] /\ r[i] = q[i + 1]
      <4>1. sum[i + 1] = sum[(i + 1) - 1] + f[q[i + 1]]
        BY <1>1, <3>1, ZenonT(40)
      <4> QED BY <2>2, <3>1, <4>1
    <3>3. s2[i] = sum[i + 1] - x /\ s2[i - 1] = sum[i] - x
      BY <2>5, <3>1
    <3>4. sum[i] \in Int /\ f[q[i + 1]] \in Int
      BY <1>1, <3>1
    <3> QED BY <2>3, <3>2, <3>3, <3>4
  <2>8. ASSUME NEW i \in 0..Len(r), NEW j \in 0..Len(r), i < j PROVE s2[i] < s2[j]
    <3>1. sum[i + 1] < sum[j + 1]
      BY <1>1, <2>4, <2>8
    <3> QED BY <2>3, <2>4, <2>5, <3>1
  <2>9. SumOf(f, r, n - x, m)
    BY <2>5, <2>6, <2>7, <2>8 DEF SumOf
  <2> QED BY <2>6, <2>9 DEF r, x
<1> QED BY <1>2, <1>3, <1>4

\* The sender's queue: bq_size is the sum of the sizes before and after a section.
LEMMA SendSizes ==
  ASSUME BqTypeOK, Sized
  PROVE  /\ bq_size = 0 <=> bq_list = << >>
         /\ bq_size # 0 /\ bq_list' = Tail(bq_list) /\ bq_size' = bq_size - Size(Head(bq_list))
              => bq_size' \in 0..bq_maxsize /\ Sized'
         /\ \A x \in Items : Room(x) /\ bq_list' = Append(bq_list, x) /\ bq_size' = bq_size + Size(x)
              => bq_size' \in 0..bq_maxsize /\ Sized'
<1> DEFINE f == [x \in Items |-> Size(x)]
<1>1. bq_maxsize \in Nat /\ f \in [Items -> Nat \ {0}] /\ \A x \in Items : f[x] = Size(x)
  BY BqueueAssumption
<1> HIDE DEF f
<1>2. bq_list \in Seq(Items) /\ bq_size \in 0..bq_maxsize
  BY DEF BqTypeOK
<1>3. SumOf(f, bq_list, bq_size, bq_maxsize)
  <2>1. \A i \in 1..Len(bq_list) : f[bq_list[i]] = Size(bq_list[i])
    BY <1>1, <1>2
  <2> QED BY <2>1 DEF Sized, SumOf
<1>4. ASSUME bq_list' \in Seq(Items), SumOf(f, bq_list', bq_size', bq_maxsize) PROVE Sized'
  <2>1. \A i \in 1..Len(bq_list') : f[bq_list'[i]] = Size(bq_list'[i])
    BY <1>1, <1>4
  <2> QED BY <1>4, <2>1 DEF Sized, SumOf
<1>5. bq_size = 0 <=> bq_list = << >>
  BY <1>1, <1>2, <1>3, SumTail
<1>6. ASSUME bq_size # 0, bq_list' = Tail(bq_list), bq_size' = bq_size - Size(Head(bq_list))
      PROVE  bq_size' \in 0..bq_maxsize /\ Sized'
  <2>1. Head(bq_list) \in Items /\ bq_list' \in Seq(Items)
    BY <1>2, <1>5, <1>6
  <2>2. bq_size' = bq_size - f[Head(bq_list)]
    BY <1>1, <1>6, <2>1
  <2>3. SumOf(f, bq_list', bq_size', bq_maxsize) /\ bq_size' \in 0..bq_maxsize
    BY <1>1, <1>2, <1>3, <1>6, <2>2, SumTail
  <2> QED BY <1>4, <2>1, <2>3
<1>7. ASSUME NEW x \in Items, Room(x), bq_list' = Append(bq_list, x), bq_size' = bq_size + Size(x)
      PROVE  bq_size' \in 0..bq_maxsize /\ Sized'
  <2>1. bq_list' \in Seq(Items) /\ bq_size' = bq_size + f[x] /\ bq_size + f[x] <= bq_maxsize
    BY <1>1, <1>2, <1>7 DEF Room
  <2>2. SumOf(f, bq_list', bq_size', bq_maxsize)
    BY <1>1, <1>2, <1>3, <1>7, <2>1, SumAppend
  <2>3. bq_size' \in 0..bq_maxsize
    BY <1>1, <1>2, <2>1
  <2> QED BY <1>4, <2>1, <2>2, <2>3
<1> QED BY <1>5, <1>6, <1>7

\* cv_signal only wakes a thread of the sender.
LEMMA SendSignal ==
  ASSUME NEW b, NEW o, NEW c \in Signal(b, o),
         b \in [Threads -> [op : Ops, item : Items \cup {NoItem}, asleep : BOOLEAN]]
  PROVE  /\ c \in [Threads -> [op : Ops, item : Items \cup {NoItem}, asleep : BOOLEAN]]
         /\ \A t \in Threads : c[t].op = b[t].op /\ c[t].item = b[t].item
<1>1. c = b \/ \E t \in Threads : c = [b EXCEPT ![t].asleep = FALSE]
  BY DEF Signal
<1>2. ASSUME NEW t \in Threads, c = [b EXCEPT ![t].asleep = FALSE]
      PROVE  /\ c \in [Threads -> [op : Ops, item : Items \cup {NoItem}, asleep : BOOLEAN]]
             /\ \A u \in Threads : c[u].op = b[u].op /\ c[u].item = b[u].item
  BY <1>2
<1> QED BY <1>1, <1>2

-----------------------------------------------------------------------------
(* The sender's steps.                                                     *)

\* The numbers of what is put, taken and seen, and that the items are distinct.
LEMMA SendFacts ==
  ASSUME SendInv
  PROVE  /\ Count(visited) \in Nat /\ Len(bq_list) \in Nat /\ NBlocks \in Nat /\ visited \in 0..NBlocks
         /\ Put = Count(visited) + (IF Ended THEN 1 ELSE 0) /\ Put \in Nat
         /\ Taken \in 0..Put /\ Seen \in 0..Taken
         /\ Seen = Taken - (IF InHand THEN 1 ELSE 0)
         /\ \A i \in 1..Put : Item(i) \in Items /\ Item(i) # NoItem /\ (Item(i) = eos <=> i > Count(visited))
         /\ \A i, j \in 1..Put : Item(i) = Item(j) => i = j
<1> USE DEF SendInv
<1>1. Count(visited) \in Nat /\ Len(bq_list) \in Nat /\ NBlocks \in Nat /\ visited \in 0..NBlocks
  <2>1. bq_list \in Seq(Items) /\ visited \in 0..NBlocks
    BY DEF TypeOK, BqTypeOK
  <2>2. Count(visited) \in Nat
    BY <2>1, CountNat, ZenonT(40)
  <2>3. Len(bq_list) \in Nat
    BY <2>1
  <2> QED BY <2>1, <2>2, <2>3, SendAssumption
<1>2. Put = Count(visited) + (IF Ended THEN 1 ELSE 0) /\ Put \in Nat
  BY <1>1 DEF Put
<1>3. Seen = Taken - (IF InHand THEN 1 ELSE 0)
  BY DEF Seen
<1>4. Taken \in 0..Put /\ Seen \in 0..Taken
  <2>1. Seen >= 0
    BY DEF SendOrder
  <2>2. Taken \in Int /\ Taken <= Put
    BY <1>1, <1>2 DEF Taken
  <2> QED BY <1>2, <1>3, <2>1, <2>2
<1>5. ASSUME NEW i \in 1..Put
      PROVE  /\ Item(i) \in Items /\ Item(i) # NoItem /\ (Item(i) = eos <=> i > Count(visited))
             /\ i <= Count(visited) => Count(Item(i)) = i
  <2>1. CASE i <= Count(visited)
    <3>1. i \in 1..Count(visited) /\ Item(i) = Nth(i)
      BY <1>1, <1>2, <2>1 DEF Item
    <3>2. Nth(i) \in Blocks \ NoRecord /\ Count(Nth(i)) = i
      BY <3>1 DEF SendOrder
    <3> QED BY <1>1, <2>1, <3>1, <3>2, SendAssumption, BqueueAssumption
  <2>2. CASE i > Count(visited)
    BY <1>1, <1>2, <2>2, SendAssumption, BqueueAssumption DEF Item
  <2> QED BY <1>1, <1>2, <2>1, <2>2
<1>6. ASSUME NEW i \in 1..Put, NEW j \in 1..Put, Item(i) = Item(j) PROVE i = j
  <2>1. i \in Nat /\ j \in Nat /\ i <= Put /\ j <= Put /\ Put <= Count(visited) + 1
    BY <1>1, <1>2
  <2>2. CASE i <= Count(visited)
    <3>1. j <= Count(visited)
      <4>1. ~ (i > Count(visited))
        BY <1>1, <2>1, <2>2
      <4>2. ~ (j > Count(visited))
        BY <1>5, <1>6, <4>1
      <4> QED BY <1>1, <2>1, <4>2
    <3>2. Count(Item(i)) = i /\ Count(Item(j)) = j
      BY <1>5, <2>2, <3>1
    <3> QED BY <1>6, <3>2
  <2>3. CASE i > Count(visited)
    <3>1. j > Count(visited)
      BY <1>5, <1>6, <2>3
    <3> QED BY <1>1, <1>2, <2>1, <2>3, <3>1
  <2> QED BY <1>1, <2>1, <2>2, <2>3
<1> QED BY <1>1, <1>2, <1>3, <1>4, <1>5, <1>6

\* The calls of the two threads.
LEMMA SendBq ==
  ASSUME SendInv
  PROVE  /\ Threads = {tv, main} /\ tv # main /\ tv \in Threads /\ main \in Threads
         /\ bq \in [Threads -> [op : Ops, item : Items \cup {NoItem}, asleep : BOOLEAN]]
         /\ \A r \in [op : Ops, item : Items \cup {NoItem}, asleep : BOOLEAN], t \in Threads :
              [bq EXCEPT ![t] = r] \in [Threads -> [op : Ops, item : Items \cup {NoItem}, asleep : BOOLEAN]]
BY SendAssumption DEF SendInv, TypeOK, BqTypeOK

\* A thread that falls asleep, or is woken, changes nothing else.
LEMMA SendSleep ==
  ASSUME SendInv, UNCHANGED <<bq_list, bq_size, sendVars>>,
         bq' \in [Threads -> [op : Ops, item : Items \cup {NoItem}, asleep : BOOLEAN]],
         \A t \in Threads : bq'[t].op = bq[t].op /\ bq'[t].item = bq[t].item
  PROVE  SendInv'
<1>0. /\ bq'[tv].op = bq[tv].op /\ bq'[tv].item = bq[tv].item
      /\ bq'[main].op = bq[main].op /\ bq'[main].item = bq[main].item
  BY SendBq
<1>1. /\ Ended' = Ended /\ Put' = Put /\ Taken' = Taken /\ InHand' = InHand /\ Seen' = Seen
      /\ \A i : Item(i)' = Item(i)
  BY <1>0 DEF Ended, Put, Taken, InHand, Seen, Item, sendVars
<1>2. TypeOK' /\ Sized'
  BY DEF SendInv, TypeOK, BqTypeOK, Sized, sendVars
<1>3. SendCalls'
  BY <1>0, <1>1 DEF SendInv, SendCalls, sendVars
<1>4. SendOrder'
  BY <1>0, <1>1 DEF SendInv, SendOrder, sendVars
<1>5. SendRecords' /\ SendState'
  BY <1>1 DEF SendInv, SendRecords, SendState, sendVars
<1> QED BY <1>2, <1>3, <1>4, <1>5 DEF SendInv

\* send_cb: the next block has no record, or one that goes to the queue, or the traversal ends.
LEMMA SendVisit ==
  ASSUME SendInv, send_cb
  PROVE  SendInv'
<1> USE DEF SendInv
<1> DEFINE n == Count(visited)
<1>0. /\ tpc = "visit" /\ bq[tv].op = "none" /\ ~Ended
      /\ UNCHANGED <<mpc, cancel, err, to_data, dumped>>
  BY DEF send_cb, Runs, InCall, Ended
<1>1. n \in Nat /\ Put = n /\ Put \in Nat /\ Taken = n - Len(bq_list) /\ Seen <= n /\ mpc # "done"
  <2>1. Put = n
    BY <1>0, SendFacts
  <2>2. Taken = n - Len(bq_list)
    BY <1>0, <2>1, SendFacts DEF Taken
  <2>3. Seen <= n
    BY <2>1, SendFacts
  <2>4. ~ (Seen > n)
    BY <2>1, <2>3, SendFacts
  <2> QED BY <2>1, <2>2, <2>3, <2>4, SendFacts DEF SendOrder
<1>2. CASE visited < NBlocks /\ ~Cancelled /\ visited' = visited + 1 /\ visited' \in NoRecord
           /\ UNCHANGED <<records, queueVars, tpc, error_code>>
  <2>1. visited \in 0..(NBlocks - 1) /\ visited' \in 0..NBlocks
    BY <1>2, SendFacts
  <2>2. Count(visited') = n
    BY <1>2, <2>1, CountStep
  <2>3. /\ Ended' = Ended /\ Put' = Put /\ Taken' = Taken /\ InHand' = InHand /\ Seen' = Seen
        /\ \A i : Item(i)' = Item(i)
    BY <1>0, <1>2, <2>2 DEF Ended, Put, Taken, InHand, Seen, Item, queueVars
  <2>4. TypeOK' /\ Sized'
    BY <1>0, <1>2, <2>1 DEF TypeOK, BqTypeOK, Sized, queueVars
  <2>5. SendCalls'
    BY <1>0, <1>2, <2>3 DEF SendCalls, queueVars
  <2>6. SendOrder'
    BY <1>0, <1>1, <1>2, <2>2, <2>3 DEF SendOrder, queueVars
  <2>7. SendRecords' /\ SendState'
    BY <1>0, <1>1, <1>2, <2>2, <2>3 DEF SendRecords, SendState, queueVars
  <2> QED BY <2>4, <2>5, <2>6, <2>7
<1>3. CASE visited < NBlocks /\ ~Cancelled /\ visited' = visited + 1 /\ visited' \notin NoRecord
           /\ records' = records \cup {visited'} /\ bqueue_enqueue(tv, visited') /\ tpc' = "put"
           /\ UNCHANGED error_code
  <2>1. visited \in 0..(NBlocks - 1) /\ visited' \in 0..NBlocks /\ visited' \in Blocks \ NoRecord /\ visited' \in Items
    BY <1>3, SendFacts, SendAssumption DEF Blocks
  <2>2. Count(visited') = n + 1
    BY <1>3, <2>1, CountStep
  <2>3. Nth(n + 1) = visited'
    BY <2>1, <2>2, NthOf
  <2>4. /\ bq' = [bq EXCEPT ![tv] = [op |-> "enqueue", item |-> visited', asleep |-> FALSE]]
        /\ bq_list' = bq_list /\ bq_size' = bq_size
    BY <1>3 DEF bqueue_enqueue
  <2>5. bq'[tv].op = "enqueue" /\ bq'[tv].item = visited' /\ bq'[main] = bq[main]
    BY <2>4, SendBq
  <2>6. /\ ~Ended' /\ Put' = Put + 1 /\ Taken' = Taken /\ InHand' = InHand /\ Seen' = Seen
        /\ \A i \in Nat : i <= n => Item(i)' = Item(i)
        /\ \A i \in Nat : i = n + 1 => Item(i)' = visited'
    <3>1. ~Ended' /\ InHand' = InHand
      BY <1>0, <1>3, <2>5 DEF Ended, InHand
    <3>2. Put' = n + 1
      BY <1>1, <2>2, <3>1 DEF Put
    <3>3. Taken' = Taken
      BY <1>1, <2>4, <2>5, <3>2, SendFacts DEF Taken
    <3>4. Seen' = Seen
      BY <3>1, <3>3 DEF Seen
    <3>5. \A i \in Nat : i <= n => Item(i)' = Item(i)
      BY <1>1, <2>2 DEF Item
    <3>6. \A i \in Nat : i = n + 1 => Item(i)' = visited'
      BY <1>1, <2>2, <2>3 DEF Item
    <3> QED BY <1>1, <3>1, <3>2, <3>3, <3>4, <3>5, <3>6
  <2>7. TypeOK' /\ Sized'
    <3>1. bq' \in [Threads -> [op : Ops, item : Items \cup {NoItem}, asleep : BOOLEAN]]
      BY <2>1, <2>4, SendBq DEF Ops
    <3> QED BY <1>0, <1>3, <2>1, <2>4, <3>1 DEF TypeOK, BqTypeOK, Sized
  <2>8. SendCalls'
    BY <1>0, <1>1, <1>3, <2>5, <2>6 DEF SendCalls
  <2>9. SendOrder'
    <3>1. ASSUME NEW i \in 1..(n + 1) PROVE Nth(i) \in Blocks \ NoRecord /\ Count(Nth(i)) = i
      <4>1. CASE i \in 1..n
        BY <4>1 DEF SendOrder
      <4>2. CASE i = n + 1
        BY <2>1, <2>2, <2>3, <4>2
      <4> QED BY <1>1, <4>1, <4>2
    <3>2. ASSUME NEW i \in 1..Len(bq_list) PROVE bq_list[i] = Item(Taken + i)'
      <4>1. Taken + i \in Nat /\ Taken + i <= n
        BY <1>1, SendFacts
      <4> QED BY <2>6, <4>1 DEF SendOrder
    <3>3. InHand => bq[main].item = Item(Taken)'
      BY <1>1, <2>6, SendFacts DEF SendOrder
    <3>4. to_data = IF Seen = 0 THEN NoItem ELSE Item(Seen)'
      BY <1>1, <2>6, SendFacts DEF SendOrder
    <3>5. Seen \in Nat /\ Seen <= n
      BY <1>1, SendFacts
    <3> QED BY <1>0, <1>1, <2>2, <2>4, <2>5, <2>6, <3>1, <3>2, <3>3, <3>4, <3>5 DEF SendOrder
  <2>10. SendRecords'
    <3>1. records = {Item(i) : i \in {j \in 1..n : j >= Seen}}
      BY <1>1 DEF SendRecords
    <3>2. Seen \in Nat /\ Seen <= n
      BY <1>1, SendFacts
    <3>3. \A i : i \in {j \in 1..(Put + 1) : j >= Seen /\ mpc # "done"} <=> i \in {j \in 1..n : j >= Seen} \/ i = n + 1
      BY <1>1, <3>2
    <3>4. \A i : i = n + 1 => Item(i)' = visited'
      BY <1>1, <2>6
    <3>5. \A i \in {j \in 1..n : j >= Seen} : Item(i)' = Item(i)
      BY <1>1, <2>6
    <3>6. records' = {Item(i)' : i \in {j \in 1..(Put + 1) : j >= Seen /\ mpc # "done"}}
      <4> HIDE DEF n
      <4> QED BY <1>3, <3>1, <3>3, <3>4, <3>5
    <3> QED BY <1>0, <2>6, <3>6 DEF SendRecords
  <2>11. SendState'
    <3>1. Len(dumped) <= n /\ Len(dumped) \in Nat
      BY DEF SendState, TypeOK
    <3> QED BY <1>0, <1>1, <1>3, <2>2, <2>6, <3>1 DEF SendState
  <2> QED BY <2>7, <2>8, <2>9, <2>10, <2>11
<1>4. CASE /\ tpc' = "eos" /\ error_code' \in Errors /\ UNCHANGED <<visited, records, queueVars>>
           /\ visited = NBlocks \/ error_code' # "0" \/ cancel
  <2>1. /\ Ended' = Ended /\ Put' = Put /\ Taken' = Taken /\ InHand' = InHand /\ Seen' = Seen
        /\ \A i : Item(i)' = Item(i)
    BY <1>0, <1>4 DEF Ended, Put, Taken, InHand, Seen, Item, queueVars
  <2>2. TypeOK' /\ Sized'
    BY <1>0, <1>4 DEF TypeOK, BqTypeOK, Sized, queueVars
  <2>3. SendCalls'
    BY <1>0, <1>4, <2>1 DEF SendCalls, queueVars
  <2>4. SendOrder'
    BY <1>0, <1>4, <2>1 DEF SendOrder, queueVars
  <2>5. SendRecords' /\ SendState'
    BY <1>0, <1>1, <1>4, <2>1 DEF SendRecords, SendState, queueVars
  <2> QED BY <2>2, <2>3, <2>4, <2>5
<1> QED
  <2>1. CASE visited < NBlocks /\ UNCHANGED <<visited, records, queueVars>>
             /\ \E e \in IF Cancelled THEN {"EINTR"} ELSE {"EIO"} : SetError(e) /\ TraverseReturned(e)
    BY <1>4, <2>1 DEF Cancelled, SetError, TraverseReturned, Errors, TypeOK
  <2>2. CASE visited = NBlocks /\ SetError("0") /\ TraverseReturned("0") /\ UNCHANGED <<visited, records, queueVars>>
    BY <1>4, <2>2 DEF SetError, TraverseReturned, Errors
  <2> QED BY <1>2, <1>3, <2>1, <2>2 DEF send_cb

\* The traversal thread goes on after bqueue_enqueue.
LEMMA SendReturn ==
  ASSUME SendInv, Enqueued \/ TraverseExit
  PROVE  SendInv'
<1> USE DEF SendInv
<1>0. /\ bq[tv].op = "none" /\ UNCHANGED <<queueVars, visited, mpc, cancel, error_code, err, to_data, dumped, records>>
      /\ \/ tpc = "put" /\ tpc' = "visit"
         \/ tpc = "last" /\ tpc' = "exit"
  BY DEF Enqueued, TraverseExit, Runs, InCall
<1>1. /\ Ended' = Ended /\ Put' = Put /\ Taken' = Taken /\ InHand' = InHand /\ Seen' = Seen
      /\ \A i : Item(i)' = Item(i)
  BY <1>0 DEF Ended, Put, Taken, InHand, Seen, Item, queueVars
<1>2. TypeOK' /\ Sized'
  BY <1>0 DEF TypeOK, BqTypeOK, Sized, queueVars
<1>3. SendCalls'
  BY <1>0, <1>1 DEF SendCalls, queueVars
<1>4. SendOrder'
  BY <1>0, <1>1 DEF SendOrder, queueVars
<1>5. SendRecords' /\ SendState'
  BY <1>0, <1>1 DEF SendRecords, SendState, queueVars
<1> QED BY <1>2, <1>3, <1>4, <1>5

\* send_traverse_thread puts the end-of-stream record after all the others.
LEMMA SendEos ==
  ASSUME SendInv, send_traverse_thread
  PROVE  SendInv'
<1> USE DEF SendInv
<1> DEFINE n == Count(visited)
<1>0. /\ tpc = "eos" /\ tpc' = "last" /\ bq[tv].op = "none" /\ ~Ended /\ Ended' /\ records' = records \cup {eos}
      /\ UNCHANGED <<visited, mpc, cancel, error_code, err, to_data, dumped, bq_list, bq_size>>
      /\ bq' = [bq EXCEPT ![tv] = [op |-> "enqueue", item |-> eos, asleep |-> FALSE]]
  BY DEF send_traverse_thread, bqueue_enqueue, Runs, InCall, Ended
<1>1. n \in Nat /\ Put = n /\ Taken = n - Len(bq_list) /\ Seen \in Nat /\ Seen <= n /\ mpc # "done"
  <2>1. Put = n
    BY <1>0, SendFacts
  <2>2. Taken = n - Len(bq_list)
    BY <1>0, <2>1, SendFacts DEF Taken
  <2>3. Seen <= n /\ ~ (Seen > n)
    BY <2>1, SendFacts
  <2> QED BY <2>1, <2>2, <2>3, SendFacts DEF SendOrder
<1>2. bq'[tv].op = "enqueue" /\ bq'[tv].item = eos /\ bq'[main] = bq[main]
  BY <1>0, SendBq
<1>3. /\ Put' = Put + 1 /\ Taken' = Taken /\ InHand' = InHand /\ Seen' = Seen
      /\ \A i : Item(i)' = Item(i)
  <2>1. InHand' = InHand /\ Put' = n + 1
    BY <1>0, <1>1, <1>2 DEF InHand, Put
  <2>2. Taken' = Taken
    BY <1>0, <1>1, <1>2, <2>1, SendFacts DEF Taken
  <2> QED BY <1>0, <1>1, <2>1, <2>2 DEF Seen, Item
<1>4. TypeOK' /\ Sized'
  <2>1. bq' \in [Threads -> [op : Ops, item : Items \cup {NoItem}, asleep : BOOLEAN]]
    BY <1>0, SendBq, SendAssumption DEF Ops
  <2> QED BY <1>0, <2>1, SendAssumption DEF TypeOK, BqTypeOK, Sized
<1>5. SendCalls'
  <2>1. Item(n + 1) = eos
    BY <1>1 DEF Item
  <2> QED BY <1>0, <1>1, <1>2, <1>3, <2>1 DEF SendCalls
<1>6. SendOrder'
  BY <1>0, <1>1, <1>2, <1>3 DEF SendOrder
<1>7. SendRecords'
  <2>1. records = {Item(i) : i \in {j \in 1..n : j >= Seen}}
    BY <1>1 DEF SendRecords
  <2>2. \A i : i \in {j \in 1..(n + 1) : j >= Seen /\ mpc # "done"} <=> i \in {j \in 1..n : j >= Seen} \/ i = n + 1
    BY <1>1
  <2>3. Item(n + 1) = eos
    BY <1>1 DEF Item
  <2>4. records' = {Item(i) : i \in {j \in 1..(n + 1) : j >= Seen /\ mpc # "done"}}
    <3> HIDE DEF n
    <3> QED BY <1>0, <2>1, <2>2, <2>3
  <2> QED BY <1>0, <1>1, <1>3, <2>4 DEF SendRecords
<1>8. SendState'
  BY <1>0, <1>1, <1>3 DEF SendState
<1> QED BY <1>4, <1>5, <1>6, <1>7, <1>8

\* bqueue_dequeue begins.
LEMMA SendGet ==
  ASSUME SendInv, GetNext
  PROVE  SendInv'
<1> USE DEF SendInv
<1>0. /\ bq[main].op = "none" /\ UNCHANGED <<visited, tpc, cancel, error_code, err, to_data, dumped, records, bq_list, bq_size>>
      /\ bq' = [bq EXCEPT ![main] = [op |-> "dequeue", item |-> NoItem, asleep |-> FALSE]]
      /\ \/ mpc = "next" /\ mpc' = "take"
         \/ mpc = "drain" /\ mpc' = "drained"
  BY DEF GetNext, bqueue_dequeue, Runs, InCall
<1>1. bq'[main].op = "dequeue" /\ bq'[main].item = NoItem /\ bq'[tv] = bq[tv]
  BY <1>0, SendBq
<1>2. /\ Ended' = Ended /\ Put' = Put /\ Taken' = Taken /\ ~InHand /\ ~InHand' /\ Seen' = Seen
      /\ \A i : Item(i)' = Item(i)
  BY <1>0, <1>1 DEF Ended, Put, Taken, InHand, Seen, Item
<1>3. TypeOK' /\ Sized'
  <2>1. bq' \in [Threads -> [op : Ops, item : Items \cup {NoItem}, asleep : BOOLEAN]]
    BY <1>0, SendBq DEF Ops
  <2> QED BY <1>0, <2>1 DEF TypeOK, BqTypeOK, Sized
<1>4. SendCalls'
  BY <1>0, <1>1, <1>2 DEF SendCalls
<1>5. SendOrder'
  BY <1>0, <1>1, <1>2 DEF SendOrder
<1>6. SendRecords' /\ SendState'
  BY <1>0, <1>2 DEF SendRecords, SendState
<1> QED BY <1>3, <1>4, <1>5, <1>6

\* The main thread takes the record that came, and frees the one it had.
LEMMA SendReplace ==
  ASSUME SendInv, mpc \in {"take", "drained"}, Replace, mpc' \in {"loop", "drain"},
         UNCHANGED <<queueVars, visited, tpc>>
  PROVE  /\ InHand /\ ~InHand' /\ Put' = Put /\ Taken' = Taken /\ Seen' = Taken /\ Seen' = Seen + 1
         /\ \A i : Item(i)' = Item(i)
         /\ to_data' = Item(Seen') /\ to_data' \in Items /\ SendRecords'
<1> USE DEF SendInv
<1>0. bq[main].op = "none" /\ to_data' = bq[main].item /\ records' = records \ {to_data}
  BY DEF Replace, Runs, InCall
<1>1. InHand /\ ~InHand'
  BY <1>0 DEF InHand, queueVars
<1>2. Put' = Put /\ Taken' = Taken /\ \A i : Item(i)' = Item(i)
  BY DEF Put, Ended, Taken, Item, queueVars
<1>3. Seen' = Taken /\ Seen' = Seen + 1
  BY <1>1, <1>2, SendFacts DEF Seen
<1>4. to_data' = Item(Seen') /\ Seen + 1 \in 1..Put /\ Seen \in Nat
  BY <1>0, <1>1, <1>2, <1>3, SendFacts DEF SendOrder
<1>5. to_data' \in Items
  BY <1>3, <1>4, SendFacts
<1>6. SendRecords'
  <2>1. records = {Item(i) : i \in {j \in 1..Put : j >= Seen}}
    BY DEF SendRecords
  <2>2. to_data = IF Seen = 0 THEN NoItem ELSE Item(Seen)
    BY DEF SendOrder
  <2>3. ASSUME NEW i \in 1..Put PROVE i >= Seen + 1 <=> i >= Seen /\ Item(i) # to_data
    <3>1. CASE Seen = 0
      BY <2>2, <3>1, SendFacts
    <3>2. CASE Seen # 0
      <4>1. Seen \in 1..Put
        BY <1>4, <3>2, SendFacts
      <4>2. Item(i) = to_data <=> i = Seen
        BY <2>2, <3>2, <4>1, SendFacts
      <4> QED BY <1>4, <4>2
    <3> QED BY <3>1, <3>2
  <2>4. records' = {Item(i) : i \in {j \in 1..Put : j >= Seen + 1}}
    BY <1>0, <2>1, <2>3
  <2> QED BY <1>2, <1>3, <2>4 DEF SendRecords
<1> QED BY <1>1, <1>2, <1>3, <1>4, <1>5, <1>6

\* get_next_record: issig may interrupt, but the record has come.
LEMMA SendTake ==
  ASSUME SendInv, get_next_record
  PROVE  SendInv'
<1> USE DEF SendInv
<1>0. /\ mpc = "take" /\ mpc' = "loop" /\ Replace /\ err' \in {err, "EINTR"}
      /\ UNCHANGED <<queueVars, visited, tpc, cancel, error_code, dumped>>
  BY DEF get_next_record
<1>1. /\ InHand /\ ~InHand' /\ Put' = Put /\ Taken' = Taken /\ Seen' = Taken /\ Seen' = Seen + 1
      /\ \A i : Item(i)' = Item(i)
      /\ to_data' = Item(Seen') /\ to_data' \in Items /\ SendRecords'
  BY <1>0, SendReplace
<1>2. Seen \in Nat
  BY SendFacts
<1>3. TypeOK' /\ Sized'
  <2>1. records' \subseteq Items
    BY <1>0 DEF Replace, TypeOK
  <2>2. err' \in Errors
    BY <1>0 DEF TypeOK, Errors
  <2> QED BY <1>0, <1>1, <2>1, <2>2 DEF TypeOK, BqTypeOK, Sized, queueVars
<1>4. SendCalls'
  <2>1. bq[main].op = "none"
    BY <1>0 DEF Replace, Runs, InCall
  <2> QED BY <1>0, <1>1, <2>1 DEF SendCalls, queueVars
<1>5. SendOrder'
  BY <1>0, <1>1, <1>2 DEF SendOrder, queueVars
<1>6. SendState'
  BY <1>0, <1>1, <1>2 DEF SendState
<1> QED BY <1>1, <1>3, <1>4, <1>5, <1>6

\* After an error the main thread takes records up to the end-of-stream record.
LEMMA SendDrain ==
  ASSUME SendInv, Drain
  PROVE  SendInv'
<1> USE DEF SendInv
<1>0. /\ mpc = "drained" /\ mpc' \in {"loop", "drain"} /\ Replace /\ (mpc' = "loop" <=> to_data' = eos)
      /\ UNCHANGED <<queueVars, visited, tpc, cancel, error_code, err, dumped>>
  BY DEF Drain
<1>1. /\ InHand /\ ~InHand' /\ Put' = Put /\ Taken' = Taken /\ Seen' = Taken /\ Seen' = Seen + 1
      /\ \A i : Item(i)' = Item(i)
      /\ to_data' = Item(Seen') /\ to_data' \in Items /\ SendRecords'
  BY <1>0, SendReplace
<1>2. Seen \in Nat /\ Seen + 1 \in 1..Put
  BY <1>1, SendFacts
<1>3. mpc' = "drain" => Seen' <= Count(visited)
  <2>1. to_data' # eos => ~ (Seen + 1 > Count(visited))
    BY <1>1, <1>2, SendFacts
  <2> QED BY <1>0, <1>1, <1>2, <2>1, SendFacts
<1>4. TypeOK' /\ Sized'
  <2>1. records' \subseteq Items
    BY <1>0 DEF Replace, TypeOK
  <2> QED BY <1>0, <1>1, <2>1 DEF TypeOK, BqTypeOK, Sized, queueVars
<1>5. SendCalls'
  <2>1. bq[main].op = "none"
    BY <1>0 DEF Replace, Runs, InCall
  <2> QED BY <1>0, <1>1, <2>1 DEF SendCalls, queueVars
<1>6. SendOrder'
  BY <1>0, <1>1, <1>2, <1>3 DEF SendOrder, queueVars
<1>7. SendState'
  BY <1>0, <1>1, <1>2 DEF SendState
<1> QED BY <1>1, <1>4, <1>5, <1>6, <1>7

\* The main thread is done with the record at hand: it was written, or something failed.
LEMMA SendLoop ==
  ASSUME SendInv, do_dump \/ Cancel
  PROVE  SendInv'
<1> USE DEF SendInv
<1>0. /\ mpc = "loop" /\ mpc' \in {"next", "drain"} /\ to_data # eos
      /\ UNCHANGED <<queueVars, visited, tpc, error_code, to_data, records>>
  BY DEF do_dump, Cancel
<1>1. /\ Ended' = Ended /\ Put' = Put /\ Taken' = Taken /\ InHand' = InHand /\ Seen' = Seen /\ bq[main].op = "none"
      /\ \A i : Item(i)' = Item(i)
  <2>1. bq[main].op = "none"
    BY <1>0 DEF SendCalls
  <2> QED BY <1>0, <2>1 DEF Ended, Put, Taken, InHand, Seen, Item, queueVars
<1>2. Seen > 0 /\ Seen \in 1..Put /\ Seen <= Count(visited) /\ to_data = Nth(Seen) /\ to_data \in Blocks
  <2>1. Seen > 0 /\ to_data = Item(Seen) /\ Seen \in 1..Put
    BY <1>0, SendFacts DEF SendOrder
  <2>2. ~ (Seen > Count(visited))
    BY <1>0, <2>1, SendFacts
  <2>3. Seen <= Count(visited) /\ Seen \in 1..Count(visited)
    BY <2>1, <2>2, SendFacts
  <2> QED BY <2>1, <2>3 DEF Item, SendOrder
<1>3. SendRecords'
  BY <1>0, <1>1 DEF SendRecords
<1>4. SendCalls' /\ SendOrder'
  BY <1>0, <1>1, <1>2 DEF SendCalls, SendOrder, queueVars
<1>5. CASE do_dump
  <2>1. /\ err = "0" /\ mpc' = "next" /\ cancel' = cancel
        /\ \/ dumped' = Append(dumped, to_data) /\ err' = err
           \/ err' = "EIO" /\ dumped' = dumped
    BY <1>5 DEF do_dump
  <2>2. dumped \in Seq(Blocks) /\ Len(dumped) = Seen - 1 /\ Len(dumped) \in Nat
    BY <1>0, <2>1 DEF TypeOK, SendState
  <2>3. TypeOK' /\ Sized'
    <3>1. dumped' \in Seq(Blocks) /\ err' \in Errors
      BY <1>2, <2>1, <2>2 DEF Errors
    <3> QED BY <1>0, <2>1, <3>1 DEF TypeOK, BqTypeOK, Sized, queueVars
  <2>4. CASE dumped' = Append(dumped, to_data) /\ err' = err
    <3>1. /\ Len(dumped') = Seen /\ DOMAIN dumped' = 1..Seen /\ dumped'[Seen] = Nth(Seen)
          /\ \A i \in 1..(Seen - 1) : dumped'[i] = dumped[i] /\ i \in DOMAIN dumped
      BY <1>2, <2>2, <2>4
    <3>2. \A i \in DOMAIN dumped' : dumped'[i] = Nth(i)
      BY <1>2, <3>1, SendFacts DEF SendState
    <3>3. SendState'
      BY <1>0, <1>1, <1>2, <2>1, <2>4, <3>1, <3>2 DEF SendState
    <3> QED BY <1>3, <1>4, <2>3, <3>3
  <2>5. CASE err' = "EIO" /\ dumped' = dumped
    <3>1. SendState'
      BY <1>0, <1>1, <2>1, <2>5 DEF SendState
    <3> QED BY <1>3, <1>4, <2>3, <3>1
  <2> QED BY <2>1, <2>4, <2>5
<1>6. CASE Cancel
  <2>1. err # "0" /\ mpc' = "drain" /\ cancel' = TRUE /\ err' = err /\ dumped' = dumped
    BY <1>6 DEF Cancel
  <2>2. TypeOK' /\ Sized'
    BY <1>0, <2>1 DEF TypeOK, BqTypeOK, Sized, queueVars
  <2>3. SendState'
    BY <1>0, <1>1, <2>1 DEF SendState
  <2> QED BY <1>3, <1>4, <2>2, <2>3
<1> QED BY <1>5, <1>6

\* dmu_send_impl returns after the end-of-stream record, with the error of either thread.
LEMMA SendFinish ==
  ASSUME SendInv, Finish
  PROVE  SendInv'
<1> USE DEF SendInv
<1>0. /\ mpc = "loop" /\ mpc' = "done" /\ to_data = eos /\ cancel' = (cancel \/ err # "0")
      /\ records' = records \ {eos} /\ err' \in {err, error_code, "EIO"}
      /\ err' = "0" => err = "0" /\ error_code = "0"
      /\ err # "0" => err' # "0"
      /\ UNCHANGED <<queueVars, visited, tpc, error_code, to_data, dumped>>
  BY DEF Finish
<1>1. /\ Ended' = Ended /\ Put' = Put /\ Taken' = Taken /\ InHand' = InHand /\ Seen' = Seen /\ bq[main].op = "none"
      /\ \A i : Item(i)' = Item(i)
  <2>1. bq[main].op = "none"
    BY <1>0 DEF SendCalls
  <2> QED BY <1>0, <2>1 DEF Ended, Put, Taken, InHand, Seen, Item, queueVars
<1>2. Seen > Count(visited) /\ Seen = Put /\ Put = Count(visited) + 1 /\ Ended /\ Put \in Nat
  <2>1. Seen > 0 /\ to_data = Item(Seen) /\ Seen \in 1..Put
    BY <1>0, SendFacts DEF SendOrder
  <2>2. Seen > Count(visited)
    BY <1>0, <2>1, SendFacts
  <2> QED BY <2>1, <2>2, SendFacts
<1>3. SendRecords'
  <2>1. \A i \in {j \in 1..Put : j >= Seen} : Item(i) = eos
    BY <1>2, SendFacts
  <2>2. records \subseteq {eos}
    BY <2>1 DEF SendRecords
  <2>3. records' = {}
    BY <1>0, <2>2
  <2> QED BY <1>0, <2>3 DEF SendRecords
<1>4. SendCalls' /\ SendOrder'
  BY <1>0, <1>1, <1>2 DEF SendCalls, SendOrder, queueVars
<1>5. TypeOK' /\ Sized'
  <2>1. cancel' \in BOOLEAN /\ {error_code', err'} \subseteq Errors /\ records' \subseteq Items
    BY <1>0 DEF TypeOK, Errors
  <2> QED BY <1>0, <2>1 DEF TypeOK, BqTypeOK, Sized, queueVars
<1>6. SendState'
  <2>1. err' = "0" => err = "0" /\ error_code = "0" /\ ~cancel /\ visited = NBlocks
    BY <1>0, <1>2 DEF SendState, Ended
  <2>2. err' = "0" => Len(dumped) = Count(NBlocks)
    <3>1. err = "0" => Len(dumped) = Seen - 1
      BY <1>0 DEF SendState
    <3> QED BY <1>2, <2>1, <3>1, SendFacts
  <2> QED BY <1>0, <1>1, <2>1, <2>2 DEF SendState
<1> QED BY <1>3, <1>4, <1>5, <1>6

\* A thread of the sender waits, or wakes.
LEMMA SendWait ==
  ASSUME SendInv, NEW t \in Threads, NEW v \in BOOLEAN, bq' = [bq EXCEPT ![t].asleep = v],
         UNCHANGED <<bq_list, bq_size, sendVars>>
  PROVE  SendInv'
<1>1. bq \in [Threads -> [op : Ops, item : Items \cup {NoItem}, asleep : BOOLEAN]]
  BY SendBq
<1>2. /\ bq' \in [Threads -> [op : Ops, item : Items \cup {NoItem}, asleep : BOOLEAN]]
      /\ \A u \in Threads : bq'[u].op = bq[u].op /\ bq'[u].item = bq[u].item
  BY <1>1
<1> QED BY <1>2, SendSleep

\* A section of bqueue_enqueue: the item goes to the tail of the list.
LEMMA SendEnqueue ==
  ASSUME SendInv, NEW t \in Threads, Enqueue(t), UNCHANGED sendVars
  PROVE  SendInv'
<1> USE DEF SendInv
<1> DEFINE B == [Threads -> [op : Ops, item : Items \cup {NoItem}, asleep : BOOLEAN]]
<1>0. t = tv /\ bq[tv].op = "enqueue"
  BY SendBq DEF Enqueue, Runs, InCall, SendCalls
<1>1. CASE bq' = [bq EXCEPT ![t].asleep = TRUE] /\ UNCHANGED <<bq_list, bq_size>>
  BY <1>1, SendWait
<1>2. CASE /\ Room(bq[t].item) /\ bq_list' = Insert(bq[t].item) /\ bq_size' = bq_size + Size(bq[t].item)
           /\ bq' \in PopSignal([bq EXCEPT ![t] = Return(NoItem)])
  <2> DEFINE b == [bq EXCEPT ![tv] = Return(NoItem)]
             x == bq[tv].item
  <2>1. b \in B /\ b[tv].op = "none" /\ b[tv].item = NoItem /\ b[main] = bq[main]
    BY SendBq DEF Return, Ops
  <2>2. bq' \in Signal(b, "dequeue")
    BY <1>0, <1>2 DEF PopSignal
  <2>3. bq' \in B /\ \A u \in Threads : bq'[u].op = b[u].op /\ bq'[u].item = b[u].item
    <3> HIDE DEF b
    <3> QED BY <2>1, <2>2, SendSignal
  <2>4. /\ bq'[tv].op = "none" /\ bq'[tv].item = NoItem
        /\ bq'[main].op = bq[main].op /\ bq'[main].item = bq[main].item
    BY <2>1, <2>3, SendBq
  <2> HIDE DEF b
  <2>5. Put > 0 /\ x = Item(Put) /\ x \in Items
    BY <1>0, SendFacts DEF SendCalls
  <2>6. bq_list \in Seq(Items) /\ bq_list' = Append(bq_list, x)
    BY <1>0, <1>2 DEF Insert, TypeOK, BqTypeOK
  <2>7. bq_size' \in 0..bq_maxsize /\ Sized'
    BY <1>0, <1>2, <2>5, <2>6, SendSizes DEF TypeOK
  <2> HIDE DEF x
  <2>8. /\ Len(bq_list') = Len(bq_list) + 1 /\ bq_list'[Len(bq_list) + 1] = x
        /\ \A i \in 1..Len(bq_list) : bq_list'[i] = bq_list[i]
        /\ bq_list' \in Seq(Items)
    BY <2>5, <2>6
  <2>9. /\ Ended' = Ended /\ Put' = Put /\ InHand' = InHand /\ \A i : Item(i)' = Item(i)
    BY <2>4 DEF Ended, Put, InHand, Item, sendVars
  <2>10. Taken' = Taken /\ Seen' = Seen /\ Taken + Len(bq_list) + 1 = Put
    <3>1. Taken = Put - 1 - Len(bq_list)
      BY <1>0 DEF Taken
    <3>2. Taken' = Put - 0 - (Len(bq_list) + 1)
      BY <2>4, <2>8, <2>9 DEF Taken
    <3>3. Put \in Nat /\ Len(bq_list) \in Nat
      BY SendFacts
    <3>4. Taken' = Taken /\ Taken + Len(bq_list) + 1 = Put
      BY <3>1, <3>2, <3>3
    <3> QED BY <2>9, <3>4 DEF Seen
  <2>11. TypeOK'
    BY <2>3, <2>7, <2>8 DEF TypeOK, BqTypeOK, sendVars
  <2>12. SendCalls'
    BY <2>4, <2>9 DEF SendCalls, sendVars
  <2>13. SendOrder'
    <3>1. ASSUME NEW i \in 1..Len(bq_list') PROVE bq_list'[i] = Item(Taken + i)
      <4>1. CASE i \in 1..Len(bq_list)
        BY <2>8, <4>1 DEF SendOrder
      <4>2. CASE i = Len(bq_list) + 1
        <5>1. Taken + i = Put
          BY <2>10, <4>2, SendFacts
        <5> QED BY <2>5, <2>8, <4>2, <5>1
      <4> QED BY <2>8, <4>1, <4>2, SendFacts
    <3> QED BY <2>4, <2>9, <2>10, <3>1 DEF SendOrder, sendVars
  <2>14. SendRecords' /\ SendState'
    BY <2>9, <2>10 DEF SendRecords, SendState, sendVars
  <2> QED BY <2>7, <2>11, <2>12, <2>13, <2>14
<1> QED BY <1>1, <1>2 DEF Enqueue

\* A section of bqueue_dequeue: the first item goes to the main thread.
LEMMA SendDequeue ==
  ASSUME SendInv, NEW t \in Threads, Dequeue(t), UNCHANGED sendVars
  PROVE  SendInv'
<1> USE DEF SendInv
<1> DEFINE B == [Threads -> [op : Ops, item : Items \cup {NoItem}, asleep : BOOLEAN]]
<1>0. t = main /\ bq[main].op = "dequeue"
  BY SendBq DEF Dequeue, Runs, InCall, SendCalls
<1>1. CASE bq' = [bq EXCEPT ![t].asleep = TRUE] /\ UNCHANGED <<bq_list, bq_size>>
  BY <1>1, SendWait
<1>2. CASE /\ bq_size # 0 /\ bq_list' = Tail(bq_list) /\ bq_size' = bq_size - Size(Head(bq_list))
           /\ bq' = [bq EXCEPT ![t] = [op |-> "signal", item |-> Head(bq_list), asleep |-> FALSE]]
  <2>1. bq_size' \in 0..bq_maxsize /\ Sized' /\ bq_list # << >>
    BY <1>2, SendSizes DEF TypeOK
  <2>2. /\ bq_list \in Seq(Items) /\ Len(bq_list) > 0 /\ Head(bq_list) = bq_list[1] /\ Head(bq_list) \in Items
        /\ Len(bq_list') = Len(bq_list) - 1 /\ bq_list' \in Seq(Items)
        /\ \A i \in 1..Len(bq_list') : bq_list'[i] = bq_list[i + 1]
    <3>1. bq_list \in Seq(Items)
      BY DEF TypeOK, BqTypeOK
    <3> QED BY <1>2, <2>1, <3>1
  <2>3. bq' \in B
    BY <1>0, <1>2, <2>2, SendBq DEF Ops
  <2>4. /\ bq'[main].op = "signal" /\ bq'[main].item = bq_list[1]
        /\ bq'[tv] = bq[tv]
    BY <1>0, <1>2, <2>2, SendBq
  <2>5. Ended' = Ended /\ Put' = Put /\ ~InHand /\ InHand' /\ \A i : Item(i)' = Item(i)
    BY <1>0, <2>4 DEF Ended, Put, InHand, Item, sendVars
  <2>6. Taken' = Taken + 1 /\ Seen' = Seen /\ Taken \in Nat
    <3>1. Taken' = Taken + 1
      BY <2>2, <2>4, <2>5, SendFacts DEF Taken
    <3> QED BY <2>5, <3>1, SendFacts DEF Seen
  <2>7. TypeOK'
    BY <2>1, <2>2, <2>3 DEF TypeOK, BqTypeOK, sendVars
  <2>8. SendCalls'
    BY <1>0, <2>4, <2>5 DEF SendCalls, sendVars
  <2>9. SendOrder'
    <3>1. ASSUME NEW i \in 1..Len(bq_list') PROVE bq_list'[i] = Item(Taken + 1 + i)
      <4>1. i + 1 \in 1..Len(bq_list) /\ Taken + (i + 1) = Taken + 1 + i
        BY <2>2, <2>6, SendFacts
      <4> QED BY <2>2, <4>1 DEF SendOrder
    <3>2. bq_list[1] = Item(Taken + 1)
      <4>1. 1 \in 1..Len(bq_list)
        BY <2>2, SendFacts
      <4> QED BY <4>1 DEF SendOrder
    <3> QED BY <2>4, <2>5, <2>6, <3>1, <3>2 DEF SendOrder, sendVars
  <2>10. SendRecords' /\ SendState'
    BY <2>5, <2>6 DEF SendRecords, SendState, sendVars
  <2> QED BY <2>1, <2>7, <2>8, <2>9, <2>10
<1> QED BY <1>1, <1>2 DEF Dequeue

\* bqueue_dequeue returns.
LEMMA SendDequeueSignal ==
  ASSUME SendInv, NEW t \in Threads, DequeueSignal(t), UNCHANGED sendVars
  PROVE  SendInv'
<1> USE DEF SendInv
<1> DEFINE B == [Threads -> [op : Ops, item : Items \cup {NoItem}, asleep : BOOLEAN]]
           b == [bq EXCEPT ![main] = Return(bq[main].item)]
<1>0. t = main /\ bq[main].op = "signal" /\ mpc \in {"take", "drained"} /\ UNCHANGED <<bq_list, bq_size>>
  BY SendBq DEF DequeueSignal, Runs, InCall, SendCalls
<1>1. b \in B /\ b[main].op = "none" /\ b[main].item = bq[main].item /\ b[tv] = bq[tv]
  BY SendBq DEF Return, Ops
<1>2. bq' \in Signal(b, "enqueue")
  BY <1>0 DEF DequeueSignal
<1>3. bq' \in B /\ \A u \in Threads : bq'[u].op = b[u].op /\ bq'[u].item = b[u].item
  <2> HIDE DEF b
  <2> QED BY <1>1, <1>2, SendSignal
<1>4. /\ bq'[main].op = "none" /\ bq'[main].item = bq[main].item
      /\ bq'[tv].op = bq[tv].op /\ bq'[tv].item = bq[tv].item
  BY <1>1, <1>3, SendBq
<1> HIDE DEF b
<1>5. /\ Ended' = Ended /\ Put' = Put /\ Taken' = Taken /\ InHand /\ InHand' /\ Seen' = Seen
      /\ \A i : Item(i)' = Item(i)
  BY <1>0, <1>4 DEF Ended, Put, Taken, InHand, Seen, Item, sendVars
<1>6. TypeOK' /\ Sized'
  BY <1>0, <1>3 DEF TypeOK, BqTypeOK, Sized, sendVars
<1>7. SendCalls'
  BY <1>0, <1>4, <1>5 DEF SendCalls, sendVars
<1>8. SendOrder'
  BY <1>0, <1>4, <1>5 DEF SendOrder, sendVars
<1>9. SendRecords' /\ SendState'
  BY <1>5 DEF SendRecords, SendState, sendVars
<1> QED BY <1>6, <1>7, <1>8, <1>9

\* Every step of dmu_send_impl and of its traversal thread preserves the invariant.
LEMMA SendStep ==
  ASSUME SendInv, [SendNext]_vars
  PROVE  SendInv'
<1>1. CASE Traverse
  BY <1>1, SendVisit, SendReturn, SendEos DEF Traverse
<1>2. CASE Main
  BY <1>2, SendGet, SendTake, SendLoop, SendDrain, SendFinish DEF Main
<1>3. ASSUME NEW t \in Threads, Queue(t) PROVE SendInv'
  BY <1>3, SendEnqueue, SendDequeue, SendDequeueSignal DEF Queue, BqStep
<1>4. ASSUME NEW t \in Threads, BqSpurious(t), UNCHANGED sendVars PROVE SendInv'
  BY <1>4, SendWait DEF BqSpurious
<1>5. CASE UNCHANGED vars
  <2>1. bq' = bq /\ UNCHANGED <<bq_list, bq_size, sendVars>>
    BY <1>5 DEF vars, queueVars, sendVars
  <2> QED BY <2>1, SendBq, SendSleep
<1> QED BY <1>1, <1>2, <1>3, <1>4, <1>5 DEF SendNext

\* The invariant holds when dmu_send_impl begins.
LEMMA SendBegin ==
  ASSUME Init
  PROVE  SendInv
<1> USE DEF Init, BqInit
<1>1. NBlocks \in Nat /\ bq_maxsize \in Nat /\ Threads = {tv, main} /\ tv # main
  BY SendAssumption, BqueueAssumption
<1>2. Count(visited) = 0
  <2>1. (1..0) \ NoRecord = {}
    OBVIOUS
  <2> QED BY <2>1, FS_EmptySet DEF Count
<1>3. bq[tv] = Return(NoItem) /\ bq[main] = Return(NoItem)
  BY <1>1
<1>4. bq[tv].op = "none" /\ bq[tv].item = NoItem /\ bq[main].op = "none" /\ bq[main].item = NoItem
  BY <1>3 DEF Return
<1>5. ~Ended /\ Put = 0 /\ Taken = 0 /\ ~InHand /\ Seen = 0 /\ Len(bq_list) = 0
  BY <1>2, <1>4 DEF Ended, Put, Taken, InHand, Seen
<1>6. TypeOK
  <2>1. bq \in [Threads -> [op : Ops, item : Items \cup {NoItem}, asleep : BOOLEAN]]
    BY DEF Return, Ops
  <2>2. << >> \in Seq(Items) /\ << >> \in Seq(Blocks) /\ 0 \in 0..bq_maxsize /\ 0 \in 0..NBlocks
    BY <1>1
  <2>3. BqTypeOK
    BY <2>1, <2>2 DEF BqTypeOK
  <2> QED BY <2>2, <2>3 DEF TypeOK, Errors
<1>7. Sized
  <2> DEFINE sum == [i \in 0..0 |-> 0]
  <2>1. sum \in [0..Len(bq_list) -> 0..bq_maxsize] /\ sum[0] = 0
    BY <1>1, <1>5
  <2>2. 1..Len(bq_list) = {} /\ \A i, j \in 0..Len(bq_list) : ~ (i < j)
    BY <1>5
  <2> HIDE DEF sum
  <2> QED BY <1>5, <2>1, <2>2 DEF Sized
<1>8. SendCalls /\ SendOrder
  BY <1>2, <1>4, <1>5 DEF SendCalls, SendOrder
<1>9. SendRecords /\ SendState
  BY <1>2, <1>5 DEF SendRecords, SendState
<1> QED BY <1>6, <1>7, <1>8, <1>9 DEF SendInv

\* What was written stays written, and a send that succeeded stays so.
LEMMA SendGrows ==
  ASSUME SendInv, [SendNext]_vars
  PROVE  /\ Len(dumped) \in Nat /\ Len(dumped') \in Nat /\ Len(dumped) <= Len(dumped')
         /\ mpc = "done" /\ err = "0" => mpc' = "done" /\ err' = "0"
<1>1. dumped \in Seq(Blocks) /\ Len(dumped) \in Nat
  BY DEF SendInv, TypeOK
<1>2. dumped' = dumped \/ (mpc # "done" /\ dumped' = Append(dumped, to_data))
  BY DEF SendNext, vars, sendVars, Traverse, send_cb, Enqueued, send_traverse_thread, TraverseExit,
         Main, GetNext, get_next_record, do_dump, Cancel, Drain, Finish, Queue
<1>3. mpc = "done" => mpc' = mpc /\ err' = err
  BY DEF SendNext, vars, sendVars, Traverse, send_cb, Enqueued, send_traverse_thread, TraverseExit,
         Main, GetNext, get_next_record, do_dump, Cancel, Drain, Finish, Queue
<1>4. Len(dumped') \in Nat /\ Len(dumped) <= Len(dumped')
  BY <1>1, <1>2
<1> QED BY <1>1, <1>3, <1>4

\* The sender's records are in its queue or with one of its threads.
LEMMA Accounted ==
  ASSUME SendInv
  PROVE  RecordsAccounted
<1> USE DEF SendInv
<1> DEFINE who == {u \in Threads : bq[u].op # "none" \/ mpc \in {"take", "drained"}}
           inCall == {bq[t].item : t \in who}
           withMain == IF mpc = "done" THEN {} ELSE {to_data}
           own == Range(bq_list) \cup inCall \cup withMain
<1>1. Threads = {tv, main} /\ bq_list \in Seq(Items) /\ NoItem \notin Items
  BY SendAssumption, BqueueAssumption DEF TypeOK, BqTypeOK
<1>2. Range(bq_list) = {bq_list[i] : i \in 1..Len(bq_list)}
  BY <1>1 DEF Range
<1>3. /\ Put \in Nat /\ Taken \in 0..Put /\ Seen \in 0..Taken /\ Len(bq_list) \in Nat
      /\ Seen = Taken - (IF InHand THEN 1 ELSE 0)
      /\ Taken = Put - (IF bq[tv].op = "enqueue" THEN 1 ELSE 0) - Len(bq_list)
  BY SendFacts DEF Taken
<1>4. InHand => main \in who /\ bq[main].item = Item(Taken)
  BY <1>1 DEF InHand, SendOrder
<1>5. bq[tv].op = "enqueue" => tv \in who /\ bq[tv].item = Item(Put) /\ Put > 0
  BY <1>1 DEF SendCalls
<1>6. main \in who /\ ~InHand => bq[main].item = NoItem
  BY DEF InHand, SendCalls
<1>7. bq[tv].op # "enqueue" => bq[tv].item = NoItem
  BY DEF SendCalls
<1>8. \A i \in 1..Len(bq_list) : bq_list[i] = Item(Taken + i)
  BY DEF SendOrder
<1>9. to_data = IF Seen = 0 THEN NoItem ELSE Item(Seen)
  BY DEF SendOrder
<1>10. CASE mpc # "done"
  <2>1. ASSUME NEW j \in 1..Put, j >= Seen PROVE Item(j) \in own
    <3>0. j \in Nat /\ Seen \in Nat /\ Taken \in Nat /\ j >= Seen
      <4>1. j >= Seen
        BY <2>1
      <4>2. j \in Nat
        BY <1>3
      <4>3. Seen \in Nat /\ Taken \in Nat
        BY <1>3
      <4> QED BY <4>1, <4>2, <4>3
    <3>1. CASE j = Seen
      BY <1>3, <1>9, <1>10, <3>1
    <3>2. CASE j = Taken /\ InHand
      BY <1>4, <3>2
    <3>3. CASE j > Taken /\ j <= Taken + Len(bq_list)
      <4>1. j - Taken \in 1..Len(bq_list) /\ Taken + (j - Taken) = j
        BY <1>3, <3>3
      <4>2. bq_list[j - Taken] = Item(j)
        BY <1>8, <4>1
      <4> QED BY <1>2, <4>1, <4>2
    <3>4. CASE j = Put /\ bq[tv].op = "enqueue"
      BY <1>5, <3>4
    <3>5. \/ j = Seen
          \/ j = Taken /\ InHand
          \/ j > Taken /\ j <= Taken + Len(bq_list)
          \/ j = Put /\ bq[tv].op = "enqueue"
      <4>1. j = Seen \/ j > Taken \/ (j = Taken /\ InHand)
        <5>1. CASE InHand
          <6>1. Seen = Taken - 1
            BY <1>3, <5>1
          <6>2. j = Seen \/ j > Taken \/ j = Taken
            BY <3>0, <6>1
          <6> QED BY <5>1, <6>2
        <5>2. CASE ~InHand
          <6>1. Seen = Taken
            BY <1>3, <5>2
          <6> QED BY <3>0, <6>1
        <5> QED BY <5>1, <5>2
      <4>2. j <= Taken + Len(bq_list) \/ (j = Put /\ bq[tv].op = "enqueue")
        BY <1>3, <2>1
      <4> QED BY <4>1, <4>2
    <3> QED BY <3>1, <3>2, <3>3, <3>4, <3>5
  <2>2. ASSUME NEW x \in own, x # NoItem PROVE \E j \in 1..Put : j >= Seen /\ x = Item(j)
    <3>1. CASE x \in Range(bq_list)
      <4>1. PICK i \in 1..Len(bq_list) : x = Item(Taken + i)
        BY <1>2, <1>8, <3>1
      <4>2. Taken + i \in 1..Put /\ Taken + i >= Seen
        BY <1>3
      <4> QED BY <4>1, <4>2
    <3>2. CASE x \in inCall
      <4>1. \/ InHand /\ x = Item(Taken)
            \/ bq[tv].op = "enqueue" /\ x = Item(Put)
        BY <1>1, <1>4, <1>5, <1>6, <1>7, <2>2, <3>2
      <4>2. InHand => Taken \in 1..Put /\ Taken >= Seen
        BY <1>3
      <4>3. bq[tv].op = "enqueue" => Put \in 1..Put /\ Put >= Seen
        BY <1>3, <1>5
      <4> QED BY <4>1, <4>2, <4>3
    <3>3. CASE x \in withMain
      <4>1. Seen # 0 /\ x = Item(Seen)
        BY <1>9, <1>10, <2>2, <3>3
      <4>2. Seen \in 1..Put /\ Seen >= Seen
        BY <1>3, <4>1
      <4> QED BY <4>1, <4>2
    <3> QED BY <3>1, <3>2, <3>3
  <2>3. \A j \in 1..Put : Item(j) # NoItem
    BY SendFacts
  <2>4. \A x : x \in records <=> \E j \in 1..Put : j >= Seen /\ x = Item(j)
    BY <1>10 DEF SendRecords
  <2> HIDE DEF own
  <2>5. records = own \ {NoItem}
    BY <2>1, <2>2, <2>3, <2>4
  <2> QED BY <2>5 DEF RecordsAccounted, own
<1>11. CASE mpc = "done"
  <2>1. records = {}
    BY <1>11 DEF SendRecords
  <2>2. Seen = Put /\ Len(bq_list) = 0 /\ ~InHand /\ bq[tv].op # "enqueue"
    <3>1. Seen > Count(visited) /\ Put <= Count(visited) + 1 /\ Count(visited) \in Nat
      BY <1>11, SendFacts DEF SendOrder
    <3>2. Seen = Put /\ Taken = Put
      <4>1. Put \in Nat /\ Taken \in Nat /\ Seen \in Nat /\ Taken <= Put /\ Seen <= Taken
        BY <1>3
      <4> QED BY <3>1, <4>1
    <3>3. ~InHand
      <4>1. Seen = Taken - (IF InHand THEN 1 ELSE 0) /\ Taken \in Nat
        BY <1>3
      <4> QED BY <3>2, <4>1
    <3>4. Len(bq_list) = 0 /\ bq[tv].op # "enqueue"
      <4>1. /\ Taken = Put - (IF bq[tv].op = "enqueue" THEN 1 ELSE 0) - Len(bq_list)
            /\ Put \in Nat /\ Len(bq_list) \in Nat
        BY <1>3
      <4> QED BY <3>2, <4>1
    <3> QED BY <3>2, <3>3, <3>4
  <2>3. Range(bq_list) = {}
    BY <1>2, <2>2
  <2>4. inCall \subseteq {NoItem}
    BY <1>1, <1>6, <1>7, <2>2
  <2>5. withMain = {}
    BY <1>11
  <2>6. own \ {NoItem} = {}
    BY <2>3, <2>4, <2>5
  <2> QED BY <2>1, <2>6 DEF RecordsAccounted
<1> QED BY <1>10, <1>11
=============================================================================
