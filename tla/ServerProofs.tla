---------------------------- MODULE ServerProofs ----------------------------
(***************************************************************************)
(* The server, for any clients and any max_clients, in three parts: its    *)
(* rings are queues; its counter bounds the children, although its ++ is   *)
(* interrupted and SIGCHLDs are lost, for it never errs to the low side;   *)
(* and, with both, it implements the waiting room and forgets nobody.      *)
(***************************************************************************)
EXTENDS Server, SequenceTheorems, FiniteSetTheorems, TLAPS

(***************************************************************************)
(* The ring of structs.c is a queue, for any capacity and any position of  *)
(* its front: enqueue appends, also when the ring wraps and when it grows, *)
(* and dequeue takes the first.                                            *)
(***************************************************************************)

(* An index of a ring of n slots, at most one round ahead.                 *)
LEMMA RingIndex ==
  ASSUME NEW n \in Nat \ {0}, NEW a \in Nat, a < 2 * n
  PROVE  a % n = IF a < n THEN a ELSE a - n
OBVIOUS

(* One step on from the front is one place less to go.                     *)
LEMMA RingShift ==
  ASSUME NEW n \in Nat \ {0}, NEW f \in 0..(n - 1), NEW j \in 0..(n - 1)
  PROVE  (Follows(f, n) + j) % n = (f + (j + 1)) % n
<1>1. CASE f = n - 1
  <2>1. Follows(f, n) + j = j /\ j \in Nat /\ j < n
    BY <1>1 DEF Follows
  <2>2. f + (j + 1) = n + j /\ n + j \in Nat /\ n + j < 2 * n /\ ~(n + j < n) /\ n + j - n = j
    BY <1>1
  <2>3. j % n = j
    BY <2>1, RingIndex
  <2>4. (n + j) % n = j
    BY <2>2, RingIndex
  <2> QED
    BY <2>1, <2>2, <2>3, <2>4
<1>2. CASE f # n - 1
  <2>1. Follows(f, n) + j = f + (j + 1)
    BY <1>2 DEF Follows
  <2> QED
    BY <2>1
<1> QED
  BY <1>1, <1>2

(* A place behind the front is another slot.                               *)
LEMMA RingElsewhere ==
  ASSUME NEW n \in Nat \ {0}, NEW f \in 0..(n - 1), NEW j \in 1..(n - 1)
  PROVE  (f + j) % n \in 0..(n - 1) /\ (f + j) % n # f
<1>1. f + j \in Nat /\ f + j < 2 * n
  OBVIOUS
<1>2. \A a \in Nat : a < 2 * n => a % n = IF a < n THEN a ELSE a - n
  BY RingIndex
<1>3. (f + j) % n = IF f + j < n THEN f + j ELSE f + j - n
  BY <1>1, <1>2
<1> QED
  BY <1>3

(* An empty queue is a ring with nobody in it.                             *)
LEMMA ConstructorIsRing == RingOK(queue_constructor) /\ queue_constructor.size = 0
BY DEF RingOK, queue_constructor

(* A ring that grows keeps its clients in their order.                     *)
LEMMA ResizeKeeps ==
  ASSUME NEW que, RingOK(que), que.size = que.capacity
  PROVE  /\ RingOK(resize_queue(que))
         /\ resize_queue(que).size = que.size
         /\ resize_queue(que).size < resize_queue(que).capacity
         /\ Contents(resize_queue(que)) = Contents(que)
<1> DEFINE new == resize_queue(que)
           cap == IF que.capacity = 0 THEN 1 ELSE 2 * que.capacity
<1>1. cap \in Nat \ {0} /\ que.size \in Nat /\ que.size < cap
  BY DEF RingOK
<1>2. /\ new.front = 0 /\ new.rear = que.size /\ new.capacity = cap /\ new.size = que.size
      /\ new.elements = [i \in 0..(cap - 1) |->
                           IF i < que.size THEN Contents(que)[i + 1] ELSE Unset]
      /\ new = [front |-> new.front, rear |-> new.rear, capacity |-> new.capacity,
                size |-> new.size, elements |-> new.elements]
  BY DEF resize_queue
<1> HIDE DEF new, cap
<1>3. (0 + que.size) % cap = que.size
  BY <1>1, RingIndex
<1>4. RingOK(new)
  <2>1. new.elements = [i \in 0..(new.capacity - 1) |-> new.elements[i]]
        /\ DOMAIN new.elements = 0..(new.capacity - 1)
    BY <1>2
  <2>2. new.capacity # 0 /\ new.front < new.capacity
        /\ new.rear = (new.front + new.size) % new.capacity
    BY <1>1, <1>2, <1>3
  <2>3. new.capacity \in Nat /\ new.front \in Nat /\ new.rear \in Nat
        /\ new.size \in 0..new.capacity
    BY <1>1, <1>2
  <2> QED
    BY <1>2, <2>1, <2>2, <2>3 DEF RingOK
<1>5. ASSUME NEW k \in 1..que.size
      PROVE  new.elements[(new.front + k - 1) % new.capacity] = Contents(que)[k]
  <2>0. 0 + k - 1 = k - 1 /\ k - 1 \in Nat /\ k - 1 < cap
    BY <1>1
  <2>1. (0 + k - 1) % cap = k - 1
    <3>1. (k - 1) % cap = k - 1
      BY <1>1, <2>0, RingIndex
    <3> QED
      BY <2>0, <3>1
  <2>2. (k - 1) \in 0..(cap - 1) /\ k - 1 < que.size /\ (k - 1) + 1 = k
    BY <1>1
  <2>3. new.elements[k - 1] = Contents(que)[(k - 1) + 1]
    BY <1>2, <2>2
  <2>4. (new.front + k - 1) % new.capacity = k - 1
    BY <1>2, <2>1
  <2> QED
    BY <2>2, <2>3, <2>4
<1>6. Contents(new) = [k \in 1..que.size |-> Contents(que)[k]]
  BY <1>2, <1>5 DEF Contents
<1>7. Contents(que) = [k \in 1..que.size |-> Contents(que)[k]]
  BY DEF Contents
<1> QED
  BY <1>1, <1>2, <1>4, <1>6, <1>7 DEF new

(* With a free slot: the slot of rear is filled, and no other changes.     *)
LEMMA FillAppends ==
  ASSUME NEW que, NEW item, RingOK(que), que.size < que.capacity,
         NEW new, new = [que EXCEPT !.elements[que.rear] = item,
                                    !.rear = Follows(@, que.capacity),
                                    !.size = @ + 1]
  PROVE  /\ RingOK(new) /\ new.size = que.size + 1
         /\ Contents(new) = Append(Contents(que), item)
<1> DEFINE n == que.capacity
<1>1. /\ n \in Nat \ {0} /\ que.size \in Nat /\ que.size < n
      /\ que.front \in Nat /\ que.front < n
      /\ que.rear = (que.front + que.size) % n
  BY DEF RingOK
<1>2. /\ que = [front |-> que.front, rear |-> que.rear, capacity |-> n,
                size |-> que.size, elements |-> que.elements]
      /\ que.elements = [i \in 0..(n - 1) |-> que.elements[i]]
  BY <1>1 DEF RingOK
<1>3. /\ que.front + que.size \in Nat /\ que.front + que.size < 2 * n
      /\ que.rear = IF que.front + que.size < n THEN que.front + que.size
                    ELSE que.front + que.size - n
      /\ que.rear \in 0..(n - 1)
  BY <1>1, RingIndex
<1>4. /\ new.front = que.front /\ new.capacity = n /\ new.size = que.size + 1
      /\ new.rear = Follows(que.rear, n)
      /\ new.elements = [que.elements EXCEPT ![que.rear] = item]
      /\ new = [front |-> new.front, rear |-> new.rear, capacity |-> new.capacity,
                size |-> new.size, elements |-> new.elements]
  BY <1>2
<1>5. /\ DOMAIN new.elements = 0..(n - 1)
      /\ new.elements = [i \in 0..(n - 1) |-> new.elements[i]]
      /\ new.elements[que.rear] = item
      /\ \A i \in 0..(n - 1) : i # que.rear => new.elements[i] = que.elements[i]
  BY <1>2, <1>3, <1>4
<1> HIDE DEF n
<1>6. new.rear \in 0..(n - 1) /\ new.rear = (new.front + new.size) % n
  <2>1. que.front + que.size + 1 \in Nat /\ que.front + que.size + 1 < 2 * n
    BY <1>1
  <2>2. (que.front + que.size + 1) % n =
          IF que.front + que.size + 1 < n THEN que.front + que.size + 1
          ELSE que.front + que.size + 1 - n
    BY <1>1, <2>1, RingIndex
  <2>3. que.front + (que.size + 1) = que.front + que.size + 1
    BY <1>1
  <2>4. new.rear = IF que.rear = n - 1 THEN 0 ELSE que.rear + 1
    BY <1>4 DEF Follows
  <2>5. CASE que.front + que.size + 1 < n
    BY <1>1, <1>3, <2>2, <2>4, <2>5
  <2>6. CASE que.front + que.size + 1 = n
    <3>1. que.rear = n - 1 /\ new.rear = 0
      BY <1>1, <1>3, <2>4, <2>6
    <3>2. n % n = 0
      BY <1>1, RingIndex
    <3>3. new.front + new.size = n
      BY <1>4, <2>3, <2>6
    <3> QED
      BY <1>1, <3>1, <3>2, <3>3
  <2>7. CASE que.front + que.size >= n
    BY <1>1, <1>3, <2>2, <2>4, <2>7
  <2> QED
    BY <1>1, <2>5, <2>6, <2>7
<1>7. RingOK(new)
  <2>1. new.capacity \in Nat /\ new.capacity # 0 /\ new.front \in Nat /\ new.rear \in Nat
        /\ new.size \in 0..new.capacity /\ new.front < new.capacity
    BY <1>1, <1>4, <1>6
  <2>2. new.rear = (new.front + new.size) % new.capacity
    BY <1>4, <1>6
  <2>3. DOMAIN new.elements = 0..(new.capacity - 1)
        /\ new.elements = [i \in 0..(new.capacity - 1) |-> new.elements[i]]
    BY <1>4, <1>5
  <2>4. new = [front |-> new.front, rear |-> new.rear, capacity |-> new.capacity,
               size |-> new.size, elements |-> new.elements]
    BY <1>4
  <2> QED
    BY <2>1, <2>2, <2>3, <2>4 DEF RingOK
<1>8. ASSUME NEW k \in 1..(que.size + 1)
      PROVE  new.elements[(que.front + k - 1) % n] =
               IF k <= que.size THEN Contents(que)[k] ELSE item
  <2>1. que.front + k - 1 \in Nat /\ que.front + k - 1 < 2 * n
    BY <1>1
  <2>2. (que.front + k - 1) % n =
          IF que.front + k - 1 < n THEN que.front + k - 1 ELSE que.front + k - 1 - n
    BY <1>1, <2>1, RingIndex
  <2>3. (que.front + k - 1) % n \in 0..(n - 1)
    BY <1>1, <2>1, <2>2
  <2>4. CASE k <= que.size
    <3>1. (que.front + k - 1) % n # que.rear
      BY <1>1, <1>3, <2>1, <2>2, <2>4
    <3>2. Contents(que)[k] = que.elements[(que.front + k - 1) % n]
      BY <1>1, <2>4 DEF Contents, n
    <3> QED
      BY <1>5, <2>3, <2>4, <3>1, <3>2
  <2>5. CASE k = que.size + 1
    <3>1. (que.front + k - 1) % n = que.rear
      BY <1>1, <1>3, <2>1, <2>2, <2>5
    <3> QED
      BY <1>1, <1>5, <2>5, <3>1
  <2> QED
    BY <1>1, <2>4, <2>5
<1>9. Contents(new) = [k \in 1..(que.size + 1) |->
                         IF k <= que.size THEN Contents(que)[k] ELSE item]
  BY <1>4, <1>8 DEF Contents
<1>10. Append(Contents(que), item) = [k \in 1..(que.size + 1) |->
                         IF k <= que.size THEN Contents(que)[k] ELSE item]
  <2> DEFINE S == {Contents(que)[k] : k \in 1..que.size} \cup {item}
  <2>1. Contents(que) \in [1..que.size -> S]
    BY DEF Contents
  <2>2. Contents(que) \in Seq(S) /\ Len(Contents(que)) = que.size
    BY <1>1, <2>1
  <2>3. /\ Append(Contents(que), item) \in Seq(S)
        /\ Len(Append(Contents(que), item)) = que.size + 1
        /\ \A k \in 1..que.size : Append(Contents(que), item)[k] = Contents(que)[k]
        /\ Append(Contents(que), item)[que.size + 1] = item
    BY <2>2, AppendProperties
  <2> DEFINE r == [k \in 1..(que.size + 1) |->
                     IF k <= que.size THEN Contents(que)[k] ELSE item]
  <2>4. r \in Seq(S) /\ Len(r) = que.size + 1
    <3>1. r \in [1..(que.size + 1) -> S]
      BY <1>1
    <3>2. que.size + 1 \in Nat /\ DOMAIN r = 1..(que.size + 1)
      BY <1>1
    <3>3. r \in Seq(S)
      BY <3>1, <3>2, SeqDef
    <3> QED
      BY <3>2, <3>3, LenProperties
  <2>5. \A k \in 1..(que.size + 1) : Append(Contents(que), item)[k] = r[k]
    BY <1>1, <2>3
  <2> QED
    BY <2>3, <2>4, <2>5, SeqEqual
<1> QED
  BY <1>4, <1>7, <1>9, <1>10

(***************************************************************************)
(* enqueue puts the client behind all who wait, at any front, and also     *)
(* when the ring is full and grows (resize_queue and enqueue of structs.c).*)
(***************************************************************************)
THEOREM EnqueueAppends ==
  ASSUME NEW que, NEW item, RingOK(que)
  PROVE  /\ RingOK(enqueue(que, item))
         /\ Contents(enqueue(que, item)) = Append(Contents(que), item)
<1> DEFINE q == IF que.size = que.capacity THEN resize_queue(que) ELSE que
           new == [q EXCEPT !.elements[q.rear] = item,
                            !.rear = Follows(@, q.capacity),
                            !.size = @ + 1]
<1>1. RingOK(q) /\ q.size < q.capacity /\ Contents(q) = Contents(que)
  <2>1. CASE que.size = que.capacity
    BY <2>1, ResizeKeeps
  <2>2. CASE que.size # que.capacity
    BY <2>2 DEF RingOK
  <2> QED
    BY <2>1, <2>2
<1>2. enqueue(que, item) = new
  BY DEF enqueue
<1> HIDE DEF q
<1>3. RingOK(new) /\ Contents(new) = Append(Contents(q), item)
  BY <1>1, FillAppends
<1> QED
  BY <1>1, <1>2, <1>3

(***************************************************************************)
(* dequeue takes the client that came first, and the others stay in their  *)
(* order (dequeue of structs.c).                                           *)
(***************************************************************************)
THEOREM DequeueTakesFirst ==
  ASSUME NEW que, RingOK(que), que.size > 0
  PROVE  /\ RingOK(dequeue(que))
         /\ first(que) = Head(Contents(que))
         /\ Contents(dequeue(que)) = Tail(Contents(que))
<1> DEFINE n == que.capacity
<1>0. PICK new : new = dequeue(que)
  OBVIOUS
<1>1. /\ n \in Nat \ {0} /\ que.size \in Nat /\ que.size <= n /\ que.size >= 1
      /\ que.front \in Nat /\ que.front < n
      /\ que.rear = (que.front + que.size) % n /\ que.rear \in Nat
  BY DEF RingOK
<1>2. /\ que = [front |-> que.front, rear |-> que.rear, capacity |-> n,
                size |-> que.size, elements |-> que.elements]
      /\ que.elements = [i \in 0..(n - 1) |-> que.elements[i]]
  BY <1>1 DEF RingOK
<1>3. /\ new.front = Follows(que.front, n) /\ new.capacity = n /\ new.size = que.size - 1
      /\ new.rear = que.rear
      /\ new.elements = [que.elements EXCEPT ![que.front] = Null]
      /\ new = [front |-> new.front, rear |-> new.rear, capacity |-> new.capacity,
                size |-> new.size, elements |-> new.elements]
  BY <1>0, <1>2 DEF dequeue
<1>4. /\ DOMAIN new.elements = 0..(n - 1)
      /\ new.elements = [i \in 0..(n - 1) |-> new.elements[i]]
      /\ \A i \in 0..(n - 1) : i # que.front => new.elements[i] = que.elements[i]
  BY <1>1, <1>2, <1>3
<1> HIDE DEF n
<1>5. /\ new.front = IF que.front = n - 1 THEN 0 ELSE que.front + 1
      /\ new.front \in Nat /\ new.front < n
  BY <1>1, <1>3 DEF Follows
<1>6. RingOK(new)
  <2>1. new.rear = (new.front + new.size) % n
    <3>1. que.size - 1 \in 0..(n - 1) /\ que.front \in 0..(n - 1)
          /\ que.size - 1 + 1 = que.size
      BY <1>1
    <3>2. (Follows(que.front, n) + (que.size - 1)) % n = (que.front + (que.size - 1 + 1)) % n
      BY <1>1, <3>1, RingShift
    <3> QED
      BY <1>1, <1>3, <3>1, <3>2
  <2>2. new.capacity \in Nat /\ new.capacity # 0 /\ new.front \in Nat /\ new.rear \in Nat
        /\ new.size \in 0..new.capacity /\ new.front < new.capacity
    BY <1>1, <1>3, <1>5
  <2>3. DOMAIN new.elements = 0..(new.capacity - 1)
        /\ new.elements = [i \in 0..(new.capacity - 1) |-> new.elements[i]]
    BY <1>3, <1>4
  <2>4. new = [front |-> new.front, rear |-> new.rear, capacity |-> new.capacity,
               size |-> new.size, elements |-> new.elements]
    BY <1>3
  <2>5. new.rear = (new.front + new.size) % new.capacity
    BY <1>3, <2>1
  <2> QED
    BY <2>2, <2>3, <2>4, <2>5 DEF RingOK
<1>7. ASSUME NEW k \in 1..(que.size - 1)
      PROVE  new.elements[(new.front + k - 1) % n] = Contents(que)[k + 1]
  <2>1. /\ k - 1 \in 0..(n - 1) /\ k \in 1..(n - 1) /\ que.front \in 0..(n - 1)
        /\ k - 1 + 1 = k /\ new.front + k - 1 = new.front + (k - 1)
        /\ que.front + (k + 1) - 1 = que.front + k
    BY <1>1, <1>5
  <2>2. (Follows(que.front, n) + (k - 1)) % n = (que.front + (k - 1 + 1)) % n
    BY <1>1, <2>1, RingShift
  <2>3. (que.front + k) % n \in 0..(n - 1) /\ (que.front + k) % n # que.front
    BY <1>1, <2>1, RingElsewhere
  <2>4. (new.front + k - 1) % n = (que.front + k) % n
    BY <1>3, <2>1, <2>2
  <2>5. Contents(que)[k + 1] = que.elements[(que.front + k) % n]
    <3>1. k + 1 \in 1..que.size
      BY <1>1
    <3>2. Contents(que)[k + 1] = que.elements[(que.front + (k + 1) - 1) % n]
      BY <3>1 DEF Contents, n
    <3> QED
      BY <2>1, <3>2
  <2> QED
    BY <1>4, <2>3, <2>4, <2>5
<1>8. Contents(new) = [k \in 1..(que.size - 1) |-> Contents(que)[k + 1]]
  BY <1>3, <1>7 DEF Contents
<1> DEFINE S == {Contents(que)[k] : k \in 1..que.size}
<1>9. Contents(que) \in Seq(S) /\ Len(Contents(que)) = que.size /\ Contents(que) # << >>
  <2>1. Contents(que) \in [1..que.size -> S]
    BY DEF Contents
  <2>2. Contents(que) \in Seq(S)
    BY <1>1, <2>1, SeqDef
  <2> QED
    BY <1>1, <2>1, <2>2, LenProperties, EmptySeq
<1>10. Contents(new) = Tail(Contents(que))
  <2>1. /\ Tail(Contents(que)) \in Seq(S) /\ Len(Tail(Contents(que))) = que.size - 1
        /\ \A k \in 1..(que.size - 1) : Tail(Contents(que))[k] = Contents(que)[k + 1]
    BY <1>9, HeadTailProperties
  <2>2. Contents(new) \in Seq(S) /\ Len(Contents(new)) = que.size - 1
    <3>0. ASSUME NEW k \in 1..(que.size - 1) PROVE Contents(que)[k + 1] \in S
      BY <1>1
    <3>1. Contents(new) \in [1..(que.size - 1) -> S]
      BY <1>8, <3>0
    <3>2. que.size - 1 \in Nat /\ DOMAIN Contents(new) = 1..(que.size - 1)
      BY <1>1, <1>8
    <3>3. Contents(new) \in Seq(S)
      BY <3>1, <3>2, SeqDef
    <3> QED
      BY <3>2, <3>3, LenProperties
  <2>3. \A k \in 1..(que.size - 1) : Contents(new)[k] = Tail(Contents(que))[k]
    BY <1>8, <2>1
  <2> QED
    BY <2>1, <2>2, <2>3, SeqEqual
<1>11. first(que) = Head(Contents(que))
  <2>0. que.front % n = que.front /\ que.front + 1 - 1 = que.front
    BY <1>1, RingIndex
  <2>1. (que.front + 1 - 1) % n = que.front
    BY <2>0
  <2>2. Contents(que)[1] = que.elements[(que.front + 1 - 1) % n]
    BY <1>1 DEF Contents, n
  <2>3. Head(Contents(que)) = Contents(que)[1]
    BY <1>9
  <2> QED
    BY <2>1, <2>2, <2>3 DEF first
<1> QED
  BY <1>0, <1>6, <1>10, <1>11

-----------------------------------------------------------------------------

(* The number of children that live is a number.                           *)
LEMMA LivingFinite == IsFiniteSet(Living) /\ Cardinality(Living) \in Nat
<1>1. Living \subseteq Clients
  BY DEF Living
<1>2. IsFiniteSet(Living)
  BY <1>1, ServerAssumption, FS_Subset DEF ServerAssumption
<1> QED
  BY <1>2, FS_CardinalityType

(* fork adds one child at most.                                            *)
LEMMA LivingGrows ==
  ASSUME ServerTypeOK, NEW x, child' = [child EXCEPT ![x] = "forked"]
  PROVE  /\ Cardinality(Living') \in Nat
         /\ Cardinality(Living') <= Cardinality(Living) + 1
<1>1. Living' \subseteq Living \cup {x}
  BY DEF Living, ServerTypeOK
<1>2. IsFiniteSet(Living \cup {x}) /\ Cardinality(Living \cup {x}) \in Nat
      /\ Cardinality(Living \cup {x}) <= Cardinality(Living) + 1
  <2>1. /\ IsFiniteSet(Living \cup {x})
        /\ Cardinality(Living \cup {x}) =
             IF x \in Living THEN Cardinality(Living) ELSE Cardinality(Living) + 1
    BY LivingFinite, FS_AddElement
  <2> QED
    BY <2>1, LivingFinite
<1>3. Cardinality(Living') <= Cardinality(Living \cup {x}) /\ IsFiniteSet(Living')
  BY <1>1, <1>2, FS_Subset
<1>4. Cardinality(Living') \in Nat
  BY <1>3, FS_CardinalityType
<1> QED
  BY <1>2, <1>3, <1>4, LivingFinite

(* A child that ends leaves one less.                                      *)
LEMMA LivingShrinks ==
  ASSUME ServerTypeOK, NEW c \in Living, child' = [child EXCEPT ![c] = "gone"]
  PROVE  /\ Cardinality(Living') \in Nat
         /\ Cardinality(Living') = Cardinality(Living) - 1
<1>1. Living' = Living \ {c}
  BY DEF Living, ServerTypeOK
<1>2. IsFiniteSet(Living \ {c})
      /\ Cardinality(Living \ {c}) = Cardinality(Living) - 1
  BY LivingFinite, FS_RemoveElement
<1>3. Cardinality(Living \ {c}) \in Nat
  BY <1>2, FS_CardinalityType
<1> QED
  BY <1>1, <1>2, <1>3

(* A child that opens its FIFO lives on.                                   *)
LEMMA LivingStays ==
  ASSUME ServerTypeOK, NEW c \in Clients, child[c] = "forked",
         child' = [child EXCEPT ![c] = "serving"]
  PROVE  Living' = Living
BY DEF Living, ServerTypeOK

-----------------------------------------------------------------------------
(* The counters and the children are as they were: what matters is where   *)
(* the parent goes, and for "load" that it saw a free place.               *)
LEMMA PlacesUnmoved ==
  ASSUME PlacesInv, UNCHANGED <<num_clients, reg, chld, child>>, Up' => Up,
         ppc' \in {"loop", "read", "load", "store", "accept", "refuse", "fork", "enqueue", "gone"},
         server' \in {"up", "failed", "stopped", "crashed"},
         ppc' = "store" => ppc = "store",
         ppc' \in {"accept", "fork"} => ppc \in {"accept", "fork"},
         ppc' = "load" => ppc = "load" \/ num_clients < MaxClients
  PROVE  PlacesInv'
<1>1. Living' = Living
  BY DEF Living
<1>2. ServerTypeOK'
  BY DEF PlacesInv, ServerTypeOK
<1>3. PlacesRespected'
  BY <1>1 DEF PlacesInv, PlacesRespected
<1>4. ASSUME Up' PROVE CountCovers' /\ CountBounded'
  <2>1. CountCovers /\ CountBounded
    BY <1>4 DEF PlacesInv
  <2>2. CountCovers'
    BY <1>1, <2>1, LivingFinite DEF CountCovers, One, PlacesInv, ServerTypeOK
  <2>3. CountBounded'
    BY <2>1 DEF CountBounded
  <2> QED
    BY <2>2, <2>3
<1> QED
  BY <1>2, <1>3, <1>4 DEF PlacesInv

(* A child ends: its place is held by the SIGCHLD.                         *)
LEMMA PlacesChildEnds ==
  ASSUME PlacesInv, NEW c \in Living, ChildEnds(c)
  PROVE  PlacesInv'
<1> USE DEF PlacesInv
<1>1. Cardinality(Living') \in Nat /\ Cardinality(Living') = Cardinality(Living) - 1
  BY LivingShrinks DEF ChildEnds
<1>2. ServerTypeOK'
  BY DEF ChildEnds, ServerTypeOK
<1>3. PlacesRespected'
  BY <1>1, LivingFinite, ServerAssumption DEF PlacesRespected, ServerAssumption
<1>4. ASSUME Up' PROVE CountCovers' /\ CountBounded'
  <2>1. CountCovers /\ CountBounded
    BY <1>4 DEF Up, ChildEnds
  <2>2. CountCovers'
    BY <1>1, <2>1, LivingFinite DEF CountCovers, One, ServerTypeOK, ChildEnds
  <2>3. CountBounded'
    BY <2>1 DEF CountBounded, ChildEnds
  <2> QED
    BY <2>2, <2>3
<1> QED
  BY <1>2, <1>3, <1>4

(* Nobody has a place at the beginning.                                    *)
LEMMA PlacesInit == ServerInit => PlacesInv
<1> SUFFICES ASSUME ServerInit PROVE PlacesInv
  OBVIOUS
<1>1. Living = {}
  BY DEF ServerInit, Living
<1>2. Cardinality(Living) = 0
  BY <1>1, FS_EmptySet
<1>3. ServerTypeOK
  BY DEF ServerInit, ServerTypeOK
<1>4. CountCovers /\ CountBounded /\ PlacesRespected
  BY <1>2, ServerAssumption
  DEF ServerInit, CountCovers, CountBounded, PlacesRespected, One, ServerAssumption
<1> QED
  BY <1>3, <1>4 DEF PlacesInv

-----------------------------------------------------------------------------
(* The steps of the parent.                                                *)

LEMMA PlacesParent == PlacesInv /\ (ParentStep \/ ForkFails) => PlacesInv'
<1> SUFFICES ASSUME PlacesInv, ParentStep \/ ForkFails PROVE PlacesInv'
  OBVIOUS
<1> USE DEF Parent, ParentGoes, Up
<1>0. Up /\ ServerTypeOK /\ CountCovers /\ CountBounded /\ PlacesRespected
  BY DEF PlacesInv, ParentStep, TakeWaiting, ReadNothing, ReadRequest, Load, Store,
         Accept, Refuse, Tell, Fork, Remember, ForkFails
<1>1. CASE TakeWaiting
  BY <1>0, <1>1, PlacesUnmoved DEF TakeWaiting
<1>2. CASE ReadNothing
  BY <1>0, <1>2, PlacesUnmoved DEF ReadNothing
<1>3. CASE ReadRequest
  BY <1>0, <1>3, PlacesUnmoved DEF ReadRequest, Welcome
<1>4. CASE Load
  <2>1. Living' = Living /\ ServerTypeOK' /\ PlacesRespected'
    BY <1>0, <1>4 DEF Load, Living, ServerTypeOK, PlacesRespected
  <2>2. CountCovers' /\ CountBounded'
    BY <1>0, <1>4, <2>1, LivingFinite
    DEF Load, ServerTypeOK, CountCovers, CountBounded, One
  <2> QED
    BY <2>1, <2>2 DEF PlacesInv
<1>5. CASE Store
  <2>1. Living' = Living /\ ServerTypeOK' /\ PlacesRespected'
    BY <1>0, <1>5 DEF Store, Living, ServerTypeOK, PlacesRespected
  <2>2. CountCovers' /\ CountBounded'
    BY <1>0, <1>5, <2>1, LivingFinite, ServerAssumption
    DEF Store, ServerTypeOK, CountCovers, CountBounded, One, ServerAssumption
  <2> QED
    BY <2>1, <2>2 DEF PlacesInv
<1>6. CASE Accept
  BY <1>0, <1>6, PlacesUnmoved DEF Accept, Tell, ExitFailure
<1>7. CASE Refuse
  BY <1>0, <1>7, PlacesUnmoved DEF Refuse, Tell, ExitFailure
<1>8. CASE Fork
  <2>1. Cardinality(Living') \in Nat /\ Cardinality(Living') <= Cardinality(Living) + 1
    BY <1>0, <1>8, LivingGrows DEF Fork
  <2>2. ServerTypeOK'
    BY <1>0, <1>8 DEF Fork, ServerTypeOK
  <2>3. num_clients >= Cardinality(Living) + One(chld) + 1 /\ num_clients <= MaxClients
    BY <1>0, <1>8, LivingFinite DEF Fork, CountCovers, CountBounded, One
  <2>4. CountCovers' /\ CountBounded'
    BY <1>8, <2>1, <2>2, <2>3, LivingFinite
    DEF Fork, ServerTypeOK, CountCovers, CountBounded, One
  <2>5. PlacesRespected'
    BY <1>0, <2>1, <2>3, LivingFinite, ServerAssumption
    DEF ServerTypeOK, PlacesRespected, One, ServerAssumption
  <2> QED
    BY <2>2, <2>4, <2>5 DEF PlacesInv
<1>9. CASE Remember
  BY <1>0, <1>9, PlacesUnmoved DEF Remember
<1>10. CASE ForkFails
  BY <1>0, <1>10, PlacesUnmoved DEF ForkFails, ExitFailure
<1> QED
  BY <1>1, <1>2, <1>3, <1>4, <1>5, <1>6, <1>7, <1>8, <1>9, <1>10 DEF ParentStep

(* The handlers: a SIGCHLD gives back the place that it held.              *)
LEMMA PlacesHandlers == PlacesInv /\ (SigChld \/ ExitParent) => PlacesInv'
<1> SUFFICES ASSUME PlacesInv, SigChld \/ ExitParent PROVE PlacesInv'
  OBVIOUS
<1>0. Up /\ ServerTypeOK /\ CountCovers /\ CountBounded /\ PlacesRespected
  BY DEF PlacesInv, SigChld, ExitParent
<1>1. CASE SigChld
  <2>1. Living' = Living /\ PlacesRespected'
    BY <1>0, <1>1 DEF SigChld, Living, PlacesRespected
  <2>2. num_clients >= 1
    BY <1>0, <1>1, LivingFinite DEF SigChld, CountCovers, One, ServerTypeOK
  <2>3. ServerTypeOK'
    <3>1. num_clients' \in Nat
      BY <1>0, <1>1, <2>2 DEF SigChld, ServerTypeOK
    <3>2. chld' \in BOOLEAN
      BY <1>1, Zenon DEF SigChld
    <3> QED
      BY <1>0, <1>1, <3>1, <3>2, Zenon DEF SigChld, ServerTypeOK
  <2>4. CountCovers' /\ CountBounded'
    BY <1>0, <1>1, <2>1, <2>2, LivingFinite, ServerAssumption
    DEF SigChld, CountCovers, CountBounded, One, ServerTypeOK, ServerAssumption
  <2> QED
    BY <2>1, <2>3, <2>4 DEF PlacesInv
<1>2. CASE ExitParent
  BY <1>0, <1>2, PlacesUnmoved DEF ExitParent, Stop, Up, ServerTypeOK
<1> QED
  BY <1>1, <1>2

(* The clients and their children.                                         *)
LEMMA PlacesClients ==
  ASSUME PlacesInv, NEW c \in Clients, ClientStep(c)
  PROVE  PlacesInv'
<1>0. ServerTypeOK
  BY DEF PlacesInv
<1>1. CASE Connect(c) \/ TryRead(c) \/ InterruptTry(c) \/ Vanish(c) \/ TypeAhead(c) \/ Answered(c) \/ SeeDeadServer(c)
  BY <1>0, <1>1, PlacesUnmoved
  DEF Connect, TryRead, InterruptTry, Vanish, TypeAhead, Answered, SeeDeadServer, parentVars, Up, ServerTypeOK
<1>2. CASE ChildOpens(c)
  <2>0. child[c] = "forked" /\ c \in Living
    BY <1>2 DEF ChildOpens, Living
  <2>1. CASE linked[c]
    <3>1. child' = [child EXCEPT ![c] = "serving"] /\ UNCHANGED parentVars
      BY <1>2, <2>1 DEF ChildOpens
    <3>2. Living' = Living
      BY <1>0, <2>0, <3>1, LivingStays
    <3>3. ServerTypeOK' /\ PlacesRespected'
      BY <1>0, <3>1, <3>2 DEF parentVars, ServerTypeOK, PlacesInv, PlacesRespected
    <3>4. Up' => CountCovers' /\ CountBounded'
      BY <3>1, <3>2, LivingFinite DEF parentVars, Up, PlacesInv, CountCovers, CountBounded, One
    <3> QED
      BY <3>3, <3>4 DEF PlacesInv
  <2>2. CASE ~linked[c]
    BY <1>2, <2>0, <2>2, PlacesChildEnds DEF ChildOpens
  <2> QED
    BY <2>1, <2>2
<1>3. CASE GiveUp(c) \/ Quit(c)
  BY <1>3, PlacesChildEnds DEF GiveUp, Quit, Commands, Living
<1> QED
  BY <1>1, <1>2, <1>3 DEF ClientStep

(***************************************************************************)
(* PlacesInv is an invariant of the server (client_termination_handler and *)
(* the num_clients++ of accept_connections).                               *)
(***************************************************************************)
THEOREM PlacesInvariant == ServerSpec => []PlacesInv
<1>1. PlacesInv /\ [ServerNext]_serverVars => PlacesInv'
  <2> SUFFICES ASSUME PlacesInv, [ServerNext]_serverVars PROVE PlacesInv'
    OBVIOUS
  <2>1. CASE UNCHANGED serverVars
    BY <2>1, PlacesUnmoved DEF serverVars, parentVars, Up, PlacesInv, ServerTypeOK
  <2>2. CASE ServerNext
    BY <2>2, PlacesParent, PlacesHandlers, PlacesClients DEF ServerNext
  <2> QED
    BY <2>1, <2>2
<1> QED
  BY <1>1, PlacesInit, PTL DEF ServerSpec

(***************************************************************************)
(* The second argument of the server, max_clients, is never exceeded.      *)
(***************************************************************************)
THEOREM PlacesAreRespected == ServerSpec => []PlacesRespected
<1>1. PlacesInv => PlacesRespected
  BY DEF PlacesInv
<1> QED
  BY <1>1, PlacesInvariant, PTL

-----------------------------------------------------------------------------
(* Who is in a sequence, and once.                                         *)

LEMMA Joins ==
  ASSUME NEW S, NEW seq \in Seq(S), NEW e \in S
  PROVE  /\ Append(seq, e) \in Seq(S)
         /\ Range(Append(seq, e)) = Range(seq) \cup {e}
         /\ IsInjective(seq) /\ e \notin Range(seq) => IsInjective(Append(seq, e))
<1>1. /\ Append(seq, e) \in Seq(S) /\ Len(seq) \in Nat
      /\ DOMAIN seq = 1..Len(seq) /\ DOMAIN Append(seq, e) = 1..(Len(seq) + 1)
      /\ \A i \in 1..Len(seq) : Append(seq, e)[i] = seq[i]
      /\ Append(seq, e)[Len(seq) + 1] = e
  BY AppendProperties, LenProperties
<1>2. 1..(Len(seq) + 1) = 1..Len(seq) \cup {Len(seq) + 1}
  BY <1>1
<1>3. Range(Append(seq, e)) = Range(seq) \cup {e}
  BY <1>1, <1>2 DEF Range
<1>4. ASSUME IsInjective(seq), e \notin Range(seq),
             NEW a \in DOMAIN Append(seq, e), NEW b \in DOMAIN Append(seq, e),
             Append(seq, e)[a] = Append(seq, e)[b]
      PROVE  a = b
  <2>1. a \in 1..Len(seq) \cup {Len(seq) + 1} /\ b \in 1..Len(seq) \cup {Len(seq) + 1}
    BY <1>1, <1>2
  <2>2. \A i \in 1..Len(seq) : seq[i] # e
    BY <1>1, <1>4 DEF Range
  <2> QED
    BY <1>1, <1>4, <2>1, <2>2 DEF IsInjective
<1> QED
  BY <1>1, <1>3, <1>4 DEF IsInjective

LEMMA Goes ==
  ASSUME NEW S, NEW seq \in Seq(S), seq # << >>
  PROVE  /\ Tail(seq) \in Seq(S) /\ Head(seq) \in Range(seq) /\ Head(seq) \in S
         /\ Range(Tail(seq)) \subseteq Range(seq)
         /\ IsInjective(seq) => IsInjective(Tail(seq)) /\ Head(seq) \notin Range(Tail(seq))
<1>1. /\ Tail(seq) \in Seq(S) /\ Len(seq) \in Nat /\ Len(seq) >= 1
      /\ DOMAIN seq = 1..Len(seq) /\ DOMAIN Tail(seq) = 1..(Len(seq) - 1)
      /\ Head(seq) = seq[1] /\ Head(seq) \in S
      /\ \A i \in 1..(Len(seq) - 1) : Tail(seq)[i] = seq[i + 1]
  BY HeadTailProperties, LenProperties, EmptySeq
<1>2. \A i \in 1..(Len(seq) - 1) : i + 1 \in 1..Len(seq) /\ i + 1 # 1
  BY <1>1
<1>3. 1 \in 1..Len(seq)
  BY <1>1
<1>4. Head(seq) \in Range(seq) /\ Range(Tail(seq)) \subseteq Range(seq)
  BY <1>1, <1>2, <1>3 DEF Range
<1>5. ASSUME IsInjective(seq), NEW a \in DOMAIN Tail(seq), NEW b \in DOMAIN Tail(seq),
             Tail(seq)[a] = Tail(seq)[b]
      PROVE  a = b
  <2>1. a \in 1..(Len(seq) - 1) /\ b \in 1..(Len(seq) - 1)
    BY <1>1
  <2>2. a + 1 = b + 1
    BY <1>1, <1>2, <1>5, <2>1 DEF IsInjective
  <2> QED
    BY <2>1, <2>2
<1>6. ASSUME IsInjective(seq) PROVE Head(seq) \notin Range(Tail(seq))
  BY <1>1, <1>2, <1>3, <1>6 DEF IsInjective, Range
<1> QED
  BY <1>1, <1>4, <1>5, <1>6 DEF IsInjective

(* The contents of a ring are a sequence of its size.                      *)
LEMMA ContentsSeq ==
  ASSUME NEW que, RingOK(que)
  PROVE  /\ Contents(que) \in Seq(Range(Contents(que)))
         /\ que.size \in Nat /\ Len(Contents(que)) = que.size
         /\ Contents(que) = << >> <=> que.size = 0
         /\ Range(Contents(que)) = {Contents(que)[k] : k \in 1..que.size}
<1>1. que.size \in Nat
  BY DEF RingOK
<1>2. DOMAIN Contents(que) = 1..que.size
  BY DEF Contents
<1>3. Range(Contents(que)) = {Contents(que)[k] : k \in 1..que.size}
  BY <1>2 DEF Range
<1>4. Contents(que) \in [1..que.size -> Range(Contents(que))]
  BY <1>3 DEF Contents
<1>5. Contents(que) \in Seq(Range(Contents(que)))
  BY <1>1, <1>4, SeqDef
<1>6. Len(Contents(que)) = que.size
  BY <1>1, <1>2, <1>5, LenProperties
<1> QED
  BY <1>1, <1>3, <1>5, <1>6, EmptySeq

-----------------------------------------------------------------------------
(* Nobody is in two places.                                                *)

(* No client comes to a queue or to a place; children are forked for who   *)
(* was coming.                                                             *)
LEMMA OneWayKept ==
  ASSUME OneWay, UNCHANGED <<requests, wait_que>>, Coming' \subseteq Coming,
         \A c \in Clients : cstate'[c] = "new" => cstate[c] = "new" /\ child'[c] = child[c],
         \A c \in Clients : child[c] = "none" =>
           child'[c] = "none" \/ (c \in Coming /\ c \notin Coming')
  PROVE  OneWay'
<1>1. /\ Range(requests)' = Range(requests)
      /\ Range(Contents(wait_que))' = Range(Contents(wait_que))
      /\ IsInjective(requests)' /\ IsInjective(Contents(wait_que))'
  BY DEF OneWay
<1> QED
  BY <1>1 DEF OneWay

(* The server learns of no child, and stops for nobody.                    *)
LEMMA KnownKept ==
  ASSUME AllKnown, EveryoneTold, UNCHANGED clients, Living' \subseteq Living, Up' => Up,
         server' \in {"stopped", "crashed"} => UNCHANGED <<server, signalled>>,
         ppc = "enqueue" => ppc' = "enqueue" /\ cur' = cur
  PROVE  AllKnown' /\ EveryoneTold'
<1>1. Range(Contents(clients))' = Range(Contents(clients))
  OBVIOUS
<1> QED
  BY <1>1 DEF AllKnown, EveryoneTold

(* Where the parent has nobody in hand.                                    *)
LEMMA NobodyComing == ppc \notin {"load", "store", "accept", "fork"} => Coming = {}
BY DEF Coming

LEMMA NobodyComingNext == ppc' \notin {"load", "store", "accept", "fork"} => Coming' = {}
BY DEF Coming

(* The parent goes on with the client that it has.                         *)
LEMMA ComingKept ==
  ASSUME UNCHANGED cur, Up' => Up,
         ppc' \in {"load", "store", "accept", "fork"} => ppc \in {"load", "store", "accept", "fork"}
  PROVE  Coming' \subseteq Coming
BY DEF Coming

LEMMA RoomInit == ServerInit => RoomInv
<1> SUFFICES ASSUME ServerInit PROVE RoomInv
  OBVIOUS
<1>1. /\ RingOK(queue_constructor) /\ queue_constructor.size = 0
      /\ Contents(queue_constructor) = << >>
  BY ConstructorIsRing, ContentsSeq
<1>2. Living = {} /\ Coming = {}
  BY DEF ServerInit, Living, Coming
<1>3. IsInjective(<< >>) /\ Range(<< >>) = {}
  BY DEF IsInjective, Range
<1>4. RoomTypeOK
  BY <1>1 DEF ServerInit, RoomTypeOK
<1>5. OneWay
  BY <1>1, <1>2, <1>3 DEF ServerInit, OneWay
<1>6. AllKnown /\ EveryoneTold
  BY <1>2 DEF ServerInit, AllKnown, EveryoneTold
<1> QED
  BY <1>4, <1>5, <1>6 DEF RoomInv

-----------------------------------------------------------------------------
(* The parent takes who waits, or reads a request.                         *)

LEMMA RoomTakeWaiting ==
  ASSUME RoomInv, ServerTypeOK, TakeWaiting
  PROVE  RoomInv'
<1> USE DEF RoomInv
<1>0. Up /\ Up' /\ ppc = "loop" /\ ServerTypeOK /\ Living' = Living /\ Coming = {}
      /\ UNCHANGED <<clients, requests, cstate, child, signalled, server>>
  BY DEF TakeWaiting, Parent, ParentGoes, Up, Living, Coming, clientVars
<1>1. AllKnown' /\ EveryoneTold'
  BY <1>0, KnownKept
<1>2. CASE ppc' = "read" /\ UNCHANGED <<cur, wait_que>>
  <2>1. RoomTypeOK'
    BY <1>0, <1>2 DEF RoomTypeOK
  <2>2. Coming' = {}
    BY <1>2, NobodyComingNext
  <2>3. OneWay'
    BY <1>0, <1>2, <2>2, OneWayKept
  <2> QED
    BY <1>1, <2>1, <2>3
<1>3. CASE /\ wait_que.size > 0 /\ cur' = first(wait_que) /\ wait_que' = dequeue(wait_que)
           /\ ppc' = "load"
  <2> DEFINE line == Contents(wait_que)
  <2>1. RingOK(wait_que) /\ line \in Seq(Clients) /\ line # << >>
    BY <1>3, ContentsSeq DEF RoomTypeOK
  <2>2. RingOK(wait_que') /\ cur' = Head(line) /\ Contents(wait_que') = Tail(line)
    BY <1>3, <2>1, DequeueTakesFirst
  <2>3. /\ Tail(line) \in Seq(Clients) /\ Head(line) \in Range(line)
        /\ Range(Tail(line)) \subseteq Range(line)
        /\ IsInjective(line) => IsInjective(Tail(line)) /\ Head(line) \notin Range(Tail(line))
    BY <2>1, Goes
  <2>4. RoomTypeOK'
    BY <1>0, <2>2, <2>3 DEF RoomTypeOK
  <2>5. Coming' = {Head(line)}
    BY <1>0, <1>3, <2>2 DEF Coming
  <2>6. OneWay'
    BY <1>0, <2>2, <2>3, <2>5 DEF OneWay
  <2> QED
    BY <1>1, <2>4, <2>6
<1> QED
  BY <1>2, <1>3 DEF TakeWaiting, ParentGoes

LEMMA RoomReadRequest ==
  ASSUME RoomInv, ServerTypeOK, ReadRequest
  PROVE  RoomInv'
<1> USE DEF RoomInv
<1>0. /\ Up /\ Up' /\ ppc = "read" /\ Living' = Living /\ Coming = {}
      /\ requests # << >> /\ cur' = Head(requests) /\ requests' = Tail(requests)
      /\ UNCHANGED <<clients, cstate, child, signalled, server>>
  BY DEF ReadRequest, Parent, ParentGoes, Up, Living, Coming, clientVars
<1>1. AllKnown' /\ EveryoneTold'
  BY <1>0, KnownKept
<1>2. /\ Tail(requests) \in Seq(Clients) /\ Head(requests) \in Range(requests)
      /\ Head(requests) \in Clients
      /\ Range(Tail(requests)) \subseteq Range(requests)
      /\ IsInjective(requests) =>
           IsInjective(Tail(requests)) /\ Head(requests) \notin Range(Tail(requests))
  BY <1>0, Goes DEF RoomTypeOK
<1>3. CASE UNCHANGED wait_que
  <2>1. RoomTypeOK'
    BY <1>0, <1>2, <1>3 DEF RoomTypeOK
  <2>2. Coming' \subseteq {Head(requests)}
    BY <1>0 DEF Coming
  <2>3. Contents(wait_que)' = Contents(wait_que)
    BY <1>3
  <2>4. OneWay'
    BY <1>0, <1>2, <2>2, <2>3 DEF OneWay
  <2> QED
    BY <1>1, <2>1, <2>4
<1>4. CASE wait_que' = enqueue(wait_que, cur') /\ ppc' = "loop"
  <2> DEFINE line == Contents(wait_que)
             c == Head(requests)
  <2>1. /\ RingOK(wait_que') /\ Contents(wait_que') = Append(line, c)
    BY <1>0, <1>4, EnqueueAppends DEF RoomTypeOK
  <2>2. c \notin Range(line) /\ line \in Seq(Clients)
    BY <1>2 DEF OneWay, RoomTypeOK
  <2>3. /\ Append(line, c) \in Seq(Clients)
        /\ Range(Append(line, c)) = Range(line) \cup {c}
        /\ IsInjective(line) => IsInjective(Append(line, c))
    BY <1>2, <2>2, Joins
  <2>4. RoomTypeOK'
    BY <1>0, <1>2, <2>1, <2>3 DEF RoomTypeOK
  <2>5. Coming' = {}
    BY <1>4, NobodyComingNext
  <2>6. OneWay'
    BY <1>0, <1>2, <2>1, <2>3, <2>5 DEF OneWay
  <2> QED
    BY <1>1, <2>4, <2>6
<1> QED
  BY <1>3, <1>4 DEF ReadRequest, ParentGoes

(* The parent's other steps.                                               *)

LEMMA RoomTell ==
  ASSUME RoomInv, ServerTypeOK, NEW l, NEW then, NEW word, Tell(l, then, word),
         <<l, then>> \in {<<"accept", "fork">>, <<"refuse", "loop">>}
  PROVE  RoomInv'
<1> USE DEF RoomInv
<1>0. /\ Up /\ ppc = l /\ Living' = Living
      /\ UNCHANGED <<cur, clients, wait_que, requests, child, signalled>>
  BY DEF Tell, Parent, Living
<1>1. /\ server' \notin {"stopped", "crashed"} /\ ppc # "enqueue"
      /\ ppc' \in {"load", "store", "accept", "fork"} => ppc = "accept"
      /\ Up' => Up
  BY <1>0 DEF Tell, ExitFailure, ParentGoes, Up
<1>2. AllKnown' /\ EveryoneTold'
  BY <1>0, <1>1, KnownKept
<1>3. /\ \A c \in Clients : cstate'[c] = "new" => cstate[c] = "new"
      /\ cstate' \in [Clients -> {"new", "in_loop", "sending", "try_open", "try_read", "stuck", "gone"}]
  BY DEF Tell, RoomTypeOK
<1>4. Coming' \subseteq Coming
  BY <1>0, <1>1, ComingKept
<1>5. RoomTypeOK' /\ OneWay'
  BY <1>0, <1>3, <1>4, OneWayKept DEF RoomTypeOK
<1> QED
  BY <1>2, <1>5

LEMMA RoomFork ==
  ASSUME RoomInv, ServerTypeOK, Fork
  PROVE  RoomInv'
<1> USE DEF RoomInv
<1>0. /\ Up /\ Up' /\ ppc = "fork" /\ ppc' = "enqueue" /\ Coming = {cur} /\ Coming' = {}
      /\ child' = [child EXCEPT ![cur] = "forked"]
      /\ UNCHANGED <<cur, clients, wait_que, requests, signalled, server, cstate>>
  BY DEF Fork, Parent, ParentGoes, Up, Coming, clientVars
<1>1. RoomTypeOK'
  BY <1>0 DEF RoomTypeOK
<1>2. cstate[cur] # "new"
  BY <1>0 DEF OneWay
<1>3. OneWay'
  BY <1>0, <1>2, OneWayKept DEF ServerTypeOK
<1>4. Living' \subseteq Living \cup {cur}
  BY <1>0 DEF Living, ServerTypeOK
<1>5. AllKnown'
  <2>1. Range(Contents(clients))' = Range(Contents(clients))
    BY <1>0
  <2> QED
    BY <1>0, <1>4, <2>1 DEF AllKnown
<1>6. EveryoneTold'
  BY <1>0 DEF Up, EveryoneTold
<1> QED
  BY <1>1, <1>3, <1>5, <1>6

LEMMA RoomRemember ==
  ASSUME RoomInv, ServerTypeOK, Remember
  PROVE  RoomInv'
<1> USE DEF RoomInv
<1>0. /\ Up /\ Up' /\ ppc = "enqueue" /\ ppc' = "loop" /\ Coming' = {} /\ Living' = Living
      /\ clients' = enqueue(clients, cur)
      /\ UNCHANGED <<wait_que, requests, signalled, server, cstate, child>>
  BY DEF Remember, Parent, ParentGoes, Up, Coming, clientVars, Living
<1>1. RingOK(clients') /\ Contents(clients') = Append(Contents(clients), cur)
  BY <1>0, EnqueueAppends DEF RoomTypeOK
<1>2. RoomTypeOK'
  BY <1>0, <1>1 DEF RoomTypeOK
<1>3. OneWay'
  BY <1>0, OneWayKept
<1>4. Range(Contents(clients')) = Range(Contents(clients)) \cup {cur}
  <2> DEFINE S == Range(Contents(clients)) \cup {cur}
  <2>1. Contents(clients) \in Seq(Range(Contents(clients)))
    BY ContentsSeq DEF RoomTypeOK
  <2>2. Contents(clients) \in Seq(S)
    <3>1. /\ Contents(clients) \in [1..Len(Contents(clients)) -> Range(Contents(clients))]
          /\ Len(Contents(clients)) \in Nat
      BY <2>1, LenProperties
    <3>2. Contents(clients) \in [1..Len(Contents(clients)) -> S]
      BY <3>1
    <3> QED
      BY <3>1, <3>2, SeqDef
  <2> QED
    BY <1>1, <2>2, Joins
<1>5. AllKnown' /\ EveryoneTold'
  BY <1>0, <1>4 DEF AllKnown, EveryoneTold, Up
<1> QED
  BY <1>2, <1>3, <1>5

LEMMA RoomParent == RoomInv /\ ServerTypeOK /\ (ParentStep \/ ForkFails) => RoomInv'
<1> SUFFICES ASSUME RoomInv, ServerTypeOK, ParentStep \/ ForkFails PROVE RoomInv'
  OBVIOUS
<1>1. CASE ReadNothing \/ Load \/ Store \/ ForkFails
  <2>1. /\ Up /\ Living' = Living
        /\ UNCHANGED <<cur, clients, wait_que, requests, signalled, cstate, child>>
    BY <1>1 DEF ReadNothing, Load, Store, ForkFails, Parent, clientVars, Living
  <2>2. /\ Up' => Up
        /\ server' \notin {"stopped", "crashed"} /\ ppc # "enqueue"
        /\ ppc' \in {"load", "store", "accept", "fork"} => ppc \in {"load", "store", "accept", "fork"}
    BY <1>1, <2>1 DEF ReadNothing, Load, Store, ForkFails, Parent, ParentGoes, ExitFailure, Up
  <2>3. Coming' \subseteq Coming
    BY <2>1, <2>2, ComingKept
  <2>4. OneWay'
    BY <2>1, <2>3, OneWayKept DEF RoomInv
  <2>5. RoomTypeOK'
    BY <2>1 DEF RoomInv, RoomTypeOK
  <2>6. AllKnown' /\ EveryoneTold'
    BY <2>1, <2>2, KnownKept DEF RoomInv
  <2> QED
    BY <2>4, <2>5, <2>6 DEF RoomInv
<1>2. CASE Accept \/ Refuse
  BY <1>2, RoomTell DEF Accept, Refuse
<1> QED
  BY <1>1, <1>2, RoomTakeWaiting, RoomReadRequest, RoomFork, RoomRemember DEF ParentStep

(* The handlers.                                                           *)
LEMMA RoomHandlers == RoomInv /\ ServerTypeOK /\ (SigChld \/ ExitParent) => RoomInv'
<1> SUFFICES ASSUME RoomInv, ServerTypeOK, SigChld \/ ExitParent PROVE RoomInv'
  OBVIOUS
<1> USE DEF RoomInv
<1>0. /\ Up /\ Living' = Living
      /\ UNCHANGED <<ppc, cur, clients, wait_que, requests, cstate, child>>
  BY DEF SigChld, ExitParent, clientVars, Living
<1>1. Coming' \subseteq Coming
  BY <1>0, ComingKept
<1>2. RoomTypeOK' /\ OneWay'
  BY <1>0, <1>1, OneWayKept DEF RoomTypeOK
<1>3. CASE SigChld
  <2>1. AllKnown' /\ EveryoneTold'
    BY <1>0, <1>3, KnownKept DEF SigChld, Up
  <2> QED
    BY <1>2, <2>1
<1>4. CASE ExitParent
  <2>1. server' \in {"stopped", "crashed"} /\ ~Up'
    BY <1>4 DEF ExitParent, Stop, Up
  <2>2. Range(Contents(clients)) = {Contents(clients)[k] : k \in 1..clients.size}
    BY ContentsSeq DEF RoomTypeOK
  <2>3. signalled' = signalled \cup Range(Contents(clients))
    BY <1>4, <2>2 DEF ExitParent
  <2>4. EveryoneTold'
    BY <1>0, <2>3 DEF AllKnown, EveryoneTold
  <2> QED
    BY <1>2, <2>1, <2>4 DEF AllKnown
<1> QED
  BY <1>3, <1>4

(* The clients and their children.                                         *)
LEMMA RoomClients ==
  ASSUME RoomInv, ServerTypeOK, NEW c \in Clients, ClientStep(c)
  PROVE  RoomInv'
<1> USE DEF RoomInv
<1>0. UNCHANGED <<ppc, cur, server, clients, wait_que, signalled>>
  BY DEF ClientStep, Connect, TryRead, InterruptTry, Vanish, TypeAhead, Answered, SeeDeadServer,
         ChildOpens, GiveUp, Commands, Quit,
         ChildEnds, parentVars, clientVars
<1>1. Coming' = Coming
  BY <1>0 DEF Coming, Up
<1>2. Living' \subseteq Living
  BY DEF ClientStep, Connect, TryRead, InterruptTry, Vanish, TypeAhead, Answered, SeeDeadServer,
         ChildOpens, GiveUp, Commands, Quit,
         ChildEnds, Living, ServerTypeOK
<1>3. AllKnown' /\ EveryoneTold'
  BY <1>0, <1>2, KnownKept DEF Up
<1>4. CASE Connect(c)
  <2>1. /\ cstate[c] = "new" /\ requests' = Append(requests, c) /\ UNCHANGED child
        /\ cstate' \in [Clients -> {"new", "in_loop", "sending", "try_open", "try_read", "stuck", "gone"}]
        /\ cstate'[c] # "new" /\ \A d \in Clients \ {c} : cstate'[d] = cstate[d]
    BY <1>4 DEF Connect, RoomTypeOK
  <2>2. /\ c \notin Range(requests) /\ c \notin Range(Contents(wait_que)) /\ c \notin Coming
        /\ child[c] = "none"
    BY <2>1 DEF OneWay
  <2>3. /\ Append(requests, c) \in Seq(Clients)
        /\ Range(Append(requests, c)) = Range(requests) \cup {c}
        /\ IsInjective(requests) => IsInjective(Append(requests, c))
    BY <2>2, Joins DEF RoomTypeOK
  <2>4. RoomTypeOK'
    BY <1>0, <2>1, <2>3 DEF RoomTypeOK
  <2>5. OneWay'
    <3>1. Contents(wait_que)' = Contents(wait_que)
      BY <1>0
    <3> QED
      BY <1>1, <2>1, <2>2, <2>3, <3>1 DEF OneWay
  <2> QED
    BY <1>3, <2>4, <2>5
<1>5. CASE ~Connect(c)
  <2>1. \/ TryRead(c) \/ InterruptTry(c) \/ Vanish(c) \/ TypeAhead(c) \/ Answered(c)
        \/ SeeDeadServer(c) \/ ChildOpens(c) \/ GiveUp(c) \/ Quit(c)
    BY <1>5 DEF ClientStep
  <2>2. UNCHANGED requests
    BY <2>1 DEF TryRead, InterruptTry, Vanish, TypeAhead, Answered, SeeDeadServer,
         ChildOpens, GiveUp, Commands, Quit, clientVars
  <2>3. /\ cstate' \in [Clients -> {"new", "in_loop", "sending", "try_open", "try_read", "stuck", "gone"}]
        /\ \A d \in Clients : cstate'[d] = "new" => cstate[d] = "new"
    BY <2>1 DEF TryRead, InterruptTry, Vanish, TypeAhead, Answered, SeeDeadServer,
         ChildOpens, GiveUp, Commands, Quit, clientVars,
         ClientGone, RoomTypeOK
  <2>4. \A d \in Clients : child'[d] # child[d] => d = c /\ child[d] # "none"
    BY <2>1 DEF TryRead, InterruptTry, Vanish, TypeAhead, Answered, SeeDeadServer,
         ChildOpens, GiveUp, Commands, Quit, ChildEnds,
         ServerTypeOK
  <2>5. RoomTypeOK'
    BY <1>0, <2>2, <2>3 DEF RoomTypeOK
  <2>6. \A d \in Clients : cstate[d] = "new" => child[d] = "none"
    BY DEF OneWay
  <2>7. OneWay'
    BY <1>0, <1>1, <2>2, <2>3, <2>4, <2>6, OneWayKept
  <2> QED
    BY <1>3, <2>5, <2>7
<1> QED
  BY <1>4, <1>5

(***************************************************************************)
(* RoomInv is an invariant of the server: a client is in one place only of *)
(* requests, wait_que and the parent's hands, and clients has all whose    *)
(* child lives.                                                            *)
(***************************************************************************)
THEOREM RoomInvariant == ServerSpec => []RoomInv
<1>1. PlacesInv => ServerTypeOK
  BY DEF PlacesInv
<1>2. RoomInv /\ ServerTypeOK /\ [ServerNext]_serverVars => RoomInv'
  <2> SUFFICES ASSUME RoomInv, ServerTypeOK, [ServerNext]_serverVars PROVE RoomInv'
    OBVIOUS
  <2>1. CASE UNCHANGED serverVars
    <3>1. Living' = Living /\ Coming' = Coming
      BY <2>1 DEF serverVars, parentVars, clientVars, Living, Coming, Up
    <3>2. RoomTypeOK' /\ OneWay'
      BY <2>1, <3>1, OneWayKept DEF serverVars, parentVars, clientVars, RoomInv, RoomTypeOK
    <3>3. AllKnown' /\ EveryoneTold'
      BY <2>1, <3>1, KnownKept DEF serverVars, parentVars, clientVars, Up, RoomInv
    <3> QED
      BY <3>2, <3>3 DEF RoomInv
  <2>2. CASE ServerNext
    BY <2>2, RoomParent, RoomHandlers, RoomClients DEF ServerNext
  <2> QED
    BY <2>1, <2>2
<1> QED
  BY <1>1, <1>2, RoomInit, PlacesInvariant, PTL DEF ServerSpec

(***************************************************************************)
(* exitParent leaves nobody with a child untold, but the one whose child   *)
(* is forked and not yet entered in clients.                               *)
(***************************************************************************)
THEOREM EveryoneIsTold == ServerSpec => []EveryoneTold
<1>1. RoomInv => EveryoneTold
  BY DEF RoomInv
<1> QED
  BY <1>1, RoomInvariant, PTL

-----------------------------------------------------------------------------
(* The steps of the server are steps of the waiting room.                  *)

(* While the counter shows a free place there is one.                      *)
LEMMA CounterShowsPlace ==
  ASSUME PlacesInv, Up, Coming = {}, num_clients < MaxClients
  PROVE  Cardinality(Living \cup Coming) < MaxClients
<1>1. Living \cup Coming = Living
  OBVIOUS
<1>2. Cardinality(Living) <= num_clients
  BY LivingFinite DEF PlacesInv, CountCovers, One, ServerTypeOK
<1> QED
  BY <1>1, <1>2, LivingFinite, ServerAssumption DEF PlacesInv, ServerTypeOK, ServerAssumption

(* The instance has a Cardinality of its own.                              *)
LEMMA RoomCardinality == \A S : Room!Cardinality(S) = Cardinality(S)
BY DEF Cardinality, Room!Cardinality

LEMMA RoomBegins == ServerInit => Room!RoomInit
<1> SUFFICES ASSUME ServerInit PROVE Room!RoomInit
  OBVIOUS
<1>1. Contents(wait_que) = << >>
  BY ConstructorIsRing, ContentsSeq DEF ServerInit
<1>2. Living \cup Coming = {}
  BY DEF ServerInit, Living, Coming
<1> QED
  BY <1>1, <1>2 DEF Room!RoomInit

LEMMA TakeWaitingAdmits ==
  ASSUME RoomInv, PlacesInv, TakeWaiting
  PROVE  Room!Admit \/ UNCHANGED Room!roomVars
<1>0. Up /\ Up' /\ ppc = "loop" /\ Living' = Living /\ Coming = {}
  BY DEF TakeWaiting, Parent, ParentGoes, Up, Living, Coming
<1>1. CASE ppc' = "read" /\ UNCHANGED <<cur, wait_que>>
  <2>1. Coming' = {}
    BY <1>1, NobodyComingNext
  <2> QED
    BY <1>0, <1>1, <2>1 DEF Room!roomVars
<1>2. CASE /\ num_clients < MaxClients /\ wait_que.size > 0 /\ ppc' = "load"
           /\ cur' = first(wait_que) /\ wait_que' = dequeue(wait_que)
  <2> DEFINE line == Contents(wait_que)
  <2>1. RingOK(wait_que) /\ line # << >>
    BY <1>2, ContentsSeq DEF RoomInv, RoomTypeOK
  <2>2. cur' = Head(line) /\ Contents(wait_que') = Tail(line)
    BY <1>2, <2>1, DequeueTakesFirst
  <2>3. Coming' = {Head(line)}
    BY <1>0, <1>2, <2>2 DEF Coming
  <2>4. Cardinality(Living \cup Coming) < MaxClients
    BY <1>0, <1>2, CounterShowsPlace
  <2>5. Room!Free
    BY <2>4, RoomCardinality DEF Room!Free
  <2>6. (Living \cup Coming)' = (Living \cup Coming) \cup {Head(line)}
    BY <1>0, <2>3
  <2>7. Contents(wait_que)' = Tail(line)
    BY <2>2
  <2> QED
    BY <2>1, <2>5, <2>6, <2>7 DEF Room!Admit
<1> QED
  BY <1>1, <1>2 DEF TakeWaiting, ParentGoes

LEMMA ReadRequestEnters ==
  ASSUME RoomInv, PlacesInv, ReadRequest
  PROVE  \/ \E c \in Clients : Room!Enter(c) \/ Room!Wait(c)
         \/ UNCHANGED Room!roomVars
<1> DEFINE c == Head(requests)
<1>0. /\ Up /\ Up' /\ ppc = "read" /\ Living' = Living /\ Coming = {}
      /\ requests # << >> /\ cur' = c
  BY DEF ReadRequest, Parent, ParentGoes, Up, Living, Coming
<1>1. c \in Clients /\ c \in Range(requests)
  BY <1>0, Goes DEF RoomInv, RoomTypeOK
<1>2. c \notin Living /\ c \notin Range(Contents(wait_que))
  BY <1>1 DEF RoomInv, OneWay, Living
<1>3. ~Room!Present(c)
  BY <1>0, <1>2 DEF Room!Present, Range
<1>4. CASE ppc' \notin {"load", "store", "accept", "fork"} /\ UNCHANGED wait_que
  <2>1. Coming' = {}
    BY <1>4, NobodyComingNext
  <2> QED
    BY <1>0, <1>4, <2>1 DEF Room!roomVars
<1>5. CASE Welcome /\ ppc' = "load" /\ UNCHANGED wait_que
  <2>1. Contents(wait_que) = << >>
    BY <1>5, ContentsSeq DEF Welcome, RoomInv, RoomTypeOK
  <2>2. Coming' = {c}
    BY <1>0, <1>5 DEF Coming
  <2>3. Cardinality(Living \cup Coming) < MaxClients
    BY <1>0, <1>5, CounterShowsPlace DEF Welcome
  <2>4. Room!Free
    BY <2>3, RoomCardinality DEF Room!Free
  <2>5. (Living \cup Coming)' = (Living \cup Coming) \cup {c}
    BY <1>0, <2>2
  <2>6. Contents(wait_que)' = Contents(wait_que)
    BY <1>5
  <2>7. Room!Enter(c)
    BY <1>3, <2>1, <2>4, <2>5, <2>6 DEF Room!Enter
  <2> QED
    BY <1>1, <2>7
<1>6. CASE ppc' = "loop" /\ wait_que' = enqueue(wait_que, cur')
  <2>1. Contents(wait_que') = Append(Contents(wait_que), c)
    BY <1>0, <1>6, EnqueueAppends DEF RoomInv, RoomTypeOK
  <2>2. Coming' = {}
    BY <1>6, NobodyComingNext
  <2>3. Room!Wait(c)
    BY <1>0, <1>3, <2>1, <2>2 DEF Room!Wait
  <2> QED
    BY <1>1, <2>3
<1> QED
  BY <1>4, <1>5, <1>6 DEF ReadRequest, ParentGoes

(* Who was coming is served, stays where it is, or leaves.                 *)
LEMMA ComingOrLeft ==
  ASSUME RoomInv, UNCHANGED <<cur, wait_que, child>>, Coming' \subseteq Coming
  PROVE  (\E c \in Clients : Room!Leave(c)) \/ UNCHANGED Room!roomVars
<1>1. Living' = Living
  BY DEF Living
<1>2. CASE Coming' = Coming
  BY <1>1, <1>2 DEF Room!roomVars
<1>3. CASE Coming' # Coming
  <2>1. Coming = {cur} /\ Coming' = {}
    BY <1>3 DEF Coming
  <2>2. cur \in Clients /\ cur \notin Living
    BY <2>1 DEF RoomInv, OneWay, Living
  <2>3. Room!Leave(cur)
    BY <1>1, <2>1, <2>2 DEF Room!Leave
  <2> QED
    BY <2>2, <2>3
<1> QED
  BY <1>2, <1>3

LEMMA ParentInRoom ==
  ASSUME RoomInv, PlacesInv, ParentStep \/ ForkFails
  PROVE  Room!RoomNext \/ UNCHANGED Room!roomVars
<1>1. CASE ReadNothing \/ Load \/ Store \/ Accept \/ Refuse \/ ForkFails
  <2>1. /\ Up /\ UNCHANGED <<cur, wait_que, child>>
        /\ ppc' \in {"load", "store", "accept", "fork"} => ppc \in {"load", "store", "accept", "fork"}
    BY <1>1 DEF ReadNothing, Load, Store, Accept, Refuse, Tell, ForkFails, Parent, ParentGoes,
         ExitFailure
  <2>2. Coming' \subseteq Coming
    BY <2>1, ComingKept
  <2> QED
    BY <2>1, <2>2, ComingOrLeft DEF Room!RoomNext
<1>2. CASE Fork
  <2>1. /\ Coming = {cur} /\ Coming' = {} /\ child' = [child EXCEPT ![cur] = "forked"]
        /\ UNCHANGED wait_que
    BY <1>2 DEF Fork, Parent, ParentGoes, Coming
  <2>2. cur \in Clients
    BY <2>1 DEF RoomInv, OneWay
  <2>3. Living' = Living \cup {cur}
    BY <2>1, <2>2 DEF Living, PlacesInv, ServerTypeOK
  <2> QED
    BY <2>1, <2>3 DEF Room!roomVars
<1>3. CASE Remember
  <2>1. Living' = Living /\ UNCHANGED wait_que /\ Coming = {} /\ Coming' = {}
    BY <1>3 DEF Remember, Parent, ParentGoes, Living, Coming
  <2> QED
    BY <2>1 DEF Room!roomVars
<1> QED
  BY <1>1, <1>2, <1>3, TakeWaitingAdmits, ReadRequestEnters DEF ParentStep, Room!RoomNext

LEMMA HandlersInRoom ==
  ASSUME RoomInv, SigChld \/ ExitParent
  PROVE  Room!RoomNext \/ UNCHANGED Room!roomVars
<1>1. Up /\ UNCHANGED <<ppc, cur, wait_que, child>>
  BY DEF SigChld, ExitParent
<1>2. Coming' \subseteq Coming
  BY <1>1, ComingKept
<1> QED
  BY <1>1, <1>2, ComingOrLeft DEF Room!RoomNext

LEMMA ClientsInRoom ==
  ASSUME RoomInv, PlacesInv, NEW c \in Clients, ClientStep(c)
  PROVE  Room!RoomNext \/ UNCHANGED Room!roomVars
<1>0. UNCHANGED <<ppc, cur, server, wait_que>>
  BY DEF ClientStep, Connect, TryRead, InterruptTry, Vanish, TypeAhead, Answered, SeeDeadServer,
         ChildOpens, GiveUp, Commands, Quit,
         ChildEnds, parentVars, clientVars
<1>1. Coming' = Coming
  BY <1>0 DEF Coming, Up
<1>2. CASE UNCHANGED Living
  BY <1>0, <1>1, <1>2 DEF Room!roomVars
<1>3. CASE c \in Living /\ child' = [child EXCEPT ![c] = "gone"]
  <2>1. Living' = Living \ {c}
    BY <1>3 DEF Living, PlacesInv, ServerTypeOK
  <2>2. c \notin Coming
    BY <1>3 DEF RoomInv, OneWay, Living
  <2>3. Room!Leave(c)
    BY <1>0, <1>1, <1>3, <2>1, <2>2 DEF Room!Leave
  <2> QED
    BY <2>3 DEF Room!RoomNext
<1>4. \/ UNCHANGED Living
      \/ c \in Living /\ child' = [child EXCEPT ![c] = "gone"]
  <2>1. CASE UNCHANGED child
    BY <2>1 DEF Living
  <2>2. CASE ChildOpens(c)
    BY <2>2, LivingStays DEF ChildOpens, ChildEnds, Living, PlacesInv
  <2>3. CASE GiveUp(c) \/ Quit(c)
    BY <2>3 DEF GiveUp, Quit, Commands, ChildEnds, Living
  <2> QED
    BY <2>1, <2>2, <2>3 DEF ClientStep, Connect, TryRead, InterruptTry, Vanish, TypeAhead, Answered, SeeDeadServer
<1> QED
  BY <1>2, <1>3, <1>4

(***************************************************************************)
(* The server implements the waiting room for any clients and any          *)
(* max_clients: no more than the places are given, those who wait come in  *)
(* in their order, and a newcomer never before them.                       *)
(***************************************************************************)
THEOREM RoomImplemented == ServerSpec => ImplementsRoom
<1>1. RoomInv /\ PlacesInv /\ [ServerNext]_serverVars => [Room!RoomNext]_(Room!roomVars)
  <2> SUFFICES ASSUME RoomInv, PlacesInv, [ServerNext]_serverVars
               PROVE  Room!RoomNext \/ UNCHANGED Room!roomVars
    OBVIOUS
  <2>1. CASE UNCHANGED serverVars
    <3>1. Living' = Living /\ Coming' = Coming /\ wait_que' = wait_que
      BY <2>1 DEF serverVars, parentVars, Living, Coming, Up
    <3> QED
      BY <3>1 DEF Room!roomVars
  <2>2. CASE ServerNext
    BY <2>2, ParentInRoom, HandlersInRoom, ClientsInRoom DEF ServerNext
  <2> QED
    BY <2>1, <2>2
<1> QED
  BY <1>1, RoomBegins, RoomInvariant, PlacesInvariant, PTL
  DEF ServerSpec, ImplementsRoom, Room!RoomSpec
=============================================================================
