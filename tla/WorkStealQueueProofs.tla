--------------------------- MODULE WorkStealQueueProofs ---------------------------
(***************************************************************************)
(* Theorem: the work-stealing queue implements an atomic double-ended      *)
(* queue, for any number of thieves and pushes and any size of the first   *)
(* array.                                                                  *)
(***************************************************************************)
EXTENDS WorkStealQueue, FiniteSetTheorems, SequenceTheorems, TLAPS

Sizes == Nat \ {0}

\* The circular arrays; Nothing and tasks are numbers.
Arrays == UNION {[0..n - 1 -> Nat] : n \in Sizes}

--------------------------------------------------------------------------------
(* Circular arrays.                                                            *)

\* An array has as many places as its domain has indices.
LEMMA SizeOf ==
  ASSUME NEW a \in Arrays
  PROVE  Size(a) \in Sizes /\ a \in [0..Size(a) - 1 -> Nat]
<1>1. PICK n \in Sizes : a \in [0..n - 1 -> Nat]
  BY DEF Arrays
<1>2. DOMAIN a = 0..n - 1
  BY <1>1
<1>3. Cardinality(0..n - 1) = n
  BY FS_Interval DEF Sizes
<1> QED
  BY <1>1, <1>2, <1>3 DEF Size

\* Indices closer than n do not fall together.
LEMMA NoWrap ==
  ASSUME NEW n \in Sizes, NEW i \in Nat, NEW j \in Nat, i < j, j - i < n
  PROVE  i % n # j % n
<1>1. /\ i = n * (i \div n) + (i % n) /\ i \div n \in Int /\ i % n \in Int
      /\ j = n * (j \div n) + (j % n) /\ j \div n \in Int /\ j % n \in Int
  BY DEF Sizes
<1> SUFFICES ASSUME i % n = j % n PROVE FALSE
  OBVIOUS
<1> DEFINE d == (j \div n) - (i \div n)
<1>2. d \in Int /\ j - i = n * d
  BY <1>1 DEF Sizes
<1> HIDE DEF d
<1>3. CASE d <= 0
  <2>1. n * d <= 0
    BY <1>2, <1>3 DEF Sizes
  <2> QED
    BY <2>1, <1>2
<1>4. CASE d >= 1
  <2>1. n * d >= n
    BY <1>2, <1>4 DEF Sizes
  <2> QED
    BY <2>1, <1>2 DEF Sizes
<1> QED
  BY <1>2, <1>3, <1>4

\* The same, whichever index is the smaller.
LEMMA Apart ==
  ASSUME NEW n \in Sizes, NEW i \in Nat, NEW j \in Nat, i # j, i - j < n, j - i < n
  PROVE  i % n # j % n
<1>1. CASE i < j
  BY <1>1, NoWrap
<1>2. CASE j < i
  BY <1>2, NoWrap
<1> QED
  BY <1>1, <1>2

\* An index finds a place.
LEMMA Wrapped ==
  ASSUME NEW n \in Sizes, NEW i \in Nat
  PROVE  i % n \in 0..n - 1
BY DEF Sizes

\* What lies in an array is a number.
LEMMA GetType ==
  ASSUME NEW a \in Arrays, NEW i \in Nat
  PROVE  Get(a, i) \in Nat
BY SizeOf, Wrapped DEF Get

\* Writing at an index leaves every index that is less than a whole turn away.
LEMMA PutArray ==
  ASSUME NEW a \in Arrays, NEW i \in Nat, NEW v \in Nat
  PROVE  /\ Put(a, i, v) \in Arrays /\ Size(Put(a, i, v)) = Size(a)
         /\ Get(Put(a, i, v), i) = v
         /\ \A j \in Nat : j # i /\ i - j < Size(a) /\ j - i < Size(a) =>
              Get(Put(a, i, v), j) = Get(a, j)
<1> DEFINE n == Size(a)
           p == Put(a, i, v)
<1>1. n \in Sizes /\ a \in [0..n - 1 -> Nat] /\ i % n \in 0..n - 1
  BY SizeOf, Wrapped
<1>2. p \in [0..n - 1 -> Nat] /\ p[i % n] = v /\ \A k \in 0..n - 1 : k # i % n => p[k] = a[k]
  BY <1>1 DEF Put
<1>3. p \in Arrays /\ Size(p) = n
  <2>1. DOMAIN p = DOMAIN a
    BY <1>1, <1>2
  <2> QED
    BY <1>1, <1>2, <2>1 DEF Arrays, Size
<1>4. ASSUME NEW j \in Nat, j # i, i - j < n, j - i < n
      PROVE  Get(p, j) = Get(a, j)
  BY <1>1, <1>2, <1>3, <1>4, Apart, Wrapped DEF Get
<1> QED
  BY <1>1, <1>2, <1>3, <1>4 DEF Get

\* The larger array has the tasks at the same indices.
LEMMA GrowArrays ==
  ASSUME NEW a \in Arrays, NEW p \in Nat, NEW q \in Nat, q - p <= Size(a)
  PROVE  /\ Grow(a, p, q) \in Arrays /\ Size(Grow(a, p, q)) = 2 * Size(a)
         /\ \A j \in p..q - 1 : Get(Grow(a, p, q), j) = Get(a, j)
<1> DEFINE n == 2 * Size(a)
           g == Grow(a, p, q)
<1>1. Size(a) \in Sizes /\ n \in Sizes
  BY SizeOf DEF Sizes
<1>2. g = [i \in 0..n - 1 |-> IF \E j \in p..q - 1 : j % n = i
                              THEN Get(a, CHOOSE j \in p..q - 1 : j % n = i) ELSE Nothing]
  BY DEF Grow
<1>3. g \in [0..n - 1 -> Nat]
  <2> SUFFICES ASSUME NEW i \in 0..n - 1, NEW k \in p..q - 1, k % n = i
               PROVE  Get(a, CHOOSE j \in p..q - 1 : j % n = i) \in Nat
    BY <1>2 DEF Nothing
  <2> QED
    BY GetType
<1>4. g \in Arrays /\ Size(g) = n
  <2>0. 0 \in Int /\ n - 1 \in Int /\ 0 <= n - 1 /\ (n - 1) - 0 + 1 = n
    BY <1>1 DEF Sizes
  <2> HIDE DEF n
  <2>1. Cardinality(0..n - 1) = n
    BY <2>0, FS_Interval
  <2> QED
    BY <1>1, <1>3, <2>1 DEF Arrays, Size
<1>5. ASSUME NEW j \in p..q - 1
      PROVE  Get(g, j) = Get(a, j)
  <2> DEFINE c == CHOOSE k \in p..q - 1 : k % n = j % n
  <2>1. c \in p..q - 1 /\ c % n = j % n
    OBVIOUS
  <2>2. c = j
    <3> HIDE DEF c
    <3>1. j \in Nat /\ c \in Nat /\ c - j < n /\ j - c < n
      BY <2>1, <1>1 DEF Sizes
    <3> QED
      BY <3>1, <2>1, <1>1, Apart
  <2>3. j % n \in 0..n - 1
    BY <1>1, Wrapped
  <2>4. g[j % n] = Get(a, c)
    BY <1>2, <2>3
  <2> QED
    BY <1>4, <2>2, <2>4 DEF Get
<1> QED
  BY <1>4, <1>5
--------------------------------------------------------------------------------
(* Slices of an array as sequences.                                            *)

\* A slice has one entry for each index.
LEMMA SliceSeq ==
  ASSUME NEW a \in Arrays, NEW p \in Nat, NEW q \in Nat
  PROVE  /\ Slice(a, p, q) \in Seq(Nat)
         /\ q <= p => Slice(a, p, q) = <<>>
         /\ p <= q => Len(Slice(a, p, q)) = q - p
         /\ \A i \in 1..q - p : Slice(a, p, q)[i] = Get(a, p + i - 1)
<1>1. CASE q <= p
  <2>1. 1..q - p = {}
    BY <1>1
  <2>2. Slice(a, p, q) = <<>>
    BY <2>1 DEF Slice
  <2> QED
    BY <1>1, <2>1, <2>2
<1>2. CASE p < q
  <2>1. q - p \in Nat /\ \A i \in 1..q - p : Get(a, p + i - 1) \in Nat
    <3>1. \A i \in 1..q - p : p + i - 1 \in Nat
      OBVIOUS
    <3> QED
      BY <1>2, <3>1, GetType
  <2>2. Slice(a, p, q) \in [1..q - p -> Nat]
    BY <2>1 DEF Slice
  <2> QED
    BY <1>2, <2>1, <2>2 DEF Slice
<1> QED
  BY <1>1, <1>2

\* A slice depends on the entries between its ends only.
LEMMA SliceSame ==
  ASSUME NEW a \in Arrays, NEW c \in Arrays, NEW p \in Nat, NEW q \in Nat,
         \A j \in p..q - 1 : Get(c, j) = Get(a, j)
  PROVE  Slice(c, p, q) = Slice(a, p, q)
<1>1. \A i \in 1..q - p : p + i - 1 \in p..q - 1
  OBVIOUS
<1> QED
  BY <1>1 DEF Slice

\* One index more at the bottom.
LEMMA SliceAppend ==
  ASSUME NEW a \in Arrays, NEW p \in Nat, NEW q \in Nat, p <= q
  PROVE  Slice(a, p, q + 1) = Append(Slice(a, p, q), Get(a, q))
<1> DEFINE s == Slice(a, p, q)
           r == Slice(a, p, q + 1)
           u == Append(s, Get(a, q))
<1>0. q + 1 \in Nat /\ p <= q + 1
  OBVIOUS
<1>1. /\ s \in Seq(Nat) /\ Len(s) = q - p /\ \A i \in 1..q - p : s[i] = Get(a, p + i - 1)
      /\ r \in Seq(Nat) /\ Len(r) = q + 1 - p
      /\ \A i \in 1..q + 1 - p : r[i] = Get(a, p + i - 1)
  <2> HIDE DEF s, r
  <2>1. /\ s \in Seq(Nat) /\ Len(s) = q - p /\ \A i \in 1..q - p : s[i] = Get(a, p + i - 1)
    BY SliceSeq DEF s
  <2>2. /\ r \in Seq(Nat) /\ Len(r) = q + 1 - p
        /\ \A i \in 1..q + 1 - p : r[i] = Get(a, p + i - 1)
    BY <1>0, SliceSeq DEF r
  <2> QED
    BY <2>1, <2>2
<1>2. Get(a, q) \in Nat
  BY GetType
<1> HIDE DEF s, r
<1>3. u \in Seq(Nat) /\ Len(u) = q + 1 - p /\ u[q + 1 - p] = Get(a, q)
      /\ \A i \in 1..q - p : u[i] = s[i]
  BY <1>1, <1>2, AppendProperties
<1> HIDE DEF u
<1>4. \A i \in 1..q + 1 - p : u[i] = r[i]
  <2> SUFFICES ASSUME NEW i \in 1..q + 1 - p PROVE u[i] = r[i]
    OBVIOUS
  <2>1. CASE i = q + 1 - p
    <3>1. p + i - 1 = q
      BY <2>1
    <3> QED
      BY <1>1, <1>3, <2>1, <3>1
  <2>2. CASE i # q + 1 - p
    <3>1. i \in 1..q - p
      BY <2>2
    <3> QED
      BY <1>1, <1>3, <3>1
  <2> QED
    BY <2>1, <2>2
<1>5. u = r
  BY <1>1, <1>3, <1>4, SeqEqual
<1> QED
  BY <1>5 DEF u, r, s

\* One index less at the bottom.
LEMMA SliceFront ==
  ASSUME NEW a \in Arrays, NEW p \in Nat, NEW q \in Nat, p <= q
  PROVE  LET r == Slice(a, p, q + 1) IN
         /\ r # <<>> /\ r[Len(r)] = Get(a, q)
         /\ SubSeq(r, 1, Len(r) - 1) = Slice(a, p, q)
<1> DEFINE s == Slice(a, p, q)
           v == Get(a, q)
<1>1. s \in Seq(Nat) /\ v \in Nat
  BY SliceSeq, GetType
<1>2. Slice(a, p, q + 1) = Append(s, v)
  BY SliceAppend
<1> HIDE DEF s, v
<1>3. /\ Append(s, v) # <<>> /\ Append(s, v)[Len(Append(s, v))] = v
      /\ SubSeq(Append(s, v), 1, Len(Append(s, v)) - 1) = s
  BY <1>1, AppendProperties
<1> QED
  BY <1>2, <1>3 DEF s, v

\* One index less at the top.
LEMMA SliceTail ==
  ASSUME NEW a \in Arrays, NEW p \in Nat, NEW q \in Nat, p < q
  PROVE  LET r == Slice(a, p, q) IN
         r # <<>> /\ Head(r) = Get(a, p) /\ Tail(r) = Slice(a, p + 1, q)
<1> DEFINE r == Slice(a, p, q)
           s == Slice(a, p + 1, q)
<1>0. p + 1 \in Nat /\ p + 1 <= q
  OBVIOUS
<1>1. /\ r \in Seq(Nat) /\ Len(r) = q - p /\ \A i \in 1..q - p : r[i] = Get(a, p + i - 1)
      /\ s \in Seq(Nat) /\ Len(s) = q - (p + 1)
      /\ \A i \in 1..q - (p + 1) : s[i] = Get(a, p + 1 + i - 1)
  <2> HIDE DEF s, r
  <2>1. /\ r \in Seq(Nat) /\ Len(r) = q - p /\ \A i \in 1..q - p : r[i] = Get(a, p + i - 1)
    BY SliceSeq DEF r
  <2>2. /\ s \in Seq(Nat) /\ Len(s) = q - (p + 1)
        /\ \A i \in 1..q - (p + 1) : s[i] = Get(a, p + 1 + i - 1)
    BY <1>0, SliceSeq DEF s
  <2> QED
    BY <2>1, <2>2
<1> HIDE DEF r, s
<1>2. r # <<>> /\ Head(r) = r[1] /\ r[1] = Get(a, p)
  BY <1>1
<1>3. Tail(r) \in Seq(Nat) /\ Len(Tail(r)) = Len(s) /\ \A i \in 1..Len(s) : Tail(r)[i] = r[i + 1]
  BY <1>1, <1>2
<1>4. \A i \in 1..Len(s) : Tail(r)[i] = s[i]
  <2> SUFFICES ASSUME NEW i \in 1..Len(s) PROVE Tail(r)[i] = s[i]
    OBVIOUS
  <2>1. i + 1 \in 1..q - p /\ i \in 1..q - (p + 1) /\ p + (i + 1) - 1 = p + 1 + i - 1
    BY <1>1
  <2> QED
    BY <1>1, <1>3, <2>1
<1>5. Tail(r) = s
  BY <1>1, <1>3, <1>4, SeqEqual
<1> QED
  BY <1>2, <1>5 DEF r, s
--------------------------------------------------------------------------------
(* The inductive invariant.                                                    *)

Places == {"idle", "top", "bottom", "array", "item", "cas"}

\* Types.
Typed ==
  /\ top \in Nat /\ bottom \in Nat /\ pushed \in 0..MaxPushes
  /\ arrays \in Seq(Arrays) /\ Len(arrays) > 0
  /\ pc \in {"idle", "grow", "put", "publish", "pop", "decide", "last", "restore", "destroyed"}
  /\ b \in Nat /\ t \in Nat /\ x \in Nat
  /\ thief \in [Thieves -> [at : Places, t : Nat, b : Nat, x : Nat]]

\* What the owner's local variables say of the queue, place by place.
OwnerKnows ==
  /\ pc \in {"idle", "pop", "destroyed"} => top <= bottom
  /\ pc \in {"grow", "put", "publish"} =>
       b = bottom /\ t <= top /\ top <= b /\ b - t <= Size(Array) /\ pushed > 0
  /\ pc \in {"put", "publish"} => b - t < Size(Array)
  /\ pc = "publish" => Get(Array, b) = pushed
  /\ pc = "decide" => b = bottom /\ top <= b + 1
  /\ pc = "last" => b = bottom /\ t = b /\ t <= top /\ top <= b + 1 /\ x = Get(Array, b)
  /\ pc = "restore" => b = bottom /\ top = b + 1

\* The tasks in the queue do not overwrite each other.
Fits == End - top <= Size(Array)

\* How many tasks have been made visible, or have been tried to.
Known == IF pc \in {"grow", "put", "publish"} THEN pushed - 1 ELSE pushed

\* The tasks in the queue have not been given out, and lie in the order of the pushes.
Once ==
  /\ given \subseteq 1..Known
  /\ pc # "destroyed" => \A j \in top..End - 1 :
       /\ Get(Array, j) \in 1..Known \ given
       /\ \A k \in j + 1..End - 1 : Get(Array, j) < Get(Array, k)

\* A thief whose index is still the top will get the task that is there, even
\* from an array that has been replaced.
ThiefSees(w) ==
  /\ thief[w].t <= top
  /\ thief[w].at = "item" => thief[w].b \in 1..Len(arrays)
  /\ thief[w].at \in {"array", "item", "cas"} /\ thief[w].t = top =>
       /\ top < End
       /\ thief[w].at = "item" => Get(arrays[thief[w].b], top) = Get(Array, top)
       /\ thief[w].at = "cas" => thief[w].x = Get(Array, top)
  /\ pc = "destroyed" => thief[w].at = "idle"

IInv ==
  /\ Typed /\ OwnerKnows /\ Fits /\ Once
  /\ \A w \in Thieves : ThiefSees(w)

\* The array in use is one.
LEMMA ArrayType ==
  ASSUME Typed
  PROVE  /\ Array \in Arrays /\ Size(Array) \in Sizes /\ End \in Nat
         /\ \A i \in Nat : Get(Array, i) \in Nat
<1>1. Array \in Arrays
  BY DEF Typed, Array
<1>2. End \in Nat
  BY DEF Typed, End
<1> QED
  BY <1>1, <1>2, SizeOf, GetType

\* The queue starts with an empty array.
LEMMA Initially == Init => IInv
<1> SUFFICES ASSUME Init PROVE IInv
  OBVIOUS
<1> DEFINE a == [i \in 0..FirstSize - 1 |-> Nothing]
<1>1. a \in Arrays
  BY QueueAssumption DEF Arrays, Sizes, Nothing
<1> HIDE DEF a
<1>2. arrays = <<a>> /\ Array = a
  BY DEF Init, Array, a
<1>3. Typed
  BY <1>1, <1>2, QueueAssumption DEF Init, Typed, Idle, Places, Nothing
<1>4. OwnerKnows
  BY DEF Init, OwnerKnows
<1>5. Fits
  BY <1>3, ArrayType DEF Init, Fits, End, Sizes
<1>6. Once
  BY DEF Init, Once, End, Known
<1>7. \A w \in Thieves : ThiefSees(w)
  BY DEF Init, ThiefSees, Idle
<1> QED
  BY <1>3, <1>4, <1>5, <1>6, <1>7 DEF IInv

\* A step of one thief that changes nothing but its own record.
LEMMA ThiefMoves ==
  ASSUME IInv, NEW w \in Thieves, UNCHANGED <<top, bottom, arrays, pushed, given, owner>>,
         NEW r \in [at : Places, t : Nat, b : Nat, x : Nat],
         thief' = [thief EXCEPT ![w] = r],
         pc # "destroyed", r.t <= top,
         r.at = "item" => r.b \in 1..Len(arrays),
         r.at \in {"array", "item", "cas"} /\ r.t = top =>
           /\ top < End
           /\ r.at = "item" => Get(arrays[r.b], top) = Get(Array, top)
           /\ r.at = "cas" => r.x = Get(Array, top)
  PROVE  IInv'
<1> USE DEF IInv
<1>0. Array' = Array /\ End' = End /\ Known' = Known
  BY DEF Array, End, Known, owner
<1>1. Typed'
  BY DEF Typed, owner
<1>2. OwnerKnows'
  BY <1>0 DEF OwnerKnows, owner
<1>3. Fits'
  BY <1>0 DEF Fits
<1>4. Once'
  BY <1>0 DEF Once, owner
<1>5. ASSUME NEW v \in Thieves PROVE ThiefSees(v)'
  <2>1. CASE v = w
    <3>1. thief'[v] = r
      BY <2>1 DEF Typed
    <3> QED
      BY <1>0, <3>1 DEF ThiefSees, owner
  <2>2. CASE v # w
    <3>1. thief'[v] = thief[v]
      BY <2>2 DEF Typed
    <3> QED
      BY <1>0, <3>1 DEF ThiefSees, owner
  <2> QED
    BY <2>1, <2>2
<1> QED
  BY <1>1, <1>2, <1>3, <1>4, <1>5

\* The reads of a thief, and its failures, keep the invariant.
LEMMA ThiefLooks ==
  ASSUME IInv, NEW w \in Thieves,
         \/ Steal(w) \/ ReadTop(w) \/ StealEmpty(w) \/ ReadBottom(w) \/ ReadArray(w)
         \/ ReadItem(w) \/ StealRetry(w)
  PROVE  IInv'
<1> DEFINE Rec == [at : Places, t : Nat, b : Nat, x : Nat]
<1>0. /\ thief[w] \in Rec /\ ThiefSees(w) /\ top \in Nat /\ bottom \in Nat
      /\ thief \in [Thieves -> Rec] /\ arrays \in Seq(Arrays) /\ Len(arrays) \in Nat
      /\ Len(arrays) > 0
  BY DEF IInv, Typed
<1>1. CASE Steal(w)
  <2> DEFINE r == [thief[w] EXCEPT !.at = "top"]
  <2>1. r \in Rec /\ thief' = [thief EXCEPT ![w] = r]
    BY <1>0, <1>1 DEF Steal, Step, Places
  <2> QED
    BY <1>0, <1>1, <2>1, ThiefMoves DEF Steal, ThiefSees
<1>2. CASE ReadTop(w)
  <2> DEFINE r == [thief[w] EXCEPT !.at = "bottom", !.t = top]
  <2>1. r \in Rec /\ thief' = [thief EXCEPT ![w] = r]
    BY <1>0, <1>2 DEF ReadTop, Places
  <2>2. r.at = "bottom" /\ r.t = top
    BY <1>0
  <2>3. /\ UNCHANGED <<top, bottom, arrays, pushed, given, owner>>
        /\ pc # "destroyed" /\ r.t <= top
    BY <1>0, <1>2, <2>2 DEF ReadTop, ThiefSees
  <2> HIDE DEF r
  <2> QED
    BY <2>1, <2>2, <2>3, ThiefMoves
<1>3. CASE StealEmpty(w)
  <2>1. Idle \in Rec /\ Idle.at = "idle" /\ Idle.t <= top
    BY <1>0 DEF Idle, Places, Nothing
  <2> QED
    BY <1>0, <1>3, <2>1, ThiefMoves DEF StealEmpty, ThiefSees
<1>4. CASE ReadBottom(w)
  <2> DEFINE r == [thief[w] EXCEPT !.at = "array"]
  <2>1. r \in Rec /\ thief' = [thief EXCEPT ![w] = r]
    BY <1>0, <1>4 DEF ReadBottom, Step, Places
  <2>2. r.t = top => top < End
    BY <1>0, <1>4 DEF ReadBottom, End
  <2> QED
    BY <1>0, <1>4, <2>1, <2>2, ThiefMoves DEF ReadBottom, ThiefSees
<1>5. CASE ReadArray(w)
  <2> DEFINE r == [thief[w] EXCEPT !.at = "item", !.b = Len(arrays)]
  <2>1. r \in Rec /\ thief' = [thief EXCEPT ![w] = r]
    BY <1>0, <1>5 DEF ReadArray, Places
  <2>2. arrays[r.b] = Array /\ r.b \in 1..Len(arrays)
    BY <1>0 DEF Array
  <2> QED
    BY <1>0, <1>5, <2>1, <2>2, ThiefMoves DEF ReadArray, ThiefSees
<1>6. CASE ReadItem(w)
  <2> DEFINE v == Get(arrays[thief[w].b], thief[w].t)
             r == [thief[w] EXCEPT !.at = "cas", !.x = v]
  <2>1. v \in Nat
    BY <1>0, <1>6, GetType DEF ReadItem, ThiefSees
  <2> HIDE DEF v
  <2>2. r \in Rec /\ thief' = [thief EXCEPT ![w] = r]
    BY <1>0, <1>6, <2>1 DEF ReadItem, Places, v
  <2>3. r.t = top => top < End /\ r.x = Get(Array, top)
    BY <1>0, <1>6 DEF ReadItem, ThiefSees, v
  <2> QED
    BY <1>0, <1>6, <2>2, <2>3, ThiefMoves DEF ReadItem, ThiefSees
<1>7. CASE StealRetry(w)
  <2> DEFINE r == [thief[w] EXCEPT !.at = "top"]
  <2>1. r \in Rec /\ thief' = [thief EXCEPT ![w] = r]
    BY <1>0, <1>7 DEF StealRetry, Step, Places
  <2> QED
    BY <1>0, <1>7, <2>1, ThiefMoves DEF StealRetry, ThiefSees
<1> QED
  BY <1>1, <1>2, <1>3, <1>4, <1>5, <1>6, <1>7

\* A step that leaves the arrays and the thieves alone.
LEMMA SameArrays ==
  ASSUME arrays' = arrays PROVE Array' = Array
BY DEF Array

\* A shorter interval of indices.
LEMMA Shorter ==
  ASSUME NEW p \in Nat, NEW q \in Nat, NEW r \in Nat, r <= q
  PROVE  \A j \in p..r - 1 : j \in p..q - 1 /\ \A k \in j + 1..r - 1 : k \in j + 1..q - 1
OBVIOUS

\* The owner's steps that do not write to an array keep the invariant.
LEMMA OwnerMoves ==
  ASSUME IInv, \/ Push \/ Publish \/ Pop \/ PopEmpty \/ PopStoreBottom \/ PopDecide
               \/ PopWin \/ PopLose \/ Restore \/ Destroy
  PROVE  IInv'
<1> USE DEF Goto, Out
<1>0. /\ Array \in Arrays /\ Size(Array) \in Sizes /\ Size(Array) \in Nat /\ End \in Nat
      /\ \A i \in Nat : Get(Array, i) \in Nat
      /\ Typed /\ OwnerKnows /\ Fits /\ Once /\ \A w \in Thieves : ThiefSees(w)
  BY ArrayType DEF IInv, Sizes
<1> DEFINE Same == Array' = Array /\ arrays' = arrays
<1>1. CASE Push
  <2>0. Same
    BY <1>1, SameArrays DEF Push
  <2>1. Typed'
    BY <1>0, <1>1, QueueAssumption DEF Push, Typed
  <2>2. OwnerKnows'
    BY <1>0, <1>1, <2>0 DEF Push, OwnerKnows, Typed, Fits, End
  <2>3. Fits' /\ Once'
    BY <1>0, <1>1, <2>0 DEF Push, Fits, Once, End, Known, Typed
  <2>4. ASSUME NEW w \in Thieves PROVE ThiefSees(w)'
    BY <1>0, <1>1, <2>0 DEF Push, ThiefSees, End
  <2> QED
    BY <2>1, <2>2, <2>3, <2>4 DEF IInv
<1>2. CASE Publish
  <2>0. Same
    BY <1>2, SameArrays DEF Publish
  <2>1. Typed'
    BY <1>0, <1>2 DEF Publish, Typed
  <2>2. OwnerKnows'
    BY <1>0, <1>2, <2>0 DEF Publish, OwnerKnows, Typed
  <2>3. Fits'
    BY <1>0, <1>2, <2>0 DEF Publish, OwnerKnows, Fits, End, Typed
  <2>4. Once'
    <3>1. /\ End = b /\ End' = b + 1 /\ Known = pushed - 1 /\ Known' = pushed /\ b \in Nat
          /\ top' = top /\ given' = given /\ pushed \in Nat /\ pushed > 0
          /\ top \in Nat /\ Get(Array, b) = pushed
      BY <1>0, <1>2 DEF Publish, OwnerKnows, End, Known, Typed
    <3>2. given \subseteq 1..pushed
      BY <1>0, <3>1 DEF Once
    <3>3. pushed \notin given
      BY <1>0, <3>1 DEF Once
    <3>4. ASSUME NEW j \in top..b
          PROVE  /\ Get(Array, j) \in 1..pushed \ given
                 /\ \A k \in j + 1..b : Get(Array, j) < Get(Array, k)
      <4>1. CASE j = b
        BY <3>1, <3>3, <4>1
      <4>2. CASE j # b
        <5>1. j \in top..End - 1 /\ pc # "destroyed"
          BY <1>2, <3>1, <4>2 DEF Publish
        <5>2. /\ Get(Array, j) \in 1..pushed - 1 /\ Get(Array, j) \notin given
              /\ \A k \in j + 1..b - 1 : Get(Array, j) < Get(Array, k)
          BY <1>0, <3>1, <5>1 DEF Once
        <5> QED
          BY <3>1, <5>2
      <4> QED
        BY <4>1, <4>2
    <3> QED
      BY <2>0, <3>1, <3>2, <3>4 DEF Once
  <2>5. ASSUME NEW w \in Thieves PROVE ThiefSees(w)'
    BY <1>0, <1>2, <2>0 DEF Publish, ThiefSees, OwnerKnows, End, Typed
  <2> QED
    BY <2>1, <2>2, <2>3, <2>4, <2>5 DEF IInv
<1>3. CASE Pop \/ PopEmpty
  <2>0. Same
    BY <1>3, SameArrays DEF Pop, PopEmpty
  <2>1. Typed'
    BY <1>0, <1>3 DEF Pop, PopEmpty, Typed
  <2>2. OwnerKnows'
    BY <1>0, <1>3, <2>0 DEF Pop, PopEmpty, OwnerKnows
  <2>3. Fits' /\ Once'
    BY <1>0, <1>3, <2>0 DEF Pop, PopEmpty, Fits, Once, End, Known
  <2>4. ASSUME NEW w \in Thieves PROVE ThiefSees(w)'
    BY <1>0, <1>3, <2>0 DEF Pop, PopEmpty, ThiefSees, End
  <2> QED
    BY <2>1, <2>2, <2>3, <2>4 DEF IInv
<1>4. CASE PopStoreBottom
  <2>0. Same /\ End' = End /\ Known' = Known
    BY <1>0, <1>4, SameArrays DEF PopStoreBottom, End, Known, Typed
  <2>1. Typed'
    BY <1>0, <1>4 DEF PopStoreBottom, Typed
  <2>2. OwnerKnows'
    BY <1>0, <1>4, <2>0 DEF PopStoreBottom, OwnerKnows, Typed
  <2>3. Fits' /\ Once'
    BY <1>0, <1>4, <2>0 DEF PopStoreBottom, Fits, Once
  <2>4. ASSUME NEW w \in Thieves PROVE ThiefSees(w)'
    BY <1>0, <1>4, <2>0 DEF PopStoreBottom, ThiefSees
  <2> QED
    BY <2>1, <2>2, <2>3, <2>4 DEF IInv
<1>5. CASE PopDecide
  <2>0. Same
    BY <1>5, SameArrays DEF PopDecide
  <2>1. b \in Nat /\ b = bottom /\ End = b + 1 /\ Known' = Known /\ Known = pushed /\ top' = top
    BY <1>0, <1>5 DEF PopDecide, OwnerKnows, Typed, End, Known
  <2>2. Typed'
    BY <1>0, <1>5 DEF PopDecide, Typed
  <2>3. OwnerKnows'
    <3>1. /\ top \in Nat /\ top <= b + 1 /\ bottom' = bottom /\ b' = b /\ t' = top
          /\ \/ b < top /\ pc' = "restore"
             \/ b = top /\ pc' = "last" /\ x' = Get(Array, b)
             \/ b > top /\ pc' = "idle"
      BY <1>0, <1>5, <2>1 DEF PopDecide, OwnerKnows, Typed
    <3> QED
      BY <2>0, <2>1, <3>1 DEF OwnerKnows
  <2>4. End' \in Nat /\ (End' = End \/ (End' = b /\ b # top))
    <3>1. /\ top \in Nat /\ bottom' = bottom
          /\ \/ b < top /\ pc' = "restore"
             \/ b = top /\ pc' = "last"
             \/ b > top /\ pc' = "idle"
      BY <1>0, <1>5 DEF PopDecide, Typed
    <3>2. End' = IF pc' = "last" THEN b + 1 ELSE b
      BY <2>1, <3>1 DEF End
    <3> QED
      BY <2>1, <3>1, <3>2
  <2>5. Fits'
    BY <1>0, <2>0, <2>1, <2>4 DEF Fits, Typed
  <2>6. Once'
    <3>1. given' = given \/ (b > top /\ End' = b /\ given' = given \cup {Get(Array, b)})
      BY <1>5, <2>1 DEF PopDecide, End
    <3>2. pc # "destroyed" /\ top \in Nat
      BY <1>0, <1>5 DEF PopDecide, Typed
    <3>3. CASE given' = given
      <4>1. \A j \in top..End' - 1 : j \in top..End - 1 /\ \A k \in j + 1..End' - 1 : k \in j + 1..End - 1
        <5>1. End' \in Nat /\ End \in Nat /\ End' <= End /\ top \in Nat
          BY <2>1, <2>4, <3>2
        <5> QED
          BY <5>1, Shorter
      <4> QED
        BY <1>0, <2>0, <2>1, <3>2, <3>3, <4>1 DEF Once
    <3>4. CASE b > top /\ End' = b /\ given' = given \cup {Get(Array, b)}
      <4>1. b \in top..End - 1
        BY <2>1, <3>2, <3>4
      <4>2. Get(Array, b) \in 1..pushed
        BY <1>0, <2>1, <3>2, <4>1 DEF Once
      <4>3. ASSUME NEW j \in top..b - 1
            PROVE  /\ Get(Array, j) \in 1..pushed /\ Get(Array, j) \notin given
                   /\ Get(Array, j) # Get(Array, b)
                   /\ \A k \in j + 1..b - 1 : Get(Array, j) < Get(Array, k)
        <5>1. j \in top..End - 1 /\ b \in j + 1..End - 1 /\ \A k \in j + 1..b - 1 : k \in j + 1..End - 1
          BY <2>1, <3>2
        <5>2. /\ Get(Array, j) \in 1..pushed /\ Get(Array, j) \notin given
              /\ \A k \in j + 1..End - 1 : Get(Array, j) < Get(Array, k)
          BY <1>0, <2>1, <3>2, <5>1 DEF Once
        <5>3. Get(Array, j) < Get(Array, b)
          BY <5>1, <5>2
        <5> QED
          BY <4>2, <5>1, <5>2, <5>3
      <4> QED
        BY <1>0, <2>0, <2>1, <3>4, <4>2, <4>3 DEF Once
    <3> QED
      BY <3>1, <3>3, <3>4
  <2>7. ASSUME NEW w \in Thieves PROVE ThiefSees(w)'
    <3>1. ThiefSees(w) /\ thief' = thief /\ pc' # "destroyed" /\ top \in Nat
      BY <1>0, <1>5 DEF PopDecide, Typed
    <3> QED
      BY <2>0, <2>1, <2>4, <3>1 DEF ThiefSees
  <2> QED
    BY <2>2, <2>3, <2>5, <2>6, <2>7 DEF IInv
<1>6. CASE PopWin
  <2>0. Same
    BY <1>6, SameArrays DEF PopWin
  <2>1. /\ b \in Nat /\ b = bottom /\ End = b + 1 /\ End' = b /\ top = b /\ top' = b + 1
        /\ x = Get(Array, b) /\ Known' = Known
    BY <1>0, <1>6 DEF PopWin, OwnerKnows, Typed, End, Known
  <2>2. Typed'
    BY <1>0, <1>6 DEF PopWin, Typed
  <2>3. OwnerKnows'
    BY <1>0, <1>6, <2>0, <2>1 DEF PopWin, OwnerKnows, Typed
  <2>4. Fits'
    BY <1>0, <2>0, <2>1 DEF Fits, Sizes
  <2>5. Once'
    <3>1. b \in top..End - 1 /\ pc # "destroyed" /\ given' = given \cup {x}
      BY <1>6, <2>1 DEF PopWin
    <3>2. x \in 1..Known /\ given \subseteq 1..Known
      BY <1>0, <2>1, <3>1 DEF Once
    <3>3. top'..End' - 1 = {}
      BY <2>1
    <3> QED
      BY <2>1, <3>1, <3>2, <3>3 DEF Once
  <2>6. ASSUME NEW w \in Thieves PROVE ThiefSees(w)'
    <3>1. thief[w].t \in Nat /\ ThiefSees(w) /\ thief' = thief /\ pc' = "restore"
      BY <1>0, <1>6 DEF Typed, PopWin
    <3>2. thief[w].t <= b /\ thief[w].t # top'
      BY <2>1, <3>1 DEF ThiefSees
    <3> QED
      BY <2>0, <2>1, <3>1, <3>2 DEF ThiefSees
  <2> QED
    BY <2>2, <2>3, <2>4, <2>5, <2>6 DEF IInv
<1>7. CASE PopLose
  <2>0. Same
    BY <1>7, SameArrays DEF PopLose
  <2>1. /\ b \in Nat /\ b = bottom /\ End = b + 1 /\ End' = b /\ top = b + 1 /\ top' = top
        /\ Known' = Known
    BY <1>0, <1>7 DEF PopLose, OwnerKnows, Typed, End, Known
  <2>2. Typed'
    BY <1>0, <1>7 DEF PopLose, Typed
  <2>3. OwnerKnows'
    BY <1>0, <1>7, <2>0, <2>1 DEF PopLose, OwnerKnows, Typed
  <2>4. Fits'
    BY <1>0, <2>0, <2>1 DEF Fits, Sizes
  <2>5. Once'
    <3>1. top'..End' - 1 = {}
      BY <2>1
    <3> QED
      BY <1>0, <1>7, <2>1, <3>1 DEF Once, PopLose
  <2>6. ASSUME NEW w \in Thieves PROVE ThiefSees(w)'
    BY <1>0, <1>7, <2>0, <2>1 DEF PopLose, ThiefSees
  <2> QED
    BY <2>2, <2>3, <2>4, <2>5, <2>6 DEF IInv
<1>8. CASE Restore
  <2>0. Same
    BY <1>8, SameArrays DEF Restore
  <2>1. /\ b \in Nat /\ b = bottom /\ End = b /\ End' = b + 1 /\ top = b + 1 /\ top' = top
        /\ Known' = Known
    BY <1>0, <1>8 DEF Restore, OwnerKnows, Typed, End, Known
  <2>2. Typed'
    BY <1>0, <1>8 DEF Restore, Typed
  <2>3. OwnerKnows'
    BY <1>0, <1>8, <2>0, <2>1 DEF Restore, OwnerKnows, Typed
  <2>4. Fits'
    BY <1>0, <2>0, <2>1 DEF Fits, Sizes
  <2>5. Once'
    <3>1. top'..End' - 1 = {}
      BY <2>1
    <3> QED
      BY <1>0, <1>8, <2>1, <3>1 DEF Once, Restore
  <2>6. ASSUME NEW w \in Thieves PROVE ThiefSees(w)'
    BY <1>0, <1>8, <2>0, <2>1 DEF Restore, ThiefSees
  <2> QED
    BY <2>2, <2>3, <2>4, <2>5, <2>6 DEF IInv
<1>9. CASE Destroy
  <2>0. Same /\ End' = End /\ Known' = Known
    BY <1>9, SameArrays DEF Destroy, End, Known
  <2>1. Typed'
    BY <1>0, <1>9 DEF Destroy, Typed
  <2>2. OwnerKnows'
    BY <1>0, <1>9, <2>0 DEF Destroy, OwnerKnows
  <2>3. Fits'
    BY <1>0, <1>9, <2>0 DEF Destroy, Fits
  <2>4. Once'
    <3>1. End = bottom /\ pc # "destroyed" /\ pc' = "destroyed"
      BY <1>9 DEF Destroy, End
    <3>2. given \subseteq 1..Known /\ {Get(Array, i) : i \in top..bottom - 1} \subseteq 1..Known
      BY <1>0, <3>1 DEF Once
    <3> QED
      BY <1>9, <2>0, <3>1, <3>2 DEF Once, Destroy
  <2>5. ASSUME NEW w \in Thieves PROVE ThiefSees(w)'
    BY <1>0, <1>9, <2>0 DEF Destroy, ThiefSees
  <2> QED
    BY <2>1, <2>2, <2>3, <2>4, <2>5 DEF IInv
<1> QED
  BY <1>1, <1>2, <1>3, <1>4, <1>5, <1>6, <1>7, <1>8, <1>9

\* push() moves to a larger array with the same tasks.
LEMMA GrowFacts ==
  ASSUME IInv, GrowArray
  PROVE  /\ arrays' \in Seq(Arrays) /\ Len(arrays') >= Len(arrays)
         /\ \A k \in 1..Len(arrays) : arrays'[k] = arrays[k]
         /\ Array' \in Arrays /\ b - t < Size(Array') /\ Size(Array) <= Size(Array')
         /\ \A j \in t..b - 1 : Get(Array', j) = Get(Array, j)
<1>0. /\ arrays \in Seq(Arrays) /\ Len(arrays) \in Nat /\ Len(arrays) > 0
      /\ Array \in Arrays /\ Size(Array) \in Sizes /\ b \in Nat /\ t \in Nat
      /\ b - t <= Size(Array)
  <2>1. Typed /\ OwnerKnows
    BY DEF IInv
  <2>2. Array \in Arrays /\ Size(Array) \in Sizes
    BY <2>1, ArrayType
  <2> QED
    BY <2>1, <2>2 DEF Typed, OwnerKnows, GrowArray
<1>1. CASE b - t >= Size(Array)
  <2> DEFINE g == Grow(Array, t, b)
  <2>1. /\ g \in Arrays /\ Size(g) = 2 * Size(Array)
        /\ \A j \in t..b - 1 : Get(g, j) = Get(Array, j)
    BY <1>0, GrowArrays
  <2> HIDE DEF g
  <2>2. arrays' = Append(arrays, g)
    BY <1>1 DEF GrowArray, g
  <2>3. /\ arrays' \in Seq(Arrays) /\ Len(arrays') = Len(arrays) + 1
        /\ \A k \in 1..Len(arrays) : arrays'[k] = arrays[k]
        /\ arrays'[Len(arrays) + 1] = g
    BY <1>0, <2>1, <2>2, AppendProperties
  <2>4. Array' = g
    BY <2>3 DEF Array
  <2> QED
    BY <1>0, <2>1, <2>3, <2>4 DEF Sizes
<1>2. CASE ~(b - t >= Size(Array))
  <2>1. arrays' = arrays
    BY <1>2 DEF GrowArray
  <2>2. Array' = Array
    BY <2>1, SameArrays
  <2> QED
    BY <1>0, <1>2, <2>1, <2>2 DEF Sizes
<1> QED
  BY <1>1, <1>2

\* push() writes behind the tasks that are in the array.
LEMMA PutFacts ==
  ASSUME IInv, PutTask
  PROVE  /\ arrays' \in Seq(Arrays) /\ Len(arrays') = Len(arrays)
         /\ \A k \in 1..Len(arrays) : k # Len(arrays) => arrays'[k] = arrays[k]
         /\ Array' \in Arrays /\ Size(Array') = Size(Array) /\ Get(Array', b) = pushed
         /\ \A j \in t..b - 1 : Get(Array', j) = Get(Array, j)
<1> DEFINE p == Put(Array, b, pushed)
<1>0. /\ arrays \in Seq(Arrays) /\ Len(arrays) \in Nat /\ Len(arrays) > 0
      /\ Array \in Arrays /\ Size(Array) \in Sizes /\ b \in Nat /\ t \in Nat /\ pushed \in Nat
      /\ b - t < Size(Array)
  <2>1. Typed /\ OwnerKnows
    BY DEF IInv
  <2>2. Array \in Arrays /\ Size(Array) \in Sizes
    BY <2>1, ArrayType
  <2> QED
    BY <2>1, <2>2 DEF Typed, OwnerKnows, PutTask
<1>1. /\ p \in Arrays /\ Size(p) = Size(Array) /\ Get(p, b) = pushed
      /\ \A j \in Nat : j # b /\ b - j < Size(Array) /\ j - b < Size(Array) =>
           Get(p, j) = Get(Array, j)
  BY <1>0, PutArray
<1> HIDE DEF p
<1>2. arrays' = [arrays EXCEPT ![Len(arrays)] = p]
  BY DEF PutTask, p
<1>3. /\ arrays' \in Seq(Arrays) /\ Len(arrays') = Len(arrays) /\ arrays'[Len(arrays)] = p
      /\ \A k \in 1..Len(arrays) : k # Len(arrays) => arrays'[k] = arrays[k]
  BY <1>0, <1>1, <1>2
<1>4. Array' = p
  BY <1>3 DEF Array
<1>5. ASSUME NEW j \in t..b - 1 PROVE Get(p, j) = Get(Array, j)
  BY <1>0, <1>1 DEF Sizes
<1> QED
  BY <1>1, <1>3, <1>4, <1>5

\* The owner's steps that write to an array keep the invariant: thieves that look into
\* an old array find the task there that is in the new one.
LEMMA ArraysChange ==
  ASSUME IInv, GrowArray \/ PutTask
  PROVE  IInv'
<1> USE DEF Goto
<1>0. /\ Array \in Arrays /\ Size(Array) \in Sizes /\ Size(Array) \in Nat
      /\ Typed /\ OwnerKnows /\ Fits /\ Once /\ \A w \in Thieves : ThiefSees(w)
  BY ArrayType DEF IInv, Sizes
<1>1. /\ End = b /\ End' = b /\ b = bottom /\ t <= top /\ top <= b /\ b' = b /\ t' = t
      /\ top' = top /\ bottom' = bottom /\ given' = given /\ pushed' = pushed /\ pushed > 0
      /\ x' = x /\ thief' = thief /\ Known' = Known /\ pc # "destroyed" /\ pc' \in {"put", "publish"}
      /\ top \in Nat /\ b \in Nat /\ t \in Nat /\ b - t <= Size(Array)
  BY <1>0 DEF GrowArray, PutTask, OwnerKnows, Typed, End, Known
<1>2. /\ arrays' \in Seq(Arrays) /\ Len(arrays') >= Len(arrays) /\ Len(arrays) \in Nat
      /\ Len(arrays) > 0 /\ Len(arrays') \in Nat
      /\ Array' \in Arrays /\ Size(Array') \in Nat /\ b - t < Size(Array')
      /\ \A j \in t..b - 1 : Get(Array', j) = Get(Array, j)
      /\ pc' = "publish" => Get(Array', b) = pushed
  <2>1. Len(arrays) \in Nat /\ Len(arrays) > 0
    BY <1>0 DEF Typed
  <2>2. CASE GrowArray
    <3>1. Array' \in Arrays
      BY <2>2, GrowFacts
    <3>2. Size(Array') \in Nat
      BY <3>1, SizeOf DEF Sizes
    <3> QED
      BY <2>1, <2>2, <3>1, <3>2, GrowFacts DEF GrowArray
  <2>3. CASE PutTask
    <3>1. b - t < Size(Array)
      BY <1>0, <2>3 DEF PutTask, OwnerKnows
    <3> QED
      BY <1>0, <2>1, <2>3, <3>1, PutFacts
  <2> QED
    BY <2>2, <2>3
<1>3. Typed'
  BY <1>0, <1>1, <1>2 DEF Typed
<1>4. OwnerKnows'
  BY <1>1, <1>2 DEF OwnerKnows
<1>5. Fits'
  BY <1>1, <1>2 DEF Fits
<1>6. \A j \in top..b - 1 : Get(Array', j) = Get(Array, j)
  BY <1>1, <1>2
<1>7. Once'
  <2>1. given \subseteq 1..Known
    BY <1>0 DEF Once
  <2>2. ASSUME NEW j \in top..b - 1
        PROVE  /\ Get(Array', j) \in 1..Known \ given
               /\ \A k \in j + 1..b - 1 : Get(Array', j) < Get(Array', k)
    <3>1. \A k \in j + 1..b - 1 : k \in top..b - 1
      BY <1>1
    <3> QED
      BY <1>0, <1>1, <1>6, <3>1 DEF Once
  <2> QED
    BY <1>1, <2>1, <2>2 DEF Once
<1>8. ASSUME NEW w \in Thieves PROVE ThiefSees(w)'
  <2>1. ThiefSees(w) /\ thief[w].t \in Nat /\ thief[w].b \in Nat
    BY <1>0 DEF Typed
  <2>2. ASSUME thief[w].at \in {"array", "item", "cas"}, thief[w].t = top
        PROVE  Get(Array', top) = Get(Array, top) /\ top < End'
    <3>1. top \in top..b - 1
      BY <1>1, <2>1, <2>2 DEF ThiefSees
    <3> QED
      BY <1>1, <1>6, <2>1, <2>2, <3>1 DEF ThiefSees
  <2>3. ASSUME thief[w].at = "item", thief[w].t = top
        PROVE  Get(arrays'[thief[w].b], top) = Get(Array', top)
    <3> DEFINE k == thief[w].b
    <3>1. k \in 1..Len(arrays) /\ Get(arrays[k], top) = Get(Array, top)
      BY <2>1, <2>3 DEF ThiefSees
    <3>2. CASE arrays'[k] = arrays[k]
      BY <2>2, <2>3, <3>1, <3>2
    <3>3. CASE arrays'[k] # arrays[k]
      <4>1. PutTask /\ k = Len(arrays) /\ Len(arrays') = Len(arrays)
        BY <3>1, <3>3, GrowFacts, PutFacts
      <4>2. arrays'[k] = Array'
        BY <4>1 DEF Array
      <4> QED
        BY <4>2
    <3> QED
      BY <3>2, <3>3
  <2>4. thief[w].at = "item" => thief[w].b \in 1..Len(arrays')
    BY <1>2, <2>1 DEF ThiefSees
  <2> QED
    BY <1>1, <2>1, <2>2, <2>3, <2>4 DEF ThiefSees
<1> QED
  BY <1>3, <1>4, <1>5, <1>7, <1>8 DEF IInv

\* A thief whose exchange of top succeeds takes the task on top.
LEMMA ThiefWins ==
  ASSUME IInv, NEW w \in Thieves, StealCAS(w)
  PROVE  /\ IInv'
         /\ top < End /\ End' = End /\ top' = top + 1 /\ Array' = Array /\ pc # "destroyed"
         /\ pc' = pc /\ given' = given \cup {Get(Array, top)}
<1>0. /\ Array \in Arrays /\ Size(Array) \in Nat /\ End \in Nat
      /\ Typed /\ OwnerKnows /\ Fits /\ Once /\ \A v \in Thieves : ThiefSees(v)
  BY ArrayType DEF IInv, Sizes
<1>1. /\ arrays' = arrays /\ Array' = Array /\ End' = End /\ Known' = Known /\ top' = top + 1
      /\ pc' = pc /\ bottom' = bottom /\ b' = b /\ t' = t /\ x' = x /\ pushed' = pushed
      /\ thief' = [thief EXCEPT ![w] = Idle] /\ given' = given \cup {thief[w].x}
      /\ top \in Nat /\ bottom \in Nat /\ thief[w].at = "cas" /\ thief[w].t = top
  BY <1>0, SameArrays DEF StealCAS, Out, owner, End, Known, Typed
<1>2. top < End /\ thief[w].x = Get(Array, top) /\ pc # "destroyed"
  BY <1>0, <1>1 DEF ThiefSees
<1>3. Typed'
  BY <1>0, <1>1 DEF Typed, Idle, Places, Nothing
<1>4. OwnerKnows'
  BY <1>0, <1>1, <1>2 DEF OwnerKnows, End, Typed
<1>5. Fits'
  BY <1>0, <1>1 DEF Fits
<1>6. Once'
  <2>1. top \in top..End - 1
    BY <1>0, <1>1, <1>2
  <2>2. Get(Array, top) \in 1..Known /\ given \subseteq 1..Known
    BY <1>0, <1>2, <2>1 DEF Once
  <2>3. ASSUME NEW j \in top + 1..End - 1
        PROVE  /\ Get(Array, j) \in 1..Known \ (given \cup {Get(Array, top)})
               /\ \A k \in j + 1..End - 1 : Get(Array, j) < Get(Array, k)
    <3>1. j \in top..End - 1 /\ j \in Nat
      BY <1>0, <1>1
    <3>2. Get(Array, top) < Get(Array, j) /\ Get(Array, top) \in Nat /\ Get(Array, j) \in Nat
      BY <1>0, <1>1, <1>2, <2>1, <3>1, GetType DEF Once
    <3> QED
      BY <1>0, <1>2, <3>1, <3>2 DEF Once
  <2> QED
    BY <1>1, <1>2, <2>2, <2>3 DEF Once
<1>7. ASSUME NEW v \in Thieves PROVE ThiefSees(v)'
  <2>1. CASE v = w
    <3>1. thief'[v] = Idle
      BY <1>0, <1>1, <2>1 DEF Typed
    <3> QED
      BY <1>1, <1>2, <3>1 DEF ThiefSees, Idle
  <2>2. CASE v # w
    <3>1. thief'[v] = thief[v] /\ thief[v].t \in Nat /\ thief[v].t <= top /\ thief[v].t # top + 1
      BY <1>0, <1>1, <2>2 DEF Typed, ThiefSees
    <3>2. ThiefSees(v)
      BY <1>0
    <3> QED
      BY <1>1, <1>2, <3>1, <3>2 DEF ThiefSees
  <2> QED
    BY <2>1, <2>2
<1> QED
  BY <1>1, <1>2, <1>3, <1>4, <1>5, <1>6, <1>7 DEF IInv

\* Every step keeps the invariant.
LEMMA Inductive == IInv /\ [Next]_vars => IInv'
<1> SUFFICES ASSUME IInv, [Next]_vars PROVE IInv'
  OBVIOUS
<1>1. CASE \/ Push \/ Publish \/ Pop \/ PopEmpty \/ PopStoreBottom \/ PopDecide
           \/ PopWin \/ PopLose \/ Restore \/ Destroy
  BY <1>1, OwnerMoves
<1>2. CASE GrowArray \/ PutTask
  BY <1>2, ArraysChange
<1>3. ASSUME NEW w \in Thieves, StealCAS(w) PROVE IInv'
  BY <1>3, ThiefWins
<1>4. ASSUME NEW w \in Thieves,
             \/ Steal(w) \/ ReadTop(w) \/ StealEmpty(w) \/ ReadBottom(w) \/ ReadArray(w)
             \/ ReadItem(w) \/ StealRetry(w)
      PROVE  IInv'
  BY <1>4, ThiefLooks
<1>5. CASE UNCHANGED vars
  BY <1>5 DEF vars, owner, IInv, Typed, OwnerKnows, Fits, Once, ThiefSees, Array, End, Known
<1> QED
  BY <1>1, <1>2, <1>3, <1>4, <1>5 DEF Next, OwnerCall, OwnerStep, ThiefStep

\* The invariant always holds.
LEMMA Invariant == Spec => []IInv
BY Initially, Inductive, PTL DEF Spec

\* Types; top never passes bottom by more than the task that pop has taken back.
THEOREM TypeCorrect == Spec => []TypeOK
<1>1. IInv => TypeOK
  <2> SUFFICES ASSUME IInv PROVE TypeOK
    OBVIOUS
  <2>1. given \subseteq Tasks
    BY QueueAssumption DEF IInv, Typed, Once, Known, Tasks
  <2>2. top <= bottom + 1
    BY DEF IInv, Typed, OwnerKnows
  <2> QED
    BY <2>1, <2>2 DEF IInv, Typed, OwnerKnows, ThiefSees, TypeOK
<1> QED
  BY <1>1, Invariant, PTL
--------------------------------------------------------------------------------
(* Steps of the queue as steps of one atomic deque.                            *)

\* The queue is empty when the ends have met.
LEMMA SlicePast ==
  ASSUME IInv, End <= top PROVE Contents = <<>>
BY ArrayType, SliceSeq DEF IInv, Typed, Contents

\* Each step of the owner is one of the deque, or changes nothing of it.
LEMMA OwnerSteps ==
  ASSUME IInv, OwnerCall \/ OwnerStep
  PROVE  Deque!Next \/ UNCHANGED <<Contents, given>>
<1> USE DEF Goto, Out
<1>0. /\ Array \in Arrays /\ Size(Array) \in Sizes /\ End \in Nat /\ top \in Nat /\ b \in Nat
      /\ bottom \in Nat /\ pushed \in Nat
      /\ Typed /\ OwnerKnows /\ Once
  <2>1. Typed /\ OwnerKnows /\ Once
    BY DEF IInv
  <2>2. Array \in Arrays /\ Size(Array) \in Sizes /\ End \in Nat
    BY <2>1, ArrayType
  <2> QED
    BY <2>1, <2>2 DEF Typed
<1>1. CASE Push \/ Pop \/ PopEmpty \/ PopStoreBottom
  <2>1. Array' = Array /\ End' = End /\ top' = top /\ given' = given /\ pc # "destroyed" /\ pc' # "destroyed"
    BY <1>0, <1>1, SameArrays DEF Push, Pop, PopEmpty, PopStoreBottom, End
  <2> QED
    BY <2>1 DEF Contents
<1>2. CASE GrowArray \/ PutTask
  <2>1. \A j \in t..b - 1 : Get(Array', j) = Get(Array, j)
    BY <1>2, GrowFacts, PutFacts
  <2>2. /\ End = b /\ End' = b /\ t <= top /\ t \in Nat /\ top' = top /\ given' = given
        /\ pc # "destroyed" /\ pc' # "destroyed"
    BY <1>0, <1>2 DEF GrowArray, PutTask, OwnerKnows, Typed, End
  <2>3. Array' \in Arrays
    BY <1>2, GrowFacts, PutFacts
  <2>4. \A j \in top..b - 1 : Get(Array', j) = Get(Array, j)
    BY <1>0, <2>1, <2>2
  <2>5. Slice(Array', top, b) = Slice(Array, top, b)
    BY <1>0, <2>3, <2>4, SliceSame
  <2> QED
    BY <2>2, <2>5 DEF Contents
<1>3. CASE Publish
  <2>1. /\ End = b /\ End' = b + 1 /\ top <= b /\ top' = top /\ given' = given /\ Array' = Array
        /\ pc # "destroyed" /\ pc' # "destroyed" /\ Get(Array, b) = pushed
        /\ Known = pushed - 1 /\ pushed \in Tasks
    BY <1>0, <1>3, SameArrays DEF Publish, OwnerKnows, Typed, End, Known, Tasks
  <2>2. Contents' = Append(Contents, pushed)
    BY <1>0, <2>1, SliceAppend DEF Contents
  <2>3. pushed \notin given
    BY <1>0, <2>1 DEF Once
  <2>4. ASSUME NEW i \in DOMAIN Contents PROVE Contents[i] # pushed
    <3>1. Contents = Slice(Array, top, b)
      BY <2>1 DEF Contents
    <3>2. i \in 1..b - top
      BY <3>1 DEF Slice
    <3>3. Contents[i] = Get(Array, top + i - 1) /\ top + i - 1 \in top..b - 1
      BY <1>0, <3>1, <3>2 DEF Slice
    <3>4. Get(Array, top + i - 1) \in 1..pushed - 1
      BY <1>0, <2>1, <3>3 DEF Once
    <3> QED
      BY <1>0, <3>3, <3>4
  <2>5. Deque!Push(pushed)
    BY <2>1, <2>2, <2>3, <2>4 DEF Deque!Push
  <2> QED
    BY <2>1, <2>5 DEF Deque!Next
<1>4. CASE PopDecide
  <2>1. /\ b = bottom /\ End = b + 1 /\ top' = top /\ Array' = Array
        /\ pc # "destroyed" /\ pc' # "destroyed"
    BY <1>0, <1>4, SameArrays DEF PopDecide, OwnerKnows, End
  <2>2. CASE b > top
    <3>1. End' = b /\ given' = given \cup {Get(Array, b)}
      BY <1>0, <1>4, <2>1, <2>2 DEF PopDecide, End
    <3>2. /\ Contents # <<>> /\ Contents[Len(Contents)] = Get(Array, b)
          /\ Contents' = SubSeq(Contents, 1, Len(Contents) - 1)
      BY <1>0, <2>1, <2>2, <3>1, SliceFront DEF Contents
    <3> QED
      BY <3>1, <3>2 DEF Deque!PopBottom, Deque!Give, Deque!Next
  <2>3. CASE b = top
    <3>1. End' = End /\ given' = given
      BY <1>0, <1>4, <2>1, <2>3 DEF PopDecide, End
    <3> QED
      BY <2>1, <3>1 DEF Contents
  <2>4. CASE b < top
    <3>1. End' = b /\ given' = given
      BY <1>0, <1>4, <2>1, <2>4 DEF PopDecide, End
    <3>2. Slice(Array, top, b) = <<>> /\ Slice(Array, top, b + 1) = <<>>
      BY <1>0, <2>4, SliceSeq
    <3> QED
      BY <2>1, <3>1, <3>2 DEF Contents
  <2> QED
    BY <1>0, <2>2, <2>3, <2>4
<1>5. CASE PopWin
  <2>1. /\ b = bottom /\ End = b + 1 /\ End' = b /\ top = b /\ top' = b + 1 /\ Array' = Array
        /\ x = Get(Array, b) /\ given' = given \cup {x} /\ pc # "destroyed" /\ pc' # "destroyed"
    BY <1>0, <1>5, SameArrays DEF PopWin, OwnerKnows, End
  <2>2. /\ Contents # <<>> /\ Contents[Len(Contents)] = Get(Array, b)
        /\ SubSeq(Contents, 1, Len(Contents) - 1) = Slice(Array, top, b)
    <3>1. Contents = Slice(Array, top, b + 1) /\ top <= b
      BY <1>0, <2>1 DEF Contents
    <3>2. LET r == Slice(Array, top, b + 1) IN
          /\ r # <<>> /\ r[Len(r)] = Get(Array, b) /\ SubSeq(r, 1, Len(r) - 1) = Slice(Array, top, b)
      BY <1>0, <3>1, SliceFront
    <3> QED
      BY <3>1, <3>2
  <2>3. Slice(Array, top, b) = <<>> /\ Slice(Array, b + 1, b) = <<>>
    BY <1>0, <2>1, SliceSeq
  <2>4. Contents' = <<>>
    BY <2>1, <2>3 DEF Contents
  <2> QED
    BY <2>1, <2>2, <2>3, <2>4 DEF Deque!PopBottom, Deque!Give, Deque!Next
<1>6. CASE PopLose \/ Restore
  <2>1. /\ End <= top /\ End' <= top /\ End' \in Nat /\ top' = top /\ Array' = Array /\ given' = given
        /\ pc # "destroyed" /\ pc' # "destroyed"
    BY <1>0, <1>6, SameArrays DEF PopLose, Restore, OwnerKnows, End, Typed
  <2>2. Slice(Array, top, End) = <<>> /\ Slice(Array, top, End') = <<>>
    BY <1>0, <2>1, SliceSeq
  <2> QED
    BY <2>1, <2>2 DEF Contents
<1>7. CASE Destroy
  <2> DEFINE d == Slice(Array, top, bottom)
  <2>1. /\ Contents = d /\ Contents' = <<>>
        /\ given' = given \cup {Get(Array, i) : i \in top..bottom - 1}
    BY <1>7 DEF Destroy, Contents, End
  <2>2. {Get(Array, i) : i \in top..bottom - 1} = {d[i] : i \in DOMAIN d}
    <3>1. DOMAIN d = 1..bottom - top /\ \A i \in 1..bottom - top : d[i] = Get(Array, top + i - 1)
      BY DEF Slice
    <3>2. \A i \in 1..bottom - top : top + i - 1 \in top..bottom - 1
      BY <1>0
    <3>3. ASSUME NEW j \in top..bottom - 1
          PROVE  Get(Array, j) \in {d[i] : i \in DOMAIN d}
      <4>1. j - top + 1 \in 1..bottom - top /\ top + (j - top + 1) - 1 = j
        BY <1>0
      <4>2. d[j - top + 1] = Get(Array, j)
        BY <3>1, <4>1
      <4> QED
        BY <3>1, <4>1, <4>2
    <3> QED
      BY <3>1, <3>2, <3>3
  <2> QED
    BY <2>1, <2>2 DEF Deque!Drop, Deque!Next
<1> QED
  BY <1>1, <1>2, <1>3, <1>4, <1>5, <1>6, <1>7 DEF OwnerCall, OwnerStep

\* Each step of a thief is one of the deque, or changes nothing of it.
LEMMA ThiefSteps ==
  ASSUME IInv, NEW w \in Thieves, Steal(w) \/ ThiefStep(w) \/ StealRetry(w)
  PROVE  Deque!Next \/ UNCHANGED <<Contents, given>>
<1>1. CASE StealCAS(w)
  <2>1. /\ top < End /\ End' = End /\ top' = top + 1 /\ Array' = Array /\ pc # "destroyed"
        /\ pc' = pc /\ given' = given \cup {Get(Array, top)}
    BY <1>1, ThiefWins
  <2>2. Array \in Arrays /\ top \in Nat /\ End \in Nat
    BY ArrayType DEF IInv, Typed
  <2>3. Contents # <<>> /\ Head(Contents) = Get(Array, top) /\ Contents' = Tail(Contents)
    BY <2>1, <2>2, SliceTail DEF Contents
  <2> QED
    BY <2>1, <2>3 DEF Deque!StealTop, Deque!Give, Deque!Next
<1>2. CASE ~StealCAS(w)
  <2>1. UNCHANGED <<top, bottom, arrays, pc, given>>
    BY <1>2 DEF ThiefStep, Steal, ReadTop, StealEmpty, ReadBottom, ReadArray, ReadItem, StealRetry, owner
  <2> QED
    BY <2>1 DEF Contents, Array, End
<1> QED
  BY <1>1, <1>2

\* push, pop and steal act on one atomic double-ended queue (work_steal_queue.h), for
\* any number of thieves, any size of the first array and any number of pushes.
THEOREM DequeImplemented == Spec => ImplementsDeque
<1>1. Init => Deque!Init
  <2> SUFFICES ASSUME Init PROVE Deque!Init
    OBVIOUS
  <2>1. IInv /\ End <= top
    BY Initially DEF Init, End
  <2> QED
    BY <2>1, SlicePast DEF Init, Deque!Init
<1>2. IInv /\ [Next]_vars => [Deque!Next]_<<Contents, given>>
  <2> SUFFICES ASSUME IInv, [Next]_vars PROVE Deque!Next \/ UNCHANGED <<Contents, given>>
    OBVIOUS
  <2>1. CASE UNCHANGED vars
    BY <2>1 DEF vars, owner, Contents, Array, End
  <2> QED
    BY <2>1, OwnerSteps, ThiefSteps DEF Next
<1> QED
  BY <1>1, <1>2, Invariant, PTL DEF Spec, ImplementsDeque, Deque!Spec

\* pop and steal leave empty-handed only when there is nothing, or when the owner is
\* about to take the last task.
THEOREM EmptyHanded == Spec => EmptyHandedOnlyIfEmpty
<1> DEFINE A == /\ pc \notin {"idle", "publish"} /\ pc' = "idle" /\ given' = given => Contents = <<>>
                /\ \A w \in Thieves : StealEmpty(w) =>
                     Contents = <<>> \/ (pc \in {"decide", "last"} /\ Len(Contents) = 1)
<1>1. IInv /\ [Next]_vars => [A]_vars
  <2> SUFFICES ASSUME IInv, Next PROVE A
    BY DEF vars, owner
  <2>0. Array \in Arrays /\ top \in Nat /\ End \in Nat /\ bottom \in Nat /\ b \in Nat
    BY ArrayType DEF IInv, Typed
  <2>1. ASSUME pc \notin {"idle", "publish"}, pc' = "idle", given' = given
        PROVE  Contents = <<>>
    <3>1. PopEmpty \/ PopDecide \/ Restore
      BY <2>1 DEF Next, OwnerCall, OwnerStep, Push, GrowArray, PutTask, Publish, Pop,
        PopStoreBottom, PopWin, PopLose, Destroy, ThiefStep, Steal, ReadTop, StealEmpty,
        ReadBottom, ReadArray, ReadItem, StealCAS, StealRetry, owner, Goto
    <3>2. CASE PopEmpty \/ Restore
      <4>1. End <= top
        BY <2>0, <3>2 DEF PopEmpty, Restore, IInv, OwnerKnows, End
      <4> QED
        BY <4>1, SlicePast
    <3>3. CASE PopDecide
      <4>1. b > top /\ End = b + 1 /\ Get(Array, b) \in given /\ pc # "destroyed"
        BY <2>0, <2>1, <3>3 DEF PopDecide, IInv, OwnerKnows, End, Goto, Out
      <4>2. b \in top..End - 1
        BY <2>0, <4>1
      <4> QED
        BY <4>1, <4>2 DEF IInv, Once
    <3> QED
      BY <3>1, <3>2, <3>3
  <2>2. ASSUME NEW w \in Thieves, StealEmpty(w)
        PROVE  Contents = <<>> \/ (pc \in {"decide", "last"} /\ Len(Contents) = 1)
    <3>1. bottom <= top
      BY <2>0, <2>2 DEF StealEmpty, IInv, ThiefSees, Typed
    <3>2. CASE End <= top
      BY <3>2, SlicePast
    <3>3. CASE End > top
      <4>1. pc \in {"decide", "last"} /\ End = top + 1
        BY <2>0, <3>1, <3>3 DEF End
      <4> QED
        <5>1. Contents = Slice(Array, top, End) /\ top <= End /\ End - top = 1
          BY <2>0, <4>1 DEF Contents
        <5> QED
          BY <2>0, <4>1, <5>1, SliceSeq
    <3> QED
      BY <2>0, <3>2, <3>3
  <2> QED
    BY <2>1, <2>2
<1> QED
  BY <1>1, Invariant, PTL DEF Spec, EmptyHandedOnlyIfEmpty
================================================================================
